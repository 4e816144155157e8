--------------------------- MODULE StripContextMC ---------------------------
EXTENDS StripContext, TLC

CONSTANTS r1, r2

MCRuntimes == {r1, r2}

MCSymmetry == Permutations(MCRuntimes)
=============================================================================
