CONSTANTS
    r1 = r1
    r2 = r2
    Runtimes <- MCRuntimes
    ResetAfterParse = TRUE
    TsAllocMayFail = FALSE
    MaxAllocFailures = 1
    MaxEvalDepth = 2
SYMMETRY MCSymmetry
SPECIFICATION Spec
INVARIANT FreedByOwner
INVARIANT Accounted
INVARIANT NeutralBinding
