------------------------ MODULE HakoPropertyNamesMC ------------------------
EXTENDS HakoPropertyNames

\* Every table of at most three atoms.
MCTables == UNION {[1..n -> AtomKinds] : n \in 0..3}

MCFlagSets == [string : BOOLEAN, number : BOOLEAN, compliant : BOOLEAN]
=============================================================================
