CONSTANTS
    Tables <- MCTables
    FlagSets <- MCFlagSets
    AllocMayFail = FALSE
SPECIFICATION Spec
INVARIANT PtrsInBounds
PROPERTY CallContract
