CONSTANTS
    Programs <- StripPrograms
    InitCapacity = 3
    MaxAllocFailures = 1
SPECIFICATION Spec
INVARIANT TypeOK
INVARIANT EditsOrdered
INVARIANT OutputIsBlanking
INVARIANT UnsupportedLeftVerbatim
INVARIANT RangesFitCapacity
INVARIANT SuccessErasesExactlyTypes
INVARIANT AsiPreserved
