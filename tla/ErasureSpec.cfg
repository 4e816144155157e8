CONSTANTS
    Programs <- SpecPrograms
    InitCapacity = 128
    MaxAllocFailures = 0
SPECIFICATION Spec
INVARIANT ErasureFollowsSpec
