CONSTANTS
    Programs <- MCPrograms
    InitCapacity = 3
    MaxAllocFailures = 1
SPECIFICATION Spec
INVARIANT AllocationFailureReported
