CONSTANTS
    EvalCalls <- AllCalls
    HeapMayFail = FALSE
SPECIFICATION Spec
INVARIANT NoOverRelease
INVARIANT OwnershipAtReturn
