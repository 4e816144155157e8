CONSTANTS
    EvalCalls <- AllCalls
    HeapMayFail = FALSE
SPECIFICATION Spec
PROPERTY EvalReturns
