CONSTANTS
    Calls <- MCCalls
    ModuleSources <- MCModuleSources
    NormalizeResults <- MCNormalizeAny
SPECIFICATION Spec
INVARIANT FailureReported
