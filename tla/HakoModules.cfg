CONSTANTS
    Calls <- MCCalls
    ModuleSources <- MCModuleSources
    NormalizeResults <- MCNormalizeFound
SPECIFICATION Spec
PROPERTY HostContract
