SPECIFICATION Spec
CONSTANTS
    MaxCalls <- MCMaxCalls
    MaxJobs <- MCMaxJobs
    BoxMayFail = FALSE
    NoException = "uninitialized"
INVARIANT JobsAsDocumented
