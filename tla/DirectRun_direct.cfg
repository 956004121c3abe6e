\* Two runs race for one name over direct connections whose tokens expire; one
\* upload, a required and an optional output; the second run keeps its sandbox.
CONSTANTS
    r1 = r1
    r2 = r2
    n1 = n1
    NoRun = NoRun
    Runs <- TwoRuns
    Names <- OneName
    NameOf <- SameName
    KeepRuns <- KeepSecond
    AgentRuns <- TwoRuns
    NumUploads = 1
    NumDownloads = 2
    Required = {1}
    IssuerFails = FALSE
SPECIFICATION FairDirectSpec
INVARIANTS OnlyReportedLeaks AgentInOwnSandbox SuccessIsComplete OnlySignalCutsCleanup
PROPERTIES DeletesOnlyOwn OutputsBeforeDelete ImplementsLease CancelledRunEnds
CHECK_DEADLOCK FALSE
