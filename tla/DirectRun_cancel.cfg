\* One run, an issuer that always answers, and a signal: is the sandbox deleted?
CONSTANTS
    r1 = r1
    r2 = r2
    n1 = n1
    NoRun = NoRun
    Runs <- OneRun
    Names <- OneName
    NameOf <- SameName
    KeepRuns <- NoRuns
    AgentRuns <- OneRun
    NumUploads = 1
    NumDownloads = 1
    Required = {1}
    IssuerFails = FALSE
SPECIFICATION DirectSpec
INVARIANTS CleanupReachesGateway
CHECK_DEADLOCK FALSE
