\* Every command on small workflows, while providers come and go.
CONSTANTS
    prov1 = prov1
    NoProvider = NoProvider
    Providers <- OneProvider
    Workflows <- SomeWorkflows
SPECIFICATION Spec
INVARIANTS PlannedInOrder SuccessIsPlan PlanGatesRun ShownAsSeen
CHECK_DEADLOCK FALSE
