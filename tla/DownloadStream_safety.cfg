\* Any archive, a window smaller than it, and an extractor that may refuse.
CONSTANTS
    NumEntries = 4
    Padding = 2
    Window = 2
    MayReject = TRUE
SPECIFICATION CancelSpec
INVARIANTS InstalledIsComplete NotFoundIsMissing NoGoroutineLeft
PROPERTIES CancelledReturns AcceptedReturns
CHECK_DEADLOCK FALSE
