\* Four chunks typed: the input goroutine blocks in a write when the pump gives up.
CONSTANTS
    MaxTyped = 4
    InRoom = 1
    OutRoom = 1
    MaxResizes = 2
SPECIFICATION FairSpec
PROPERTIES CancellationReleases
CHECK_DEADLOCK FALSE
