\* A terminal: three chunks typed, one fits the stream in each direction.
CONSTANTS
    MaxTyped = 3
    InRoom = 1
    OutRoom = 1
    MaxResizes = 2
SPECIFICATION FairSpec
INVARIANTS TypeOK ExitCodeAfterOutput StdinReleased
PROPERTIES CancelledReturns
CHECK_DEADLOCK FALSE
