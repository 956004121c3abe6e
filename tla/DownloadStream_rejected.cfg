\* The extractor refuses an entry while more than a window is still to come.
CONSTANTS
    NumEntries = 4
    Padding = 2
    Window = 2
    MayReject = TRUE
SPECIFICATION FairSpec
PROPERTIES NeitherSideWaits
CHECK_DEADLOCK FALSE
