CONSTANTS
    HDR = 2
    Size <- Sizes
    MaxSize = 4
    MayClose = TRUE
SPECIFICATION FairSpec
INVARIANT MessagesIntact
PROPERTY EveryMessageArrives
CHECK_DEADLOCK FALSE
