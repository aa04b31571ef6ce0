SPECIFICATION FairSpec
CONSTANTS
    f = f
    g = g
    Files <- MCFiles
    Samples <- MCSamples
    Fragile <- MCFragile
    Queue = 1
    MsgLimit = 2
    Watchers = 2
CHECK_DEADLOCK FALSE
INVARIANTS
    TypeOK
    NothingForgotten
    LastWordIsNewest
PROPERTIES
    ImplementsMirror
    EverySampleArrives
    EndsWhenTold
