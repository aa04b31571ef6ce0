SPECIFICATION FairSpec
CONSTANTS
    a = a
    b = b
    Callers <- MCCallers
    Batches <- MCBatches
    Ring = 2
    Window = 1
    MaxCalls = 2
CHECK_DEADLOCK FALSE
INVARIANTS
    RequestsReachChannel
