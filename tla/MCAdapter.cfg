SPECIFICATION FairSpec
CONSTANTS
    a = a
    b = b
    Callers <- MCCallers
    Batches <- MCBatches
    Ring = 2
    Window = 2
    MaxCalls = 3
CHECK_DEADLOCK FALSE
INVARIANTS
    TypeOK
    NothingVanishes
PROPERTIES
    ImplementsFifo
    SamplesSettle
    ClientStops
