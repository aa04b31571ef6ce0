SPECIFICATION FairSpec
CONSTANTS
    x = x
    y = y
    z = z
    peer = peer
    own = own
    Sockets <- MCSockets
    Family <- MCFamily
    Source <- MCSource
    Addresses <- MCAddresses
    Loopback <- MCLoopback
    DumpMayFail = TRUE
    MaxActivity = 3
    MaxRounds = 3
CHECK_DEADLOCK FALSE
INVARIANTS
    TypeOK
    RequestIsRecords
PROPERTIES
    RepeatIsHigher
    DumpsEnd
