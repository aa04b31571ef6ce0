SPECIFICATION FairSpec
CONSTANTS
    x = x
    y = y
    z = z
    peer = peer
    own = own
    Sockets <- MCSockets
    Family <- MCFamily
    Source <- MCSource
    Addresses <- MCAddresses
    Loopback <- MCLoopback
    DumpMayFail = TRUE
    MaxActivity = 3
    MaxRounds = 2
CHECK_DEADLOCK FALSE
INVARIANTS
    NewDataIsSent
