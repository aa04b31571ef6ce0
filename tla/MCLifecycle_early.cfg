SPECIFICATION FairSpec
CONSTANTS
    grpc = grpc
    netobserv = netobserv
    push = push
    Servers <- MCTwoServers
    Clients <- MCNone
    JoinSetStop = TRUE
    NetlinkReads = FALSE
    DumpMayFail = FALSE
    SignalCap = 2
    MaxSignals = 1
CHECK_DEADLOCK FALSE
INVARIANTS
    GracefulIsComplete
