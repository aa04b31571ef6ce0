SPECIFICATION FairSpec
CONSTANTS
    grpc = grpc
    netobserv = netobserv
    push = push
    Servers <- MCNone
    Clients <- MCClient
    JoinSetStop = FALSE
    NetlinkReads = TRUE
    DumpMayFail = TRUE
    SignalCap = 2
    MaxSignals = 4
CHECK_DEADLOCK FALSE
INVARIANTS
    TypeOK
    GracefulIsComplete
PROPERTIES
    ImplementsService
    OnlyDumpErrorBlocks
