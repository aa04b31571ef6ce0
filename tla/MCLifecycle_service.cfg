SPECIFICATION FairSpec
CONSTANTS
    grpc = grpc
    netobserv = netobserv
    push = push
    Servers <- MCServer
    Clients <- MCClient
    JoinSetStop = TRUE
    NetlinkReads = FALSE
    DumpMayFail = FALSE
    SignalCap = 2
    MaxSignals = 2
CHECK_DEADLOCK FALSE
PROPERTIES
    ImplementsService
    StopTerminates
    StopIsHonoured
