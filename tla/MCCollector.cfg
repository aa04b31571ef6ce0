SPECIFICATION Spec
CONSTANTS
    s1 = s1
    s2 = s2
    f1 = f1
    x = x
    y = y
    ip = ip
    port = port
    c1 = c1
    c2 = c2
    a1 = a1
    a2 = a2
    server = server
    net = net
    serverNet = serverNet
    Streams <- MCStreams
    Flows <- MCFlows
    Hosts <- MCHosts
    Addr <- MCAddr
    Conns <- MCConns
    Src <- MCSrc
    Dst <- MCDst
    Type <- MCType
    SrcTrunc <- MCSrcTrunc
    DstTrunc <- MCDstTrunc
    Rtts = {1, 3}
    Bounds = {2}
    Inf = Inf
    Msgs <- MCMsgs
    Timeout = 1
    Capacity = 2
    MaxTime = 1
    MaxMsgs = 2
    MaxScrapes = 1
CHECK_DEADLOCK FALSE
SYMMETRY MCSymmetry
INVARIANTS
    TypeOK
    EntryIsLeast
    CountersCoverStore
    PageIsComplete
    PageIsExact
