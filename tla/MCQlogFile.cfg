SPECIFICATION Spec
CONSTANTS
    t1 = t1
    t2 = t2
    ip1 = ip1
    ip2 = ip2
    Tuples <- MCTuples
    DefaultT = t1
    Ips <- MCIps
    NoIp = NoIp
    MaxEvents = 4
CHECK_DEADLOCK FALSE
INVARIANTS
    SamplesAttributed
