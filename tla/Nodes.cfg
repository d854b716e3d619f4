CONSTANTS
    n1 = n1
    n2 = n2
    p1 = p1
    p2 = p2
    None = None
    Pod = {p1, p2}
    Node = {n1, n2}
    Demand <- OneEach
    Capacity <- Places
    Replicas = 2
    MaxFaults = 1

SPECIFICATION FairSpec
INVARIANT NotOvercommitted
INVARIANT NoLostProcess
PROPERTY NotRevived
PROPERTY Recovers
CHECK_DEADLOCK FALSE
