\* One leader, two commands; a request outlives its caller, two crashes.
CONSTANTS
    n1 = n1
    n2 = n2
    n3 = n3
    Node = {n1, n2, n3}
    Key <- Keys
    Command <- SetOnly
    Nil = Nil
    PeerOrder <- AnyOrder
    MayStand <- OneLeader
    MayPropose <- TwoCalls
    Reaches <- Everyone
    MaxLate = 1
    MaxRestart = 2
SPECIFICATION KVSpec
CHECK_DEADLOCK FALSE
CONSTRAINT Budget
SYMMETRY FollowerSymmetry
INVARIANT AppliedInOrder
INVARIANT AppliedIsDurable
INVARIANT AckedIsDurable
