\* A leader is replaced while it replicates a command of its own.
CONSTANTS
    n1 = n1
    n2 = n2
    n3 = n3
    n4 = n4
    n5 = n5
    c = c
    Node = {n1, n2, n3}
    Command = {c}
    Nil = Nil
    PeerOrder <- VoterLast
    MayStand <- Handover
    MayPropose <- Conflicting
    Reaches <- Everyone
    MaxLate = 0
    MaxRestart = 0
SPECIFICATION Spec
CHECK_DEADLOCK FALSE
INVARIANT LogsMatchUntilTorn
PROPERTY LeaderAppendOnly
PROPERTY CommitsOwnTerm
