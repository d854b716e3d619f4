\* A deposed leader keeps an entry that only it holds and leads again.
CONSTANTS
    n1 = n1
    n2 = n2
    n3 = n3
    n4 = n4
    n5 = n5
    c = c
    Node = {n1, n2, n3}
    Command = {c}
    Nil = Nil
    PeerOrder <- VoterLast
    MayStand <- ThereAndBack
    MayPropose <- OneEach
    Reaches <- Everyone
    MaxLate = 0
    MaxRestart = 0
SPECIFICATION Spec
CHECK_DEADLOCK FALSE
INVARIANT StateMachineSafety
