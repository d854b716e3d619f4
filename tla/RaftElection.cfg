\* Rival candidates; one request outlives its caller, two crashes.
CONSTANTS
    n1 = n1
    n2 = n2
    n3 = n3
    n4 = n4
    n5 = n5
    Node = {n1, n2, n3}
    Command = {}
    Nil = Nil
    PeerOrder <- AnyOrder
    MayStand <- Rivals
    MayPropose <- NoProposal
    Reaches <- Everyone
    MaxLate = 1
    MaxRestart = 2
SPECIFICATION Spec
CHECK_DEADLOCK FALSE
SYMMETRY RivalSymmetry
INVARIANT TypeOK
INVARIANT ElectionSafety
PROPERTY VoteIsFinal
