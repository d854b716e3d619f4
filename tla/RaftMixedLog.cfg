\* A deposed leader sends entries of its successor under its own term.
CONSTANTS
    n1 = n1
    n2 = n2
    n3 = n3
    n4 = n4
    n5 = n5
    c = c
    Node = {n1, n2, n3, n4, n5}
    Command = {c}
    Nil = Nil
    PeerOrder <- InTurn
    MayStand <- Successors
    MayPropose <- Replacing
    Reaches <- Split
    MaxLate = 0
    MaxRestart = 0
SPECIFICATION Spec
CHECK_DEADLOCK FALSE
INVARIANT LogMatching
