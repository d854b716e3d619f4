\* Writers, worker, watch and resync of one controller, two objects; the
\* watch loses the notifications of one of them.
CONSTANTS
    a = a
    b = b
    Key <- Keys
    Nil = Nil
    Lossy <- LossyKeys
    Overflow = 1025
    MaxWrite = 2
    MaxFail = 1
SPECIFICATION FairSpec
CHECK_DEADLOCK FALSE
INVARIANT TypeOK
INVARIANT QueueConsistent
INVARIANT NoChangeLost
PROPERTY ChangesAreSeen
