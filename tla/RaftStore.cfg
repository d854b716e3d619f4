\* Two controllers on two nodes write one object; a node restarts.
CONSTANTS
    c1 = c1
    c2 = c2
    n1 = n1
    n2 = n2
    k1 = k1
    Client <- Clients
    Node <- Nodes
    Home <- Homes
    Key <- Keys
    Absent = Absent
    HistoryLimit = 2
    a1 = a1
    a2 = a2
    a3 = a3
    Identity <- Addresses
    MayHave <- Placed
    Fresh <- Specs
    Attempts = 2
    MaxCalls <- CallsOf
    Restarting <- Restarts
    MaxRestarts = 1
SPECIFICATION Spec
CHECK_DEADLOCK FALSE
SYMMETRY AddressSymmetry
INVARIANT TypeOK
INVARIANT ReplicasAgree
INVARIANT AnswersAreTrue
INVARIANT ReadsItsWrite
INVARIANT NoLostUpdate
INVARIANT ReplayIsNewest
PROPERTY KeepsContract
