\* A settled deployment of two replicas is edited and rolled back; a pod fails.
CONSTANTS
    a = a
    b = b
    Template <- Two
    None = None
    Size <- Sizes
    Start <- AtA
    MaxSurge = 1
    MaxUnavailable = 0
    MaxPods = 6
    MaxEdits = 2
    MaxFaults = 1
SPECIFICATION FairSpec
CHECK_DEADLOCK FALSE
INVARIANT TypeOK
INVARIANT SurgeBounded
INVARIANT FloorHeld
INVARIANT CompleteIsCurrent
PROPERTY RolloutEnds
