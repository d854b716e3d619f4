CONSTANTS
    Path <- Paths
    Content <- Contents
    Stat <- Distinct
    Tag = {"base", "app"}
    Program <- Programs
    Command = {"clean", "fetch", "swap", "purge"}
    Effect <- Effects
    Sources <- Tree0
    Ignored <- IgnoreD
    Pusher = {u1, u2}
    MaxEdits = 1
    MaxBuilds = 3
    MaxFails = 1

SPECIFICATION Spec
SYMMETRY Sym
CONSTRAINT Budget
INVARIANT RootfsIsLayers
INVARIANT IndexClosed
INVARIANT MountedAsBuilt
PROPERTY StepsAreReal
CHECK_DEADLOCK FALSE
