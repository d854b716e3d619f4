CONSTANTS
    Path <- Paths
    Content <- Contents
    Stat <- Distinct
    Tag = {"base", "app"}
    Program <- PurgeOnly
    Command = {"clean", "fetch", "swap", "purge"}
    Effect <- Effects
    Sources <- Tree0
    Ignored <- IgnoreD
    Pusher = {u1}
    MaxEdits = 1
    MaxBuilds = 3
    MaxFails = 1

SPECIFICATION Spec
INVARIANT EveryImageUnpacks
CHECK_DEADLOCK FALSE
