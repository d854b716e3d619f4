CONSTANTS
    c1 = c1
    c2 = c2
    base = base
    app = app
    None = None
    Container = {c1, c2}
    Layer = {base, app}
    LayersOf <- Images
    MaxFaults = 2

SPECIFICATION FairSpec
INVARIANT RunsOnWholeLayers
INVARIANT DeleteIsFinal
PROPERTY StartEnds
CHECK_DEADLOCK FALSE
