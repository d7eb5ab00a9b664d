SPECIFICATION FairSpec
CONSTANTS
    Kinds <- AllKinds
    Counts = {1, 2}
    Fast = 2
    Slow = 3
    BaseBackoff = 1
    MaxBackoff = 5
    MaxEdits = 2
    MaxFaults = 1
    MaxStops = 1
INVARIANTS
    MirrorInv
    MirrorIsRecent
    ReadyMeansCounted
PROPERTIES
    ReportsReady
    ComesToRest
