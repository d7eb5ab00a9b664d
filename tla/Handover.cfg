SPECIFICATION HandoverSpec
CONSTANTS
    Key <- MCKey
    ControllerOf <- MCControllerOf
    Object <- MCObject
    Target <- MCTarget
    Extra <- MCExtra
    Lingering <- MCLingering
    Replicas = {1}
    MaxEdits = 3
    MaxFaults = 1
    MaxDrift = 0
    MaxReports = 0
INVARIANTS
    HandoverInv
    OnlyStraysOrphaned
PROPERTIES
    OnlyLateDeletes
    NoLostEditLate
    Recovers
CHECK_DEADLOCK FALSE
