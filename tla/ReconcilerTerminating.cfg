SPECIFICATION Spec
CONSTANTS
    Key <- MCKey
    ControllerOf <- MCControllerOf
    Object <- MCObject
    Target <- MCTarget
    Extra <- MCExtra
    Lingering <- MCLingering
    Replicas = {1}
    MaxEdits = 2
    MaxFaults = 0
    MaxDrift = 0
    MaxReports = 0
INVARIANT
    ReleasedMeansGone
CHECK_DEADLOCK FALSE
