SPECIFICATION Spec
CONSTANTS
    Key <- MCKey
    ControllerOf <- MCControllerOf
    Object <- MCObject
    Target <- MCTarget
    Extra <- MCExtra
    Lingering <- MCLingering
    Replicas = {0, 1}
    MaxEdits = 1
    MaxFaults = 0
    MaxDrift = 0
    MaxReports = 0
PROPERTY
    ReplicasAsAsked
CHECK_DEADLOCK FALSE
