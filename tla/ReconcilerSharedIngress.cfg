SPECIFICATION Spec
CONSTANTS
    Key <- MCKey
    ControllerOf <- MCControllerOf
    Object <- MCObject
    Target <- MCTarget
    Extra <- MCExtra
    Lingering = {}
    Replicas = {1}
    MaxEdits = 2
    MaxFaults = 0
    MaxDrift = 0
    MaxReports = 0
PROPERTY
    ManagesOwnExtras
CHECK_DEADLOCK FALSE
