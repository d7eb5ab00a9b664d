SPECIFICATION FairSpec
CONSTANTS
    Key <- MCKey
    ControllerOf <- MCControllerOf
    Object <- MCObject
    Target <- MCTarget
    Extra <- MCExtra
    Lingering <- MCLingering
    Replicas = {1}
    MaxEdits = 2
    MaxFaults = 0
    MaxDrift = 1
    MaxReports = 1
PROPERTIES
    Converges
    ImplementsLifecycle
CHECK_DEADLOCK FALSE
