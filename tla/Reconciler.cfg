SPECIFICATION FairSpec
CONSTANTS
    Key <- MCKey
    ControllerOf <- MCControllerOf
    Object <- MCObject
    Target <- MCTarget
    Extra <- MCExtra
    Lingering <- MCLingering
    Replicas = {1}
    MaxEdits = 3
    MaxFaults = 1
    MaxDrift = 1
    MaxReports = 0
INVARIANTS
    IInv
    ObservedInv
    NoOrphan
    ObservedMeansApplied
    ObservedMeansPruned
    NeverForgotten
PROPERTIES
    NoPrematureDelete
    NoLostEdit
    NoRegress
    AnnouncesCreation
    Converges
CHECK_DEADLOCK FALSE
