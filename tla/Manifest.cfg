SPECIFICATION Spec
CONSTANTS
    Builders <- AllBuilders
    Counts = {1, 2}
    MaxEdits = 3
    MaxForeign = 2
INVARIANTS
    ManifestInv
    MatchesManifest
PROPERTIES
    EditReachesTarget
    WriteKeepsRequest
