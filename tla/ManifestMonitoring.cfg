SPECIFICATION Spec
CONSTANTS
    Builders <- AllBuilders
    Counts = {1, 2}
    MaxEdits = 0
    MaxForeign = 0
INVARIANT
    MonitoredByDefault
