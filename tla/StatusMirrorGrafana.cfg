SPECIFICATION Spec
CONSTANTS
    Kinds = {"Grafana"}
    Counts = {1, 2}
    Fast = 2
    Slow = 3
    BaseBackoff = 1
    MaxBackoff = 5
    MaxEdits = 0
    MaxFaults = 0
    MaxStops = 0
INVARIANT
    ReadyAsDocumented
