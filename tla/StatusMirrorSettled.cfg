SPECIFICATION Spec
CONSTANTS
    Kinds = {"Valkey"}
    Counts = {1, 2}
    Fast = 2
    Slow = 3
    BaseBackoff = 1
    MaxBackoff = 5
    MaxEdits = 1
    MaxFaults = 0
    MaxStops = 0
PROPERTY
    SlowOnceSettled
