SPECIFICATION FairSpec
CONSTANTS
    Process = {p1, p2}
    LeaseDuration = 4
    RenewDeadline = 3
    RetryPeriod = 1
    MaxCuts = 2
    MaxFailures = 3
INVARIANTS
    LeaseInv
    OneActive
PROPERTY
    AllServed
