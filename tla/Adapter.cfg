SPECIFICATION FairSpec
CONSTANTS
    Alerts <- Burst
    Adapters = {p1, p2}
    Start <- FirstTimestamp
    BatchSize = 2
    MaxFaults = 1
CHECK_DEADLOCK FALSE
INVARIANTS
    NothingSkipped
    DurableInSync
PROPERTIES
    AlertsArrive
