SPECIFICATION FairSpec
CONSTANTS
    Workers = {w1}
    MaxAttempts = 2
    MaxRows = 1
    MaxEdits = 0
    MaxRetries = 1
    MaxFaults = 1
CHECK_DEADLOCK FALSE
INVARIANTS
    RetryBudget
PROPERTIES
    DecommissionEnds
