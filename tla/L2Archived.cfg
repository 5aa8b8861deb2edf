SPECIFICATION Spec
CONSTANTS
    Workers = {w1}
    MaxAttempts = 1
    MaxRows = 1
    MaxEdits = 0
    MaxRetries = 0
    MaxFaults = 0
CHECK_DEADLOCK FALSE
INVARIANTS
    L2Authoritative
