SPECIFICATION Spec
CONSTANTS
    Investigations = {i1, i2}
    Runs = {r1, r2, r3}
    Workers = {w1}
    Events = {e1, e2, e3}
    NoCase = NoCase
    NoRun = NoRun
    MaxAttempts = 1
    PostAttempts = 1
    MaxFaults = 0
    MaxUnlocks = 1
SYMMETRY Symmetric
CHECK_DEADLOCK FALSE
INVARIANTS
    SingleLiveRun
    CancelledIsQuiet
PROPERTIES
    FollowUpCoversFlagged
