SPECIFICATION Spec
CONSTANTS
    Investigations = {i1}
    Runs = {r1, r2}
    Workers = {w1, w2}
    Events = {e1, e2}
    NoCase = NoCase
    NoRun = NoRun
    MaxAttempts = 2
    PostAttempts = 2
    MaxFaults = 1
    MaxUnlocks = 1
SYMMETRY Symmetric
CHECK_DEADLOCK FALSE
INVARIANTS
    OneVerdict
    AttemptsCharged
PROPERTIES
    ImplementsContract
    LeaseFenced
