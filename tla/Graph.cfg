SPECIFICATION Spec
CONSTANTS
    Observables = {ip, hash}
    Policies <- MCPolicies
    Batch = 1
    MAX_ITERATIONS = 4
    RecursionLimit = 22
SYMMETRY Symmetry
CHECK_DEADLOCK FALSE
INVARIANTS FloorIsSecondLine PolicyKept SignoffHolds FailuresJudgeNothing BoundedRun
