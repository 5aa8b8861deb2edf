SPECIFICATION Spec
CONSTANTS
    Charts = {c1, c2}
    Pods = {p1}
    NoChart = NoChart
    NoJob = NoJob
    NoPod = NoPod
    MaxIssues = 1
    MaxRetries = 1
    MaxFaults = 0
CHECK_DEADLOCK FALSE
INVARIANTS
    AlwaysRecoverable
