SPECIFICATION Spec
CONSTANTS
    Charts = {c1, c2}
    Pods = {p1}
    NoChart = NoChart
    NoJob = NoJob
    NoPod = NoPod
    MaxIssues = 2
    MaxRetries = 0
    MaxFaults = 0
CHECK_DEADLOCK FALSE
\* TLC stops at the first property it finds violated: leave in the one to be seen.
INVARIANTS
    LostTokenIsDead
    NothingToDesync
