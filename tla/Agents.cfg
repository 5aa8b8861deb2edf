SPECIFICATION FairSpec
CONSTANTS
    Charts = {c1, c2}
    Pods = {p1, p2}
    NoChart = NoChart
    NoJob = NoJob
    NoPod = NoPod
    MaxIssues = 2
    MaxRetries = 1
    MaxFaults = 1
CONSTRAINT UpToACause
\* A settled installation rests.
CHECK_DEADLOCK FALSE
INVARIANTS
    OneCredential
    WedgesAreKnown
    SettledIsDeployed
PROPERTIES
    Settles
