SPECIFICATION FairSpec
CONSTANTS
    Investigations = {i1}
    Runs = {r1, r2}
    Workers = {w1}
    Events = {e1, e2}
    NoCase = NoCase
    NoRun = NoRun
    MaxAttempts = 2
    PostAttempts = 2
    MaxFaults = 1
    MaxUnlocks = 0
CHECK_DEADLOCK FALSE
PROPERTIES
    RunSettles
    FlaggedIsExamined
