SPECIFICATION Spec
CONSTANTS
    Investigations = {i1}
    Runs = {r1, r2}
    Workers = {w1}
    Events = {e1, e2, e3}
    NoCase = NoCase
    NoRun = NoRun
    MaxAttempts = 1
    PostAttempts = 1
    MaxFaults = 0
    MaxUnlocks = 0
SYMMETRY Symmetric
CHECK_DEADLOCK FALSE
\* TLC stops at the first property it finds violated: leave in the one to be seen.
PROPERTIES
    RecurrencePickedUp
    AccumulatedEvidenceRead
    ReviewsOnlyOpenCases
    CancelIsTerminal
