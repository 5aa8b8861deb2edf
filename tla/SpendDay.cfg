SPECIFICATION Spec
CONSTANTS
    Runs = {r1, r2}
    NoRun = NoRun
    Calls <- MCCalls
    Budgets <- MCOnly
    StartBudget <- MCStart
    DailyCap <- MCStart
    CostTracking = TRUE
    CallsPerRound = 1
    MaxAttempts = 2
    MaxLeases = 2
    MaxReports = 1
    MaxChats = 1
    MaxUnlocks = 0
    MaxCrashes = 1
    MaxExpiries = 1
    MaxDays = 0
SYMMETRY Symmetry
\* The bounded events run out.
CHECK_DEADLOCK FALSE
INVARIANT DayKept
