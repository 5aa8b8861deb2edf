SPECIFICATION Spec
CONSTANTS
    Runs = {r1}
    NoRun = NoRun
    Calls <- MCCalls
    Budgets <- MCRaised
    StartBudget <- MCStart
    DailyCap <- MCCap
    CostTracking = TRUE
    CallsPerRound = 1
    MaxAttempts = 2
    MaxLeases = 2
    MaxReports = 2
    MaxChats = 0
    MaxUnlocks = 1
    MaxCrashes = 1
    MaxExpiries = 1
    MaxDays = 1
\* The bounded events run out.
CHECK_DEADLOCK FALSE
INVARIANTS BooksComplete NoDoubleBooking RunCapHonest UnlockedRunWorks
