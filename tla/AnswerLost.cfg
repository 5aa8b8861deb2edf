SPECIFICATION Spec
CONSTANTS
    Day = 4
    ROUTINE_MIN = 5
    DefaultPlace = "default"
    NoOrg = "none"
    c1 = c1
    Cases = {c1}
    Answers = {x1, x2}
    AlertOf <- MCAlertOf
    FileChanges <- MCFileChanges
    SystemFacts <- MCSystemFacts
    AnalystFacts <- MCAnalystFacts
    TenantFacts <- MCTenantFacts
    Untils = {1, 3}
    NoRow = NoRow
    NoQuestion = NoQuestion
    MaxNow = 2
    MaxEdits = 3
    MaxReviews = 2
SYMMETRY Symmetry
CHECK_DEADLOCK FALSE
INVARIANTS
    AnswerRemembered
