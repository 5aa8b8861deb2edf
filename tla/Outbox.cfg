SPECIFICATION FairSpec
CONSTANTS
    Annotations = {}
    Webhooks = {h1}
    Gated = {g1}
    Executors = {x1, x2}
    Operators = {o1, o2}
    None = None
    MaxAttempts = 2
    MaxCrashes = 1
CHECK_DEADLOCK FALSE
INVARIANTS
    PostsBounded
    SucceededIsDone
PROPERTIES
    PostedOnlyWhileApproved
    NeverPostedAgain
    RowsSettle
