SPECIFICATION Spec
CONSTANTS
    Annotations = {}
    Webhooks = {}
    Gated = {g1}
    Executors = {x1}
    Operators = {o1, o2}
    None = None
    MaxAttempts = 2
    MaxCrashes = 0
SYMMETRY Symmetric
CHECK_DEADLOCK FALSE
INVARIANTS
    RejectedHasNoRow
