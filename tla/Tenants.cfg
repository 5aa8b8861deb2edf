SPECIFICATION Spec
CONSTANTS
    Workers = {w1, w2}
    MaxAttempts = 1
    MaxRows = 1
    MaxEdits = 1
    MaxRetries = 1
    MaxFaults = 1
CHECK_DEADLOCK FALSE
SYMMETRY Symmetry
CONSTRAINT OneThingAtATime
INVARIANTS
    OneRunner
    RenderedUnlessMissed
    ArchivedClean
PROPERTIES
    OperatorWins
