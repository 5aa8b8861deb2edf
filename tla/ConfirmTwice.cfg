SPECIFICATION ChatSpec
CONSTANTS
    Turns = {t1, t2}
    Clicks = {k1, k2}
    Answers <- MCAnswers
    Budget = 2
    Tracking = TRUE
    MAX_TOOL_ITERATIONS = 2
SYMMETRY Symmetry
\* A conversation may rest.
CHECK_DEADLOCK FALSE
INVARIANTS ConfirmedOnce
