SPECIFICATION Spec
CONSTANTS
    Observables = {ip, hash}
    Policies <- MCPolicies
    Batch = 1
    MAX_ITERATIONS = 3
    RecursionLimit = 22
SYMMETRY Symmetry
CHECK_DEADLOCK FALSE
\* TLC stops at the first property it finds violated: leave in the one to be seen.
INVARIANTS
    IntelCloseInterrupted
    IndicatorsLookedAt
