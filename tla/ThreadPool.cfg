CONSTANTS
    Scenarios <- MCScenarios
    Callers = {c1, c2, c3}
    Killers = {c1, c2}
    MaxJobs = 1
    Workers = {w1, w2, w3}
    Size = 2

SPECIFICATION LiveSpec
INVARIANT PoolBounded
INVARIANT PoolIsUsable
PROPERTY JobsAnswered
CHECK_DEADLOCK FALSE
