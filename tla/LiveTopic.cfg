CONSTANTS
    Scenarios <- AllScenarios
    Configs = {c1, c2}
    Instances = {i1, i2}
    Conns = {k1, k2}
    None = None
    MaxVersion = 2
    MaxMoves = 2
    SendLength = 1
    OutboxLength = 2
SPECIFICATION Spec
CHECK_DEADLOCK FALSE
SYMMETRY Symmetry
INVARIANT ClientMatchesSource
INVARIANT CleanIsCurrent
INVARIANT WatchedIsTracked
