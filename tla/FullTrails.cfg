CONSTANTS
    Scenarios <- Pushes
    Configs = {c1, c2}
    Instances = {i1, i2}
    Conns = {k1}
    None = None
    MaxVersion = 2
    MaxMoves = 1
    SendLength = 3
    OutboxLength = 2
SPECIFICATION Spec
CHECK_DEADLOCK FALSE
INVARIANT ClientAlwaysMatches
