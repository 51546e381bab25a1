CONSTANTS
    Configs = {c1, c2}
    Queues = {q1, q2}
    None = None
    Scenarios <- Flowing
    Supervisor = TRUE

SPECIFICATION Spec
SYMMETRY Symmetry
INVARIANT NobodyForgotten
INVARIANT UserStopHonoured
PROPERTY WrapUpCollectsAll
