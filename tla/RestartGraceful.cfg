CONSTANTS
    Configs = {c1, c2}
    Entries = {e1, e2}
    Runs = {r1, r2}
    Callers = {a1}
    Orch = orch
    None = None
    Operations = {"start", "resume", "stop", "restart", "cancel", "flow"}
    WaitTimeout = FALSE
SPECIFICATION Spec
SYMMETRY Symmetry
VIEW Canonical
INVARIANT FrozenMeansStopped
INVARIANT EveryWorkerTracked
PROPERTY ImplementsWorkerStates
CHECK_DEADLOCK FALSE
