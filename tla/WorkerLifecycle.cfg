CONSTANTS
    Configs = {c1}
    Entries = {e1, e2}
    Runs = {r1, r2}
    Callers = {a1, a2}
    Orch = orch
    None = None
    Operations = {"start", "stop", "force-kill", "close"}
    WaitTimeout = FALSE
SPECIFICATION Spec
SYMMETRY Symmetry
VIEW Canonical
INVARIANT StoppedMeansDead
INVARIANT StopReachesWorker
INVARIANT CloseReachesTracked
CHECK_DEADLOCK FALSE
