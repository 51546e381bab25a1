CONSTANTS
    Configs = {c1}
    Entries = {e1, e2}
    Runs = {r1}
    Callers = {a1}
    Orch = orch
    None = None
    Operations = {"start", "stop", "continue", "kill", "force-kill", "restart", "cancel"}
    WaitTimeout = TRUE
SPECIFICATION LiveSpec
INVARIANT TypeOK
INVARIANT MarksBelongToARestart
PROPERTY RestartEnds
PROPERTY KillSettles
CHECK_DEADLOCK FALSE
