CONSTANTS
    Scenarios <- AllScenarios
    MaxBackends = 4
    MaxRestarts = 2
    RestartWindow = 2
    MaxTime = 3
SPECIFICATION LiveSpec
INVARIANT WithdrawnNeverResumed
INVARIANT ResumedByOneServer
INVARIANT CrashLoopBounded
PROPERTY NoOrphans
