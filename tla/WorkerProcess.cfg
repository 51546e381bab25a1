CONSTANTS
    Scenarios <- MCScenarios
    MaxPipe = 1
    MaxEdits = 1

SPECIFICATION LiveSpec
INVARIANT WaiterIsServed
INVARIANT ShownIsTrue
PROPERTY OrphanEnds
PROPERTY StopEnds
PROPERTY KilledEnds
CHECK_DEADLOCK FALSE
