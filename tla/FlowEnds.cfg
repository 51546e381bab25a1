CONSTANTS
    Configs = {c1}
    Queues = {q1}
    None = None
    Scenarios <- Stopping
    Supervisor = TRUE

SPECIFICATION LiveSpec
INVARIANT InterruptedPublishesNothing
PROPERTY QueuedStartsSettle
PROPERTY FlowEnds
PROPERTY Thaws
CHECK_DEADLOCK FALSE
