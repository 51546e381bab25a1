CONSTANTS
    Scenarios <- MCScenarios
    Topics = {t1}
    MaxSockets = 2
    MaxRetries = 2
    MaxSessions = 2
    MaxEras = 2
    MaxFaults = 2
    MaxQueue = 2

SPECIFICATION LiveSpec
 
INVARIANT ServedIsCounted
INVARIANT CallRunsOnce
PROPERTY SessionEndsRefused
PROPERTY SubscriberFed
CHECK_DEADLOCK FALSE
