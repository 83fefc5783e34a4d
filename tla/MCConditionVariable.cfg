\* Two callers that wait, notify and interrupt each other.
CONSTANTS
    Threads = {t1, t2}
    NoThread = NoThread
SPECIFICATION CVFairSpec
INVARIANT OneWakeUp
PROPERTY WaitEndsLocked
PROPERTY NotifiedWaitsEnd
PROPERTY ImplementsFairCondition
CHECK_DEADLOCK FALSE
