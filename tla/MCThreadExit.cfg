\* A thread that ends in every way, joined by another, on one fair worker.
CONSTANTS
    t1 = t1
    t2 = t2
    Threads = {t1, t2}
    NoThread = NoThread
    Workers = 1
    Roots <- MCRoots
    Leavers <- MCLeavers
    MaxUses = 1
    MaxObjects = 2
    MaxTogether = 2
SPECIFICATION FairExitSpec
INVARIANT ExceptionDeliveredOnce
INVARIANT DutiesDone
INVARIANT DataFreedOnce
PROPERTY JoinReachesExit
CHECK_DEADLOCK FALSE
