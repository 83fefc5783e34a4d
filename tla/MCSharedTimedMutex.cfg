\* Three threads; every call.
CONSTANTS
    Threads = {t1, t2, t3}
SPECIFICATION FairSpec
INVARIANT OwnersExclude
INVARIANT NobodyWaitsInVain
PROPERTY EveryCallReturns
CHECK_DEADLOCK FALSE
