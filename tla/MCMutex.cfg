\* Three threads, with interruption.
CONSTANTS
    Threads = {t1, t2, t3}
    NoThread = NoThread
SPECIFICATION FairSpec
INVARIANT MutualExclusion
INVARIANT NoWaiterLost
PROPERTY FirstComeFirstServed
PROPERTY UsesSuspension
PROPERTY EveryLockReturns
