\* Three threads with timed and untimed waits, up to three levels,
\* interrupted at any time.
CONSTANTS
    Threads = {t1, t2, t3}
    NoThread = NoThread
    MaxLevel = 3
SPECIFICATION FairSpec
INVARIANT LevelCountsLocks
INVARIANT OneResume
PROPERTY ImplementsTimedMutex
PROPERTY EveryLockReturns
