\* One thread waits for a future that a native thread fulfils.
CONSTANTS
    Threads = {t1}
    Promises = {p1}
    Foreign = {p1}
    None = None
    MayCall <- MCMayCall
    t1 = t1
SPECIFICATION FairSpec
PROPERTY GetEnds
CHECK_DEADLOCK FALSE
