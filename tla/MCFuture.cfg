\* Two threads wait for two futures of which one may be fulfilled by
\* a native thread.
CONSTANTS
    Threads = {t1, t2}
    Promises = {p1, p2}
    Foreign = {p2}
    None = None
    MayCall <- MCMayCall
    t1 = t1
SPECIFICATION FairSpec
INVARIANT ReturnsWhatIsReady
INVARIANT CallbacksKept
PROPERTY ResultsAreFinal
PROPERTY EveryCallReturns
CHECK_DEADLOCK FALSE
