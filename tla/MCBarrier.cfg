\* Three threads, generations of two or three of them.
CONSTANTS
    t1 = t1
    t2 = t2
    t3 = t3
    Threads = {t1, t2, t3}
    NoThread = NoThread
    MayInterrupt <- MCMayInterrupt
    Sizes = {2, 3}
    FunctionThrows = TRUE
    Width = 8
    MaxGeneration = 2
SPECIFICATION BarrierFairSpec
INVARIANT CountExact
PROPERTY GenerationsLeave
CHECK_DEADLOCK FALSE
