\* Three threads on two workers, every way of sharing strands.
CONSTANTS
    Threads = {t1, t2, t3}
    NoThread = NoThread
    Workers = 2
SPECIFICATION Spec
SYMMETRY Symmetry
INVARIANT OneActivation
INVARIANT ExitAccounted
PROPERTY JoinWaitsForEnd
PROPERTY ImplementsSuspension
CHECK_DEADLOCK FALSE
