\* Three green threads, up to two workers, rounds of start and join until
\* the threads are used up.
CONSTANTS
    Threads = {t1, t2, t3}
    WorkerIds = {w1, w2}
SPECIFICATION FairSpec
INVARIANT StoppedOnlyWhenAllGone
PROPERTY JoinWaitsForAll
PROPERTY JoinTerminates
