\* Four threads push, pop and close a queue with room for two items.
CONSTANTS
    Threads = {t1, t2, t3, t4}
    Capacity = 2
    MaxItems = 4
    Batch = {2}
SPECIFICATION QueueFairSpec
PROPERTY CapacityKept
PROPERTY NoWaiterForgotten
PROPERTY CloseEndsCalls
CHECK_DEADLOCK FALSE
