\* Two runs of a listener, one connection, with room for two characters.
CONSTANTS
    BufferSize = 2
    Transfer = 2
    MaxBytes = 3
    MaxStarts = 2
    MaxConnections = 1
    MaxStops = 2
SPECIFICATION FairSpec
INVARIANT ReadersFlushFirst
PROPERTY WireInOrder
PROPERTY StopEndsListening
PROPERTY JoinWaitsForStop
CHECK_DEADLOCK FALSE
