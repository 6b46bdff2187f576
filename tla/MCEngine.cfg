CONSTANTS
    Reads = {a, b, c}
    Writes = {w}
    Silent = {c}
    Queue = 2
    QueueDepth = 2
    Batch = 2
    CycleLimits = {1, 4}
    MaxCalls = 2
    MaxDrift = 1
SPECIFICATION Spec
INVARIANTS
    TypeOK
    ReadsCalledOnce
    NothingLeftRecorded
    ClockAccounted
    DriveCountsItsOwn
PROPERTIES
    ImplementsMemoryPort
CHECK_DEADLOCK FALSE
