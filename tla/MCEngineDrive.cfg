CONSTANTS
    Reads = {a, b}
    Writes = {}
    Silent = {}
    Queue = 2
    QueueDepth = 2
    Batch = 2
    CycleLimits = {1, 4}
    MaxCalls = 1
    MaxDrift = 1
SPECIFICATION Spec
PROPERTIES
    DriveWaitsForAll
CHECK_DEADLOCK FALSE
