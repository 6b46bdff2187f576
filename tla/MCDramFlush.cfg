CONSTANTS
    Reads = {a}
    Writes = {w}
    Silent = {}
    Queue = 2
    Period = 2
    BurstCap = 3
    CompletionPriority = 0
    IdleModes = {FALSE}
    IdleBatch = 1
    MaxIdleBatch = 1
    BadBatches = TRUE
    None = None
    MaxRefreshes = 0
    Delays = {1, 3}
    MaxClients = 1
    MaxBehind = 2
    MaxEvents = 3
SPECIFICATION FairFlushSpec
PROPERTIES
    FlushEnds
    EventuallyCalledBack
CHECK_DEADLOCK FALSE
