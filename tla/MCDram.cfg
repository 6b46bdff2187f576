CONSTANTS
    Reads = {a, b, c}
    Writes = {w}
    Silent = {c}
    Queue = 2
    Period = 2
    BurstCap = 3
    CompletionPriority = 0
    IdleModes = {FALSE, TRUE}
    IdleBatch = 1
    MaxIdleBatch = 2
    BadBatches = FALSE
    None = None
    MaxRefreshes = 1
    Delays = {0, 1, 4}
    MaxClients = 2
    MaxBehind = 6
SPECIFICATION Spec
INVARIANTS
    TypeOK
    OneClock
    NeverAhead
    BurstsFit
    CallbackUnderWay
PROPERTIES
    ClocksKeepPhase
    ImplementsMemoryPort
CHECK_DEADLOCK FALSE
