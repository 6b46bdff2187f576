CONSTANTS
    Items = {a, b}
    Latency = 2
    Slots = 2
    ConsumerSteps = FALSE
    ConsumerRaises = TRUE
    MaxCalls = 1
SPECIFICATION Spec
INVARIANTS
    StalledRetried
CHECK_DEADLOCK FALSE
