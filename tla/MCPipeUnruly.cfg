CONSTANTS
    Items = {a, b, c}
    Latency = 2
    Slots = 2
    ConsumerSteps = TRUE
    ConsumerRaises = TRUE
    MaxCalls = 2
SPECIFICATION Spec
INVARIANTS
    SlotsNotReleasedEarly
PROPERTIES
    StalledLeaveInOrder
CHECK_DEADLOCK FALSE
