CONSTANTS
    Items = {a, b, c, d}
    Latency = 2
    Slots = 3
    ConsumerSteps = FALSE
    ConsumerRaises = FALSE
    MaxCalls = 1
SPECIFICATION FairSpec
INVARIANTS
    TypeOK
    SlotsMatchItems
    RetryScheduled
PROPERTIES
    ImplementsStage
    EventuallyAccepted
CHECK_DEADLOCK FALSE
