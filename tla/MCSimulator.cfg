CONSTANTS
    Priorities = {0, 1}
    Limits = {1}
    None = None
    MaxTime = 1
    MaxEvents = 3
    MaxDepth = 4
SPECIFICATION Spec
INVARIANTS
    TypeOK
    IdsMatchHeap
    LiveCountsScheduled
    NothingSkipped
    EveryEventAccountedFor
    FiringOrder
    HorizonIsInnermost
PROPERTIES
    ImplementsEventList
    ImplementsAgenda
