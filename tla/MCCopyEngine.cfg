CONSTANTS
    NLines = 6
    IssueSlots = 1
    QueueDepth = 2
    ComputeSlots = 3
    MaxOutstanding = 2
    ReadQueue = 1
    WriteQueue = 1
SPECIFICATION FairSpec
INVARIANTS
    SlotsReserved
    EachLineOnce
PROPERTIES
    EventuallyCopied
