CONSTANTS
    Programs = {"accel", "spmm", "latency", "bandwidth"}
    NumRequests = 8
    Window = 3
    MaxEvents = 16
    NumLanes = 2
    VectorSize = 8
    TileSize = 3
    ReadQueue = 2
    WriteQueue = 2
SPECIFICATION FairSpec
INVARIANTS
    TypeOK
    WindowKept
    StoresFollowLoads
PROPERTIES
    Finishes
