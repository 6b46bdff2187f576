CONSTANTS
    Programs = {"accel"}
    NumRequests = 1
    Window = 2
    MaxEvents = 1
    NumLanes = 1
    VectorSize = 4
    TileSize = 2
    ReadQueue = 3
    WriteQueue = 2
SPECIFICATION Spec
INVARIANTS
    AccelWindowKept
