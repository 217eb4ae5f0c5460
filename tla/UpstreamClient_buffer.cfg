SPECIFICATION Spec
CONSTANTS
    MaxChunks = 7
    HighWater = 2
    ResBuffer = 2
    MaxItem = 3
INVARIANT
    BoundedBuffering
CHECK_DEADLOCK FALSE
