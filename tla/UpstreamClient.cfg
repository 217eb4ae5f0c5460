SPECIFICATION FairSpec
CONSTANTS
    MaxChunks = 7
    HighWater = 2
    ResBuffer = 2
    MaxItem = 3
INVARIANTS
    PausedWillDrain
    StreamBounded
    EndedWhole
PROPERTIES
    NoWriteAfterClose
    BothSidesEnd
CHECK_DEADLOCK FALSE
