SPECIFICATION FairSpec
CONSTANTS
    k1 = k1
    k2 = k2
    k3 = k3
    v1 = v1
    v2 = v2
    v3 = v3
    NoValue = NoValue
    Blank = Blank
    Keys <- ThreeKeys
    Values <- ThreeSizes
    Weight <- WeightOf
    Hash <- AllCollide
    Capacity = 2
    MaxTotalBytes = 4
    ItemLimits <- Limits
    ArenaSize = 2
INVARIANTS
    RecencySound
    FreeSound
    FreshSlot
PROPERTIES
    NeverRefused
    ArenaEvictionNeeded
    Terminates
