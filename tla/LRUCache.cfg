SPECIFICATION Spec
CONSTANTS
    k1 = k1
    k2 = k2
    k3 = k3
    k4 = k4
    v1 = v1
    v2 = v2
    v4 = v4
    NoValue = NoValue
    Keys <- FourKeys
    Values <- AllValues
    Weight <- WeightOf
    MaxEntries = 3
    MaxBytes = 4
    MaxItemBytes = 3
INVARIANTS
    MapMatchesList
    WithinLimits
PROPERTIES
    ImplementsLRUStore
