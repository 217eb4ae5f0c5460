SPECIFICATION HSpec
CONSTANTS
    k1 = k1
    k2 = k2
    k3 = k3
    v1 = v1
    v2 = v2
    NoValue = NoValue
    Blank = Blank
    Keys <- ThreeKeys
    Values <- TwoValues
    Weight <- WeightOf
    Hash <- AllCollide
    Capacity = 2
    MaxTotalBytes = 3
    ItemLimits <- Limit3
    ArenaSize = 4
SYMMETRY KeySymmetry
INVARIANTS
    TypeOK
    BytesAccounted
    ExtentsDisjoint
    EntriesIntact
    BudgetHeld

    
