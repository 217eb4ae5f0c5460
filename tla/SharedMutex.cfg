SPECIFICATION LockFairSpec
CONSTANTS
    main = main
    w1 = w1
    w2 = w2
    None = None
    Threads <- ThreadsDef
    Workers <- WorkersDef
    Timeout = 2
INVARIANTS
    ExclusiveUntilHealed
    WordTellsOwner
PROPERTIES
    NoWaiterStuck
