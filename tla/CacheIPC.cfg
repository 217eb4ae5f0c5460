SPECIFICATION Spec
CONSTANTS
    w1 = w1
    w2 = w2
    k1 = k1
    put1 = put1
    get1 = get1
    clear1 = clear1
    put2 = put2
    heavy2 = heavy2
    delete2 = delete2
    stats2 = stats2
    NoValue = NoValue
    Workers <- TwoWorkers
    Calls <- SomeCalls
    WorkerOf <- CallWorker
    Kind <- CallKind
    KeyOf <- CallKey
    Keys <- OneKey
    Weight <- BodyWeight
    MaxEntries = 1
    MaxBytes = 2
    MaxItemBytes = 2
    MaxMade = 4
INVARIANTS
    PendingExact
    OwnAnswer
    RemovedForGood
PROPERTIES
    ImplementsCacheService
CHECK_DEADLOCK FALSE
