SPECIFICATION FairSpec
CONSTANTS
    a = a
    b = b
    c = c
    d = d
    w1 = w1
    w2 = w2
    x = x
    y = y
    None = None
    Requests <- Four
    Workers <- TwoWorkers
    Keys <- TwoKeys
    WorkerOf <- WorkerMap
    KeyOf <- Mixed
    MethodOf <- OnePost
INVARIANTS
    FlightSound
    FetchedOncePerWorker
    OwnKey
PROPERTIES
    EveryoneAnswered
CHECK_DEADLOCK FALSE
