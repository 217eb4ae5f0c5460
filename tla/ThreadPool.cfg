SPECIFICATION FairSpec
CONSTANTS
    t1 = t1
    t2 = t2
    t3 = t3
    a = a
    b = b
    c = c
    d = d
    Tasks <- ThreeTasks
    Threads <- FourThreads
    ThreadCount = 2
    MaxDeaths = 2
    MayDestroy = TRUE
INVARIANTS
    OneTaskEach
    TasksAccounted
    WorkConserving
PROPERTIES
    TasksSettle
CHECK_DEADLOCK FALSE
