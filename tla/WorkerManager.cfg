SPECIFICATION FairSpec
CONSTANTS
    p = p
    q = q
    r = r
    Ids <- ThreeIds
    NumWorkers = 3
    MaxRapidCrashes = 3
    Window = 4
    Pause = 4
    Backoff <- Delays
    MaxBusy = 1
    WorkerForce = 2
    MasterForce = 3
    StatusServer = FALSE
INVARIANTS
    TypeOK
    Staffed
    WorkersGoFirst
PROPERTIES
    NoSpawnOnceShutting
    AllStopped
