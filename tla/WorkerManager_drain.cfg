SPECIFICATION Spec
CONSTANTS
    p = p
    q = q
    r = r
    Ids <- TwoIds
    NumWorkers = 2
    MaxRapidCrashes = 3
    Window = 4
    Pause = 4
    Backoff <- Delays
    MaxBusy = 2
    WorkerForce = 2
    MasterForce = 3
    StatusServer = TRUE
SYMMETRY IdSymmetry
INVARIANTS
    InFlightDrained
