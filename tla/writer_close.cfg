SPECIFICATION FairSpec
CONSTANTS
    QueueSize = 1
    MaxOpsPerTx = 2
    MaxParked = 2
    MaxSubmits = 2
    PriorEvents = 0
    MaxDropped = 2
    MayCancelTask = TRUE
    MayCancelRun = FALSE
    HookMayRaise = TRUE
INVARIANTS
    LossIsVisible
PROPERTIES
    DrainIsComplete
    ShutdownEnds
CHECK_DEADLOCK FALSE
