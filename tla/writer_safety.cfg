SPECIFICATION Spec
CONSTANTS
    QueueSize = 2
    MaxOpsPerTx = 2
    MaxParked = 2
    MaxSubmits = 3
    PriorEvents = 1
    MaxDropped = 1
    MayCancelTask = TRUE
    MayCancelRun = TRUE
    HookMayRaise = TRUE
INVARIANTS
    GapFree
    JoinCounter
    ClosedOutsideCommit
    RaisedNeverCommits
PROPERTIES
    ImplementsLog
