SPECIFICATION Spec
CONSTANTS
    board = board
    mirror = mirror
    p1 = p1
    p2 = p2
    p3 = p3
    p4 = p4
    globalGate = globalGate
    hostGate = hostGate
    Plan <- PlanAlone
    Complete = {board}
    Postings = {p1, p2, p3, p4}
    Inventory <- MCInventory
    Owned <- MCOwned
    AbsentBefore = {p2}
    GateSeq <- MCGateSeq
    Limit <- MCLimit
    MayBeFresh = {}
    QueueSize = 1
    MaxAttempts = 2
    MaxLives = 2
    MayOvertake = FALSE
CONSTRAINT ResumeBound
INVARIANTS
    
    
    
    SettledRunIsWhole
CHECK_DEADLOCK FALSE
