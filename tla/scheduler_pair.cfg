SPECIFICATION FairSpec
CONSTANTS
    board = board
    mirror = mirror
    p1 = p1
    p2 = p2
    p3 = p3
    p4 = p4
    globalGate = globalGate
    hostGate = hostGate
    Plan <- PlanBoth
    Complete = {board}
    Postings = {p1, p2, p3, p4}
    Inventory <- MCInventory
    Owned <- MCOwned
    AbsentBefore = {p2}
    GateSeq <- MCGateSeq
    Limit <- MCLimit
    MayBeFresh = {mirror}
    QueueSize = 1
    MaxAttempts = 1
    MaxLives = 1
    MayOvertake = TRUE
INVARIANTS
    PresenceSettled
PROPERTIES
    RunEnds
CHECK_DEADLOCK FALSE
