CONSTANTS
    Steps <- MCSteps
    QuickSteps = 2
    AttemptCap = 2
    QueueMax = 1
    MaxStarts = 1
    MaxBoots = 2
    MaxExternal = 1
    Orphan = 99
    p1 = p1
    p2 = p2
    Procs = {p1, p2}
    Origins <- MCOrigins
    Budgets <- MCBudgets
SPECIFICATION BackendSpec
INVARIANTS
    SweepSound
    UpgradeSound
    RowsKept
    CopiesSound
PROPERTIES
    SweepObeys
    SweepEnds
CHECK_DEADLOCK FALSE
