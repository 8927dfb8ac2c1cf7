CONSTANTS
    Orphan = 99
    p1 = p1
    p2 = p2
    Procs = {p1, p2}
    Origins <- MCOrigins
    Budgets <- MCAlone
SPECIFICATION DatabaseSpec
INVARIANTS
    StartConverges
CHECK_DEADLOCK FALSE
