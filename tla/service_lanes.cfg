SPECIFICATION Spec
CONSTANTS
    Runs = {r1, r2}
    Readers = {}
    Kinds = {"full-direct", "aggregators"}
    ScoreOps = 2
    MaxProgress = 1
    MaxCrashes = 1
    MaxFaults = 0
    MayLeak = TRUE
    LegacyWrites = TRUE
    PageSize = 2
    MaxAfter = 0
VIEW LaneView
SYMMETRY RunSymmetry
INVARIANTS
    LaneExclusive
    LiveRunKeepsItsRow
CHECK_DEADLOCK FALSE
