SPECIFICATION Spec
CONSTANTS
    Runs = {r1}
    Readers = {}
    Kinds = {"daily"}
    ScoreOps = 2
    MaxProgress = 0
    MaxCrashes = 0
    MaxFaults = 0
    MayLeak = FALSE
    LegacyWrites = FALSE
    PageSize = 2
    MaxAfter = 0
INVARIANTS
    CancelStopsEnrichment
CHECK_DEADLOCK FALSE
