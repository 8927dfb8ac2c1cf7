SPECIFICATION Spec
CONSTANTS
    Runs = {r1}
    Readers = {d1}
    Kinds = {"daily"}
    ScoreOps = 2
    MaxProgress = 0
    MaxCrashes = 1
    MaxFaults = 1
    MayLeak = TRUE
    LegacyWrites = FALSE
    PageSize = 2
    MaxAfter = 0
INVARIANTS
    StreamFaithful
    ReadersKeepUp
    OutcomeIsTrue
CHECK_DEADLOCK FALSE
