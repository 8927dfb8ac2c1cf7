SPECIFICATION LiveSpec
CONSTANTS
    Runs = {r1}
    Readers = {d1}
    Kinds = {"daily"}
    ScoreOps = 2
    MaxProgress = 0
    MaxCrashes = 0
    MaxFaults = 0
    MayLeak = FALSE
    LegacyWrites = FALSE
    PageSize = 2
    MaxAfter = 0
PROPERTIES
    EverythingEnds
CHECK_DEADLOCK FALSE
