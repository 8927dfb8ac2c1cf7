CONSTANTS
    Sites <- MCSites
    PageSize = 2
    DepthCap = 2
    MaxAttempts = 2
    MaxLives = 2
    MaxFaults = 1
    NoMark = NoMark
    Errands <- MCErrands
    PipeLines = 2
    DefaultCap = 2
    MaxLogs = 3
    c1 = c1
    c2 = c2
    c3 = c3
    c4 = c4
    Calls = {c1, c2, c3, c4}
    Places = 2
    Interval = 2
    MaxClock = 5
    MaxCancels = 1
    Passes = {1, 2}
    Versions = {1, 2, 3, 4, 5, 6}
    Cheap <- MCCheap
    GlobalSlots = 2
    HostSlots = 1
    Settings <- MCSettings
    Reviewers = {1, 2}
    Reviewed = {1, 2, 3, 4}
    PostingOf <- MCPostingOf
    NoWorkRow = {4}
    Tiers = {0, 2, 3, 4, 5}
    Models = {"m"}
    Responses <- MCResponses
    BatchSize = 2
    MaxReviews = 1
    k1 = k1
    k2 = k2
    pa = pa
    pb = pb
    r1 = r1
    r2 = r2
    r3 = r3
    Urls = {1, 2}
    Keys = {k1, k2}
    NoKey = NoKey
    Requests = {r1, r2, r3}
    Patches <- MCPatches
    Batches <- MCBatches
    Loaded <- MCLoaded
    MaxIngests = 1
    MaxDay = 2
    MinTier = 3
    CompanyCap = 2
    FreshDays = 14
    StaleDays = 45
    AimTier = 4
    Postings = {pa, pb}
    Ghost = Ghost
    Bridge <- MCBridge
    Traits <- MCTraits
    ItemLists <- MCItemLists
    EventBodies <- MCEventBodies
    NoRequest = NoRequest
    Aliases <- MCAliases
    Editors = {r2, r3}
    Moving = {pa}
    DailyCap = 2
    MaxVersions = 2
SPECIFICATION CollectionSpec
SYMMETRY EditorSymmetry
INVARIANTS
    PromiseKept
    
    ChildSound
    PacingSound
    FetchesSound
    ReviewsSound
    DeskSound
    SnapshotsSound
    EventsSound
PROPERTIES
    AnswersStay
    EditsSurvive
CHECK_DEADLOCK FALSE
