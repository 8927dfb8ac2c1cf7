SPECIFICATION BoundedSpec
CONSTANTS
    Records <- MCRecords
    Kinds <- MCKinds
    Members <- MCMembers
    LegacyUrls <- MCLegacyUrls
    Normal <- MCNormal
    PostingOrder <- MCPostingOrder
    MaxRuns = 3
    Category <- MCCategory
    Ad <- MCAd
    CompanyNoise <- MCNoise
    ShortTokens <- MCShort
    NsOrder <- MCNsOrder
    BatchSize = 2
    Identities = {id1, id2}
    Bodies <- MCBodies
    Staged <- MCStaged
    Batches <- MCBatches
    MaxBatches = 2
SYMMETRY MCSymmetry
INVARIANTS
    IdentitiesSound
    
PROPERTIES
    ObservedIsScored
CHECK_DEADLOCK FALSE
