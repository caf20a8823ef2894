SPECIFICATION Spec
CONSTANTS
    sku1 = sku1
    gd1 = gd1
    gd2 = gd2
    us1 = us1
    us2 = us2
    none = none
    open1 = open1
    open2 = open2
    trf = trf
    adj = adj
    Sku <- MCSku
    Godown <- MCGodown
    User <- MCUser
    NoUser = none
    Batch <- MCBatch
    Default = 0
    NoBatch <- MCNoBatch
    Expiry <- MCExpiry
    Never = 9
    Doc <- MCDoc
    Synced <- MCSynced
    Kind <- MCKind
    Input <- MCInput
    Together <- MCTogether
    SkuEdit <- MCSkuEdit
    GodownEdit <- MCGodownEdit
    PerDay = 4
    IstOffset = 1
    Moment <- MCMoment
    MaxEdits = 1
    ExpiryWindow = 1
    BatchesShown = 1
    EntriesShown = 2
INVARIANT StockIsExplained
INVARIANT DocumentsFollowEntries
INVARIANT TallyAddsUp
INVARIANT ReportsAgree
INVARIANT FefoIsSound
INVARIANT ScreensAgree
SYMMETRY UserSymmetry
CHECK_DEADLOCK FALSE
