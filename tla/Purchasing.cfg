SPECIFICATION Spec
CONSTANTS
    i1 = i1
    i2 = i2
    b1 = b1
    b2 = b2
    b3 = b3
    n1 = n1
    n2 = n2
    g1 = g1
    g2 = g2
    g3 = g3
    r1 = r1
    r2 = r2
    Item <- MCItem
    Batch <- MCBatch
    Number <- MCNumber
    BatchFor <- MCBatchFor
    Grn <- MCGrn
    Return <- MCReturn
    OrderInput <- MCOrderInput
    GrnInput <- MCGrnInput
    ReturnInput <- MCReturnInput
    MaxStock = 1
INVARIANT CountersMatchDocuments
INVARIANT NeverOverReceived
INVARIANT StatusFollowsReceipts
INVARIANT DocumentStatusFollowsEntries
INVARIANT PagesOfferWhatRoutesAccept
PROPERTY ClosedOrdersStayClosed
SYMMETRY DocumentSymmetry
CHECK_DEADLOCK FALSE
