SPECIFICATION Spec
CONSTANTS
    s1 = s1
    s2 = s2
    b1 = b1
    b2 = b2
    b3 = b3
    g1 = g1
    g2 = g2
    d1 = d1
    d2 = d2
    d3 = d3
    r1 = r1
    r2 = r2
    Sku <- MCSku
    Batch <- MCBatch
    SkuOf <- MCSkuOf
    Godown <- MCGodown
    Dispatch <- MCDispatch
    Return <- MCReturn
    InvoiceInput <- MCInvoiceInput
    DispatchInput <- MCDispatchInput
    ReturnInput <- MCReturnInput
    InitialStock <- MCInitialStock
INVARIANT CountersMatchDocuments
INVARIANT NeverOverDispatched
INVARIANT NeverRestoredTwice
INVARIANT StatusFollowsDispatches
INVARIANT PagesOfferWhatRoutesAccept
SYMMETRY DocumentSymmetry
CHECK_DEADLOCK FALSE
