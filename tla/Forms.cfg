SPECIFICATION TabSpec
CONSTANTS
    sku1 = sku1
    sku2 = sku2
    gd1 = gd1
    gd2 = gd2
    inv1 = inv1
    ba1 = ba1
    ba2 = ba2
    ba3 = ba3
    none = none
    one = one
    row1 = row1
    row2 = row2
    old = old
    new = new
    blank = blank
    noDialog = noDialog
    Content <- MCContent
    Nothing = blank
    NoDialog = noDialog
    MaxSent = 2
    Sku <- MCSku
    Godown <- MCGodown
    Invoice <- MCInvoice
    Choice <- MCChoice
    Available <- MCAvailable
    Units <- MCUnits
    OnInvoice <- MCOnInvoice
    Text <- MCText
    Shown <- MCShown
    None = none
    MaxLines = 2
    MaxKeys = 2
INVARIANT ChoicesBelong
INVARIANT AcceptedFollows
INVARIANT DialogsTellTheTruth
CHECK_DEADLOCK FALSE
