SPECIFICATION Spec
CONSTANTS
    ann = ann
    bob = bob
    eve = eve
    tok1 = tok1
    tok2 = tok2
    web1 = web1
    web2 = web2
    sku1 = sku1
    sku2 = sku2
    uom1 = uom1
    uom2 = uom2
    gdn1 = gdn1
    sup1 = sup1
    cus1 = cus1
    cat1 = cat1
    nm1 = nm1
    noname = noname
    noone = noone
    notok = notok
    User <- MCUser
    Token <- MCToken
    Client <- MCClient
    Sku <- MCSku
    Uom <- MCUom
    Unit <- MCUnit
    Godown <- MCGodown
    Supplier <- MCSupplier
    Customer <- MCCustomer
    Category <- MCCategory
    Seeded <- MCSeeded
    Name <- MCName
    NoName = noname
    NoUser = noone
    NoToken = notok
    Idle = 3
    Absolute = 4
    MaxFailed = 3
    Lockout = 1
    LastMoment = 4
    MaxRequests = 3
INVARIANT AuditTellsTheState
INVARIANT SessionsSlide
PROPERTY AdmissionIsCurrent
SYMMETRY Symmetries
CHECK_DEADLOCK FALSE
