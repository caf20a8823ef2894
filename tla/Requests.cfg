SPECIFICATION FairSpec
CONSTANTS
    s1 = s1
    s2 = s2
    none = none
    f1 = f1
    f2 = f2
    f3 = f3
    b1 = b1
    b2 = b2
    b3 = b3
    b4 = b4
    px = px
    qx = qx
    d1 = d1
    d2 = d2
    nodate = nodate
    po = po
    Session <- MCSession
    NoSession = none
    Form <- MCForm
    Kind <- MCKind
    Input <- MCInput
    Batch <- MCBatch
    Pair <- MCPair
    PairOf <- MCPairOf
    Date <- MCDate
    NoDate = nodate
    Order <- MCOrder
    OrderOf <- MCOrderOf
    Ordered <- MCOrdered
    MaxAttempts = 3
    MaxSent <- MCMaxSent
INVARIANT NumbersFollowCommits
INVARIANT QuotedDatesStand
INVARIANT OrderFollowsReceipts
PROPERTY ImplementsExactlyOnce
PROPERTY EveryRequestIsAnswered
CHECK_DEADLOCK FALSE
