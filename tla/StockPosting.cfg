SPECIFICATION Spec
CONSTANTS
    s1 = s1
    s2 = s2
    none = none
    p = p
    q = q
    grn = grn
    opening = opening
    back = back
    transfer = transfer
    file = file
    Session <- MCSession
    NoSession <- none
    Key <- MCKey
    Pair <- MCPair
    PairOf <- MCPairOf
    Doc <- MCDoc
    Lines <- MCLines
    Call <- MCCall
    RuleChange <- MCRuleChange
    InitialLevel <- MCInitialLevel
INVARIANT RunningBalance
INVARIANT ReversedOnce
INVARIANT NoDeadlockOnStock
INVARIANT AlertsFollowStock
PROPERTY ImplementsStockLedger
CHECK_DEADLOCK FALSE
SYMMETRY SessionSymmetry
