SPECIFICATION Spec
CONSTANTS
    s1 = s1
    s2 = s2
    none = none
    p = p
    q = q
    grn = grn
    opening = opening
    back = back
    transfer = transfer
    file = file
    Session <- MCSession
    NoSession <- none
    Key <- MCKey
    Pair <- MCPair
    PairOf <- MCPairOf
    Doc <- TwoBatchDoc
    Lines <- TwoBatchLines
    Call <- TwoBatchCall
    RuleChange <- NoRuleChange
    InitialLevel <- MCInitialLevel
INVARIANT AlertsNeverDisagree
CHECK_DEADLOCK FALSE
SYMMETRY SessionSymmetry
