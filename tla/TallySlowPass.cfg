SPECIFICATION TallySpec
CONSTANTS
    j1 = j1
    j2 = j2
    w1 = w1
    w2 = w2
    Job <- MCJob
    Pass <- MCPass
    Limit = 2
    MAX_AUTO_ATTEMPTS = 2
    PassOutlivesLease = TRUE
    MaxCrashes = 0
    MaxRetries = 0
INVARIANT RunsPushApart
CHECK_DEADLOCK FALSE
