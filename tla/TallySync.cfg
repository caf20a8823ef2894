SPECIFICATION TallySpec
CONSTANTS
    j1 = j1
    j2 = j2
    w1 = w1
    w2 = w2
    Job <- MCJob
    Pass <- MCPass
    Limit = 1
    MAX_AUTO_ATTEMPTS = 2
    PassOutlivesLease = FALSE
    MaxCrashes = 2
    MaxRetries = 1
INVARIANT ClaimsAreExclusive
INVARIANT SyncedIsInTally
PROPERTY SyncedIsFinal
PROPERTY QueuedJobsSettle
CHECK_DEADLOCK FALSE
