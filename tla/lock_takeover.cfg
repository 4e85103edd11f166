SPECIFICATION FairSpec
CONSTANTS
    Proc = {p1, p2, p3}
    Nobody = Nobody
    Stale = 1
    Retries = 2
    MaxHold = 2
    MaxCrashes = 1
INVARIANTS
    TypeOK
PROPERTIES
    MutexUntilBroken
    AcquireReturns
    StaleLockRecovered
CHECK_DEADLOCK FALSE
