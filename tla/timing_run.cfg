SPECIFICATION TimingFairSpec
CONSTANTS
    SessionTtl = 1
    AcceptanceTtl = 2
    Horizon = 4
    Never = Never
    MaxParks = 3
    SweepLimit = 2
    Stuck = 1
    MaxAhead = 2
CHECK_DEADLOCK FALSE
INVARIANTS
    BooksAreExact
PROPERTIES
    AcceptanceIsGivenTime
    WaitEnds
