SPECIFICATION FairSpec
CONSTANTS
    i1 = i1
    i2 = i2
    Issues <- TwoIssues
    Closing <- FirstOnly
    Releasing <- FirstOnly
    HasUpstream = TRUE
    NoJournal = NoJournal
    MaxCommits = 4
    MaxFaults = 3
INVARIANTS
    TypeOK
    ClosedIsDurable
    TornIsJournaled
    LandsOnce
PROPERTIES
    NothingRidesAlong
    PendingFinishes
    KeepsPromise
CHECK_DEADLOCK FALSE
