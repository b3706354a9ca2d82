CONSTANTS
    a = a
    b = b
    Absent = Absent
    Malformed = Malformed
    Runs <- MCRuns
    Skew <- NoSkew
    SkewBound = 0
    TTL = 2
    Interval = 1
    MaxTries = 1
    Budget = 0
    Refusable <- OnlyA
    MaxTime = 4
    MaxLate = 0
    MaxHand = 1
SPECIFICATION FairSpec
PROPERTIES LossIsPermanent OrphanBecomesClaimable
CHECK_DEADLOCK FALSE
