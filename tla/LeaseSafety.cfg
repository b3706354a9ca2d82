CONSTANTS
    a = a
    b = b
    Absent = Absent
    Malformed = Malformed
    Runs <- MCRuns
    Skew <- MCSkew
    SkewBound = 1
    TTL = 2
    Interval = 1
    MaxTries = 2
    Budget = 0
    MaxTime = 3
    Refusable <- OnlyA
    MaxLate = 1
    MaxHand = 0
SPECIFICATION Spec
INVARIANTS TypeOK UnexpiredHoldIsOwner NoBeatWithoutHold
PROPERTIES ImplementsRegister
CHECK_DEADLOCK FALSE
