SPECIFICATION FairSpec
CONSTANTS
    Unknown = Unknown
    Cap = 3
    Static = 2
    Window = 2
    Cooling = 1
    Healthy = 3
    RateAt = 2
    FullAt = 2
    FullAllowed = 1
    Floor = 2
    HighWater = 1
    Repeated = 2
    Exhausted = 3
    Readings <- Sampled
    Calm <- Rest
    Work = 2
PROPERTIES
    ZeroIsLeft
