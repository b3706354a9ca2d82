SPECIFICATION FairSpec
CONSTANTS
    l1 = l1
    l2 = l2
    pass = pass
    Missing = Missing
    Invalid = Invalid
    Lanes <- TwoLanes
    Prep = pass
    Retries = 2
    Budget = 4
    Delays <- SomeDelays
    Units = 4
    Work = 4
INVARIANTS
    TypeOK
    ProbeIsAlone
PROPERTIES
    NeverRetriedEarly
    AdmissionStaysClosed
    EpisodeEnds
