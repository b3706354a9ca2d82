SPECIFICATION FairSpec
CONSTANTS
    c1 = c1
    c2 = c2
    c3 = c3
    l1 = l1
    Clients <- ThreeClients
    Ids <- TwoIds
    Lanes <- OneLane
    id <- Delivered
    Units = 1
    Attempts = 1
    MaxClock = 4
INVARIANTS
    OneLogicalStop
    NothingWorksAfterCancel
PROPERTIES
    StopArrives
    CancelEnds
