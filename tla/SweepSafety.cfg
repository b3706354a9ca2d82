SPECIFICATION FairSpec
CONSTANTS
    p1 = p1
    p2 = p2
    s1 = s1
    Runs <- TwoRuns
    Residues <- LaneAndStage
    Places <- TwoPlaces
    Home <- Apart
    Sweepers <- OneSweeper
    SweepHome <- AtP2
    Sandboxed = FALSE
    KeepLogs = 0
    Failures <- AllButListing
    MaxFaults = 1
PROPERTIES
    LiveUntouched
    UnseenWorkSurvives
    OpenIssueKeepsWork
    ResidueGoes
    RetentionCompletes
