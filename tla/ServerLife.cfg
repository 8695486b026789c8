SPECIFICATION FairSpec
CONSTANTS
    Conns <- TwoConns
    Names <- OneName
    Files <- MCFiles
    Debug = TRUE
    MaxAccepts = 3
    MaxCommands = 2
    MaxSignals = 1
INVARIANTS SessionListed SiteIndexed InfoComplete RemovedIsOut
PROPERTIES AcceptsAgain
CHECK_DEADLOCK FALSE
