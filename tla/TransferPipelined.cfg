SPECIFICATION Spec
CONSTANTS
    TrafficBnc = TRUE
    TrafficBncRelink = FALSE
    Relinked = FALSE
    Debug = FALSE
    SpeedWrite = FALSE
    UseLimits = FALSE
    FpNewIpMsg = FALSE
    SslForward = TRUE
    Pipelining = TRUE
    MaxCmds = 3
    MaxBatch = 2
    Commands <- PassiveCommands
    Tid <- TwoThreads
INVARIANTS TypeOK DataThreadOwned  
PROPERTIES DirectionIsOwn ListingAcceptsTls
CHECK_DEADLOCK FALSE
