SPECIFICATION LivePeersSpec
CONSTANTS
    TrafficBnc = FALSE
    TrafficBncRelink = TRUE
    Relinked = TRUE
    Debug = FALSE
    SpeedWrite = TRUE
    UseLimits = TRUE
    FpNewIpMsg = FALSE
    SslForward = FALSE
    Pipelining = TRUE
    MaxCmds = 3
    MaxBatch = 1
    Commands <- RelinkCommands
    Tid <- OneThread
PROPERTIES SessionServedUnlessLocked
CHECK_DEADLOCK FALSE
