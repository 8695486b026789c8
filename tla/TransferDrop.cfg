SPECIFICATION LivePeersSpec
CONSTANTS
    TrafficBnc = TRUE
    TrafficBncRelink = FALSE
    Relinked = FALSE
    Debug = FALSE
    SpeedWrite = FALSE
    UseLimits = FALSE
    FpNewIpMsg = FALSE
    SslForward = TRUE
    Pipelining = TRUE
    MaxCmds = 2
    MaxBatch = 1
    Commands <- PassiveCommands
    Tid <- OneThread
PROPERTIES DropEndsSession
CHECK_DEADLOCK FALSE
