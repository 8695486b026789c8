SPECIFICATION LivePeersSpec
CONSTANTS
    TrafficBnc = TRUE
    TrafficBncRelink = FALSE
    Relinked = FALSE
    Debug = FALSE
    SpeedWrite = FALSE
    UseLimits = FALSE
    FpNewIpMsg = TRUE
    SslForward = TRUE
    Pipelining = FALSE
    MaxCmds = 4
    MaxBatch = 2
    Commands <- PatientCommands
    Tid <- OneThread
 
PROPERTIES SessionServed ArmedTransferStarts
