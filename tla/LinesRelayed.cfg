SPECIFICATION FairSpec
CONSTANTS
    BufferSize = 2
    RetryCount = 1
    Window = 2
    Ends <- MCEnds
    Notice = 3
    MaxUnits = 4
    MaxSignals = 1
INVARIANTS LinesWhole
PROPERTIES RepliesArePipe 
CHECK_DEADLOCK FALSE
