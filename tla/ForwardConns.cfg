SPECIFICATION Spec
CONSTANTS
    Conns <- TwoConns
    MaxFd = 2
    BufferSize = 2
    Window = 1
    MaxUnits <- MCUnits
INVARIANTS SocketsOwned
PROPERTIES EachIsPipe
CHECK_DEADLOCK FALSE
