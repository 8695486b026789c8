SPECIFICATION ReadersSpec
CONSTANTS
    BufferSize = 2
    Window = 2
    Rounds = 2
    RetryCount = 1
    MaxUnits = 3
    Tls <- TlsSite
INVARIANTS TypeOK Conserved EofComplete QuitStopsReading
PROPERTIES  BothArePipes
