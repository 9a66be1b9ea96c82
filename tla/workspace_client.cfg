CONSTANTS
    MaxThreads = 2
    Attempts = 2
    MaxCrashes = 1
    MaxCommands = 2
    MaxEvents = 1
SPECIFICATION Spec
INVARIANTS
    TypeOK
    PingHasClient
    OneThread
    ConnectedPings
    PauseMeansPaused
PROPERTIES
    StopReturns
    WaitsEnd
CHECK_DEADLOCK FALSE
