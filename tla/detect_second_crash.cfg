SPECIFICATION FairSpec
CONSTANTS
    Primaries <- MCPrimaries
    Persisted <- MCPersisted
    Slow <- MCSlow
    MAX_PRIMARY = 2
    MaxInFlight = 1
    MaxBurst = 2
    MaxRestarts = 1
    AgeCap = 6
    Floor = 3
PROPERTY EveryCrashReported
CHECK_DEADLOCK FALSE
