SPECIFICATION FairSpec
CONSTANTS
    Primaries <- MCPrimaries
    Persisted <- MCPersisted
    Slow <- MCSlow
    MAX_PRIMARY = 2
    MaxInFlight = 1
    MaxBurst = 2
    MaxRestarts = 1
    AgeCap = 6
    Floor = 3
INVARIANTS TypeOK ReportedOncePerSilence NoFalseReport SilenceBounded
PROPERTIES FirstCrashReported ReportRestores
CHECK_DEADLOCK FALSE
