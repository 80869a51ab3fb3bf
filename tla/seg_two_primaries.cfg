SPECIFICATION Spec
CONSTANTS
    Primaries = {p1, p2}
    Garbled = garbled
    MAX_SEGMENT_CAPACITY = 100
    Lens = {1, 2}
    Shapes = {"plain"}
    Splitting = {}
    MaxBatch = 2
    MaxCmds = 3
    MaxTime = 1
    MaxFaults = 0
    MaxRestarts = 0
INVARIANT AckedHeldWhileUp
CHECK_DEADLOCK FALSE
