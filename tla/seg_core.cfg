SPECIFICATION Spec
CONSTANTS
    Primaries = {p1, p2}
    Garbled = garbled
    MAX_SEGMENT_CAPACITY = 4
    Lens = {1, 2}
    Shapes = {"plain"}
    Splitting = {p1}
    MaxBatch = 2
    MaxCmds = 3
    MaxTime = 1
    MaxFaults = 1
    MaxRestarts = 1
INVARIANTS TypeOK SegmentsAccounted RunsIntact SingleWriterDurable
CHECK_DEADLOCK FALSE
