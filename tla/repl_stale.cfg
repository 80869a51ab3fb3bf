SPECIFICATION Spec
CONSTANTS
    Conns = {c1, c2}
    MaxSession = 2
    Pipeliners = {1}
    Leavers = {1, 2}
    MaxOps = 2
    MaxBatch = 2
    Splitting = FALSE
INVARIANT StoredAfterBackup
CHECK_DEADLOCK FALSE
