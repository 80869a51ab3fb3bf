SPECIFICATION FairSpec
CONSTANTS
    Conns = {c1, c2}
    MaxSession = 2
    Pipeliners = {1}
    Leavers = {1}
    MaxOps = 2
    MaxBatch = 2
    Splitting = TRUE
INVARIANTS TypeOK StoredAfterBackupUnlessOrphanedOrCut ConnsDistinct
PROPERTY Answered
CHECK_DEADLOCK FALSE
