SPECIFICATION Spec
CONSTANTS
    Keys = {k1, k2}
    Conns = {c1, c2}
    NoKey = nokey
    NoVal = noval
    Vals = {1, 2}
    Numeric = {1}
    Bump <- MCBump
    Join <- MCJoin
    SameLock <- MCOneLock
    NChunks = 2
    RefMod = 5
    MaxGet = 1
    REALTIME_MAXDELTA = 5
    process_started = 10
    Tries = 5
    TAIL_REPAIR_TIME = 1
    ITEM_UPDATE_INTERVAL = 0
    evict_to_free = TRUE
    Lifetimes = {0, 1}
    Delays = {0, 2, 6, 13}
    Comms = {"set"}
    CasIds = {1}
    MaxTime = 4
    MaxCas = 2
INVARIANTS NeverStaleUnlessUndone
SYMMETRY MCSymmetry
CHECK_DEADLOCK FALSE
