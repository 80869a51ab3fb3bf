SPECIFICATION Spec
CONSTANTS
    Keys = {k1, k2}
    Conns = {c1, c2}
    NoKey = nokey
    NoVal = noval
    Vals = {1, 2}
    Numeric = {1}
    Bump <- MCBump
    Join <- MCJoin
    SameLock <- MCOwnLock
    NChunks = 3
    RefMod = 5
    MaxGet = 2
    REALTIME_MAXDELTA = 5
    process_started = 10
    Tries = 5
    TAIL_REPAIR_TIME = 10800
    ITEM_UPDATE_INTERVAL = 60
    evict_to_free = TRUE
    Lifetimes = {0}
    Delays = {0}
    Comms = {"set", "append", "cas"}
    CasIds = {1}
    MaxTime = 2
    MaxCas = 3
INVARIANTS TypeOK RefsExactUnlessDamaged LinkedOnce CasMeansValue
PROPERTY SentItemStable
SYMMETRY MCSymmetry
CHECK_DEADLOCK FALSE
