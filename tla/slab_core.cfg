CONSTANTS
    k1 = k1
    k2 = k2
    Workers = {w1, w2}
    Keys = {k1, k2}
    None = None
    Mover = Mover
    PerSlab <- MCPerSlab
    InitialLists <- MCInitialLists
    InitialItems <- MCInitialItems
    InitialSlots <- MCInitialSlots
    StoredChunks <- MCStoredChunks
    UsedClasses = {1}
    MemLimit = 2
    MaxTries = 2
    MaxOps = 2
    MaxRebalances = 1
SPECIFICATION Spec
INVARIANTS TypeOK ChunksAccountedUnlessUnlinkRaced PageClearUnlessUnlinkRaced LockHeldUnlessStaleUnlock
PROPERTIES RebalanceEnds
CHECK_DEADLOCK FALSE
