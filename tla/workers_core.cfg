CONSTANTS
    k1 = k1
    NumThreads = 2
    Keys = {k1}
    MaxConns = 2
    Maint = Maint
    Free = Free
    NoOp = NoOp
    HashValue <- MCHashValue
    InitialPower = 1
    MaxExpansions = 1
    MaxOps = 2
    MaxFds = 1
SPECIFICATION Spec
INVARIANTS TypeOK MoverExclusive LinkedFindable SameKeyExcludedUnlessSwitching RebalancerPausedUnlessResumedEarly
PROPERTIES ExpansionEnds AcceptsAgain
CHECK_DEADLOCK FALSE
