CONSTANTS
    p1 = p1
    p2 = p2
    p3 = p3
    k1 = k1
    k2 = k2
    o1 = o1
    o2 = o2
    o3 = o3
    NoObj = NoObj
    Proc <- MCProc
    Key <- MCKey
    Obj <- MCObj
SPECIFICATION FairSpec
INVARIANTS MutualExclusion NoLeakedEntry
PROPERTIES ImplementsKeyLock EveryLockReturns
