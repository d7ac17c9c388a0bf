CONSTANTS
    t1 = t1
    t2 = t2
    k1 = k1
    k2 = k2
    NoTrx = NoTrx
    Trx <- MCTrx
    Keys <- MCKeys1
    RecLens <- MCRecLens
    MaxWrites = 2
    MaxCrashes = 1
    MaxMemtables = 3
    MemtableSize = 0
    MaxSeq = 5
SPECIFICATION Spec
INVARIANT VersionUsable
