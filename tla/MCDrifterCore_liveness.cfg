CONSTANTS
    t1 = t1
    t2 = t2
    k1 = k1
    k2 = k2
    NoTrx = NoTrx
    Trx <- MCTrx
    Keys <- MCKeys1
    MaxMemtables = 2
    MemtableSize = 0
    TrxTimeout = 0
    MaxOps = 1
    MaxSeq <- MCMaxSeq
SPECIFICATION FairSpec
PROPERTY FrozenEventuallyFlushed
