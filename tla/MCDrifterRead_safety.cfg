CONSTANTS
    t1 = t1
    t2 = t2
    NoTrx = NoTrx
    Trx <- MCTrx
    Keys <- MCKeys
    IsoLevels <- DefaultIsoLevel
    MaxHeight = 2
    MaxTables = 2
    BlockSize = 50
    ValueLen = 3
    MaxSeq = 5
    FPChoices <- NoFalsePositives
SPECIFICATION Spec
SYMMETRY Symmetry
CHECK_DEADLOCK FALSE
INVARIANT TypeOK
INVARIANT ListSorted
INVARIANT GetEntryFindsNewest
INVARIANT RangeFindsNewest
INVARIANT IndexBlocksAligned
PROPERTY StoreRefined
