CONSTANTS
    clusterCount_ = 3
    EntriesPerBlock = 3
    BlockSize = 2
    blocksPerCluster_ = 1
    DirSlots = 2
    Name = {n1, n2}
    Handle = {h1, h2}
    MaxAppend = 2
    RowSize = 1
    Overwrite = FALSE
    Careful = TRUE
    MaxSize = 3
    MaxAge = 2
    MaxPowerLosses = 1
SPECIFICATION Spec
INVARIANTS TypeOK OwnedOnce NoneLost MirrorIsFat OpenReadsBack
PROPERTIES ImplementsStore
SYMMETRY Alike
