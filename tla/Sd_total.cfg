\* SD_uS alone: one name, one handle, and no care for what a power loss left.
CONSTANTS
    clusterCount_ = 3
    EntriesPerBlock = 5
    BlockSize = 2
    blocksPerCluster_ = 1
    DirSlots = 2
    Name = {n1}
    Handle = {h1}
    MaxAppend = 1
    RowSize = 1
    Overwrite = FALSE
    Careful = FALSE
    MaxSize = 3
    MaxAge = 3
    MaxPowerLosses = 1
SPECIFICATION Spec
PROPERTIES TotalWritten
