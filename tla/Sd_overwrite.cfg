\* One file, no power loss, and a program that seeks back and writes.
CONSTANTS
    clusterCount_ = 3
    EntriesPerBlock = 5
    BlockSize = 2
    blocksPerCluster_ = 2
    DirSlots = 2
    Name = {n1}
    Handle = {h1}
    MaxAppend = 2
    RowSize = 1
    Overwrite = TRUE
    Careful = TRUE
    MaxSize = 4
    MaxAge = 1
    MaxPowerLosses = 0
SPECIFICATION Spec
PROPERTIES CloseKeeps
