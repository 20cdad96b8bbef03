\* Three files and a pool of two descriptors; one change of a file.
CONSTANTS
    SectorSize = 2
    ClusterSize = 4
    EntriesPerSector = 4
    DataSize = 24
    Files = {"a", "b", "c"}
    fdpool_head = "head"
    Nowhere = "nowhere"
    FDPOOL_SIZE = 2
    UINT32_MAX = 7
    MaxChanges = 1
    MAX_BUF = 6
    MAX_FAILURES = 1
    KernelBufs = {4, 8}
    Garbage = {0, 99}
    Order <- MCOrder
    FileSize <- MCFileSize
    Reads <- MCReads
SPECIFICATION Spec
INVARIANTS ReadsAreRight ServedIsImported CleanedUp
PROPERTIES PoolIsLru SkyEnds
CHECK_DEADLOCK FALSE
