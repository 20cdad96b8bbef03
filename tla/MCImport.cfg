\* Five entries in up to three directories, on a device of four clusters.
CONSTANTS
    SectorSize = 2
    ClusterSize = 4
    EntriesPerSector = 4
    DataSize = 14
    MaxEntries = 5
    MaxDepth = 3
    Sizes = {0, 13}
    U32 = 8
    Names <- SomeNames
SPECIFICATION Spec
INVARIANTS ClustersAccounted ItemsApart TablesAreTree CrashesExplained
CHECK_DEADLOCK FALSE
