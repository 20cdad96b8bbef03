\* Three to five groups, the last of any size, also with its header only; files of up to ten
\* blocks.  An extent block has room for six extents, four or one.
CONSTANTS
    BlocksPerGroup = 7
    BlockSizes = {14, 10, 5}
    KiloByte = 10
    ExtentSize = 2
    InodeTableBlocks = 1
    DescBlocks = 1
    Lens <- AllLastGroups
    U32 = 65536
    MaxRegions = 6
    Sizes = {1, 3, 10}
SPECIFICATION FairSpec
INVARIANTS IInv NoBlockTwice FileIsSound
PROPERTY AllocationEnds
