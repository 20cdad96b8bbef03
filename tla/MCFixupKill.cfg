\* The tool may be killed before or after any write.
CONSTANTS
    Dir = {"root", "sub", "deep"}
    Root = "root"
    Layout <- SmallTree
    Slot <- SmallSlots
    FileType <- SmallTypes
    Dots <- SmallDots
    DirSlot <- SmallDirSlots
    Groups = 3
    Super = {0, 1}
    OldIpg = 3
    InodesPerBlock = 4
    FreeInodes = 2
    Damage = {"none", "recover", "count", "notdir"}
    Kill = TRUE
    MaxRuns = 4
SPECIFICATION FairSpec
INVARIANTS Resumable ImageFixed
PROPERTY Recovers
