\* Killed between superblock and group descriptors.
CONSTANTS
    Dir = {"root", "sub", "deep"}
    Root = "root"
    Layout <- SmallTree
    Slot <- SmallSlots
    FileType <- SmallTypes
    Dots <- SmallDots
    DirSlot <- SmallDirSlots
    Groups = 3
    Super = {0, 1}
    OldIpg = 3
    InodesPerBlock = 4
    FreeInodes = 2
    Damage = {"none"}
    Kill = TRUE
    MaxRuns = 2
SPECIFICATION Spec
INVARIANTS DescriptorsFixed
