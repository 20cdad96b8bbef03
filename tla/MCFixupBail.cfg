\* The tool stops at the places -d names, and is run again.
CONSTANTS
    Dir = {"root", "sub", "deep"}
    Root = "root"
    Layout <- FlatTree
    Slot <- SmallSlots
    FileType <- SmallTypes
    Dots <- SmallDots
    DirSlot <- SmallDirSlots
    Groups = 3
    Super = {0, 1}
    OldIpg = 3
    InodesPerBlock = 4
    FreeInodes = 2
    Damage = {"none", "recover", "count", "notdir"}
    Kill = FALSE
    MaxRuns = 4
SPECIFICATION Spec
INVARIANTS DescriptorsFixed MountableIsConsistent DamagedIsUntouched
