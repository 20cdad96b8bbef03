------------------------------ MODULE Allocator ------------------------------
(***************************************************************************)
(* ext4_utils/allocate.c and extent.c: make_ext4fs hands out the blocks of  *)
(* the new filesystem.  A block group has a bitmap, a count of free blocks  *)
(* and the index of the first one; a file gets a list of regions, one per   *)
(* group it is spread over, and the list becomes its extents.               *)
(***************************************************************************)
EXTENDS Integers, Sequences, FiniteSets

CONSTANTS BlocksPerGroup,
          BlockSizes,         \* sizes of a block, in bytes
          KiloByte,           \* 1024
          ExtentSize,         \* sizeof(struct ext4_extent), and of the header
          InodeTableBlocks,
          DescBlocks,         \* bg_desc_blocks + bg_desc_reserve_blocks
          Lens,               \* lengths of the image, in blocks
          U32,                \* the modulus of u32 arithmetic
          Sizes,              \* lengths of files, in blocks
          MaxRegions          \* bound on the list of a request: empty regions
                              \* beyond it are not recorded

ASSUME GeometryAssumption ==
    /\ BlocksPerGroup \in Nat
    /\ BlockSizes \subseteq Nat /\ KiloByte \in Nat /\ ExtentSize \in Nat \ {0}
    /\ \A size \in BlockSizes : size >= ExtentSize
    /\ InodeTableBlocks \in Nat /\ DescBlocks \in Nat
    /\ 3 + InodeTableBlocks + DescBlocks <= BlocksPerGroup
    /\ Lens \subseteq Nat \ {0} /\ Sizes \subseteq Nat \ {0}
    /\ MaxRegions \in Nat
    /\ U32 \in Nat /\ \A n \in Lens : n + BlocksPerGroup + 1 < U32

VARIABLES block_size,
          len_blocks,   \* of the filesystem
          groups,       \* number of block groups
          bgs,          \* aux_info.bgs
          pc,           \* "idle", or the allocation in progress is ...
          request,      \* the blocks of the file being allocated
          want,         \* len in ext4_allocate_multiple_contiguous_blocks
          regs,         \* the regions allocated for it so far
          owned,        \* the regions of all files and metadata blocks
          file          \* the last file: its request, extents and extent block

vars == <<block_size, len_blocks, groups, bgs, pc, request, want, regs, owned, file>>

Group == 0 .. groups - 1
Block == 0 .. BlocksPerGroup - 1

-----------------------------------------------------------------------------
(* The geometry of the filesystem.                                         *)

FirstDataBlock == IF block_size > KiloByte THEN 0 ELSE 1

DivRoundUp(a, b) == (a + b - 1) \div b
is_power_of(a, b) == \E k \in 1 .. a : a = b ^ k
\* make_ext4fs always sets the sparse_super feature.
ext4_bg_has_super_block(i) == i \in {0, 1} \/ \E b \in {3, 5, 7} : is_power_of(i, b)

HeaderBlocks(i) ==
    2 + InodeTableBlocks + IF ext4_bg_has_super_block(i) THEN 1 + DescBlocks ELSE 0

\* ext4_create_fs_aux_info: a last group too short for its header is dropped.
LastGroupSize(len) == len % BlocksPerGroup
AllGroups(len) == DivRoundUp(len - FirstDataBlock, BlocksPerGroup)
LastGroupDropped(len) ==
    LastGroupSize(len) > 0 /\ LastGroupSize(len) < HeaderBlocks(AllGroups(len) - 1)

FirstBlock(i) == FirstDataBlock + i * BlocksPerGroup

-----------------------------------------------------------------------------
(* Block groups.                                                           *)

BlockGroupInfo(bitmap, free, first, used) ==
    [bitmap |-> bitmap, free_blocks |-> free, first_free_block |-> first,
     data_blocks_used |-> used]

\* reserve_blocks and free_blocks do not touch data_blocks_used.
Updated(bg, bitmap, free, first) == BlockGroupInfo(bitmap, free, first, bg.data_blocks_used)

\* Mutant: free_blocks is not compared.
reserve_blocksUnchecked(bg, start, num) ==
    [ok |-> TRUE,
     bg |-> Updated(bg, bg.bitmap \cup (start .. start + num - 1), bg.free_blocks - num,
                    IF start = bg.first_free_block THEN start + num ELSE bg.first_free_block)]

\* reserve_blocks sets the bits in order and gives up at the first that is set
\* (where it sets a whole byte, the rest of that byte is set too).  GroupInv
\* shows that no caller asks for a block that is taken.
reserve_blocks(bg, start, num) ==
    LET blocks == start .. start + num - 1
        taken == blocks \cap bg.bitmap
    IN
    IF num > bg.free_blocks THEN [ok |-> FALSE, bg |-> bg]
    ELSE IF taken # {}
    THEN [ok |-> FALSE,
          bg |-> Updated(bg, bg.bitmap \cup {b \in blocks : \A c \in taken : b < c},
                         bg.free_blocks, bg.first_free_block)]
    ELSE [ok |-> TRUE,
          bg |-> Updated(bg, bg.bitmap \cup blocks, bg.free_blocks - num,
                         IF start = bg.first_free_block THEN start + num
                         ELSE bg.first_free_block)]

free_blocks(bg, num) ==
    Updated(bg, bg.bitmap \ (bg.first_free_block - num .. bg.first_free_block - 1),
            bg.free_blocks + num, bg.first_free_block - num)

EmptyGroup == BlockGroupInfo({}, BlocksPerGroup, 0, 0)

\* The blocks of group i behind the end of the filesystem, as a u32.
Overrun(i, len) ==
    LET d == FirstBlock(i) + BlocksPerGroup - len IN IF d >= 0 THEN d ELSE d + U32

init_bg(i, len) ==
    LET header == reserve_blocks(EmptyGroup, 0, HeaderBlocks(i)).bg
        overrun == Overrun(i, len)
    IN IF overrun > 0
       THEN reserve_blocks(header, BlocksPerGroup - overrun, overrun).bg
       ELSE header

NoFile == [request |-> 0, entries |-> 0, list |-> <<>>, oob |-> <<>>]

Init ==
    /\ block_size \in BlockSizes
    /\ \E len \in Lens :
          /\ len_blocks = IF LastGroupDropped(len) THEN len - LastGroupSize(len) ELSE len
          /\ groups = IF LastGroupDropped(len) THEN AllGroups(len) - 1 ELSE AllGroups(len)
    /\ bgs = [i \in 0 .. groups - 1 |-> init_bg(i, len_blocks)]
    /\ pc = "idle" /\ request = 0 /\ want = 0 /\ regs = <<>> /\ owned = {} /\ file = NoFile

-----------------------------------------------------------------------------
(* ext4_allocate_blocks_from_block_group and its callers.                  *)

Fits(g, len) == bgs[g].free_blocks >= len

\* The first group in which len blocks are free.
FirstFit(g, len) == Fits(g, len) /\ \A h \in Group : h < g => ~Fits(h, len)

MakeRegion(g, start, len) == [bg |-> g, start |-> start, len |-> len]
RegionIn(g, len) == MakeRegion(g, bgs[g].first_free_block, len)

\* Mutant: data_blocks_used is not counted.
TakenUncounted(g, len) ==
    [bgs EXCEPT ![g] = reserve_blocks(@, @.first_free_block, len).bg]

\* bgs after len blocks of group g are allocated.
Taken(g, len) ==
    LET r == reserve_blocks(bgs[g], bgs[g].first_free_block, len).bg IN
    [bgs EXCEPT ![g] = BlockGroupInfo(r.bitmap, r.free_blocks, r.first_free_block,
                                      r.data_blocks_used + len)]

\* allocate_block: one block, for extended attributes.
allocate_block ==
    /\ pc = "idle"
    /\ \E g \in Group :
          /\ FirstFit(g, 1)
          /\ bgs' = Taken(g, 1)
          /\ owned' = owned \cup {RegionIn(g, 1)}
    /\ UNCHANGED <<block_size, len_blocks, groups, pc, request, want, regs, file>>

\* do_inode_allocate_extents asks for one block more than the file has, and
\* gets them from one group ...
AllocateContiguous(n) ==
    /\ pc = "idle"
    /\ \E g \in Group :
          /\ FirstFit(g, n + 1)
          /\ bgs' = Taken(g, n + 1)
          /\ regs' = <<RegionIn(g, n + 1)>>
    /\ request' = n /\ want' = 0 /\ pc' = "attach"
    /\ UNCHANGED <<block_size, len_blocks, groups, owned, file>>

\* ... or, if they fit in none, from several.
AllocateMultiple(n) ==
    /\ pc = "idle"
    /\ \A g \in Group : ~Fits(g, n + 1)
    /\ request' = n /\ want' = n + 1 /\ regs' = <<>> /\ pc' = "partial"
    /\ UNCHANGED <<block_size, len_blocks, groups, bgs, owned, file>>

Unused == {g \in Group : bgs[g].data_blocks_used = 0}
FirstUnused(g) == g \in Unused /\ \A h \in Unused : g <= h

Add(g, len) ==
    /\ bgs' = Taken(g, len)
    /\ regs' = IF len = 0 /\ Len(regs) >= MaxRegions THEN regs
               ELSE Append(regs, RegionIn(g, len))
    /\ want' = want - len
    /\ pc' = IF want = len THEN "attach" ELSE "partial"
    /\ UNCHANGED <<block_size, len_blocks, groups, request, owned, file>>

\* ext4_allocate_partial: all of the first unused group ...
PartialWhole ==
    /\ pc = "partial"
    /\ \E g \in Group :
          /\ FirstUnused(g) /\ bgs[g].free_blocks < want
          /\ Add(g, bgs[g].free_blocks)

\* ... or the rest, from the first group it fits in.
PartialRest ==
    /\ pc = "partial"
    /\ \E g \in Group : FirstUnused(g) /\ bgs[g].free_blocks >= want
    /\ \E g \in Group : FirstFit(g, want) /\ Add(g, want)

\* No unused group is left: the request fails, what it has taken is lost.
PartialFails ==
    /\ pc = "partial" /\ Unused = {}
    /\ pc' = "idle" /\ regs' = <<>> /\ want' = 0
    /\ UNCHANGED <<block_size, len_blocks, groups, bgs, request, owned, file>>

-----------------------------------------------------------------------------
(* The rest of do_inode_allocate_extents: up to three extents fit in the    *)
(* inode and the additional block is given back, more go to that block.     *)

\* allocate_blocks leaves list.last at the first region, and it is this one
\* that reduce_allocation shortens.  If nothing is left of it, the list is
\* taken for empty.
reduce_allocation(list) ==
    IF list[1].len > 1
    THEN [list EXCEPT ![1] = MakeRegion(@.bg, @.start, @.len - 1)]
    ELSE <<>>

\* split_allocation, as used by reserve_oob_blocks(alloc, 1): one block is cut
\* off the first region.  If the region is that block, do_split_allocation
\* returns the one behind it and iter stays.
reserve_oob_blocks(list) ==
    IF list[1].len > 1
    THEN [list |-> [list EXCEPT ![1] = MakeRegion(@.bg, @.start + 1, @.len - 1)],
          oob |-> <<MakeRegion(list[1].bg, list[1].start, 1)>>]
    ELSE [list |-> <<list[1]>>, oob |-> Tail(list)]

RangeOf(s) == {s[i] : i \in DOMAIN s}

Attach(list, oob) ==
    /\ file' = [request |-> request, entries |-> Len(regs), list |-> list, oob |-> oob]
    /\ owned' = owned \cup RangeOf(list) \cup RangeOf(oob)
    /\ pc' = "idle" /\ regs' = <<>>
    /\ UNCHANGED <<block_size, len_blocks, groups, request, want>>

\* Mutant: the block goes back to the pool and stays in the file.
AttachInodeUnreduced ==
    /\ pc = "attach" /\ Len(regs) <= 3
    /\ bgs' = [bgs EXCEPT ![regs[1].bg] = free_blocks(@, 1)]
    /\ Attach(regs, <<>>)

AttachInode ==
    /\ pc = "attach" /\ Len(regs) <= 3
    /\ bgs' = [bgs EXCEPT ![regs[1].bg] = free_blocks(@, 1)]
    /\ Attach(reduce_allocation(regs), <<>>)

\* The extents that a block holds behind its header, and those that
\* do_inode_allocate_extents takes a block to hold: without the parentheses
\* that eh_max has, the header's size is divided by an extent's.
ExtentsPerBlock == (block_size - ExtentSize) \div ExtentSize
TooBig(entries) == block_size - ExtentSize \div ExtentSize < entries

\* Mutant: the extent block is taken from the file.
AttachExtentBlockShared ==
    /\ pc = "attach" /\ Len(regs) > 3 /\ ~TooBig(Len(regs))
    /\ Len(reserve_oob_blocks(regs).list) <= ExtentsPerBlock
    /\ Attach(regs, reserve_oob_blocks(regs).oob)
    /\ UNCHANGED bgs

AttachExtentBlock ==
    /\ pc = "attach" /\ Len(regs) > 3 /\ ~TooBig(Len(regs))
    /\ LET split == reserve_oob_blocks(regs) IN
          Len(split.list) <= ExtentsPerBlock /\ Attach(split.list, split.oob)
    /\ UNCHANGED bgs

\* "File size is too big": no file, and the blocks are lost.
FileTooBig ==
    /\ pc = "attach" /\ Len(regs) > 3 /\ TooBig(Len(regs))
    /\ pc' = "idle" /\ regs' = <<>>
    /\ UNCHANGED <<block_size, len_blocks, groups, bgs, request, want, owned, file>>

\* The extents are written behind the end of the block, into the heap.
OverrunExtentBlock ==
    /\ pc = "attach" /\ Len(regs) > 3 /\ ~TooBig(Len(regs))
    /\ Len(reserve_oob_blocks(regs).list) > ExtentsPerBlock
    /\ pc' = "overwritten"
    /\ UNCHANGED <<block_size, len_blocks, groups, bgs, request, want, regs, owned, file>>

\* What the process does then is not said.
Overwritten == pc = "overwritten" /\ UNCHANGED vars

Partial == PartialWhole \/ PartialRest \/ PartialFails
AttachRegions == AttachInode \/ AttachExtentBlock \/ FileTooBig \/ OverrunExtentBlock

Next ==
    \/ allocate_block
    \/ \E n \in Sizes : AllocateContiguous(n) \/ AllocateMultiple(n)
    \/ Partial
    \/ AttachRegions
    \/ Overwritten

Spec == Init /\ [][Next]_vars
\* The tool runs until an allocation has returned.
FairSpec == Spec /\ WF_vars(Partial \/ AttachRegions)

-----------------------------------------------------------------------------
(* Properties.                                                             *)

Region == [bg : Int, start : Int, len : Nat]
BlockGroup ==
    [bitmap : SUBSET Int, free_blocks : Int, first_free_block : Int, data_blocks_used : Int]

\* Every variable has a value of its type.
TypeOK ==
    /\ groups \in Int /\ len_blocks \in Int
    /\ bgs \in [Group -> BlockGroup]
    /\ pc \in {"idle", "partial", "attach", "overwritten"}
    /\ request \in Nat /\ want \in Nat
    /\ regs \in Seq(Region) /\ owned \subseteq Region

\* The free blocks of a group are an interval: the bitmap has all others.
FreeInterval(bg) ==
    /\ bg.first_free_block >= 0 /\ bg.free_blocks >= 0
    /\ bg.first_free_block + bg.free_blocks <= BlocksPerGroup
    /\ bg.bitmap = Block \ (bg.first_free_block .. bg.first_free_block + bg.free_blocks - 1)
\* What allocate.c relies on without saying so: bitmap, free_blocks and
\* first_free_block of every group describe one interval of free blocks, behind
\* the header.
GroupInv ==
    \A g \in Group : FreeInterval(bgs[g]) /\ HeaderBlocks(g) <= bgs[g].first_free_block

Apart(r, s) == r.bg = s.bg => r.start + r.len <= s.start \/ s.start + s.len <= r.start
Reserved(r) ==
    /\ r.bg \in Group
    /\ HeaderBlocks(r.bg) <= r.start
    /\ r.start + r.len <= bgs[r.bg].first_free_block

\* No block is given to two files, or twice to one, and none of them is
\* free in its group or belongs to the header.
NoBlockTwice ==
    /\ \A r \in owned : Reserved(r)
    /\ \A i \in 1 .. Len(regs) : Reserved(regs[i])
    /\ \A r, s \in owned : r # s => Apart(r, s)
    /\ \A i, j \in 1 .. Len(regs) : i < j => Apart(regs[i], regs[j])
    /\ \A r \in owned, i \in 1 .. Len(regs) : Apart(r, regs[i])

\* While regions are collected their groups are full, so that the end of the
\* first region stays at first_free_block, from where a block is given back.
TailInv ==
    /\ pc = "partial" => want > 0 /\ \A i \in 1 .. Len(regs) : bgs[regs[i].bg].free_blocks = 0
    /\ pc \in {"partial", "attach"} /\ regs # <<>> =>
          regs[1].start + regs[1].len = bgs[regs[1].bg].first_free_block
    /\ pc = "attach" => regs # <<>>
    /\ pc = "idle" => regs = <<>>

\* No file gets an empty region: a request that meets a group without a free
\* block meets it again and again.
EmptyInv ==
    /\ \A r \in owned : r.len > 0
    /\ pc = "attach" => \A i \in 1 .. Len(regs) : regs[i].len > 0
    /\ pc = "partial" /\ (\E i \in 1 .. Len(regs) : regs[i].len = 0) =>
          \E g \in Group : FirstUnused(g) /\ bgs[g].free_blocks = 0

\* The inductive invariant.
IInv == TypeOK /\ GroupInv /\ NoBlockTwice /\ TailInv /\ EmptyInv

BlocksOf(list) ==
    UNION {{<<r.bg, b>> : b \in r.start .. r.start + r.len - 1} : r \in RangeOf(list)}

\* A file has as many blocks as were asked for, as many extents as its header
\* says, and an extent block if they do not fit in the inode.
\* (allocate.c:254 "Reduces an existing allocation by len blocks")
ExtentsCoverFile ==
    /\ Cardinality(BlocksOf(file.list)) = file.request
    /\ Len(file.list) = file.entries
    /\ Cardinality(BlocksOf(file.oob)) = IF file.entries > 3 THEN 1 ELSE 0

\* No block behind the end of the filesystem is given to a file, unless it is
\* of a last group whose header ends there, too: ext4_create_fs_aux_info
\* compares the group's size without first_data_block, and init_bg's overrun
\* is then more than what is free.
\* (allocate.c:558 "Returns the number of free blocks in a block group")
HeaderCut(g) == FirstBlock(g) + HeaderBlocks(g) > len_blocks
InsideFilesystem ==
    \A r \in owned : FirstBlock(r.bg) + r.start + r.len <= len_blocks \/ HeaderCut(r.bg)

\* The extent block is overrun only in a filesystem of more groups than it
\* holds extents: a file has at most one in each.
HeapIntact == pc = "overwritten" => groups > ExtentsPerBlock

\* A file that was allocated has its extents, all of them in the filesystem
\* and in a block that has room for them.
FileIsSound == ExtentsCoverFile /\ InsideFilesystem /\ HeapIntact

\* The next group to be used has no data block.
AtHeaderOnly == pc = "partial" /\ \E g \in Group :
    FirstUnused(g) /\ FirstBlock(g) + HeaderBlocks(g) = len_blocks

\* An allocation returns, with blocks or without, or it has come to a last
\* group that has only its header, which it finds again for ever.
AllocationEnds == pc # "idle" ~> (pc \in {"idle", "overwritten"} \/ []AtHeaderOnly)
=============================================================================
