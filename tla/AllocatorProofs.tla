-------------------------- MODULE AllocatorProofs --------------------------
(***************************************************************************)
(* For every geometry and every sequence of requests: bitmap and counters   *)
(* of a block group agree, and no block is handed out twice.  For every     *)
(* geometry that is Roomy: a file has the blocks and extents it should, and *)
(* the extents run out of their block only in a filesystem of more groups   *)
(* than the block holds extents.                                            *)
(***************************************************************************)
EXTENDS Allocator, FiniteSetTheorems, FunctionTheorems, TLAPS

\* The header of a group has at least two blocks and fits in the group.
LEMMA HeaderFits ==
    ASSUME NEW i
    PROVE  /\ HeaderBlocks(i) \in Nat /\ HeaderBlocks(i) >= 2
           /\ HeaderBlocks(i) <= BlocksPerGroup
BY GeometryAssumption DEF HeaderBlocks

\* The fields of a group after an update.
LEMMA UpdatedGroup ==
    ASSUME NEW bg \in BlockGroup, NEW bitmap \in SUBSET Int, NEW free \in Int, NEW first \in Int
    PROVE  LET r == Updated(bg, bitmap, free, first) IN
           /\ r \in BlockGroup
           /\ r.bitmap = bitmap /\ r.free_blocks = free /\ r.first_free_block = first
           /\ r.data_blocks_used = bg.data_blocks_used
BY DEF BlockGroup, Updated, BlockGroupInfo

\* Blocks reserved at the start of the free interval shorten it from below.
LEMMA ReserveFirst ==
    ASSUME NEW bg \in BlockGroup, FreeInterval(bg), NEW num \in Nat, num <= bg.free_blocks
    PROVE  LET r == reserve_blocks(bg, bg.first_free_block, num).bg IN
           /\ r \in BlockGroup /\ FreeInterval(r)
           /\ r.first_free_block = bg.first_free_block + num
           /\ r.free_blocks = bg.free_blocks - num
           /\ r.data_blocks_used = bg.data_blocks_used
<1> DEFINE blocks == bg.first_free_block .. bg.first_free_block + num - 1
           r == reserve_blocks(bg, bg.first_free_block, num).bg
<1>0. bg.free_blocks \in Int /\ bg.first_free_block \in Int /\ bg.bitmap \in SUBSET Int
  BY DEF BlockGroup
<1>1. blocks \cap bg.bitmap = {}
  BY DEF FreeInterval, BlockGroup
<1>2. r = Updated(bg, bg.bitmap \cup blocks, bg.free_blocks - num, bg.first_free_block + num)
  BY <1>1 DEF reserve_blocks, BlockGroup
<1>3. bg.bitmap \cup blocks =
        Block \ (bg.first_free_block + num .. bg.first_free_block + bg.free_blocks - 1)
  BY GeometryAssumption DEF FreeInterval, BlockGroup, Block
<1>4. /\ r \in BlockGroup
      /\ r.bitmap = bg.bitmap \cup blocks
      /\ r.free_blocks = bg.free_blocks - num
      /\ r.first_free_block = bg.first_free_block + num
      /\ r.data_blocks_used = bg.data_blocks_used
  <2>1. bg.bitmap \cup blocks \in SUBSET Int
    BY <1>0
  <2>2. bg.free_blocks - num \in Int /\ bg.first_free_block + num \in Int
    BY <1>0
  <2> HIDE DEF r, blocks
  <2> QED
    BY <1>2, <2>1, <2>2, UpdatedGroup
<1>5. BlocksPerGroup \in Int
  BY GeometryAssumption
<1>6. r.first_free_block + r.free_blocks = bg.first_free_block + bg.free_blocks
  BY <1>0, <1>4
<1> HIDE DEF r, blocks
<1>7. FreeInterval(r)
  BY <1>0, <1>3, <1>4, <1>5, <1>6 DEF FreeInterval
<1> QED
  BY <1>4, <1>7 DEF r

\* Blocks reserved up to the end of the group shorten it from above, and a
\* reservation of more blocks than are free changes nothing.
LEMMA ReserveOverrun ==
    ASSUME NEW bg \in BlockGroup, FreeInterval(bg), NEW num \in Nat, num > 0,
           bg.first_free_block + bg.free_blocks = BlocksPerGroup
    PROVE  LET r == reserve_blocks(bg, BlocksPerGroup - num, num).bg IN
           /\ r \in BlockGroup /\ FreeInterval(r)
           /\ r.first_free_block >= bg.first_free_block
           /\ r.data_blocks_used = bg.data_blocks_used
           /\ num > bg.free_blocks => r = bg
           /\ num <= bg.free_blocks => \/ r.free_blocks = 0
                                      \/ r.first_free_block + r.free_blocks + num = BlocksPerGroup
<1> DEFINE start == BlocksPerGroup - num
           blocks == start .. start + num - 1
           r == reserve_blocks(bg, start, num).bg
<1>0. bg.free_blocks \in Int /\ bg.first_free_block \in Int /\ BlocksPerGroup \in Int
  BY GeometryAssumption DEF BlockGroup
<1>1. CASE num > bg.free_blocks
  <2>1. reserve_blocks(bg, BlocksPerGroup - num, num).bg = bg
    BY <1>1 DEF reserve_blocks
  <2>2. bg.first_free_block >= bg.first_free_block /\ ~(num <= bg.free_blocks)
    BY <1>0, <1>1
  <2> QED
    BY <2>1, <2>2
<1>2. CASE num <= bg.free_blocks
  <2>1. blocks \cap bg.bitmap = {}
    BY <1>0, <1>2 DEF FreeInterval, Block
  <2>2. r = Updated(bg, bg.bitmap \cup blocks, bg.free_blocks - num,
                    IF start = bg.first_free_block THEN start + num ELSE bg.first_free_block)
    BY <1>0, <2>1, <1>2 DEF reserve_blocks, BlockGroup
  <2>3. bg.bitmap \cup blocks =
          Block \ (bg.first_free_block .. bg.first_free_block + (bg.free_blocks - num) - 1)
    BY <1>0, <1>2 DEF FreeInterval, Block
  <2>4. /\ r \in BlockGroup
        /\ r.bitmap = bg.bitmap \cup blocks
        /\ r.free_blocks = bg.free_blocks - num
        /\ r.first_free_block =
             IF start = bg.first_free_block THEN start + num ELSE bg.first_free_block
        /\ r.data_blocks_used = bg.data_blocks_used
    <3>1. bg.bitmap \cup blocks \in SUBSET Int
      BY <1>0 DEF BlockGroup
    <3>2. /\ bg.free_blocks - num \in Int
          /\ (IF start = bg.first_free_block THEN start + num ELSE bg.first_free_block) \in Int
      BY <1>0
    <3> HIDE DEF r, blocks, start
    <3> QED
      BY <2>2, <3>1, <3>2, UpdatedGroup
  <2> HIDE DEF r, blocks
  <2>5. CASE start = bg.first_free_block
    <3>1. r.free_blocks = 0 /\ r.first_free_block = BlocksPerGroup
      BY <1>0, <2>4, <2>5
    <3>2. /\ bg.first_free_block .. bg.first_free_block + (bg.free_blocks - num) - 1 = {}
          /\ r.first_free_block .. r.first_free_block + r.free_blocks - 1 = {}
      BY <1>0, <2>4, <2>5, <3>1
    <3>3. r.bitmap = Block \ (r.first_free_block .. r.first_free_block + r.free_blocks - 1)
      BY <2>3, <2>4, <3>2
    <3> QED
      BY <1>0, <2>4, <2>5, <3>1, <3>3 DEF FreeInterval, r
  <2>6. CASE start # bg.first_free_block
    <3>1. r.first_free_block = bg.first_free_block /\ r.free_blocks = bg.free_blocks - num
      BY <2>4, <2>6
    <3>2. r.bitmap = Block \ (r.first_free_block .. r.first_free_block + r.free_blocks - 1)
      BY <2>3, <2>4, <3>1
    <3>3. FreeInterval(r)
      BY <1>0, <1>2, <3>1, <3>2 DEF FreeInterval
    <3>4. r.first_free_block + r.free_blocks + num = BlocksPerGroup
      BY <1>0, <3>1
    <3>5. r.first_free_block >= bg.first_free_block /\ ~(num > bg.free_blocks)
      BY <1>0, <1>2, <3>1
    <3> QED
      BY <2>4, <3>3, <3>4, <3>5 DEF r, start
  <2> QED
    BY <2>5, <2>6
<1> QED
  BY <1>0, <1>1, <1>2

\* Blocks given back before the free interval lengthen it.
LEMMA FreeLast ==
    ASSUME NEW bg \in BlockGroup, FreeInterval(bg), NEW num \in Nat, num <= bg.first_free_block
    PROVE  LET r == free_blocks(bg, num) IN
           /\ r \in BlockGroup /\ FreeInterval(r)
           /\ r.first_free_block = bg.first_free_block - num
           /\ r.free_blocks = bg.free_blocks + num
           /\ r.data_blocks_used = bg.data_blocks_used
<1> DEFINE r == free_blocks(bg, num)
<1>1. bg.bitmap \ (bg.first_free_block - num .. bg.first_free_block - 1) =
        Block \ (bg.first_free_block - num .. bg.first_free_block + bg.free_blocks - 1)
  BY GeometryAssumption DEF FreeInterval, BlockGroup, Block
<1>2. /\ r \in BlockGroup
      /\ r.bitmap = bg.bitmap \ (bg.first_free_block - num .. bg.first_free_block - 1)
      /\ r.free_blocks = bg.free_blocks + num
      /\ r.first_free_block = bg.first_free_block - num
      /\ r.data_blocks_used = bg.data_blocks_used
  <2>1. bg.bitmap \ (bg.first_free_block - num .. bg.first_free_block - 1) \in SUBSET Int
    BY DEF BlockGroup
  <2>2. bg.free_blocks + num \in Int /\ bg.first_free_block - num \in Int
    BY DEF BlockGroup
  <2> QED
    BY <2>1, <2>2, UpdatedGroup DEF free_blocks
<1>3. bg.free_blocks \in Int /\ bg.first_free_block \in Int /\ BlocksPerGroup \in Int
  BY GeometryAssumption DEF BlockGroup
<1> HIDE DEF r
<1>4. r.first_free_block + r.free_blocks = bg.first_free_block + bg.free_blocks
  BY <1>2, <1>3
<1>5. FreeInterval(r)
  BY <1>1, <1>2, <1>3, <1>4 DEF FreeInterval
<1> QED
  BY <1>2, <1>5 DEF r

\* A fresh group is an interval of free blocks behind the header, whether the
\* group ends before the filesystem does or not.
LEMMA InitGroup ==
    ASSUME NEW i \in Int, NEW len \in Int
    PROVE  /\ init_bg(i, len) \in BlockGroup /\ FreeInterval(init_bg(i, len))
           /\ HeaderBlocks(i) <= init_bg(i, len).first_free_block
           /\ init_bg(i, len).data_blocks_used = 0
           /\ Overrun(i, len) = 0 \/ Overrun(i, len) > BlocksPerGroup - HeaderBlocks(i) =>
                 /\ init_bg(i, len).first_free_block = HeaderBlocks(i)
                 /\ init_bg(i, len).free_blocks = BlocksPerGroup - HeaderBlocks(i)
           /\ Overrun(i, len) \in 1 .. BlocksPerGroup - HeaderBlocks(i) =>
                 \/ init_bg(i, len).free_blocks = 0
                 \/ init_bg(i, len).first_free_block + init_bg(i, len).free_blocks
                       + Overrun(i, len) = BlocksPerGroup
<1> DEFINE header == reserve_blocks(EmptyGroup, 0, HeaderBlocks(i)).bg
<1>1. EmptyGroup \in BlockGroup /\ FreeInterval(EmptyGroup) /\ EmptyGroup.first_free_block = 0
      /\ EmptyGroup.free_blocks = BlocksPerGroup /\ EmptyGroup.data_blocks_used = 0
  BY GeometryAssumption DEF EmptyGroup, BlockGroupInfo, BlockGroup, FreeInterval, Block
<1>2. /\ header \in BlockGroup /\ FreeInterval(header)
      /\ header.first_free_block = HeaderBlocks(i)
      /\ header.free_blocks = BlocksPerGroup - HeaderBlocks(i)
      /\ header.data_blocks_used = 0
  BY <1>1, HeaderFits, ReserveFirst, GeometryAssumption
<1>3. Overrun(i, len) \in Int
  BY GeometryAssumption DEF Overrun, FirstBlock, FirstDataBlock
<1>4. CASE Overrun(i, len) > 0
  <2>1. Overrun(i, len) \in Nat
    BY <1>3, <1>4
  <2>2. header.first_free_block + header.free_blocks = BlocksPerGroup
    BY <1>2, HeaderFits, GeometryAssumption
  <2>3. init_bg(i, len) =
          reserve_blocks(header, BlocksPerGroup - Overrun(i, len), Overrun(i, len)).bg
    BY <1>4 DEF init_bg
  <2>4. /\ init_bg(i, len) \in BlockGroup /\ FreeInterval(init_bg(i, len))
        /\ init_bg(i, len).first_free_block >= header.first_free_block
        /\ init_bg(i, len).data_blocks_used = 0
        /\ Overrun(i, len) > header.free_blocks => init_bg(i, len) = header
        /\ Overrun(i, len) <= header.free_blocks =>
              \/ init_bg(i, len).free_blocks = 0
              \/ init_bg(i, len).first_free_block + init_bg(i, len).free_blocks
                    + Overrun(i, len) = BlocksPerGroup
    BY <1>2, <1>4, <2>1, <2>2, <2>3, ReserveOverrun
  <2> HIDE DEF header
  <2>5. HeaderBlocks(i) \in Int /\ BlocksPerGroup \in Int /\ init_bg(i, len).first_free_block \in Int
    BY <2>4, HeaderFits, GeometryAssumption DEF BlockGroup
  <2>6. HeaderBlocks(i) <= init_bg(i, len).first_free_block
    BY <1>2, <2>4, <2>5
  <2> QED
    BY <1>2, <1>4, <2>1, <2>4, <2>5, <2>6
<1>5. CASE ~(Overrun(i, len) > 0)
  BY <1>2, <1>5, HeaderFits DEF init_bg
<1> QED
  BY <1>4, <1>5

\* init_bg, for all groups.
LEMMA InitIInv == Init => IInv
<1> SUFFICES ASSUME Init PROVE IInv
  OBVIOUS
<1>1. groups \in Int /\ len_blocks \in Int
  BY GeometryAssumption DEF Init, AllGroups, DivRoundUp, LastGroupSize, FirstDataBlock
<1>2. \A g \in Group : /\ bgs[g] \in BlockGroup /\ FreeInterval(bgs[g])
                       /\ HeaderBlocks(g) <= bgs[g].first_free_block
  BY <1>1, InitGroup DEF Init, Group
<1>3. bgs = [i \in Group |-> init_bg(i, len_blocks)]
  BY DEF Init, Group
<1>4. bgs \in [Group -> BlockGroup]
  BY <1>2, <1>3
<1>5. TypeOK
  BY <1>1, <1>4 DEF Init, TypeOK
<1>6. pc = "idle" /\ regs = <<>> /\ owned = {}
  BY DEF Init
<1>7. NoBlockTwice /\ TailInv /\ EmptyInv
  BY <1>6 DEF NoBlockTwice, TailInv, EmptyInv
<1> QED
  BY <1>2, <1>5, <1>7 DEF IInv, GroupInv

\* Taking blocks that are free moves the start of one group's free interval.
LEMMA TakenGroups ==
    ASSUME IInv, NEW g \in Group, NEW n \in Nat, n <= bgs[g].free_blocks
    PROVE  /\ Taken(g, n) \in [Group -> BlockGroup]
           /\ \A h \in Group : /\ FreeInterval(Taken(g, n)[h])
                               /\ HeaderBlocks(h) <= Taken(g, n)[h].first_free_block
                               /\ h # g => Taken(g, n)[h] = bgs[h]
           /\ Taken(g, n)[g].first_free_block = bgs[g].first_free_block + n
           /\ Taken(g, n)[g].free_blocks = bgs[g].free_blocks - n
           /\ Taken(g, n)[g].data_blocks_used = bgs[g].data_blocks_used + n
<1> DEFINE r == reserve_blocks(bgs[g], bgs[g].first_free_block, n).bg
           t == BlockGroupInfo(r.bitmap, r.free_blocks, r.first_free_block, r.data_blocks_used + n)
<1>1. bgs[g] \in BlockGroup /\ FreeInterval(bgs[g])
  BY DEF IInv, TypeOK, GroupInv
<1>2. /\ r \in BlockGroup /\ FreeInterval(r)
      /\ r.first_free_block = bgs[g].first_free_block + n
      /\ r.free_blocks = bgs[g].free_blocks - n
      /\ r.data_blocks_used = bgs[g].data_blocks_used
  BY <1>1, ReserveFirst
<1> HIDE DEF r
<1>3. /\ t.bitmap = r.bitmap /\ t.free_blocks = r.free_blocks
      /\ t.first_free_block = r.first_free_block
      /\ t.data_blocks_used = bgs[g].data_blocks_used + n
      /\ t \in BlockGroup
  BY <1>2 DEF BlockGroup, BlockGroupInfo
<1>4. Taken(g, n) = [bgs EXCEPT ![g] = t]
  BY DEF Taken, r
<1> HIDE DEF t
<1>5. FreeInterval(t)
  BY <1>2, <1>3 DEF FreeInterval
<1>6. HeaderBlocks(g) <= t.first_free_block
  BY <1>1, <1>2, <1>3, HeaderFits DEF IInv, GroupInv, BlockGroup
<1> QED
  BY <1>2, <1>3, <1>4, <1>5, <1>6 DEF IInv, TypeOK, GroupInv

\* A region taken from the free interval of its group: it is reserved, and
\* apart from every region reserved before, all of which stay reserved.
LEMMA TakenRegion ==
    ASSUME IInv, NEW g \in Group, NEW n \in Nat, n <= bgs[g].free_blocks,
           bgs' = Taken(g, n), groups' = groups
    PROVE  /\ RegionIn(g, n) \in Region
           /\ RegionIn(g, n).bg = g /\ RegionIn(g, n).len = n
           /\ RegionIn(g, n).start + n = bgs'[g].first_free_block
           /\ \A r \in Region : r = RegionIn(g, n) => Reserved(r)'
           /\ \A r \in Region : Reserved(r) => Reserved(r)' /\ Apart(r, RegionIn(g, n))
                                                            /\ Apart(RegionIn(g, n), r)
<1>1. bgs[g] \in BlockGroup /\ bgs[g].first_free_block \in Int /\ g \in Int
  BY DEF IInv, TypeOK, BlockGroup, Group
<1>2. /\ RegionIn(g, n) \in Region /\ RegionIn(g, n).bg = g /\ RegionIn(g, n).len = n
      /\ RegionIn(g, n).start = bgs[g].first_free_block
  BY <1>1 DEF RegionIn, MakeRegion, Region
<1>3. Group' = Group
  BY DEF Group
<1>4. RegionIn(g, n).start + n = bgs'[g].first_free_block
  BY <1>2, TakenGroups
<1>5. HeaderBlocks(g) <= bgs[g].first_free_block
  BY DEF IInv, GroupInv
<1>6. /\ g \in Group' /\ HeaderBlocks(g) <= RegionIn(g, n).start
      /\ RegionIn(g, n).start + RegionIn(g, n).len <= bgs'[g].first_free_block
  BY <1>1, <1>2, <1>3, <1>4, <1>5
<1>7. ASSUME NEW r \in Region, r = RegionIn(g, n) PROVE Reserved(r)'
  BY <1>2, <1>6, <1>7 DEF Reserved
<1>8. ASSUME NEW r \in Region, Reserved(r)
      PROVE  Reserved(r)' /\ Apart(r, RegionIn(g, n)) /\ Apart(RegionIn(g, n), r)
  <2>1. r.start + r.len <= bgs[r.bg].first_free_block /\ r.start \in Int /\ r.len \in Nat
        /\ r.bg \in Group
    BY <1>8 DEF Reserved, Region
  <2>2. bgs'[r.bg].first_free_block >= bgs[r.bg].first_free_block
    <3>1. CASE r.bg = g
      BY <1>1, <3>1, TakenGroups
    <3>2. CASE r.bg # g
      BY <2>1, <3>2, TakenGroups DEF IInv, TypeOK, BlockGroup
    <3> QED
      BY <3>1, <3>2
  <2>3. bgs[r.bg].first_free_block \in Int /\ bgs'[r.bg].first_free_block \in Int
    BY <2>1, TakenGroups DEF IInv, TypeOK, BlockGroup
  <2>4. Reserved(r)'
    BY <1>3, <1>8, <2>1, <2>2, <2>3 DEF Reserved
  <2> QED
    BY <1>2, <2>1, <2>4 DEF Apart
<1> QED
  BY <1>2, <1>4, <1>7, <1>8

\* What the steps that take a region have in common.
LEMMA TakenInv ==
    ASSUME IInv, NEW g \in Group, NEW n \in Nat, n <= bgs[g].free_blocks,
           bgs' = Taken(g, n), groups' = groups
    PROVE  GroupInv' /\ bgs' \in [Group' -> BlockGroup] /\ Group' = Group
<1>1. Group' = Group
  BY DEF Group
<1>2. bgs' \in [Group' -> BlockGroup]
  BY <1>1, TakenGroups
<1>3. GroupInv'
  BY <1>1, TakenGroups DEF GroupInv, FreeInterval, HeaderBlocks, ext4_bg_has_super_block,
     is_power_of, Block
<1> QED
  BY <1>1, <1>2, <1>3

\* allocate_block: the block joins owned.
LEMMA allocate_blockStep == ASSUME IInv, allocate_block PROVE IInv'
<1>1. PICK g \in Group : /\ FirstFit(g, 1) /\ bgs' = Taken(g, 1)
                         /\ owned' = owned \cup {RegionIn(g, 1)}
  BY DEF allocate_block
<1>2. 1 <= bgs[g].free_blocks
  BY <1>1 DEF FirstFit, Fits, IInv, TypeOK, BlockGroup
<1> DEFINE new == RegionIn(g, 1)
<1>3. /\ new \in Region /\ new.len = 1
      /\ \A r \in Region : r = new => Reserved(r)'
      /\ \A r \in Region : Reserved(r) => Reserved(r)' /\ Apart(r, new) /\ Apart(new, r)
  BY <1>1, <1>2, TakenRegion DEF allocate_block
<1>4. GroupInv' /\ bgs' \in [Group' -> BlockGroup]
  BY <1>1, <1>2, TakenInv DEF allocate_block
<1>5. pc = "idle" /\ regs = <<>> /\ UNCHANGED <<block_size, len_blocks, groups, pc, request, want, regs>>
  BY DEF allocate_block, IInv, TailInv
<1> HIDE DEF new
<1>6. owned' = owned \cup {new}
  BY <1>1 DEF new
<1>7. TypeOK'
  BY <1>3, <1>4, <1>5, <1>6 DEF IInv, TypeOK
<1>8. NoBlockTwice'
  <2>1. \A r \in owned' : Reserved(r)'
    BY <1>3, <1>6 DEF IInv, TypeOK, NoBlockTwice
  <2>2. \A r, s \in owned' : r # s => Apart(r, s)
    BY <1>3, <1>6 DEF IInv, TypeOK, NoBlockTwice
  <2> QED
    BY <1>5, <2>1, <2>2 DEF NoBlockTwice, Apart
<1>9. TailInv' /\ EmptyInv'
  BY <1>3, <1>5, <1>6 DEF IInv, TailInv, EmptyInv
<1> QED
  BY <1>4, <1>7, <1>8, <1>9 DEF IInv

\* AllocateContiguous: the region is the list of the request.
LEMMA AllocateContiguousStep ==
    ASSUME IInv, NEW n \in Sizes, AllocateContiguous(n) PROVE IInv'
<1>1. PICK g \in Group : /\ FirstFit(g, n + 1) /\ bgs' = Taken(g, n + 1)
                         /\ regs' = <<RegionIn(g, n + 1)>>
  BY DEF AllocateContiguous
<1>2. n \in Nat /\ n + 1 \in Nat /\ n + 1 > 0 /\ n + 1 <= bgs[g].free_blocks
  BY <1>1, GeometryAssumption DEF FirstFit, Fits, IInv, TypeOK, BlockGroup
<1> DEFINE new == RegionIn(g, n + 1)
<1>3. /\ new \in Region /\ new.bg = g /\ new.len = n + 1
      /\ new.start + (n + 1) = bgs'[g].first_free_block
      /\ \A r \in Region : r = new => Reserved(r)'
      /\ \A r \in Region : Reserved(r) => Reserved(r)' /\ Apart(r, new) /\ Apart(new, r)
  BY <1>1, <1>2, TakenRegion DEF AllocateContiguous
<1>4. GroupInv' /\ bgs' \in [Group' -> BlockGroup]
  BY <1>1, <1>2, TakenInv DEF AllocateContiguous
<1>5. pc' = "attach" /\ request' = n /\ want' = 0 /\ UNCHANGED <<block_size, len_blocks, groups, owned>>
  BY DEF AllocateContiguous
<1> HIDE DEF new
<1>6. regs' = <<new>>
  BY <1>1 DEF new
<1>7. TypeOK'
  BY <1>2, <1>3, <1>4, <1>5, <1>6 DEF IInv, TypeOK
<1>8. NoBlockTwice'
  <2>1. \A r \in owned' : Reserved(r)' /\ Apart(r, new)
    BY <1>3, <1>5 DEF IInv, TypeOK, NoBlockTwice
  <2>2. \A i \in 1 .. Len(regs') : regs'[i] = new /\ i = 1
    BY <1>6
  <2> QED
    BY <1>3, <1>5, <2>1, <2>2 DEF IInv, NoBlockTwice, Apart
<1>9. TailInv' /\ EmptyInv'
  BY <1>2, <1>3, <1>5, <1>6 DEF IInv, TailInv, EmptyInv
<1> QED
  BY <1>4, <1>7, <1>8, <1>9 DEF IInv

\* AllocateMultiple: nothing is taken yet.
LEMMA AllocateMultipleStep ==
    ASSUME IInv, NEW n \in Sizes, AllocateMultiple(n) PROVE IInv'
<1> USE DEF AllocateMultiple
<1>1. n + 1 \in Nat /\ n \in Nat /\ n + 1 > 0
  BY GeometryAssumption
<1>2. Group' = Group
  BY DEF Group
<1>3. TypeOK'
  BY <1>1, <1>2 DEF IInv, TypeOK
<1>4. GroupInv' /\ NoBlockTwice'
  BY <1>2 DEF IInv, GroupInv, NoBlockTwice, Reserved, Apart, FreeInterval, Block, HeaderBlocks,
     ext4_bg_has_super_block, is_power_of
<1>5. TailInv' /\ EmptyInv'
  BY <1>1 DEF IInv, TailInv, EmptyInv
<1> QED
  BY <1>3, <1>4, <1>5 DEF IInv

\* PartialFails: the regions of the request are forgotten.
LEMMA PartialFailsStep == ASSUME IInv, PartialFails PROVE IInv'
<1> USE DEF PartialFails
<1>1. Group' = Group
  BY DEF Group
<1>2. TypeOK'
  BY <1>1 DEF IInv, TypeOK
<1>3. GroupInv' /\ NoBlockTwice'
  BY <1>1 DEF IInv, GroupInv, NoBlockTwice, Reserved, Apart, FreeInterval, Block, HeaderBlocks,
     ext4_bg_has_super_block, is_power_of
<1>4. TailInv' /\ EmptyInv'
  BY DEF IInv, TailInv, EmptyInv
<1> QED
  BY <1>2, <1>3, <1>4 DEF IInv

\* One turn of ext4_allocate_multiple_contiguous_blocks: the groups of the
\* regions so far are full, so that a region that is not empty comes from
\* another group.
LEMMA AddStep ==
    ASSUME IInv, pc = "partial", NEW g \in Group, NEW n \in Nat, Add(g, n),
           n <= bgs[g].free_blocks, n <= want,
           \/ n = bgs[g].free_blocks /\ n < want /\ FirstUnused(g)
           \/ n = want /\ \E u \in Group : FirstUnused(u) /\ bgs[u].free_blocks >= want
    PROVE  IInv'
<1> DEFINE new == RegionIn(g, n)
<1>1. /\ bgs' = Taken(g, n) /\ want' = want - n
      /\ pc' = IF want = n THEN "attach" ELSE "partial"
      /\ UNCHANGED <<block_size, len_blocks, groups, request, owned>>
  BY DEF Add
<1>2. /\ new \in Region /\ new.bg = g /\ new.len = n
      /\ new.start + n = bgs'[g].first_free_block
      /\ \A r \in Region : r = new => Reserved(r)'
      /\ \A r \in Region : Reserved(r) => Reserved(r)' /\ Apart(r, new) /\ Apart(new, r)
  BY <1>1, TakenRegion
<1>3. GroupInv' /\ bgs' \in [Group' -> BlockGroup] /\ Group' = Group
  BY <1>1, TakenInv
<1>4. /\ \A h \in Group : h # g => bgs'[h] = bgs[h]
      /\ bgs'[g].first_free_block = bgs[g].first_free_block + n
      /\ bgs'[g].free_blocks = bgs[g].free_blocks - n
      /\ bgs'[g].data_blocks_used = bgs[g].data_blocks_used + n
  BY <1>1, TakenGroups
<1>5. \/ regs' = Append(regs, new)
      \/ regs' = regs /\ n = 0
  BY DEF Add
<1> HIDE DEF new
<1>6. /\ regs \in Seq(Region) /\ owned \subseteq Region /\ want \in Nat /\ want > 0
      /\ \A h \in Group : /\ bgs[h].first_free_block \in Int /\ bgs[h].free_blocks \in Int
                          /\ bgs[h].data_blocks_used \in Int
      /\ \A i \in 1 .. Len(regs) : regs[i] \in Region /\ Reserved(regs[i]) /\ regs[i].bg \in Group
                                   /\ bgs[regs[i].bg].free_blocks = 0
  <2>1. regs \in Seq(Region) /\ owned \subseteq Region /\ want \in Nat /\ want > 0
    BY DEF IInv, TypeOK, TailInv
  <2>2. \A h \in Group : /\ bgs[h].first_free_block \in Int /\ bgs[h].free_blocks \in Int
                         /\ bgs[h].data_blocks_used \in Int
    BY DEF IInv, TypeOK, BlockGroup
  <2>3. \A i \in 1 .. Len(regs) : regs[i] \in Region
    BY <2>1
  <2> QED
    BY <2>1, <2>2, <2>3 DEF IInv, NoBlockTwice, TailInv, Reserved
<1>7. /\ regs' \in Seq(Region)
      /\ \A i \in 1 .. Len(regs') : \/ i \in 1 .. Len(regs) /\ regs'[i] = regs[i]
                                    \/ i = Len(regs) + 1 /\ regs'[i] = new
      /\ Len(regs') >= Len(regs)
  <2>1. CASE regs' = Append(regs, new)
    <3>1. regs' \in Seq(Region) /\ Len(regs) \in Nat /\ Len(regs') = Len(regs) + 1
      BY <1>2, <1>6, <2>1
    <3>2. /\ \A i \in 1 .. Len(regs) : regs'[i] = regs[i]
          /\ regs'[Len(regs) + 1] = new
      BY <1>2, <1>6, <2>1
    <3> QED
      BY <3>1, <3>2
  <2>2. CASE regs' = regs
    BY <1>6, <2>2
  <2> QED
    BY <1>5, <2>1, <2>2
<1>8. \A i \in 1 .. Len(regs) : /\ bgs'[regs[i].bg].first_free_block = bgs[regs[i].bg].first_free_block
                                /\ bgs'[regs[i].bg].free_blocks = 0
  <2> SUFFICES ASSUME NEW i \in 1 .. Len(regs)
               PROVE  /\ bgs'[regs[i].bg].first_free_block = bgs[regs[i].bg].first_free_block
                      /\ bgs'[regs[i].bg].free_blocks = 0
    OBVIOUS
  <2>1. CASE regs[i].bg = g
    <3>1. n = 0
      BY <1>6, <2>1
    <3> QED
      BY <1>4, <1>6, <2>1, <3>1
  <2>2. CASE regs[i].bg # g
    BY <1>4, <1>6, <2>2
  <2> QED
    BY <2>1, <2>2
<1>9. want' \in Nat /\ (pc' = "partial" => n = bgs[g].free_blocks /\ want' > 0 /\ FirstUnused(g))
  BY <1>1, <1>6
<1>10. TypeOK'
  BY <1>1, <1>3, <1>7, <1>9 DEF IInv, TypeOK
<1>11. NoBlockTwice'
  <2>1. \A r \in owned : Reserved(r)' /\ Apart(r, new)
    BY <1>2, <1>6 DEF IInv, NoBlockTwice
  <2>2. \A i \in 1 .. Len(regs) : Reserved(regs[i]) => /\ regs[i] \in Region
                                                       /\ Apart(regs[i], new)
    BY <1>2, <1>6
  <2>3. \A i \in 1 .. Len(regs') : Reserved(regs[i])'
    <3> SUFFICES ASSUME NEW i \in 1 .. Len(regs') PROVE Reserved(regs[i])'
      OBVIOUS
    <3>1. CASE i \in 1 .. Len(regs) /\ regs'[i] = regs[i]
      <4>1. PICK r \in Region : r = regs[i] /\ Reserved(r)
        BY <1>6, <3>1
      <4>2. Reserved(r)' /\ regs'[i] = r
        BY <1>2, <3>1, <4>1
      <4> QED
        BY <4>2 DEF Reserved
    <3>2. CASE regs'[i] = new
      <4>1. PICK r \in Region : r = new
        BY <1>2
      <4>2. Reserved(r)' /\ regs'[i] = r
        BY <1>2, <3>2, <4>1
      <4> QED
        BY <4>2 DEF Reserved
    <3> QED
      BY <1>7, <3>1, <3>2
  <2>4. \A i, j \in 1 .. Len(regs') : i < j => Apart(regs'[i], regs'[j])
    BY <1>6, <1>7, <2>2 DEF IInv, NoBlockTwice
  <2>5. \A r \in owned, i \in 1 .. Len(regs') : Apart(r, regs'[i])
    BY <1>7, <2>1 DEF IInv, NoBlockTwice
  <2> QED
    BY <1>1, <2>1, <2>3, <2>4, <2>5 DEF IInv, NoBlockTwice, Apart
<1>12. TailInv'
  <2>1. pc' = "partial" => \A i \in 1 .. Len(regs') : bgs'[regs'[i].bg].free_blocks = 0
    BY <1>2, <1>4, <1>6, <1>7, <1>8, <1>9
  <2>2. regs' # <<>> => regs'[1].start + regs'[1].len = bgs'[regs'[1].bg].first_free_block
    <3>1. CASE regs = <<>>
      BY <1>2, <1>5, <1>6, <3>1
    <3>2. CASE regs # <<>>
      <4>1. 1 \in 1 .. Len(regs) /\ regs'[1] = regs[1]
        BY <1>5, <1>6, <3>2
      <4> QED
        BY <1>8, <3>2, <4>1 DEF IInv, TailInv
    <3> QED
      BY <3>1, <3>2
  <2>3. pc' = "attach" => regs' # <<>>
    BY <1>1, <1>5, <1>6, <1>7
  <2> QED
    BY <1>1, <1>9, <2>1, <2>2, <2>3 DEF TailInv
<1>13. EmptyInv'
  <2>1. ASSUME pc' = "partial", NEW i \in 1 .. Len(regs'), regs'[i].len = 0
        PROVE  \E h \in Group : FirstUnused(h)' /\ bgs'[h].free_blocks = 0
    <3>1. n = bgs[g].free_blocks /\ FirstUnused(g)
      BY <1>9, <2>1
    <3>2. CASE n = 0
      <4>1. \A h \in Group : bgs'[h].data_blocks_used = bgs[h].data_blocks_used
        BY <1>4, <1>6, <3>2
      <4>2. FirstUnused(g)'
        BY <1>3, <3>1, <4>1 DEF FirstUnused, Unused
      <4> QED
        BY <1>4, <1>6, <3>1, <3>2, <4>2
    <3>3. CASE n # 0
      <4>1. i \in 1 .. Len(regs) /\ regs[i].len = 0
        BY <1>2, <1>7, <2>1, <3>3
      <4>2. PICK h \in Group : FirstUnused(h) /\ bgs[h].free_blocks = 0
        BY <4>1 DEF IInv, EmptyInv
      <4>3. h = g
        BY <3>1, <4>2 DEF FirstUnused, Unused, IInv, TypeOK, Group
      <4> QED
        BY <3>1, <3>3, <4>2, <4>3
    <3> QED
      BY <3>2, <3>3
  <2>2. ASSUME pc' = "attach", NEW i \in 1 .. Len(regs') PROVE regs'[i].len > 0
    <3>1. n = want
      BY <1>1, <1>6, <2>2
    <3>2. PICK u \in Group : FirstUnused(u) /\ bgs[u].free_blocks >= want
      BY <3>1, <1>6
    <3>3. \A k \in 1 .. Len(regs) : regs[k].len # 0
      <4> SUFFICES ASSUME NEW k \in 1 .. Len(regs), regs[k].len = 0 PROVE FALSE
        OBVIOUS
      <4>1. PICK h \in Group : FirstUnused(h) /\ bgs[h].free_blocks = 0
        BY DEF IInv, EmptyInv
      <4>2. h = u
        BY <3>2, <4>1 DEF FirstUnused, Unused, IInv, TypeOK, Group
      <4> QED
        BY <1>6, <3>2, <4>1, <4>2
    <3>4. CASE i \in 1 .. Len(regs) /\ regs'[i] = regs[i]
      <4>1. regs[i].len \in Nat
        BY <1>6, <3>4 DEF Region
      <4> QED
        BY <3>3, <3>4, <4>1
    <3>5. CASE regs'[i] = new
      BY <1>2, <1>6, <3>1, <3>5
    <3> QED
      BY <1>7, <3>4, <3>5
  <2> QED
    BY <1>1, <1>3, <2>1, <2>2 DEF IInv, EmptyInv
<1> QED
  BY <1>3, <1>10, <1>11, <1>12, <1>13 DEF IInv
\* ext4_allocate_partial takes all of the first unused group ...
LEMMA PartialWholeStep == ASSUME IInv, PartialWhole PROVE IInv'
<1>1. PICK g \in Group : /\ FirstUnused(g) /\ bgs[g].free_blocks < want
                         /\ Add(g, bgs[g].free_blocks)
  BY DEF PartialWhole
<1>2. bgs[g].free_blocks \in Nat /\ want \in Nat /\ pc = "partial"
  BY DEF PartialWhole, IInv, TypeOK, BlockGroup, GroupInv, FreeInterval
<1> QED
  BY <1>1, <1>2, AddStep

\* ... or the rest of the request, which it knows to fit somewhere.
LEMMA PartialRestStep == ASSUME IInv, PartialRest PROVE IInv'
<1>1. PICK g \in Group : FirstFit(g, want) /\ Add(g, want)
  BY DEF PartialRest
<1>2. /\ want \in Nat /\ pc = "partial" /\ want <= bgs[g].free_blocks
      /\ \E u \in Group : FirstUnused(u) /\ bgs[u].free_blocks >= want
  BY <1>1 DEF PartialRest, IInv, TypeOK, BlockGroup, FirstFit, Fits
<1> QED
  BY <1>1, <1>2, AddStep

\* q is cut out of the region r.
Piece(q, r) ==
    q.len > 0 /\ q.bg = r.bg /\ r.start <= q.start /\ q.start + q.len <= r.start + r.len

\* Regions cut out of the regions of a request are apart from those of other
\* files, and from each other.
LEMMA PiecesApart ==
    ASSUME IInv, NEW Q \in SUBSET Region,
           \A q \in Q : \E i \in 1 .. Len(regs) : Piece(q, regs[i]),
           \A p, q \in Q : p # q => \/ Apart(p, q)
                                    \/ \E i, j \in 1 .. Len(regs) :
                                          i # j /\ Piece(p, regs[i]) /\ Piece(q, regs[j])
    PROVE  \A r, s \in owned \cup Q : r # s => Apart(r, s)
<1>1. /\ owned \subseteq Region
      /\ \A i \in 1 .. Len(regs) : regs[i] \in Region
      /\ \A r, s \in owned : r # s => Apart(r, s)
      /\ \A i, j \in 1 .. Len(regs) : i < j => Apart(regs[i], regs[j])
      /\ \A r \in owned, i \in 1 .. Len(regs) : Apart(r, regs[i])
  BY DEF IInv, TypeOK, NoBlockTwice
<1>2. \A r, s \in Region : Apart(r, s) => Apart(s, r)
  BY DEF Apart, Region
<1>3. \A q, r, s \in Region : Piece(q, r) /\ Apart(s, r) => Apart(s, q)
  BY DEF Apart, Piece, Region
<1>4. \A r \in owned, q \in Q : Apart(r, q)
  BY <1>1, <1>3
<1>5. ASSUME NEW p \in Q, NEW q \in Q, p # q PROVE Apart(p, q)
  <2>1. CASE Apart(p, q)
    BY <2>1
  <2>2. ASSUME NEW i \in 1 .. Len(regs), NEW j \in 1 .. Len(regs), i # j,
               Piece(p, regs[i]), Piece(q, regs[j])
        PROVE  Apart(p, q)
    <3>1. regs[i] \in Region /\ regs[j] \in Region /\ p \in Region /\ q \in Region
      BY <1>1
    <3>2. Len(regs) \in Nat
      BY DEF IInv, TypeOK
    <3>3. i < j \/ j < i
      BY <2>2, <3>2
    <3>4. Apart(regs[i], regs[j])
      BY <1>1, <1>2, <3>1, <3>3
    <3>5. Apart(regs[i], q)
      BY <1>3, <2>2, <3>1, <3>4
    <3> QED
      BY <1>2, <1>3, <2>2, <3>1, <3>5
  <2> QED
    BY <1>5, <2>1, <2>2
<1> QED
  BY <1>1, <1>2, <1>4, <1>5

\* What an attached list of pieces leaves to show: that they are reserved.
LEMMA AttachInv ==
    ASSUME IInv, pc = "attach", NEW list, NEW oob, Attach(list, oob),
           bgs' \in [Group -> BlockGroup], GroupInv',
           RangeOf(list) \cup RangeOf(oob) \subseteq Region,
           \A q \in RangeOf(list) \cup RangeOf(oob) :
              \E i \in 1 .. Len(regs) : Piece(q, regs[i]),
           \A p, q \in RangeOf(list) \cup RangeOf(oob) : p # q =>
              \/ Apart(p, q)
              \/ \E i, j \in 1 .. Len(regs) : i # j /\ Piece(p, regs[i]) /\ Piece(q, regs[j]),
           \A r \in owned \cup RangeOf(list) \cup RangeOf(oob) : Reserved(r)'
    PROVE  IInv'
<1> DEFINE Q == RangeOf(list) \cup RangeOf(oob)
<1>1. /\ owned' = owned \cup Q /\ pc' = "idle" /\ regs' = <<>>
      /\ UNCHANGED <<block_size, len_blocks, groups, request, want>>
  BY DEF Attach
<1>2. Group' = Group
  BY <1>1 DEF Group
<1>3. \A r, s \in owned \cup Q : r # s => Apart(r, s)
  BY PiecesApart
<1>4. \A q \in Q : q.len > 0
  BY DEF Piece
<1> HIDE DEF Q
<1>5. Q \subseteq Region /\ \A r \in owned \cup Q : Reserved(r)'
  BY DEF Q
<1>6. TypeOK'
  BY <1>1, <1>2, <1>5 DEF IInv, TypeOK
<1>7. NoBlockTwice'
  <2>1. \A r \in owned' : Reserved(r)'
    BY <1>1, <1>5
  <2>2. \A r, s \in owned' : r # s => Apart(r, s)
    BY <1>1, <1>3
  <2> QED
    BY <1>1, <2>1, <2>2 DEF NoBlockTwice, Apart
<1>8. TailInv' /\ EmptyInv'
  BY <1>1, <1>4 DEF IInv, TailInv, EmptyInv
<1> QED
  BY <1>6, <1>7, <1>8 DEF IInv
\* Up to three regions: the last block of the first one is given back, which is
\* the last block taken from its group.
LEMMA AttachInodeStep == ASSUME IInv, AttachInode PROVE IInv'
<1> DEFINE g == regs[1].bg
           list == reduce_allocation(regs)
           short == MakeRegion(regs[1].bg, regs[1].start, regs[1].len - 1)
<1>1. /\ pc = "attach" /\ Attach(list, <<>>)
      /\ bgs' = [bgs EXCEPT ![g] = free_blocks(bgs[g], 1)]
  BY DEF AttachInode, IInv, TypeOK, NoBlockTwice, Reserved
<1>2. groups' = groups /\ Group' = Group
  BY <1>1 DEF Attach, Group
<1>3. /\ 1 \in 1 .. Len(regs) /\ regs \in Seq(Region) /\ Len(regs) \in Nat
      /\ \A i \in 1 .. Len(regs) : regs[i] \in Region /\ regs[i].len > 0 /\ Reserved(regs[i])
      /\ regs[1].start + regs[1].len = bgs[g].first_free_block
  BY <1>1 DEF IInv, TypeOK, TailInv, EmptyInv, NoBlockTwice
<1>4. /\ regs[1].bg \in Int /\ regs[1].start \in Int /\ regs[1].len \in Nat /\ regs[1].len >= 1
      /\ g \in Group /\ HeaderBlocks(g) <= regs[1].start
  BY <1>3 DEF Region, Reserved
<1>5. /\ bgs \in [Group -> BlockGroup] /\ bgs[g] \in BlockGroup /\ FreeInterval(bgs[g])
      /\ bgs[g].first_free_block \in Int /\ 1 <= bgs[g].first_free_block
      /\ HeaderBlocks(g) <= bgs[g].first_free_block - 1
  <2>1. bgs \in [Group -> BlockGroup] /\ bgs[g] \in BlockGroup /\ FreeInterval(bgs[g])
    BY <1>4 DEF IInv, TypeOK, GroupInv
  <2>2. bgs[g].first_free_block \in Int
    BY <2>1 DEF BlockGroup
  <2> QED
    BY <1>3, <1>4, <2>1, <2>2, HeaderFits
<1>6. /\ free_blocks(bgs[g], 1) \in BlockGroup /\ FreeInterval(free_blocks(bgs[g], 1))
      /\ free_blocks(bgs[g], 1).first_free_block = bgs[g].first_free_block - 1
  BY <1>5, FreeLast
<1>7. /\ bgs' \in [Group -> BlockGroup]
      /\ bgs'[g] = free_blocks(bgs[g], 1)
      /\ \A h \in Group : h # g => bgs'[h] = bgs[h]
  BY <1>1, <1>4, <1>5, <1>6
<1>8. GroupInv'
  <2>1. \A h \in Group : FreeInterval(bgs'[h]) /\ HeaderBlocks(h) <= bgs'[h].first_free_block
    BY <1>5, <1>6, <1>7 DEF IInv, GroupInv
  <2> QED
    BY <1>2, <2>1 DEF GroupInv, FreeInterval, HeaderBlocks, ext4_bg_has_super_block,
       is_power_of, Block
<1>9. \A r \in Region : r.len > 0 /\ Reserved(r) /\ Apart(r, regs[1]) => Reserved(r)'
  <2> SUFFICES ASSUME NEW r \in Region, r.len > 0, Reserved(r), Apart(r, regs[1])
               PROVE  Reserved(r)'
    OBVIOUS
  <2>1. /\ r.start \in Int /\ r.len \in Nat /\ r.bg \in Group /\ HeaderBlocks(r.bg) <= r.start
        /\ r.start + r.len <= bgs[r.bg].first_free_block
    BY DEF Region, Reserved
  <2>2. r.start + r.len <= bgs'[r.bg].first_free_block
    <3>1. CASE r.bg # g
      BY <1>7, <2>1, <3>1
    <3>2. CASE r.bg = g
      <4>1. r.start + r.len <= regs[1].start
        BY <1>3, <1>4, <2>1, <3>2 DEF Apart
      <4> QED
        BY <1>3, <1>4, <1>5, <1>6, <1>7, <2>1, <3>2, <4>1
    <3> QED
      BY <3>1, <3>2
  <2> QED
    BY <1>2, <2>1, <2>2 DEF Reserved
<1>10. \A r \in owned : Reserved(r)'
  BY <1>3, <1>9 DEF IInv, TypeOK, NoBlockTwice, EmptyInv
<1>11. \A r, s \in Region : Apart(r, s) => Apart(s, r)
  BY DEF Apart, Region
<1>12. \A i \in 2 .. Len(regs) : /\ regs[i] \in Region /\ Piece(regs[i], regs[i])
                                 /\ \A r \in Region : r = regs[i] => Reserved(r)'
  <2> SUFFICES ASSUME NEW i \in 2 .. Len(regs)
               PROVE  /\ regs[i] \in Region /\ Piece(regs[i], regs[i])
                      /\ \A r \in Region : r = regs[i] => Reserved(r)'
    OBVIOUS
  <2>1. i \in 1 .. Len(regs) /\ 1 < i
    BY <1>3
  <2>2. regs[i] \in Region /\ regs[i].len > 0 /\ Reserved(regs[i])
    BY <1>3, <2>1
  <2>3. Apart(regs[i], regs[1])
    BY <1>3, <1>11, <2>1, <2>2 DEF IInv, NoBlockTwice
  <2>4. Piece(regs[i], regs[i])
    BY <2>2 DEF Piece, Region
  <2> QED
    BY <1>9, <2>2, <2>3, <2>4
<1>13. RangeOf(<<>>) = {}
  BY DEF RangeOf
<1>14. CASE regs[1].len > 1
  <2>1. /\ short \in Region /\ short.bg = g /\ short.start = regs[1].start
        /\ short.len = regs[1].len - 1
    BY <1>4, <1>14 DEF MakeRegion, Region
  <2>2. list = [regs EXCEPT ![1] = short]
    BY <1>14 DEF reduce_allocation
  <2> HIDE DEF short, list
  <2>3. Piece(short, regs[1])
    BY <1>4, <1>14, <2>1 DEF Piece
  <2>4. \A r \in Region : r = short => Reserved(r)'
    <3>1. short.start + short.len <= bgs'[g].first_free_block
      BY <1>3, <1>4, <1>5, <1>6, <1>7, <2>1
    <3> QED
      BY <1>2, <1>4, <2>1, <3>1 DEF Reserved
  <2>5. \A q \in RangeOf(list) : q = short \/ \E i \in 2 .. Len(regs) : q = regs[i]
    <3>1. DOMAIN list = 1 .. Len(regs)
      BY <1>3, <2>2
    <3>2. \A i \in 1 .. Len(regs) : list[i] = IF i = 1 THEN short ELSE regs[i]
      BY <1>3, <2>2
    <3>3. \A i \in 1 .. Len(regs) : i = 1 \/ i \in 2 .. Len(regs)
      BY <1>3
    <3> QED
      BY <3>1, <3>2, <3>3 DEF RangeOf
  <2>6. /\ RangeOf(list) \subseteq Region
        /\ \A q \in RangeOf(list) : Reserved(q)'
        /\ \A q \in RangeOf(list) : \E i \in 1 .. Len(regs) : Piece(q, regs[i])
    <3>1. 2 .. Len(regs) \subseteq 1 .. Len(regs)
      BY <1>3
    <3> QED
      BY <1>3, <1>12, <2>1, <2>3, <2>4, <2>5, <3>1
  <2>7. \A p, q \in RangeOf(list) : p # q =>
           \E i, j \in 1 .. Len(regs) : i # j /\ Piece(p, regs[i]) /\ Piece(q, regs[j])
    <3>1. /\ 2 .. Len(regs) \subseteq 1 .. Len(regs)
          /\ \A i \in 2 .. Len(regs) : i # 1
      BY <1>3
    <3> QED
      BY <1>3, <1>12, <2>3, <2>5, <3>1
  <2> QED
    BY <1>1, <1>7, <1>8, <1>10, <1>13, <2>6, <2>7, AttachInv
<1>15. CASE ~(regs[1].len > 1)
  <2>1. list = <<>>
    BY <1>15 DEF reduce_allocation
  <2> HIDE DEF list
  <2> QED
    BY <1>1, <1>7, <1>8, <1>10, <1>13, <2>1, AttachInv
<1> QED
  BY <1>14, <1>15
\* More than three regions: one block of them becomes the extent block, all
\* blocks stay taken.
LEMMA AttachExtentBlockStep == ASSUME IInv, AttachExtentBlock PROVE IInv'
<1> DEFINE split == reserve_oob_blocks(regs)
           head == MakeRegion(regs[1].bg, regs[1].start, 1)
           rest == MakeRegion(regs[1].bg, regs[1].start + 1, regs[1].len - 1)
<1>1. pc = "attach" /\ Attach(split.list, split.oob) /\ bgs' = bgs /\ Len(regs) > 3
  BY DEF AttachExtentBlock
<1>2. groups' = groups /\ Group' = Group
  BY <1>1 DEF Attach, Group
<1>3. /\ regs \in Seq(Region) /\ Len(regs) \in Nat /\ 1 \in 1 .. Len(regs)
      /\ \A i \in 1 .. Len(regs) : regs[i] \in Region /\ regs[i].len > 0 /\ Reserved(regs[i])
  BY <1>1 DEF IInv, TypeOK, EmptyInv, NoBlockTwice
<1>4. regs[1].bg \in Int /\ regs[1].start \in Int /\ regs[1].len \in Nat /\ regs[1].len >= 1
  BY <1>3 DEF Region
<1>5. bgs' \in [Group -> BlockGroup] /\ GroupInv'
  BY <1>1, <1>2 DEF IInv, TypeOK, GroupInv, FreeInterval, Block, HeaderBlocks,
     ext4_bg_has_super_block, is_power_of
<1>6. \A r \in Region : Reserved(r) => Reserved(r)'
  BY <1>1, <1>2 DEF Reserved, HeaderBlocks, ext4_bg_has_super_block, is_power_of
<1>7. \A q, r \in Region : Piece(q, r) /\ Reserved(r) => Reserved(q)
  <2> SUFFICES ASSUME NEW q \in Region, NEW r \in Region, Piece(q, r), Reserved(r)
               PROVE  Reserved(q)
    OBVIOUS
  <2>1. /\ q.start \in Int /\ r.start \in Int /\ q.len \in Nat /\ r.len \in Nat
        /\ q.bg = r.bg /\ r.start <= q.start /\ q.start + q.len <= r.start + r.len
    BY DEF Region, Piece
  <2>2. /\ r.bg \in Group /\ HeaderBlocks(r.bg) <= r.start /\ HeaderBlocks(r.bg) \in Nat
        /\ r.start + r.len <= bgs[r.bg].first_free_block
        /\ bgs[r.bg].first_free_block \in Int
    BY HeaderFits DEF Reserved, IInv, TypeOK, BlockGroup
  <2> QED
    BY <2>1, <2>2 DEF Reserved
<1>8. \A r \in owned : Reserved(r)'
  BY <1>6 DEF IInv, TypeOK, NoBlockTwice
<1>9. \A i \in 1 .. Len(regs) : Piece(regs[i], regs[i])
  BY <1>3 DEF Piece, Region
<1>10. CASE regs[1].len > 1
  <2>1. /\ head \in Region /\ head.bg = regs[1].bg /\ head.start = regs[1].start /\ head.len = 1
        /\ rest \in Region /\ rest.bg = regs[1].bg /\ rest.start = regs[1].start + 1
        /\ rest.len = regs[1].len - 1
    BY <1>4, <1>10 DEF MakeRegion, Region
  <2>2. split.list = [regs EXCEPT ![1] = rest] /\ split.oob = <<head>>
    BY <1>10 DEF reserve_oob_blocks
  <2> HIDE DEF head, rest, split
  <2>3. Piece(head, regs[1]) /\ Piece(rest, regs[1]) /\ Apart(head, rest) /\ Apart(rest, head)
    BY <1>4, <1>10, <2>1 DEF Piece, Apart
  <2>4. /\ 2 .. Len(regs) \subseteq 1 .. Len(regs)
        /\ \A i \in 2 .. Len(regs) : i # 1
        /\ \A i \in 1 .. Len(regs) : i = 1 \/ i \in 2 .. Len(regs)
    BY <1>3
  <2>5. \A q \in RangeOf(split.list) : q = rest \/ \E i \in 2 .. Len(regs) : q = regs[i]
    <3>1. DOMAIN split.list = 1 .. Len(regs)
      BY <1>3, <2>2
    <3>2. \A i \in 1 .. Len(regs) : split.list[i] = IF i = 1 THEN rest ELSE regs[i]
      BY <1>3, <2>2
    <3> QED
      BY <2>4, <3>1, <3>2 DEF RangeOf
  <2>6. \A q \in RangeOf(split.oob) : q = head
    BY <2>2 DEF RangeOf
  <2> DEFINE Q == RangeOf(split.list) \cup RangeOf(split.oob)
  <2>7. \A q \in Q : q \in {head, rest} \/ \E i \in 2 .. Len(regs) : q = regs[i]
    BY <2>5, <2>6
  <2> HIDE DEF Q
  <2>8. Q \subseteq Region /\ \A q \in Q : \E i \in 1 .. Len(regs) : Piece(q, regs[i])
    BY <1>3, <1>9, <2>1, <2>3, <2>4, <2>7
  <2>9. \A q \in Q : Reserved(q)'
    BY <1>3, <1>6, <1>7, <2>8
  <2>10. ASSUME NEW p \in Q, NEW q \in Q, p # q
         PROVE  \/ Apart(p, q)
                \/ \E i, j \in 1 .. Len(regs) : i # j /\ Piece(p, regs[i]) /\ Piece(q, regs[j])
    <3>1. CASE p \in {head, rest} /\ q \in {head, rest}
      BY <2>3, <2>10, <3>1
    <3>2. CASE p \in {head, rest} /\ \E j \in 2 .. Len(regs) : q = regs[j]
      BY <1>3, <1>9, <2>3, <2>4, <3>2
    <3>3. CASE q \in {head, rest} /\ \E j \in 2 .. Len(regs) : p = regs[j]
      BY <1>3, <1>9, <2>3, <2>4, <3>3
    <3>4. CASE \E i, j \in 2 .. Len(regs) : p = regs[i] /\ q = regs[j]
      BY <1>9, <2>4, <2>10, <3>4
    <3> QED
      BY <2>7, <3>1, <3>2, <3>3, <3>4
  <2> QED
    BY <1>1, <1>5, <1>8, <2>8, <2>9, <2>10, AttachInv DEF Q
<1>11. CASE ~(regs[1].len > 1)
  <2>1. split.list = <<regs[1]>> /\ split.oob = Tail(regs)
    BY <1>11 DEF reserve_oob_blocks
  <2> HIDE DEF split
  <2> DEFINE Q == RangeOf(split.list) \cup RangeOf(split.oob)
  <2>2. \A q \in RangeOf(split.list) : \E i \in 1 .. Len(regs) : q = regs[i]
    BY <1>3, <2>1 DEF RangeOf
  <2>3. \A q \in RangeOf(split.oob) : \E i \in 1 .. Len(regs) : q = regs[i]
    <3>1. regs # <<>>
      BY <1>3
    <3>2. Tail(regs) \in Seq(Region) /\ Len(Tail(regs)) = Len(regs) - 1
      BY <1>3, <3>1
    <3>3. \A i \in 1 .. Len(Tail(regs)) : i + 1 \in 1 .. Len(regs) /\ Tail(regs)[i] = regs[i + 1]
      BY <1>3, <3>1, <3>2
    <3>4. DOMAIN Tail(regs) = 1 .. Len(Tail(regs))
      BY <3>2
    <3> QED
      BY <2>1, <3>3, <3>4 DEF RangeOf
  <2>4. \A q \in Q : \E i \in 1 .. Len(regs) : q = regs[i]
    BY <2>2, <2>3
  <2> HIDE DEF Q
  <2>5. Q \subseteq Region /\ \A q \in Q : \E i \in 1 .. Len(regs) : Piece(q, regs[i])
    BY <1>3, <1>9, <2>4
  <2>6. \A q \in Q : Reserved(q)'
    BY <1>3, <1>6, <1>7, <2>5
  <2>7. \A p, q \in Q : p # q =>
           \E i, j \in 1 .. Len(regs) : i # j /\ Piece(p, regs[i]) /\ Piece(q, regs[j])
    BY <1>9, <2>4
  <2> QED
    BY <1>1, <1>5, <1>8, <2>5, <2>6, <2>7, AttachInv DEF Q
<1> QED
  BY <1>10, <1>11

\* A file of too many extents is not made, or they overrun their block.
LEMMA FileTooBigStep == ASSUME IInv, FileTooBig \/ OverrunExtentBlock PROVE IInv'
<1>1. /\ UNCHANGED <<block_size, len_blocks, groups, bgs, request, want, owned, file>>
      /\ \/ pc' = "idle" /\ regs' = <<>>
         \/ pc' = "overwritten" /\ regs' = regs
  BY DEF FileTooBig, OverrunExtentBlock
<1>2. Group' = Group
  BY <1>1 DEF Group
<1>3. TypeOK'
  <2>1. pc' \in {"idle", "overwritten"} /\ regs' \in Seq(Region)
    <3>1. regs \in Seq(Region) /\ <<>> \in Seq(Region)
      BY DEF IInv, TypeOK
    <3> QED
      BY <1>1, <3>1, Zenon
  <2>2. bgs' \in [Group' -> BlockGroup]
    BY <1>1, <1>2 DEF IInv, TypeOK
  <2> QED
    BY <1>1, <2>1, <2>2 DEF IInv, TypeOK
<1>4. GroupInv'
  BY <1>1, <1>2 DEF IInv, GroupInv, FreeInterval, Block, HeaderBlocks, ext4_bg_has_super_block, is_power_of
<1>5. NoBlockTwice'
  <2>1. \A r : Reserved(r) <=> Reserved(r)'
    BY <1>1, <1>2 DEF Reserved, HeaderBlocks, ext4_bg_has_super_block, is_power_of
  <2>2. CASE regs' = regs
    BY <1>1, <2>1, <2>2 DEF IInv, NoBlockTwice, Apart
  <2>3. CASE regs' = <<>>
    BY <1>1, <2>1, <2>3 DEF IInv, NoBlockTwice, Apart
  <2> QED
    BY <1>1, <2>2, <2>3
<1>6. TailInv' /\ EmptyInv'
  BY <1>1 DEF IInv, TailInv, EmptyInv
<1> QED
  BY <1>3, <1>4, <1>5, <1>6 DEF IInv

\* Nothing happens.
LEMMA StutterStep == ASSUME IInv, UNCHANGED vars PROVE IInv'
<1>1. Group' = Group
  BY DEF vars, Group
<1>2. TypeOK' /\ GroupInv'
  BY <1>1 DEF vars, IInv, TypeOK, GroupInv, FreeInterval, Block, HeaderBlocks,
     ext4_bg_has_super_block, is_power_of
<1>3. NoBlockTwice'
  BY <1>1 DEF vars, IInv, NoBlockTwice, Reserved, Apart, HeaderBlocks,
     ext4_bg_has_super_block, is_power_of
<1>4. TailInv'
  BY DEF vars, IInv, TailInv
<1>5. EmptyInv'
  BY <1>1 DEF vars, IInv, EmptyInv, FirstUnused, Unused
<1> QED
  BY <1>2, <1>3, <1>4, <1>5 DEF IInv

\* Every step of allocate.c and extent.c keeps the inductive invariant: one
\* case per action.
LEMMA NextIInv == IInv /\ [Next]_vars => IInv'
<1> SUFFICES ASSUME IInv, [Next]_vars PROVE IInv'
  OBVIOUS
<1>1. CASE allocate_block
  BY <1>1, allocate_blockStep
<1>2. ASSUME NEW n \in Sizes, AllocateContiguous(n) PROVE IInv'
  BY <1>2, AllocateContiguousStep
<1>3. ASSUME NEW n \in Sizes, AllocateMultiple(n) PROVE IInv'
  BY <1>3, AllocateMultipleStep
<1>4. CASE Partial
  BY <1>4, PartialWholeStep, PartialRestStep, PartialFailsStep DEF Partial
<1>5. CASE AttachInode
  BY <1>5, AttachInodeStep
<1>6. CASE AttachExtentBlock
  BY <1>6, AttachExtentBlockStep
<1>7. CASE FileTooBig \/ OverrunExtentBlock
  BY <1>7, FileTooBigStep
<1>8. CASE UNCHANGED vars
  BY <1>8, StutterStep
<1> QED
  BY <1>1, <1>2, <1>3, <1>4, <1>5, <1>6, <1>7, <1>8 DEF Next, AttachRegions, Overwritten

\* The inductive invariant holds in every reachable state of the allocator,
\* for every geometry: what reserve_blocks, free_blocks and their callers keep.
THEOREM Invariance == Spec => []IInv
<1>1. Init => IInv
  BY InitIInv
<1>2. IInv /\ [Next]_vars => IInv'
  BY NextIInv
<1> QED
  BY <1>1, <1>2, PTL DEF Spec

\* The bitmap of a block group always agrees with free_blocks and
\* first_free_block: the free blocks are one interval behind the header.
THEOREM BitmapMatchesCounters == Spec => []GroupInv
<1>1. IInv => GroupInv
  BY DEF IInv
<1> QED
  BY <1>1, Invariance, PTL

\* No block is handed out twice, neither to two files nor twice to one, and
\* none of them is free in its group or part of the header.
THEOREM BlocksHandedOutOnce == Spec => []NoBlockTwice
<1>1. IInv => NoBlockTwice
  BY DEF IInv
<1> QED
  BY <1>1, Invariance, PTL


-----------------------------------------------------------------------------
(* That a file gets what it asked for.  The geometry: no group that is      *)
(* complete has exactly one data block (with such a group at the front of a *)
(* spread request, reduce_allocation takes the list for empty).             *)

Roomy ==
    /\ BlocksPerGroup # 3 + InodeTableBlocks
    /\ BlocksPerGroup # 4 + InodeTableBlocks + DescBlocks

\* A group in use, or with free blocks, ends inside the filesystem, unless
\* its header does not, and one
\* that is not the last has all its data blocks until the first is taken.
EndInv ==
    \A g \in Group :
       /\ bgs[g].data_blocks_used \in Nat
       /\ bgs[g].data_blocks_used > 0 \/ bgs[g].free_blocks > 0 =>
             FirstBlock(g) + bgs[g].first_free_block + bgs[g].free_blocks <= len_blocks \/ HeaderCut(g)
       /\ g + 1 < groups /\ bgs[g].data_blocks_used = 0 =>
             bgs[g].free_blocks = BlocksPerGroup - HeaderBlocks(g)

\* A group that has given a block away is in use.
IsUsed(r) == r.len > 0 => bgs[r.bg].data_blocks_used > 0
UsedInv == (\A r \in owned : IsUsed(r)) /\ \A i \in 1 .. Len(regs) : IsUsed(regs[i])

\* What has been collected and what is still wanted are one block more than
\* the request; and the first region is a single block only if the request is
\* bound to fail.
SizeInv ==
    /\ IsFiniteSet(BlocksOf(regs))
    /\ pc # "idle" => request > 0 /\ Cardinality(BlocksOf(regs)) + want = request + 1
    /\ pc = "attach" => want = 0 /\ regs[1].len # 1
    /\ pc = "partial" /\ regs # <<>> => regs[1].len # 1 \/ Unused = {}

FInv == EndInv /\ UsedInv /\ SizeInv /\ ExtentsCoverFile

-----------------------------------------------------------------------------
(* The blocks of a list of regions.                                        *)

BlocksIn(r) == {<<r.bg, b>> : b \in r.start .. r.start + r.len - 1}

\* A region has as many blocks as its length says.
LEMMA BlocksInCount ==
    ASSUME NEW r \in Region
    PROVE  IsFiniteSet(BlocksIn(r)) /\ Cardinality(BlocksIn(r)) = r.len
<1> DEFINE S == r.start .. r.start + r.len - 1
           f == [b \in S |-> <<r.bg, b>>]
<1>1. r.start \in Int /\ r.len \in Nat
  BY DEF Region
<1>2. IsFiniteSet(S) /\ Cardinality(S) = r.len
  <2>1. r.start + r.len - 1 \in Int
    BY <1>1
  <2>2. /\ IsFiniteSet(S)
        /\ Cardinality(S) = IF r.start > r.start + r.len - 1 THEN 0
                            ELSE (r.start + r.len - 1) - r.start + 1
    BY <1>1, <2>1, FS_Interval
  <2> QED
    BY <1>1, <2>2
<1>3. f \in Bijection(S, BlocksIn(r))
  <2>1. BlocksIn(r) = {<<r.bg, b>> : b \in S}
    BY DEF BlocksIn
  <2> HIDE DEF S
  <2>2. f \in [S -> BlocksIn(r)] /\ \A x \in BlocksIn(r) : \E b \in S : f[b] = x
    BY <2>1
  <2>3. \A a, b \in S : f[a] = f[b] => a = b
    OBVIOUS
  <2> HIDE DEF f
  <2> QED
    BY <2>2, <2>3, Zenon DEF Bijection, Injection, Surjection, IsInjective
<1>4. ExistsBijection(S, BlocksIn(r))
  BY <1>3 DEF ExistsBijection
<1> HIDE DEF S
<1> QED
  BY <1>2, <1>4, FS_Bijection

\* A block of a list is a block of one of its regions.
LEMMA BlocksOfIs ==
    ASSUME NEW list
    PROVE  \A x : x \in BlocksOf(list) <=> \E i \in DOMAIN list : x \in BlocksIn(list[i])
BY DEF BlocksOf, RangeOf, BlocksIn

\* Regions that are apart share no block.
LEMMA ApartBlocks ==
    ASSUME NEW r \in Region, NEW s \in Region, Apart(r, s)
    PROVE  BlocksIn(r) \cap BlocksIn(s) = {}
<1>1. /\ r.start \in Int /\ r.len \in Nat /\ s.start \in Int /\ s.len \in Nat
  BY DEF Region
<1> SUFFICES ASSUME NEW b \in r.start .. r.start + r.len - 1, NEW c \in s.start .. s.start + s.len - 1,
                    <<r.bg, b>> = <<s.bg, c>>
             PROVE  FALSE
  BY DEF BlocksIn
<1>2. r.bg = s.bg /\ b = c
  OBVIOUS
<1> QED
  BY <1>1, <1>2 DEF Apart

\* The empty list has no block, the list of one region those of the region.
LEMMA BlocksOfOne ==
    /\ BlocksOf(<<>>) = {}
    /\ \A r : BlocksOf(<<r>>) = BlocksIn(r)
<1>1. BlocksOf(<<>>) = {}
  BY DEF BlocksOf, RangeOf
<1>2. ASSUME NEW r PROVE BlocksOf(<<r>>) = BlocksIn(r)
  <2>1. DOMAIN <<r>> = {1} /\ <<r>>[1] = r
    OBVIOUS
  <2> QED
    BY <2>1, BlocksOfIs
<1> QED
  BY <1>1, <1>2

\* A region apart from those of the list adds its length.
LEMMA BlocksAppend ==
    ASSUME NEW list \in Seq(Region), NEW r \in Region, IsFiniteSet(BlocksOf(list)),
           \A i \in 1 .. Len(list) : Apart(list[i], r)
    PROVE  /\ IsFiniteSet(BlocksOf(Append(list, r)))
           /\ Cardinality(BlocksOf(Append(list, r))) = Cardinality(BlocksOf(list)) + r.len
<1> DEFINE A == BlocksOf(list)
           B == BlocksIn(r)
<1>1. /\ DOMAIN list = 1 .. Len(list) /\ Len(list) \in Nat
      /\ DOMAIN Append(list, r) = 1 .. Len(list) + 1
      /\ \A i \in 1 .. Len(list) : Append(list, r)[i] = list[i] /\ list[i] \in Region
      /\ Append(list, r)[Len(list) + 1] = r
  OBVIOUS
<1>2. 1 .. Len(list) + 1 = (1 .. Len(list)) \cup {Len(list) + 1}
  BY <1>1
<1>3. BlocksOf(Append(list, r)) = A \cup B
  BY <1>1, <1>2, BlocksOfIs
<1>4. A \cap B = {}
  <2> SUFFICES ASSUME NEW x \in A, x \in B PROVE FALSE
    OBVIOUS
  <2>1. PICK i \in 1 .. Len(list) : x \in BlocksIn(list[i])
    BY <1>1, BlocksOfIs
  <2>2. list[i] \in Region /\ Apart(list[i], r)
    BY <1>1
  <2> QED
    BY <2>1, <2>2, ApartBlocks
<1>5. IsFiniteSet(B) /\ Cardinality(B) = r.len
  BY BlocksInCount
<1>6. IsFiniteSet(A)
  OBVIOUS
<1> HIDE DEF A, B
<1>7. IsFiniteSet(A \cup B) /\ Cardinality(A \cup B) = Cardinality(A) + Cardinality(B) - Cardinality(A \cap B)
  BY <1>5, <1>6, FS_Union
<1>8. Cardinality(A) \in Nat /\ Cardinality(B) \in Nat /\ Cardinality(A \cap B) = 0
  BY <1>4, <1>5, <1>6, FS_CardinalityType, FS_EmptySet
<1> QED
  BY <1>3, <1>5, <1>7, <1>8 DEF A


\* A list whose first region loses a block has one block less.
LEMMA BlocksShorten ==
    ASSUME NEW list \in Seq(Region), NEW r \in Region, 1 \in 1 .. Len(list),
           IsFiniteSet(BlocksOf(list)),
           \A i, j \in 1 .. Len(list) : i < j => Apart(list[i], list[j]),
           NEW x \in BlocksIn(list[1]), BlocksIn(r) = BlocksIn(list[1]) \ {x},
           NEW new, new = [list EXCEPT ![1] = r]
    PROVE  /\ Len(new) = Len(list)
           /\ Cardinality(BlocksOf(new)) = Cardinality(BlocksOf(list)) - 1
<1>1. /\ DOMAIN list = 1 .. Len(list) /\ Len(list) \in Nat
      /\ DOMAIN new = 1 .. Len(list) /\ Len(new) = Len(list)
      /\ new[1] = r
      /\ \A i \in 1 .. Len(list) : i # 1 => new[i] = list[i]
      /\ \A i \in 1 .. Len(list) : list[i] \in Region
  OBVIOUS
<1>2. \A i \in 1 .. Len(list) : i # 1 => x \notin BlocksIn(list[i])
  <2> SUFFICES ASSUME NEW i \in 1 .. Len(list), i # 1, x \in BlocksIn(list[i]) PROVE FALSE
    OBVIOUS
  <2>1. Apart(list[1], list[i])
    BY <1>1
  <2>2. list[1] \in Region /\ list[i] \in Region
    BY <1>1
  <2> QED
    BY <2>1, <2>2, ApartBlocks
<1>3. BlocksOf(new) = BlocksOf(list) \ {x}
  <2>1. ASSUME NEW y PROVE y \in BlocksOf(new) <=> y \in BlocksOf(list) /\ y # x
    <3>1. y \in BlocksOf(new) <=> \E i \in 1 .. Len(list) : y \in BlocksIn(new[i])
      BY <1>1, BlocksOfIs
    <3>2. y \in BlocksOf(list) <=> \E i \in 1 .. Len(list) : y \in BlocksIn(list[i])
      BY <1>1, BlocksOfIs
    <3>3. \A i \in 1 .. Len(list) : y \in BlocksIn(new[i]) <=> y \in BlocksIn(list[i]) /\ y # x
      BY <1>1, <1>2
    <3> QED
      BY <3>1, <3>2, <3>3
  <2> QED
    BY <2>1
<1>4. x \in BlocksOf(list)
  BY <1>1, BlocksOfIs
<1> QED
  BY <1>1, <1>3, <1>4, FS_RemoveElement

\* The first, or the last, block of a region is cut off.
LEMMA BlocksCut ==
    ASSUME NEW r \in Region, r.len > 1,
           NEW short, short = MakeRegion(r.bg, r.start, r.len - 1),
           NEW rest, rest = MakeRegion(r.bg, r.start + 1, r.len - 1)
    PROVE  /\ short \in Region /\ rest \in Region
           /\ <<r.bg, r.start + r.len - 1>> \in BlocksIn(r)
           /\ BlocksIn(short) = BlocksIn(r) \ {<<r.bg, r.start + r.len - 1>>}
           /\ <<r.bg, r.start>> \in BlocksIn(r)
           /\ BlocksIn(rest) = BlocksIn(r) \ {<<r.bg, r.start>>}
<1>1. r.start \in Int /\ r.len \in Nat /\ r.bg \in Int
  BY DEF Region
<1>2. /\ short \in Region /\ short.bg = r.bg /\ short.start = r.start /\ short.len = r.len - 1
      /\ rest \in Region /\ rest.bg = r.bg /\ rest.start = r.start + 1 /\ rest.len = r.len - 1
  BY <1>1 DEF MakeRegion, Region
<1>3. PICK a \in Int, n \in Nat, g \in Int : a = r.start /\ n = r.len /\ g = r.bg
  BY <1>1
<1>4. /\ a .. a + (n - 1) - 1 = (a .. a + n - 1) \ {a + n - 1}
      /\ a + 1 .. a + 1 + (n - 1) - 1 = (a .. a + n - 1) \ {a}
      /\ a + n - 1 \in a .. a + n - 1 /\ a \in a .. a + n - 1
  BY <1>3
<1>5. /\ BlocksIn(r) = {<<g, b>> : b \in a .. a + n - 1}
      /\ BlocksIn(short) = {<<g, b>> : b \in a .. a + (n - 1) - 1}
      /\ BlocksIn(rest) = {<<g, b>> : b \in a + 1 .. a + 1 + (n - 1) - 1}
  BY <1>2, <1>3 DEF BlocksIn
<1>6. ASSUME NEW S, NEW x \in S
      PROVE  {<<g, b>> : b \in S \ {x}} = {<<g, b>> : b \in S} \ {<<g, x>>}
  OBVIOUS
<1>7. BlocksIn(short) = BlocksIn(r) \ {<<r.bg, r.start + r.len - 1>>}
  BY <1>3, <1>4, <1>5, <1>6
<1>8. BlocksIn(rest) = BlocksIn(r) \ {<<r.bg, r.start>>}
  BY <1>3, <1>4, <1>5, <1>6
<1> QED
  BY <1>2, <1>3, <1>4, <1>5, <1>7, <1>8

-----------------------------------------------------------------------------
(* The geometry of the filesystem.                                         *)

\* An image's length, counted from its first data block, as complete groups
\* and a rest.
LEMMA CompleteGroups ==
    ASSUME NEW m \in Nat, NEW B \in Nat, B > 0
    PROVE  \E r \in Nat, k \in Nat : r = m % B /\ m = k * B + r /\ r < B
<1>1. PICK d \in Nat : d = m \div B
  OBVIOUS
<1>2. PICK s \in Nat : s = m % B /\ s < B
  OBVIOUS
<1>3. m = B * d + s
  BY <1>1, <1>2
<1>4. B * d = d * B
  OBVIOUS
<1> QED
  BY <1>2, <1>3, <1>4

\* m blocks are k groups of B and r blocks.
IsGroupsAndRest(m, B, k, r) ==
    m \in Nat /\ B \in Nat /\ B > 0 /\ r \in Nat /\ k \in Nat /\ m = k * B + r /\ r < B

\* The number of groups and the length of the last one follow.
LEMMA GroupsAndRest ==
    ASSUME NEW m, NEW B, NEW k, NEW r, IsGroupsAndRest(m, B, k, r)
    PROVE  m % B = r /\ DivRoundUp(m, B) = IF r = 0 THEN k ELSE k + 1
<1> m \in Nat /\ B \in Nat /\ B > 0 /\ r \in Nat /\ k \in Nat /\ m = k * B + r /\ r < B
  BY DEF IsGroupsAndRest
<1>1. ASSUME NEW a \in Nat, NEW b \in Nat, a < b PROVE a * B + B <= b * B
  <2>1. PICK c \in Nat : b = a + 1 + c
    BY <1>1
  <2>2. b * B = a * B + B + c * B /\ c * B \in Nat
    BY <2>1
  <2>3. a * B \in Nat
    OBVIOUS
  <2> QED
    BY <2>2, <2>3
<1>2. m % B = r
  <2>1. PICK s \in Nat, d \in Nat : s = m % B /\ m = d * B + s /\ s < B
    BY CompleteGroups
  <2>2. k * B \in Nat /\ d * B \in Nat
    OBVIOUS
  <2>3. ~(k < d) /\ ~(d < k)
    BY <1>1, <2>1, <2>2
  <2>4. k = d
    BY <2>3
  <2> QED
    BY <2>1, <2>2, <2>4
<1>3. DivRoundUp(m, B) = IF r = 0 THEN k ELSE k + 1
  <2>1. PICK q \in Nat, s \in Nat : q = DivRoundUp(m, B) /\ m + B - 1 = q * B + s /\ s < B
    BY DEF DivRoundUp
  <2>2. q * B \in Nat /\ k * B \in Nat /\ (k + 1) * B = k * B + B
    OBVIOUS
  <2>3. CASE r = 0
    <3>1. ~(q < k)
      BY <1>1, <2>1, <2>2, <2>3
    <3>2. ~(k < q)
      BY <1>1, <2>1, <2>2, <2>3
    <3>3. q = k
      BY <3>1, <3>2
    <3> QED
      BY <2>1, <2>3, <3>3, Zenon
  <2>4. CASE r > 0
    <3>1. ~(q < k + 1)
      <4>1. q < k + 1 => q * B + B <= (k + 1) * B
        BY <1>1
      <4> QED
        BY <2>1, <2>2, <2>4, <4>1
    <3>2. ~(k + 1 < q)
      <4>1. k + 1 < q => (k + 1) * B + B <= q * B
        BY <1>1
      <4> QED
        BY <2>1, <2>2, <2>4, <4>1
    <3> QED
      BY <2>1, <2>4, <3>1, <3>2
  <2> QED
    BY <2>3, <2>4
<1> QED
  BY <1>2, <1>3

\* ext4_create_fs_aux_info: all groups but the last are complete, and the last
\* has room for its header, or ends in it.
LEMMA Geometry ==
    ASSUME NEW len \in Lens, NEW lb, NEW n,
           lb = IF LastGroupDropped(len) THEN len - LastGroupSize(len) ELSE len,
           n = IF LastGroupDropped(len) THEN AllGroups(len) - 1 ELSE AllGroups(len),
           NEW g \in 0 .. n - 1
    PROVE  /\ lb \in Nat /\ lb <= len
           /\ FirstBlock(g) \in Nat
           /\ g + 1 < n => FirstBlock(g) + BlocksPerGroup <= lb
           /\ \/ FirstBlock(g) + BlocksPerGroup - lb <= BlocksPerGroup - HeaderBlocks(g)
              \/ FirstBlock(g) + HeaderBlocks(g) > lb
              \/ HeaderBlocks(g) = BlocksPerGroup
<1>1. PICK B \in Nat : B = BlocksPerGroup /\ B > 2
  BY GeometryAssumption
<1>2. PICK f \in {0, 1} : f = FirstDataBlock
  BY DEF FirstDataBlock
<1>3. len \in Nat /\ len > 0 /\ len - f \in Nat
  BY <1>2, GeometryAssumption
<1>4. PICK r \in Nat, k \in Nat : len - f = k * B + r /\ r < B /\ AllGroups(len) = IF r = 0 THEN k ELSE k + 1
  <2>1. PICK r \in Nat, k \in Nat : r = (len - f) % B /\ len - f = k * B + r /\ r < B
    <3>1. B > 0 /\ len - f \in Nat
      BY <1>1, <1>3
    <3> QED
      BY <3>1, CompleteGroups, Zenon
  <2>2. AllGroups(len) = DivRoundUp(len - f, B)
    BY <1>1, <1>2 DEF AllGroups
  <2>3. DivRoundUp(len - f, B) = IF r = 0 THEN k ELSE k + 1
    <3>1. IsGroupsAndRest(len - f, B, k, r)
      BY <1>1, <1>3, <2>1 DEF IsGroupsAndRest
    <3> QED
      BY <3>1, GroupsAndRest
  <2> QED
    BY <2>1, <2>2, <2>3
<1>5. k * B \in Nat /\ (k + 1) * B = k * B + B
  OBVIOUS
<1>6. LastGroupSize(len) = IF r + f = B THEN 0 ELSE r + f
  <2>1. LastGroupSize(len) = len % B
    BY <1>1 DEF LastGroupSize
  <2>2. CASE r + f = B
    <3>1. IsGroupsAndRest(len, B, k + 1, 0)
      BY <1>1, <1>3, <1>4, <1>5, <2>2 DEF IsGroupsAndRest
    <3>2. len % B = 0
      BY <3>1, GroupsAndRest
    <3> QED
      BY <2>1, <2>2, <3>2
  <2>3. CASE r + f # B
    <3>1. IsGroupsAndRest(len, B, k, r + f)
      BY <1>1, <1>2, <1>3, <1>4, <1>5, <2>3 DEF IsGroupsAndRest
    <3>2. len % B = r + f
      BY <3>1, GroupsAndRest
    <3> QED
      BY <2>1, <2>3, <3>2
  <2> QED
    BY <2>2, <2>3
<1>7. g \in Nat /\ g * B \in Nat /\ FirstBlock(g) = f + g * B
  <2>1. g \in Nat
    BY <1>4
  <2> QED
    BY <1>1, <1>2, <2>1 DEF FirstBlock
<1>8. ASSUME NEW b \in Nat, g < b PROVE g * B + B <= b * B
  <2>1. PICK c \in Nat : b = g + 1 + c
    BY <1>7, <1>8
  <2>2. b * B = g * B + B + c * B /\ c * B \in Nat
    BY <1>7, <2>1
  <2> QED
    BY <1>7, <2>2
<1>9. PICK h \in Nat : h = HeaderBlocks(g) /\ h <= B /\ h >= 2
  BY <1>1, HeaderFits
<1>10. ASSUME lb \in Nat, lb <= len, f + g * B + B <= lb
       PROVE  /\ lb \in Nat /\ lb <= len
              /\ FirstBlock(g) \in Nat
              /\ FirstBlock(g) + BlocksPerGroup <= lb
              /\ FirstBlock(g) + BlocksPerGroup - lb <= BlocksPerGroup - HeaderBlocks(g)
  BY <1>1, <1>2, <1>7, <1>9, <1>10
<1>11. ASSUME lb \in Nat, lb <= len, ~(g + 1 < n),
              f + g * B + B - lb <= B - h \/ f + g * B + h > lb \/ h = B
       PROVE  /\ lb \in Nat /\ lb <= len
              /\ FirstBlock(g) \in Nat
              /\ g + 1 < n => FirstBlock(g) + BlocksPerGroup <= lb
              /\ \/ FirstBlock(g) + BlocksPerGroup - lb <= BlocksPerGroup - HeaderBlocks(g)
                 \/ FirstBlock(g) + HeaderBlocks(g) > lb
                 \/ HeaderBlocks(g) = BlocksPerGroup
  BY <1>1, <1>2, <1>7, <1>9, <1>11
<1>12. CASE LastGroupDropped(len)
  <2>1. LastGroupSize(len) > 0
    BY <1>12 DEF LastGroupDropped
  <2>2. lb = k * B /\ r + f # B /\ r + f > 0
    BY <1>2, <1>3, <1>4, <1>5, <1>6, <1>12, <2>1
  <2>3. lb \in Nat /\ lb <= len
    BY <1>2, <1>3, <1>4, <1>5, <2>2
  <2>4. CASE r = 0
    <3>1. n = k - 1 /\ f = 1
      BY <1>2, <1>4, <1>12, <2>2, <2>4
    <3>2. g + 1 < k /\ (g + 1) * B = g * B + B /\ k \in Nat
      BY <1>7, <3>1
    <3>3. g * B + B + B <= k * B
      <4>1. PICK c \in Nat : k = g + 2 + c
        BY <1>7, <3>2
      <4>2. k * B = g * B + B + B + c * B /\ c * B \in Nat
        BY <1>7, <4>1
      <4> QED
        BY <1>7, <4>2
    <3>4. f + g * B + B <= lb
      BY <1>1, <1>5, <1>7, <2>2, <3>1, <3>3
    <3> QED
      BY <1>10, <2>3, <3>4
  <2>5. CASE r > 0
    <3>1. n = k /\ g < k
      BY <1>4, <1>7, <1>12, <2>5
    <3>2. g * B + B <= k * B
      BY <1>8, <3>1
    <3>3. CASE f = 0
      BY <1>5, <1>7, <1>10, <2>2, <2>3, <3>2, <3>3
    <3>4. CASE f = 1 /\ g + 1 < k
      <4>1. PICK c \in Nat : k = g + 2 + c
        BY <1>7, <3>4
      <4>2. k * B = g * B + B + B + c * B /\ c * B \in Nat
        BY <1>7, <4>1
      <4>3. f + g * B + B <= lb
        BY <1>1, <1>7, <2>2, <3>4, <4>2
      <4> QED
        BY <1>10, <2>3, <4>3
    <3>5. CASE f = 1 /\ g + 1 = k
      <4>1. k * B = g * B + B
        BY <1>7, <3>5
      <4>2. f + g * B + B - lb = 1
        BY <1>7, <2>2, <3>5, <4>1
      <4>3. f + g * B + B - lb <= B - h \/ h = B
        BY <1>9, <4>2
      <4> QED
        BY <1>11, <2>3, <3>1, <3>5, <4>3
    <3> QED
      BY <1>2, <1>7, <3>1, <3>3, <3>4, <3>5
  <2> QED
    BY <2>4, <2>5
<1>13. CASE ~LastGroupDropped(len)
  <2>1. lb = len /\ lb \in Nat /\ lb <= len /\ n = AllGroups(len)
    BY <1>3, <1>13
  <2>2. CASE g < k
    <3>1. f + g * B + B <= lb
      BY <1>2, <1>3, <1>4, <1>5, <1>7, <1>8, <2>1, <2>2
    <3> QED
      BY <1>10, <2>1, <3>1
  <2>3. CASE ~(g < k)
    <3>1. g = k /\ n = k + 1 /\ r > 0
      BY <1>4, <1>7, <2>1, <2>3
    <3>2. f + g * B + B - lb = B - r
      BY <1>2, <1>3, <1>4, <1>5, <2>1, <3>1
    <3>3. CASE r + f = B
      <4>1. B - r <= B - h \/ h = B
        BY <1>2, <1>4, <1>9, <3>3
      <4> QED
        BY <1>11, <2>1, <3>1, <3>2, <4>1
    <3>4. CASE r + f # B
      <4>1. ~(r + f < HeaderBlocks(k))
        BY <1>2, <1>4, <1>6, <1>13, <2>1, <3>1, <3>4 DEF LastGroupDropped
      <4>2. r + f >= h
        BY <1>2, <1>9, <3>1, <4>1
      <4>3. B - r <= B - h \/ f + g * B + h > lb
        BY <1>2, <1>3, <1>4, <1>5, <1>9, <2>1, <3>1, <4>2
      <4> QED
        BY <1>11, <2>1, <3>1, <3>2, <4>3
    <3> QED
      BY <3>3, <3>4
  <2> QED
    BY <2>2, <2>3
<1> QED
  BY <1>12, <1>13

\* init_bg and the last group's size.
LEMMA InitFInv == ASSUME Roomy, Init PROVE FInv
<1>1. PICK len \in Lens :
         /\ len_blocks = IF LastGroupDropped(len) THEN len - LastGroupSize(len) ELSE len
         /\ groups = IF LastGroupDropped(len) THEN AllGroups(len) - 1 ELSE AllGroups(len)
  BY DEF Init
<1>2. BlocksPerGroup \in Nat /\ U32 \in Nat /\ len + BlocksPerGroup + 1 < U32 /\ len \in Nat
  BY GeometryAssumption
<1>3. IInv
  BY InitIInv
<1>4. ASSUME NEW g \in Group
      PROVE  /\ bgs[g].data_blocks_used = 0
             /\ bgs[g].free_blocks > 0 =>
                   FirstBlock(g) + bgs[g].first_free_block + bgs[g].free_blocks <= len_blocks \/ HeaderCut(g)
             /\ g + 1 < groups => bgs[g].free_blocks = BlocksPerGroup - HeaderBlocks(g)
  <2>1. g \in 0 .. groups - 1 /\ g \in Int /\ len_blocks \in Int /\ bgs[g] = init_bg(g, len_blocks)
    BY <1>3 DEF Init, Group, IInv, TypeOK
  <2>2. /\ len_blocks \in Nat /\ len_blocks <= len
        /\ FirstBlock(g) \in Nat
        /\ g + 1 < groups => FirstBlock(g) + BlocksPerGroup <= len_blocks
        /\ \/ FirstBlock(g) + BlocksPerGroup - len_blocks <= BlocksPerGroup - HeaderBlocks(g)
           \/ FirstBlock(g) + HeaderBlocks(g) > len_blocks
           \/ HeaderBlocks(g) = BlocksPerGroup
    BY <1>1, <1>2, <2>1, Geometry
  <2>3. PICK f \in Nat, lb \in Nat, h \in Nat :
           f = FirstBlock(g) /\ lb = len_blocks /\ h = HeaderBlocks(g) /\ h <= BlocksPerGroup /\ h >= 2
    BY <2>2, HeaderFits
  <2>4. PICK B \in Nat : B = BlocksPerGroup
    BY <1>2
  <2>5. Overrun(g, len_blocks) = IF f + B - lb >= 0 THEN f + B - lb ELSE f + B - lb + U32
    BY <2>3, <2>4 DEF Overrun
  <2>6. bgs[g] \in BlockGroup
    BY <1>3 DEF IInv, TypeOK
  <2>7. PICK a \in Int, b \in Int : a = bgs[g].first_free_block /\ b = bgs[g].free_blocks
    BY <2>6 DEF BlockGroup
  <2>8. /\ bgs[g].data_blocks_used = 0
        /\ Overrun(g, len_blocks) = 0 \/ Overrun(g, len_blocks) > B - h => a = h /\ b = B - h
        /\ Overrun(g, len_blocks) \in 1 .. B - h => b = 0 \/ a + b + Overrun(g, len_blocks) = B
    BY <2>1, <2>3, <2>4, <2>7, InitGroup
  <2>9. CASE f + B <= lb
    <3>1. Overrun(g, len_blocks) = 0 \/ Overrun(g, len_blocks) > B - h
      BY <1>2, <2>2, <2>3, <2>4, <2>5, <2>9
    <3>2. a = h /\ b = B - h
      BY <2>8, <3>1
    <3>3. f + a + b <= lb
      BY <2>3, <2>9, <3>2
    <3> QED
      BY <2>3, <2>4, <2>7, <2>8, <3>2, <3>3
  <2>10. CASE f + B > lb
    <3>1. Overrun(g, len_blocks) = f + B - lb /\ f + B - lb > 0
      BY <2>5, <2>10
    <3>2. ASSUME f + B - lb <= B - h PROVE b > 0 => f + a + b <= lb
      <4>1. b = 0 \/ a + b + (f + B - lb) = B
        BY <2>8, <3>1, <3>2
      <4> QED
        BY <4>1
    <3>3. ASSUME h = B PROVE ~(b > 0)
      BY <2>8, <3>1, <3>3
    <3>4. b > 0 => f + a + b <= lb \/ HeaderCut(g)
      BY <2>2, <2>3, <2>4, <3>2, <3>3 DEF HeaderCut
    <3>5. ~(g + 1 < groups)
      BY <2>2, <2>3, <2>4, <2>10
    <3> QED
      BY <2>3, <2>7, <2>8, <3>4, <3>5
  <2> QED
    BY <2>9, <2>10
<1>5. EndInv
  BY <1>4 DEF EndInv
<1>6. UsedInv
  BY DEF Init, UsedInv
<1>7. SizeInv
  BY BlocksOfOne, FS_EmptySet DEF Init, SizeInv
<1>8. ExtentsCoverFile
  <2>1. file.list = <<>> /\ file.oob = <<>> /\ file.request = 0 /\ file.entries = 0
    BY DEF Init, NoFile
  <2>2. Cardinality(BlocksOf(file.list)) = 0 /\ Cardinality(BlocksOf(file.oob)) = 0
    BY <2>1, BlocksOfOne, FS_EmptySet
  <2>3. Len(file.list) = 0
    BY <2>1
  <2> QED
    BY <2>1, <2>2, <2>3 DEF ExtentsCoverFile
<1> QED
  BY <1>5, <1>6, <1>7, <1>8 DEF FInv

\* Taking blocks that are free from a group moves the start of its free
\* interval, never its end, and the group is in use from then on.
LEMMA TakenEnd ==
    ASSUME IInv, EndInv, NEW g \in Group, NEW n \in Nat, n <= bgs[g].free_blocks,
           bgs' = Taken(g, n), groups' = groups, len_blocks' = len_blocks, block_size' = block_size
    PROVE  /\ EndInv'
           /\ \A r : r.bg \in Group /\ r.len \in Nat /\ IsUsed(r) => IsUsed(r)'
           /\ \A r : r.bg = g /\ r.len = n => IsUsed(r)'
           /\ n > 0 => bgs'[g].data_blocks_used # 0
           /\ \A h \in Group : bgs'[h].data_blocks_used = 0 => bgs[h].data_blocks_used = 0
<1>1. Group' = Group
  BY DEF Group
<1>2. /\ \A h \in Group : h # g => bgs'[h] = bgs[h]
      /\ bgs'[g].first_free_block = bgs[g].first_free_block + n
      /\ bgs'[g].free_blocks = bgs[g].free_blocks - n
      /\ bgs'[g].data_blocks_used = bgs[g].data_blocks_used + n
  BY TakenGroups
<1>3. bgs[g].first_free_block \in Int /\ bgs[g].free_blocks \in Int /\ bgs[g].data_blocks_used \in Nat
  BY DEF IInv, TypeOK, BlockGroup, EndInv
<1>4. PICK a \in Int, b \in Int, u \in Nat :
         a = bgs[g].first_free_block /\ b = bgs[g].free_blocks /\ u = bgs[g].data_blocks_used
  BY <1>3
<1>5. /\ u > 0 \/ b > 0 => FirstBlock(g) + a + b <= len_blocks \/ HeaderCut(g)
      /\ g + 1 < groups /\ u = 0 => b = BlocksPerGroup - HeaderBlocks(g)
  BY <1>4 DEF EndInv
<1>6. /\ bgs'[g].first_free_block = a + n /\ bgs'[g].free_blocks = b - n
      /\ bgs'[g].data_blocks_used = u + n /\ n <= b
  BY <1>2, <1>4
<1>7. FirstBlock(g) \in Int /\ len_blocks \in Int /\ groups \in Int /\ g \in Int
  BY GeometryAssumption DEF FirstBlock, FirstDataBlock, IInv, TypeOK, Group
<1>8. /\ bgs'[g].data_blocks_used \in Nat
      /\ bgs'[g].data_blocks_used > 0 \/ bgs'[g].free_blocks > 0 =>
            FirstBlock(g) + bgs'[g].first_free_block + bgs'[g].free_blocks <= len_blocks \/ HeaderCut(g)
      /\ g + 1 < groups /\ bgs'[g].data_blocks_used = 0 =>
            bgs'[g].free_blocks = BlocksPerGroup - HeaderBlocks(g)
  <2>1. FirstBlock(g) + (a + n) + (b - n) = FirstBlock(g) + a + b
    BY <1>7
  <2>2. u + n > 0 \/ b - n > 0 => u > 0 \/ b > 0
    BY <1>6
  <2>3. u + n = 0 => u = 0 /\ b - n = b
    OBVIOUS
  <2> QED
    BY <1>5, <1>6, <2>1, <2>2, <2>3
<1>9. EndInv'
  <2>1. ASSUME NEW h \in Group
        PROVE  /\ bgs'[h].data_blocks_used \in Nat
               /\ bgs'[h].data_blocks_used > 0 \/ bgs'[h].free_blocks > 0 =>
                     FirstBlock(h) + bgs'[h].first_free_block + bgs'[h].free_blocks <= len_blocks \/ HeaderCut(h)
               /\ h + 1 < groups /\ bgs'[h].data_blocks_used = 0 =>
                     bgs'[h].free_blocks = BlocksPerGroup - HeaderBlocks(h)
    <3>1. CASE h = g
      BY <1>8, <3>1
    <3>2. CASE h # g
      BY <1>2, <3>2 DEF EndInv
    <3> QED
      BY <3>1, <3>2
  <2> QED
    BY <1>1, <2>1 DEF EndInv, HeaderCut, FirstBlock, FirstDataBlock, HeaderBlocks,
       ext4_bg_has_super_block, is_power_of
<1>10. \A h \in Group : bgs[h].data_blocks_used > 0 => bgs'[h].data_blocks_used > 0
  BY <1>2, <1>4, <1>6
<1>11. ASSUME NEW r, r.bg \in Group, r.len \in Nat, IsUsed(r) PROVE IsUsed(r)'
  BY <1>10, <1>11 DEF IsUsed
<1>12. ASSUME NEW r, r.bg = g, r.len = n PROVE IsUsed(r)'
  <2>1. n > 0 => bgs'[g].data_blocks_used > 0
    BY <1>6
  <2> QED
    BY <1>12, <2>1 DEF IsUsed
<1>13. n > 0 => bgs'[g].data_blocks_used # 0
  BY <1>6
<1>14. \A h \in Group : bgs'[h].data_blocks_used = 0 => bgs[h].data_blocks_used = 0
  BY <1>2, <1>4, <1>6
<1> QED
  BY <1>9, <1>11, <1>12, <1>13, <1>14


\* allocate_block: a group gives away one block.
LEMMA allocate_blockFile == ASSUME IInv, FInv, allocate_block PROVE FInv'
<1>1. PICK g \in Group : /\ FirstFit(g, 1) /\ bgs' = Taken(g, 1)
                         /\ owned' = owned \cup {RegionIn(g, 1)}
  BY DEF allocate_block
<1>2. 1 <= bgs[g].free_blocks /\ EndInv
  BY <1>1 DEF FirstFit, Fits, IInv, TypeOK, BlockGroup, FInv
<1>3. pc = "idle" /\ regs = <<>> /\ UNCHANGED <<block_size, len_blocks, groups, pc, request, want, regs, file>>
  BY DEF allocate_block, IInv, TailInv
<1>4. /\ EndInv'
      /\ \A r : r.bg \in Group /\ r.len \in Nat /\ IsUsed(r) => IsUsed(r)'
      /\ \A r : r.bg = g /\ r.len = 1 => IsUsed(r)'
  BY <1>1, <1>2, <1>3, TakenEnd
<1>5. RegionIn(g, 1).bg = g /\ RegionIn(g, 1).len = 1
  BY DEF RegionIn, MakeRegion
<1>6. \A r \in owned : r.bg \in Group /\ r.len \in Nat /\ IsUsed(r)
  BY DEF IInv, TypeOK, NoBlockTwice, Reserved, Region, FInv, UsedInv
<1>7. \A r \in owned' : IsUsed(r)'
  BY <1>1, <1>4, <1>5, <1>6
<1>8. UsedInv'
  BY <1>3, <1>7 DEF UsedInv
<1>9. SizeInv' /\ ExtentsCoverFile'
  BY <1>3 DEF FInv, SizeInv, ExtentsCoverFile, BlocksOf, RangeOf
<1> QED
  BY <1>4, <1>8, <1>9 DEF FInv

\* AllocateContiguous: one region, of a block more than the file has.
LEMMA AllocateContiguousFile ==
    ASSUME IInv, FInv, NEW n \in Sizes, AllocateContiguous(n) PROVE FInv'
<1>1. PICK g \in Group : /\ FirstFit(g, n + 1) /\ bgs' = Taken(g, n + 1)
                         /\ regs' = <<RegionIn(g, n + 1)>>
  BY DEF AllocateContiguous
<1>2. n \in Nat /\ n > 0 /\ n + 1 \in Nat /\ n + 1 <= bgs[g].free_blocks /\ EndInv
  BY <1>1, GeometryAssumption DEF FirstFit, Fits, IInv, TypeOK, BlockGroup, FInv
<1>3. /\ pc' = "attach" /\ request' = n /\ want' = 0
      /\ UNCHANGED <<block_size, len_blocks, groups, owned, file>>
  BY DEF AllocateContiguous
<1>4. /\ EndInv'
      /\ \A r : r.bg \in Group /\ r.len \in Nat /\ IsUsed(r) => IsUsed(r)'
      /\ \A r : r.bg = g /\ r.len = n + 1 => IsUsed(r)'
  BY <1>1, <1>2, <1>3, TakenEnd
<1> DEFINE new == RegionIn(g, n + 1)
<1>5. new \in Region /\ new.bg = g /\ new.len = n + 1
  BY <1>1, <1>2, <1>3, TakenRegion
<1> HIDE DEF new
<1>6. regs' = <<new>> /\ Len(regs') = 1 /\ regs'[1] = new
  BY <1>1 DEF new
<1>7. \A r \in owned : r.bg \in Group /\ r.len \in Nat /\ IsUsed(r)
  BY DEF IInv, TypeOK, NoBlockTwice, Reserved, Region, FInv, UsedInv
<1>8. UsedInv'
  <2>1. \A r \in owned' : IsUsed(r)'
    BY <1>3, <1>4, <1>7
  <2>2. ASSUME NEW i \in 1 .. Len(regs') PROVE IsUsed(regs[i])'
    <3>1. regs'[i] = new
      BY <1>6
    <3>2. PICK r : r = regs'[i] /\ IsUsed(r)'
      BY <1>4, <1>5, <3>1
    <3> QED
      BY <3>2 DEF IsUsed
  <2> QED
    BY <2>1, <2>2 DEF UsedInv
<1>9. SizeInv'
  <2>1. IsFiniteSet(BlocksOf(regs')) /\ Cardinality(BlocksOf(regs')) = n + 1
    BY <1>5, <1>6, BlocksOfOne, BlocksInCount
  <2>2. regs'[1].len # 1
    BY <1>2, <1>5, <1>6
  <2> QED
    BY <1>2, <1>3, <2>1, <2>2 DEF SizeInv, BlocksOf, RangeOf
<1>10. ExtentsCoverFile'
  BY <1>3 DEF FInv, ExtentsCoverFile, BlocksOf, RangeOf
<1> QED
  BY <1>4, <1>8, <1>9, <1>10 DEF FInv

\* AllocateMultiple: all of the request is still wanted.
LEMMA AllocateMultipleFile ==
    ASSUME IInv, FInv, NEW n \in Sizes, AllocateMultiple(n) PROVE FInv'
<1>1. /\ pc' = "partial" /\ request' = n /\ want' = n + 1 /\ regs' = <<>>
      /\ UNCHANGED <<block_size, len_blocks, groups, bgs, owned, file>>
  BY DEF AllocateMultiple
<1>2. n \in Nat /\ n > 0
  BY GeometryAssumption
<1>3. EndInv' /\ UsedInv'
  <2>1. EndInv'
    BY <1>1 DEF FInv, EndInv, Group, HeaderCut, FirstBlock, FirstDataBlock, HeaderBlocks,
       ext4_bg_has_super_block, is_power_of
  <2>2. UsedInv'
    BY <1>1 DEF FInv, UsedInv, IsUsed
  <2> QED
    BY <2>1, <2>2
<1>4. BlocksOf(regs') = {}
  BY <1>1, BlocksOfOne
<1>5. SizeInv'
  <2>1. IsFiniteSet(BlocksOf(regs')) /\ Cardinality(BlocksOf(regs')) = 0
    BY <1>4, FS_EmptySet
  <2> QED
    BY <1>1, <1>2, <2>1 DEF SizeInv
<1>6. ExtentsCoverFile'
  BY <1>1 DEF FInv, ExtentsCoverFile, BlocksOf, RangeOf
<1> QED
  BY <1>3, <1>5, <1>6 DEF FInv

\* PartialFails: there is no request any more.
LEMMA PartialFailsFile == ASSUME IInv, FInv, PartialFails PROVE FInv'
<1>1. pc' = "idle" /\ regs' = <<>> /\ UNCHANGED <<block_size, len_blocks, groups, bgs, owned, file>>
  BY DEF PartialFails
<1>2. EndInv' /\ UsedInv'
  <2>1. EndInv'
    BY <1>1 DEF FInv, EndInv, Group, HeaderCut, FirstBlock, FirstDataBlock, HeaderBlocks,
       ext4_bg_has_super_block, is_power_of
  <2>2. UsedInv'
    BY <1>1 DEF FInv, UsedInv, IsUsed
  <2> QED
    BY <2>1, <2>2
<1>3. BlocksOf(regs') = {}
  BY <1>1, BlocksOfOne
<1>4. SizeInv'
  BY <1>1, <1>3, FS_EmptySet DEF SizeInv, BlocksOf, RangeOf
<1>5. ExtentsCoverFile'
  BY <1>1 DEF FInv, ExtentsCoverFile, BlocksOf, RangeOf
<1> QED
  BY <1>2, <1>4, <1>5 DEF FInv

\* One turn of ext4_allocate_multiple_contiguous_blocks: what a region adds to
\* the list is no longer wanted.  A first region of a single block comes from
\* the last group, behind which there is no unused one.
LEMMA AddFile ==
    ASSUME Roomy, IInv, FInv, pc = "partial", NEW g \in Group, NEW n \in Nat, Add(g, n),
           n <= bgs[g].free_blocks, n <= want,
           \/ n = bgs[g].free_blocks /\ n < want /\ FirstUnused(g)
           \/ n = want /\ \E u \in Group : FirstUnused(u) /\ bgs[u].free_blocks >= want
    PROVE  FInv'
<1> DEFINE new == RegionIn(g, n)
<1>1. /\ bgs' = Taken(g, n) /\ want' = want - n
      /\ pc' = IF want = n THEN "attach" ELSE "partial"
      /\ UNCHANGED <<block_size, len_blocks, groups, request, owned, file>>
  BY DEF Add
<1>2. /\ new \in Region /\ new.bg = g /\ new.len = n
      /\ \A r \in Region : Reserved(r) => Apart(r, new)
  BY <1>1, TakenRegion
<1>3. EndInv /\ UsedInv /\ SizeInv /\ ExtentsCoverFile
  BY DEF FInv
<1>4. /\ EndInv'
      /\ \A r : r.bg \in Group /\ r.len \in Nat /\ IsUsed(r) => IsUsed(r)'
      /\ \A r : r.bg = g /\ r.len = n => IsUsed(r)'
      /\ n > 0 => bgs'[g].data_blocks_used # 0
      /\ \A h \in Group : bgs'[h].data_blocks_used = 0 => bgs[h].data_blocks_used = 0
  BY <1>1, <1>3, TakenEnd
<1>5. \/ regs' = Append(regs, new)
      \/ regs' = regs /\ n = 0 /\ (regs = <<>> => MaxRegions = 0)
  BY GeometryAssumption DEF Add
<1> HIDE DEF new
<1>6. /\ regs \in Seq(Region) /\ owned \subseteq Region /\ want \in Nat /\ want > 0 /\ request \in Nat
      /\ \A i \in 1 .. Len(regs) : regs[i] \in Region /\ Reserved(regs[i]) /\ regs[i].bg \in Group
      /\ \A r \in owned : r.bg \in Group /\ r.len \in Nat
  <2>1. regs \in Seq(Region) /\ owned \subseteq Region /\ want \in Nat /\ want > 0 /\ request \in Nat
    BY DEF IInv, TypeOK, TailInv
  <2>2. \A i \in 1 .. Len(regs) : regs[i] \in Region
    BY <2>1
  <2>3. \A r \in owned : r.bg \in Group /\ r.len \in Nat
    BY <2>1 DEF IInv, NoBlockTwice, Reserved, Region
  <2> QED
    BY <2>1, <2>2, <2>3 DEF IInv, NoBlockTwice, Reserved
<1>7. /\ Len(regs) \in Nat
      /\ \A i \in 1 .. Len(regs') : \/ i \in 1 .. Len(regs) /\ regs'[i] = regs[i]
                                    \/ i = Len(regs) + 1 /\ regs'[i] = new
  BY <1>2, <1>5, <1>6
<1>8. UsedInv'
  <2>1. \A r \in owned' : IsUsed(r)'
    BY <1>1, <1>3, <1>4, <1>6 DEF UsedInv
  <2>2. ASSUME NEW i \in 1 .. Len(regs') PROVE IsUsed(regs[i])'
    <3>1. PICK r \in Region : r = regs'[i] /\ IsUsed(r)'
      <4>1. CASE i \in 1 .. Len(regs) /\ regs'[i] = regs[i]
        <5>1. regs[i] \in Region /\ regs[i].bg \in Group /\ regs[i].len \in Nat /\ IsUsed(regs[i])
          BY <1>3, <1>6, <4>1 DEF UsedInv, Region
        <5> QED
          BY <1>4, <4>1, <5>1
      <4>2. CASE regs'[i] = new
        BY <1>2, <1>4, <4>2
      <4> QED
        BY <1>7, <4>1, <4>2
    <3> QED
      BY <3>1 DEF IsUsed
  <2> QED
    BY <2>1, <2>2 DEF UsedInv
<1>9. /\ IsFiniteSet(BlocksOf(regs'))
      /\ Cardinality(BlocksOf(regs')) = Cardinality(BlocksOf(regs)) + n
  <2>1. CASE regs' = Append(regs, new)
    <3>1. \A i \in 1 .. Len(regs) : Apart(regs[i], new)
      BY <1>2, <1>6
    <3>2. IsFiniteSet(BlocksOf(regs))
      BY <1>3 DEF SizeInv
    <3> QED
      BY <1>2, <1>6, <2>1, <3>1, <3>2, BlocksAppend
  <2>2. CASE regs' = regs /\ n = 0
    <3>1. Cardinality(BlocksOf(regs)) \in Nat /\ IsFiniteSet(BlocksOf(regs))
      BY <1>3, FS_CardinalityType DEF SizeInv
    <3> QED
      BY <2>2, <3>1
  <2> QED
    BY <1>5, <2>1, <2>2
<1>10. request' > 0 /\ Cardinality(BlocksOf(regs')) + want' = request' + 1
  <2>1. PICK c \in Nat : c = Cardinality(BlocksOf(regs)) /\ c + want = request + 1 /\ request > 0
    BY <1>3, FS_CardinalityType DEF SizeInv
  <2>2. (c + n) + (want - n) = request + 1
    BY <1>6, <2>1
  <2> QED
    BY <1>1, <1>9, <2>1, <2>2
<1>11. Unused' \subseteq Unused
  BY <1>1, <1>4 DEF Unused, Group
<1>12. ASSUME pc' = "partial", regs' # <<>> PROVE regs'[1].len # 1 \/ Unused' = {}
  <2>1. n = bgs[g].free_blocks /\ n < want /\ FirstUnused(g)
    BY <1>1, <1>12
  <2>2. CASE regs # <<>>
    <3>1. regs'[1] = regs[1]
      BY <1>5, <1>6, <2>2
    <3> QED
      BY <1>3, <1>11, <2>2, <3>1 DEF SizeInv
  <2>3. CASE regs = <<>>
    <3>1. regs'[1] = new
      BY <1>5, <1>12, <2>3
    <3> SUFFICES ASSUME n = 1 PROVE Unused' = {}
      BY <1>2, <3>1
    <3>2. ~(g + 1 < groups)
      <4> SUFFICES ASSUME g + 1 < groups PROVE FALSE
        OBVIOUS
      <4>1. 1 = BlocksPerGroup - HeaderBlocks(g)
        BY <1>3, <2>1 DEF EndInv, FirstUnused, Unused
      <4> QED
        BY <4>1, GeometryAssumption DEF HeaderBlocks, Roomy
    <3>3. \A h \in Unused : g <= h
      BY <2>1 DEF FirstUnused
    <3>4. \A h \in Unused : h = g
      BY <3>2, <3>3 DEF Unused, Group, IInv, TypeOK
    <3>5. g \notin Unused'
      BY <1>4 DEF Unused
    <3> QED
      BY <1>11, <3>4, <3>5
  <2> QED
    BY <2>2, <2>3
<1>13. ASSUME pc' = "attach" PROVE want' = 0 /\ regs'[1].len # 1
  <2>1. n = want
    BY <1>1, <1>13
  <2>2. PICK u \in Group : FirstUnused(u) /\ bgs[u].free_blocks >= want
    BY <1>6, <2>1
  <2>3. regs' = Append(regs, new)
    BY <1>5, <1>6, <2>1
  <2>4. CASE regs # <<>>
    <3>1. regs'[1] = regs[1]
      BY <1>6, <2>3, <2>4
    <3>2. Unused # {}
      BY <2>2 DEF FirstUnused
    <3> QED
      BY <1>1, <1>3, <1>6, <2>1, <2>4, <3>1, <3>2 DEF SizeInv
  <2>5. CASE regs = <<>>
    <3>1. regs'[1] = new
      BY <2>3, <2>5
    <3>2. Cardinality(BlocksOf(regs)) = 0
      BY <2>5, BlocksOfOne, FS_EmptySet
    <3>3. want = request + 1 /\ request > 0
      BY <1>3, <1>6, <3>2 DEF SizeInv
    <3> QED
      BY <1>1, <1>2, <1>6, <2>1, <3>1, <3>3
  <2> QED
    BY <2>4, <2>5
<1>14. SizeInv'
  BY <1>9, <1>10, <1>12, <1>13 DEF SizeInv, BlocksOf, RangeOf
<1>15. ExtentsCoverFile'
  BY <1>1, <1>3 DEF ExtentsCoverFile, BlocksOf, RangeOf
<1> QED
  BY <1>4, <1>8, <1>14, <1>15 DEF FInv


\* ext4_allocate_partial takes all of the first unused group ...
LEMMA PartialWholeFile == ASSUME Roomy, IInv, FInv, PartialWhole PROVE FInv'
<1>1. PICK g \in Group : /\ FirstUnused(g) /\ bgs[g].free_blocks < want
                         /\ Add(g, bgs[g].free_blocks)
  BY DEF PartialWhole
<1>2. bgs[g].free_blocks \in Nat /\ want \in Nat /\ pc = "partial"
  BY DEF PartialWhole, IInv, TypeOK, BlockGroup, GroupInv, FreeInterval
<1> QED
  BY <1>1, <1>2, AddFile

\* ... or the rest of the request.
LEMMA PartialRestFile == ASSUME Roomy, IInv, FInv, PartialRest PROVE FInv'
<1>1. PICK g \in Group : FirstFit(g, want) /\ Add(g, want)
  BY DEF PartialRest
<1>2. /\ want \in Nat /\ pc = "partial" /\ want <= bgs[g].free_blocks
      /\ \E u \in Group : FirstUnused(u) /\ bgs[u].free_blocks >= want
  BY <1>1 DEF PartialRest, IInv, TypeOK, BlockGroup, FirstFit, Fits
<1> QED
  BY <1>1, <1>2, AddFile

\* What the list of a request is when it is attached.
LEMMA ListFacts ==
    ASSUME IInv, FInv, pc = "attach"
    PROVE  /\ regs \in Seq(Region) /\ Len(regs) \in Nat /\ 1 \in 1 .. Len(regs)
           /\ \A i \in 1 .. Len(regs) : regs[i] \in Region /\ IsUsed(regs[i])
           /\ regs[1].len > 1
           /\ \A i, j \in 1 .. Len(regs) : i < j => Apart(regs[i], regs[j])
           /\ IsFiniteSet(BlocksOf(regs)) /\ Cardinality(BlocksOf(regs)) = request + 1
           /\ request \in Nat
<1>1. regs \in Seq(Region) /\ Len(regs) \in Nat /\ 1 \in 1 .. Len(regs) /\ request \in Nat
  BY DEF IInv, TypeOK, TailInv
<1>2. \A i \in 1 .. Len(regs) : regs[i] \in Region /\ IsUsed(regs[i])
  BY <1>1 DEF FInv, UsedInv
<1>3. regs[1].len > 1
  <2>1. regs[1].len \in Nat /\ regs[1].len > 0 /\ regs[1].len # 1
    BY <1>1, <1>2 DEF Region, IInv, EmptyInv, FInv, SizeInv
  <2> QED
    BY <2>1
<1>4. \A i, j \in 1 .. Len(regs) : i < j => Apart(regs[i], regs[j])
  BY DEF IInv, NoBlockTwice
<1>5. IsFiniteSet(BlocksOf(regs)) /\ Cardinality(BlocksOf(regs)) + 0 = request + 1
  BY DEF FInv, SizeInv
<1>6. Cardinality(BlocksOf(regs)) \in Nat
  BY <1>5, FS_CardinalityType
<1> QED
  BY <1>1, <1>2, <1>3, <1>4, <1>5, <1>6

\* What an attached list leaves to show: its size, and that its groups are in use.
LEMMA AttachFile ==
    ASSUME IInv, FInv, pc = "attach", NEW list, NEW oob, Attach(list, oob), EndInv',
           \A g \in Group : bgs'[g].data_blocks_used = bgs[g].data_blocks_used,
           \A q \in RangeOf(list) \cup RangeOf(oob) : \E i \in 1 .. Len(regs) : q.bg = regs[i].bg,
           Cardinality(BlocksOf(list)) = request, Len(list) = Len(regs),
           Cardinality(BlocksOf(oob)) = IF Len(regs) > 3 THEN 1 ELSE 0
    PROVE  FInv'
<1> DEFINE Q == RangeOf(list) \cup RangeOf(oob)
<1>1. /\ owned' = owned \cup Q /\ pc' = "idle" /\ regs' = <<>> /\ groups' = groups
      /\ file' = [request |-> request, entries |-> Len(regs), list |-> list, oob |-> oob]
  BY DEF Attach
<1>2. \A i \in 1 .. Len(regs) : regs[i].bg \in Group /\ bgs[regs[i].bg].data_blocks_used > 0
  BY DEF IInv, NoBlockTwice, Reserved, EmptyInv, FInv, UsedInv, IsUsed
<1>3. \A r \in Q : bgs'[r.bg].data_blocks_used > 0
  BY <1>2
<1>4. \A r \in owned : r.bg \in Group /\ bgs[r.bg].data_blocks_used > 0
  BY DEF IInv, NoBlockTwice, Reserved, EmptyInv, FInv, UsedInv, IsUsed
<1> HIDE DEF Q
<1>5. \A r \in owned' : bgs'[r.bg].data_blocks_used > 0
  BY <1>1, <1>3, <1>4
<1>6. UsedInv'
  BY <1>1, <1>5 DEF UsedInv, IsUsed
<1>7. SizeInv'
  <2>1. BlocksOf(regs') = {}
    BY <1>1, BlocksOfOne
  <2>2. IsFiniteSet(BlocksOf(regs'))
    BY <2>1, FS_EmptySet
  <2> QED
    BY <1>1, <2>2 DEF SizeInv
<1>8. ExtentsCoverFile'
  <2>1. /\ file'.request = request /\ file'.entries = Len(regs) /\ file'.list = list
        /\ file'.oob = oob
    BY <1>1
  <2> QED
    BY <2>1 DEF ExtentsCoverFile
<1> QED
  BY <1>6, <1>7, <1>8 DEF FInv

\* Every region of new is in a group of list.
SameGroups(new, list) == \A q \in RangeOf(new) : \E i \in 1 .. Len(list) : q.bg = list[i].bg

\* The regions of a list whose first one was replaced.
LEMMA RangeExcept ==
    ASSUME NEW list \in Seq(Region), NEW r, r.bg = list[1].bg, 1 \in 1 .. Len(list),
           NEW new, new = [list EXCEPT ![1] = r]
    PROVE  SameGroups(new, list)
<1>1. DOMAIN new = 1 .. Len(list) /\ \A i \in 1 .. Len(list) : new[i] = IF i = 1 THEN r ELSE list[i]
  OBVIOUS
<1>2. \A q \in RangeOf(new) : \E i \in 1 .. Len(list) : q = new[i]
  BY <1>1 DEF RangeOf
<1> QED
  BY <1>1, <1>2 DEF SameGroups

\* Up to three regions: the additional block goes back to its group.
LEMMA AttachInodeFile == ASSUME IInv, FInv, AttachInode PROVE FInv'
<1> DEFINE g == regs[1].bg
           short == MakeRegion(regs[1].bg, regs[1].start, regs[1].len - 1)
           rest == MakeRegion(regs[1].bg, regs[1].start + 1, regs[1].len - 1)
           list == reduce_allocation(regs)
<1>1. pc = "attach" /\ Attach(list, <<>>) /\ bgs' = [bgs EXCEPT ![g] = free_blocks(bgs[g], 1)]
      /\ ~(Len(regs) > 3)
  BY DEF AttachInode, IInv, TypeOK, NoBlockTwice, Reserved
<1>2. groups' = groups /\ len_blocks' = len_blocks /\ block_size' = block_size /\ Group' = Group
  BY <1>1 DEF Attach, Group
<1>3. /\ regs \in Seq(Region) /\ Len(regs) \in Nat /\ 1 \in 1 .. Len(regs)
      /\ \A i \in 1 .. Len(regs) : regs[i] \in Region /\ IsUsed(regs[i])
      /\ regs[1].len > 1
      /\ \A i, j \in 1 .. Len(regs) : i < j => Apart(regs[i], regs[j])
      /\ IsFiniteSet(BlocksOf(regs)) /\ Cardinality(BlocksOf(regs)) = request + 1
      /\ request \in Nat
  BY <1>1, ListFacts
<1>4. /\ short \in Region
      /\ <<g, regs[1].start + regs[1].len - 1>> \in BlocksIn(regs[1])
      /\ BlocksIn(short) = BlocksIn(regs[1]) \ {<<g, regs[1].start + regs[1].len - 1>>}
  <2>1. regs[1] \in Region
    BY <1>3
  <2> QED
    BY <1>3, <2>1, BlocksCut
<1>5. list = [regs EXCEPT ![1] = short]
  BY <1>3 DEF reduce_allocation
<1>6. short.bg = g
  BY DEF MakeRegion
<1>7. g \in Group /\ Reserved(regs[1]) /\ bgs[g].data_blocks_used > 0
  <2>1. regs[1] \in Region /\ IsUsed(regs[1]) /\ Reserved(regs[1])
    BY <1>3 DEF IInv, NoBlockTwice
  <2>2. regs[1].len > 0
    BY <1>3, <2>1 DEF Region
  <2> QED
    BY <2>1, <2>2 DEF Reserved, IsUsed
<1>8. /\ bgs[g] \in BlockGroup /\ FreeInterval(bgs[g]) /\ bgs \in [Group -> BlockGroup]
      /\ bgs[g].first_free_block \in Int /\ bgs[g].free_blocks \in Int /\ 1 <= bgs[g].first_free_block
  <2>1. bgs[g] \in BlockGroup /\ FreeInterval(bgs[g]) /\ bgs \in [Group -> BlockGroup]
    BY <1>7 DEF IInv, TypeOK, GroupInv
  <2>2. bgs[g].first_free_block \in Int /\ bgs[g].free_blocks \in Int
    BY <2>1 DEF BlockGroup
  <2>3. HeaderBlocks(g) <= bgs[g].first_free_block
    BY <1>7 DEF IInv, GroupInv
  <2> QED
    BY <2>1, <2>2, <2>3, HeaderFits
<1> HIDE DEF short, list, g
<1>9. /\ free_blocks(bgs[g], 1).first_free_block = bgs[g].first_free_block - 1
      /\ free_blocks(bgs[g], 1).free_blocks = bgs[g].free_blocks + 1
      /\ free_blocks(bgs[g], 1).data_blocks_used = bgs[g].data_blocks_used
  BY <1>8, FreeLast
<1>10. /\ \A h \in Group : h # g => bgs'[h] = bgs[h]
       /\ bgs'[g].first_free_block = bgs[g].first_free_block - 1
       /\ bgs'[g].free_blocks = bgs[g].free_blocks + 1
       /\ bgs'[g].data_blocks_used = bgs[g].data_blocks_used
  BY <1>1, <1>7, <1>8, <1>9
<1>11. \A h \in Group : bgs'[h].data_blocks_used = bgs[h].data_blocks_used
  BY <1>10
<1>12. EndInv'
  <2>1. ASSUME NEW h \in Group
        PROVE  /\ bgs'[h].data_blocks_used \in Nat
               /\ bgs'[h].data_blocks_used > 0 \/ bgs'[h].free_blocks > 0 =>
                     FirstBlock(h) + bgs'[h].first_free_block + bgs'[h].free_blocks <= len_blocks \/ HeaderCut(h)
               /\ h + 1 < groups /\ bgs'[h].data_blocks_used = 0 =>
                     bgs'[h].free_blocks = BlocksPerGroup - HeaderBlocks(h)
    <3>1. CASE h = g
      <4>1. /\ bgs[g].data_blocks_used \in Nat /\ bgs[g].data_blocks_used # 0
            /\ FirstBlock(g) + bgs[g].first_free_block + bgs[g].free_blocks <= len_blocks \/ HeaderCut(g)
        BY <1>7 DEF FInv, EndInv
      <4>2. FirstBlock(g) \in Int
        BY <1>7, GeometryAssumption DEF FirstBlock, FirstDataBlock, Group
      <4>3. FirstBlock(g) + bgs'[g].first_free_block + bgs'[g].free_blocks
              = FirstBlock(g) + bgs[g].first_free_block + bgs[g].free_blocks
        BY <1>8, <1>10, <4>2
      <4> QED
        BY <1>10, <3>1, <4>1, <4>3
    <3>2. CASE h # g
      BY <1>10, <3>2 DEF FInv, EndInv
    <3> QED
      BY <3>1, <3>2
  <2> QED
    BY <1>2, <2>1 DEF EndInv, HeaderCut, FirstBlock, FirstDataBlock, HeaderBlocks,
       ext4_bg_has_super_block, is_power_of
<1>13. Len(list) = Len(regs) /\ Cardinality(BlocksOf(list)) = Cardinality(BlocksOf(regs)) - 1
  BY <1>3, <1>4, <1>5, BlocksShorten
<1>14. Cardinality(BlocksOf(list)) = request
  BY <1>3, <1>13
<1>15. Cardinality(BlocksOf(<<>>)) = 0 /\ RangeOf(<<>>) = {}
  BY BlocksOfOne, FS_EmptySet DEF RangeOf
<1>16. \A q \in RangeOf(list) \cup RangeOf(<<>>) : \E i \in 1 .. Len(regs) : q.bg = regs[i].bg
  <2>1. short.bg = regs[1].bg
    BY <1>6 DEF g
  <2>2. SameGroups(list, regs)
    BY <1>3, <1>5, <2>1, RangeExcept
  <2>3. RangeOf(list) \cup RangeOf(<<>>) = RangeOf(list)
    BY <1>15
  <2> QED
    BY <2>2, <2>3 DEF SameGroups
<1>17. Cardinality(BlocksOf(<<>>)) = IF Len(regs) > 3 THEN 1 ELSE 0
  BY <1>1, <1>15
<1> QED
  BY <1>1, <1>11, <1>12, <1>13, <1>14, <1>16, <1>17, AttachFile

\* More than three regions: the additional block becomes the extent block.
LEMMA AttachExtentBlockFile == ASSUME IInv, FInv, AttachExtentBlock PROVE FInv'
<1> DEFINE split == reserve_oob_blocks(regs)
           head == MakeRegion(regs[1].bg, regs[1].start, 1)
           short == MakeRegion(regs[1].bg, regs[1].start, regs[1].len - 1)
           rest == MakeRegion(regs[1].bg, regs[1].start + 1, regs[1].len - 1)
<1>1. pc = "attach" /\ Attach(split.list, split.oob) /\ bgs' = bgs /\ Len(regs) > 3
  BY DEF AttachExtentBlock
<1>2. groups' = groups /\ len_blocks' = len_blocks /\ block_size' = block_size /\ Group' = Group
  BY <1>1 DEF Attach, Group
<1>3. /\ regs \in Seq(Region) /\ Len(regs) \in Nat /\ 1 \in 1 .. Len(regs)
      /\ \A i \in 1 .. Len(regs) : regs[i] \in Region /\ IsUsed(regs[i])
      /\ regs[1].len > 1
      /\ \A i, j \in 1 .. Len(regs) : i < j => Apart(regs[i], regs[j])
      /\ IsFiniteSet(BlocksOf(regs)) /\ Cardinality(BlocksOf(regs)) = request + 1
      /\ request \in Nat
  BY <1>1, ListFacts
<1>4. /\ rest \in Region
      /\ <<regs[1].bg, regs[1].start>> \in BlocksIn(regs[1])
      /\ BlocksIn(rest) = BlocksIn(regs[1]) \ {<<regs[1].bg, regs[1].start>>}
  <2>1. regs[1] \in Region
    BY <1>3
  <2> QED
    BY <1>3, <2>1, BlocksCut
<1>5. split.list = [regs EXCEPT ![1] = rest] /\ split.oob = <<head>>
  BY <1>3 DEF reserve_oob_blocks
<1>6. rest.bg = regs[1].bg /\ head.bg = regs[1].bg /\ head \in Region /\ head.len = 1
  BY <1>3 DEF MakeRegion, Region
<1> HIDE DEF rest, head, split
<1>7. EndInv'
  BY <1>1, <1>2 DEF FInv, EndInv, HeaderCut, FirstBlock, FirstDataBlock, HeaderBlocks,
       ext4_bg_has_super_block, is_power_of
<1>8. /\ Len(split.list) = Len(regs)
      /\ Cardinality(BlocksOf(split.list)) = Cardinality(BlocksOf(regs)) - 1
  BY <1>3, <1>4, <1>5, BlocksShorten
<1>9. Cardinality(BlocksOf(split.list)) = request
  BY <1>3, <1>8
<1>10. Cardinality(BlocksOf(split.oob)) = 1
  BY <1>5, <1>6, BlocksOfOne, BlocksInCount
<1>11. SameGroups(split.list, regs)
  BY <1>3, <1>5, <1>6, RangeExcept
<1>12. \A q \in RangeOf(split.oob) : q = head
  BY <1>5 DEF RangeOf
<1>13. \A q \in RangeOf(split.list) \cup RangeOf(split.oob) : \E i \in 1 .. Len(regs) : q.bg = regs[i].bg
  BY <1>3, <1>6, <1>11, <1>12 DEF SameGroups
<1> QED
  BY <1>1, <1>7, <1>8, <1>9, <1>10, <1>13, AttachFile

\* A file that is too big: there is no request any more, or no process.
LEMMA FileTooBigFile == ASSUME IInv, FInv, FileTooBig \/ OverrunExtentBlock PROVE FInv'
<1>1. /\ UNCHANGED <<block_size, len_blocks, groups, bgs, request, want, owned, file>>
      /\ pc # "idle"
      /\ \/ pc' = "idle" /\ regs' = <<>>
         \/ pc' = "overwritten" /\ regs' = regs
  BY DEF FileTooBig, OverrunExtentBlock
<1>2. EndInv'
  BY <1>1 DEF FInv, EndInv, Group, HeaderCut, FirstBlock, FirstDataBlock, HeaderBlocks,
     ext4_bg_has_super_block, is_power_of
<1>3. UsedInv'
  <2>1. CASE regs' = regs
    BY <1>1, <2>1 DEF FInv, UsedInv, IsUsed
  <2>2. CASE regs' = <<>>
    BY <1>1, <2>2 DEF FInv, UsedInv, IsUsed
  <2> QED
    BY <1>1, <2>1, <2>2
<1>4. SizeInv'
  <2>1. CASE pc' = "idle" /\ regs' = <<>>
    <3>1. BlocksOf(regs') = {}
      BY <2>1, BlocksOfOne
    <3> QED
      BY <2>1, <3>1, FS_EmptySet DEF SizeInv, BlocksOf, RangeOf
  <2>2. CASE pc' = "overwritten" /\ regs' = regs
    BY <1>1, <2>2 DEF FInv, SizeInv, BlocksOf, RangeOf
  <2> QED
    BY <1>1, <2>1, <2>2
<1>5. ExtentsCoverFile'
  BY <1>1 DEF FInv, ExtentsCoverFile, BlocksOf, RangeOf
<1> QED
  BY <1>2, <1>3, <1>4, <1>5 DEF FInv

\* Every step keeps what the files rest on: one case per action.
LEMMA NextFInv == Roomy /\ IInv /\ FInv /\ [Next]_vars => FInv'
<1> SUFFICES ASSUME Roomy, IInv, FInv, [Next]_vars PROVE FInv'
  OBVIOUS
<1>1. CASE allocate_block
  BY <1>1, allocate_blockFile
<1>2. ASSUME NEW n \in Sizes, AllocateContiguous(n) PROVE FInv'
  BY <1>2, AllocateContiguousFile
<1>3. ASSUME NEW n \in Sizes, AllocateMultiple(n) PROVE FInv'
  BY <1>3, AllocateMultipleFile
<1>4. CASE Partial
  BY <1>4, PartialWholeFile, PartialRestFile, PartialFailsFile DEF Partial
<1>5. CASE AttachInode
  BY <1>5, AttachInodeFile
<1>6. CASE AttachExtentBlock
  BY <1>6, AttachExtentBlockFile
<1>7. CASE FileTooBig \/ OverrunExtentBlock
  BY <1>7, FileTooBigFile
<1>8. CASE UNCHANGED vars
  <2>1. EndInv'
    BY <1>8 DEF vars, FInv, EndInv, Group, HeaderCut, FirstBlock, FirstDataBlock, HeaderBlocks,
       ext4_bg_has_super_block, is_power_of
  <2>2. UsedInv'
    BY <1>8 DEF vars, FInv, UsedInv, IsUsed
  <2>3. SizeInv'
    BY <1>8 DEF vars, FInv, SizeInv, Unused, Group
  <2>4. ExtentsCoverFile'
    BY <1>8 DEF vars, FInv, ExtentsCoverFile
  <2> QED
    BY <2>1, <2>2, <2>3, <2>4 DEF FInv
<1> QED
  BY <1>1, <1>2, <1>3, <1>4, <1>5, <1>6, <1>7, <1>8 DEF Next, AttachRegions, Overwritten

-----------------------------------------------------------------------------
(* That the extents fit in their block.                                    *)

\* No two regions of a request are in the same group: while they are collected
\* the groups of the others are full.
GroupsOnce ==
    \A i, j \in 1 .. Len(regs) : i < j /\ regs[j].len > 0 => regs[i].bg # regs[j].bg

HInv == GroupsOnce /\ HeapIntact /\ block_size \in BlockSizes

\* One region more, in a group of its own.
LEMMA AddGroups ==
    ASSUME IInv, HInv, pc = "partial", NEW g \in Group, NEW n \in Nat, n <= bgs[g].free_blocks, Add(g, n)
    PROVE  HInv'
<1> DEFINE new == RegionIn(g, n)
<1>1. new.bg = g /\ new.len = n
  BY DEF RegionIn, MakeRegion
<1>2. regs' = Append(regs, new) \/ regs' = regs
  BY DEF Add
<1>3. regs \in Seq(Region) /\ Len(regs) \in Nat /\ bgs[g].free_blocks \in Int
  BY DEF IInv, TypeOK, BlockGroup
<1>4. \A i \in 1 .. Len(regs) : n > 0 => regs[i].bg # g
  BY <1>3 DEF IInv, TailInv
<1> HIDE DEF new
<1>5. GroupsOnce'
  <2>1. CASE regs' = regs
    BY <2>1 DEF HInv, GroupsOnce
  <2>2. CASE regs' = Append(regs, new)
    <3>1. /\ Len(regs') = Len(regs) + 1 /\ regs'[Len(regs) + 1] = new
          /\ \A i \in 1 .. Len(regs) : regs'[i] = regs[i]
      BY <1>3, <2>2
    <3> SUFFICES ASSUME NEW i \in 1 .. Len(regs) + 1, NEW j \in 1 .. Len(regs) + 1, i < j, regs'[j].len > 0
                 PROVE  regs'[i].bg # regs'[j].bg
      BY <3>1 DEF GroupsOnce
    <3>2. i \in 1 .. Len(regs) /\ regs'[i] = regs[i]
      BY <1>3, <3>1
    <3>3. CASE j = Len(regs) + 1
      BY <1>1, <1>4, <3>1, <3>2, <3>3
    <3>4. CASE j \in 1 .. Len(regs)
      BY <3>1, <3>2, <3>4 DEF HInv, GroupsOnce
    <3> QED
      BY <1>3, <3>3, <3>4
  <2> QED
    BY <1>2, <2>1, <2>2
<1>6. pc' # "overwritten" /\ block_size' = block_size
  BY DEF Add
<1> QED
  BY <1>5, <1>6 DEF HInv, HeapIntact

\* A list without empty regions is no longer than there are groups.
LEMMA RegionsFit ==
    ASSUME IInv, GroupsOnce, pc = "attach"
    PROVE  Len(regs) <= groups
<1>1. regs \in Seq(Region) /\ Len(regs) \in Nat /\ groups \in Int
  BY DEF IInv, TypeOK
<1>2. \A i \in 1 .. Len(regs) : regs[i].bg \in 0 .. groups - 1 /\ regs[i].len > 0
  BY DEF IInv, NoBlockTwice, Reserved, EmptyInv, Group
<1>3. Len(regs) > 0
  BY <1>1 DEF IInv, TailInv
<1>4. groups \in Nat
  BY <1>1, <1>2, <1>3
<1> DEFINE f == [i \in 1 .. Len(regs) |-> regs[i].bg]
<1>5. f \in [1 .. Len(regs) -> 0 .. groups - 1]
  BY <1>2
<1>6. ASSUME NEW i \in 1 .. Len(regs), NEW j \in 1 .. Len(regs), f[i] = f[j] PROVE i = j
  <2>1. regs[i].bg = regs[j].bg
    BY <1>6
  <2>2. ~(i < j) /\ ~(j < i)
    BY <1>2, <2>1 DEF GroupsOnce
  <2> QED
    BY <2>2
<1> HIDE DEF f
<1>7. f \in Injection(1 .. Len(regs), 0 .. groups - 1)
  BY <1>5, <1>6, Fun_IsInj
<1>8. IsFiniteSet(0 .. groups - 1) /\ Cardinality(0 .. groups - 1) = groups
  BY <1>4, FS_Interval
<1>9. IsFiniteSet(1 .. Len(regs)) /\ Cardinality(1 .. Len(regs)) = Len(regs)
  BY <1>1, FS_Interval
<1>10. Cardinality(1 .. Len(regs)) <= Cardinality(0 .. groups - 1)
  BY <1>7, <1>8, <1>9, FS_Injection
<1> QED
  BY <1>8, <1>9, <1>10

\* The extents written are those of the list, or its first one.
LEMMA OverrunGroups ==
    ASSUME IInv, HInv, OverrunExtentBlock
    PROVE  HInv'
<1>1. /\ pc = "attach" /\ Len(reserve_oob_blocks(regs).list) > ExtentsPerBlock
      /\ Len(regs) > 3 /\ UNCHANGED <<block_size, groups, regs>>
  BY DEF OverrunExtentBlock
<1>2. regs \in Seq(Region) /\ Len(regs) \in Nat /\ groups \in Int
  BY DEF IInv, TypeOK
<1>3. Len(reserve_oob_blocks(regs).list) \in Nat /\ Len(reserve_oob_blocks(regs).list) <= Len(regs)
  <2>1. CASE regs[1].len > 1
    <3>1. reserve_oob_blocks(regs).list = [regs EXCEPT ![1] = MakeRegion(@.bg, @.start + 1, @.len - 1)]
      BY <2>1 DEF reserve_oob_blocks
    <3>2. Len([regs EXCEPT ![1] = MakeRegion(@.bg, @.start + 1, @.len - 1)]) = Len(regs)
      BY <1>2
    <3> QED
      BY <1>2, <3>1, <3>2
  <2>2. CASE ~(regs[1].len > 1)
    BY <1>1, <1>2, <2>2 DEF reserve_oob_blocks
  <2> QED
    BY <2>1, <2>2
<1>4. Len(regs) <= groups
  BY <1>1, RegionsFit DEF HInv
<1>5. ExtentsPerBlock \in Int
  BY GeometryAssumption DEF ExtentsPerBlock, HInv
<1>6. groups > ExtentsPerBlock
  BY <1>1, <1>2, <1>3, <1>4, <1>5
<1>7. HeapIntact'
  BY <1>1, <1>6 DEF HeapIntact, ExtentsPerBlock
<1> QED
  BY <1>1, <1>7 DEF HInv, GroupsOnce

\* Every step keeps it: one case per action.
LEMMA NextHInv == IInv /\ HInv /\ [Next]_vars => HInv'
<1> SUFFICES ASSUME IInv, HInv, [Next]_vars PROVE HInv'
  OBVIOUS
<1>1. ASSUME regs' = <<>>, pc' # "overwritten", block_size' = block_size PROVE HInv'
  BY <1>1 DEF HInv, GroupsOnce, HeapIntact
<1>2. CASE allocate_block
  BY <1>1, <1>2 DEF allocate_block, IInv, TailInv
<1>3. ASSUME NEW n \in Sizes, AllocateContiguous(n) PROVE HInv'
  <2>1. PICK r : regs' = <<r>> /\ pc' = "attach" /\ block_size' = block_size
    BY <1>3 DEF AllocateContiguous
  <2>2. Len(regs') = 1
    BY <2>1
  <2> QED
    BY <2>1, <2>2 DEF HInv, GroupsOnce, HeapIntact
<1>4. ASSUME NEW n \in Sizes, AllocateMultiple(n) PROVE HInv'
  BY <1>1, <1>4 DEF AllocateMultiple
<1>5. CASE PartialWhole
  <2>1. PICK g \in Group : Add(g, bgs[g].free_blocks)
    BY <1>5 DEF PartialWhole
  <2>2. bgs[g].free_blocks \in Nat
    BY DEF IInv, TypeOK, BlockGroup, GroupInv, FreeInterval
  <2> QED
    BY <1>5, <2>1, <2>2, AddGroups DEF PartialWhole
<1>6. CASE PartialRest
  <2>1. PICK g \in Group : FirstFit(g, want) /\ Add(g, want)
    BY <1>6 DEF PartialRest
  <2>2. want \in Nat /\ want <= bgs[g].free_blocks
    BY <2>1 DEF IInv, TypeOK, BlockGroup, FirstFit, Fits
  <2> QED
    BY <1>6, <2>1, <2>2, AddGroups DEF PartialRest
<1>7. CASE PartialFails
  BY <1>1, <1>7 DEF PartialFails
<1>8. CASE AttachInode \/ AttachExtentBlock \/ FileTooBig
  BY <1>1, <1>8 DEF AttachInode, AttachExtentBlock, FileTooBig, Attach
<1>9. CASE OverrunExtentBlock
  BY <1>9, OverrunGroups
<1>10. CASE UNCHANGED vars
  BY <1>10 DEF vars, HInv, GroupsOnce, HeapIntact, ExtentsPerBlock
<1> QED
  BY <1>2, <1>3, <1>4, <1>5, <1>6, <1>7, <1>8, <1>9, <1>10 DEF Next, Partial, AttachRegions, Overwritten

\* Where no complete group has a single data block, every file that
\* do_inode_allocate_extents makes has as many blocks and extents as it should,
\* all of them inside the filesystem if the header of the last group is, and
\* no block of extents is overrun unless there are more groups than it holds
\* extents; whatever was allocated before and however the file is spread.
THEOREM FilesAreSound ==
    ASSUME Roomy
    PROVE  Spec => []FileIsSound
<1>1. Init => IInv /\ FInv /\ HInv
  <2>1. Init => HInv
    BY DEF Init, HInv, GroupsOnce, HeapIntact
  <2> QED
    BY <2>1, InitIInv, InitFInv
<1>2. IInv /\ FInv /\ HInv /\ [Next]_vars => (IInv /\ FInv /\ HInv)'
  BY NextIInv, NextFInv, NextHInv
<1>3. IInv /\ FInv /\ HInv => FileIsSound
  <2> SUFFICES ASSUME IInv, FInv, HInv PROVE FileIsSound
    OBVIOUS
  <2>1. ExtentsCoverFile
    BY DEF FInv
  <2>2. ASSUME NEW r \in owned PROVE FirstBlock(r.bg) + r.start + r.len <= len_blocks \/ HeaderCut(r.bg)
    <3>1. /\ r \in Region /\ r.len > 0 /\ r.bg \in Group
          /\ r.start + r.len <= bgs[r.bg].first_free_block
          /\ bgs[r.bg].data_blocks_used > 0
      BY DEF IInv, TypeOK, EmptyInv, NoBlockTwice, Reserved, FInv, UsedInv, IsUsed
    <3>2. FirstBlock(r.bg) + bgs[r.bg].first_free_block + bgs[r.bg].free_blocks <= len_blocks \/ HeaderCut(r.bg)
      BY <3>1 DEF FInv, EndInv
    <3>3. /\ bgs[r.bg].free_blocks \in Int /\ bgs[r.bg].free_blocks >= 0
          /\ bgs[r.bg].first_free_block \in Int /\ len_blocks \in Int
      BY <3>1 DEF IInv, TypeOK, BlockGroup, GroupInv, FreeInterval
    <3>4. FirstBlock(r.bg) \in Int /\ r.start \in Int /\ r.len \in Nat
      BY <3>1, GeometryAssumption DEF FirstBlock, FirstDataBlock, Group, Region
    <3> QED
      BY <3>1, <3>2, <3>3, <3>4
  <2> QED
    BY <2>1, <2>2 DEF FileIsSound, InsideFilesystem, HInv
<1> QED
  BY <1>1, <1>2, <1>3, PTL DEF Spec
=============================================================================
