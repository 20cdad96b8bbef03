------------------------------ MODULE Ext4Fixup ------------------------------
(***************************************************************************)
(* ext4_utils/ext4fixup.c: the tool that enlarges the inode groups of a     *)
(* filesystem image so that they fill whole blocks.  Every inode number in  *)
(* every directory entry changes with the group size, and the tool may be   *)
(* stopped at any time and run again.  A step of the model has at most one *)
(* write to the image, so that a stop may fall between any two writes.      *)
(***************************************************************************)
EXTENDS Integers, Sequences, SequencesExt, FiniteSets

CONSTANTS Dir, Root,       \* directories
          Layout,          \* per directory: its blocks, each a sequence of entries
          Slot,            \* per entry: the inode, as <<group, index in the group>>
          FileType,        \* per entry: "dir", "reg" or "unknown"
          Dots,            \* the entries named . and ..
          DirSlot,         \* per directory: its inode
          Groups,          \* number of block groups
          Super,           \* the groups with a superblock
          OldIpg,          \* s_inodes_per_group of the image
          InodesPerBlock,  \* block_size / inode_size
          FreeInodes,      \* free inodes per group in the image
          Damage,          \* the kinds of damaged image to start from
          Kill,            \* TRUE: may stop anywhere; FALSE: at the -d points only
          MaxRuns          \* bound on the runs; the last one is a complete one

Group == 0 .. Groups - 1
Entry == DOMAIN Slot
EntriesOf(d) == FlattenSeq(Layout[d])

\* Entry e names directory d, from the directory above it.
Names(e, d) == e \notin Dots /\ Slot[e] = DirSlot[d]

ASSUME LayoutAssumption ==
    /\ \A d \in Dir : Range(EntriesOf(d)) \subseteq Entry
    /\ 0 \in Super /\ Super \subseteq Group
    /\ Damage \subseteq {"none", "recover", "count", "notdir"}
    /\ Kill \in BOOLEAN

ASSUME SizeAssumption ==
    {Groups, OldIpg, InodesPerBlock} \subseteq Nat \ {0} /\ {FreeInodes, MaxRuns} \subseteq Nat

\* The image is one of a tree of directories: each has a block and an inode of
\* its own, can be reached from the root, and no entry says that it is a file.
ASSUME TreeAssumption ==
    /\ Root \in Dir
    /\ Layout \in [Dir -> Seq(Seq(Entry))] /\ \A d \in Dir : Layout[d] # <<>>
    /\ \A e \in Entry : \E d \in Dir : e \in Range(EntriesOf(d))
    /\ Slot \in [Entry -> Group \X (0 .. OldIpg - 1)]
    /\ \A c, d \in Dir : DirSlot[c] = DirSlot[d] => c = d
    /\ \A S \in SUBSET Dir :
          Root \in S /\ (\A d \in S, c \in Dir : (\E e \in Range(EntriesOf(d)) : Names(e, c)) => c \in S)
             => S = Dir
    /\ \A e \in Entry, d \in Dir : Names(e, d) => FileType[e] \in {"dir", "unknown"}

\* "notdir" is a damage if the root has an entry that says it is a directory.
ASSUME DamageAssumption ==
    "notdir" \in Damage =>
        \E e \in Range(EntriesOf(Root)) \ Dots : FileType[e] = "dir" /\ Slot[e] # DirSlot[Root]

UNSET == 0
MARKING_INUMS == 1
UPDATING_INUMS == 2
UPDATING_SB == 3

VARIABLES disk,        \* the image
          damage,      \* what is wrong with the image from the start
          pc,          \* where the tool is
          phase,       \* which of the four ifs of ext4fixup_internal
          n_flag,      \* the run was started with -n
          no_write_fixup_state,
          ipg, newIpg, \* info.inodes_per_group, new_inodes_per_group
          bg_desc,     \* aux_info.bg_desc: the free inodes of each group
          sb,          \* the superblock update_superblocks_and_bg_desc has read
          group,       \* its loop variable
          stack,       \* the activations of recurse_dir
          runs

toolVars == <<phase, n_flag, no_write_fixup_state, ipg, newIpg, bg_desc, sb, group, stack>>
vars == <<disk, damage, pc, toolVars, runs>>

-----------------------------------------------------------------------------
(* Inode numbers.                                                          *)

InodeNumber(s, n) == s[1] * n + s[2] + 1
SlotOf(inum, n) == <<(inum - 1) \div n, (inum - 1) % n>>
AlignUp(n, k) == k * ((n + k - 1) \div k)

compute_new_inum(inum) == InodeNumber(SlotOf(inum, ipg), newIpg)

\* read_inode finds the inode through the group size the run has read.  The
\* directory it is, {} for any other inode.
DirAt(inum) == {d \in Dir : DirSlot[d] = SlotOf(inum, ipg) /\ ~(damage = "notdir" /\ d # Root)}

\* The image as it was made: all numbers count by OldIpg, the last entry of a
\* directory is short, and bits behind the end of the inode bitmaps are set.
Image ==
    [magic |-> UNSET,
     entry |-> [e \in Entry |-> [inode |-> InodeNumber(Slot[e], OldIpg), high |-> FALSE]],
     short |-> [d \in Dir |-> TRUE],
     sb |-> [s \in Super |-> [ipg |-> OldIpg,
                              count |-> OldIpg * Groups + IF damage = "count" THEN 1 ELSE 0,
                              free |-> FreeInodes * Groups,
                              low |-> FALSE]],
     bg |-> [s \in Super |-> [g \in Group |-> FreeInodes]],
     stray |-> [g \in Group |-> TRUE]]

Init ==
    /\ damage \in Damage
    /\ disk = Image
    /\ pc = "off" /\ phase = 0 /\ n_flag = FALSE /\ no_write_fixup_state = UNSET
    /\ ipg = 0 /\ newIpg = 0 /\ bg_desc = [g \in Group |-> 0]
    /\ sb = disk.sb[0] /\ group = 0 /\ stack = <<>> /\ runs = 0

\* Mutant: the sanity pass writes.
no_writeFlagOnly == n_flag

no_write == n_flag \/ phase = UNSET
get_fs_fixup_state == IF n_flag THEN no_write_fixup_state ELSE disk.magic

\* A write of the image, left out in no_write mode.
Write(new) == disk' = IF no_write THEN disk ELSE new

-----------------------------------------------------------------------------
(* ext4fixup_internal.                                                     *)

\* The start of a run, up to the four ifs: read_ext fails on an image that
\* needs recovery.
Start(n) ==
    /\ pc \in {"off", "done"} /\ runs < MaxRuns
    /\ n => runs + 1 < MaxRuns
    /\ runs' = runs + 1
    /\ n_flag' = n
    /\ IF damage = "recover"
       THEN /\ pc' = "off"
            /\ UNCHANGED <<phase, no_write_fixup_state, ipg, newIpg, bg_desc, sb, group, stack>>
       ELSE /\ pc' = "phase" /\ phase' = UNSET
            /\ no_write_fixup_state' = UNSET
            /\ ipg' = disk.sb[0].ipg
            /\ newIpg' = AlignUp(disk.sb[0].ipg, InodesPerBlock)
            /\ bg_desc' = disk.bg[0]
            /\ UNCHANGED <<sb, group, stack>>
    /\ UNCHANGED <<disk, damage>>

\* recurse_dir reads all the blocks of a directory before it does anything.
Frame(d) ==
    [dir |-> d, buf |-> [e \in Range(EntriesOf(d)) |-> disk.entry[e]],
     short |-> disk.short[d], pos |-> 1, back |-> FALSE, blk |-> 1]

\* The next if: its phase is skipped, entered, or there is none left.
NextPhase ==
    /\ pc = "phase"
    /\ \/ /\ phase > UPDATING_SB
          /\ pc' = "done"
          /\ UNCHANGED <<phase, stack, sb, group>>
       \/ /\ phase <= UPDATING_SB /\ get_fs_fixup_state # phase
          /\ phase' = phase + 1
          /\ UNCHANGED <<pc, stack, sb, group>>
       \/ /\ phase < UPDATING_SB /\ get_fs_fixup_state = phase
          /\ pc' = "entry" /\ stack' = <<Frame(Root)>>
          /\ UNCHANGED <<phase, sb, group>>
       \/ /\ phase = UPDATING_SB /\ get_fs_fixup_state = phase
          /\ pc' = "bitmap" /\ sb' = disk.sb[0] /\ group' = 0
          /\ UNCHANGED <<phase, stack>>
    /\ UNCHANGED <<disk, damage, n_flag, no_write_fixup_state, ipg, newIpg, bg_desc, runs>>

\* critical_error: longjmp out of everything, or the end of the process.
Abort ==
    /\ pc' = "off" /\ stack' = <<>>
    /\ UNCHANGED <<disk, damage, phase, n_flag, no_write_fixup_state, ipg, newIpg, bg_desc, sb,
                   group, runs>>

-----------------------------------------------------------------------------
(* recurse_dir.                                                            *)

Top == Head(stack)
Current == EntriesOf(Top.dir)[Top.pos]
CurrentEntry == Top.buf[Current]
AtEntry == pc = "entry" /\ Top.pos <= Len(EntriesOf(Top.dir))

\* Mutant: entries without a file type are taken for files.
is_entry_dirByType == FileType[Current] = "dir"

is_entry_dir ==
    \/ FileType[Current] = "dir"
    \/ /\ FileType[Current] = "unknown"
       /\ phase = UPDATING_INUMS => CurrentEntry.high
       /\ DirAt(CurrentEntry.inode) # {}

MustRecurse ==
    /\ is_entry_dir /\ Current \notin Dots
    /\ phase = UPDATING_INUMS => CurrentEntry.high

Recurse ==
    /\ AtEntry /\ ~Top.back /\ MustRecurse
    /\ \E d \in DirAt(CurrentEntry.inode) :
           stack' = <<Frame(d)>> \o <<[Top EXCEPT !.back = TRUE]>> \o Tail(stack)
    /\ UNCHANGED <<disk, damage, pc, phase, n_flag, no_write_fixup_state, ipg, newIpg, bg_desc, sb,
                   group, runs>>

NotADirectory ==
    /\ AtEntry /\ ~Top.back /\ MustRecurse
    /\ DirAt(CurrentEntry.inode) = {}
    /\ Abort

\* Mutant: numbers are updated whether marked or not.
RenumberedAlways(r) ==
    CASE phase = MARKING_INUMS -> [r EXCEPT !.high = TRUE]
      [] phase = UPDATING_INUMS -> [inode |-> compute_new_inum(r.inode), high |-> FALSE]
      [] OTHER -> r

\* Set the high bit, or replace the number of an entry that has it.
Renumbered(r) ==
    CASE phase = MARKING_INUMS -> [r EXCEPT !.high = TRUE]
      [] phase = UPDATING_INUMS /\ r.high -> [inode |-> compute_new_inum(r.inode), high |-> FALSE]
      [] OTHER -> r

ProcessEntry ==
    /\ AtEntry /\ (Top.back \/ ~MustRecurse)
    /\ stack' = <<[Top EXCEPT !.buf[Current] = Renumbered(CurrentEntry),
                              !.pos = @ + 1, !.back = FALSE]>> \o Tail(stack)
    /\ UNCHANGED <<disk, damage, pc, phase, n_flag, no_write_fixup_state, ipg, newIpg, bg_desc, sb,
                   group, runs>>

\* The end of the loop: the rest of the last block is added to the last
\* entry, but not in the marking pass.
LastEntry ==
    /\ pc = "entry" /\ Top.pos > Len(EntriesOf(Top.dir))
    /\ pc' = "write"
    /\ stack' = <<[Top EXCEPT !.short = @ /\ phase = MARKING_INUMS]>> \o Tail(stack)
    /\ UNCHANGED <<disk, damage, phase, n_flag, no_write_fixup_state, ipg, newIpg, bg_desc, sb,
                   group, runs>>

\* One block is written; after the last one recurse_dir returns, to the loop
\* of the directory above or to ext4fixup_internal.
WriteBlock ==
    LET blocks == Layout[Top.dir]
        written == Range(blocks[Top.blk])
        last == Top.blk = Len(blocks)
    IN
    /\ pc = "write"
    /\ Write([disk EXCEPT
                 !.entry = [e \in Entry |-> IF e \in written THEN Top.buf[e] ELSE @[e]],
                 !.short[Top.dir] = IF last THEN Top.short ELSE @])
    /\ \/ /\ ~last
          /\ stack' = <<[Top EXCEPT !.blk = @ + 1]>> \o Tail(stack)
          /\ UNCHANGED <<pc, sb, group>>
       \/ /\ last /\ Len(stack) > 1
          /\ stack' = Tail(stack) /\ pc' = "entry"
          /\ UNCHANGED <<sb, group>>
       \/ /\ last /\ Len(stack) = 1 /\ phase # UNSET
          /\ stack' = <<>> /\ pc' = "magic"
          /\ UNCHANGED <<sb, group>>
       \/ /\ last /\ Len(stack) = 1 /\ phase = UNSET
          /\ stack' = <<>> /\ pc' = "bitmap" /\ sb' = disk.sb[0] /\ group' = 0
    /\ UNCHANGED <<damage, phase, n_flag, no_write_fixup_state, ipg, newIpg, bg_desc, runs>>

-----------------------------------------------------------------------------
(* update_superblocks_and_bg_desc.                                         *)

NewInodes == newIpg - sb.ipg

\* Mutant: the sanity pass counts the new inodes too.
CheckBitmapAnyState ==
    /\ pc = "bitmap" /\ group < Groups
    /\ bg_desc' = [bg_desc EXCEPT ![group] = @ + NewInodes]
    /\ Write([disk EXCEPT !.stray[group] = @ /\ ipg = newIpg])
    /\ group' = group + 1
    /\ UNCHANGED <<damage, pc, phase, n_flag, no_write_fixup_state, ipg, newIpg, sb, stack, runs>>

\* The free count of a group, and its bitmap: bits of inodes that did not
\* exist before are cleared.
CheckBitmap ==
    /\ pc = "bitmap" /\ group < Groups
    /\ bg_desc' = IF phase = UPDATING_SB THEN [bg_desc EXCEPT ![group] = @ + NewInodes] ELSE bg_desc
    /\ Write([disk EXCEPT !.stray[group] = @ /\ ipg = newIpg])
    /\ group' = group + 1
    /\ UNCHANGED <<damage, pc, phase, n_flag, no_write_fixup_state, ipg, newIpg, sb, stack, runs>>

CountIsSane ==
    /\ sb.count + Groups * NewInodes = newIpg * Groups
    /\ newIpg % InodesPerBlock = 0

SanityFails ==
    /\ pc = "bitmap" /\ group = Groups /\ ~CountIsSane
    /\ Abort

UpdateSuperblock ==
    /\ pc = "bitmap" /\ group = Groups /\ CountIsSane
    /\ sb' = [sb EXCEPT !.count = @ + Groups * NewInodes, !.free = @ + Groups * NewInodes,
                        !.ipg = newIpg]
    /\ pc' = "sb" /\ group' = 0
    /\ UNCHANGED <<disk, damage, phase, n_flag, no_write_fixup_state, ipg, newIpg, bg_desc, stack,
                   runs>>

\* The superblock of a group, if it has one; the low bit only in the primary.
WriteSuperblock ==
    /\ pc = "sb" /\ group < Groups
    /\ \/ /\ group \in Super
          /\ sb' = [sb EXCEPT !.low = @ /\ group = 0]
          /\ Write([disk EXCEPT !.sb[group] = sb'])
          /\ pc' = "bg"
          /\ UNCHANGED group
       \/ /\ group \notin Super
          /\ group' = group + 1
          /\ UNCHANGED <<disk, pc, sb>>
    /\ UNCHANGED <<damage, phase, n_flag, no_write_fixup_state, ipg, newIpg, bg_desc, stack, runs>>

\* ... and its copy of the group descriptors.
WriteDescriptors ==
    /\ pc = "bg"
    /\ Write([disk EXCEPT !.bg[group] = bg_desc])
    /\ pc' = "sb" /\ group' = group + 1
    /\ UNCHANGED <<damage, phase, n_flag, no_write_fixup_state, ipg, newIpg, bg_desc, sb, stack,
                   runs>>

SuperblocksWritten ==
    /\ pc = "sb" /\ group = Groups
    /\ pc' = "magic"
    /\ UNCHANGED <<disk, damage, toolVars, runs>>

-----------------------------------------------------------------------------
(* set_fs_fixup_state: first the magic number, then the low bit of          *)
(* s_desc_size in the primary superblock.  no_write has its old value back  *)
(* after the sanity pass.                                                   *)

\* Mutant: the update pass does not hand over to the superblocks.
StateAfterStuck == IF phase >= UPDATING_INUMS THEN UNSET ELSE phase + 1

StateAfter == IF phase = UPDATING_SB THEN UNSET ELSE phase + 1

SetMagic ==
    /\ pc = "magic"
    /\ IF n_flag
       THEN /\ no_write_fixup_state' = StateAfter
            /\ pc' = "phase" /\ phase' = phase + 1
            /\ UNCHANGED disk
       ELSE /\ disk' = [disk EXCEPT !.magic = StateAfter]
            /\ pc' = "low"
            /\ UNCHANGED <<phase, no_write_fixup_state>>
    /\ UNCHANGED <<damage, n_flag, ipg, newIpg, bg_desc, sb, group, stack, runs>>

\* Mutant: the filesystem stays mountable while entries are marked.
SetLowBitLate ==
    /\ pc = "low"
    /\ disk' = [disk EXCEPT !.sb[0].low = StateAfter \in {UPDATING_INUMS, UPDATING_SB}]
    /\ pc' = "phase" /\ phase' = phase + 1
    /\ UNCHANGED <<damage, n_flag, no_write_fixup_state, ipg, newIpg, bg_desc, sb, group, stack,
                   runs>>

SetLowBit ==
    /\ pc = "low"
    /\ disk' = [disk EXCEPT !.sb[0].low = StateAfter # UNSET]
    /\ pc' = "phase" /\ phase' = phase + 1
    /\ UNCHANGED <<damage, n_flag, no_write_fixup_state, ipg, newIpg, bg_desc, sb, group, stack,
                   runs>>

-----------------------------------------------------------------------------
\* The places where -d phase,loc,count stops the tool: behind an entry, behind
\* the first block of a directory, which may be all the root has, and behind
\* the copies of the superblock.
BailPoint ==
    \/ pc \in {"entry", "write", "sb"}
    \/ /\ Len(Layout[Root]) = 1
       /\ \/ pc = "magic" /\ phase \in {MARKING_INUMS, UPDATING_INUMS}
          \/ pc = "bitmap" /\ phase = UNSET /\ group = 0

\* The tool is killed, a write fails (critical_error_errno), or it bails out.
Stop ==
    /\ pc \notin {"off", "done"} /\ runs < MaxRuns
    /\ Kill \/ BailPoint
    /\ Abort

Step ==
    \/ NextPhase \/ Recurse \/ NotADirectory \/ ProcessEntry \/ LastEntry \/ WriteBlock
    \/ CheckBitmap \/ SanityFails \/ UpdateSuperblock
    \/ WriteSuperblock \/ WriteDescriptors \/ SuperblocksWritten
    \/ SetMagic \/ SetLowBit

Terminating == pc \in {"off", "done"} /\ runs = MaxRuns /\ UNCHANGED vars

Next ==
    \/ \E n \in BOOLEAN : Start(n)
    \/ Step
    \/ Stop
    \/ Terminating

\* The tool runs, and whoever saw it stop runs it again without -n.
Fairness == WF_vars(Step) /\ WF_vars(Start(FALSE))

Spec == Init /\ [][Next]_vars
FairSpec == Spec /\ Fairness

-----------------------------------------------------------------------------
(* Properties.                                                             *)

TheNewIpg == AlignUp(OldIpg, InodesPerBlock)
Completed == pc = "done" /\ ~n_flag

\* Every variable has a value of its type, and the activations of recurse_dir
\* are a path of the directory tree.
TypeOK ==
    /\ disk.magic \in UNSET .. UPDATING_SB
    /\ disk.entry \in [Entry -> [inode : Nat, high : BOOLEAN]]
    /\ pc \in {"off", "phase", "entry", "write", "bitmap", "sb", "bg", "magic", "low", "done"}
    /\ phase \in UNSET .. UPDATING_SB + 1 /\ group \in 0 .. Groups
    /\ no_write_fixup_state \in UNSET .. UPDATING_SB /\ n_flag \in BOOLEAN
    /\ (pc \in {"entry", "write"}) = (stack # <<>>)
    /\ \A i \in 1 .. Len(stack) : stack[i].dir \in Dir /\ (i > 1 => stack[i].back)

\* Whatever is interrupted, the number of an entry on disk can be told: its
\* magic and its high bit say by which group size it counts.
\* (ext4fixup.c:701 "Otherwise, this inode entry has already been updated and
\* we'll do the wrong thing")
NumbersAreReadable ==
    \A e \in Entry :
        LET r == disk.entry[e]
            counts == IF disk.magic \in {UNSET, MARKING_INUMS} \/ r.high
                      THEN disk.sb[0].ipg ELSE TheNewIpg
        IN SlotOf(r.inode, counts) = Slot[e]

\* An entry whose number is updated has nothing left to update below it: a
\* rerun of the update pass does not look there.
UpdatedBottomUp ==
    disk.magic = UPDATING_INUMS =>
        \A d, child \in Dir : \A e \in Range(EntriesOf(d)) \ Dots :
            Slot[e] = DirSlot[child] /\ ~disk.entry[e].high =>
                \A x \in Range(EntriesOf(child)) : ~disk.entry[x].high

\* What is on the disk tells a rerun all it needs, wherever the last run stopped.
Resumable == NumbersAreReadable /\ UpdatedBottomUp

\* A run that completes leaves every entry with its new number, on every
\* rerun too.
EntriesFixed ==
    Completed => \A e \in Entry :
        disk.entry[e] = [inode |-> InodeNumber(Slot[e], TheNewIpg), high |-> FALSE]

\* A run that completes leaves all superblocks with the new group size and
\* counts, no bitmap with stray bits and no short last entry.
SuperblocksFixed ==
    Completed =>
        /\ \A s \in Super : disk.sb[s] =
              [ipg |-> TheNewIpg, count |-> TheNewIpg * Groups,
               free |-> (FreeInodes + TheNewIpg - OldIpg) * Groups, low |-> FALSE]
        /\ disk.magic = UNSET
        /\ \A d \in Dir : ~disk.short[d]
        /\ TheNewIpg # OldIpg => \A g \in Group : ~disk.stray[g]

\* A run that completes leaves an image without a trace of the old group size,
\* but for the group descriptors, however many runs were stopped before.
ImageFixed == EntriesFixed /\ SuperblocksFixed

\* ... and every copy of the group descriptors with the new free counts.
\* (ext4fixup.c:62 "ability to stop and be restarted wthout error")
DescriptorsFixed ==
    Completed => \A s \in Super, g \in Group :
        disk.bg[s][g] = FreeInodes + TheNewIpg - OldIpg

\* A filesystem that can be mounted has entries that count by its group size.
\* (ext4fixup.c:188 "If we are in the process of updating the filesystem, make
\* it unmountable")
MountableIsConsistent ==
    ~disk.sb[0].low => \A e \in Entry :
        ~disk.entry[e].high /\ SlotOf(disk.entry[e].inode, disk.sb[0].ipg) = Slot[e]

\* An image the sanity pass refuses is never written to.
\* (ext4fixup.c:850 "try to catch any errors that will occur before we
\* actually change anything")
DamagedIsUntouched == damage # "none" => disk = Image

\* However often it is stopped, the tool gets the filesystem fixed in the end;
\* runs with -n in between change nothing.
Recovers ==
    /\ damage = "none" => <>[](disk.magic = UNSET /\ disk.sb[0].ipg = TheNewIpg /\ Completed)
    /\ [][n_flag => UNCHANGED disk]_vars
=============================================================================
