------------------------------ MODULE FatRead ------------------------------
(***************************************************************************)
(* Reading from the device: fs_read puts a request together from the       *)
(* extents it meets; a file is checked by its path and read through the    *)
(* pool of descriptors.  The files may change meanwhile.                   *)
(***************************************************************************)
EXTENDS FatFs, FdPool

CONSTANTS Order,        \* the files in the order of their import
          FileSize,     \* their sizes, in units
          UINT32_MAX,   \* in units
          MaxChanges    \* changes of files after the import

ASSUME ReadAssumption ==
    /\ UINT32_MAX \in Nat \ {0} /\ MaxChanges \in Nat
    /\ Order \in Seq(Files) /\ {Order[i] : i \in DOMAIN Order} = Files /\ FileSize \in [Files -> 0 .. UINT32_MAX]

VARIABLES
    disk,      \* where the path of a file leads: an inode (0: nowhere) and its time
    inodes,    \* for each inode the version of the content
    rd,        \* the fs_read that runs
    excused    \* a file changed in a way its time does not tell (not in the code)

readVars == <<disk, inodes, rd, excused>>

Zero == <<"zero", 0, 0>>
RootSize == Len(Order) + 2

(* The filesystem after the import of a directory with the files; reading does not change it. *)
fs ==
    LET with[i \in 0 .. Len(Order)] ==
            IF i = 0 THEN fs_init ELSE fs_alloc_extent(with[i - 1], Order[i], FileSize[Order[i]], "FILE").fs
    IN fs_update_free_clusters(fs_alloc_extent(with[Len(Order)], "root", RootSize, "DIR").fs)

ReadInit ==
    /\ PoolInit
    /\ inodes = [i \in 1 .. Len(Order) |-> 1]
    /\ disk = [f \in Files |-> [ino |-> CHOOSE i \in DOMAIN Order : Order[i] = f, mtime |-> 0]]
    /\ rd = [pc |-> "idle"]
    /\ excused = FALSE

-----------------------------------------------------------------------------
(* memset(buf, 0, len) *)
FsRead(start, len) ==
    rd' = [pc |-> "find", start |-> start, len |-> len, last |-> 0, part |-> [at |-> 0],
           buf |-> [i \in 0 .. len - 1 |-> Zero]]

Part == fs_find_extent(fs, rd.start, rd.len, rd.last)
Fill(part, n, Unit(_)) ==
    [i \in DOMAIN rd.buf |-> IF i \in part.r_start .. part.r_start + n - 1 THEN Unit(i - part.r_start) ELSE rd.buf[i]]

BufferSize(e) == CASE e.type = "DIR" -> RootSize [] OTHER -> e.len

\* Mutant: what is behind the end of the buffer is read as well.
buffer_readUncut(part, e) == Fill(part, part.len, LAMBDA i : <<e.type, 0, part.e_start + i>>)

(* A part behind the end of the buffer is 0. *)
buffer_read(part, e) ==
    Fill(part, part.len,
         LAMBDA i : IF part.e_start + i < BufferSize(e) THEN <<e.type, 0, part.e_start + i>> ELSE Zero)

(* All extents have been looked at. *)
NoMoreExtents ==
    /\ rd.pc = "find"
    /\ Part.at = 0
    /\ rd' = [rd EXCEPT !.pc = "ok"]
    /\ UNCHANGED <<pool, fdtable, used, disk, inodes, excused>>

(* The next extent is kept in memory. *)
ReadBuffer ==
    /\ rd.pc = "find"
    /\ Part.at # 0
    /\ fs.extents[Part.at].type # "FILE"
    /\ rd' = [rd EXCEPT !.last = Part.at, !.buf = buffer_read(Part, fs.extents[Part.at])]
    /\ UNCHANGED <<pool, fdtable, used, disk, inodes, excused>>

(* The next extent is a file: what is behind 2^32 is not read. *)
StartFile ==
    /\ rd.pc = "find"
    /\ Part.at # 0
    /\ fs.extents[Part.at].type = "FILE"
    /\ rd' = IF Part.e_start >= UINT32_MAX
             THEN [rd EXCEPT !.last = Part.at]
             ELSE [rd EXCEPT !.pc = "check",
                             !.part = [Part EXCEPT !.len = IF Part.e_start + @ > UINT32_MAX
                                                           THEN UINT32_MAX - Part.e_start ELSE @]]
    /\ UNCHANGED <<pool, fdtable, used, disk, inodes, excused>>

\* Mutant: only the existence of the file is checked.
CheckMetadataExists ==
    LET f == fs.extents[rd.part.at].owner
    IN /\ rd.pc = "check"
       /\ rd' = [rd EXCEPT !.pc = IF disk[f].ino = 0 THEN "falling" ELSE "read"]
       /\ UNCHANGED <<pool, fdtable, used, disk, inodes, excused>>

(* file_check_metadata: the time the path has now. *)
CheckMetadata ==
    LET f == fs.extents[rd.part.at].owner
    IN /\ rd.pc = "check"
       /\ rd' = [rd EXCEPT !.pc = IF disk[f].ino = 0 \/ disk[f].mtime # 0 THEN "falling" ELSE "read"]
       /\ UNCHANGED <<pool, fdtable, used, disk, inodes, excused>>

(* The rest of file_read: the position is set to len, and a read that is not complete fails. *)
ReadFile ==
    LET f == fs.extents[rd.part.at].owner
        n == rd.part.len
        opened == fdpool_open(f, disk[f].ino)
        version == inodes[opened.s.t[opened.fd]]
    IN /\ rd.pc = "read"
       /\ pool' = opened.s.p
       /\ fdtable' = opened.s.t
       /\ used' = IF opened.fd = INVALID_FD THEN used ELSE f
       /\ rd' = IF opened.fd = INVALID_FD \/ n + n > FileSize[f]
                THEN [rd EXCEPT !.pc = "error"]
                ELSE [rd EXCEPT !.pc = "find", !.last = rd.part.at,
                                !.buf = Fill(rd.part, n, LAMBDA i : <<f, version, n + i>>)]
       /\ UNCHANGED <<disk, inodes, excused>>

ReadStep == NoMoreExtents \/ ReadBuffer \/ StartFile \/ CheckMetadata \/ ReadFile

-----------------------------------------------------------------------------
(* Somebody else changes a file: writes to it, puts another in its place, or removes it.  The time
   is one of seconds, or may have been set to the old one. *)
Changed == Cardinality({i \in DOMAIN inodes : inodes[i] > 1}) + Cardinality({f \in Files : disk[f].ino = 0})

Change(f) ==
    LET version == Changed + 2
        Noticed(mtime) == excused' = (excused \/ mtime = disk[f].mtime
                                        \/ (rd.pc = "read" /\ fs.extents[rd.part.at].owner = f))
    IN /\ Changed < MaxChanges
       /\ disk[f].ino # 0
       /\ \E mtime \in {disk[f].mtime, disk[f].mtime + 1} :
             /\ Noticed(mtime)
             /\ \/ /\ inodes' = [inodes EXCEPT ![disk[f].ino] = version]
                   /\ disk' = [disk EXCEPT ![f].mtime = mtime]
                \/ /\ inodes' = Append(inodes, version)
                   /\ disk' = [disk EXCEPT ![f] = [ino |-> Len(inodes) + 1, mtime |-> mtime]]
       /\ UNCHANGED <<pool, fdtable, used, rd>>

Remove(f) ==
    /\ Changed < MaxChanges
    /\ disk[f].ino # 0
    /\ disk' = [disk EXCEPT ![f].ino = 0]
    /\ UNCHANGED <<pool, fdtable, used, inodes, rd, excused>>

-----------------------------------------------------------------------------
(* What the device has at an offset, as it was imported. *)
DeviceUnit(offset) ==
    LET here == {i \in DOMAIN fs.extents :
                    fs.extents[i].start <= offset /\ offset < fs.extents[i].start + fs.extents[i].len}
        e == fs.extents[CHOOSE i \in here : TRUE]
        at == offset - e.start
    IN CASE here = {} -> Zero
         [] here # {} /\ e.type = "FILE" -> IF at < FileSize[e.owner] THEN <<e.owner, 1, at>> ELSE Zero
         [] OTHER -> IF at < BufferSize(e) THEN <<e.type, 0, at>> ELSE Zero

(* The offsets in the request that are of file f, and the first of them in the file. *)
FileOffsets(e) == {i \in DOMAIN rd.buf : e.start <= rd.start + i /\ rd.start + i < e.start + e.len}
Least(S) == CHOOSE i \in S : \A j \in S : i <= j

(* A read that succeeds returns what the device has there, put together from all the extents it
   meets; but file_read seeks to the length of the part instead of its offset, so that what is read
   of a file is at its place exactly if the two are equal. *)
ReadsAreRight ==
    rd.pc = "ok" =>
        /\ \A i \in DOMAIN rd.buf :
              (\A e \in {fs.extents[j] : j \in DOMAIN fs.extents} : e.type = "FILE" => i \notin FileOffsets(e))
                 => rd.buf[i] = DeviceUnit(rd.start + i)
        /\ \A j \in DOMAIN fs.extents :
              LET e == fs.extents[j]
                  mine == FileOffsets(e)
                  off == rd.start + Least(mine) - e.start
                  wanted == {i \in mine : rd.start + i - e.start < UINT32_MAX}
              IN e.type = "FILE" /\ wanted # {} /\ ~excused =>
                    ((\A i \in wanted : rd.buf[i] = DeviceUnit(rd.start + i)) <=> off = Cardinality(wanted))

(* What is served of a file is of the content that was imported, whatever was done to the file and
   whichever descriptor is used, unless the file changed without its time or after it was checked. *)
ServedIsImported ==
    rd.pc = "ok" /\ ~excused =>
        \A j \in DOMAIN fs.extents : fs.extents[j].type = "FILE" =>
            \A i \in FileOffsets(fs.extents[j]) : 
                rd.buf[i] = Zero \/ <<rd.buf[i][1], rd.buf[i][2]>> = <<fs.extents[j].owner, 1>>
=============================================================================
