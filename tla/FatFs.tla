------------------------------- MODULE FatFs -------------------------------
(***************************************************************************)
(* The FAT filesystem that fatblock makes up: the table of clusters and    *)
(* the list of extents, which says where on the device what is found.      *)
(* Sizes and offsets are in units of a directory entry.                    *)
(***************************************************************************)
EXTENDS Integers, Sequences, FiniteSets

CONSTANTS SectorSize, ClusterSize,   \* in units
          EntriesPerSector,          \* entries of the FAT in a sector
          DataSize                   \* of the device, as given on the command line

ASSUME FatAssumption ==
    /\ {SectorSize, ClusterSize, EntriesPerSector, DataSize} \subseteq Nat \ {0}
    /\ ClusterSize % SectorSize = 0

FAT_CLUSTER_ZERO == 2
FAT_ENTRY_FREE == 0
FAT_ENTRY_EOC == -8
ReservedSectors == 3

DivideUp(a, b) == (a + b - 1) \div b

(* The list grows at its head. *)
fs_add_extent(fs, owner, start, len, type) ==
    [fs EXCEPT !.extents = <<[owner |-> owner, start |-> start, len |-> len, type |-> type]>> \o @]

fs_init ==
    LET data_clusters == DivideUp(DataSize, ClusterSize)
        fat_sectors == DivideUp(data_clusters + 2, EntriesPerSector)
        data_sectors == data_clusters * (ClusterSize \div SectorSize)
        fs0 == [num_clusters |-> FAT_CLUSTER_ZERO + data_clusters,
                next_cluster |-> FAT_CLUSTER_ZERO,
                fat |-> [c \in 0 .. fat_sectors * EntriesPerSector - 1 |-> FAT_ENTRY_FREE],
                data_offset |-> (ReservedSectors + fat_sectors) * SectorSize,
                total_size |-> (ReservedSectors + fat_sectors + data_sectors) * SectorSize,
                rootdir_start |-> 0, free_clusters |-> -1, extents |-> <<>>]
        fs1 == fs_add_extent(fs0, "boot", 0, SectorSize, "BOOT")
        fs2 == fs_add_extent(fs1, "info", SectorSize, SectorSize, "INFO")
        fs3 == fs_add_extent(fs2, "backup", 2 * SectorSize, SectorSize, "BOOT")
    IN fs_add_extent(fs3, "fat", ReservedSectors * SectorSize, fat_sectors * SectorSize, "FAT")

\* Mutant: the cluster at the end of a chain is handed out again.
fs_alloc_extentShared(fs, owner, len, type) ==
    LET needed == DivideUp(len, ClusterSize)
        start == fs.next_cluster
        chained == [fs EXCEPT !.next_cluster = @ + needed - 1,
                              !.fat = [c \in DOMAIN @ |->
                                         IF c \in start .. start + needed - 2 THEN c + 1
                                         ELSE IF c = start + needed - 1 THEN FAT_ENTRY_EOC ELSE @[c]]]
    IN IF len = 0 \/ fs.next_cluster + needed > fs.num_clusters THEN [ok |-> len = 0, fs |-> fs, first |-> 0]
       ELSE [ok |-> TRUE, first |-> start,
             fs |-> fs_add_extent(chained, owner, fs.data_offset + (start - FAT_CLUSTER_ZERO) * ClusterSize,
                                  needed * ClusterSize, type)]

(* Clusters are handed out in order and chained in the FAT.  The result is whether there was
   space, the filesystem and the first cluster; nothing at all has the cluster 0 and no extent. *)
fs_alloc_extent(fs, owner, len, type) ==
    LET needed == DivideUp(len, ClusterSize)
        start == fs.next_cluster
        chained == [fs EXCEPT !.next_cluster = @ + needed,
                              !.fat = [c \in DOMAIN @ |->
                                         IF c \in start .. start + needed - 2 THEN c + 1
                                         ELSE IF c = start + needed - 1 THEN FAT_ENTRY_EOC ELSE @[c]]]
    IN CASE len = 0 -> [ok |-> TRUE, fs |-> fs, first |-> 0]
         [] len > 0 /\ fs.next_cluster + needed > fs.num_clusters -> [ok |-> FALSE, fs |-> fs, first |-> 0]
         [] OTHER -> [ok |-> TRUE, first |-> start,
                      fs |-> fs_add_extent(chained, owner,
                                           fs.data_offset + (start - FAT_CLUSTER_ZERO) * ClusterSize,
                                           needed * ClusterSize, type)]

fs_set_rootdir_start(fs, cluster) == [fs EXCEPT !.rootdir_start = cluster]
fs_update_free_clusters(fs) == [fs EXCEPT !.free_clusters = fs.num_clusters - fs.next_cluster]

(* The len units from start on have a part in common with the extent e ... *)
Meets(start, len, e) == e.start < start + len /\ start < e.start + e.len

(* ... which is the one at position at of the list: where the part is in the request and in the
   extent, and how long it is. *)
PartOf(start, len, e, at) ==
    LET end == start + len
        e_end == e.start + e.len
    IN IF e.start <= start
       THEN [at |-> at, r_start |-> 0, e_start |-> start - e.start,
             len |-> IF end <= e_end THEN len ELSE e_end - start]
       ELSE [at |-> at, r_start |-> e.start - start, e_start |-> 0,
             len |-> IF e_end <= end THEN e.len ELSE end - e.start]

(* The part of the first extent behind position last of the list; its position is 0 if there is none. *)
fs_find_extent(fs, start, len, last) ==
    LET found == {i \in last + 1 .. Len(fs.extents) : Meets(start, len, fs.extents[i])}
        at == CHOOSE i \in found : \A j \in found : i <= j
    IN IF found = {} THEN [at |-> 0] ELSE PartOf(start, len, fs.extents[at], at)

-----------------------------------------------------------------------------
(* The clusters that the FAT chains to c. *)
ClusterAt(fs, offset) == FAT_CLUSTER_ZERO + (offset - fs.data_offset) \div ClusterSize
Clusters(fs, e) == ClusterAt(fs, e.start) .. ClusterAt(fs, e.start + e.len) - 1

(* No two extents overlap and all are on the device. *)
ExtentsApartIn(fs) ==
    /\ \A i \in DOMAIN fs.extents :
          fs.extents[i].start >= 0 /\ fs.extents[i].start + fs.extents[i].len <= fs.total_size
    /\ \A i, j \in DOMAIN fs.extents :
          i < j => \/ fs.extents[i].start + fs.extents[i].len <= fs.extents[j].start
                   \/ fs.extents[j].start + fs.extents[j].len <= fs.extents[i].start

(* The FAT chains the clusters of each extent of data, one after the other, and no others. *)
ChainsAreExtents(fs) ==
    LET data == {i \in DOMAIN fs.extents : fs.extents[i].type \in {"FILE", "DIR"}}
        used == UNION {Clusters(fs, fs.extents[i]) : i \in data}
    IN /\ \A i \in data : \A c \in Clusters(fs, fs.extents[i]) :
              fs.fat[c] = IF c + 1 \in Clusters(fs, fs.extents[i]) THEN c + 1 ELSE FAT_ENTRY_EOC
       /\ {c \in DOMAIN fs.fat : fs.fat[c] # FAT_ENTRY_FREE} = used
=============================================================================
