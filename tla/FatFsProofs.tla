----------------------------- MODULE FatFsProofs -----------------------------
(***************************************************************************)
(* What is proved of the filesystem's operators, for whoever the extents   *)
(* belong to: clusters are handed out once, and the FAT chains them.       *)
(***************************************************************************)
EXTENDS FatFs, SequenceTheorems, FiniteSetTheorems, WellFoundedInduction, TLAPS

\* Induction over the natural numbers, for a set of them.
LEMMA Induction ==
    ASSUME NEW T, 0 \in T, \A n \in Nat : n \in T => n + 1 \in T
    PROVE  Nat \subseteq T
<1> SUFFICES ASSUME Nat \ T # {} PROVE FALSE
  OBVIOUS
<1> DEFINE R == OpToRel(<, Nat)
<1>1. IsWellFoundedOn(R, Nat)
  BY NatLessThanWellFounded
<1>2. \A x, y \in Nat : y < x => <<y, x>> \in R
  BY DEF OpToRel
<1> HIDE DEF R
<1>3. PICK x \in Nat \ T : \A y \in Nat \ T : ~(<<y, x>> \in R)
  BY <1>1, WFMin
<1>4. x # 0 /\ x - 1 \in Nat /\ x - 1 < x /\ (x - 1) + 1 = x
  BY <1>3
<1>5. x - 1 \in T
  BY <1>2, <1>3, <1>4
<1> QED
  BY <1>3, <1>4, <1>5

LEMMA LeastOf ==
    ASSUME NEW T \in SUBSET Nat, T # {}
    PROVE  \E x \in T : \A y \in T : x <= y
<1> DEFINE R == OpToRel(<, Nat)
<1>1. IsWellFoundedOn(R, Nat)
  BY NatLessThanWellFounded
<1>2. \A x, y \in Nat : y < x => <<y, x>> \in R
  BY DEF OpToRel
<1> HIDE DEF R
<1>3. PICK x \in T : \A y \in T : ~(<<y, x>> \in R)
  BY <1>1, WFMin
<1>4. x \in Nat /\ \A y \in T : y \in Nat /\ ~(y < x)
  BY <1>2, <1>3
<1>5. \A y \in T : x <= y
  BY <1>4
<1> QED
  BY <1>3, <1>5

\* Rounding up a division gives what covers the dividend.
LEMMA DivideUpCovers ==
    ASSUME NEW a \in Nat, NEW b \in Nat \ {0}
    PROVE  /\ DivideUp(a, b) \in Nat
           /\ DivideUp(a, b) * b >= a
           /\ a > 0 => DivideUp(a, b) >= 1
<1> DEFINE q == (a + b - 1) \div b
<1>1. q \in Int /\ b * q <= a + b - 1 /\ a + b - 1 < b * q + b
  OBVIOUS
<1> HIDE DEF q
<1>2. q >= 0
  BY <1>1
<1>3. a > 0 => q >= 1
  BY <1>1
<1>4. q * b >= a
  BY <1>1
<1> QED
  BY <1>1, <1>2, <1>3, <1>4 DEF DivideUp, q

\* Division undoes multiplication.
LEMMA ProductDivided ==
    ASSUME NEW a \in Int, NEW b \in Nat \ {0}
    PROVE  (a * b) \div b = a
<1> DEFINE q == (a * b) \div b
<1>1. q \in Int /\ b * q <= a * b /\ a * b < b * q + b
  OBVIOUS
<1> HIDE DEF q
<1>2. q <= a
  BY <1>1
<1>3. a <= q
  BY <1>1
<1> QED
  BY <1>1, <1>2, <1>3 DEF q

\* A cluster is a whole number of sectors.
LEMMA SectorsOfCluster == (ClusterSize \div SectorSize) * SectorSize = ClusterSize
<1>1. ClusterSize \in Nat \ {0} /\ SectorSize \in Nat \ {0} /\ ClusterSize % SectorSize = 0
  BY FatAssumption
<1> QED
  BY <1>1

\* Products with a size.
LEMMA Products ==
    ASSUME NEW a \in Int, NEW b \in Int, NEW s \in Nat
    PROVE  /\ (a + b) * s = a * s + b * s
           /\ a <= b => a * s <= b * s
           /\ a >= 0 => a * s >= 0
           /\ a * s \in Int
OBVIOUS

-----------------------------------------------------------------------------
(***************************************************************************)
(* The filesystem.  Behind its data_offset the device is handed out from   *)
(* the front: everything up to the frontier belongs to an extent, and      *)
(* nothing behind it does.                                                 *)
(***************************************************************************)
DataClusters == DivideUp(DataSize, ClusterSize)
FatEntries == DivideUp(DataClusters + 2, EntriesPerSector) * EntriesPerSector
Extent(O) == [owner : O \cup {"boot", "info", "backup", "fat"}, start : Nat, len : Nat,
           type : {"BOOT", "INFO", "FAT", "FILE", "DIR"}]

FsTypes(O, f) ==
    f \in [num_clusters : Nat, next_cluster : Nat, fat : [0 .. FatEntries - 1 -> Int], data_offset : Nat,
           total_size : Nat, rootdir_start : Nat, free_clusters : Int, extents : Seq(Extent(O))]

IsData(e) == e.type \in {"FILE", "DIR"}
Frontier(f) == f.data_offset + (f.next_cluster - 2) * ClusterSize

(* The extent e has the n clusters from a on, which the FAT chains. *)
IsChain(f, e, a, n) ==
    /\ a >= 2 /\ n >= 1 /\ a + n <= f.next_cluster
    /\ e.start = f.data_offset + (a - 2) * ClusterSize
    /\ e.len = n * ClusterSize
    /\ \A c \in a .. a + n - 1 : f.fat[c] = IF c + 1 \in a .. a + n - 1 THEN c + 1 ELSE FAT_ENTRY_EOC

FsInv(O, f) ==
    /\ FsTypes(O, f)
    /\ 2 <= f.next_cluster /\ f.next_cluster <= f.num_clusters /\ f.num_clusters <= FatEntries
    /\ f.total_size = f.data_offset + (f.num_clusters - 2) * ClusterSize
    /\ \A c \in 0 .. FatEntries - 1 : f.fat[c] # FAT_ENTRY_FREE <=> c \in 2 .. f.next_cluster - 1
    /\ \A i \in DOMAIN f.extents : f.extents[i].start + f.extents[i].len <= Frontier(f)
    /\ \A i, j \in DOMAIN f.extents :
          i < j => f.extents[j].start + f.extents[j].len <= f.extents[i].start
                   \/ f.extents[i].start + f.extents[i].len <= f.extents[j].start
    /\ \A i \in DOMAIN f.extents : IsData(f.extents[i]) => \E a, n \in Nat : IsChain(f, f.extents[i], a, n)
    /\ \A c \in 2 .. f.next_cluster - 1 :
          \E i \in DOMAIN f.extents : IsData(f.extents[i]) /\ c \in Clusters(f, f.extents[i])

\* The table has an entry for each cluster.
LEMMA TableIsLargeEnough == DataClusters \in Nat /\ FatEntries \in Nat /\ DataClusters + 2 <= FatEntries
<1>1. DataSize \in Nat /\ ClusterSize \in Nat \ {0} /\ EntriesPerSector \in Nat \ {0}
  BY FatAssumption
<1>2. DataClusters \in Nat
  BY <1>1, DivideUpCovers DEF DataClusters
<1>3. /\ DivideUp(DataClusters + 2, EntriesPerSector) \in Nat
      /\ DivideUp(DataClusters + 2, EntriesPerSector) * EntriesPerSector >= DataClusters + 2
  BY <1>1, <1>2, DivideUpCovers
<1> QED
  BY <1>1, <1>2, <1>3 DEF FatEntries

\* An offset that is a number of clusters behind the start of the data.
LEMMA ClusterOfOffset ==
    ASSUME NEW f, NEW offset, NEW k \in Int, offset - f.data_offset = k * ClusterSize
    PROVE  ClusterAt(f, offset) = k + 2
<1>1. (k * ClusterSize) \div ClusterSize = k
  BY FatAssumption, ProductDivided
<1> QED
  BY <1>1 DEF ClusterAt, FAT_CLUSTER_ZERO

\* The clusters of an extent that is a chain.
LEMMA ClustersOfChain ==
    ASSUME NEW O, NEW f, FsTypes(O, f), NEW e \in Extent(O), NEW a \in Nat, NEW n \in Nat, IsChain(f, e, a, n)
    PROVE  Clusters(f, e) = a .. a + n - 1
<1>1. ClusterSize \in Nat \ {0} /\ f.data_offset \in Nat /\ a - 2 \in Int /\ a + n - 2 \in Int
  BY FatAssumption DEF FsTypes
<1>2. e.start = f.data_offset + (a - 2) * ClusterSize /\ e.len = n * ClusterSize
  BY DEF IsChain
<1>3. e.start - f.data_offset = (a - 2) * ClusterSize
  BY <1>1, <1>2, Products
<1>5. ClusterAt(f, e.start) = a
  <2>1. PICK k \in Int : k = a - 2
    BY <1>1
  <2>2. ClusterAt(f, e.start) = k + 2
    BY <1>3, <2>1, ClusterOfOffset
  <2> QED
    BY <2>1, <2>2
<1>6. ClusterAt(f, e.start + e.len) = a + n
  <2>1. PICK k \in Int : k = a + n - 2
    BY <1>1
  <2>2. PICK offset \in Int : offset = e.start + e.len
    BY DEF Extent
  <2>3. offset - f.data_offset = k * ClusterSize
    BY <1>1, <1>2, <2>1, <2>2
  <2>4. ClusterAt(f, offset) = k + 2
    BY <2>3, ClusterOfOffset
  <2> QED
    BY <2>1, <2>2, <2>4
<1> QED
  BY <1>5, <1>6 DEF Clusters

\* In such a filesystem the extents are apart, and on the device.
LEMMA FsInvApart ==
    ASSUME NEW O, NEW f, FsInv(O, f)
    PROVE  ExtentsApartIn(f)
<1>1. ClusterSize \in Nat \ {0} /\ f.data_offset \in Nat /\ f.next_cluster \in Nat /\ f.num_clusters \in Nat
  BY FatAssumption DEF FsInv, FsTypes
<1>2. (f.next_cluster - 2) * ClusterSize <= (f.num_clusters - 2) * ClusterSize
  BY <1>1, Products DEF FsInv
<1>3. (f.next_cluster - 2) * ClusterSize \in Int /\ (f.num_clusters - 2) * ClusterSize \in Int
  BY <1>1
<1>4. Frontier(f) <= f.total_size /\ Frontier(f) \in Int /\ f.total_size \in Int
  BY <1>1, <1>2, <1>3 DEF FsInv, Frontier
<1>5. f.extents \in Seq(Extent(O)) /\ \A i \in DOMAIN f.extents : f.extents[i].start \in Nat /\ f.extents[i].len \in Nat
  <2>1. f.extents \in Seq(Extent(O))
    BY DEF FsInv, FsTypes
  <2>2. \A i \in DOMAIN f.extents : f.extents[i] \in Extent(O)
    BY <2>1, LenProperties, ElementOfSeq
  <2> QED
    BY <2>1, <2>2 DEF Extent
<1>6. \A i \in DOMAIN f.extents :
          f.extents[i].start >= 0 /\ f.extents[i].start + f.extents[i].len <= f.total_size
  BY <1>4, <1>5 DEF FsInv
<1> QED
  BY <1>6 DEF ExtentsApartIn, FsInv

\* In such a filesystem the FAT chains the extents, and nothing else.
LEMMA FsInvChains ==
    ASSUME NEW O, NEW f, FsInv(O, f)
    PROVE  ChainsAreExtents(f)
<1> DEFINE data == {i \in DOMAIN f.extents : f.extents[i].type \in {"FILE", "DIR"}}
           used == UNION {Clusters(f, f.extents[i]) : i \in data}
<1>1. f.next_cluster \in Nat /\ \A i \in DOMAIN f.extents : f.extents[i] \in Extent(O)
  BY LenProperties, ElementOfSeq DEF FsInv, FsTypes
<1>2. ASSUME NEW i \in data
      PROVE  \E a, n \in Nat : IsChain(f, f.extents[i], a, n) /\ Clusters(f, f.extents[i]) = a .. a + n - 1
  <2>1. PICK a, n \in Nat : IsChain(f, f.extents[i], a, n)
    BY DEF FsInv, IsData
  <2>2. Clusters(f, f.extents[i]) = a .. a + n - 1
    BY <1>1, <2>1, ClustersOfChain DEF FsInv
  <2> QED
    BY <2>1, <2>2
<1>3. ASSUME NEW i \in data, NEW c \in Clusters(f, f.extents[i])
      PROVE  /\ f.fat[c] = IF c + 1 \in Clusters(f, f.extents[i]) THEN c + 1 ELSE FAT_ENTRY_EOC
             /\ c \in 2 .. f.next_cluster - 1
  <2>1. PICK a, n \in Nat : IsChain(f, f.extents[i], a, n) /\ Clusters(f, f.extents[i]) = a .. a + n - 1
    BY <1>2
  <2>2. c \in 2 .. f.next_cluster - 1
    BY <1>1, <2>1 DEF IsChain
  <2> QED
    BY <2>1, <2>2 DEF IsChain
<1>4. {c \in DOMAIN f.fat : f.fat[c] # FAT_ENTRY_FREE} = 2 .. f.next_cluster - 1
  <2>1. DOMAIN f.fat = 0 .. FatEntries - 1 /\ 2 .. f.next_cluster - 1 \subseteq 0 .. FatEntries - 1
    <3>1. DOMAIN f.fat = 0 .. FatEntries - 1
      BY DEF FsInv, FsTypes
    <3>2. FatEntries \in Nat
      BY TableIsLargeEnough
    <3>3. f.num_clusters \in Nat /\ f.next_cluster <= f.num_clusters /\ f.num_clusters <= FatEntries
      BY DEF FsInv, FsTypes
    <3> QED
      BY <1>1, <3>1, <3>2, <3>3
  <2> QED
    BY <2>1 DEF FsInv
<1>5. used = 2 .. f.next_cluster - 1
  <2>1. used \subseteq 2 .. f.next_cluster - 1
    BY <1>3
  <2>2. ASSUME NEW c \in 2 .. f.next_cluster - 1 PROVE c \in used
    BY DEF FsInv, IsData
  <2> QED
    BY <2>1, <2>2
<1> QED
  BY <1>3, <1>4, <1>5 DEF ChainsAreExtents

\* Adding an extent at the head of the list.
LEMMA ExtentAdded ==
    ASSUME NEW O, NEW f, FsTypes(O, f), NEW e \in Extent(O)
    PROVE  /\ <<e>> \o f.extents \in Seq(Extent(O))
           /\ DOMAIN (<<e>> \o f.extents) = 1 .. Len(f.extents) + 1
           /\ DOMAIN f.extents = 1 .. Len(f.extents) /\ Len(f.extents) \in Nat
           /\ (<<e>> \o f.extents)[1] = e
           /\ \A i \in 1 .. Len(f.extents) : (<<e>> \o f.extents)[i + 1] = f.extents[i]
           /\ \A i \in 2 .. Len(f.extents) + 1 : (<<e>> \o f.extents)[i] = f.extents[i - 1]
<1>1. f.extents \in Seq(Extent(O)) /\ <<e>> \in Seq(Extent(O))
  BY DEF FsTypes
<1>2. <<e>> \o f.extents \in Seq(Extent(O)) /\ Len(<<e>> \o f.extents) = Len(f.extents) + 1
  BY <1>1
<1>3. DOMAIN (<<e>> \o f.extents) = 1 .. Len(f.extents) + 1 /\ DOMAIN f.extents = 1 .. Len(f.extents)
      /\ Len(f.extents) \in Nat
  BY <1>1, <1>2, LenProperties
<1>4. /\ (<<e>> \o f.extents)[1] = e
      /\ \A i \in 1 .. Len(f.extents) : (<<e>> \o f.extents)[i + 1] = f.extents[i]
      /\ \A i \in 2 .. Len(f.extents) + 1 : (<<e>> \o f.extents)[i] = f.extents[i - 1]
  BY <1>1
<1> QED
  BY <1>2, <1>3, <1>4

(* What a successful allocation does: n clusters from the next one on, a, are chained, and the extent
   e with them is added. *)
Chained(f, a, n) ==
    [c \in DOMAIN f.fat |-> IF c \in a .. a + n - 2 THEN c + 1
                            ELSE IF c = a + n - 1 THEN FAT_ENTRY_EOC ELSE f.fat[c]]
Allocates(f, a, n, e, g) ==
    /\ a = f.next_cluster /\ n >= 1 /\ a + n <= f.num_clusters
    /\ IsData(e) /\ e.start = Frontier(f) /\ e.len = n * ClusterSize
    /\ g = [f EXCEPT !.next_cluster = a + n, !.fat = Chained(f, a, n), !.extents = <<e>> \o f.extents]

\* An allocation keeps the filesystem's invariant.
LEMMA AllocatedExtent ==
    ASSUME NEW O, NEW f, FsInv(O, f), NEW a \in Nat, NEW n \in Nat, NEW e \in Extent(O), NEW g, Allocates(f, a, n, e, g)
    PROVE  FsInv(O, g)
<1>1. /\ ClusterSize \in Nat \ {0} /\ a >= 2 /\ f.data_offset \in Nat /\ f.num_clusters \in Nat
      /\ FatEntries \in Nat /\ f.num_clusters <= FatEntries /\ n >= 1 /\ a + n <= f.num_clusters
      /\ DOMAIN f.fat = 0 .. FatEntries - 1 /\ f.fat \in [0 .. FatEntries - 1 -> Int]
  BY FatAssumption, TableIsLargeEnough DEF FsInv, FsTypes, Allocates
<1> DEFINE fat == Chained(f, a, n)
           old == Len(f.extents)
<1>2. /\ g.next_cluster = a + n /\ g.num_clusters = f.num_clusters /\ g.fat = fat
      /\ g.extents = <<e>> \o f.extents
      /\ g.data_offset = f.data_offset /\ g.total_size = f.total_size
      /\ g.rootdir_start = f.rootdir_start /\ g.free_clusters = f.free_clusters
      /\ g = [num_clusters |-> g.num_clusters, next_cluster |-> g.next_cluster, fat |-> g.fat,
              data_offset |-> g.data_offset, total_size |-> g.total_size, rootdir_start |-> g.rootdir_start,
              free_clusters |-> g.free_clusters, extents |-> g.extents]
  BY DEF FsInv, FsTypes, Allocates
<1>3. /\ DOMAIN g.extents = 1 .. old + 1 /\ DOMAIN f.extents = 1 .. old /\ old \in Nat
      /\ g.extents \in Seq(Extent(O))
      /\ g.extents[1] = e
      /\ \A i \in 1 .. old : g.extents[i + 1] = f.extents[i]
      /\ \A i \in 2 .. old + 1 : g.extents[i] = f.extents[i - 1] /\ i - 1 \in 1 .. old
  <2>1. /\ <<e>> \o f.extents \in Seq(Extent(O))
        /\ DOMAIN (<<e>> \o f.extents) = 1 .. old + 1
        /\ DOMAIN f.extents = 1 .. old /\ old \in Nat
        /\ (<<e>> \o f.extents)[1] = e
        /\ \A i \in 1 .. old : (<<e>> \o f.extents)[i + 1] = f.extents[i]
        /\ \A i \in 2 .. old + 1 : (<<e>> \o f.extents)[i] = f.extents[i - 1]
    <3>1. FsTypes(O, f) /\ e \in Extent(O)
      BY DEF FsInv
    <3> QED
      BY <3>1, ExtentAdded
  <2>2. \A i \in 2 .. old + 1 : i - 1 \in 1 .. old
    BY <2>1
  <2> QED
    BY <1>2, <2>1, <2>2
<1>4. /\ fat \in [0 .. FatEntries - 1 -> Int]
      /\ \A c \in a .. a + n - 2 : fat[c] = c + 1
      /\ fat[a + n - 1] = FAT_ENTRY_EOC
      /\ \A c \in 0 .. FatEntries - 1 : c \notin a .. a + n - 1 => fat[c] = f.fat[c]
  <2>1. \A c \in 0 .. FatEntries - 1 :
           fat[c] = IF c \in a .. a + n - 2 THEN c + 1
                    ELSE IF c = a + n - 1 THEN FAT_ENTRY_EOC ELSE f.fat[c]
    BY <1>1 DEF Chained
  <2>2. fat \in [0 .. FatEntries - 1 -> Int]
    BY <1>1 DEF Chained, FAT_ENTRY_EOC
  <2> HIDE DEF fat
  <2>4. ASSUME NEW c \in a .. a + n - 2 PROVE fat[c] = c + 1
    <3>1. c \in 0 .. FatEntries - 1
      BY <1>1
    <3> QED
      BY <2>1, <3>1
  <2>5. fat[a + n - 1] = FAT_ENTRY_EOC
    <3>1. a + n - 1 \in 0 .. FatEntries - 1 /\ a + n - 1 \notin a .. a + n - 2
      BY <1>1
    <3> QED
      BY <2>1, <3>1
  <2>6. ASSUME NEW c \in 0 .. FatEntries - 1, c \notin a .. a + n - 1 PROVE fat[c] = f.fat[c]
    <3>1. c \notin a .. a + n - 2 /\ c # a + n - 1
      BY <1>1, <2>6
    <3> QED
      BY <2>1, <3>1
  <2> QED
    BY <2>2, <2>4, <2>5, <2>6
<1>d. DOMAIN g.extents = 1 .. old + 1 /\ DOMAIN f.extents = 1 .. old /\ old \in Nat
  BY <1>3
<1>t. ASSUME NEW i \in DOMAIN g.extents, i # 1
      PROVE  i - 1 \in 1 .. old /\ g.extents[i] = f.extents[i - 1] /\ i \in Nat /\ i > 1
  <2>1. i \in 2 .. old + 1
    BY <1>d, <1>t
  <2> QED
    BY <1>3, <1>d, <2>1
<1> HIDE DEF fat, old
<1>5. FsTypes(O, g)
  <2>1. g.next_cluster \in Nat /\ g.fat \in [0 .. FatEntries - 1 -> Int] /\ g.extents \in Seq(Extent(O))
    BY <1>2, <1>3, <1>4
  <2>2. /\ g.num_clusters \in Nat /\ g.data_offset \in Nat /\ g.total_size \in Nat /\ g.rootdir_start \in Nat
        /\ g.free_clusters \in Int
    BY <1>2 DEF FsInv, FsTypes
  <2> QED
    BY <1>2, <2>1, <2>2 DEF FsTypes
<1>f. /\ a = f.next_cluster /\ IsData(e) /\ e.start = Frontier(f) /\ e.len = n * ClusterSize
      /\ Frontier(f) = f.data_offset + (a - 2) * ClusterSize
  BY DEF Allocates, Frontier
<1>6. Frontier(g) = Frontier(f) + n * ClusterSize /\ Frontier(f) \in Int /\ n * ClusterSize \in Nat
  <2>1. (a + n - 2) * ClusterSize = (a - 2) * ClusterSize + n * ClusterSize
    BY <1>1
  <2>2. (a - 2) * ClusterSize \in Int /\ n * ClusterSize \in Nat
    BY <1>1
  <2>3. Frontier(g) = f.data_offset + (a + n - 2) * ClusterSize
    BY <1>2 DEF Frontier
  <2>4. PICK x \in Int, y \in Nat : x = (a - 2) * ClusterSize /\ y = n * ClusterSize
    BY <2>2
  <2>5. Frontier(g) = f.data_offset + (x + y)
    BY <2>1, <2>3, <2>4
  <2>6. Frontier(f) = f.data_offset + x
    BY <1>f, <2>4
  <2>7. Frontier(g) = Frontier(f) + y /\ Frontier(f) \in Int
    BY <1>1, <2>5, <2>6
  <2> QED
    BY <2>4, <2>7
<1>7. /\ 2 <= g.next_cluster /\ g.next_cluster <= g.num_clusters /\ g.num_clusters <= FatEntries
      /\ g.total_size = g.data_offset + (g.num_clusters - 2) * ClusterSize
  BY <1>1, <1>2 DEF FsInv
<1>8. \A c \in 0 .. FatEntries - 1 : g.fat[c] # FAT_ENTRY_FREE <=> c \in 2 .. g.next_cluster - 1
  <2> TAKE c \in 0 .. FatEntries - 1
  <2>1. CASE c \in a .. a + n - 2
    <3>1. g.fat[c] = c + 1 /\ c + 1 # 0
      BY <1>2, <1>4, <2>1
    <3>2. c \in 2 .. a + n - 1
      BY <1>1, <2>1
    <3> QED
      BY <1>2, <3>1, <3>2 DEF FAT_ENTRY_FREE
  <2>2. CASE c = a + n - 1
    BY <1>1, <1>2, <1>4, <2>2 DEF FAT_ENTRY_FREE, FAT_ENTRY_EOC
  <2>3. CASE c \notin a .. a + n - 1
    <3>1. g.fat[c] = f.fat[c]
      BY <1>2, <1>4, <2>3
    <3>2. f.fat[c] # FAT_ENTRY_FREE <=> c \in 2 .. a - 1
      BY <1>f DEF FsInv
    <3> QED
      BY <1>1, <1>2, <2>3, <3>1, <3>2
  <2>4. c \in Int /\ a \in Int /\ n \in Int
    BY <1>1
  <2>5. c \in a .. a + n - 2 \/ c = a + n - 1 \/ c \notin a .. a + n - 1
    BY <2>4
  <2> QED
    BY <2>1, <2>2, <2>3, <2>5
<1>9. \A i \in 1 .. old : /\ f.extents[i] \in Extent(O)
                          /\ f.extents[i].start \in Nat /\ f.extents[i].len \in Nat
                          /\ f.extents[i].start + f.extents[i].len <= Frontier(f)
  <2>1. f.extents \in Seq(Extent(O))
    BY DEF FsInv, FsTypes
  <2>2. \A i \in 1 .. old : f.extents[i] \in Extent(O)
    BY <2>1, ElementOfSeq DEF old
  <2> QED
    BY <1>d, <2>2 DEF Extent, FsInv
<1>10. \A i \in DOMAIN g.extents : g.extents[i].start + g.extents[i].len <= Frontier(g)
  <2> TAKE i \in DOMAIN g.extents
  <2>1. CASE i = 1
    BY <1>3, <1>f, <1>6, <2>1
  <2>2. CASE i # 1
    <3>2. g.extents[i] = f.extents[i - 1] /\ i - 1 \in 1 .. old
      BY <1>t, <2>2
    <3> QED
      BY <1>6, <1>9, <3>2
  <2> QED
    BY <2>1, <2>2
<1>11. \A i, j \in DOMAIN g.extents :
          i < j => g.extents[j].start + g.extents[j].len <= g.extents[i].start
                   \/ g.extents[i].start + g.extents[i].len <= g.extents[j].start
  <2> TAKE i, j \in DOMAIN g.extents
  <2> HAVE i < j
  <2>0. i \in Nat /\ j \in Nat /\ i >= 1 /\ j # 1
    BY <1>d
  <2>1. g.extents[j] = f.extents[j - 1] /\ j - 1 \in 1 .. old
    BY <1>t, <2>0
  <2>2. CASE i = 1
    BY <1>3, <1>f, <1>6, <1>9, <2>1, <2>2
  <2>3. CASE i # 1
    <3>1. g.extents[i] = f.extents[i - 1] /\ i - 1 \in 1 .. old /\ i - 1 < j - 1
      BY <1>t, <2>0, <2>3
    <3> QED
      BY <1>d, <2>1, <3>1 DEF FsInv
  <2> QED
    BY <2>2, <2>3
<1>12. IsChain(g, e, a, n)
  <2>1. ASSUME NEW c \in a .. a + n - 1
        PROVE  fat[c] = IF c + 1 \in a .. a + n - 1 THEN c + 1 ELSE FAT_ENTRY_EOC
    <3>1. CASE c = a + n - 1
      BY <1>4, <3>1
    <3>2. CASE c # a + n - 1
      <4>1. c \in a .. a + n - 2 /\ c + 1 \in a .. a + n - 1
        BY <3>2
      <4> QED
        BY <1>4, <4>1
    <3> QED
      BY <3>1, <3>2
  <2> QED
    BY <1>1, <1>2, <1>f, <2>1 DEF IsChain
<1>13. ASSUME NEW i \in 1 .. old, NEW b \in Nat, NEW m \in Nat, IsChain(f, f.extents[i], b, m)
       PROVE  IsChain(g, f.extents[i], b, m)
  <2>1. \A c \in b .. b + m - 1 : c \in 0 .. FatEntries - 1 /\ c \notin a .. a + n - 1
    <3>1. b >= 2 /\ b + m <= a
      BY <1>f, <1>13 DEF IsChain
    <3> QED
      BY <1>1, <3>1
  <2>2. \A c \in b .. b + m - 1 : fat[c] = f.fat[c]
    BY <1>4, <2>1
  <2> QED
    <3>1. b + m <= a + n
      BY <1>f, <1>13 DEF IsChain
    <3> QED
      BY <1>2, <1>13, <2>2, <3>1 DEF IsChain
<1>14. \A i \in DOMAIN g.extents : IsData(g.extents[i]) => \E b, m \in Nat : IsChain(g, g.extents[i], b, m)
  <2> TAKE i \in DOMAIN g.extents
  <2> HAVE IsData(g.extents[i])
  <2>1. CASE i = 1
    BY <1>3, <1>12, <2>1
  <2>2. CASE i # 1
    <3>2. g.extents[i] = f.extents[i - 1] /\ i - 1 \in 1 .. old
      BY <1>t, <2>2
    <3>3. PICK b, m \in Nat : IsChain(f, f.extents[i - 1], b, m)
      BY <1>3, <3>2 DEF FsInv
    <3> QED
      BY <1>13, <3>2, <3>3
  <2> QED
    BY <2>1, <2>2
<1>15. \A c \in 2 .. g.next_cluster - 1 :
          \E i \in DOMAIN g.extents : IsData(g.extents[i]) /\ c \in Clusters(g, g.extents[i])
  <2> TAKE c \in 2 .. g.next_cluster - 1
  <2>1. CASE c \in 2 .. a - 1
    <3>1. PICK i \in DOMAIN f.extents : IsData(f.extents[i]) /\ c \in Clusters(f, f.extents[i])
      BY <1>f, <2>1 DEF FsInv
    <3>2. Clusters(g, f.extents[i]) = Clusters(f, f.extents[i])
      BY <1>2 DEF Clusters, ClusterAt
    <3>3. i + 1 \in DOMAIN g.extents /\ g.extents[i + 1] = f.extents[i]
      <4>1. i \in 1 .. old /\ i + 1 \in 1 .. old + 1
        BY <1>d, <3>1
      <4> QED
        BY <1>3, <1>d, <4>1
    <3> QED
      BY <3>1, <3>2, <3>3
  <2>2. CASE c \in a .. a + n - 1
    <3>1. Clusters(g, e) = a .. a + n - 1
      BY <1>1, <1>5, <1>12, ClustersOfChain
    <3>2. 1 \in DOMAIN g.extents
      BY <1>3
    <3> QED
      BY <1>3, <1>f, <2>2, <3>1, <3>2
  <2>3. c \in 2 .. a - 1 \/ c \in a .. a + n - 1
    BY <1>1, <1>2
  <2> QED
    BY <2>1, <2>2, <2>3
<1> QED
  BY <1>5, <1>7, <1>8, <1>10, <1>11, <1>14, <1>15 DEF FsInv

(* Every extent of g is one of f, or a new one of the owner. *)
AddsAtMost(f, owner, type, g) ==
    \A i \in DOMAIN g.extents :
        \/ g.extents[i].owner = owner /\ g.extents[i].type = type
        \/ \E j \in DOMAIN f.extents : g.extents[i] = f.extents[j]

\* fs_alloc_extent, whether there is space or not.
LEMMA AllocInv ==
    ASSUME NEW O, NEW f, FsInv(O, f), NEW owner \in O, NEW len \in Nat, NEW type \in {"FILE", "DIR"}
    PROVE  /\ FsInv(O, fs_alloc_extent(f, owner, len, type).fs)
           /\ fs_alloc_extent(f, owner, len, type).first \in Nat
           /\ AddsAtMost(f, owner, type, fs_alloc_extent(f, owner, len, type).fs)
<1> DEFINE n == DivideUp(len, ClusterSize)
           a == f.next_cluster
           e == [owner |-> owner, start |-> Frontier(f), len |-> n * ClusterSize, type |-> type]
           g == [f EXCEPT !.next_cluster = a + n, !.fat = Chained(f, a, n), !.extents = <<e>> \o f.extents]
<1>1. ClusterSize \in Nat \ {0} /\ n \in Nat /\ (len > 0 => n >= 1)
  BY FatAssumption, DivideUpCovers
<1>2. a \in Nat /\ a >= 2 /\ f.data_offset \in Nat /\ f.num_clusters \in Nat
  BY DEF FsInv, FsTypes
<1>3. CASE len = 0
  BY <1>3 DEF fs_alloc_extent, AddsAtMost
<1>4. CASE len > 0 /\ a + n > f.num_clusters
  BY <1>4 DEF fs_alloc_extent, AddsAtMost
<1>5. CASE len > 0 /\ ~(a + n > f.num_clusters)
  <2>1. (a - 2) * ClusterSize \in Nat /\ n * ClusterSize \in Nat
    BY <1>1, <1>2
  <2>2. Frontier(f) \in Nat
    BY <1>2, <2>1 DEF Frontier
  <2>3. e \in Extent(O) /\ IsData(e) /\ e.start = Frontier(f) /\ e.len = n * ClusterSize
    BY <2>1, <2>2 DEF Extent, IsData
  <2>4. fs_alloc_extent(f, owner, len, type) = [ok |-> TRUE, first |-> a, fs |-> g]
    BY <1>1, <1>2, <1>5 DEF fs_alloc_extent, fs_add_extent, Frontier, FAT_CLUSTER_ZERO, Chained, FsInv, FsTypes
  <2>5. a + n <= f.num_clusters
    BY <1>1, <1>2, <1>5
  <2>6. Allocates(f, a, n, e, g)
    BY <1>1, <1>5, <2>3, <2>5 DEF Allocates
  <2>7. FsInv(O, g)
    BY <1>1, <1>2, <2>3, <2>6, AllocatedExtent
  <2>8. g.extents = <<e>> \o f.extents
    BY DEF FsInv, FsTypes
  <2> HIDE DEF g
  <2>9. /\ DOMAIN (<<e>> \o f.extents) = 1 .. Len(f.extents) + 1
        /\ DOMAIN f.extents = 1 .. Len(f.extents) /\ Len(f.extents) \in Nat
        /\ (<<e>> \o f.extents)[1] = e
        /\ \A i \in 2 .. Len(f.extents) + 1 : (<<e>> \o f.extents)[i] = f.extents[i - 1]
    <3>1. FsTypes(O, f)
      BY DEF FsInv
    <3> HIDE DEF e
    <3> QED
      BY <2>3, <3>1, ExtentAdded
  <2>10. AddsAtMost(f, owner, type, g)
    <3> SUFFICES ASSUME NEW i \in DOMAIN g.extents
                 PROVE  \/ g.extents[i].owner = owner /\ g.extents[i].type = type
                        \/ \E j \in DOMAIN f.extents : g.extents[i] = f.extents[j]
      BY DEF AddsAtMost
    <3>1. CASE i = 1
      BY <2>8, <2>9, <3>1
    <3>2. CASE i # 1
      <4>1. i \in 2 .. Len(f.extents) + 1 /\ i - 1 \in DOMAIN f.extents
        BY <2>8, <2>9, <3>2
      <4> QED
        BY <2>8, <2>9, <4>1
    <3> QED
      BY <3>1, <3>2
  <2>11. fs_alloc_extent(f, owner, len, type).fs = g /\ fs_alloc_extent(f, owner, len, type).first = a
    BY <2>4
  <2> QED
    BY <1>2, <2>7, <2>10, <2>11
<1> QED
  BY <1>1, <1>2, <1>3, <1>4, <1>5

\* Short lists, put together from the front.
LEMMA ListGrows ==
    ASSUME NEW w, NEW x, NEW y
    PROVE  /\ <<w>> \o <<>> = <<w>>
           /\ <<w>> \o <<x>> = <<w, x>>
           /\ <<w>> \o <<x, y>> = <<w, x, y>>
<1> DEFINE S == {w, x, y}
<1>1. <<w>> \in Seq(S) /\ <<x>> \in Seq(S) /\ <<x, y>> \in Seq(S) /\ <<>> \in Seq(S)
  OBVIOUS
<1>2. <<w, x>> \in Seq(S) /\ <<w, x, y>> \in Seq(S)
  OBVIOUS
<1>3. <<w>> \o <<>> = <<w>>
  BY <1>1, ConcatEmptySeq
<1>4. <<w>> \o <<x>> = <<w, x>>
  <2>1. <<w>> \o <<x>> \in Seq(S) /\ Len(<<w>> \o <<x>>) = 2
    BY <1>1
  <2>2. (<<w>> \o <<x>>)[1] = w /\ (<<w>> \o <<x>>)[2] = x
    BY <1>1, ConcatProperties
  <2>3. Len(<<w, x>>) = 2 /\ <<w, x>>[1] = w /\ <<w, x>>[2] = x
    OBVIOUS
  <2>4. \A i \in 1 .. 2 : i = 1 \/ i = 2
    OBVIOUS
  <2>5. \A i \in 1 .. 2 : (<<w>> \o <<x>>)[i] = <<w, x>>[i]
    BY <2>2, <2>3, <2>4
  <2> QED
    BY <1>2, <2>1, <2>3, <2>5, SeqEqual
<1>5. <<w>> \o <<x, y>> = <<w, x, y>>
  <2>1. <<w>> \o <<x, y>> \in Seq(S) /\ Len(<<w>> \o <<x, y>>) = 3
    BY <1>1
  <2>2. (<<w>> \o <<x, y>>)[1] = w /\ (<<w>> \o <<x, y>>)[2] = x /\ (<<w>> \o <<x, y>>)[3] = y
    BY <1>1, ConcatProperties
  <2>3. Len(<<w, x, y>>) = 3 /\ <<w, x, y>>[1] = w /\ <<w, x, y>>[2] = x /\ <<w, x, y>>[3] = y
    OBVIOUS
  <2>4. \A i \in 1 .. 3 : i = 1 \/ i = 2 \/ i = 3
    OBVIOUS
  <2>5. \A i \in 1 .. 3 : (<<w>> \o <<x, y>>)[i] = <<w, x, y>>[i]
    BY <2>2, <2>3, <2>4
  <2> QED
    BY <1>2, <2>1, <2>3, <2>5, SeqEqual
<1> QED
  BY <1>3, <1>4, <1>5

\* The same of a list of four.
LEMMA ListGrowsToFour ==
    ASSUME NEW w, NEW x, NEW y, NEW z
    PROVE  <<w>> \o <<x, y, z>> = <<w, x, y, z>>
<1> DEFINE S == {w, x, y, z}
<1>a. <<w>> \in Seq(S) /\ <<x, y, z>> \in Seq(S)
  OBVIOUS
<1>b. <<w, x, y, z>> \in Seq(S)
  OBVIOUS
<1>1. <<w>> \o <<x, y, z>> \in Seq(S) /\ Len(<<w>> \o <<x, y, z>>) = 4
  BY <1>a
<1>2. (<<w>> \o <<x, y, z>>)[1] = w /\ (<<w>> \o <<x, y, z>>)[2] = x /\ (<<w>> \o <<x, y, z>>)[3] = y /\ (<<w>> \o <<x, y, z>>)[4] = z
  BY <1>a, ConcatProperties
<1>3. Len(<<w, x, y, z>>) = 4 /\ <<w, x, y, z>>[1] = w /\ <<w, x, y, z>>[2] = x /\ <<w, x, y, z>>[3] = y /\ <<w, x, y, z>>[4] = z
  OBVIOUS
<1>4. \A i \in 1 .. 4 : i = 1 \/ i = 2 \/ i = 3 \/ i = 4
  OBVIOUS
<1>5. \A i \in 1 .. 4 : (<<w>> \o <<x, y, z>>)[i] = <<w, x, y, z>>[i]
  BY <1>2, <1>3, <1>4
<1> QED
  BY <1>b, <1>1, <1>3, <1>5, SeqEqual

\* The filesystem before anything is imported: what comes in front of the data.
LEMMA InitFsInv ==
    ASSUME NEW O
    PROVE  FsInv(O, fs_init) /\ \A i \in DOMAIN fs_init.extents : ~IsData(fs_init.extents[i])
<1> DEFINE S == SectorSize
           F == DivideUp(DataClusters + 2, EntriesPerSector)
           D == DataClusters * (ClusterSize \div SectorSize)
           boot == [owner |-> "boot", start |-> 0, len |-> S, type |-> "BOOT"]
           info == [owner |-> "info", start |-> S, len |-> S, type |-> "INFO"]
           backup == [owner |-> "backup", start |-> 2 * S, len |-> S, type |-> "BOOT"]
           fat == [owner |-> "fat", start |-> 3 * S, len |-> F * S, type |-> "FAT"]
           table == [c \in 0 .. FatEntries - 1 |-> FAT_ENTRY_FREE]
           f == fs_init
<1>1. /\ S \in Nat \ {0} /\ ClusterSize \in Nat \ {0} /\ EntriesPerSector \in Nat \ {0}
      /\ DataClusters \in Nat /\ FatEntries \in Nat /\ DataClusters + 2 <= FatEntries
  BY FatAssumption, TableIsLargeEnough
<1>2. F \in Nat
  BY <1>1, DivideUpCovers
<1>3. D * S = DataClusters * ClusterSize /\ D \in Nat
  <2>1. PICK q \in Nat : q = ClusterSize \div SectorSize
    BY <1>1
  <2>2. q * S = ClusterSize
    BY <2>1, SectorsOfCluster
  <2> QED
    BY <1>1, <2>1, <2>2
<1>4. f = [num_clusters |-> 2 + DataClusters, next_cluster |-> 2, fat |-> table, data_offset |-> (3 + F) * S,
           total_size |-> (3 + F + D) * S, rootdir_start |-> 0, free_clusters |-> -1,
           extents |-> <<fat, backup, info, boot>>]
  <2> DEFINE With(list) == [num_clusters |-> 2 + DataClusters, next_cluster |-> 2, fat |-> table,
                            data_offset |-> (3 + F) * S, total_size |-> (3 + F + D) * S,
                            rootdir_start |-> 0, free_clusters |-> -1, extents |-> list]
             f1 == fs_add_extent(With(<<>>), "boot", 0, S, "BOOT")
             f2 == fs_add_extent(f1, "info", S, S, "INFO")
             f3 == fs_add_extent(f2, "backup", 2 * S, S, "BOOT")
  <2>1. f = fs_add_extent(f3, "fat", 3 * S, F * S, "FAT")
    BY DEF fs_init, DataClusters, FatEntries, FAT_CLUSTER_ZERO, ReservedSectors
  <2>2. ASSUME NEW list, NEW owner, NEW start, NEW len, NEW type
        PROVE  fs_add_extent(With(list), owner, start, len, type)
                   = With(<<[owner |-> owner, start |-> start, len |-> len, type |-> type]>> \o list)
    <3>1. ASSUME NEW longer PROVE [With(list) EXCEPT !.extents = longer] = With(longer)
      <4> HIDE DEF table, F, D, S
      <4> QED
        OBVIOUS
    <3>2. With(list).extents = list
      OBVIOUS
    <3> HIDE DEF With
    <3> QED
      BY <3>1, <3>2 DEF fs_add_extent
  <2> HIDE DEF With
  <2>3. f1 = With(<<boot>> \o <<>>)
    BY <2>2
  <2>4. fs_add_extent(With(<<boot>>), "info", S, S, "INFO") = With(<<info>> \o <<boot>>)
    BY <2>2
  <2>5. fs_add_extent(With(<<info, boot>>), "backup", 2 * S, S, "BOOT") = With(<<backup>> \o <<info, boot>>)
    BY <2>2
  <2>6. fs_add_extent(With(<<backup, info, boot>>), "fat", 3 * S, F * S, "FAT")
            = With(<<fat>> \o <<backup, info, boot>>)
    BY <2>2
  <2>7. /\ <<boot>> \o <<>> = <<boot>> /\ <<info>> \o <<boot>> = <<info, boot>>
        /\ <<backup>> \o <<info, boot>> = <<backup, info, boot>>
        /\ <<fat>> \o <<backup, info, boot>> = <<fat, backup, info, boot>>
    <3> HIDE DEF boot, info, backup, fat
    <3>1. <<boot>> \o <<>> = <<boot>>
      BY ListGrows, Zenon
    <3>2. <<info>> \o <<boot>> = <<info, boot>>
      BY ListGrows, Zenon
    <3>3. <<backup>> \o <<info, boot>> = <<backup, info, boot>>
      BY ListGrows, Zenon
    <3>4. <<fat>> \o <<backup, info, boot>> = <<fat, backup, info, boot>>
      BY ListGrowsToFour, Zenon
    <3> QED
      BY <3>1, <3>2, <3>3, <3>4
  <2>8. f = With(<<fat, backup, info, boot>>)
    <3> HIDE DEF boot, info, backup, fat
    <3> QED
      BY <2>1, <2>3, <2>4, <2>5, <2>6, <2>7
  <2> QED
    BY <2>8 DEF With
<1>5. f.extents = <<fat, backup, info, boot>>
  BY <1>4
<1>6. (3 + F) * S = 3 * S + F * S /\ (3 + F + D) * S = 3 * S + F * S + D * S /\ F * S \in Nat /\ 3 * S \in Nat
  BY <1>1, <1>2, <1>3
<1>7. boot \in Extent(O) /\ info \in Extent(O) /\ backup \in Extent(O) /\ fat \in Extent(O)
  BY <1>1, <1>2, <1>6 DEF Extent
<1>8. FsTypes(O, f)
  <2>1. f.extents \in Seq(Extent(O))
    BY <1>5, <1>7
  <2>2. table \in [0 .. FatEntries - 1 -> Int]
    BY DEF FAT_ENTRY_FREE
  <2>3. (3 + F) * S \in Nat /\ (3 + F + D) * S \in Nat
    BY <1>1, <1>2, <1>3
  <2> HIDE DEF table
  <2> QED
    BY <1>1, <1>4, <2>1, <2>2, <2>3 DEF FsTypes
<1>9. /\ f.next_cluster = 2 /\ f.num_clusters = 2 + DataClusters /\ f.fat = table
      /\ f.data_offset = (3 + F) * S /\ f.total_size = (3 + F + D) * S
  BY <1>4
<1>10. f.total_size = f.data_offset + (f.num_clusters - 2) * ClusterSize
  <2>1. f.num_clusters - 2 = DataClusters
    BY <1>1, <1>9
  <2>2. PICK x \in Nat, y \in Nat, z \in Nat : x = 3 * S /\ y = F * S /\ z = D * S
    BY <1>1, <1>3, <1>6
  <2>3. f.total_size = x + y + z /\ f.data_offset = x + y /\ z = DataClusters * ClusterSize
    BY <1>3, <1>6, <1>9, <2>2
  <2> QED
    BY <2>1, <2>2, <2>3
<1>11. Frontier(f) = 3 * S + F * S
  <2>1. (f.next_cluster - 2) * ClusterSize = 0
    BY <1>1, <1>9
  <2> QED
    BY <1>1, <1>6, <1>9, <2>1 DEF Frontier
<1>12. DOMAIN f.extents = 1 .. 4 /\ f.extents[1] = fat /\ f.extents[2] = backup /\ f.extents[3] = info
       /\ f.extents[4] = boot
  BY <1>5
<1>13. \A i \in DOMAIN f.extents : ~IsData(f.extents[i]) /\ f.extents[i].start + f.extents[i].len <= Frontier(f)
  BY <1>1, <1>6, <1>11, <1>12 DEF IsData
<1>14. \A i, j \in DOMAIN f.extents : i < j => f.extents[j].start + f.extents[j].len <= f.extents[i].start
  BY <1>1, <1>6, <1>12
<1>15. \A c \in 0 .. FatEntries - 1 : f.fat[c] = FAT_ENTRY_FREE
  BY <1>9
<1> HIDE DEF f
<1>16. 2 <= f.next_cluster /\ f.next_cluster <= f.num_clusters /\ f.num_clusters <= FatEntries
  BY <1>1, <1>9
<1>17. \A c \in 0 .. FatEntries - 1 : f.fat[c] # FAT_ENTRY_FREE <=> c \in 2 .. f.next_cluster - 1
  BY <1>9, <1>15
<1>18. \A c \in 2 .. f.next_cluster - 1 : FALSE
  BY <1>9
<1>19. FsInv(O, f)
  BY <1>8, <1>10, <1>13, <1>14, <1>16, <1>17, <1>18 DEF FsInv
<1> QED
  BY <1>13, <1>19 DEF f
=============================================================================
