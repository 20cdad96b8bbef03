---------------------------- MODULE ImportProofs ----------------------------
(***************************************************************************)
(* What is proved of the import of a tree, whatever the tree is and        *)
(* whatever fails: clusters are accounted for; and until an item is freed  *)
(* twice, the lists of items are apart, the tables are the tree, and the   *)
(* process ends only for the reasons given.                                *)
(***************************************************************************)
EXTENDS Import, FatFsProofs

-----------------------------------------------------------------------------
(***************************************************************************)
(* The import.  Of its state the allocation of clusters needs only that    *)
(* the directories being read are frames with a number and a count; what   *)
(* their pointers are does not matter.                                     *)
(***************************************************************************)
IsFrame(g) ==
    /\ g = [dir |-> g.dir, items |-> g.items, item |-> g.item, count |-> g.count]
    /\ g.dir \in Nat /\ g.count \in Nat

IsStack(s) == s \in Seq({s[i] : i \in DOMAIN s}) /\ \A i \in DOMAIN s : IsFrame(s[i])

ImportInv ==
    /\ FsInv(Nat, fs)
    /\ IsStack(stack)
    /\ phase = "import" => stack # <<>>
    /\ entry \in Nat
    /\ phase = "done" => fs.free_clusters = fs.num_clusters - fs.next_cluster

\* A list of frames is a stack.
LEMMA FramesAreStack ==
    ASSUME NEW S, \A g \in S : IsFrame(g), NEW s \in Seq(S)
    PROVE  IsStack(s)
<1> DEFINE R == {s[i] : i \in DOMAIN s}
<1>1. Len(s) \in Nat /\ DOMAIN s = 1 .. Len(s) /\ s \in [1 .. Len(s) -> S]
  BY LenProperties
<1>2. s \in [1 .. Len(s) -> R]
  BY <1>1
<1>3. s \in Seq(R)
  BY <1>1, <1>2, SeqDef
<1>4. \A i \in DOMAIN s : IsFrame(s[i])
  BY <1>1
<1> QED
  BY <1>3, <1>4 DEF IsStack

\* Frames with a pointer, or a pointer and the count, changed.
LEMMA FrameChanged ==
    ASSUME NEW g, IsFrame(g), NEW x
    PROVE  /\ IsFrame([g EXCEPT !.item = x])
           /\ IsFrame([g EXCEPT !.items = x, !.count = @ + 1, !.item = NULL])
<1> DEFINE Frame(d, l, i, c) == [dir |-> d, items |-> l, item |-> i, count |-> c]
<1>1. PICK d \in Nat, c \in Nat : \E l, i : g = Frame(d, l, i, c)
  BY DEF IsFrame
<1>2. ASSUME NEW l, NEW i, NEW n \in Nat PROVE IsFrame(Frame(d, l, i, n))
  BY DEF IsFrame
<1>3. ASSUME NEW l, NEW i
      PROVE  /\ [Frame(d, l, i, c) EXCEPT !.item = x] = Frame(d, l, x, c)
             /\ [Frame(d, l, i, c) EXCEPT !.items = x, !.count = @ + 1, !.item = NULL] = Frame(d, x, NULL, c + 1)
  <2>1. [Frame(d, l, i, c) EXCEPT !.item = x] = Frame(d, l, x, c)
    OBVIOUS
  <2>2. [Frame(d, l, i, c) EXCEPT !.items = x] = Frame(d, x, i, c)
    OBVIOUS
  <2>3. [Frame(d, x, i, c) EXCEPT !.count = @ + 1] = Frame(d, x, i, c + 1)
    OBVIOUS
  <2>4. [Frame(d, x, i, c + 1) EXCEPT !.item = NULL] = Frame(d, x, NULL, c + 1)
    OBVIOUS
  <2> HIDE DEF Frame
  <2> QED
    BY <2>1, <2>2, <2>3, <2>4
<1> HIDE DEF Frame
<1>4. PICK l, i : g = Frame(d, l, i, c)
  BY <1>1
<1>5. /\ [g EXCEPT !.item = x] = Frame(d, l, x, c)
      /\ [g EXCEPT !.items = x, !.count = @ + 1, !.item = NULL] = Frame(d, x, NULL, c + 1)
  BY <1>3, <1>4
<1> QED
  BY <1>2, <1>5, c + 1 \in Nat

\* A stack whose innermost frame is replaced, and one that a directory is entered on.
LEMMA StackChanged ==
    ASSUME NEW s, IsStack(s), s # <<>>, NEW g, IsFrame(g), NEW e, IsFrame(e)
    PROVE  /\ Len(s) \in DOMAIN s /\ Len(s) \in Nat
           /\ IsStack([s EXCEPT ![Len(s)] = g]) /\ [s EXCEPT ![Len(s)] = g] # <<>>
           /\ IsStack(Append([s EXCEPT ![Len(s)] = g], e)) /\ Append([s EXCEPT ![Len(s)] = g], e) # <<>>
<1> DEFINE S == {s[i] : i \in DOMAIN s} \cup {g, e}
           t == [s EXCEPT ![Len(s)] = g]
<1>1. \A x \in S : IsFrame(x)
  BY DEF IsStack
<1>2. s \in Seq(S)
  BY SeqMonotonic DEF IsStack
<1>3. Len(s) \in 1 .. Len(s) /\ DOMAIN s = 1 .. Len(s) /\ Len(s) \in Nat
  BY <1>2, EmptySeq, LenProperties
<1>4. t \in Seq(S) /\ Len(t) = Len(s)
  BY <1>2, <1>3, ExceptSeq
<1>5. t # <<>> /\ Append(t, e) \in Seq(S) /\ Append(t, e) # <<>>
  <2> HIDE DEF t, S
  <2>1. e \in S
    BY DEF S
  <2> QED
    BY <1>3, <1>4, <2>1, AppendProperties
<1> QED
  BY <1>1, <1>3, <1>4, <1>5, FramesAreStack

\* The innermost frame.
LEMMA TopIsFrame ==
    ASSUME IsStack(stack), stack # <<>>
    PROVE  IsFrame(Top) /\ Top.dir \in Nat /\ Top.count \in Nat
<1>1. Len(stack) \in DOMAIN stack
  BY EmptySeq, LenProperties DEF IsStack
<1> QED
  BY <1>1 DEF Top, IsStack, IsFrame

\* Setting the root directory, and counting what is left.
LEMMA FsUpdated ==
    ASSUME NEW f, FsInv(Nat, f), NEW first \in Nat
    PROVE  LET g == fs_update_free_clusters(fs_set_rootdir_start(f, first))
           IN FsInv(Nat, g) /\ g.free_clusters = g.num_clusters - g.next_cluster
<1> DEFINE g == fs_update_free_clusters(fs_set_rootdir_start(f, first))
<1>1. /\ g.num_clusters = f.num_clusters /\ g.next_cluster = f.next_cluster /\ g.fat = f.fat
      /\ g.data_offset = f.data_offset /\ g.total_size = f.total_size /\ g.extents = f.extents
      /\ g.free_clusters = f.num_clusters - f.next_cluster
  BY DEF FsInv, FsTypes, fs_update_free_clusters, fs_set_rootdir_start
<1>2. FsTypes(Nat, g)
  <2>1. f.num_clusters - f.next_cluster \in Int
    BY DEF FsInv, FsTypes
  <2>2. g = [f EXCEPT !.rootdir_start = first, !.free_clusters = f.num_clusters - f.next_cluster]
    BY DEF FsInv, FsTypes, fs_update_free_clusters, fs_set_rootdir_start
  <2> HIDE DEF g
  <2> QED
    BY <2>1, <2>2 DEF FsInv, FsTypes
<1> HIDE DEF g
<1>3. Frontier(g) = Frontier(f) /\ \A e : Clusters(g, e) = Clusters(f, e)
  BY <1>1 DEF Frontier, Clusters, ClusterAt
<1>4. \A e, a, n : IsChain(g, e, a, n) <=> IsChain(f, e, a, n)
  BY <1>1 DEF IsChain
<1>5. FsInv(Nat, g)
  BY <1>1, <1>2, <1>3, <1>4 DEF FsInv
<1> QED
  BY <1>1, <1>5 DEF g

\* The return of import_dir to its caller, or to import_tree.
LEMMA ReturnInv ==
    ASSUME ImportInv, phase = "import", NEW h, NEW ok \in BOOLEAN, NEW first \in Nat, Return(h, ok, first),
           entry' = entry
    PROVE  ImportInv'
<1>1. IsFrame(Top) /\ Top.dir \in Nat /\ Top.count \in Nat
  BY TopIsFrame DEF ImportInv
<1>2. FsInv(Nat, Space.fs)
  <2>1. FsInv(Nat, fs) /\ Top.count + 2 \in Nat
    BY <1>1 DEF ImportInv
  <2> QED
    BY <1>1, <2>1, AllocInv DEF Space
<1>3. CASE Len(stack) = 1
  <2>1. /\ phase' = IF ok THEN "done" ELSE "failed"
        /\ fs' = IF ok THEN fs_update_free_clusters(fs_set_rootdir_start(Space.fs, first)) ELSE fs
        /\ stack' = <<>>
    BY <1>3 DEF Return
  <2>2. IsStack(<<>>)
    BY EmptySeq DEF IsStack
  <2>3. FsInv(Nat, fs') /\ (ok => fs'.free_clusters = fs'.num_clusters - fs'.next_cluster)
    BY <1>2, <2>1, FsUpdated DEF ImportInv
  <2> QED
    BY <2>1, <2>2, <2>3 DEF ImportInv
<1>4. CASE Len(stack) # 1
  <2> DEFINE n == Len(stack) - 1
             caller == stack[n]
             frame == [caller EXCEPT !.items = Caller, !.count = @ + 1, !.item = NULL]
             rest == SubSeq(stack, 1, n)
             S == {stack[i] : i \in DOMAIN stack}
  <2>1. /\ stack' = [rest EXCEPT ![n] = frame]
        /\ fs' = IF ok THEN Space.fs ELSE fs
        /\ phase' = phase
    BY <1>4 DEF Return, Listed
  <2>2. stack \in Seq(S) /\ stack # <<>> /\ \A g \in S : IsFrame(g)
    BY DEF ImportInv, IsStack
  <2>3. Len(stack) \in Nat /\ DOMAIN stack = 1 .. Len(stack) /\ n \in 1 .. Len(stack)
    <3>1. Len(stack) \in Nat /\ DOMAIN stack = 1 .. Len(stack) /\ Len(stack) # 0
      BY <2>2, EmptySeq, LenProperties
    <3> QED
      BY <1>4, <3>1
  <2>4. rest \in Seq(S) /\ Len(rest) = n
    BY <2>2, <2>3
  <2>5. IsFrame(frame)
    <3>1. IsFrame(caller)
      BY <2>2, <2>3
    <3> QED
      BY <3>1, FrameChanged
  <2>6. IsStack(rest) /\ rest # <<>>
    <3>1. IsStack(rest)
      BY <2>2, <2>4, FramesAreStack
    <3>2. Len(rest) # 0
      BY <2>3, <2>4
    <3> HIDE DEF rest
    <3> QED
      BY <3>1, <3>2, EmptySeq
  <2>7. IsStack(stack') /\ stack' # <<>>
    BY <2>1, <2>4, <2>5, <2>6, StackChanged
  <2> QED
    BY <1>2, <2>1, <2>7 DEF ImportInv
<1> QED
  BY <1>3, <1>4

\* Every step keeps the invariant.
LEMMA NextImportInv == ImportInv /\ [Next]_vars => ImportInv'
<1> SUFFICES ASSUME ImportInv, [Next]_vars PROVE ImportInv'
  OBVIOUS
<1>1. CASE SkipEntry
  BY <1>1 DEF SkipEntry, Reading, ImportInv
<1>2. ASSUME NEW name \in Names, NEW is_other \in BOOLEAN, SkipItem(name, is_other) PROVE ImportInv'
  <2>1. PICK x : stack' = SetTop([Top EXCEPT !.item = x])
    BY <1>2 DEF SkipItem
  <2>2. phase = "import" /\ phase' = phase /\ fs' = fs /\ entry' = entry + 1
    BY <1>2 DEF SkipItem, Reading
  <2>3. IsFrame([Top EXCEPT !.item = x])
    BY <2>2, TopIsFrame, FrameChanged DEF ImportInv
  <2>4. IsStack(stack') /\ stack' # <<>>
    BY <2>1, <2>2, <2>3, StackChanged DEF ImportInv, SetTop
  <2> QED
    BY <2>2, <2>4 DEF ImportInv
<1>3. ASSUME NEW name \in Names, NEW size \in Sizes, NEW stat_ok \in BOOLEAN, ImportFile(name, size, stat_ok)
      PROVE  ImportInv'
  <2>1. PICK x : stack' = SetTop([Top EXCEPT !.items = x, !.count = @ + 1, !.item = NULL])
    BY <1>3 DEF ImportFile, Listed
  <2>2. /\ phase = "import" /\ phase' = phase /\ entry' = entry + 1
        /\ fs' = import_file(size, stat_ok, entry + 1).fs
    BY <1>3 DEF ImportFile, Reading
  <2>3. IsFrame([Top EXCEPT !.items = x, !.count = @ + 1, !.item = NULL])
    BY <2>2, TopIsFrame, FrameChanged DEF ImportInv
  <2>4. IsStack(stack') /\ stack' # <<>>
    BY <2>1, <2>2, <2>3, StackChanged DEF ImportInv, SetTop
  <2>5. entry + 1 \in Nat /\ size % U32 \in Nat
    BY ImportAssumption DEF ImportInv
  <2>6. FsInv(Nat, fs')
    BY <2>2, <2>5, AllocInv DEF import_file, ImportInv
  <2> QED
    BY <2>2, <2>4, <2>5, <2>6 DEF ImportInv
<1>4. ASSUME NEW name \in Names, EnterDir(name) PROVE ImportInv'
  <2> DEFINE new == [dir |-> entry + 1, items |-> NULL, item |-> NULL, count |-> 0]
  <2>1. PICK x : stack' = Append(SetTop([Top EXCEPT !.item = x]), new)
    BY <1>4 DEF EnterDir
  <2>2. phase = "import" /\ phase' = phase /\ fs' = fs /\ entry' = entry + 1
    BY <1>4 DEF EnterDir, Reading
  <2>3. IsFrame([Top EXCEPT !.item = x])
    BY <2>2, TopIsFrame, FrameChanged DEF ImportInv
  <2>4. IsFrame(new)
    BY DEF ImportInv, IsFrame
  <2>5. IsStack(stack') /\ stack' # <<>>
    <3> HIDE DEF new
    <3> QED
      BY <2>1, <2>2, <2>3, <2>4, StackChanged DEF ImportInv, SetTop
  <2> QED
    BY <2>2, <2>5 DEF ImportInv
<1>5. ASSUME NEW name \in Names, EnterDirFails(name) PROVE ImportInv'
  <2>1. PICK x : stack' = SetTop([Top EXCEPT !.items = x, !.count = @ + 1, !.item = NULL])
    BY <1>5 DEF EnterDirFails, Listed
  <2>2. phase = "import" /\ phase' = phase /\ fs' = fs /\ entry' = entry + 1
    BY <1>5 DEF EnterDirFails, Reading
  <2>3. IsFrame([Top EXCEPT !.items = x, !.count = @ + 1, !.item = NULL])
    BY <2>2, TopIsFrame, FrameChanged DEF ImportInv
  <2>4. IsStack(stack') /\ stack' # <<>>
    BY <2>1, <2>2, <2>3, StackChanged DEF ImportInv, SetTop
  <2> QED
    BY <2>2, <2>4 DEF ImportInv
<1>6. CASE Crash
  BY <1>6 DEF Crash, ImportInv
<1>7. CASE LeaveDir
  <2>1. Crash \/ (entry' = entry /\ \E h : Return(h, TRUE, Space.first))
    BY <1>7 DEF LeaveDir
  <2>2. phase = "import" /\ stack # <<>>
    BY <1>7 DEF LeaveDir, ImportInv
  <2>3. Top.dir \in Nat /\ Top.count + 2 \in Nat
    BY <2>2, TopIsFrame DEF ImportInv
  <2>4. Space.first \in Nat
    BY <2>3, AllocInv DEF ImportInv, Space
  <2> QED
    BY <1>6, <2>1, <2>2, <2>4, ReturnInv
<1>8. CASE LeaveDirFull
  <2>1. Crash \/ (entry' = entry /\ \E h : Return(h, FALSE, 0))
    BY <1>8 DEF LeaveDirFull
  <2> QED
    BY <1>6, <1>8, <2>1, ReturnInv DEF LeaveDirFull
<1>9. ASSUME NEW name \in Names, OverrunHeap(name) PROVE ImportInv'
  BY <1>9 DEF OverrunHeap, ImportInv
<1>10. CASE UNCHANGED vars
  BY <1>10 DEF vars, ImportInv
<1> QED
  BY <1>1, <1>2, <1>3, <1>4, <1>5, <1>7, <1>8, <1>9, <1>10 DEF Next

\* What fs_update_free_clusters counts is the number of free clusters.
LEMMA FreeClusters ==
    ASSUME NEW f, FsInv(Nat, f)
    PROVE  Cardinality({c \in FAT_CLUSTER_ZERO .. f.num_clusters - 1 : f.fat[c] = FAT_ENTRY_FREE})
               = f.num_clusters - f.next_cluster
<1>1. /\ f.num_clusters \in Nat /\ f.next_cluster \in Nat /\ 2 <= f.next_cluster
      /\ f.next_cluster <= f.num_clusters /\ f.num_clusters <= FatEntries /\ FatEntries \in Nat
  BY TableIsLargeEnough DEF FsInv, FsTypes
<1>2. {c \in FAT_CLUSTER_ZERO .. f.num_clusters - 1 : f.fat[c] = FAT_ENTRY_FREE}
          = f.next_cluster .. f.num_clusters - 1
  <2>1. ASSUME NEW c \in 2 .. f.num_clusters - 1
        PROVE  f.fat[c] = FAT_ENTRY_FREE <=> c \in f.next_cluster .. f.num_clusters - 1
    <3>1. c \in 0 .. FatEntries - 1
      BY <1>1
    <3>2. f.fat[c] # FAT_ENTRY_FREE <=> c \in 2 .. f.next_cluster - 1
      BY <3>1 DEF FsInv
    <3> QED
      BY <1>1, <3>2
  <2>2. f.next_cluster .. f.num_clusters - 1 \subseteq 2 .. f.num_clusters - 1
    BY <1>1
  <2> QED
    BY <2>1, <2>2 DEF FAT_CLUSTER_ZERO
<1>3. Cardinality(f.next_cluster .. f.num_clusters - 1) = f.num_clusters - f.next_cluster
  <2>1. PICK a \in Int, b \in Int : a = f.next_cluster /\ b = f.num_clusters - 1
    BY <1>1
  <2>2. Cardinality(a .. b) = IF a > b THEN 0 ELSE b - a + 1
    BY FS_Interval
  <2> QED
    BY <1>1, <2>1, <2>2
<1> QED
  BY <1>2, <1>3

LEMMA InitImportInv == Init => ImportInv
<1> SUFFICES ASSUME Init PROVE ImportInv
  OBVIOUS
<1> DEFINE frame == [dir |-> 0, items |-> NULL, item |-> NULL, count |-> 0]
<1>1. stack = <<frame>> /\ phase = "import" /\ entry = 0 /\ FsInv(Nat, fs)
  BY InitFsInv DEF Init
<1>2. IsFrame(frame)
  BY DEF IsFrame
<1> HIDE DEF frame
<1>3. stack \in Seq({frame}) /\ stack # <<>>
  BY <1>1
<1>4. IsStack(stack)
  BY <1>2, <1>3, FramesAreStack
<1> QED
  BY <1>1, <1>3, <1>4 DEF ImportInv

\* Whatever is in the tree and whatever fails: the extents are on the device and apart, the FAT
\* chains their clusters and no others, and the number of free clusters is right at the end.
THEOREM ClustersAccountedAlways == Spec => []ClustersAccounted
<1>1. ImportInv => ClustersAccounted
  BY FsInvApart, FsInvChains, FreeClusters DEF ImportInv, ClustersAccounted
<1> QED
  BY <1>1, InitImportInv, NextImportInv, PTL DEF Spec

-----------------------------------------------------------------------------
(***************************************************************************)
(* The lists of items.  Every item has a list, 0 being the list of free    *)
(* items, k the one of the directory stack[k], and NoList none; and a      *)
(* rank in it, the number of items from this one to the end.  Pointers     *)
(* lead to the next lower rank, ranks are not shared, and the item with    *)
(* the highest one is the head of its list.                                *)
(***************************************************************************)
NoList == -1

\* Item i of a heap of n items with the pointers nx, in a list of at most sz[lst[i]] items.
InList(n, nx, sz, lst, rk, i) ==
    /\ rk[i] >= 1 /\ rk[i] <= sz[lst[i]]
    /\ rk[i] = 1 => nx[i] = NULL
    /\ rk[i] > 1 => nx[i] \in 1 .. n /\ lst[nx[i]] = lst[i] /\ rk[nx[i]] = rk[i] - 1

IsHead(n, heads, sz, lst, rk, k) ==
    /\ sz[k] \in Nat
    /\ sz[k] = 0 => heads[k] = NULL
    /\ sz[k] > 0 => heads[k] \in 1 .. n /\ lst[heads[k]] = k /\ rk[heads[k]] = sz[k]

Shape(n, nx, K, heads, sz, lst, rk) ==
    /\ n \in Nat /\ K \in Nat
    /\ \A i \in 1 .. n : lst[i] \in -1 .. K /\ rk[i] \in Nat
    /\ \A i \in 1 .. n : lst[i] # NoList => InList(n, nx, sz, lst, rk, i)
    /\ \A i, j \in 1 .. n : lst[i] # NoList /\ lst[i] = lst[j] /\ rk[i] = rk[j] => i = j
    /\ \A k \in 0 .. K : IsHead(n, heads, sz, lst, rk, k)

\* g is f, but for x at i.
Changed(f, S, i, x, g) == g[i] = x /\ \A j \in S : j # i => g[j] = f[j]

\* The head of list k leaves it.
LEMMA PopShape ==
    ASSUME NEW n, NEW nx, NEW K, NEW heads, NEW sz, NEW lst, NEW rk, Shape(n, nx, K, heads, sz, lst, rk),
           NEW k \in 0 .. K, sz[k] > 0,
           NEW heads2, Changed(heads, 0 .. K, k, nx[heads[k]], heads2),
           NEW sz2, Changed(sz, 0 .. K, k, sz[k] - 1, sz2),
           NEW lst2, Changed(lst, 1 .. n, heads[k], NoList, lst2)
    PROVE  Shape(n, nx, K, heads2, sz2, lst2, rk)
<1> DEFINE x == heads[k]
<1>1. /\ n \in Nat /\ K \in Nat /\ sz[k] \in Nat
      /\ x \in 1 .. n /\ lst[x] = k /\ rk[x] = sz[k] /\ k # NoList
      /\ \A i \in 1 .. n : lst[i] \in -1 .. K /\ rk[i] \in Nat
  BY DEF Shape, IsHead, NoList
<1>2. InList(n, nx, sz, lst, rk, x)
  BY <1>1 DEF Shape
<1>3. /\ heads2[k] = nx[x] /\ \A j \in 0 .. K : j # k => heads2[j] = heads[j]
      /\ sz2[k] = sz[k] - 1 /\ \A j \in 0 .. K : j # k => sz2[j] = sz[j]
      /\ lst2[x] = NoList /\ \A j \in 1 .. n : j # x => lst2[j] = lst[j]
  BY DEF Changed
<1>4. \A i, j \in 1 .. n : lst[i] # NoList /\ lst[i] = lst[j] /\ rk[i] = rk[j] => i = j
  BY DEF Shape
<1> HIDE DEF x
<1>5. ASSUME NEW i \in 1 .. n, lst2[i] # NoList PROVE InList(n, nx, sz2, lst2, rk, i)
  <2>1. i # x /\ lst2[i] = lst[i] /\ InList(n, nx, sz, lst, rk, i) /\ lst[i] \in 0 .. K
    BY <1>1, <1>3, <1>5 DEF Shape, NoList
  <2>2. rk[i] <= sz2[lst2[i]]
    <3>1. CASE lst[i] = k
      <4>1. rk[i] # rk[x]
        BY <1>1, <1>4, <2>1, <3>1
      <4> QED
        BY <1>1, <1>3, <2>1, <3>1, <4>1 DEF InList
    <3>2. CASE lst[i] # k
      BY <1>3, <2>1, <3>2 DEF InList
    <3> QED
      BY <3>1, <3>2
  <2>3. ASSUME rk[i] > 1 PROVE nx[i] # x
    <3>1. CASE lst[i] = k
      <4>1. rk[nx[i]] = rk[i] - 1 /\ rk[i] <= sz[k]
        BY <2>1, <2>3, <3>1 DEF InList
      <4> QED
        BY <1>1, <4>1
    <3>2. CASE lst[i] # k
      BY <1>1, <2>1, <2>3, <3>2 DEF InList
    <3> QED
      BY <3>1, <3>2
  <2> QED
    BY <1>3, <2>1, <2>2, <2>3 DEF InList
<1>6. ASSUME NEW j \in 0 .. K PROVE IsHead(n, heads2, sz2, lst2, rk, j)
  <2>0. IsHead(n, heads, sz, lst, rk, j)
    BY DEF Shape
  <2>1. CASE j # k
    <3>1. sz[j] > 0 => heads[j] # x
      BY <1>1, <2>0, <2>1 DEF IsHead
    <3> QED
      BY <1>3, <2>0, <2>1, <3>1 DEF IsHead
  <2>2. CASE j = k
    <3>1. CASE sz[k] = 1
      BY <1>1, <1>2, <1>3, <2>2, <3>1 DEF InList, IsHead
    <3>2. CASE sz[k] > 1
      <4>1. nx[x] \in 1 .. n /\ lst[nx[x]] = k /\ rk[nx[x]] = sz[k] - 1
        BY <1>1, <1>2, <3>2 DEF InList
      <4>2. nx[x] # x
        BY <1>1, <4>1
      <4> QED
        BY <1>1, <1>3, <2>2, <3>2, <4>1, <4>2 DEF IsHead
    <3> QED
      BY <1>1, <3>1, <3>2
  <2> QED
    BY <2>1, <2>2
<1>7. \A i \in 1 .. n : lst2[i] \in -1 .. K
  BY <1>1, <1>3 DEF NoList
<1>8. \A i, j \in 1 .. n : lst2[i] # NoList /\ lst2[i] = lst2[j] /\ rk[i] = rk[j] => i = j
  BY <1>3, <1>4
<1> QED
  BY <1>1, <1>5, <1>6, <1>7, <1>8 DEF Shape

\* Item x, in no list, becomes the head of list k.
LEMMA PushShape ==
    ASSUME NEW n, NEW nx, NEW K, NEW heads, NEW sz, NEW lst, NEW rk, Shape(n, nx, K, heads, sz, lst, rk),
           NEW k \in 0 .. K, NEW x \in 1 .. n, lst[x] = NoList,
           NEW nx2, Changed(nx, 1 .. n, x, heads[k], nx2),
           NEW heads2, Changed(heads, 0 .. K, k, x, heads2),
           NEW sz2, Changed(sz, 0 .. K, k, sz[k] + 1, sz2),
           NEW lst2, Changed(lst, 1 .. n, x, k, lst2),
           NEW rk2, Changed(rk, 1 .. n, x, sz[k] + 1, rk2)
    PROVE  Shape(n, nx2, K, heads2, sz2, lst2, rk2)
<1>1. /\ n \in Nat /\ K \in Nat /\ sz[k] \in Nat /\ k # NoList
      /\ \A i \in 1 .. n : lst[i] \in -1 .. K /\ rk[i] \in Nat
      /\ IsHead(n, heads, sz, lst, rk, k)
  BY DEF Shape, IsHead, NoList
<1>2. /\ heads2[k] = x /\ \A j \in 0 .. K : j # k => heads2[j] = heads[j]
      /\ sz2[k] = sz[k] + 1 /\ \A j \in 0 .. K : j # k => sz2[j] = sz[j]
      /\ lst2[x] = k /\ \A j \in 1 .. n : j # x => lst2[j] = lst[j]
      /\ nx2[x] = heads[k] /\ \A j \in 1 .. n : j # x => nx2[j] = nx[j]
      /\ rk2[x] = sz[k] + 1 /\ \A j \in 1 .. n : j # x => rk2[j] = rk[j]
  BY DEF Changed
<1>3. ASSUME NEW i \in 1 .. n, lst2[i] # NoList PROVE InList(n, nx2, sz2, lst2, rk2, i)
  <2>1. CASE i = x
    <3>1. CASE sz[k] = 0
      BY <1>1, <1>2, <2>1, <3>1 DEF InList, IsHead
    <3>2. CASE sz[k] > 0
      <4>1. heads[k] \in 1 .. n /\ lst[heads[k]] = k /\ rk[heads[k]] = sz[k] /\ heads[k] # x
        BY <1>1, <3>2 DEF IsHead
      <4>2. nx2[i] \in 1 .. n /\ lst2[nx2[i]] = lst2[i] /\ rk2[nx2[i]] = sz[k]
        BY <1>2, <2>1, <4>1
      <4>3. rk2[i] = sz[k] + 1 /\ sz2[lst2[i]] = sz[k] + 1
        BY <1>2, <2>1
      <4>4. /\ rk2[i] >= 1 /\ rk2[i] <= sz2[lst2[i]] /\ rk2[i] # 1 /\ rk2[nx2[i]] = rk2[i] - 1
        BY <1>1, <3>2, <4>2, <4>3
      <4> QED
        BY <4>2, <4>4 DEF InList
    <3> QED
      BY <1>1, <3>1, <3>2
  <2>2. CASE i # x
    <3>1. /\ lst2[i] = lst[i] /\ rk2[i] = rk[i] /\ nx2[i] = nx[i] /\ InList(n, nx, sz, lst, rk, i)
          /\ lst[i] \in 0 .. K
      BY <1>1, <1>2, <1>3, <2>2 DEF Shape, NoList
    <3>2. rk[i] > 1 => nx[i] # x
      BY <1>3, <3>1 DEF InList
    <3>3. sz2[lst[i]] >= sz[lst[i]] /\ sz[lst[i]] \in Nat /\ sz2[lst[i]] \in Nat
      BY <1>1, <1>2, <3>1 DEF Shape, IsHead
    <3>4. rk2[i] >= 1 /\ rk2[i] <= sz2[lst2[i]]
      <4>1. rk[i] \in Nat /\ rk[i] >= 1 /\ rk[i] <= sz[lst[i]]
        BY <1>1, <3>1 DEF InList
      <4> QED
        BY <3>1, <3>3, <4>1
    <3>5. rk2[i] = 1 => nx2[i] = NULL
      BY <3>1 DEF InList
    <3>6. rk2[i] > 1 => nx2[i] \in 1 .. n /\ lst2[nx2[i]] = lst2[i] /\ rk2[nx2[i]] = rk2[i] - 1
      BY <1>2, <3>1, <3>2 DEF InList
    <3> QED
      BY <3>4, <3>5, <3>6 DEF InList
  <2> QED
    BY <2>1, <2>2
<1>4. ASSUME NEW j \in 0 .. K PROVE IsHead(n, heads2, sz2, lst2, rk2, j)
  <2>0. IsHead(n, heads, sz, lst, rk, j)
    BY DEF Shape
  <2>1. CASE j # k
    <3>1. sz[j] > 0 => heads[j] # x
      BY <2>0 DEF IsHead, NoList
    <3> QED
      BY <1>2, <2>0, <2>1, <3>1 DEF IsHead
  <2>2. CASE j = k
    BY <1>1, <1>2, <2>2 DEF IsHead
  <2> QED
    BY <2>1, <2>2
<1>5. ASSUME NEW i \in 1 .. n PROVE lst2[i] \in -1 .. K /\ rk2[i] \in Nat
  <2>1. CASE i = x
    BY <1>1, <1>2, <2>1
  <2>2. CASE i # x
    BY <1>1, <1>2, <2>2
  <2> QED
    BY <2>1, <2>2
<1>6. ASSUME NEW i \in 1 .. n, NEW j \in 1 .. n, lst2[i] # NoList, lst2[i] = lst2[j], rk2[i] = rk2[j], i # j
      PROVE  FALSE
  <2>1. ASSUME NEW a \in 1 .. n, NEW b \in 1 .. n, a = x, b # x, lst2[a] = lst2[b], rk2[a] = rk2[b] PROVE FALSE
    <3>1. lst[b] = k /\ rk[b] = sz[k] + 1
      BY <1>2, <2>1
    <3>2. rk[b] <= sz[k]
      BY <1>1, <3>1 DEF Shape, InList
    <3> QED
      BY <1>1, <3>1, <3>2
  <2>2. CASE i # x /\ j # x
    BY <1>2, <1>6, <2>2 DEF Shape
  <2> QED
    BY <1>6, <2>1, <2>2
<1> QED
  BY <1>1, <1>3, <1>4, <1>5, <1>6 DEF Shape

\* A new item, in no list.
LEMMA GrowShape ==
    ASSUME NEW n, NEW nx, NEW K, NEW heads, NEW sz, NEW lst, NEW rk, Shape(n, nx, K, heads, sz, lst, rk),
           NEW nx2, \A i \in 1 .. n : nx2[i] = nx[i],
           NEW lst2, Changed(lst, 1 .. n, n + 1, NoList, lst2),
           NEW rk2, Changed(rk, 1 .. n, n + 1, 0, rk2)
    PROVE  Shape(n + 1, nx2, K, heads, sz, lst2, rk2)
<1>1. n \in Nat /\ K \in Nat /\ (\A i \in 1 .. n : lst[i] \in -1 .. K /\ rk[i] \in Nat)
  BY DEF Shape
<1>2. /\ 1 .. n + 1 = (1 .. n) \cup {n + 1} /\ n + 1 \notin 1 .. n
      /\ lst2[n + 1] = NoList /\ rk2[n + 1] = 0
      /\ \A i \in 1 .. n : lst2[i] = lst[i] /\ rk2[i] = rk[i] /\ nx2[i] = nx[i]
  BY <1>1 DEF Changed
<1>3. ASSUME NEW i \in 1 .. n + 1, lst2[i] # NoList PROVE InList(n + 1, nx2, sz, lst2, rk2, i)
  <2>1. i \in 1 .. n /\ InList(n, nx, sz, lst, rk, i)
    BY <1>2, <1>3 DEF Shape
  <2> QED
    BY <1>2, <2>1 DEF InList
<1>4. ASSUME NEW k \in 0 .. K PROVE IsHead(n + 1, heads, sz, lst2, rk2, k)
  <2>1. IsHead(n, heads, sz, lst, rk, k)
    BY DEF Shape
  <2> QED
    BY <1>2, <2>1 DEF IsHead
<1>5. \A i \in 1 .. n + 1 : lst2[i] \in -1 .. K /\ rk2[i] \in Nat
  BY <1>1, <1>2 DEF NoList
<1>6. \A i, j \in 1 .. n + 1 : lst2[i] # NoList /\ lst2[i] = lst2[j] /\ rk2[i] = rk2[j] => i = j
  BY <1>2 DEF Shape
<1> QED
  BY <1>1, <1>3, <1>4, <1>5, <1>6 DEF Shape

\* A directory is entered, with an empty list.
LEMMA EnterShape ==
    ASSUME NEW n, NEW nx, NEW K, NEW heads, NEW sz, NEW lst, NEW rk, Shape(n, nx, K, heads, sz, lst, rk),
           NEW heads2, Changed(heads, 0 .. K, K + 1, NULL, heads2),
           NEW sz2, Changed(sz, 0 .. K, K + 1, 0, sz2)
    PROVE  Shape(n, nx, K + 1, heads2, sz2, lst, rk)
<1>1. n \in Nat /\ K \in Nat /\ (\A i \in 1 .. n : lst[i] \in -1 .. K /\ rk[i] \in Nat)
  BY DEF Shape
<1>2. /\ 0 .. K + 1 = (0 .. K) \cup {K + 1} /\ K + 1 \notin 0 .. K
      /\ heads2[K + 1] = NULL /\ sz2[K + 1] = 0
      /\ \A k \in 0 .. K : heads2[k] = heads[k] /\ sz2[k] = sz[k]
  BY <1>1 DEF Changed
<1>3. ASSUME NEW i \in 1 .. n, lst[i] # NoList PROVE InList(n, nx, sz2, lst, rk, i)
  <2>1. lst[i] \in 0 .. K /\ InList(n, nx, sz, lst, rk, i)
    BY <1>1, <1>3 DEF Shape, NoList
  <2> QED
    BY <1>2, <2>1 DEF InList
<1>4. ASSUME NEW k \in 0 .. K + 1 PROVE IsHead(n, heads2, sz2, lst, rk, k)
  <2>1. CASE k \in 0 .. K
    <3>1. IsHead(n, heads, sz, lst, rk, k)
      BY <2>1 DEF Shape
    <3> QED
      BY <1>2, <2>1, <3>1 DEF IsHead
  <2>2. CASE k = K + 1
    BY <1>2, <2>2 DEF IsHead
  <2> QED
    BY <1>2, <2>1, <2>2
<1>5. K + 1 \in Nat /\ \A i \in 1 .. n : lst[i] \in -1 .. K + 1
  BY <1>1
<1> QED
  BY <1>1, <1>3, <1>4, <1>5 DEF Shape

\* A directory is left when its list is empty.
LEMMA LeaveShape ==
    ASSUME NEW n, NEW nx, NEW K, NEW heads, NEW sz, NEW lst, NEW rk, Shape(n, nx, K, heads, sz, lst, rk),
           K > 0, sz[K] = 0
    PROVE  Shape(n, nx, K - 1, heads, sz, lst, rk)
<1>1. n \in Nat /\ K \in Nat /\ (\A i \in 1 .. n : lst[i] \in -1 .. K /\ rk[i] \in Nat)
  BY DEF Shape
<1>2. \A i \in 1 .. n : lst[i] # K
  BY <1>1 DEF Shape, InList, NoList
<1>3. K - 1 \in Nat /\ (\A i \in 1 .. n : lst[i] \in -1 .. K - 1) /\ 0 .. K - 1 \subseteq 0 .. K
  BY <1>1, <1>2
<1> QED
  BY <1>1, <1>3 DEF Shape

\* The list K becomes part of the list 0, in front of it.
Merged(n, K, lst, lst2) == \A i \in 1 .. n : lst2[i] = IF lst[i] = K THEN 0 ELSE lst[i]
Raised(n, K, lst, rk, by, rk2) == \A i \in 1 .. n : rk2[i] = IF lst[i] = K THEN rk[i] + by ELSE rk[i]

\* A directory is left, and its items are put in front of the free ones.
LEMMA JoinShape ==
    ASSUME NEW n, NEW nx, NEW K, NEW heads, NEW sz, NEW lst, NEW rk, Shape(n, nx, K, heads, sz, lst, rk),
           K > 0, sz[K] > 0, NEW t \in 1 .. n, lst[t] = K, rk[t] = 1,
           NEW nx2, Changed(nx, 1 .. n, t, heads[0], nx2),
           NEW heads2, Changed(heads, 0 .. K - 1, 0, heads[K], heads2),
           NEW sz2, Changed(sz, 0 .. K - 1, 0, sz[0] + sz[K], sz2),
           NEW lst2, Merged(n, K, lst, lst2),
           NEW rk2, Raised(n, K, lst, rk, sz[0], rk2)
    PROVE  Shape(n, nx2, K - 1, heads2, sz2, lst2, rk2)
<1> USE DEF Merged, Raised
<1>1. /\ n \in Nat /\ K \in Nat /\ K - 1 \in Nat /\ 0 # NoList /\ K # NoList
      /\ \A i \in 1 .. n : lst[i] \in -1 .. K /\ rk[i] \in Nat
  BY DEF Shape, NoList
<1>2. /\ IsHead(n, heads, sz, lst, rk, 0) /\ IsHead(n, heads, sz, lst, rk, K)
      /\ sz[0] \in Nat /\ sz[K] \in Nat
  BY <1>1 DEF Shape, IsHead
<1>3. /\ nx2[t] = heads[0] /\ \A j \in 1 .. n : j # t => nx2[j] = nx[j]
      /\ heads2[0] = heads[K] /\ \A j \in 0 .. K - 1 : j # 0 => heads2[j] = heads[j]
      /\ sz2[0] = sz[0] + sz[K] /\ \A j \in 0 .. K - 1 : j # 0 => sz2[j] = sz[j]
  BY DEF Changed
<1>4. \A i \in 1 .. n : lst[i] # NoList => InList(n, nx, sz, lst, rk, i)
  BY DEF Shape
<1>5. \A i, j \in 1 .. n : lst[i] # NoList /\ lst[i] = lst[j] /\ rk[i] = rk[j] => i = j
  BY DEF Shape
<1>6. ASSUME NEW i \in 1 .. n PROVE lst2[i] \in -1 .. K - 1 /\ rk2[i] \in Nat
  <2>1. CASE lst[i] = K
    <3>1. lst2[i] = 0 /\ rk2[i] = rk[i] + sz[0] /\ rk[i] \in Nat
      BY <1>1, <2>1
    <3> QED
      BY <1>1, <1>2, <3>1
  <2>2. CASE lst[i] # K
    <3>1. lst2[i] = lst[i] /\ rk2[i] = rk[i]
      BY <2>2
    <3> QED
      BY <1>1, <2>2, <3>1
  <2> QED
    BY <2>1, <2>2
<1>7. ASSUME NEW i \in 1 .. n, lst2[i] # NoList PROVE InList(n, nx2, sz2, lst2, rk2, i)
  <2>1. CASE lst[i] = K /\ i # t
    <3>1. lst2[i] = 0 /\ rk2[i] = rk[i] + sz[0] /\ nx2[i] = nx[i] /\ InList(n, nx, sz, lst, rk, i)
      BY <1>1, <1>3, <1>4, <2>1
    <3>2. rk[i] # 1
      BY <1>1, <1>5, <2>1
    <3>3. /\ rk[i] \in Nat /\ rk[i] > 1 /\ rk[i] <= sz[K]
          /\ nx[i] \in 1 .. n /\ lst[nx[i]] = K /\ rk[nx[i]] = rk[i] - 1
      BY <1>1, <2>1, <3>1, <3>2 DEF InList
    <3>4. lst2[nx[i]] = 0 /\ rk2[nx[i]] = (rk[i] - 1) + sz[0]
      BY <3>3
    <3>5. /\ rk2[i] >= 1 /\ rk2[i] <= sz2[0] /\ rk2[i] # 1 /\ rk2[nx[i]] = rk2[i] - 1
      <4> PICK a \in Nat, b \in Nat, c \in Nat : a = rk[i] /\ b = sz[0] /\ c = sz[K]
        BY <1>2, <3>3
      <4>2. a > 1 /\ a <= c
        BY <3>3
      <4> HIDE DEF Merged, Raised
      <4>1. a + b >= 1 /\ a + b <= b + c /\ a + b # 1 /\ (a - 1) + b = (a + b) - 1
        BY <4>2
      <4> QED
        BY <1>3, <3>1, <3>4, <4>1
    <3> QED
      BY <3>1, <3>3, <3>4, <3>5 DEF InList
  <2>2. CASE i = t
    <3>1. lst2[i] = 0 /\ rk2[i] = 1 + sz[0] /\ nx2[i] = heads[0]
      BY <1>3, <2>2
    <3>2. rk2[i] >= 1 /\ rk2[i] <= sz2[0]
      BY <1>2, <1>3, <3>1
    <3>3. CASE sz[0] = 0
      BY <1>2, <3>1, <3>2, <3>3 DEF InList, IsHead
    <3>4. CASE sz[0] > 0
      <4>1. heads[0] \in 1 .. n /\ lst[heads[0]] = 0 /\ rk[heads[0]] = sz[0]
        BY <1>2, <3>4 DEF IsHead
      <4>2. lst2[heads[0]] = 0 /\ rk2[heads[0]] = sz[0]
        BY <1>1, <4>1
      <4>3. rk2[i] # 1 /\ rk2[heads[0]] = rk2[i] - 1
        BY <1>2, <3>1, <3>4, <4>2
      <4> QED
        BY <3>1, <3>2, <4>1, <4>2, <4>3 DEF InList
    <3> QED
      BY <1>2, <3>3, <3>4
  <2>3. CASE lst[i] # K
    <3>1. /\ lst2[i] = lst[i] /\ rk2[i] = rk[i] /\ nx2[i] = nx[i] /\ InList(n, nx, sz, lst, rk, i)
          /\ lst[i] \in 0 .. K - 1
      <4>1. i # t /\ lst2[i] = lst[i] /\ rk2[i] = rk[i]
        BY <2>3
      <4>2. nx2[i] = nx[i] /\ InList(n, nx, sz, lst, rk, i)
        BY <1>3, <1>4, <1>7, <4>1
      <4> QED
        BY <1>1, <1>7, <2>3, <4>1, <4>2 DEF NoList
    <3>2. sz2[lst[i]] >= sz[lst[i]] /\ sz[lst[i]] \in Nat /\ sz2[lst[i]] \in Nat
      <4>1. CASE lst[i] = 0
        BY <1>2, <1>3, <4>1
      <4>2. CASE lst[i] # 0
        <5>1. lst[i] \in 0 .. K /\ sz2[lst[i]] = sz[lst[i]]
          BY <1>1, <1>3, <3>1, <4>2
        <5>2. sz[lst[i]] \in Nat
          BY <5>1 DEF Shape, IsHead
        <5> QED
          BY <5>1, <5>2
      <4> QED
        BY <4>1, <4>2
    <3>3. rk[i] >= 1 /\ rk[i] <= sz2[lst[i]]
      <4>1. rk[i] \in Nat /\ rk[i] >= 1 /\ rk[i] <= sz[lst[i]]
        BY <1>1, <3>1 DEF InList
      <4> QED
        BY <3>2, <4>1
    <3>4. rk[i] > 1 => nx[i] \in 1 .. n /\ lst2[nx[i]] = lst2[i] /\ rk2[nx[i]] = rk[i] - 1
      BY <2>3, <3>1 DEF InList
    <3>5. rk[i] = 1 => nx[i] = NULL
      BY <3>1 DEF InList
    <3> QED
      BY <3>1, <3>3, <3>4, <3>5 DEF InList
  <2> QED
    BY <2>1, <2>2, <2>3
<1>8. ASSUME NEW k \in 0 .. K - 1 PROVE IsHead(n, heads2, sz2, lst2, rk2, k)
  <2>1. CASE k = 0
    <3>1. heads[K] \in 1 .. n /\ lst[heads[K]] = K /\ rk[heads[K]] = sz[K]
      BY <1>2 DEF IsHead
    <3>2. lst2[heads[K]] = 0 /\ rk2[heads[K]] = sz[K] + sz[0]
      BY <3>1
    <3>3. sz[0] + sz[K] \in Nat /\ sz[0] + sz[K] # 0 /\ sz[K] + sz[0] = sz[0] + sz[K]
      BY <1>2
    <3> QED
      BY <1>3, <2>1, <3>1, <3>2, <3>3 DEF IsHead
  <2>2. CASE k # 0
    <3>1. k \in 0 .. K /\ k # K
      BY <1>1
    <3>2. IsHead(n, heads, sz, lst, rk, k) /\ sz2[k] = sz[k] /\ heads2[k] = heads[k]
      BY <1>3, <2>2, <3>1 DEF Shape
    <3> QED
      BY <3>1, <3>2 DEF IsHead
  <2> QED
    BY <2>1, <2>2
<1>9. ASSUME NEW i \in 1 .. n, NEW j \in 1 .. n, lst2[i] # NoList, lst2[i] = lst2[j], rk2[i] = rk2[j] PROVE i = j
  <2>1. ASSUME NEW a \in 1 .. n, NEW b \in 1 .. n, lst[a] = K, lst[b] # K, lst2[a] = lst2[b], rk2[a] = rk2[b]
        PROVE  FALSE
    <3>1. lst[b] = 0 /\ rk[b] = rk[a] + sz[0] /\ rk[a] \in Nat
      BY <1>1, <2>1
    <3>2. rk[b] <= sz[0] /\ rk[a] >= 1
      BY <1>1, <1>4, <2>1, <3>1 DEF InList
    <3> QED
      BY <1>2, <3>1, <3>2
  <2>2. CASE lst[i] = K /\ lst[j] = K
    <3>1. rk[i] + sz[0] = rk[j] + sz[0]
      BY <1>9, <2>2
    <3>2. rk[i] = rk[j]
      BY <1>1, <1>2, <3>1
    <3> QED
      BY <1>1, <1>5, <2>2, <3>2
  <2>3. CASE lst[i] # K /\ lst[j] # K
    BY <1>5, <1>9, <2>3
  <2> QED
    BY <1>9, <2>1, <2>2, <2>3
<1> QED
  BY <1>1, <1>6, <1>7, <1>8, <1>9 DEF Shape

\* Every rank up to the length of a list is taken.
LEMMA RanksTaken ==
    ASSUME NEW n, NEW nx, NEW K, NEW heads, NEW sz, NEW lst, NEW rk, Shape(n, nx, K, heads, sz, lst, rk),
           NEW k \in 0 .. K
    PROVE  \A r \in 1 .. sz[k] : \E i \in 1 .. n : lst[i] = k /\ rk[i] = r
<1>1. /\ IsHead(n, heads, sz, lst, rk, k) /\ sz[k] \in Nat /\ k # NoList
      /\ \A i \in 1 .. n : lst[i] # NoList => InList(n, nx, sz, lst, rk, i)
  BY DEF Shape, IsHead, NoList
<1> DEFINE T == {d \in Nat : d < sz[k] => \E i \in 1 .. n : lst[i] = k /\ rk[i] = sz[k] - d}
<1>2. 0 \in T
  BY <1>1 DEF IsHead
<1>3. ASSUME NEW d \in Nat, d \in T PROVE d + 1 \in T
  <2> SUFFICES ASSUME d + 1 < sz[k] PROVE \E i \in 1 .. n : lst[i] = k /\ rk[i] = sz[k] - (d + 1)
    OBVIOUS
  <2>1. PICK i \in 1 .. n : lst[i] = k /\ rk[i] = sz[k] - d
    BY <1>1, <1>3
  <2>2. rk[i] > 1 /\ InList(n, nx, sz, lst, rk, i)
    BY <1>1, <2>1
  <2>3. nx[i] \in 1 .. n /\ lst[nx[i]] = k /\ rk[nx[i]] = rk[i] - 1
    BY <2>1, <2>2 DEF InList
  <2>4. rk[nx[i]] = sz[k] - (d + 1)
    BY <1>1, <2>1, <2>3
  <2> QED
    BY <2>3, <2>4
<1> HIDE DEF T
<1>4. Nat \subseteq T
  BY <1>2, <1>3, Induction
<1> TAKE r \in 1 .. sz[k]
<1>5. sz[k] - r \in T /\ sz[k] - r < sz[k] /\ sz[k] - (sz[k] - r) = r
  BY <1>1, <1>4
<1> QED
  BY <1>5 DEF T

\* A list has as many items as its length says, and not more than there are.
LEMMA ListCount ==
    ASSUME NEW n, NEW nx, NEW K, NEW heads, NEW sz, NEW lst, NEW rk, Shape(n, nx, K, heads, sz, lst, rk),
           NEW k \in 0 .. K
    PROVE  Cardinality({i \in 1 .. n : lst[i] = k}) = sz[k] /\ sz[k] <= n
<1> DEFINE M == {i \in 1 .. n : lst[i] = k}
           f == [i \in M |-> rk[i]]
<1>1. n \in Nat /\ k # NoList /\ sz[k] \in Nat
  BY DEF Shape, IsHead, NoList
<1>2. \A i \in M : rk[i] \in 1 .. sz[k]
  BY <1>1 DEF Shape, InList
<1>3. \A i, j \in M : rk[i] = rk[j] => i = j
  BY <1>1 DEF Shape
<1>4. \A r \in 1 .. sz[k] : \E i \in M : rk[i] = r
  BY RanksTaken
<1>5. IsFiniteSet(1 .. n) /\ Cardinality(1 .. n) = n /\ M \subseteq 1 .. n
  <2>1. PICK m \in Nat : m = n
    BY <1>1
  <2>2. IsFiniteSet(1 .. m) /\ Cardinality(1 .. m) = IF 1 > m THEN 0 ELSE m - 1 + 1
    BY FS_Interval
  <2> QED
    BY <2>1, <2>2
<1>6. IsFiniteSet(M) /\ Cardinality(M) <= n
  BY <1>5, FS_Subset
<1> HIDE DEF M
<1>7. f \in [M -> 1 .. sz[k]] /\ \A i \in M : f[i] = rk[i]
  BY <1>2
<1> HIDE DEF f
<1>8. f \in Bijection(M, 1 .. sz[k])
  BY <1>3, <1>4, <1>7 DEF Bijection, Injection, Surjection, IsInjective
<1>9. Cardinality(1 .. sz[k]) = Cardinality(M)
  BY <1>6, <1>8, FS_Bijection DEF ExistsBijection
<1>10. Cardinality(1 .. sz[k]) = sz[k]
  <2>1. PICK m \in Nat : m = sz[k]
    BY <1>1
  <2>2. Cardinality(1 .. m) = IF 1 > m THEN 0 ELSE m - 1 + 1
    BY FS_Interval
  <2> QED
    BY <2>1, <2>2
<1> QED
  BY <1>6, <1>9, <1>10 DEF M

\* The pointers of a heap.
Links(h, n, nx) == Len(h) = n /\ \A i \in 1 .. n : h[i].next = nx[i]

\* The walk from the head of a list ends and meets the items of the list and no others.
LEMMA WalkShape ==
    ASSUME NEW n, NEW nx, NEW K, NEW heads, NEW sz, NEW lst, NEW rk, Shape(n, nx, K, heads, sz, lst, rk),
           NEW k \in 0 .. K, NEW h, Links(h, n, nx), NEW head, head = heads[k]
    PROVE  Ends(h, head) /\ Members(h, head) = {i \in 1 .. n : lst[i] = k}
<1> DEFINE Walk(a) == a = [i \in 0 .. Len(h) |-> IF i = 0 THEN head ELSE IF a[i - 1] <= 0 THEN NULL ELSE h[a[i - 1]].next]
           at == CHOOSE a : Walk(a)
           Item(j) == CHOOSE i \in 1 .. n : lst[i] = k /\ rk[i] = sz[k] - j
           w == [j \in 0 .. n |-> IF j < sz[k] THEN Item(j) ELSE NULL]
<1>1. Reached(h, head) = at
  BY DEF Reached
<1>2. /\ n \in Nat /\ Len(h) = n /\ (\A i \in 1 .. n : h[i].next = nx[i]) /\ k # NoList
      /\ sz[k] \in Nat /\ sz[k] <= n /\ IsHead(n, heads, sz, lst, rk, k)
      /\ \A i \in 1 .. n : lst[i] # NoList => InList(n, nx, sz, lst, rk, i)
      /\ \A i, j \in 1 .. n : lst[i] = k /\ lst[j] = k /\ rk[i] = rk[j] => i = j
      /\ \A i \in 1 .. n : rk[i] \in Nat
  <2>1. n \in Nat /\ Len(h) = n /\ (\A i \in 1 .. n : h[i].next = nx[i]) /\ k # NoList
    BY DEF Links, Shape, NoList
  <2>2. IsHead(n, heads, sz, lst, rk, k) /\ sz[k] \in Nat
    BY DEF Shape, IsHead
  <2>3. sz[k] <= n
    BY ListCount
  <2>4. /\ \A i \in 1 .. n : lst[i] # NoList => InList(n, nx, sz, lst, rk, i)
        /\ \A i \in 1 .. n : rk[i] \in Nat
    BY DEF Shape
  <2>5. \A i, j \in 1 .. n : lst[i] = k /\ lst[j] = k /\ rk[i] = rk[j] => i = j
    BY <2>1 DEF Shape
  <2> QED
    BY <2>1, <2>2, <2>3, <2>4, <2>5
<1>3. ASSUME NEW j \in Nat, j < sz[k] PROVE Item(j) \in 1 .. n /\ lst[Item(j)] = k /\ rk[Item(j)] = sz[k] - j
  <2>1. sz[k] - j \in 1 .. sz[k]
    BY <1>2, <1>3
  <2>2. \E i \in 1 .. n : lst[i] = k /\ rk[i] = sz[k] - j
    BY <2>1, RanksTaken
  <2> QED
    BY <2>2
<1> HIDE DEF Item
<1>4. \A j \in 0 .. n : w[j] = IF j < sz[k] THEN Item(j) ELSE NULL
  OBVIOUS
<1>5. ASSUME NEW j \in 0 .. n
      PROVE  w[j] = IF j = 0 THEN head ELSE IF w[j - 1] <= 0 THEN NULL ELSE h[w[j - 1]].next
  <2> HIDE DEF w
  <2>1. CASE j = 0 /\ sz[k] = 0
    BY <1>2, <1>4, <2>1 DEF IsHead
  <2>2. CASE j = 0 /\ sz[k] > 0
    <3>1. heads[k] \in 1 .. n /\ lst[heads[k]] = k /\ rk[heads[k]] = sz[k]
      BY <1>2, <2>2 DEF IsHead
    <3>2. Item(0) \in 1 .. n /\ lst[Item(0)] = k /\ rk[Item(0)] = sz[k]
      BY <1>2, <1>3, <2>2
    <3>3. Item(0) = head
      BY <1>2, <3>1, <3>2
    <3> QED
      BY <1>4, <2>2, <3>3
  <2>3. CASE j # 0
    <3>1. PICK i \in 0 .. n : i = j - 1 /\ j = i + 1 /\ i \in Nat
      BY <1>2, <2>3
    <3>2. CASE i < sz[k]
      <4>1. w[i] = Item(i) /\ Item(i) \in 1 .. n /\ lst[Item(i)] = k /\ rk[Item(i)] = sz[k] - i
        BY <1>3, <1>4, <3>1, <3>2
      <4>2. InList(n, nx, sz, lst, rk, Item(i)) /\ h[w[i]].next = nx[Item(i)] /\ ~(w[i] <= 0)
        BY <1>2, <4>1
      <4>3. CASE j < sz[k]
        <5>1. rk[Item(i)] > 1
          BY <1>2, <3>1, <4>1, <4>3
        <5>2. nx[Item(i)] \in 1 .. n /\ lst[nx[Item(i)]] = k /\ rk[nx[Item(i)]] = sz[k] - j
          <6>1. nx[Item(i)] \in 1 .. n /\ lst[nx[Item(i)]] = k /\ rk[nx[Item(i)]] = rk[Item(i)] - 1
            BY <4>1, <4>2, <5>1 DEF InList
          <6> QED
            BY <1>2, <3>1, <4>1, <6>1
        <5>3. Item(j) \in 1 .. n /\ lst[Item(j)] = k /\ rk[Item(j)] = sz[k] - j /\ w[j] = Item(j)
          BY <1>3, <1>4, <4>3
        <5>4. nx[Item(i)] = Item(j)
          BY <1>2, <5>2, <5>3
        <5> QED
          BY <2>3, <3>1, <4>2, <5>3, <5>4
      <4>4. CASE ~(j < sz[k])
        <5>1. rk[Item(i)] = 1
          BY <1>2, <3>1, <3>2, <4>1, <4>4
        <5>2. nx[Item(i)] = NULL /\ w[j] = NULL
          BY <1>4, <4>2, <4>4, <5>1 DEF InList
        <5> QED
          BY <2>3, <3>1, <4>2, <5>2
      <4> QED
        BY <4>3, <4>4
    <3>3. CASE ~(i < sz[k])
      <4>1. w[i] = NULL /\ w[j] = NULL
        BY <1>2, <1>4, <3>1, <3>3
      <4> QED
        BY <2>3, <3>1, <4>1 DEF NULL
    <3> QED
      BY <3>2, <3>3
  <2> QED
    BY <1>2, <2>1, <2>2, <2>3
<1>6. Walk(w)
  <2>1. w = [i \in 0 .. n |-> w[i]]
    OBVIOUS
  <2> HIDE DEF w
  <2> QED
    BY <1>2, <1>5, <2>1
<1>7. Walk(at)
  <2> HIDE DEF Walk
  <2> QED
    BY <1>6
<1>8. \A i \in 0 .. n : at[i] = IF i = 0 THEN head ELSE IF at[i - 1] <= 0 THEN NULL ELSE h[at[i - 1]].next
  <2> HIDE DEF at
  <2> QED
    BY <1>2, <1>7
<1> HIDE DEF at, w, Walk
<1> DEFINE T == {m \in Nat : m \in 0 .. n => at[m] = w[m]}
<1>9. 0 \in T
  BY <1>2, <1>5, <1>8
<1>10. ASSUME NEW m \in Nat, m \in T PROVE m + 1 \in T
  <2> SUFFICES ASSUME m + 1 \in 0 .. n PROVE at[m + 1] = w[m + 1]
    OBVIOUS
  <2>1. m \in 0 .. n /\ (m + 1) - 1 = m /\ m + 1 # 0
    BY <1>2
  <2>2. at[m] = w[m]
    BY <1>10, <2>1
  <2> QED
    BY <1>5, <1>8, <2>1, <2>2
<1> HIDE DEF T
<1>11. Nat \subseteq T
  BY <1>9, <1>10, Induction
<1>12. \A m \in 0 .. n : at[m] = w[m]
  BY <1>2, <1>11 DEF T
<1>13. Ends(h, head)
  <2>1. at[n] = NULL
    BY <1>2, <1>4, <1>12
  <2> QED
    BY <1>1, <1>2, <2>1 DEF Ends, NULL
<1>14. Members(h, head) = {i \in 1 .. n : lst[i] = k}
  <2>1. Members(h, head) = {at[i] : i \in 0 .. n} \ {NULL, Unset}
    BY <1>1, <1>2 DEF Members
  <2>2. ASSUME NEW j \in 0 .. n, at[j] # NULL PROVE at[j] \in 1 .. n /\ lst[at[j]] = k
    BY <1>2, <1>3, <1>4, <1>12, <2>2
  <2>3. ASSUME NEW i \in 1 .. n, lst[i] = k PROVE \E j \in 0 .. n : at[j] = i
    <3>1. rk[i] \in Nat /\ rk[i] >= 1 /\ rk[i] <= sz[k]
      BY <1>2, <2>3 DEF InList
    <3>2. PICK j \in 0 .. n : j = sz[k] - rk[i] /\ j < sz[k] /\ j \in Nat /\ sz[k] - j = rk[i]
      BY <1>2, <3>1
    <3>3. Item(j) \in 1 .. n /\ lst[Item(j)] = k /\ rk[Item(j)] = rk[i]
      BY <1>3, <3>2
    <3>4. Item(j) = i
      BY <1>2, <2>3, <3>3
    <3> QED
      BY <1>4, <1>12, <3>2, <3>4
  <2>4. \A i \in 1 .. n : i # NULL /\ i # Unset
    BY <1>2 DEF NULL, Unset
  <2>5. ASSUME NEW x PROVE x \in Members(h, head) <=> x \in 1 .. n /\ lst[x] = k
    BY <2>1, <2>2, <2>3, <2>4
  <2> QED
    BY <2>5
<1> QED
  BY <1>13, <1>14


-----------------------------------------------------------------------------
(* The lists in a heap: of K directories, with the items cl that the        *)
(* directories but the last are importing into.                             *)

ImportType == [first : Int, size : Int, dotdot : Int]
ItemType == [entry : Nat, is_dir : BOOLEAN, next : Int, imp : ImportType]
NextOf(h) == [i \in 1 .. Len(h) |-> h[i].next]
SameOn(S, f, g) == \A j \in S : g[j] = f[j]

Lists(h, K, heads, sz, cl, lst, rk) ==
    /\ h \in Seq(ItemType)
    /\ Shape(Len(h), NextOf(h), K, heads, sz, lst, rk)
    /\ \A i \in 1 .. K - 1 : cl[i] \in 1 .. Len(h) /\ lst[cl[i]] = NoList
    /\ \A i, j \in 1 .. K - 1 : cl[i] = cl[j] => i = j

\* The item x is in no list and not one that is imported into.
Loose(h, K, cl, lst, x) ==
    /\ x \in 1 .. Len(h) /\ lst[x] = NoList
    /\ \A i \in 1 .. K - 1 : cl[i] # x

\* All items but x are what and where they were.
KeptBut(x, h, lst, rk, h2, lst2, rk2) ==
    \A i \in 1 .. Len(h2) : i # x => i \in 1 .. Len(h) /\ h2[i] = h[i] /\ lst2[i] = lst[i] /\ rk2[i] = rk[i]

\* There are no less items, and x was not one of a directory.
StayedBut(x, h, lst, h2) == Len(h) <= Len(h2) /\ \A i \in 1 .. Len(h) : i = x => lst[i] = 0

\* A function with another value somewhere.
LEMMA ChangedExists ==
    ASSUME NEW f, NEW S, NEW i, NEW x
    PROVE  \E g : Changed(f, S, i, x, g)
<1> DEFINE g == [j \in S \cup {i} |-> IF j = i THEN x ELSE f[j]]
<1>1. g[i] = x /\ \A j \in S : j # i => g[j] = f[j]
  OBVIOUS
<1> QED
  BY <1>1 DEF Changed

\* What a heap is made of.
LEMMA HeapFacts ==
    ASSUME NEW h \in Seq(ItemType)
    PROVE  /\ Len(h) \in Nat /\ DOMAIN h = 1 .. Len(h)
           /\ \A i \in 1 .. Len(h) : h[i] \in ItemType /\ NextOf(h)[i] = h[i].next
           /\ Links(h, Len(h), NextOf(h))
BY DEF NextOf, Links

\* A heap with the same pointers has the same lists.
LEMMA SameLists ==
    ASSUME NEW h, NEW K, NEW heads, NEW sz, NEW cl, NEW lst, NEW rk, Lists(h, K, heads, sz, cl, lst, rk),
           NEW h2 \in Seq(ItemType), Len(h2) = Len(h), \A i \in 1 .. Len(h) : h2[i].next = h[i].next
    PROVE  Lists(h2, K, heads, sz, cl, lst, rk)
<1>1. NextOf(h2) = NextOf(h)
  BY DEF NextOf
<1> QED
  BY <1>1 DEF Lists

\* alloc_item: what is allocated and what stays.
Allocated(h, K, heads, sz, cl, lst, rk, got, heads2, sz2, lst2, rk2) ==
    /\ Lists(got.heap, K, heads2, sz2, cl, lst2, rk2)
    /\ heads2[0] = got.head /\ SameOn(1 .. K, heads, heads2) /\ SameOn(1 .. K, sz, sz2)
    /\ Loose(got.heap, K, cl, lst2, got.item)
    /\ KeptBut(got.item, h, lst, rk, got.heap, lst2, rk2)
    /\ StayedBut(got.item, h, lst, got.heap)

LEMMA AllocLists ==
    ASSUME NEW h, NEW K, NEW heads, NEW sz, NEW cl, NEW lst, NEW rk, Lists(h, K, heads, sz, cl, lst, rk),
           NEW got, got = alloc_item(h, heads[0])
    PROVE  \E heads2, sz2, lst2, rk2 : Allocated(h, K, heads, sz, cl, lst, rk, got, heads2, sz2, lst2, rk2)
<1> DEFINE n == Len(h)
           x == heads[0]
<1>1. /\ h \in Seq(ItemType) /\ n \in Nat /\ Shape(n, NextOf(h), K, heads, sz, lst, rk)
      /\ K \in Nat /\ 0 \in 0 .. K /\ 1 .. K \subseteq 0 .. K /\ \A k \in 1 .. K : k # 0
      /\ sz[0] \in Nat /\ IsHead(n, heads, sz, lst, rk, 0)
  BY DEF Lists, Shape, IsHead
<1>2. CASE x # NULL
  <2>1. got.heap = h /\ got.head = h[x].next /\ got.item = x
    BY <1>2 DEF alloc_item
  <2>2. sz[0] > 0 /\ x \in 1 .. n /\ lst[x] = 0 /\ NextOf(h)[x] = h[x].next
    BY <1>1, <1>2, HeapFacts DEF IsHead
  <2>3. PICK heads2 : Changed(heads, 0 .. K, 0, NextOf(h)[x], heads2)
    BY ChangedExists
  <2>4. PICK sz2 : Changed(sz, 0 .. K, 0, sz[0] - 1, sz2)
    BY ChangedExists
  <2>5. PICK lst2 : Changed(lst, 1 .. n, x, NoList, lst2)
    BY ChangedExists
  <2>6. Shape(n, NextOf(h), K, heads2, sz2, lst2, rk)
    BY <1>1, <2>2, <2>3, <2>4, <2>5, PopShape
  <2>7. \A i \in 1 .. K - 1 : cl[i] \in 1 .. n /\ lst[cl[i]] = NoList /\ cl[i] # x
    BY <2>2 DEF Lists, NoList
  <2>8. Lists(h, K, heads2, sz2, cl, lst2, rk)
    BY <1>1, <2>5, <2>6, <2>7 DEF Lists, Changed
  <2>9. Loose(h, K, cl, lst2, x) /\ KeptBut(x, h, lst, rk, h, lst2, rk)
    BY <2>2, <2>5, <2>7 DEF Loose, KeptBut, Changed
  <2>10. heads2[0] = h[x].next /\ SameOn(1 .. K, heads, heads2) /\ SameOn(1 .. K, sz, sz2)
    BY <1>1, <2>2, <2>3, <2>4 DEF SameOn, Changed
  <2>11. StayedBut(x, h, lst, h)
    BY <1>1, <2>2 DEF StayedBut
  <2> QED
    BY <2>1, <2>8, <2>9, <2>10, <2>11 DEF Allocated
<1>3. CASE x = NULL
  <2> DEFINE new == [entry |-> 0, is_dir |-> FALSE, next |-> Unset, imp |-> NoImport]
  <2>1. got.heap = Append(h, new) /\ got.head = NULL /\ got.item = n + 1
    BY <1>3 DEF alloc_item
  <2>2. new \in ItemType
    BY DEF ItemType, ImportType, NoImport, Unset
  <2> HIDE DEF new
  <2>3. /\ Append(h, new) \in Seq(ItemType) /\ Len(Append(h, new)) = n + 1
        /\ \A i \in 1 .. n : Append(h, new)[i] = h[i]
    BY <1>1, <2>2
  <2>4. PICK lst2 : Changed(lst, 1 .. n, n + 1, NoList, lst2)
    BY ChangedExists
  <2>5. PICK rk2 : Changed(rk, 1 .. n, n + 1, 0, rk2)
    BY ChangedExists
  <2>6. \A i \in 1 .. n : NextOf(Append(h, new))[i] = NextOf(h)[i]
    BY <1>1, <2>3 DEF NextOf
  <2>7. Shape(n + 1, NextOf(Append(h, new)), K, heads, sz, lst2, rk2)
    BY <1>1, <2>4, <2>5, <2>6, GrowShape
  <2>8. 1 .. n + 1 = (1 .. n) \cup {n + 1} /\ n + 1 \notin 1 .. n
    BY <1>1
  <2>9. \A i \in 1 .. K - 1 : cl[i] \in 1 .. n /\ lst[cl[i]] = NoList /\ cl[i] # n + 1
    BY <2>8 DEF Lists
  <2>10. Lists(got.heap, K, heads, sz, cl, lst2, rk2)
    BY <2>1, <2>3, <2>4, <2>7, <2>8, <2>9 DEF Lists, Changed
  <2>11. Loose(got.heap, K, cl, lst2, n + 1)
    BY <2>1, <2>3, <2>4, <2>8, <2>9 DEF Loose, Changed
  <2>12. KeptBut(n + 1, h, lst, rk, got.heap, lst2, rk2)
    BY <2>1, <2>3, <2>4, <2>5, <2>8 DEF KeptBut, Changed
  <2>13. StayedBut(n + 1, h, lst, got.heap)
    BY <1>1, <2>1, <2>3, <2>8 DEF StayedBut
  <2> QED
    BY <1>3, <2>1, <2>10, <2>11, <2>12, <2>13 DEF Allocated, SameOn
<1> QED
  BY <1>2, <1>3

\* An item in no list is put in front of list k.
Pushed(h, K, heads, sz, cl, lst, rk, k, x, h2, heads2, sz2, lst2, rk2) ==
    /\ Lists(h2, K, heads2, sz2, cl, lst2, rk2)
    /\ Changed(heads, 0 .. K, k, x, heads2)
    /\ Changed(sz, 0 .. K, k, sz[k] + 1, sz2)
    /\ Changed(lst, 1 .. Len(h), x, k, lst2)
    /\ Changed(rk, 1 .. Len(h), x, sz[k] + 1, rk2)

LEMMA PushLists ==
    ASSUME NEW h, NEW K, NEW heads, NEW sz, NEW cl, NEW lst, NEW rk, Lists(h, K, heads, sz, cl, lst, rk),
           NEW k \in 0 .. K, NEW x, Loose(h, K, cl, lst, x),
           NEW h2 \in Seq(ItemType), Len(h2) = Len(h), h2[x].next = heads[k],
           \A i \in 1 .. Len(h) : i # x => h2[i].next = h[i].next
    PROVE  \E heads2, sz2, lst2, rk2 : Pushed(h, K, heads, sz, cl, lst, rk, k, x, h2, heads2, sz2, lst2, rk2)
<1> DEFINE n == Len(h)
<1>1. /\ h \in Seq(ItemType) /\ n \in Nat /\ Shape(n, NextOf(h), K, heads, sz, lst, rk)
      /\ x \in 1 .. n /\ lst[x] = NoList
  BY DEF Lists, Shape, Loose
<1>2. Changed(NextOf(h), 1 .. n, x, heads[k], NextOf(h2))
  BY <1>1 DEF NextOf, Changed
<1>3. PICK heads2 : Changed(heads, 0 .. K, k, x, heads2)
  BY ChangedExists
<1>4. PICK sz2 : Changed(sz, 0 .. K, k, sz[k] + 1, sz2)
  BY ChangedExists
<1>5. PICK lst2 : Changed(lst, 1 .. n, x, k, lst2)
  BY ChangedExists
<1>6. PICK rk2 : Changed(rk, 1 .. n, x, sz[k] + 1, rk2)
  BY ChangedExists
<1>7. Shape(n, NextOf(h2), K, heads2, sz2, lst2, rk2)
  BY <1>1, <1>2, <1>3, <1>4, <1>5, <1>6, PushShape
<1>8. Lists(h2, K, heads2, sz2, cl, lst2, rk2)
  BY <1>5, <1>7 DEF Lists, Loose, Changed
<1> QED
  BY <1>3, <1>4, <1>5, <1>6, <1>8 DEF Pushed

\* A directory is entered while x is imported into.
LEMMA EnterLists ==
    ASSUME NEW h, NEW K, NEW heads, NEW sz, NEW cl, NEW lst, NEW rk, Lists(h, K, heads, sz, cl, lst, rk),
           NEW x, Loose(h, K, cl, lst, x), K > 0,
           NEW heads2, Changed(heads, 0 .. K, K + 1, NULL, heads2),
           NEW sz2, Changed(sz, 0 .. K, K + 1, 0, sz2),
           NEW cl2, Changed(cl, 1 .. K - 1, K, x, cl2)
    PROVE  Lists(h, K + 1, heads2, sz2, cl2, lst, rk)
<1>1. h \in Seq(ItemType) /\ K \in Nat /\ Shape(Len(h), NextOf(h), K, heads, sz, lst, rk)
  BY DEF Lists, Shape
<1>2. Shape(Len(h), NextOf(h), K + 1, heads2, sz2, lst, rk)
  BY <1>1, EnterShape
<1>3. 1 .. (K + 1) - 1 = (1 .. K - 1) \cup {K} /\ K \notin 1 .. K - 1
  BY <1>1
<1>4. \A i \in 1 .. (K + 1) - 1 : cl2[i] \in 1 .. Len(h) /\ lst[cl2[i]] = NoList
  BY <1>3 DEF Lists, Loose, Changed
<1>5. \A i, j \in 1 .. (K + 1) - 1 : cl2[i] = cl2[j] => i = j
  BY <1>3 DEF Lists, Loose, Changed
<1> QED
  BY <1>1, <1>2, <1>4, <1>5 DEF Lists

\* A directory is left behind which there is one, whose item becomes loose.
LEMMA CallerLoose ==
    ASSUME NEW h, NEW K, NEW heads, NEW sz, NEW cl, NEW lst, NEW rk, Lists(h, K, heads, sz, cl, lst, rk), K > 1
    PROVE  Loose(h, K - 1, cl, lst, cl[K - 1])
<1>1. K \in Nat /\ K - 1 \in 1 .. K - 1 /\ \A i \in 1 .. (K - 1) - 1 : i \in 1 .. K - 1 /\ i # K - 1
  BY DEF Lists, Shape
<1> QED
  BY <1>1 DEF Lists, Loose

LEMMA LeaveLists ==
    ASSUME NEW h, NEW K, NEW heads, NEW sz, NEW cl, NEW lst, NEW rk, Lists(h, K, heads, sz, cl, lst, rk),
           K > 0, sz[K] = 0
    PROVE  Lists(h, K - 1, heads, sz, cl, lst, rk)
<1>1. K \in Nat /\ \A i \in 1 .. (K - 1) - 1 : i \in 1 .. K - 1
  BY DEF Lists, Shape
<1>2. Shape(Len(h), NextOf(h), K - 1, heads, sz, lst, rk)
  BY LeaveShape DEF Lists
<1> QED
  BY <1>1, <1>2 DEF Lists

\* A turn of the loop over the items of the last directory: the head is freed.
Turned(h, K, heads, sz, cl, lst, rk, x, h2, heads2, sz2, lst2, rk2) ==
    /\ Lists(h2, K, heads2, sz2, cl, lst2, rk2)
    /\ heads2[0] = x /\ heads2[K] = h[x].next /\ SameOn(1 .. K - 1, heads, heads2)
    /\ sz2[K] = sz[K] - 1 /\ SameOn(1 .. K - 1, sz, sz2)
    /\ Changed(lst, 1 .. Len(h), x, 0, lst2)
    /\ SameOn((1 .. Len(h)) \ {x}, rk, rk2)

LEMMA TurnLists ==
    ASSUME NEW h, NEW K, NEW heads, NEW sz, NEW cl, NEW lst, NEW rk, Lists(h, K, heads, sz, cl, lst, rk),
           K > 0, sz[K] > 0, NEW x, x = heads[K],
           NEW h2 \in Seq(ItemType), Len(h2) = Len(h), h2[x].next = heads[0],
           \A i \in 1 .. Len(h) : i # x => h2[i].next = h[i].next
    PROVE  \E heads2, sz2, lst2, rk2 : Turned(h, K, heads, sz, cl, lst, rk, x, h2, heads2, sz2, lst2, rk2)
<1> DEFINE n == Len(h)
<1>1. /\ h \in Seq(ItemType) /\ n \in Nat /\ Shape(n, NextOf(h), K, heads, sz, lst, rk) /\ K \in Nat
      /\ 0 \in 0 .. K /\ K \in 0 .. K /\ 0 # K /\ 1 .. K - 1 \subseteq 0 .. K /\ (\A k \in 1 .. K - 1 : k # 0 /\ k # K)
      /\ x \in 1 .. n /\ lst[x] = K
  BY DEF Lists, Shape, IsHead
<1>2. NextOf(h)[x] = h[x].next
  BY <1>1, HeapFacts
<1>3. PICK heads1 : Changed(heads, 0 .. K, K, NextOf(h)[x], heads1)
  BY ChangedExists
<1>4. PICK sz1 : Changed(sz, 0 .. K, K, sz[K] - 1, sz1)
  BY ChangedExists
<1>5. PICK lst1 : Changed(lst, 1 .. n, x, NoList, lst1)
  BY ChangedExists
<1>6. Shape(n, NextOf(h), K, heads1, sz1, lst1, rk)
  BY <1>1, <1>3, <1>4, <1>5, PopShape
<1>7. \A i \in 1 .. K - 1 : cl[i] \in 1 .. n /\ lst[cl[i]] = NoList /\ cl[i] # x
  BY <1>1 DEF Lists, NoList
<1>8. Lists(h, K, heads1, sz1, cl, lst1, rk) /\ Loose(h, K, cl, lst1, x)
  BY <1>1, <1>5, <1>6, <1>7 DEF Lists, Loose, Changed
<1>9. heads1[0] = heads[0]
  BY <1>1, <1>3 DEF Changed
<1>10. PICK heads2, sz2, lst2, rk2 : Pushed(h, K, heads1, sz1, cl, lst1, rk, 0, x, h2, heads2, sz2, lst2, rk2)
  BY <1>1, <1>8, <1>9, PushLists
<1>11. Lists(h2, K, heads2, sz2, cl, lst2, rk2)
  BY <1>10 DEF Pushed
<1>12. heads2[0] = x /\ heads2[K] = h[x].next /\ SameOn(1 .. K - 1, heads, heads2)
  BY <1>1, <1>2, <1>3, <1>10 DEF Pushed, Changed, SameOn
<1>13. sz2[K] = sz[K] - 1 /\ SameOn(1 .. K - 1, sz, sz2)
  BY <1>1, <1>4, <1>10 DEF Pushed, Changed, SameOn
<1>14. Changed(lst, 1 .. n, x, 0, lst2) /\ SameOn((1 .. n) \ {x}, rk, rk2)
  BY <1>5, <1>10 DEF Pushed, Changed, SameOn
<1> QED
  BY <1>11, <1>12, <1>13, <1>14 DEF Turned

\* The last directory is left and its items are put in front of the free ones.
Joined(h, K, heads, sz, cl, lst, rk, h2, heads2, sz2, lst2, rk2) ==
    /\ Lists(h2, K - 1, heads2, sz2, cl, lst2, rk2)
    /\ heads2[0] = heads[K] /\ SameOn(1 .. K - 1, heads, heads2) /\ SameOn(1 .. K - 1, sz, sz2)
    /\ \A i \in 1 .. Len(h) : lst2[i] = IF lst[i] = K THEN 0 ELSE lst[i]
    /\ \A i \in 1 .. Len(h) : lst[i] # K => rk2[i] = rk[i]

LEMMA JoinLists ==
    ASSUME NEW h, NEW K, NEW heads, NEW sz, NEW cl, NEW lst, NEW rk, Lists(h, K, heads, sz, cl, lst, rk),
           K > 0, sz[K] > 0, NEW t \in 1 .. Len(h), lst[t] = K, rk[t] = 1,
           NEW h2 \in Seq(ItemType), Len(h2) = Len(h), h2[t].next = heads[0],
           \A i \in 1 .. Len(h) : i # t => h2[i].next = h[i].next
    PROVE  \E heads2, sz2, lst2, rk2 : Joined(h, K, heads, sz, cl, lst, rk, h2, heads2, sz2, lst2, rk2)
<1> DEFINE n == Len(h)
<1>1. /\ h \in Seq(ItemType) /\ n \in Nat /\ Shape(n, NextOf(h), K, heads, sz, lst, rk) /\ K \in Nat
      /\ 1 .. K - 1 \subseteq 0 .. K - 1 /\ (\A k \in 1 .. K - 1 : k # 0) /\ K # NoList
  BY DEF Lists, Shape, NoList
<1>2. Changed(NextOf(h), 1 .. n, t, heads[0], NextOf(h2))
  BY <1>1 DEF NextOf, Changed
<1>3. PICK heads2 : Changed(heads, 0 .. K - 1, 0, heads[K], heads2)
  BY ChangedExists
<1>4. PICK sz2 : Changed(sz, 0 .. K - 1, 0, sz[0] + sz[K], sz2)
  BY ChangedExists
<1> DEFINE lst2 == [i \in 1 .. n |-> IF lst[i] = K THEN 0 ELSE lst[i]]
           rk2 == [i \in 1 .. n |-> IF lst[i] = K THEN rk[i] + sz[0] ELSE rk[i]]
<1>5. /\ \A i \in 1 .. n : lst2[i] = IF lst[i] = K THEN 0 ELSE lst[i]
      /\ \A i \in 1 .. n : rk2[i] = IF lst[i] = K THEN rk[i] + sz[0] ELSE rk[i]
  OBVIOUS
<1> HIDE DEF lst2, rk2
<1>6. Shape(n, NextOf(h2), K - 1, heads2, sz2, lst2, rk2)
  <2>1. Merged(n, K, lst, lst2)
    BY <1>5 DEF Merged
  <2>2. Raised(n, K, lst, rk, sz[0], rk2)
    BY <1>5 DEF Raised
  <2> HIDE DEF n
  <2>3. t \in 1 .. n
    BY DEF n
  <2> QED
    BY <1>1, <1>2, <1>3, <1>4, <2>1, <2>2, <2>3, JoinShape
<1>7. \A i \in 1 .. (K - 1) - 1 : i \in 1 .. K - 1
  BY <1>1
<1>8. \A i \in 1 .. (K - 1) - 1 : cl[i] \in 1 .. n /\ lst2[cl[i]] = NoList
  BY <1>1, <1>5, <1>7 DEF Lists
<1>9. \A i, j \in 1 .. (K - 1) - 1 : cl[i] = cl[j] => i = j
  BY <1>7 DEF Lists
<1>10. Lists(h2, K - 1, heads2, sz2, cl, lst2, rk2)
  BY <1>6, <1>8, <1>9 DEF Lists
<1>11. heads2[0] = heads[K] /\ SameOn(1 .. K - 1, heads, heads2) /\ SameOn(1 .. K - 1, sz, sz2)
  BY <1>1, <1>3, <1>4 DEF Changed, SameOn
<1> QED
  BY <1>5, <1>10, <1>11 DEF Joined


-----------------------------------------------------------------------------
(* What the operations write into an item. *)

Item(e, d, n, m) == [entry |-> e, is_dir |-> d, next |-> n, imp |-> m]
Imp(f, s, d) == [first |-> f, size |-> s, dotdot |-> d]

\* The heap h with v in the place of the item x.
Put(h, x, v, h2) ==
    /\ h2 \in Seq(ItemType) /\ Len(h2) = Len(h)
    /\ h2[x] = v
    /\ \A i \in 1 .. Len(h) : i # x => h2[i] = h[i]

LEMMA ItemFields ==
    ASSUME NEW e \in Nat, NEW d \in BOOLEAN, NEW n \in Int, NEW m \in ImportType
    PROVE  /\ Item(e, d, n, m) \in ItemType
           /\ Item(e, d, n, m).entry = e /\ Item(e, d, n, m).is_dir = d
           /\ Item(e, d, n, m).next = n /\ Item(e, d, n, m).imp = m
BY DEF Item, ItemType

LEMMA ItemTypes ==
    ASSUME NEW v \in ItemType
    PROVE  /\ v.entry \in Nat /\ v.is_dir \in BOOLEAN /\ v.next \in Int /\ v.imp \in ImportType
           /\ v.imp.first \in Int /\ v.imp.size \in Int /\ v.imp.dotdot \in Int
           /\ v = Item(v.entry, v.is_dir, v.next, v.imp)
BY DEF ItemType, ImportType, Item

LEMMA ImpFields ==
    ASSUME NEW f \in Int, NEW s \in Int, NEW d \in Int
    PROVE  /\ Imp(f, s, d) \in ImportType
           /\ Imp(f, s, d).first = f /\ Imp(f, s, d).size = s /\ Imp(f, s, d).dotdot = d
BY DEF Imp, ImportType

LEMMA NoImportType == NoImport \in ImportType
BY DEF NoImport, Unset, ImportType

LEMMA PutItem ==
    ASSUME NEW h \in Seq(ItemType), NEW x \in 1 .. Len(h), NEW v \in ItemType
    PROVE  Put(h, x, v, [h EXCEPT ![x] = v])
BY DEF Put

LEMMA PutTwice ==
    ASSUME NEW h, NEW x, NEW v, NEW h1, Put(h, x, v, h1), NEW w, NEW h2, Put(h1, x, w, h2)
    PROVE  Put(h, x, w, h2)
BY DEF Put

\* The assignments to one member of an item.
LEMMA SetNext ==
    ASSUME NEW h \in Seq(ItemType), NEW x \in 1 .. Len(h), NEW n \in Int
    PROVE  Put(h, x, Item(h[x].entry, h[x].is_dir, n, h[x].imp), [h EXCEPT ![x].next = n])
<1> DEFINE v == Item(h[x].entry, h[x].is_dir, n, h[x].imp)
<1>1. h[x] \in ItemType
  OBVIOUS
<1>2. v \in ItemType
  BY <1>1, ItemTypes, ItemFields
<1>3. [h[x] EXCEPT !.next = n] = v
  BY <1>1 DEF Item, ItemType
<1>4. [h EXCEPT ![x].next = n] = [h EXCEPT ![x] = v]
  BY <1>3
<1> QED
  BY <1>2, <1>4, PutItem

LEMMA SetIsDir ==
    ASSUME NEW h \in Seq(ItemType), NEW x \in 1 .. Len(h), NEW d \in BOOLEAN
    PROVE  Put(h, x, Item(h[x].entry, d, h[x].next, h[x].imp), [h EXCEPT ![x].is_dir = d])
<1> DEFINE v == Item(h[x].entry, d, h[x].next, h[x].imp)
<1>1. h[x] \in ItemType
  OBVIOUS
<1>2. v \in ItemType
  BY <1>1, ItemTypes, ItemFields
<1>3. [h[x] EXCEPT !.is_dir = d] = v
  BY <1>1 DEF Item, ItemType
<1>4. [h EXCEPT ![x].is_dir = d] = [h EXCEPT ![x] = v]
  BY <1>3
<1> QED
  BY <1>2, <1>4, PutItem

LEMMA SetImp ==
    ASSUME NEW h \in Seq(ItemType), NEW x \in 1 .. Len(h), NEW m \in ImportType
    PROVE  Put(h, x, Item(h[x].entry, h[x].is_dir, h[x].next, m), [h EXCEPT ![x].imp = m])
<1> DEFINE v == Item(h[x].entry, h[x].is_dir, h[x].next, m)
<1>1. h[x] \in ItemType
  OBVIOUS
<1>2. v \in ItemType
  BY <1>1, ItemTypes, ItemFields
<1>3. [h[x] EXCEPT !.imp = m] = v
  BY <1>1 DEF Item, ItemType
<1>4. [h EXCEPT ![x].imp = m] = [h EXCEPT ![x] = v]
  BY <1>3
<1> QED
  BY <1>2, <1>4, PutItem

LEMMA SetFirst ==
    ASSUME NEW h \in Seq(ItemType), NEW x \in 1 .. Len(h), NEW f \in Int
    PROVE  Put(h, x, Item(h[x].entry, h[x].is_dir, h[x].next, Imp(f, h[x].imp.size, h[x].imp.dotdot)),
               [h EXCEPT ![x].imp.first = f])
<1> DEFINE m == Imp(f, h[x].imp.size, h[x].imp.dotdot)
<1>1. h[x] \in ItemType /\ h[x].imp \in ImportType
  BY ItemTypes
<1>2. m \in ImportType
  BY <1>1, ItemTypes, ImpFields
<1>3. [h[x].imp EXCEPT !.first = f] = m
  BY <1>1 DEF Imp, ImportType
<1>4. [h EXCEPT ![x].imp.first = f] = [h EXCEPT ![x].imp = m]
  BY <1>3
<1> QED
  BY <1>2, <1>4, SetImp

\* The name of an entry, which may run over imp.
LEMMA SetName ==
    ASSUME NEW h \in Seq(ItemType), NEW x \in 1 .. Len(h), NEW name, NEW e \in Nat
    PROVE  \E e2 \in Nat, m \in ImportType :
               /\ Put(h, x, Item(e2, h[x].is_dir, h[x].next, m), Named(h, x, name, e))
               /\ convert_name(name).refused \/ e2 = e
<1> DEFINE e2 == IF convert_name(name).refused THEN h[x].entry ELSE e
           m == IF convert_name(name).refused \/ convert_name(name).written <= 12 THEN h[x].imp ELSE NoImport
<1>1. h[x] \in ItemType /\ h[x].imp \in ImportType /\ h[x].entry \in Nat
  BY ItemTypes
<1>2. e2 \in Nat /\ m \in ImportType /\ (convert_name(name).refused \/ e2 = e)
  BY <1>1, NoImportType
<1>3. Named(h, x, name, e) = [h EXCEPT ![x].entry = e2, ![x].imp = m]
  BY DEF Named
<1> HIDE DEF e2, m
<1> DEFINE v == Item(e2, h[x].is_dir, h[x].next, m)
<1>4. v \in ItemType
  BY <1>1, <1>2, ItemTypes, ItemFields
<1>5. [h[x] EXCEPT !.entry = e2, !.imp = m] = v
  <2>1. [h[x] EXCEPT !.entry = e2] = Item(e2, h[x].is_dir, h[x].next, h[x].imp)
    BY <1>1 DEF Item, ItemType
  <2>2. [Item(e2, h[x].is_dir, h[x].next, h[x].imp) EXCEPT !.imp = m] = v
    BY DEF Item
  <2>3. [h[x] EXCEPT !.entry = e2, !.imp = m] = [[h[x] EXCEPT !.entry = e2] EXCEPT !.imp = m]
    BY Zenon
  <2> HIDE DEF v
  <2> QED
    BY <2>1, <2>2, <2>3
<1>6. [h EXCEPT ![x].entry = e2, ![x].imp = m] = [h EXCEPT ![x] = v]
  BY <1>5
<1>7. Put(h, x, v, [h EXCEPT ![x] = v])
  BY <1>4, PutItem
<1> QED
  BY <1>2, <1>3, <1>6, <1>7


\* An item is allocated, written, and put in front of list k.
Entered(h, K, heads, sz, cl, lst, rk, k, x, head2, h2, heads2, sz2, lst2, rk2) ==
    /\ Lists(h2, K, heads2, sz2, cl, lst2, rk2)
    /\ heads2[k] = x /\ (k # 0 => heads2[0] = head2 /\ sz2[k] = sz[k] + 1 /\ rk2[x] = sz[k] + 1)
    /\ \A j \in 1 .. K : j # k => heads2[j] = heads[j] /\ sz2[j] = sz[j]
    /\ x \in 1 .. Len(h2) /\ lst2[x] = k
    /\ KeptBut(x, h, lst, rk, h2, lst2, rk2)
    /\ StayedBut(x, h, lst, h2)

LEMMA AllocPush ==
    ASSUME NEW h, NEW K, NEW heads, NEW sz, NEW cl, NEW lst, NEW rk, Lists(h, K, heads, sz, cl, lst, rk),
           NEW got, got = alloc_item(h, heads[0]), NEW k \in 0 .. K,
           NEW w, NEW h2, Put(got.heap, got.item, w, h2),
           k = 0 => w.next = got.head, k # 0 => w.next = heads[k]
    PROVE  \E heads2, sz2, lst2, rk2 :
               Entered(h, K, heads, sz, cl, lst, rk, k, got.item, got.head, h2, heads2, sz2, lst2, rk2)
<1> DEFINE x == got.item
           n == Len(got.heap)
<1>1. PICK heads1, sz1, lst1, rk1 : Allocated(h, K, heads, sz, cl, lst, rk, got, heads1, sz1, lst1, rk1)
  BY AllocLists
<1>2. /\ Lists(got.heap, K, heads1, sz1, cl, lst1, rk1) /\ Loose(got.heap, K, cl, lst1, x)
      /\ heads1[0] = got.head /\ KeptBut(x, h, lst, rk, got.heap, lst1, rk1) /\ StayedBut(x, h, lst, got.heap)
  BY <1>1 DEF Allocated
<1>3. \A j \in 1 .. K : heads1[j] = heads[j] /\ sz1[j] = sz[j]
  BY <1>1 DEF Allocated, SameOn
<1>4. K \in Nat /\ 0 \in 0 .. K /\ 1 .. K \subseteq 0 .. K /\ (k # 0 => k \in 1 .. K) /\ \A j \in 1 .. K : j # 0
  BY DEF Lists, Shape
<1>5. h2 \in Seq(ItemType) /\ Len(h2) = n /\ h2[x] = w /\ \A i \in 1 .. n : i # x => h2[i] = got.heap[i]
  BY DEF Put
<1>6. h2[x].next = heads1[k]
  BY <1>2, <1>3, <1>4, <1>5
<1>7. \A i \in 1 .. n : i # x => h2[i].next = got.heap[i].next
  BY <1>5
<1>8. PICK heads2, sz2, lst2, rk2 :
          Pushed(got.heap, K, heads1, sz1, cl, lst1, rk1, k, x, h2, heads2, sz2, lst2, rk2)
  <2> HIDE DEF x, n
  <2>1. Len(h2) = Len(got.heap) /\ \A i \in 1 .. Len(got.heap) : i # x => h2[i].next = got.heap[i].next
    BY <1>5, <1>7 DEF n
  <2>2. h2 \in Seq(ItemType)
    BY <1>5
  <2> QED
    BY <1>2, <1>6, <2>1, <2>2, PushLists
<1> HIDE DEF x, n
<1>9. Lists(h2, K, heads2, sz2, cl, lst2, rk2)
  BY <1>8 DEF Pushed
<1>10. heads2[k] = x /\ \A j \in 0 .. K : j # k => heads2[j] = heads1[j]
  BY <1>8 DEF Pushed, Changed
<1>11. sz2[k] = sz1[k] + 1 /\ \A j \in 0 .. K : j # k => sz2[j] = sz1[j]
  BY <1>8 DEF Pushed, Changed
<1>12. lst2[x] = k /\ \A i \in 1 .. n : i # x => lst2[i] = lst1[i]
  BY <1>8 DEF Pushed, Changed, n
<1>13. rk2[x] = sz1[k] + 1 /\ \A i \in 1 .. n : i # x => rk2[i] = rk1[i]
  BY <1>8 DEF Pushed, Changed, n
<1>14. k # 0 => heads2[0] = got.head /\ sz2[k] = sz[k] + 1 /\ rk2[x] = sz[k] + 1
  BY <1>2, <1>3, <1>4, <1>10, <1>11, <1>13
<1>15. \A j \in 1 .. K : j # k => heads2[j] = heads[j] /\ sz2[j] = sz[j]
  BY <1>3, <1>4, <1>10, <1>11
<1>16. x \in 1 .. Len(h2)
  BY <1>2, <1>5 DEF Loose, n
<1>17. KeptBut(x, h, lst, rk, h2, lst2, rk2)
  BY <1>2, <1>5, <1>12, <1>13 DEF KeptBut, n
<1>18. StayedBut(x, h, lst, h2)
  BY <1>2, <1>5 DEF StayedBut, n
<1> QED
  BY <1>9, <1>10, <1>12, <1>14, <1>15, <1>16, <1>17, <1>18 DEF Entered, x

-----------------------------------------------------------------------------
(* The lists are those that the variables of the import_dirs point to, and  *)
(* all but the last are importing into the item in their variable.          *)

Handled(h, st, head, heads, sz, cl, lst, rk) ==
    /\ Lists(h, Len(st), heads, sz, cl, lst, rk)
    /\ heads[0] = head
    /\ \A k \in 1 .. Len(st) : heads[k] = st[k].items /\ sz[k] = st[k].count
    /\ \A k \in 1 .. Len(st) - 1 : cl[k] = st[k].item

\* A stack of frames.
LEMMA StackFacts ==
    ASSUME NEW st, IsStack(st), st # <<>>
    PROVE  /\ Len(st) \in Nat /\ Len(st) > 0 /\ DOMAIN st = 1 .. Len(st) /\ Len(st) \in 1 .. Len(st)
           /\ \A k \in 1 .. Len(st) : IsFrame(st[k])
<1>1. Len(st) \in Nat /\ DOMAIN st = 1 .. Len(st) /\ Len(st) # 0
  BY EmptySeq, LenProperties DEF IsStack
<1> QED
  BY <1>1 DEF IsStack

LEMMA TopSet ==
    ASSUME NEW st, IsStack(st), st # <<>>, NEW g, NEW st2, st2 = [st EXCEPT ![Len(st)] = g]
    PROVE  /\ Len(st2) = Len(st) /\ st2[Len(st)] = g
           /\ \A k \in 1 .. Len(st) : k # Len(st) => st2[k] = st[k]
<1> DEFINE S == {st[i] : i \in DOMAIN st} \cup {g}
<1>1. Len(st) \in Nat /\ DOMAIN st = 1 .. Len(st) /\ Len(st) \in 1 .. Len(st)
  BY StackFacts
<1>2. st \in Seq(S) /\ g \in S
  BY SeqMonotonic DEF IsStack
<1> HIDE DEF S
<1>3. Len(st2) = Len(st)
  BY <1>1, <1>2, ExceptSeq
<1> QED
  BY <1>1, <1>3

LEMMA FrameFields ==
    ASSUME NEW g, IsFrame(g), NEW x
    PROVE  /\ [g EXCEPT !.item = x].items = g.items /\ [g EXCEPT !.item = x].count = g.count
           /\ [g EXCEPT !.item = x].item = x /\ [g EXCEPT !.item = x].dir = g.dir
           /\ LET f == [g EXCEPT !.items = x, !.count = @ + 1, !.item = NULL]
              IN f.items = x /\ f.count = g.count + 1 /\ f.item = NULL /\ f.dir = g.dir
BY DEF IsFrame


\* An entry is skipped: its item is freed and stays in the variable of the last directory.
LEMMA SkipHandled ==
    ASSUME NEW h, NEW st, NEW head, NEW heads, NEW sz, NEW cl, NEW lst, NEW rk,
           Handled(h, st, head, heads, sz, cl, lst, rk), IsStack(st), st # <<>>,
           NEW got, got = alloc_item(h, head), NEW w, NEW h2, Put(got.heap, got.item, w, h2), w.next = got.head,
           NEW g, g.items = st[Len(st)].items, g.count = st[Len(st)].count,
           NEW st2, st2 = [st EXCEPT ![Len(st)] = g]
    PROVE  \E heads2, sz2, lst2, rk2 :
               /\ Handled(h2, st2, got.item, heads2, sz2, cl, lst2, rk2)
               /\ Entered(h, Len(st), heads, sz, cl, lst, rk, 0, got.item, got.head, h2, heads2, sz2, lst2, rk2)
<1> DEFINE K == Len(st)
<1>1. /\ Lists(h, K, heads, sz, cl, lst, rk) /\ got = alloc_item(h, heads[0])
      /\ \A k \in 1 .. K : heads[k] = st[k].items /\ sz[k] = st[k].count
      /\ \A k \in 1 .. K - 1 : cl[k] = st[k].item
  BY DEF Handled
<1>2. K \in Nat /\ 0 \in 0 .. K /\ K \in 1 .. K /\ \A k \in 1 .. K - 1 : k \in 1 .. K /\ k # K
  BY StackFacts
<1>3. Len(st2) = K /\ st2[K] = g /\ \A k \in 1 .. K : k # K => st2[k] = st[k]
  BY TopSet
<1> HIDE DEF K
<1>4. PICK heads2, sz2, lst2, rk2 :
          Entered(h, K, heads, sz, cl, lst, rk, 0, got.item, got.head, h2, heads2, sz2, lst2, rk2)
  BY <1>1, <1>2, AllocPush
<1>5. Lists(h2, K, heads2, sz2, cl, lst2, rk2) /\ heads2[0] = got.item
  BY <1>4 DEF Entered
<1>6. \A k \in 1 .. K : heads2[k] = heads[k] /\ sz2[k] = sz[k]
  BY <1>2, <1>4 DEF Entered
<1>7. \A k \in 1 .. K : st2[k].items = st[k].items /\ st2[k].count = st[k].count
  BY <1>2, <1>3 DEF K
<1>8. \A k \in 1 .. K : heads2[k] = st2[k].items /\ sz2[k] = st2[k].count
  BY <1>1, <1>6, <1>7
<1>9. \A k \in 1 .. K - 1 : cl[k] = st2[k].item
  BY <1>1, <1>2, <1>3
<1> QED
  BY <1>3, <1>4, <1>5, <1>8, <1>9 DEF Handled, K

\* An entry is listed: its item is put in front of the list of the last directory.
LEMMA ListHandled ==
    ASSUME NEW h, NEW st, NEW head, NEW heads, NEW sz, NEW cl, NEW lst, NEW rk,
           Handled(h, st, head, heads, sz, cl, lst, rk), IsStack(st), st # <<>>,
           NEW got, got = alloc_item(h, head),
           NEW w, NEW h2, Put(got.heap, got.item, w, h2), w.next = st[Len(st)].items,
           NEW g, g.items = got.item, g.count = st[Len(st)].count + 1,
           NEW st2, st2 = [st EXCEPT ![Len(st)] = g]
    PROVE  \E heads2, sz2, lst2, rk2 :
               /\ Handled(h2, st2, got.head, heads2, sz2, cl, lst2, rk2)
               /\ Entered(h, Len(st), heads, sz, cl, lst, rk, Len(st), got.item, got.head, h2, heads2, sz2, lst2, rk2)
<1> DEFINE K == Len(st)
<1>1. /\ Lists(h, K, heads, sz, cl, lst, rk) /\ got = alloc_item(h, heads[0])
      /\ \A k \in 1 .. K : heads[k] = st[k].items /\ sz[k] = st[k].count
      /\ \A k \in 1 .. K - 1 : cl[k] = st[k].item
  BY DEF Handled
<1>2. K \in Nat /\ K \in 0 .. K /\ K # 0 /\ K \in 1 .. K /\ \A k \in 1 .. K - 1 : k \in 1 .. K /\ k # K
  BY StackFacts
<1>3. Len(st2) = K /\ st2[K] = g /\ \A k \in 1 .. K : k # K => st2[k] = st[k]
  BY TopSet
<1>4. w.next = heads[K] /\ g.count = sz[K] + 1
  BY <1>1, <1>2
<1> HIDE DEF K
<1>5. PICK heads2, sz2, lst2, rk2 :
          Entered(h, K, heads, sz, cl, lst, rk, K, got.item, got.head, h2, heads2, sz2, lst2, rk2)
  BY <1>1, <1>2, <1>4, AllocPush
<1>6. Lists(h2, K, heads2, sz2, cl, lst2, rk2) /\ heads2[0] = got.head /\ heads2[K] = got.item /\ sz2[K] = sz[K] + 1
  BY <1>2, <1>5 DEF Entered
<1>7. \A k \in 1 .. K : k # K => heads2[k] = heads[k] /\ sz2[k] = sz[k]
  BY <1>5 DEF Entered
<1>8. ASSUME NEW k \in 1 .. K PROVE heads2[k] = st2[k].items /\ sz2[k] = st2[k].count
  <2>1. CASE k = K
    BY <1>3, <1>4, <1>6, <2>1
  <2>2. CASE k # K
    BY <1>1, <1>3, <1>7, <2>2
  <2> QED
    BY <2>1, <2>2
<1>9. \A k \in 1 .. K - 1 : cl[k] = st2[k].item
  BY <1>1, <1>2, <1>3
<1> QED
  BY <1>3, <1>5, <1>6, <1>8, <1>9 DEF Handled, K

\* A directory is entered, and imported into an item that is in no list.
EnteredDir(h, K, lst, rk, x, h2, lst2, rk2) ==
    /\ x \in 1 .. Len(h2) /\ lst2[x] = NoList
    /\ KeptBut(x, h, lst, rk, h2, lst2, rk2)
    /\ StayedBut(x, h, lst, h2)

\* x is the item of the last of K directories.
IntoAlso(K, cl, x, cl2) == SameOn(1 .. K - 1, cl, cl2) /\ cl2[K] = x

PushedOn(st, g, e, st2) == \E st1 : st1 = [st EXCEPT ![Len(st)] = g] /\ st2 = Append(st1, e)
EntersFrom(st, x, st2) ==
    \E g, e : /\ g.items = st[Len(st)].items /\ g.count = st[Len(st)].count /\ g.item = x /\ IsFrame(g)
              /\ IsFrame(e) /\ e.items = NULL /\ e.count = 0
              /\ PushedOn(st, g, e, st2)
PutSameNext(h, x, h2) == \E w : Put(h, x, w, h2) /\ w.next = h[x].next

LEMMA EnterHandled ==
    ASSUME NEW h, NEW st, NEW head, NEW heads, NEW sz, NEW cl, NEW lst, NEW rk,
           Handled(h, st, head, heads, sz, cl, lst, rk), IsStack(st), st # <<>>,
           NEW got, got = alloc_item(h, head),
           NEW h2, PutSameNext(got.heap, got.item, h2), NEW st2, EntersFrom(st, got.item, st2)
    PROVE  \E heads2, sz2, cl2, lst2, rk2 :
               /\ Handled(h2, st2, got.head, heads2, sz2, cl2, lst2, rk2)
               /\ EnteredDir(h, Len(st), lst, rk, got.item, h2, lst2, rk2)
               /\ IntoAlso(Len(st), cl, got.item, cl2)
<1> DEFINE K == Len(st)
           x == got.item
<1>24. PICK w : Put(got.heap, got.item, w, h2) /\ w.next = got.heap[got.item].next
  BY DEF PutSameNext
<1>25. PICK g, e : /\ g.items = st[K].items /\ g.count = st[K].count /\ g.item = x /\ IsFrame(g)
                   /\ IsFrame(e) /\ e.items = NULL /\ e.count = 0 /\ PushedOn(st, g, e, st2)
  BY DEF EntersFrom
<1>1. /\ Lists(h, K, heads, sz, cl, lst, rk) /\ got = alloc_item(h, heads[0])
      /\ \A k \in 1 .. K : heads[k] = st[k].items /\ sz[k] = st[k].count
      /\ \A k \in 1 .. K - 1 : cl[k] = st[k].item
  BY DEF Handled
<1>2. K \in Nat /\ K > 0 /\ 0 \in 0 .. K /\ K \in 1 .. K /\ \A k \in 1 .. K - 1 : k \in 1 .. K /\ k # K
  BY StackFacts
<1>23. PICK st1 : st1 = [st EXCEPT ![Len(st)] = g] /\ st2 = Append(st1, e)
  BY <1>25 DEF PushedOn
<1>3. Len(st1) = K /\ st1[K] = g /\ \A k \in 1 .. K : k # K => st1[k] = st[k]
  BY <1>23, TopSet
<1>4. Len(st2) = K + 1 /\ st2[K + 1] = e /\ \A k \in 1 .. K : st2[k] = st1[k]
  <2>1. IsStack(st1)
    BY <1>23, <1>25, StackChanged
  <2>2. PICK S : st1 \in Seq(S)
    BY <2>1 DEF IsStack
  <2> DEFINE R == S \cup {e}
  <2>5. S \subseteq R /\ e \in R
    OBVIOUS
  <2> HIDE DEF R
  <2>3. PICK T : st1 \in Seq(T) /\ e \in T
    BY <2>2, <2>5, SeqMonotonic
  <2>4. Len(st2) = Len(st1) + 1 /\ st2[Len(st1) + 1] = e /\ \A k \in 1 .. Len(st1) : st2[k] = st1[k]
    BY <1>23, <2>3
  <2> QED
    BY <1>3, <2>4
<1> HIDE DEF K
<1>5. PICK heads1, sz1, lst2, rk2 : Allocated(h, K, heads, sz, cl, lst, rk, got, heads1, sz1, lst2, rk2)
  BY <1>1, AllocLists
<1>6. /\ Lists(got.heap, K, heads1, sz1, cl, lst2, rk2) /\ Loose(got.heap, K, cl, lst2, x)
      /\ heads1[0] = got.head /\ KeptBut(x, h, lst, rk, got.heap, lst2, rk2) /\ StayedBut(x, h, lst, got.heap)
  BY <1>5 DEF Allocated
<1>7. \A j \in 1 .. K : heads1[j] = heads[j] /\ sz1[j] = sz[j]
  BY <1>5 DEF Allocated, SameOn
<1>8. /\ h2 \in Seq(ItemType) /\ Len(h2) = Len(got.heap) /\ x \in 1 .. Len(h2)
      /\ \A i \in 1 .. Len(got.heap) : h2[i].next = got.heap[i].next
      /\ \A i \in 1 .. Len(got.heap) : i # x => h2[i] = got.heap[i]
  BY <1>6, <1>24 DEF Put, Loose
<1>9. Lists(h2, K, heads1, sz1, cl, lst2, rk2)
  BY <1>6, <1>8, SameLists
<1>10. Loose(h2, K, cl, lst2, x)
  BY <1>6, <1>8 DEF Loose
<1>11. KeptBut(x, h, lst, rk, h2, lst2, rk2) /\ StayedBut(x, h, lst, h2)
  BY <1>6, <1>8 DEF KeptBut, StayedBut
<1> HIDE DEF x
<1>12. PICK heads2 : Changed(heads1, 0 .. K, K + 1, NULL, heads2)
  BY ChangedExists
<1>13. PICK sz2 : Changed(sz1, 0 .. K, K + 1, 0, sz2)
  BY ChangedExists
<1>14. PICK cl2 : Changed(cl, 1 .. K - 1, K, x, cl2)
  BY ChangedExists
<1>15. Lists(h2, K + 1, heads2, sz2, cl2, lst2, rk2)
  BY <1>2, <1>9, <1>10, <1>12, <1>13, <1>14, EnterLists
<1>16. /\ heads2[0] = got.head /\ heads2[K + 1] = NULL /\ sz2[K + 1] = 0
       /\ \A k \in 1 .. K : heads2[k] = heads1[k] /\ sz2[k] = sz1[k]
  BY <1>2, <1>6, <1>12, <1>13 DEF Changed
<1>17. cl2[K] = x /\ \A k \in 1 .. K - 1 : cl2[k] = cl[k]
  BY <1>2, <1>14 DEF Changed
<1>18. ASSUME NEW k \in 1 .. K PROVE st1[k].items = st[k].items /\ st1[k].count = st[k].count
  BY <1>3, <1>25 DEF K
<1>19. ASSUME NEW k \in 1 .. K + 1 PROVE heads2[k] = st2[k].items /\ sz2[k] = st2[k].count
  <2>1. CASE k = K + 1
    BY <1>4, <1>16, <1>25, <2>1
  <2>2. CASE k # K + 1
    <3>1. k \in 1 .. K
      BY <1>2, <2>2
    <3> QED
      BY <1>1, <1>4, <1>7, <1>16, <1>18, <3>1
  <2> QED
    BY <2>1, <2>2
<1>20. ASSUME NEW k \in 1 .. (K + 1) - 1 PROVE cl2[k] = st2[k].item
  <2>1. CASE k = K
    BY <1>2, <1>3, <1>4, <1>17, <1>25, <2>1 DEF x
  <2>2. CASE k # K
    <3>1. k \in 1 .. K - 1 /\ k \in 1 .. K
      BY <1>2, <2>2
    <3> QED
      BY <1>1, <1>3, <1>4, <1>17, <2>2, <3>1
  <2> QED
    BY <2>1, <2>2
<1>21. Handled(h2, st2, got.head, heads2, sz2, cl2, lst2, rk2)
  BY <1>4, <1>15, <1>16, <1>19, <1>20 DEF Handled
<1>22. EnteredDir(h, K, lst, rk, x, h2, lst2, rk2)
  BY <1>8, <1>10, <1>11 DEF EnteredDir, Loose, x
<1> QED
  BY <1>17, <1>21, <1>22 DEF SameOn, IntoAlso, K, x


-----------------------------------------------------------------------------
(* The loop over the items of a directory. *)

IsRun(f, m, a, c) == f[0] = a /\ \A i \in 1 .. m : f[i] = Turn(f[i - 1], c)
LoopStart(h0, head0, frame, ds0) ==
    [heap |-> h0, head |-> head0, items |-> frame.items, rows |-> <<>>, dirs |-> ds0, wild |-> FALSE, crashed |-> FALSE]

\* The loop is a run of its turns.
LEMMA LoopRuns ==
    ASSUME NEW h0, NEW head0, NEW frame, NEW ds0, NEW c, frame.count \in Nat
    PROVE  \E f : /\ IsRun(f, frame.count, LoopStart(h0, head0, frame, ds0), c)
                  /\ TableLoop(h0, head0, frame, ds0, c) = f[frame.count]
<1> DEFINE a == LoopStart(h0, head0, frame, ds0)
           n == frame.count
           Is(f, m) == f = [i \in 0 .. m |-> IF i = 0 THEN a ELSE Turn(f[i - 1], c)]
           T == {m \in Nat : \E f : Is(f, m)}
           r == CHOOSE f : Is(f, n)
<1>1. TableLoop(h0, head0, frame, ds0, c) = r[n]
  BY DEF TableLoop, LoopStart
<1> HIDE DEF a
<1>2. 0 \in T
  <2> DEFINE f == [i \in 0 .. 0 |-> a]
  <2>1. Is(f, 0)
    <3>1. \A i \in 0 .. 0 : f[i] = IF i = 0 THEN a ELSE Turn(f[i - 1], c)
      OBVIOUS
    <3>2. f = [i \in 0 .. 0 |-> f[i]]
      OBVIOUS
    <3> HIDE DEF f
    <3> QED
      BY <3>1, <3>2
  <2> QED
    BY <2>1
<1>3. ASSUME NEW m \in Nat, m \in T PROVE m + 1 \in T
  <2>1. PICK f : Is(f, m)
    BY <1>3
  <2>2. \A i \in 0 .. m : f[i] = IF i = 0 THEN a ELSE Turn(f[i - 1], c)
    BY <2>1
  <2> DEFINE g == [i \in 0 .. m + 1 |-> IF i = m + 1 THEN Turn(f[m], c) ELSE f[i]]
  <2>3. g[m + 1] = Turn(f[m], c) /\ \A i \in 0 .. m : g[i] = f[i]
    OBVIOUS
  <2>4. g = [i \in 0 .. m + 1 |-> g[i]]
    OBVIOUS
  <2> HIDE DEF g
  <2>5. ASSUME NEW i \in 0 .. m + 1 PROVE g[i] = IF i = 0 THEN a ELSE Turn(g[i - 1], c)
    <3>1. CASE i = m + 1
      <4>1. i - 1 = m /\ i # 0 /\ m \in 0 .. m
        BY <3>1
      <4> QED
        BY <2>3, <3>1, <4>1
    <3>2. CASE i # m + 1 /\ i # 0
      <4>1. i \in 0 .. m /\ i - 1 \in 0 .. m
        BY <3>2
      <4> QED
        BY <2>2, <2>3, <3>2, <4>1
    <3>3. CASE i = 0
      <4>1. i \in 0 .. m
        BY <3>3
      <4> QED
        BY <2>2, <2>3, <3>3, <4>1
    <3> QED
      BY <3>1, <3>2, <3>3
  <2>6. Is(g, m + 1)
    BY <2>4, <2>5
  <2> HIDE DEF Is
  <2> QED
    BY <2>6
<1> HIDE DEF T
<1>4. Nat \subseteq T
  BY <1>2, <1>3, Induction
<1>5. \E f : Is(f, n)
  BY <1>4 DEF T
<1>6. Is(r, n)
  <2> HIDE DEF Is
  <2> QED
    BY <1>5
<1>7. IsRun(r, n, a, c)
  <2> HIDE DEF r
  <2>1. \A i \in 0 .. n : r[i] = IF i = 0 THEN a ELSE Turn(r[i - 1], c)
    BY <1>6
  <2>2. 0 \in 0 .. n /\ \A i \in 1 .. n : i \in 0 .. n /\ i # 0
    OBVIOUS
  <2> QED
    BY <2>1, <2>2 DEF IsRun
<1> QED
  BY <1>1, <1>7 DEF a

\* A turn that does not end the process: the item it that is in front is freed.
TurnsTo(s, c, it, t) ==
    /\ t.crashed = FALSE /\ t.head = s.items /\ t.items = it.next
    /\ t.heap = [s.heap EXCEPT ![s.items].next = s.head]
    /\ t.rows = <<Row(it)>> \o s.rows
    /\ t.wild = (s.wild \/ it.imp.dotdot = Unset)
    /\ it.imp.dotdot \in DOMAIN s.dirs => t.dirs = [s.dirs EXCEPT ![it.imp.dotdot].dotdot = c]
    /\ it.imp.dotdot \notin DOMAIN s.dirs => t.dirs = s.dirs

LEMMA TurnFields ==
    ASSUME NEW s, NEW c, s.crashed = FALSE, ~(s.items <= 0)
    PROVE  TurnsTo(s, c, s.heap[s.items], Turn(s, c))
BY DEF Turn, free_item, TurnsTo

\* Two heaps whose items differ in their pointers only.
SameButNext(h, h2) ==
    /\ Len(h2) = Len(h)
    /\ \A j \in 1 .. Len(h) : h2[j].entry = h[j].entry /\ h2[j].is_dir = h[j].is_dir /\ h2[j].imp = h[j].imp

\* The lists after i turns: the i items at the front have become free ones.
TurnedTo(h, K, heads, sz, cl, lst, rk, i, s, heads2, sz2, lst2, rk2) ==
    /\ Lists(s.heap, K, heads2, sz2, cl, lst2, rk2)
    /\ heads2[0] = s.head /\ heads2[K] = s.items /\ SameOn(1 .. K - 1, heads, heads2)
    /\ sz2[K] = sz[K] - i /\ SameOn(1 .. K - 1, sz, sz2)
    /\ SameButNext(h, s.heap)
    /\ \A j \in 1 .. Len(h) : lst[j] # K => lst2[j] = lst[j] /\ rk2[j] = rk[j]
    /\ \A j \in 1 .. Len(h) : lst[j] = K /\ rk[j] > sz[K] - i => lst2[j] = 0
    /\ \A j \in 1 .. Len(h) : lst[j] = K /\ rk[j] <= sz[K] - i => lst2[j] = K /\ rk2[j] = rk[j]

\* The first of the items left, which the next turn is about.
FirstLeft(h, K, sz, lst, rk, i, s) ==
    /\ s.items \in 1 .. Len(h) /\ lst[s.items] = K /\ rk[s.items] = sz[K] - i
    /\ Row(s.heap[s.items]) = Row(h[s.items]) /\ s.heap[s.items].imp = h[s.items].imp

LEMMA TurnStep ==
    ASSUME NEW h, NEW K, NEW heads, NEW sz, NEW cl, NEW lst, NEW rk, Lists(h, K, heads, sz, cl, lst, rk), K > 0,
           NEW i \in Nat, i < sz[K], NEW s, s.crashed = FALSE, NEW heads2, NEW sz2, NEW lst2, NEW rk2,
           TurnedTo(h, K, heads, sz, cl, lst, rk, i, s, heads2, sz2, lst2, rk2),
           NEW c, NEW t, t = Turn(s, c)
    PROVE  /\ FirstLeft(h, K, sz, lst, rk, i, s)
           /\ \E heads3, sz3, lst3, rk3 : TurnedTo(h, K, heads, sz, cl, lst, rk, i + 1, t, heads3, sz3, lst3, rk3)
<1> DEFINE x == s.items
           n == Len(h)
<1>1. /\ h \in Seq(ItemType) /\ n \in Nat /\ K \in Nat /\ K \in 0 .. K /\ sz[K] \in Nat /\ K # NoList
      /\ \A j \in 1 .. n : rk[j] \in Nat
      /\ \A j, k \in 1 .. n : lst[j] = K /\ lst[k] = K /\ rk[j] = rk[k] => j = k
  <2>1. h \in Seq(ItemType) /\ Shape(n, NextOf(h), K, heads, sz, lst, rk)
    BY DEF Lists
  <2> HIDE DEF n
  <2>2. n \in Nat /\ K \in Nat /\ K \in 0 .. K /\ K # NoList
    BY <2>1 DEF Shape, NoList
  <2>3. sz[K] \in Nat
    BY <2>1, <2>2 DEF Shape, IsHead
  <2>4. /\ \A j \in 1 .. n : rk[j] \in Nat
        /\ \A j, k \in 1 .. n : lst[j] = K /\ lst[k] = K /\ rk[j] = rk[k] => j = k
    BY <2>1, <2>2 DEF Shape
  <2> QED
    BY <2>1, <2>2, <2>3, <2>4
<1>2. /\ Lists(s.heap, K, heads2, sz2, cl, lst2, rk2) /\ s.heap \in Seq(ItemType)
      /\ heads2[0] = s.head /\ heads2[K] = x /\ SameOn(1 .. K - 1, heads, heads2)
      /\ sz2[K] = sz[K] - i /\ SameOn(1 .. K - 1, sz, sz2)
      /\ SameButNext(h, s.heap) /\ Len(s.heap) = n
  BY DEF TurnedTo, Lists, SameButNext
<1>3. /\ \A j \in 1 .. n : lst[j] # K => lst2[j] = lst[j] /\ rk2[j] = rk[j]
      /\ \A j \in 1 .. n : lst[j] = K /\ rk[j] > sz[K] - i => lst2[j] = 0
      /\ \A j \in 1 .. n : lst[j] = K /\ rk[j] <= sz[K] - i => lst2[j] = K /\ rk2[j] = rk[j]
  BY DEF TurnedTo
<1>4. sz2[K] > 0 /\ sz2[K] \in Nat
  BY <1>1, <1>2
<1>5. x \in 1 .. n /\ lst2[x] = K /\ rk2[x] = sz2[K]
  BY <1>1, <1>2, <1>4 DEF Lists, Shape, IsHead
<1>6. lst[x] = K /\ rk[x] = sz[K] - i
  <2>1. lst[x] = K
    BY <1>3, <1>5
  <2>2. ~(rk[x] > sz[K] - i)
    BY <1>1, <1>3, <1>5, <2>1
  <2>3. rk[x] <= sz[K] - i
    BY <1>1, <1>5, <2>2
  <2> QED
    BY <1>2, <1>3, <1>5, <2>1, <2>3
<1> HIDE DEF n
<1>7. FirstLeft(h, K, sz, lst, rk, i, s)
  BY <1>2, <1>5, <1>6 DEF FirstLeft, Row, SameButNext, n
<1>8. s.head \in Int
  <2>1. IsHead(Len(s.heap), heads2, sz2, lst2, rk2, 0) /\ Len(s.heap) \in Nat
    BY <1>1, <1>2 DEF Lists, Shape
  <2> QED
    BY <1>2, <2>1 DEF IsHead, NULL
<1>9. /\ t.crashed = FALSE /\ t.head = x /\ t.items = s.heap[x].next
      /\ t.heap = [s.heap EXCEPT ![x].next = s.head]
  <2>1. ~(s.items <= 0)
    BY <1>1, <1>5
  <2>2. TurnsTo(s, c, s.heap[s.items], t)
    BY <2>1, TurnFields
  <2> QED
    BY <2>2 DEF TurnsTo
<1> HIDE DEF x
<1>10. Put(s.heap, x, Item(s.heap[x].entry, s.heap[x].is_dir, s.head, s.heap[x].imp), t.heap)
  BY <1>2, <1>5, <1>8, <1>9, SetNext
<1>11. /\ t.heap \in Seq(ItemType) /\ Len(t.heap) = n /\ t.heap[x].next = s.head
       /\ \A j \in 1 .. n : j # x => t.heap[j] = s.heap[j]
       /\ t.heap[x].entry = s.heap[x].entry /\ t.heap[x].is_dir = s.heap[x].is_dir /\ t.heap[x].imp = s.heap[x].imp
  <2>1. s.heap[x] \in ItemType
    BY <1>2, <1>5
  <2> QED
    BY <1>2, <1>8, <1>10, <2>1, ItemTypes, ItemFields DEF Put
<1>12. PICK heads3, sz3, lst3, rk3 :
           Turned(s.heap, K, heads2, sz2, cl, lst2, rk2, x, t.heap, heads3, sz3, lst3, rk3)
  <2>1. /\ Len(t.heap) = Len(s.heap) /\ t.heap[x].next = heads2[0] /\ x = heads2[K]
        /\ \A j \in 1 .. Len(s.heap) : j # x => t.heap[j].next = s.heap[j].next
    BY <1>2, <1>11
  <2> QED
    BY <1>2, <1>4, <1>11, <2>1, TurnLists
<1>13. /\ Lists(t.heap, K, heads3, sz3, cl, lst3, rk3)
       /\ heads3[0] = t.head /\ heads3[K] = t.items
  BY <1>9, <1>12 DEF Turned
<1>14. SameOn(1 .. K - 1, heads, heads3) /\ SameOn(1 .. K - 1, sz, sz3)
  BY <1>2, <1>12 DEF Turned, SameOn
<1>15. sz3[K] = sz[K] - (i + 1)
  <2>1. sz3[K] = sz2[K] - 1
    BY <1>12 DEF Turned
  <2> QED
    BY <1>1, <1>2, <2>1
<1>16. SameButNext(h, t.heap)
  BY <1>2, <1>11 DEF SameButNext, n
<1>17. lst3[x] = 0 /\ \A j \in 1 .. n : j # x => lst3[j] = lst2[j] /\ rk3[j] = rk2[j]
  BY <1>2, <1>12 DEF Turned, Changed, SameOn
<1>18. \A j \in 1 .. n : lst[j] # K => lst3[j] = lst[j] /\ rk3[j] = rk[j]
  BY <1>3, <1>6, <1>17
<1>19. ASSUME NEW j \in 1 .. n, lst[j] = K, rk[j] > sz[K] - (i + 1) PROVE lst3[j] = 0
  <2>1. CASE j = x
    BY <1>17, <2>1
  <2>2. CASE j # x
    <3>1. rk[j] # sz[K] - i
      BY <1>1, <1>5, <1>6, <1>19, <2>2
    <3>2. rk[j] > sz[K] - i
      BY <1>1, <1>19, <3>1
    <3> QED
      BY <1>3, <1>17, <1>19, <2>2, <3>2
  <2> QED
    BY <2>1, <2>2
<1>20. ASSUME NEW j \in 1 .. n, lst[j] = K, rk[j] <= sz[K] - (i + 1) PROVE lst3[j] = K /\ rk3[j] = rk[j]
  <2>1. rk[j] <= sz[K] - i /\ rk[j] # sz[K] - i
    BY <1>1, <1>20
  <2>2. j # x
    BY <1>6, <2>1
  <2> QED
    BY <1>3, <1>17, <1>20, <2>1, <2>2
<1>21. TurnedTo(h, K, heads, sz, cl, lst, rk, i + 1, t, heads3, sz3, lst3, rk3)
  BY <1>13, <1>14, <1>15, <1>16, <1>18, <1>19, <1>20 DEF TurnedTo, n
<1> QED
  BY <1>7, <1>21


\* All turns of the loop, one for each item.
TurnsOf(h, K, heads, sz, cl, lst, rk, f, c) ==
    /\ \A i \in 0 .. sz[K] : \E heads2, sz2, lst2, rk2 :
          TurnedTo(h, K, heads, sz, cl, lst, rk, i, f[i], heads2, sz2, lst2, rk2)
    /\ \A i \in 0 .. sz[K] : f[i].crashed = FALSE
    /\ \A i \in 0 .. sz[K] - 1 :
          FirstLeft(h, K, sz, lst, rk, i, f[i]) /\ TurnsTo(f[i], c, f[i].heap[f[i].items], f[i + 1])

LEMMA LoopTurns ==
    ASSUME NEW h, NEW K, NEW heads, NEW sz, NEW cl, NEW lst, NEW rk, Lists(h, K, heads, sz, cl, lst, rk), K > 0,
           NEW a, a.heap = h, a.head = heads[0], a.items = heads[K], a.crashed = FALSE,
           NEW c, NEW f, IsRun(f, sz[K], a, c)
    PROVE  TurnsOf(h, K, heads, sz, cl, lst, rk, f, c)
<1> DEFINE At(i) == \E heads2, sz2, lst2, rk2 :
                        TurnedTo(h, K, heads, sz, cl, lst, rk, i, f[i], heads2, sz2, lst2, rk2)
           T == {i \in Nat : i <= sz[K] => f[i].crashed = FALSE /\ At(i)}
<1>1. /\ Shape(Len(h), NextOf(h), K, heads, sz, lst, rk) /\ K \in Nat /\ K \in 0 .. K /\ sz[K] \in Nat /\ K # NoList
      /\ Len(h) \in Nat /\ \A j \in 1 .. Len(h) : rk[j] \in Nat
  <2>1. Shape(Len(h), NextOf(h), K, heads, sz, lst, rk)
    BY DEF Lists
  <2>2. K \in Nat /\ K \in 0 .. K /\ K # NoList /\ Len(h) \in Nat /\ \A j \in 1 .. Len(h) : rk[j] \in Nat
    BY <2>1 DEF Shape, NoList
  <2>3. sz[K] \in Nat
    BY <2>1, <2>2 DEF Shape, IsHead
  <2> QED
    BY <2>1, <2>2, <2>3
<1>2. f[0] = a /\ \A i \in 1 .. sz[K] : f[i] = Turn(f[i - 1], c)
  BY DEF IsRun
<1>3. TurnedTo(h, K, heads, sz, cl, lst, rk, 0, f[0], heads, sz, lst, rk)
  <2>1. \A j \in 1 .. Len(h) : lst[j] = K => rk[j] <= sz[K]
    BY <1>1 DEF Shape, InList
  <2>2. sz[K] - 0 = sz[K] /\ \A j \in 1 .. Len(h) : lst[j] = K => ~(rk[j] > sz[K])
    BY <1>1, <2>1
  <2> QED
    BY <1>2, <2>2 DEF TurnedTo, SameOn, SameButNext
<1>4. 0 \in T
  <2>1. At(0)
    BY <1>3
  <2> HIDE DEF At
  <2> QED
    BY <1>2, <2>1
<1>5. ASSUME NEW i \in Nat, i < sz[K], f[i].crashed = FALSE, At(i)
      PROVE  /\ FirstLeft(h, K, sz, lst, rk, i, f[i]) /\ TurnsTo(f[i], c, f[i].heap[f[i].items], f[i + 1])
             /\ f[i + 1].crashed = FALSE /\ At(i + 1)
  <2>1. PICK heads2, sz2, lst2, rk2 : TurnedTo(h, K, heads, sz, cl, lst, rk, i, f[i], heads2, sz2, lst2, rk2)
    BY <1>5
  <2>2. f[i + 1] = Turn(f[i], c)
    <3>1. i + 1 \in 1 .. sz[K] /\ (i + 1) - 1 = i
      BY <1>1, <1>5
    <3> QED
      BY <1>2, <3>1
  <2>3. FirstLeft(h, K, sz, lst, rk, i, f[i]) /\ At(i + 1)
    BY <1>5, <2>1, <2>2, TurnStep
  <2>4. ~(f[i].items <= 0)
    BY <1>1, <2>3 DEF FirstLeft
  <2>5. TurnsTo(f[i], c, f[i].heap[f[i].items], f[i + 1])
    BY <1>5, <2>2, <2>4, TurnFields
  <2>6. f[i + 1].crashed = FALSE
    BY <2>5 DEF TurnsTo
  <2> HIDE DEF At
  <2> QED
    BY <2>3, <2>5, <2>6
<1> HIDE DEF At
<1>6. ASSUME NEW i \in Nat, i \in T PROVE i + 1 \in T
  <2>0. i + 1 \in Nat
    OBVIOUS
  <2> SUFFICES ASSUME i + 1 <= sz[K] PROVE f[i + 1].crashed = FALSE /\ At(i + 1)
    BY <2>0, Zenon
  <2>1. i < sz[K] /\ i <= sz[K]
    BY <1>1
  <2> QED
    BY <1>5, <1>6, <2>1
<1> HIDE DEF T
<1>7. Nat \subseteq T
  BY <1>4, <1>6, Induction
<1>8. \A i \in 0 .. sz[K] : f[i].crashed = FALSE /\ At(i)
  <2> TAKE i \in 0 .. sz[K]
  <2>1. i \in Nat /\ i <= sz[K]
    BY <1>1
  <2> QED
    BY <1>7, <2>1 DEF T
<1>9. \A i \in 0 .. sz[K] - 1 :
          FirstLeft(h, K, sz, lst, rk, i, f[i]) /\ TurnsTo(f[i], c, f[i].heap[f[i].items], f[i + 1])
  <2> TAKE i \in 0 .. sz[K] - 1
  <2>1. i \in Nat /\ i < sz[K] /\ i \in 0 .. sz[K]
    BY <1>1
  <2> QED
    BY <1>5, <1>8, <2>1
<1> QED
  BY <1>8, <1>9 DEF TurnsOf, At

\* A pointer that was never set is followed only if an item has one.
NotWild(s) == s.wild = FALSE

LEMMA LoopWild ==
    ASSUME NEW h, NEW K, NEW heads, NEW sz, NEW cl, NEW lst, NEW rk, NEW f, NEW c,
           TurnsOf(h, K, heads, sz, cl, lst, rk, f, c), sz[K] \in Nat, NotWild(f[0]), ~NotWild(f[sz[K]])
    PROVE  \E j \in 1 .. Len(h) : lst[j] = K /\ h[j].imp.dotdot = Unset
<1> SUFFICES ASSUME \A j \in 1 .. Len(h) : lst[j] = K => h[j].imp.dotdot # Unset PROVE FALSE
  OBVIOUS
<1> DEFINE T == {i \in Nat : i <= sz[K] => NotWild(f[i])}
<1>1. 0 \in T
  OBVIOUS
<1>2. ASSUME NEW i \in Nat, i \in T PROVE i + 1 \in T
  <2>0. i + 1 \in Nat
    OBVIOUS
  <2> SUFFICES ASSUME i + 1 <= sz[K] PROVE NotWild(f[i + 1])
    BY <2>0, Zenon
  <2>1. i <= sz[K] /\ i \in 0 .. sz[K] - 1
    OBVIOUS
  <2>2. FirstLeft(h, K, sz, lst, rk, i, f[i]) /\ TurnsTo(f[i], c, f[i].heap[f[i].items], f[i + 1])
    BY <2>1 DEF TurnsOf
  <2>3. f[i].heap[f[i].items].imp.dotdot # Unset
    BY <2>2 DEF FirstLeft
  <2>4. f[i + 1].wild = (f[i].wild \/ f[i].heap[f[i].items].imp.dotdot = Unset)
    BY <2>2 DEF TurnsTo
  <2>5. NotWild(f[i])
    BY <1>2, <2>1
  <2> QED
    BY <2>3, <2>4, <2>5 DEF NotWild
<1> HIDE DEF T
<1>3. sz[K] \in T
  BY <1>1, <1>2, Induction
<1> QED
  BY <1>3 DEF T


-----------------------------------------------------------------------------
(* A directory is left: its items are free, and the item x of its caller is *)
(* put in front of the caller's list.                                       *)

Left(h, K, count, lst, rk, x, h2, lst2, rk2) ==
    /\ Len(h2) = Len(h) /\ x \in 1 .. Len(h) /\ lst[x] = NoList /\ lst2[x] = K - 1 /\ rk2[x] = count + 1
    /\ \A j \in 1 .. Len(h) : j # x =>
          h2[j].entry = h[j].entry /\ h2[j].is_dir = h[j].is_dir /\ h2[j].imp = h[j].imp
    /\ \A j \in 1 .. Len(h) : j # x /\ lst[j] # K => lst2[j] = lst[j] /\ rk2[j] = rk[j]
    /\ \A j \in 1 .. Len(h) : lst[j] = K => lst2[j] = 0

\* A stack without its last frame, and another one in the place of the one before.
Popped(st, K, g, st2) == st2 = [SubSeq(st, 1, K - 1) EXCEPT ![K - 1] = g]

LEMMA StackLeft ==
    ASSUME NEW st, IsStack(st), NEW K, K = Len(st), K > 1, NEW g,
           NEW st2, Popped(st, K, g, st2)
    PROVE  /\ Len(st2) = K - 1 /\ st2[K - 1] = g
           /\ \A k \in 1 .. K - 1 : k # K - 1 => st2[k] = st[k]
<1> DEFINE S == {st[i] : i \in DOMAIN st} \cup {g}
           r == SubSeq(st, 1, K - 1)
<1>1. st \in Seq(S) /\ g \in S
  BY SeqMonotonic DEF IsStack
<1> HIDE DEF S
<1>2. K \in Nat /\ K - 1 \in 1 .. K - 1 /\ K - 1 \in 1 .. K
  BY <1>1, LenProperties
<1>3. r \in Seq(S) /\ Len(r) = K - 1 /\ \A k \in 1 .. K - 1 : r[k] = st[k]
  BY <1>1, <1>2
<1> HIDE DEF r
<1>4. st2 = [r EXCEPT ![K - 1] = g]
  BY DEF r, Popped
<1>5. Len(st2) = Len(r) /\ DOMAIN r = 1 .. K - 1
  BY <1>1, <1>2, <1>3, <1>4, ExceptSeq
<1> QED
  BY <1>2, <1>3, <1>4, <1>5

HeadsOf(st, m, heads, sz) == \A k \in 1 .. m : heads[k] = st[k].items /\ sz[k] = st[k].count
ItemsOf(st, m, cl) == \A k \in 1 .. m : cl[k] = st[k].item
Returned(h, k, count, x, lst, rk, lst2, rk2) ==
    /\ lst2[x] = k /\ rk2[x] = count + 1
    /\ \A j \in 1 .. Len(h) : j # x => lst2[j] = lst[j] /\ rk2[j] = rk[j]

LEMMA ReturnHandled ==
    ASSUME NEW h, NEW K, NEW heads, NEW sz, NEW cl, NEW lst, NEW rk, Lists(h, K - 1, heads, sz, cl, lst, rk),
           NEW x, Loose(h, K - 1, cl, lst, x), NEW w, NEW h2, Put(h, x, w, h2), w.next = heads[K - 1],
           NEW st, IsStack(st), K = Len(st), K > 1,
           HeadsOf(st, K - 1, heads, sz), ItemsOf(st, K - 1, cl),
           NEW g, g.items = x, g.count = sz[K - 1] + 1,
           NEW st2, Popped(st, K, g, st2)
    PROVE  \E heads2, sz2, lst2, rk2 :
               /\ Handled(h2, st2, heads[0], heads2, sz2, cl, lst2, rk2)
               /\ Returned(h, K - 1, sz[K - 1], x, lst, rk, lst2, rk2)
<1> USE DEF HeadsOf, ItemsOf
<1>1. Len(st2) = K - 1 /\ st2[K - 1] = g /\ \A k \in 1 .. K - 1 : k # K - 1 => st2[k] = st[k]
  BY StackLeft
<1>2. PICK M : M = K - 1
  OBVIOUS
<1>3. M \in Nat /\ M \in 0 .. M /\ 0 \in 0 .. M /\ M # 0 /\ \A k \in 1 .. M : k \in 0 .. M
  BY <1>2, K > 1 DEF Lists, Shape
<1>4. h2 \in Seq(ItemType) /\ Len(h2) = Len(h) /\ h2[x].next = heads[M]
  BY <1>2 DEF Put
<1>5. \A j \in 1 .. Len(h) : j # x => h2[j].next = h[j].next
  BY DEF Put
<1>6. Lists(h, M, heads, sz, cl, lst, rk) /\ Loose(h, M, cl, lst, x)
  BY <1>2
<1>7. PICK heads2, sz2, lst2, rk2 : Pushed(h, M, heads, sz, cl, lst, rk, M, x, h2, heads2, sz2, lst2, rk2)
  BY <1>3, <1>4, <1>5, <1>6, PushLists
<1>8. Lists(h2, M, heads2, sz2, cl, lst2, rk2)
  BY <1>7 DEF Pushed
<1>9. heads2[0] = heads[0] /\ heads2[M] = x /\ \A k \in 1 .. M : k # M => heads2[k] = heads[k]
  BY <1>3, <1>7 DEF Pushed, Changed
<1>10. sz2[M] = sz[M] + 1 /\ \A k \in 1 .. M : k # M => sz2[k] = sz[k]
  BY <1>3, <1>7 DEF Pushed, Changed
<1>11. /\ lst2[x] = M /\ rk2[x] = sz[M] + 1
       /\ \A j \in 1 .. Len(h) : j # x => lst2[j] = lst[j] /\ rk2[j] = rk[j]
  BY <1>7 DEF Pushed, Changed
<1>12. ASSUME NEW k \in 1 .. M PROVE heads2[k] = st2[k].items /\ sz2[k] = st2[k].count
  <2>1. CASE k = M
    BY <1>1, <1>2, <1>9, <1>10, <2>1
  <2>2. CASE k # M
    BY <1>1, <1>2, <1>9, <1>10, <2>2
  <2> QED
    BY <2>1, <2>2
<1>13. ASSUME NEW k \in 1 .. M - 1 PROVE cl[k] = st2[k].item
  <2>1. k \in 1 .. M /\ k # M
    BY <1>3
  <2> QED
    BY <1>1, <1>2, <2>1
<1>14. Handled(h2, st2, heads[0], heads2, sz2, cl, lst2, rk2)
  BY <1>1, <1>2, <1>8, <1>9, <1>12, <1>13 DEF Handled
<1>15. Returned(h, K - 1, sz[K - 1], x, lst, rk, lst2, rk2)
  BY <1>2, <1>11 DEF Returned
<1> QED
  BY <1>14, <1>15

\* The last of the directories, whose list is at its end.
LEMMA EndLists ==
    ASSUME NEW h, NEW heads, NEW sz, NEW cl, NEW lst, NEW rk, Lists(h, 0, heads, sz, cl, lst, rk)
    PROVE  Handled(h, <<>>, heads[0], heads, sz, cl, lst, rk)
<1>1. Len(<<>>) = 0 /\ \A k \in 1 .. 0 : FALSE
  OBVIOUS
<1>2. \A k \in 1 .. 0 - 1 : FALSE
  OBVIOUS
<1> QED
  BY <1>1, <1>2 DEF Handled


\* The items of the last directory have become free ones, in a heap hp whose free ones start at hd.
Emptied(h, st, K, cl, lst, rk, hp, hd, heads1, sz1, lst1, rk1) ==
    /\ Lists(hp, K - 1, heads1, sz1, cl, lst1, rk1) /\ heads1[0] = hd
    /\ \A k \in 1 .. K - 1 : heads1[k] = st[k].items /\ sz1[k] = st[k].count
    /\ \A k \in 1 .. K - 1 : cl[k] = st[k].item
    /\ SameButNext(h, hp)
    /\ K > 1 => Loose(hp, K - 1, cl, lst1, cl[K - 1]) /\ lst[cl[K - 1]] = NoList
    /\ \A j \in 1 .. Len(h) : lst[j] # K => lst1[j] = lst[j] /\ rk1[j] = rk[j]
    /\ \A j \in 1 .. Len(h) : lst[j] = K => lst1[j] = 0

\* The loop does that.
Starts(a, h, head, items) == a.heap = h /\ a.head = head /\ a.items = items /\ a.crashed = FALSE
EmptiedIn(h, st, K, cl, lst, rk, s) ==
    /\ s.crashed = FALSE
    /\ \E heads1, sz1, lst1, rk1 : Emptied(h, st, K, cl, lst, rk, s.heap, s.head, heads1, sz1, lst1, rk1)

RunOf(st, h, head, a, f, c) == Starts(a, h, head, st[Len(st)].items) /\ IsRun(f, st[Len(st)].count, a, c)
LoopsTo(h, st, heads, sz, cl, lst, rk, f, c) ==
    /\ TurnsOf(h, Len(st), heads, sz, cl, lst, rk, f, c)
    /\ sz[Len(st)] = st[Len(st)].count /\ sz[Len(st)] \in Nat
    /\ EmptiedIn(h, st, Len(st), cl, lst, rk, f[st[Len(st)].count])

LEMMA LoopHandled ==
    ASSUME NEW h, NEW st, NEW head, NEW heads, NEW sz, NEW cl, NEW lst, NEW rk,
           Handled(h, st, head, heads, sz, cl, lst, rk), IsStack(st), st # <<>>,
           NEW a, NEW c, NEW f, RunOf(st, h, head, a, f, c)
    PROVE  LoopsTo(h, st, heads, sz, cl, lst, rk, f, c)
<1>00. PICK K : K = Len(st)
  OBVIOUS
<1>0. PICK s : s = f[st[K].count]
  OBVIOUS
<1>01. Starts(a, h, head, st[K].items) /\ IsRun(f, st[K].count, a, c)
  BY <1>00 DEF RunOf
<1>1. /\ Lists(h, K, heads, sz, cl, lst, rk) /\ heads[0] = head
      /\ \A k \in 1 .. K : heads[k] = st[k].items /\ sz[k] = st[k].count
      /\ \A k \in 1 .. K - 1 : cl[k] = st[k].item
  BY <1>00 DEF Handled
<1>2. /\ K \in Nat /\ K > 0 /\ K \in 1 .. K /\ K \in 0 .. K /\ (\A k \in 1 .. K - 1 : k \in 1 .. K)
      /\ \A k \in 1 .. (K - 1) : k \in 0 .. K
  BY <1>00, StackFacts
<1>3. sz[K] = st[K].count /\ heads[K] = st[K].items
  BY <1>1, <1>2
<1>4. sz[K] \in Nat /\ Len(h) \in Nat /\ \A j \in 1 .. Len(h) : rk[j] \in Nat
  <2>1. Shape(Len(h), NextOf(h), K, heads, sz, lst, rk)
    BY <1>1 DEF Lists
  <2> QED
    BY <1>2, <2>1 DEF Shape, IsHead
<1>5. IsRun(f, sz[K], a, c) /\ s = f[sz[K]] /\ f[0] = a
  BY <1>0, <1>01, <1>3 DEF IsRun
<1>6. TurnsOf(h, K, heads, sz, cl, lst, rk, f, c)
  <2>1. a.heap = h /\ a.head = heads[0] /\ a.items = heads[K] /\ a.crashed = FALSE
    BY <1>01, <1>1, <1>3 DEF Starts
  <2> QED
    BY <1>1, <1>2, <1>5, <2>1, LoopTurns
<1>7. sz[K] \in 0 .. sz[K]
  BY <1>4
<1>8. PICK heads1, sz1, lst1, rk1 : TurnedTo(h, K, heads, sz, cl, lst, rk, sz[K], s, heads1, sz1, lst1, rk1)
  BY <1>5, <1>6, <1>7 DEF TurnsOf
<1>9. s.crashed = FALSE
  BY <1>5, <1>6, <1>7 DEF TurnsOf
<1>10. /\ Lists(s.heap, K, heads1, sz1, cl, lst1, rk1) /\ heads1[0] = s.head /\ SameButNext(h, s.heap)
       /\ SameOn(1 .. K - 1, heads, heads1) /\ SameOn(1 .. K - 1, sz, sz1) /\ sz1[K] = sz[K] - sz[K]
  BY <1>8 DEF TurnedTo
<1>11. sz1[K] = 0 /\ sz[K] - sz[K] = 0
  BY <1>4, <1>10
<1>12. Lists(s.heap, K - 1, heads1, sz1, cl, lst1, rk1)
  BY <1>2, <1>10, <1>11, LeaveLists
<1>13. \A k \in 1 .. K - 1 : heads1[k] = st[k].items /\ sz1[k] = st[k].count
  BY <1>1, <1>2, <1>10 DEF SameOn
<1>14. K > 1 => Loose(s.heap, K - 1, cl, lst1, cl[K - 1])
  BY <1>10, CallerLoose
<1>15. K > 1 => lst[cl[K - 1]] = NoList
  BY <1>1, <1>2, CallerLoose DEF Loose
<1>16. \A j \in 1 .. Len(h) : lst[j] # K => lst1[j] = lst[j] /\ rk1[j] = rk[j]
  BY <1>8 DEF TurnedTo
<1>17. ASSUME NEW j \in 1 .. Len(h), lst[j] = K PROVE lst1[j] = 0
  <2>1. rk[j] \in Nat /\ rk[j] >= 1
    <3>1. InList(Len(h), NextOf(h), sz, lst, rk, j)
      BY <1>1, <1>2, <1>17 DEF Lists, Shape, NoList
    <3> QED
      BY <1>4, <3>1 DEF InList
  <2>2. rk[j] > sz[K] - sz[K]
    BY <1>11, <2>1
  <2> QED
    BY <1>8, <1>17, <2>2 DEF TurnedTo
<1>18. Emptied(h, st, K, cl, lst, rk, s.heap, s.head, heads1, sz1, lst1, rk1)
  BY <1>1, <1>10, <1>12, <1>13, <1>14, <1>15, <1>16, <1>17 DEF Emptied
<1>19. EmptiedIn(h, st, K, cl, lst, rk, s)
  BY <1>9, <1>18 DEF EmptiedIn
<1> QED
  BY <1>00, <1>0, <1>3, <1>4, <1>6, <1>19 DEF LoopsTo

\* And free_items: the item at the end of the list is the one whose pointer is not one.
IsTail(h, head, tail) == tail = CHOOSE i \in Members(h, head) : h[i].next <= 0
IsLinked(h, tail, head, hp) == hp = [h EXCEPT ![tail].next = head]

LEMMA LinkPut ==
    ASSUME NEW h \in Seq(ItemType), NEW x \in 1 .. Len(h), NEW n \in Int, NEW h2, IsLinked(h, x, n, h2)
    PROVE  Put(h, x, Item(h[x].entry, h[x].is_dir, n, h[x].imp), h2)
BY SetNext DEF IsLinked

LEMMA FullHandled ==
    ASSUME NEW h, NEW st, NEW head, NEW heads, NEW sz, NEW cl, NEW lst, NEW rk,
           Handled(h, st, head, heads, sz, cl, lst, rk), IsStack(st), st # <<>>, NEW K, K = Len(st),
           st[K].items # NULL,
           NEW tail, IsTail(h, st[K].items, tail), NEW hp, IsLinked(h, tail, head, hp)
    PROVE  \E heads1, sz1, lst1, rk1 : Emptied(h, st, K, cl, lst, rk, hp, st[K].items, heads1, sz1, lst1, rk1)
<1>1. /\ Lists(h, K, heads, sz, cl, lst, rk) /\ heads[0] = head
      /\ \A k \in 1 .. K : heads[k] = st[k].items /\ sz[k] = st[k].count
      /\ \A k \in 1 .. K - 1 : cl[k] = st[k].item
  BY DEF Handled
<1>2. K \in Nat /\ K > 0 /\ K \in 1 .. K /\ K \in 0 .. K /\ 0 \in 0 .. K /\ \A k \in 1 .. K - 1 : k \in 1 .. K
  BY StackFacts
<1>3. heads[K] = st[K].items
  BY <1>1, <1>2
<1>4. h \in Seq(ItemType) /\ Len(h) \in Nat /\ Shape(Len(h), NextOf(h), K, heads, sz, lst, rk)
  BY <1>1 DEF Lists, Shape
<1>5. IsHead(Len(h), heads, sz, lst, rk, K) /\ IsHead(Len(h), heads, sz, lst, rk, 0)
  BY <1>2, <1>4 DEF Shape
<1>6. sz[K] \in Nat /\ sz[K] > 0 /\ head \in Int
  BY <1>1, <1>3, <1>4, <1>5 DEF IsHead, NULL
<1>7. Members(h, st[K].items) = {i \in 1 .. Len(h) : lst[i] = K}
  BY <1>2, <1>3, <1>4, HeapFacts, WalkShape
<1>8. \A i \in 1 .. Len(h) : NextOf(h)[i] = h[i].next
  BY <1>4, HeapFacts
<1>9. \A i \in 1 .. Len(h) : lst[i] = K => InList(Len(h), NextOf(h), sz, lst, rk, i) /\ rk[i] \in Nat
  BY <1>2, <1>4 DEF Shape, NoList
<1>10. \E i \in Members(h, st[K].items) : h[i].next <= 0
  <2>1. 1 \in 1 .. sz[K]
    BY <1>6
  <2>2. PICK i \in 1 .. Len(h) : lst[i] = K /\ rk[i] = 1
    BY <1>2, <1>4, <2>1, RanksTaken
  <2>3. h[i].next = NULL
    BY <1>8, <1>9, <2>2 DEF InList
  <2> QED
    BY <1>7, <2>2, <2>3 DEF NULL
<1>11. tail \in Members(h, st[K].items) /\ h[tail].next <= 0
  BY <1>10 DEF IsTail
<1>12. tail \in 1 .. Len(h) /\ lst[tail] = K
  BY <1>7, <1>11
<1>13. rk[tail] = 1
  <2>1. InList(Len(h), NextOf(h), sz, lst, rk, tail) /\ rk[tail] \in Nat /\ h[tail].next = NextOf(h)[tail]
    BY <1>8, <1>9, <1>12
  <2>2. ~(rk[tail] > 1)
    BY <1>4, <1>11, <2>1 DEF InList
  <2> QED
    BY <2>1, <2>2 DEF InList
<1>14. Put(h, tail, Item(h[tail].entry, h[tail].is_dir, head, h[tail].imp), hp)
  BY <1>4, <1>6, <1>12, SetNext DEF IsLinked
<1>15. h[tail] \in ItemType
  BY <1>4, <1>12
<1>16. /\ hp \in Seq(ItemType) /\ Len(hp) = Len(h) /\ hp[tail].next = heads[0]
       /\ \A i \in 1 .. Len(h) : i # tail => hp[i] = h[i]
       /\ hp[tail].entry = h[tail].entry /\ hp[tail].is_dir = h[tail].is_dir /\ hp[tail].imp = h[tail].imp
  BY <1>1, <1>6, <1>14, <1>15, ItemTypes, ItemFields DEF Put
<1>17. PICK heads1, sz1, lst1, rk1 : Joined(h, K, heads, sz, cl, lst, rk, hp, heads1, sz1, lst1, rk1)
  <2>1. \A i \in 1 .. Len(h) : i # tail => hp[i].next = h[i].next
    BY <1>16
  <2> QED
    BY <1>1, <1>2, <1>6, <1>12, <1>13, <1>16, <2>1, JoinLists
<1>18. /\ Lists(hp, K - 1, heads1, sz1, cl, lst1, rk1) /\ heads1[0] = st[K].items
       /\ SameOn(1 .. K - 1, heads, heads1) /\ SameOn(1 .. K - 1, sz, sz1)
  BY <1>3, <1>17 DEF Joined
<1>19. \A k \in 1 .. K - 1 : heads1[k] = st[k].items /\ sz1[k] = st[k].count
  BY <1>1, <1>2, <1>18 DEF SameOn
<1>20. SameButNext(h, hp)
  BY <1>16 DEF SameButNext
<1>21. \A j \in 1 .. Len(h) : lst[j] # K => lst1[j] = lst[j] /\ rk1[j] = rk[j]
  BY <1>17 DEF Joined
<1>22. \A j \in 1 .. Len(h) : lst[j] = K => lst1[j] = 0
  BY <1>17 DEF Joined
<1>23. ASSUME K > 1 PROVE Loose(hp, K - 1, cl, lst1, cl[K - 1]) /\ lst[cl[K - 1]] = NoList
  <2>1. Loose(h, K - 1, cl, lst, cl[K - 1])
    BY <1>1, <1>23, CallerLoose
  <2>2. cl[K - 1] \in 1 .. Len(h) /\ lst[cl[K - 1]] = NoList /\ NoList # K
    BY <1>2, <2>1 DEF Loose, NoList
  <2> QED
    BY <1>16, <1>21, <2>1, <2>2 DEF Loose
<1> QED
  BY <1>1, <1>18, <1>19, <1>20, <1>21, <1>22, <1>23 DEF Emptied

\* Back in the caller.
LEMMA LeftHandled ==
    ASSUME NEW h, NEW st, IsStack(st), NEW K, K = Len(st), K > 1, NEW cl, NEW lst, NEW rk, NEW hp, NEW hd,
           NEW heads1, NEW sz1, NEW lst1, NEW rk1, Emptied(h, st, K, cl, lst, rk, hp, hd, heads1, sz1, lst1, rk1),
           NEW x, x = st[K - 1].item, NEW w, NEW h2, Put(hp, x, w, h2), w.next = st[K - 1].items,
           NEW g, g.items = x, g.count = st[K - 1].count + 1, NEW st2, Popped(st, K, g, st2)
    PROVE  \E heads2, sz2, lst2, rk2 :
               /\ Handled(h2, st2, hd, heads2, sz2, cl, lst2, rk2)
               /\ Left(h, K, st[K - 1].count, lst, rk, x, h2, lst2, rk2)
<1>1. /\ Lists(hp, K - 1, heads1, sz1, cl, lst1, rk1) /\ heads1[0] = hd /\ SameButNext(h, hp)
      /\ (\A k \in 1 .. K - 1 : heads1[k] = st[k].items /\ sz1[k] = st[k].count)
      /\ (\A k \in 1 .. K - 1 : cl[k] = st[k].item)
      /\ Loose(hp, K - 1, cl, lst1, cl[K - 1]) /\ lst[cl[K - 1]] = NoList
      /\ (\A j \in 1 .. Len(h) : lst[j] # K => lst1[j] = lst[j] /\ rk1[j] = rk[j])
      /\ \A j \in 1 .. Len(h) : lst[j] = K => lst1[j] = 0
  BY DEF Emptied
<1>2. K \in Nat /\ K - 1 \in 1 .. K - 1
  <2>1. K \in Nat
    BY LenProperties DEF IsStack
  <2> QED
    BY <2>1
<1>3. x = cl[K - 1] /\ w.next = heads1[K - 1] /\ g.count = sz1[K - 1] + 1 /\ sz1[K - 1] = st[K - 1].count
  BY <1>1, <1>2
<1>4. Loose(hp, K - 1, cl, lst1, x) /\ lst[x] = NoList
  BY <1>1, <1>3
<1>5. PICK heads2, sz2, lst2, rk2 :
          /\ Handled(h2, st2, heads1[0], heads2, sz2, cl, lst2, rk2)
          /\ Returned(hp, K - 1, sz1[K - 1], x, lst1, rk1, lst2, rk2)
  <2>1. HeadsOf(st, K - 1, heads1, sz1) /\ ItemsOf(st, K - 1, cl)
    BY <1>1 DEF HeadsOf, ItemsOf
  <2> QED
    BY <1>1, <1>3, <1>4, <2>1, ReturnHandled
<1>12. /\ lst2[x] = K - 1 /\ rk2[x] = sz1[K - 1] + 1
       /\ \A j \in 1 .. Len(hp) : j # x => lst2[j] = lst1[j] /\ rk2[j] = rk1[j]
  BY <1>5 DEF Returned
<1>6. Len(h2) = Len(hp) /\ Len(hp) = Len(h) /\ \A j \in 1 .. Len(hp) : j # x => h2[j] = hp[j]
  BY <1>1 DEF Put, SameButNext
<1>7. \A j \in 1 .. Len(h) : j # x =>
          h2[j].entry = h[j].entry /\ h2[j].is_dir = h[j].is_dir /\ h2[j].imp = h[j].imp
  BY <1>1, <1>6 DEF SameButNext
<1>8. x \in 1 .. Len(h) /\ K # NoList
  BY <1>2, <1>4, <1>6 DEF Loose, NoList
<1>9. \A j \in 1 .. Len(h) : j # x /\ lst[j] # K => lst2[j] = lst[j] /\ rk2[j] = rk[j]
  BY <1>1, <1>6, <1>12
<1>10. \A j \in 1 .. Len(h) : lst[j] = K => lst2[j] = 0
  BY <1>1, <1>4, <1>6, <1>8, <1>12
<1>11. Left(h, K, st[K - 1].count, lst, rk, x, h2, lst2, rk2)
  BY <1>3, <1>4, <1>6, <1>12, <1>7, <1>8, <1>9, <1>10 DEF Left
<1> QED
  BY <1>1, <1>5, <1>11


-----------------------------------------------------------------------------
(* The directories being read are a path in the tree.                       *)

EntryType == [parent : Nat, kind : {"file", "dir"}, first : Nat, size : Nat, ok : BOOLEAN]
SkippedType == [parent : Nat, kind : {"skipped"}]
TruthType == EntryType \cup SkippedType

Tree(st, tr) ==
    /\ tr \in Seq(TruthType)
    /\ st # <<>> => st[1].dir = 0
    /\ \A k \in 2 .. Len(st) :
          /\ st[k].dir \in 1 .. Len(tr) /\ tr[st[k].dir] \in EntryType
          /\ tr[st[k].dir].kind = "dir" /\ tr[st[k].dir].ok = TRUE /\ tr[st[k].dir].size = 0
          /\ tr[st[k].dir].parent = st[k - 1].dir
    /\ \A j, k \in 1 .. Len(st) : j < k => st[j].dir < st[k].dir

SameDirs(st, m, st2) == Len(st2) = m /\ \A k \in 1 .. m : st2[k].dir = st[k].dir

\* An entry is read.
AppendedTo(tr, t, tr2) ==
    /\ tr2 \in Seq(TruthType) /\ Len(tr2) = Len(tr) + 1 /\ tr2[Len(tr) + 1] = t
    /\ \A e \in 1 .. Len(tr) : tr2[e] = tr[e]

LEMMA TruthAppended ==
    ASSUME NEW tr \in Seq(TruthType), NEW t \in TruthType
    PROVE  AppendedTo(tr, t, Append(tr, t)) /\ Len(tr) \in Nat
BY DEF AppendedTo

LEMMA TreeRead ==
    ASSUME NEW st, IsStack(st), st # <<>>, NEW tr, Tree(st, tr), NEW st2, SameDirs(st, Len(st), st2), st2 # <<>>,
           NEW t, NEW tr2, AppendedTo(tr, t, tr2)
    PROVE  Tree(st2, tr2)
<1>1. Len(st) \in Nat /\ 1 \in 1 .. Len(st) /\ \A k \in 2 .. Len(st) : k \in 1 .. Len(st) /\ k - 1 \in 1 .. Len(st)
  BY StackFacts
<1>2. Len(st2) = Len(st) /\ \A k \in 1 .. Len(st) : st2[k].dir = st[k].dir
  BY DEF SameDirs
<1>3. Len(tr) \in Nat /\ tr2 \in Seq(TruthType) /\ Len(tr2) = Len(tr) + 1 /\ \A e \in 1 .. Len(tr) : tr2[e] = tr[e]
  BY DEF AppendedTo, Tree
<1>4. 1 .. Len(tr) \subseteq 1 .. Len(tr2)
  BY <1>3
<1>5. ASSUME NEW k \in 2 .. Len(st2)
      PROVE  /\ st2[k].dir \in 1 .. Len(tr2) /\ tr2[st2[k].dir] \in EntryType
             /\ tr2[st2[k].dir].kind = "dir" /\ tr2[st2[k].dir].ok = TRUE /\ tr2[st2[k].dir].size = 0
             /\ tr2[st2[k].dir].parent = st2[k - 1].dir
  <2>1. k \in 2 .. Len(st) /\ st2[k].dir = st[k].dir /\ st2[k - 1].dir = st[k - 1].dir
    BY <1>1, <1>2
  <2>2. st[k].dir \in 1 .. Len(tr) /\ tr2[st[k].dir] = tr[st[k].dir]
    BY <1>3, <2>1 DEF Tree
  <2> QED
    BY <1>4, <2>1, <2>2 DEF Tree
<1>6. st2[1].dir = 0
  BY <1>1, <1>2 DEF Tree
<1>7. \A j, k \in 1 .. Len(st2) : j < k => st2[j].dir < st2[k].dir
  BY <1>2 DEF Tree
<1> QED
  BY <1>3, <1>5, <1>6, <1>7 DEF Tree

\* A directory is entered.
LEMMA TreeEnter ==
    ASSUME NEW st, IsStack(st), st # <<>>, NEW tr, Tree(st, tr), NEW K, K = Len(st),
           NEW st2, Len(st2) = K + 1, \A k \in 1 .. K : st2[k].dir = st[k].dir, st2[K + 1].dir = Len(tr) + 1,
           NEW t \in EntryType, t.kind = "dir", t.ok = TRUE, t.size = 0, t.parent = st[K].dir,
           NEW tr2, AppendedTo(tr, t, tr2)
    PROVE  Tree(st2, tr2)
<1>1. K \in Nat /\ K > 0 /\ 1 \in 1 .. K /\ \A k \in 2 .. K : k \in 1 .. K /\ k - 1 \in 1 .. K
  BY StackFacts
<1>2. /\ Len(tr) \in Nat /\ tr2 \in Seq(TruthType) /\ Len(tr2) = Len(tr) + 1 /\ tr2[Len(tr) + 1] = t
      /\ \A e \in 1 .. Len(tr) : tr2[e] = tr[e]
  BY DEF AppendedTo, Tree
<1>3. 1 .. Len(tr) \subseteq 1 .. Len(tr2) /\ Len(tr) + 1 \in 1 .. Len(tr2)
  BY <1>2
<1>4. ASSUME NEW k \in 2 .. K + 1
      PROVE  /\ st2[k].dir \in 1 .. Len(tr2) /\ tr2[st2[k].dir] \in EntryType
             /\ tr2[st2[k].dir].kind = "dir" /\ tr2[st2[k].dir].ok = TRUE /\ tr2[st2[k].dir].size = 0
             /\ tr2[st2[k].dir].parent = st2[k - 1].dir
  <2>1. CASE k = K + 1
    <3>1. k - 1 = K /\ K \in 1 .. K /\ st2[k].dir = Len(tr) + 1 /\ tr2[st2[k].dir] = t
      BY <1>1, <1>2, <2>1
    <3> QED
      BY <1>3, <3>1
  <2>2. CASE k # K + 1
    <3>1. k \in 2 .. K /\ st2[k].dir = st[k].dir /\ st2[k - 1].dir = st[k - 1].dir
      BY <1>1, <2>2
    <3>2. st[k].dir \in 1 .. Len(tr) /\ tr2[st[k].dir] = tr[st[k].dir]
      BY <1>2, <3>1 DEF Tree
    <3> QED
      BY <1>3, <3>1, <3>2 DEF Tree
  <2> QED
    BY <2>1, <2>2
<1>5. st2[1].dir = 0
  BY <1>1 DEF Tree
<1>6. ASSUME NEW j \in 1 .. K + 1, NEW k \in 1 .. K + 1, j < k PROVE st2[j].dir < st2[k].dir
  <2>1. CASE k = K + 1
    <3>1. j \in 1 .. K
      BY <1>1, <1>6, <2>1
    <3>2. st[j].dir \in 0 .. Len(tr)
      <4>1. CASE j = 1
        BY <1>2, <4>1 DEF Tree
      <4>2. CASE j # 1
        <5>1. j \in 2 .. Len(st)
          BY <1>1, <3>1, <4>2
        <5> QED
          BY <1>2, <5>1 DEF Tree
      <4> QED
        BY <4>1, <4>2
    <3> QED
      BY <1>2, <2>1, <3>1, <3>2
  <2>2. CASE k # K + 1
    <3>1. j \in 1 .. K /\ k \in 1 .. K
      BY <1>1, <1>6, <2>2
    <3> QED
      BY <1>6, <3>1 DEF Tree
  <2> QED
    BY <2>1, <2>2
<1> QED
  BY <1>2, <1>4, <1>5, <1>6 DEF Tree

\* What is known of the directory d changes.
Marked(tr, d, tr2) ==
    /\ tr2 \in Seq(TruthType) /\ Len(tr2) = Len(tr)
    /\ \A e \in 1 .. Len(tr) : e # d => tr2[e] = tr[e]
    /\ \A e \in 1 .. Len(tr) : tr2[e].kind = tr[e].kind /\ tr2[e].parent = tr[e].parent

LEMMA TreeLeave ==
    ASSUME NEW st, IsStack(st), st # <<>>, NEW tr, Tree(st, tr), NEW K, K = Len(st),
           NEW st2, SameDirs(st, K - 1, st2), st2 # <<>> => K > 1, NEW tr2, Marked(tr, st[K].dir, tr2)
    PROVE  Tree(st2, tr2)
<1>1. K \in Nat /\ K > 0 /\ K \in 1 .. K /\ (\A k \in 2 .. K - 1 : k \in 2 .. K /\ k - 1 \in 1 .. K - 1)
      /\ \A k \in 1 .. K - 1 : k \in 1 .. K /\ k < K
  BY StackFacts
<1>2. Len(st2) = K - 1 /\ \A k \in 1 .. K - 1 : st2[k].dir = st[k].dir
  BY DEF SameDirs
<1>3. /\ tr2 \in Seq(TruthType) /\ Len(tr2) = Len(tr)
      /\ \A e \in 1 .. Len(tr) : e # st[K].dir => tr2[e] = tr[e]
  BY DEF Marked
<1>4. ASSUME NEW k \in 2 .. K - 1
      PROVE  /\ st2[k].dir \in 1 .. Len(tr2) /\ tr2[st2[k].dir] \in EntryType
             /\ tr2[st2[k].dir].kind = "dir" /\ tr2[st2[k].dir].ok = TRUE /\ tr2[st2[k].dir].size = 0
             /\ tr2[st2[k].dir].parent = st2[k - 1].dir
  <2>1. k \in 2 .. K /\ k \in 1 .. K - 1 /\ st2[k].dir = st[k].dir /\ st2[k - 1].dir = st[k - 1].dir
    BY <1>1, <1>2
  <2>2. st[k].dir \in 1 .. Len(tr) /\ st[k].dir < st[K].dir
    BY <1>1, <2>1 DEF Tree
  <2>3. tr2[st[k].dir] = tr[st[k].dir]
    <3>1. st[k].dir # st[K].dir
      <4>1. IsFrame(st[K]) /\ IsFrame(st[k])
        BY <1>1, <2>1, StackFacts
      <4>2. st[K].dir \in Nat /\ st[k].dir \in Nat
        BY <4>1 DEF IsFrame
      <4> QED
        BY <2>2, <4>2
    <3> QED
      BY <1>3, <2>2, <3>1
  <2> QED
    BY <1>3, <2>1, <2>2, <2>3 DEF Tree
<1>5. st2 # <<>> => st2[1].dir = 0
  <2>1. K > 1 => 1 \in 1 .. K - 1
    BY <1>1
  <2> QED
    BY <1>2, <2>1 DEF Tree
<1>6. \A j, k \in 1 .. K - 1 : j < k => st2[j].dir < st2[k].dir
  BY <1>1, <1>2 DEF Tree
<1> QED
  BY <1>2, <1>3, <1>4, <1>5, <1>6 DEF Tree


\* The directory d got its cluster, or failed.
FirstPut(tr, d, f, tr2) == tr2 = [tr EXCEPT ![d].first = f]
OkPut(tr, d, ok, tr2) == tr2 = [tr EXCEPT ![d].ok = ok]

LEMMA MarkFirst ==
    ASSUME NEW tr \in Seq(TruthType), NEW d \in 1 .. Len(tr), tr[d] \in EntryType, NEW f \in Nat,
           NEW tr2, FirstPut(tr, d, f, tr2)
    PROVE  /\ Marked(tr, d, tr2) /\ tr2[d] \in EntryType
           /\ tr2[d].first = f /\ tr2[d].ok = tr[d].ok /\ tr2[d].size = tr[d].size
<1> DEFINE t == [tr[d] EXCEPT !.first = f]
<1>1. /\ t \in EntryType /\ t.first = f /\ t.ok = tr[d].ok /\ t.size = tr[d].size
      /\ t.kind = tr[d].kind /\ t.parent = tr[d].parent
  BY DEF EntryType
<1>2. tr2 = [tr EXCEPT ![d] = t]
  BY DEF FirstPut
<1> HIDE DEF t
<1>3. t \in TruthType
  BY <1>1 DEF TruthType
<1>4. tr2 \in Seq(TruthType) /\ Len(tr2) = Len(tr) /\ tr2[d] = t /\ \A e \in 1 .. Len(tr) : e # d => tr2[e] = tr[e]
  BY <1>2, <1>3
<1> QED
  BY <1>1, <1>4 DEF Marked

LEMMA MarkFailed ==
    ASSUME NEW tr \in Seq(TruthType), NEW d \in 1 .. Len(tr), tr[d] \in EntryType, NEW no \in BOOLEAN,
           NEW tr2, OkPut(tr, d, no, tr2)
    PROVE  Marked(tr, d, tr2) /\ tr2[d] \in EntryType /\ tr2[d].ok = no
<1> DEFINE t == [tr[d] EXCEPT !.ok = no]
<1>1. t \in EntryType /\ t.ok = no /\ t.kind = tr[d].kind /\ t.parent = tr[d].parent
  BY DEF EntryType
<1>2. tr2 = [tr EXCEPT ![d] = t]
  BY DEF OkPut
<1> HIDE DEF t
<1>3. t \in TruthType
  BY <1>1 DEF TruthType
<1>4. tr2 \in Seq(TruthType) /\ Len(tr2) = Len(tr) /\ tr2[d] = t /\ \A e \in 1 .. Len(tr) : e # d => tr2[e] = tr[e]
  BY <1>2, <1>3
<1> QED
  BY <1>1, <1>4 DEF Marked

\* import_file sets imp only if it succeeds.
LEMMA SetFile ==
    ASSUME NEW h \in Seq(ItemType), NEW x \in 1 .. Len(h), NEW d \in BOOLEAN, NEW ok \in BOOLEAN, NEW m \in ImportType
    PROVE  \E m2 \in ImportType :
               /\ Put(h, x, Item(h[x].entry, d, h[x].next, m2),
                      [h EXCEPT ![x].is_dir = d, ![x].imp = IF ok THEN m ELSE @])
               /\ ok => m2 = m
<1> DEFINE m2 == IF ok THEN m ELSE h[x].imp
           v == Item(h[x].entry, d, h[x].next, m2)
<1>1. h[x] \in ItemType /\ h[x].imp \in ImportType
  BY ItemTypes
<1>2. m2 \in ImportType /\ (ok => m2 = m)
  BY <1>1
<1>3. [h EXCEPT ![x].is_dir = d, ![x].imp = IF ok THEN m ELSE @] = [h EXCEPT ![x].is_dir = d, ![x].imp = m2]
  OBVIOUS
<1> HIDE DEF m2
<1>4. v \in ItemType
  BY <1>1, <1>2, ItemTypes, ItemFields
<1>5. [h[x] EXCEPT !.is_dir = d, !.imp = m2] = v
  <2>1. [h[x] EXCEPT !.is_dir = d] = Item(h[x].entry, d, h[x].next, h[x].imp)
    BY <1>1 DEF Item, ItemType
  <2>2. [Item(h[x].entry, d, h[x].next, h[x].imp) EXCEPT !.imp = m2] = v
    BY DEF Item
  <2>3. [h[x] EXCEPT !.is_dir = d, !.imp = m2] = [[h[x] EXCEPT !.is_dir = d] EXCEPT !.imp = m2]
    BY Zenon
  <2> HIDE DEF v
  <2> QED
    BY <2>1, <2>2, <2>3
<1>6. [h EXCEPT ![x].is_dir = d, ![x].imp = m2] = [h EXCEPT ![x] = v]
  BY <1>5
<1>7. Put(h, x, v, [h EXCEPT ![x] = v])
  BY <1>4, PutItem
<1> QED
  BY <1>2, <1>3, <1>6, <1>7

-----------------------------------------------------------------------------
(* The steps of the import, as what they do to the lists. *)

Now(heads, sz, cl, lst, rk) == Handled(heap, stack, free_items_head, heads, sz, cl, lst, rk)

\* What alloc_item returns is an item of a heap.
LEMMA GotItem ==
    ASSUME NEW h, NEW st, NEW head, NEW heads, NEW sz, NEW cl, NEW lst, NEW rk,
           Handled(h, st, head, heads, sz, cl, lst, rk), NEW got, got = alloc_item(h, head)
    PROVE  got.heap \in Seq(ItemType) /\ got.item \in 1 .. Len(got.heap) /\ got.head \in Int /\ Len(got.heap) \in Nat
<1>1. Lists(h, Len(st), heads, sz, cl, lst, rk) /\ heads[0] = head
  BY DEF Handled
<1>2. got = alloc_item(h, heads[0])
  BY <1>1
<1>3. PICK heads1, sz1, lst1, rk1 : Allocated(h, Len(st), heads, sz, cl, lst, rk, got, heads1, sz1, lst1, rk1)
  BY <1>1, <1>2, AllocLists
<1>4. Lists(got.heap, Len(st), heads1, sz1, cl, lst1, rk1) /\ heads1[0] = got.head
  BY <1>3 DEF Allocated
<1>5. got.item \in 1 .. Len(got.heap)
  BY <1>3 DEF Allocated, Loose
<1>6. Shape(Len(got.heap), NextOf(got.heap), Len(st), heads1, sz1, lst1, rk1) /\ got.heap \in Seq(ItemType)
  BY <1>4 DEF Lists
<1>7. IsHead(Len(got.heap), heads1, sz1, lst1, rk1, 0) /\ Len(got.heap) \in Nat
  BY <1>6 DEF Shape
<1> QED
  BY <1>4, <1>5, <1>6, <1>7 DEF IsHead, NULL

\* The heads of the lists are pointers.
LEMMA ItemsAreInt ==
    ASSUME NEW h, NEW st, NEW head, NEW heads, NEW sz, NEW cl, NEW lst, NEW rk,
           Handled(h, st, head, heads, sz, cl, lst, rk), NEW k \in 1 .. Len(st)
    PROVE  st[k].items \in Int /\ st[k].count \in Nat
<1>1. Lists(h, Len(st), heads, sz, cl, lst, rk) /\ heads[k] = st[k].items /\ sz[k] = st[k].count
  BY DEF Handled
<1>2. Shape(Len(h), NextOf(h), Len(st), heads, sz, lst, rk)
  BY <1>1 DEF Lists
<1>3. k \in 0 .. Len(st) /\ Len(h) \in Nat
  BY <1>2 DEF Shape
<1>4. IsHead(Len(h), heads, sz, lst, rk, k)
  BY <1>2, <1>3 DEF Shape
<1> QED
  BY <1>1, <1>3, <1>4 DEF IsHead, NULL

LEMMA SkipItemStep ==
    ASSUME ImportInv, NEW heads, NEW sz, NEW cl, NEW lst, NEW rk, Now(heads, sz, cl, lst, rk),
           NEW name, NEW is_other, SkipItem(name, is_other)
    PROVE  /\ SameDirs(stack, Len(stack), stack')
           /\ \E heads2, sz2, lst2, rk2, x, head2 :
                 /\ Handled(heap', stack', free_items_head', heads2, sz2, cl, lst2, rk2)
                 /\ Entered(heap, Len(stack), heads, sz, cl, lst, rk, 0, x, head2, heap', heads2, sz2, lst2, rk2)
<1> DEFINE got == alloc_item(heap, free_items_head)
           h1 == Named(got.heap, got.item, name, entry + 1)
           g == [Top EXCEPT !.item = got.item]
<1>1. /\ phase = "import" /\ stack # <<>> /\ IsStack(stack) /\ entry + 1 \in Nat
      /\ heap' = [h1 EXCEPT ![got.item].next = got.head] /\ free_items_head' = got.item
      /\ stack' = [stack EXCEPT ![Len(stack)] = g]
  BY DEF SkipItem, Reading, ImportInv, free_item, SetTop
<1>2. Handled(heap, stack, free_items_head, heads, sz, cl, lst, rk)
  BY DEF Now
<1> HIDE DEF h1
<1>3. got.heap \in Seq(ItemType) /\ got.item \in 1 .. Len(got.heap) /\ got.head \in Int
  BY <1>2, GotItem
<1>4. IsFrame(Top) /\ Top = stack[Len(stack)]
  BY <1>1, TopIsFrame DEF Top
<1>5. g.items = stack[Len(stack)].items /\ g.count = stack[Len(stack)].count /\ g.dir = stack[Len(stack)].dir
  BY <1>4, FrameFields
<1> HIDE DEF got
<1>6. PICK v : Put(got.heap, got.item, v, h1)
  BY <1>1, <1>3, SetName DEF h1
<1>7. h1 \in Seq(ItemType) /\ got.item \in 1 .. Len(h1)
  BY <1>3, <1>6 DEF Put
<1>8. PICK e \in Nat, d \in BOOLEAN, m \in ImportType : Put(h1, got.item, Item(e, d, got.head, m), heap')
  <2>1. h1[got.item] \in ItemType
    BY <1>7
  <2> QED
    BY <1>1, <1>3, <1>7, <2>1, ItemTypes, SetNext
<1>9. Put(got.heap, got.item, Item(e, d, got.head, m), heap') /\ Item(e, d, got.head, m).next = got.head
  BY <1>3, <1>6, <1>8, PutTwice, ItemFields
<1> HIDE DEF g
<1>10. got = alloc_item(heap, free_items_head)
  BY DEF got
<1>11. PICK heads2, sz2, lst2, rk2 :
           /\ Handled(heap', stack', got.item, heads2, sz2, cl, lst2, rk2)
           /\ Entered(heap, Len(stack), heads, sz, cl, lst, rk, 0, got.item, got.head, heap', heads2, sz2, lst2, rk2)
  BY <1>1, <1>2, <1>5, <1>9, <1>10, SkipHandled
<1>12. SameDirs(stack, Len(stack), stack')
  BY <1>1, <1>5, TopSet DEF SameDirs
<1> QED
  BY <1>1, <1>11, <1>12


LEMMA AllocOk ==
    ASSUME NEW f, NEW owner, NEW len \in Nat, NEW type
    PROVE  fs_alloc_extent(f, owner, len, type).ok \in BOOLEAN
BY DEF fs_alloc_extent

\* What import_file returns.
LEMMA FileFacts ==
    ASSUME ImportInv, NEW size \in Sizes, NEW stat_ok \in BOOLEAN, NEW file, file = import_file(size, stat_ok, entry + 1)
    PROVE  file.ok \in BOOLEAN /\ file.first \in Nat /\ size \in Nat /\ size % U32 \in Nat
<1>1. size \in Nat /\ size % U32 \in Nat /\ entry + 1 \in Nat /\ FsInv(Nat, fs)
  BY ImportAssumption DEF ImportInv
<1>2. CASE stat_ok
  <2>1. file = fs_alloc_extent(fs, entry + 1, size % U32, "FILE")
    BY <1>2 DEF import_file
  <2> QED
    BY <1>1, <2>1, AllocOk, AllocInv
<1>3. CASE ~stat_ok
  <2>1. file.ok = FALSE /\ file.first = 0
    BY <1>3 DEF import_file
  <2>2. file.ok \in BOOLEAN
    BY <2>1, Zenon
  <2>3. file.first \in Nat
    BY <2>1
  <2> QED
    BY <1>1, <2>2, <2>3
<1> QED
  BY <1>2, <1>3

\* A turn of the loop over the entries that ends with the item v in front of the list.
ListedAs(v, heads, sz, cl, lst, rk, heads2, sz2, lst2, rk2) ==
    /\ Handled(heap', stack', free_items_head', heads2, sz2, cl, lst2, rk2)
    /\ \E x : /\ Entered(heap, Len(stack), heads, sz, cl, lst, rk, Len(stack), x, free_items_head', heap',
                         heads2, sz2, lst2, rk2)
              /\ heap'[x] = v

LEMMA ListedStep ==
    ASSUME ImportInv, phase = "import", NEW heads, NEW sz, NEW cl, NEW lst, NEW rk, Now(heads, sz, cl, lst, rk),
           NEW got, got = alloc_item(heap, free_items_head),
           NEW e \in Nat, NEW d \in BOOLEAN, NEW m \in ImportType, NEW n,
           NEW h, Put(got.heap, got.item, Item(e, d, n, m), h), n \in Int,
           heap' = Listed(h, Top, got.item).heap, free_items_head' = got.head,
           stack' = SetTop(Listed(h, Top, got.item).frame)
    PROVE  /\ SameDirs(stack, Len(stack), stack')
           /\ \E heads2, sz2, lst2, rk2 :
                 ListedAs(Item(e, d, stack[Len(stack)].items, m), heads, sz, cl, lst, rk, heads2, sz2, lst2, rk2)
<1> DEFINE g == [Top EXCEPT !.items = got.item, !.count = @ + 1, !.item = NULL]
           K == Len(stack)
           v == Item(e, d, stack[K].items, m)
<1>1. /\ stack # <<>> /\ IsStack(stack) /\ K \in 1 .. K
      /\ heap' = [h EXCEPT ![got.item].next = Top.items]
      /\ stack' = [stack EXCEPT ![K] = g]
  <2>1. stack # <<>> /\ IsStack(stack)
    BY DEF ImportInv
  <2> QED
    BY <2>1, StackFacts DEF Listed, SetTop
<1>2. Handled(heap, stack, free_items_head, heads, sz, cl, lst, rk)
  BY DEF Now
<1>3. IsFrame(Top) /\ Top = stack[K]
  BY <1>1, TopIsFrame DEF Top
<1>4. g.items = got.item /\ g.count = stack[K].count + 1 /\ g.dir = stack[K].dir
  BY <1>3, FrameFields
<1>5. stack[K].items \in Int
  BY <1>1, <1>2, ItemsAreInt
<1> HIDE DEF g
<1>6. SameDirs(stack, Len(stack), stack')
  BY <1>1, <1>4, TopSet DEF SameDirs
<1>7. h \in Seq(ItemType) /\ got.item \in 1 .. Len(h) /\ h[got.item] = Item(e, d, n, m)
  BY <1>2, GotItem DEF Put
<1>8. Put(h, got.item, v, heap')
  <2>1. h[got.item].entry = e /\ h[got.item].is_dir = d /\ h[got.item].imp = m
    BY <1>7, ItemFields
  <2>2. heap' = [h EXCEPT ![got.item].next = stack[K].items]
    BY <1>1, <1>3
  <2> HIDE DEF K
  <2>3. Put(h, got.item, Item(h[got.item].entry, h[got.item].is_dir, stack[K].items, h[got.item].imp), heap')
    <3>1. IsLinked(h, got.item, stack[K].items, heap')
      BY <2>2 DEF IsLinked
    <3> QED
      BY <1>5, <1>7, <3>1, LinkPut
  <2> QED
    BY <2>1, <2>3
<1>9. Put(got.heap, got.item, v, heap')
  BY <1>8, PutTwice
<1>10. v.next = stack[K].items
  BY <1>5, ItemFields
<1>11. heap'[got.item] = v
  BY <1>8 DEF Put
<1> HIDE DEF v, K
<1>12. PICK heads2, sz2, lst2, rk2 :
           /\ Handled(heap', stack', got.head, heads2, sz2, cl, lst2, rk2)
           /\ Entered(heap, Len(stack), heads, sz, cl, lst, rk, Len(stack), got.item, got.head, heap', heads2, sz2, lst2, rk2)
  BY <1>1, <1>2, <1>4, <1>9, <1>10, ListHandled DEF K
<1>13. ListedAs(v, heads, sz, cl, lst, rk, heads2, sz2, lst2, rk2)
  BY <1>11, <1>12 DEF ListedAs
<1> QED
  BY <1>6, <1>13 DEF v, K

\* The item of a file: its imp is what import_file returned, or not known.
FileListed(file, size, heads, sz, cl, lst, rk) ==
    \E m \in ImportType :
       /\ file.ok => m = Imp(file.first, size % U32, NULL)
       /\ \E heads2, sz2, lst2, rk2 :
             ListedAs(Item(entry + 1, FALSE, stack[Len(stack)].items, m), heads, sz, cl, lst, rk, heads2, sz2, lst2, rk2)

LEMMA ImportFileStep ==
    ASSUME ImportInv, NEW heads, NEW sz, NEW cl, NEW lst, NEW rk, Now(heads, sz, cl, lst, rk),
           NEW name, NEW size \in Sizes, NEW stat_ok \in BOOLEAN, ImportFile(name, size, stat_ok),
           NEW file, file = import_file(size, stat_ok, entry + 1)
    PROVE  SameDirs(stack, Len(stack), stack') /\ FileListed(file, size, heads, sz, cl, lst, rk)
<1> DEFINE got == alloc_item(heap, free_items_head)
           x == got.item
           h1 == Named(got.heap, x, name, entry + 1)
           imp == Imp(file.first, size % U32, NULL)
           h == [h1 EXCEPT ![x].is_dir = FALSE, ![x].imp = IF file.ok THEN imp ELSE @]
<1>1. /\ phase = "import" /\ ~convert_name(name).refused /\ entry + 1 \in Nat
      /\ heap' = Listed(h, Top, x).heap /\ free_items_head' = got.head
      /\ stack' = SetTop(Listed(h, Top, x).frame)
  BY DEF ImportFile, Reading, ImportInv, Imp
<1>2. file.ok \in BOOLEAN /\ imp \in ImportType
  BY FileFacts, ImpFields DEF NULL
<1>3. got.heap \in Seq(ItemType) /\ x \in 1 .. Len(got.heap)
  BY GotItem DEF Now
<1> HIDE DEF h1, imp, got
<1>4. PICK m1 \in ImportType : Put(got.heap, x, Item(entry + 1, got.heap[x].is_dir, got.heap[x].next, m1), h1)
  BY <1>1, <1>3, SetName DEF h1
<1>5. got.heap[x].is_dir \in BOOLEAN /\ got.heap[x].next \in Int
  <2>1. got.heap[x] \in ItemType
    BY <1>3
  <2> QED
    BY <2>1, ItemTypes
<1>6. h1 \in Seq(ItemType) /\ x \in 1 .. Len(h1) /\ h1[x].entry = entry + 1 /\ h1[x].next \in Int
  <2> HIDE DEF x, h
  <2>1. h1[x] = Item(entry + 1, got.heap[x].is_dir, got.heap[x].next, m1)
    BY <1>4 DEF Put
  <2>2. h1[x].entry = entry + 1 /\ h1[x].next = got.heap[x].next
    BY <1>1, <1>5, <2>1, ItemFields
  <2>3. h1 \in Seq(ItemType) /\ Len(h1) = Len(got.heap)
    BY <1>4 DEF Put
  <2> QED
    BY <1>3, <1>5, <2>2, <2>3
<1>7. PICK m \in ImportType :
          Put(h1, x, Item(h1[x].entry, FALSE, h1[x].next, m), h) /\ (file.ok => m = imp)
  BY <1>2, <1>6, SetFile
<1> HIDE DEF h
<1>8. Put(got.heap, x, Item(entry + 1, FALSE, h1[x].next, m), h)
  <2>1. Put(h1, x, Item(entry + 1, FALSE, h1[x].next, m), h)
    BY <1>6, <1>7
  <2> QED
    BY <1>4, <2>1, PutTwice
<1>9. got = alloc_item(heap, free_items_head)
  BY DEF got
<1>10. /\ SameDirs(stack, Len(stack), stack')
       /\ \E heads2, sz2, lst2, rk2 :
             ListedAs(Item(entry + 1, FALSE, stack[Len(stack)].items, m), heads, sz, cl, lst, rk, heads2, sz2, lst2, rk2)
  BY <1>1, <1>6, <1>8, <1>9, ListedStep
<1> QED
  BY <1>7, <1>10 DEF imp, FileListed

LEMMA EnterDirFailsStep ==
    ASSUME ImportInv, NEW heads, NEW sz, NEW cl, NEW lst, NEW rk, Now(heads, sz, cl, lst, rk),
           NEW name, EnterDirFails(name)
    PROVE  /\ SameDirs(stack, Len(stack), stack')
           /\ \E m \in ImportType : \E heads2, sz2, lst2, rk2 :
                 ListedAs(Item(entry + 1, TRUE, stack[Len(stack)].items, m),
                          heads, sz, cl, lst, rk, heads2, sz2, lst2, rk2)
<1> DEFINE got == alloc_item(heap, free_items_head)
           x == got.item
           h1 == Named(got.heap, x, name, entry + 1)
           h == [h1 EXCEPT ![x].is_dir = TRUE]
<1>1. /\ phase = "import" /\ ~convert_name(name).refused /\ entry + 1 \in Nat
      /\ heap' = Listed(h, Top, x).heap /\ free_items_head' = got.head
      /\ stack' = SetTop(Listed(h, Top, x).frame)
  BY DEF EnterDirFails, Reading, ImportInv
<1>2. got.heap \in Seq(ItemType) /\ x \in 1 .. Len(got.heap)
  BY GotItem DEF Now
<1> HIDE DEF h1, got
<1>3. PICK m \in ImportType : Put(got.heap, x, Item(entry + 1, got.heap[x].is_dir, got.heap[x].next, m), h1)
  BY <1>1, <1>2, SetName DEF h1
<1>4. got.heap[x].is_dir \in BOOLEAN /\ got.heap[x].next \in Int
  <2>1. got.heap[x] \in ItemType
    BY <1>2
  <2> QED
    BY <2>1, ItemTypes
<1>5. /\ h1 \in Seq(ItemType) /\ x \in 1 .. Len(h1)
      /\ h1[x].entry = entry + 1 /\ h1[x].next \in Int /\ h1[x].imp = m
  BY <1>1, <1>2, <1>3, <1>4, ItemFields DEF Put
<1>6. Put(h1, x, Item(h1[x].entry, TRUE, h1[x].next, h1[x].imp), h)
  BY <1>5, SetIsDir
<1> HIDE DEF h
<1>7. Put(got.heap, x, Item(entry + 1, TRUE, h1[x].next, m), h)
  <2>1. Put(h1, x, Item(entry + 1, TRUE, h1[x].next, m), h)
    BY <1>5, <1>6
  <2> QED
    BY <1>3, <2>1, PutTwice
<1>8. got = alloc_item(heap, free_items_head)
  BY DEF got
<1>9. /\ SameDirs(stack, Len(stack), stack')
      /\ \E heads2, sz2, lst2, rk2 :
            ListedAs(Item(entry + 1, TRUE, stack[Len(stack)].items, m), heads, sz, cl, lst, rk, heads2, sz2, lst2, rk2)
  BY <1>1, <1>5, <1>7, <1>8, ListedStep
<1> QED
  BY <1>9


\* A directory is entered.
EnteredAs(e, heads, sz, cl, lst, rk, heads2, sz2, cl2, lst2, rk2, x) ==
    /\ Handled(heap', stack', free_items_head', heads2, sz2, cl2, lst2, rk2)
    /\ EnteredDir(heap, Len(stack), lst, rk, x, heap', lst2, rk2)
    /\ IntoAlso(Len(stack), cl, x, cl2)
    /\ heap'[x].entry = e

LEMMA EnterDirStep ==
    ASSUME ImportInv, NEW heads, NEW sz, NEW cl, NEW lst, NEW rk, Now(heads, sz, cl, lst, rk),
           NEW name, EnterDir(name)
    PROVE  /\ Len(stack') = Len(stack) + 1 /\ (\A k \in 1 .. Len(stack) : stack'[k].dir = stack[k].dir)
           /\ stack'[Len(stack) + 1].dir = entry + 1
           /\ \E heads2, sz2, cl2, lst2, rk2, x :
                 EnteredAs(entry + 1, heads, sz, cl, lst, rk, heads2, sz2, cl2, lst2, rk2, x)
<1> DEFINE got == alloc_item(heap, free_items_head)
           g == [Top EXCEPT !.item = got.item]
           new == [dir |-> entry + 1, items |-> NULL, item |-> NULL, count |-> 0]
           K == Len(stack)
           st1 == [stack EXCEPT ![K] = g]
<1>1. /\ phase = "import" /\ stack # <<>> /\ IsStack(stack) /\ entry + 1 \in Nat /\ ~convert_name(name).refused
      /\ heap' = Named(got.heap, got.item, name, entry + 1) /\ free_items_head' = got.head
      /\ stack' = Append(st1, new)
  BY DEF EnterDir, Reading, ImportInv, SetTop
<1>2. Handled(heap, stack, free_items_head, heads, sz, cl, lst, rk)
  BY DEF Now
<1>3. got.heap \in Seq(ItemType) /\ got.item \in 1 .. Len(got.heap)
  BY <1>2, GotItem
<1>4. IsFrame(Top) /\ Top = stack[K]
  BY <1>1, TopIsFrame DEF Top
<1>5. /\ g.items = stack[K].items /\ g.count = stack[K].count
      /\ g.dir = stack[K].dir /\ g.item = got.item /\ IsFrame(g)
  <2>1. IsFrame(g)
    BY <1>4, FrameChanged
  <2> QED
    BY <1>4, <2>1, FrameFields
<1>6. IsFrame(new) /\ new.items = NULL /\ new.count = 0 /\ new.dir = entry + 1
  BY <1>1 DEF IsFrame
<1> HIDE DEF new, got, g
<1>7. PICK m \in ImportType : Put(got.heap, got.item, Item(entry + 1, got.heap[got.item].is_dir, got.heap[got.item].next, m), heap')
  BY <1>1, <1>3, SetName
<1>8. got.heap[got.item].is_dir \in BOOLEAN /\ got.heap[got.item].next \in Int
  <2>1. got.heap[got.item] \in ItemType
    BY <1>3
  <2> QED
    BY <2>1, ItemTypes
<1> DEFINE v == Item(entry + 1, got.heap[got.item].is_dir, got.heap[got.item].next, m)
<1>9. v.next = got.heap[got.item].next /\ v.entry = entry + 1
  BY <1>1, <1>8, ItemFields
<1>10. heap'[got.item].entry = entry + 1
  BY <1>7, <1>9 DEF Put
<1> HIDE DEF v
<1>11. Put(got.heap, got.item, v, heap')
  BY <1>7 DEF v
<1>12. got = alloc_item(heap, free_items_head) /\ st1 = [stack EXCEPT ![Len(stack)] = g]
  BY DEF got
<1>13. Len(st1) = K /\ (\A k \in 1 .. K : st1[k].dir = stack[k].dir) /\ IsStack(st1)
  <2>1. Len(st1) = K /\ st1[K] = g /\ \A k \in 1 .. K : k # K => st1[k] = stack[k]
    BY <1>1, TopSet
  <2>2. IsStack(st1)
    BY <1>1, <1>5, StackChanged
  <2> QED
    BY <1>5, <2>1, <2>2
<1> HIDE DEF st1, K
<1>14. Len(stack') = K + 1 /\ stack'[K + 1] = new /\ \A k \in 1 .. K : stack'[k] = st1[k]
  <2>1. PICK S : st1 \in Seq(S)
    BY <1>13 DEF IsStack
  <2> DEFINE R == S \cup {new}
  <2>2. S \subseteq R /\ new \in R
    OBVIOUS
  <2> HIDE DEF R
  <2>3. st1 \in Seq(R)
    BY <2>1, <2>2, SeqMonotonic
  <2> QED
    BY <1>1, <1>13, <2>2, <2>3
<1>15. PICK heads2, sz2, cl2, lst2, rk2 :
           /\ Handled(heap', stack', got.head, heads2, sz2, cl2, lst2, rk2)
           /\ EnteredDir(heap, Len(stack), lst, rk, got.item, heap', lst2, rk2)
           /\ IntoAlso(Len(stack), cl, got.item, cl2)
  <2>1. g.items = stack[Len(stack)].items /\ g.count = stack[Len(stack)].count /\ g.item = got.item /\ IsFrame(g)
    BY <1>5 DEF K
  <2>2. st1 = [stack EXCEPT ![Len(stack)] = g] /\ stack' = Append(st1, new) /\ IsStack(stack) /\ stack # <<>>
    BY <1>1, <1>12
  <2>3. IsFrame(new) /\ new.items = NULL /\ new.count = 0
    BY <1>6
  <2>4. PushedOn(stack, g, new, stack')
    BY <2>2 DEF PushedOn
  <2>5. IsStack(stack) /\ stack # <<>> /\ got = alloc_item(heap, free_items_head)
    BY <1>1, <1>12
  <2>6. EntersFrom(stack, got.item, stack')
    BY <2>1, <2>3, <2>4 DEF EntersFrom
  <2>7. PutSameNext(got.heap, got.item, heap')
    BY <1>9, <1>11 DEF PutSameNext
  <2> QED
    BY <1>2, <2>5, <2>6, <2>7, EnterHandled
<1>16. EnteredAs(entry + 1, heads, sz, cl, lst, rk, heads2, sz2, cl2, lst2, rk2, got.item)
  BY <1>1, <1>10, <1>15 DEF EnteredAs
<1> QED
  BY <1>6, <1>13, <1>14, <1>16 DEF K

\* The item of the caller when import_dir returns.
BackIn(h, x, d, next, h2) == h2 = [[h EXCEPT ![x].is_dir = d] EXCEPT ![x].next = next]

LEMMA BackPut ==
    ASSUME NEW h \in Seq(ItemType), NEW x \in 1 .. Len(h), NEW d \in BOOLEAN, NEW next \in Int, NEW h2, BackIn(h, x, d, next, h2)
    PROVE  Put(h, x, Item(h[x].entry, d, next, h[x].imp), h2)
<1> DEFINE h1 == [h EXCEPT ![x].is_dir = d]
<1>1. Put(h, x, Item(h[x].entry, d, h[x].next, h[x].imp), h1)
  BY SetIsDir
<1>2. h[x] \in ItemType
  OBVIOUS
<1>3. h[x].entry \in Nat /\ h[x].next \in Int /\ h[x].imp \in ImportType
  BY <1>2, ItemTypes
<1>4. IsLinked(h1, x, next, h2)
  BY DEF IsLinked, BackIn
<1> HIDE DEF h1
<1>5. h1 \in Seq(ItemType) /\ x \in 1 .. Len(h1) /\ h1[x] = Item(h[x].entry, d, h[x].next, h[x].imp)
  BY <1>1 DEF Put
<1>6. h1[x].entry = h[x].entry /\ h1[x].is_dir = d /\ h1[x].imp = h[x].imp
  BY <1>3, <1>5, ItemFields
<1>7. Put(h1, x, Item(h1[x].entry, h1[x].is_dir, next, h1[x].imp), h2)
  BY <1>4, <1>5, LinkPut
<1>8. Put(h1, x, Item(h[x].entry, d, next, h[x].imp), h2)
  BY <1>6, <1>7
<1> QED
  BY <1>1, <1>8, PutTwice


\* import_dir returns from the innermost directory, with the heap h: to import_tree, or to its caller, whose item x is listed.
ReturnedTo(h1, cl, lst, rk, h, K, x, heads2, sz2, lst2, rk2) ==
    /\ Handled(heap', stack', free_items_head', heads2, sz2, cl, lst2, rk2)
    /\ Left(h1, K, stack[K - 1].count, lst, rk, x, heap', lst2, rk2)
    /\ heap'[x] = Item(h[x].entry, TRUE, stack[K - 1].items, h[x].imp)

BackAs(h1, cl, lst, rk, h) ==
    /\ Len(stack) = 1 =>
          /\ stack' = <<>>
          /\ \E heads2, sz2, lst2, rk2 : Handled(heap', stack', free_items_head', heads2, sz2, cl, lst2, rk2)
    /\ Len(stack) > 1 =>
          /\ SameDirs(stack, Len(stack) - 1, stack')
          /\ \E heads2, sz2, lst2, rk2 :
                ReturnedTo(h1, cl, lst, rk, h, Len(stack), stack[Len(stack) - 1].item, heads2, sz2, lst2, rk2)

LEMMA ReturnStep ==
    ASSUME ImportInv, phase = "import", NEW h1, NEW cl, NEW lst, NEW rk, NEW hp,
           NEW heads1, NEW sz1, NEW lst1, NEW rk1,
           Emptied(h1, stack, Len(stack), cl, lst, rk, hp, free_items_head', heads1, sz1, lst1, rk1),
           NEW h, Len(stack) = 1 => h = hp,
           Len(stack) > 1 => \E w \in ItemType : Put(hp, stack[Len(stack) - 1].item, w, h),
           NEW ok, NEW first, Return(h, ok, first)
    PROVE  BackAs(h1, cl, lst, rk, h)
<1> DEFINE K == Len(stack)
           x == stack[K - 1].item
           caller == stack[K - 1]
           g == [caller EXCEPT !.items = x, !.count = @ + 1, !.item = NULL]
<1>1. IsStack(stack) /\ stack # <<>> /\ K \in Nat /\ K > 0 /\ (K > 1 => K - 1 \in 1 .. K /\ K - 1 \in 1 .. K - 1)
  <2>1. IsStack(stack) /\ stack # <<>>
    BY DEF ImportInv
  <2> QED
    BY <2>1, StackFacts
<1>2. CASE K = 1
  <2>1. stack' = <<>> /\ heap' = hp
    BY <1>2 DEF Return
  <2>2. Lists(hp, 0, heads1, sz1, cl, lst1, rk1) /\ heads1[0] = free_items_head'
    <3>1. K - 1 = 0
      BY <1>2
    <3> QED
      BY <3>1 DEF Emptied
  <2>3. Handled(hp, <<>>, heads1[0], heads1, sz1, cl, lst1, rk1)
    BY <2>2, EndLists
  <2>4. Handled(heap', stack', free_items_head', heads1, sz1, cl, lst1, rk1)
    BY <2>1, <2>2, <2>3
  <2>5. ~(Len(stack) > 1)
    BY <1>2
  <2> HIDE DEF K
  <2> QED
    BY <2>1, <2>4, <2>5 DEF BackAs
<1>3. CASE K > 1
  <2>1. Caller = x /\ K # 1
    <3>1. Len(stack) > 1
      BY <1>3
    <3>2. Caller = stack[Len(stack) - 1].item
      BY <3>1, Zenon DEF Caller
    <3>3. Caller = x
      BY <3>2, Zenon
    <3>4. K # 1
      <4> HIDE DEF K
      <4> QED
        BY <1>1, <1>3
    <3> QED
      BY <3>3, <3>4, Zenon
  <2>2. /\ heap' = [[h EXCEPT ![x].is_dir = TRUE] EXCEPT ![x].next = caller.items]
        /\ stack' = [SubSeq(stack, 1, K - 1) EXCEPT ![K - 1] = g]
    BY <2>1 DEF Return, Listed
  <2>3. BackIn(h, x, TRUE, caller.items, heap') /\ Popped(stack, K, g, stack')
    BY <2>2 DEF BackIn, Popped
  <2>4. IsFrame(caller)
    BY <1>1, <1>3, StackFacts
  <2>5. g.items = x /\ g.count = caller.count + 1 /\ g.dir = caller.dir
    BY <2>4, FrameFields
  <2>6. /\ Lists(hp, K - 1, heads1, sz1, cl, lst1, rk1)
        /\ (\A k \in 1 .. K - 1 : heads1[k] = stack[k].items)
        /\ (\A k \in 1 .. K - 1 : cl[k] = stack[k].item)
        /\ Loose(hp, K - 1, cl, lst1, cl[K - 1])
    BY <1>3 DEF Emptied
  <2>7. x = cl[K - 1] /\ heads1[K - 1] = caller.items
    BY <1>1, <1>3, <2>6
  <2>8. x \in 1 .. Len(hp) /\ hp \in Seq(ItemType) /\ caller.items \in Int
    <3>1. Shape(Len(hp), NextOf(hp), K - 1, heads1, sz1, lst1, rk1) /\ hp \in Seq(ItemType)
      BY <2>6 DEF Lists
    <3>2. K - 1 \in 0 .. K - 1 /\ Len(hp) \in Nat
      BY <1>1, <3>1
    <3>3. IsHead(Len(hp), heads1, sz1, lst1, rk1, K - 1)
      BY <3>1, <3>2 DEF Shape
    <3>4. caller.items \in Int
      BY <2>7, <3>2, <3>3 DEF IsHead, NULL
    <3>5. x \in 1 .. Len(hp)
      BY <2>6, <2>7 DEF Loose
    <3> QED
      BY <3>1, <3>4, <3>5
  <2> HIDE DEF K, x, caller, g
  <2>9. PICK w \in ItemType : Put(hp, x, w, h)
    BY <1>3 DEF x, K
  <2>10. h \in Seq(ItemType) /\ x \in 1 .. Len(h)
    BY <2>8, <2>9 DEF Put
  <2> DEFINE v == Item(h[x].entry, TRUE, caller.items, h[x].imp)
  <2>11. Put(h, x, v, heap')
    BY <2>3, <2>8, <2>10, BackPut
  <2>12. v.next = caller.items
    <3>1. h[x] \in ItemType
      BY <2>10
    <3>2. h[x].entry \in Nat /\ h[x].imp \in ImportType
      BY <3>1, ItemTypes
    <3>3. \A d \in BOOLEAN : Item(h[x].entry, d, caller.items, h[x].imp).next = caller.items
      BY <2>8, <3>2, ItemFields
    <3> QED
      BY <3>3, Zenon
  <2>13. Put(hp, x, v, heap') /\ heap'[x] = v
    BY <2>9, <2>11, PutTwice DEF Put
  <2> HIDE DEF v
  <2>14. PICK heads2, sz2, lst2, rk2 :
             /\ Handled(heap', stack', free_items_head', heads2, sz2, cl, lst2, rk2)
             /\ Left(h1, K, stack[K - 1].count, lst, rk, x, heap', lst2, rk2)
    <3>1. /\ Emptied(h1, stack, K, cl, lst, rk, hp, free_items_head', heads1, sz1, lst1, rk1)
          /\ K = Len(stack) /\ x = stack[K - 1].item /\ v.next = stack[K - 1].items
          /\ g.items = x /\ g.count = stack[K - 1].count + 1
      BY <2>5, <2>12 DEF K, x, caller
    <3> QED
      BY <1>1, <1>3, <2>3, <2>13, <3>1, LeftHandled
  <2>15. ReturnedTo(h1, cl, lst, rk, h, K, x, heads2, sz2, lst2, rk2)
    BY <2>13, <2>14 DEF ReturnedTo, v, caller
  <2>16. SameDirs(stack, K - 1, stack')
    <3>1. Len(stack') = K - 1 /\ stack'[K - 1] = g /\ \A k \in 1 .. K - 1 : k # K - 1 => stack'[k] = stack[k]
      <4>1. K = Len(stack) /\ IsStack(stack)
        BY <1>1 DEF K
      <4> QED
        BY <1>3, <2>3, <4>1, StackLeft
    <3> QED
      BY <2>5, <3>1 DEF SameDirs, caller
  <2>17. Len(stack) # 1
    BY <1>3 DEF K
  <2> QED
    BY <2>15, <2>16, <2>17 DEF BackAs, K, x
<1> QED
  BY <1>1, <1>2, <1>3

-----------------------------------------------------------------------------
(* The tables that the loop writes. *)

RowType == [entry : Nat, is_dir : BOOLEAN, first : Int, size : Int]
DirType == [dir : Nat, self : Nat, dotdot : Int, rows : Seq(RowType)]

LEMMA RowFields ==
    ASSUME NEW v \in ItemType
    PROVE  /\ Row(v) \in RowType /\ Row(v).entry = v.entry /\ Row(v).is_dir = v.is_dir
           /\ Row(v).first = v.imp.first /\ Row(v).size = v.imp.size
<1>1. v.entry \in Nat /\ v.is_dir \in BOOLEAN /\ v.imp.first \in Int /\ v.imp.size \in Int
  BY ItemTypes
<1> QED
  BY <1>1 DEF Row, RowType

\* After i turns the rows are those of the i items at the front, the first in front.
RowsAt(h, K, sz, lst, rk, i, s) ==
    /\ s.rows \in Seq(RowType) /\ Len(s.rows) = i
    /\ \A j \in 1 .. Len(h) : lst[j] = K /\ rk[j] > sz[K] - i => s.rows[rk[j] - (sz[K] - i)] = Row(h[j])

Prefixed(r, s, s2) == s2 = <<r>> \o s

LEMMA PrefixedSeq ==
    ASSUME NEW r \in RowType, NEW s \in Seq(RowType), NEW s2, Prefixed(r, s, s2)
    PROVE  /\ s2 \in Seq(RowType) /\ Len(s2) = Len(s) + 1 /\ Len(s) \in Nat /\ s2[1] = r
           /\ \A k \in 1 .. Len(s) : s2[k + 1] = s[k]
<1> DEFINE p == <<r>>
<1>1. p \in Seq(RowType) /\ Len(p) = 1 /\ p[1] = r
  OBVIOUS
<1> HIDE DEF p
<1>2. s2 = p \o s
  BY DEF Prefixed, p
<1>3. s2 \in Seq(RowType) /\ Len(s2) = Len(p) + Len(s) /\ Len(s) \in Nat
  BY <1>1, <1>2, ConcatProperties, LenProperties
<1>4. \A k \in 1 .. Len(s2) : s2[k] = IF k <= Len(p) THEN p[k] ELSE s[k - Len(p)]
  BY <1>1, <1>2, <1>3, ConcatProperties
<1>5. s2[1] = r
  BY <1>1, <1>3, <1>4
<1>6. ASSUME NEW k \in 1 .. Len(s) PROVE s2[k + 1] = s[k]
  <2>1. k + 1 \in 1 .. Len(s2) /\ ~(k + 1 <= 1) /\ (k + 1) - 1 = k
    BY <1>1, <1>3
  <2> QED
    BY <1>1, <1>4, <2>1
<1> QED
  BY <1>1, <1>3, <1>5, <1>6

\* The ranks in a list are its own.
RanksOf(h, K, sz, lst, rk) ==
    /\ h \in Seq(ItemType) /\ sz[K] \in Nat /\ Len(h) \in Nat
    /\ \A j \in 1 .. Len(h) : rk[j] \in Nat
    /\ \A j \in 1 .. Len(h) : lst[j] = K => rk[j] >= 1 /\ rk[j] <= sz[K]
    /\ \A j, k \in 1 .. Len(h) : lst[j] = K /\ lst[k] = K /\ rk[j] = rk[k] => j = k

LEMMA ListRanks ==
    ASSUME NEW h, NEW K, NEW heads, NEW sz, NEW cl, NEW lst, NEW rk, Lists(h, K, heads, sz, cl, lst, rk),
           NEW k \in 0 .. K
    PROVE  RanksOf(h, k, sz, lst, rk)
<1>1. h \in Seq(ItemType) /\ Shape(Len(h), NextOf(h), K, heads, sz, lst, rk)
  BY DEF Lists
<1>2. Len(h) \in Nat /\ K \in Nat /\ k # NoList
  BY <1>1 DEF Shape, NoList
<1>3. sz[k] \in Nat
  BY <1>1, <1>2 DEF Shape, IsHead
<1>4. /\ \A j \in 1 .. Len(h) : rk[j] \in Nat
      /\ \A j \in 1 .. Len(h) : lst[j] = k => InList(Len(h), NextOf(h), sz, lst, rk, j)
      /\ \A j, i \in 1 .. Len(h) : lst[j] = k /\ lst[i] = k /\ rk[j] = rk[i] => j = i
  BY <1>1, <1>2 DEF Shape
<1>5. \A j \in 1 .. Len(h) : lst[j] = k => rk[j] >= 1 /\ rk[j] <= sz[k]
  BY <1>4 DEF InList
<1> QED
  BY <1>1, <1>2, <1>3, <1>4, <1>5 DEF RanksOf

LEMMA RowsStep ==
    ASSUME NEW h, NEW K, NEW sz, NEW lst, NEW rk, RanksOf(h, K, sz, lst, rk),
           NEW i \in Nat, i < sz[K], NEW s, FirstLeft(h, K, sz, lst, rk, i, s), RowsAt(h, K, sz, lst, rk, i, s),
           NEW c, NEW t, TurnsTo(s, c, s.heap[s.items], t)
    PROVE  RowsAt(h, K, sz, lst, rk, i + 1, t)
<1>1. PICK n \in Nat : n = sz[K]
  BY DEF RanksOf
<1>2. PICK x \in 1 .. Len(h) : x = s.items /\ lst[x] = K /\ rk[x] = n - i /\ Row(s.heap[s.items]) = Row(h[x])
  BY <1>1 DEF FirstLeft
<1>3. h[x] \in ItemType
  BY <1>2 DEF RanksOf
<1>4. Prefixed(Row(h[x]), s.rows, t.rows)
  BY <1>2 DEF TurnsTo, Prefixed
<1>5. Row(h[x]) \in RowType /\ s.rows \in Seq(RowType) /\ Len(s.rows) = i
  BY <1>3, RowFields DEF RowsAt
<1>6. /\ t.rows \in Seq(RowType) /\ Len(t.rows) = i + 1 /\ t.rows[1] = Row(h[x])
      /\ \A k \in 1 .. i : t.rows[k + 1] = s.rows[k]
  BY <1>4, <1>5, PrefixedSeq
<1>7. ASSUME NEW j \in 1 .. Len(h), lst[j] = K, rk[j] > n - (i + 1)
      PROVE  t.rows[rk[j] - (n - (i + 1))] = Row(h[j])
  <2>1. PICK r \in Nat : r = rk[j] /\ r <= n
    BY <1>1, <1>7 DEF RanksOf
  <2>2. CASE r = n - i
    <3>1. j = x
      BY <1>2, <1>7, <2>1, <2>2 DEF RanksOf
    <3>2. rk[j] - (n - (i + 1)) = 1
      BY <2>1, <2>2
    <3> QED
      BY <1>6, <3>1, <3>2
  <2>3. CASE r # n - i
    <3>1. r > n - i
      BY <1>7, <2>1, <2>3
    <3>2. PICK k \in 1 .. i : k = r - (n - i) /\ r - (n - (i + 1)) = k + 1
      <4>1. r - (n - i) \in 1 .. i /\ r - (n - (i + 1)) = (r - (n - i)) + 1
        BY <2>1, <3>1
      <4> QED
        BY <4>1
    <3>3. s.rows[k] = Row(h[j])
      BY <1>1, <1>7, <2>1, <3>1, <3>2 DEF RowsAt
    <3> QED
      BY <1>6, <2>1, <3>2, <3>3
  <2> QED
    BY <2>2, <2>3
<1> QED
  BY <1>1, <1>6, <1>7 DEF RowsAt

\* And the ".." of the directories among them lead to c; all else stays.
KeptDirs(ds0, ds) ==
    /\ ds \in Seq(DirType) /\ Len(ds) = Len(ds0)
    /\ \A d \in 1 .. Len(ds0) : ds[d].dir = ds0[d].dir /\ ds[d].self = ds0[d].self /\ ds[d].rows = ds0[d].rows

DirsAt(h, K, sz, lst, rk, ds0, c, i, s) ==
    /\ KeptDirs(ds0, s.dirs)
    /\ \A j \in 1 .. Len(h) : lst[j] = K /\ rk[j] > sz[K] - i /\ h[j].imp.dotdot \in 1 .. Len(ds0) =>
          s.dirs[h[j].imp.dotdot].dotdot = c
    /\ \A d \in 1 .. Len(ds0) :
          (\A j \in 1 .. Len(h) : lst[j] = K => h[j].imp.dotdot # d) => s.dirs[d].dotdot = ds0[d].dotdot

\* The ".." of the table d.
DotDotSet(ds, d, c, ds2) == ds2 = [ds EXCEPT ![d].dotdot = c]

LEMMA SetDotDot ==
    ASSUME NEW ds \in Seq(DirType), NEW d \in 1 .. Len(ds), NEW c \in Int, NEW ds2, DotDotSet(ds, d, c, ds2)
    PROVE  KeptDirs(ds, ds2) /\ ds2[d].dotdot = c /\ \A e \in 1 .. Len(ds) : e # d => ds2[e] = ds[e]
<1> DEFINE v == [ds[d] EXCEPT !.dotdot = c]
<1>1. ds[d] \in DirType
  OBVIOUS
<1>2. /\ v \in DirType /\ v.dotdot = c /\ v.dir = ds[d].dir /\ v.self = ds[d].self /\ v.rows = ds[d].rows
  BY <1>1 DEF DirType
<1>3. ds2 = [ds EXCEPT ![d] = v]
  BY DEF DotDotSet
<1> HIDE DEF v
<1>4. ds2 \in Seq(DirType) /\ Len(ds2) = Len(ds) /\ ds2[d] = v /\ \A e \in 1 .. Len(ds) : e # d => ds2[e] = ds[e]
  BY <1>2, <1>3
<1>5. KeptDirs(ds, ds2)
  BY <1>2, <1>4 DEF KeptDirs
<1> QED
  BY <1>2, <1>4, <1>5

LEMMA KeptTwice ==
    ASSUME NEW ds0, NEW ds1, NEW ds2, KeptDirs(ds0, ds1), KeptDirs(ds1, ds2)
    PROVE  KeptDirs(ds0, ds2)
BY DEF KeptDirs

LEMMA DirsStep ==
    ASSUME NEW h, NEW K, NEW sz, NEW lst, NEW rk, RanksOf(h, K, sz, lst, rk),
           NEW i \in Nat, i < sz[K], NEW s, FirstLeft(h, K, sz, lst, rk, i, s),
           NEW ds0, NEW c \in Int, DirsAt(h, K, sz, lst, rk, ds0, c, i, s),
           NEW t, TurnsTo(s, c, s.heap[s.items], t)
    PROVE  DirsAt(h, K, sz, lst, rk, ds0, c, i + 1, t)
<1>1. PICK n \in Nat : n = sz[K]
  BY DEF RanksOf
<1>2. PICK x \in 1 .. Len(h) : x = s.items /\ lst[x] = K /\ rk[x] = n - i /\ s.heap[s.items].imp = h[x].imp
  BY <1>1 DEF FirstLeft
<1>3. PICK y : y = h[x].imp.dotdot
  OBVIOUS
<1>4. s.dirs \in Seq(DirType) /\ Len(s.dirs) = Len(ds0) /\ KeptDirs(ds0, s.dirs)
  BY DEF DirsAt, KeptDirs
<1>5. DOMAIN s.dirs = 1 .. Len(ds0)
  BY <1>4
<1>6. /\ y \in 1 .. Len(ds0) => DotDotSet(s.dirs, y, c, t.dirs)
      /\ y \notin 1 .. Len(ds0) => t.dirs = s.dirs
  <2>1. s.heap[s.items].imp.dotdot = y
    BY <1>2, <1>3
  <2> QED
    BY <1>5, <2>1 DEF TurnsTo, DotDotSet
<1>7. /\ KeptDirs(s.dirs, t.dirs)
      /\ y \in 1 .. Len(ds0) => t.dirs[y].dotdot = c
      /\ \A d \in 1 .. Len(ds0) : d # y => t.dirs[d] = s.dirs[d]
  <2>1. CASE y \in 1 .. Len(ds0)
    BY <1>4, <1>6, <2>1, SetDotDot
  <2>2. CASE y \notin 1 .. Len(ds0)
    BY <1>4, <1>6, <2>2 DEF KeptDirs
  <2> QED
    BY <2>1, <2>2
<1>8. KeptDirs(ds0, t.dirs)
  BY <1>4, <1>7, KeptTwice
<1>9. ASSUME NEW j \in 1 .. Len(h), lst[j] = K, rk[j] > n - (i + 1), h[j].imp.dotdot \in 1 .. Len(ds0)
      PROVE  t.dirs[h[j].imp.dotdot].dotdot = c
  <2>1. CASE h[j].imp.dotdot = y
    BY <1>7, <1>9, <2>1
  <2>2. CASE h[j].imp.dotdot # y
    <3>1. j # x
      BY <1>3, <2>2
    <3>2. rk[j] # n - i /\ rk[j] \in Nat
      BY <1>2, <1>9, <3>1 DEF RanksOf
    <3>3. rk[j] > n - i
      BY <1>9, <3>2
    <3>4. s.dirs[h[j].imp.dotdot].dotdot = c
      BY <1>1, <1>9, <3>3 DEF DirsAt
    <3> QED
      BY <1>7, <1>9, <2>2, <3>4
  <2> QED
    BY <2>1, <2>2
<1>10. ASSUME NEW d \in 1 .. Len(ds0), \A j \in 1 .. Len(h) : lst[j] = K => h[j].imp.dotdot # d
       PROVE  t.dirs[d].dotdot = ds0[d].dotdot
  <2>1. d # y
    BY <1>2, <1>3, <1>10
  <2>2. s.dirs[d].dotdot = ds0[d].dotdot
    BY <1>10 DEF DirsAt
  <2> QED
    BY <1>7, <2>1, <2>2
<1> QED
  BY <1>1, <1>8, <1>9, <1>10 DEF DirsAt

\* The tables when the loop is done: the rows are the items of the list in the order of their ranks.
LEMMA LoopTables ==
    ASSUME NEW h, NEW K, NEW heads, NEW sz, NEW cl, NEW lst, NEW rk, RanksOf(h, K, sz, lst, rk),
           NEW c \in Int, NEW f, TurnsOf(h, K, heads, sz, cl, lst, rk, f, c),
           NEW ds0 \in Seq(DirType), f[0].rows = <<>>, f[0].dirs = ds0,
           NEW i \in Nat, i <= sz[K]
    PROVE  RowsAt(h, K, sz, lst, rk, i, f[i]) /\ DirsAt(h, K, sz, lst, rk, ds0, c, i, f[i])
<1> DEFINE T == {m \in Nat : m <= sz[K] => RowsAt(h, K, sz, lst, rk, m, f[m]) /\ DirsAt(h, K, sz, lst, rk, ds0, c, m, f[m])}
<1>1. PICK n \in Nat : n = sz[K]
  BY DEF RanksOf
<1>2. \A j \in 1 .. Len(h) : lst[j] = K => ~(rk[j] > n - 0)
  BY <1>1 DEF RanksOf
<1>3. RowsAt(h, K, sz, lst, rk, 0, f[0])
  <2>1. f[0].rows \in Seq(RowType) /\ Len(f[0].rows) = 0
    OBVIOUS
  <2> QED
    BY <1>1, <1>2, <2>1 DEF RowsAt
<1>4. DirsAt(h, K, sz, lst, rk, ds0, c, 0, f[0])
  BY <1>1, <1>2 DEF DirsAt, KeptDirs
<1>5. 0 \in T
  BY <1>3, <1>4
<1>6. ASSUME NEW m \in Nat, m \in T PROVE m + 1 \in T
  <2>0. m + 1 \in Nat
    OBVIOUS
  <2> SUFFICES ASSUME m + 1 <= n
               PROVE  RowsAt(h, K, sz, lst, rk, m + 1, f[m + 1]) /\ DirsAt(h, K, sz, lst, rk, ds0, c, m + 1, f[m + 1])
    BY <1>1, <2>0, Zenon
  <2>1. m < n /\ m <= n /\ m \in 0 .. n - 1
    OBVIOUS
  <2>2. FirstLeft(h, K, sz, lst, rk, m, f[m]) /\ TurnsTo(f[m], c, f[m].heap[f[m].items], f[m + 1])
    BY <1>1, <2>1 DEF TurnsOf
  <2>3. RowsAt(h, K, sz, lst, rk, m, f[m]) /\ DirsAt(h, K, sz, lst, rk, ds0, c, m, f[m])
    BY <1>1, <1>6, <2>1
  <2>4. RowsAt(h, K, sz, lst, rk, m + 1, f[m + 1])
    BY <1>1, <2>1, <2>2, <2>3, RowsStep
  <2>5. DirsAt(h, K, sz, lst, rk, ds0, c, m + 1, f[m + 1])
    BY <1>1, <2>1, <2>2, <2>3, DirsStep
  <2> QED
    BY <2>4, <2>5
<1> HIDE DEF T
<1>7. Nat \subseteq T
  BY <1>5, <1>6, Induction
<1> QED
  BY <1>7 DEF T


\* The rows of the last table.
RowsSet(ds, r, ds2) == ds2 = [ds EXCEPT ![Len(ds)].rows = r]

LEMMA SetRows ==
    ASSUME NEW ds \in Seq(DirType), Len(ds) > 0, NEW r \in Seq(RowType), NEW ds2, RowsSet(ds, r, ds2)
    PROVE  /\ ds2 \in Seq(DirType) /\ Len(ds2) = Len(ds)
           /\ \A d \in 1 .. Len(ds) : d # Len(ds) => ds2[d] = ds[d]
           /\ ds2[Len(ds)].rows = r /\ ds2[Len(ds)].dir = ds[Len(ds)].dir /\ ds2[Len(ds)].self = ds[Len(ds)].self
           /\ ds2[Len(ds)].dotdot = ds[Len(ds)].dotdot
<1>0. PICK d \in 1 .. Len(ds) : d = Len(ds)
  OBVIOUS
<1> DEFINE v == [ds[d] EXCEPT !.rows = r]
<1>1. ds[d] \in DirType
  OBVIOUS
<1>2. /\ v \in DirType /\ v.rows = r /\ v.dir = ds[d].dir /\ v.self = ds[d].self /\ v.dotdot = ds[d].dotdot
  BY <1>1 DEF DirType
<1>3. ds2 = [ds EXCEPT ![d] = v]
  BY <1>0 DEF RowsSet
<1> HIDE DEF v
<1>4. ds2 \in Seq(DirType) /\ Len(ds2) = Len(ds) /\ ds2[d] = v /\ \A e \in 1 .. Len(ds) : e # d => ds2[e] = ds[e]
  BY <1>2, <1>3
<1> QED
  BY <1>0, <1>2, <1>4

\* The tables of LeaveDir: the last one has the items of list K for its rows.
TablesTo(h, K, n, lst, rk, c, ds0, ds2) ==
    /\ ds2 \in Seq(DirType) /\ Len(ds2) = Len(ds0)
    /\ \A d \in 1 .. Len(ds0) : ds2[d].dir = ds0[d].dir /\ ds2[d].self = ds0[d].self
    /\ \A d \in 1 .. Len(ds0) : d # Len(ds0) => ds2[d].rows = ds0[d].rows
    /\ Len(ds2[Len(ds0)].rows) = n
    /\ \A j \in 1 .. Len(h) : lst[j] = K => ds2[Len(ds0)].rows[rk[j]] = Row(h[j])
    /\ \A j \in 1 .. Len(h) : lst[j] = K /\ h[j].imp.dotdot \in 1 .. Len(ds0) => ds2[h[j].imp.dotdot].dotdot = c
    /\ \A d \in 1 .. Len(ds0) :
          (\A j \in 1 .. Len(h) : lst[j] = K => h[j].imp.dotdot # d) => ds2[d].dotdot = ds0[d].dotdot

LEMMA TablesLeft ==
    ASSUME NEW h, NEW K, NEW sz, NEW lst, NEW rk, RanksOf(h, K, sz, lst, rk), NEW ds0 \in Seq(DirType), Len(ds0) > 0,
           NEW c, NEW n, n = sz[K], NEW s, RowsAt(h, K, sz, lst, rk, n, s), DirsAt(h, K, sz, lst, rk, ds0, c, n, s),
           NEW ds2, RowsSet(s.dirs, s.rows, ds2)
    PROVE  TablesTo(h, K, n, lst, rk, c, ds0, ds2)
<1>1. n \in Nat /\ n - n = 0 /\ \A j \in 1 .. Len(h) : lst[j] = K => rk[j] \in Nat /\ rk[j] > 0 /\ rk[j] - 0 = rk[j]
  BY DEF RanksOf
<1>2. /\ s.dirs \in Seq(DirType) /\ Len(s.dirs) = Len(ds0)
      /\ \A d \in 1 .. Len(ds0) : s.dirs[d].dir = ds0[d].dir /\ s.dirs[d].self = ds0[d].self /\ s.dirs[d].rows = ds0[d].rows
  BY DEF DirsAt, KeptDirs
<1>3. s.rows \in Seq(RowType) /\ Len(s.rows) = n
  BY DEF RowsAt
<1>4. \A j \in 1 .. Len(h) : lst[j] = K => s.rows[rk[j]] = Row(h[j])
  BY <1>1 DEF RowsAt
<1>5. \A j \in 1 .. Len(h) : lst[j] = K /\ h[j].imp.dotdot \in 1 .. Len(ds0) => s.dirs[h[j].imp.dotdot].dotdot = c
  BY <1>1 DEF DirsAt
<1>6. \A d \in 1 .. Len(ds0) :
          (\A j \in 1 .. Len(h) : lst[j] = K => h[j].imp.dotdot # d) => s.dirs[d].dotdot = ds0[d].dotdot
  BY DEF DirsAt
<1>7. PICK D \in 1 .. Len(ds0) : D = Len(ds0)
  OBVIOUS
<1>8. /\ ds2 \in Seq(DirType) /\ Len(ds2) = Len(ds0)
      /\ \A d \in 1 .. Len(ds0) : d # D => ds2[d] = s.dirs[d]
      /\ ds2[D].rows = s.rows /\ ds2[D].dir = s.dirs[D].dir /\ ds2[D].self = s.dirs[D].self
      /\ ds2[D].dotdot = s.dirs[D].dotdot
  BY <1>2, <1>3, <1>7, SetRows
<1>9. \A d \in 1 .. Len(ds0) : ds2[d].dir = ds0[d].dir /\ ds2[d].self = ds0[d].self
  BY <1>2, <1>7, <1>8
<1>10. \A d \in 1 .. Len(ds0) : ds2[d].dotdot = s.dirs[d].dotdot
  BY <1>8
<1>11. \A d \in 1 .. Len(ds0) : d # Len(ds0) => ds2[d].rows = ds0[d].rows
  BY <1>2, <1>7, <1>8
<1>12. Len(ds2[Len(ds0)].rows) = n /\ \A j \in 1 .. Len(h) : lst[j] = K => ds2[Len(ds0)].rows[rk[j]] = Row(h[j])
  BY <1>3, <1>4, <1>7, <1>8
<1>13. \A j \in 1 .. Len(h) : lst[j] = K /\ h[j].imp.dotdot \in 1 .. Len(ds0) => ds2[h[j].imp.dotdot].dotdot = c
  BY <1>5, <1>10
<1>14. \A d \in 1 .. Len(ds0) :
           (\A j \in 1 .. Len(h) : lst[j] = K => h[j].imp.dotdot # d) => ds2[d].dotdot = ds0[d].dotdot
  BY <1>6, <1>10
<1> QED
  BY <1>8, <1>9, <1>11, <1>12, <1>13, <1>14 DEF TablesTo

-----------------------------------------------------------------------------
(* A directory is left. *)

NewDirs == Append(dirs, [dir |-> Top.dir, self |-> Space.first, dotdot |-> DotDotUnset, rows |-> <<>>])
CallerItem == stack[Len(stack) - 1].item

\* The cluster of the directory is written into the item of the caller, if there is one.
FirstSet(h1, first) ==
    /\ Len(stack) = 1 => h1 = heap
    /\ Len(stack) > 1 =>
          Put(heap, CallerItem,
              Item(heap[CallerItem].entry, heap[CallerItem].is_dir, heap[CallerItem].next,
                   Imp(first, heap[CallerItem].imp.size, heap[CallerItem].imp.dotdot)), h1)

\* The loop of LeaveDir, from the heap h1 on, in the states f.
Looped(h1, f, heads, sz, cl, lst, rk) ==
    /\ FirstSet(h1, Space.first)
    /\ Handled(h1, stack, free_items_head, heads, sz, cl, lst, rk)
    /\ TurnsOf(h1, Len(stack), heads, sz, cl, lst, rk, f, Space.first)
    /\ sz[Len(stack)] = Top.count /\ Top.count \in Nat
    /\ f[0] = LoopStart(h1, free_items_head, Top, NewDirs)
    /\ EmptiedIn(h1, stack, Len(stack), cl, lst, rk, f[Top.count])

\* The item of the caller.
LEMMA CallerFacts ==
    ASSUME ImportInv, phase = "import", NEW heads, NEW sz, NEW cl, NEW lst, NEW rk, Now(heads, sz, cl, lst, rk)
    PROVE  /\ Len(stack) \in Nat /\ Len(stack) > 0
           /\ Len(stack) = 1 => Caller = NULL
           /\ Len(stack) > 1 =>
                 /\ Caller = CallerItem /\ Caller # NULL /\ CallerItem = cl[Len(stack) - 1]
                 /\ CallerItem \in 1 .. Len(heap) /\ lst[CallerItem] = NoList
<1> DEFINE K == Len(stack)
<1>1. IsStack(stack) /\ stack # <<>>
  BY DEF ImportInv
<1>2. K \in Nat /\ K > 0
  BY <1>1, StackFacts
<1>3. Lists(heap, K, heads, sz, cl, lst, rk) /\ \A k \in 1 .. K - 1 : cl[k] = stack[k].item
  BY DEF Now, Handled
<1>4. ASSUME K = 1 PROVE Caller = NULL
  <2>1. ~(Len(stack) > 1)
    BY <1>4
  <2> QED
    BY <2>1, Zenon DEF Caller
<1>5. ASSUME K > 1
      PROVE  /\ Caller = CallerItem /\ Caller # NULL /\ CallerItem = cl[Len(stack) - 1]
             /\ CallerItem \in 1 .. Len(heap) /\ lst[CallerItem] = NoList
  <2>1. Caller = CallerItem
    BY <1>5, Zenon DEF Caller, CallerItem
  <2>2. Loose(heap, K - 1, cl, lst, cl[K - 1])
    BY <1>3, <1>5, CallerLoose
  <2>3. K - 1 \in 1 .. K - 1
    BY <1>2, <1>5
  <2>4. cl[K - 1] = CallerItem
    BY <1>3, <2>3 DEF CallerItem
  <2>5. CallerItem \in 1 .. Len(heap) /\ lst[CallerItem] = NoList
    BY <2>2, <2>4 DEF Loose
  <2>6. CallerItem # NULL
    BY <2>5 DEF NULL
  <2> QED
    BY <2>1, <2>4, <2>5, <2>6
<1> QED
  BY <1>2, <1>4, <1>5

LEMMA SpaceFacts ==
    ASSUME ImportInv, phase = "import"
    PROVE  /\ Space.ok \in BOOLEAN /\ Space.first \in Nat
           /\ IsFrame(Top) /\ Top = stack[Len(stack)] /\ Top.count \in Nat /\ Top.dir \in Nat
<1>1. IsStack(stack) /\ stack # <<>> /\ FsInv(Nat, fs)
  BY DEF ImportInv
<1>2. IsFrame(Top) /\ Top = stack[Len(stack)]
  BY <1>1, TopIsFrame DEF Top
<1>3. Top.count \in Nat /\ Top.dir \in Nat
  BY <1>2 DEF IsFrame
<1>4. Top.count + 2 \in Nat
  BY <1>3
<1> QED
  BY <1>1, <1>2, <1>3, <1>4, AllocInv, AllocOk DEF Space

LEMMA LoopStep ==
    ASSUME ImportInv, phase = "import", NEW heads, NEW sz, NEW cl, NEW lst, NEW rk, Now(heads, sz, cl, lst, rk),
           NEW h1, FirstSet(h1, Space.first)
    PROVE  \E f : /\ Looped(h1, f, heads, sz, cl, lst, rk)
                  /\ TableLoop(h1, free_items_head, Top, NewDirs, Space.first) = f[Top.count]
<1> DEFINE K == Len(stack)
           c == Space.first
           a == LoopStart(h1, free_items_head, Top, NewDirs)
<1>1. c \in Nat /\ Top.count \in Nat /\ Top = stack[K]
  BY SpaceFacts
<1>0. K = 1 \/ K > 1
  <2>1. K \in Nat /\ K > 0
    BY CallerFacts
  <2> HIDE DEF K
  <2> QED
    BY <2>1
<1>2. Handled(heap, stack, free_items_head, heads, sz, cl, lst, rk) /\ IsStack(stack) /\ stack # <<>>
  BY DEF Now, ImportInv
<1>3. h1 \in Seq(ItemType) /\ Len(h1) = Len(heap) /\ \A i \in 1 .. Len(heap) : h1[i].next = heap[i].next
  <2>1. heap \in Seq(ItemType)
    BY <1>2 DEF Handled, Lists
  <2>2. CASE K = 1
    BY <2>1, <2>2 DEF FirstSet
  <2>3. CASE K > 1
    <3> DEFINE x == CallerItem
               m == Imp(c, heap[x].imp.size, heap[x].imp.dotdot)
               v == Item(heap[x].entry, heap[x].is_dir, heap[x].next, m)
    <3>1. Put(heap, x, v, h1)
      BY <2>3 DEF FirstSet
    <3>2. x \in 1 .. Len(heap) /\ heap[x] \in ItemType
      BY <2>1, <2>3, CallerFacts
    <3>3. v.next = heap[x].next
      <4>1. heap[x].imp.size \in Int /\ heap[x].imp.dotdot \in Int /\ c \in Int
        BY <1>1, <3>2, ItemTypes
      <4>2. m \in ImportType
        BY <4>1, ImpFields
      <4> HIDE DEF m
      <4> QED
        BY <3>2, <4>2, ItemTypes, ItemFields
    <3> HIDE DEF x, v
    <3> QED
      BY <3>1, <3>2, <3>3 DEF Put
  <2> QED
    BY <1>0, <2>2, <2>3
<1>4. Handled(h1, stack, free_items_head, heads, sz, cl, lst, rk)
  <2>1. Lists(h1, Len(stack), heads, sz, cl, lst, rk)
    BY <1>2, <1>3, SameLists DEF Handled
  <2> QED
    BY <1>2, <2>1 DEF Handled
<1>5. PICK f : /\ IsRun(f, Top.count, a, c)
               /\ TableLoop(h1, free_items_head, Top, NewDirs, c) = f[Top.count]
  <2> HIDE DEF c
  <2> QED
    BY <1>1, LoopRuns
<1>6. Starts(a, h1, free_items_head, stack[K].items)
  BY <1>1 DEF LoopStart, Starts
<1> HIDE DEF a, c, K
<1>7. LoopsTo(h1, stack, heads, sz, cl, lst, rk, f, c) /\ f[0] = a
  <2>1. RunOf(stack, h1, free_items_head, a, f, c)
    BY <1>1, <1>5, <1>6 DEF RunOf, K
  <2>2. f[0] = a
    BY <1>5 DEF IsRun
  <2> QED
    BY <1>2, <1>4, <2>1, <2>2, LoopHandled
<1>8. Looped(h1, f, heads, sz, cl, lst, rk)
  BY <1>1, <1>4, <1>7 DEF Looped, LoopsTo, K, a, c
<1> QED
  BY <1>5, <1>8 DEF c

LEMMA NewDirsFacts ==
    ASSUME ImportInv, phase = "import", dirs \in Seq(DirType)
    PROVE  /\ NewDirs \in Seq(DirType) /\ Len(NewDirs) = Len(dirs) + 1 /\ Len(dirs) \in Nat
           /\ \A d \in 1 .. Len(dirs) : NewDirs[d] = dirs[d]
           /\ NewDirs[Len(dirs) + 1].dir = Top.dir /\ NewDirs[Len(dirs) + 1].self = Space.first
<1> DEFINE v == [dir |-> Top.dir, self |-> Space.first, dotdot |-> DotDotUnset, rows |-> <<>>]
<1>1. v \in DirType /\ v.dir = Top.dir /\ v.self = Space.first
  BY SpaceFacts DEF DirType, DotDotUnset
<1> HIDE DEF v
<1>2. NewDirs = Append(dirs, v)
  BY DEF NewDirs, v
<1> QED
  BY <1>1, <1>2

\* What the tree is known to be afterwards.
FirstKnown == truth' = IF Top.dir = 0 THEN truth ELSE [truth EXCEPT ![Top.dir].first = Space.first]
NoneKnown == truth' = IF Top.dir = 0 THEN truth ELSE [truth EXCEPT ![Top.dir].ok = FALSE]

LEMMA ReturnPhase ==
    ASSUME phase = "import", NEW h, NEW ok, NEW first, Return(h, ok, first)
    PROVE  phase' # "crashed"
<1>1. phase' = (IF ok THEN "done" ELSE "failed") \/ phase' = phase
  BY DEF Return
<1>2. CASE ok
  BY <1>1, <1>2
<1>3. CASE ~ok
  BY <1>1, <1>3
<1> QED
  BY <1>2, <1>3

\* What LeaveDir does, if it does not end the process.
LeftAs(h1, h, cl, lst, rk) ==
    /\ FirstSet(h1, Space.first)
    /\ TablesTo(h1, Len(stack), Top.count, lst, rk, Space.first, NewDirs, dirs')
    /\ BackAs(h1, cl, lst, rk, h)
    /\ Len(stack) > 1 => /\ h[CallerItem].entry = heap[CallerItem].entry
                         /\ h[CallerItem].imp = Imp(Space.first, 0, Len(NewDirs))
    /\ FirstKnown /\ phase' # "crashed" /\ entry' = entry /\ freedTwice' = freedTwice

\* An item of the directory has a pointer that was never set.
Wild(lst) == \E j \in 1 .. Len(heap) : lst[j] = Len(stack) /\ heap[j].imp.dotdot = Unset

\* The items but that of the caller are what they were.
LEMMA FirstSetKeeps ==
    ASSUME ImportInv, phase = "import", NEW heads, NEW sz, NEW cl, NEW lst, NEW rk, Now(heads, sz, cl, lst, rk),
           NEW h1, FirstSet(h1, Space.first)
    PROVE  /\ Len(h1) = Len(heap) /\ Len(heap) \in Nat
           /\ \A j \in 1 .. Len(heap) : lst[j] # NoList => h1[j] = heap[j]
           /\ Len(stack) > 1 => h1[CallerItem].entry = heap[CallerItem].entry /\ h1[CallerItem].imp.first = Space.first
<1>1. /\ Len(stack) = 1 \/ Len(stack) > 1
      /\ Len(stack) > 1 => CallerItem \in 1 .. Len(heap) /\ lst[CallerItem] = NoList
  <2>1. PICK K : K = Len(stack)
    OBVIOUS
  <2>2. K \in Nat /\ K > 0
    BY <2>1, CallerFacts
  <2>3. K = 1 \/ K > 1
    BY <2>2
  <2> QED
    BY <2>1, <2>3, CallerFacts
<1>2. heap \in Seq(ItemType) /\ Len(heap) \in Nat
  BY DEF Now, Handled, Lists
<1>3. CASE Len(stack) = 1
  BY <1>2, <1>3 DEF FirstSet
<1>4. CASE Len(stack) > 1
  <2>1. PICK x : x = CallerItem
    OBVIOUS
  <2> DEFINE m == Imp(Space.first, heap[x].imp.size, heap[x].imp.dotdot)
             v == Item(heap[x].entry, heap[x].is_dir, heap[x].next, m)
  <2>2. Put(heap, x, v, h1)
    BY <1>4, <2>1 DEF FirstSet
  <2>3. x \in 1 .. Len(heap) /\ heap[x] \in ItemType /\ lst[x] = NoList
    BY <1>1, <1>2, <1>4, <2>1
  <2>4. m \in ImportType /\ m.first = Space.first
    <3>1. heap[x].imp.size \in Int /\ heap[x].imp.dotdot \in Int /\ Space.first \in Int
      BY <2>3, ItemTypes, SpaceFacts
    <3> QED
      BY <3>1, ImpFields
  <2> HIDE DEF m
  <2>5. v.entry = heap[x].entry /\ v.imp = m
    BY <2>3, <2>4, ItemTypes, ItemFields
  <2> HIDE DEF v
  <2> QED
    BY <1>2, <2>1, <2>2, <2>3, <2>4, <2>5 DEF Put
<1> QED
  BY <1>1, <1>3, <1>4

\* The item of the caller after LeaveDir: its import is set as a whole.
CallerSet(hp, x, h) == h = [hp EXCEPT ![x].imp = [first |-> @.first, size |-> 0, dotdot |-> Len(NewDirs)]]

LEMMA CallerPut ==
    ASSUME NEW hp \in Seq(ItemType), NEW x \in 1 .. Len(hp), NEW h, CallerSet(hp, x, h), Len(NewDirs) \in Nat
    PROVE  /\ \E w \in ItemType : Put(hp, x, w, h)
           /\ h[x].entry = hp[x].entry /\ h[x].imp = Imp(hp[x].imp.first, 0, Len(NewDirs))
<1> DEFINE m == Imp(hp[x].imp.first, 0, Len(NewDirs))
           v == Item(hp[x].entry, hp[x].is_dir, hp[x].next, m)
<1>1. h = [hp EXCEPT ![x].imp = m]
  BY DEF CallerSet, Imp
<1>2. hp[x] \in ItemType /\ hp[x].imp.first \in Int
  BY ItemTypes
<1>3. m \in ImportType
  BY <1>2, ImpFields
<1> HIDE DEF m
<1>4. Put(hp, x, v, h)
  BY <1>1, <1>3, SetImp
<1>5. v \in ItemType /\ v.entry = hp[x].entry /\ v.imp = m
  BY <1>2, <1>3, ItemTypes, ItemFields
<1> HIDE DEF v
<1>6. h[x] = v
  BY <1>4 DEF Put
<1> QED
  BY <1>4, <1>5, <1>6 DEF m

LEMMA LeaveStep ==
    ASSUME ImportInv, dirs \in Seq(DirType), NEW heads, NEW sz, NEW cl, NEW lst, NEW rk, Now(heads, sz, cl, lst, rk),
           LeaveDir
    PROVE  \/ Crash /\ Wild(lst)
           \/ \E h1, h : LeftAs(h1, h, cl, lst, rk)
<1> DEFINE h1 == IF Caller = NULL THEN heap ELSE [heap EXCEPT ![Caller].imp.first = Space.first]
           loop == TableLoop(h1, free_items_head, Top, NewDirs, Space.first)
           h == IF Caller = NULL THEN loop.heap
                ELSE [loop.heap EXCEPT ![Caller].imp = [first |-> @.first, size |-> 0, dotdot |-> Len(NewDirs)]]
<1>1. /\ phase = "import" /\ Space.ok
      /\ \/ (loop.crashed \/ loop.wild) /\ Crash
         \/ /\ ~loop.crashed /\ free_items_head' = loop.head
            /\ dirs' = [loop.dirs EXCEPT ![Len(NewDirs)].rows = loop.rows]
            /\ Return(h, TRUE, Space.first) /\ FirstKnown /\ entry' = entry /\ freedTwice' = freedTwice
  BY DEF LeaveDir, NewDirs, FirstKnown
<1>2. Space.first \in Nat /\ Top.count \in Nat
  BY <1>1, SpaceFacts
<1>3. /\ Len(stack) = 1 => h1 = heap /\ h = loop.heap
      /\ Len(stack) > 1 => h1 = [heap EXCEPT ![CallerItem].imp.first = Space.first] /\ CallerSet(loop.heap, CallerItem, h)
  <2>1. Len(stack) = 1 => Caller = NULL
    BY <1>1, CallerFacts
  <2>2. Len(stack) > 1 => Caller = CallerItem /\ Caller # NULL
    BY <1>1, CallerFacts
  <2>3. Caller = NULL => h1 = heap /\ h = loop.heap
    BY Zenon
  <2>4. Caller # NULL => /\ h1 = [heap EXCEPT ![Caller].imp.first = Space.first]
                         /\ h = [loop.heap EXCEPT ![Caller].imp = [first |-> @.first, size |-> 0, dotdot |-> Len(NewDirs)]]
    BY Zenon
  <2> HIDE DEF h1, h, loop
  <2> QED
    BY <2>1, <2>2, <2>3, <2>4 DEF CallerSet
<1> HIDE DEF h1, h, loop
<1>4. FirstSet(h1, Space.first)
  <2>1. ASSUME Len(stack) > 1
        PROVE  Put(heap, CallerItem,
                   Item(heap[CallerItem].entry, heap[CallerItem].is_dir, heap[CallerItem].next,
                        Imp(Space.first, heap[CallerItem].imp.size, heap[CallerItem].imp.dotdot)), h1)
    <3>1. heap \in Seq(ItemType)
      BY DEF Now, Handled, Lists
    <3>2. CallerItem \in 1 .. Len(heap)
      BY <1>1, <2>1, CallerFacts
    <3>3. Space.first \in Int
      BY <1>2
    <3> QED
      BY <1>3, <2>1, <3>1, <3>2, <3>3, SetFirst
  <2> QED
    BY <1>3, <2>1 DEF FirstSet
<1>5. PICK f : /\ Looped(h1, f, heads, sz, cl, lst, rk)
               /\ TableLoop(h1, free_items_head, Top, NewDirs, Space.first) = f[Top.count]
  BY <1>1, <1>4, LoopStep
<1>6. loop = f[Top.count]
  BY <1>5 DEF loop
<1>7. /\ Handled(h1, stack, free_items_head, heads, sz, cl, lst, rk)
      /\ TurnsOf(h1, Len(stack), heads, sz, cl, lst, rk, f, Space.first)
      /\ sz[Len(stack)] = Top.count /\ f[0] = LoopStart(h1, free_items_head, Top, NewDirs)
      /\ EmptiedIn(h1, stack, Len(stack), cl, lst, rk, loop)
  BY <1>5, <1>6 DEF Looped
<1>8. f[0].rows = <<>> /\ f[0].dirs = NewDirs /\ f[0].wild = FALSE
  BY <1>7 DEF LoopStart
<1>9. /\ Len(h1) = Len(heap) /\ Len(heap) \in Nat
      /\ \A j \in 1 .. Len(heap) : lst[j] # NoList => h1[j] = heap[j]
      /\ Len(stack) > 1 => h1[CallerItem].entry = heap[CallerItem].entry /\ h1[CallerItem].imp.first = Space.first
  BY <1>1, <1>4, FirstSetKeeps
<1>10. Len(stack) \in Nat /\ Len(stack) > 0 /\ Len(stack) # NoList /\ Len(stack) \in 0 .. Len(stack)
  <2>1. Len(stack) \in Nat /\ Len(stack) > 0
    BY <1>1, CallerFacts
  <2> QED
    BY <2>1 DEF NoList
<1>11. loop.crashed = FALSE
  BY <1>7 DEF EmptiedIn
<1>12. CASE Crash /\ (loop.crashed \/ loop.wild)
  <2>1. ~NotWild(f[sz[Len(stack)]])
    <3>1. loop.wild
      BY <1>11, <1>12, Zenon
    <3>2. ~NotWild(loop)
      BY <3>1, Zenon DEF NotWild
    <3> QED
      BY <1>6, <1>7, <3>2
  <2>2. sz[Len(stack)] \in Nat
    BY <1>2, <1>7
  <2>3. \E j \in 1 .. Len(h1) : lst[j] = Len(stack) /\ h1[j].imp.dotdot = Unset
    <3>1. TurnsOf(h1, Len(stack), heads, sz, cl, lst, rk, f, Space.first) /\ NotWild(f[0])
      BY <1>7, <1>8 DEF NotWild
    <3> QED
      BY <2>1, <2>2, <3>1, LoopWild
  <2>4. Wild(lst)
    BY <1>9, <1>10, <2>3 DEF Wild
  <2> QED
    BY <1>12, <2>4
<1>13. CASE /\ free_items_head' = loop.head
            /\ dirs' = [loop.dirs EXCEPT ![Len(NewDirs)].rows = loop.rows]
            /\ Return(h, TRUE, Space.first) /\ FirstKnown /\ entry' = entry /\ freedTwice' = freedTwice
  <2>1. NewDirs \in Seq(DirType) /\ Len(NewDirs) = Len(dirs) + 1 /\ Len(dirs) \in Nat
    BY <1>1, NewDirsFacts
  <2>2. Len(NewDirs) > 0 /\ Len(NewDirs) \in Nat
    BY <2>1
  <2>3. RanksOf(h1, Len(stack), sz, lst, rk)
    BY <1>7, <1>10, ListRanks DEF Handled
  <2>4. /\ RowsAt(h1, Len(stack), sz, lst, rk, Top.count, loop)
        /\ DirsAt(h1, Len(stack), sz, lst, rk, NewDirs, Space.first, Top.count, loop)
    <3>1. Top.count <= sz[Len(stack)] /\ Space.first \in Int
      BY <1>2, <1>7
    <3> QED
      BY <1>2, <1>6, <1>7, <1>8, <2>1, <2>3, <3>1, LoopTables
  <2>5. TablesTo(h1, Len(stack), Top.count, lst, rk, Space.first, NewDirs, dirs')
    <3>1. Len(loop.dirs) = Len(NewDirs)
      BY <2>4 DEF DirsAt, KeptDirs
    <3>2. RowsSet(loop.dirs, loop.rows, dirs')
      BY <1>13, <3>1 DEF RowsSet
    <3> QED
      BY <1>7, <2>1, <2>2, <2>3, <2>4, <3>2, TablesLeft
  <2>6. PICK heads1, sz1, lst1, rk1 :
            Emptied(h1, stack, Len(stack), cl, lst, rk, loop.heap, loop.head, heads1, sz1, lst1, rk1)
    BY <1>7 DEF EmptiedIn
  <2>7. SameButNext(h1, loop.heap) /\ loop.heap \in Seq(ItemType)
    BY <2>6 DEF Emptied, Lists
  <2>8. ASSUME Len(stack) > 1
        PROVE  /\ \E w \in ItemType : Put(loop.heap, CallerItem, w, h)
               /\ h[CallerItem].entry = heap[CallerItem].entry
               /\ h[CallerItem].imp = Imp(Space.first, 0, Len(NewDirs))
    <3>1. CallerItem \in 1 .. Len(loop.heap) /\ CallerItem \in 1 .. Len(h1)
      BY <1>1, <1>9, <2>7, <2>8, CallerFacts DEF SameButNext
    <3>2. loop.heap[CallerItem].entry = heap[CallerItem].entry /\ loop.heap[CallerItem].imp.first = Space.first
      BY <1>9, <2>7, <2>8, <3>1 DEF SameButNext
    <3>3. CallerSet(loop.heap, CallerItem, h)
      BY <1>3, <2>8
    <3> QED
      BY <2>2, <2>7, <3>1, <3>2, <3>3, CallerPut
  <2>9. BackAs(h1, cl, lst, rk, h)
    <3>1. Emptied(h1, stack, Len(stack), cl, lst, rk, loop.heap, free_items_head', heads1, sz1, lst1, rk1)
      BY <1>13, <2>6
    <3>2. Len(stack) > 1 => \E w \in ItemType : Put(loop.heap, stack[Len(stack) - 1].item, w, h)
      BY <2>8 DEF CallerItem
    <3>3. Len(stack) = 1 => h = loop.heap
      BY <1>3
    <3> QED
      BY <1>1, <1>13, <3>1, <3>2, <3>3, ReturnStep
  <2>10. phase' # "crashed"
    BY <1>1, <1>13, ReturnPhase
  <2>11. LeftAs(h1, h, cl, lst, rk)
    BY <1>4, <1>13, <2>5, <2>8, <2>9, <2>10 DEF LeftAs
  <2> QED
    BY <2>11
<1> QED
  BY <1>1, <1>12, <1>13

\* What LeaveDirFull does, if it does not end the process.
FullAs(h, cl, lst, rk) ==
    /\ BackAs(heap, cl, lst, rk, h)
    /\ Len(stack) > 1 => h[CallerItem].entry = heap[CallerItem].entry /\ h[CallerItem].imp = heap[CallerItem].imp
    /\ NoneKnown /\ phase' # "crashed" /\ dirs' = dirs /\ entry' = entry /\ freedTwice' = freedTwice

LEMMA FullStep ==
    ASSUME ImportInv, NEW heads, NEW sz, NEW cl, NEW lst, NEW rk, Now(heads, sz, cl, lst, rk), LeaveDirFull
    PROVE  \/ Crash /\ Top.items = NULL /\ ~Space.ok
           \/ \E h : FullAs(h, cl, lst, rk)
<1> DEFINE tail == CHOOSE i \in Members(heap, Top.items) : heap[i].next <= 0
           h == [heap EXCEPT ![tail].next = free_items_head]
<1>1. phase = "import" /\ ~Space.ok
  BY DEF LeaveDirFull
<1>2. /\ (Top.items = NULL \/ ~Ends(heap, Top.items)) => Crash
      /\ ~(Top.items = NULL \/ ~Ends(heap, Top.items)) =>
            /\ free_items_head' = Top.items /\ Return(h, FALSE, 0)
            /\ NoneKnown /\ dirs' = dirs /\ entry' = entry /\ freedTwice' = freedTwice
  BY DEF LeaveDirFull, NoneKnown
<1>3. IsTail(heap, Top.items, tail) /\ IsLinked(heap, tail, free_items_head, h)
  BY DEF IsTail, IsLinked
<1> HIDE DEF tail, h
<1>4. Handled(heap, stack, free_items_head, heads, sz, cl, lst, rk) /\ IsStack(stack) /\ stack # <<>>
  BY <1>1 DEF Now, ImportInv
<1>5. PICK K : K = Len(stack)
  OBVIOUS
<1>6. K \in Nat /\ K > 0 /\ K \in 1 .. K /\ K \in 0 .. K /\ Top = stack[K]
  <2>1. K \in Nat /\ K > 0
    BY <1>1, <1>5, CallerFacts
  <2>2. Top = stack[K]
    BY <1>5 DEF Top
  <2> QED
    BY <2>1, <2>2
<1>7. Ends(heap, Top.items)
  <2>1. Lists(heap, K, heads, sz, cl, lst, rk) /\ heads[K] = stack[K].items
    BY <1>4, <1>5, <1>6 DEF Handled
  <2>2. heap \in Seq(ItemType) /\ Shape(Len(heap), NextOf(heap), K, heads, sz, lst, rk)
    BY <2>1 DEF Lists
  <2> QED
    BY <1>6, <2>1, <2>2, HeapFacts, WalkShape
<1>8. CASE Top.items = NULL
  BY <1>1, <1>2, <1>8
<1>9. CASE Top.items # NULL
  <2>1. /\ free_items_head' = Top.items /\ Return(h, FALSE, 0)
        /\ NoneKnown /\ dirs' = dirs /\ entry' = entry /\ freedTwice' = freedTwice
    BY <1>2, <1>7, <1>9
  <2>2. PICK heads1, sz1, lst1, rk1 : Emptied(heap, stack, K, cl, lst, rk, h, Top.items, heads1, sz1, lst1, rk1)
    BY <1>3, <1>4, <1>5, <1>6, <1>9, FullHandled
  <2>3. Emptied(heap, stack, Len(stack), cl, lst, rk, h, free_items_head', heads1, sz1, lst1, rk1)
    BY <1>5, <2>1, <2>2
  <2>4. SameButNext(heap, h) /\ h \in Seq(ItemType) /\ Len(h) = Len(heap)
    BY <2>2 DEF Emptied, Lists, SameButNext
  <2>5. ASSUME Len(stack) > 1
        PROVE  /\ CallerItem \in 1 .. Len(h)
               /\ h[CallerItem].entry = heap[CallerItem].entry /\ h[CallerItem].imp = heap[CallerItem].imp
    <3>1. CallerItem \in 1 .. Len(heap)
      BY <1>1, <2>5, CallerFacts
    <3> QED
      BY <2>4, <3>1 DEF SameButNext
  <2>6. Len(stack) > 1 => \E w \in ItemType : Put(h, stack[Len(stack) - 1].item, w, h)
    <3>1. ASSUME Len(stack) > 1 PROVE \E w \in ItemType : Put(h, CallerItem, w, h)
      <4>1. h[CallerItem] \in ItemType /\ Put(h, CallerItem, h[CallerItem], h)
        BY <2>4, <2>5, <3>1 DEF Put
      <4> QED
        BY <4>1
    <3> QED
      BY <3>1 DEF CallerItem
  <2>7. BackAs(heap, cl, lst, rk, h)
    BY <1>1, <2>1, <2>3, <2>6, ReturnStep
  <2>8. phase' # "crashed"
    BY <1>1, <2>1, ReturnPhase
  <2>9. FullAs(h, cl, lst, rk)
    BY <2>1, <2>5, <2>7, <2>8 DEF FullAs
  <2> QED
    BY <2>9
<1> QED
  BY <1>8, <1>9

-----------------------------------------------------------------------------
(* What the items and the tables have to do with the tree: the entries of a *)
(* directory being read are in its list, in their order, but for the one    *)
(* that is being imported; the directories that were left have tables.      *)

Failed(tr) == \E e \in 1 .. Len(tr) : tr[e] \in EntryType /\ tr[e].ok = FALSE
FailedIn(tr, d) == \E e \in 1 .. Len(tr) : tr[e] \in EntryType /\ tr[e].parent = d /\ tr[e].ok = FALSE

\* it stands for an entry of the directory that stack[k] reads.
IsEntry(st, tr, k, it) ==
    /\ it.entry \in 1 .. Len(tr) /\ tr[it.entry] \in EntryType /\ tr[it.entry].parent = st[k].dir
    /\ tr[it.entry].kind = "dir" => it.is_dir = TRUE
    /\ tr[it.entry].kind # "dir" => it.is_dir = FALSE
    /\ tr[it.entry].ok = TRUE =>
          it.imp.first = tr[it.entry].first /\ it.imp.size = tr[it.entry].size % U32 /\ it.imp.dotdot # Unset
    /\ k < Len(st) => it.entry < st[k + 1].dir

\* Its pointer leads to the table of that directory, and is null for a file.
PointsTo(tr, ds, it) ==
    /\ tr[it.entry].kind = "dir" => it.imp.dotdot \in 1 .. Len(ds) /\ ds[it.imp.dotdot].dir = it.entry
    /\ tr[it.entry].kind # "dir" => it.imp.dotdot = 0

Sound(st, tr, ds, h, lst) ==
    \A i \in 1 .. Len(h), k \in 1 .. Len(st) :
        lst[i] = k => IsEntry(st, tr, k, h[i]) /\ (Failed(tr) \/ PointsTo(tr, ds, h[i]))
Complete(st, tr, h, lst) ==
    \A k \in 1 .. Len(st), e \in 1 .. Len(tr) :
        tr[e] \in EntryType /\ tr[e].parent = st[k].dir =>
            (k < Len(st) /\ e = st[k + 1].dir) \/ \E i \in 1 .. Len(h) : lst[i] = k /\ h[i].entry = e
InOrder(K, h, lst, rk) ==
    \A i, j \in 1 .. Len(h) : lst[i] = lst[j] /\ lst[i] \in 1 .. K /\ rk[i] < rk[j] => h[i].entry < h[j].entry
Importing(st, h, cl) == \A k \in 1 .. Len(st) - 1 : h[cl[k]].entry = st[k + 1].dir

Contents(st, tr, ds, h, cl, lst, rk) ==
    /\ Sound(st, tr, ds, h, lst)
    /\ Complete(st, tr, h, lst)
    /\ InOrder(Len(st), h, lst, rk)
    /\ Importing(st, h, cl)

\* The rows are the entries of the directory d.
IsRow(tr, d, row) ==
    /\ row.entry \in 1 .. Len(tr) /\ tr[row.entry] \in EntryType /\ tr[row.entry].parent = d
    /\ tr[row.entry].kind = "dir" => row.is_dir = TRUE
    /\ tr[row.entry].kind # "dir" => row.is_dir = FALSE
    /\ tr[row.entry].ok = TRUE => row.first = tr[row.entry].first /\ row.size = tr[row.entry].size % U32

IsTable(tr, d, rows) ==
    /\ \A j \in 1 .. Len(rows) : IsRow(tr, d, rows[j])
    /\ \A j, k \in 1 .. Len(rows) : j < k => rows[j].entry < rows[k].entry
    /\ \A e \in 1 .. Len(tr) : tr[e] \in EntryType /\ tr[e].parent = d => \E j \in 1 .. Len(rows) : rows[j].entry = e

\* The directories that have tables.
OwnTables(st, tr, ds) ==
    /\ ds \in Seq(DirType)
    /\ \A d, e \in 1 .. Len(ds) : ds[d].dir = ds[e].dir => d = e
    /\ \A d \in 1 .. Len(ds) :
          /\ ds[d].dir \in 0 .. Len(tr)
          /\ ds[d].dir # 0 => tr[ds[d].dir] \in EntryType /\ tr[ds[d].dir].kind = "dir"
          /\ \A k \in 1 .. Len(st) : st[k].dir # ds[d].dir
AreTables(tr, ds) == \A d \in 1 .. Len(ds) : IsTable(tr, ds[d].dir, ds[d].rows)
LeadUp(ds) ==
    \A d, e \in 1 .. Len(ds) : \A j \in 1 .. Len(ds[d].rows) :
        ds[d].rows[j].entry = ds[e].dir => ds[e].dotdot = ds[d].self

Tables(st, tr, ds) == OwnTables(st, tr, ds) /\ AreTables(tr, ds) /\ (Failed(tr) \/ LeadUp(ds))

LEMMA TruthTypes ==
    ASSUME NEW t \in TruthType
    PROVE  /\ t.parent \in Nat /\ (t.kind # "skipped" <=> t \in EntryType)
           /\ t \in EntryType => t.kind \in {"file", "dir"} /\ t.first \in Nat /\ t.size \in Nat /\ t.ok \in BOOLEAN
<1>1. CASE t \in EntryType
  BY <1>1 DEF EntryType
<1>2. CASE t \in SkippedType
  BY <1>2 DEF EntryType, SkippedType
<1> QED
  BY <1>1, <1>2 DEF TruthType

\* A failure stays one.
LEMMA FailedStays ==
    ASSUME NEW tr \in Seq(TruthType), NEW t, NEW tr2, AppendedTo(tr, t, tr2), Failed(tr)
    PROVE  Failed(tr2)
<1>1. PICK e \in 1 .. Len(tr) : tr[e] \in EntryType /\ tr[e].ok = FALSE
  BY DEF Failed
<1>2. e \in 1 .. Len(tr2) /\ tr2[e] = tr[e]
  BY DEF AppendedTo
<1> QED
  BY <1>1, <1>2 DEF Failed

LEMMA FailedNow ==
    ASSUME NEW tr \in Seq(TruthType), NEW t \in EntryType, t.ok = FALSE, NEW tr2, AppendedTo(tr, t, tr2)
    PROVE  Failed(tr2)
<1>1. Len(tr) + 1 \in 1 .. Len(tr2) /\ tr2[Len(tr) + 1] = t
  BY DEF AppendedTo
<1> QED
  BY <1>1 DEF Failed

\* An entry of another directory is read.
LEMMA TableStays ==
    ASSUME NEW tr \in Seq(TruthType), NEW t, NEW tr2, AppendedTo(tr, t, tr2),
           NEW d, t.parent # d, NEW rows, IsTable(tr, d, rows)
    PROVE  IsTable(tr2, d, rows)
<1>1. /\ Len(tr) \in Nat /\ Len(tr2) = Len(tr) + 1 /\ tr2[Len(tr) + 1] = t
      /\ \A e \in 1 .. Len(tr) : tr2[e] = tr[e] /\ e \in 1 .. Len(tr2)
  BY DEF AppendedTo
<1>2. \A j \in 1 .. Len(rows) : IsRow(tr2, d, rows[j])
  BY <1>1 DEF IsTable, IsRow
<1>3. ASSUME NEW e \in 1 .. Len(tr2), tr2[e] \in EntryType, tr2[e].parent = d
      PROVE  \E j \in 1 .. Len(rows) : rows[j].entry = e
  <2>1. e # Len(tr) + 1
    BY <1>1, <1>3
  <2>2. e \in 1 .. Len(tr)
    BY <1>1, <2>1
  <2> QED
    BY <1>1, <1>3, <2>2 DEF IsTable
<1> QED
  BY <1>2, <1>3 DEF IsTable

LEMMA TablesRead ==
    ASSUME NEW st, NEW tr \in Seq(TruthType), NEW ds, Tables(st, tr, ds), NEW K \in 1 .. Len(st),
           NEW t, t.parent = st[K].dir, NEW tr2, AppendedTo(tr, t, tr2),
           NEW st2, \A k \in 1 .. Len(st2) : st2[k].dir = Len(tr) + 1 \/ \E j \in 1 .. Len(st) : st2[k].dir = st[j].dir
    PROVE  Tables(st2, tr2, ds)
<1>1. /\ Len(tr) \in Nat /\ Len(tr2) = Len(tr) + 1
      /\ \A e \in 1 .. Len(tr) : tr2[e] = tr[e]
  BY DEF AppendedTo
<1>2. /\ ds \in Seq(DirType) /\ \A d, e \in 1 .. Len(ds) : ds[d].dir = ds[e].dir => d = e
      /\ \A d \in 1 .. Len(ds) :
          /\ ds[d].dir \in 0 .. Len(tr)
          /\ ds[d].dir # 0 => tr[ds[d].dir] \in EntryType /\ tr[ds[d].dir].kind = "dir"
          /\ \A k \in 1 .. Len(st) : st[k].dir # ds[d].dir
  BY DEF Tables, OwnTables
<1>3. ASSUME NEW d \in 1 .. Len(ds)
      PROVE  /\ ds[d].dir \in 0 .. Len(tr2)
             /\ ds[d].dir # 0 => tr2[ds[d].dir] \in EntryType /\ tr2[ds[d].dir].kind = "dir"
             /\ \A k \in 1 .. Len(st2) : st2[k].dir # ds[d].dir
  <2>1. PICK y \in 0 .. Len(tr) : y = ds[d].dir
    BY <1>2
  <2>2. y \in 0 .. Len(tr2) /\ y # Len(tr) + 1 /\ (y # 0 => y \in 1 .. Len(tr))
    BY <1>1
  <2>3. \A k \in 1 .. Len(st) : st[k].dir # y
    BY <1>2, <2>1
  <2>4. \A k \in 1 .. Len(st2) : st2[k].dir # y
    BY <2>2, <2>3
  <2>5. y # 0 => tr2[y] \in EntryType /\ tr2[y].kind = "dir"
    BY <1>1, <1>2, <2>1, <2>2
  <2> QED
    BY <2>1, <2>2, <2>4, <2>5
<1>4. OwnTables(st2, tr2, ds)
  BY <1>2, <1>3 DEF OwnTables
<1>5. AreTables(tr2, ds)
  <2>1. ASSUME NEW d \in 1 .. Len(ds) PROVE IsTable(tr2, ds[d].dir, ds[d].rows)
    <3>1. t.parent # ds[d].dir
      BY <1>2
    <3>2. IsTable(tr, ds[d].dir, ds[d].rows)
      BY DEF Tables, AreTables
    <3> QED
      BY <3>1, <3>2, TableStays
  <2> QED
    BY <2>1 DEF AreTables
<1>6. Failed(tr2) \/ LeadUp(ds)
  BY FailedStays DEF Tables
<1> QED
  BY <1>4, <1>5, <1>6 DEF Tables


\* An entry t is read: the item x is free, in front of the last list, or imported into.
StacksRead(st, tr, st2) ==
    /\ Len(st2) = Len(st) \/ (Len(st2) = Len(st) + 1 /\ st2[Len(st) + 1].dir = Len(tr) + 1)
    /\ \A k \in 1 .. Len(st) : st2[k].dir = st[k].dir
ItemRead(st, tr, ds, h, lst, rk, t, x, st2, tr2, h2, cl2, lst2, rk2) ==
    /\ KeptBut(x, h, lst, rk, h2, lst2, rk2)
    /\ StayedBut(x, h, lst, h2)
    /\ t \in EntryType => Len(st2) = Len(st) + 1 \/ (x \in 1 .. Len(h2) /\ lst2[x] = Len(st))
    /\ x \in 1 .. Len(h2) /\ lst2[x] \in 1 .. Len(st2) =>
          /\ lst2[x] = Len(st) /\ Len(st2) = Len(st)
          /\ h2[x].entry = Len(tr) + 1
          /\ IsEntry(st2, tr2, Len(st), h2[x]) /\ (Failed(tr2) \/ PointsTo(tr2, ds, h2[x]))
          /\ \A i \in 1 .. Len(h) : lst[i] = Len(st) => rk[i] < rk2[x]
    /\ Len(st2) = Len(st) + 1 => cl2[Len(st)] = x /\ h2[x].entry = Len(tr) + 1

\* The directories are in the order they were entered in.
LEMMA TreeDirs ==
    ASSUME NEW st, IsStack(st), st # <<>>, NEW tr, Tree(st, tr)
    PROVE  /\ tr \in Seq(TruthType) /\ Len(tr) \in Nat /\ Len(st) \in Nat /\ Len(st) > 0
           /\ \A k \in 1 .. Len(st) : st[k].dir \in 0 .. Len(tr)
           /\ \A j, k \in 1 .. Len(st) : st[j].dir = st[k].dir => j = k
<1>1. Len(st) \in Nat /\ Len(st) > 0 /\ tr \in Seq(TruthType) /\ Len(tr) \in Nat
  BY StackFacts DEF Tree
<1>2. ASSUME NEW k \in 1 .. Len(st) PROVE st[k].dir \in 0 .. Len(tr)
  <2>1. CASE k = 1
    BY <1>1, <2>1 DEF Tree
  <2>2. CASE k # 1
    <3>1. k \in 2 .. Len(st)
      BY <1>1, <2>2
    <3> QED
      BY <1>1, <3>1 DEF Tree
  <2> QED
    BY <2>1, <2>2
<1>3. ASSUME NEW j \in 1 .. Len(st), NEW k \in 1 .. Len(st), st[j].dir = st[k].dir PROVE j = k
  <2>1. ~(j < k) /\ ~(k < j)
    <3>1. st[j].dir \in Nat /\ st[k].dir \in Nat
      BY <1>1, <1>2
    <3>2. ~(st[j].dir < st[k].dir) /\ ~(st[k].dir < st[j].dir)
      BY <1>3, <3>1
    <3> QED
      BY <3>2 DEF Tree
  <2> QED
    BY <1>1, <2>1
<1> QED
  BY <1>1, <1>2, <1>3

\* Entries have parents that were read before.
Parents(tr) == \A e \in 1 .. Len(tr) : tr[e].parent \in 0 .. Len(tr)

LEMMA ParentsRead ==
    ASSUME NEW st, IsStack(st), st # <<>>, NEW tr, Tree(st, tr), Parents(tr),
           NEW t, t.parent = st[Len(st)].dir, NEW tr2, AppendedTo(tr, t, tr2)
    PROVE  Parents(tr2)
<1>1. Len(tr) \in Nat /\ Len(tr2) = Len(tr) + 1 /\ tr2[Len(tr) + 1] = t /\ \A e \in 1 .. Len(tr) : tr2[e] = tr[e]
  BY TreeDirs DEF AppendedTo
<1>2. t.parent \in 0 .. Len(tr)
  <2>1. Len(st) \in 1 .. Len(st)
    BY StackFacts
  <2> QED
    BY <2>1, TreeDirs
<1>3. ASSUME NEW e \in 1 .. Len(tr2) PROVE tr2[e].parent \in 0 .. Len(tr2)
  <2>1. CASE e = Len(tr) + 1
    BY <1>1, <1>2, <2>1
  <2>2. CASE e # Len(tr) + 1
    <3>1. e \in 1 .. Len(tr)
      BY <1>1, <2>2
    <3>2. tr[e].parent \in 0 .. Len(tr)
      BY <3>1 DEF Parents
    <3> QED
      BY <1>1, <3>1, <3>2
  <2> QED
    BY <2>1, <2>2
<1> QED
  BY <1>3 DEF Parents

LEMMA SoundRead ==
    ASSUME NEW st, IsStack(st), st # <<>>, NEW tr, Tree(st, tr), NEW ds, NEW h, NEW lst, NEW rk, Sound(st, tr, ds, h, lst),
           NEW t, NEW tr2, AppendedTo(tr, t, tr2), NEW st2, StacksRead(st, tr, st2),
           NEW x, NEW h2, NEW cl2, NEW lst2, NEW rk2,
           ItemRead(st, tr, ds, h, lst, rk, t, x, st2, tr2, h2, cl2, lst2, rk2),
           \A i \in 1 .. Len(h) : lst[i] # Len(st) + 1
    PROVE  Sound(st2, tr2, ds, h2, lst2)
<1>1. /\ tr \in Seq(TruthType) /\ Len(tr) \in Nat /\ Len(tr2) = Len(tr) + 1
      /\ \A e \in 1 .. Len(tr) : tr2[e] = tr[e]
  BY TreeDirs DEF AppendedTo
<1>2. PICK K \in Nat : K = Len(st) /\ K > 0
  BY TreeDirs
<1>3. SUFFICES ASSUME NEW i \in 1 .. Len(h2), NEW k \in 1 .. Len(st2), lst2[i] = k
               PROVE  IsEntry(st2, tr2, k, h2[i]) /\ (Failed(tr2) \/ PointsTo(tr2, ds, h2[i]))
  BY DEF Sound
<1>4. CASE i = x
  BY <1>3, <1>4 DEF ItemRead
<1>5. CASE i # x
  <2>1. i \in 1 .. Len(h) /\ h2[i] = h[i] /\ lst[i] = k
    BY <1>3, <1>5 DEF ItemRead, KeptBut
  <2>2. k \in 1 .. K
    <3>1. k # K + 1
      BY <1>2, <2>1
    <3>2. Len(st2) = K \/ Len(st2) = K + 1
      BY <1>2 DEF StacksRead
    <3> QED
      BY <1>2, <3>1, <3>2
  <2>3. IsEntry(st, tr, k, h[i]) /\ (Failed(tr) \/ PointsTo(tr, ds, h[i]))
    BY <1>2, <2>1, <2>2 DEF Sound
  <2>4. PICK e \in 1 .. Len(tr) : e = h[i].entry
    BY <2>3 DEF IsEntry
  <2>5. tr2[e] = tr[e] /\ e \in 1 .. Len(tr2)
    BY <1>1
  <2>6. st2[k].dir = st[k].dir
    BY <1>2, <2>2 DEF StacksRead
  <2>7. k < Len(st2) => e < st2[k + 1].dir
    <3>1. CASE k < K
      <4>1. k + 1 \in 1 .. K
        BY <1>2, <2>2, <3>1
      <4>2. st2[k + 1].dir = st[k + 1].dir
        BY <1>2, <4>1 DEF StacksRead
      <4> QED
        BY <1>2, <2>3, <2>4, <3>1, <4>2 DEF IsEntry
    <3>2. CASE k = K /\ Len(st2) = K + 1
      <4>1. st2[K + 1].dir = Len(tr) + 1
        BY <1>2, <3>2 DEF StacksRead
      <4> QED
        BY <1>1, <3>2, <4>1
    <3>3. CASE k = K /\ Len(st2) = K
      BY <3>3
    <3>4. Len(st2) = K \/ Len(st2) = K + 1
      BY <1>2 DEF StacksRead
    <3> QED
      BY <2>2, <3>1, <3>2, <3>3, <3>4
  <2>8. IsEntry(st2, tr2, k, h2[i])
    BY <2>1, <2>3, <2>4, <2>5, <2>6, <2>7 DEF IsEntry
  <2>9. PointsTo(tr, ds, h[i]) => PointsTo(tr2, ds, h2[i])
    BY <2>1, <2>4, <2>5 DEF PointsTo
  <2> QED
    BY <1>1, <2>3, <2>8, <2>9, FailedStays
<1> QED
  BY <1>4, <1>5

LEMMA CompleteRead ==
    ASSUME NEW st, IsStack(st), st # <<>>, NEW tr, Tree(st, tr), NEW ds, NEW h, NEW lst, NEW rk, Complete(st, tr, h, lst),
           Parents(tr), NEW t, t.parent = st[Len(st)].dir, NEW tr2, AppendedTo(tr, t, tr2), NEW st2, StacksRead(st, tr, st2),
           NEW x, NEW h2, NEW cl2, NEW lst2, NEW rk2,
           ItemRead(st, tr, ds, h, lst, rk, t, x, st2, tr2, h2, cl2, lst2, rk2)
    PROVE  Complete(st2, tr2, h2, lst2)
<1>1. /\ Len(tr) \in Nat /\ Len(tr2) = Len(tr) + 1 /\ tr2[Len(tr) + 1] = t
      /\ (\A e \in 1 .. Len(tr) : tr2[e] = tr[e])
      /\ (\A k \in 1 .. Len(st) : st[k].dir \in 0 .. Len(tr))
      /\ \A j, k \in 1 .. Len(st) : st[j].dir = st[k].dir => j = k
  BY TreeDirs DEF AppendedTo
<1>2. PICK K \in Nat : K = Len(st) /\ K > 0
  BY TreeDirs
<1>3. SUFFICES ASSUME NEW k \in 1 .. Len(st2), NEW e \in 1 .. Len(tr2), tr2[e] \in EntryType, tr2[e].parent = st2[k].dir
               PROVE  (k < Len(st2) /\ e = st2[k + 1].dir) \/ \E i \in 1 .. Len(h2) : lst2[i] = k /\ h2[i].entry = e
  BY DEF Complete
<1>4. /\ Len(st2) = K \/ (Len(st2) = K + 1 /\ st2[K + 1].dir = Len(tr) + 1)
      /\ \A j \in 1 .. K : st2[j].dir = st[j].dir
  BY <1>2 DEF StacksRead
<1>5. CASE e = Len(tr) + 1
  <2>1. t \in EntryType /\ st2[k].dir = st[K].dir
    BY <1>1, <1>2, <1>3, <1>5
  <2>2. st[K].dir # Len(tr) + 1
    BY <1>1, <1>2
  <2>3. k \in 1 .. K
    BY <1>2, <1>4, <2>1, <2>2
  <2>4. k = K
    BY <1>1, <1>2, <1>4, <2>1, <2>3
  <2>5. CASE Len(st2) = K + 1
    BY <1>2, <1>4, <1>5, <2>4, <2>5
  <2>6. CASE Len(st2) # K + 1
    <3>1. x \in 1 .. Len(h2) /\ lst2[x] = K
      BY <1>2, <2>1, <2>6 DEF ItemRead
    <3>2. lst2[x] \in 1 .. Len(st2)
      BY <2>4, <3>1
    <3>3. h2[x].entry = Len(tr) + 1
      BY <3>1, <3>2 DEF ItemRead
    <3> QED
      BY <1>5, <2>4, <3>1, <3>3
  <2> QED
    BY <2>5, <2>6
<1>6. CASE e # Len(tr) + 1
  <2>1. e \in 1 .. Len(tr) /\ tr2[e] = tr[e]
    BY <1>1, <1>6
  <2>2. tr[e].parent \in Nat /\ tr[e] \in EntryType
    BY <1>3, <2>1 DEF EntryType
  <2>3. k \in 1 .. K
    <3>1. k = K + 1 => FALSE
      <4>1. SUFFICES ASSUME k = K + 1 PROVE FALSE
        OBVIOUS
      <4>2. tr[e].parent = Len(tr) + 1
        BY <1>2, <1>3, <1>4, <2>1, <4>1
      <4>3. tr[e].parent \in 0 .. Len(tr)
        BY <2>1 DEF Parents
      <4> QED
        BY <1>1, <4>2, <4>3
    <3> QED
      BY <1>2, <1>4, <3>1
  <2>4. CASE k < K /\ e = st[k + 1].dir
    <3>1. k + 1 \in 1 .. K /\ k < Len(st2)
      BY <1>2, <1>4, <2>3, <2>4
    <3> QED
      BY <1>4, <2>4, <3>1
  <2>5. CASE \E i \in 1 .. Len(h) : lst[i] = k /\ h[i].entry = e
    <3>1. PICK i \in 1 .. Len(h) : lst[i] = k /\ h[i].entry = e
      BY <2>5
    <3>2. i # x
      BY <1>2, <2>3, <3>1 DEF ItemRead, StayedBut
    <3>3. i \in 1 .. Len(h2)
      BY <3>1 DEF ItemRead, StayedBut
    <3>4. h2[i] = h[i] /\ lst2[i] = lst[i]
      BY <3>2, <3>3 DEF ItemRead, KeptBut
    <3> QED
      BY <3>1, <3>3, <3>4
  <2> QED
    BY <1>2, <1>3, <1>4, <2>1, <2>2, <2>3, <2>4, <2>5 DEF Complete
<1> QED
  BY <1>5, <1>6


LEMMA OrderRead ==
    ASSUME NEW st, IsStack(st), st # <<>>, NEW tr, Tree(st, tr), NEW ds, NEW h, NEW lst, NEW rk,
           Sound(st, tr, ds, h, lst), InOrder(Len(st), h, lst, rk),
           \A i \in 1 .. Len(h) : rk[i] \in Nat /\ lst[i] # Len(st) + 1,
           NEW t, NEW st2, StacksRead(st, tr, st2), NEW tr2,
           NEW x, NEW h2, NEW cl2, NEW lst2, NEW rk2, x \in 1 .. Len(h2) => rk2[x] \in Nat /\ lst2[x] # Len(st) + 1,
           ItemRead(st, tr, ds, h, lst, rk, t, x, st2, tr2, h2, cl2, lst2, rk2)
    PROVE  InOrder(Len(st2), h2, lst2, rk2)
<1>1. Len(tr) \in Nat
  BY TreeDirs
<1>2. PICK K \in Nat : K = Len(st) /\ K > 0
  BY TreeDirs
<1>3. SUFFICES ASSUME NEW i \in 1 .. Len(h2), NEW j \in 1 .. Len(h2), lst2[i] = lst2[j], lst2[i] \in 1 .. Len(st2),
                      rk2[i] < rk2[j]
               PROVE  h2[i].entry < h2[j].entry
  BY DEF InOrder
<1>4. Len(st2) = K \/ Len(st2) = K + 1
  BY <1>2 DEF StacksRead
<1>5. ASSUME NEW m \in 1 .. Len(h2), m # x
      PROVE  m \in 1 .. Len(h) /\ h2[m] = h[m] /\ lst2[m] = lst[m] /\ rk2[m] = rk[m]
  BY <1>5 DEF ItemRead, KeptBut
<1>6. lst2[i] \in 1 .. K
  <2>1. lst2[i] # K + 1
    <3>1. CASE i = x
      BY <1>2, <3>1
    <3>2. CASE i # x
      BY <1>2, <1>5, <3>2
    <3> QED
      BY <3>1, <3>2
  <2> QED
    BY <1>2, <1>3, <1>4, <2>1
<1>7. CASE i # x /\ j # x
  BY <1>2, <1>3, <1>5, <1>6, <1>7 DEF InOrder
<1>8. CASE i # x /\ j = x
  <2>1. lst2[x] = K /\ h2[x].entry = Len(tr) + 1
    BY <1>2, <1>3, <1>8 DEF ItemRead
  <2>2. i \in 1 .. Len(h) /\ h2[i] = h[i] /\ lst[i] = K
    BY <1>3, <1>5, <1>8, <2>1
  <2>3. K \in 1 .. Len(st)
    BY <1>2
  <2>4. h[i].entry \in 1 .. Len(tr)
    BY <2>2, <2>3 DEF Sound, IsEntry
  <2> QED
    BY <1>1, <1>8, <2>1, <2>2, <2>4
<1>9. CASE i = x /\ j # x
  <2>1. lst2[x] = K /\ \A m \in 1 .. Len(h) : lst[m] = K => rk[m] < rk2[x]
    BY <1>2, <1>3, <1>9 DEF ItemRead
  <2>2. j \in 1 .. Len(h) /\ lst[j] = K /\ rk2[j] = rk[j] /\ rk[j] \in Nat /\ rk2[x] \in Nat
    BY <1>3, <1>5, <1>9, <2>1
  <2>3. rk[j] < rk2[x] /\ rk2[x] < rk[j]
    BY <1>3, <1>9, <2>1, <2>2
  <2> QED
    BY <2>2, <2>3
<1>10. CASE i = x /\ j = x
  BY <1>3, <1>10
<1> QED
  BY <1>7, <1>8, <1>9, <1>10

LEMMA ImportingRead ==
    ASSUME NEW st, IsStack(st), st # <<>>, NEW tr, Tree(st, tr), NEW ds, NEW h, NEW cl, NEW lst, NEW rk, Importing(st, h, cl),
           \A k \in 1 .. Len(st) - 1 : cl[k] \in 1 .. Len(h) /\ lst[cl[k]] = NoList,
           NEW t, NEW st2, StacksRead(st, tr, st2), NEW tr2,
           NEW x, NEW h2, NEW cl2, NEW lst2, NEW rk2, SameOn(1 .. Len(st) - 1, cl, cl2),
           ItemRead(st, tr, ds, h, lst, rk, t, x, st2, tr2, h2, cl2, lst2, rk2)
    PROVE  Importing(st2, h2, cl2)
<1>1. PICK K \in Nat : K = Len(st) /\ K > 0
  BY TreeDirs
<1>2. SUFFICES ASSUME NEW k \in 1 .. Len(st2) - 1 PROVE h2[cl2[k]].entry = st2[k + 1].dir
  BY DEF Importing
<1>3. /\ Len(st2) = K \/ (Len(st2) = K + 1 /\ st2[K + 1].dir = Len(tr) + 1)
      /\ \A j \in 1 .. K : st2[j].dir = st[j].dir
  BY <1>1 DEF StacksRead
<1>4. CASE k = K
  <2>1. Len(st2) = K + 1
    BY <1>1, <1>3, <1>4
  <2>2. cl2[K] = x /\ h2[x].entry = Len(tr) + 1
    BY <1>1, <2>1 DEF ItemRead
  <2> QED
    BY <1>1, <1>3, <1>4, <2>1, <2>2
<1>5. CASE k # K
  <2>1. k \in 1 .. K - 1 /\ k + 1 \in 1 .. K
    BY <1>1, <1>3, <1>5
  <2>2. cl2[k] = cl[k] /\ cl[k] \in 1 .. Len(h) /\ lst[cl[k]] = NoList /\ h[cl[k]].entry = st[k + 1].dir
    BY <1>1, <2>1 DEF SameOn, Importing
  <2>3. cl[k] # x /\ cl[k] \in 1 .. Len(h2)
    BY <2>2 DEF ItemRead, StayedBut, NoList
  <2>4. h2[cl[k]] = h[cl[k]]
    BY <2>3 DEF ItemRead, KeptBut
  <2> QED
    BY <1>3, <2>1, <2>2, <2>4
<1> QED
  BY <1>4, <1>5

\* All that is known of a state of the import; the lists are some heads, sz, cl, lst, rk.
Imported(h, st, head, tr, ds) ==
    /\ Tree(st, tr) /\ Parents(tr) /\ Tables(st, tr, ds)
    /\ \E heads, sz, cl, lst, rk : Handled(h, st, head, heads, sz, cl, lst, rk) /\ Contents(st, tr, ds, h, cl, lst, rk)

LEMMA ContentsRead ==
    ASSUME NEW st, IsStack(st), st # <<>>, NEW tr, Tree(st, tr), Parents(tr), NEW ds, NEW h, NEW head,
           NEW heads, NEW sz, NEW cl, NEW lst, NEW rk, Handled(h, st, head, heads, sz, cl, lst, rk),
           Contents(st, tr, ds, h, cl, lst, rk),
           NEW t, t.parent = st[Len(st)].dir, NEW tr2, AppendedTo(tr, t, tr2), NEW st2, StacksRead(st, tr, st2),
           NEW head2, NEW heads2, NEW sz2, NEW x, NEW h2, NEW cl2, NEW lst2, NEW rk2,
           Handled(h2, st2, head2, heads2, sz2, cl2, lst2, rk2),
           SameOn(1 .. Len(st) - 1, cl, cl2), x \in 1 .. Len(h2) => lst2[x] # Len(st) + 1,
           ItemRead(st, tr, ds, h, lst, rk, t, x, st2, tr2, h2, cl2, lst2, rk2)
    PROVE  Contents(st2, tr2, ds, h2, cl2, lst2, rk2)
<1>1. /\ Sound(st, tr, ds, h, lst) /\ Complete(st, tr, h, lst) /\ InOrder(Len(st), h, lst, rk) /\ Importing(st, h, cl)
  BY DEF Contents
<1>2. PICK K \in Nat : K = Len(st)
  BY StackFacts
<1>3. /\ \A i \in 1 .. Len(h) : rk[i] \in Nat /\ lst[i] # K + 1
      /\ \A k \in 1 .. K - 1 : cl[k] \in 1 .. Len(h) /\ lst[cl[k]] = NoList
  <2>1. Lists(h, K, heads, sz, cl, lst, rk)
    BY <1>2 DEF Handled
  <2>2. \A i \in 1 .. Len(h) : rk[i] \in Nat /\ lst[i] \in -1 .. K
    BY <2>1 DEF Lists, Shape
  <2>3. \A i \in 1 .. Len(h) : lst[i] # K + 1
    BY <1>2, <2>2
  <2> QED
    BY <2>1, <2>2, <2>3 DEF Lists
<1>4. x \in 1 .. Len(h2) => rk2[x] \in Nat
  BY DEF Handled, Lists, Shape
<1>5. Complete(st2, tr2, h2, lst2)
  BY <1>1, CompleteRead
<1>6. InOrder(Len(st2), h2, lst2, rk2)
  BY <1>1, <1>2, <1>3, <1>4, OrderRead
<1>7. Importing(st2, h2, cl2)
  BY <1>1, <1>2, <1>3, ImportingRead
<1>8. Sound(st2, tr2, ds, h2, lst2)
  BY <1>1, <1>2, <1>3, SoundRead
<1> QED
  BY <1>5, <1>6, <1>7, <1>8 DEF Contents


-----------------------------------------------------------------------------
(* A directory is left for its caller, whose item x is listed. *)

Leaving(st, tr, K) == IsStack(st) /\ st # <<>> /\ Tree(st, tr) /\ K = Len(st) /\ K > 1
TruthLeft(tr, d, tr2) ==
    /\ Marked(tr, d, tr2) /\ tr2[d] \in EntryType
    /\ Failed(tr) => Failed(tr2)
TablesKept(ds, ds2) == \A e \in 1 .. Len(ds) : e \in 1 .. Len(ds2) /\ ds2[e].dir = ds[e].dir
ItemLeft(d, tr2, ds2, v) ==
    /\ v.entry = d /\ v.is_dir = TRUE
    /\ tr2[d].ok = TRUE => v.imp.first = tr2[d].first /\ v.imp.size = tr2[d].size % U32 /\ v.imp.dotdot # Unset
    /\ Failed(tr2) \/ (v.imp.dotdot \in 1 .. Len(ds2) /\ ds2[v.imp.dotdot].dir = d)
HeapLeft(K, h, lst, rk, h1, cnt, x, h2, lst2, rk2) ==
    /\ Len(h1) = Len(h) /\ \A j \in 1 .. Len(h) : j # x => h1[j] = h[j]
    /\ Left(h1, K, cnt, lst, rk, x, h2, lst2, rk2)

\* The last directory.
LEMMA LastDir ==
    ASSUME NEW st, NEW tr, NEW K, Leaving(st, tr, K)
    PROVE  /\ K \in Nat /\ K - 1 \in 1 .. K - 1 /\ K - 1 \in 1 .. K /\ K \in 1 .. K
           /\ st[K].dir \in 1 .. Len(tr) /\ tr[st[K].dir] \in EntryType
           /\ tr[st[K].dir].kind = "dir" /\ tr[st[K].dir].ok = TRUE /\ tr[st[K].dir].size = 0
           /\ tr[st[K].dir].parent = st[K - 1].dir
           /\ \A k \in 1 .. K - 1 : st[k].dir < st[K].dir /\ st[k].dir \in 0 .. Len(tr)
           /\ Len(tr) \in Nat /\ Len(st) = K
<1>0. IsStack(st) /\ st # <<>> /\ Tree(st, tr) /\ K = Len(st) /\ K > 1
  BY DEF Leaving
<1>1. K \in Nat
  BY <1>0, StackFacts
<1>2. K - 1 \in 1 .. K - 1 /\ K - 1 \in 1 .. K /\ K \in 1 .. K /\ K \in 2 .. K /\ \A k \in 1 .. K - 1 : k \in 1 .. K /\ k < K
  BY <1>0, <1>1
<1>3. \A k \in 1 .. K - 1 : st[k].dir < st[K].dir
  BY <1>0, <1>2 DEF Tree
<1>4. \A k \in 1 .. K - 1 : st[k].dir \in 0 .. Len(tr)
  BY <1>0, <1>2, TreeDirs
<1>5. Len(tr) \in Nat
  BY <1>0, TreeDirs
<1> QED
  BY <1>0, <1>1, <1>2, <1>3, <1>4, <1>5 DEF Tree

\* What is left of the lists of the other directories.
OtherLeft(st, tr, ds, h, lst, rk, K, h2, lst2, rk2, i) ==
    /\ lst[i] = lst2[i] /\ rk2[i] = rk[i] /\ IsEntry(st, tr, lst[i], h[i]) /\ (Failed(tr) \/ PointsTo(tr, ds, h[i]))
    /\ h2[i].entry = h[i].entry /\ h2[i].is_dir = h[i].is_dir /\ h2[i].imp = h[i].imp
    /\ h[i].entry \in 1 .. Len(tr) /\ h[i].entry < st[K].dir

LEMMA OthersLeft ==
    ASSUME NEW st, NEW tr, NEW K, Leaving(st, tr, K), NEW ds, NEW h, NEW lst, NEW rk,
           Sound(st, tr, ds, h, lst), NEW h1, NEW cnt, NEW x, NEW h2, NEW lst2, NEW rk2,
           HeapLeft(K, h, lst, rk, h1, cnt, x, h2, lst2, rk2), NEW i \in 1 .. Len(h), i # x, lst2[i] \in 1 .. K - 1
    PROVE  OtherLeft(st, tr, ds, h, lst, rk, K, h2, lst2, rk2, i)
<1>1. K \in Nat /\ st[K].dir \in 1 .. Len(tr) /\ K \in 1 .. K /\ Len(st) = K /\ Len(tr) \in Nat
  BY LastDir
<1>2. i \in 1 .. Len(h1) /\ h1[i] = h[i]
  BY DEF HeapLeft
<1>3. lst[i] # K
  <2>1. lst2[i] # 0
    BY <1>1
  <2> QED
    BY <1>2, <2>1 DEF HeapLeft, Left
<1>4. lst2[i] = lst[i] /\ rk2[i] = rk[i] /\ h2[i].entry = h[i].entry /\ h2[i].is_dir = h[i].is_dir /\ h2[i].imp = h[i].imp
  BY <1>2, <1>3 DEF HeapLeft, Left
<1>5. PICK k \in 1 .. K - 1 : k = lst[i]
  BY <1>4
<1>6. k \in 1 .. Len(st)
  BY <1>1
<1>7. IsEntry(st, tr, k, h[i]) /\ (Failed(tr) \/ PointsTo(tr, ds, h[i]))
  BY <1>5, <1>6 DEF Sound
<1>8. h[i].entry \in 1 .. Len(tr) /\ h[i].entry < st[k + 1].dir
  <2>1. k < Len(st)
    BY <1>1
  <2> QED
    BY <1>7, <2>1 DEF IsEntry
<1>9. h[i].entry < st[K].dir
  <2>1. CASE k = K - 1
    BY <1>1, <1>8, <2>1
  <2>2. CASE k # K - 1
    <3>1. k + 1 \in 1 .. K - 1
      BY <1>1, <2>2
    <3>2. st[k + 1].dir < st[K].dir /\ st[k + 1].dir \in 0 .. Len(tr)
      BY <3>1, LastDir
    <3> QED
      BY <1>1, <1>8, <3>2
  <2> QED
    BY <2>1, <2>2
<1> QED
  BY <1>4, <1>5, <1>7, <1>8, <1>9 DEF OtherLeft

LEMMA SoundLeft ==
    ASSUME NEW st, NEW tr, NEW K, Leaving(st, tr, K), NEW ds, NEW h, NEW lst, NEW rk,
           Sound(st, tr, ds, h, lst), NEW h1, NEW cnt, NEW x, NEW h2, NEW lst2, NEW rk2,
           HeapLeft(K, h, lst, rk, h1, cnt, x, h2, lst2, rk2),
           NEW st2, SameDirs(st, K - 1, st2), NEW tr2, TruthLeft(tr, st[K].dir, tr2), NEW ds2, TablesKept(ds, ds2),
           ItemLeft(st[K].dir, tr2, ds2, h2[x])
    PROVE  Sound(st2, tr2, ds2, h2, lst2)
<1>1. /\ K \in Nat /\ K - 1 \in 1 .. K - 1 /\ st[K].dir \in 1 .. Len(tr)
      /\ tr[st[K].dir].kind = "dir" /\ tr[st[K].dir].parent = st[K - 1].dir /\ Len(tr) \in Nat /\ Len(st) = K
  BY LastDir
<1>2. PICK d \in 1 .. Len(tr) : d = st[K].dir
  BY <1>1
<1>3. /\ Len(tr2) = Len(tr) /\ (\A e \in 1 .. Len(tr) : e # d => tr2[e] = tr[e])
      /\ \A e \in 1 .. Len(tr) : tr2[e].kind = tr[e].kind /\ tr2[e].parent = tr[e].parent
  BY <1>2 DEF TruthLeft, Marked
<1>4. Len(st2) = K - 1 /\ \A k \in 1 .. K - 1 : st2[k].dir = st[k].dir
  BY DEF SameDirs
<1>5. Len(h2) = Len(h) /\ lst2[x] = K - 1
  BY DEF HeapLeft, Left
<1>6. SUFFICES ASSUME NEW i \in 1 .. Len(h2), NEW k \in 1 .. Len(st2), lst2[i] = k
               PROVE  IsEntry(st2, tr2, k, h2[i]) /\ (Failed(tr2) \/ PointsTo(tr2, ds2, h2[i]))
  BY DEF Sound
<1>7. CASE i = x
  <2>1. k = K - 1 /\ ~(k < Len(st2))
    BY <1>1, <1>4, <1>5, <1>6, <1>7
  <2>2. tr2[d] \in EntryType /\ tr2[d].kind = "dir" /\ tr2[d].parent = st2[k].dir
    BY <1>1, <1>2, <1>3, <1>4, <2>1 DEF TruthLeft
  <2>3. h2[i].entry = d /\ ItemLeft(d, tr2, ds2, h2[i])
    BY <1>2, <1>7 DEF ItemLeft
  <2>4. IsEntry(st2, tr2, k, h2[i])
    BY <1>3, <2>1, <2>2, <2>3 DEF IsEntry, ItemLeft
  <2>5. Failed(tr2) \/ PointsTo(tr2, ds2, h2[i])
    BY <2>2, <2>3 DEF PointsTo, ItemLeft
  <2> QED
    BY <2>4, <2>5
<1>8. CASE i # x
  <2>0. i \in 1 .. Len(h) /\ lst2[i] \in 1 .. K - 1
    BY <1>4, <1>5, <1>6
  <2>1. /\ lst[i] = k /\ IsEntry(st, tr, k, h[i]) /\ (Failed(tr) \/ PointsTo(tr, ds, h[i]))
        /\ h2[i].entry = h[i].entry /\ h2[i].is_dir = h[i].is_dir /\ h2[i].imp = h[i].imp
        /\ h[i].entry \in 1 .. Len(tr) /\ h[i].entry < d
    <3>1. OtherLeft(st, tr, ds, h, lst, rk, K, h2, lst2, rk2, i)
      BY <1>8, <2>0, OthersLeft
    <3> QED
      BY <1>2, <1>6, <3>1 DEF OtherLeft
  <2>2. PICK e \in 1 .. Len(tr) : e = h[i].entry
    BY <2>1
  <2>3. e # d /\ tr2[e] = tr[e] /\ e \in 1 .. Len(tr2)
    <3>1. e \in Nat /\ d \in Nat /\ e < d
      BY <1>1, <2>1, <2>2
    <3>2. e # d
      BY <3>1
    <3> QED
      BY <1>3, <3>2
  <2>4. k \in 1 .. K - 1 /\ st2[k].dir = st[k].dir
    BY <1>4
  <2>5. k < Len(st2) => e < st2[k + 1].dir
    <3>1. SUFFICES ASSUME k < K - 1 PROVE e < st2[k + 1].dir
      BY <1>4
    <3>2. k + 1 \in 1 .. K - 1 /\ k < K
      BY <1>1, <2>4, <3>1
    <3> QED
      BY <1>1, <1>4, <2>1, <2>2, <3>2 DEF IsEntry
  <2>6. IsEntry(st2, tr2, k, h2[i])
    BY <2>1, <2>2, <2>3, <2>4, <2>5 DEF IsEntry
  <2>7. PointsTo(tr, ds, h[i]) => PointsTo(tr2, ds2, h2[i])
    BY <2>1, <2>2, <2>3 DEF PointsTo, TablesKept
  <2> QED
    BY <2>1, <2>6, <2>7 DEF TruthLeft
<1> QED
  BY <1>7, <1>8


LEMMA CompleteLeft ==
    ASSUME NEW st, NEW tr, NEW K, Leaving(st, tr, K), NEW h, NEW lst, NEW rk,
           Complete(st, tr, h, lst), NEW h1, NEW cnt, NEW x, NEW h2, NEW lst2, NEW rk2,
           HeapLeft(K, h, lst, rk, h1, cnt, x, h2, lst2, rk2),
           NEW st2, SameDirs(st, K - 1, st2), NEW tr2, TruthLeft(tr, st[K].dir, tr2), h2[x].entry = st[K].dir
    PROVE  Complete(st2, tr2, h2, lst2)
<1>1. /\ K \in Nat /\ K - 1 \in 1 .. K - 1 /\ st[K].dir \in 1 .. Len(tr) /\ tr[st[K].dir] \in EntryType
      /\ Len(tr) \in Nat /\ Len(st) = K
  BY LastDir
<1>2. Len(tr2) = Len(tr) /\ \A e \in 1 .. Len(tr) : (e # st[K].dir => tr2[e] = tr[e]) /\ tr2[e].parent = tr[e].parent
  BY DEF TruthLeft, Marked
<1>3. Len(st2) = K - 1 /\ \A k \in 1 .. K - 1 : st2[k].dir = st[k].dir
  BY DEF SameDirs
<1>4. Len(h2) = Len(h) /\ x \in 1 .. Len(h2) /\ lst2[x] = K - 1 /\ lst[x] = NoList /\ Len(h1) = Len(h)
  BY DEF HeapLeft, Left
<1>5. SUFFICES ASSUME NEW k \in 1 .. Len(st2), NEW e \in 1 .. Len(tr2), tr2[e] \in EntryType, tr2[e].parent = st2[k].dir
               PROVE  (k < Len(st2) /\ e = st2[k + 1].dir) \/ \E i \in 1 .. Len(h2) : lst2[i] = k /\ h2[i].entry = e
  BY DEF Complete
<1>6. k \in 1 .. K - 1 /\ k \in 1 .. K /\ k # K /\ k # NoList /\ e \in 1 .. Len(tr)
  BY <1>1, <1>2, <1>3 DEF NoList
<1>7. tr[e] \in EntryType /\ tr[e].parent = st[k].dir
  BY <1>1, <1>2, <1>3, <1>5, <1>6
<1>8. CASE e = st[k + 1].dir
  <2>1. CASE k = K - 1
    <3>1. k + 1 = K
      BY <1>1, <2>1
    <3> QED
      BY <1>4, <1>8, <2>1, <3>1
  <2>2. CASE k # K - 1
    <3>1. k < K - 1 /\ k + 1 \in 1 .. K - 1
      BY <1>1, <1>6, <2>2
    <3> QED
      BY <1>3, <1>8, <3>1
  <2> QED
    BY <2>1, <2>2
<1>9. CASE e # st[k + 1].dir
  <2>1. PICK i \in 1 .. Len(h) : lst[i] = k /\ h[i].entry = e
    BY <1>1, <1>6, <1>7, <1>9 DEF Complete
  <2>2. i # x /\ lst[i] # K
    BY <1>4, <1>6, <2>1
  <2>3. lst2[i] = k /\ h2[i].entry = e
    BY <1>4, <2>1, <2>2 DEF HeapLeft, Left
  <2> QED
    BY <1>4, <2>3
<1> QED
  BY <1>8, <1>9

LEMMA OrderLeft ==
    ASSUME NEW st, NEW tr, NEW K, Leaving(st, tr, K), NEW ds, NEW h, NEW lst, NEW rk,
           Sound(st, tr, ds, h, lst), InOrder(K, h, lst, rk), NEW h1, NEW cnt, NEW x, NEW h2, NEW lst2, NEW rk2,
           HeapLeft(K, h, lst, rk, h1, cnt, x, h2, lst2, rk2), h2[x].entry = st[K].dir,
           cnt \in Nat, \A i \in 1 .. Len(h) : rk[i] \in Nat /\ (lst[i] = K - 1 => rk[i] <= cnt)
    PROVE  InOrder(K - 1, h2, lst2, rk2)
<1>1. K \in Nat /\ K - 1 \in 1 .. K - 1 /\ K - 1 \in 1 .. K
  BY LastDir
<1>2. Len(h2) = Len(h) /\ x \in 1 .. Len(h2) /\ lst2[x] = K - 1 /\ rk2[x] = cnt + 1
  BY DEF HeapLeft, Left
<1>3. SUFFICES ASSUME NEW i \in 1 .. Len(h2), NEW j \in 1 .. Len(h2), lst2[i] = lst2[j], lst2[i] \in 1 .. K - 1, rk2[i] < rk2[j]
               PROVE  h2[i].entry < h2[j].entry
  BY DEF InOrder
<1>4. ASSUME NEW q \in 1 .. Len(h2), q # x, lst2[q] \in 1 .. K - 1
      PROVE  OtherLeft(st, tr, ds, h, lst, rk, K, h2, lst2, rk2, q)
  BY <1>2, <1>4, OthersLeft
<1>5. CASE i = x
  <2>1. CASE j = x
    BY <1>2, <1>3, <1>5, <2>1
  <2>2. CASE j # x
    <3>1. OtherLeft(st, tr, ds, h, lst, rk, K, h2, lst2, rk2, j)
      BY <1>3, <1>4, <2>2
    <3>2. lst[j] = K - 1 /\ rk2[j] = rk[j]
      BY <1>2, <1>3, <1>5, <3>1 DEF OtherLeft
    <3>3. rk[j] \in Nat /\ rk[j] <= cnt
      BY <1>2, <3>2
    <3> QED
      BY <1>2, <1>3, <1>5, <3>2, <3>3
  <2> QED
    BY <2>1, <2>2
<1>6. CASE i # x
  <2>1. OtherLeft(st, tr, ds, h, lst, rk, K, h2, lst2, rk2, i)
    BY <1>3, <1>4, <1>6
  <2>2. CASE j = x
    BY <2>1, <2>2 DEF OtherLeft
  <2>3. CASE j # x
    <3>1. OtherLeft(st, tr, ds, h, lst, rk, K, h2, lst2, rk2, j)
      BY <1>3, <1>4, <2>3
    <3>2. lst[i] = lst[j] /\ lst[i] \in 1 .. K /\ rk[i] < rk[j]
      BY <1>1, <1>3, <2>1, <3>1 DEF OtherLeft
    <3>3. h[i].entry < h[j].entry
      BY <1>2, <3>2 DEF InOrder
    <3> QED
      BY <2>1, <3>1, <3>3 DEF OtherLeft
  <2> QED
    BY <2>2, <2>3
<1> QED
  BY <1>5, <1>6

LEMMA ImportingLeft ==
    ASSUME NEW st, NEW tr, NEW K, Leaving(st, tr, K), NEW h, NEW cl, NEW lst, NEW rk, Importing(st, h, cl),
           NEW h1, NEW cnt, NEW x, NEW h2, NEW lst2, NEW rk2,
           HeapLeft(K, h, lst, rk, h1, cnt, x, h2, lst2, rk2), NEW st2, SameDirs(st, K - 1, st2),
           x = cl[K - 1], \A k \in 1 .. K - 1 : cl[k] \in 1 .. Len(h),
           \A j, k \in 1 .. K - 1 : cl[j] = cl[k] => j = k
    PROVE  Importing(st2, h2, cl)
<1>1. K \in Nat /\ K - 1 \in 1 .. K - 1 /\ Len(st) = K
  BY LastDir
<1>2. Len(st2) = K - 1 /\ \A k \in 1 .. K - 1 : st2[k].dir = st[k].dir
  BY DEF SameDirs
<1>3. SUFFICES ASSUME NEW k \in 1 .. (K - 1) - 1 PROVE h2[cl[k]].entry = st2[k + 1].dir
  BY <1>2 DEF Importing
<1>4. k \in 1 .. K - 1 /\ k # K - 1 /\ k + 1 \in 1 .. K - 1
  BY <1>1
<1>5. PICK c \in 1 .. Len(h) : c = cl[k] /\ c # x
  BY <1>1, <1>4
<1>6. h2[c].entry = h[c].entry
  BY <1>5 DEF HeapLeft, Left
<1>7. h[c].entry = st[k + 1].dir
  BY <1>1, <1>4, <1>5 DEF Importing
<1> QED
  BY <1>2, <1>4, <1>5, <1>6, <1>7

LEMMA ContentsLeft ==
    ASSUME NEW st, NEW tr, NEW K, Leaving(st, tr, K), NEW ds, NEW h, NEW head, NEW heads, NEW sz, NEW cl, NEW lst, NEW rk,
           Handled(h, st, head, heads, sz, cl, lst, rk), Contents(st, tr, ds, h, cl, lst, rk),
           NEW h1, NEW cnt, NEW x, NEW h2, NEW lst2, NEW rk2,
           HeapLeft(K, h, lst, rk, h1, cnt, x, h2, lst2, rk2), cnt = st[K - 1].count, x = st[K - 1].item,
           NEW st2, SameDirs(st, K - 1, st2), NEW tr2, TruthLeft(tr, st[K].dir, tr2), NEW ds2, TablesKept(ds, ds2),
           ItemLeft(st[K].dir, tr2, ds2, h2[x])
    PROVE  Contents(st2, tr2, ds2, h2, cl, lst2, rk2)
<1>1. /\ Sound(st, tr, ds, h, lst) /\ Complete(st, tr, h, lst) /\ InOrder(Len(st), h, lst, rk) /\ Importing(st, h, cl)
  BY DEF Contents
<1>2. K \in Nat /\ K - 1 \in 1 .. K - 1 /\ K - 1 \in 0 .. K /\ K - 1 \in 1 .. K /\ Len(st) = K
  <2>1. K \in Nat /\ K - 1 \in 1 .. K - 1 /\ Len(st) = K
    BY LastDir
  <2>2. K - 1 \in 0 .. K /\ K - 1 \in 1 .. K
    BY <2>1
  <2> QED
    BY <2>1, <2>2
<1>3. Lists(h, K, heads, sz, cl, lst, rk) /\ sz[K - 1] = cnt /\ cl[K - 1] = x
  BY <1>2 DEF Handled
<1>4. RanksOf(h, K - 1, sz, lst, rk)
  BY <1>2, <1>3, ListRanks
<1>5. cnt \in Nat /\ \A i \in 1 .. Len(h) : rk[i] \in Nat /\ (lst[i] = K - 1 => rk[i] <= cnt)
  BY <1>3, <1>4 DEF RanksOf
<1>6. (\A k \in 1 .. K - 1 : cl[k] \in 1 .. Len(h)) /\ \A j, k \in 1 .. K - 1 : cl[j] = cl[k] => j = k
  BY <1>3 DEF Lists
<1>7. h2[x].entry = st[K].dir
  BY DEF ItemLeft
<1>8. Sound(st2, tr2, ds2, h2, lst2)
  BY <1>1, SoundLeft
<1>9. Complete(st2, tr2, h2, lst2)
  BY <1>1, <1>7, CompleteLeft
<1>10. InOrder(K - 1, h2, lst2, rk2)
  BY <1>1, <1>2, <1>5, <1>7, OrderLeft
<1>11. Importing(st2, h2, cl)
  BY <1>1, <1>3, <1>6, ImportingLeft
<1>12. Len(st2) = K - 1
  BY DEF SameDirs
<1> QED
  BY <1>8, <1>9, <1>10, <1>11, <1>12 DEF Contents


-----------------------------------------------------------------------------
(* The directory that is left gets its table, and its children their "..". *)

Opened(st, tr, K) == IsStack(st) /\ st # <<>> /\ Tree(st, tr) /\ K = Len(st)

LEMMA OpenedFacts ==
    ASSUME NEW st, NEW tr, NEW K, Opened(st, tr, K)
    PROVE  /\ K \in Nat /\ K > 0 /\ K \in 1 .. K /\ Len(st) = K /\ Len(tr) \in Nat /\ tr \in Seq(TruthType)
           /\ st[K].dir \in 0 .. Len(tr)
           /\ \A k \in 1 .. K - 1 : k \in 1 .. K /\ st[k].dir # st[K].dir
           /\ st[K].dir # 0 =>
                 /\ st[K].dir \in 1 .. Len(tr) /\ tr[st[K].dir] \in EntryType /\ tr[st[K].dir].kind = "dir"
                 /\ \E k \in 1 .. K - 1 : tr[st[K].dir].parent = st[k].dir
<1>1. IsStack(st) /\ st # <<>> /\ Tree(st, tr) /\ Len(st) = K
  BY DEF Opened
<1>2. /\ K \in Nat /\ K > 0 /\ Len(tr) \in Nat /\ tr \in Seq(TruthType)
      /\ \A k \in 1 .. K : st[k].dir \in 0 .. Len(tr)
      /\ \A j, k \in 1 .. K : st[j].dir = st[k].dir => j = k
  BY <1>1, TreeDirs
<1>3. K \in 1 .. K /\ \A k \in 1 .. K - 1 : k \in 1 .. K /\ k # K
  BY <1>2
<1>4. \A k \in 1 .. K - 1 : st[k].dir # st[K].dir
  BY <1>2, <1>3
<1>5. ASSUME st[K].dir # 0
      PROVE  /\ st[K].dir \in 1 .. Len(tr) /\ tr[st[K].dir] \in EntryType /\ tr[st[K].dir].kind = "dir"
             /\ \E k \in 1 .. K - 1 : tr[st[K].dir].parent = st[k].dir
  <2>1. K # 1
    BY <1>1, <1>5 DEF Tree
  <2>2. K \in 2 .. Len(st) /\ K - 1 \in 1 .. K - 1
    BY <1>1, <1>2, <2>1
  <2> QED
    BY <1>1, <2>2 DEF Tree
<1> QED
  BY <1>1, <1>2, <1>3, <1>4, <1>5

\* List K has the ranks from 1 to n, and the rows are those of its items.
IsListing(h, K, n, lst, rk) ==
    /\ h \in Seq(ItemType) /\ n \in Nat /\ Len(h) \in Nat
    /\ \A j \in 1 .. Len(h) : rk[j] \in Nat /\ (lst[j] = K => rk[j] \in 1 .. n)
    /\ \A r \in 1 .. n : \E j \in 1 .. Len(h) : lst[j] = K /\ rk[j] = r
RowsFrom(h, K, n, lst, rk, rows) ==
    Len(rows) = n /\ \A j \in 1 .. Len(h) : lst[j] = K => rows[rk[j]] = Row(h[j])

LEMMA RowItem ==
    ASSUME NEW h, NEW K, NEW n, NEW lst, NEW rk, IsListing(h, K, n, lst, rk), NEW rows, RowsFrom(h, K, n, lst, rk, rows),
           NEW r \in 1 .. Len(rows)
    PROVE  \E j \in 1 .. Len(h) : /\ lst[j] = K /\ rk[j] = r
                                  /\ rows[r].entry = h[j].entry /\ rows[r].is_dir = h[j].is_dir
                                  /\ rows[r].first = h[j].imp.first /\ rows[r].size = h[j].imp.size
<1>1. r \in 1 .. n
  BY DEF RowsFrom
<1>2. PICK j \in 1 .. Len(h) : lst[j] = K /\ rk[j] = r
  BY <1>1 DEF IsListing
<1>3. rows[r] = Row(h[j]) /\ h[j] \in ItemType
  BY <1>2 DEF RowsFrom, IsListing
<1> QED
  BY <1>2, <1>3, RowFields

LEMMA NewTable ==
    ASSUME NEW st, NEW tr, NEW K, Opened(st, tr, K), NEW ds, NEW h, NEW lst, NEW rk,
           Sound(st, tr, ds, h, lst), Complete(st, tr, h, lst), InOrder(K, h, lst, rk),
           NEW n, IsListing(h, K, n, lst, rk), NEW rows, RowsFrom(h, K, n, lst, rk, rows)
    PROVE  IsTable(tr, st[K].dir, rows)
<1>1. K \in Nat /\ K \in 1 .. K /\ Len(st) = K
  BY OpenedFacts
<1>2. ASSUME NEW r \in 1 .. Len(rows) PROVE IsRow(tr, st[K].dir, rows[r])
  <2>1. PICK j \in 1 .. Len(h) :
            /\ lst[j] = K /\ rk[j] = r
            /\ rows[r].entry = h[j].entry /\ rows[r].is_dir = h[j].is_dir
            /\ rows[r].first = h[j].imp.first /\ rows[r].size = h[j].imp.size
    BY RowItem
  <2>2. IsEntry(st, tr, K, h[j])
    BY <1>1, <2>1 DEF Sound
  <2> QED
    BY <2>1, <2>2 DEF IsEntry, IsRow
<1>3. ASSUME NEW r \in 1 .. Len(rows), NEW s \in 1 .. Len(rows), r < s PROVE rows[r].entry < rows[s].entry
  <2>1. PICK i \in 1 .. Len(h) : lst[i] = K /\ rk[i] = r /\ rows[r].entry = h[i].entry
    BY RowItem
  <2>2. PICK j \in 1 .. Len(h) : lst[j] = K /\ rk[j] = s /\ rows[s].entry = h[j].entry
    BY RowItem
  <2> QED
    BY <1>1, <1>3, <2>1, <2>2 DEF InOrder
<1>4. ASSUME NEW e \in 1 .. Len(tr), tr[e] \in EntryType, tr[e].parent = st[K].dir
      PROVE  \E r \in 1 .. Len(rows) : rows[r].entry = e
  <2>1. PICK i \in 1 .. Len(h) : lst[i] = K /\ h[i].entry = e
    BY <1>1, <1>4 DEF Complete
  <2>2. rk[i] \in 1 .. Len(rows) /\ rows[rk[i]] = Row(h[i]) /\ h[i] \in ItemType
    BY <2>1 DEF IsListing, RowsFrom
  <2> QED
    BY <2>1, <2>2, RowFields
<1> QED
  BY <1>2, <1>3, <1>4 DEF IsTable

\* What is known of d changes, which is not in the table.
LEMMA TableMarked ==
    ASSUME NEW tr, NEW d, NEW tr2, Marked(tr, d, tr2), NEW y, d \in 1 .. Len(tr) => tr[d].parent # y,
           NEW rows, IsTable(tr, y, rows)
    PROVE  IsTable(tr2, y, rows)
<1>1. Len(tr2) = Len(tr) /\ \A e \in 1 .. Len(tr) : (e # d => tr2[e] = tr[e]) /\ tr2[e].parent = tr[e].parent
  BY DEF Marked
<1>2. ASSUME NEW e \in 1 .. Len(tr), tr[e].parent = y PROVE tr2[e] = tr[e]
  BY <1>1, <1>2
<1>3. \A j \in 1 .. Len(rows) : IsRow(tr2, y, rows[j])
  BY <1>1, <1>2 DEF IsTable, IsRow
<1>4. \A e \in 1 .. Len(tr2) : tr2[e] \in EntryType /\ tr2[e].parent = y => \E j \in 1 .. Len(rows) : rows[j].entry = e
  BY <1>1, <1>2 DEF IsTable
<1> QED
  BY <1>3, <1>4 DEF IsTable


\* The tables with one more, for the directory d with the cluster c.
NewFor(ds, d, c, ds0) ==
    /\ Len(ds0) = Len(ds) + 1 /\ Len(ds) \in Nat
    /\ \A i \in 1 .. Len(ds) : ds0[i] = ds[i]
    /\ ds0[Len(ds) + 1].dir = d /\ ds0[Len(ds) + 1].self = c

\* The tables when the loop has run.
TablesMade(ds, d, c, h, K, n, lst, rk, ds2) ==
    /\ ds2 \in Seq(DirType) /\ Len(ds2) = Len(ds) + 1 /\ Len(ds) \in Nat
    /\ \A i \in 1 .. Len(ds) : ds2[i].dir = ds[i].dir /\ ds2[i].self = ds[i].self /\ ds2[i].rows = ds[i].rows
    /\ ds2[Len(ds) + 1].dir = d /\ ds2[Len(ds) + 1].self = c
    /\ RowsFrom(h, K, n, lst, rk, ds2[Len(ds) + 1].rows)
    /\ \A j \in 1 .. Len(h) : lst[j] = K /\ h[j].imp.dotdot \in 1 .. Len(ds) => ds2[h[j].imp.dotdot].dotdot = c
    /\ \A i \in 1 .. Len(ds) :
          (\A j \in 1 .. Len(h) : lst[j] = K => h[j].imp.dotdot # i) => ds2[i].dotdot = ds[i].dotdot

LEMMA MadeTables ==
    ASSUME NEW ds, NEW d, NEW c, NEW ds0, NewFor(ds, d, c, ds0), NEW h, NEW K, NEW n, NEW lst, NEW rk,
           NEW h1, Len(h1) = Len(h), \A j \in 1 .. Len(h) : lst[j] = K => h1[j] = h[j],
           NEW ds2, TablesTo(h1, K, n, lst, rk, c, ds0, ds2)
    PROVE  TablesMade(ds, d, c, h, K, n, lst, rk, ds2)
<1>1. PICK D \in Nat : D = Len(ds) + 1 /\ D = Len(ds0) /\ D \in 1 .. D /\ \A i \in 1 .. Len(ds) : i \in 1 .. D /\ i # D
  BY DEF NewFor
<1>2. /\ ds2 \in Seq(DirType) /\ Len(ds2) = D
      /\ \A i \in 1 .. D : ds2[i].dir = ds0[i].dir /\ ds2[i].self = ds0[i].self
      /\ \A i \in 1 .. D : i # D => ds2[i].rows = ds0[i].rows
  BY <1>1 DEF TablesTo
<1>3. RowsFrom(h, K, n, lst, rk, ds2[D].rows)
  BY <1>1 DEF TablesTo, RowsFrom
<1>4. \A j \in 1 .. Len(h) : lst[j] = K /\ h[j].imp.dotdot \in 1 .. Len(ds) => ds2[h[j].imp.dotdot].dotdot = c
  BY <1>1 DEF TablesTo
<1>5. ASSUME NEW i \in 1 .. Len(ds), \A j \in 1 .. Len(h) : lst[j] = K => h[j].imp.dotdot # i
      PROVE  ds2[i].dotdot = ds[i].dotdot
  <2>1. ds2[i].dotdot = ds0[i].dotdot
    BY <1>1, <1>5 DEF TablesTo
  <2> QED
    BY <2>1 DEF NewFor
<1>6. /\ \A i \in 1 .. Len(ds) : ds2[i].dir = ds[i].dir /\ ds2[i].self = ds[i].self /\ ds2[i].rows = ds[i].rows
      /\ ds2[Len(ds) + 1].dir = d /\ ds2[Len(ds) + 1].self = c
  BY <1>1, <1>2 DEF NewFor
<1> QED
  BY <1>1, <1>2, <1>3, <1>4, <1>5, <1>6 DEF TablesMade, NewFor

LEMMA OwnLeft ==
    ASSUME NEW st, NEW tr, NEW K, Opened(st, tr, K), NEW ds, OwnTables(st, tr, ds),
           NEW st2, SameDirs(st, K - 1, st2), NEW tr2, Marked(tr, st[K].dir, tr2),
           st[K].dir # 0 => tr2[st[K].dir] \in EntryType,
           NEW c, NEW h, NEW n, NEW lst, NEW rk, NEW ds2, TablesMade(ds, st[K].dir, c, h, K, n, lst, rk, ds2)
    PROVE  OwnTables(st2, tr2, ds2)
<1>1. /\ K \in Nat /\ K \in 1 .. K /\ Len(st) = K /\ Len(tr) \in Nat /\ st[K].dir \in 0 .. Len(tr)
      /\ \A k \in 1 .. K - 1 : k \in 1 .. K /\ st[k].dir # st[K].dir
      /\ st[K].dir # 0 => st[K].dir \in 1 .. Len(tr) /\ tr[st[K].dir].kind = "dir"
  BY OpenedFacts
<1>2. /\ Len(tr2) = Len(tr)
      /\ \A e \in 1 .. Len(tr) : (e # st[K].dir => tr2[e] = tr[e]) /\ tr2[e].kind = tr[e].kind
  BY DEF Marked
<1>3. Len(st2) = K - 1 /\ \A k \in 1 .. K - 1 : st2[k].dir = st[k].dir
  BY DEF SameDirs
<1>4. PICK D : D = Len(ds) + 1
  OBVIOUS
<1>5. /\ ds2 \in Seq(DirType) /\ Len(ds2) = D /\ Len(ds) \in Nat /\ ds2[D].dir = st[K].dir
      /\ \A i \in 1 .. Len(ds) : ds2[i].dir = ds[i].dir
  BY <1>4 DEF TablesMade
<1>6. \A i \in 1 .. D : i \in 1 .. Len(ds) \/ i = D
  BY <1>4, <1>5
<1>7. ASSUME NEW i \in 1 .. Len(ds)
      PROVE  /\ ds[i].dir \in 0 .. Len(tr) /\ ds[i].dir # st[K].dir
             /\ ds[i].dir # 0 => tr2[ds[i].dir] \in EntryType /\ tr2[ds[i].dir].kind = "dir"
             /\ \A k \in 1 .. K - 1 : st2[k].dir # ds[i].dir
  <2>1. PICK y \in 0 .. Len(tr) : y = ds[i].dir
    BY DEF OwnTables
  <2>2. /\ y # 0 => tr[y] \in EntryType /\ tr[y].kind = "dir"
        /\ \A k \in 1 .. K : st[k].dir # y
    BY <1>1, <2>1 DEF OwnTables
  <2>3. y # 0 => y \in 1 .. Len(tr)
    BY <1>1
  <2>4. y # st[K].dir /\ \A k \in 1 .. K - 1 : st2[k].dir # y
    BY <1>1, <1>3, <2>2
  <2>5. y # 0 => tr2[y] \in EntryType /\ tr2[y].kind = "dir"
    BY <1>2, <2>2, <2>3, <2>4
  <2> QED
    BY <2>1, <2>4, <2>5
<1>8. \A i, j \in 1 .. D : ds2[i].dir = ds2[j].dir => i = j
  <2>1. SUFFICES ASSUME NEW i \in 1 .. D, NEW j \in 1 .. D, ds2[i].dir = ds2[j].dir PROVE i = j
    OBVIOUS
  <2>2. CASE i \in 1 .. Len(ds) /\ j \in 1 .. Len(ds)
    BY <1>5, <2>1, <2>2 DEF OwnTables
  <2>3. CASE i = D /\ j \in 1 .. Len(ds)
    BY <1>5, <1>7, <2>1, <2>3
  <2>4. CASE i \in 1 .. Len(ds) /\ j = D
    BY <1>5, <1>7, <2>1, <2>4
  <2> QED
    BY <1>6, <2>2, <2>3, <2>4
<1>9. ASSUME NEW i \in 1 .. D
      PROVE  /\ ds2[i].dir \in 0 .. Len(tr2)
             /\ ds2[i].dir # 0 => tr2[ds2[i].dir] \in EntryType /\ tr2[ds2[i].dir].kind = "dir"
             /\ \A k \in 1 .. Len(st2) : st2[k].dir # ds2[i].dir
  <2>1. CASE i \in 1 .. Len(ds)
    BY <1>2, <1>3, <1>5, <1>7, <2>1
  <2>2. CASE i = D
    <3>1. PICK y \in 0 .. Len(tr) : y = st[K].dir /\ ds2[i].dir = y
      BY <1>1, <1>5, <2>2
    <3>2. y # 0 => tr2[y] \in EntryType /\ tr2[y].kind = "dir"
      BY <1>1, <1>2, <3>1
    <3>3. \A k \in 1 .. Len(st2) : st2[k].dir # y
      BY <1>1, <1>3, <3>1
    <3> QED
      BY <1>2, <3>1, <3>2, <3>3
  <2> QED
    BY <1>6, <2>1, <2>2
<1> QED
  BY <1>5, <1>8, <1>9 DEF OwnTables

LEMMA AreLeft ==
    ASSUME NEW st, NEW tr, NEW K, Opened(st, tr, K), NEW ds, OwnTables(st, tr, ds), AreTables(tr, ds),
           NEW tr2, Marked(tr, st[K].dir, tr2), NEW h, NEW lst, NEW rk,
           Sound(st, tr, ds, h, lst), Complete(st, tr, h, lst), InOrder(K, h, lst, rk), NEW n, IsListing(h, K, n, lst, rk),
           NEW c, NEW ds2, TablesMade(ds, st[K].dir, c, h, K, n, lst, rk, ds2)
    PROVE  AreTables(tr2, ds2)
<1>1. /\ K \in Nat /\ K \in 1 .. K /\ Len(st) = K /\ Len(tr) \in Nat /\ st[K].dir \in 0 .. Len(tr)
      /\ \A k \in 1 .. K - 1 : k \in 1 .. K /\ st[k].dir # st[K].dir
      /\ st[K].dir # 0 => \E k \in 1 .. K - 1 : tr[st[K].dir].parent = st[k].dir
  BY OpenedFacts
<1>2. st[K].dir \in 1 .. Len(tr) => \E k \in 1 .. K - 1 : tr[st[K].dir].parent = st[k].dir
  BY <1>1
<1>3. Len(ds) \in Nat /\ \A i \in 1 .. Len(ds2) : i \in 1 .. Len(ds) \/ i = Len(ds) + 1
  BY DEF TablesMade
<1>4. ASSUME NEW i \in 1 .. Len(ds) PROVE IsTable(tr2, ds2[i].dir, ds2[i].rows)
  <2>1. \A k \in 1 .. K : st[k].dir # ds[i].dir
    BY <1>1 DEF OwnTables
  <2>2. st[K].dir \in 1 .. Len(tr) => tr[st[K].dir].parent # ds[i].dir
    BY <1>1, <1>2, <2>1
  <2>3. IsTable(tr, ds[i].dir, ds[i].rows)
    BY DEF AreTables
  <2>4. IsTable(tr2, ds[i].dir, ds[i].rows)
    BY <2>2, <2>3, TableMarked
  <2> QED
    BY <2>4 DEF TablesMade
<1>5. IsTable(tr2, ds2[Len(ds) + 1].dir, ds2[Len(ds) + 1].rows)
  <2>1. st[K].dir \in 1 .. Len(tr) => tr[st[K].dir].parent # st[K].dir
    BY <1>1, <1>2
  <2>2. PICK rows : rows = ds2[Len(ds) + 1].rows
    OBVIOUS
  <2>3. RowsFrom(h, K, n, lst, rk, rows)
    BY <2>2 DEF TablesMade
  <2>4. IsTable(tr, st[K].dir, rows)
    BY <2>3, NewTable
  <2>5. IsTable(tr2, st[K].dir, rows)
    BY <2>1, <2>4, TableMarked
  <2> QED
    BY <2>2, <2>5 DEF TablesMade
<1> QED
  BY <1>3, <1>4, <1>5 DEF AreTables


\* The items of the list point to their tables: what the loop sets is the ".." of the children.
LEMMA LeadUpLeft ==
    ASSUME NEW st, NEW tr, NEW K, Opened(st, tr, K), NEW ds, OwnTables(st, tr, ds), AreTables(tr, ds), LeadUp(ds),
           NEW h, NEW lst, NEW rk, Sound(st, tr, ds, h, lst), ~Failed(tr), NEW n, IsListing(h, K, n, lst, rk),
           NEW c, NEW ds2, TablesMade(ds, st[K].dir, c, h, K, n, lst, rk, ds2)
    PROVE  LeadUp(ds2)
<1>1. /\ K \in Nat /\ K \in 1 .. K /\ Len(st) = K /\ Len(tr) \in Nat /\ st[K].dir \in 0 .. Len(tr)
      /\ \A k \in 1 .. K - 1 : k \in 1 .. K /\ st[k].dir # st[K].dir
      /\ st[K].dir # 0 => \E k \in 1 .. K - 1 : tr[st[K].dir].parent = st[k].dir
  BY OpenedFacts
<1>2. st[K].dir \in 1 .. Len(tr) => \E k \in 1 .. K - 1 : tr[st[K].dir].parent = st[k].dir
  BY <1>1
<1>3. PICK D : D = Len(ds) + 1
  OBVIOUS
<1>4. /\ Len(ds2) = D /\ Len(ds) \in Nat /\ ds2[D].dir = st[K].dir /\ ds2[D].self = c
      /\ \A i \in 1 .. Len(ds) : ds2[i].dir = ds[i].dir /\ ds2[i].self = ds[i].self /\ ds2[i].rows = ds[i].rows
      /\ RowsFrom(h, K, n, lst, rk, ds2[D].rows)
  BY <1>3 DEF TablesMade
<1>5. \A i \in 1 .. D : i \in 1 .. Len(ds) \/ i = D
  BY <1>3, <1>4
<1>6. ASSUME NEW i \in 1 .. Len(ds)
      PROVE  \A k \in 1 .. K : st[k].dir # ds[i].dir
  BY <1>1 DEF OwnTables
<1>7. ASSUME NEW q \in 1 .. Len(h), lst[q] = K
      PROVE  h[q].entry \in 1 .. Len(tr) /\ tr[h[q].entry].parent = st[K].dir /\ PointsTo(tr, ds, h[q])
  BY <1>1, <1>7 DEF Sound, IsEntry
<1>8. SUFFICES ASSUME NEW i \in 1 .. D, NEW j \in 1 .. D, NEW r \in 1 .. Len(ds2[i].rows), ds2[i].rows[r].entry = ds2[j].dir
               PROVE  ds2[j].dotdot = ds2[i].self
  BY <1>4 DEF LeadUp
<1>9. CASE i \in 1 .. Len(ds)
  <2>1. r \in 1 .. Len(ds[i].rows) /\ ds2[i].rows[r] = ds[i].rows[r]
    BY <1>4, <1>8, <1>9
  <2>2. IsRow(tr, ds[i].dir, ds[i].rows[r])
    BY <1>9, <2>1 DEF AreTables, IsTable
  <2>3. PICK e \in 1 .. Len(tr) : e = ds[i].rows[r].entry /\ tr[e].parent = ds[i].dir
    BY <2>2 DEF IsRow
  <2>4. CASE j = D
    <3>1. e = st[K].dir
      BY <1>4, <1>8, <2>1, <2>3, <2>4
    <3> QED
      BY <1>1, <1>2, <1>6, <1>9, <2>3, <3>1
  <2>5. CASE j \in 1 .. Len(ds)
    <3>1. ds[j].dir = e
      BY <1>4, <1>8, <2>1, <2>3, <2>5
    <3>2. ds[j].dotdot = ds[i].self
      BY <1>9, <2>1, <2>3, <2>5, <3>1 DEF LeadUp
    <3>3. ASSUME NEW q \in 1 .. Len(h), lst[q] = K, h[q].imp.dotdot = j PROVE FALSE
      <4>1. j # 0
        BY <1>4, <2>5
      <4>2. h[q].entry = e
        BY <1>7, <3>1, <3>3, <4>1 DEF PointsTo
      <4>3. ds[i].dir = st[K].dir
        BY <1>7, <2>3, <3>3, <4>2
      <4> QED
        BY <1>1, <1>6, <1>9, <4>3
    <3>4. ds2[j].dotdot = ds[j].dotdot
      BY <2>5, <3>3 DEF TablesMade
    <3> QED
      BY <1>4, <1>9, <3>2, <3>4
  <2> QED
    BY <1>5, <2>4, <2>5
<1>10. CASE i = D
  <2>1. PICK q \in 1 .. Len(h) : lst[q] = K /\ ds2[D].rows[r].entry = h[q].entry
    BY <1>4, <1>8, <1>10, RowItem
  <2>2. PICK e \in 1 .. Len(tr) : e = h[q].entry /\ tr[e].parent = st[K].dir /\ PointsTo(tr, ds, h[q]) /\ ds2[j].dir = e
    BY <1>7, <1>8, <1>10, <2>1
  <2>3. CASE j = D
    <3>1. e = st[K].dir
      BY <1>4, <2>2, <2>3
    <3> QED
      BY <1>1, <1>2, <2>2, <3>1
  <2>4. CASE j \in 1 .. Len(ds)
    <3>1. ds[j].dir = e /\ e # 0
      BY <1>1, <1>4, <2>2, <2>4
    <3>2. tr[e].kind = "dir"
      BY <2>4, <3>1 DEF OwnTables
    <3>3. PICK m \in 1 .. Len(ds) : m = h[q].imp.dotdot /\ ds[m].dir = e
      BY <2>2, <3>2 DEF PointsTo
    <3>4. m = j
      BY <2>4, <3>1, <3>3 DEF OwnTables
    <3>5. ds2[j].dotdot = c
      <4>1. \A p \in 1 .. Len(h) : lst[p] = K /\ h[p].imp.dotdot \in 1 .. Len(ds) => ds2[h[p].imp.dotdot].dotdot = c
        BY DEF TablesMade
      <4>2. h[q].imp.dotdot \in 1 .. Len(ds)
        BY <3>3
      <4>3. ds2[h[q].imp.dotdot].dotdot = c
        BY <2>1, <4>1, <4>2
      <4> QED
        BY <3>3, <3>4, <4>3
    <3> QED
      BY <1>4, <1>10, <3>5
  <2> QED
    BY <1>5, <2>3, <2>4
<1> QED
  BY <1>5, <1>9, <1>10

LEMMA TablesLeave ==
    ASSUME NEW st, NEW tr, NEW K, Opened(st, tr, K), NEW ds, Tables(st, tr, ds), NEW h, NEW cl, NEW lst, NEW rk,
           Contents(st, tr, ds, h, cl, lst, rk), NEW n, IsListing(h, K, n, lst, rk),
           NEW st2, SameDirs(st, K - 1, st2), NEW tr2, Marked(tr, st[K].dir, tr2), Failed(tr) => Failed(tr2),
           st[K].dir # 0 => tr2[st[K].dir] \in EntryType,
           NEW c, NEW ds2, TablesMade(ds, st[K].dir, c, h, K, n, lst, rk, ds2)
    PROVE  Tables(st2, tr2, ds2)
<1>1. OwnTables(st, tr, ds) /\ AreTables(tr, ds) /\ (Failed(tr) \/ LeadUp(ds))
  BY DEF Tables
<1>2. Sound(st, tr, ds, h, lst) /\ Complete(st, tr, h, lst) /\ InOrder(K, h, lst, rk)
  BY DEF Contents, Opened
<1>3. OwnTables(st2, tr2, ds2)
  BY <1>1, OwnLeft
<1>4. AreTables(tr2, ds2)
  BY <1>1, <1>2, AreLeft
<1>5. CASE Failed(tr)
  BY <1>3, <1>4, <1>5 DEF Tables
<1>6. CASE ~Failed(tr)
  BY <1>1, <1>2, <1>3, <1>4, <1>6, LeadUpLeft DEF Tables
<1> QED
  BY <1>5, <1>6

\* There is no space for the directory.
LEMMA TablesFull ==
    ASSUME NEW st, NEW tr, NEW K, Opened(st, tr, K), NEW ds, Tables(st, tr, ds),
           NEW st2, SameDirs(st, K - 1, st2), NEW tr2, Marked(tr, st[K].dir, tr2), Failed(tr) => Failed(tr2),
           st[K].dir # 0 => tr2[st[K].dir] \in EntryType
    PROVE  Tables(st2, tr2, ds)
<1>1. OwnTables(st, tr, ds) /\ AreTables(tr, ds) /\ (Failed(tr) \/ LeadUp(ds))
  BY DEF Tables
<1>2. /\ K \in Nat /\ K \in 1 .. K /\ Len(st) = K /\ Len(tr) \in Nat
      /\ \A k \in 1 .. K - 1 : k \in 1 .. K
      /\ st[K].dir # 0 => \E k \in 1 .. K - 1 : tr[st[K].dir].parent = st[k].dir
  BY OpenedFacts
<1>3. st[K].dir \in 1 .. Len(tr) => \E k \in 1 .. K - 1 : tr[st[K].dir].parent = st[k].dir
  BY <1>2
<1>4. /\ Len(tr2) = Len(tr)
      /\ \A e \in 1 .. Len(tr) : (e # st[K].dir => tr2[e] = tr[e]) /\ tr2[e].kind = tr[e].kind
  BY DEF Marked
<1>5. Len(st2) = K - 1 /\ \A k \in 1 .. K - 1 : st2[k].dir = st[k].dir
  BY DEF SameDirs
<1>6. ASSUME NEW i \in 1 .. Len(ds)
      PROVE  /\ ds[i].dir \in 0 .. Len(tr) /\ \A k \in 1 .. K : st[k].dir # ds[i].dir
             /\ ds[i].dir # 0 => tr2[ds[i].dir] \in EntryType /\ tr2[ds[i].dir].kind = "dir"
             /\ IsTable(tr2, ds[i].dir, ds[i].rows)
  <2>1. PICK y \in 0 .. Len(tr) : y = ds[i].dir
    BY <1>1 DEF OwnTables
  <2>2. /\ y # 0 => tr[y] \in EntryType /\ tr[y].kind = "dir"
        /\ \A k \in 1 .. K : st[k].dir # y
    BY <1>1, <1>2, <2>1 DEF OwnTables
  <2>3. y # 0 => y \in 1 .. Len(tr)
    BY <1>2
  <2>4. y # 0 => tr2[y] \in EntryType /\ tr2[y].kind = "dir"
    BY <1>2, <1>4, <2>2, <2>3
  <2>5. st[K].dir \in 1 .. Len(tr) => tr[st[K].dir].parent # y
    BY <1>2, <1>3, <2>2
  <2>6. IsTable(tr, y, ds[i].rows)
    BY <1>1, <2>1 DEF AreTables
  <2>7. IsTable(tr2, y, ds[i].rows)
    BY <2>5, <2>6, TableMarked
  <2> QED
    BY <2>1, <2>2, <2>4, <2>7
<1>7. OwnTables(st2, tr2, ds)
  <2>1. ds \in Seq(DirType) /\ \A d, e \in 1 .. Len(ds) : ds[d].dir = ds[e].dir => d = e
    BY <1>1 DEF OwnTables
  <2>2. ASSUME NEW i \in 1 .. Len(ds), NEW k \in 1 .. Len(st2) PROVE st2[k].dir # ds[i].dir
    <3>1. k \in 1 .. K /\ st2[k].dir = st[k].dir
      BY <1>2, <1>5
    <3> QED
      BY <1>6, <3>1
  <2>3. \A i \in 1 .. Len(ds) : /\ ds[i].dir \in 0 .. Len(tr2)
                                /\ ds[i].dir # 0 => tr2[ds[i].dir] \in EntryType /\ tr2[ds[i].dir].kind = "dir"
    BY <1>4, <1>6
  <2> QED
    BY <2>1, <2>2, <2>3 DEF OwnTables
<1>8. AreTables(tr2, ds)
  BY <1>6 DEF AreTables
<1> QED
  BY <1>1, <1>7, <1>8 DEF Tables


-----------------------------------------------------------------------------
(* The inductive invariant, and its steps. *)

TreeOK ==
    /\ entry = Len(truth)
    /\ Imported(heap, stack, free_items_head, truth, dirs)
    /\ phase = "crashed" => FailedIn(truth, Top.dir) \/ (Top.items = NULL /\ ~Space.ok)

\* The ghosts of a state that is not one of the exceptions.
Shown(heads, sz, cl, lst, rk) ==
    /\ Now(heads, sz, cl, lst, rk) /\ Contents(stack, truth, dirs, heap, cl, lst, rk)
    /\ Tree(stack, truth) /\ Parents(truth) /\ Tables(stack, truth, dirs) /\ entry = Len(truth)

LEMMA TreeShown ==
    ASSUME TreeOK
    PROVE  \E heads, sz, cl, lst, rk : Shown(heads, sz, cl, lst, rk)
<1>1. PICK heads, sz, cl, lst, rk :
          /\ Handled(heap, stack, free_items_head, heads, sz, cl, lst, rk)
          /\ Contents(stack, truth, dirs, heap, cl, lst, rk)
  BY DEF TreeOK, Imported
<1>2. Shown(heads, sz, cl, lst, rk)
  BY <1>1 DEF Shown, Now, TreeOK, Imported
<1> QED
  BY <1>2

\* An entry was read as t; x is the item that it was read into.
EntryRead(t, cl, lst, rk, cl2, lst2, rk2, x) ==
    /\ truth' = Append(truth, t) /\ entry' = entry + 1 /\ dirs' = dirs /\ phase' = "import"
    /\ SameOn(1 .. Len(stack) - 1, cl, cl2) /\ (x \in 1 .. Len(heap') => lst2[x] # Len(stack) + 1)
    /\ StacksRead(stack, truth, stack')
    /\ ItemRead(stack, truth, dirs, heap, lst, rk, t, x, stack', truth', heap', cl2, lst2, rk2)

LEMMA ReadStep ==
    ASSUME ImportInv, phase = "import", NEW heads, NEW sz, NEW cl, NEW lst, NEW rk, Shown(heads, sz, cl, lst, rk),
           NEW t \in TruthType, t.parent = Top.dir,
           NEW heads2, NEW sz2, NEW cl2, NEW lst2, NEW rk2, NEW x, EntryRead(t, cl, lst, rk, cl2, lst2, rk2, x),
           Handled(heap', stack', free_items_head', heads2, sz2, cl2, lst2, rk2), Tree(stack', truth')
    PROVE  TreeOK'
<1>1. IsStack(stack) /\ stack # <<>> /\ Tree(stack, truth) /\ Parents(truth) /\ Tables(stack, truth, dirs)
  BY DEF ImportInv, Shown
<1>2. truth \in Seq(TruthType) /\ Len(truth) \in Nat /\ Len(stack) \in Nat /\ Len(stack) > 0
  BY <1>1, TreeDirs
<1>3. PICK K \in Nat : K = Len(stack) /\ K > 0 /\ K \in 1 .. K
  BY <1>2
<1>4. AppendedTo(truth, t, truth')
  BY <1>2, TruthAppended DEF EntryRead
<1>5. t.parent = stack[Len(stack)].dir
  BY DEF Top
<1>6. StacksRead(stack, truth, stack')
  BY DEF EntryRead
<1>7. Parents(truth')
  BY <1>1, <1>4, <1>5, ParentsRead
<1>8. Tables(stack', truth', dirs)
  <2>1. \A k \in 1 .. Len(stack') : stack'[k].dir = Len(truth) + 1 \/ \E j \in 1 .. Len(stack) : stack'[k].dir = stack[j].dir
    <3>1. SUFFICES ASSUME NEW k \in 1 .. Len(stack')
                   PROVE  stack'[k].dir = Len(truth) + 1 \/ \E j \in 1 .. K : stack'[k].dir = stack[j].dir
      BY <1>3
    <3>2. k \in 1 .. K \/ (k = K + 1 /\ Len(stack') = K + 1)
      BY <1>3, <1>6 DEF StacksRead
    <3> QED
      BY <1>3, <1>6, <3>2 DEF StacksRead
  <2> QED
    BY <1>1, <1>2, <1>3, <1>4, <1>5, <2>1, TablesRead
<1>9. Contents(stack', truth', dirs, heap', cl2, lst2, rk2)
  <2>1. Handled(heap, stack, free_items_head, heads, sz, cl, lst, rk) /\ Contents(stack, truth, dirs, heap, cl, lst, rk)
    BY DEF Shown, Now
  <2>2. /\ SameOn(1 .. Len(stack) - 1, cl, cl2) /\ (x \in 1 .. Len(heap') => lst2[x] # Len(stack) + 1)
        /\ ItemRead(stack, truth, dirs, heap, lst, rk, t, x, stack', truth', heap', cl2, lst2, rk2)
    BY DEF EntryRead
  <2> QED
    BY <1>1, <1>4, <1>5, <1>6, <2>1, <2>2, ContentsRead
<1>10. entry' = Len(truth') /\ dirs' = dirs /\ phase' # "crashed"
  BY <1>2, <1>4 DEF EntryRead, AppendedTo, Shown
<1>11. Imported(heap, stack, free_items_head, truth, dirs)'
  BY <1>7, <1>8, <1>9, <1>10 DEF Imported
<1> QED
  BY <1>10, <1>11 DEF TreeOK

\* An entry of which the tree has nothing.
Skipped(p) == [parent |-> p, kind |-> "skipped"]
LEMMA SkippedFacts ==
    ASSUME NEW p \in Nat
    PROVE  Skipped(p) \in TruthType /\ Skipped(p) \notin EntryType /\ Skipped(p).parent = p
<1>1. Skipped(p) \in SkippedType /\ Skipped(p).parent = p /\ Skipped(p).kind = "skipped"
  BY DEF SkippedType, Skipped
<1>2. Skipped(p) \in TruthType
  BY <1>1 DEF TruthType
<1> QED
  BY <1>1, <1>2, TruthTypes

LEMMA StaysStack ==
    ASSUME NEW st, IsStack(st), st # <<>>
    PROVE  SameDirs(st, Len(st), st)
BY DEF SameDirs

LEMMA SkipEntryKeeps ==
    ASSUME ImportInv, TreeOK, SkipEntry
    PROVE  freedTwice' \/ TreeOK'
<1>1. CASE Top.item # NULL
  <2>1. freedTwice' = (freedTwice \/ Top.item # NULL)
    BY DEF SkipEntry
  <2> QED
    BY <1>1, <2>1, Zenon
<1>2. CASE Top.item = NULL
  <2>1. /\ phase = "import" /\ phase' = "import" /\ entry' = entry + 1 /\ truth' = Append(truth, Skipped(Top.dir))
        /\ heap' = heap /\ free_items_head' = free_items_head /\ stack' = stack /\ dirs' = dirs
    BY <1>2 DEF SkipEntry, Reading, Skipped
  <2>2. PICK heads, sz, cl, lst, rk : Shown(heads, sz, cl, lst, rk)
    BY TreeShown
  <2>3. Top.dir \in Nat
    BY <2>1, SpaceFacts
  <2>4. PICK t : t = Skipped(Top.dir)
    OBVIOUS
  <2>5. t \in TruthType /\ t \notin EntryType /\ t.parent = Top.dir
    BY <2>3, <2>4, SkippedFacts
  <2>6. IsStack(stack) /\ stack # <<>> /\ Tree(stack, truth)
    BY <2>1, <2>2 DEF ImportInv, Shown
  <2>7. truth \in Seq(TruthType)
    BY <2>6, TreeDirs
  <2>8. AppendedTo(truth, t, truth')
    BY <2>1, <2>4, <2>5, <2>7, TruthAppended
  <2>9. Tree(stack', truth')
    BY <2>1, <2>6, <2>8, StaysStack, TreeRead
  <2>10. 0 \notin 1 .. Len(heap)
    OBVIOUS
  <2>11. ItemRead(stack, truth, dirs, heap, lst, rk, t, 0, stack', truth', heap', cl, lst, rk)
    <3>1. KeptBut(0, heap, lst, rk, heap', lst, rk)
      BY <2>1 DEF KeptBut
    <3>2. StayedBut(0, heap, lst, heap')
      <4>1. heap \in Seq(ItemType)
        BY <2>2 DEF Shown, Now, Handled, Lists
      <4> QED
        BY <2>1, <4>1 DEF StayedBut
    <3>3. Len(stack') # Len(stack) + 1
      <4>1. Len(stack) \in Nat
        BY <2>6, StackFacts
      <4> QED
        BY <2>1, <4>1
    <3> QED
      BY <2>1, <2>5, <2>10, <3>1, <3>2, <3>3 DEF ItemRead
  <2>12. EntryRead(t, cl, lst, rk, cl, lst, rk, 0)
    BY <2>1, <2>4, <2>10, <2>11 DEF EntryRead, SameOn, StacksRead
  <2>13. Handled(heap', stack', free_items_head', heads, sz, cl, lst, rk)
    BY <2>1, <2>2 DEF Shown, Now
  <2> QED
    BY <2>1, <2>2, <2>5, <2>9, <2>12, <2>13, ReadStep
<1> QED
  BY <1>1, <1>2

LEMMA SkipItemKeeps ==
    ASSUME ImportInv, TreeOK, NEW name, NEW is_other, SkipItem(name, is_other)
    PROVE  TreeOK'
<1>1. /\ phase = "import" /\ phase' = "import" /\ entry' = entry + 1 /\ truth' = Append(truth, Skipped(Top.dir)) /\ dirs' = dirs
  BY DEF SkipItem, Reading, Skipped
<1>2. PICK heads, sz, cl, lst, rk : Shown(heads, sz, cl, lst, rk)
  BY TreeShown
<1>3. PICK t : t = Skipped(Top.dir)
  OBVIOUS
<1>4. t \in TruthType /\ t \notin EntryType /\ t.parent = Top.dir
  BY <1>1, <1>3, SpaceFacts, SkippedFacts
<1>5. IsStack(stack) /\ stack # <<>> /\ Tree(stack, truth)
  BY <1>1, <1>2 DEF ImportInv, Shown
<1>6. AppendedTo(truth, t, truth')
  BY <1>1, <1>3, <1>4, <1>5, TreeDirs, TruthAppended
<1>7. SameDirs(stack, Len(stack), stack')
  BY <1>2, SkipItemStep DEF Shown
<1>8. PICK heads2, sz2, lst2, rk2, x, head2 :
          /\ Handled(heap', stack', free_items_head', heads2, sz2, cl, lst2, rk2)
          /\ Entered(heap, Len(stack), heads, sz, cl, lst, rk, 0, x, head2, heap', heads2, sz2, lst2, rk2)
  BY <1>2, SkipItemStep DEF Shown
<1>9. PICK K \in Nat : K = Len(stack) /\ K > 0 /\ K # K + 1 /\ 0 # K + 1 /\ 0 \notin 1 .. K
  <2>1. Len(stack) \in Nat /\ Len(stack) > 0
    BY <1>5, StackFacts
  <2> QED
    BY <2>1
<1>10. Len(stack') = K /\ \A k \in 1 .. K : stack'[k].dir = stack[k].dir
  BY <1>7, <1>9 DEF SameDirs
<1>11. stack' # <<>>
  BY <1>9, <1>10
<1>12. Tree(stack', truth')
  BY <1>5, <1>6, <1>7, <1>11, TreeRead
<1>13. /\ KeptBut(x, heap, lst, rk, heap', lst2, rk2) /\ StayedBut(x, heap, lst, heap')
       /\ x \in 1 .. Len(heap') /\ lst2[x] = 0
  BY <1>8 DEF Entered
<1>14. ItemRead(stack, truth, dirs, heap, lst, rk, t, x, stack', truth', heap', cl, lst2, rk2)
  BY <1>4, <1>9, <1>10, <1>13 DEF ItemRead
<1>15. EntryRead(t, cl, lst, rk, cl, lst2, rk2, x)
  BY <1>1, <1>3, <1>9, <1>10, <1>13, <1>14 DEF EntryRead, SameOn, StacksRead
<1> QED
  BY <1>1, <1>2, <1>4, <1>8, <1>12, <1>15, ReadStep


\* An entry of the tree.
Entry(p, kind, first, size, ok) == [parent |-> p, kind |-> kind, first |-> first, size |-> size, ok |-> ok]
EntryOf(t, p, kind, first, size, ok) ==
    /\ t \in TruthType /\ t \in EntryType
    /\ t.parent = p /\ t.kind = kind /\ t.first = first /\ t.size = size /\ t.ok = ok

LEMMA EntryFacts ==
    ASSUME NEW p \in Nat, NEW kind \in {"file", "dir"}, NEW first \in Nat, NEW size \in Nat, NEW ok \in BOOLEAN
    PROVE  EntryOf(Entry(p, kind, first, size, ok), p, kind, first, size, ok)
<1> DEFINE t == Entry(p, kind, first, size, ok)
<1>1. t \in EntryType /\ t.parent = p /\ t.kind = kind /\ t.first = first /\ t.size = size /\ t.ok = ok
  BY DEF EntryType, Entry
<1> QED
  BY <1>1 DEF TruthType, EntryOf

\* The item v stands for the entry t.
StandsFor(t, d, m) ==
    /\ t.kind = "dir" => d = TRUE
    /\ t.kind # "dir" => d = FALSE
    /\ t.ok = TRUE => m.first = t.first /\ m.size = t.size % U32 /\ m.dotdot = 0 /\ t.kind # "dir"

\* t is the entry e, in the last directory.
LastEntry(st2, tr2, K, e, t) ==
    /\ e \in 1 .. Len(tr2) /\ tr2[e] = t /\ t \in EntryType
    /\ K = Len(st2) /\ Len(st2) \in Nat /\ t.parent = st2[K].dir

LEMMA ListedItem ==
    ASSUME NEW e \in Nat, NEW d \in BOOLEAN, NEW n \in Int, NEW m \in ImportType,
           NEW st2, NEW tr2, NEW K, NEW t, LastEntry(st2, tr2, K, e, t), StandsFor(t, d, m), NEW ds
    PROVE  /\ IsEntry(st2, tr2, K, Item(e, d, n, m)) /\ Item(e, d, n, m).entry = e
           /\ t.ok = TRUE => PointsTo(tr2, ds, Item(e, d, n, m))
<1> DEFINE v == Item(e, d, n, m)
<1>1. v.entry = e /\ v.is_dir = d /\ v.imp = m
  BY ItemFields
<1> HIDE DEF v
<1>2. ~(K < Len(st2))
  BY DEF LastEntry
<1>3. IsEntry(st2, tr2, K, v)
  BY <1>1, <1>2 DEF IsEntry, StandsFor, LastEntry, Unset
<1>4. t.ok = TRUE => PointsTo(tr2, ds, v)
  BY <1>1 DEF PointsTo, StandsFor, LastEntry
<1> USE DEF v
<1> QED
  BY <1>1, <1>3, <1>4

LEMMA ListedKeeps ==
    ASSUME ImportInv, phase = "import", NEW heads, NEW sz, NEW cl, NEW lst, NEW rk, Shown(heads, sz, cl, lst, rk),
           NEW t \in EntryType, t \in TruthType, t.parent = Top.dir, truth' = Append(truth, t),
           entry' = entry + 1, dirs' = dirs, phase' = "import", SameDirs(stack, Len(stack), stack'),
           NEW d \in BOOLEAN, NEW m \in ImportType, StandsFor(t, d, m), NEW heads2, NEW sz2, NEW lst2, NEW rk2,
           ListedAs(Item(entry + 1, d, stack[Len(stack)].items, m), heads, sz, cl, lst, rk, heads2, sz2, lst2, rk2)
    PROVE  TreeOK'
<1>1. IsStack(stack) /\ stack # <<>> /\ Tree(stack, truth) /\ entry = Len(truth)
      /\ Handled(heap, stack, free_items_head, heads, sz, cl, lst, rk)
  BY DEF ImportInv, Shown, Now
<1>2. truth \in Seq(TruthType) /\ Len(truth) \in Nat /\ Len(stack) \in Nat /\ Len(stack) > 0
  BY <1>1, TreeDirs
<1>3. AppendedTo(truth, t, truth')
  BY <1>2, TruthAppended
<1>4. PICK K \in Nat : K = Len(stack) /\ K > 0 /\ K \in 1 .. K /\ K \in 0 .. K /\ K # K + 1 /\ K # 0
  BY <1>2
<1>5. Len(stack') = K /\ \A k \in 1 .. K : stack'[k].dir = stack[k].dir
  BY <1>4 DEF SameDirs
<1>6. Tree(stack', truth')
  <2>1. stack' # <<>>
    BY <1>4, <1>5
  <2> QED
    BY <1>1, <1>3, <2>1, TreeRead
<1>7. Handled(heap', stack', free_items_head', heads2, sz2, cl, lst2, rk2)
  BY DEF ListedAs
<1>8. PICK x :
          /\ Entered(heap, Len(stack), heads, sz, cl, lst, rk, Len(stack), x, free_items_head', heap', heads2, sz2, lst2, rk2)
          /\ heap'[x] = Item(entry + 1, d, stack[Len(stack)].items, m)
  BY DEF ListedAs
<1>9. /\ x \in 1 .. Len(heap') /\ lst2[x] = K /\ rk2[x] = sz[K] + 1
      /\ KeptBut(x, heap, lst, rk, heap', lst2, rk2) /\ StayedBut(x, heap, lst, heap')
  BY <1>4, <1>8 DEF Entered
<1>10. \A i \in 1 .. Len(heap) : lst[i] = K => rk[i] < rk2[x]
  <2>1. RanksOf(heap, K, sz, lst, rk)
    BY <1>1, <1>4, ListRanks DEF Handled
  <2> QED
    BY <1>9, <2>1 DEF RanksOf
<1>11. /\ IsEntry(stack', truth', K, heap'[x]) /\ heap'[x].entry = Len(truth) + 1
       /\ t.ok = TRUE => PointsTo(truth', dirs, heap'[x])
  <2>1. PICK e \in Nat : e = entry + 1 /\ e = Len(truth) + 1 /\ e \in 1 .. Len(truth') /\ truth'[e] = t
    BY <1>1, <1>2, <1>3 DEF AppendedTo
  <2>2. PICK n \in Int : n = stack[Len(stack)].items
    BY <1>1, <1>4, ItemsAreInt
  <2>3. heap'[x] = Item(e, d, n, m)
    BY <1>8, <2>1, <2>2
  <2>4. t.parent = stack'[K].dir
    BY <1>4, <1>5 DEF Top
  <2>5. K = Len(stack') /\ Len(stack') \in Nat
    BY <1>4, <1>5
  <2>6. LastEntry(stack', truth', K, e, t)
    BY <2>1, <2>4, <2>5 DEF LastEntry
  <2>7. /\ IsEntry(stack', truth', K, Item(e, d, n, m)) /\ Item(e, d, n, m).entry = e
        /\ t.ok = TRUE => PointsTo(truth', dirs, Item(e, d, n, m))
    BY <2>6, ListedItem
  <2> QED
    BY <2>1, <2>3, <2>7
<1>12. Failed(truth') \/ PointsTo(truth', dirs, heap'[x])
  <2>1. CASE t.ok = TRUE
    BY <1>11, <2>1
  <2>2. CASE t.ok = FALSE
    BY <1>2, <1>3, <2>2, FailedNow
  <2>3. t.ok \in BOOLEAN
    BY TruthTypes
  <2>4. t.ok = TRUE \/ t.ok = FALSE
    BY <2>3, Zenon
  <2> QED
    BY <2>1, <2>2, <2>4
<1>13. ItemRead(stack, truth, dirs, heap, lst, rk, t, x, stack', truth', heap', cl, lst2, rk2)
  BY <1>4, <1>5, <1>9, <1>10, <1>11, <1>12 DEF ItemRead
<1>14. EntryRead(t, cl, lst, rk, cl, lst2, rk2, x)
  BY <1>4, <1>5, <1>9, <1>13 DEF EntryRead, SameOn, StacksRead
<1> QED
  BY <1>6, <1>7, <1>14, ReadStep

LEMMA ImportFileKeeps ==
    ASSUME ImportInv, TreeOK, NEW name, NEW size \in Sizes, NEW stat_ok \in BOOLEAN, ImportFile(name, size, stat_ok)
    PROVE  TreeOK'
<1> DEFINE file == import_file(size, stat_ok, entry + 1)
           t == Entry(Top.dir, "file", file.first, size, file.ok)
<1>1. phase = "import" /\ phase' = "import" /\ entry' = entry + 1 /\ truth' = Append(truth, t) /\ dirs' = dirs
  BY DEF ImportFile, Reading, Entry
<1>2. PICK heads, sz, cl, lst, rk : Shown(heads, sz, cl, lst, rk)
  BY TreeShown
<1>3. file.ok \in BOOLEAN /\ file.first \in Nat /\ size \in Nat /\ size % U32 \in Nat /\ Top.dir \in Nat
  BY <1>1, FileFacts, SpaceFacts
<1>4. SameDirs(stack, Len(stack), stack')
  BY <1>2, ImportFileStep DEF Shown
<1>5. PICK m \in ImportType :
          /\ file.ok => m = Imp(file.first, size % U32, NULL)
          /\ \E heads2, sz2, lst2, rk2 :
                ListedAs(Item(entry + 1, FALSE, stack[Len(stack)].items, m), heads, sz, cl, lst, rk, heads2, sz2, lst2, rk2)
  <2>1. FileListed(file, size, heads, sz, cl, lst, rk)
    BY <1>2, ImportFileStep DEF Shown
  <2> HIDE DEF file
  <2> QED
    BY <2>1 DEF FileListed
<1>6. PICK d \in BOOLEAN : d = FALSE
  BY Zenon
<1>7. PICK heads2, sz2, lst2, rk2 :
          ListedAs(Item(entry + 1, d, stack[Len(stack)].items, m), heads, sz, cl, lst, rk, heads2, sz2, lst2, rk2)
  BY <1>5, <1>6
<1> HIDE DEF file
<1>8. /\ t \in TruthType /\ t \in EntryType /\ t.parent = Top.dir /\ t.kind = "file" /\ t.first = file.first
      /\ t.size = size /\ t.ok = file.ok
  <2>1. "file" \in {"file", "dir"}
    OBVIOUS
  <2>2. EntryOf(t, Top.dir, "file", file.first, size, file.ok)
    BY <1>3, <2>1, EntryFacts
  <2> HIDE DEF t
  <2> QED
    BY <2>2 DEF EntryOf
<1> HIDE DEF t
<1>9. StandsFor(t, d, m)
  <2>1. ASSUME t.ok = TRUE PROVE m.first = t.first /\ m.size = t.size % U32 /\ m.dotdot = 0
    <3>1. m = Imp(file.first, size % U32, NULL)
      BY <1>5, <1>8, <2>1
    <3>2. m.first = file.first /\ m.size = size % U32 /\ m.dotdot = 0
      BY <1>3, <3>1, ImpFields DEF NULL
    <3> QED
      BY <1>8, <3>2
  <2> QED
    BY <1>6, <1>8, <2>1 DEF StandsFor
<1> QED
  BY <1>1, <1>2, <1>4, <1>7, <1>8, <1>9, ListedKeeps

LEMMA EnterDirFailsKeeps ==
    ASSUME ImportInv, TreeOK, NEW name, EnterDirFails(name)
    PROVE  TreeOK'
<1> DEFINE t == Entry(Top.dir, "dir", 0, 0, FALSE)
<1>1. phase = "import" /\ phase' = "import" /\ entry' = entry + 1 /\ truth' = Append(truth, t) /\ dirs' = dirs
  BY DEF EnterDirFails, Reading, Entry
<1>2. PICK heads, sz, cl, lst, rk : Shown(heads, sz, cl, lst, rk)
  BY TreeShown
<1>3. Top.dir \in Nat
  BY <1>1, SpaceFacts
<1>4. SameDirs(stack, Len(stack), stack')
  BY <1>2, EnterDirFailsStep DEF Shown
<1>5. PICK m \in ImportType : \E heads2, sz2, lst2, rk2 :
          ListedAs(Item(entry + 1, TRUE, stack[Len(stack)].items, m), heads, sz, cl, lst, rk, heads2, sz2, lst2, rk2)
  BY <1>2, EnterDirFailsStep DEF Shown
<1>6. PICK d \in BOOLEAN : d = TRUE
  BY Zenon
<1>7. PICK heads2, sz2, lst2, rk2 :
          ListedAs(Item(entry + 1, d, stack[Len(stack)].items, m), heads, sz, cl, lst, rk, heads2, sz2, lst2, rk2)
  BY <1>5, <1>6
<1>8. /\ t \in TruthType /\ t \in EntryType /\ t.parent = Top.dir /\ t.kind = "dir" /\ t.ok = FALSE
  <2>1. PICK no \in BOOLEAN : no = FALSE
    BY Zenon
  <2>2. t = Entry(Top.dir, "dir", 0, 0, no)
    BY <2>1
  <2> HIDE DEF t
  <2>3. "dir" \in {"file", "dir"} /\ 0 \in Nat
    OBVIOUS
  <2>4. EntryOf(Entry(Top.dir, "dir", 0, 0, no), Top.dir, "dir", 0, 0, no)
    BY <1>3, <2>3, EntryFacts
  <2> QED
    BY <2>1, <2>2, <2>4 DEF EntryOf
<1> HIDE DEF t
<1>9. StandsFor(t, d, m)
  BY <1>6, <1>8 DEF StandsFor
<1> QED
  BY <1>1, <1>2, <1>4, <1>7, <1>8, <1>9, ListedKeeps

LEMMA EnterDirKeeps ==
    ASSUME ImportInv, TreeOK, NEW name, EnterDir(name)
    PROVE  TreeOK'
<1> DEFINE t == Entry(Top.dir, "dir", 0, 0, TRUE)
<1>1. phase = "import" /\ phase' = "import" /\ entry' = entry + 1 /\ truth' = Append(truth, t) /\ dirs' = dirs
  BY DEF EnterDir, Reading, Entry
<1>2. PICK heads, sz, cl, lst, rk : Shown(heads, sz, cl, lst, rk)
  BY TreeShown
<1>3. Top.dir \in Nat
  BY <1>1, SpaceFacts
<1>4. /\ Len(stack') = Len(stack) + 1 /\ (\A k \in 1 .. Len(stack) : stack'[k].dir = stack[k].dir)
      /\ stack'[Len(stack) + 1].dir = entry + 1
  BY <1>2, EnterDirStep DEF Shown
<1>5. PICK heads2, sz2, cl2, lst2, rk2, x :
          EnteredAs(entry + 1, heads, sz, cl, lst, rk, heads2, sz2, cl2, lst2, rk2, x)
  BY <1>2, EnterDirStep DEF Shown
<1>6. /\ t \in TruthType /\ t \in EntryType /\ t.parent = Top.dir /\ t.kind = "dir" /\ t.ok = TRUE /\ t.size = 0
  <2>1. PICK yes \in BOOLEAN : yes = TRUE
    BY Zenon
  <2>2. t = Entry(Top.dir, "dir", 0, 0, yes)
    BY <2>1
  <2> HIDE DEF t
  <2>3. "dir" \in {"file", "dir"} /\ 0 \in Nat
    OBVIOUS
  <2>4. EntryOf(Entry(Top.dir, "dir", 0, 0, yes), Top.dir, "dir", 0, 0, yes)
    BY <1>3, <2>3, EntryFacts
  <2> QED
    BY <2>1, <2>2, <2>4 DEF EntryOf
<1> HIDE DEF t
<1>7. IsStack(stack) /\ stack # <<>> /\ Tree(stack, truth) /\ entry = Len(truth)
  BY <1>1, <1>2 DEF ImportInv, Shown
<1>8. truth \in Seq(TruthType) /\ Len(truth) \in Nat /\ Len(stack) \in Nat /\ Len(stack) > 0
  BY <1>7, TreeDirs
<1>9. AppendedTo(truth, t, truth')
  BY <1>1, <1>6, <1>8, TruthAppended
<1>10. PICK K \in Nat : K = Len(stack) /\ K > 0 /\ K + 1 # NoList /\ NoList \notin 1 .. K + 1
  BY <1>8 DEF NoList
<1>11. t.parent = stack[Len(stack)].dir
  BY <1>6 DEF Top
<1>12. Tree(stack', truth')
  BY <1>4, <1>6, <1>7, <1>9, <1>11, TreeEnter
<1>13. /\ Handled(heap', stack', free_items_head', heads2, sz2, cl2, lst2, rk2)
       /\ x \in 1 .. Len(heap') /\ lst2[x] = NoList
       /\ KeptBut(x, heap, lst, rk, heap', lst2, rk2) /\ StayedBut(x, heap, lst, heap')
       /\ SameOn(1 .. K - 1, cl, cl2) /\ cl2[K] = x /\ heap'[x].entry = Len(truth) + 1
  BY <1>5, <1>7, <1>10 DEF EnteredAs, EnteredDir, IntoAlso
<1>14. ItemRead(stack, truth, dirs, heap, lst, rk, t, x, stack', truth', heap', cl2, lst2, rk2)
  BY <1>4, <1>10, <1>13 DEF ItemRead
<1>15. EntryRead(t, cl, lst, rk, cl2, lst2, rk2, x)
  BY <1>1, <1>4, <1>7, <1>10, <1>13, <1>14 DEF EntryRead, StacksRead
<1> QED
  BY <1>1, <1>2, <1>6, <1>12, <1>13, <1>15, ReadStep


\* The process ends: all but the phase stays.
LEMMA CrashKeeps ==
    ASSUME TreeOK, Crash, FailedIn(truth, Top.dir) \/ (Top.items = NULL /\ ~Space.ok)
    PROVE  TreeOK'
<1>1. /\ fs' = fs /\ stack' = stack /\ entry' = entry /\ heap' = heap /\ free_items_head' = free_items_head
      /\ dirs' = dirs /\ truth' = truth
  BY DEF Crash
<1>2. Top' = Top /\ Space' = Space
  BY <1>1 DEF Top, Space
<1> QED
  BY <1>1, <1>2 DEF TreeOK, Imported

\* A pointer that was never set is one of a child whose import failed.
LEMMA WildFailed ==
    ASSUME ImportInv, phase = "import", NEW cl, NEW lst, NEW rk, Contents(stack, truth, dirs, heap, cl, lst, rk), Wild(lst)
    PROVE  FailedIn(truth, Top.dir)
<1>1. Len(stack) \in 1 .. Len(stack)
  BY StackFacts DEF ImportInv
<1>2. PICK j \in 1 .. Len(heap) : lst[j] = Len(stack) /\ heap[j].imp.dotdot = Unset
  BY DEF Wild
<1>3. IsEntry(stack, truth, Len(stack), heap[j])
  BY <1>1, <1>2 DEF Contents, Sound
<1>4. PICK e \in 1 .. Len(truth) : e = heap[j].entry
  BY <1>3 DEF IsEntry
<1>5. truth[e] \in EntryType /\ truth[e].parent = Top.dir /\ truth[e].ok # TRUE
  BY <1>2, <1>3, <1>4 DEF IsEntry, Top
<1>6. truth[e].ok \in BOOLEAN
  BY <1>5 DEF EntryType
<1>7. truth[e].ok = FALSE
  BY <1>5, <1>6, Zenon
<1> QED
  BY <1>5, <1>7 DEF FailedIn

\* The directory that is left: what was known of it, and what is.
Ended(tr, d, tr2) ==
    /\ Marked(tr, d, tr2) /\ (Failed(tr) => Failed(tr2))
    /\ d # 0 => tr2[d] \in EntryType

LEMMA EndedFirst ==
    ASSUME ImportInv, phase = "import", NEW K, Opened(stack, truth, K), FirstKnown
    PROVE  Ended(truth, Top.dir, truth') /\ (Top.dir # 0 => truth'[Top.dir].first = Space.first /\ truth'[Top.dir].size = 0)
<1>1. /\ Len(stack) = K /\ truth \in Seq(TruthType) /\ Len(truth) \in Nat
      /\ stack[K].dir # 0 => stack[K].dir \in 1 .. Len(truth) /\ truth[stack[K].dir] \in EntryType
  BY OpenedFacts
<1>2. Top.dir = stack[K].dir
  BY <1>1 DEF Top
<1>3. CASE Top.dir = 0
  <2>1. truth' = truth
    BY <1>3, Zenon DEF FirstKnown
  <2> QED
    BY <1>1, <1>3, <2>1 DEF Ended, Marked
<1>4. CASE Top.dir # 0
  <2>1. PICK d \in 1 .. Len(truth) : d = Top.dir /\ truth[d] \in EntryType
    BY <1>1, <1>2, <1>4
  <2>2. FirstPut(truth, d, Space.first, truth')
    BY <1>4, <2>1 DEF FirstKnown, FirstPut
  <2>3. Space.first \in Nat
    BY SpaceFacts
  <2>4. /\ Marked(truth, d, truth') /\ truth'[d] \in EntryType
        /\ truth'[d].first = Space.first /\ truth'[d].ok = truth[d].ok /\ truth'[d].size = truth[d].size
    BY <1>1, <2>1, <2>2, <2>3, MarkFirst
  <2>5. truth[d].size = 0
    <3>1. K \in 2 .. Len(stack)
      <4>1. K # 1
        BY <1>2, <1>4 DEF Opened, Tree
      <4>2. K \in Nat /\ K > 0
        BY OpenedFacts
      <4> QED
        BY <1>1, <4>1, <4>2
    <3> QED
      BY <1>2, <2>1, <3>1 DEF Opened, Tree
  <2>6. Failed(truth) => Failed(truth')
    <3>1. SUFFICES ASSUME NEW e \in 1 .. Len(truth), truth[e] \in EntryType, truth[e].ok = FALSE PROVE Failed(truth')
      BY DEF Failed
    <3>2. e \in 1 .. Len(truth') /\ truth'[e] \in EntryType /\ truth'[e].ok = FALSE
      BY <2>4, <3>1 DEF Marked
    <3> QED
      BY <3>2 DEF Failed
  <2> QED
    BY <2>1, <2>4, <2>5, <2>6 DEF Ended
<1> QED
  BY <1>3, <1>4

LEMMA EndedNone ==
    ASSUME ImportInv, phase = "import", NEW K, Opened(stack, truth, K), NoneKnown
    PROVE  /\ Ended(truth, Top.dir, truth')
           /\ Top.dir # 0 => truth'[Top.dir].ok = FALSE /\ Failed(truth')
<1>1. /\ Len(stack) = K /\ truth \in Seq(TruthType) /\ Len(truth) \in Nat
      /\ stack[K].dir # 0 => stack[K].dir \in 1 .. Len(truth) /\ truth[stack[K].dir] \in EntryType
  BY OpenedFacts
<1>2. Top.dir = stack[K].dir
  BY <1>1 DEF Top
<1>3. CASE Top.dir = 0
  <2>1. truth' = truth
    BY <1>3, Zenon DEF NoneKnown
  <2> QED
    BY <1>1, <1>3, <2>1 DEF Ended, Marked
<1>4. CASE Top.dir # 0
  <2>1. PICK d \in 1 .. Len(truth) : d = Top.dir /\ truth[d] \in EntryType
    BY <1>1, <1>2, <1>4
  <2>2. PICK no \in BOOLEAN : no = FALSE
    BY Zenon
  <2>3. OkPut(truth, d, no, truth')
    BY <1>4, <2>1, <2>2 DEF NoneKnown, OkPut
  <2>4. Marked(truth, d, truth') /\ truth'[d] \in EntryType /\ truth'[d].ok = no
    BY <1>1, <2>1, <2>3, MarkFailed
  <2>5. Failed(truth')
    <3>1. d \in 1 .. Len(truth')
      BY <2>4 DEF Marked
    <3> QED
      BY <2>2, <2>4, <3>1 DEF Failed
  <2> QED
    BY <2>1, <2>2, <2>4, <2>5 DEF Ended
<1> QED
  BY <1>3, <1>4

\* Parents stay.
LEMMA ParentsLeft ==
    ASSUME NEW tr, Parents(tr), NEW d, NEW tr2, Marked(tr, d, tr2)
    PROVE  Parents(tr2)
BY DEF Marked, Parents

\* With the last directory nothing is left to be listed.
LEMMA NoContents ==
    ASSUME NEW st, Len(st) = 0, NEW tr, NEW ds, NEW h, NEW cl, NEW lst, NEW rk
    PROVE  Contents(st, tr, ds, h, cl, lst, rk)
<1>1. 1 .. Len(st) = {} /\ 1 .. Len(st) - 1 = {} /\ 1 .. 0 = {}
  OBVIOUS
<1> QED
  BY <1>1 DEF Contents, Sound, Complete, InOrder, Importing

\* The stack when import_dir has returned.
LEMMA BackStack ==
    ASSUME NEW K, Opened(stack, truth, K), NEW h1, NEW cl, NEW lst, NEW rk, NEW h, BackAs(h1, cl, lst, rk, h)
    PROVE  SameDirs(stack, K - 1, stack') /\ (stack' # <<>> => K > 1)
<1>1. K \in Nat /\ K > 0 /\ Len(stack) = K
  BY OpenedFacts
<1>2. CASE K = 1
  <2>1. stack' = <<>> /\ Len(stack') = 0 /\ K - 1 = 0
    BY <1>1, <1>2 DEF BackAs
  <2> QED
    BY <2>1 DEF SameDirs
<1>3. CASE K > 1
  BY <1>1, <1>3 DEF BackAs
<1> QED
  BY <1>1, <1>2, <1>3


\* List K of the stack.
LEMMA ListingNow ==
    ASSUME ImportInv, phase = "import", NEW heads, NEW sz, NEW cl, NEW lst, NEW rk, Now(heads, sz, cl, lst, rk),
           NEW K, Opened(stack, truth, K)
    PROVE  IsListing(heap, K, Top.count, lst, rk)
<1>1. K \in Nat /\ K \in 1 .. K /\ Len(stack) = K
  BY OpenedFacts
<1>2. K \in 0 .. K
  BY <1>1
<1>3. Lists(heap, K, heads, sz, cl, lst, rk) /\ sz[K] = Top.count
  BY <1>1 DEF Now, Handled, Top
<1>4. Shape(Len(heap), NextOf(heap), K, heads, sz, lst, rk)
  BY <1>3 DEF Lists
<1>5. RanksOf(heap, K, sz, lst, rk)
  BY <1>2, <1>3, ListRanks
<1>6. \A r \in 1 .. sz[K] : \E i \in 1 .. Len(heap) : lst[i] = K /\ rk[i] = r
  BY <1>2, <1>4, RanksTaken
<1> QED
  BY <1>3, <1>5, <1>6 DEF RanksOf, IsListing

\* What is known when a directory is left, but for the lists.
LEMMA LeftTrees ==
    ASSUME ImportInv, phase = "import", NEW heads, NEW sz, NEW cl, NEW lst, NEW rk, Shown(heads, sz, cl, lst, rk)
    PROVE  Opened(stack, truth, Len(stack)) /\ Top.dir = stack[Len(stack)].dir
BY DEF ImportInv, Shown, Opened, Top

LEMMA EndedTree ==
    ASSUME ImportInv, phase = "import", NEW heads, NEW sz, NEW cl, NEW lst, NEW rk, Shown(heads, sz, cl, lst, rk),
           Ended(truth, Top.dir, truth'), NEW h1, NEW h, BackAs(h1, cl, lst, rk, h)
    PROVE  Tree(stack', truth') /\ Parents(truth') /\ SameDirs(stack, Len(stack) - 1, stack') /\ Len(truth') = Len(truth)
<1>1. Opened(stack, truth, Len(stack)) /\ Top.dir = stack[Len(stack)].dir
  BY LeftTrees
<1>2. SameDirs(stack, Len(stack) - 1, stack') /\ (stack' # <<>> => Len(stack) > 1)
  BY <1>1, BackStack
<1>3. Marked(truth, stack[Len(stack)].dir, truth')
  BY <1>1 DEF Ended
<1>4. IsStack(stack) /\ stack # <<>> /\ Tree(stack, truth) /\ Parents(truth)
  BY DEF ImportInv, Shown
<1>5. Tree(stack', truth')
  BY <1>2, <1>3, <1>4, TreeLeave
<1>6. Parents(truth')
  BY <1>3, <1>4, ParentsLeft
<1> QED
  BY <1>2, <1>3, <1>5, <1>6 DEF Marked

\* The item of the caller is the one of the directory that is left.
LEMMA CallerEntry ==
    ASSUME ImportInv, phase = "import", Len(stack) > 1,
           NEW heads, NEW sz, NEW cl, NEW lst, NEW rk, Shown(heads, sz, cl, lst, rk)
    PROVE  CallerItem \in 1 .. Len(heap) /\ heap[CallerItem].entry = Top.dir /\ Leaving(stack, truth, Len(stack)) /\ Top.dir # 0
<1>1. IsStack(stack) /\ stack # <<>> /\ Tree(stack, truth) /\ Now(heads, sz, cl, lst, rk) /\ Importing(stack, heap, cl)
  BY DEF ImportInv, Shown, Contents
<1>2. PICK K \in Nat : K = Len(stack)
  BY <1>1, StackFacts
<1>3. K - 1 \in 1 .. K - 1 /\ (K - 1) + 1 = K
  BY <1>2
<1>4. cl[K - 1] = CallerItem
  BY <1>1, <1>2, <1>3 DEF Now, Handled, CallerItem
<1>5. CallerItem \in 1 .. Len(heap)
  BY <1>1, CallerFacts
<1>6. heap[CallerItem].entry = Top.dir
  BY <1>1, <1>2, <1>3, <1>4 DEF Importing, Top
<1>7. Leaving(stack, truth, Len(stack))
  BY <1>1 DEF Leaving
<1>8. stack[Len(stack)].dir \in 1 .. Len(truth)
  BY <1>7, LastDir
<1>9. Top.dir # 0
  BY <1>8 DEF Top
<1> QED
  BY <1>5, <1>6, <1>7, <1>9

\* The lists, if the item of the caller is listed as one of the directory.
LEMMA EndedContents ==
    ASSUME ImportInv, phase = "import", NEW heads, NEW sz, NEW cl, NEW lst, NEW rk, Shown(heads, sz, cl, lst, rk),
           Ended(truth, Top.dir, truth'), TablesKept(dirs, dirs'), NEW h1, NEW h, BackAs(h1, cl, lst, rk, h),
           Len(stack) > 1 =>
              /\ Len(h1) = Len(heap) /\ \A j \in 1 .. Len(heap) : j # CallerItem => h1[j] = heap[j]
              /\ \A next : ItemLeft(Top.dir, truth', dirs', Item(h[CallerItem].entry, TRUE, next, h[CallerItem].imp))
    PROVE  \E heads2, sz2, lst2, rk2 :
              /\ Handled(heap', stack', free_items_head', heads2, sz2, cl, lst2, rk2)
              /\ Contents(stack', truth', dirs', heap', cl, lst2, rk2)
<1>1. PICK K \in Nat : K = Len(stack) /\ K > 0
  BY StackFacts DEF ImportInv
<1>2. CASE K = 1
  <2>1. stack' = <<>> /\ Len(stack') = 0
    BY <1>1, <1>2 DEF BackAs
  <2>2. PICK heads2, sz2, lst2, rk2 : Handled(heap', stack', free_items_head', heads2, sz2, cl, lst2, rk2)
    BY <1>1, <1>2 DEF BackAs
  <2>3. Contents(stack', truth', dirs', heap', cl, lst2, rk2)
    BY <2>1, NoContents
  <2> QED
    BY <2>2, <2>3
<1>3. CASE K > 1
  <2>1. Len(stack) > 1
    BY <1>1, <1>3
  <2>2. SameDirs(stack, Len(stack) - 1, stack')
    BY <2>1 DEF BackAs
  <2>3. PICK heads2, sz2, lst2, rk2 :
            ReturnedTo(h1, cl, lst, rk, h, Len(stack), stack[Len(stack) - 1].item, heads2, sz2, lst2, rk2)
    BY <2>1 DEF BackAs
  <2>4. /\ Handled(heap', stack', free_items_head', heads2, sz2, cl, lst2, rk2)
        /\ Left(h1, Len(stack), stack[Len(stack) - 1].count, lst, rk, CallerItem, heap', lst2, rk2)
        /\ heap'[CallerItem] = Item(h[CallerItem].entry, TRUE, stack[Len(stack) - 1].items, h[CallerItem].imp)
    BY <2>3 DEF ReturnedTo, CallerItem
  <2>5. HeapLeft(Len(stack), heap, lst, rk, h1, stack[Len(stack) - 1].count, CallerItem, heap', lst2, rk2)
    BY <2>1, <2>4 DEF HeapLeft
  <2>6. Leaving(stack, truth, Len(stack)) /\ Top.dir # 0 /\ Top.dir = stack[Len(stack)].dir
    BY <2>1, CallerEntry DEF Top
  <2>7. TruthLeft(truth, stack[Len(stack)].dir, truth')
    BY <2>6 DEF TruthLeft, Ended
  <2>8. ItemLeft(stack[Len(stack)].dir, truth', dirs', heap'[CallerItem])
    BY <2>1, <2>4, <2>6
  <2>9. /\ Handled(heap, stack, free_items_head, heads, sz, cl, lst, rk) /\ Contents(stack, truth, dirs, heap, cl, lst, rk)
        /\ CallerItem = stack[Len(stack) - 1].item
    BY DEF Shown, Now, CallerItem
  <2>10. Contents(stack', truth', dirs', heap', cl, lst2, rk2)
    BY <2>2, <2>5, <2>6, <2>7, <2>8, <2>9, ContentsLeft
  <2> QED
    BY <2>4, <2>10
<1> QED
  BY <1>1, <1>2, <1>3


LEMMA FullKeeps ==
    ASSUME ImportInv, TreeOK, LeaveDirFull
    PROVE  TreeOK'
<1>1. PICK heads, sz, cl, lst, rk : Shown(heads, sz, cl, lst, rk)
  BY TreeShown
<1>2. phase = "import"
  BY DEF LeaveDirFull
<1>3. CASE Crash /\ Top.items = NULL /\ ~Space.ok
  BY <1>3, CrashKeeps
<1>4. ASSUME NEW h, FullAs(h, cl, lst, rk) PROVE TreeOK'
  <2>1. /\ BackAs(heap, cl, lst, rk, h) /\ NoneKnown /\ phase' # "crashed" /\ dirs' = dirs /\ entry' = entry
        /\ Len(stack) > 1 => h[CallerItem].entry = heap[CallerItem].entry /\ h[CallerItem].imp = heap[CallerItem].imp
    BY <1>4 DEF FullAs
  <2>2. Opened(stack, truth, Len(stack)) /\ Top.dir = stack[Len(stack)].dir
    BY <1>1, <1>2, LeftTrees
  <2>3. Ended(truth, Top.dir, truth') /\ (Top.dir # 0 => truth'[Top.dir].ok = FALSE /\ Failed(truth'))
    BY <1>2, <2>1, <2>2, EndedNone
  <2>4. Tree(stack', truth') /\ Parents(truth') /\ SameDirs(stack, Len(stack) - 1, stack') /\ Len(truth') = Len(truth)
    BY <1>1, <1>2, <2>1, <2>3, EndedTree
  <2>5. Tables(stack', truth', dirs)
    <3>1. /\ Marked(truth, stack[Len(stack)].dir, truth') /\ (Failed(truth) => Failed(truth'))
          /\ stack[Len(stack)].dir # 0 => truth'[stack[Len(stack)].dir] \in EntryType
      BY <2>2, <2>3 DEF Ended
    <3>2. Tables(stack, truth, dirs)
      BY <1>1 DEF Shown
    <3> QED
      BY <2>2, <2>4, <3>1, <3>2, TablesFull
  <2>6. TablesKept(dirs, dirs')
    BY <2>1 DEF TablesKept
  <2>7. ASSUME Len(stack) > 1, NEW next
        PROVE  ItemLeft(Top.dir, truth', dirs', Item(h[CallerItem].entry, TRUE, next, h[CallerItem].imp))
    <3>1. heap[CallerItem].entry = Top.dir /\ Top.dir # 0
      BY <1>1, <1>2, <2>7, CallerEntry
    <3>2. PICK v : v = Item(h[CallerItem].entry, TRUE, next, h[CallerItem].imp)
      OBVIOUS
    <3>3. v.entry = Top.dir /\ v.is_dir = TRUE
      BY <2>1, <2>7, <3>1, <3>2 DEF Item
    <3>4. truth'[Top.dir].ok # TRUE
      BY <2>3, <3>1
    <3>5. ItemLeft(Top.dir, truth', dirs', v)
      BY <2>3, <3>1, <3>3, <3>4 DEF ItemLeft
    <3> QED
      BY <3>2, <3>5
  <2>8. PICK heads2, sz2, lst2, rk2 :
            /\ Handled(heap', stack', free_items_head', heads2, sz2, cl, lst2, rk2)
            /\ Contents(stack', truth', dirs', heap', cl, lst2, rk2)
    BY <1>1, <1>2, <2>1, <2>3, <2>6, <2>7, EndedContents
  <2>9. Imported(heap, stack, free_items_head, truth, dirs)'
    BY <2>1, <2>4, <2>5, <2>8 DEF Imported
  <2> QED
    BY <1>1, <2>1, <2>4, <2>9 DEF TreeOK, Shown
<1> QED
  BY <1>1, <1>3, <1>4, FullStep DEF Shown

LEMMA LeaveKeeps ==
    ASSUME ImportInv, TreeOK, LeaveDir
    PROVE  TreeOK'
<1>1. PICK heads, sz, cl, lst, rk : Shown(heads, sz, cl, lst, rk)
  BY TreeShown
<1>2. phase = "import"
  BY DEF LeaveDir
<1>3. dirs \in Seq(DirType) /\ Now(heads, sz, cl, lst, rk) /\ Contents(stack, truth, dirs, heap, cl, lst, rk)
  BY <1>1 DEF Shown, Tables, OwnTables
<1>4. CASE Crash /\ Wild(lst)
  BY <1>2, <1>3, <1>4, WildFailed, CrashKeeps
<1>5. ASSUME NEW h1, NEW h, LeftAs(h1, h, cl, lst, rk) PROVE TreeOK'
  <2>1. /\ FirstSet(h1, Space.first)
        /\ TablesTo(h1, Len(stack), Top.count, lst, rk, Space.first, NewDirs, dirs')
        /\ BackAs(h1, cl, lst, rk, h) /\ FirstKnown /\ phase' # "crashed" /\ entry' = entry
        /\ Len(stack) > 1 => /\ h[CallerItem].entry = heap[CallerItem].entry
                             /\ h[CallerItem].imp = Imp(Space.first, 0, Len(NewDirs))
    BY <1>5 DEF LeftAs
  <2>2. Opened(stack, truth, Len(stack)) /\ Top.dir = stack[Len(stack)].dir
    BY <1>1, <1>2, LeftTrees
  <2>3. Ended(truth, Top.dir, truth') /\ (Top.dir # 0 => truth'[Top.dir].first = Space.first /\ truth'[Top.dir].size = 0)
    BY <1>2, <2>1, <2>2, EndedFirst
  <2>4. Tree(stack', truth') /\ Parents(truth') /\ SameDirs(stack, Len(stack) - 1, stack') /\ Len(truth') = Len(truth)
    BY <1>1, <1>2, <2>1, <2>3, EndedTree
  <2>5. NewFor(dirs, Top.dir, Space.first, NewDirs) /\ Len(NewDirs) = Len(dirs) + 1 /\ Len(dirs) \in Nat
    BY <1>2, <1>3, NewDirsFacts DEF NewFor
  <2>6. /\ Len(h1) = Len(heap)
        /\ \A j \in 1 .. Len(heap) : lst[j] # NoList => h1[j] = heap[j]
    BY <1>2, <1>3, <2>1, FirstSetKeeps
  <2>7. TablesMade(dirs, Top.dir, Space.first, heap, Len(stack), Top.count, lst, rk, dirs')
    <3>1. Len(stack) # NoList
      <4>1. Len(stack) \in Nat
        BY <2>2, OpenedFacts
      <4> QED
        BY <4>1 DEF NoList
    <3>2. \A j \in 1 .. Len(heap) : lst[j] = Len(stack) => h1[j] = heap[j]
      BY <2>6, <3>1
    <3> QED
      BY <2>1, <2>5, <2>6, <3>2, MadeTables
  <2>8. Tables(stack', truth', dirs')
    <3>1. /\ Marked(truth, stack[Len(stack)].dir, truth') /\ (Failed(truth) => Failed(truth'))
          /\ stack[Len(stack)].dir # 0 => truth'[stack[Len(stack)].dir] \in EntryType
      BY <2>2, <2>3 DEF Ended
    <3>2. Tables(stack, truth, dirs)
      BY <1>1 DEF Shown
    <3>3. IsListing(heap, Len(stack), Top.count, lst, rk)
      BY <1>2, <1>3, <2>2, ListingNow
    <3>4. TablesMade(dirs, stack[Len(stack)].dir, Space.first, heap, Len(stack), Top.count, lst, rk, dirs')
      BY <2>2, <2>7
    <3> QED
      BY <1>3, <2>2, <2>4, <3>1, <3>2, <3>3, <3>4, TablesLeave
  <2>9. /\ TablesKept(dirs, dirs') /\ Len(NewDirs) \in 1 .. Len(dirs') /\ dirs'[Len(NewDirs)].dir = Top.dir
    BY <2>5, <2>7 DEF TablesKept, TablesMade
  <2>10. ASSUME Len(stack) > 1
         PROVE  Len(h1) = Len(heap) /\ \A j \in 1 .. Len(heap) : j # CallerItem => h1[j] = heap[j]
    BY <2>1, <2>6, <2>10 DEF FirstSet, Put
  <2>11. ASSUME Len(stack) > 1, NEW next
         PROVE  ItemLeft(Top.dir, truth', dirs', Item(h[CallerItem].entry, TRUE, next, h[CallerItem].imp))
    <3>1. heap[CallerItem].entry = Top.dir /\ Top.dir # 0
      BY <1>1, <1>2, <2>11, CallerEntry
    <3>2. PICK m : m = Imp(Space.first, 0, Len(NewDirs))
      OBVIOUS
    <3>3. m.first = Space.first /\ m.size = 0 /\ m.dotdot = Len(NewDirs)
      BY <3>2 DEF Imp
    <3>4. PICK v : v = Item(h[CallerItem].entry, TRUE, next, h[CallerItem].imp)
      OBVIOUS
    <3>5. v.entry = Top.dir /\ v.is_dir = TRUE /\ v.imp = m
      BY <2>1, <2>11, <3>1, <3>2, <3>4 DEF Item
    <3>6. 0 % U32 = 0
      BY ImportAssumption
    <3>7. ItemLeft(Top.dir, truth', dirs', v)
      BY <2>3, <2>9, <3>1, <3>3, <3>5, <3>6 DEF ItemLeft, Unset
    <3> QED
      BY <3>4, <3>7
  <2>12. PICK heads2, sz2, lst2, rk2 :
            /\ Handled(heap', stack', free_items_head', heads2, sz2, cl, lst2, rk2)
            /\ Contents(stack', truth', dirs', heap', cl, lst2, rk2)
    BY <1>1, <1>2, <2>1, <2>3, <2>9, <2>10, <2>11, EndedContents
  <2>13. Imported(heap, stack, free_items_head, truth, dirs)'
    BY <2>1, <2>4, <2>8, <2>12 DEF Imported
  <2> QED
    BY <1>1, <2>1, <2>4, <2>13 DEF TreeOK, Shown
<1> QED
  BY <1>3, <1>4, <1>5, LeaveStep


-----------------------------------------------------------------------------
(* The theorems about the items and the tables. *)

ItemsInv == ImportInv /\ (freedTwice \/ TreeOK)

LEMMA FreedStays ==
    ASSUME freedTwice, [Next]_vars
    PROVE  freedTwice'
<1>1. CASE SkipEntry
  <2>1. freedTwice' = (freedTwice \/ Top.item # NULL)
    BY <1>1 DEF SkipEntry
  <2> QED
    BY <2>1, Zenon
<1>2. ASSUME NEW name \in Names, NEW is_other \in BOOLEAN, SkipItem(name, is_other) PROVE freedTwice'
  BY <1>2, Zenon DEF SkipItem
<1>3. ASSUME NEW name \in Names, NEW size \in Sizes, NEW stat_ok \in BOOLEAN, ImportFile(name, size, stat_ok) PROVE freedTwice'
  BY <1>3, Zenon DEF ImportFile
<1>4. ASSUME NEW name \in Names, EnterDir(name) PROVE freedTwice'
  BY <1>4, Zenon DEF EnterDir
<1>5. ASSUME NEW name \in Names, EnterDirFails(name) PROVE freedTwice'
  BY <1>5, Zenon DEF EnterDirFails
<1>6. CASE LeaveDir
  <2>1. freedTwice' = freedTwice
    BY <1>6 DEF LeaveDir, Crash
  <2> QED
    BY <2>1, Zenon
<1>7. CASE LeaveDirFull
  <2>1. freedTwice' = freedTwice
    BY <1>7 DEF LeaveDirFull, Crash
  <2> QED
    BY <2>1, Zenon
<1>8. ASSUME NEW name \in Names, OverrunHeap(name) PROVE freedTwice'
  BY <1>8, Zenon DEF OverrunHeap
<1>9. CASE UNCHANGED vars
  BY <1>9, Zenon DEF vars
<1> QED
  BY <1>1, <1>2, <1>3, <1>4, <1>5, <1>6, <1>7, <1>8, <1>9, Zenon DEF Next

LEMMA TreeStays ==
    ASSUME ImportInv, TreeOK, [Next]_vars
    PROVE  freedTwice' \/ TreeOK'
<1>1. CASE UNCHANGED vars
  <2>1. /\ fs' = fs /\ stack' = stack /\ entry' = entry /\ heap' = heap /\ free_items_head' = free_items_head
        /\ dirs' = dirs /\ truth' = truth /\ phase' = phase
    BY <1>1 DEF vars
  <2>2. Top' = Top /\ Space' = Space
    BY <2>1 DEF Top, Space
  <2>3. TreeOK'
    BY <2>1, <2>2 DEF TreeOK, Imported
  <2> QED
    BY <2>3
<1>2. ASSUME NEW name \in Names, NEW is_other \in BOOLEAN, SkipItem(name, is_other) PROVE TreeOK'
  BY <1>2, SkipItemKeeps
<1>3. ASSUME NEW name \in Names, NEW size \in Sizes, NEW stat_ok \in BOOLEAN, ImportFile(name, size, stat_ok) PROVE TreeOK'
  BY <1>3, ImportFileKeeps
<1>4. ASSUME NEW name \in Names, EnterDir(name) PROVE TreeOK'
  BY <1>4, EnterDirKeeps
<1>5. ASSUME NEW name \in Names, EnterDirFails(name) PROVE TreeOK'
  BY <1>5, EnterDirFailsKeeps
<1>6. ASSUME NEW name \in Names, OverrunHeap(name) PROVE TreeOK'
  <2>1. /\ stack' = stack /\ entry' = entry /\ heap' = heap /\ free_items_head' = free_items_head
        /\ dirs' = dirs /\ truth' = truth /\ phase' = "overwritten"
    BY <1>6 DEF OverrunHeap
  <2> QED
    BY <2>1 DEF TreeOK, Imported
<1> QED
  BY <1>1, <1>2, <1>3, <1>4, <1>5, <1>6, SkipEntryKeeps, LeaveKeeps, FullKeeps, Zenon DEF Next

LEMMA NextItems == ItemsInv /\ [Next]_vars => ItemsInv'
<1> SUFFICES ASSUME ItemsInv, [Next]_vars PROVE ItemsInv'
  OBVIOUS
<1>1. ImportInv /\ (freedTwice \/ TreeOK)
  BY Zenon DEF ItemsInv
<1>2. ImportInv'
  BY <1>1, NextImportInv
<1>3. freedTwice' \/ TreeOK'
  BY <1>1, FreedStays, TreeStays, Zenon
<1> QED
  BY <1>2, <1>3, Zenon DEF ItemsInv

LEMMA InitItems == Init => ItemsInv
<1> SUFFICES ASSUME Init PROVE ItemsInv
  OBVIOUS
<1> DEFINE g == [dir |-> 0, items |-> NULL, item |-> NULL, count |-> 0]
<1>1. ImportInv
  BY InitImportInv
<1>2. /\ stack = <<g>> /\ heap = <<>> /\ free_items_head = NULL /\ dirs = <<>> /\ truth = <<>> /\ entry = 0
      /\ phase = "import"
  BY DEF Init
<1>3. g.dir = 0 /\ g.items = NULL /\ g.count = 0
  OBVIOUS
<1> HIDE DEF g
<1>4. Len(stack) = 1 /\ stack[1] = g /\ stack # <<>> /\ stack[1].dir = 0 /\ stack[1].items = NULL /\ stack[1].count = 0
  BY <1>2, <1>3
<1>5. Len(heap) = 0 /\ Len(truth) = 0 /\ Len(dirs) = 0 /\ heap \in Seq(ItemType) /\ truth \in Seq(TruthType) /\ dirs \in Seq(DirType)
  BY <1>2
<1>6. 1 .. 0 = {} /\ 1 .. 1 - 1 = {} /\ 2 .. 1 = {} /\ 1 .. 1 = {1} /\ 0 .. 1 = {0, 1}
  OBVIOUS
<1>7. PICK heads, sz : heads = [k \in 0 .. 1 |-> NULL] /\ sz = [k \in 0 .. 1 |-> 0]
  OBVIOUS
<1>8. heads[0] = NULL /\ heads[1] = NULL /\ sz[0] = 0 /\ sz[1] = 0
  BY <1>6, <1>7
<1>9. Handled(heap, stack, free_items_head, heads, sz, heads, heads, sz)
  <2>1. \A k \in 0 .. 1 : IsHead(0, heads, sz, heads, sz, k)
    BY <1>6, <1>8 DEF IsHead
  <2>2. Shape(0, NextOf(heap), 1, heads, sz, heads, sz)
    BY <1>6, <2>1 DEF Shape
  <2>3. Lists(heap, 1, heads, sz, heads, heads, sz)
    BY <1>5, <1>6, <2>2 DEF Lists
  <2> QED
    BY <1>2, <1>4, <1>6, <1>8, <2>3 DEF Handled
<1>10. Contents(stack, truth, dirs, heap, heads, heads, sz)
  BY <1>4, <1>5, <1>6 DEF Contents, Sound, Complete, InOrder, Importing
<1>11. Tree(stack, truth)
  BY <1>4, <1>5, <1>6 DEF Tree
<1>12. Parents(truth)
  BY <1>5, <1>6 DEF Parents
<1>13. Tables(stack, truth, dirs)
  BY <1>5, <1>6 DEF Tables, OwnTables, AreTables, LeadUp
<1>14. TreeOK
  BY <1>2, <1>5, <1>9, <1>10, <1>11, <1>12, <1>13 DEF TreeOK, Imported
<1> QED
  BY <1>1, <1>14, Zenon DEF ItemsInv

\* Every state of the import, unless an item was freed twice: whatever the tree, and whatever fails.
LEMMA ItemsAlways == Spec => []ItemsInv
BY InitItems, NextItems, PTL DEF Spec

\* A failure in the tree.
LEMMA FailedIsSome ==
    ASSUME NEW tr \in Seq(TruthType), tr = truth
    PROVE  Failed(truth) <=> SomeFailed
<1>1. DOMAIN truth = 1 .. Len(truth) /\ \A e \in 1 .. Len(truth) : truth[e] \in TruthType
  OBVIOUS
<1>2. ASSUME NEW e \in 1 .. Len(truth)
      PROVE  (truth[e] \in EntryType /\ truth[e].ok = FALSE) <=> (Listable(e) /\ ~truth[e].ok)
  <2>1. truth[e].kind # "skipped" <=> truth[e] \in EntryType
    BY <1>1, TruthTypes
  <2>2. truth[e] \in EntryType => truth[e].ok \in BOOLEAN
    BY <1>1, TruthTypes
  <2> QED
    BY <2>1, <2>2, Zenon DEF Listable
<1> QED
  BY <1>1, <1>2, Zenon DEF Failed, SomeFailed

\* A failure in the directory that is left.
LEMMA FailedInIsChild ==
    ASSUME NEW tr \in Seq(TruthType), tr = truth
    PROVE  FailedIn(truth, Top.dir) => ChildFailed
<1>1. DOMAIN truth = 1 .. Len(truth) /\ \A e \in 1 .. Len(truth) : truth[e] \in TruthType
  OBVIOUS
<1>2. ASSUME NEW e \in 1 .. Len(truth), truth[e] \in EntryType, truth[e].ok = FALSE PROVE Listable(e) /\ ~truth[e].ok
  BY <1>1, <1>2, TruthTypes, Zenon DEF Listable
<1> QED
  BY <1>1, <1>2, Zenon DEF FailedIn, ChildFailed

\* A name that overruns the heap is a long one without a dot.
OverrunInv == phase = "overwritten" => \E name \in Names : ~name.dot /\ name.base > ItemSize

LEMMA LongName ==
    ASSUME NEW name \in Names, Overruns(name)
    PROVE  ~name.dot /\ name.base > ItemSize
<1>1. name.base \in Nat /\ name.ext \in Nat /\ name.dot \in BOOLEAN
  BY NamesAssumption
<1>2. /\ ~(name.dot /\ (name.base > 8 \/ name.ext > 3))
      /\ (IF name.dot THEN 8 + name.ext + 1 ELSE IF name.base > 11 THEN name.base ELSE 11) > 32
  BY DEF Overruns, convert_name, ItemSize
<1>3. CASE name.dot
  <2>1. ~(name.ext > 3) /\ 8 + name.ext + 1 > 32
    BY <1>2, <1>3, Zenon
  <2> QED
    BY <1>1, <2>1
<1>4. CASE ~name.dot
  <2>1. (IF name.base > 11 THEN name.base ELSE 11) > 32
    BY <1>2, <1>4, Zenon
  <2>2. name.base > 32
    BY <1>1, <2>1
  <2> QED
    BY <1>4, <2>2 DEF ItemSize
<1> QED
  BY <1>3, <1>4

LEMMA NextOverrun == OverrunInv /\ [Next]_vars => OverrunInv'
<1> SUFFICES ASSUME OverrunInv, [Next]_vars PROVE OverrunInv'
  OBVIOUS
<1>1. ASSUME NEW name \in Names, OverrunHeap(name) PROVE OverrunInv'
  BY <1>1, LongName DEF OverrunHeap, OverrunInv
<1>2. ASSUME phase = "import", NEW h, NEW ok, NEW first, Return(h, ok, first) PROVE phase' # "overwritten"
  <2>1. phase' = (IF ok THEN "done" ELSE "failed") \/ phase' = phase
    BY <1>2 DEF Return
  <2>2. CASE ok
    BY <1>2, <2>1, <2>2
  <2>3. CASE ~ok
    BY <1>2, <2>1, <2>3
  <2> QED
    BY <2>2, <2>3
<1>3. CASE LeaveDir
  <2>1. Crash \/ (phase = "import" /\ \E h, ok, first : Return(h, ok, first))
    BY <1>3 DEF LeaveDir
  <2> QED
    BY <1>2, <2>1 DEF OverrunInv, Crash
<1>4. CASE LeaveDirFull
  <2>1. Crash \/ (phase = "import" /\ \E h, ok, first : Return(h, ok, first))
    BY <1>4 DEF LeaveDirFull
  <2> QED
    BY <1>2, <2>1 DEF OverrunInv, Crash
<1>5. ASSUME phase' = phase PROVE OverrunInv'
  BY <1>5 DEF OverrunInv
<1>6. CASE SkipEntry
  BY <1>5, <1>6 DEF SkipEntry
<1>7. ASSUME NEW name \in Names, NEW is_other \in BOOLEAN, SkipItem(name, is_other) PROVE OverrunInv'
  BY <1>5, <1>7 DEF SkipItem
<1>8. ASSUME NEW name \in Names, NEW size \in Sizes, NEW stat_ok \in BOOLEAN, ImportFile(name, size, stat_ok)
      PROVE  OverrunInv'
  BY <1>5, <1>8 DEF ImportFile
<1>9. ASSUME NEW name \in Names, EnterDir(name) \/ EnterDirFails(name) PROVE OverrunInv'
  BY <1>5, <1>9 DEF EnterDir, EnterDirFails
<1>10. CASE UNCHANGED vars
  BY <1>5, <1>10 DEF vars
<1> QED
  BY <1>1, <1>3, <1>4, <1>6, <1>7, <1>8, <1>9, <1>10, Zenon DEF Next

\* The import_tree process follows a bad pointer only behind an item freed twice, in a directory one of whose children
\* could not be imported, or in an empty one without space (import_dir); and it overruns the heap only by a name
\* without a dot that is longer than struct item (convert_name).
THEOREM CrashesExplainedAlways == Spec => []CrashesExplained
<1>1. ItemsInv /\ OverrunInv => CrashesExplained
  <2> SUFFICES ASSUME ItemsInv, OverrunInv, phase = "crashed", ~freedTwice
               PROVE  ChildFailed \/ (Top.items = NULL /\ ~Space.ok)
    BY Zenon DEF CrashesExplained, OverrunInv
  <2>1. TreeOK
    BY Zenon DEF ItemsInv
  <2>2. FailedIn(truth, Top.dir) \/ (Top.items = NULL /\ ~Space.ok)
    BY <2>1 DEF TreeOK
  <2>3. truth \in Seq(TruthType)
    BY <2>1 DEF TreeOK, Imported, Tree
  <2> QED
    BY <2>2, <2>3, FailedInIsChild, Zenon
<1>2. Init => OverrunInv
  BY DEF Init, OverrunInv
<1> QED
  BY <1>1, <1>2, ItemsAlways, NextOverrun, PTL DEF Spec


\* The lists of a state, and their members.
LEMMA ListsNow ==
    ASSUME IsStack(stack), NEW heads, NEW sz, NEW cl, NEW lst, NEW rk, Now(heads, sz, cl, lst, rk)
    PROVE  /\ DOMAIN stack = 1 .. Len(stack) /\ Len(stack) \in Nat
           /\ heads[0] = free_items_head /\ \A k \in 1 .. Len(stack) : heads[k] = stack[k].items
           /\ \A k \in 0 .. Len(stack) : /\ Ends(heap, heads[k])
                                         /\ Members(heap, heads[k]) = {i \in 1 .. Len(heap) : lst[i] = k}
           /\ \A k \in 1 .. Len(stack) : Cardinality(Members(heap, heads[k])) = stack[k].count
           /\ \A k \in 1 .. Len(stack) - 1 : lst[stack[k].item] = NoList
<1>1. DOMAIN stack = 1 .. Len(stack) /\ Len(stack) \in Nat
  BY LenProperties DEF IsStack
<1>2. /\ Lists(heap, Len(stack), heads, sz, cl, lst, rk) /\ heads[0] = free_items_head
      /\ \A k \in 1 .. Len(stack) : heads[k] = stack[k].items /\ sz[k] = stack[k].count
      /\ \A k \in 1 .. Len(stack) - 1 : cl[k] = stack[k].item
  BY DEF Now, Handled
<1>3. heap \in Seq(ItemType) /\ Shape(Len(heap), NextOf(heap), Len(stack), heads, sz, lst, rk)
  BY <1>2 DEF Lists
<1>4. Links(heap, Len(heap), NextOf(heap))
  BY <1>3, HeapFacts
<1>5. ASSUME NEW k \in 0 .. Len(stack)
      PROVE  Ends(heap, heads[k]) /\ Members(heap, heads[k]) = {i \in 1 .. Len(heap) : lst[i] = k}
  BY <1>3, <1>4, WalkShape
<1>6. ASSUME NEW k \in 1 .. Len(stack) PROVE Cardinality(Members(heap, heads[k])) = stack[k].count
  <2>1. k \in 0 .. Len(stack)
    BY <1>1
  <2>2. Cardinality({i \in 1 .. Len(heap) : lst[i] = k}) = sz[k]
    BY <1>3, <2>1, ListCount
  <2> QED
    BY <1>2, <1>5, <2>1, <2>2
<1>7. \A k \in 1 .. Len(stack) - 1 : lst[stack[k].item] = NoList
  BY <1>2 DEF Lists
<1> QED
  BY <1>1, <1>2, <1>5, <1>6, <1>7

\* Unless an item was freed twice, no item is in two lists, the lists end and are as long as import_dir counted, and
\* the item a child is imported into is in none (alloc_item, free_item, free_items).
THEOREM ItemsApartAlways == Spec => []ItemsApart
<1>1. ItemsInv => ItemsApart
  <2> DEFINE lists == {<<0, free_items_head>>} \cup {<<i, stack[i].items>> : i \in DOMAIN stack}
  <2> SUFFICES ASSUME ItemsInv, ~freedTwice
               PROVE  /\ \A l \in lists : Ends(heap, l[2])
                      /\ \A l, m \in lists : l # m => Members(heap, l[2]) \cap Members(heap, m[2]) = {}
                      /\ \A i \in DOMAIN stack : Cardinality(Members(heap, stack[i].items)) = stack[i].count
                      /\ \A i \in 1 .. Len(stack) - 1, l \in lists : stack[i].item \notin Members(heap, l[2])
    BY Zenon DEF ItemsApart
  <2>1. IsStack(stack) /\ TreeOK
    BY Zenon DEF ItemsInv, ImportInv
  <2>2. PICK heads, sz, cl, lst, rk : Now(heads, sz, cl, lst, rk)
    BY <2>1, TreeShown DEF Shown
  <2>3. /\ DOMAIN stack = 1 .. Len(stack) /\ Len(stack) \in Nat
        /\ heads[0] = free_items_head /\ \A k \in 1 .. Len(stack) : heads[k] = stack[k].items
        /\ \A k \in 0 .. Len(stack) : /\ Ends(heap, heads[k])
                                      /\ Members(heap, heads[k]) = {i \in 1 .. Len(heap) : lst[i] = k}
        /\ \A k \in 1 .. Len(stack) : Cardinality(Members(heap, heads[k])) = stack[k].count
        /\ \A k \in 1 .. Len(stack) - 1 : lst[stack[k].item] = NoList
    BY <2>1, <2>2, ListsNow
  <2>4. ASSUME NEW l \in lists PROVE l[1] \in 0 .. Len(stack) /\ l = <<l[1], heads[l[1]]>> /\ l[2] = heads[l[1]]
    <3>1. CASE l = <<0, free_items_head>>
      BY <2>3, <3>1
    <3>2. ASSUME NEW i \in DOMAIN stack, l = <<i, stack[i].items>>
          PROVE  l[1] \in 0 .. Len(stack) /\ l = <<l[1], heads[l[1]]>> /\ l[2] = heads[l[1]]
      <4>1. i \in 1 .. Len(stack) /\ i \in 0 .. Len(stack) /\ heads[i] = stack[i].items
        BY <2>3
      <4> QED
        BY <3>2, <4>1
    <3> QED
      BY <3>1, <3>2
  <2> HIDE DEF lists
  <2>5. \A l \in lists : Ends(heap, l[2]) /\ Members(heap, l[2]) = {i \in 1 .. Len(heap) : lst[i] = l[1]}
    BY <2>3, <2>4
  <2>6. ASSUME NEW l \in lists, NEW m \in lists, l # m PROVE Members(heap, l[2]) \cap Members(heap, m[2]) = {}
    <3>1. l[1] # m[1]
      BY <2>4, <2>6
    <3> QED
      BY <2>5, <3>1
  <2>7. ASSUME NEW i \in 1 .. Len(stack) - 1, NEW l \in lists PROVE stack[i].item \notin Members(heap, l[2])
    <3>1. l[1] # NoList
      <4>1. PICK k \in 0 .. Len(stack) : k = l[1]
        BY <2>4
      <4> QED
        BY <2>3, <4>1 DEF NoList
    <3> QED
      BY <2>3, <2>5, <3>1
  <2>8. \A i \in DOMAIN stack : Cardinality(Members(heap, stack[i].items)) = stack[i].count
    BY <2>3
  <2> QED
    BY <2>5, <2>6, <2>7, <2>8
<1> QED
  BY <1>1, ItemsAlways, PTL

\* The rows of a table are as many as the entries.
IsOwn(tr, d, own) == \A e : e \in own <=> e \in 1 .. Len(tr) /\ tr[e] \in EntryType /\ tr[e].parent = d

LEMMA IntervalCount ==
    ASSUME NEW m \in Nat
    PROVE  IsFiniteSet(1 .. m) /\ Cardinality(1 .. m) = m
<1>1. IsFiniteSet(1 .. m) /\ Cardinality(1 .. m) = IF 1 > m THEN 0 ELSE m - 1 + 1
  BY FS_Interval
<1> QED
  BY <1>1

LEMMA RowsCount ==
    ASSUME NEW tr, NEW d, NEW rows, IsTable(tr, d, rows), Len(rows) \in Nat, Len(tr) \in Nat,
           NEW own, IsOwn(tr, d, own)
    PROVE  Cardinality(own) = Len(rows) /\ {rows[j].entry : j \in 1 .. Len(rows)} = own
<1> DEFINE f == [j \in 1 .. Len(rows) |-> rows[j].entry]
<1>1. \A j \in 1 .. Len(rows) : rows[j].entry \in own /\ rows[j].entry \in 1 .. Len(tr)
  BY DEF IsTable, IsRow, IsOwn
<1>2. \A e \in own : \E j \in 1 .. Len(rows) : rows[j].entry = e
  BY DEF IsTable, IsOwn
<1>3. ASSUME NEW i \in 1 .. Len(rows), NEW j \in 1 .. Len(rows), rows[i].entry = rows[j].entry PROVE i = j
  <2>1. \A k \in 1 .. Len(rows) : rows[k].entry \in Nat
    BY <1>1
  <2>2. ~(i < j) /\ ~(j < i)
    <3>1. rows[i].entry \in Nat /\ rows[j].entry \in Nat
      BY <2>1
    <3>2. ~(rows[i].entry < rows[j].entry) /\ ~(rows[j].entry < rows[i].entry)
      BY <1>3, <3>1
    <3> QED
      BY <3>2 DEF IsTable
  <2> QED
    BY <2>2
<1>4. f \in [1 .. Len(rows) -> own] /\ \A j \in 1 .. Len(rows) : f[j] = rows[j].entry
  BY <1>1
<1> HIDE DEF f
<1>5. f \in Bijection(1 .. Len(rows), own)
  BY <1>2, <1>3, <1>4 DEF Bijection, Injection, Surjection, IsInjective
<1>6. IsFiniteSet(1 .. Len(rows)) /\ Cardinality(1 .. Len(rows)) = Len(rows)
  BY IntervalCount
<1>7. Cardinality(own) = Cardinality(1 .. Len(rows))
  BY <1>5, <1>6, FS_Bijection DEF ExistsBijection
<1>8. {rows[j].entry : j \in 1 .. Len(rows)} = own
  BY <1>1, <1>2
<1> QED
  BY <1>6, <1>7, <1>8

\* What is known of a row.
LEMMA RowIsEntry ==
    ASSUME NEW tr, NEW d, NEW row \in RowType, IsRow(tr, d, row), tr[row.entry] \in TruthType
    PROVE  /\ row.is_dir <=> tr[row.entry].kind = "dir"
           /\ tr[row.entry].ok => row.first = tr[row.entry].first /\ row.size = tr[row.entry].size % U32
<1>1. PICK t : t = tr[row.entry]
  OBVIOUS
<1>2. /\ t \in EntryType
      /\ t.kind = "dir" => row.is_dir = TRUE
      /\ t.kind # "dir" => row.is_dir = FALSE
      /\ t.ok = TRUE => row.first = t.first /\ row.size = t.size % U32
  BY <1>1 DEF IsRow
<1>3. t.ok \in BOOLEAN /\ row.is_dir \in BOOLEAN
  BY <1>1, <1>2, TruthTypes DEF RowType
<1>4. row.is_dir <=> t.kind = "dir"
  BY <1>2, <1>3, Zenon
<1>5. t.ok => row.first = t.first /\ row.size = t.size % U32
  BY <1>2, <1>3, Zenon
<1> QED
  BY <1>1, <1>4, <1>5

\* A table, as TablesListEntries has it.
ListsOwn(own, rows) ==
    /\ Len(rows) = Cardinality(own) /\ {rows[j].entry : j \in DOMAIN rows} = own
    /\ \A j, k \in DOMAIN rows : j < k => rows[j].entry < rows[k].entry
    /\ \A j \in DOMAIN rows :
           /\ rows[j].is_dir <=> truth[rows[j].entry].kind = "dir"
           /\ truth[rows[j].entry].ok => /\ rows[j].first = truth[rows[j].entry].first
                                         /\ rows[j].size = truth[rows[j].entry].size % U32

\* Unless an item was freed twice, the tables that import_dir writes are the tree that was read, in its order, and
\* their ".." lead up if nothing failed.
THEOREM TablesAreTreeAlways == Spec => []TablesAreTree
<1>1. ItemsInv => TablesAreTree
  <2> SUFFICES ASSUME ItemsInv, ~freedTwice PROVE TablesListEntries /\ (SomeFailed \/ DotDotIsParent)
    BY Zenon DEF TablesAreTree
  <2>1. TreeOK
    BY Zenon DEF ItemsInv
  <2>2. Tables(stack, truth, dirs) /\ truth \in Seq(TruthType)
    BY <2>1 DEF TreeOK, Imported, Tree
  <2>3. /\ dirs \in Seq(DirType) /\ DOMAIN dirs = 1 .. Len(dirs)
        /\ DOMAIN truth = 1 .. Len(truth) /\ Len(truth) \in Nat
    BY <2>2 DEF Tables, OwnTables
  <2>4. ASSUME NEW d \in 1 .. Len(dirs)
        PROVE  /\ dirs[d].rows \in Seq(RowType) /\ DOMAIN dirs[d].rows = 1 .. Len(dirs[d].rows) /\ Len(dirs[d].rows) \in Nat
               /\ IsTable(truth, dirs[d].dir, dirs[d].rows)
    <3>1. dirs[d] \in DirType
      BY <2>3
    <3>2. dirs[d].rows \in Seq(RowType)
      BY <3>1 DEF DirType
    <3>3. IsTable(truth, dirs[d].dir, dirs[d].rows)
      BY <2>2 DEF Tables, AreTables
    <3> QED
      BY <3>2, <3>3
  <2>5. TablesListEntries
    <3> DEFINE Own(d) == {e \in DOMAIN truth : Listable(e) /\ truth[e].parent = dirs[d].dir}
    <3>1. SUFFICES ASSUME NEW d \in 1 .. Len(dirs) PROVE ListsOwn(Own(d), dirs[d].rows)
      BY <2>3, Zenon DEF TablesListEntries, ListsOwn
    <3>0. PICK own, rows : own = Own(d) /\ rows = dirs[d].rows
      OBVIOUS
    <3>2. /\ rows \in Seq(RowType) /\ DOMAIN rows = 1 .. Len(rows) /\ Len(rows) \in Nat
          /\ IsTable(truth, dirs[d].dir, rows)
      BY <2>4, <3>0
    <3>3. IsOwn(truth, dirs[d].dir, own)
      <4>1. \A e \in 1 .. Len(truth) : Listable(e) <=> truth[e] \in EntryType
        BY <2>2, TruthTypes DEF Listable
      <4> QED
        BY <2>3, <3>0, <4>1 DEF IsOwn
    <3> HIDE DEF Own
    <3>4. Cardinality(own) = Len(rows) /\ {rows[j].entry : j \in 1 .. Len(rows)} = own
      BY <2>3, <3>2, <3>3, RowsCount
    <3>5. \A j, k \in 1 .. Len(rows) : j < k => rows[j].entry < rows[k].entry
      BY <3>2 DEF IsTable
    <3>6. ASSUME NEW j \in 1 .. Len(rows)
          PROVE  /\ rows[j].is_dir <=> truth[rows[j].entry].kind = "dir"
                 /\ truth[rows[j].entry].ok => /\ rows[j].first = truth[rows[j].entry].first
                                               /\ rows[j].size = truth[rows[j].entry].size % U32
      <4>1. IsRow(truth, dirs[d].dir, rows[j]) /\ rows[j] \in RowType
        BY <3>2 DEF IsTable
      <4>2. truth[rows[j].entry] \in TruthType
        BY <2>2, <4>1 DEF IsRow
      <4> QED
        BY <4>1, <4>2, RowIsEntry
    <3>7. ListsOwn(own, rows)
      BY <3>2, <3>4, <3>5, <3>6, Zenon DEF ListsOwn
    <3> QED
      BY <3>0, <3>7
  <2>6. LeadUp(dirs) => DotDotIsParent
    BY <2>3, <2>4 DEF LeadUp, DotDotIsParent
  <2>7. Failed(truth) \/ LeadUp(dirs)
    BY <2>2 DEF Tables
  <2> QED
    BY <2>2, <2>5, <2>6, <2>7, FailedIsSome, Zenon
<1> QED
  BY <1>1, ItemsAlways, PTL
=============================================================================
