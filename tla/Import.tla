------------------------------ MODULE Import ------------------------------
(***************************************************************************)
(* The import of a directory tree: import_dir reads a directory entry by   *)
(* entry, recursively, and collects what it imports in a list of items.    *)
(* Items are linked by a pointer and recycled through a list of free ones, *)
(* which all levels share; both lists are modelled with their pointers.    *)
(* What readdir and stat return is up to the environment.                  *)
(***************************************************************************)
EXTENDS FatFs

CONSTANTS MaxEntries,   \* entries of all directories together
          MaxDepth,     \* directories being read at a time
          Sizes,        \* sizes of files, in units
          U32,          \* the modulus of uint32_t, in units
          Names         \* shapes of the names: characters in front of the dot, the dot, and behind it

ASSUME ImportAssumption == {MaxEntries, MaxDepth, U32} \subseteq Nat \ {0} /\ Sizes \subseteq Nat
ASSUME NamesAssumption == Names \subseteq [base : Nat, dot : BOOLEAN, ext : Nat]

NULL == 0
Unset == -1          \* what malloc returns has any content
DotDotUnset == -2    \* (cluster_t)-1, the cluster of a ".." until it is set

VARIABLES
    phase,      \* "import", or how it ended
    fs,
    stack,      \* the import_dirs that run, the innermost last
    entry,      \* number of entries read; it names the next one
    heap,       \* the items allocated so far
    free_items_head,
    dirs,       \* the tables of the directories imported
    truth,      \* what the entries are in the tree: their parent, cluster and size (not in the code)
    freedTwice  \* an item was freed that had been freed (not in the code)

vars == <<phase, fs, stack, entry, heap, free_items_head, dirs, truth, freedTwice>>

-----------------------------------------------------------------------------
(* Names: whether the name is refused, and how many bytes of short_name are written.  Without a
   dot the test of the length compares a pointer difference to NULL and never fails. *)
convert_name(name) ==
    [refused |-> name.dot /\ (name.base > 8 \/ name.ext > 3),
     written |-> IF name.dot THEN 8 + name.ext + 1 ELSE IF name.base > 11 THEN name.base ELSE 11]

(* sizeof(struct item): 12 bytes for name, which has 11, 12 for imp, and next and is_dir. *)
ItemSize == 32
Overruns(name) == ~convert_name(name).refused /\ convert_name(name).written > ItemSize

(* A heap with its list of free items. *)
NoImport == [first |-> Unset, size |-> Unset, dotdot |-> Unset]
\* Mutant: an item taken from the list of free ones stays in it.
alloc_itemKept(h, head) ==
    IF head # NULL THEN [heap |-> h, head |-> head, item |-> head]
    ELSE [heap |-> Append(h, [entry |-> 0, is_dir |-> FALSE, next |-> Unset, imp |-> NoImport]),
          head |-> NULL, item |-> Len(h) + 1]

alloc_item(h, head) ==
    IF head # NULL THEN [heap |-> h, head |-> h[head].next, item |-> head]
    ELSE [heap |-> Append(h, [entry |-> 0, is_dir |-> FALSE, next |-> Unset,
                              imp |-> NoImport]),
          head |-> NULL, item |-> Len(h) + 1]

(* A name that is converted is written into the item, and over imp if it is too long, and over
   next and is_dir, which are set behind it. *)
Named(h, item, name, e) ==
    [h EXCEPT ![item].entry = IF convert_name(name).refused THEN @ ELSE e,
              ![item].imp = IF convert_name(name).refused \/ convert_name(name).written <= 12 THEN @ ELSE NoImport]

free_item(h, head, item) == [heap |-> [h EXCEPT ![item].next = head], head |-> item]

(* The items reached from one, as often as there are items. *)
Reached(h, head) ==
    LET at[i \in 0 .. Len(h)] == IF i = 0 THEN head ELSE IF at[i - 1] <= 0 THEN NULL ELSE h[at[i - 1]].next
    IN at
Ends(h, head) == Reached(h, head)[Len(h)] <= 0
Members(h, head) == {Reached(h, head)[i] : i \in 0 .. Len(h)} \ {NULL, Unset}

Top == stack[Len(stack)]
SetTop(frame) == [stack EXCEPT ![Len(stack)] = frame]

\* Mutant: the items are not counted.
ListedUncounted(h, frame, item) ==
    [heap |-> [h EXCEPT ![item].next = frame.items], frame |-> [frame EXCEPT !.items = item, !.item = NULL]]

(* The end of a turn of the loop: the item is put in front of the list. *)
Listed(h, frame, item) ==
    [heap |-> [h EXCEPT ![item].next = frame.items],
     frame |-> [frame EXCEPT !.items = item, !.count = @ + 1, !.item = NULL]]

-----------------------------------------------------------------------------
Init ==
    /\ phase = "import"
    /\ fs = fs_init
    /\ stack = <<[dir |-> 0, items |-> NULL, item |-> NULL, count |-> 0]>>
    /\ entry = 0
    /\ heap = <<>>
    /\ free_items_head = NULL
    /\ dirs = <<>>
    /\ truth = <<>>
    /\ freedTwice = FALSE

Reading == phase = "import" /\ entry < MaxEntries

(* An entry whose name starts with a dot, or whose path is too long: the item of the last entry is
   freed, although only an entry that was skipped has left one, and has freed it. *)
SkipEntry ==
    /\ Reading
    /\ entry' = entry + 1
    /\ truth' = Append(truth, [parent |-> Top.dir, kind |-> "skipped"])
    /\ freedTwice' = (freedTwice \/ Top.item # NULL)
    /\ IF Top.item = NULL
       THEN UNCHANGED <<heap, free_items_head>>
       ELSE LET freed == free_item(heap, free_items_head, Top.item)
            IN heap' = freed.heap /\ free_items_head' = freed.head
    /\ UNCHANGED <<phase, fs, stack, dirs>>

\* Mutant: an entry is counted before it is looked at.
SkipItemCounted(name, is_other) ==
    /\ Reading
    /\ convert_name(name).refused \/ is_other
    /\ ~Overruns(name)
    /\ LET got == alloc_item(heap, free_items_head)
           freed == free_item(Named(got.heap, got.item, name, entry + 1), got.head, got.item)
       IN /\ heap' = freed.heap
          /\ free_items_head' = freed.head
          /\ stack' = SetTop([Top EXCEPT !.item = got.item, !.count = @ + 1])
    /\ entry' = entry + 1
    /\ truth' = Append(truth, [parent |-> Top.dir, kind |-> "skipped"])
    /\ UNCHANGED <<phase, fs, dirs, freedTwice>>

(* An entry that has got its item when it is skipped: its name cannot be converted, or it is
   neither a file nor a directory.  The item is freed and stays in the variable. *)
SkipItem(name, is_other) ==
    /\ Reading
    /\ convert_name(name).refused \/ is_other
    /\ ~Overruns(name)
    /\ LET got == alloc_item(heap, free_items_head)
           freed == free_item(Named(got.heap, got.item, name, entry + 1), got.head, got.item)
       IN /\ heap' = freed.heap
          /\ free_items_head' = freed.head
          /\ stack' = SetTop([Top EXCEPT !.item = got.item])
    /\ entry' = entry + 1
    /\ truth' = Append(truth, [parent |-> Top.dir, kind |-> "skipped"])
    /\ UNCHANGED <<phase, fs, dirs, freedTwice>>

(* import_file: the result of fs_alloc_extent, unless stat fails. *)
import_file(size, stat_ok, e) ==
    IF stat_ok THEN fs_alloc_extent(fs, e, size % U32, "FILE") ELSE [ok |-> FALSE, fs |-> fs, first |-> 0]

(* A file.  The caller ignores the result: an import that failed leaves imp as it was. *)
ImportFile(name, size, stat_ok) ==
    /\ Reading
    /\ ~convert_name(name).refused /\ ~Overruns(name)
    /\ LET e == entry + 1
           got == alloc_item(heap, free_items_head)
           file == import_file(size, stat_ok, e)
           h == [Named(got.heap, got.item, name, e) EXCEPT
                    ![got.item].is_dir = FALSE,
                    ![got.item].imp = IF file.ok THEN [first |-> file.first, size |-> size % U32, dotdot |-> NULL]
                                      ELSE @]
           listed == Listed(h, Top, got.item)
       IN /\ heap' = listed.heap
          /\ free_items_head' = got.head
          /\ stack' = SetTop(listed.frame)
          /\ fs' = file.fs
          /\ truth' = Append(truth, [parent |-> Top.dir, kind |-> "file", first |-> file.first, size |-> size,
                                     ok |-> file.ok])
    /\ entry' = entry + 1
    /\ UNCHANGED <<phase, dirs, freedTwice>>

(* A directory that opendir opens: import_dir is called, with the item in the caller's variable. *)
EnterDir(name) ==
    /\ Reading
    /\ ~convert_name(name).refused /\ ~Overruns(name)
    /\ Len(stack) < MaxDepth
    /\ LET got == alloc_item(heap, free_items_head)
       IN /\ heap' = Named(got.heap, got.item, name, entry + 1)
          /\ free_items_head' = got.head
          /\ stack' = Append(SetTop([Top EXCEPT !.item = got.item]),
                             [dir |-> entry + 1, items |-> NULL, item |-> NULL, count |-> 0])
    /\ entry' = entry + 1
    /\ truth' = Append(truth, [parent |-> Top.dir, kind |-> "dir", first |-> 0, size |-> 0, ok |-> TRUE])
    /\ UNCHANGED <<phase, fs, dirs, freedTwice>>

(* A directory that cannot be opened. *)
EnterDirFails(name) ==
    /\ Reading
    /\ ~convert_name(name).refused /\ ~Overruns(name)
    /\ LET got == alloc_item(heap, free_items_head)
           h == [Named(got.heap, got.item, name, entry + 1) EXCEPT ![got.item].is_dir = TRUE]
           listed == Listed(h, Top, got.item)
       IN /\ heap' = listed.heap
          /\ free_items_head' = got.head
          /\ stack' = SetTop(listed.frame)
    /\ entry' = entry + 1
    /\ truth' = Append(truth, [parent |-> Top.dir, kind |-> "dir", first |-> 0, size |-> 0, ok |-> FALSE])
    /\ UNCHANGED <<phase, fs, dirs, freedTwice>>

(* A name longer than an item is written over what is behind it in the heap, and no more is said of
   the process. *)
OverrunHeap(name) ==
    /\ Reading
    /\ Overruns(name)
    /\ phase' = "overwritten"
    /\ UNCHANGED <<fs, stack, entry, heap, free_items_head, dirs, truth, freedTwice>>

-----------------------------------------------------------------------------
(* What the table of a directory has of an item. *)
Row(it) == [entry |-> it.entry, is_dir |-> it.is_dir, first |-> it.imp.first, size |-> it.imp.size]

(* A turn of the loop that turns the items into the table.  The ".." of a child that is a directory
   gets the cluster of this one; a pointer that was never set, or a list that is too short, ends
   the process. *)
Turn(s, my_first_cluster) ==
    IF s.crashed \/ s.items <= 0 THEN [s EXCEPT !.crashed = TRUE]
    ELSE LET it == s.heap[s.items]
             freed == free_item(s.heap, s.head, s.items)
             ds == IF it.imp.dotdot \in DOMAIN s.dirs
                   THEN [s.dirs EXCEPT ![it.imp.dotdot].dotdot = my_first_cluster] ELSE s.dirs
         IN [heap |-> freed.heap, head |-> freed.head, items |-> it.next, rows |-> <<Row(it)>> \o s.rows,
             dirs |-> ds, wild |-> s.wild \/ it.imp.dotdot = Unset, crashed |-> FALSE]

(* The loop has one turn for each item counted. *)
TableLoop(h0, head0, frame, ds0, my_first_cluster) ==
    LET Loop[i \in 0 .. frame.count] ==
            IF i = 0 THEN [heap |-> h0, head |-> head0, items |-> frame.items, rows |-> <<>>, dirs |-> ds0,
                           wild |-> FALSE, crashed |-> FALSE]
            ELSE Turn(Loop[i - 1], my_first_cluster)
    IN Loop[frame.count]

(* The directories are counted; dot_dot_dirent points to the table with that number. *)
Caller == IF Len(stack) > 1 THEN stack[Len(stack) - 1].item ELSE NULL
Space == fs_alloc_extent(fs, Top.dir, Top.count + 2, "DIR")

(* Back in the caller: its item is listed; import_tree ends the import. *)
Return(h, ok, first) ==
    IF Len(stack) = 1
    THEN /\ phase' = IF ok THEN "done" ELSE "failed"
         /\ fs' = IF ok THEN fs_update_free_clusters(fs_set_rootdir_start(Space.fs, first)) ELSE fs
         /\ heap' = h
         /\ stack' = <<>>
    ELSE LET listed == Listed([h EXCEPT ![Caller].is_dir = TRUE], stack[Len(stack) - 1], Caller)
         IN /\ heap' = listed.heap
            /\ stack' = [SubSeq(stack, 1, Len(stack) - 1) EXCEPT ![Len(stack) - 1] = listed.frame]
            /\ fs' = IF ok THEN Space.fs ELSE fs
            /\ UNCHANGED phase

Crash ==
    /\ phase' = "crashed"
    /\ UNCHANGED <<fs, stack, entry, heap, free_items_head, dirs, truth, freedTwice>>

(* The end of a directory for which there is space. *)
LeaveDir ==
    /\ phase = "import"
    /\ Space.ok
    /\ LET first == Space.first
           h == IF Caller = NULL THEN heap ELSE [heap EXCEPT ![Caller].imp.first = first]
           ds == Append(dirs, [dir |-> Top.dir, self |-> first, dotdot |-> DotDotUnset, rows |-> <<>>])
           loop == TableLoop(h, free_items_head, Top, ds, first)
           h2 == IF Caller = NULL THEN loop.heap
                 ELSE [loop.heap EXCEPT ![Caller].imp = [first |-> @.first, size |-> 0, dotdot |-> Len(ds)]]
       IN \/ /\ loop.crashed \/ loop.wild
             /\ Crash
          \/ /\ ~loop.crashed
             /\ free_items_head' = loop.head
             /\ dirs' = [loop.dirs EXCEPT ![Len(ds)].rows = loop.rows]
             /\ truth' = IF Top.dir = 0 THEN truth ELSE [truth EXCEPT ![Top.dir].first = first]
             /\ Return(h2, TRUE, first)
             /\ UNCHANGED <<entry, freedTwice>>

(* The end of a directory for which there is none: the items are freed.  The list may not be
   empty: its end is looked for behind its first item. *)
LeaveDirFull ==
    /\ phase = "import"
    /\ ~Space.ok
    /\ IF Top.items = NULL \/ ~Ends(heap, Top.items)
       THEN Crash
       ELSE LET tail == CHOOSE i \in Members(heap, Top.items) : heap[i].next <= 0
            IN /\ free_items_head' = Top.items
               /\ truth' = IF Top.dir = 0 THEN truth ELSE [truth EXCEPT ![Top.dir].ok = FALSE]
               /\ Return([heap EXCEPT ![tail].next = free_items_head], FALSE, 0)
               /\ UNCHANGED <<entry, dirs, freedTwice>>

Next ==
    \/ SkipEntry
    \/ \E name \in Names :
          \/ \E is_other \in BOOLEAN : SkipItem(name, is_other)
          \/ \E size \in Sizes, stat_ok \in BOOLEAN : ImportFile(name, size, stat_ok)
          \/ EnterDir(name)
          \/ EnterDirFails(name)
          \/ OverrunHeap(name)
    \/ LeaveDir
    \/ LeaveDirFull

Spec == Init /\ [][Next]_vars

-----------------------------------------------------------------------------
Listable(e) == truth[e].kind # "skipped"
SomeFailed == \E e \in DOMAIN truth : Listable(e) /\ ~truth[e].ok

(* Every variable stays in its type. *)
TypeOK ==
    /\ phase \in {"import", "done", "failed", "crashed", "overwritten"}
    /\ fs.next_cluster \in FAT_CLUSTER_ZERO .. fs.num_clusters
    /\ \A i \in DOMAIN stack : {stack[i].items, stack[i].item} \subseteq 0 .. Len(heap)
    /\ \A i \in DOMAIN heap : heap[i].next \in -1 .. Len(heap) /\ heap[i].imp.dotdot \in -1 .. Len(dirs)
    /\ free_items_head \in 0 .. Len(heap)
    /\ entry = Len(truth) /\ entry <= MaxEntries

(* The extents that import_file and import_dir get are on the device and apart, also when imports
   fail in between and the filesystem runs full.  At any time the FAT chains the clusters of the
   extents and nothing else, and at the end the info sector has the number of the others. *)
ClustersAccounted ==
    /\ ExtentsApartIn(fs)
    /\ ChainsAreExtents(fs)
    /\ phase = "done" =>
          fs.free_clusters = Cardinality({c \in FAT_CLUSTER_ZERO .. fs.num_clusters - 1 : fs.fat[c] = FAT_ENTRY_FREE})

(* Unless an item was freed twice, the lists of free items and of the items of each directory being
   read end and share no item, and the item a child is imported into is in none of them. *)
ItemsApart ==
    freedTwice \/ phase = "crashed" \/
        LET lists == {<<0, free_items_head>>} \cup {<<i, stack[i].items>> : i \in DOMAIN stack}
        IN /\ \A l \in lists : Ends(heap, l[2])
           /\ \A l, m \in lists : l # m => Members(heap, l[2]) \cap Members(heap, m[2]) = {}
           /\ \A i \in DOMAIN stack : Cardinality(Members(heap, stack[i].items)) = stack[i].count
           /\ \A i \in 1 .. Len(stack) - 1, l \in lists : stack[i].item \notin Members(heap, l[2])

(* A table lists the entries that were read from its directory, in their order, and each one that
   could be imported with its own cluster and its size, which is one modulo 2^32. *)
TablesListEntries ==
        \A i \in DOMAIN dirs :
            LET own == {e \in DOMAIN truth : Listable(e) /\ truth[e].parent = dirs[i].dir}
                rows == dirs[i].rows
            IN /\ Len(rows) = Cardinality(own) /\ {rows[j].entry : j \in DOMAIN rows} = own
               /\ \A j, k \in DOMAIN rows : j < k => rows[j].entry < rows[k].entry
               /\ \A j \in DOMAIN rows :
                      LET t == truth[rows[j].entry]
                      IN /\ rows[j].is_dir <=> t.kind = "dir"
                         /\ t.ok => rows[j].first = t.first /\ rows[j].size = t.size % U32

(* The ".." of a directory leads to the directory that lists it. *)
DotDotIsParent ==
        \A i, j \in DOMAIN dirs :
            \A k \in DOMAIN dirs[i].rows : dirs[i].rows[k].entry = dirs[j].dir => dirs[j].dotdot = dirs[i].self

(* Unless an item was freed twice, the tables of the directories are the tree that was read; only
   if an import failed the item listed for it may still point to the ".." of another directory. *)
TablesAreTree == freedTwice \/ (TablesListEntries /\ (SomeFailed \/ DotDotIsParent))

(* A child of the directory being left could not be imported. *)
ChildFailed == \E e \in DOMAIN truth : Listable(e) /\ truth[e].parent = Top.dir /\ ~truth[e].ok

(* The import follows a bad pointer only behind an item freed twice, in a directory with a child
   that could not be imported, or in an empty one for which there is no space, whose list of items
   is searched for its end; and it writes into the heap only a name without a dot that is longer
   than an item. *)
CrashesExplained ==
    /\ phase = "crashed" => freedTwice \/ ChildFailed \/ (Top.items = NULL /\ ~Space.ok)
    /\ phase = "overwritten" => \E name \in Names : ~name.dot /\ name.base > ItemSize
=============================================================================
