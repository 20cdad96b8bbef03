------------------------------- MODULE FdPool -------------------------------
(***************************************************************************)
(* The pool of open descriptors of fatblock: a ring of the files that have *)
(* one, linked by pointers inside the files' own structures.               *)
(***************************************************************************)
EXTENDS Integers, Sequences, FiniteSets

CONSTANTS Files,
          fdpool_head,   \* the node the ring starts and ends at
          Nowhere,       \* a null pointer
          FDPOOL_SIZE

ASSUME PoolAssumption ==
    FDPOOL_SIZE \in Nat \ {0} /\ fdpool_head \notin Files /\ Nowhere \notin Files \cup {fdpool_head}

VARIABLES
    pool,      \* the pointers, the descriptor of each file and the count
    fdtable,   \* the inodes that descriptors of the process are open for
    used       \* the file whose descriptor was asked for last (not in the code)

INVALID_FD == -1
Nodes == Files \cup {fdpool_head}

PoolInit ==
    /\ pool = [next |-> [n \in Nodes |-> IF n = fdpool_head THEN fdpool_head ELSE Nowhere],
               prev |-> [n \in Nodes |-> IF n = fdpool_head THEN fdpool_head ELSE Nowhere],
               fd |-> [f \in Files |-> INVALID_FD],
               count |-> 0]
    /\ fdtable = [d \in {} |-> 0]
    /\ used = Nowhere

fdpool_insert_head(p, node) ==
    LET next == p.next[fdpool_head]
    IN [next |-> [p.next EXCEPT ![fdpool_head] = node, ![node] = next],
        prev |-> [p.prev EXCEPT ![node] = fdpool_head, ![next] = node],
        fd |-> p.fd, count |-> p.count + 1]

fdpool_remove(p, node) ==
    [next |-> [p.next EXCEPT ![p.prev[node]] = p.next[node]],
     prev |-> [p.prev EXCEPT ![p.next[node]] = p.prev[node]],
     fd |-> p.fd, count |-> p.count - 1]

fdpool_clear(p, node) ==
    [next |-> [p.next EXCEPT ![node] = Nowhere],
     prev |-> [p.prev EXCEPT ![node] = Nowhere],
     fd |-> [p.fd EXCEPT ![node] = INVALID_FD], count |-> p.count]

Close(t, d) == [e \in DOMAIN t \ {d} |-> t[e]]
fdpool_unpool(s, node) == [p |-> fdpool_clear(s.p, node), t |-> Close(s.t, s.p.fd[node])]

fdpool_evict(s) ==
    LET tail == s.p.prev[fdpool_head]
    IN fdpool_unpool([p |-> fdpool_remove(s.p, tail), t |-> s.t], tail)

fdpool_pool(s, node, d) ==
    LET room == IF s.p.count >= FDPOOL_SIZE THEN fdpool_evict(s) ELSE s
        linked == fdpool_insert_head(room.p, node)
    IN [p |-> [linked EXCEPT !.fd = [@ EXCEPT ![node] = d]], t |-> room.t]

\* Mutant: a file that is used again keeps its place.
fdpool_touchNothing(p, node) == p
fdpool_touch(p, node) == fdpool_insert_head(fdpool_remove(p, node), node)

(* The kernel's open returns the lowest number that is free. *)
NewFd(t) == CHOOSE d \in 0 .. Cardinality(DOMAIN t) : d \notin DOMAIN t /\ \A e \in 0 .. d - 1 : e \in DOMAIN t

(* The file's descriptor, from the pool or for the inode its path leads to now (0: there is none). *)
fdpool_open(node, inode) ==
    LET d == NewFd(fdtable)
        opened == [e \in DOMAIN fdtable \cup {d} |-> IF e = d THEN inode ELSE fdtable[e]]
    IN IF pool.fd[node] # INVALID_FD
       THEN [fd |-> pool.fd[node], s |-> [p |-> fdpool_touch(pool, node), t |-> fdtable]]
       ELSE IF inode = 0 THEN [fd |-> INVALID_FD, s |-> [p |-> pool, t |-> fdtable]]
       ELSE [fd |-> d, s |-> fdpool_pool([p |-> pool, t |-> opened], node, d)]

-----------------------------------------------------------------------------
(* The files of the ring, from the head on until the walk is back at it. *)
Ring ==
    LET at[i \in 1 .. Cardinality(Nodes)] ==
            IF i = 1 THEN pool.next[fdpool_head]
            ELSE IF at[i - 1] \in Files THEN pool.next[at[i - 1]] ELSE fdpool_head
        length == CHOOSE i \in 0 .. Cardinality(Files) : at[i + 1] \notin Files /\ (i > 0 => at[i] \in Files)
    IN [i \in 1 .. length |-> at[i]]

Lru == INSTANCE LruPool WITH lru <- Ring, Pooled <- Files, Capacity <- FDPOOL_SIZE

(* The ring is closed in both directions, the count is its length, and the files in it have the
   descriptors that are open, each its own: none is closed twice and none is left open. *)
RingSound ==
    /\ \A n \in {fdpool_head} \cup {Ring[i] : i \in DOMAIN Ring} :
          pool.next[pool.prev[n]] = n /\ pool.prev[pool.next[n]] = n
    /\ pool.count = Len(Ring) /\ pool.count <= FDPOOL_SIZE
    /\ {f \in Files : pool.fd[f] # INVALID_FD} = {Ring[i] : i \in DOMAIN Ring}
    /\ {pool.fd[Ring[i]] : i \in DOMAIN Ring} = DOMAIN fdtable
    /\ \A f, g \in Files : pool.fd[f] = pool.fd[g] /\ f # g => pool.fd[f] = INVALID_FD

(* The ring keeps the descriptors of the files used last and closes the others: it is sound at any
   time and implements a least recently used pool. *)
PoolIsLru == Lru!Spec /\ []RingSound
=============================================================================
