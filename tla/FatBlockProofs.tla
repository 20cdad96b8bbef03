--------------------------- MODULE FatBlockProofs ---------------------------
(***************************************************************************)
(* Proofs about the fatblock process: what every way out of it leaves      *)
(* behind, that the pool of descriptors implements LruPool, and what a     *)
(* read serves.                                                            *)
(***************************************************************************)
EXTENDS FatBlock, FatFsProofs

Places == {"first", "ready", "created", "naming", "run", "leaving", "destroyed", "initFailed", "exited",
           "aborted", "overwritten"}

-----------------------------------------------------------------------------
(* A request is only handled in one of the loops, or as the first one. *)
Handled ==
    /\ req = None => out = Unanswered
    /\ req # None => place \in {"first", "ready", "run"}

MainTypes ==
    /\ place \in Places
    /\ destroyed \in Nat
    /\ ubSet \in BOOLEAN /\ ums \in BOOLEAN

(* What has been set and not yet cleaned up, by the place in main. *)
Owned ==
    /\ interrupted # "no" => place \in {"exited", "aborted"}
    /\ place \notin {"destroyed", "exited"} => destroyed = 0
    /\ place = "destroyed" => destroyed = 1 /\ ubSet
    /\ place \in {"naming", "run", "leaving"} => ubSet
    /\ ums => place \in {"run", "leaving", "exited", "aborted", "overwritten"}

CleanupInv == Handled /\ MainTypes /\ Owned /\ CleanedUp

(* Where a loop, or the first request, may lead. *)
Leads(from, to) ==
    CASE from = "first" -> to \in {"initFailed", "ready", "aborted"}
      [] from = "ready" -> to \in {"ready", "created", "aborted"}
      [] from = "run" -> to \in {"run", "leaving", "aborted"}
      [] OTHER -> FALSE

(* The result of a request decides whether its loop goes on (ublock_loop, ublock_init). *)
LEMMA ContinueLeads ==
    ASSUME NEW u, NEW result, place \in {"first", "ready", "run"}
    PROVE  Leads(place, Continue(u, result).place)
  BY DEF Leads, Continue, AfterFirst

(* An answer leads to one of the same places, and the request is over (ublock_do_request). *)
LEMMA ReplyLeads ==
    ASSUME NEW wrote, Reply(wrote), Handled
    PROVE  Leads(place, place') /\ req' = None /\ out' = Unanswered
<1>1. place \in {"first", "ready", "run"} /\ req' = None /\ out' = Unanswered
  BY DEF Reply, Handled
<1>2. CASE out.len > OutSize
  BY <1>1, <1>2 DEF Reply, Leads
<1>3. CASE ~(out.len > OutSize)
  <2>1. PICK u, result : place' = Continue(u, result).place
    <3>1. CASE wrote = "short"
      BY <1>3, <3>1 DEF Reply
    <3>2. CASE wrote # "short"
      BY <1>3, <3>2 DEF Reply
    <3> QED
      BY <3>1, <3>2
  <2> QED
    BY <1>1, <2>1, ContinueLeads
<1> QED
  BY <1>1, <1>2, <1>3

(* A read that fails ends a loop, and so does its condition. *)
LEMMA EndLoopLeads ==
    ASSUME EndLoop, Handled, MainTypes
    PROVE  Leads(place, place') /\ UNCHANGED <<req, out, mainVars>>
<1>1. CASE ReceiveFails
  <2>1. place \in {"first", "ready", "run"}
    BY <1>1 DEF ReceiveFails, Loops, MainTypes, Places
  <2>2. place' = Continue(ub, -1).place /\ UNCHANGED <<req, out>>
    BY <1>1 DEF ReceiveFails
  <2> QED
    BY <2>1, <2>2, ContinueLeads DEF EndLoop
<1>2. CASE LoopEnds
  BY <1>2 DEF LoopEnds, EndLoop, Leads
<1> QED
  BY <1>1, <1>2 DEF EndLoop

(* Wherever a loop leads, nothing has to be cleaned up that was not before. *)
LEMMA LeadsCleanup ==
    ASSUME CleanupInv, Leads(place, place'), UNCHANGED <<ubSet, ums, destroyed>>, Handled',
           interrupted' = (IF place' = "aborted" THEN place ELSE interrupted)
    PROVE  CleanupInv'
<1>1. place \in {"first", "ready", "run"} /\ place' \notin {"destroyed", "exited", "naming"} /\ place' \in Places
  BY DEF CleanupInv, MainTypes, Places, Leads
<1>3. destroyed = 0 /\ interrupted = "no" /\ (ums => place = "run")
  BY <1>1 DEF CleanupInv, Owned
<1>4. place' \in {"run", "leaving"} => place = "run"
  BY DEF Leads
<1>5. place = "run" => place' \in {"run", "leaving", "aborted"}
  BY DEF Leads
<1>6. MainTypes'
  BY <1>1 DEF CleanupInv, MainTypes
<1>7. Owned'
  BY <1>1, <1>3, <1>4, <1>5 DEF CleanupInv, Owned
<1>8. CleanedUp'
  BY <1>1, <1>3 DEF CleanedUp
<1> QED
  BY <1>6, <1>7, <1>8 DEF CleanupInv

(* A step that stays where it is and keeps what main has set. *)
LEMMA StaysCleanup ==
    ASSUME CleanupInv, UNCHANGED <<place, ubSet, ums, destroyed, interrupted>>, Handled'
    PROVE  CleanupInv'
  BY DEF CleanupInv, MainTypes, Owned, CleanedUp

(* The cleanup of exit, and of the signal handler and exit. *)
LEMMA CleanupCleans ==
    ASSUME CleanupInv, NEW n \in {1, 2}, Cleanup(n), place \notin {"exited", "aborted", "overwritten"},
           interrupted' = (IF n = 2 THEN place ELSE interrupted), n = 1 => place \notin {"naming", "destroyed"}
    PROVE  CleanupInv'
<1>1. /\ place' = "exited" /\ req' = None /\ out' = Unanswered /\ ums' = (place = "naming") /\ ubSet' = ubSet
      /\ destroyed' = destroyed + (IF ubSet THEN n ELSE 0)
  BY DEF Cleanup
<1>2. MainTypes'
  <2>1. destroyed' \in Nat
    BY <1>1 DEF CleanupInv, MainTypes
  <2>2. ubSet' \in BOOLEAN /\ ums' \in BOOLEAN
    BY <1>1, Zenon DEF CleanupInv, MainTypes
  <2>3. place' \in Places
    BY <1>1 DEF Places
  <2> QED
    BY <2>1, <2>2, <2>3 DEF MainTypes
<1>3. Handled' /\ Owned'
  BY <1>1 DEF Handled, Owned
<1>4. interrupted = "no" /\ place # "no"
  BY DEF CleanupInv, Owned, MainTypes, Places
<1>5. ums' <=> interrupted' = "naming"
  BY <1>1, <1>4
<1>6. CASE n = 1
  <2>1. destroyed = 0 /\ interrupted' = "no"
    BY <1>4, <1>6 DEF CleanupInv, Owned
  <2>2. destroyed' = (IF ubSet' THEN 1 ELSE 0)
    BY <1>1, <1>6, <2>1
  <2> QED
    BY <1>1, <1>2, <1>3, <1>5, <2>1, <2>2 DEF CleanupInv, CleanedUp
<1>7. CASE n = 2
  <2>1. destroyed \in {0, 1} /\ interrupted' # "no"
    BY <1>4, <1>7 DEF CleanupInv, Owned
  <2>2. destroyed' >= (IF ubSet' THEN 2 ELSE 0)
    BY <1>1, <1>7, <2>1
  <2> QED
    BY <1>1, <1>2, <1>3, <1>5, <2>1, <2>2 DEF CleanupInv, CleanedUp
<1> QED
  BY <1>6, <1>7

LEMMA InitCleanup == Init => CleanupInv
<1> SUFFICES ASSUME Init PROVE CleanupInv
  OBVIOUS
<1>1. /\ place = "first" /\ req = None /\ out = Unanswered
      /\ ubSet = FALSE /\ ums = FALSE /\ destroyed = 0 /\ interrupted = "no"
  BY DEF Init, UblockInit
<1>2. MainTypes
  BY <1>1 DEF MainTypes, Places
<1> QED
  BY <1>1, <1>2 DEF CleanupInv, Handled, Owned, CleanedUp

LEMMA NextCleanup == CleanupInv /\ [Next]_vars => CleanupInv'
<1> SUFFICES ASSUME CleanupInv, [Next]_vars PROVE CleanupInv'
  OBVIOUS
<1>0. Handled /\ MainTypes /\ Owned /\ CleanedUp
  BY DEF CleanupInv
<1>1. CASE HandleOther
  <2>1. req # None /\ UNCHANGED <<place, req>>
    BY <1>1 DEF HandleOther, ublock_handle_init, ublock_handle_ready, ublock_handle_write, Refuse,
                Handling, None
  <2>2. Handled' /\ UNCHANGED <<ubSet, ums, destroyed, interrupted>>
    BY <1>1, <1>0, <2>1 DEF HandleOther, Handled, mainVars
  <2> QED
    BY <2>1, <2>2, StaysCleanup
<1>2. CASE StartRead \/ Reading \/ Changes
  <2>1. UNCHANGED <<place, req, out, ubSet, ums, destroyed, interrupted>>
    BY <1>2 DEF StartRead, Reading, Changes, ublockVars, mainVars
  <2> QED
    BY <1>0, <2>1, StaysCleanup DEF Handled
<1>3. CASE FinishRead
  <2>1. req # None /\ UNCHANGED <<place, req, ubSet, ums, destroyed, interrupted>>
    BY <1>3 DEF FinishRead, ublock_handle_read, Handling, None
  <2> QED
    BY <1>0, <2>1, StaysCleanup DEF Handled
<1>4. CASE Answer
  <2>1. PICK wrote \in {"all", "short", "error"} : Reply(wrote)
    BY <1>4 DEF Answer
  <2>2. Leads(place, place') /\ req' = None /\ out' = Unanswered
    BY <1>0, <2>1, ReplyLeads
  <2>3. /\ Handled' /\ UNCHANGED <<ubSet, ums, destroyed>>
        /\ interrupted' = (IF place' = "aborted" THEN place ELSE interrupted)
    BY <1>4, <2>2 DEF Answer, Handled
  <2> QED
    BY <2>2, <2>3, LeadsCleanup
<1>5. CASE AnswerOverruns
  <2>1. /\ req # None /\ place' = "overwritten" /\ req' = None /\ out' = Unanswered
        /\ UNCHANGED <<ubSet, ums, destroyed, interrupted>>
    BY <1>5 DEF AnswerOverruns, OverrunBuffer, Overruns, mainVars
  <2>2. place \in {"first", "ready", "run"}
    BY <1>0, <2>1 DEF Handled
  <2>3. MainTypes'
    BY <1>0, <2>1 DEF MainTypes, Places
  <2> QED
    BY <1>0, <2>1, <2>2, <2>3 DEF CleanupInv, Handled, Owned, CleanedUp
<1>6. CASE EndLoop
  <2>1. Leads(place, place') /\ UNCHANGED <<req, out, mainVars>>
    BY <1>6, <1>0, EndLoopLeads
  <2>2. req = None /\ place' # "aborted"
    <3>1. CASE ReceiveFails
      BY <1>0, <3>1 DEF ReceiveFails, Loops, MainTypes, Places, Continue, AfterFirst
    <3>2. CASE LoopEnds
      BY <3>2 DEF LoopEnds
    <3> QED
      BY <1>6, <3>1, <3>2 DEF EndLoop
  <2>3. Handled' /\ UNCHANGED <<ubSet, ums, destroyed, interrupted>>
    BY <1>0, <2>1, <2>2 DEF Handled, mainVars
  <2> QED
    BY <2>1, <2>2, <2>3, LeadsCleanup
<1>7. CASE Request
  <2>1. /\ place \in {"first", "ready", "run"} /\ out = Unanswered
        /\ UNCHANGED <<place, out, ubSet, ums, destroyed, interrupted>>
    BY <1>7, <1>0 DEF Request, Receive, Loops, Handled, MainTypes, Places, mainVars
  <2>2. Handled'
    BY <2>1 DEF Handled
  <2> QED
    BY <2>1, <2>2, StaysCleanup
<1>8. CASE InitFails
  <2>1. CASE Cleanup(1) /\ UNCHANGED interrupted
    BY <1>8, <2>1, CleanupCleans DEF InitFails
  <2>2. CASE place' = "aborted" /\ interrupted' = place /\ UNCHANGED <<req, out, ubSet, ums, destroyed>>
    <3>1. req = None /\ ~ums /\ destroyed = 0
      BY <1>8, <1>0 DEF InitFails, Handled, Owned
    <3>2. MainTypes'
      BY <1>0, <2>2 DEF MainTypes, Places
    <3> QED
      BY <1>0, <2>2, <3>1, <3>2 DEF CleanupInv, Handled, Owned, CleanedUp
  <2> QED
    BY <1>8, <2>1, <2>2 DEF InitFails
<1>9. CASE Created
  <2>1. place = "created" /\ UNCHANGED <<place, req, out, ums, destroyed, interrupted>> /\ ubSet' = TRUE
    BY <1>9 DEF Created, ublockVars
  <2> QED
    BY <1>0, <2>1 DEF CleanupInv, Handled, MainTypes, Owned, CleanedUp
<1>10. CASE NoIndex
  BY <1>10, CleanupCleans DEF NoIndex
<1>11. CASE set_ums_file \/ Run \/ RunUnnamed
  <2>1. place \in {"created", "naming"} /\ ubSet /\ UNCHANGED <<req, out, ubSet, destroyed, interrupted>>
    BY <1>11, <1>0 DEF set_ums_file, Run, RunUnnamed, ublock_run, Owned, mainVars
  <2>2. \/ place' = "run" /\ ums' = TRUE
        \/ place' \in {"naming", "run"} /\ ums' = ums
    BY <1>11 DEF set_ums_file, Run, RunUnnamed, ublock_run, mainVars
  <2>3. ~ums /\ destroyed = 0 /\ interrupted = "no" /\ req = None
    BY <1>0, <2>1 DEF Handled, Owned
  <2>4. ums' \in BOOLEAN
    BY <1>0, <2>2, Zenon DEF MainTypes
  <2>5. MainTypes'
    BY <1>0, <2>1, <2>2, <2>4 DEF MainTypes, Places
  <2>6. Owned'
    BY <2>1, <2>2, <2>3 DEF Owned
  <2> QED
    BY <1>0, <2>1, <2>2, <2>3, <2>5, <2>6 DEF CleanupInv, Handled, CleanedUp
<1>12. CASE Leave
  <2>1. /\ place = "leaving" /\ place' = "destroyed" /\ ums' = FALSE /\ destroyed' = destroyed + 1
        /\ UNCHANGED <<req, out, ubSet, interrupted>>
    BY <1>12 DEF Leave
  <2>2. destroyed' = 1 /\ interrupted = "no" /\ ubSet /\ req = None
    BY <1>0, <2>1 DEF Handled, Owned
  <2>3. MainTypes'
    <3>1. ums' \in BOOLEAN /\ ubSet' \in BOOLEAN
      BY <1>0, <2>1, Zenon DEF MainTypes
    <3>2. destroyed' \in Nat /\ place' \in Places
      BY <2>1, <2>2 DEF Places
    <3> QED
      BY <3>1, <3>2 DEF MainTypes
  <2> QED
    BY <1>0, <2>1, <2>2, <2>3 DEF CleanupInv, Handled, Owned, CleanedUp
<1>13. CASE Exit
  <2>1. place = "destroyed" /\ place' = "exited" /\ UNCHANGED <<req, out, ubSet, ums, destroyed, interrupted>>
    BY <1>13 DEF Exit, mainVars
  <2>2. destroyed = 1 /\ ubSet /\ ~ums /\ interrupted = "no" /\ req = None
    BY <1>0, <2>1 DEF Handled, Owned
  <2>3. MainTypes'
    BY <1>0, <2>1 DEF MainTypes, Places
  <2> QED
    BY <1>0, <2>1, <2>2, <2>3 DEF CleanupInv, Handled, Owned, CleanedUp
<1>14. CASE signal_handler
  BY <1>14, CleanupCleans DEF signal_handler
<1>15. CASE UNCHANGED vars
  <2>1. UNCHANGED <<place, req, out, ubSet, ums, destroyed, interrupted>>
    BY <1>15 DEF vars, ublockVars, mainVars
  <2> QED
    BY <1>0, <2>1, StaysCleanup DEF Handled
<1>16. LoopEnds /\ UNCHANGED <<pool, fdtable, used, readVars, mainVars>> => EndLoop
  BY DEF EndLoop
<1> QED
  BY <1>1, <1>2, <1>3, <1>4, <1>5, <1>6, <1>7, <1>8, <1>9, <1>10, <1>11, <1>12, <1>13, <1>14, <1>15, <1>16
     DEF Next, Process

(* Wherever a signal comes or an assertion fails, the mass storage file still names the device only
   if the signal has met the name in the stream's buffer or the assertion a request of the running
   device, and the device is destroyed once, or twice and more after a signal, but never after a
   failed assertion (cleanup, signal_handler, set_ums_file, main). *)
THEOREM CleanedUpAlways == Spec => []CleanedUp
<1>1. CleanupInv => CleanedUp
  BY DEF CleanupInv
<1> QED
  BY <1>1, InitCleanup, NextCleanup, PTL DEF Spec

-----------------------------------------------------------------------------
(***************************************************************************)
(* The pool of descriptors.  The pointers are those of a ring of files: s  *)
(* has the files in the order of the ring, and the head is in front of the *)
(* first and behind the last.                                              *)
(***************************************************************************)
Node(s, i) == IF i \in 1 .. Len(s) THEN s[i] ELSE fdpool_head

Pools == [next : [Nodes -> Nodes \cup {Nowhere}], prev : [Nodes -> Nodes \cup {Nowhere}],
          fd : [Files -> Int], count : Int]

IsRing(p, s) ==
    /\ p \in Pools
    /\ s \in Seq(Files)
    /\ \A i, j \in 1 .. Len(s) : s[i] = s[j] => i = j
    /\ \A i \in 0 .. Len(s) : p.next[Node(s, i)] = Node(s, i + 1) /\ p.prev[Node(s, i + 1)] = Node(s, i)
    /\ p.count = Len(s)

LEMMA MadeSeq ==
    ASSUME NEW S, NEW n \in Nat, NEW g \in [1 .. n -> S]
    PROVE  g \in Seq(S) /\ Len(g) = n /\ DOMAIN g = 1 .. n
<1>1. g \in Seq(S)
  OBVIOUS
<1>2. DOMAIN g = 1 .. n
  OBVIOUS
<1>3. Len(g) \in Nat /\ DOMAIN g = 1 .. Len(g)
  BY <1>1, LenProperties
<1>4. Len(g) = n
  BY <1>2, <1>3
<1> QED
  BY <1>1, <1>2, <1>4

LEMMA SeqFacts ==
    ASSUME NEW S, NEW s \in Seq(S)
    PROVE  Len(s) \in Nat /\ DOMAIN s = 1 .. Len(s) /\ s \in [1 .. Len(s) -> S] /\ \A i \in 1 .. Len(s) : s[i] \in S
  BY LenProperties, ElementOfSeq

\* Of the nodes of a ring, the head is on both ends, and none comes twice.
LEMMA NodesOfRing ==
    ASSUME NEW p, NEW s, IsRing(p, s)
    PROVE  /\ Len(s) \in Nat
           /\ Node(s, 0) = fdpool_head /\ Node(s, Len(s) + 1) = fdpool_head
           /\ \A i \in 1 .. Len(s) : Node(s, i) = s[i] /\ s[i] \in Files /\ s[i] # fdpool_head
           /\ \A i \in 0 .. Len(s) + 1 : Node(s, i) \in Nodes
           /\ \A i, j \in 0 .. Len(s) : Node(s, i) = Node(s, j) => i = j
           /\ \A i, j \in 1 .. Len(s) + 1 : Node(s, i) = Node(s, j) => i = j
<1>1. Len(s) \in Nat /\ \A i \in 1 .. Len(s) : s[i] \in Files
  BY SeqFacts DEF IsRing
<1>2. \A i \in 1 .. Len(s) : s[i] # fdpool_head
  BY <1>1, PoolAssumption
<1> QED
  BY <1>1, <1>2 DEF IsRing, Node, Nodes

\* fdpool_remove takes a file out of the ring.
LEMMA Removed ==
    ASSUME NEW p, NEW s, IsRing(p, s), NEW k \in 1 .. Len(s),
           NEW r, r = [i \in 1 .. Len(s) - 1 |-> IF i < k THEN s[i] ELSE s[i + 1]]
    PROVE  /\ IsRing(fdpool_remove(p, s[k]), r)
           /\ fdpool_remove(p, s[k]).fd = p.fd
           /\ Len(r) = Len(s) - 1
           /\ \A i \in 1 .. Len(r) : r[i] # s[k]
<1> DEFINE q == fdpool_remove(p, s[k])
<1>1. /\ Len(s) \in Nat /\ \A i \in 1 .. Len(s) : s[i] \in Files /\ Node(s, i) = s[i]
      /\ \A i \in 0 .. Len(s) + 1 : Node(s, i) \in Nodes
      /\ \A i, j \in 0 .. Len(s) : Node(s, i) = Node(s, j) => i = j
      /\ \A i, j \in 1 .. Len(s) + 1 : Node(s, i) = Node(s, j) => i = j
  BY NodesOfRing
<1>2. p.prev[s[k]] = Node(s, k - 1) /\ p.next[s[k]] = Node(s, k + 1)
  <2>1. k - 1 \in 0 .. Len(s) /\ k \in 0 .. Len(s) /\ (k - 1) + 1 = k
    BY <1>1
  <2> QED
    BY <1>1, <2>1 DEF IsRing
<1>3. /\ q.next = [p.next EXCEPT ![Node(s, k - 1)] = Node(s, k + 1)]
      /\ q.prev = [p.prev EXCEPT ![Node(s, k + 1)] = Node(s, k - 1)]
      /\ q.fd = p.fd /\ q.count = p.count - 1
      /\ q = [next |-> q.next, prev |-> q.prev, fd |-> q.fd, count |-> q.count]
  BY <1>2 DEF fdpool_remove
<1> HIDE DEF q
<1>4. /\ p.next \in [Nodes -> Nodes \cup {Nowhere}] /\ p.prev \in [Nodes -> Nodes \cup {Nowhere}]
      /\ p.fd \in [Files -> Int] /\ p.count \in Int /\ p.count = Len(s)
  BY DEF IsRing, Pools
<1>5. k - 1 \in 0 .. Len(s) + 1 /\ k + 1 \in 0 .. Len(s) + 1
  BY <1>1
<1>6. q \in Pools /\ q.count = Len(s) - 1
  <2>1. Node(s, k - 1) \in Nodes /\ Node(s, k + 1) \in Nodes
    BY <1>1, <1>5
  <2>2. q.next \in [Nodes -> Nodes \cup {Nowhere}] /\ q.prev \in [Nodes -> Nodes \cup {Nowhere}]
    BY <1>3, <1>4, <2>1
  <2>3. q.fd \in [Files -> Int] /\ q.count \in Int /\ q.count = Len(s) - 1
    BY <1>3, <1>4
  <2> QED
    BY <1>3, <2>2, <2>3 DEF Pools
<1>7. r \in Seq(Files) /\ Len(r) = Len(s) - 1
  <2>1. \A i \in 1 .. Len(s) - 1 : (IF i < k THEN s[i] ELSE s[i + 1]) \in Files
    BY <1>1
  <2>2. r \in [1 .. Len(s) - 1 -> Files] /\ Len(s) - 1 \in Nat
    BY <1>1, <2>1
  <2> QED
    BY <2>2, MadeSeq
<1>8. \A i \in 1 .. Len(r) : r[i] = IF i < k THEN s[i] ELSE s[i + 1]
  BY <1>7
<1>9. \A i \in 0 .. Len(s) : Node(r, i) = IF i < k THEN Node(s, i) ELSE Node(s, i + 1)
  BY <1>1, <1>7, <1>8 DEF Node
<1>10. \A i, j \in 1 .. Len(r) : r[i] = r[j] => i = j
  <2> DEFINE At(i) == IF i < k THEN i ELSE i + 1
  <2>1. \A i, j \in 1 .. Len(s) : s[i] = s[j] => i = j
    BY DEF IsRing
  <2>2. \A i \in 1 .. Len(r) : At(i) \in 1 .. Len(s) /\ r[i] = s[At(i)]
    BY <1>1, <1>7, <1>8
  <2>3. \A i, j \in 1 .. Len(r) : At(i) = At(j) => i = j
    BY <1>1, <1>7
  <2> HIDE DEF At
  <2> QED
    BY <2>1, <2>2, <2>3
<1>11. \A i \in 1 .. Len(r) : r[i] # s[k]
  <2>1. \A i, j \in 1 .. Len(s) : s[i] = s[j] => i = j
    BY DEF IsRing
  <2> QED
    BY <1>1, <1>7, <1>8, <2>1
<1>12. ASSUME NEW i \in 0 .. Len(r) PROVE q.next[Node(r, i)] = Node(r, i + 1)
  <2>1. i \in 0 .. Len(s) /\ i + 1 \in 0 .. Len(s) /\ i + 2 \in 0 .. Len(s) + 1 /\ k - 1 \in 0 .. Len(s)
    BY <1>1, <1>7
  <2>2. \A j \in 0 .. Len(s) : q.next[Node(s, j)] = IF j = k - 1 THEN Node(s, k + 1) ELSE Node(s, j + 1)
    <3>1. \A j \in 0 .. Len(s) : p.next[Node(s, j)] = Node(s, j + 1) /\ Node(s, j) \in Nodes
      BY <1>1 DEF IsRing
    <3> QED
      BY <1>1, <1>3, <1>4, <2>1, <3>1
  <2>3. Node(r, i) = (IF i < k THEN Node(s, i) ELSE Node(s, i + 1))
    BY <1>9, <2>1
  <2>4. Node(r, i + 1) = (IF i + 1 < k THEN Node(s, i + 1) ELSE Node(s, i + 2))
    <3>1. PICK j \in 0 .. Len(s) : j = i + 1
      BY <2>1
    <3>2. j + 1 = i + 2
      BY <3>1
    <3> QED
      BY <1>9, <3>1, <3>2
  <2>5. CASE i < k
    <3>1. q.next[Node(s, i)] = IF i = k - 1 THEN Node(s, k + 1) ELSE Node(s, i + 1)
      BY <2>1, <2>2
    <3>2. (i = k - 1 => i + 2 = k + 1) /\ (i + 1 < k <=> i # k - 1)
      BY <2>5
    <3> QED
      BY <2>3, <2>4, <2>5, <3>1, <3>2
  <2>6. CASE ~(i < k)
    <3>1. PICK j \in 0 .. Len(s) : j = i + 1 /\ j + 1 = i + 2 /\ j # k - 1
      BY <2>1, <2>6
    <3>2. q.next[Node(s, j)] = Node(s, j + 1)
      BY <2>2, <3>1
    <3> QED
      BY <2>3, <2>4, <2>6, <3>1, <3>2
  <2> QED
    BY <2>5, <2>6
<1>13. ASSUME NEW i \in 0 .. Len(r) PROVE q.prev[Node(r, i + 1)] = Node(r, i)
  <2>1. i \in 0 .. Len(s) /\ i + 1 \in 0 .. Len(s) /\ i + 2 \in 0 .. Len(s) + 1 /\ k - 1 \in 0 .. Len(s) /\ k + 1 \in 1 .. Len(s) + 1
    BY <1>1, <1>7
  <2>2. \A j \in 0 .. Len(s) : q.prev[Node(s, j + 1)] = IF j = k THEN Node(s, k - 1) ELSE Node(s, j)
    <3> TAKE j \in 0 .. Len(s)
    <3>1. PICK m \in 1 .. Len(s) + 1 : m = j + 1
      BY <1>1
    <3>2. p.prev[Node(s, m)] = Node(s, j) /\ Node(s, m) \in Nodes
      BY <1>1, <3>1 DEF IsRing
    <3>3. Node(s, m) = Node(s, k + 1) => m = k + 1
      BY <1>1, <2>1
    <3> QED
      BY <1>3, <1>4, <3>1, <3>2, <3>3
  <2>3. Node(r, i) = (IF i < k THEN Node(s, i) ELSE Node(s, i + 1))
    BY <1>9, <2>1
  <2>4. Node(r, i + 1) = (IF i + 1 < k THEN Node(s, i + 1) ELSE Node(s, i + 2))
    <3>1. PICK j \in 0 .. Len(s) : j = i + 1
      BY <2>1
    <3>2. j + 1 = i + 2
      BY <3>1
    <3> QED
      BY <1>9, <3>1, <3>2
  <2>5. CASE i + 1 < k
    <3>1. q.prev[Node(s, i + 1)] = Node(s, i)
      BY <2>1, <2>2, <2>5
    <3> QED
      BY <2>3, <2>4, <2>5, <3>1
  <2>6. CASE ~(i + 1 < k)
    <3>1. PICK j \in 0 .. Len(s) : j = i + 1 /\ j + 1 = i + 2
      BY <2>1
    <3>2. q.prev[Node(s, j + 1)] = IF j = k THEN Node(s, k - 1) ELSE Node(s, j)
      BY <2>2, <3>1
    <3>3. (j = k <=> i < k) /\ (j = k => k - 1 = i)
      BY <2>6, <3>1
    <3> QED
      BY <2>3, <2>4, <2>6, <3>1, <3>2, <3>3
  <2> QED
    BY <2>5, <2>6
<1> QED
  BY <1>3, <1>6, <1>7, <1>10, <1>11, <1>12, <1>13 DEF IsRing, q

\* fdpool_insert_head puts a file in front of the ring.
LEMMA Inserted ==
    ASSUME NEW p, NEW s, IsRing(p, s), NEW f \in Files, \A i \in 1 .. Len(s) : s[i] # f,
           NEW r, r = [i \in 1 .. Len(s) + 1 |-> IF i = 1 THEN f ELSE s[i - 1]]
    PROVE  /\ IsRing(fdpool_insert_head(p, f), r)
           /\ fdpool_insert_head(p, f).fd = p.fd
           /\ Len(r) = Len(s) + 1
<1> DEFINE q == fdpool_insert_head(p, f)
<1>1. /\ Len(s) \in Nat /\ \A i \in 1 .. Len(s) : s[i] \in Files /\ Node(s, i) = s[i]
      /\ Node(s, 0) = fdpool_head /\ Node(s, Len(s) + 1) = fdpool_head
      /\ \A i \in 0 .. Len(s) + 1 : Node(s, i) \in Nodes
      /\ \A i, j \in 0 .. Len(s) : Node(s, i) = Node(s, j) => i = j
      /\ \A i, j \in 1 .. Len(s) + 1 : Node(s, i) = Node(s, j) => i = j
  BY NodesOfRing
<1>2. /\ f \in Nodes /\ fdpool_head \in Nodes /\ f # fdpool_head
      /\ \A i \in 0 .. Len(s) + 1 : Node(s, i) # f
  BY <1>1, PoolAssumption DEF Nodes, Node
<1>3. p.next[fdpool_head] = Node(s, 1)
  <2>1. 0 \in 0 .. Len(s) /\ 0 + 1 = 1
    BY <1>1
  <2> QED
    BY <1>1, <2>1 DEF IsRing
<1>4. /\ q.next = [p.next EXCEPT ![fdpool_head] = f, ![f] = Node(s, 1)]
      /\ q.prev = [p.prev EXCEPT ![f] = fdpool_head, ![Node(s, 1)] = f]
      /\ q.fd = p.fd /\ q.count = p.count + 1
      /\ q = [next |-> q.next, prev |-> q.prev, fd |-> q.fd, count |-> q.count]
  BY <1>3 DEF fdpool_insert_head
<1> HIDE DEF q
<1>5. /\ p.next \in [Nodes -> Nodes \cup {Nowhere}] /\ p.prev \in [Nodes -> Nodes \cup {Nowhere}]
      /\ p.fd \in [Files -> Int] /\ p.count \in Int /\ p.count = Len(s)
  BY DEF IsRing, Pools
<1>6. 1 \in 0 .. Len(s) + 1 /\ 1 \in 1 .. Len(s) + 1 /\ 0 \in 0 .. Len(s)
  BY <1>1
<1>7. /\ q.next \in [Nodes -> Nodes \cup {Nowhere}]
      /\ \A n \in Nodes : q.next[n] = IF n = f THEN Node(s, 1) ELSE IF n = fdpool_head THEN f ELSE p.next[n]
  <2>1. PICK first \in Nodes : first = Node(s, 1)
    BY <1>1, <1>6
  <2>2. PICK h : h = [p.next EXCEPT ![fdpool_head] = f]
    OBVIOUS
  <2>3. q.next = [h EXCEPT ![f] = first]
    BY <1>4, <2>1, <2>2, Zenon
  <2>4. h \in [Nodes -> Nodes \cup {Nowhere}] /\ \A n \in Nodes : h[n] = IF n = fdpool_head THEN f ELSE p.next[n]
    BY <1>2, <1>5, <2>2
  <2> QED
    BY <1>2, <2>1, <2>3, <2>4
<1>8. /\ q.prev \in [Nodes -> Nodes \cup {Nowhere}]
      /\ \A n \in Nodes : q.prev[n] = IF n = Node(s, 1) THEN f ELSE IF n = f THEN fdpool_head ELSE p.prev[n]
  <2>1. PICK first \in Nodes : first = Node(s, 1) /\ first # f
    BY <1>1, <1>2, <1>6
  <2>2. PICK h : h = [p.prev EXCEPT ![f] = fdpool_head]
    OBVIOUS
  <2>3. q.prev = [h EXCEPT ![first] = f]
    BY <1>4, <2>1, <2>2, Zenon
  <2>4. h \in [Nodes -> Nodes \cup {Nowhere}] /\ \A n \in Nodes : h[n] = IF n = f THEN fdpool_head ELSE p.prev[n]
    BY <1>2, <1>5, <2>2
  <2> QED
    BY <1>2, <2>1, <2>3, <2>4
<1>9. q \in Pools /\ q.count = Len(s) + 1
  <2>1. q.fd \in [Files -> Int] /\ q.count \in Int /\ q.count = Len(s) + 1
    BY <1>1, <1>4, <1>5
  <2> QED
    BY <1>4, <1>7, <1>8, <2>1 DEF Pools
<1>10. r \in Seq(Files) /\ Len(r) = Len(s) + 1
  <2>1. \A i \in 1 .. Len(s) + 1 : (IF i = 1 THEN f ELSE s[i - 1]) \in Files
    BY <1>1
  <2>2. r \in [1 .. Len(s) + 1 -> Files] /\ Len(s) + 1 \in Nat
    BY <1>1, <2>1
  <2> QED
    BY <2>2, MadeSeq
<1>11. \A i \in 1 .. Len(r) : r[i] = IF i = 1 THEN f ELSE s[i - 1]
  BY <1>10
<1>12. Node(r, 0) = fdpool_head /\ Node(r, 1) = f /\ \A i \in 1 .. Len(s) + 1 : Node(r, i + 1) = Node(s, i)
  BY <1>1, <1>10, <1>11 DEF Node
<1>13. \A i, j \in 1 .. Len(r) : r[i] = r[j] => i = j
  <2>1. \A i, j \in 1 .. Len(s) : s[i] = s[j] => i = j
    BY DEF IsRing
  <2>2. \A i \in 1 .. Len(r) : i # 1 => i - 1 \in 1 .. Len(s) /\ r[i] = s[i - 1] /\ r[i] # f
    BY <1>1, <1>10, <1>11
  <2>3. r[1] = f
    BY <1>1, <1>10, <1>11
  <2> QED
    BY <2>1, <2>2, <2>3
<1>14. ASSUME NEW i \in 0 .. Len(r) PROVE q.next[Node(r, i)] = Node(r, i + 1) /\ q.prev[Node(r, i + 1)] = Node(r, i)
  <2>1. CASE i = 0
    BY <1>1, <1>2, <1>7, <1>8, <1>12, <1>6, <2>1
  <2>2. CASE i = 1
    <3>1. Node(r, i + 1) = Node(s, 1)
      BY <1>6, <1>12, <2>2
    <3>2. q.next[f] = Node(s, 1) /\ q.prev[Node(s, 1)] = f
      BY <1>1, <1>2, <1>6, <1>7, <1>8
    <3> QED
      BY <1>12, <2>2, <3>1, <3>2
  <2>3. CASE i > 1
    <3>1. PICK j \in 1 .. Len(s) : j = i - 1 /\ j + 1 = i
      BY <1>1, <1>10, <2>3
    <3>2. PICK m \in 1 .. Len(s) + 1 : m = j + 1 /\ m + 1 = i + 1 /\ m # 1
      BY <1>1, <3>1
    <3>3. Node(r, i) = Node(s, j) /\ Node(r, i + 1) = Node(s, m)
      <4>1. j \in 1 .. Len(s) + 1
        BY <1>1
      <4> QED
        BY <1>12, <3>1, <3>2, <4>1
    <3>4. p.next[Node(s, j)] = Node(s, m) /\ p.prev[Node(s, m)] = Node(s, j)
      <4>1. j \in 0 .. Len(s)
        BY <1>1
      <4> QED
        BY <3>2, <4>1 DEF IsRing
    <3>5. Node(s, j) \in Nodes /\ Node(s, m) \in Nodes /\ Node(s, j) # fdpool_head /\ Node(s, m) # Node(s, 1)
      BY <1>1, <1>6, <3>1, <3>2
    <3>6. Node(s, j) # f /\ Node(s, m) # f
      BY <1>1, <1>2, <3>1, <3>2
    <3> QED
      BY <1>7, <1>8, <3>3, <3>4, <3>5, <3>6
  <2> QED
    BY <1>10, <2>1, <2>2, <2>3
<1> QED
  BY <1>4, <1>9, <1>10, <1>13, <1>14 DEF IsRing, q

\* fdpool_clear has an effect only on a file that is not in the ring any more.
LEMMA Cleared ==
    ASSUME NEW p, NEW s, IsRing(p, s), NEW f \in Files, \A i \in 1 .. Len(s) : s[i] # f
    PROVE  /\ IsRing(fdpool_clear(p, f), s)
           /\ fdpool_clear(p, f).fd = [p.fd EXCEPT ![f] = INVALID_FD]
<1> DEFINE q == fdpool_clear(p, f)
<1>1. Len(s) \in Nat /\ \A i \in 0 .. Len(s) + 1 : Node(s, i) \in Nodes
  BY NodesOfRing
<1>2. f \in Nodes /\ \A i \in 0 .. Len(s) + 1 : Node(s, i) # f
  BY <1>1, PoolAssumption DEF Nodes, Node
<1>3. /\ q.next = [p.next EXCEPT ![f] = Nowhere] /\ q.prev = [p.prev EXCEPT ![f] = Nowhere]
      /\ q.fd = [p.fd EXCEPT ![f] = INVALID_FD] /\ q.count = p.count
      /\ q = [next |-> q.next, prev |-> q.prev, fd |-> q.fd, count |-> q.count]
  BY DEF fdpool_clear
<1> HIDE DEF q
<1>4. /\ p.next \in [Nodes -> Nodes \cup {Nowhere}] /\ p.prev \in [Nodes -> Nodes \cup {Nowhere}]
      /\ p.fd \in [Files -> Int] /\ p.count \in Int
  BY DEF IsRing, Pools
<1>5. q \in Pools
  <2>1. q.next \in [Nodes -> Nodes \cup {Nowhere}] /\ q.prev \in [Nodes -> Nodes \cup {Nowhere}]
    BY <1>2, <1>3, <1>4
  <2>2. q.fd \in [Files -> Int]
    BY <1>3, <1>4 DEF INVALID_FD
  <2> QED
    BY <1>3, <1>4, <2>1, <2>2 DEF Pools
<1>6. ASSUME NEW i \in 0 .. Len(s)
      PROVE  q.next[Node(s, i)] = Node(s, i + 1) /\ q.prev[Node(s, i + 1)] = Node(s, i)
  <2>1. PICK j \in 0 .. Len(s) + 1 : j = i + 1
    BY <1>1
  <2>2. i \in 0 .. Len(s) + 1
    BY <1>1
  <2>3. p.next[Node(s, i)] = Node(s, j) /\ p.prev[Node(s, j)] = Node(s, i)
    BY <2>1 DEF IsRing
  <2> QED
    BY <1>1, <1>2, <1>3, <1>4, <2>1, <2>2, <2>3
<1> QED
  BY <1>3, <1>5, <1>6 DEF IsRing, q

\* The program has finitely many files, and a ring has no more nodes than there are files.
LEMMA FilesFinite == IsFiniteSet(Files) /\ Cardinality(Files) \in Nat /\ Cardinality(Nodes) = Cardinality(Files) + 1
<1>1. Len(Order) \in Nat /\ DOMAIN Order = 1 .. Len(Order) /\ Order \in [1 .. Len(Order) -> Files]
  BY ReadAssumption, SeqFacts
<1>2. IsFiniteSet(1 .. Len(Order))
  BY <1>1, FS_Interval
<1>3. Order \in Surjection(1 .. Len(Order), Files)
  BY <1>1, ReadAssumption DEF Surjection
<1>4. IsFiniteSet(Files)
  BY <1>2, <1>3, FS_Surjection
<1> QED
  BY <1>4, FS_CardinalityType, FS_AddElement, PoolAssumption DEF Nodes

LEMMA RingBounded ==
    ASSUME NEW p, NEW s, IsRing(p, s)
    PROVE  Len(s) <= Cardinality(Files)
<1>1. Len(s) \in Nat /\ s \in [1 .. Len(s) -> Files]
  BY SeqFacts DEF IsRing
<1>2. s \in Injection(1 .. Len(s), Files)
  BY <1>1 DEF IsRing, Injection, IsInjective
<1>3. IsFiniteSet(1 .. Len(s)) /\ Cardinality(1 .. Len(s)) = Len(s)
  <2>1. /\ IsFiniteSet(1 .. Len(s))
        /\ Cardinality(1 .. Len(s)) = IF 1 > Len(s) THEN 0 ELSE Len(s) - 1 + 1
    <3>1. 1 \in Int /\ Len(s) \in Int
      BY <1>1
    <3> QED
      BY <3>1, FS_Interval
  <2> QED
    BY <1>1, <2>1
<1> QED
  BY <1>2, <1>3, FilesFinite, FS_Injection

\* The walk along the pointers meets the files of the ring and comes back to the head.
LEMMA RingWalked ==
    ASSUME NEW s, IsRing(pool, s)
    PROVE  Ring = s
<1> DEFINE K == Cardinality(Nodes)
           Walk(a) == a = [i \in 1 .. K |-> IF i = 1 THEN pool.next[fdpool_head]
                                            ELSE IF a[i - 1] \in Files THEN pool.next[a[i - 1]] ELSE fdpool_head]
           at == CHOOSE a : Walk(a)
           Ends(i) == at[i + 1] \notin Files /\ (i > 0 => at[i] \in Files)
           length == CHOOSE i \in 0 .. Cardinality(Files) : Ends(i)
<1>1. Ring = [i \in 1 .. length |-> at[i]]
  BY DEF Ring
<1>2. /\ Len(s) \in Nat /\ Node(s, 0) = fdpool_head /\ Node(s, Len(s) + 1) = fdpool_head
      /\ \A i \in 1 .. Len(s) : Node(s, i) = s[i] /\ s[i] \in Files
      /\ fdpool_head \notin Files
  BY NodesOfRing, PoolAssumption
<1>3. K \in Nat /\ Cardinality(Files) \in Nat /\ K = Cardinality(Files) + 1 /\ Len(s) <= Cardinality(Files)
  BY FilesFinite, RingBounded
<1>4. \A i \in 0 .. Len(s) : pool.next[Node(s, i)] = Node(s, i + 1)
  BY DEF IsRing
<1> DEFINE w == [i \in 1 .. K |-> Node(s, i)]
<1>5. \A i \in 1 .. K : w[i] = Node(s, i) /\ (w[i] \in Files <=> i <= Len(s))
  BY <1>2, <1>3 DEF Node
<1>6. \A i \in 1 .. K : w[i] = IF i = 1 THEN pool.next[fdpool_head]
                               ELSE IF w[i - 1] \in Files THEN pool.next[w[i - 1]] ELSE fdpool_head
  <2> TAKE i \in 1 .. K
  <2>1. CASE i = 1
    <3>1. 0 \in 0 .. Len(s) /\ 0 + 1 = 1
      BY <1>2
    <3> QED
      BY <1>2, <1>4, <1>5, <2>1, <3>1
  <2>2. CASE i # 1
    <3>1. PICK j \in 1 .. K : j = i - 1 /\ j + 1 = i
      BY <1>3, <2>2
    <3>2. CASE j <= Len(s)
      <4>1. pool.next[w[j]] = w[i] /\ w[j] \in Files
        BY <1>2, <1>4, <1>5, <3>1, <3>2
      <4> HIDE DEF w
      <4> QED
        BY <2>2, <3>1, <4>1
    <3>3. CASE ~(j <= Len(s))
      <4>1. w[j] \notin Files /\ w[i] = fdpool_head
        BY <1>2, <1>5, <3>1, <3>3 DEF Node
      <4> HIDE DEF w
      <4> QED
        BY <2>2, <3>1, <4>1
    <3> QED
      BY <3>2, <3>3
  <2> QED
    BY <2>1, <2>2
<1>7. Walk(w)
  <2>1. w = [i \in 1 .. K |-> w[i]]
    OBVIOUS
  <2> HIDE DEF w
  <2> QED
    BY <1>6, <2>1
<1>8. Walk(at)
  <2> HIDE DEF Walk
  <2> QED
    BY <1>7
<1>9. \A i \in 1 .. K : at[i] = IF i = 1 THEN pool.next[fdpool_head]
                                ELSE IF at[i - 1] \in Files THEN pool.next[at[i - 1]] ELSE fdpool_head
  <2> HIDE DEF at
  <2> QED
    BY <1>8
<1> HIDE DEF at, w, Walk
<1> DEFINE T == {n \in Nat : \A i \in 1 .. K : i <= n => at[i] = w[i]}
<1>10. 0 \in T
  OBVIOUS
<1>11. ASSUME NEW n \in Nat, n \in T PROVE n + 1 \in T
  <2> SUFFICES ASSUME NEW i \in 1 .. K, i = n + 1 PROVE at[i] = w[i]
    BY <1>3, <1>11
  <2>1. CASE i = 1
    BY <1>6, <1>9, <2>1
  <2>2. CASE i # 1
    <3>1. PICK j \in 1 .. K : j = i - 1 /\ j <= n
      BY <1>3, <2>2
    <3>2. at[j] = w[j]
      BY <1>11, <3>1
    <3> QED
      BY <1>6, <1>9, <2>2, <3>1, <3>2
  <2> QED
    BY <2>1, <2>2
<1>12. Nat \subseteq T
  <2> HIDE DEF T
  <2> QED
    BY <1>10, <1>11, Induction
<1>13. \A i \in 1 .. K : at[i] = Node(s, i) /\ (at[i] \in Files <=> i <= Len(s))
  <2>1. \A i \in 1 .. K : at[i] = w[i]
    BY <1>3, <1>12
  <2> QED
    BY <1>5, <2>1
<1>14. \A i \in 0 .. Cardinality(Files) : Ends(i) <=> i = Len(s)
  <2> TAKE i \in 0 .. Cardinality(Files)
  <2>1. PICK j \in 1 .. K : j = i + 1
    BY <1>3
  <2>2. at[j] \notin Files <=> i >= Len(s)
    BY <1>2, <1>3, <1>13, <2>1
  <2>3. i > 0 => (at[i] \in Files <=> i <= Len(s))
    BY <1>3, <1>13
  <2> QED
    BY <1>2, <1>3, <2>1, <2>2, <2>3
<1>15. length = Len(s)
  <2> HIDE DEF Ends
  <2> QED
    BY <1>2, <1>3, <1>14
<1>16. Ring = [i \in 1 .. Len(s) |-> at[i]]
  BY <1>1, <1>15
<1>17. \A i \in 1 .. Len(s) : at[i] = s[i]
  BY <1>2, <1>3, <1>13
<1>18. s = [i \in 1 .. Len(s) |-> s[i]]
  BY SeqFacts DEF IsRing
<1> QED
  BY <1>16, <1>17, <1>18

\* There always is a lowest number that no descriptor has, and it is no more than their number.
LEMMA LowestFree ==
    ASSUME NEW D, IsFiniteSet(D), D \subseteq Nat
    PROVE  \E d \in 0 .. Cardinality(D) : d \notin D /\ \A e \in 0 .. d - 1 : e \in D
<1>1. Cardinality(D) \in Nat
  BY FS_CardinalityType
<1>2. \A n \in Nat : (0 .. n - 1 \subseteq D) => n <= Cardinality(D)
  <2> SUFFICES ASSUME NEW n \in Nat, 0 .. n - 1 \subseteq D PROVE n <= Cardinality(D)
    OBVIOUS
  <2>1. Cardinality(0 .. n - 1) = IF 0 > n - 1 THEN 0 ELSE (n - 1) - 0 + 1
    <3>1. n - 1 \in Int /\ 0 \in Int
      OBVIOUS
    <3> QED
      BY <3>1, FS_Interval
  <2>2. Cardinality(0 .. n - 1) = n
    BY <2>1
  <2>3. Cardinality(0 .. n - 1) <= Cardinality(D)
    BY FS_Subset
  <2> QED
    BY <2>2, <2>3
<1> DEFINE T == {n \in Nat : 0 .. n - 1 \subseteq D}
<1>3. 0 \in T
  OBVIOUS
<1>4. PICK n \in Nat : n \in T /\ n + 1 \notin T
  <2> SUFFICES ASSUME \A n \in Nat : n \in T => n + 1 \in T PROVE FALSE
    OBVIOUS
  <2>1. Nat \subseteq T
    <3> HIDE DEF T
    <3> QED
      BY <1>3, Induction
  <2>2. Cardinality(D) + 1 \in T
    BY <1>1, <2>1
  <2> QED
    BY <1>1, <1>2, <2>2
<1>5. n <= Cardinality(D) /\ \A e \in 0 .. n - 1 : e \in D
  BY <1>2, <1>4
<1>6. n \notin D
  <2> SUFFICES ASSUME n \in D PROVE FALSE
    OBVIOUS
  <2>1. \A e \in 0 .. (n + 1) - 1 : e \in 0 .. n - 1 \/ e = n
    OBVIOUS
  <2> QED
    BY <1>4, <1>5, <2>1
<1> QED
  BY <1>1, <1>5, <1>6

(* The files of the ring have the descriptors that are open, each its own. *)
IsPool(p, t, s) ==
    /\ IsRing(p, s)
    /\ Len(s) <= FDPOOL_SIZE
    /\ \A f \in Files : p.fd[f] # INVALID_FD <=> \E i \in 1 .. Len(s) : s[i] = f
    /\ \A f, g \in Files : p.fd[f] = p.fd[g] /\ f # g => p.fd[f] = INVALID_FD
    /\ \A d : d \in DOMAIN t <=> d # INVALID_FD /\ \E f \in Files : p.fd[f] = d
    /\ DOMAIN t \subseteq Nat
    /\ IsFiniteSet(DOMAIN t)

(* The files in the order of their use, when f is used. *)
UsedNow(s, f) ==
    LET n == Len(s)
        from == IF \E k \in 1 .. n : s[k] = f THEN CHOOSE k \in 1 .. n : s[k] = f
                ELSE IF n < FDPOOL_SIZE THEN n + 1 ELSE FDPOOL_SIZE
    IN [i \in 1 .. (IF from > n THEN from ELSE n) |->
          IF i = 1 THEN f ELSE IF i <= from THEN s[i - 1] ELSE s[i]]

\* fdpool_touch moves a file of the ring to its front.
LEMMA Touched ==
    ASSUME NEW p, NEW t, NEW s, IsPool(p, t, s), NEW f \in Files, p.fd[f] # INVALID_FD
    PROVE  IsPool(fdpool_touch(p, f), t, UsedNow(s, f)) /\ fdpool_touch(p, f).fd = p.fd
<1>1. IsRing(p, s) /\ Len(s) \in Nat /\ s \in [1 .. Len(s) -> Files]
      /\ \A i, j \in 1 .. Len(s) : s[i] = s[j] => i = j
  BY SeqFacts DEF IsPool, IsRing
<1>2. PICK k \in 1 .. Len(s) : s[k] = f
  BY DEF IsPool
<1>3. (CHOOSE j \in 1 .. Len(s) : s[j] = f) = k
  BY <1>1, <1>2
<1>4. UsedNow(s, f) = [i \in 1 .. Len(s) |-> IF i = 1 THEN f ELSE IF i <= k THEN s[i - 1] ELSE s[i]]
  <2>1. k <= Len(s)
    BY <1>1
  <2> QED
    BY <1>1, <1>2, <1>3, <2>1 DEF UsedNow
<1>5. PICK r : r = [i \in 1 .. Len(s) - 1 |-> IF i < k THEN s[i] ELSE s[i + 1]]
  OBVIOUS
<1>6. PICK q : q = fdpool_remove(p, f)
  OBVIOUS
<1>7. IsRing(q, r) /\ q.fd = p.fd /\ Len(r) = Len(s) - 1 /\ \A i \in 1 .. Len(r) : r[i] # f
  BY <1>1, <1>2, <1>5, <1>6, Removed
<1>8. PICK u : u = [i \in 1 .. Len(r) + 1 |-> IF i = 1 THEN f ELSE r[i - 1]]
  OBVIOUS
<1>9. IsRing(fdpool_insert_head(q, f), u) /\ fdpool_insert_head(q, f).fd = q.fd /\ Len(u) = Len(r) + 1
  BY <1>7, <1>8, Inserted
<1>10. u = UsedNow(s, f)
  <2>1. Len(r) + 1 = Len(s)
    BY <1>1, <1>7
  <2>2. ASSUME NEW i \in 1 .. Len(s), i # 1
        PROVE  r[i - 1] = IF i <= k THEN s[i - 1] ELSE s[i]
    <3>1. PICK j \in 1 .. Len(s) - 1 : j = i - 1 /\ j + 1 = i
      BY <1>1, <2>2
    <3>2. r[j] = IF j < k THEN s[j] ELSE s[j + 1]
      BY <1>5
    <3>3. j < k <=> i <= k
      BY <1>1, <3>1
    <3> QED
      BY <3>1, <3>2, <3>3
  <2> QED
    BY <1>4, <1>8, <2>1, <2>2
<1>11. fdpool_touch(p, f) = fdpool_insert_head(q, f)
  BY <1>6 DEF fdpool_touch
<1>12. PICK v : v = fdpool_touch(p, f) /\ IsRing(v, u) /\ v.fd = p.fd /\ Len(u) = Len(s)
  BY <1>1, <1>7, <1>9, <1>11
<1>13. \A g : (\E i \in 1 .. Len(s) : s[i] = g) <=> (\E i \in 1 .. Len(s) : u[i] = g)
  <2>1. \A i \in 1 .. Len(s) : u[i] = IF i = 1 THEN f ELSE IF i <= k THEN s[i - 1] ELSE s[i]
    BY <1>4, <1>10
  <2>2. ASSUME NEW i \in 1 .. Len(s) PROVE \E j \in 1 .. Len(s) : s[j] = u[i]
    <3>1. CASE i = 1
      BY <1>2, <2>1, <3>1
    <3>2. CASE i # 1 /\ i <= k
      <4>1. i - 1 \in 1 .. Len(s)
        BY <1>1, <3>2
      <4> QED
        BY <2>1, <3>2, <4>1
    <3>3. CASE i # 1 /\ ~(i <= k)
      BY <2>1, <3>3
    <3> QED
      BY <3>1, <3>2, <3>3
  <2>3. ASSUME NEW i \in 1 .. Len(s) PROVE \E j \in 1 .. Len(s) : u[j] = s[i]
    <3>1. CASE i = k
      <4>1. 1 \in 1 .. Len(s)
        BY <1>1
      <4> QED
        BY <1>2, <2>1, <3>1, <4>1
    <3>2. CASE i < k
      <4>1. PICK j \in 1 .. Len(s) : j = i + 1 /\ j - 1 = i /\ j # 1 /\ j <= k
        BY <1>1, <3>2
      <4> QED
        BY <2>1, <4>1
    <3>3. CASE i > k
      <4>1. i # 1 /\ ~(i <= k)
        BY <1>1, <3>3
      <4> QED
        BY <2>1, <4>1
    <3> QED
      BY <1>1, <3>1, <3>2, <3>3
  <2> QED
    BY <2>2, <2>3
<1>14. IsPool(v, t, u)
  <2>1. Len(s) <= FDPOOL_SIZE
    BY DEF IsPool
  <2>2. \A g \in Files : v.fd[g] # INVALID_FD <=> \E i \in 1 .. Len(u) : u[i] = g
    BY <1>12, <1>13 DEF IsPool
  <2> QED
    BY <1>12, <2>1, <2>2 DEF IsPool
<1> QED
  BY <1>10, <1>12, <1>14

(* The table with one more descriptor, the pool with the descriptor of a file. *)
WithFd(t, d, x) == [e \in DOMAIN t \cup {d} |-> IF e = d THEN x ELSE t[e]]
SetFd(p, f, d) == [p EXCEPT !.fd = [@ EXCEPT ![f] = d]]
EvictedFor(p, t, d, x) == fdpool_evict([p |-> p, t |-> WithFd(t, d, x)])
PooledFor(p, t, f, d, x) == fdpool_pool([p |-> p, t |-> WithFd(t, d, x)], f, d)
Shorter(s) == [i \in 1 .. Len(s) - 1 |-> s[i]]
Longer(s, f) == [i \in 1 .. Len(s) + 1 |-> IF i = 1 THEN f ELSE s[i - 1]]

(* What is left of a pool and the table when its last file is out: v is the new state. *)
IsEvicted(v, p, t, s, d, x) ==
    /\ IsRing(v.p, Shorter(s))
    /\ Len(Shorter(s)) = Len(s) - 1 /\ Len(s) - 1 \in Nat /\ s[Len(s)] \in Files
    /\ \A i \in 1 .. Len(s) - 1 : Shorter(s)[i] # s[Len(s)]
    /\ v.p.fd = [p.fd EXCEPT ![s[Len(s)]] = INVALID_FD]
    /\ DOMAIN v.t = (DOMAIN t \cup {d}) \ {p.fd[s[Len(s)]]}
    /\ \A e \in DOMAIN v.t : v.t[e] = IF e = d THEN x ELSE t[e]

\* fdpool_evict closes the descriptor of the last file of the ring.
LEMMA Evicted ==
    ASSUME NEW p, NEW t, NEW s, IsPool(p, t, s), Len(s) >= FDPOOL_SIZE, NEW d, d \notin DOMAIN t, NEW x
    PROVE  IsEvicted(EvictedFor(p, t, d, x), p, t, s, d, x)
<1>a. PICK r : r = Shorter(s)
  OBVIOUS
<1>b. PICK v : v = EvictedFor(p, t, d, x)
  OBVIOUS
<1>1. Len(s) \in Nat /\ s \in [1 .. Len(s) -> Files] /\ FDPOOL_SIZE \in Nat \ {0}
  BY SeqFacts, PoolAssumption DEF IsPool, IsRing
<1>0. IsRing(p, s)
  BY DEF IsPool
<1>2. PICK k \in 1 .. Len(s) : k = Len(s)
  <2>1. Len(s) \in 1 .. Len(s)
    BY <1>1
  <2> QED
    BY <2>1
<1>3. PICK l \in Files : l = s[k]
  BY <1>1
<1>4. p.prev[fdpool_head] = l
  <2>1. Node(s, Len(s) + 1) = fdpool_head /\ Node(s, k) = l /\ k \in 0 .. Len(s)
    BY <1>0, <1>1, <1>3, NodesOfRing
  <2> QED
    BY <1>0, <1>2, <2>1 DEF IsRing
<1>5. r = [i \in 1 .. Len(s) - 1 |-> IF i < k THEN s[i] ELSE s[i + 1]]
  <2>1. \A i \in 1 .. Len(s) - 1 : i < k
    BY <1>1, <1>2
  <2> QED
    BY <1>a, <2>1 DEF Shorter
<1>6. PICK q : q = fdpool_remove(p, l)
  OBVIOUS
<1>7. IsRing(q, r) /\ q.fd = p.fd /\ Len(r) = Len(s) - 1 /\ \A i \in 1 .. Len(r) : r[i] # l
  <2>1. /\ IsRing(fdpool_remove(p, s[k]), r)
        /\ fdpool_remove(p, s[k]).fd = p.fd
        /\ Len(r) = Len(s) - 1
        /\ \A i \in 1 .. Len(r) : r[i] # s[k]
    BY <1>0, <1>5, Removed
  <2> QED
    BY <1>3, <1>6, <2>1
<1>8. v = [p |-> fdpool_clear(q, l), t |-> Close(WithFd(t, d, x), q.fd[l])]
  BY <1>b, <1>4, <1>6 DEF EvictedFor, fdpool_evict, fdpool_unpool
<1>9. v.p = fdpool_clear(q, l) /\ v.t = Close(WithFd(t, d, x), p.fd[l])
  BY <1>7, <1>8
<1>10. IsRing(v.p, r) /\ v.p.fd = [p.fd EXCEPT ![l] = INVALID_FD]
  <2>1. IsRing(fdpool_clear(q, l), r) /\ fdpool_clear(q, l).fd = [q.fd EXCEPT ![l] = INVALID_FD]
    BY <1>7, Cleared
  <2> QED
    BY <1>7, <1>9, <2>1
<1>11. DOMAIN v.t = (DOMAIN t \cup {d}) \ {p.fd[l]}
  BY <1>9 DEF Close, WithFd
<1>12. \A e \in DOMAIN v.t : v.t[e] = IF e = d THEN x ELSE t[e]
  BY <1>9, <1>11 DEF Close, WithFd
<1>13. Len(s) - 1 \in Nat
  BY <1>1, <1>2
<1> QED
  BY <1>a, <1>b, <1>2, <1>3, <1>7, <1>10, <1>11, <1>12, <1>13 DEF IsEvicted

\* fdpool_pool, when there is room.
LEMMA PooledInRoom ==
    ASSUME NEW p, NEW s, IsRing(p, s), NEW f \in Files, \A i \in 1 .. Len(s) : s[i] # f, NEW d \in Int,
           NEW r, r = Longer(s, f), NEW v, v = SetFd(fdpool_insert_head(p, f), f, d)
    PROVE  IsRing(v, r) /\ v.fd = [p.fd EXCEPT ![f] = d] /\ Len(r) = Len(s) + 1
<1>1. PICK q : q = fdpool_insert_head(p, f)
  OBVIOUS
<1>2. IsRing(q, r) /\ q.fd = p.fd /\ Len(r) = Len(s) + 1
  BY <1>1, Inserted DEF Longer
<1>3. q \in Pools /\ p.fd \in [Files -> Int]
  BY <1>2 DEF IsRing, Pools
<1>4. v = [q EXCEPT !.fd = [q.fd EXCEPT ![f] = d]]
  BY <1>1, Zenon DEF SetFd
<1>5. PICK h : h = [q.fd EXCEPT ![f] = d]
  OBVIOUS
<1>6. h \in [Files -> Int]
  BY <1>2, <1>3, <1>5
<1>7. v = [q EXCEPT !.fd = h]
  BY <1>4, <1>5, Zenon
<1>8. v.next = q.next /\ v.prev = q.prev /\ v.count = q.count /\ v.fd = h /\ v \in Pools
  BY <1>3, <1>6, <1>7 DEF Pools
<1>9. IsRing(v, r)
  BY <1>2, <1>8 DEF IsRing
<1> QED
  BY <1>2, <1>5, <1>8, <1>9

\* What fdpool_open does with a file that has no descriptor.
LEMMA PooledNew ==
    ASSUME NEW p, NEW t, NEW s, IsPool(p, t, s), NEW f \in Files, p.fd[f] = INVALID_FD, NEW x, NEW d, d = NewFd(t),
           NEW v, v = PooledFor(p, t, f, d, x)
    PROVE  /\ IsPool(v.p, v.t, UsedNow(s, f))
           /\ d # INVALID_FD /\ v.p.fd[f] = d /\ d \in DOMAIN v.t /\ v.t[d] = x
           /\ \A g \in Files : g # f /\ v.p.fd[g] # INVALID_FD =>
                  v.p.fd[g] = p.fd[g] /\ v.p.fd[g] \in DOMAIN v.t /\ v.t[v.p.fd[g]] = t[p.fd[g]]
<1>1. IsRing(p, s) /\ Len(s) \in Nat /\ s \in [1 .. Len(s) -> Files] /\ FDPOOL_SIZE \in Nat \ {0}
      /\ (\A i, j \in 1 .. Len(s) : s[i] = s[j] => i = j) /\ p.count = Len(s) /\ p.fd \in [Files -> Int]
      /\ Len(s) <= FDPOOL_SIZE
  BY SeqFacts, PoolAssumption DEF IsPool, IsRing, Pools
<1>2. d \in Nat /\ d \notin DOMAIN t /\ d # INVALID_FD
  <2>1. \E e \in 0 .. Cardinality(DOMAIN t) : e \notin DOMAIN t /\ \A c \in 0 .. e - 1 : c \in DOMAIN t
    BY LowestFree DEF IsPool
  <2>2. d \in 0 .. Cardinality(DOMAIN t) /\ d \notin DOMAIN t
    BY <2>1 DEF NewFd
  <2> QED
    BY <2>2 DEF INVALID_FD
<1>3. \A i \in 1 .. Len(s) : s[i] # f
  BY DEF IsPool
<1>4. \A g \in Files : p.fd[g] # INVALID_FD => p.fd[g] \in DOMAIN t /\ p.fd[g] # d
  BY <1>2 DEF IsPool
<1>5. PICK from \in Nat : from = IF Len(s) < FDPOOL_SIZE THEN Len(s) + 1 ELSE FDPOOL_SIZE
  BY <1>1
<1>6. UsedNow(s, f) = [i \in 1 .. from |-> IF i = 1 THEN f ELSE s[i - 1]]
  <2>1. UsedNow(s, f) = [i \in 1 .. (IF from > Len(s) THEN from ELSE Len(s)) |->
                           IF i = 1 THEN f ELSE IF i <= from THEN s[i - 1] ELSE s[i]]
    BY <1>3, <1>5 DEF UsedNow
  <2>2. (IF from > Len(s) THEN from ELSE Len(s)) = from
    BY <1>1, <1>5
  <2> QED
    BY <2>1, <2>2
<1> DEFINE Made(room, w) ==
               /\ IsRing(room, w) /\ Len(w) = from - 1 /\ (\A i \in 1 .. Len(w) : w[i] = s[i])
               /\ v.p = SetFd(fdpool_insert_head(room, f), f, d)
               /\ (\A g \in Files : room.fd[g] = IF (\E i \in 1 .. Len(s) : s[i] = g /\ i > Len(w))
                                                 THEN INVALID_FD ELSE p.fd[g])
               /\ (\A e : e \in DOMAIN v.t <=> e = d \/ (e # INVALID_FD /\ \E g \in Files : room.fd[g] = e))
               /\ (\A e \in DOMAIN v.t : v.t[e] = IF e = d THEN x ELSE t[e])
               /\ DOMAIN v.t \subseteq DOMAIN t \cup {d}
<1>7. PICK room, w : Made(room, w)
  <2>1. CASE Len(s) < FDPOOL_SIZE
    <3>1. v.p = SetFd(fdpool_insert_head(p, f), f, d) /\ v.t = WithFd(t, d, x)
      <4>1. ~(p.count >= FDPOOL_SIZE)
        BY <1>1, <2>1
      <4> QED
        BY <4>1 DEF fdpool_pool, SetFd, PooledFor, EvictedFor
    <3>2. DOMAIN v.t = DOMAIN t \cup {d} /\ \A e \in DOMAIN v.t : v.t[e] = IF e = d THEN x ELSE t[e]
      BY <3>1 DEF WithFd
    <3>3. \A e : e \in DOMAIN v.t <=> e = d \/ (e # INVALID_FD /\ \E g \in Files : p.fd[g] = e)
      <4>1. \A e : e \in DOMAIN t <=> e # INVALID_FD /\ \E g \in Files : p.fd[g] = e
        BY DEF IsPool
      <4>2. \A e : e \in DOMAIN v.t <=> e \in DOMAIN t \/ e = d
        BY <3>2
      <4> QED
        BY <1>2, <4>1, <4>2
    <3>4. Len(s) = from - 1 /\ \A i \in 1 .. Len(s) : ~(i > Len(s))
      BY <1>1, <1>5, <2>1
    <3>5. Made(p, s)
      BY <1>1, <3>1, <3>2, <3>3, <3>4
    <3> HIDE DEF Made
    <3> QED
      BY <3>5
  <2>2. CASE ~(Len(s) < FDPOOL_SIZE)
    <3>1. PICK u : u = EvictedFor(p, t, d, x)
      OBVIOUS
    <3>2. v.p = SetFd(fdpool_insert_head(u.p, f), f, d) /\ v.t = u.t
      <4>1. p.count >= FDPOOL_SIZE
        BY <1>1, <2>2
      <4> QED
        BY <3>1, <4>1 DEF fdpool_pool, SetFd, PooledFor, EvictedFor
    <3>3. PICK w : w = Shorter(s)
      OBVIOUS
    <3>4. /\ IsRing(u.p, w) /\ Len(w) = Len(s) - 1 /\ Len(s) - 1 \in Nat /\ s[Len(s)] \in Files
          /\ u.p.fd = [p.fd EXCEPT ![s[Len(s)]] = INVALID_FD]
          /\ DOMAIN u.t = (DOMAIN t \cup {d}) \ {p.fd[s[Len(s)]]}
          /\ \A e \in DOMAIN u.t : u.t[e] = IF e = d THEN x ELSE t[e]
      <4>1. Len(s) >= FDPOOL_SIZE
        BY <1>1, <2>2
      <4>2. IsEvicted(u, p, t, s, d, x)
        BY <1>2, <3>1, <4>1, Evicted
      <4> QED
        BY <3>3, <4>2 DEF IsEvicted
    <3>5. PICK l \in Files : l = s[Len(s)]
      BY <3>4
    <3>6. p.fd[l] # INVALID_FD /\ p.fd[l] \in DOMAIN t /\ p.fd[l] # d
      <4>1. Len(s) \in 1 .. Len(s)
        BY <1>1, <2>2
      <4> QED
        BY <1>4, <3>5, <4>1 DEF IsPool
    <3>7. \A g \in Files : u.p.fd[g] = IF g = l THEN INVALID_FD ELSE p.fd[g]
      BY <1>1, <3>4, <3>5
    <3>8. \A g \in Files : g = l <=> \E i \in 1 .. Len(s) : s[i] = g /\ i > Len(w)
      BY <1>1, <2>2, <3>4, <3>5
    <3>9. \A e : e \in DOMAIN u.t <=> e = d \/ (e # INVALID_FD /\ \E g \in Files : u.p.fd[g] = e)
      <4>1. \A e : e \in DOMAIN t <=> e # INVALID_FD /\ \E g \in Files : p.fd[g] = e
        BY DEF IsPool
      <4>2. \A g \in Files : p.fd[g] = p.fd[l] => g = l
        BY <3>6 DEF IsPool
      <4>3. \A e : e \in DOMAIN u.t <=> (e \in DOMAIN t \/ e = d) /\ e # p.fd[l]
        BY <3>4, <3>5
      <4>4. ASSUME NEW e, e \in DOMAIN u.t
            PROVE  e = d \/ (e # INVALID_FD /\ \E g \in Files : u.p.fd[g] = e)
        <5>1. CASE e = d
          BY <5>1
        <5>2. CASE e # d
          <6>1. e \in DOMAIN t /\ e # p.fd[l]
            BY <4>3, <4>4, <5>2
          <6>2. PICK g \in Files : p.fd[g] = e
            BY <4>1, <6>1
          <6>3. u.p.fd[g] = e /\ e # INVALID_FD
            BY <3>7, <4>1, <6>1, <6>2
          <6> QED
            BY <6>3
        <5> QED
          BY <5>1, <5>2
      <4>5. ASSUME NEW g \in Files, u.p.fd[g] # INVALID_FD
            PROVE  u.p.fd[g] \in DOMAIN u.t
        <5>1. g # l /\ u.p.fd[g] = p.fd[g]
          BY <3>7, <4>5
        <5> QED
          BY <4>1, <4>2, <4>3, <4>5, <5>1
      <4>6. d \in DOMAIN u.t
        BY <3>6, <4>3
      <4> QED
        BY <4>4, <4>5, <4>6
    <3>10. Len(w) = from - 1 /\ \A i \in 1 .. Len(w) : w[i] = s[i]
      BY <1>1, <1>5, <2>2, <3>3, <3>4 DEF Shorter
    <3>11. \A g \in Files : u.p.fd[g] = IF (\E i \in 1 .. Len(s) : s[i] = g /\ i > Len(w)) THEN INVALID_FD ELSE p.fd[g]
      BY <3>7, <3>8
    <3>12. DOMAIN v.t \subseteq DOMAIN t \cup {d}
      BY <3>2, <3>4
    <3>13. /\ IsRing(u.p, w) /\ DOMAIN v.t = DOMAIN u.t
           /\ \A e \in DOMAIN v.t : v.t[e] = IF e = d THEN x ELSE t[e]
      BY <3>2, <3>4
    <3>14. Made(u.p, w)
      BY <3>2, <3>9, <3>10, <3>11, <3>12, <3>13
    <3> HIDE DEF Made
    <3> QED
      BY <3>14
  <2> QED
    BY <2>1, <2>2
<1>8. from \in Nat /\ from >= 1 /\ from <= FDPOOL_SIZE /\ from - 1 <= Len(s)
  BY <1>1, <1>5
<1>9. PICK r : r = Longer(w, f)
  OBVIOUS
<1>10. \A i \in 1 .. Len(w) : i \in 1 .. Len(s) /\ w[i] # f
  BY <1>1, <1>3, <1>7, <1>8
<1>11. IsRing(v.p, r) /\ v.p.fd = [room.fd EXCEPT ![f] = d] /\ Len(r) = Len(w) + 1
  <2>1. d \in Int
    BY <1>2
  <2> QED
    BY <1>7, <1>9, <1>10, <2>1, PooledInRoom
<1>12. r = UsedNow(s, f) /\ Len(r) = from
  <2>1. Len(w) + 1 = from
    BY <1>7, <1>8
  <2>2. \A i \in 1 .. from : i # 1 => w[i - 1] = s[i - 1]
    BY <1>7, <1>8
  <2> QED
    BY <1>6, <1>9, <1>11, <2>1, <2>2 DEF Longer
<1>13. room.fd \in [Files -> Int]
  BY <1>7 DEF IsRing, Pools
<1>14. \A g \in Files : v.p.fd[g] = IF g = f THEN d ELSE room.fd[g]
  BY <1>11, <1>13
<1>15. room.fd[f] = INVALID_FD /\ \A g \in Files : room.fd[g] # INVALID_FD => room.fd[g] = p.fd[g]
  BY <1>7
<1>16. \A g \in Files : v.p.fd[g] # INVALID_FD <=> \E i \in 1 .. Len(r) : r[i] = g
  <2>1. \A g \in Files : room.fd[g] # INVALID_FD <=> \E i \in 1 .. Len(w) : w[i] = g
    <3> TAKE g \in Files
    <3>1. p.fd[g] # INVALID_FD <=> \E i \in 1 .. Len(s) : s[i] = g
      BY DEF IsPool
    <3>2. Len(w) \in Nat /\ Len(w) <= Len(s)
      BY <1>7, <1>8
    <3>3. ASSUME room.fd[g] # INVALID_FD PROVE \E i \in 1 .. Len(w) : w[i] = g
      <4>1. PICK i \in 1 .. Len(s) : s[i] = g /\ ~(i > Len(w))
        BY <1>7, <3>1, <3>3
      <4>2. i \in 1 .. Len(w)
        BY <1>1, <3>2, <4>1
      <4> QED
        BY <1>7, <4>1, <4>2
    <3>4. ASSUME NEW i \in 1 .. Len(w), w[i] = g PROVE room.fd[g] # INVALID_FD
      <4>1. i \in 1 .. Len(s) /\ s[i] = g /\ ~(i > Len(w))
        BY <1>7, <1>10, <3>2, <3>4
      <4>2. ~\E j \in 1 .. Len(s) : s[j] = g /\ j > Len(w)
        BY <1>1, <4>1
      <4> QED
        BY <1>7, <3>1, <4>1, <4>2
    <3> QED
      BY <3>3, <3>4
  <2>2. \A i \in 1 .. Len(r) : r[i] = IF i = 1 THEN f ELSE w[i - 1]
    BY <1>9, <1>11 DEF Longer
  <2> TAKE g \in Files
  <2>3. CASE g = f
    <3>1. 1 \in 1 .. Len(r)
      BY <1>8, <1>12
    <3> QED
      BY <1>2, <1>14, <2>2, <2>3, <3>1
  <2>4. CASE g # f
    <3>1. ASSUME NEW i \in 1 .. Len(r), r[i] = g PROVE \E j \in 1 .. Len(w) : w[j] = g
      <4>1. i # 1
        BY <2>2, <2>4, <3>1
      <4>2. i - 1 \in 1 .. Len(w)
        BY <1>7, <1>8, <1>12, <4>1
      <4> QED
        BY <2>2, <3>1, <4>1, <4>2
    <3>2. ASSUME NEW j \in 1 .. Len(w), w[j] = g PROVE \E i \in 1 .. Len(r) : r[i] = g
      <4>1. PICK i \in 1 .. Len(r) : i = j + 1 /\ i - 1 = j /\ i # 1
        BY <1>7, <1>8, <1>12
      <4> QED
        BY <2>2, <3>2, <4>1
    <3> QED
      BY <1>14, <2>1, <2>4, <3>1, <3>2
  <2> QED
    BY <2>3, <2>4
<1>17. \A g, h \in Files : v.p.fd[g] = v.p.fd[h] /\ g # h => v.p.fd[g] = INVALID_FD
  BY <1>4, <1>14, <1>15 DEF IsPool
<1>18. \A e : e \in DOMAIN v.t <=> e # INVALID_FD /\ \E g \in Files : v.p.fd[g] = e
  <2>1. \A e : e \in DOMAIN v.t <=> e = d \/ (e # INVALID_FD /\ \E g \in Files : room.fd[g] = e)
    BY <1>7
  <2>2. ASSUME NEW e, e \in DOMAIN v.t PROVE e # INVALID_FD /\ \E g \in Files : v.p.fd[g] = e
    BY <1>2, <1>14, <1>15, <2>1, <2>2
  <2>3. ASSUME NEW g \in Files, v.p.fd[g] # INVALID_FD PROVE v.p.fd[g] \in DOMAIN v.t
    <3>1. CASE g = f
      BY <1>14, <2>1, <3>1
    <3>2. CASE g # f
      <4>1. v.p.fd[g] = room.fd[g]
        BY <1>14, <3>2
      <4> QED
        BY <2>1, <2>3, <4>1
    <3> QED
      BY <3>1, <3>2
  <2> QED
    BY <2>2, <2>3
<1>19. DOMAIN v.t \subseteq Nat /\ IsFiniteSet(DOMAIN v.t)
  <2>1. IsFiniteSet(DOMAIN t) /\ DOMAIN t \subseteq Nat
    BY DEF IsPool
  <2>2. IsFiniteSet(DOMAIN t \cup {d})
    BY <2>1, FS_AddElement
  <2> QED
    BY <1>2, <1>7, <2>1, <2>2, FS_Subset
<1>20. IsPool(v.p, v.t, r)
  BY <1>8, <1>11, <1>12, <1>16, <1>17, <1>18, <1>19 DEF IsPool
<1>21. ASSUME NEW g \in Files, g # f, v.p.fd[g] # INVALID_FD
       PROVE  v.p.fd[g] = p.fd[g] /\ v.p.fd[g] \in DOMAIN v.t /\ v.t[v.p.fd[g]] = t[p.fd[g]]
  BY <1>4, <1>7, <1>14, <1>15, <1>18, <1>21
<1>22. v.p.fd[f] = d /\ d \in DOMAIN v.t /\ v.t[d] = x
  BY <1>2, <1>7, <1>14, <1>18
<1> QED
  BY <1>2, <1>12, <1>20, <1>21, <1>22

-----------------------------------------------------------------------------
(***************************************************************************)
(* The filesystem that is read is the one the files were imported into:    *)
(* no two extents overlap, and those of type FILE belong to files.         *)
(***************************************************************************)
Owners == Files \cup {"root"}

Imported(f) ==
    /\ FsInv(Owners, f)
    /\ \A i \in DOMAIN f.extents : f.extents[i].type = "FILE" => f.extents[i].owner \in Files

LEMMA ImportedMore ==
    ASSUME NEW f, Imported(f), NEW owner \in Owners, NEW len \in Nat, NEW type \in {"FILE", "DIR"},
           type = "FILE" => owner \in Files
    PROVE  Imported(fs_alloc_extent(f, owner, len, type).fs)
<1>1. FsInv(Owners, f)
  BY DEF Imported
<1>2. PICK g : g = fs_alloc_extent(f, owner, len, type).fs
  OBVIOUS
<1>3. FsInv(Owners, g) /\ AddsAtMost(f, owner, type, g)
  BY <1>1, <1>2, AllocInv
<1> QED
  BY <1>2, <1>3 DEF Imported, AddsAtMost

LEMMA FsImported == Imported(fs)
<1> DEFINE L == Len(Order)
           Step(i, f) == fs_alloc_extent(f, Order[i], FileSize[Order[i]], "FILE").fs
           With(w, n) == w = [i \in 0 .. n |-> IF i = 0 THEN fs_init ELSE Step(i, w[i - 1])]
<1>1. L \in Nat /\ \A i \in 1 .. L : Order[i] \in Files /\ FileSize[Order[i]] \in Nat
  <2>1. L \in Nat /\ \A i \in 1 .. L : Order[i] \in Files
    BY ReadAssumption, SeqFacts
  <2> QED
    BY <2>1, ReadAssumption
<1>2. ASSUME NEW i \in 1 .. L, NEW f, Imported(f) PROVE Imported(Step(i, f))
  <2>1. Order[i] \in Files /\ Order[i] \in Owners /\ FileSize[Order[i]] \in Nat
    BY <1>1 DEF Owners
  <2> QED
    BY <1>2, <2>1, ImportedMore
<1>3. Imported(fs_init)
  <2>1. FsInv(Owners, fs_init) /\ \A i \in DOMAIN fs_init.extents : ~IsData(fs_init.extents[i])
    BY InitFsInv
  <2> QED
    BY <2>1 DEF Imported, IsData
<1> HIDE DEF Step
<1> DEFINE T == {n \in Nat : \E w : With(w, n)}
<1>4. 0 \in T
  <2>1. With([i \in 0 .. 0 |-> fs_init], 0)
    OBVIOUS
  <2> HIDE DEF With
  <2> QED
    BY <2>1
<1>5. ASSUME NEW n \in Nat, n \in T PROVE n + 1 \in T
  <2> HIDE DEF With
  <2>1. PICK k \in Nat : k = n + 1 /\ k # 0
    OBVIOUS
  <2> SUFFICES \E w : With(w, k)
    BY <2>1
  <2>2. PICK w : With(w, n)
    BY <1>5
  <2>3. \A i \in 0 .. n : w[i] = IF i = 0 THEN fs_init ELSE Step(i, w[i - 1])
    BY <2>2 DEF With
  <2> DEFINE u == [i \in 0 .. k |-> IF i = k THEN Step(k, w[n]) ELSE w[i]]
  <2>4. \A i \in 0 .. n : u[i] = w[i]
    BY <2>1
  <2>5. u[k] = Step(k, w[n])
    BY <2>1
  <2>6. u = [i \in 0 .. k |-> u[i]]
    OBVIOUS
  <2> HIDE DEF u
  <2>7. ASSUME NEW i \in 0 .. k PROVE u[i] = IF i = 0 THEN fs_init ELSE Step(i, u[i - 1])
    <3>1. CASE i = k
      <4>1. i # 0 /\ i - 1 = n /\ n \in 0 .. n
        BY <2>1, <3>1
      <4>2. u[i - 1] = w[n]
        BY <2>4, <4>1
      <4> QED
        BY <2>5, <3>1, <4>1, <4>2
    <3>2. CASE i # k
      <4>1. i \in 0 .. n /\ (i # 0 => i - 1 \in 0 .. n)
        BY <2>1, <3>2
      <4> QED
        BY <2>3, <2>4, <4>1
    <3> QED
      BY <3>1, <3>2
  <2>8. With(u, k)
    BY <2>6, <2>7 DEF With
  <2> QED
    BY <2>8
<1>6. \E w : With(w, L)
  <2>1. Nat \subseteq T
    <3> HIDE DEF T
    <3> QED
      BY <1>4, <1>5, Induction
  <2> HIDE DEF With
  <2> QED
    BY <1>1, <2>1
<1>7. PICK w : /\ With(w, L)
               /\ fs = fs_update_free_clusters(fs_alloc_extent(w[L], "root", RootSize, "DIR").fs)
  <2> DEFINE c == CHOOSE w : With(w, L)
  <2>1. With(c, L)
    <3> HIDE DEF With
    <3> QED
      BY <1>6
  <2>2. fs = fs_update_free_clusters(fs_alloc_extent(c[L], "root", RootSize, "DIR").fs)
    BY DEF fs, Step
  <2> HIDE DEF c, With
  <2> QED
    BY <2>1, <2>2
<1>8. \A i \in 0 .. L : w[i] = IF i = 0 THEN fs_init ELSE Step(i, w[i - 1])
  BY <1>7
<1> DEFINE U == {n \in Nat : n <= L => Imported(w[n])}
<1>9. 0 \in U
  BY <1>1, <1>3, <1>8
<1>10. ASSUME NEW n \in Nat, n \in U PROVE n + 1 \in U
  <2> SUFFICES ASSUME NEW k \in 1 .. L, k = n + 1 PROVE Imported(w[k])
    BY <1>1
  <2>1. k \in 0 .. L /\ k # 0 /\ k - 1 = n /\ n <= L
    BY <1>1
  <2>2. w[k] = Step(k, w[n])
    BY <1>8, <2>1
  <2> QED
    BY <1>2, <1>10, <2>1, <2>2
<1>11. Imported(w[L])
  <2>1. Nat \subseteq U
    <3> HIDE DEF U
    <3> QED
      BY <1>9, <1>10, Induction
  <2> QED
    BY <1>1, <2>1
<1>12. PICK g : g = fs_alloc_extent(w[L], "root", RootSize, "DIR").fs /\ Imported(g)
  <2>1. RootSize \in Nat /\ "root" \in Owners
    BY <1>1 DEF RootSize, Owners
  <2> QED
    BY <1>11, <2>1, ImportedMore
<1>13. fs = [g EXCEPT !.free_clusters = g.num_clusters - g.next_cluster]
  BY <1>7, <1>12 DEF fs_update_free_clusters
<1>14. PICK free \in Int : free = g.num_clusters - g.next_cluster
  BY <1>12 DEF Imported, FsInv, FsTypes
<1>15. fs = [g EXCEPT !.free_clusters = free]
  BY <1>13, <1>14
<1>16. /\ FsTypes(Owners, fs) /\ fs.extents = g.extents /\ fs.next_cluster = g.next_cluster
       /\ fs.num_clusters = g.num_clusters /\ fs.total_size = g.total_size /\ fs.data_offset = g.data_offset
       /\ fs.fat = g.fat
  BY <1>12, <1>15 DEF Imported, FsInv, FsTypes
<1>17. Frontier(fs) = Frontier(g)
  BY <1>16 DEF Frontier
<1>18. \A e, a, n : IsChain(g, e, a, n) => IsChain(fs, e, a, n)
  BY <1>16 DEF IsChain
<1>19. \A e : Clusters(fs, e) = Clusters(g, e)
  BY <1>16 DEF Clusters, ClusterAt
<1>20. FsInv(Owners, fs)
  BY <1>12, <1>16, <1>17, <1>18, <1>19 DEF Imported, FsInv
<1> QED
  BY <1>12, <1>16, <1>20 DEF Imported

\* What the proofs use of the extents.
LEMMA ExtentFacts ==
    /\ Len(fs.extents) \in Nat /\ DOMAIN fs.extents = 1 .. Len(fs.extents)
    /\ \A j \in 1 .. Len(fs.extents) :
          /\ fs.extents[j].start \in Nat /\ fs.extents[j].len \in Nat
          /\ fs.extents[j].type \in {"BOOT", "INFO", "FAT", "FILE", "DIR"}
          /\ fs.extents[j].type = "FILE" => fs.extents[j].owner \in Files
    /\ \A i, j \in 1 .. Len(fs.extents) :
          i # j => \/ fs.extents[i].start + fs.extents[i].len <= fs.extents[j].start
                   \/ fs.extents[j].start + fs.extents[j].len <= fs.extents[i].start
<1>1. Imported(fs)
  BY FsImported
<1>2. fs.extents \in Seq(Extent(Owners))
  BY <1>1 DEF Imported, FsInv, FsTypes
<1>3. Len(fs.extents) \in Nat /\ DOMAIN fs.extents = 1 .. Len(fs.extents)
      /\ \A j \in 1 .. Len(fs.extents) : fs.extents[j] \in Extent(Owners)
  BY <1>2, SeqFacts
<1>4. \A j \in 1 .. Len(fs.extents) :
          /\ fs.extents[j].start \in Nat /\ fs.extents[j].len \in Nat
          /\ fs.extents[j].type \in {"BOOT", "INFO", "FAT", "FILE", "DIR"}
          /\ fs.extents[j].type = "FILE" => fs.extents[j].owner \in Files
  BY <1>1, <1>3 DEF Extent, Imported
<1>5. \A i, j \in 1 .. Len(fs.extents) :
          i < j => \/ fs.extents[i].start + fs.extents[i].len <= fs.extents[j].start
                   \/ fs.extents[j].start + fs.extents[j].len <= fs.extents[i].start
  BY <1>1, <1>3 DEF Imported, FsInv
<1>6. \A i, j \in 1 .. Len(fs.extents) : i # j => i < j \/ j < i
  BY <1>3
<1> QED
  BY <1>3, <1>4, <1>5, <1>6

-----------------------------------------------------------------------------
(***************************************************************************)
(* Reading.  The part that the len units from start on have in common with *)
(* the extent e: where it begins in the request and in the extent, how     *)
(* long it is, and how much of it is read of a file.                       *)
(***************************************************************************)
RStart(start, e) == IF e.start <= start THEN 0 ELSE e.start - start
EStart(start, e) == IF e.start <= start THEN start - e.start ELSE 0
PartLen(start, len, e) ==
    IF e.start <= start
    THEN IF start + len <= e.start + e.len THEN len ELSE e.start + e.len - start
    ELSE IF e.start + e.len <= start + len THEN e.len ELSE start + len - e.start
ReadLen(start, len, e) ==
    IF EStart(start, e) + PartLen(start, len, e) > UINT32_MAX
    THEN UINT32_MAX - EStart(start, e) ELSE PartLen(start, len, e)
Inside(offset, e) == e.start <= offset /\ offset < e.start + e.len

APart(at, start, len, n) ==
    [at |-> at, r_start |-> RStart(start, fs.extents[at]), e_start |-> EStart(start, fs.extents[at]), len |-> n]

(* The part is of the next extent that the request meets, or there is none. *)
Found(start, len, last, part) ==
    \/ part.at = 0 /\ \A j \in last + 1 .. Len(fs.extents) : ~Meets(start, len, fs.extents[j])
    \/ /\ part.at \in last + 1 .. Len(fs.extents) /\ part.at # 0
       /\ \A j \in last + 1 .. part.at - 1 : ~Meets(start, len, fs.extents[j])
       /\ Meets(start, len, fs.extents[part.at])
       /\ part = APart(part.at, start, len, PartLen(start, len, fs.extents[part.at]))

LEMMA PartIs ==
    ASSUME NEW start \in Nat, NEW len \in Nat, NEW at \in 1 .. Len(fs.extents)
    PROVE  PartOf(start, len, fs.extents[at], at) = APart(at, start, len, PartLen(start, len, fs.extents[at]))
<1>1. PICK e : e = fs.extents[at] /\ e.start \in Nat /\ e.len \in Nat
  BY ExtentFacts
<1>2. PICK rs, es, pl : rs = RStart(start, e) /\ es = EStart(start, e) /\ pl = PartLen(start, len, e)
  OBVIOUS
<1>3. APart(at, start, len, PartLen(start, len, fs.extents[at])) = [at |-> at, r_start |-> rs, e_start |-> es, len |-> pl]
  BY <1>1, <1>2 DEF APart
<1>4. CASE e.start <= start
  <2>1. rs = 0 /\ es = start - e.start /\ pl = IF start + len <= e.start + e.len THEN len ELSE e.start + e.len - start
    BY <1>1, <1>2, <1>4 DEF RStart, EStart, PartLen
  <2>2. PartOf(start, len, e, at) = [at |-> at, r_start |-> rs, e_start |-> es, len |-> pl]
    BY <1>1, <1>4, <2>1 DEF PartOf
  <2> QED
    BY <1>1, <1>3, <2>2
<1>5. CASE ~(e.start <= start)
  <2>1. rs = e.start - start /\ es = 0 /\ pl = IF e.start + e.len <= start + len THEN e.len ELSE start + len - e.start
    BY <1>1, <1>2, <1>5 DEF RStart, EStart, PartLen
  <2>2. PartOf(start, len, e, at) = [at |-> at, r_start |-> rs, e_start |-> es, len |-> pl]
    BY <1>1, <1>5, <2>1 DEF PartOf
  <2> QED
    BY <1>1, <1>3, <2>2
<1> QED
  BY <1>4, <1>5

LEMMA FindFinds ==
    ASSUME NEW start \in Nat, NEW len \in Nat, NEW last \in Nat
    PROVE  Found(start, len, last, fs_find_extent(fs, start, len, last))
<1> DEFINE part == fs_find_extent(fs, start, len, last)
           found == {i \in last + 1 .. Len(fs.extents) : Meets(start, len, fs.extents[i])}
           at == CHOOSE i \in found : \A j \in found : i <= j
<1>1. Len(fs.extents) \in Nat
  BY ExtentFacts
<1>2. part = IF found = {} THEN [at |-> 0] ELSE PartOf(start, len, fs.extents[at], at)
  BY DEF fs_find_extent
<1>3. CASE found = {}
  BY <1>2, <1>3 DEF Found
<1>4. CASE found # {}
  <2>1. found \in SUBSET Nat
    BY <1>1
  <2>2. \E i \in found : \A j \in found : i <= j
    BY <1>4, <2>1, LeastOf
  <2>3. at \in found /\ \A j \in found : at <= j
    BY <2>2
  <2> HIDE DEF at, found
  <2>4. part = APart(at, start, len, PartLen(start, len, fs.extents[at]))
    <3>1. at \in 1 .. Len(fs.extents)
      BY <1>1, <2>3 DEF found
    <3> QED
      BY <1>2, <1>4, <3>1, PartIs
  <2> HIDE DEF part
  <2>5. part.at = at
    BY <2>4 DEF APart
  <2>6. at \in last + 1 .. Len(fs.extents) /\ Meets(start, len, fs.extents[at])
    BY <2>3 DEF found
  <2>7. ASSUME NEW j \in last + 1 .. at - 1 PROVE ~Meets(start, len, fs.extents[j])
    <3>1. j \in last + 1 .. Len(fs.extents) /\ ~(at <= j)
      BY <1>1, <2>6
    <3> QED
      BY <2>3, <3>1 DEF found
  <2>8. at # 0
    BY <2>6
  <2>9. Found(start, len, last, part)
    BY <2>4, <2>5, <2>6, <2>7, <2>8 DEF Found
  <2> QED
    BY <2>9 DEF part
<1> QED
  BY <1>3, <1>4

\* The offsets of the request that are in an extent are those of the part.
LEMMA PartFacts ==
    ASSUME NEW start \in Nat, NEW len \in Nat, NEW j \in 1 .. Len(fs.extents), NEW e, e = fs.extents[j]
    PROVE  /\ RStart(start, e) \in Nat /\ EStart(start, e) \in Nat
           /\ \A i \in 0 .. len - 1 : Inside(start + i, e) => Meets(start, len, e)
           /\ Meets(start, len, e) => PartLen(start, len, e) \in Nat
           /\ Meets(start, len, e) => \A i \in 0 .. len - 1 :
                  Inside(start + i, e) <=> i \in RStart(start, e) .. RStart(start, e) + PartLen(start, len, e) - 1
           /\ Meets(start, len, e) => RStart(start, e) + PartLen(start, len, e) <= len
<1>1. e.start \in Nat /\ e.len \in Nat
  BY ExtentFacts
<1>2. PICK a \in Nat, b \in Nat : a = e.start /\ b = e.len
  BY <1>1
<1>3. PICK rs, es, pl : rs = RStart(start, e) /\ es = EStart(start, e) /\ pl = PartLen(start, len, e)
  OBVIOUS
<1>4. /\ a <= start => rs = 0 /\ es = start - a /\ pl = IF start + len <= a + b THEN len ELSE a + b - start
      /\ ~(a <= start) => rs = a - start /\ es = 0 /\ pl = IF a + b <= start + len THEN b ELSE start + len - a
  BY <1>2, <1>3 DEF RStart, EStart, PartLen
<1>5. Meets(start, len, e) <=> a < start + len /\ start < a + b
  BY <1>2 DEF Meets
<1>6. rs \in Nat /\ es \in Nat /\ (a < start + len /\ start < a + b => pl \in Nat /\ rs + pl <= len)
  <2>1. CASE a <= start
    BY <1>4, <2>1
  <2>2. CASE ~(a <= start)
    BY <1>4, <2>2
  <2> QED
    BY <2>1, <2>2
<1>7. ASSUME NEW i \in 0 .. len - 1
      PROVE  /\ Inside(start + i, e) => Meets(start, len, e)
             /\ Meets(start, len, e) => (Inside(start + i, e) <=> i \in rs .. rs + pl - 1)
  <2>1. Inside(start + i, e) <=> a <= start + i /\ start + i < a + b
    BY <1>2 DEF Inside
  <2>2. a <= start + i /\ start + i < a + b => a < start + len /\ start < a + b
    OBVIOUS
  <2>3. a < start + len /\ start < a + b => (a <= start + i /\ start + i < a + b <=> i \in rs .. rs + pl - 1)
    BY <1>4
  <2> QED
    BY <1>2, <1>5, <2>1, <2>2, <2>3
<1> QED
  BY <1>3, <1>5, <1>6, <1>7

LEMMA PartMet ==
    ASSUME NEW start \in Nat, NEW len \in Nat, NEW j \in 1 .. Len(fs.extents), NEW e, e = fs.extents[j],
           Meets(start, len, e), NEW i \in 0 .. len - 1
    PROVE  Inside(start + i, e) <=> i \in RStart(start, e) .. RStart(start, e) + PartLen(start, len, e) - 1
<1>1. Meets(start, len, e) => \A k \in 0 .. len - 1 :
         Inside(start + k, e) <=> k \in RStart(start, e) .. RStart(start, e) + PartLen(start, len, e) - 1
  BY PartFacts, Zenon
<1> QED
  BY <1>1

LEMMA PartOffset ==
    ASSUME NEW start \in Nat, NEW i \in Int, NEW j \in 1 .. Len(fs.extents), NEW e, e = fs.extents[j]
    PROVE  start + i - e.start = EStart(start, e) + (i - RStart(start, e))
<1>1. PICK a \in Nat : a = e.start
  BY ExtentFacts
<1>2. CASE a <= start
  BY <1>1, <1>2 DEF RStart, EStart
<1>3. CASE ~(a <= start)
  BY <1>1, <1>3 DEF RStart, EStart
<1> QED
  BY <1>2, <1>3

\* What of a file's part is in front of 2^32.
LEMMA ReadLenFacts ==
    ASSUME NEW start \in Nat, NEW len \in Nat, NEW j \in 1 .. Len(fs.extents), NEW e, e = fs.extents[j],
           Meets(start, len, e), EStart(start, e) < UINT32_MAX
    PROVE  /\ ReadLen(start, len, e) \in Nat
           /\ \A i \in 0 .. len - 1 :
                 i \in RStart(start, e) .. RStart(start, e) + ReadLen(start, len, e) - 1
                    <=> Inside(start + i, e) /\ start + i - e.start < UINT32_MAX
<1>1. /\ RStart(start, e) \in Nat /\ EStart(start, e) \in Nat /\ PartLen(start, len, e) \in Nat
      /\ \A i \in 0 .. len - 1 :
            Inside(start + i, e) <=> i \in RStart(start, e) .. RStart(start, e) + PartLen(start, len, e) - 1
      /\ \A i \in 0 .. len - 1 : start + i - e.start = EStart(start, e) + (i - RStart(start, e))
  <2>1. /\ RStart(start, e) \in Nat /\ EStart(start, e) \in Nat
        /\ Meets(start, len, e) => PartLen(start, len, e) \in Nat
    BY PartFacts
  <2>2. Meets(start, len, e) => \A i \in 0 .. len - 1 :
            Inside(start + i, e) <=> i \in RStart(start, e) .. RStart(start, e) + PartLen(start, len, e) - 1
    BY PartFacts, Zenon
  <2>3. \A i \in 0 .. len - 1 : start + i - e.start = EStart(start, e) + (i - RStart(start, e))
    BY PartOffset
  <2> QED
    BY <2>1, <2>2, <2>3
<1>2. PICK rs \in Nat, es \in Nat, pl \in Nat : rs = RStart(start, e) /\ es = EStart(start, e) /\ pl = PartLen(start, len, e)
  BY <1>1
<1>3. UINT32_MAX \in Nat
  BY ReadAssumption
<1>4. PICK n \in Nat : n = ReadLen(start, len, e) /\ n = IF es + pl > UINT32_MAX THEN UINT32_MAX - es ELSE pl
  BY <1>2, <1>3 DEF ReadLen
<1>5. ASSUME NEW i \in 0 .. len - 1
      PROVE  i \in rs .. rs + n - 1 <=> Inside(start + i, e) /\ start + i - e.start < UINT32_MAX
  <2>1. (Inside(start + i, e) <=> i \in rs .. rs + pl - 1) /\ start + i - e.start = es + (i - rs)
    BY <1>1, <1>2
  <2>2. i \in rs .. rs + n - 1 <=> i \in rs .. rs + pl - 1 /\ es + (i - rs) < UINT32_MAX
    BY <1>3, <1>4
  <2> QED
    BY <2>1, <2>2
<1> QED
  BY <1>2, <1>4, <1>5

\* What the device has inside an extent, and outside of all.
LEMMA UnitOf ==
    ASSUME NEW offset \in Nat, NEW j \in 1 .. Len(fs.extents), NEW e, e = fs.extents[j], Inside(offset, e)
    PROVE  DeviceUnit(offset) =
             IF e.type = "FILE" THEN IF offset - e.start < FileSize[e.owner] THEN <<e.owner, 1, offset - e.start>> ELSE Zero
             ELSE IF offset - e.start < BufferSize(e) THEN <<e.type, 0, offset - e.start>> ELSE Zero
<1> DEFINE here == {i \in DOMAIN fs.extents :
                       fs.extents[i].start <= offset /\ offset < fs.extents[i].start + fs.extents[i].len}
<1>1. DOMAIN fs.extents = 1 .. Len(fs.extents)
  BY ExtentFacts
<1>2. j \in here
  BY <1>1 DEF Inside
<1>3. ASSUME NEW i \in here PROVE i = j
  <2>1. /\ fs.extents[i].start \in Nat /\ fs.extents[i].len \in Nat
        /\ fs.extents[j].start \in Nat /\ fs.extents[j].len \in Nat
        /\ i # j => \/ fs.extents[i].start + fs.extents[i].len <= fs.extents[j].start
                    \/ fs.extents[j].start + fs.extents[j].len <= fs.extents[i].start
    BY <1>1, ExtentFacts
  <2> QED
    BY <1>2, <2>1
<1>4. (CHOOSE i \in here : TRUE) = j
  <2> HIDE DEF here
  <2> QED
    BY <1>2, <1>3
<1>5. here # {}
  BY <1>2
<1>6. DeviceUnit(offset) =
        CASE here = {} -> Zero
          [] here # {} /\ fs.extents[CHOOSE i \in here : TRUE].type = "FILE" ->
               IF offset - fs.extents[CHOOSE i \in here : TRUE].start < FileSize[fs.extents[CHOOSE i \in here : TRUE].owner]
               THEN <<fs.extents[CHOOSE i \in here : TRUE].owner, 1, offset - fs.extents[CHOOSE i \in here : TRUE].start>> ELSE Zero
          [] OTHER -> IF offset - fs.extents[CHOOSE i \in here : TRUE].start < BufferSize(fs.extents[CHOOSE i \in here : TRUE])
                      THEN <<fs.extents[CHOOSE i \in here : TRUE].type, 0, offset - fs.extents[CHOOSE i \in here : TRUE].start>> ELSE Zero
  BY DEF DeviceUnit
<1> HIDE DEF here
<1>7. DeviceUnit(offset) =
        CASE here = {} -> Zero
          [] here # {} /\ e.type = "FILE" ->
               IF offset - e.start < FileSize[e.owner] THEN <<e.owner, 1, offset - e.start>> ELSE Zero
          [] OTHER -> IF offset - e.start < BufferSize(e) THEN <<e.type, 0, offset - e.start>> ELSE Zero
  BY <1>4, <1>6
<1> QED
  BY <1>5, <1>7

LEMMA UnitOfBuffer ==
    ASSUME NEW offset \in Nat, NEW j \in 1 .. Len(fs.extents), NEW e, e = fs.extents[j], Inside(offset, e), e.type # "FILE",
           NEW o, o = offset - e.start
    PROVE  DeviceUnit(offset) = IF o < BufferSize(e) THEN <<e.type, 0, o>> ELSE Zero
  BY UnitOf

LEMMA UnitOfFile ==
    ASSUME NEW offset \in Nat, NEW j \in 1 .. Len(fs.extents), NEW e, e = fs.extents[j], Inside(offset, e), e.type = "FILE",
           NEW o, o = offset - e.start
    PROVE  DeviceUnit(offset) = IF o < FileSize[e.owner] THEN <<e.owner, 1, o>> ELSE Zero
  BY UnitOf

LEMMA UnitOutside ==
    ASSUME NEW offset \in Nat, \A j \in 1 .. Len(fs.extents) : ~Inside(offset, fs.extents[j])
    PROVE  DeviceUnit(offset) = Zero
<1>1. DOMAIN fs.extents = 1 .. Len(fs.extents)
  BY ExtentFacts
<1>2. {i \in DOMAIN fs.extents : fs.extents[i].start <= offset /\ offset < fs.extents[i].start + fs.extents[i].len} = {}
  BY <1>1 DEF Inside
<1> QED
  BY <1>2 DEF DeviceUnit

(* What the buffer has of the extent at position j behind the extents up to last; lax: some file
   changed in a way that is excused. *)
ServedOf(start, len, e, i, unit) ==
    IF start + i - e.start < UINT32_MAX
    THEN /\ ReadLen(start, len, e) + ReadLen(start, len, e) <= FileSize[e.owner]
         /\ unit = <<e.owner, 1, ReadLen(start, len, e) + (i - RStart(start, e))>>
    ELSE unit = Zero

UnitIs(lax, start, len, last, i, j, unit) ==
    /\ j > last => unit = Zero
    /\ j <= last /\ fs.extents[j].type # "FILE" => unit = DeviceUnit(start + i)
    /\ j <= last /\ fs.extents[j].type = "FILE" /\ ~lax => ServedOf(start, len, fs.extents[j], i, unit)

BufferIs(lax, start, len, last, buf) ==
    /\ DOMAIN buf = 0 .. len - 1
    /\ \A i \in 0 .. len - 1 :
          /\ (\A j \in 1 .. Len(fs.extents) : ~Inside(start + i, fs.extents[j])) => buf[i] = Zero
          /\ \A j \in 1 .. Len(fs.extents) :
                Inside(start + i, fs.extents[j]) => UnitIs(lax, start, len, last, i, j, buf[i])

\* One more extent is in the buffer.
LEMMA NextInBuffer ==
    ASSUME NEW lax, NEW start \in Nat, NEW len \in Nat, NEW last \in Nat, NEW buf, BufferIs(lax, start, len, last, buf),
           NEW at \in 1 .. Len(fs.extents), at > last,
           \A k \in last + 1 .. at - 1 : ~Meets(start, len, fs.extents[k]),
           NEW new, DOMAIN new = 0 .. len - 1,
           \A i \in 0 .. len - 1 : ~Inside(start + i, fs.extents[at]) => new[i] = buf[i],
           \A i \in 0 .. len - 1 : Inside(start + i, fs.extents[at]) => UnitIs(lax, start, len, at, i, at, new[i])
    PROVE  BufferIs(lax, start, len, at, new)
<1>0. Len(fs.extents) \in Nat /\ at \in Nat
  BY ExtentFacts
<1>1. ASSUME NEW i \in 0 .. len - 1, \A j \in 1 .. Len(fs.extents) : ~Inside(start + i, fs.extents[j])
      PROVE  new[i] = Zero
  <2>1. buf[i] = Zero
    BY <1>1 DEF BufferIs
  <2> QED
    BY <1>1, <2>1
<1>2. ASSUME NEW i \in 0 .. len - 1, NEW j \in 1 .. Len(fs.extents), Inside(start + i, fs.extents[j])
      PROVE  UnitIs(lax, start, len, at, i, j, new[i])
  <2>1. CASE j = at
    BY <1>2, <2>1
  <2>2. CASE j # at
    <3>1. ~Inside(start + i, fs.extents[at])
      <4>1. /\ fs.extents[at].start \in Nat /\ fs.extents[at].len \in Nat
            /\ fs.extents[j].start \in Nat /\ fs.extents[j].len \in Nat
            /\ \/ fs.extents[at].start + fs.extents[at].len <= fs.extents[j].start
               \/ fs.extents[j].start + fs.extents[j].len <= fs.extents[at].start
        BY <2>2, ExtentFacts
      <4>2. start + i \in Int
        OBVIOUS
      <4>3. PICK o \in Int : o = start + i
        BY <4>2
      <4>4. fs.extents[j].start <= o /\ o < fs.extents[j].start + fs.extents[j].len
        BY <1>2, <4>3 DEF Inside
      <4>5. ~(fs.extents[at].start <= o /\ o < fs.extents[at].start + fs.extents[at].len)
        <5>1. PICK a \in Nat, b \in Nat, c \in Nat, d \in Nat :
                 a = fs.extents[at].start /\ b = fs.extents[at].len /\ c = fs.extents[j].start /\ d = fs.extents[j].len
          BY <4>1
        <5>2. (a + b <= c \/ c + d <= a) /\ c <= o /\ o < c + d
          BY <4>1, <4>4, <5>1
        <5>3. ~(a <= o /\ o < a + b)
          BY <5>2
        <5> QED
          BY <5>1, <5>3
      <4> QED
        BY <4>3, <4>5 DEF Inside
    <3>2. new[i] = buf[i] /\ UnitIs(lax, start, len, last, i, j, buf[i])
      BY <1>2, <3>1 DEF BufferIs
    <3>3. Meets(start, len, fs.extents[j])
      BY <1>2, PartFacts
    <3>4. j \notin last + 1 .. at - 1
      BY <3>3
    <3>5. (j > at <=> j > last) /\ (j <= at <=> j <= last)
      BY <1>0, <2>2, <3>4
    <3> QED
      BY <3>2, <3>5 DEF UnitIs
  <2> QED
    BY <2>1, <2>2
<1> QED
  BY <1>1, <1>2 DEF BufferIs

-----------------------------------------------------------------------------
(* What fdpool_open does: nothing, if the file cannot be opened, or its descriptor is one that is
   open for the inode it was open for, or for the inode the path leads to. *)
OpenedIs(o, s, f, x) ==
    \/ o.fd = INVALID_FD /\ o.s.p = pool /\ o.s.t = fdtable
    \/ /\ o.fd # INVALID_FD /\ o.s.p.fd[f] = o.fd
       /\ IsPool(o.s.p, o.s.t, UsedNow(s, f))
       /\ \A g \in Files : o.s.p.fd[g] # INVALID_FD =>
             \/ pool.fd[g] # INVALID_FD /\ o.s.t[o.s.p.fd[g]] = fdtable[pool.fd[g]]
             \/ g = f /\ x # 0 /\ o.s.t[o.s.p.fd[g]] = x

LEMMA Opened ==
    ASSUME NEW s, IsPool(pool, fdtable, s), NEW f \in Files, NEW x
    PROVE  OpenedIs(fdpool_open(f, x), s, f, x)
<1>1. PICK o : o = fdpool_open(f, x)
  OBVIOUS
<1>2. CASE pool.fd[f] # INVALID_FD
  <2>1. PICK p : p = fdpool_touch(pool, f)
    OBVIOUS
  <2>2. o = [fd |-> pool.fd[f], s |-> [p |-> p, t |-> fdtable]]
    BY <1>1, <1>2, <2>1 DEF fdpool_open
  <2>3. o.fd = pool.fd[f] /\ o.s.p = p /\ o.s.t = fdtable
    BY <2>2
  <2>4. IsPool(p, fdtable, UsedNow(s, f)) /\ p.fd = pool.fd
    BY <1>2, <2>1, Touched
  <2> QED
    BY <1>1, <1>2, <2>3, <2>4 DEF OpenedIs
<1>3. CASE pool.fd[f] = INVALID_FD /\ x = 0
  <2>1. o = [fd |-> INVALID_FD, s |-> [p |-> pool, t |-> fdtable]]
    BY <1>1, <1>3 DEF fdpool_open
  <2> QED
    BY <1>1, <2>1 DEF OpenedIs
<1>4. CASE pool.fd[f] = INVALID_FD /\ x # 0
  <2>1. PICK d : d = NewFd(fdtable)
    OBVIOUS
  <2>2. PICK v : v = PooledFor(pool, fdtable, f, d, x)
    OBVIOUS
  <2>3. o = [fd |-> d, s |-> v]
    BY <1>1, <1>4, <2>1, <2>2, Zenon DEF fdpool_open, PooledFor, WithFd
  <2>4. o.fd = d /\ o.s = v
    BY <2>3
  <2>5. /\ IsPool(v.p, v.t, UsedNow(s, f))
        /\ d # INVALID_FD /\ v.p.fd[f] = d /\ v.t[d] = x
        /\ \A g \in Files : g # f /\ v.p.fd[g] # INVALID_FD => v.p.fd[g] = pool.fd[g] /\ v.t[v.p.fd[g]] = fdtable[pool.fd[g]]
    BY <1>4, <2>1, <2>2, PooledNew
  <2> QED
    BY <1>1, <1>4, <2>4, <2>5 DEF OpenedIs
<1> QED
  BY <1>2, <1>3, <1>4

-----------------------------------------------------------------------------
(***************************************************************************)
(* The invariant of reading.                                               *)
(***************************************************************************)
ARead(pc, start, len, last, part, buf) ==
    [pc |-> pc, start |-> start, len |-> len, last |-> last, part |-> part, buf |-> buf]

(* The part is of the next extent, which is a file's, and what of it is in front of 2^32. *)
PartChecked(start, len, last, part) ==
    \E j \in last + 1 .. Len(fs.extents) :
        /\ j # 0 /\ fs.extents[j].type = "FILE" /\ Meets(start, len, fs.extents[j])
        /\ \A k \in last + 1 .. j - 1 : ~Meets(start, len, fs.extents[k])
        /\ EStart(start, fs.extents[j]) < UINT32_MAX
        /\ part = APart(j, start, len, ReadLen(start, len, fs.extents[j]))

ReadIs(lax, pc, start, len, last, part, buf) ==
    /\ start \in Nat /\ len \in Nat /\ last \in Nat
    /\ pc \in {"find", "check", "read", "ok"}
    /\ BufferIs(lax, start, len, last, buf)
    /\ pc \in {"check", "read"} => PartChecked(start, len, last, part)
    /\ pc = "ok" => \A j \in last + 1 .. Len(fs.extents) : ~Meets(start, len, fs.extents[j])

RdInv ==
    \/ rd.pc \in {"idle", "error", "falling"}
    \/ \E pc, start, len, last, part, buf :
          rd = ARead(pc, start, len, last, part, buf) /\ ReadIs(excused, pc, start, len, last, part, buf)

ReqInv == req.op = "read" => req.start \in Nat /\ req.len \in Nat

PoolInv == \E s : IsPool(pool, fdtable, s)

(* Each path has an inode of its own, and the descriptor of a file is not open for that of another. *)
DiskTypes ==
    /\ disk \in [Files -> [ino : Nat, mtime : Nat]]
    /\ inodes \in Seq(Int)
    /\ \A f \in Files : disk[f].ino \in 0 .. Len(inodes)
    /\ \A f, g \in Files : f # g /\ disk[f].ino = disk[g].ino => disk[f].ino = 0

FdsApart ==
    \A f \in Files : pool.fd[f] # INVALID_FD =>
        /\ fdtable[pool.fd[f]] \in 1 .. Len(inodes)
        /\ \A g \in Files : g # f => fdtable[pool.fd[f]] # disk[g].ino

(* Unless there is an excuse, a file that has the time of its import has its content too, at its
   path and behind its descriptor, and a file that is read has been checked. *)
Imports ==
    ~excused =>
        /\ \A f \in Files : disk[f].mtime = 0 =>
              /\ disk[f].ino # 0 => inodes[disk[f].ino] = 1
              /\ pool.fd[f] # INVALID_FD => inodes[fdtable[pool.fd[f]]] = 1
        /\ rd.pc = "read" => disk[fs.extents[rd.part.at].owner].mtime = 0

ReadInv == ReqInv /\ PoolInv /\ RdInv /\ DiskTypes /\ FdsApart /\ Imports

LEMMA ReadFields ==
    ASSUME NEW pc, NEW start, NEW len, NEW last, NEW part, NEW buf, NEW r, r = ARead(pc, start, len, last, part, buf)
    PROVE  r.pc = pc /\ r.start = start /\ r.len = len /\ r.last = last /\ r.part = part /\ r.buf = buf
  BY DEF ARead

LEMMA SetPc ==
    ASSUME NEW pc, NEW start, NEW len, NEW last, NEW part, NEW buf, NEW r, r = ARead(pc, start, len, last, part, buf), NEW c
    PROVE  [r EXCEPT !.pc = c] = ARead(c, start, len, last, part, buf)
  BY DEF ARead

LEMMA SetLast ==
    ASSUME NEW pc, NEW start, NEW len, NEW last, NEW part, NEW buf, NEW r, r = ARead(pc, start, len, last, part, buf), NEW l
    PROVE  [r EXCEPT !.last = l] = ARead(pc, start, len, l, part, buf)
  BY DEF ARead

WithLastBuf(r, l, b) == [r EXCEPT !.last = l, !.buf = b]
WithPcPart(r, c, p) == [r EXCEPT !.pc = c, !.part = p]
WithPcLastBuf(r, c, l, b) == [r EXCEPT !.pc = c, !.last = l, !.buf = b]

LEMMA SetLastBuf ==
    ASSUME NEW pc, NEW start, NEW len, NEW last, NEW part, NEW buf, NEW r, r = ARead(pc, start, len, last, part, buf),
           NEW l, NEW b
    PROVE  WithLastBuf(r, l, b) = ARead(pc, start, len, l, part, b)
<1>1. PICK g : g = [r EXCEPT !.last = l]
  OBVIOUS
<1>2. g = ARead(pc, start, len, l, part, buf)
  BY SetLast, <1>1
<1>3. [g EXCEPT !.buf = b] = ARead(pc, start, len, l, part, b)
  BY <1>2 DEF ARead
<1> QED
  BY <1>1, <1>3, Zenon DEF WithLastBuf

LEMMA SetPcPart ==
    ASSUME NEW pc, NEW start, NEW len, NEW last, NEW part, NEW buf, NEW r, r = ARead(pc, start, len, last, part, buf),
           NEW c, NEW p
    PROVE  WithPcPart(r, c, p) = ARead(c, start, len, last, p, buf)
<1>1. PICK g : g = [r EXCEPT !.pc = c]
  OBVIOUS
<1>2. g = ARead(c, start, len, last, part, buf)
  BY SetPc, <1>1
<1>3. [g EXCEPT !.part = p] = ARead(c, start, len, last, p, buf)
  BY <1>2 DEF ARead
<1> QED
  BY <1>1, <1>3, Zenon DEF WithPcPart

LEMMA SetPcLastBuf ==
    ASSUME NEW pc, NEW start, NEW len, NEW last, NEW part, NEW buf, NEW r, r = ARead(pc, start, len, last, part, buf),
           NEW c, NEW l, NEW b
    PROVE  WithPcLastBuf(r, c, l, b) = ARead(c, start, len, l, part, b)
<1>1. PICK g : g = [r EXCEPT !.pc = c]
  OBVIOUS
<1>2. g = ARead(c, start, len, last, part, buf)
  BY SetPc, <1>1
<1>3. WithLastBuf(g, l, b) = ARead(c, start, len, l, part, b)
  BY <1>2, SetLastBuf
<1> QED
  BY <1>1, <1>3, Zenon DEF WithPcLastBuf, WithLastBuf

LEMMA PartFields ==
    ASSUME NEW at, NEW start, NEW len, NEW n, NEW p, p = APart(at, start, len, n)
    PROVE  /\ p.at = at /\ p.r_start = RStart(start, fs.extents[at]) /\ p.e_start = EStart(start, fs.extents[at]) /\ p.len = n
           /\ \A m : [p EXCEPT !.len = m] = APart(at, start, len, m)
  BY DEF APart

\* The file that is read, or is about to be, is a file.
LEMMA PartIsOfFile ==
    ASSUME RdInv, rd.pc \in {"check", "read"}
    PROVE  fs.extents[rd.part.at].owner \in Files /\ rd.part.at \in 1 .. Len(fs.extents)
<1>1. PICK pc, start, len, last, part, buf :
         rd = ARead(pc, start, len, last, part, buf) /\ ReadIs(excused, pc, start, len, last, part, buf)
  BY DEF RdInv
<1>2. rd.pc = pc /\ rd.part = part
  BY <1>1, ReadFields
<1>3. PartChecked(start, len, last, part) /\ last \in Nat
  BY <1>1, <1>2 DEF ReadIs
<1>4. PICK j \in last + 1 .. Len(fs.extents) : fs.extents[j].type = "FILE" /\ part = APart(j, start, len, ReadLen(start, len, fs.extents[j]))
  BY <1>3 DEF PartChecked
<1>5. part.at = j
  BY <1>4, PartFields
<1>6. j \in 1 .. Len(fs.extents)
  BY <1>3, <1>4, ExtentFacts
<1> QED
  BY <1>2, <1>4, <1>5, <1>6, ExtentFacts

\* An excuse weakens what is known of the buffer.
LEMMA Excused ==
    ASSUME NEW lax, NEW more, lax => more, NEW start, NEW len, NEW last, NEW buf, BufferIs(lax, start, len, last, buf)
    PROVE  BufferIs(more, start, len, last, buf)
  BY DEF BufferIs, UnitIs

-----------------------------------------------------------------------------
\* What the step that looks for the next extent starts from.
LEMMA Finding ==
    ASSUME RdInv, rd.pc = "find"
    PROVE  \E start, len, last, part, buf :
              /\ rd = ARead("find", start, len, last, part, buf)
              /\ start \in Nat /\ len \in Nat /\ last \in Nat /\ BufferIs(excused, start, len, last, buf)
              /\ rd.start = start /\ rd.len = len /\ rd.last = last /\ rd.buf = buf
              /\ Found(start, len, last, Part)
<1>1. PICK pc, start, len, last, part, buf :
         rd = ARead(pc, start, len, last, part, buf) /\ ReadIs(excused, pc, start, len, last, part, buf)
  BY DEF RdInv
<1>2. rd.pc = pc /\ rd.start = start /\ rd.len = len /\ rd.last = last /\ rd.buf = buf
  BY <1>1, ReadFields
<1>3. start \in Nat /\ len \in Nat /\ last \in Nat /\ BufferIs(excused, start, len, last, buf)
  BY <1>1 DEF ReadIs
<1>4. Found(start, len, last, Part)
  BY <1>2, <1>3, FindFinds DEF Part
<1> QED
  BY <1>1, <1>2, <1>3, <1>4

\* All extents have been looked at (fs_read).
LEMMA NoMoreExtentsReads ==
    ASSUME RdInv, NoMoreExtents
    PROVE  RdInv'
<1>1. rd.pc = "find" /\ Part.at = 0 /\ rd' = [rd EXCEPT !.pc = "ok"] /\ excused' = excused
  BY DEF NoMoreExtents
<1>2. PICK start, len, last, part, buf :
         /\ rd = ARead("find", start, len, last, part, buf)
         /\ start \in Nat /\ len \in Nat /\ last \in Nat /\ BufferIs(excused, start, len, last, buf)
         /\ Found(start, len, last, Part)
  BY <1>1, Finding
<1>3. rd' = ARead("ok", start, len, last, part, buf)
  <2>1. rd = ARead("find", start, len, last, part, buf)
    BY <1>2
  <2>2. rd' = [rd EXCEPT !.pc = "ok"]
    BY <1>1
  <2>3. [rd EXCEPT !.pc = "ok"] = ARead("ok", start, len, last, part, buf)
    BY <2>1, SetPc
  <2> QED
    BY <2>2, <2>3, Zenon
<1>4. ReadIs(excused, "ok", start, len, last, part, buf)
  BY <1>1, <1>2 DEF ReadIs, Found
<1> QED
  BY <1>1, <1>3, <1>4 DEF RdInv

\* The next extent is kept in memory (buffer_read).
LEMMA ReadBufferReads ==
    ASSUME RdInv, ReadBuffer
    PROVE  RdInv'
<1>1. /\ rd.pc = "find" /\ Part.at # 0 /\ fs.extents[Part.at].type # "FILE" /\ excused' = excused
      /\ rd' = [rd EXCEPT !.last = Part.at, !.buf = buffer_read(Part, fs.extents[Part.at])]
  BY DEF ReadBuffer
<1>2. PICK start, len, last, part, buf :
         /\ rd = ARead("find", start, len, last, part, buf)
         /\ start \in Nat /\ len \in Nat /\ last \in Nat /\ BufferIs(excused, start, len, last, buf)
         /\ rd.buf = buf
         /\ Found(start, len, last, Part)
  BY <1>1, Finding
<1>3. PICK at, e, n, new : at = Part.at /\ e = fs.extents[at] /\ n = PartLen(start, len, e) /\ new = buffer_read(Part, e)
  OBVIOUS
<1>4. /\ at \in last + 1 .. Len(fs.extents)
      /\ \A j \in last + 1 .. at - 1 : ~Meets(start, len, fs.extents[j])
      /\ Meets(start, len, e) /\ Part = APart(at, start, len, n)
  BY <1>1, <1>2, <1>3 DEF Found
<1>5. at \in 1 .. Len(fs.extents) /\ at > last /\ Len(fs.extents) \in Nat /\ at \in Nat
  BY <1>2, <1>4, ExtentFacts
<1>6. Part.r_start = RStart(start, e) /\ Part.e_start = EStart(start, e) /\ Part.len = n
  BY <1>3, <1>4, PartFields
<1>7. DOMAIN buf = 0 .. len - 1
  BY <1>2 DEF BufferIs
<1>8. PICK rs, es : rs = RStart(start, e) /\ es = EStart(start, e)
  OBVIOUS
<1>9. new = [i \in 0 .. len - 1 |->
               IF i \in rs .. rs + n - 1
               THEN IF es + (i - rs) < BufferSize(e) THEN <<e.type, 0, es + (i - rs)>> ELSE Zero
               ELSE buf[i]]
  BY <1>2, <1>3, <1>6, <1>7, <1>8, Zenon DEF buffer_read, Fill
<1>10. ASSUME NEW i \in 0 .. len - 1, ~Inside(start + i, e)
       PROVE  new[i] = buf[i]
  <2>1. i \notin rs .. rs + n - 1
    BY <1>2, <1>3, <1>4, <1>5, <1>8, <1>10, PartMet
  <2> QED
    BY <1>9, <2>1
<1>11. ASSUME NEW i \in 0 .. len - 1, Inside(start + i, e)
       PROVE  new[i] = DeviceUnit(start + i)
  <2>1. i \in rs .. rs + n - 1
    BY <1>2, <1>3, <1>4, <1>5, <1>8, <1>11, PartFacts
  <2>2. start + i - e.start = es + (i - rs)
    BY <1>2, <1>3, <1>5, <1>8, PartOffset
  <2>3. PICK o : o = start + i - e.start
    OBVIOUS
  <2>4. new[i] = IF o < BufferSize(e) THEN <<e.type, 0, o>> ELSE Zero
    BY <1>9, <2>1, <2>2, <2>3
  <2>5. start + i \in Nat
    BY <1>2
  <2>6. DeviceUnit(start + i) = IF o < BufferSize(e) THEN <<e.type, 0, o>> ELSE Zero
    <3>1. e = fs.extents[at] /\ e.type # "FILE"
      BY <1>1, <1>3
    <3>2. PICK offset \in Nat : offset = start + i
      BY <2>5
    <3>3. PICK a \in Nat : a = e.start
      BY <1>5, <3>1, ExtentFacts
    <3>4. o = offset - e.start
      BY <1>2, <2>3, <3>2, <3>3
    <3>5. Inside(offset, e)
      BY <1>11, <3>2, Zenon
    <3>6. DeviceUnit(offset) = IF o < BufferSize(e) THEN <<e.type, 0, o>> ELSE Zero
      BY <1>5, <3>1, <3>4, <3>5, UnitOfBuffer
    <3> QED
      BY <3>2, <3>6
  <2> QED
    BY <2>4, <2>6
<1>12. BufferIs(excused, start, len, at, new)
  <2>1. DOMAIN new = 0 .. len - 1
    BY <1>9
  <2>2. ASSUME NEW i \in 0 .. len - 1, Inside(start + i, fs.extents[at])
        PROVE  UnitIs(excused, start, len, at, i, at, new[i])
    BY <1>1, <1>3, <1>5, <1>11, <2>2 DEF UnitIs
  <2>3. \A i \in 0 .. len - 1 : ~Inside(start + i, fs.extents[at]) => new[i] = buf[i]
    BY <1>3, <1>10
  <2> QED
    BY <1>2, <1>4, <1>5, <2>1, <2>2, <2>3, NextInBuffer
<1>13. rd' = [rd EXCEPT !.last = at, !.buf = new]
  BY <1>1, <1>3, Zenon
<1>14. rd' = ARead("find", start, len, at, part, new)
  <2>1. rd = ARead("find", start, len, last, part, buf)
    BY <1>2
  <2>2. WithLastBuf(rd, at, new) = ARead("find", start, len, at, part, new)
    BY <2>1, SetLastBuf
  <2> QED
    BY <1>13, <2>2, Zenon DEF WithLastBuf
<1>15. ReadIs(excused, "find", start, len, at, part, new)
  BY <1>2, <1>5, <1>12 DEF ReadIs
<1> QED
  BY <1>1, <1>14, <1>15 DEF RdInv

\* The next extent is a file (file_read, in front of its check).
LEMMA StartFileReads ==
    ASSUME RdInv, StartFile
    PROVE  RdInv' /\ rd'.pc # "read"
<1>1. /\ rd.pc = "find" /\ Part.at # 0 /\ fs.extents[Part.at].type = "FILE" /\ excused' = excused
  BY DEF StartFile
<1>2. PICK start, len, last, part, buf :
         /\ rd = ARead("find", start, len, last, part, buf)
         /\ start \in Nat /\ len \in Nat /\ last \in Nat /\ BufferIs(excused, start, len, last, buf)
         /\ Found(start, len, last, Part)
  BY <1>1, Finding
<1>3. PICK at, e, n : at = Part.at /\ e = fs.extents[at] /\ n = PartLen(start, len, e)
  OBVIOUS
<1>4. /\ at \in last + 1 .. Len(fs.extents) /\ at # 0
      /\ \A j \in last + 1 .. at - 1 : ~Meets(start, len, fs.extents[j])
      /\ Meets(start, len, e) /\ Part = APart(at, start, len, n)
  BY <1>1, <1>2, <1>3 DEF Found
<1>5. at \in 1 .. Len(fs.extents) /\ at > last /\ Len(fs.extents) \in Nat /\ at \in Nat
  BY <1>2, <1>4, ExtentFacts
<1>6. Part.r_start = RStart(start, e) /\ Part.e_start = EStart(start, e) /\ Part.len = n
  BY <1>3, <1>4, PartFields
<1>7. UINT32_MAX \in Nat /\ EStart(start, e) \in Nat
  BY <1>2, <1>3, <1>5, ReadAssumption, PartFacts
<1>8. CASE Part.e_start >= UINT32_MAX
  <2>1. rd' = [rd EXCEPT !.last = at]
    BY <1>3, <1>8 DEF StartFile
  <2>2. rd' = ARead("find", start, len, at, part, buf)
    <3>1. rd = ARead("find", start, len, last, part, buf)
      BY <1>2
    <3>2. [rd EXCEPT !.last = at] = ARead("find", start, len, at, part, buf)
      BY <3>1, SetLast
    <3> QED
      BY <2>1, <3>2, Zenon
  <2>3. ASSUME NEW i \in 0 .. len - 1, Inside(start + i, e)
        PROVE  UnitIs(excused, start, len, at, i, at, buf[i])
    <3>1. buf[i] = Zero
      BY <1>2, <1>3, <1>5, <2>3 DEF BufferIs, UnitIs
    <3>2. i \in RStart(start, e) .. RStart(start, e) + PartLen(start, len, e) - 1 /\ RStart(start, e) \in Nat
      BY <1>2, <1>3, <1>4, <1>5, <2>3, PartFacts
    <3>3. start + i - e.start = EStart(start, e) + (i - RStart(start, e))
      BY <1>2, <1>3, <1>5, PartOffset
    <3>4. ~(start + i - e.start < UINT32_MAX)
      <4>1. PICK es \in Nat, rs \in Nat : es = EStart(start, e) /\ rs = RStart(start, e)
        BY <1>7, <3>2
      <4>2. i >= rs /\ es >= UINT32_MAX
        BY <1>6, <1>8, <3>2, <4>1
      <4>3. ~(es + (i - rs) < UINT32_MAX)
        BY <1>7, <4>2
      <4> QED
        BY <3>3, <4>1, <4>3
    <3> QED
      BY <1>1, <1>3, <1>5, <3>1, <3>4 DEF UnitIs, ServedOf
  <2>4. DOMAIN buf = 0 .. len - 1
    BY <1>2 DEF BufferIs
  <2>5. BufferIs(excused, start, len, at, buf)
    BY <1>2, <1>3, <1>4, <1>5, <2>3, <2>4, NextInBuffer
  <2>6. ReadIs(excused, "find", start, len, at, part, buf)
    BY <1>2, <1>5, <2>5 DEF ReadIs
  <2>7. rd'.pc = "find"
    BY <2>2, ReadFields
  <2> QED
    BY <1>1, <2>2, <2>6, <2>7 DEF RdInv
<1>9. CASE ~(Part.e_start >= UINT32_MAX)
  <2>1. PICK m, p : m = (IF Part.e_start + Part.len > UINT32_MAX THEN UINT32_MAX - Part.e_start ELSE Part.len)
                    /\ p = [Part EXCEPT !.len = m]
    OBVIOUS
  <2>2. rd' = [rd EXCEPT !.pc = "check", !.part = p]
    BY <1>9, <2>1, Zenon DEF StartFile
  <2>3. rd' = ARead("check", start, len, last, p, buf)
    <3>1. rd = ARead("find", start, len, last, part, buf)
      BY <1>2
    <3>2. WithPcPart(rd, "check", p) = ARead("check", start, len, last, p, buf)
      BY <3>1, SetPcPart
    <3> QED
      BY <2>2, <3>2, Zenon DEF WithPcPart
  <2>4. m = ReadLen(start, len, e)
    BY <1>3, <1>6, <2>1 DEF ReadLen
  <2>5. p = APart(at, start, len, ReadLen(start, len, e))
    BY <1>4, <2>1, <2>4, PartFields
  <2>6. EStart(start, e) < UINT32_MAX
    BY <1>6, <1>7, <1>9
  <2>7. PartChecked(start, len, last, p)
    BY <1>1, <1>3, <1>4, <2>5, <2>6 DEF PartChecked
  <2>8. ReadIs(excused, "check", start, len, last, p, buf)
    BY <1>2, <2>7 DEF ReadIs
  <2>9. rd'.pc = "check"
    BY <2>3, ReadFields
  <2> QED
    BY <1>1, <2>3, <2>8, <2>9 DEF RdInv
<1> QED
  BY <1>8, <1>9


\* The time of the file is looked at (file_check_metadata).
LEMMA CheckMetadataReads ==
    ASSUME RdInv, CheckMetadata
    PROVE  RdInv' /\ rd'.part = rd.part
           /\ (rd'.pc = "read" => disk[fs.extents[rd.part.at].owner].mtime = 0)
<1>1. rd.pc = "check" /\ excused' = excused
  BY DEF CheckMetadata
<1>2. PICK pc, start, len, last, part, buf :
         rd = ARead(pc, start, len, last, part, buf) /\ ReadIs(excused, pc, start, len, last, part, buf)
  BY <1>1 DEF RdInv
<1>3. pc = "check" /\ rd.part = part
  BY <1>1, <1>2, ReadFields
<1>4. PICK c : /\ c = (IF disk[fs.extents[rd.part.at].owner].ino = 0 \/ disk[fs.extents[rd.part.at].owner].mtime # 0
                      THEN "falling" ELSE "read")
               /\ rd' = [rd EXCEPT !.pc = c]
  BY Zenon DEF CheckMetadata
<1>5. rd' = ARead(c, start, len, last, part, buf)
  <2>1. rd = ARead(pc, start, len, last, part, buf)
    BY <1>2
  <2>2. [rd EXCEPT !.pc = c] = ARead(c, start, len, last, part, buf)
    BY <2>1, SetPc
  <2> QED
    BY <1>4, <2>2, Zenon
<1>6. rd'.pc = c /\ rd'.part = part
  BY <1>5, ReadFields
<1>7. CASE c = "falling"
  BY <1>3, <1>6, <1>7 DEF RdInv
<1>8. CASE c = "read"
  <2>1. ReadIs(excused, "read", start, len, last, part, buf)
    BY <1>2, <1>3 DEF ReadIs
  <2>2. disk[fs.extents[rd.part.at].owner].mtime = 0
    BY <1>4, <1>8
  <2>3. RdInv'
    BY <1>1, <1>5, <1>8, <2>1 DEF RdInv
  <2> QED
    BY <1>3, <1>6, <2>2, <2>3
<1> QED
  BY <1>4, <1>7, <1>8


\* The file is opened (file_read, fdpool_open).
LEMMA ReadFileOpens ==
    ASSUME RdInv, ReadFile, NEW s, IsPool(pool, fdtable, s)
    PROVE  \E f, o :
              /\ f \in Files /\ f = fs.extents[rd.part.at].owner /\ o = fdpool_open(f, disk[f].ino) /\ OpenedIs(o, s, f, disk[f].ino)
              /\ pool' = o.s.p /\ fdtable' = o.s.t
              /\ used' = IF o.fd = INVALID_FD THEN used ELSE f
<1>1. rd.pc = "read"
  BY DEF ReadFile
<1>2. PICK f \in Files : f = fs.extents[rd.part.at].owner
  BY <1>1, PartIsOfFile
<1>3. PICK o : o = fdpool_open(f, disk[f].ino)
  OBVIOUS
<1>4. OpenedIs(o, s, f, disk[f].ino)
  BY <1>3, Opened
<1>5. pool' = o.s.p /\ fdtable' = o.s.t /\ used' = IF o.fd = INVALID_FD THEN used ELSE f
  BY <1>2, <1>3, Zenon DEF ReadFile
<1> QED
  BY <1>2, <1>3, <1>4, <1>5

ReadWith(f, o, version, n, at, part) ==
    rd' = IF o.fd = INVALID_FD \/ n + n > FileSize[f]
          THEN [rd EXCEPT !.pc = "error"]
          ELSE [rd EXCEPT !.pc = "find", !.last = at, !.buf = Fill(part, n, LAMBDA i : <<f, version, n + i>>)]

\* The file is read: what is put into the buffer is of the content that was imported.
LEMMA ReadFileReads ==
    ASSUME RdInv, PoolInv, FdsApart, Imports, ReadFile
    PROVE  RdInv' /\ rd'.pc # "read"
<1>1. rd.pc = "read" /\ excused' = excused
  BY DEF ReadFile
<1>2. PICK pc, start, len, last, part, buf :
         rd = ARead(pc, start, len, last, part, buf) /\ ReadIs(excused, pc, start, len, last, part, buf)
  BY <1>1 DEF RdInv
<1>3. pc = "read" /\ rd.part = part /\ rd.buf = buf
  BY <1>1, <1>2, ReadFields
<1>4. /\ start \in Nat /\ len \in Nat /\ last \in Nat /\ BufferIs(excused, start, len, last, buf)
      /\ PartChecked(start, len, last, part)
  BY <1>2, <1>3 DEF ReadIs
<1>5. PICK at \in last + 1 .. Len(fs.extents) :
        /\ fs.extents[at].type = "FILE" /\ Meets(start, len, fs.extents[at])
        /\ \A k \in last + 1 .. at - 1 : ~Meets(start, len, fs.extents[k])
        /\ EStart(start, fs.extents[at]) < UINT32_MAX
        /\ part = APart(at, start, len, ReadLen(start, len, fs.extents[at]))
  BY <1>4 DEF PartChecked
<1>6. PICK e, n, rs : e = fs.extents[at] /\ n = ReadLen(start, len, e) /\ rs = RStart(start, e)
  OBVIOUS
<1>7. part.at = at /\ part.r_start = rs /\ part.len = n
  BY <1>5, <1>6, PartFields
<1>8. at \in 1 .. Len(fs.extents) /\ at > last /\ at \in Nat
  BY <1>4, <1>5, ExtentFacts
<1>9. PICK s : IsPool(pool, fdtable, s)
  BY DEF PoolInv
<1>10. PICK f, o :
          /\ f \in Files /\ f = fs.extents[rd.part.at].owner /\ o = fdpool_open(f, disk[f].ino) /\ OpenedIs(o, s, f, disk[f].ino)
  BY <1>9, ReadFileOpens
<1>11. f = e.owner
  BY <1>3, <1>6, <1>7, <1>10
<1>12. PICK version : version = inodes[o.s.t[o.fd]]
  OBVIOUS
<1>13. rd' = IF o.fd = INVALID_FD \/ n + n > FileSize[f]
             THEN [rd EXCEPT !.pc = "error"]
             ELSE [rd EXCEPT !.pc = "find", !.last = at, !.buf = Fill(part, n, LAMBDA i : <<f, version, n + i>>)]
  <2>1. LET g == fs.extents[rd.part.at].owner
            opened == fdpool_open(g, disk[g].ino)
        IN  ReadWith(g, opened, inodes[opened.s.t[opened.fd]], rd.part.len, rd.part.at, rd.part)
    BY DEF ReadFile, ReadWith
  <2>2. ReadWith(f, o, version, n, at, part)
    BY <1>3, <1>7, <1>10, <1>12, <2>1, Zenon
  <2> QED
    BY <2>2 DEF ReadWith
<1>14. CASE o.fd = INVALID_FD \/ n + n > FileSize[f]
  <2>1. rd' = [rd EXCEPT !.pc = "error"]
    BY <1>13, <1>14, Zenon
  <2>2. rd = ARead(pc, start, len, last, part, buf)
    BY <1>2
  <2>3. rd' = ARead("error", start, len, last, part, buf)
    BY <2>1, <2>2, SetPc
  <2>4. rd'.pc = "error"
    BY <2>3, ReadFields
  <2> QED
    BY <2>4 DEF RdInv
<1>15. CASE ~(o.fd = INVALID_FD \/ n + n > FileSize[f])
  <2>1. PICK new : new = Fill(part, n, LAMBDA i : <<f, version, n + i>>)
    OBVIOUS
  <2>2. rd' = ARead("find", start, len, at, part, new)
    <3>1. rd = ARead(pc, start, len, last, part, buf)
      BY <1>2
    <3>2. WithPcLastBuf(rd, "find", at, new) = ARead("find", start, len, at, part, new)
      BY <3>1, SetPcLastBuf
    <3>3. rd' = WithPcLastBuf(rd, "find", at, new)
      BY <1>13, <1>15, <2>1, Zenon DEF WithPcLastBuf
    <3> QED
      BY <3>2, <3>3
  <2>3. DOMAIN buf = 0 .. len - 1
    BY <1>4 DEF BufferIs
  <2>4. new = [i \in 0 .. len - 1 |-> IF i \in rs .. rs + n - 1 THEN <<f, version, n + (i - rs)>> ELSE buf[i]]
    BY <1>3, <1>7, <2>1, <2>3, Zenon DEF Fill
  <2>5. ~excused => version = 1
    <3> SUFFICES ASSUME ~excused PROVE version = 1
      OBVIOUS
    <3>1. disk[f].mtime = 0
      BY <1>1, <1>10 DEF Imports
    <3>2. /\ disk[f].ino # 0 => inodes[disk[f].ino] = 1
          /\ pool.fd[f] # INVALID_FD => inodes[fdtable[pool.fd[f]]] = 1
      BY <1>10, <3>1 DEF Imports
    <3>3. /\ o.s.p.fd[f] = o.fd /\ o.fd # INVALID_FD
          /\ \/ pool.fd[f] # INVALID_FD /\ o.s.t[o.s.p.fd[f]] = fdtable[pool.fd[f]]
             \/ disk[f].ino # 0 /\ o.s.t[o.s.p.fd[f]] = disk[f].ino
      BY <1>10, <1>15 DEF OpenedIs
    <3> QED
      BY <1>12, <3>2, <3>3
  <2>6. UINT32_MAX \in Nat /\ FileSize[f] \in Nat
    <3>1. f \in Files
      BY <1>10
    <3> QED
      BY <3>1, ReadAssumption
  <2>7. n \in Nat /\ n + n <= FileSize[e.owner]
    <3>1. n \in Nat
      BY <1>4, <1>5, <1>6, <1>8, ReadLenFacts
    <3> QED
      BY <1>11, <1>15, <2>6, <3>1
  <2>8. ASSUME NEW i \in 0 .. len - 1
        PROVE  i \in rs .. rs + n - 1 <=> Inside(start + i, e) /\ start + i - e.start < UINT32_MAX
    BY <1>4, <1>5, <1>6, <1>8, ReadLenFacts
  <2>9. ASSUME NEW i \in 0 .. len - 1, ~Inside(start + i, fs.extents[at])
        PROVE  new[i] = buf[i]
    BY <1>6, <2>4, <2>8, <2>9
  <2>10. ASSUME NEW i \in 0 .. len - 1, Inside(start + i, fs.extents[at])
         PROVE  UnitIs(excused, start, len, at, i, at, new[i])
    <3>1. buf[i] = Zero
      BY <1>4, <1>8, <2>10 DEF BufferIs, UnitIs
    <3>2. ~excused => ServedOf(start, len, e, i, new[i])
      <4> SUFFICES ASSUME ~excused PROVE ServedOf(start, len, e, i, new[i])
        OBVIOUS
      <4>1. CASE start + i - e.start < UINT32_MAX
        <5>1. new[i] = <<e.owner, 1, n + (i - rs)>>
          BY <1>6, <1>11, <2>4, <2>5, <2>8, <2>10, <4>1
        <5> QED
          BY <1>6, <2>7, <4>1, <5>1 DEF ServedOf
      <4>2. CASE ~(start + i - e.start < UINT32_MAX)
        <5>1. new[i] = Zero
          BY <2>4, <2>8, <3>1, <4>2
        <5> QED
          BY <4>2, <5>1 DEF ServedOf
      <4> QED
        BY <4>1, <4>2
    <3> QED
      BY <1>5, <1>6, <1>8, <3>2 DEF UnitIs
  <2>11. DOMAIN new = 0 .. len - 1
    BY <2>4
  <2>12. BufferIs(excused, start, len, at, new)
    BY <1>4, <1>5, <1>8, <2>9, <2>10, <2>11, NextInBuffer
  <2>13. ReadIs(excused, "find", start, len, at, part, new)
    BY <1>4, <1>8, <2>12 DEF ReadIs
  <2>14. rd'.pc = "find"
    BY <2>2, ReadFields
  <2> QED
    BY <1>1, <2>2, <2>13, <2>14 DEF RdInv
<1> QED
  BY <1>14, <1>15


LEMMA ReadFileFds ==
    ASSUME RdInv, PoolInv, DiskTypes, FdsApart, Imports, ReadFile
    PROVE  PoolInv' /\ DiskTypes' /\ FdsApart' /\ Imports'
<1>1. UNCHANGED <<disk, inodes, excused>>
  BY DEF ReadFile
<1>2. PICK s : IsPool(pool, fdtable, s)
  BY DEF PoolInv
<1>3. PICK f, o :
          /\ f \in Files /\ OpenedIs(o, s, f, disk[f].ino) /\ pool' = o.s.p /\ fdtable' = o.s.t
  BY <1>2, ReadFileOpens
<1>4. PoolInv'
  <2>1. IsPool(pool', fdtable', s) \/ IsPool(pool', fdtable', UsedNow(s, f))
    BY <1>2, <1>3 DEF OpenedIs
  <2> QED
    BY <2>1 DEF PoolInv
<1>5. ASSUME NEW g \in Files, pool'.fd[g] # INVALID_FD
      PROVE  \/ pool.fd[g] # INVALID_FD /\ fdtable'[pool'.fd[g]] = fdtable[pool.fd[g]]
             \/ g = f /\ disk[f].ino # 0 /\ fdtable'[pool'.fd[g]] = disk[f].ino
  BY <1>3, <1>5 DEF OpenedIs
<1>6. DiskTypes'
  BY <1>1 DEF DiskTypes
<1>7. FdsApart'
  <2> SUFFICES ASSUME NEW g \in Files, pool'.fd[g] # INVALID_FD
               PROVE  /\ fdtable'[pool'.fd[g]] \in 1 .. Len(inodes)
                      /\ \A h \in Files : h # g => fdtable'[pool'.fd[g]] # disk[h].ino
    BY <1>1 DEF FdsApart
  <2>1. CASE pool.fd[g] # INVALID_FD /\ fdtable'[pool'.fd[g]] = fdtable[pool.fd[g]]
    BY <2>1 DEF FdsApart
  <2>2. CASE g = f /\ disk[f].ino # 0 /\ fdtable'[pool'.fd[g]] = disk[f].ino
    <3>1. disk[f].ino \in 0 .. Len(inodes) /\ Len(inodes) \in Nat
      BY <1>3, SeqFacts DEF DiskTypes
    <3>2. disk[f].ino \in 1 .. Len(inodes)
      BY <2>2, <3>1
    <3> QED
      BY <2>2, <3>2 DEF DiskTypes
  <2> QED
    BY <1>5, <2>1, <2>2
<1>8. Imports'
  <2>1. rd'.pc # "read"
    BY ReadFileReads
  <2> SUFFICES ASSUME ~excused, NEW g \in Files, disk[g].mtime = 0
               PROVE  /\ disk[g].ino # 0 => inodes[disk[g].ino] = 1
                      /\ pool'.fd[g] # INVALID_FD => inodes[fdtable'[pool'.fd[g]]] = 1
    BY <1>1, <2>1 DEF Imports
  <2> QED
    BY <1>5 DEF Imports
<1> QED
  BY <1>4, <1>6, <1>7, <1>8

-----------------------------------------------------------------------------
\* The files change meanwhile.
LEMMA ExcusedRd ==
    ASSUME RdInv, rd' = rd, excused => excused'
    PROVE  RdInv'
<1>1. CASE rd.pc \in {"idle", "error", "falling"}
  BY <1>1 DEF RdInv
<1>2. CASE rd.pc \notin {"idle", "error", "falling"}
  <2>1. PICK pc, start, len, last, part, buf :
           rd = ARead(pc, start, len, last, part, buf) /\ ReadIs(excused, pc, start, len, last, part, buf)
    BY <1>2 DEF RdInv
  <2>2. BufferIs(excused', start, len, last, buf)
    BY <2>1, Excused DEF ReadIs
  <2>3. ReadIs(excused', pc, start, len, last, part, buf)
    BY <2>1, <2>2 DEF ReadIs
  <2> QED
    BY <2>1, <2>3 DEF RdInv
<1> QED
  BY <1>1, <1>2

LEMMA ChangedNat ==
    ASSUME DiskTypes
    PROVE  Changed \in Nat
<1>1. Len(inodes) \in Nat /\ DOMAIN inodes = 1 .. Len(inodes)
  BY SeqFacts DEF DiskTypes
<1>2. IsFiniteSet(1 .. Len(inodes))
  BY <1>1, FS_Interval
<1>3. PICK A, B : A = {i \in DOMAIN inodes : inodes[i] > 1} /\ B = {f \in Files : disk[f].ino = 0}
  OBVIOUS
<1>4. A \subseteq 1 .. Len(inodes) /\ B \subseteq Files
  BY <1>1, <1>3
<1>5. Cardinality(A) \in Nat /\ Cardinality(B) \in Nat
  BY <1>2, <1>4, FilesFinite, FS_Subset, FS_CardinalityType
<1> QED
  BY <1>3, <1>5 DEF Changed

\* A file is removed.
LEMMA RemoveKeeps ==
    ASSUME RdInv, DiskTypes, FdsApart, Imports, NEW f \in Files, Remove(f)
    PROVE  DiskTypes' /\ FdsApart' /\ Imports'
<1>1. disk' = [disk EXCEPT ![f].ino = 0] /\ UNCHANGED <<pool, fdtable, inodes, rd, excused>>
  BY DEF Remove
<1>2. disk \in [Files -> [ino : Nat, mtime : Nat]]
  BY DEF DiskTypes
<1>3. PICK r : r = [disk[f] EXCEPT !.ino = 0]
  OBVIOUS
<1>4. r \in [ino : Nat, mtime : Nat] /\ r.ino = 0 /\ r.mtime = disk[f].mtime
  BY <1>2, <1>3
<1>5. disk' = [disk EXCEPT ![f] = r]
  BY <1>1, <1>3, Zenon
<1>6. /\ disk' \in [Files -> [ino : Nat, mtime : Nat]]
      /\ \A g \in Files : disk'[g] = IF g = f THEN r ELSE disk[g]
  BY <1>2, <1>4, <1>5
<1>7. \A g \in Files : disk'[g].mtime = disk[g].mtime /\ disk'[g].ino \in {0, disk[g].ino}
  BY <1>4, <1>6
<1>8. Len(inodes) \in Nat
  BY SeqFacts DEF DiskTypes
<1>9. DiskTypes'
  BY <1>1, <1>6, <1>7, <1>8 DEF DiskTypes
<1>10. FdsApart'
  <2>1. \A x \in 1 .. Len(inodes) : x # 0
    BY <1>8
  <2> QED
    BY <1>1, <1>7, <2>1 DEF FdsApart
<1>11. Imports'
  <2> SUFFICES ASSUME ~excused
               PROVE  /\ \A g \in Files : disk'[g].mtime = 0 =>
                            /\ disk'[g].ino # 0 => inodes[disk'[g].ino] = 1
                            /\ pool.fd[g] # INVALID_FD => inodes[fdtable[pool.fd[g]]] = 1
                      /\ rd.pc = "read" => disk'[fs.extents[rd.part.at].owner].mtime = 0
    BY <1>1 DEF Imports
  <2>1. \A g \in Files : disk'[g].mtime = 0 =>
            /\ disk'[g].ino # 0 => inodes[disk'[g].ino] = 1
            /\ pool.fd[g] # INVALID_FD => inodes[fdtable[pool.fd[g]]] = 1
    BY <1>7 DEF Imports
  <2>2. rd.pc = "read" => disk'[fs.extents[rd.part.at].owner].mtime = 0
    BY <1>7, PartIsOfFile DEF Imports
  <2> QED
    BY <2>1, <2>2
<1> QED
  BY <1>9, <1>10, <1>11


\* What a change of a file does to its path: x is the inode it leads to now, of version v.
Replaces(f, x, v, mtime) ==
    /\ disk' \in [Files -> [ino : Nat, mtime : Nat]]
    /\ \A g \in Files : g # f => disk'[g] = disk[g]
    /\ disk'[f].ino = x /\ disk'[f].mtime = mtime
    /\ inodes' \in Seq(Int) /\ Len(inodes) \in Nat
    /\ \/ x = disk[f].ino /\ Len(inodes') = Len(inodes)
       \/ x = Len(inodes) + 1 /\ Len(inodes') = Len(inodes) + 1
    /\ x \in 1 .. Len(inodes')
    /\ \A i \in 1 .. Len(inodes) : i # x => inodes'[i] = inodes[i]

LEMMA ChangeReplaces ==
    ASSUME DiskTypes, NEW f \in Files, Change(f)
    PROVE  \E x, v \in Int, mtime \in {disk[f].mtime, disk[f].mtime + 1} :
              /\ Replaces(f, x, v, mtime)
              /\ excused' = (excused \/ mtime = disk[f].mtime \/ (rd.pc = "read" /\ fs.extents[rd.part.at].owner = f))
<1>1. disk \in [Files -> [ino : Nat, mtime : Nat]] /\ inodes \in Seq(Int) /\ Len(inodes) \in Nat
      /\ inodes \in [1 .. Len(inodes) -> Int] /\ disk[f].ino \in 0 .. Len(inodes)
  BY SeqFacts DEF DiskTypes
<1>2. PICK v \in Int : v = Changed + 2
  BY ChangedNat
<1>3. PICK mtime \in {disk[f].mtime, disk[f].mtime + 1} :
         /\ excused' = (excused \/ mtime = disk[f].mtime \/ (rd.pc = "read" /\ fs.extents[rd.part.at].owner = f))
         /\ \/ /\ inodes' = [inodes EXCEPT ![disk[f].ino] = v]
               /\ disk' = [disk EXCEPT ![f].mtime = mtime]
            \/ /\ inodes' = Append(inodes, v)
               /\ disk' = [disk EXCEPT ![f] = [ino |-> Len(inodes) + 1, mtime |-> mtime]]
  BY <1>2, Zenon DEF Change
<1>4. mtime \in Nat
  <2>1. disk[f].mtime \in Nat
    BY <1>1
  <2> QED
    BY <1>3, <2>1
<1>5. disk[f].ino # 0
  BY DEF Change
<1>6. CASE /\ inodes' = [inodes EXCEPT ![disk[f].ino] = v]
           /\ disk' = [disk EXCEPT ![f].mtime = mtime]
  <2>1. PICK r : r = [disk[f] EXCEPT !.mtime = mtime]
    OBVIOUS
  <2>2. r \in [ino : Nat, mtime : Nat] /\ r.ino = disk[f].ino /\ r.mtime = mtime
    BY <1>1, <1>4, <2>1
  <2>3. disk' = [disk EXCEPT ![f] = r]
    BY <1>6, <2>1, Zenon
  <2>4. disk' \in [Files -> [ino : Nat, mtime : Nat]] /\ \A g \in Files : disk'[g] = IF g = f THEN r ELSE disk[g]
    BY <1>1, <2>2, <2>3
  <2>5. PICK x \in 1 .. Len(inodes) : x = disk[f].ino
    <3>1. disk[f].ino \in 1 .. Len(inodes)
      BY <1>1, <1>5
    <3> QED
      BY <3>1
  <2>6. inodes' = [inodes EXCEPT ![x] = v]
    BY <1>6, <2>5
  <2>7. inodes' \in [1 .. Len(inodes) -> Int] /\ \A i \in 1 .. Len(inodes) : i # x => inodes'[i] = inodes[i]
    BY <1>1, <2>5, <2>6
  <2>8. inodes' \in Seq(Int) /\ Len(inodes') = Len(inodes)
    BY <1>1, <2>7, MadeSeq
  <2>9. Replaces(f, x, v, mtime)
    BY <1>1, <2>2, <2>4, <2>5, <2>7, <2>8 DEF Replaces
  <2> QED
    BY <1>3, <2>9
<1>7. CASE /\ inodes' = Append(inodes, v)
           /\ disk' = [disk EXCEPT ![f] = [ino |-> Len(inodes) + 1, mtime |-> mtime]]
  <2>1. PICK x \in Nat : x = Len(inodes) + 1
    BY <1>1
  <2>2. PICK r : r = [ino |-> x, mtime |-> mtime]
    OBVIOUS
  <2>3. r \in [ino : Nat, mtime : Nat] /\ r.ino = x /\ r.mtime = mtime
    BY <1>4, <2>2
  <2>4. disk' = [disk EXCEPT ![f] = r]
    BY <1>7, <2>1, <2>2, Zenon
  <2>5. disk' \in [Files -> [ino : Nat, mtime : Nat]] /\ \A g \in Files : disk'[g] = IF g = f THEN r ELSE disk[g]
    BY <1>1, <2>3, <2>4
  <2>6. inodes' = Append(inodes, v)
    BY <1>7
  <2>7. /\ inodes' \in Seq(Int) /\ Len(inodes') = Len(inodes) + 1
        /\ \A i \in 1 .. Len(inodes) : inodes'[i] = inodes[i]
    BY <1>1, <2>6, AppendProperties
  <2>8. x \in 1 .. Len(inodes')
    BY <1>1, <2>1, <2>7
  <2>9. Replaces(f, x, v, mtime)
    BY <1>1, <2>1, <2>3, <2>5, <2>7, <2>8 DEF Replaces
  <2> QED
    BY <1>3, <2>9
<1> QED
  BY <1>3, <1>6, <1>7

LEMMA ChangeKeeps ==
    ASSUME RdInv, DiskTypes, FdsApart, Imports, NEW f \in Files, Change(f)
    PROVE  DiskTypes' /\ FdsApart' /\ Imports' /\ RdInv'
<1>1. PICK x, v \in Int, mtime \in {disk[f].mtime, disk[f].mtime + 1} :
         /\ Replaces(f, x, v, mtime)
         /\ excused' = (excused \/ mtime = disk[f].mtime \/ (rd.pc = "read" /\ fs.extents[rd.part.at].owner = f))
  BY ChangeReplaces
<1>2. UNCHANGED <<pool, fdtable, rd>>
  BY DEF Change
<1>3. /\ disk \in [Files -> [ino : Nat, mtime : Nat]] /\ Len(inodes) \in Nat /\ Len(inodes') \in Nat
      /\ \A g \in Files : disk[g].ino \in 0 .. Len(inodes) /\ disk[g].mtime \in Nat
      /\ disk[f].ino # 0
  BY <1>1 DEF DiskTypes, Replaces, Change
<1>4. \A g \in Files : g # f => disk'[g] = disk[g] /\ disk[g].ino # x
  <2>1. x = disk[f].ino \/ x = Len(inodes) + 1
    BY <1>1 DEF Replaces
  <2> QED
    BY <1>1, <1>3, <2>1 DEF Replaces, DiskTypes
<1>5. Len(inodes) <= Len(inodes') /\ x \in 1 .. Len(inodes')
  BY <1>1, <1>3 DEF Replaces
<1>6. DiskTypes'
  <2>1. \A g \in Files : disk'[g].ino \in 0 .. Len(inodes')
    <3> TAKE g \in Files
    <3>1. g = f => disk'[g].ino = x
      BY <1>1 DEF Replaces
    <3>2. g # f => disk'[g].ino \in 0 .. Len(inodes)
      BY <1>3, <1>4
    <3> QED
      BY <1>3, <1>5, <3>1, <3>2
  <2>2. ASSUME NEW g \in Files, NEW h \in Files, g # h, disk'[g].ino = disk'[h].ino
        PROVE  disk'[g].ino = 0
    <3>1. CASE g = f
      BY <1>1, <1>4, <2>2, <3>1 DEF Replaces
    <3>2. CASE h = f
      BY <1>1, <1>4, <2>2, <3>2 DEF Replaces
    <3>3. CASE g # f /\ h # f
      BY <1>4, <2>2, <3>3 DEF DiskTypes
    <3> QED
      BY <3>1, <3>2, <3>3
  <2> QED
    BY <1>1, <2>1, <2>2 DEF DiskTypes, Replaces
<1>7. \A g \in Files : pool.fd[g] # INVALID_FD =>
         /\ fdtable[pool.fd[g]] \in 1 .. Len(inodes)
         /\ g # f => fdtable[pool.fd[g]] # x
  <2>1. x = disk[f].ino \/ x = Len(inodes) + 1
    BY <1>1 DEF Replaces
  <2> QED
    BY <1>3, <2>1 DEF FdsApart
<1>8. FdsApart'
  <2> SUFFICES ASSUME NEW g \in Files, pool.fd[g] # INVALID_FD
               PROVE  /\ fdtable[pool.fd[g]] \in 1 .. Len(inodes')
                      /\ \A h \in Files : h # g => fdtable[pool.fd[g]] # disk'[h].ino
    BY <1>2 DEF FdsApart
  <2>1. fdtable[pool.fd[g]] \in 1 .. Len(inodes')
    BY <1>3, <1>5, <1>7
  <2>2. ASSUME NEW h \in Files, h # g PROVE fdtable[pool.fd[g]] # disk'[h].ino
    <3>1. CASE h = f
      BY <1>1, <1>7, <2>2, <3>1 DEF Replaces
    <3>2. CASE h # f
      BY <1>4, <2>2, <3>2 DEF FdsApart
    <3> QED
      BY <3>1, <3>2
  <2> QED
    BY <2>1, <2>2
<1>9. Imports'
  <2> SUFFICES ASSUME ~excused'
               PROVE  /\ \A g \in Files : disk'[g].mtime = 0 =>
                            /\ disk'[g].ino # 0 => inodes'[disk'[g].ino] = 1
                            /\ pool.fd[g] # INVALID_FD => inodes'[fdtable[pool.fd[g]]] = 1
                      /\ rd.pc = "read" => disk'[fs.extents[rd.part.at].owner].mtime = 0
    BY <1>2 DEF Imports
  <2>1. ~excused /\ mtime # disk[f].mtime /\ ~(rd.pc = "read" /\ fs.extents[rd.part.at].owner = f)
    BY <1>1
  <2>2. disk'[f].mtime # 0
    BY <1>1, <1>3, <2>1 DEF Replaces
  <2>3. \A i \in 1 .. Len(inodes) : i # x => inodes'[i] = inodes[i]
    BY <1>1 DEF Replaces
  <2>4. ASSUME NEW g \in Files, disk'[g].mtime = 0
        PROVE  /\ disk'[g].ino # 0 => inodes'[disk'[g].ino] = 1
               /\ pool.fd[g] # INVALID_FD => inodes'[fdtable[pool.fd[g]]] = 1
    <3>1. g # f
      BY <2>2, <2>4
    <3>2. disk'[g] = disk[g] /\ disk[g].ino # x /\ disk[g].ino \in 0 .. Len(inodes)
      BY <1>3, <1>4, <3>1
    <3>3. /\ disk[g].ino # 0 => inodes[disk[g].ino] = 1
          /\ pool.fd[g] # INVALID_FD => inodes[fdtable[pool.fd[g]]] = 1
      BY <2>1, <2>4, <3>2 DEF Imports
    <3>4. disk[g].ino # 0 => disk[g].ino \in 1 .. Len(inodes)
      BY <1>3, <3>2
    <3> QED
      BY <1>7, <2>3, <3>1, <3>2, <3>3, <3>4
  <2>5. ASSUME rd.pc = "read" PROVE disk'[fs.extents[rd.part.at].owner].mtime = 0
    <3>1. PICK g \in Files : g = fs.extents[rd.part.at].owner
      BY <2>5, PartIsOfFile
    <3>2. g # f /\ disk[g].mtime = 0
      BY <2>1, <2>5, <3>1 DEF Imports
    <3> QED
      BY <1>4, <3>1, <3>2
  <2> QED
    BY <2>4, <2>5
<1>10. RdInv'
  BY <1>1, <1>2, ExcusedRd
<1> QED
  BY <1>6, <1>8, <1>9, <1>10


-----------------------------------------------------------------------------
\* A request to read starts with an empty buffer (fs_read).
LEMMA StartReadReads ==
    ASSUME ReqInv, StartRead
    PROVE  RdInv' /\ rd'.pc # "read"
<1>1. req.op = "read"
  BY DEF StartRead, Handling
<1>2. PICK start \in Nat, len \in Nat : start = req.start /\ len = req.len
  BY <1>1 DEF ReqInv
<1>3. PICK part, buf : part = [at |-> 0] /\ buf = [i \in 0 .. len - 1 |-> Zero]
  OBVIOUS
<1>4. rd' = ARead("find", start, len, 0, part, buf)
  BY <1>2, <1>3, Zenon DEF StartRead, FsRead, ARead
<1>5. BufferIs(excused', start, len, 0, buf)
  <2>1. DOMAIN buf = 0 .. len - 1 /\ \A i \in 0 .. len - 1 : buf[i] = Zero
    BY <1>3
  <2>2. \A j \in 1 .. Len(fs.extents) : j > 0 /\ ~(j <= 0)
    BY ExtentFacts
  <2> QED
    BY <2>1, <2>2 DEF BufferIs, UnitIs
<1>6. ReadIs(excused', "find", start, len, 0, part, buf)
  BY <1>5 DEF ReadIs
<1>7. rd'.pc = "find"
  BY <1>4, ReadFields
<1> QED
  BY <1>4, <1>6, <1>7 DEF RdInv

LEMMA ReadingKeeps ==
    ASSUME ReadInv, Reading
    PROVE  ReadInv'
<1>0. ReqInv /\ PoolInv /\ RdInv /\ DiskTypes /\ FdsApart /\ Imports
  BY DEF ReadInv
<1>1. ReqInv'
  BY <1>0 DEF Reading, ublockVars, ReqInv
<1>2. CASE NoMoreExtents \/ ReadBuffer \/ StartFile \/ CheckMetadata
  <2>1. UNCHANGED <<pool, fdtable, disk, inodes, excused>>
    BY <1>2 DEF NoMoreExtents, ReadBuffer, StartFile, CheckMetadata
  <2>2. PoolInv' /\ DiskTypes' /\ FdsApart'
    BY <1>0, <2>1 DEF PoolInv, DiskTypes, FdsApart
  <2>3. RdInv'
    BY <1>0, <1>2, NoMoreExtentsReads, ReadBufferReads, StartFileReads, CheckMetadataReads
  <2>4. rd'.pc = "read" => disk[fs.extents[rd'.part.at].owner].mtime = 0
    <3>1. CASE NoMoreExtents
      <4>1. PICK start, len, last, part, buf : rd = ARead("find", start, len, last, part, buf)
        BY <1>0, <3>1, Finding DEF NoMoreExtents
      <4>2. rd' = [rd EXCEPT !.pc = "ok"]
        BY <3>1 DEF NoMoreExtents
      <4>3. rd' = ARead("ok", start, len, last, part, buf)
        BY <4>1, <4>2, SetPc
      <4> QED
        BY <4>3, ReadFields
    <3>2. CASE ReadBuffer
      <4>1. PICK start, len, last, part, buf : rd = ARead("find", start, len, last, part, buf)
        BY <1>0, <3>2, Finding DEF ReadBuffer
      <4>2. PICK at, new : rd' = WithLastBuf(rd, at, new)
        BY <3>2, Zenon DEF ReadBuffer, WithLastBuf
      <4>3. rd' = ARead("find", start, len, at, part, new)
        BY <4>1, <4>2, SetLastBuf
      <4> QED
        BY <4>3, ReadFields
    <3>3. CASE StartFile
      BY <1>0, <3>3, StartFileReads
    <3>4. CASE CheckMetadata
      BY <1>0, <3>4, CheckMetadataReads
    <3> QED
      BY <1>2, <3>1, <3>2, <3>3, <3>4
  <2>5. Imports'
    BY <1>0, <2>1, <2>4 DEF Imports
  <2> QED
    BY <1>1, <2>2, <2>3, <2>5 DEF ReadInv
<1>3. CASE ReadFile
  BY <1>0, <1>1, <1>3, ReadFileReads, ReadFileFds DEF ReadInv
<1> QED
  BY <1>2, <1>3 DEF Reading, ReadStep

\* A step that has to do with neither the files nor the read.
LEMMA IdleKeeps ==
    ASSUME ReadInv, UNCHANGED <<pool, fdtable, disk, inodes, excused>>, ReqInv', rd' = rd \/ rd'.pc = "idle"
    PROVE  ReadInv'
<1>1. PoolInv' /\ DiskTypes' /\ FdsApart'
  BY DEF ReadInv, PoolInv, DiskTypes, FdsApart
<1>2. CASE rd' = rd
  <2>1. RdInv'
    BY <1>2, ExcusedRd DEF ReadInv
  <2>2. Imports'
    BY <1>2 DEF ReadInv, Imports
  <2> QED
    BY <1>1, <2>1, <2>2 DEF ReadInv
<1>3. CASE rd'.pc = "idle"
  <2>1. RdInv' /\ Imports'
    BY <1>3 DEF ReadInv, RdInv, Imports
  <2> QED
    BY <1>1, <2>1 DEF ReadInv
<1> QED
  BY <1>2, <1>3

LEMMA NextRead == ReadInv /\ [Next]_vars => ReadInv'
<1> SUFFICES ASSUME ReadInv, [Next]_vars PROVE ReadInv'
  OBVIOUS
<1>0. ReqInv /\ PoolInv /\ RdInv /\ DiskTypes /\ FdsApart /\ Imports
  BY DEF ReadInv
<1>1. CASE Reading
  BY <1>1, ReadingKeeps
<1>2. CASE StartRead
  <2>1. UNCHANGED <<pool, fdtable, disk, inodes, excused, req>>
    BY <1>2 DEF StartRead, ublockVars
  <2>2. RdInv' /\ rd'.pc # "read"
    BY <1>0, <1>2, StartReadReads
  <2>3. ReqInv' /\ PoolInv' /\ DiskTypes' /\ FdsApart'
    BY <1>0, <2>1 DEF ReqInv, PoolInv, DiskTypes, FdsApart
  <2>4. Imports'
    BY <1>0, <2>1, <2>2 DEF Imports
  <2> QED
    BY <2>2, <2>3, <2>4 DEF ReadInv
<1>3. CASE Changes
  <2>1. PICK f \in Files : Change(f) \/ Remove(f)
    BY <1>3 DEF Changes
  <2>2. ReqInv'
    BY <1>0, <1>3 DEF Changes, ublockVars, ReqInv
  <2>3. PoolInv'
    BY <1>0, <2>1 DEF Change, Remove, PoolInv
  <2>4. CASE Change(f)
    BY <1>0, <2>2, <2>3, <2>4, ChangeKeeps DEF ReadInv
  <2>5. CASE Remove(f)
    <3>1. rd' = rd /\ excused' = excused
      BY <2>5 DEF Remove
    <3>2. RdInv'
      BY <1>0, <3>1, ExcusedRd
    <3> QED
      BY <1>0, <2>2, <2>3, <2>5, <3>2, RemoveKeeps DEF ReadInv
  <2> QED
    BY <2>1, <2>4, <2>5
<1>4. CASE Request
  <2>1. PICK r \in Requests : Receive(r)
    BY <1>4 DEF Request
  <2>2. req' = r /\ UNCHANGED <<pool, fdtable, disk, inodes, excused, rd>>
    BY <1>4, <2>1 DEF Receive, Request, readVars
  <2>3. r.op = "read" => r.start \in Nat /\ r.len \in Nat
    <3>1. ASSUME r.op = "read" PROVE \E q \in Reads : r.start = q[1] /\ r.len = q[2]
      BY <3>1 DEF Requests
    <3>2. \A q \in Reads : q[1] \in Nat /\ q[2] \in Nat
      BY FatBlockAssumption
    <3> QED
      BY <3>1, <3>2
  <2>4. ReqInv'
    BY <2>2, <2>3 DEF ReqInv
  <2> QED
    BY <2>2, <2>4, IdleKeeps
<1>5. CASE FinishRead
  <2>1. req' = req /\ UNCHANGED <<pool, fdtable, disk, inodes, excused>> /\ rd'.pc = "idle"
    BY <1>5 DEF FinishRead, ublock_handle_read
  <2> QED
    BY <1>0, <2>1, IdleKeeps DEF ReqInv
<1>6. CASE Answer \/ AnswerOverruns
  <2>1. req' = None /\ UNCHANGED <<pool, fdtable, disk, inodes, excused, rd>>
    BY <1>6 DEF Answer, Reply, AnswerOverruns, OverrunBuffer, readVars
  <2>2. ReqInv'
    BY <2>1 DEF ReqInv, None
  <2> QED
    BY <2>1, <2>2, IdleKeeps
<1>7. CASE HandleOther \/ EndLoop \/ Created \/ set_ums_file \/ Run \/ RunUnnamed \/ Leave \/ Exit \/ UNCHANGED vars
  <2>1. UNCHANGED <<pool, fdtable, disk, inodes, excused, rd>>
    BY <1>7 DEF HandleOther, EndLoop, Created, set_ums_file, Run, RunUnnamed, Leave, Exit, vars, readVars
  <2>2. req' = req
    BY <1>7 DEF HandleOther, ublock_handle_init, ublock_handle_ready, ublock_handle_write, Refuse,
                EndLoop, ReceiveFails, LoopEnds, Created, set_ums_file, Run, RunUnnamed, ublock_run, Leave,
                Exit, vars, ublockVars
  <2> QED
    BY <1>0, <2>1, <2>2, IdleKeeps DEF ReqInv
<1>8. CASE InitFails \/ NoIndex \/ signal_handler
  <2>1. CASE \E n \in {1, 2} : Cleanup(n)
    <3>1. req' = None /\ UNCHANGED <<pool, fdtable, disk, inodes, excused>> /\ rd'.pc = "idle"
      BY <2>1 DEF Cleanup
    <3>2. ReqInv'
      BY <3>1 DEF ReqInv, None
    <3> QED
      BY <3>1, <3>2, IdleKeeps
  <2>2. CASE UNCHANGED <<pool, fdtable, readVars, req>>
    BY <1>0, <2>2, IdleKeeps DEF readVars, ReqInv
  <2> QED
    BY <1>8, <2>1, <2>2 DEF InitFails, NoIndex, signal_handler
<1>9. LoopEnds /\ UNCHANGED <<pool, fdtable, used, readVars, mainVars>> => EndLoop
  BY DEF EndLoop
<1> QED
  BY <1>1, <1>2, <1>3, <1>4, <1>5, <1>6, <1>7, <1>8, <1>9 DEF Next, Process


LEMMA InitPool ==
    ASSUME PoolInit
    PROVE  IsPool(pool, fdtable, <<>>)
<1>1. PICK h : h = [n \in Nodes |-> IF n = fdpool_head THEN fdpool_head ELSE Nowhere]
  OBVIOUS
<1>2. /\ pool = [next |-> h, prev |-> h, fd |-> [f \in Files |-> INVALID_FD], count |-> 0]
      /\ fdtable = [d \in {} |-> 0]
  BY <1>1 DEF PoolInit
<1>3. h \in [Nodes -> Nodes \cup {Nowhere}] /\ h[fdpool_head] = fdpool_head
  BY <1>1 DEF Nodes
<1>4. pool.next = h /\ pool.prev = h /\ pool.count = 0 /\ pool.fd = [f \in Files |-> INVALID_FD]
  BY <1>2
<1>5. \A f \in Files : pool.fd[f] = INVALID_FD
  BY <1>4
<1>6. pool \in Pools
  BY <1>2, <1>3 DEF Pools, INVALID_FD
<1>7. PICK s : s = <<>>
  OBVIOUS
<1>8. s \in Seq(Files) /\ Len(s) = 0
  BY <1>7
<1>9. IsRing(pool, s)
  <2>1. \A i \in 0 .. 0 : i = 0
    OBVIOUS
  <2>2. Node(s, 0) = fdpool_head /\ Node(s, 1) = fdpool_head
    BY <1>8 DEF Node
  <2>3. \A i \in 1 .. Len(s) : FALSE
    BY <1>8
  <2> QED
    BY <1>3, <1>4, <1>6, <1>8, <2>1, <2>2, <2>3 DEF IsRing
<1>10. DOMAIN fdtable = {}
  BY <1>2
<1>11. IsFiniteSet(DOMAIN fdtable) /\ DOMAIN fdtable \subseteq Nat
  BY <1>10, FS_EmptySet
<1>12. FDPOOL_SIZE \in Nat
  BY PoolAssumption
<1> QED
  BY <1>5, <1>7, <1>8, <1>9, <1>10, <1>11, <1>12 DEF IsPool

LEMMA InitRead == Init => ReadInv
<1> SUFFICES ASSUME Init PROVE ReadInv
  OBVIOUS
<1>0. /\ PoolInit /\ req = None /\ rd = [pc |-> "idle"] /\ excused = FALSE
      /\ inodes = [i \in 1 .. Len(Order) |-> 1]
      /\ disk = [f \in Files |-> [ino |-> CHOOSE i \in DOMAIN Order : Order[i] = f, mtime |-> 0]]
  BY DEF Init, ReadInit, UblockInit
<1>1. ReqInv
  BY <1>0 DEF ReqInv, None
<1>2. PoolInv
  BY <1>0, InitPool DEF PoolInv
<1>3. RdInv /\ rd.pc = "idle"
  BY <1>0 DEF RdInv
<1>4. Len(Order) \in Nat /\ DOMAIN Order = 1 .. Len(Order)
  BY ReadAssumption, SeqFacts
<1>5. inodes \in Seq(Int) /\ Len(inodes) = Len(Order) /\ \A i \in 1 .. Len(Order) : inodes[i] = 1
  <2>1. inodes \in [1 .. Len(Order) -> Int]
    BY <1>0
  <2> QED
    BY <1>0, <1>4, <2>1, MadeSeq
<1> DEFINE at == [f \in Files |-> CHOOSE i \in DOMAIN Order : Order[i] = f]
<1>6. \A f \in Files : at[f] \in 1 .. Len(Order) /\ Order[at[f]] = f
  <2> SUFFICES ASSUME NEW f \in Files
               PROVE  (CHOOSE i \in DOMAIN Order : Order[i] = f) \in 1 .. Len(Order)
                      /\ Order[CHOOSE i \in DOMAIN Order : Order[i] = f] = f
    OBVIOUS
  <2>1. \E i \in DOMAIN Order : Order[i] = f
    BY ReadAssumption
  <2> QED
    BY <1>4, <2>1
<1>7. \A f \in Files : disk[f] = [ino |-> at[f], mtime |-> 0]
  BY <1>0
<1>8. DOMAIN disk = Files /\ disk = [f \in Files |-> disk[f]]
  BY <1>0
<1> HIDE DEF at
<1>9. \A f \in Files : disk[f].ino = at[f] /\ disk[f].mtime = 0 /\ disk[f] \in [ino : Nat, mtime : Nat]
  <2> TAKE f \in Files
  <2>1. PICK i \in Nat : i = at[f]
    BY <1>4, <1>6
  <2>2. disk[f] = [ino |-> i, mtime |-> 0]
    BY <1>7, <2>1
  <2> QED
    BY <2>1, <2>2
<1>10. DiskTypes
  <2>1. disk \in [Files -> [ino : Nat, mtime : Nat]]
    BY <1>8, <1>9
  <2>2. \A f \in Files : disk[f].ino \in 0 .. Len(inodes)
    BY <1>4, <1>5, <1>6, <1>9
  <2>3. \A f, g \in Files : f # g /\ disk[f].ino = disk[g].ino => disk[f].ino = 0
    BY <1>6, <1>9
  <2> QED
    BY <1>5, <2>1, <2>2, <2>3 DEF DiskTypes
<1>11. \A f \in Files : pool.fd[f] = INVALID_FD
  BY <1>0 DEF PoolInit
<1>12. FdsApart
  BY <1>11 DEF FdsApart
<1>13. Imports
  BY <1>3, <1>5, <1>6, <1>9, <1>11 DEF Imports
<1> QED
  BY <1>1, <1>2, <1>3, <1>10, <1>12, <1>13 DEF ReadInv

LEMMA ReadAlways == Spec => []ReadInv
  BY InitRead, NextRead, PTL DEF Spec

-----------------------------------------------------------------------------
(***************************************************************************)
(* The pool implements the least recently used one.                        *)
(***************************************************************************)
LEMMA RingIsSound ==
    ASSUME PoolInv
    PROVE  RingSound
<1>1. PICK s : IsPool(pool, fdtable, s)
  BY DEF PoolInv
<1>2. IsRing(pool, s)
  BY <1>1 DEF IsPool
<1>3. Ring = s
  BY <1>2, RingWalked
<1>4. PICK n \in Nat : n = Len(s) /\ DOMAIN s = 1 .. n /\ \A i \in 1 .. n : Node(s, i) = s[i] /\ s[i] \in Files
  BY <1>2, NodesOfRing, SeqFacts DEF IsRing
<1>5. /\ Node(s, 0) = fdpool_head /\ Node(s, n + 1) = fdpool_head
      /\ \A i \in 0 .. n : pool.next[Node(s, i)] = Node(s, i + 1) /\ pool.prev[Node(s, i + 1)] = Node(s, i)
  BY <1>2, <1>4, NodesOfRing DEF IsRing
<1>6. ASSUME NEW i \in 1 .. n
      PROVE  pool.next[pool.prev[s[i]]] = s[i] /\ pool.prev[pool.next[s[i]]] = s[i]
  <2>1. PICK k \in 0 .. n : k + 1 = i
    <3>1. i - 1 \in 0 .. n /\ (i - 1) + 1 = i
      BY <1>4
    <3> QED
      BY <3>1
  <2>2. i \in 0 .. n
    BY <1>4
  <2>3. pool.prev[s[i]] = Node(s, k) /\ pool.next[Node(s, k)] = s[i]
    BY <1>4, <1>5, <2>1
  <2>4. pool.next[s[i]] = Node(s, i + 1) /\ pool.prev[Node(s, i + 1)] = s[i]
    BY <1>4, <1>5, <2>2
  <2> QED
    BY <2>3, <2>4
<1>7. pool.next[pool.prev[fdpool_head]] = fdpool_head /\ pool.prev[pool.next[fdpool_head]] = fdpool_head
  <2>1. 0 \in 0 .. n /\ n \in 0 .. n /\ 0 + 1 = 1
    BY <1>4
  <2>2. pool.prev[fdpool_head] = Node(s, n) /\ pool.next[Node(s, n)] = fdpool_head
    BY <1>5, <2>1
  <2>3. pool.next[fdpool_head] = Node(s, 1) /\ pool.prev[Node(s, 1)] = fdpool_head
    BY <1>5, <2>1
  <2> QED
    BY <2>2, <2>3
<1>8. pool.count = Len(s) /\ pool.count <= FDPOOL_SIZE
  BY <1>1, <1>2 DEF IsPool, IsRing
<1>9. {f \in Files : pool.fd[f] # INVALID_FD} = {s[i] : i \in DOMAIN s}
  BY <1>1, <1>4 DEF IsPool
<1>10. {pool.fd[s[i]] : i \in DOMAIN s} = DOMAIN fdtable
  <2>1. ASSUME NEW i \in 1 .. n PROVE pool.fd[s[i]] \in DOMAIN fdtable
    BY <1>1, <1>4 DEF IsPool
  <2>2. ASSUME NEW d \in DOMAIN fdtable PROVE \E i \in 1 .. n : pool.fd[s[i]] = d
    BY <1>1, <1>4 DEF IsPool
  <2>3. DOMAIN s = 1 .. n
    BY <1>4
  <2>4. PICK A, B : A = {pool.fd[s[i]] : i \in 1 .. n} /\ B = DOMAIN fdtable
    OBVIOUS
  <2>5. \A d : d \in A <=> d \in B
    BY <2>1, <2>2, <2>4
  <2>6. A = B
    BY <2>5
  <2> QED
    BY <2>3, <2>4, <2>6
<1>11. \A f, g \in Files : pool.fd[f] = pool.fd[g] /\ f # g => pool.fd[f] = INVALID_FD
  BY <1>1 DEF IsPool
<1> QED
  BY <1>3, <1>4, <1>6, <1>7, <1>8, <1>9, <1>10, <1>11 DEF RingSound

LEMMA RingWalkedNext == (\A s : IsRing(pool, s) => Ring = s)'
<1>1. \A s : IsRing(pool, s) => Ring = s
  BY RingWalked
<1> QED
  BY <1>1, PTL

LEMMA InitLru == Init => Lru!Init
<1> SUFFICES ASSUME Init PROVE Lru!Init
  OBVIOUS
<1>1. PoolInit
  BY DEF Init, ReadInit
<1>2. IsRing(pool, <<>>)
  BY <1>1, InitPool DEF IsPool
<1>3. Ring = <<>>
  BY <1>2, RingWalked
<1>4. used \notin Files
  BY <1>1, PoolAssumption DEF PoolInit
<1> QED
  BY <1>3, <1>4 DEF Lru!Init

LEMMA NextLru == ReadInv /\ [Next]_vars => [\E f \in Files : Lru!Use(f)]_<<Ring, used>>
<1> SUFFICES ASSUME ReadInv, [Next]_vars PROVE (\E f \in Files : Lru!Use(f)) \/ UNCHANGED <<Ring, used>>
  OBVIOUS
<1>1. PICK s : IsPool(pool, fdtable, s)
  BY DEF ReadInv, PoolInv
<1>2. Ring = s
  BY <1>1, RingWalked DEF IsPool
<1>3. \A r : IsRing(pool', r) => Ring' = r
  BY RingWalkedNext
<1>4. CASE UNCHANGED <<pool, used>>
  <2>1. Ring' = s
    BY <1>1, <1>3, <1>4 DEF IsPool
  <2> QED
    BY <1>2, <1>4, <2>1
<1>5. CASE ReadFile
  <2>1. PICK f, o :
           /\ f \in Files /\ OpenedIs(o, s, f, disk[f].ino) /\ pool' = o.s.p /\ fdtable' = o.s.t
           /\ used' = IF o.fd = INVALID_FD THEN used ELSE f
    BY <1>1, <1>5, ReadFileOpens DEF ReadInv
  <2>2. CASE o.fd = INVALID_FD
    <3>1. pool' = pool /\ used' = used
      BY <2>1, <2>2 DEF OpenedIs
    <3> QED
      BY <1>4, <3>1
  <2>3. CASE o.fd # INVALID_FD
    <3>1. IsPool(pool', fdtable', UsedNow(s, f)) /\ used' = f
      BY <2>1, <2>3 DEF OpenedIs
    <3>2. Ring' = UsedNow(Ring, f)
      BY <1>2, <1>3, <3>1 DEF IsPool
    <3>3. Lru!Use(f)
      BY <3>1, <3>2, Zenon DEF Lru!Use, UsedNow
    <3> QED
      BY <2>1, <3>3
  <2> QED
    BY <2>2, <2>3
<1>6. CASE Next /\ ~ReadFile
  <2>1. UNCHANGED <<pool, used>>
    BY <1>6 DEF Next, Process, HandleOther, StartRead, Reading, ReadStep, NoMoreExtents, ReadBuffer, StartFile,
                CheckMetadata, FinishRead, Answer, AnswerOverruns, InitFails, Created, NoIndex, set_ums_file, Run,
                RunUnnamed, Leave, Exit, Request, EndLoop, signal_handler, Cleanup, Changes, Change, Remove
  <2> QED
    BY <1>4, <2>1
<1>7. CASE UNCHANGED vars
  BY <1>4, <1>7 DEF vars
<1> QED
  BY <1>5, <1>6, <1>7

(* The ring of descriptors is sound at any time, and what is done to it is what a least recently
   used pool does: whatever files are read in whatever order, and whatever their paths lead to, no
   descriptor is closed twice or left open (fdpool_open, fdpool_touch, fdpool_evict). *)
THEOREM PoolIsLruAlways == Spec => PoolIsLru
<1>1. ReadInv => RingSound
  BY RingIsSound DEF ReadInv
<1> QED
  BY <1>1, InitLru, NextLru, ReadAlways, PTL DEF Spec, PoolIsLru, Lru!Spec


-----------------------------------------------------------------------------
(***************************************************************************)
(* What a read that has succeeded has put together.                        *)
(***************************************************************************)
AllMet(start, len, last) == \A j \in 1 .. Len(fs.extents) : Meets(start, len, fs.extents[j]) => j <= last
NotOfFile(offset) == \A j \in 1 .. Len(fs.extents) : fs.extents[j].type = "FILE" => ~Inside(offset, fs.extents[j])

LEMMA ReadDone ==
    ASSUME RdInv, rd.pc = "ok"
    PROVE  \E start, len, last, buf :
              /\ start \in Nat /\ len \in Nat /\ last \in Nat
              /\ rd.start = start /\ rd.buf = buf /\ DOMAIN buf = 0 .. len - 1
              /\ BufferIs(excused, start, len, last, buf)
              /\ AllMet(start, len, last)
<1>1. PICK pc, start, len, last, part, buf :
         rd = ARead(pc, start, len, last, part, buf) /\ ReadIs(excused, pc, start, len, last, part, buf)
  BY DEF RdInv
<1>2. rd.pc = pc /\ rd.start = start /\ rd.buf = buf
  BY <1>1, ReadFields
<1>3. /\ start \in Nat /\ len \in Nat /\ last \in Nat /\ BufferIs(excused, start, len, last, buf)
      /\ \A j \in last + 1 .. Len(fs.extents) : ~Meets(start, len, fs.extents[j])
  BY <1>1, <1>2 DEF ReadIs
<1>4. DOMAIN buf = 0 .. len - 1
  BY <1>3 DEF BufferIs
<1>5. AllMet(start, len, last)
  BY <1>3, ExtentFacts DEF AllMet
<1> QED
  BY <1>2, <1>3, <1>4, <1>5

\* Outside of the files.
LEMMA BuffersRight ==
    ASSUME NEW lax, NEW start \in Nat, NEW len \in Nat, NEW last \in Nat, NEW buf, BufferIs(lax, start, len, last, buf),
           AllMet(start, len, last),
           NEW i \in 0 .. len - 1,
           NotOfFile(start + i)
    PROVE  buf[i] = DeviceUnit(start + i)
<1>1. CASE \A j \in 1 .. Len(fs.extents) : ~Inside(start + i, fs.extents[j])
  <2>1. buf[i] = Zero
    BY <1>1 DEF BufferIs
  <2>2. PICK offset \in Nat : offset = start + i
    <3>1. start + i \in Nat
      OBVIOUS
    <3> QED
      BY <3>1
  <2>3. DeviceUnit(offset) = Zero
    BY <1>1, <2>2, UnitOutside
  <2> QED
    BY <2>1, <2>2, <2>3
<1>2. CASE \E j \in 1 .. Len(fs.extents) : Inside(start + i, fs.extents[j])
  <2>1. PICK j \in 1 .. Len(fs.extents) : Inside(start + i, fs.extents[j])
    BY <1>2
  <2>2. j <= last /\ fs.extents[j].type # "FILE"
    <3>1. Meets(start, len, fs.extents[j])
      BY <2>1, PartFacts
    <3> QED
      BY <2>1, <3>1 DEF AllMet, NotOfFile
  <2>3. UnitIs(lax, start, len, last, i, j, buf[i])
    BY <2>1 DEF BufferIs
  <2> QED
    BY <2>2, <2>3 DEF UnitIs
<1> QED
  BY <1>1, <1>2

\* The units of a file's extent in the buffer.
LEMMA FilesServed ==
    ASSUME NEW start \in Nat, NEW len \in Nat, NEW last \in Nat, NEW buf, BufferIs(FALSE, start, len, last, buf),
           AllMet(start, len, last),
           NEW j \in 1 .. Len(fs.extents), fs.extents[j].type = "FILE",
           NEW i \in 0 .. len - 1, Inside(start + i, fs.extents[j])
    PROVE  ServedOf(start, len, fs.extents[j], i, buf[i])
<1>1. Meets(start, len, fs.extents[j])
  BY PartFacts
<1>2. j <= last
  BY <1>1 DEF AllMet
<1>3. UnitIs(FALSE, start, len, last, i, j, buf[i])
  BY DEF BufferIs
<1> QED
  BY <1>2, <1>3 DEF UnitIs

(* What a successful read has of a file is of the content that was imported, or the 0 behind 2^32,
   whatever was done to the file and whichever descriptor was used, unless the file changed without
   its time or after it was checked (file_check_metadata, file_read, fdpool_open). *)
THEOREM ServedIsImportedAlways == Spec => []ServedIsImported
<1>1. ReadInv => ServedIsImported
  <2> SUFFICES ASSUME ReadInv, rd.pc = "ok", ~excused,
                      NEW j \in DOMAIN fs.extents, fs.extents[j].type = "FILE", NEW i \in FileOffsets(fs.extents[j])
               PROVE  rd.buf[i] = Zero \/ <<rd.buf[i][1], rd.buf[i][2]>> = <<fs.extents[j].owner, 1>>
    BY DEF ServedIsImported
  <2>1. PICK start, len, last, buf :
           /\ start \in Nat /\ len \in Nat /\ last \in Nat
           /\ rd.start = start /\ rd.buf = buf /\ DOMAIN buf = 0 .. len - 1
           /\ BufferIs(excused, start, len, last, buf)
           /\ AllMet(start, len, last)
    BY ReadDone DEF ReadInv
  <2>2. i \in 0 .. len - 1 /\ Inside(start + i, fs.extents[j])
    <3>1. DOMAIN rd.buf = 0 .. len - 1
      BY <2>1
    <3>2. FileOffsets(fs.extents[j]) = {k \in 0 .. len - 1 : Inside(start + k, fs.extents[j])}
      BY <2>1, <3>1 DEF FileOffsets, Inside
    <3> QED
      BY <3>2
  <2>3. j \in 1 .. Len(fs.extents)
    BY ExtentFacts
  <2>4. BufferIs(FALSE, start, len, last, buf)
    BY <2>1, Excused
  <2>5. ServedOf(start, len, fs.extents[j], i, buf[i])
    BY <2>1, <2>2, <2>3, <2>4, FilesServed
  <2>6. PICK n : buf[i] = Zero \/ buf[i] = <<fs.extents[j].owner, 1, n>>
    BY <2>5 DEF ServedOf
  <2> QED
    BY <2>1, <2>6
<1> QED
  BY <1>1, ReadAlways, PTL


\* The offsets of a file in the request are an interval, and so are those in front of 2^32.
Mine(start, len, e) == {i \in 0 .. len - 1 : Inside(start + i, e)}
Wanted(start, len, e) == {i \in Mine(start, len, e) : start + i - e.start < UINT32_MAX}

LEMMA CutAt ==
    ASSUME NEW es \in Nat, NEW rs \in Nat, NEW u \in Nat, NEW i \in Int, NEW n \in Nat, n = u - es
    PROVE  es + (i - rs) < u <=> i <= rs + n - 1
  OBVIOUS

IsWanted(start, len, e) ==
    /\ ReadLen(start, len, e) \in Nat /\ ReadLen(start, len, e) > 0
    /\ Wanted(start, len, e) = RStart(start, e) .. RStart(start, e) + ReadLen(start, len, e) - 1
    /\ Cardinality(Wanted(start, len, e)) = ReadLen(start, len, e)
    /\ RStart(start, e) \in Wanted(start, len, e) /\ Least(Mine(start, len, e)) = RStart(start, e)
    /\ start + RStart(start, e) - e.start = EStart(start, e)

LEMMA WantedIs ==
    ASSUME NEW start \in Nat, NEW len \in Nat, NEW j \in 1 .. Len(fs.extents), NEW e, e = fs.extents[j],
           Wanted(start, len, e) # {}
    PROVE  IsWanted(start, len, e)
<1>0. PICK mine, wanted, rs, n :
         mine = Mine(start, len, e) /\ wanted = Wanted(start, len, e) /\ rs = RStart(start, e) /\ n = ReadLen(start, len, e)
  OBVIOUS
<1>1. PICK k \in 0 .. len - 1 : Inside(start + k, e) /\ start + k - e.start < UINT32_MAX
  BY DEF Mine, Wanted
<1>2. Meets(start, len, e)
  BY <1>1, PartFacts
<1>3. PICK pl : pl = PartLen(start, len, e)
  OBVIOUS
<1>4. rs \in Nat /\ EStart(start, e) \in Nat /\ pl \in Nat /\ rs + pl <= len
  BY <1>0, <1>2, <1>3, PartFacts
<1>5. \A i \in 0 .. len - 1 : Inside(start + i, e) <=> i \in rs .. rs + pl - 1
  BY <1>0, <1>2, <1>3, PartMet
<1>6. \A i \in Int : start + i - e.start = EStart(start, e) + (i - rs)
  BY <1>0, PartOffset
<1>7. UINT32_MAX \in Nat
  BY ReadAssumption
<1>8. PICK es \in Nat : es = EStart(start, e)
  BY <1>4
<1>9. k \in rs .. rs + pl - 1 /\ es + (k - rs) < UINT32_MAX
  BY <1>1, <1>5, <1>6, <1>8
<1>10. es < UINT32_MAX /\ rs <= k
  BY <1>4, <1>7, <1>9
<1>11. n \in Nat /\ n = IF es + pl > UINT32_MAX THEN UINT32_MAX - es ELSE pl
  <2>1. n = IF es + pl > UINT32_MAX THEN UINT32_MAX - es ELSE pl
    BY <1>0, <1>3, <1>8 DEF ReadLen
  <2> QED
    BY <1>4, <1>7, <1>8, <1>10, <2>1
<1>12. n > 0 /\ n <= pl
  BY <1>4, <1>7, <1>9, <1>10, <1>11
<1>13. mine = rs .. rs + pl - 1
  BY <1>0, <1>4, <1>5 DEF Mine
<1>14. ASSUME NEW i \in mine PROVE start + i - e.start < UINT32_MAX <=> i <= rs + n - 1
  <2>1. i \in rs .. rs + pl - 1 /\ i \in Int
    BY <1>4, <1>13
  <2>2. start + i - e.start = es + (i - rs)
    BY <1>6, <1>8, <2>1
  <2>3. es + (i - rs) < UINT32_MAX <=> i <= rs + n - 1
    <3>1. CASE es + pl > UINT32_MAX
      <4>1. n = UINT32_MAX - es
        BY <1>11, <3>1
      <4> QED
        BY <1>4, <1>7, <1>11, <2>1, <4>1, CutAt
    <3>2. CASE ~(es + pl > UINT32_MAX)
      <4>1. n = pl /\ i <= rs + pl - 1
        BY <1>4, <1>11, <2>1, <3>2
      <4> QED
        BY <1>4, <1>7, <2>1, <3>2, <4>1
    <3> QED
      BY <3>1, <3>2
  <2> QED
    BY <2>2, <2>3
<1>15. wanted = rs .. rs + n - 1
  <2>1. \A i : i \in wanted <=> i \in mine /\ i <= rs + n - 1
    BY <1>0, <1>14 DEF Wanted
  <2>2. \A i : i \in mine /\ i <= rs + n - 1 <=> i \in rs .. rs + n - 1
    <3> TAKE i
    <3>1. i \in mine <=> i \in Int /\ rs <= i /\ i <= rs + pl - 1
      BY <1>4, <1>13
    <3>2. i \in rs .. rs + n - 1 <=> i \in Int /\ rs <= i /\ i <= rs + n - 1
      BY <1>4, <1>11
    <3>3. i \in Int /\ i <= rs + n - 1 => i <= rs + pl - 1
      BY <1>4, <1>11, <1>12
    <3> QED
      BY <3>1, <3>2, <3>3
  <2> QED
    BY <2>1, <2>2
<1>16. Cardinality(wanted) = n
  <2>1. PICK b \in Int : b = rs + n - 1
    <3>1. rs + n - 1 \in Int
      BY <1>4, <1>11
    <3> QED
      BY <3>1
  <2>2. rs \in Int
    BY <1>4
  <2>3. Cardinality(rs .. b) = IF rs > b THEN 0 ELSE b - rs + 1
    BY <2>1, <2>2, FS_Interval
  <2>4. Cardinality(rs .. b) = n
    BY <1>4, <1>11, <1>12, <2>1, <2>3
  <2> QED
    BY <1>15, <2>1, <2>4
<1>17. Least(mine) = rs
  <2>1. rs \in mine /\ \A i \in mine : rs <= i /\ i \in Int
    BY <1>4, <1>11, <1>12, <1>13
  <2>2. \A m \in mine : (\A i \in mine : m <= i) => m = rs
    BY <1>4, <2>1
  <2>3. \E m \in mine : \A i \in mine : m <= i
    BY <2>1
  <2> QED
    BY <2>2, <2>3 DEF Least
<1>18. rs \in wanted
  BY <1>4, <1>11, <1>12, <1>15
<1>19. start + rs - e.start = es
  <2>1. start + rs - e.start = es + (rs - rs)
    <3>1. rs \in Int
      BY <1>4
    <3> QED
      BY <1>6, <1>8, <3>1, Zenon
  <2>2. es + (rs - rs) = es
    BY <1>4
  <2> QED
    BY <2>1, <2>2
<1> QED
  BY <1>0, <1>8, <1>11, <1>12, <1>15, <1>16, <1>17, <1>18, <1>19, Zenon DEF IsWanted

\* What is read of a file is at its place exactly if the offset is the length.
RightIfEqual(start, len, e, buf) ==
    (\A i \in Wanted(start, len, e) : buf[i] = DeviceUnit(start + i))
      <=> start + Least(Mine(start, len, e)) - e.start = Cardinality(Wanted(start, len, e))

LEMMA FilesRight ==
    ASSUME NEW start \in Nat, NEW len \in Nat, NEW last \in Nat, NEW buf, BufferIs(FALSE, start, len, last, buf),
           AllMet(start, len, last),
           NEW j \in 1 .. Len(fs.extents), NEW e, e = fs.extents[j], e.type = "FILE",
           Wanted(start, len, e) # {}
    PROVE  RightIfEqual(start, len, e, buf)
<1>0. PICK mine, wanted : mine = Mine(start, len, e) /\ wanted = Wanted(start, len, e)
  OBVIOUS
<1>1. PICK rs, n, es : rs = RStart(start, e) /\ n = ReadLen(start, len, e) /\ es = EStart(start, e)
  OBVIOUS
<1>2. /\ n \in Nat /\ wanted = rs .. rs + n - 1 /\ Cardinality(wanted) = n /\ n > 0
      /\ rs \in wanted /\ Least(mine) = rs
      /\ start + rs - e.start = es
  <2>1. IsWanted(start, len, e)
    BY <1>0, WantedIs
  <2> QED
    BY <1>0, <1>1, <2>1 DEF IsWanted
<1>3. rs \in Nat /\ es \in Nat
  BY <1>1, PartFacts
<1>4. e.owner \in Files /\ FileSize[e.owner] \in Nat
  BY ExtentFacts, ReadAssumption
<1>5. ASSUME NEW i \in wanted
      PROVE  /\ n + n <= FileSize[e.owner] /\ buf[i] = <<e.owner, 1, n + (i - rs)>>
             /\ DeviceUnit(start + i) = IF es + (i - rs) < FileSize[e.owner] THEN <<e.owner, 1, es + (i - rs)>> ELSE Zero
  <2>1. i \in 0 .. len - 1 /\ Inside(start + i, e) /\ start + i - e.start < UINT32_MAX
    BY <1>0 DEF Mine, Wanted
  <2>2. ServedOf(start, len, e, i, buf[i])
    BY <2>1, FilesServed
  <2>3. n + n <= FileSize[e.owner] /\ buf[i] = <<e.owner, 1, n + (i - rs)>>
    BY <1>1, <2>1, <2>2 DEF ServedOf
  <2>4. PICK o : o = start + i - e.start
    OBVIOUS
  <2>5. o = es + (i - rs)
    <3>1. i \in Int
      BY <2>1
    <3>2. start + i - e.start = EStart(start, e) + (i - RStart(start, e))
      BY <3>1, PartOffset
    <3> QED
      BY <1>1, <2>4, <3>2, Zenon
  <2>6. PICK offset \in Nat : offset = start + i
    <3>1. start + i \in Nat
      BY <2>1
    <3> QED
      BY <3>1
  <2>7. o = offset - e.start
    <3>1. PICK a \in Nat : a = e.start
      BY ExtentFacts
    <3> QED
      BY <2>1, <2>4, <2>6, <3>1
  <2>8. Inside(offset, e)
    BY <2>1, <2>6, Zenon
  <2>9. DeviceUnit(offset) = IF o < FileSize[e.owner] THEN <<e.owner, 1, o>> ELSE Zero
    BY <2>7, <2>8, UnitOfFile
  <2> QED
    BY <2>3, <2>5, <2>6, <2>9
<1>6. ASSUME es = n, NEW i \in wanted PROVE buf[i] = DeviceUnit(start + i)
  <2>1. i \in rs .. rs + n - 1
    BY <1>2
  <2>2. es + (i - rs) < n + n
    BY <1>2, <1>3, <1>6, <2>1
  <2>3. es + (i - rs) < FileSize[e.owner]
    <3>1. n + n <= FileSize[e.owner]
      BY <1>5
    <3> QED
      BY <1>2, <1>3, <1>4, <2>1, <2>2, <3>1
  <2> QED
    BY <1>5, <1>6, <2>3
<1>7. ASSUME \A i \in wanted : buf[i] = DeviceUnit(start + i) PROVE es = n
  <2>1. buf[rs] = DeviceUnit(start + rs) /\ rs \in wanted
    BY <1>2, <1>7
  <2>2. n + (rs - rs) = n /\ es + (rs - rs) = es
    BY <1>2, <1>3
  <2>3. buf[rs] = <<e.owner, 1, n>>
    BY <1>5, <2>1, <2>2
  <2>4. DeviceUnit(start + rs) = <<e.owner, 1, es>> \/ DeviceUnit(start + rs) = Zero
    BY <1>5, <2>1, <2>2
  <2>5. <<e.owner, 1, n>> # Zero
    BY DEF Zero
  <2> QED
    <3>1. <<e.owner, 1, n>> = <<e.owner, 1, es>>
      BY <2>1, <2>3, <2>4, <2>5
    <3> QED
      BY <3>1
<1> QED
  BY <1>0, <1>2, <1>6, <1>7 DEF RightIfEqual

(* A read that has succeeded has put together what the device has, as far as it is not of a file;
   and what is of a file is right exactly if the offset in the file happens to be the length, since
   file_read seeks to the length (fs_read, fs_find_extent, buffer_read, file_read). *)
THEOREM ReadsAreRightAlways == Spec => []ReadsAreRight
<1>1. ReadInv => ReadsAreRight
  <2> SUFFICES ASSUME ReadInv, rd.pc = "ok" PROVE ReadsAreRight
    BY DEF ReadsAreRight
  <2>1. PICK start, len, last, buf :
           /\ start \in Nat /\ len \in Nat /\ last \in Nat
           /\ rd.start = start /\ rd.buf = buf /\ DOMAIN buf = 0 .. len - 1
           /\ BufferIs(excused, start, len, last, buf)
           /\ AllMet(start, len, last)
    BY ReadDone DEF ReadInv
  <2>2. DOMAIN fs.extents = 1 .. Len(fs.extents)
    BY ExtentFacts
  <2>3. \A e : FileOffsets(e) = {k \in 0 .. len - 1 : Inside(start + k, e)}
    BY <2>1 DEF FileOffsets, Inside
  <2>3a. \A i \in 0 .. len - 1 : NotOfFile(start + i) => buf[i] = DeviceUnit(start + i)
    <3>1. start \in Nat /\ len \in Nat /\ last \in Nat
      BY <2>1
    <3>2. BufferIs(excused, start, len, last, buf)
      BY <2>1
    <3>3. AllMet(start, len, last)
      BY <2>1
    <3> TAKE i \in 0 .. len - 1
    <3> HAVE NotOfFile(start + i)
    <3> QED
      BY <3>1, <3>2, <3>3, BuffersRight
  <2>4. ASSUME NEW i \in DOMAIN rd.buf,
               \A e \in {fs.extents[j] : j \in DOMAIN fs.extents} : e.type = "FILE" => i \notin FileOffsets(e)
        PROVE  rd.buf[i] = DeviceUnit(rd.start + i)
    <3>1. i \in 0 .. len - 1
      BY <2>1
    <3>2. NotOfFile(start + i)
      BY <2>2, <2>3, <2>4, <3>1 DEF NotOfFile
    <3>3. buf[i] = DeviceUnit(start + i)
      BY <2>3a, <3>1, <3>2, Zenon
    <3> QED
      BY <2>1, <3>3, Zenon
  <2>5. ASSUME NEW j \in DOMAIN fs.extents, NEW e, e = fs.extents[j], NEW mine, mine = FileOffsets(e),
               NEW wanted, wanted = {i \in mine : rd.start + i - e.start < UINT32_MAX},
               e.type = "FILE", wanted # {}, ~excused
        PROVE  (\A i \in wanted : rd.buf[i] = DeviceUnit(rd.start + i)) <=> rd.start + Least(mine) - e.start = Cardinality(wanted)
    <3>1. mine = Mine(start, len, e)
      BY <2>3, <2>5 DEF Mine
    <3>2. wanted = Wanted(start, len, e)
      BY <2>1, <2>5, <3>1 DEF Wanted
    <3>3. BufferIs(FALSE, start, len, last, buf)
      BY <2>1, <2>5, Excused
    <3>4. j \in 1 .. Len(fs.extents)
      BY <2>2
    <3>5. start \in Nat /\ len \in Nat /\ last \in Nat /\ AllMet(start, len, last)
      BY <2>1
    <3>6. e = fs.extents[j] /\ e.type = "FILE" /\ Wanted(start, len, e) # {}
      BY <2>5, <3>2
    <3>7. RightIfEqual(start, len, e, buf)
      BY <3>3, <3>4, <3>5, <3>6, FilesRight
    <3> QED
      BY <2>1, <3>1, <3>2, <3>7, Zenon DEF RightIfEqual
  <2> QED
    BY <2>4, <2>5, Zenon DEF ReadsAreRight
<1> QED
  BY <1>1, ReadAlways, PTL
=============================================================================
