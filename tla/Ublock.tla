------------------------------- MODULE Ublock -------------------------------
(***************************************************************************)
(* libublock: the requests of the kernel's block device are read from the  *)
(* control device, handled one by one and answered.  Lengths are counted   *)
(* in units; a header of an answer and a status are one unit each.         *)
(***************************************************************************)
EXTENDS Integers, FiniteSets

CONSTANTS MAX_BUF, MAX_FAILURES,
          KernelBufs,     \* values of max_buf in the kernel's requests
          Garbage         \* values a variable may have before it is assigned

ASSUME UblockAssumption == {MAX_BUF, MAX_FAILURES} \subseteq Nat /\ KernelBufs \cup Garbage \subseteq Nat

OutHeader == 1
Status == 1
InitOut == 2
InitBufSize == OutHeader + InitOut     \* the larger of the two directions

None == [op |-> "none"]
Unanswered == [result |-> 0, len |-> -1]

VARIABLES
    place,     \* where the process is
    ub,        \* the context, and the size of its buffers
    req,       \* the request being handled
    out        \* its result and the length of its answer

ublockVars == <<place, ub, req, out>>

UblockInit ==
    /\ place = "first"
    /\ \E fails \in Garbage :
          ub = [flags |-> {}, max_buf |-> 0, fails |-> fails, bufs |-> InitBufSize]
    /\ req = None
    /\ out = Unanswered

(* ublock_loop: what keeps each of the two loops going.  The first request is read outside of them. *)
Loops ==
    CASE place = "first" -> TRUE
      [] place = "ready" -> "READY" \notin ub.flags
      [] place = "run" -> "RUNNING" \in ub.flags
      [] OTHER -> FALSE

ublock_stop(u) == IF "INITED" \in u.flags THEN [u EXCEPT !.flags = @ \ {"RUNNING"}] ELSE u

(* read() returns a request of the kernel. *)
Receive(r) ==
    /\ Loops
    /\ req = None
    /\ req' = r
    /\ UNCHANGED <<place, ub, out>>

Handling(op) == req.op = op /\ req.good /\ out = Unanswered

(* A later one of these requests changes max_buf, but not the buffers. *)
ublock_handle_init ==
    /\ Handling("init")
    /\ ub' = [ub EXCEPT !.max_buf = IF req.max_buf < MAX_BUF THEN req.max_buf ELSE MAX_BUF,
                        !.flags = @ \cup {"INITED"}]
    /\ out' = [result |-> 0, len |-> OutHeader + InitOut]
    /\ UNCHANGED <<place, req>>

ublock_handle_ready ==
    /\ Handling("ready")
    /\ ub' = [ub EXCEPT !.flags = @ \cup {"READY"}]
    /\ out' = [result |-> 0, len |-> OutHeader]
    /\ UNCHANGED <<place, req>>

(* The callback has returned whether it could read, and u is what it has done to the context: data
   follows the status if that is no error. *)
ublock_handle_read(u, ok) ==
    /\ Handling("read")
    /\ ub' = u
    /\ out' = [result |-> 0, len |-> OutHeader + Status + (IF ok THEN req.len ELSE 0)]
    /\ UNCHANGED <<place, req>>

ublock_handle_write ==
    /\ Handling("write")
    /\ out' = [result |-> 0, len |-> OutHeader + Status]
    /\ UNCHANGED <<place, ub, req>>

(* A request that is too short, of a wrong length or version, or unknown: it fails, and the length
   of the answer has not been set. *)
Refuse ==
    /\ req # None
    /\ req.op = "unknown" \/ ~req.good
    /\ out = Unanswered
    /\ \E len \in Garbage : out' = [result |-> -1, len |-> len]
    /\ UNCHANGED <<place, ub, req>>

OutSize == IF place = "first" THEN InitBufSize ELSE ub.max_buf

(* The buffer of answers has the size of the first max_buf.  A handler does not look at it: a read
   that the kernel should not have asked for, or a later max_buf, and it is overrun. *)
Overruns ==
    req # None /\ out # Unanswered /\ out.result = 0 /\ out.len > (IF place = "first" THEN InitBufSize ELSE ub.bufs)

(* No more is said of the process. *)
OverrunBuffer ==
    /\ Overruns
    /\ place' = "overwritten"
    /\ req' = None /\ out' = Unanswered
    /\ UNCHANGED ub

(* ublock_fail and ublock_succeed *)
Counted(u, failed) ==
    IF ~failed THEN [u EXCEPT !.fails = 0]
    ELSE IF u.fails + 1 > MAX_FAILURES THEN ublock_stop([u EXCEPT !.fails = @ + 1])
    ELSE [u EXCEPT !.fails = @ + 1]

(* ublock_init behind its first request.  The test of the flags is !flags & CTX_INITED, which only
   a context without any flag fails. *)
AfterFirst(u, result) ==
    IF result # 0 \/ u.flags = {} THEN [place |-> "initFailed", ub |-> u]
    ELSE [place |-> "ready", ub |-> [u EXCEPT !.bufs = u.max_buf]]

(* A loop returns at the first result that is an error; ublock_init ignores what it returns. *)
Continue(u, result) ==
    CASE place = "first" -> AfterFirst(u, result)
      [] place # "first" /\ result = 0 -> [place |-> place, ub |-> u]
      [] place = "ready" /\ result # 0 -> [place |-> "created", ub |-> u]
      [] place = "run" /\ result # 0 -> [place |-> "leaving", ub |-> u]

(* The rest of ublock_do_request: the answer is written, then the result looked at.  The comparison
   of what was written is one of unsigned numbers: a write that fails returns -1, which is not less
   than any length. *)
Reply(wrote) ==
    /\ req # None /\ out # Unanswered
    /\ ~Overruns
    /\ IF out.len > OutSize
       THEN place' = "aborted" /\ UNCHANGED ub
       ELSE LET short == wrote = "short"
                next == IF short THEN Continue(ub, -1)
                        ELSE Continue(Counted(ub, out.result # 0), out.result)
            IN place' = next.place /\ ub' = next.ub
    /\ req' = None
    /\ out' = Unanswered

(* read() fails. *)
ReceiveFails ==
    /\ Loops
    /\ req = None
    /\ place' = Continue(ub, -1).place
    /\ ub' = Continue(ub, -1).ub
    /\ UNCHANGED <<req, out>>

(* The condition of a loop does not hold any more. *)
LoopEnds ==
    /\ place \in {"ready", "run"}
    /\ req = None
    /\ ~Loops
    /\ place' = IF place = "ready" THEN "created" ELSE "leaving"
    /\ UNCHANGED <<ub, req, out>>

(* ublock_run of a context that is initialised *)
ublock_run ==
    /\ place' = "run"
    /\ ub' = [ub EXCEPT !.flags = @ \cup {"RUNNING"}]
    /\ UNCHANGED <<req, out>>
=============================================================================
