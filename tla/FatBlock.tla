------------------------------ MODULE FatBlock ------------------------------
(***************************************************************************)
(* The fatblock program behind its import: main creates the block device,  *)
(* serves its requests from the extents until it is stopped, and cleans up *)
(* on every way out.  Signals arrive and files change at any time.         *)
(***************************************************************************)
EXTENDS FatRead, Ublock

CONSTANTS Reads      \* offsets and lengths the kernel asks for, <<start, length>>

ASSUME FatBlockAssumption == Reads \subseteq Nat \X (Nat \ {0})

VARIABLES
    ubSet,       \* main's pointer to the context has been assigned
    ums,         \* the USB mass storage file names the device
    destroyed,   \* calls of ublock_destroy with the context
    interrupted, \* where a signal or a failed assertion has ended the process, or "no" (not in the code)
    sky          \* the device was stopped (not in the code)

mainVars == <<ubSet, ums, destroyed, interrupted, sky>>
vars == <<pool, fdtable, used, readVars, ublockVars, mainVars>>

Init ==
    /\ ReadInit
    /\ UblockInit
    /\ ubSet = FALSE /\ ums = FALSE /\ destroyed = 0
    /\ interrupted = "no" /\ sky = FALSE

-----------------------------------------------------------------------------
(* What the kernel asks for, in any order. *)
Requests ==
    [op : {"init"}, good : BOOLEAN, max_buf : KernelBufs]
      \cup [op : {"ready", "write"}, good : BOOLEAN]
      \cup {[op |-> "unknown", good |-> TRUE]}
      \cup {[op |-> "read", good |-> good, start |-> r[1], len |-> r[2]] : good \in BOOLEAN, r \in Reads}

Request ==
    /\ \E r \in Requests : Receive(r)
    /\ UNCHANGED <<pool, fdtable, used, readVars, mainVars>>

HandleOther ==
    /\ ublock_handle_init \/ ublock_handle_ready \/ ublock_handle_write \/ Refuse
    /\ UNCHANGED <<pool, fdtable, used, readVars, mainVars>>

(* read_callback calls fs_read ... *)
StartRead ==
    /\ Handling("read")
    /\ rd.pc = "idle"
    /\ FsRead(req.start, req.len)
    /\ UNCHANGED <<pool, fdtable, used, disk, inodes, excused, ublockVars, mainVars>>

Reading ==
    /\ ReadStep
    /\ UNCHANGED <<ublockVars, mainVars>>

\* Mutant: the device goes on after a change was noticed.
GoOn ==
    /\ rd.pc \in {"ok", "error", "falling"}
    /\ ublock_handle_read(ub, rd.pc = "ok")
    /\ sky' = (sky \/ (rd.pc = "falling" /\ ubSet))
    /\ rd' = [pc |-> "idle"]
    /\ UNCHANGED <<pool, fdtable, used, disk, inodes, excused, ubSet, ums, destroyed, interrupted>>

(* ... and stops the device if a file has changed, which has no effect as long as ublock_init has
   not returned the context. *)
FinishRead ==
    /\ rd.pc \in {"ok", "error", "falling"}
    /\ ublock_handle_read(IF rd.pc = "falling" /\ ubSet THEN ublock_stop(ub) ELSE ub, rd.pc = "ok")
    /\ sky' = (sky \/ (rd.pc = "falling" /\ ubSet))
    /\ rd' = [pc |-> "idle"]
    /\ UNCHANGED <<pool, fdtable, used, disk, inodes, excused, ubSet, ums, destroyed, interrupted>>

Answer ==
    /\ \E wrote \in {"all", "short", "error"} : Reply(wrote)
    /\ interrupted' = IF place' = "aborted" THEN place ELSE interrupted
    /\ UNCHANGED <<pool, fdtable, used, readVars, ubSet, ums, destroyed, sky>>

AnswerOverruns ==
    /\ OverrunBuffer
    /\ UNCHANGED <<pool, fdtable, used, readVars, mainVars>>

EndLoop ==
    /\ ReceiveFails \/ LoopEnds
    /\ UNCHANGED <<pool, fdtable, used, readVars, mainVars>>

-----------------------------------------------------------------------------
(* cleanup n times: once from exit, twice if the signal handler does it as well.  Behind it exit
   writes what is in the buffers of open streams: a name that set_ums_file has printed. *)
Cleanup(n) ==
    /\ ums' = (place = "naming")
    /\ destroyed' = destroyed + (IF ubSet THEN n ELSE 0)
    /\ place' = "exited"
    /\ req' = None /\ out' = Unanswered /\ rd' = [pc |-> "idle"]
    /\ UNCHANGED <<pool, fdtable, used, disk, inodes, excused, ub, ubSet, sky>>

(* ublock_init fails.  The buffers it frees have not been assigned: that may end the process. *)
InitFails ==
    /\ place = "initFailed"
    /\ \/ Cleanup(1) /\ UNCHANGED interrupted
       \/ /\ place' = "aborted" /\ interrupted' = place
          /\ UNCHANGED <<pool, fdtable, used, readVars, ub, req, out, ubSet, ums, destroyed, sky>>

(* ublock_init has returned the context: main asks for its index, sets the file and runs. *)
Created ==
    /\ place = "created"
    /\ ~ubSet
    /\ ubSet' = TRUE
    /\ UNCHANGED <<pool, fdtable, used, readVars, ublockVars, ums, destroyed, interrupted, sky>>

NoIndex ==
    /\ place = "created"
    /\ ubSet
    /\ "INITED" \notin ub.flags
    /\ Cleanup(1)
    /\ UNCHANGED interrupted

(* set_ums_file has opened the file and printed the name, which stays in the stream's buffer ... *)
set_ums_file ==
    /\ place = "created"
    /\ ubSet
    /\ "INITED" \in ub.flags
    /\ place' = "naming"
    /\ UNCHANGED <<pool, fdtable, used, readVars, ub, req, out, mainVars>>

(* ... until the file is closed ... *)
Run ==
    /\ place = "naming"
    /\ ublock_run
    /\ ums' = TRUE
    /\ UNCHANGED <<pool, fdtable, used, readVars, ubSet, destroyed, interrupted, sky>>

(* ... or it cannot open the file, which main ignores. *)
RunUnnamed ==
    /\ place = "created"
    /\ ubSet
    /\ "INITED" \in ub.flags
    /\ ublock_run
    /\ UNCHANGED <<pool, fdtable, used, readVars, mainVars>>

Leave ==
    /\ place = "leaving"
    /\ ums' = FALSE
    /\ destroyed' = destroyed + 1
    /\ place' = "destroyed"
    /\ UNCHANGED <<pool, fdtable, used, readVars, ub, req, out, ubSet, interrupted, sky>>

(* normal_exit: the handler of exit has nothing to do. *)
Exit ==
    /\ place = "destroyed"
    /\ place' = "exited"
    /\ UNCHANGED <<pool, fdtable, used, readVars, ub, req, out, mainVars>>

\* Mutant: the signal handler leaves the clearing of the file to nobody.
SignalForgets ==
    /\ place \notin {"exited", "aborted", "overwritten"}
    /\ interrupted' = place
    /\ place' = "exited"
    /\ destroyed' = destroyed + (IF ubSet THEN 2 ELSE 0)
    /\ req' = None /\ out' = Unanswered /\ rd' = [pc |-> "idle"]
    /\ UNCHANGED <<pool, fdtable, used, disk, inodes, excused, ub, ubSet, ums, sky>>

(* The handler cleans up and calls exit, whose handler cleans up again. *)
signal_handler ==
    /\ place \notin {"exited", "aborted", "overwritten"}
    /\ interrupted' = place
    /\ Cleanup(2)

-----------------------------------------------------------------------------
Changes ==
    /\ place \notin {"exited", "aborted", "overwritten"}
    /\ \E f \in Files : Change(f) \/ Remove(f)
    /\ UNCHANGED <<ublockVars, mainVars>>

(* What the process does by itself, without waiting for the kernel. *)
Process ==
    \/ HandleOther \/ StartRead \/ Reading \/ FinishRead \/ Answer \/ AnswerOverruns
    \/ InitFails \/ Created \/ NoIndex \/ set_ums_file \/ Run \/ RunUnnamed \/ Leave \/ Exit
    \/ LoopEnds /\ UNCHANGED <<pool, fdtable, used, readVars, mainVars>>

Next == Process \/ Request \/ EndLoop \/ signal_handler \/ Changes

Spec == Init /\ [][Next]_vars /\ WF_vars(Process)

-----------------------------------------------------------------------------
(* All variables have the values they are declared for. *)
TypeOK ==
    /\ place \in {"first", "ready", "created", "naming", "run", "leaving", "destroyed", "initFailed", "exited",
                  "aborted", "overwritten"}
    /\ ub.flags \subseteq {"INITED", "READY", "RUNNING"}
    /\ ub.max_buf \in 0 .. MAX_BUF /\ ub.fails \in Nat /\ ub.bufs \in Nat
    /\ req.op \in {"none", "init", "ready", "read", "write", "unknown"}
    /\ out.len \in Int /\ out.result \in {0, -1}
    /\ {ubSet, ums, sky, excused} \subseteq BOOLEAN /\ destroyed \in 0 .. 3
    /\ rd.pc \in {"idle", "find", "check", "read", "ok", "error", "falling"}
    /\ DOMAIN disk = Files /\ DOMAIN pool.fd = Files

(* When the process has ended, the mass storage file names the device exactly if a signal came while
   the name was printed and not yet written, or, at most, if an assertion has failed while requests
   were served; the device has been destroyed once if nothing came, after a signal twice or, in the
   end of main, three times, and after a failed assertion never (cleanup, signal_handler,
   atexit_handler, set_ums_file). *)
CleanedUp ==
    /\ place = "exited" =>
          /\ ums <=> interrupted = "naming"
          /\ interrupted = "no" => destroyed = (IF ubSet THEN 1 ELSE 0)
          /\ interrupted # "no" => destroyed >= (IF ubSet THEN 2 ELSE 0)
    /\ place = "aborted" => (ums => interrupted = "run") /\ destroyed = 0

(* A device that was stopped because a file has changed serves no more requests, also not those for
   files that have not changed, and the process ends (read_callback, ublock_stop, ublock_loop). *)
SkyEnds == sky ~> place \in {"exited", "aborted"}
=============================================================================
