------------------------------ MODULE BnWrapper ------------------------------
(***************************************************************************)
(* The service side of the binder interface (wrapper/BnWrapper.cpp): the    *)
(* TAINT_CALL and CALLBACK branches of onTransact, run by a pool of binder  *)
(* threads.  txn[t] is the synchronous binder transaction of app thread t:  *)
(* what it sent, or the reply parcel it is about to read.                   *)
(***************************************************************************)
EXTENDS ExecutionManager

VARIABLES txn,       \* per app thread: its transaction
          bpc,       \* per binder thread: position in onTransact
          bThread,   \* ... the thread id of the transaction it serves
          bCode,     \* ... TAINT_CALL or CALLBACK
          rawdata    \* ... CALLBACK: the malloc'ed answer

binderVars == <<bpc, bThread, bCode, rawdata>>
serverVars == <<managerVars, stackResult, nativeVars, txn, binderVars>>

Parcel == [tag : {"none", "TAINT_CALL", "CALLBACK", "serving", "reply", "failed"},
           status : Status, call : Call \cup {Null},
           function : Function \cup {Null}, data : Data]

MakeParcel(tag, s, c, f, d) ==
    [tag |-> tag, status |-> s, call |-> c, function |-> f, data |-> d]

NoTxn == MakeParcel("none", INIT, Null, Null, Null)
TaintCallTxn(c) == MakeParcel("TAINT_CALL", INIT, c, Null, Null)
CallbackTxn(f, d) == MakeParcel("CALLBACK", INIT, Null, f, d)
Serving == MakeParcel("serving", INIT, Null, Null, Null)

\* onTransact returns -1: the caller gets an error and no parcel.
Failed == MakeParcel("failed", INIT, Null, Null, Null)
StatusReply(s) == MakeParcel("reply", s, Null, Null, Null)
ResultReply(v) == MakeParcel("reply", FINISHED, v, Null, Null)
RequestReply(t) ==
    MakeParcel("reply", WAIT4JNI, Null, jniCall[t].function, jniCall[t].param_data)

ServerInit ==
    /\ ManagerInit
    /\ txn = [t \in Thread |-> NoTxn]
    /\ bpc = [b \in Binder |-> "idle"]
    /\ bThread = [b \in Binder |-> Null]
    /\ bCode = [b \in Binder |-> Null]
    /\ rawdata = [b \in Binder |-> Null]

ServerTypeOK ==
    /\ ManagerTypeOK
    /\ txn \in [Thread -> Parcel]
    /\ bpc \in [Binder -> {"idle", "waitReply", "reply"}]
    /\ bThread \in [Binder -> Thread \cup {Null}]
    /\ bCode \in [Binder -> {"TAINT_CALL", "CALLBACK"} \cup {Null}]
    /\ rawdata \in [Binder -> Data]

-----------------------------------------------------------------------------
\* The binder driver hands a transaction to an idle thread of the pool.  The
\* stack frame of onTransact is reused: the slot of `result` is indeterminate.
Enter(b, t, code) ==
    /\ bpc[b] = "idle"
    /\ txn[t].tag = code
    /\ stackResult' = [stackResult EXCEPT ![b] = Null]

Serve(b, t, code, d) ==
    /\ txn' = [txn EXCEPT ![t] = Serving]
    /\ bpc' = [bpc EXCEPT ![b] = "waitReply"]
    /\ bThread' = [bThread EXCEPT ![b] = t]
    /\ bCode' = [bCode EXCEPT ![b] = code]
    /\ rawdata' = [rawdata EXCEPT ![b] = d]

\* TAINT_CALL up to the semaphore in startExec.
OnTaintCall(b, t) ==
    LET c == txn[t].call IN
    /\ Enter(b, t, "TAINT_CALL")
    /\ platformInvoke' = [platformInvoke EXCEPT ![t] = [call |-> c, pResult |-> b]]
    /\ StartExec(c)
    /\ Serve(b, t, "TAINT_CALL", Null)

\* Mutant: the answer is not put into jniCall.
OnCallbackNoData(b, t) ==
    /\ Enter(b, t, "CALLBACK")
    /\ txn[t].function = jniCall[t].function
    /\ SetJniResult(t)
    /\ Serve(b, t, "CALLBACK", txn[t].data)
    /\ UNCHANGED <<mStatus, mReplyReady, jniCall, platformInvoke, nativeVars>>

\* CALLBACK for the function the manager asked for, up to the semaphore in
\* setJniResult.
OnCallback(b, t) ==
    /\ Enter(b, t, "CALLBACK")
    /\ txn[t].function = jniCall[t].function
    /\ jniCall' = [jniCall EXCEPT ![t].param_data = txn[t].data]
    /\ SetJniResult(t)
    /\ Serve(b, t, "CALLBACK", txn[t].data)
    /\ UNCHANGED <<mStatus, mReplyReady, platformInvoke, nativeVars>>

\* setJniResult returns ERROR: the status is the whole reply, rawdata is freed
\* while param_data still points at it.
OnCallbackNotWaiting(b, t) ==
    /\ Enter(b, t, "CALLBACK")
    /\ txn[t].function = jniCall[t].function
    /\ mStatus[t] # WAIT4JNI
    /\ jniCall' = [jniCall EXCEPT ![t].param_data = Null]
    /\ txn' = [txn EXCEPT ![t] = StatusReply(ERROR)]
    /\ UNCHANGED <<mStatus, mReplyReady, mJniReady, platformInvoke, nativeVars, binderVars>>

\* "Function mismatch! Different JNI calls interfering."
OnCallbackMismatch(b, t) ==
    /\ Enter(b, t, "CALLBACK")
    /\ txn[t].function # jniCall[t].function
    /\ txn' = [txn EXCEPT ![t] = Failed]
    /\ UNCHANGED <<managerVars, nativeVars, binderVars>>

\* startExec or setJniResult gets past sem_wait(&mReplyReady).
ReplyIsReady(b) ==
    /\ bpc[b] = "waitReply"
    /\ WaitReplyReady(bThread[b])
    /\ bpc' = [bpc EXCEPT ![b] = "reply"]
    /\ UNCHANGED <<txn, bThread, bCode, rawdata>>

Leave(b) ==
    /\ bpc' = [bpc EXCEPT ![b] = "idle"]
    /\ UNCHANGED <<mStatus, mReplyReady, mJniReady, platformInvoke, stackResult, nativeVars,
                   bThread, bCode, rawdata>>

\* The rest of TAINT_CALL: the result is in the handler's own frame.
ReplyTaintCall(b) ==
    LET t == bThread[b] IN
    /\ bpc[b] = "reply" /\ bCode[b] = "TAINT_CALL"
    /\ txn' = [txn EXCEPT ![t] = CASE mStatus[t] = FINISHED -> ResultReply(stackResult[b])
                                   [] mStatus[t] = WAIT4JNI -> RequestReply(t)
                                   [] OTHER -> Failed]
    /\ UNCHANGED jniCall
    /\ Leave(b)

\* The rest of CALLBACK: the result is read through platformInvoke.pResult,
\* the frame of a TAINT_CALL that has returned.  rawdata is freed last.
ReplyCallback(b) ==
    LET t == bThread[b] IN
    /\ bpc[b] = "reply" /\ bCode[b] = "CALLBACK"
    /\ txn' = [txn EXCEPT ![t] =
                 CASE mStatus[t] = WAIT4JNI -> RequestReply(t)
                   [] mStatus[t] = FINISHED -> ResultReply(stackResult[platformInvoke[t].pResult])
                   [] OTHER -> StatusReply(mStatus[t])]
    /\ jniCall' = [jniCall EXCEPT ![t].param_data = IF @ = rawdata[b] THEN Null ELSE @]
    /\ Leave(b)

BinderThread(b) ==
    \/ \E t \in Thread : \/ OnTaintCall(b, t)
                         \/ OnCallback(b, t)
                         \/ OnCallbackNotWaiting(b, t)
                         \/ OnCallbackMismatch(b, t)
    \/ ReplyIsReady(b)
    \/ ReplyTaintCall(b)
    \/ ReplyCallback(b)

NativeThread(c) == Native(c) /\ UNCHANGED <<txn, binderVars>>

-----------------------------------------------------------------------------
(* Properties of the service.                                              *)

\* No transaction fails and the manager never reports a status taintCall does
\* not expect: no "Function mismatch!", no "ExecutionManager does not wait
\* for JNI result!", no "Unexpected Execution Manager status".
NoInterference ==
    \A t \in Thread : /\ txn[t].tag # "failed"
                      /\ txn[t].tag = "reply" => txn[t].status \in {WAIT4JNI, FINISHED}

\* The answer a JNI stub reads out of param_data is the answer to the request
\* it has just made.
AnswerIsOwn ==
    \A c \in Call : npc[c] = "running" /\ nJni[c] > 0 => nGot[c] = Answer(c, nJni[c])

\* startExec and setJniResult return only when the native side has something
\* to send: WAIT4EXEC, INIT and ERROR are never read after the semaphore.
ReplyStatus ==
    \A b \in Binder : bpc[b] = "reply" => mStatus[bThread[b]] \in {WAIT4JNI, FINISHED}

\* The mailbox jniCall and mStatus are not synchronised by themselves: while a
\* handler reads them to build its reply, no native thread of that thread id
\* is in a step that accesses them.
MailboxExclusive ==
    \A b \in Binder, c \in Call :
        bpc[b] = "reply" /\ bThread[b] = ThreadOf[c] =>
            \/ npc[c] \in {"none", "done"}
            \/ npc[c] = "reqWait" /\ mJniReady[ThreadOf[c]] = 0
=============================================================================
