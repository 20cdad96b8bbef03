---------------------------- MODULE WrapperServer ----------------------------
(***************************************************************************)
(* The wrapper service with an app whose threads use it as the protocol     *)
(* wants it: a thread makes one native call at a time and answers the JNI   *)
(* request it was given, with that request's function code.  This is the    *)
(* contract taintCall would keep if every thread had a BpWrapper of its     *)
(* own; module BpWrapper has the client as it is.                           *)
(***************************************************************************)
EXTENDS BnWrapper

VARIABLES active,    \* per app thread: the call it is in, or Null
          returned   \* per call: the value taintCall returned, or Null

vars == <<serverVars, active, returned>>

Init ==
    /\ ServerInit
    /\ active = [t \in Thread |-> Null]
    /\ returned = [c \in Call |-> Null]

-----------------------------------------------------------------------------
(* The app thread t.                                                       *)

TransactTaintCall(c) ==
    LET t == ThreadOf[c] IN
    /\ active[t] = Null
    /\ npc[c] = "none"
    /\ active' = [active EXCEPT ![t] = c]
    /\ txn' = [txn EXCEPT ![t] = TaintCallTxn(c)]
    /\ UNCHANGED <<managerVars, stackResult, nativeVars, binderVars, returned>>

\* handleJNIRequest and doCallbackTransaction: the JNI function is executed
\* on the arguments of the request and its result is sent back.
TransactCallback(t) ==
    LET r == txn[t] IN
    /\ r.tag = "reply" /\ r.status = WAIT4JNI
    /\ txn' = [txn EXCEPT ![t] = CallbackTxn(r.function, Answer(r.data[2], r.data[3]))]
    /\ UNCHANGED <<managerVars, stackResult, nativeVars, binderVars, active, returned>>

\* setResult, and taintCall returns.
ReturnResult(t) ==
    LET r == txn[t] IN
    /\ r.tag = "reply" /\ r.status = FINISHED
    /\ returned' = [returned EXCEPT ![active[t]] = r.call]
    /\ active' = [active EXCEPT ![t] = Null]
    /\ txn' = [txn EXCEPT ![t] = NoTxn]
    /\ UNCHANGED <<managerVars, stackResult, nativeVars, binderVars>>

AppThread(t) ==
    \/ \E c \in Call : ThreadOf[c] = t /\ TransactTaintCall(c)
    \/ TransactCallback(t)
    \/ ReturnResult(t)

Terminating ==
    /\ \A c \in Call : npc[c] = "done"
    /\ \A t \in Thread : active[t] = Null
    /\ UNCHANGED vars

Next ==
    \/ \E t \in Thread : AppThread(t)
    \/ \E b \in Binder : BinderThread(b) /\ UNCHANGED <<active, returned>>
    \/ \E c \in Call : NativeThread(c) /\ UNCHANGED <<active, returned>>
    \/ Terminating

Spec == Init /\ [][Next]_vars

-----------------------------------------------------------------------------
\* Every variable has a value of its type.
TypeOK ==
    /\ ServerTypeOK
    /\ active \in [Thread -> Call \cup {Null}]
    /\ returned \in [Call -> Call \cup {Null}]

\* A call that returns has the value of its own native method.
ResultIsOwn == \A c \in Call : npc[c] = "done" /\ active[ThreadOf[c]] # c => returned[c] = c

-----------------------------------------------------------------------------
(* The inductive invariant behind the safety properties.  For each thread   *)
(* id there is one token: it is with the app thread, in one of the          *)
(* semaphores, with the one handler, or with the one native thread that     *)
(* runs.                                                                    *)

Serves(b, t) == bpc[b] # "idle" /\ bThread[b] = t
HandlersAt(t, pc) == \A b \in Binder : Serves(b, t) => bpc[b] = pc
Semaphores(t, reply, jni) == mReplyReady[t] = reply /\ mJniReady[t] = jni

\* A thread without a call has no transaction and its manager is at rest.
NoCallInv ==
    \A t \in Thread :
        /\ active[t] = Null => txn[t].tag = "none" /\ Semaphores(t, 0, 0)
        /\ active[t] # Null => ThreadOf[active[t]] = t

\* A handler serves a pending transaction, alone.
HandlerInv ==
    /\ \A b \in Binder : bpc[b] # "idle" =>
         /\ bThread[b] \in Thread
         /\ txn[bThread[b]].tag = "serving"
         /\ bCode[b] = "CALLBACK" => rawdata[b] \in {"answer"} \X Call \X Nat
         /\ bCode[b] \in {"TAINT_CALL", "CALLBACK"}
    /\ \A b, d \in Binder : bpc[b] # "idle" /\ bpc[d] # "idle" /\ bThread[b] = bThread[d] => b = d

\* A call that is not the active one of its thread has not begun, or ended.
RestInv == \A c \in Call : active[ThreadOf[c]] # c => npc[c] \in {"none", "done"}

\* An active call whose native thread does not exist yet.
SentInv ==
    \A c \in Call : LET t == ThreadOf[c] IN
        active[t] = c /\ npc[c] = "none" =>
            txn[t].tag = "TAINT_CALL" /\ txn[t].call = c /\ Semaphores(t, 0, 0)

\* The native thread has the token.
RunningInv ==
    \A c \in Call : LET t == ThreadOf[c] IN
        npc[c] \in {"created", "running", "reqPost", "readResult", "signal", "resPost", "failed"} =>
            /\ txn[t].tag = "serving"
            /\ Semaphores(t, 0, 0)
            /\ HandlersAt(t, "waitReply")

\* The native thread waits for the answer to its last request; the token goes
\* from it over the handler to the app and back.
WaitingInv ==
    \A c \in Call : LET t == ThreadOf[c] IN
        npc[c] = "reqWait" =>
            /\ mStatus[t] = WAIT4JNI
            /\ mJniReady[t] = 0 /\ txn[t].tag # "CALLBACK" =>
                   jniCall[t].param_data = Args(c, nJni[c])
            /\ \/ txn[t].tag = "serving" /\ Semaphores(t, 1, 0) /\ HandlersAt(t, "waitReply")
               \/ txn[t].tag = "serving" /\ Semaphores(t, 0, 0) /\ HandlersAt(t, "reply")
               \/ /\ txn[t].tag = "reply" /\ txn[t].status = WAIT4JNI
                  /\ txn[t].function = jniCall[t].function
                  /\ txn[t].data = Args(c, nJni[c])
                  /\ Semaphores(t, 0, 0)
               \/ /\ txn[t].tag = "CALLBACK"
                  /\ txn[t].function = jniCall[t].function
                  /\ txn[t].data = Answer(c, nJni[c])
                  /\ Semaphores(t, 0, 0)
               \/ /\ txn[t].tag = "serving" /\ Semaphores(t, 0, 1) /\ HandlersAt(t, "waitReply")
                  /\ jniCall[t].param_data = Answer(c, nJni[c])

\* The native thread has ended and the result is on its way to the app.
EndedInv ==
    \A c \in Call : LET t == ThreadOf[c] IN
        active[t] = c /\ npc[c] = "done" =>
            /\ mStatus[t] = FINISHED
            /\ \/ txn[t].tag = "serving" /\ Semaphores(t, 1, 0) /\ HandlersAt(t, "waitReply")
               \/ txn[t].tag = "serving" /\ Semaphores(t, 0, 0) /\ HandlersAt(t, "reply")
               \/ txn[t].tag = "reply" /\ txn[t].status = FINISHED /\ Semaphores(t, 0, 0)

\* What the native thread left in the manager before it posts.
MailboxInv ==
    \A c \in Call : LET t == ThreadOf[c] IN
        /\ npc[c] = "reqPost" => mStatus[t] = WAIT4JNI /\ jniCall[t].param_data = Args(c, nJni[c])
        /\ npc[c] = "readResult" => jniCall[t].param_data = Answer(c, nJni[c])
        /\ npc[c] = "resPost" => mStatus[t] = FINISHED

\* The native thread runs the call it was created for, although it reads its
\* parameters from the manager after it was created.
InvokeInv ==
    \A c \in Call : LET t == ThreadOf[c] IN
        /\ active[t] = c /\ npc[c] # "none" =>
             /\ platformInvoke[t].call = c /\ platformInvoke[t].pResult \in Binder
             /\ npc[c] \notin {"created", "failed"} => nInvoke[c] = platformInvoke[t]
        /\ npc[c] \in {"none", "created", "failed"} => nJni[c] = 0

IInv ==
    /\ TypeOK
    /\ NoCallInv
    /\ HandlerInv
    /\ RestInv
    /\ SentInv
    /\ RunningInv
    /\ WaitingInv
    /\ EndedInv
    /\ MailboxInv
    /\ InvokeInv
    /\ AnswerIsOwn
=============================================================================
