------------------------------ MODULE BpWrapper ------------------------------
(***************************************************************************)
(* The client side (wrapper/BpWrapper.cpp) together with the service: the   *)
(* loop of taintCall, handleJNIRequest and doCallbackTransaction.  The app  *)
(* has one BpWrapper object, so jniEnv, replydata, callbackdata and cbdata  *)
(* are shared by all its threads; only the locals of a taintCall are its    *)
(* own.  A step is one access to a shared member.                           *)
(*                                                                         *)
(* The Java code run by a JNI request may call a native method again, on    *)
(* the same thread and so with the same thread id.  top[t] is the innermost *)
(* taintCall of thread t, the only one that runs, and outer[c] the one that *)
(* c is nested in.                                                          *)
(***************************************************************************)
EXTENDS BnWrapper

CONSTANT Reentrant    \* whether Java code run by a JNI request calls native methods

ASSUME ReentrantAssumption == Reentrant \in BOOLEAN

ClientPC == {"idle", "transact", "awaitCall", "dispatch", "inJava", "result", "freeReply",
             "store", "callback", "awaitCallback", "returned", "aborted"}

VARIABLES jniEnv,        \* shared: the thread whose JNI environment is used
          replydata,     \* shared: buffer with the arguments of a request
          callbackdata,  \* shared: buffer with the result of a request
          cbdata,        \* shared: what doCallbackTransaction is to send
          top, outer,    \* the nested taintCalls of a thread
          cpc,           \* per taintCall: position
          function,      \* ... handleJNIRequest's local
          args,          \* ... what the handler unpacked, and the environment used
          sent,          \* ... the rawdata argument of doCallbackTransaction
          returned,      \* ... the value returned
          freed,         \* client buffers passed to free
          doubleFree,    \* a buffer was passed to free twice
          executed       \* per call: JNI requests of it executed in Java

sharedVars == <<jniEnv, replydata, callbackdata, cbdata>>
localVars == <<top, outer, cpc, function, args, sent, returned>>
heapVars == <<freed, doubleFree>>
clientVars == <<sharedVars, localVars, heapVars, executed>>
vars == <<serverVars, clientVars>>

Init ==
    /\ ServerInit
    /\ jniEnv = Null /\ replydata = Null /\ callbackdata = Null
    /\ cbdata = [function |-> Null, rawdata |-> Null]
    /\ top = [t \in Thread |-> Null]
    /\ outer = [c \in Call |-> Null]
    /\ cpc = [c \in Call |-> "idle"]
    /\ function = [c \in Call |-> Null]
    /\ args = [c \in Call |-> [env |-> Null, data |-> Null]]
    /\ sent = [c \in Call |-> Null]
    /\ returned = [c \in Call |-> Null]
    /\ freed = {} /\ doubleFree = FALSE
    /\ executed = [c \in Call |-> 0]

\* The innermost taintCall of its thread, at position pc.
At(c, pc) == top[ThreadOf[c]] = c /\ cpc[c] = pc

Goto(c, pc) == cpc' = [cpc EXCEPT ![c] = pc]

Free(buffer) ==
    /\ freed' = freed \cup ({buffer} \ {Null})
    /\ doubleFree' = (doubleFree \/ buffer \in freed)

\* taintCall up to setJniEnv: from Java code of the app, or from Java code
\* that a JNI request of the same thread is executing.
TaintCall(c) ==
    LET t == ThreadOf[c] IN
    /\ cpc[c] = "idle"
    /\ top[t] # Null => Reentrant /\ cpc[top[t]] = "inJava"
    /\ top' = [top EXCEPT ![t] = c]
    /\ outer' = [outer EXCEPT ![c] = top[t]]
    /\ jniEnv' = t
    /\ Goto(c, "transact")
    /\ UNCHANGED <<serverVars, replydata, callbackdata, cbdata, function, args, sent, returned,
                   heapVars, executed>>

TransactTaintCall(c) ==
    /\ At(c, "transact")
    /\ txn' = [txn EXCEPT ![ThreadOf[c]] = TaintCallTxn(c)]
    /\ Goto(c, "awaitCall")
    /\ UNCHANGED <<managerVars, stackResult, nativeVars, binderVars, sharedVars, top, outer, function,
                   args, sent, returned, heapVars, executed>>

\* The transaction is over.  doCallbackTransaction frees the rawdata it sent.
EndTransaction(c) ==
    /\ \/ At(c, "awaitCall") /\ UNCHANGED heapVars
       \/ At(c, "awaitCallback") /\ Free(sent[c])
    /\ txn' = [txn EXCEPT ![ThreadOf[c]] = NoTxn]
    /\ UNCHANGED <<managerVars, stackResult, nativeVars, binderVars>>

\* Mutant: doCallbackTransaction reads the status into an uninitialised variable.
ExecStatusUninitialised(c) ==
    LET r == txn[ThreadOf[c]] IN
    CASE r.tag = "reply" -> {r.status}
      [] r.tag = "failed" -> Status
      [] OTHER -> {}

\* The status taintCall acts on.  An error leaves no parcel: readInt32() then
\* returns 0, while readInt32(&execStatus) leaves execStatus uninitialised.
ExecStatus(c) ==
    LET r == txn[ThreadOf[c]] IN
    CASE r.tag = "reply" -> {r.status}
      [] r.tag = "failed" -> IF cpc[c] = "awaitCall" THEN Status ELSE {INIT}
      [] OTHER -> {}

Return(c, pc, v) ==
    /\ Goto(c, pc)
    /\ returned' = [returned EXCEPT ![c] = v]
    /\ top' = [top EXCEPT ![ThreadOf[c]] = outer[c]]
    /\ UNCHANGED <<sharedVars, outer, function, args, sent, executed>>

\* FINISHED: setResult and return.
ReturnResult(c) ==
    /\ FINISHED \in ExecStatus(c)
    /\ EndTransaction(c)
    /\ Return(c, "returned", txn[ThreadOf[c]].call)

\* "Unexpected Execution Manager status": the preset result is returned.
ReturnUnexpected(c) ==
    /\ ExecStatus(c) \ {FINISHED, WAIT4JNI} # {}
    /\ EndTransaction(c)
    /\ Return(c, "aborted", Null)

\* WAIT4JNI: handleJNIRequest reads the parcel into a new replydata.
ReadRequest(c) ==
    LET r == txn[ThreadOf[c]] IN
    /\ WAIT4JNI \in ExecStatus(c)
    /\ EndTransaction(c)
    /\ function' = [function EXCEPT ![c] = r.function]
    /\ replydata' = r.data
    /\ Goto(c, "dispatch")
    /\ UNCHANGED <<jniEnv, callbackdata, cbdata, top, outer, args, sent, returned, executed>>

\* The handler of the function unpacks replydata and calls into Java.
CallJni(c) ==
    /\ At(c, "dispatch")
    /\ args' = [args EXCEPT ![c] = [env |-> jniEnv, data |-> replydata]]
    /\ executed' = IF replydata = Null THEN executed ELSE [executed EXCEPT ![replydata[2]] = @ + 1]
    /\ Goto(c, "inJava")
    /\ UNCHANGED <<serverVars, sharedVars, top, outer, function, sent, returned, heapVars>>

\* Mutant: the JNI function is called again.
ReturnFromJavaRetry(c) ==
    /\ At(c, "inJava")
    /\ executed' = [executed EXCEPT ![c] = IF @ < MaxJni + 1 THEN @ + 1 ELSE @]
    /\ Goto(c, "result")
    /\ UNCHANGED <<serverVars, sharedVars, top, outer, function, args, sent, returned, heapVars>>

\* The JNI function returns to the handler ...
ReturnFromJava(c) ==
    /\ At(c, "inJava")
    /\ Goto(c, "result")
    /\ UNCHANGED <<serverVars, sharedVars, top, outer, function, args, sent, returned, heapVars, executed>>

\* ... and puts the result into a new callbackdata.
WriteCallbackdata(c) ==
    /\ At(c, "result")
    /\ callbackdata' = IF args[c].data = Null THEN Null
                       ELSE Answer(args[c].data[2], args[c].data[3])
    /\ Goto(c, "freeReply")
    /\ UNCHANGED <<serverVars, jniEnv, replydata, cbdata, top, outer, function, args, sent, returned,
                   heapVars, executed>>

FreeReplydata(c) ==
    /\ At(c, "freeReply")
    /\ Free(replydata)
    /\ Goto(c, "store")
    /\ UNCHANGED <<serverVars, sharedVars, top, outer, function, args, sent, returned, executed>>

\* Mutant: replydata is freed at the end as well, as for an unknown function.
StoreCbdataFrees(c) ==
    /\ At(c, "store")
    /\ Free(replydata)
    /\ cbdata' = [function |-> function[c], rawdata |-> callbackdata]
    /\ Goto(c, "callback")
    /\ UNCHANGED <<serverVars, jniEnv, replydata, callbackdata, top, outer, function, args, sent,
                   returned, executed>>

\* The end of handleJNIRequest.
StoreCbdata(c) ==
    /\ At(c, "store")
    /\ cbdata' = [function |-> function[c], rawdata |-> callbackdata]
    /\ Goto(c, "callback")
    /\ UNCHANGED <<serverVars, jniEnv, replydata, callbackdata, top, outer, function, args, sent,
                   returned, heapVars, executed>>

\* doCallbackTransaction is called with the fields of cbdata.
DoCallbackTransaction(c) ==
    /\ At(c, "callback")
    /\ txn' = [txn EXCEPT ![ThreadOf[c]] = CallbackTxn(cbdata.function, cbdata.rawdata)]
    /\ sent' = [sent EXCEPT ![c] = cbdata.rawdata]
    /\ Goto(c, "awaitCallback")
    /\ UNCHANGED <<managerVars, stackResult, nativeVars, binderVars, sharedVars, top, outer, function,
                   args, returned, heapVars, executed>>

Client(c) ==
    \/ TaintCall(c)
    \/ TransactTaintCall(c)
    \/ ReturnResult(c)
    \/ ReturnUnexpected(c)
    \/ ReadRequest(c)
    \/ CallJni(c)
    \/ ReturnFromJava(c)
    \/ WriteCallbackdata(c)
    \/ FreeReplydata(c)
    \/ StoreCbdata(c)
    \/ DoCallbackTransaction(c)

Service ==
    /\ \/ \E b \in Binder : BinderThread(b)
       \/ \E c \in Call : NativeThread(c)
    /\ UNCHANGED clientVars

\* Every call has returned to the app.
AllReturned == \A c \in Call : cpc[c] \in {"returned", "aborted"}
Terminating == AllReturned /\ UNCHANGED vars

Next == (\E c \in Call : Client(c)) \/ Service \/ Terminating

\* Every thread of both processes is scheduled, and the JNI code of a native
\* method ends (MaxJni bounds its requests).
Fairness ==
    /\ \A c \in Call : WF_vars(Client(c))
    /\ \A b \in Binder : WF_vars(BinderThread(b) /\ UNCHANGED clientVars)
    /\ \A c \in Call : WF_vars(NativeThread(c) /\ UNCHANGED clientVars)

Spec == Init /\ [][Next]_vars
FairSpec == Spec /\ Fairness

-----------------------------------------------------------------------------
ClientTypeOK ==
    /\ jniEnv \in Thread \cup {Null}
    /\ replydata \in Data /\ callbackdata \in Data
    /\ cbdata \in [function : Function \cup {Null}, rawdata : Data]
    /\ top \in [Thread -> Call \cup {Null}]
    /\ outer \in [Call -> Call \cup {Null}]
    /\ cpc \in [Call -> ClientPC]
    /\ function \in [Call -> Function \cup {Null}]
    /\ args \in [Call -> [env : Thread \cup {Null}, data : Data]]
    /\ sent \in [Call -> Data]
    /\ returned \in [Call -> Call \cup {Null}]
    /\ freed \subseteq Data /\ doubleFree \in BOOLEAN
    /\ executed \in [Call -> Nat]

\* Every variable of both processes has a value of its type.
TypeOK == ServerTypeOK /\ ClientTypeOK

\* A JNI request is executed in Java exactly once, by the time its answer is
\* read, and a request not yet made is not executed.
ExecutedOnce ==
    \A c \in Call : /\ executed[c] <= nJni[c]
                    /\ npc[c] \in {"running", "done"} => executed[c] = nJni[c]

\* replydata and rawdata are freed once, unless the Java code of a JNI request
\* calls a native method that makes a request, too: handleJNIRequest then finds
\* the inner request's replydata in the member, and frees it again.
FreedTwiceIfNested ==
    /\ doubleFree => \E c \in Call : outer[c] # Null /\ executed[c] > 0
    /\ \A c \in Call :
          outer[c] # Null /\ executed[c] > 0
             /\ cpc[outer[c]] \in {"store", "callback", "awaitCallback", "returned", "aborted"}
          => doubleFree

\* A status FINISHED that reaches the app means that the native method of
\* that call has ended.
FinishedMeansDone == \A c \in Call : cpc[c] = "returned" => npc[c] = "done"

\* The wrapper is transparent: seen from the app, a native call behaves like
\* one made in the process.
Local == INSTANCE LocalCall WITH
    phase <- [c \in Call |->
                IF cpc[c] \in {"idle", "returned", "aborted"} THEN cpc[c]
                ELSE IF cpc[c] = "inJava" THEN "java"
                ELSE IF executed[c] > 0 /\ nGot[c] # Answer(c, executed[c]) THEN "answered"
                ELSE "native"],
    requests <- executed,
    seen <- [c \in Call |-> IF nGot[c] = Null THEN 0
                            ELSE IF nGot[c][1] = "answer" /\ nGot[c][2] = c THEN nGot[c][3]
                            ELSE Null],
    result <- returned,
    innermost <- top,
    caller <- outer

ImplementsLocalCall == Local!Spec

\* Every native thread ends: reqJniCall does not wait for ever for the answer
\* to a JNI request.
NativeEnds == \A c \in Call : (npc[c] = "created") ~> (npc[c] = "done")

\* Every taintCall returns.
CallReturns == \A c \in Call : (cpc[c] # "idle") ~> (cpc[c] \in {"returned", "aborted"})
=============================================================================
