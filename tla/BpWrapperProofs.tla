--------------------------- MODULE BpWrapperProofs ---------------------------
(***************************************************************************)
(* Proofs about the client and the service together: what holds whatever   *)
(* the threads of the app do (the token of a thread id), what holds for    *)
(* one app thread whether or not its calls nest (a request is executed     *)
(* once), what holds for threads whose calls do not nest (FINISHED means   *)
(* done) and what holds for one thread whose calls do not nest (the shared *)
(* members are its own, and the wrapper is transparent).                   *)
(***************************************************************************)
EXTENDS BpWrapper, TLAPS

USE ThreadAssumption, BoundAssumption, NullAssumption, ReentrantAssumption

-----------------------------------------------------------------------------
(* The taintCalls of a thread: the innermost runs, the others are in Java. *)

Open(c) == cpc[c] \notin {"idle", "returned", "aborted"}
Waiting(t) == top[t] # Null /\ cpc[top[t]] \in {"awaitCall", "awaitCallback"}

NestingInv ==
    /\ \A t \in Thread : top[t] # Null => ThreadOf[top[t]] = t /\ Open(top[t])
    /\ \A c \in Call : Open(c) => top[ThreadOf[c]] = c \/ cpc[c] = "inJava"
    /\ \A c \in Call : Open(c) /\ outer[c] # Null =>
          /\ ThreadOf[outer[c]] = ThreadOf[c] /\ Open(outer[c])
          /\ outer[c] # top[ThreadOf[c]] /\ outer[c] # c
    /\ \A c, d \in Call : Open(c) /\ Open(d) /\ outer[c] # Null /\ outer[c] = outer[d] => c = d

\* A thread that waits has a transaction, and nobody else.
TransactionInv ==
    /\ \A t \in Thread :
          /\ txn[t].tag # "none" <=> Waiting(t)
          /\ txn[t].tag = "TAINT_CALL" =>
                cpc[top[t]] = "awaitCall" /\ txn[t].call = top[t] /\ npc[top[t]] = "none"
          /\ txn[t].tag \in {"CALLBACK", "failed"} => cpc[top[t]] = "awaitCallback"
    /\ \A c \in Call : cpc[c] \in {"idle", "transact"} => npc[c] = "none"

-----------------------------------------------------------------------------
(* The token of a thread id: a native thread that runs, a semaphore or a   *)
(* handler that replies has it, or it is with the app.                     *)

Rest == {"none", "reqWait", "done"}
Resting(t) == \A c \in Call : ThreadOf[c] = t => npc[c] \in Rest
Semaphores(t, reply, jni) == mReplyReady[t] = reply /\ mJniReady[t] = jni
HandlersAt(t, pc) == \A b \in Binder : bpc[b] # "idle" /\ bThread[b] = t => bpc[b] = pc

\* A handler serves a transaction, alone.
HandlerInv ==
    /\ \A b \in Binder : bpc[b] # "idle" =>
          /\ bThread[b] \in Thread /\ txn[bThread[b]].tag = "serving"
          /\ bCode[b] \in {"TAINT_CALL", "CALLBACK"}
          /\ platformInvoke[bThread[b]].pResult \in Binder
    /\ \A b, d \in Binder : bpc[b] # "idle" /\ bpc[d] # "idle" /\ bThread[b] = bThread[d] => b = d

\* The manager was given a call.
InvokedInv ==
    /\ \A c \in Call : npc[c] # "none" => platformInvoke[ThreadOf[c]].pResult \in Binder
    /\ \A t \in Thread : mStatus[t] # INIT => platformInvoke[t].pResult \in Binder

\* A native thread that runs, or that could not be created.
NativeInv ==
    \A c \in Call : LET t == ThreadOf[c] IN
        npc[c] \notin Rest =>
            /\ txn[t].tag = "serving" /\ Semaphores(t, 0, 0) /\ HandlersAt(t, "waitReply")
            /\ \A d \in Call : d # c /\ ThreadOf[d] = t => npc[d] \in Rest
            /\ npc[c] = "reqPost" => mStatus[t] = WAIT4JNI
            /\ npc[c] = "resPost" => mStatus[t] = FINISHED

SemaphoreInv ==
    \A t \in Thread :
        /\ mReplyReady[t] # 0 =>
              /\ txn[t].tag = "serving" /\ Semaphores(t, 1, 0) /\ HandlersAt(t, "waitReply")
              /\ Resting(t) /\ mStatus[t] \in {WAIT4JNI, FINISHED}
        /\ mJniReady[t] # 0 =>
              /\ txn[t].tag = "serving" /\ Semaphores(t, 0, 1) /\ HandlersAt(t, "waitReply")
              /\ Resting(t) /\ mStatus[t] = WAIT4JNI

ReplyInv ==
    \A b \in Binder : bpc[b] = "reply" =>
        /\ Semaphores(bThread[b], 0, 0)
        /\ Resting(bThread[b]) /\ mStatus[bThread[b]] \in {WAIT4JNI, FINISHED}

TokenInv ==
    /\ TypeOK /\ NestingInv /\ TransactionInv /\ HandlerInv /\ InvokedInv
    /\ NativeInv /\ SemaphoreInv /\ ReplyInv

-----------------------------------------------------------------------------
(* One app thread: a request that is not executed yet is the one the token *)
(* goes with.                                                              *)

SingleThreaded == \A s, t \in Thread : s = t

Posted(t) == mReplyReady[t] # 0 \/ \E b \in Binder : bpc[b] = "reply" /\ bThread[b] = t

\* The data is that of a request made and not executed.
IsPending(d) ==
    \E c \in Call : d = Args(c, nJni[c]) /\ npc[c] = "reqWait" /\ executed[c] + 1 = nJni[c]

Carried(c) == LET t == ThreadOf[c] IN
    \/ npc[c] = "reqPost"
    \/ /\ npc[c] = "reqWait"
       /\ \/ mStatus[t] = WAIT4JNI /\ Posted(t)
          \/ txn[t].tag = "reply" /\ txn[t].status = WAIT4JNI
          \/ top[t] # Null /\ cpc[top[t]] = "dispatch"

PendingInv ==
    /\ \A c \in Call : executed[c] # nJni[c] => executed[c] + 1 = nJni[c] /\ Carried(c)
    /\ \A c, d \in Call : executed[c] # nJni[c] /\ executed[d] # nJni[d] => c = d
    /\ \A c \in Call : npc[c] = "reqPost" =>
          executed[c] # nJni[c] /\ jniCall[ThreadOf[c]].param_data = Args(c, nJni[c])
    /\ \A t \in Thread :
          /\ mStatus[t] = WAIT4JNI /\ Posted(t) => IsPending(jniCall[t].param_data)
          /\ txn[t].tag = "reply" /\ txn[t].status = WAIT4JNI => IsPending(txn[t].data)
          /\ top[t] # Null /\ cpc[top[t]] = "dispatch" => IsPending(replydata)

-----------------------------------------------------------------------------
(* Calls that do not nest: of a thread none of whose calls was given up,   *)
(* only the innermost has a native thread.                                 *)

Healthy(t) == \A c \in Call : ThreadOf[c] = t => cpc[c] # "aborted"

FlatInv ==
    /\ \A c \in Call : Open(c) => top[ThreadOf[c]] = c /\ outer[c] = Null
    /\ \A c \in Call : Healthy(ThreadOf[c]) =>
          /\ npc[c] \notin {"none", "done"} => top[ThreadOf[c]] = c
          /\ cpc[c] = "returned" => npc[c] = "done"
    /\ \A t \in Thread : Healthy(t) =>
          /\ mStatus[t] = FINISHED /\ Posted(t) => npc[top[t]] = "done"
          /\ txn[t].tag = "reply" /\ txn[t].status = FINISHED => npc[top[t]] = "done"

-----------------------------------------------------------------------------
(* One thread whose calls do not nest.                                     *)

InRequest == {"dispatch", "inJava", "result", "freeReply", "store", "callback"}

\* The members hold what the call has put there.
OwnMembers(c) == LET t == ThreadOf[c] IN
    /\ cpc[c] # "aborted"
    /\ Open(c) => jniEnv = t
    /\ cpc[c] \in InRequest \/ (top[t] = c /\ txn[t].tag = "CALLBACK") =>
          npc[c] = "reqWait" /\ mStatus[t] = WAIT4JNI
    /\ cpc[c] \in InRequest => function[c] = jniCall[t].function
    /\ cpc[c] \in {"inJava", "result"} => args[c].env = t /\ args[c].data = Args(c, nJni[c])
    /\ cpc[c] \in {"dispatch", "inJava", "result", "freeReply"} => replydata = Args(c, nJni[c])
    /\ cpc[c] \in {"freeReply", "store"} => callbackdata = Answer(c, nJni[c])
    /\ cpc[c] = "callback" => cbdata.function = function[c] /\ cbdata.rawdata = Answer(c, nJni[c])
    /\ cpc[c] = "awaitCallback" => sent[c] = Answer(c, executed[c])

\* What goes from the app to the native thread and back.
OwnMailbox(c) == LET t == ThreadOf[c] IN
    /\ top[t] = c /\ txn[t].tag = "CALLBACK" =>
          txn[t].function = jniCall[t].function /\ txn[t].data = Answer(c, nJni[c])
    /\ top[t] = c => txn[t].tag # "failed"
    /\ top[t] = c /\ txn[t].tag = "reply" => txn[t].status \in {WAIT4JNI, FINISHED}
    /\ top[t] = c /\ txn[t].tag = "reply" /\ txn[t].status = WAIT4JNI =>
          npc[c] = "reqWait" /\ mStatus[t] = WAIT4JNI /\ txn[t].function = jniCall[t].function
    /\ top[t] = c /\ mJniReady[t] # 0 =>
          npc[c] = "reqWait" /\ jniCall[t].param_data = Answer(c, nJni[c])
    /\ npc[c] = "readResult" => jniCall[t].param_data = Answer(c, nJni[c])

\* What the native code has got, and where its result goes.
OwnResult(c) == LET t == ThreadOf[c] IN
    /\ nJni[c] <= MaxJni
    /\ npc[c] \in {"none", "created", "failed"} => nJni[c] = 0
    /\ npc[c] \in {"reqPost", "reqWait", "readResult"} =>
          nJni[c] > 0 /\ nGot[c] = IF nJni[c] = 1 THEN Null ELSE Answer(c, nJni[c] - 1)
    /\ npc[c] \notin {"reqPost", "reqWait", "readResult"} =>
          nGot[c] = IF nJni[c] = 0 THEN Null ELSE Answer(c, nJni[c])
    /\ top[t] = c /\ npc[c] # "none" =>
          /\ platformInvoke[t].call = c /\ platformInvoke[t].pResult \in Binder
          /\ npc[c] \notin {"created", "failed"} => nInvoke[c] = platformInvoke[t]
          /\ npc[c] \in {"signal", "resPost", "done"} => stackResult[platformInvoke[t].pResult] = c
          /\ \A b \in Binder : bpc[b] # "idle" /\ bThread[b] = t /\ bCode[b] = "TAINT_CALL" =>
                platformInvoke[t].pResult = b
    /\ top[t] = c /\ txn[t].tag = "reply" /\ txn[t].status = FINISHED => txn[t].call = c
    /\ cpc[c] = "returned" => returned[c] = c
    /\ cpc[c] # "returned" => returned[c] = Null

Answering == {"inJava", "result", "freeReply", "store", "callback", "awaitCallback"}

\* What was freed belongs to requests that are over.
FreedInv ==
    /\ ~doubleFree
    /\ \A c \in Call, n \in Nat :
          /\ Args(c, n) \in freed =>
                n <= executed[c] /\ (n = executed[c] => cpc[c] \notin {"inJava", "result", "freeReply"})
          /\ Answer(c, n) \in freed =>
                n <= executed[c] /\ (n = executed[c] => cpc[c] \notin Answering)

CallInv == \A c \in Call : OwnMembers(c) /\ OwnMailbox(c) /\ OwnResult(c)

SequentialInv == FlatInv /\ PendingInv /\ CallInv /\ FreedInv

-----------------------------------------------------------------------------
(* Types.                                                                  *)

LEMMA DataTypes ==
    ASSUME NEW c \in Call, NEW n \in Nat
    PROVE  /\ Args(c, n) \in Data /\ Answer(c, n) \in Data
           /\ Args(c, n)[2] = c /\ Args(c, n)[3] = n
           /\ Answer(c, n)[1] = "answer" /\ Answer(c, n)[2] = c /\ Answer(c, n)[3] = n
           /\ Args(c, n) # Null /\ Answer(c, n) # Null
           /\ \A d \in Call, m \in Nat :
                 /\ Args(c, n) # Answer(d, m)
                 /\ Args(c, n) = Args(d, m) => c = d /\ n = m
                 /\ Answer(c, n) = Answer(d, m) => c = d /\ n = m
  BY DEF Args, Answer, Data

LEMMA DataParts ==
    ASSUME NEW d \in Data, d # Null
    PROVE  d[2] \in Call /\ d[3] \in Nat /\ Answer(d[2], d[3]) \in Data
  BY DEF Data, Answer

LEMMA ParcelTypes ==
    /\ NoTxn \in Parcel
    /\ \A c \in Call : TaintCallTxn(c) \in Parcel
    /\ \A f \in Function \cup {Null}, d \in Data : CallbackTxn(f, d) \in Parcel
    /\ Serving \in Parcel
    /\ Failed \in Parcel
    /\ \A s \in Status : StatusReply(s) \in Parcel
    /\ \A v \in Call \cup {Null} : ResultReply(v) \in Parcel
    /\ \A t \in Thread : jniCall \in [Thread -> JniCall] => RequestReply(t) \in Parcel
  BY DEF Parcel, MakeParcel, NoTxn, TaintCallTxn, CallbackTxn, Serving, Failed, StatusReply,
         ResultReply, RequestReply, Status, INIT, WAIT4EXEC, WAIT4JNI, FINISHED, ERROR, Data, JniCall

LEMMA ParcelFields ==
    /\ NoTxn.tag = "none" /\ Serving.tag = "serving" /\ Failed.tag = "failed"
    /\ \A c : TaintCallTxn(c).tag = "TAINT_CALL" /\ TaintCallTxn(c).call = c
    /\ \A f, d : LET p == CallbackTxn(f, d) IN p.tag = "CALLBACK" /\ p.function = f /\ p.data = d
    /\ \A s : StatusReply(s).tag = "reply" /\ StatusReply(s).status = s
    /\ \A v : LET p == ResultReply(v) IN p.tag = "reply" /\ p.status = FINISHED /\ p.call = v
    /\ \A t : LET p == RequestReply(t) IN
           /\ p.tag = "reply" /\ p.status = WAIT4JNI
           /\ p.function = jniCall[t].function /\ p.data = jniCall[t].param_data
  BY DEF MakeParcel, NoTxn, TaintCallTxn, CallbackTxn, Serving, Failed, StatusReply, ResultReply, RequestReply

LEMMA Statuses ==
    /\ {INIT, WAIT4EXEC, WAIT4JNI, FINISHED, ERROR} = Status
    /\ WAIT4JNI # FINISHED /\ WAIT4JNI # WAIT4EXEC /\ FINISHED # WAIT4EXEC
    /\ INIT \notin {WAIT4JNI, FINISHED} /\ ERROR \notin {WAIT4JNI, FINISHED}
  BY DEF Status, INIT, WAIT4EXEC, WAIT4JNI, FINISHED, ERROR

LEMMA AnswerStored ==
    ASSUME NEW t \in Thread, NEW v \in Data, jniCall \in [Thread -> JniCall]
    PROVE  [jniCall EXCEPT ![t].param_data = v] \in [Thread -> JniCall]
  BY DEF JniCall

LEMMA InitTypes == Init => TypeOK
<1> SUFFICES ASSUME Init PROVE TypeOK
  OBVIOUS
<1>1. ManagerTypeOK
  BY DEF Init, ServerInit, ManagerInit, ManagerTypeOK, JniCall, PlatformInvoke, NativePC, Status, INIT, Data
<1>2. ServerTypeOK
  BY <1>1, ParcelTypes DEF Init, ServerInit, ServerTypeOK, Data
<1>3. ClientTypeOK
  BY DEF Init, ClientTypeOK, ClientPC, Data
<1> QED
  BY <1>2, <1>3 DEF TypeOK

LEMMA NativeTypes ==
    ASSUME TypeOK, NEW c \in Call, NativeThread(c), UNCHANGED clientVars
    PROVE  TypeOK'
<1>1. UNCHANGED <<txn, binderVars>> /\ Native(c)
  BY DEF NativeThread
<1>2. ThreadOf[c] \in Thread
  OBVIOUS
<1>3. ManagerTypeOK'
  <2> USE DEF TypeOK, ServerTypeOK, ManagerTypeOK
  <2>1. CASE RunNative(c)
    BY <1>2, <2>1 DEF RunNative, managerVars, NativePC
  <2>2. ASSUME NEW f \in Function, ReqJniCall(c, f) PROVE ManagerTypeOK'
    <3>1. nJni' \in [Call -> Nat] /\ nJni'[c] \in Nat
      BY <2>2 DEF ReqJniCall
    <3>2. [function |-> f, param_data |-> Args(c, nJni'[c])] \in JniCall
      BY <3>1, DataTypes DEF JniCall
    <3> QED
      BY <1>2, <2>2, <3>1, <3>2, Statuses DEF ReqJniCall, NativePC
  <2>3. CASE PostRequest(c) \/ PostResult(c)
    BY <1>2, <2>3 DEF PostRequest, PostResult, SemPost, NativePC
  <2>4. CASE ResumeAfterJni(c)
    BY <1>2, <2>4, Statuses DEF ResumeAfterJni, SemWait, NativePC
  <2>5. CASE ReadJniResult(c)
    BY <1>2, <2>5 DEF ReadJniResult, managerVars, NativePC, JniCall
  <2>6. CASE InvokeReturns(c)
    BY <1>2, <2>6 DEF InvokeReturns, managerVars, NativePC, PlatformInvoke
  <2>7. CASE SignalResult(c)
    BY <1>2, <2>7, Statuses DEF SignalResult, NativePC
  <2> QED
    BY <1>1, <2>1, <2>2, <2>3, <2>4, <2>5, <2>6, <2>7 DEF Native
<1> QED
  BY <1>1, <1>3 DEF TypeOK, ServerTypeOK, ClientTypeOK, binderVars, clientVars, sharedVars, localVars, heapVars

LEMMA BinderTypes ==
    ASSUME TypeOK, HandlerInv, NEW b \in Binder, BinderThread(b), UNCHANGED clientVars,
           \A t \in Thread : txn[t].tag = "TAINT_CALL" => txn[t].call \in Call
    PROVE  TypeOK'
<1> USE DEF TypeOK, ServerTypeOK, ManagerTypeOK
<1>1. ClientTypeOK'
  BY DEF ClientTypeOK, clientVars, sharedVars, localVars, heapVars
<1>2. ASSUME NEW t \in Thread, OnTaintCall(b, t) PROVE ServerTypeOK'
  <2>1. txn[t].call \in Call /\ ThreadOf[txn[t].call] \in Thread
    BY <1>2 DEF OnTaintCall, Enter
  <2>2. [call |-> txn[t].call, pResult |-> b] \in PlatformInvoke
    BY <2>1 DEF PlatformInvoke
  <2>3. mStatus' \in [Thread -> Status] /\ npc' \in [Call -> NativePC] /\ platformInvoke' \in [Thread -> PlatformInvoke]
        /\ UNCHANGED <<mReplyReady, mJniReady, jniCall, nInvoke, nJni, nGot>>
        /\ stackResult' \in [Binder -> Call \cup {Null}]
    BY <1>2, <2>1, <2>2, Statuses DEF OnTaintCall, StartExec, Enter, NativePC
  <2>4. txn' \in [Thread -> Parcel] /\ bpc' \in [Binder -> {"idle", "waitReply", "reply"}] /\ bThread' \in [Binder -> Thread \cup {Null}]
        /\ bCode' \in [Binder -> {"TAINT_CALL", "CALLBACK"} \cup {Null}] /\ rawdata' \in [Binder -> Data]
    BY <1>2, ParcelTypes DEF OnTaintCall, Serve, Data
  <2> QED
    BY <2>3, <2>4
<1>3. ASSUME NEW t \in Thread, OnCallback(b, t) PROVE ServerTypeOK'
  <2>1. txn[t].data \in Data
    BY DEF Parcel
  <2>2. jniCall' \in [Thread -> JniCall]
    BY <1>3, <2>1 DEF OnCallback, JniCall
  <2>3. mJniReady' \in [Thread -> Nat] /\ stackResult' \in [Binder -> Call \cup {Null}]
        /\ UNCHANGED <<mStatus, mReplyReady, platformInvoke, nativeVars>>
    BY <1>3 DEF OnCallback, SetJniResult, SemPost, Enter
  <2>4. txn' \in [Thread -> Parcel] /\ bpc' \in [Binder -> {"idle", "waitReply", "reply"}] /\ bThread' \in [Binder -> Thread \cup {Null}]
        /\ bCode' \in [Binder -> {"TAINT_CALL", "CALLBACK"} \cup {Null}] /\ rawdata' \in [Binder -> Data]
    BY <1>3, <2>1, ParcelTypes DEF OnCallback, Serve
  <2> QED
    BY <2>2, <2>3, <2>4 DEF nativeVars
<1>4. ASSUME NEW t \in Thread, OnCallbackNotWaiting(b, t) PROVE ServerTypeOK'
  <2>1. jniCall' \in [Thread -> JniCall]
    BY <1>4 DEF OnCallbackNotWaiting, JniCall, Data
  <2>2. txn' \in [Thread -> Parcel] /\ stackResult' \in [Binder -> Call \cup {Null}]
    BY <1>4, ParcelTypes, Statuses DEF OnCallbackNotWaiting, Enter
  <2> QED
    BY <1>4, <2>1, <2>2 DEF OnCallbackNotWaiting, nativeVars, binderVars
<1>5. ASSUME NEW t \in Thread, OnCallbackMismatch(b, t) PROVE ServerTypeOK'
  <2>1. txn' \in [Thread -> Parcel] /\ stackResult' \in [Binder -> Call \cup {Null}]
    BY <1>5, ParcelTypes, Statuses DEF OnCallbackMismatch, Enter
  <2> QED
    BY <1>5, <2>1 DEF OnCallbackMismatch, managerVars, nativeVars, binderVars
<1>6. CASE ReplyIsReady(b)
  <2>1. bThread[b] \in Thread
    BY <1>6 DEF ReplyIsReady, HandlerInv
  <2> QED
    BY <1>1, <1>6, <2>1 DEF ReplyIsReady, WaitReplyReady, SemWait, nativeVars
<1>7. CASE ReplyTaintCall(b)
  <2>1. txn' \in [Thread -> Parcel]
    BY <1>7, ParcelTypes DEF ReplyTaintCall, HandlerInv
  <2> QED
    BY <1>1, <1>7, <2>1 DEF ReplyTaintCall, Leave, nativeVars
<1>8. CASE ReplyCallback(b)
  <2>1. bThread[b] \in Thread /\ stackResult[platformInvoke[bThread[b]].pResult] \in Call \cup {Null}
    BY <1>8 DEF ReplyCallback, HandlerInv
  <2>2. mStatus[bThread[b]] \in Status
    BY <2>1
  <2>3. txn' \in [Thread -> Parcel]
    BY <1>8, <2>1, <2>2, ParcelTypes DEF ReplyCallback
  <2>4. jniCall' \in [Thread -> JniCall]
    <3>1. PICK v : v = IF jniCall[bThread[b]].param_data = rawdata[b] THEN Null ELSE jniCall[bThread[b]].param_data
      OBVIOUS
    <3>2. v \in Data
      BY <2>1, <3>1 DEF JniCall, Data
    <3>3. jniCall' = [jniCall EXCEPT ![bThread[b]].param_data = v]
      BY <1>8, <3>1 DEF ReplyCallback
    <3> QED
      BY <2>1, <3>2, <3>3, AnswerStored
  <2> QED
    BY <1>1, <1>8, <2>3, <2>4 DEF ReplyCallback, Leave, nativeVars
<1> QED
  BY <1>1, <1>2, <1>3, <1>4, <1>5, <1>6, <1>7, <1>8 DEF BinderThread

LEMMA ClientTypes ==
    ASSUME TypeOK, NEW c \in Call, Client(c)
    PROVE  TypeOK'
<1> USE DEF TypeOK, ClientTypeOK
<1>1. ThreadOf[c] \in Thread
  OBVIOUS
<1>2. ASSUME NEW pc \in ClientPC, Goto(c, pc) PROVE cpc' \in [Call -> ClientPC]
  BY <1>2 DEF Goto
<1>3. ASSUME UNCHANGED serverVars PROVE ServerTypeOK'
  BY <1>3 DEF ServerTypeOK, ManagerTypeOK, serverVars, managerVars, nativeVars, binderVars
<1>4. ASSUME NEW p \in Parcel, txn' = [txn EXCEPT ![ThreadOf[c]] = p],
             UNCHANGED <<managerVars, stackResult, nativeVars, binderVars>>
      PROVE  ServerTypeOK'
  BY <1>4 DEF ServerTypeOK, ManagerTypeOK, managerVars, nativeVars, binderVars
<1>5. ASSUME NEW x \in Data, Free(x) PROVE freed' \subseteq Data /\ doubleFree' \in BOOLEAN
  BY <1>5 DEF Free
<1>6. ASSUME EndTransaction(c) PROVE ServerTypeOK' /\ freed' \subseteq Data /\ doubleFree' \in BOOLEAN
  <2>1. ServerTypeOK'
    BY <1>4, <1>6, ParcelTypes DEF EndTransaction
  <2>2. sent[c] \in Data
    OBVIOUS
  <2> QED
    BY <1>5, <1>6, <2>1, <2>2 DEF EndTransaction, heapVars
<1>7. txn[ThreadOf[c]] \in Parcel
  BY <1>1 DEF ServerTypeOK
<1>8. CASE TaintCall(c)
  BY <1>1, <1>2, <1>3, <1>8 DEF TaintCall, ClientPC, heapVars
<1>9. CASE TransactTaintCall(c)
  <2>1. ServerTypeOK'
    BY <1>4, <1>9, ParcelTypes DEF TransactTaintCall
  <2> QED
    BY <1>2, <1>9, <2>1 DEF TransactTaintCall, ClientPC, heapVars, sharedVars
<1>10. ASSUME NEW pc \in {"returned", "aborted"}, NEW v \in Call \cup {Null}, EndTransaction(c), Return(c, pc, v)
       PROVE  TypeOK'
  BY <1>1, <1>2, <1>6, <1>10 DEF Return, ClientPC, sharedVars
<1>11. CASE ReturnResult(c)
  <2>1. txn[ThreadOf[c]].call \in Call \cup {Null}
    BY <1>7 DEF Parcel
  <2> QED
    BY <1>10, <1>11, <2>1 DEF ReturnResult
<1>12. CASE ReturnUnexpected(c)
  BY <1>10, <1>12 DEF ReturnUnexpected
<1>13. CASE ReadRequest(c)
  <2>1. txn[ThreadOf[c]].function \in Function \cup {Null} /\ txn[ThreadOf[c]].data \in Data
    BY <1>7 DEF Parcel
  <2> QED
    BY <1>2, <1>6, <1>13, <2>1 DEF ReadRequest, ClientPC
<1>14. CASE CallJni(c)
  <2>1. executed' \in [Call -> Nat]
    BY <1>14, DataParts DEF CallJni
  <2> QED
    BY <1>2, <1>3, <1>14, <2>1 DEF CallJni, ClientPC, heapVars, sharedVars
<1>15. CASE ReturnFromJava(c)
  BY <1>2, <1>3, <1>15 DEF ReturnFromJava, ClientPC, heapVars, sharedVars
<1>16. CASE WriteCallbackdata(c)
  <2>1. args[c].data \in Data
    OBVIOUS
  <2>2. callbackdata' \in Data
    BY <1>16, <2>1, DataParts DEF WriteCallbackdata, Data
  <2> QED
    BY <1>2, <1>3, <1>16, <2>2 DEF WriteCallbackdata, ClientPC, heapVars
<1>17. CASE FreeReplydata(c)
  BY <1>2, <1>3, <1>5, <1>17 DEF FreeReplydata, ClientPC, sharedVars
<1>18. CASE StoreCbdata(c)
  BY <1>2, <1>3, <1>18 DEF StoreCbdata, ClientPC, heapVars
<1>19. CASE DoCallbackTransaction(c)
  <2>1. ServerTypeOK'
    BY <1>4, <1>19, ParcelTypes DEF DoCallbackTransaction
  <2> QED
    BY <1>2, <1>19, <2>1 DEF DoCallbackTransaction, ClientPC, heapVars, sharedVars
<1> QED
  BY <1>8, <1>9, <1>11, <1>12, <1>13, <1>14, <1>15, <1>16, <1>17, <1>18, <1>19 DEF Client

-----------------------------------------------------------------------------
(* The token: whatever the threads of the app do.                          *)

LEMMA InitToken == Init => TokenInv
<1> SUFFICES ASSUME Init PROVE TokenInv
  OBVIOUS
<1>1. /\ top = [t \in Thread |-> Null] /\ cpc = [c \in Call |-> "idle"] /\ npc = [c \in Call |-> "none"]
      /\ bpc = [b \in Binder |-> "idle"] /\ txn = [t \in Thread |-> NoTxn]
      /\ mReplyReady = [t \in Thread |-> 0] /\ mJniReady = [t \in Thread |-> 0]
  BY DEF Init, ServerInit, ManagerInit
<1>2. NestingInv
  BY <1>1 DEF NestingInv, Open
<1>3. TransactionInv
  BY <1>1, ParcelFields DEF TransactionInv, Waiting
<1>4. HandlerInv /\ ReplyInv
  BY <1>1 DEF HandlerInv, ReplyInv
<1>5. NativeInv /\ SemaphoreInv
  BY <1>1 DEF NativeInv, SemaphoreInv, Rest
<1>6. InvokedInv
  BY <1>1 DEF Init, ServerInit, ManagerInit, InvokedInv
<1> QED
  BY <1>2, <1>3, <1>4, <1>5, <1>6, InitTypes DEF TokenInv

LEMMA ClientUnchanged ==
    ASSUME UNCHANGED clientVars
    PROVE  UNCHANGED <<top, outer, cpc, executed, returned, jniEnv, replydata, callbackdata, cbdata, function, args, sent,
                       freed, doubleFree>>
  BY DEF clientVars, sharedVars, localVars, heapVars

\* A native thread that runs and goes on: it keeps the token.
LEMMA NativeGoesOn ==
    ASSUME TokenInv, NEW c \in Call, NEW pc, npc[c] \notin Rest, pc \notin Rest, npc' = [npc EXCEPT ![c] = pc],
           UNCHANGED <<mReplyReady, mJniReady, txn, bpc, bThread>>,
           \A s \in Thread : s # ThreadOf[c] => mStatus'[s] = mStatus[s],
           pc = "reqPost" => mStatus'[ThreadOf[c]] = WAIT4JNI,
           pc = "resPost" => mStatus'[ThreadOf[c]] = FINISHED
    PROVE  NativeInv' /\ SemaphoreInv' /\ ReplyInv'
<1>1. PICK t \in Thread : t = ThreadOf[c]
  OBVIOUS
<1>2. npc \in [Call -> NativePC]
  BY DEF TokenInv, TypeOK, ServerTypeOK, ManagerTypeOK
<1>3. npc'[c] = pc /\ \A d \in Call : d # c => npc'[d] = npc[d]
  BY <1>2
<1>4. /\ txn[t].tag = "serving" /\ Semaphores(t, 0, 0) /\ HandlersAt(t, "waitReply")
      /\ \A d \in Call : d # c /\ ThreadOf[d] = t => npc[d] \in Rest
  BY <1>1 DEF TokenInv, NativeInv
<1>5. ASSUME NEW d \in Call, d # c, npc[d] \notin Rest PROVE ThreadOf[d] # t
  BY <1>4, <1>5
<1>6. NativeInv'
  <2> SUFFICES ASSUME NEW d \in Call, npc'[d] \notin Rest
               PROVE  /\ txn[ThreadOf[d]].tag = "serving" /\ Semaphores(ThreadOf[d], 0, 0) /\ HandlersAt(ThreadOf[d], "waitReply")
                      /\ \A e \in Call : e # d /\ ThreadOf[e] = ThreadOf[d] => npc'[e] \in Rest
                      /\ npc'[d] = "reqPost" => mStatus'[ThreadOf[d]] = WAIT4JNI
                      /\ npc'[d] = "resPost" => mStatus'[ThreadOf[d]] = FINISHED
    BY DEF NativeInv, Semaphores, HandlersAt
  <2>1. CASE d = c
    BY <1>1, <1>3, <1>4, <2>1
  <2>2. CASE d # c
    <3>1. npc[d] \notin Rest /\ ThreadOf[d] # t /\ npc'[d] = npc[d]
      BY <1>3, <1>5, <2>2
    <3> QED
      BY <1>1, <1>3, <3>1 DEF TokenInv, NativeInv
  <2> QED
    BY <2>1, <2>2
<1>7. SemaphoreInv'
  <2> SUFFICES ASSUME NEW s \in Thread, mReplyReady[s] # 0 \/ mJniReady[s] # 0
               PROVE  s # t /\ (Resting(s) => Resting(s)') /\ mStatus'[s] = mStatus[s]
    BY DEF TokenInv, SemaphoreInv, Semaphores, HandlersAt
  <2>1. s # t
    BY <1>4 DEF Semaphores
  <2> QED
    BY <1>1, <1>3, <2>1 DEF Resting
<1>8. ReplyInv'
  <2> SUFFICES ASSUME NEW b \in Binder, bpc[b] = "reply"
               PROVE  (Resting(bThread[b]) => \A d \in Call : ThreadOf[d] = bThread[b] => npc'[d] \in Rest) /\ mStatus'[bThread[b]] = mStatus[bThread[b]]
    BY DEF TokenInv, ReplyInv, Semaphores, Resting
  <2>1. bThread[b] # t /\ bThread[b] \in Thread
    BY <1>4 DEF HandlersAt, TokenInv, HandlerInv
  <2> QED
    BY <1>1, <1>3, <2>1 DEF Resting
<1> QED
  BY <1>6, <1>7, <1>8

\* ... or puts the token into mReplyReady.
LEMMA NativePosts ==
    ASSUME TokenInv, NEW c \in Call, NEW pc \in Rest, npc[c] \in {"reqPost", "resPost"}, npc' = [npc EXCEPT ![c] = pc],
           SemPost(mReplyReady, ThreadOf[c]), UNCHANGED <<mStatus, mJniReady, txn, bpc, bThread>>
    PROVE  NativeInv' /\ SemaphoreInv' /\ ReplyInv'
<1>1. PICK t \in Thread : t = ThreadOf[c]
  OBVIOUS
<1>2. npc \in [Call -> NativePC] /\ mReplyReady \in [Thread -> Nat] /\ npc[c] \notin Rest
  BY DEF TokenInv, TypeOK, ServerTypeOK, ManagerTypeOK, Rest
<1>3. npc'[c] = pc /\ \A d \in Call : d # c => npc'[d] = npc[d]
  BY <1>2
<1>4. /\ txn[t].tag = "serving" /\ Semaphores(t, 0, 0) /\ HandlersAt(t, "waitReply")
      /\ \A d \in Call : d # c /\ ThreadOf[d] = t => npc[d] \in Rest
      /\ mStatus[t] \in {WAIT4JNI, FINISHED}
  BY <1>1, <1>2 DEF TokenInv, NativeInv
<1>5. mReplyReady'[t] = 1 /\ \A s \in Thread : s # t => mReplyReady'[s] = mReplyReady[s]
  BY <1>1, <1>2, <1>4 DEF SemPost, Semaphores
<1>6. Resting(t)'
  BY <1>1, <1>3, <1>4 DEF Resting
<1>7. NativeInv'
  <2> SUFFICES ASSUME NEW d \in Call, npc'[d] \notin Rest
               PROVE  /\ txn[ThreadOf[d]].tag = "serving" /\ Semaphores(ThreadOf[d], 0, 0)' /\ HandlersAt(ThreadOf[d], "waitReply")
                      /\ \A e \in Call : e # d /\ ThreadOf[e] = ThreadOf[d] => npc'[e] \in Rest
                      /\ npc'[d] = "reqPost" => mStatus'[ThreadOf[d]] = WAIT4JNI
                      /\ npc'[d] = "resPost" => mStatus'[ThreadOf[d]] = FINISHED
    BY DEF NativeInv, HandlersAt
  <2>1. d # c /\ ThreadOf[d] # t /\ npc'[d] = npc[d] /\ ThreadOf[d] \in Thread
    BY <1>3, <1>6 DEF Resting
  <2> QED
    BY <1>1, <1>3, <1>5, <2>1 DEF TokenInv, NativeInv, Semaphores
<1>8. SemaphoreInv'
  <2>1. ASSUME NEW s \in Thread, s # t PROVE Resting(s) => Resting(s)'
    BY <1>1, <1>3, <2>1 DEF Resting
  <2>2. ASSUME NEW s \in Thread, s # t, mReplyReady'[s] # 0 \/ mJniReady'[s] # 0 PROVE mReplyReady[s] # 0 \/ mJniReady[s] # 0
    BY <1>5, <2>2
  <2>3. HandlersAt(t, "waitReply")' /\ Semaphores(t, 1, 0)'
    BY <1>4, <1>5 DEF HandlersAt, Semaphores
  <2>4. \A s \in Thread : HandlersAt(s, "waitReply") => HandlersAt(s, "waitReply")'
    BY DEF HandlersAt
  <2> QED
    BY <1>4, <1>5, <1>6, <2>1, <2>3, <2>4 DEF TokenInv, SemaphoreInv, Semaphores
<1>9. ReplyInv'
  <2> SUFFICES ASSUME NEW b \in Binder, bpc[b] = "reply"
               PROVE  /\ Resting(bThread[b]) => \A d \in Call : ThreadOf[d] = bThread[b] => npc'[d] \in Rest
                      /\ mReplyReady'[bThread[b]] = mReplyReady[bThread[b]]
    BY DEF TokenInv, ReplyInv, Semaphores, Resting
  <2>1. bThread[b] # t /\ bThread[b] \in Thread
    BY <1>4 DEF HandlersAt, TokenInv, HandlerInv
  <2> QED
    BY <1>1, <1>3, <1>5, <2>1 DEF Resting
<1> QED
  BY <1>7, <1>8, <1>9

\* ... or takes it out of mJniReady.
LEMMA NativeResumes ==
    ASSUME TokenInv, NEW c \in Call, ResumeAfterJni(c), UNCHANGED <<txn, bpc, bThread>>
    PROVE  NativeInv' /\ SemaphoreInv' /\ ReplyInv'
<1>1. PICK t \in Thread : t = ThreadOf[c]
  OBVIOUS
<1>2. /\ npc \in [Call -> NativePC] /\ mJniReady \in [Thread -> Nat] /\ mStatus \in [Thread -> Status]
      /\ npc' = [npc EXCEPT ![c] = "readResult"] /\ mJniReady[t] # 0 /\ mJniReady' = [mJniReady EXCEPT ![t] = @ - 1]
      /\ mStatus' = [mStatus EXCEPT ![t] = WAIT4EXEC] /\ UNCHANGED mReplyReady
  BY <1>1 DEF TokenInv, TypeOK, ServerTypeOK, ManagerTypeOK, ResumeAfterJni, SemWait
<1>3. npc'[c] = "readResult" /\ \A d \in Call : d # c => npc'[d] = npc[d]
  BY <1>2
<1>4. txn[t].tag = "serving" /\ Semaphores(t, 0, 1) /\ HandlersAt(t, "waitReply") /\ Resting(t)
  BY <1>2 DEF TokenInv, SemaphoreInv
<1>5. mJniReady'[t] = 0 /\ \A s \in Thread : s # t => mJniReady'[s] = mJniReady[s] /\ mStatus'[s] = mStatus[s]
  BY <1>2, <1>4 DEF Semaphores
<1>6. NativeInv'
  <2> SUFFICES ASSUME NEW d \in Call, npc'[d] \notin Rest
               PROVE  /\ txn[ThreadOf[d]].tag = "serving" /\ Semaphores(ThreadOf[d], 0, 0)' /\ HandlersAt(ThreadOf[d], "waitReply")
                      /\ \A e \in Call : e # d /\ ThreadOf[e] = ThreadOf[d] => npc'[e] \in Rest
                      /\ npc'[d] = "reqPost" => mStatus'[ThreadOf[d]] = WAIT4JNI
                      /\ npc'[d] = "resPost" => mStatus'[ThreadOf[d]] = FINISHED
    BY DEF NativeInv, HandlersAt
  <2>1. CASE d = c
    BY <1>1, <1>2, <1>3, <1>4, <1>5, <2>1 DEF Semaphores, Resting
  <2>2. CASE d # c
    <3>1. npc'[d] = npc[d] /\ ThreadOf[d] # t /\ ThreadOf[d] \in Thread
      BY <1>3, <1>4, <2>2 DEF Resting
    <3> QED
      BY <1>1, <1>2, <1>3, <1>5, <3>1 DEF TokenInv, NativeInv, Semaphores
  <2> QED
    BY <2>1, <2>2
<1>7. SemaphoreInv'
  <2>1. ASSUME NEW s \in Thread, s # t PROVE Resting(s) => Resting(s)'
    BY <1>1, <1>3, <2>1 DEF Resting
  <2>2. mReplyReady'[t] = 0 /\ mJniReady'[t] = 0
    BY <1>2, <1>4, <1>5 DEF Semaphores
  <2>3. \A s \in Thread : HandlersAt(s, "waitReply") => HandlersAt(s, "waitReply")'
    BY DEF HandlersAt
  <2> QED
    BY <1>2, <1>5, <2>1, <2>2, <2>3 DEF TokenInv, SemaphoreInv, Semaphores
<1>8. ReplyInv'
  <2> SUFFICES ASSUME NEW b \in Binder, bpc[b] = "reply"
               PROVE  /\ Resting(bThread[b]) => \A d \in Call : ThreadOf[d] = bThread[b] => npc'[d] \in Rest
                      /\ mJniReady'[bThread[b]] = mJniReady[bThread[b]] /\ mStatus'[bThread[b]] = mStatus[bThread[b]]
    BY <1>2 DEF TokenInv, ReplyInv, Semaphores, Resting
  <2>1. bThread[b] # t /\ bThread[b] \in Thread
    BY <1>4 DEF HandlersAt, TokenInv, HandlerInv
  <2> QED
    BY <1>1, <1>3, <1>5, <2>1 DEF Resting
<1> QED
  BY <1>6, <1>7, <1>8

\* A native thread exists when it steps, and afterwards.
LEMMA NativeExists ==
    ASSUME NEW c \in Call, Native(c), npc \in [Call -> NativePC]
    PROVE  npc[c] # "none" /\ npc'[c] # "none" /\ \A d \in Call : d # c => npc'[d] = npc[d]
  BY DEF Native, RunNative, ReqJniCall, PostRequest, ResumeAfterJni, ReadJniResult, InvokeReturns, SignalResult, PostResult

LEMMA NativeToken ==
    ASSUME TokenInv, NEW c \in Call, NativeThread(c), UNCHANGED clientVars
    PROVE  TokenInv'
<1>1. UNCHANGED <<top, outer, cpc>>
  BY ClientUnchanged
<1>2. Native(c) /\ UNCHANGED <<txn, bpc, bThread, bCode>>
  BY DEF NativeThread, binderVars
<1>3. TypeOK /\ TypeOK' /\ npc \in [Call -> NativePC] /\ mStatus \in [Thread -> Status]
  BY NativeTypes DEF TokenInv, TypeOK, ServerTypeOK, ManagerTypeOK
<1>4. NestingInv'
  BY <1>1 DEF TokenInv, NestingInv, Open
<1>5. TransactionInv'
  <2>1. ASSUME NEW d \in Call, npc[d] = "none" PROVE npc'[d] = "none"
    BY <1>2, <1>3, <2>1, NativeExists
  <2>2. ASSUME NEW t \in Thread, txn[t].tag = "TAINT_CALL" PROVE npc'[top[t]] = "none"
    <3>1. Waiting(t) /\ npc[top[t]] = "none"
      BY <2>2 DEF TokenInv, TransactionInv
    <3>2. top[t] \in Call
      BY <1>3, <3>1 DEF TypeOK, ClientTypeOK, Waiting
    <3> QED
      BY <2>1, <3>1, <3>2
  <2>3. \A t \in Thread : Waiting(t)' <=> Waiting(t)
    BY <1>1 DEF Waiting
  <2> QED
    BY <1>1, <1>2, <2>1, <2>2, <2>3 DEF TokenInv, TransactionInv
<1>6. HandlerInv' /\ InvokedInv'
  <2>1. UNCHANGED platformInvoke /\ \A s \in Thread : s # ThreadOf[c] => mStatus'[s] = mStatus[s]
    BY <1>2, <1>3 DEF Native, RunNative, ReqJniCall, PostRequest, ResumeAfterJni, ReadJniResult, InvokeReturns, SignalResult,
       PostResult, managerVars
  <2>2. npc[c] # "none" /\ \A d \in Call : d # c => npc'[d] = npc[d]
    BY <1>2, <1>3, NativeExists
  <2> QED
    BY <1>2, <2>1, <2>2 DEF TokenInv, HandlerInv, InvokedInv
<1>7. NativeInv' /\ SemaphoreInv' /\ ReplyInv'
  <2>1. CASE RunNative(c) \/ ReadJniResult(c) \/ InvokeReturns(c)
    BY <1>2, <2>1, NativeGoesOn DEF RunNative, ReadJniResult, InvokeReturns, managerVars, Rest
  <2>2. ASSUME NEW f \in Function, ReqJniCall(c, f) PROVE NativeInv' /\ SemaphoreInv' /\ ReplyInv'
    BY <1>2, <1>3, <2>2, NativeGoesOn DEF ReqJniCall, Rest
  <2>3. CASE SignalResult(c)
    BY <1>2, <1>3, <2>3, NativeGoesOn DEF SignalResult, Rest
  <2>4. CASE PostRequest(c) \/ PostResult(c)
    BY <1>2, <2>4, NativePosts DEF PostRequest, PostResult, Rest
  <2>5. CASE ResumeAfterJni(c)
    BY <1>2, <2>5, NativeResumes
  <2> QED
    BY <1>2, <2>1, <2>2, <2>3, <2>4, <2>5 DEF Native
<1> QED
  BY <1>3, <1>4, <1>5, <1>6, <1>7 DEF TokenInv

LEMMA AtRest ==
    ASSUME TokenInv, NEW t \in Thread, txn[t].tag # "serving"
    PROVE  Semaphores(t, 0, 0) /\ Resting(t) /\ \A b \in Binder : bpc[b] # "idle" => bThread[b] # t
<1>1. Semaphores(t, 0, 0)
  BY DEF TokenInv, SemaphoreInv, Semaphores
<1>2. Resting(t)
  BY DEF TokenInv, NativeInv, Resting
<1> QED
  BY <1>1, <1>2 DEF TokenInv, HandlerInv

\* The call that a thread waits for.
LEMMA WaitingTop ==
    ASSUME TokenInv, NEW t \in Thread, txn[t].tag # "none"
    PROVE  /\ top[t] \in Call /\ ThreadOf[top[t]] = t /\ cpc[top[t]] \in {"awaitCall", "awaitCallback"}
           /\ \A s \in Thread : s # t => top[s] # top[t]
<1>1. Waiting(t)
  BY DEF TokenInv, TransactionInv
<1>2. top[t] \in Call /\ ThreadOf[top[t]] = t
  BY <1>1 DEF Waiting, TokenInv, TypeOK, ClientTypeOK, NestingInv
<1> QED
  BY <1>1, <1>2 DEF Waiting, TokenInv, NestingInv

\* The service takes the transaction of a thread, or replies.
LEMMA TransactionServed ==
    ASSUME TokenInv, NEW t \in Thread, NEW p, txn' = [txn EXCEPT ![t] = p], UNCHANGED <<top, cpc>>,
           txn[t].tag # "none", p.tag \in {"serving", "reply", "failed"}, p.tag = "failed" => txn[t].tag = "CALLBACK",
           \A d \in Call : d # top[t] /\ npc[d] = "none" => npc'[d] = "none"
    PROVE  TransactionInv'
<1>1. /\ txn'[t] = p /\ \A s \in Thread : s # t => txn'[s] = txn[s]
  BY DEF TokenInv, TypeOK, ServerTypeOK
<1>2. top[t] \in Call /\ cpc[top[t]] \in {"awaitCall", "awaitCallback"} /\ \A s \in Thread : s # t => top[s] # top[t]
  BY WaitingTop
<1>3. \A s \in Thread : Waiting(s)' <=> Waiting(s)
  BY DEF Waiting
<1>4. Waiting(t) /\ (txn[t].tag = "CALLBACK" => cpc[top[t]] = "awaitCallback")
  BY DEF TokenInv, TransactionInv
<1>5. ASSUME NEW s \in Thread, s # t, txn[s].tag = "TAINT_CALL" PROVE npc'[top[s]] = "none"
  <2>1. npc[top[s]] = "none"
    BY <1>5 DEF TokenInv, TransactionInv
  <2> QED
    BY <1>2, <1>5, <2>1, WaitingTop
<1>6. ASSUME NEW s \in Thread PROVE
          /\ txn'[s].tag # "none" <=> Waiting(s)'
          /\ txn'[s].tag = "TAINT_CALL" => cpc'[top'[s]] = "awaitCall" /\ txn'[s].call = top'[s] /\ npc'[top'[s]] = "none"
          /\ txn'[s].tag \in {"CALLBACK", "failed"} => cpc'[top'[s]] = "awaitCallback"
  <2>1. CASE s = t
    BY <1>1, <1>3, <1>4, <2>1
  <2>2. CASE s # t
    BY <1>1, <1>3, <1>5, <2>2 DEF TokenInv, TransactionInv
  <2> QED
    BY <2>1, <2>2
<1>7. \A c \in Call : cpc'[c] \in {"idle", "transact"} => npc'[c] = "none"
  BY <1>2 DEF TokenInv, TransactionInv
<1> QED
  BY <1>6, <1>7 DEF TransactionInv

\* A handler takes a transaction.
LEMMA HandlerEnters ==
    ASSUME TokenInv, NEW b \in Binder, NEW t \in Thread, NEW code \in {"TAINT_CALL", "CALLBACK"}, NEW d,
           bpc[b] = "idle", txn[t].tag # "serving", Serve(b, t, code, d), platformInvoke'[t].pResult \in Binder,
           \A s \in Thread : s # t => platformInvoke'[s] = platformInvoke[s]
    PROVE  /\ HandlerInv'
           /\ bpc'[b] = "waitReply" /\ bThread'[b] = t /\ HandlersAt(t, "waitReply")'
           /\ \A h \in Binder : h # b => bpc'[h] = bpc[h] /\ bThread'[h] = bThread[h]
           /\ \A s \in Thread : \A pc : s # t /\ HandlersAt(s, pc) => HandlersAt(s, pc)'
           /\ txn'[t] = Serving /\ \A s \in Thread : s # t => txn'[s] = txn[s]
<1>1. /\ bpc \in [Binder -> {"idle", "waitReply", "reply"}] /\ bThread \in [Binder -> Thread \cup {Null}]
      /\ bCode \in [Binder -> {"TAINT_CALL", "CALLBACK"} \cup {Null}] /\ txn \in [Thread -> Parcel]
  BY DEF TokenInv, TypeOK, ServerTypeOK
<1>2. /\ bpc'[b] = "waitReply" /\ bThread'[b] = t /\ bCode'[b] = code /\ txn'[t] = Serving
      /\ \A h \in Binder : h # b => bpc'[h] = bpc[h] /\ bThread'[h] = bThread[h] /\ bCode'[h] = bCode[h]
      /\ \A s \in Thread : s # t => txn'[s] = txn[s]
  BY <1>1 DEF Serve
<1>3. \A h \in Binder : bpc[h] # "idle" => bThread[h] # t
  BY AtRest
<1>4. HandlerInv'
  BY <1>2, <1>3, ParcelFields DEF TokenInv, HandlerInv
<1> QED
  BY <1>2, <1>3, <1>4 DEF HandlersAt

LEMMA OnTaintCallToken ==
    ASSUME TokenInv, NEW b \in Binder, NEW t \in Thread, OnTaintCall(b, t), UNCHANGED <<top, outer, cpc>>
    PROVE  NestingInv' /\ TransactionInv' /\ HandlerInv' /\ InvokedInv' /\ NativeInv' /\ SemaphoreInv' /\ ReplyInv'
<1>1. PICK c \in Call : c = txn[t].call /\ c = top[t] /\ ThreadOf[c] = t /\ npc[c] = "none" /\ txn[t].tag = "TAINT_CALL"
  BY WaitingTop DEF OnTaintCall, Enter, TokenInv, TransactionInv
<1>2. Semaphores(t, 0, 0) /\ Resting(t) /\ \A h \in Binder : bpc[h] # "idle" => bThread[h] # t
  BY <1>1, AtRest
<1>3. PICK pc \in {"created", "failed"} : npc' = [npc EXCEPT ![c] = pc]
  BY <1>1 DEF OnTaintCall, StartExec
<1>4. /\ npc \in [Call -> NativePC] /\ mStatus \in [Thread -> Status] /\ platformInvoke \in [Thread -> PlatformInvoke]
  BY DEF TokenInv, TypeOK, ServerTypeOK, ManagerTypeOK
<1>5. npc'[c] = pc /\ \A d \in Call : d # c => npc'[d] = npc[d]
  BY <1>3, <1>4
<1>6. /\ UNCHANGED <<mReplyReady, mJniReady>> /\ Serve(b, t, "TAINT_CALL", Null) /\ bpc[b] = "idle"
      /\ \A s \in Thread : s # t => mStatus'[s] = mStatus[s] /\ platformInvoke'[s] = platformInvoke[s]
      /\ platformInvoke'[t].pResult = b
  BY <1>1, <1>4 DEF OnTaintCall, StartExec, Enter
<1>7. /\ HandlerInv'
      /\ bpc'[b] = "waitReply" /\ bThread'[b] = t /\ HandlersAt(t, "waitReply")'
      /\ \A h \in Binder : h # b => bpc'[h] = bpc[h] /\ bThread'[h] = bThread[h]
      /\ \A s \in Thread : \A q : s # t /\ HandlersAt(s, q) => HandlersAt(s, q)'
      /\ txn'[t] = Serving /\ \A s \in Thread : s # t => txn'[s] = txn[s]
  BY <1>1, <1>6, HandlerEnters
<1>8. NestingInv'
  BY DEF TokenInv, NestingInv, Open
<1>9. TransactionInv'
  <2>1. txn' = [txn EXCEPT ![t] = Serving]
    BY <1>6 DEF Serve
  <2>2. Serving.tag = "serving"
    BY ParcelFields
  <2>3. \A d \in Call : d # top[t] /\ npc[d] = "none" => npc'[d] = "none"
    BY <1>1, <1>5
  <2> QED
    BY <1>1, <2>1, <2>2, <2>3, TransactionServed
<1>10. NativeInv'
  <2> SUFFICES ASSUME NEW d \in Call, npc'[d] \notin Rest
               PROVE  /\ txn'[ThreadOf[d]].tag = "serving" /\ Semaphores(ThreadOf[d], 0, 0) /\ HandlersAt(ThreadOf[d], "waitReply")'
                      /\ \A e \in Call : e # d /\ ThreadOf[e] = ThreadOf[d] => npc'[e] \in Rest
                      /\ npc'[d] = "reqPost" => mStatus'[ThreadOf[d]] = WAIT4JNI
                      /\ npc'[d] = "resPost" => mStatus'[ThreadOf[d]] = FINISHED
    BY <1>6 DEF NativeInv, Semaphores
  <2>1. CASE d = c
    BY <1>1, <1>2, <1>5, <1>7, <2>1, ParcelFields DEF Resting
  <2>2. CASE d # c
    <3>1. ThreadOf[d] # t /\ ThreadOf[d] \in Thread /\ npc[d] \notin Rest /\ npc'[d] = npc[d]
      BY <1>2, <1>5, <2>2 DEF Resting
    <3> QED
      BY <1>1, <1>5, <1>6, <1>7, <3>1 DEF TokenInv, NativeInv
  <2> QED
    BY <2>1, <2>2
<1>11. SemaphoreInv'
  <2>1. ASSUME NEW s \in Thread, s # t PROVE Resting(s) => Resting(s)'
    BY <1>1, <1>5, <2>1 DEF Resting
  <2> QED
    BY <1>2, <1>6, <1>7, <2>1 DEF TokenInv, SemaphoreInv, Semaphores
<1>12. ReplyInv'
  <2> SUFFICES ASSUME NEW h \in Binder, bpc'[h] = "reply"
               PROVE  /\ Semaphores(bThread'[h], 0, 0)
                      /\ \A d \in Call : ThreadOf[d] = bThread'[h] => npc'[d] \in Rest
                      /\ mStatus'[bThread'[h]] \in {WAIT4JNI, FINISHED}
    BY <1>6 DEF ReplyInv, Semaphores, Resting
  <2>1. h # b /\ bpc[h] = "reply" /\ bThread'[h] = bThread[h] /\ bThread[h] # t /\ bThread[h] \in Thread
    BY <1>2, <1>7 DEF TokenInv, HandlerInv
  <2> QED
    BY <1>1, <1>5, <1>6, <2>1 DEF TokenInv, ReplyInv, Resting
<1>13. InvokedInv'
  BY <1>1, <1>5, <1>6 DEF TokenInv, InvokedInv
<1> QED
  BY <1>7, <1>8, <1>9, <1>10, <1>11, <1>12, <1>13

LEMMA OnCallbackToken ==
    ASSUME TokenInv, NEW b \in Binder, NEW t \in Thread, OnCallback(b, t), UNCHANGED <<top, outer, cpc>>
    PROVE  NestingInv' /\ TransactionInv' /\ HandlerInv' /\ InvokedInv' /\ NativeInv' /\ SemaphoreInv' /\ ReplyInv'
<1>1. /\ txn[t].tag = "CALLBACK" /\ bpc[b] = "idle" /\ Serve(b, t, "CALLBACK", txn[t].data) /\ mStatus[t] = WAIT4JNI
      /\ SemPost(mJniReady, t) /\ UNCHANGED <<mStatus, mReplyReady, platformInvoke, npc>>
  BY DEF OnCallback, Enter, SetJniResult, nativeVars
<1>2. Semaphores(t, 0, 0) /\ Resting(t) /\ \A h \in Binder : bpc[h] # "idle" => bThread[h] # t
  BY <1>1, AtRest
<1>3. mJniReady'[t] = 1 /\ \A s \in Thread : s # t => mJniReady'[s] = mJniReady[s]
  BY <1>1, <1>2 DEF SemPost, Semaphores, TokenInv, TypeOK, ServerTypeOK, ManagerTypeOK
<1>4. platformInvoke'[t].pResult \in Binder
  BY <1>1, Statuses DEF TokenInv, InvokedInv
<1>5. /\ HandlerInv'
      /\ bpc'[b] = "waitReply" /\ bThread'[b] = t /\ HandlersAt(t, "waitReply")'
      /\ \A h \in Binder : h # b => bpc'[h] = bpc[h] /\ bThread'[h] = bThread[h]
      /\ \A s \in Thread : \A q : s # t /\ HandlersAt(s, q) => HandlersAt(s, q)'
      /\ txn'[t] = Serving /\ \A s \in Thread : s # t => txn'[s] = txn[s]
  BY <1>1, <1>4, HandlerEnters
<1>6. NestingInv'
  BY DEF TokenInv, NestingInv, Open
<1>7. TransactionInv'
  <2>1. txn' = [txn EXCEPT ![t] = Serving]
    BY <1>1 DEF Serve
  <2> QED
    BY <1>1, <2>1, ParcelFields, TransactionServed
<1>8. NativeInv'
  <2>1. ASSUME NEW d \in Call, npc'[d] \notin Rest PROVE ThreadOf[d] # t /\ ThreadOf[d] \in Thread
    BY <1>1, <1>2, <2>1 DEF Resting
  <2> QED
    BY <1>1, <1>3, <1>5, <2>1 DEF TokenInv, NativeInv, Semaphores
<1>9. SemaphoreInv'
  <2>1. \A s \in Thread : Resting(s) => Resting(s)'
    BY <1>1 DEF Resting
  <2> QED
    BY <1>1, <1>2, <1>3, <1>5, <2>1, ParcelFields DEF TokenInv, SemaphoreInv, Semaphores
<1>10. ReplyInv'
  <2> SUFFICES ASSUME NEW h \in Binder, bpc'[h] = "reply"
               PROVE  /\ mReplyReady'[bThread'[h]] = 0 /\ mJniReady'[bThread'[h]] = 0
                      /\ \A d \in Call : ThreadOf[d] = bThread'[h] => npc'[d] \in Rest
                      /\ mStatus'[bThread'[h]] \in {WAIT4JNI, FINISHED}
    BY <1>1 DEF ReplyInv, Semaphores, Resting
  <2>1. h # b /\ bpc[h] = "reply" /\ bThread'[h] = bThread[h] /\ bThread[h] # t /\ bThread[h] \in Thread
    BY <1>2, <1>5 DEF TokenInv, HandlerInv
  <2> QED
    BY <1>1, <1>3, <2>1 DEF TokenInv, ReplyInv, Resting, Semaphores
<1>11. InvokedInv'
  BY <1>1 DEF TokenInv, InvokedInv
<1> QED
  BY <1>5, <1>6, <1>7, <1>8, <1>9, <1>10, <1>11

LEMMA OnCallbackRefusedToken ==
    ASSUME TokenInv, NEW b \in Binder, NEW t \in Thread, OnCallbackNotWaiting(b, t) \/ OnCallbackMismatch(b, t),
           UNCHANGED <<top, outer, cpc>>
    PROVE  NestingInv' /\ TransactionInv' /\ HandlerInv' /\ InvokedInv' /\ NativeInv' /\ SemaphoreInv' /\ ReplyInv'
<1>1. /\ txn[t].tag = "CALLBACK"
      /\ UNCHANGED <<mStatus, mReplyReady, mJniReady, platformInvoke, npc, bpc, bThread, bCode>>
  BY DEF OnCallbackNotWaiting, OnCallbackMismatch, Enter, managerVars, nativeVars, binderVars
<1>2. PICK p : txn' = [txn EXCEPT ![t] = p] /\ p.tag \in {"reply", "failed"}
  BY ParcelFields DEF OnCallbackNotWaiting, OnCallbackMismatch
<1>3. /\ txn'[t] = p /\ \A s \in Thread : s # t => txn'[s] = txn[s]
  BY <1>2 DEF TokenInv, TypeOK, ServerTypeOK
<1>4. ASSUME NEW s \in Thread, txn[s].tag = "serving" PROVE txn'[s] = txn[s]
  BY <1>1, <1>3, <1>4
<1>5. NestingInv' /\ InvokedInv'
  BY <1>1 DEF TokenInv, NestingInv, Open, InvokedInv
<1>6. TransactionInv'
  BY <1>1, <1>2, TransactionServed
<1>7. HandlerInv' /\ ReplyInv'
  BY <1>1, <1>4 DEF TokenInv, HandlerInv, ReplyInv, Semaphores, Resting
<1>8. NativeInv' /\ SemaphoreInv'
  BY <1>1, <1>4 DEF TokenInv, NativeInv, SemaphoreInv, Semaphores, HandlersAt, Resting
<1> QED
  BY <1>5, <1>6, <1>7, <1>8

\* The handler takes the token out of mReplyReady.
LEMMA ReplyIsReadyToken ==
    ASSUME TokenInv, NEW b \in Binder, ReplyIsReady(b), UNCHANGED <<top, outer, cpc>>
    PROVE  NestingInv' /\ TransactionInv' /\ HandlerInv' /\ InvokedInv' /\ NativeInv' /\ SemaphoreInv' /\ ReplyInv'
<1>1. PICK t \in Thread : t = bThread[b] /\ txn[t].tag = "serving" /\ bpc[b] = "waitReply"
  BY DEF ReplyIsReady, TokenInv, HandlerInv
<1>2. /\ mReplyReady[t] # 0 /\ mReplyReady' = [mReplyReady EXCEPT ![t] = @ - 1] /\ bpc' = [bpc EXCEPT ![b] = "reply"]
      /\ UNCHANGED <<mStatus, mJniReady, platformInvoke, npc, txn, bThread, bCode>>
      /\ mReplyReady \in [Thread -> Nat] /\ bpc \in [Binder -> {"idle", "waitReply", "reply"}]
  BY <1>1 DEF ReplyIsReady, WaitReplyReady, SemWait, nativeVars, TokenInv, TypeOK, ServerTypeOK, ManagerTypeOK
<1>3. Semaphores(t, 1, 0) /\ Resting(t) /\ mStatus[t] \in {WAIT4JNI, FINISHED}
  BY <1>2 DEF TokenInv, SemaphoreInv
<1>4. mReplyReady'[t] = 0 /\ \A s \in Thread : s # t => mReplyReady'[s] = mReplyReady[s]
  BY <1>2, <1>3 DEF Semaphores
<1>5. bpc'[b] = "reply" /\ \A h \in Binder : h # b => bpc'[h] = bpc[h]
  BY <1>2
<1>6. NestingInv' /\ InvokedInv'
  BY <1>2 DEF TokenInv, NestingInv, Open, InvokedInv
<1>7. TransactionInv'
  BY <1>2 DEF TokenInv, TransactionInv, Waiting
<1>8. HandlerInv'
  BY <1>1, <1>2, <1>5 DEF TokenInv, HandlerInv
<1>9. \A s \in Thread : \A pc : s # t /\ HandlersAt(s, pc) => HandlersAt(s, pc)'
  BY <1>1, <1>2, <1>5 DEF HandlersAt
<1>10. NativeInv'
  <2>1. ASSUME NEW c \in Call, npc'[c] \notin Rest PROVE ThreadOf[c] # t /\ ThreadOf[c] \in Thread
    BY <1>2, <1>3, <2>1 DEF Resting
  <2> QED
    BY <1>2, <1>4, <1>9, <2>1 DEF TokenInv, NativeInv, Semaphores
<1>11. SemaphoreInv'
  <2>1. \A s \in Thread : Resting(s) => Resting(s)'
    BY <1>2 DEF Resting
  <2> QED
    BY <1>2, <1>3, <1>4, <1>9, <2>1 DEF TokenInv, SemaphoreInv, Semaphores
<1>12. ReplyInv'
  <2>1. ASSUME NEW h \in Binder, bpc'[h] = "reply", h # b
        PROVE  bpc[h] = "reply" /\ bThread[h] # t /\ bThread[h] \in Thread
    BY <1>1, <1>5, <2>1 DEF TokenInv, HandlerInv
  <2> QED
    BY <1>1, <1>2, <1>3, <1>4, <2>1 DEF TokenInv, ReplyInv, Semaphores, Resting
<1> QED
  BY <1>6, <1>7, <1>8, <1>10, <1>11, <1>12

\* What a handler replies.
LEMMA Reply ==
    ASSUME TokenInv, NEW b \in Binder, ReplyTaintCall(b) \/ ReplyCallback(b)
    PROVE  /\ bThread[b] \in Thread /\ bpc[b] = "reply" /\ txn[bThread[b]].tag = "serving"
           /\ Semaphores(bThread[b], 0, 0) /\ Resting(bThread[b]) /\ mStatus[bThread[b]] \in {WAIT4JNI, FINISHED}
           /\ UNCHANGED <<mStatus, mReplyReady, mJniReady, platformInvoke, npc, bThread, bCode>>
           /\ bpc' = [bpc EXCEPT ![b] = "idle"]
           /\ mStatus[bThread[b]] = WAIT4JNI => txn' = [txn EXCEPT ![bThread[b]] = RequestReply(bThread[b])]
           /\ mStatus[bThread[b]] = FINISHED =>
                 txn' = [txn EXCEPT ![bThread[b]] = ResultReply(stackResult[IF bCode[b] = "TAINT_CALL" THEN b
                                                                            ELSE platformInvoke[bThread[b]].pResult])]
<1>1. bpc[b] = "reply" /\ bThread[b] \in Thread /\ txn[bThread[b]].tag = "serving"
  BY DEF ReplyTaintCall, ReplyCallback, TokenInv, HandlerInv
<1>2. Semaphores(bThread[b], 0, 0) /\ Resting(bThread[b]) /\ mStatus[bThread[b]] \in {WAIT4JNI, FINISHED}
  BY <1>1 DEF TokenInv, ReplyInv
<1>3. UNCHANGED <<mStatus, mReplyReady, mJniReady, platformInvoke, npc, bThread, bCode>> /\ bpc' = [bpc EXCEPT ![b] = "idle"]
  BY DEF ReplyTaintCall, ReplyCallback, Leave, nativeVars
<1>4. CASE ReplyTaintCall(b)
  BY <1>1, <1>2, <1>3, <1>4, Statuses DEF ReplyTaintCall
<1>5. CASE ReplyCallback(b)
  BY <1>1, <1>2, <1>3, <1>5, Statuses DEF ReplyCallback
<1> QED
  BY <1>4, <1>5

LEMMA ReplyToken ==
    ASSUME TokenInv, NEW b \in Binder, ReplyTaintCall(b) \/ ReplyCallback(b), UNCHANGED <<top, outer, cpc>>
    PROVE  NestingInv' /\ TransactionInv' /\ HandlerInv' /\ InvokedInv' /\ NativeInv' /\ SemaphoreInv' /\ ReplyInv'
<1>1. PICK t \in Thread : t = bThread[b]
  BY Reply
<1>2. /\ bpc[b] = "reply" /\ txn[t].tag = "serving" /\ Semaphores(t, 0, 0) /\ Resting(t)
      /\ UNCHANGED <<mStatus, mReplyReady, mJniReady, platformInvoke, npc, bThread, bCode>>
      /\ bpc' = [bpc EXCEPT ![b] = "idle"]
  BY <1>1, Reply
<1>3. PICK p : txn' = [txn EXCEPT ![t] = p] /\ p.tag = "reply"
  <2>1. \/ txn' = [txn EXCEPT ![t] = RequestReply(t)]
        \/ \E v : txn' = [txn EXCEPT ![t] = ResultReply(v)]
    BY <1>1, Reply
  <2> QED
    BY <2>1, ParcelFields
<1>4. /\ txn'[t] = p /\ \A s \in Thread : s # t => txn'[s] = txn[s]
  BY <1>3 DEF TokenInv, TypeOK, ServerTypeOK
<1>5. bpc'[b] = "idle" /\ \A h \in Binder : h # b => bpc'[h] = bpc[h]
  BY <1>2 DEF TokenInv, TypeOK, ServerTypeOK
<1>6. ASSUME NEW h \in Binder, bpc'[h] # "idle" PROVE h # b /\ bpc[h] = bpc'[h] /\ bThread[h] # t /\ bThread[h] \in Thread
  BY <1>1, <1>2, <1>5, <1>6 DEF TokenInv, HandlerInv
<1>7. NestingInv' /\ InvokedInv'
  BY <1>2 DEF TokenInv, NestingInv, Open, InvokedInv
<1>8. TransactionInv'
  BY <1>2, <1>3, TransactionServed
<1>9. HandlerInv' /\ ReplyInv'
  BY <1>2, <1>4, <1>6 DEF TokenInv, HandlerInv, ReplyInv, Semaphores, Resting
<1>10. \A s \in Thread : \A pc : HandlersAt(s, pc) => HandlersAt(s, pc)'
  BY <1>2, <1>6 DEF HandlersAt
<1>11. NativeInv'
  <2>1. ASSUME NEW c \in Call, npc'[c] \notin Rest PROVE ThreadOf[c] # t /\ ThreadOf[c] \in Thread
    BY <1>2, <2>1 DEF Resting
  <2> QED
    BY <1>2, <1>4, <1>10, <2>1 DEF TokenInv, NativeInv, Semaphores
<1>12. SemaphoreInv'
  <2>1. \A s \in Thread : Resting(s) => Resting(s)'
    BY <1>2 DEF Resting
  <2>2. \A s \in Thread : mReplyReady[s] # 0 \/ mJniReady[s] # 0 => s # t
    BY <1>2 DEF Semaphores
  <2> QED
    BY <1>2, <1>4, <1>10, <2>1, <2>2 DEF TokenInv, SemaphoreInv, Semaphores
<1> QED
  BY <1>7, <1>8, <1>9, <1>11, <1>12

LEMMA BinderToken ==
    ASSUME TokenInv, NEW b \in Binder, BinderThread(b), UNCHANGED clientVars
    PROVE  TokenInv'
<1>1. UNCHANGED <<top, outer, cpc>>
  BY ClientUnchanged
<1>2. TypeOK'
  <2>1. \A t \in Thread : txn[t].tag = "TAINT_CALL" => txn[t].call \in Call
    BY WaitingTop DEF TokenInv, TransactionInv
  <2> QED
    BY <2>1, BinderTypes DEF TokenInv
<1>3. NestingInv' /\ TransactionInv' /\ HandlerInv' /\ InvokedInv' /\ NativeInv' /\ SemaphoreInv' /\ ReplyInv'
  BY <1>1, OnTaintCallToken, OnCallbackToken, OnCallbackRefusedToken, ReplyIsReadyToken, ReplyToken DEF BinderThread
<1> QED
  BY <1>2, <1>3 DEF TokenInv

\* The app changes a transaction that the service has not taken.
LEMMA ServiceUntouched ==
    ASSUME TokenInv, NEW t \in Thread, \A s \in Thread : s # t => txn'[s] = txn[s], txn[t].tag # "serving",
           UNCHANGED <<mStatus, mReplyReady, mJniReady, platformInvoke, npc, bpc, bThread, bCode>>
    PROVE  HandlerInv' /\ InvokedInv' /\ NativeInv' /\ SemaphoreInv' /\ ReplyInv'
<1>1. ASSUME NEW s \in Thread, txn[s].tag = "serving" PROVE txn'[s] = txn[s]
  BY <1>1
<1>2. HandlerInv' /\ ReplyInv' /\ InvokedInv'
  BY <1>1 DEF TokenInv, HandlerInv, ReplyInv, InvokedInv, Semaphores, Resting
<1>3. NativeInv' /\ SemaphoreInv'
  BY <1>1 DEF TokenInv, NativeInv, SemaphoreInv, Semaphores, HandlersAt, Resting
<1> QED
  BY <1>2, <1>3

\* The innermost call goes on.
LEMMA TopGoesOn ==
    ASSUME TokenInv, NEW c \in Call, NEW p, NEW q, At(c, p), p \notin {"idle", "returned", "aborted"},
           q \notin {"idle", "returned", "aborted"}, Goto(c, q), UNCHANGED <<top, outer>>
    PROVE  NestingInv'
<1>1. cpc'[c] = q /\ \A d \in Call : d # c => cpc'[d] = cpc[d]
  BY DEF Goto, TokenInv, TypeOK, ClientTypeOK
<1>2. \A d \in Call : Open(d)' <=> Open(d)
  BY <1>1 DEF At, Open
<1>3. \A t \in Thread : top[t] # Null => top[t] \in Call
  BY DEF TokenInv, TypeOK, ClientTypeOK
<1>4. \A d \in Call : outer[d] # Null => outer[d] \in Call
  BY DEF TokenInv, TypeOK, ClientTypeOK
<1> QED
  BY <1>1, <1>2, <1>3, <1>4 DEF TokenInv, NestingInv, At

\* ... and its transaction with it.
LEMMA TopTransacts ==
    ASSUME TokenInv, NEW c \in Call, NEW p, NEW q, At(c, p), p \notin {"idle", "returned", "aborted"},
           q \notin {"idle", "transact", "returned", "aborted"}, Goto(c, q), UNCHANGED <<top, npc>>,
           \A s \in Thread : s # ThreadOf[c] => txn'[s] = txn[s],
           txn'[ThreadOf[c]].tag = "none" <=> q \notin {"awaitCall", "awaitCallback"},
           txn'[ThreadOf[c]].tag = "TAINT_CALL" => q = "awaitCall" /\ txn'[ThreadOf[c]].call = c /\ npc[c] = "none",
           txn'[ThreadOf[c]].tag \in {"CALLBACK", "failed"} => q = "awaitCallback"
    PROVE  TransactionInv'
<1>1. cpc'[c] = q /\ \A d \in Call : d # c => cpc'[d] = cpc[d]
  BY DEF Goto, TokenInv, TypeOK, ClientTypeOK
<1>2. PICK t \in Thread : t = ThreadOf[c] /\ top[t] = c
  BY DEF At
<1>3. ASSUME NEW s \in Thread, s # t PROVE top[s] # c /\ (top[s] # Null => cpc'[top[s]] = cpc[top[s]])
  BY <1>1, <1>2, <1>3 DEF TokenInv, NestingInv, TypeOK, ClientTypeOK
<1>4. \A s \in Thread : s # t => (Waiting(s)' <=> Waiting(s))
  BY <1>3 DEF Waiting
<1>5. Waiting(t)' <=> q \in {"awaitCall", "awaitCallback"}
  BY <1>1, <1>2 DEF Waiting
<1>6. ASSUME NEW s \in Thread PROVE
          /\ txn'[s].tag # "none" <=> Waiting(s)'
          /\ txn'[s].tag = "TAINT_CALL" => cpc'[top'[s]] = "awaitCall" /\ txn'[s].call = top'[s] /\ npc'[top'[s]] = "none"
          /\ txn'[s].tag \in {"CALLBACK", "failed"} => cpc'[top'[s]] = "awaitCallback"
  <2>1. CASE s = t
    BY <1>1, <1>2, <1>5, <2>1
  <2>2. CASE s # t
    <3>1. txn'[s] = txn[s]
      BY <1>2, <2>2
    <3>2. txn[s].tag # "none" => top[s] # Null
      BY DEF TokenInv, TransactionInv, Waiting
    <3> QED
      BY <1>3, <1>4, <2>2, <3>1, <3>2 DEF TokenInv, TransactionInv
  <2> QED
    BY <2>1, <2>2
<1>7. \A d \in Call : cpc'[d] \in {"idle", "transact"} => npc'[d] = "none"
  BY <1>1 DEF TokenInv, TransactionInv
<1> QED
  BY <1>6, <1>7 DEF TransactionInv

LEMMA ServerUnchanged ==
    ASSUME UNCHANGED <<managerVars, stackResult, nativeVars, binderVars>>
    PROVE  UNCHANGED <<mStatus, mReplyReady, mJniReady, jniCall, platformInvoke, stackResult, npc, nInvoke, nJni, nGot,
                       bpc, bThread, bCode, rawdata>>
  BY DEF managerVars, nativeVars, binderVars

\* A new taintCall.
LEMMA TaintCallToken ==
    ASSUME TokenInv, NEW c \in Call, TaintCall(c)
    PROVE  NestingInv' /\ TransactionInv' /\ HandlerInv' /\ InvokedInv' /\ NativeInv' /\ SemaphoreInv' /\ ReplyInv'
<1>1. PICK t \in Thread : t = ThreadOf[c]
  OBVIOUS
<1>2. /\ cpc[c] = "idle" /\ (top[t] # Null => cpc[top[t]] = "inJava") /\ top' = [top EXCEPT ![t] = c]
      /\ outer' = [outer EXCEPT ![c] = top[t]] /\ cpc' = [cpc EXCEPT ![c] = "transact"]
      /\ UNCHANGED txn /\ UNCHANGED <<managerVars, stackResult, nativeVars, binderVars>>
  BY <1>1 DEF TaintCall, Goto, serverVars
<1>3. /\ top \in [Thread -> Call \cup {Null}] /\ outer \in [Call -> Call \cup {Null}] /\ cpc \in [Call -> ClientPC]
  BY DEF TokenInv, TypeOK, ClientTypeOK
<1>4. /\ top'[t] = c /\ outer'[c] = top[t] /\ cpc'[c] = "transact"
      /\ \A s \in Thread : s # t => top'[s] = top[s]
      /\ \A d \in Call : d # c => outer'[d] = outer[d] /\ cpc'[d] = cpc[d]
  BY <1>2, <1>3
<1>5. Open(c)' /\ ~Open(c) /\ \A d \in Call : d # c => (Open(d)' <=> Open(d))
  BY <1>2, <1>4 DEF Open
<1>6. \A s \in Thread : top[s] # c
  BY <1>5 DEF TokenInv, NestingInv
<1>7. \A d \in Call : Open(d) => outer[d] # c
  BY <1>5 DEF TokenInv, NestingInv
<1>8. NestingInv'
  <2>1. \A s \in Thread : top'[s] # Null => ThreadOf[top'[s]] = s /\ Open(top[s])'
    BY <1>1, <1>3, <1>4, <1>5, <1>6 DEF TokenInv, NestingInv, Open
  <2>2. \A d \in Call : Open(d)' => top'[ThreadOf[d]] = d \/ cpc'[d] = "inJava"
    BY <1>1, <1>2, <1>4, <1>5 DEF TokenInv, NestingInv
  <2>3. ASSUME NEW d \in Call, Open(d)', outer'[d] # Null
        PROVE  /\ ThreadOf[outer'[d]] = ThreadOf[d] /\ Open(outer[d])'
               /\ outer'[d] # top'[ThreadOf[d]] /\ outer'[d] # d
    <3>1. CASE d = c
      BY <1>1, <1>3, <1>4, <1>5, <1>6, <2>3, <3>1 DEF TokenInv, NestingInv, Open
    <3>2. CASE d # c
      <4>1. Open(d) /\ outer'[d] = outer[d] /\ outer[d] # Null /\ outer[d] # c /\ outer[d] \in Call
        BY <1>3, <1>4, <1>5, <1>7, <2>3, <3>2
      <4> QED
        BY <1>1, <1>4, <1>5, <4>1 DEF TokenInv, NestingInv, Open
    <3> QED
      BY <3>1, <3>2
  <2>4. ASSUME NEW d \in Call, Open(d), d # c, outer[d] # Null PROVE outer[d] # top[t]
    <3>1. ThreadOf[outer[d]] = ThreadOf[d] /\ outer[d] # top[ThreadOf[d]]
      BY <2>4 DEF TokenInv, NestingInv
    <3> QED
      BY <2>4, <3>1 DEF TokenInv, NestingInv
  <2>5. \A d, e \in Call : Open(d)' /\ Open(e)' /\ outer'[d] # Null /\ outer'[d] = outer'[e] => d = e
    BY <1>4, <1>5, <2>4 DEF TokenInv, NestingInv
  <2> QED
    BY <2>1, <2>2, <2>3, <2>5 DEF NestingInv, Open
<1>9. txn[t].tag = "none"
  BY <1>2 DEF TokenInv, TransactionInv, Waiting
<1>10. TransactionInv'
  <2>1. ASSUME NEW s \in Thread, s # t PROVE Waiting(s)' <=> Waiting(s)
    BY <1>3, <1>4, <1>6, <2>1 DEF Waiting
  <2>2. ~Waiting(t)'
    BY <1>4 DEF Waiting
  <2>3. UNCHANGED <<txn, npc>>
    BY <1>2 DEF nativeVars
  <2>4. npc[c] = "none"
    BY <1>2 DEF TokenInv, TransactionInv
  <2>5. ASSUME NEW s \in Thread, s # t, txn[s].tag # "none" PROVE top'[s] = top[s] /\ cpc'[top[s]] = cpc[top[s]]
    BY <1>4, <1>6, <2>5, WaitingTop
  <2> QED
    BY <1>4, <1>9, <2>1, <2>2, <2>3, <2>4, <2>5 DEF TokenInv, TransactionInv
<1> QED
  BY <1>2, <1>8, <1>9, <1>10, ServerUnchanged, ServiceUntouched


\* The app reads a reply: the status is that of the reply, or that of a
\* callback that failed.
LEMMA Replied ==
    ASSUME TokenInv, NEW c \in Call, EndTransaction(c), ExecStatus(c) # {}
    PROVE  /\ top[ThreadOf[c]] = c /\ cpc[c] \in {"awaitCall", "awaitCallback"}
           /\ txn[ThreadOf[c]].tag \in {"reply", "failed"}
           /\ txn[ThreadOf[c]].tag = "reply" => ExecStatus(c) = {txn[ThreadOf[c]].status}
           /\ txn[ThreadOf[c]].tag = "failed" => ExecStatus(c) = {INIT}
           /\ txn'[ThreadOf[c]].tag = "none" /\ \A s \in Thread : s # ThreadOf[c] => txn'[s] = txn[s]
           /\ UNCHANGED <<managerVars, stackResult, nativeVars, binderVars>>
<1>1. PICK t \in Thread : t = ThreadOf[c]
  OBVIOUS
<1>2. top[t] = c /\ cpc[c] \in {"awaitCall", "awaitCallback"}
  BY <1>1 DEF EndTransaction, At
<1>3. txn[t].tag \in {"reply", "failed"} /\ (txn[t].tag = "reply" => ExecStatus(c) = {txn[t].status})
  BY <1>1 DEF ExecStatus
<1>4. txn[t].tag = "failed" => ExecStatus(c) = {INIT}
  <2>1. txn[t].tag = "failed" => cpc[c] = "awaitCallback"
    BY <1>2 DEF TokenInv, TransactionInv
  <2> QED
    BY <1>1, <2>1 DEF ExecStatus
<1>5. txn'[t] = NoTxn /\ \A s \in Thread : s # t => txn'[s] = txn[s]
  BY <1>1 DEF EndTransaction, TokenInv, TypeOK, ServerTypeOK
<1> QED
  BY <1>1, <1>2, <1>3, <1>4, <1>5, ParcelFields DEF EndTransaction

\* taintCall returns to the call it is nested in.
LEMMA ReturnToken ==
    ASSUME TokenInv, NEW c \in Call, NEW pc \in {"returned", "aborted"}, NEW v, EndTransaction(c), ExecStatus(c) # {},
           Return(c, pc, v)
    PROVE  NestingInv' /\ TransactionInv' /\ HandlerInv' /\ InvokedInv' /\ NativeInv' /\ SemaphoreInv' /\ ReplyInv'
<1>1. PICK t \in Thread : t = ThreadOf[c]
  OBVIOUS
<1>2. /\ top[t] = c /\ cpc[c] \in {"awaitCall", "awaitCallback"} /\ txn[t].tag \in {"reply", "failed"}
      /\ txn'[t].tag = "none" /\ \A s \in Thread : s # t => txn'[s] = txn[s]
      /\ UNCHANGED <<managerVars, stackResult, nativeVars, binderVars>>
  BY <1>1, Replied
<1>3. /\ top \in [Thread -> Call \cup {Null}] /\ outer \in [Call -> Call \cup {Null}] /\ cpc \in [Call -> ClientPC]
  BY DEF TokenInv, TypeOK, ClientTypeOK
<1>4. /\ top'[t] = outer[c] /\ cpc'[c] = pc /\ outer' = outer
      /\ \A s \in Thread : s # t => top'[s] = top[s]
      /\ \A d \in Call : d # c => cpc'[d] = cpc[d]
  BY <1>1, <1>3 DEF Return, Goto
<1>5. Open(c) /\ ~Open(c)' /\ \A d \in Call : d # c => (Open(d)' <=> Open(d))
  BY <1>2, <1>4 DEF Open
<1>6. outer[c] # Null => /\ outer[c] \in Call /\ outer[c] # c /\ ThreadOf[outer[c]] = t /\ Open(outer[c])
                         /\ cpc[outer[c]] = "inJava"
  BY <1>1, <1>2, <1>3, <1>5 DEF TokenInv, NestingInv
<1>7. \A s \in Thread : s # t => top[s] # c
  BY <1>1 DEF TokenInv, NestingInv
<1>8. \A d \in Call : Open(d) => outer[d] # c
  BY <1>1, <1>2 DEF TokenInv, NestingInv
<1>9. NestingInv'
  <2>1. \A s \in Thread : top'[s] # Null => ThreadOf[top'[s]] = s /\ Open(top[s])'
    BY <1>3, <1>4, <1>5, <1>6, <1>7 DEF TokenInv, NestingInv, Open
  <2>2. \A d \in Call : Open(d)' => top'[ThreadOf[d]] = d \/ cpc'[d] = "inJava"
    BY <1>1, <1>2, <1>4, <1>5 DEF TokenInv, NestingInv
  <2>3. ASSUME NEW d \in Call, Open(d)', outer[d] # Null
        PROVE  /\ ThreadOf[outer[d]] = ThreadOf[d] /\ Open(outer[d])'
               /\ outer[d] # top'[ThreadOf[d]] /\ outer[d] # d
    <3>1. d # c /\ Open(d) /\ outer[d] # c /\ outer[d] \in Call
      BY <1>3, <1>5, <1>8, <2>3
    <3>2. ThreadOf[outer[d]] = ThreadOf[d] /\ Open(outer[d]) /\ outer[d] # d /\ outer[d] # top[ThreadOf[d]]
      BY <2>3, <3>1 DEF TokenInv, NestingInv
    <3>3. outer[d] # outer[c]
      BY <1>5, <2>3, <3>1 DEF TokenInv, NestingInv
    <3> QED
      BY <1>4, <1>5, <3>1, <3>2, <3>3 DEF Open
  <2>4. \A d, e \in Call : Open(d)' /\ Open(e)' /\ outer[d] # Null /\ outer[d] = outer[e] => d = e
    BY <1>5 DEF TokenInv, NestingInv
  <2> QED
    BY <1>4, <2>1, <2>2, <2>3, <2>4 DEF NestingInv, Open
<1>10. TransactionInv'
  <2>1. ASSUME NEW s \in Thread, s # t PROVE Waiting(s)' <=> Waiting(s)
    BY <1>3, <1>4, <1>7, <2>1 DEF Waiting
  <2>2. ~Waiting(t)'
    BY <1>4, <1>6 DEF Waiting
  <2>3. UNCHANGED npc
    BY <1>2 DEF nativeVars
  <2>4. ASSUME NEW s \in Thread, s # t, txn[s].tag # "none" PROVE top'[s] = top[s] /\ cpc'[top[s]] = cpc[top[s]]
    BY <1>4, <1>7, <2>4, WaitingTop
  <2> QED
    BY <1>2, <1>4, <2>1, <2>2, <2>3, <2>4 DEF TokenInv, TransactionInv
<1> QED
  BY <1>2, <1>9, <1>10, ServerUnchanged, ServiceUntouched

LEMMA ClientToken ==
    ASSUME TokenInv, NEW c \in Call, Client(c)
    PROVE  TokenInv'
<1>1. TypeOK'
  BY ClientTypes DEF TokenInv
<1>2. SUFFICES NestingInv' /\ TransactionInv' /\ HandlerInv' /\ InvokedInv' /\ NativeInv' /\ SemaphoreInv' /\ ReplyInv'
  BY <1>1 DEF TokenInv
<1>3. PICK t \in Thread : t = ThreadOf[c]
  OBVIOUS
<1>4. txn \in [Thread -> Parcel] /\ cpc \in [Call -> ClientPC]
  BY DEF TokenInv, TypeOK, ServerTypeOK, ClientTypeOK
<1>5. ASSUME NEW p, At(c, p), p \notin {"awaitCall", "awaitCallback"} PROVE txn[t].tag = "none"
  BY <1>3, <1>5 DEF At, TokenInv, TransactionInv, Waiting
<1>6. CASE TaintCall(c)
  BY <1>6, TaintCallToken
<1>7. CASE TransactTaintCall(c)
  <2>1. At(c, "transact") /\ Goto(c, "awaitCall") /\ UNCHANGED <<top, outer>>
        /\ UNCHANGED <<managerVars, stackResult, nativeVars, binderVars>>
    BY <1>7 DEF TransactTaintCall
  <2>2. txn'[t] = TaintCallTxn(c) /\ \A s \in Thread : s # t => txn'[s] = txn[s]
    BY <1>3, <1>4, <1>7 DEF TransactTaintCall
  <2>3. npc[c] = "none" /\ txn[t].tag = "none" /\ UNCHANGED npc
    BY <1>5, <2>1 DEF At, TokenInv, TransactionInv, nativeVars
  <2>4. NestingInv'
    BY <2>1, TopGoesOn
  <2>5. TransactionInv'
    <3>1. txn'[t].tag = "TAINT_CALL" /\ txn'[t].call = c
      BY <2>2, ParcelFields
    <3> QED
      BY <1>3, <2>1, <2>2, <2>3, <3>1, TopTransacts
  <2> QED
    BY <2>1, <2>2, <2>3, <2>4, <2>5, ServerUnchanged, ServiceUntouched
<1>8. CASE ReturnResult(c) \/ ReturnUnexpected(c)
  <2>1. CASE ReturnResult(c)
    BY <2>1, ReturnToken DEF ReturnResult
  <2>2. CASE ReturnUnexpected(c)
    BY <2>2, ReturnToken DEF ReturnUnexpected
  <2> QED
    BY <1>8, <2>1, <2>2
<1>9. CASE ReadRequest(c)
  <2>1. EndTransaction(c) /\ ExecStatus(c) # {} /\ Goto(c, "dispatch") /\ UNCHANGED <<top, outer>>
    BY <1>9 DEF ReadRequest
  <2>2. /\ top[t] = c /\ txn[t].tag \in {"reply", "failed"} /\ txn'[t].tag = "none"
        /\ \A s \in Thread : s # t => txn'[s] = txn[s]
        /\ UNCHANGED <<managerVars, stackResult, nativeVars, binderVars>>
    BY <1>3, <2>1, Replied
  <2>3. PICK p \in {"awaitCall", "awaitCallback"} : At(c, p)
    BY <2>1 DEF EndTransaction
  <2>4. NestingInv'
    BY <2>1, <2>3, TopGoesOn
  <2>5. TransactionInv'
    BY <1>3, <2>1, <2>2, <2>3, TopTransacts, ServerUnchanged
  <2> QED
    BY <2>2, <2>4, <2>5, ServerUnchanged, ServiceUntouched
<1>10. ASSUME NEW p \in {"dispatch", "inJava", "result", "freeReply", "store"},
              NEW q \in {"inJava", "result", "freeReply", "store", "callback"},
              At(c, p), Goto(c, q), UNCHANGED <<serverVars, top, outer>>
       PROVE  NestingInv' /\ TransactionInv' /\ HandlerInv' /\ InvokedInv' /\ NativeInv' /\ SemaphoreInv' /\ ReplyInv'
  <2>1. UNCHANGED txn /\ UNCHANGED <<managerVars, stackResult, nativeVars, binderVars>>
    BY <1>10 DEF serverVars
  <2>2. txn[t].tag = "none"
    BY <1>5, <1>10
  <2>3. NestingInv'
    BY <1>10, TopGoesOn
  <2>4. TransactionInv'
    BY <1>3, <1>10, <2>1, <2>2, TopTransacts, ServerUnchanged
  <2> QED
    BY <2>1, <2>2, <2>3, <2>4, ServerUnchanged, ServiceUntouched
<1>11. CASE CallJni(c) \/ ReturnFromJava(c) \/ WriteCallbackdata(c) \/ FreeReplydata(c) \/ StoreCbdata(c)
  BY <1>10, <1>11 DEF CallJni, ReturnFromJava, WriteCallbackdata, FreeReplydata, StoreCbdata
<1>12. CASE DoCallbackTransaction(c)
  <2>1. At(c, "callback") /\ Goto(c, "awaitCallback") /\ UNCHANGED <<top, outer>>
        /\ UNCHANGED <<managerVars, stackResult, nativeVars, binderVars>>
    BY <1>12 DEF DoCallbackTransaction
  <2>2. txn'[t].tag = "CALLBACK" /\ \A s \in Thread : s # t => txn'[s] = txn[s]
    BY <1>3, <1>4, <1>12, ParcelFields DEF DoCallbackTransaction
  <2>3. txn[t].tag = "none"
    BY <1>5, <2>1
  <2>4. NestingInv'
    BY <2>1, TopGoesOn
  <2>5. TransactionInv'
    BY <1>3, <2>1, <2>2, TopTransacts, ServerUnchanged
  <2> QED
    BY <2>1, <2>2, <2>3, <2>4, <2>5, ServerUnchanged, ServiceUntouched
<1> QED
  BY <1>6, <1>7, <1>8, <1>9, <1>11, <1>12 DEF Client

LEMMA NextToken == TokenInv /\ [Next]_vars => TokenInv'
<1> SUFFICES ASSUME TokenInv, [Next]_vars PROVE TokenInv'
  OBVIOUS
<1>1. CASE UNCHANGED vars
  <2>1. UNCHANGED txn /\ UNCHANGED <<managerVars, stackResult, nativeVars, binderVars>> /\ UNCHANGED clientVars
    BY <1>1 DEF vars, serverVars
  <2>2. UNCHANGED <<mStatus, mReplyReady, mJniReady, jniCall, platformInvoke, stackResult, npc, nInvoke, nJni, nGot,
                    bpc, bThread, bCode, rawdata>>
    BY <2>1, ServerUnchanged
  <2>3. TypeOK'
    BY <2>1, <2>2, ClientUnchanged DEF TokenInv, TypeOK, ServerTypeOK, ManagerTypeOK, ClientTypeOK
  <2>4. NestingInv' /\ TransactionInv'
    BY <2>1, <2>2, ClientUnchanged DEF TokenInv, NestingInv, TransactionInv, Open, Waiting
  <2>5. HandlerInv' /\ InvokedInv' /\ ReplyInv'
    BY <2>1, <2>2 DEF TokenInv, HandlerInv, InvokedInv, ReplyInv, Semaphores, Resting
  <2>6. NativeInv' /\ SemaphoreInv'
    BY <2>1, <2>2 DEF TokenInv, NativeInv, SemaphoreInv, Semaphores, HandlersAt, Resting
  <2> QED
    BY <2>3, <2>4, <2>5, <2>6 DEF TokenInv
<1>2. CASE Next
  <2>1. CASE Service
    BY <2>1, BinderToken, NativeToken DEF Service
  <2> QED
    BY <1>1, <1>2, <2>1, ClientToken DEF Next, Terminating
<1> QED
  BY <1>1, <1>2


\* At every moment a thread id has one token: at most one native thread of it
\* runs, at most one handler serves it, and the semaphores are never above 1.
THEOREM TokenAlways == Spec => []TokenInv
<1> QED
  BY InitToken, NextToken, PTL DEF Spec

\* The variables of both processes keep their types.
THEOREM TypesAlways == Spec => []TypeOK
<1>1. TokenInv => TypeOK
  BY DEF TokenInv
<1> QED
  BY <1>1, TokenAlways, PTL

\* The unsynchronised mailbox is guarded and the status is read only after it
\* was set, also for the client as it is: any number of app threads, nested
\* calls, mixed up answers and calls that were given up.
THEOREM MailboxGuarded == Spec => [](MailboxExclusive /\ ReplyStatus)
<1>1. TokenInv => ReplyStatus
  BY DEF TokenInv, ReplyInv, ReplyStatus
<1>2. TokenInv => MailboxExclusive
  <2> SUFFICES ASSUME TokenInv, NEW b \in Binder, NEW c \in Call, bpc[b] = "reply", bThread[b] = ThreadOf[c]
               PROVE  npc[c] \in {"none", "done"} \/ (npc[c] = "reqWait" /\ mJniReady[ThreadOf[c]] = 0)
    BY DEF MailboxExclusive
  <2> QED
    BY DEF TokenInv, ReplyInv, Resting, Rest, Semaphores
<1> QED
  BY <1>1, <1>2, TokenAlways, PTL

-----------------------------------------------------------------------------
(* One app thread: a request is executed once.                             *)

\* No request is on its way to the app.
Delivered ==
    /\ \A c \in Call : npc[c] # "reqPost"
    /\ \A t \in Thread :
          /\ ~(mStatus[t] = WAIT4JNI /\ Posted(t))
          /\ ~(txn[t].tag = "reply" /\ txn[t].status = WAIT4JNI)
          /\ ~(top[t] # Null /\ cpc[top[t]] = "dispatch")

\* The token of t is not with a request.
Elsewhere(t) ==
    \/ txn[t].tag \in {"none", "TAINT_CALL", "CALLBACK", "failed"} /\ ~(top[t] # Null /\ cpc[top[t]] = "dispatch")
    \/ txn[t].tag = "reply" /\ txn[t].status # WAIT4JNI
    \/ txn[t].tag = "serving" /\ mStatus[t] # WAIT4JNI
    \/ mJniReady[t] # 0
    \/ \E c \in Call : npc[c] \notin Rest \cup {"reqPost"}

LEMMA DeliveredIsExecuted ==
    PendingInv /\ Delivered => \A c \in Call : executed[c] = nJni[c]
  BY DEF PendingInv, Delivered, Carried

LEMMA StaysExecuted ==
    ASSUME PendingInv, Delivered, Delivered', UNCHANGED <<executed, nJni>>
    PROVE  PendingInv'
  BY DeliveredIsExecuted DEF PendingInv, Delivered

LEMMA ElsewhereIsDelivered ==
    ASSUME SingleThreaded, NEW t \in Thread
    PROVE  TokenInv /\ Elsewhere(t) => Delivered
<1> SUFFICES ASSUME TokenInv, Elsewhere(t) PROVE Delivered
  OBVIOUS
<1> USE DEF Elsewhere
<1>1. \A s \in Thread : s = t
  BY DEF SingleThreaded
<1>2. \A c \in Call : ThreadOf[c] = t
  BY <1>1
<1>3. txn[t].tag # "none" => ~(cpc[top[t]] = "dispatch")
  BY DEF TokenInv, TransactionInv, Waiting
<1>4. CASE txn[t].tag # "serving"
  <2>1. Semaphores(t, 0, 0) /\ Resting(t) /\ \A b \in Binder : bpc[b] # "idle" => bThread[b] # t
    BY <1>4, AtRest
  <2>2. ~Posted(t) /\ \A c \in Call : npc[c] \in Rest
    BY <1>2, <2>1 DEF Posted, Semaphores, Resting
  <2>3. mJniReady[t] = 0 /\ ~(txn[t].tag = "reply" /\ txn[t].status = WAIT4JNI) /\ ~(top[t] # Null /\ cpc[top[t]] = "dispatch")
    BY <1>3, <1>4, <2>1, <2>2 DEF Semaphores
  <2> QED
    BY <1>1, <2>2, <2>3 DEF Delivered, Rest
<1>5. CASE txn[t].tag = "serving"
  <2>1. SUFFICES (\A c \in Call : npc[c] # "reqPost") /\ ~(mStatus[t] = WAIT4JNI /\ Posted(t))
    BY <1>1, <1>3, <1>5 DEF Delivered
  <2>2. CASE mStatus[t] # WAIT4JNI
    BY <1>2, <2>2 DEF TokenInv, NativeInv, Rest
  <2>3. CASE mJniReady[t] # 0
    <3>1. Semaphores(t, 0, 1) /\ Resting(t) /\ HandlersAt(t, "waitReply")
      BY <2>3 DEF TokenInv, SemaphoreInv
    <3> QED
      BY <1>2, <3>1 DEF Semaphores, Resting, HandlersAt, Rest, Posted
  <2>4. ASSUME NEW c \in Call, npc[c] \notin Rest \cup {"reqPost"}
        PROVE  (\A d \in Call : npc[d] # "reqPost") /\ ~(mStatus[t] = WAIT4JNI /\ Posted(t))
    <3>1. /\ Semaphores(t, 0, 0) /\ HandlersAt(t, "waitReply")
          /\ \A d \in Call : d # c => npc[d] \in Rest
      BY <1>2, <2>4 DEF TokenInv, NativeInv
    <3> QED
      BY <2>4, <3>1 DEF Semaphores, HandlersAt, Rest, Posted
  <2> QED
    BY <1>5, <2>2, <2>3, <2>4
<1> QED
  BY <1>4, <1>5

\* ... in the next state too.
LEMMA ElsewhereIsDeliveredNext ==
    ASSUME SingleThreaded, NEW t \in Thread
    PROVE  TokenInv' /\ Elsewhere(t)' => Delivered'
<1>1. TokenInv /\ Elsewhere(t) => Delivered
  BY ElsewhereIsDelivered
<1> QED
  BY <1>1, PTL

LEMMA NativePending ==
    ASSUME SingleThreaded, TokenInv, TokenInv', PendingInv, NEW c \in Call, NativeThread(c), UNCHANGED clientVars
    PROVE  PendingInv'
<1>1. PICK t \in Thread : t = ThreadOf[c] /\ (\A s \in Thread : s = t) /\ (\A d \in Call : ThreadOf[d] = t)
  BY DEF SingleThreaded
<1>2. UNCHANGED <<top, cpc, executed>>
  BY ClientUnchanged
<1>3. Native(c) /\ UNCHANGED <<txn, bpc, bThread>>
  BY DEF NativeThread, binderVars
<1>4. /\ npc \in [Call -> NativePC] /\ mStatus \in [Thread -> Status] /\ jniCall \in [Thread -> JniCall]
      /\ nJni \in [Call -> Nat] /\ executed \in [Call -> Nat] /\ mReplyReady \in [Thread -> Nat]
  BY DEF TokenInv, TypeOK, ServerTypeOK, ManagerTypeOK, ClientTypeOK
<1>5. ASSUME npc[c] \notin Rest \cup {"reqPost"} PROVE Delivered
  <2>1. Elsewhere(t)
    BY <1>5 DEF Elsewhere
  <2> QED
    BY <2>1, ElsewhereIsDelivered
<1>6. ASSUME npc'[c] \notin Rest \cup {"reqPost"} PROVE Delivered'
  <2>1. Elsewhere(t)'
    BY <1>6 DEF Elsewhere
  <2> QED
    BY <2>1, ElsewhereIsDeliveredNext
<1>7. CASE RunNative(c) \/ ReadJniResult(c) \/ InvokeReturns(c) \/ SignalResult(c)
  <2>1. npc[c] \notin Rest \cup {"reqPost"} /\ npc'[c] \notin Rest \cup {"reqPost"} /\ UNCHANGED nJni
    BY <1>4, <1>7 DEF RunNative, ReadJniResult, InvokeReturns, SignalResult, Rest
  <2> QED
    BY <1>2, <1>5, <1>6, <2>1, StaysExecuted
<1>8. ASSUME NEW f \in Function, ReqJniCall(c, f) PROVE PendingInv'
  <2>1. /\ npc[c] = "running" /\ nJni' = [nJni EXCEPT ![c] = @ + 1] /\ npc' = [npc EXCEPT ![c] = "reqPost"]
        /\ jniCall' = [jniCall EXCEPT ![t] = [function |-> f, param_data |-> Args(c, nJni'[c])]] /\ UNCHANGED mReplyReady
    BY <1>1, <1>8 DEF ReqJniCall
  <2>2. Delivered /\ \A d \in Call : executed[d] = nJni[d]
    BY <1>5, <2>1, DeliveredIsExecuted DEF Rest
  <2>3. /\ npc'[c] = "reqPost" /\ nJni'[c] = nJni[c] + 1 /\ jniCall'[t].param_data = Args(c, nJni'[c])
        /\ \A d \in Call : d # c => npc'[d] = npc[d] /\ nJni'[d] = nJni[d]
    BY <1>4, <2>1
  <2>4. ~Posted(t)' /\ txn'[t].tag = "serving" /\ ~(top'[t] # Null /\ cpc'[top'[t]] = "dispatch")
    <3>1. txn[t].tag = "serving" /\ Semaphores(t, 0, 0) /\ HandlersAt(t, "waitReply")
      BY <1>1, <2>1 DEF TokenInv, NativeInv, Rest
    <3>2. ~Posted(t)'
      BY <1>3, <2>1, <3>1 DEF Posted, Semaphores, HandlersAt
    <3>3. cpc[top[t]] # "dispatch"
      BY <3>1 DEF TokenInv, TransactionInv, Waiting
    <3> QED
      BY <1>2, <1>3, <3>1, <3>2, <3>3
  <2>5. executed'[c] + 1 = nJni'[c] /\ executed'[c] # nJni'[c] /\ Carried(c)' /\ \A d \in Call : d # c => executed'[d] = nJni'[d]
    BY <1>2, <1>4, <2>2, <2>3 DEF Carried
  <2>6. \A d \in Call : npc'[d] = "reqPost" => d = c
    BY <2>2, <2>3 DEF Delivered
  <2> QED
    BY <1>1, <2>3, <2>4, <2>5, <2>6 DEF PendingInv
<1>9. CASE PostRequest(c)
  <2>1. /\ npc[c] = "reqPost" /\ npc' = [npc EXCEPT ![c] = "reqWait"] /\ mReplyReady' = [mReplyReady EXCEPT ![t] = @ + 1]
        /\ UNCHANGED <<nJni, jniCall, mStatus>>
    BY <1>1, <1>9 DEF PostRequest, SemPost
  <2>2. executed[c] + 1 = nJni[c] /\ executed[c] # nJni[c] /\ jniCall[t].param_data = Args(c, nJni[c]) /\ \A d \in Call : d # c => executed[d] = nJni[d]
    BY <1>1, <2>1 DEF PendingInv
  <2>3. txn[t].tag = "serving" /\ mStatus[t] = WAIT4JNI /\ \A d \in Call : d # c => npc[d] # "reqPost"
    BY <1>1, <2>1 DEF TokenInv, NativeInv, Rest
  <2>4. Posted(t)'
    BY <1>4, <2>1 DEF Posted
  <2>5. ~(top'[t] # Null /\ cpc'[top'[t]] = "dispatch")
    BY <1>2, <2>3 DEF TokenInv, TransactionInv, Waiting
  <2>6. npc'[c] = "reqWait" /\ \A d \in Call : npc'[d] # "reqPost"
    BY <1>4, <2>1, <2>3
  <2>7. Carried(c)'
    BY <1>1, <2>1, <2>3, <2>4, <2>6 DEF Carried
  <2>8. IsPending(jniCall[t].param_data)'
    BY <1>2, <2>1, <2>2, <2>6 DEF IsPending
  <2> QED
    BY <1>1, <1>2, <1>3, <2>1, <2>2, <2>3, <2>5, <2>6, <2>7, <2>8 DEF PendingInv
<1>10. CASE ResumeAfterJni(c)
  <2>1. mJniReady[t] # 0 /\ npc'[c] = "readResult" /\ UNCHANGED nJni
    BY <1>1, <1>4, <1>10 DEF ResumeAfterJni, SemWait
  <2>2. Elsewhere(t)
    BY <2>1 DEF Elsewhere
  <2> QED
    BY <1>2, <1>6, <2>1, <2>2, StaysExecuted, ElsewhereIsDelivered DEF Rest
<1>11. CASE PostResult(c)
  <2>1. npc[c] = "resPost" /\ UNCHANGED <<nJni, mStatus>>
    BY <1>11 DEF PostResult
  <2>2. mStatus[t] = FINISHED /\ txn[t].tag = "serving"
    BY <1>1, <2>1 DEF TokenInv, NativeInv, Rest
  <2>3. Elsewhere(t)'
    BY <1>3, <2>1, <2>2, Statuses DEF Elsewhere
  <2> QED
    BY <1>2, <1>5, <2>1, <2>3, StaysExecuted, ElsewhereIsDeliveredNext DEF Rest
<1> QED
  BY <1>3, <1>7, <1>8, <1>9, <1>10, <1>11 DEF Native

LEMMA BinderPending ==
    ASSUME SingleThreaded, TokenInv, TokenInv', PendingInv, NEW b \in Binder, BinderThread(b), UNCHANGED clientVars
    PROVE  PendingInv'
<1>1. UNCHANGED <<top, cpc, executed>>
  BY ClientUnchanged
<1>2. /\ npc \in [Call -> NativePC] /\ jniCall \in [Thread -> JniCall] /\ mJniReady \in [Thread -> Nat] /\ txn \in [Thread -> Parcel]
      /\ bpc \in [Binder -> {"idle", "waitReply", "reply"}]
  BY DEF TokenInv, TypeOK, ServerTypeOK, ManagerTypeOK
<1>3. ASSUME NEW t \in Thread, txn[t].tag \in {"TAINT_CALL", "CALLBACK"} PROVE Elsewhere(t) /\ top[t] \in Call /\ cpc[top[t]] # "dispatch"
  BY <1>3, WaitingTop DEF Elsewhere
<1>4. ASSUME NEW t \in Thread, OnTaintCall(b, t) PROVE PendingInv'
  <2>1. PICK c \in Call : c = txn[t].call
    BY <1>4, WaitingTop DEF OnTaintCall, Enter, TokenInv, TransactionInv
  <2>2. npc'[c] \notin Rest \cup {"reqPost"} /\ UNCHANGED nJni /\ txn[t].tag = "TAINT_CALL"
    BY <1>2, <1>4, <2>1 DEF OnTaintCall, Enter, StartExec, Rest
  <2>3. Elsewhere(t)'
    BY <2>2 DEF Elsewhere
  <2> QED
    BY <1>1, <1>3, <2>2, <2>3, StaysExecuted, ElsewhereIsDelivered, ElsewhereIsDeliveredNext
<1>5. ASSUME NEW t \in Thread, OnCallback(b, t) PROVE PendingInv'
  <2>1. txn[t].tag = "CALLBACK" /\ UNCHANGED nJni /\ mJniReady'[t] = mJniReady[t] + 1
    BY <1>2, <1>5 DEF OnCallback, Enter, SetJniResult, SemPost, nativeVars
  <2>2. Elsewhere(t)'
    BY <1>2, <2>1 DEF Elsewhere
  <2> QED
    BY <1>1, <1>3, <2>1, <2>2, StaysExecuted, ElsewhereIsDelivered, ElsewhereIsDeliveredNext
<1>6. ASSUME NEW t \in Thread, OnCallbackNotWaiting(b, t) \/ OnCallbackMismatch(b, t) PROVE PendingInv'
  <2>1. txn[t].tag = "CALLBACK" /\ UNCHANGED nJni /\ txn'[t] \in {StatusReply(ERROR), Failed}
    BY <1>2, <1>6 DEF OnCallbackNotWaiting, OnCallbackMismatch, Enter, nativeVars
  <2>2. Elsewhere(t)'
    BY <1>1, <1>3, <2>1, ParcelFields, Statuses DEF Elsewhere
  <2> QED
    BY <1>1, <1>3, <2>1, <2>2, StaysExecuted, ElsewhereIsDelivered, ElsewhereIsDeliveredNext
<1>7. CASE ReplyIsReady(b)
  <2>1. PICK t \in Thread : t = bThread[b] /\ (\A s \in Thread : s = t) /\ (\A d \in Call : ThreadOf[d] = t)
    BY <1>7 DEF ReplyIsReady, TokenInv, HandlerInv, SingleThreaded
  <2>2. Posted(t) /\ Posted(t)' /\ UNCHANGED <<npc, nJni, mStatus, jniCall, txn>>
    BY <1>2, <1>7, <2>1 DEF Posted, ReplyIsReady, WaitReplyReady, SemWait, nativeVars
  <2>3. \A c \in Call : Carried(c) => Carried(c)'
    BY <1>1, <2>1, <2>2 DEF Carried
  <2>4. \A d : IsPending(d) => \E c \in Call : d = Args(c, nJni'[c]) /\ npc'[c] = "reqWait" /\ executed'[c] + 1 = nJni'[c]
    BY <1>1, <2>2 DEF IsPending
  <2>5. /\ mStatus'[t] = WAIT4JNI => IsPending(jniCall[t].param_data)'
        /\ txn'[t].tag = "reply" /\ txn'[t].status = WAIT4JNI => IsPending(txn[t].data)'
        /\ top'[t] # Null /\ cpc'[top'[t]] = "dispatch" => IsPending(replydata)'
    BY <1>1, <2>2, <2>4, ClientUnchanged DEF PendingInv, IsPending
  <2> QED
    BY <1>1, <2>1, <2>2, <2>3, <2>5 DEF PendingInv
<1>8. CASE ReplyTaintCall(b) \/ ReplyCallback(b)
  <2>1. PICK t \in Thread : t = bThread[b] /\ (\A s \in Thread : s = t) /\ (\A d \in Call : ThreadOf[d] = t)
    BY <1>8, Reply DEF SingleThreaded
  <2>2. /\ txn[t].tag = "serving" /\ bpc[b] = "reply" /\ Resting(t) /\ mStatus[t] \in {WAIT4JNI, FINISHED} /\ UNCHANGED <<mStatus, npc, bThread>>
        /\ Semaphores(t, 0, 0) /\ UNCHANGED mReplyReady /\ bpc' = [bpc EXCEPT ![b] = "idle"]
    BY <1>8, <2>1, Reply
  <2>3. UNCHANGED nJni
    BY <1>8 DEF ReplyTaintCall, ReplyCallback, Leave, nativeVars
  <2>4. CASE mStatus[t] = FINISHED
    <3>1. Elsewhere(t)
      BY <2>2, <2>4, Statuses DEF Elsewhere
    <3>2. txn'[t].tag = "reply" /\ txn'[t].status = FINISHED
      BY <1>2, <1>8, <2>1, <2>4, Reply, ParcelFields
    <3>3. Elsewhere(t)'
      BY <3>2, Statuses DEF Elsewhere
    <3> QED
      BY <1>1, <2>3, <3>1, <3>3, StaysExecuted, ElsewhereIsDelivered, ElsewhereIsDeliveredNext
  <2>5. CASE mStatus[t] = WAIT4JNI
    <3>1. Posted(t) /\ IsPending(jniCall[t].param_data)
      BY <2>1, <2>2, <2>5 DEF Posted, PendingInv
    <3>2. PICK c \in Call : jniCall[t].param_data = Args(c, nJni[c]) /\ npc[c] = "reqWait" /\ executed[c] + 1 = nJni[c]
      BY <3>1 DEF IsPending
    <3>3. txn'[t].tag = "reply" /\ txn'[t].status = WAIT4JNI /\ txn'[t].data = jniCall[t].param_data
      BY <1>2, <1>8, <2>1, <2>5, Reply, ParcelFields
    <3>4. ~Posted(t)' /\ ~(top'[t] # Null /\ cpc'[top'[t]] = "dispatch") /\ \A d \in Call : npc'[d] # "reqPost"
      <4>1. ~Posted(t)'
        BY <1>2, <2>1, <2>2 DEF Posted, Semaphores, TokenInv, HandlerInv
      <4>2. cpc[top[t]] # "dispatch"
        BY <2>2 DEF TokenInv, TransactionInv, Waiting
      <4> QED
        BY <1>1, <2>1, <2>2, <4>1, <4>2 DEF Resting, Rest
    <3>5. IsPending(txn[t].data)' /\ Carried(c)'
      BY <1>1, <2>1, <2>2, <2>3, <3>2, <3>3 DEF IsPending, Carried
    <3>6. executed[c] # nJni[c] /\ \A d \in Call : d # c => executed[d] = nJni[d]
      BY <3>2, <1>1 DEF PendingInv, TokenInv, TypeOK, ClientTypeOK
    <3> QED
      BY <1>1, <2>1, <2>3, <3>2, <3>4, <3>5, <3>6 DEF PendingInv
  <2> QED
    BY <2>2, <2>4, <2>5
<1> QED
  BY <1>4, <1>5, <1>6, <1>7, <1>8 DEF BinderThread


LEMMA ClientPending ==
    ASSUME SingleThreaded, TokenInv, TokenInv', PendingInv, NEW c \in Call, Client(c)
    PROVE  PendingInv'
<1>1. PICK t \in Thread : t = ThreadOf[c] /\ (\A s \in Thread : s = t) /\ (\A d \in Call : ThreadOf[d] = t)
  BY DEF SingleThreaded
<1>2. /\ txn \in [Thread -> Parcel] /\ cpc \in [Call -> ClientPC] /\ top \in [Thread -> Call \cup {Null}]
      /\ executed \in [Call -> Nat] /\ nJni \in [Call -> Nat]
  BY DEF TokenInv, TypeOK, ServerTypeOK, ManagerTypeOK, ClientTypeOK
<1>3. ASSUME txn[t].tag = "none", ~(top[t] # Null /\ cpc[top[t]] = "dispatch") PROVE Elsewhere(t)
  BY <1>3 DEF Elsewhere
<1>4. ASSUME txn'[t].tag \in {"none", "TAINT_CALL", "CALLBACK"}, ~(top'[t] # Null /\ cpc'[top'[t]] = "dispatch") PROVE Elsewhere(t)'
  BY <1>4 DEF Elsewhere
<1>5. ASSUME Elsewhere(t), Elsewhere(t)', UNCHANGED <<executed, nJni>> PROVE PendingInv'
  BY <1>5, StaysExecuted, ElsewhereIsDelivered, ElsewhereIsDeliveredNext
<1>6. ASSUME NEW p, At(c, p), p \notin {"awaitCall", "awaitCallback"} PROVE txn[t].tag = "none"
  BY <1>1, <1>6 DEF At, TokenInv, TransactionInv, Waiting
<1>7. CASE TaintCall(c)
  <2>1. /\ (top[t] # Null => cpc[top[t]] = "inJava") /\ top'[t] = c /\ cpc'[c] = "transact" /\ UNCHANGED <<txn, nJni, executed>>
    BY <1>1, <1>2, <1>7 DEF TaintCall, Goto, serverVars, nativeVars
  <2>2. txn[t].tag = "none"
    BY <2>1 DEF TokenInv, TransactionInv, Waiting
  <2> QED
    BY <1>3, <1>4, <1>5, <2>1, <2>2
<1>8. CASE TransactTaintCall(c)
  <2>1. /\ At(c, "transact") /\ top'[t] = c /\ cpc'[c] = "awaitCall" /\ txn'[t] = TaintCallTxn(c) /\ UNCHANGED <<nJni, executed>>
    BY <1>1, <1>2, <1>8 DEF TransactTaintCall, At, Goto, nativeVars
  <2> QED
    BY <1>1, <1>3, <1>4, <1>5, <1>6, <2>1, ParcelFields DEF At
<1>9. CASE ReturnResult(c) \/ ReturnUnexpected(c)
  <2>0. PICK pc \in {"returned", "aborted"} : \E v : EndTransaction(c) /\ Return(c, pc, v) /\ ExecStatus(c) \ {WAIT4JNI} # {}
    BY <1>9, Statuses DEF ReturnResult, ReturnUnexpected
  <2>1. PICK v : EndTransaction(c) /\ Return(c, pc, v) /\ ExecStatus(c) \ {WAIT4JNI} # {}
    BY <2>0
  <2>2. /\ top[t] = c /\ txn[t].tag \in {"reply", "failed"} /\ txn'[t].tag = "none" /\ UNCHANGED <<nJni, executed>>
        /\ (txn[t].tag = "reply" => ExecStatus(c) = {txn[t].status}) /\ cpc[c] # "dispatch"
    BY <1>1, <2>1, Replied DEF Return, nativeVars
  <2>3. Elsewhere(t)
    BY <2>1, <2>2 DEF Elsewhere
  <2>4. ~(top'[t] # Null /\ cpc'[top'[t]] = "dispatch")
    <3>1. top'[t] = outer[c] /\ cpc' = [cpc EXCEPT ![c] = pc]
      BY <1>1, <1>2, <2>1 DEF Return, Goto
    <3>2. outer[c] # Null => outer[c] \in Call /\ outer[c] # c /\ cpc[outer[c]] = "inJava"
      <4>1. Open(c) /\ outer[c] \in Call \cup {Null}
        BY <1>1, <2>2 DEF TokenInv, NestingInv, TypeOK, ClientTypeOK
      <4> QED
        BY <1>1, <2>2, <4>1 DEF TokenInv, NestingInv
    <3> QED
      BY <1>2, <3>1, <3>2
  <2> QED
    BY <1>4, <1>5, <2>2, <2>3, <2>4
<1>10. CASE ReadRequest(c)
  <2>1. EndTransaction(c) /\ WAIT4JNI \in ExecStatus(c) /\ cpc'[c] = "dispatch" /\ top'[t] = top[t] /\ replydata' = txn[t].data /\ UNCHANGED executed
    BY <1>1, <1>2, <1>10 DEF ReadRequest, Goto
  <2>2. /\ top[t] = c /\ txn[t].tag = "reply" /\ txn[t].status = WAIT4JNI /\ txn'[t].tag = "none"
        /\ UNCHANGED <<managerVars, stackResult, nativeVars, binderVars>>
    BY <1>1, <2>1, Replied, Statuses
  <2>3. UNCHANGED <<npc, nJni, mReplyReady, bpc, bThread, mStatus>>
    BY <2>2, ServerUnchanged
  <2>4. PICK d \in Call : txn[t].data = Args(d, nJni[d]) /\ npc[d] = "reqWait" /\ executed[d] + 1 = nJni[d]
    BY <2>2 DEF PendingInv, IsPending
  <2>5. executed[d] # nJni[d] /\ \A e \in Call : e # d => executed[e] = nJni[e]
    BY <1>2, <2>4 DEF PendingInv
  <2>6. IsPending(replydata)' /\ Carried(d)'
    BY <1>1, <2>1, <2>2, <2>3, <2>4 DEF IsPending, Carried
  <2>7. ~Posted(t)' /\ \A e \in Call : npc'[e] # "reqPost"
    <3>1. Semaphores(t, 0, 0) /\ Resting(t) /\ \A b \in Binder : bpc[b] # "idle" => bThread[b] # t
      BY <2>2, AtRest
    <3> QED
      BY <1>1, <2>3, <3>1 DEF Posted, Semaphores, Resting, Rest
  <2> QED
    BY <1>1, <2>1, <2>2, <2>3, <2>4, <2>5, <2>6, <2>7 DEF PendingInv
<1>11. CASE CallJni(c)
  <2>1. At(c, "dispatch") /\ cpc'[c] = "inJava" /\ UNCHANGED <<serverVars, top>>
    BY <1>2, <1>11 DEF CallJni, Goto
  <2>2. UNCHANGED <<txn, npc, nJni>>
    BY <2>1 DEF serverVars, nativeVars
  <2>3. PICK d \in Call : replydata = Args(d, nJni[d]) /\ npc[d] = "reqWait" /\ executed[d] + 1 = nJni[d]
    BY <1>1, <2>1 DEF PendingInv, IsPending, At
  <2>4. executed[d] # nJni[d] /\ \A e \in Call : e # d => executed[e] = nJni[e]
    BY <1>2, <2>3 DEF PendingInv
  <2>5. executed' = [executed EXCEPT ![d] = @ + 1]
    <3>1. replydata # Null /\ replydata[2] = d
      BY <1>2, <2>3, DataTypes
    <3> QED
      BY <1>11, <3>1 DEF CallJni
  <2>6. \A e \in Call : executed'[e] = nJni'[e]
    BY <1>2, <2>2, <2>3, <2>4, <2>5
  <2>7. Elsewhere(t)'
    BY <1>1, <1>4, <1>6, <2>1, <2>2 DEF At
  <2> QED
    BY <2>6, <2>7, ElsewhereIsDeliveredNext DEF PendingInv, Delivered
<1>12. CASE ReturnFromJava(c) \/ WriteCallbackdata(c) \/ FreeReplydata(c) \/ StoreCbdata(c)
  <2>1. PICK p \in {"inJava", "result", "freeReply", "store"}, q \in {"result", "freeReply", "store", "callback"} :
            At(c, p) /\ Goto(c, q) /\ UNCHANGED <<serverVars, top, executed>>
    BY <1>12 DEF ReturnFromJava, WriteCallbackdata, FreeReplydata, StoreCbdata
  <2>2. UNCHANGED <<txn, nJni>> /\ cpc'[c] = q /\ top[t] = c /\ cpc[c] = p
    BY <1>1, <1>2, <2>1 DEF serverVars, nativeVars, Goto, At
  <2> QED
    BY <1>3, <1>4, <1>5, <1>6, <2>1, <2>2
<1>13. CASE DoCallbackTransaction(c)
  <2>1. /\ At(c, "callback") /\ cpc'[c] = "awaitCallback" /\ UNCHANGED <<top, executed, nJni>> /\ txn'[t].tag = "CALLBACK"
    BY <1>1, <1>2, <1>13, ParcelFields DEF DoCallbackTransaction, Goto, nativeVars
  <2> QED
    BY <1>1, <1>3, <1>4, <1>5, <1>6, <2>1 DEF At
<1> QED
  BY <1>7, <1>8, <1>9, <1>10, <1>11, <1>12, <1>13 DEF Client

LEMMA InitPending == Init => PendingInv
<1> SUFFICES ASSUME Init PROVE PendingInv
  OBVIOUS
<1>1. /\ npc = [c \in Call |-> "none"] /\ nJni = [c \in Call |-> 0] /\ executed = [c \in Call |-> 0]
      /\ txn = [t \in Thread |-> NoTxn] /\ top = [t \in Thread |-> Null] /\ mStatus = [t \in Thread |-> INIT]
  BY DEF Init, ServerInit, ManagerInit
<1> QED
  BY <1>1, Statuses, ParcelFields DEF PendingInv

LEMMA NextPending ==
    ASSUME SingleThreaded
    PROVE  TokenInv /\ PendingInv /\ [Next]_vars => PendingInv'
<1> SUFFICES ASSUME TokenInv, PendingInv, [Next]_vars PROVE PendingInv'
  OBVIOUS
<1>1. TokenInv'
  BY NextToken
<1>2. CASE UNCHANGED vars
  <2>1. UNCHANGED txn /\ UNCHANGED <<managerVars, stackResult, nativeVars, binderVars>> /\ UNCHANGED clientVars
    BY <1>2 DEF vars, serverVars
  <2>2. UNCHANGED <<mStatus, mReplyReady, jniCall, npc, nJni, bpc, bThread>>
    BY <2>1, ServerUnchanged
  <2> QED
    BY <2>1, <2>2, ClientUnchanged DEF PendingInv, Posted, IsPending, Carried
<1>3. CASE Next
  <2>1. CASE Service
    BY <1>1, <2>1, BinderPending, NativePending DEF Service
  <2> QED
    BY <1>1, <1>2, <1>3, <2>1, ClientPending DEF Next, Terminating
<1> QED
  BY <1>2, <1>3

\* One app thread: every JNI request is executed in Java exactly once,
\* although the Java code of a request may make further native calls, whose
\* requests go through the same members and the same manager.
THEOREM ExecutedOnceAlways ==
    ASSUME SingleThreaded
    PROVE  Spec => []ExecutedOnce
<1>1. TokenInv /\ PendingInv => ExecutedOnce
  <2> SUFFICES ASSUME TokenInv, PendingInv, NEW c \in Call
               PROVE  /\ executed[c] <= nJni[c]
                      /\ npc[c] \in {"running", "done"} => executed[c] = nJni[c]
    BY DEF ExecutedOnce
  <2>1. executed[c] \in Nat /\ nJni[c] \in Nat
    BY DEF TokenInv, TypeOK, ServerTypeOK, ManagerTypeOK, ClientTypeOK
  <2>2. executed[c] # nJni[c] => executed[c] + 1 = nJni[c] /\ npc[c] \in {"reqPost", "reqWait"}
    BY DEF PendingInv, Carried
  <2> QED
    BY <2>1, <2>2
<1>2. TokenInv /\ PendingInv /\ [Next]_vars => PendingInv'
  BY NextPending, Zenon
<1> QED
  BY <1>1, <1>2, InitPending, TokenAlways, PTL DEF Spec


-----------------------------------------------------------------------------
(* Calls that do not nest: FINISHED means done.                            *)

\* Nothing happens to the calls of the app and to their native threads.
LEMMA FlatKept ==
    ASSUME FlatInv, UNCHANGED <<top, outer, npc, mStatus>>,
           \A d \in Call : /\ Open(d)' <=> Open(d)
                           /\ cpc'[d] = "returned" => cpc[d] = "returned"
                           /\ cpc[d] = "aborted" => cpc'[d] = "aborted",
           \A s \in Thread : /\ Posted(s)' => Posted(s)
                             /\ Healthy(s) /\ txn'[s].tag = "reply" /\ txn'[s].status = FINISHED => npc[top[s]] = "done"
    PROVE  FlatInv'
<1>1. \A s \in Thread : Healthy(s)' => Healthy(s)
  BY DEF Healthy
<1>2. \A d \in Call : Open(d)' => top'[ThreadOf[d]] = d /\ outer'[d] = Null
  BY DEF FlatInv
<1>3. \A d \in Call : Healthy(ThreadOf[d])' =>
          /\ npc'[d] \notin {"none", "done"} => top'[ThreadOf[d]] = d
          /\ cpc'[d] = "returned" => npc'[d] = "done"
  BY <1>1 DEF FlatInv
<1>4. \A s \in Thread : Healthy(s)' =>
          /\ mStatus'[s] = FINISHED /\ Posted(s)' => npc'[top'[s]] = "done"
          /\ txn'[s].tag = "reply" /\ txn'[s].status = FINISHED => npc'[top'[s]] = "done"
  BY <1>1 DEF FlatInv
<1> QED
  BY <1>2, <1>3, <1>4 DEF FlatInv

LEMMA NativeFlat ==
    ASSUME TokenInv, TokenInv', FlatInv, NEW c \in Call, NativeThread(c), UNCHANGED clientVars
    PROVE  FlatInv'
<1>1. PICK t \in Thread : t = ThreadOf[c]
  OBVIOUS
<1>2. UNCHANGED <<top, outer, cpc>>
  BY ClientUnchanged
<1>3. Native(c) /\ UNCHANGED <<txn, bpc, bThread>>
  BY DEF NativeThread, binderVars
<1>4. /\ npc \in [Call -> NativePC] /\ mStatus \in [Thread -> Status] /\ mReplyReady \in [Thread -> Nat] /\ top \in [Thread -> Call \cup {Null}]
  BY DEF TokenInv, TypeOK, ServerTypeOK, ManagerTypeOK, ClientTypeOK
<1>5. npc[c] \notin {"none", "done"} /\ npc'[c] # "none" /\ \A d \in Call : d # c => npc'[d] = npc[d]
  BY <1>3, <1>4 DEF Native, RunNative, ReqJniCall, PostRequest, ResumeAfterJni, ReadJniResult, InvokeReturns, SignalResult, PostResult
<1>6. \A s \in Thread : s # t => mStatus'[s] = mStatus[s] /\ mReplyReady'[s] = mReplyReady[s]
  BY <1>1, <1>3, <1>4 DEF Native, RunNative, ReqJniCall, PostRequest, ResumeAfterJni, ReadJniResult, InvokeReturns, SignalResult,
     PostResult, managerVars, SemPost
<1>7. \A s \in Thread : Healthy(s)' <=> Healthy(s)
  BY <1>2 DEF Healthy
<1>8. Healthy(t) => top[t] = c /\ cpc[c] # "returned"
  BY <1>1, <1>5 DEF FlatInv, TokenInv, NestingInv, Open
<1>9. \A d \in Call : Open(d)' => top'[ThreadOf[d]] = d /\ outer'[d] = Null
  BY <1>2 DEF FlatInv, Open
<1>10. ASSUME NEW d \in Call, Healthy(ThreadOf[d])'
       PROVE  /\ npc'[d] \notin {"none", "done"} => top'[ThreadOf[d]] = d
              /\ cpc'[d] = "returned" => npc'[d] = "done"
  BY <1>1, <1>2, <1>5, <1>7, <1>8, <1>10 DEF FlatInv
<1>11. ASSUME NEW s \in Thread, Healthy(s)'
       PROVE  /\ mStatus'[s] = FINISHED /\ Posted(s)' => npc'[top'[s]] = "done"
              /\ txn'[s].tag = "reply" /\ txn'[s].status = FINISHED => npc'[top'[s]] = "done"
  <2>1. CASE s # t
    <3>1. Posted(s)' <=> Posted(s)
      BY <1>3, <1>6, <2>1 DEF Posted
    <3>2. mStatus[s] = FINISHED /\ Posted(s) => npc[top[s]] = "done"
      BY <1>7, <1>11 DEF FlatInv
    <3>3. txn[s].tag = "reply" /\ txn[s].status = FINISHED => npc[top[s]] = "done"
      BY <1>7, <1>11 DEF FlatInv
    <3>4. Posted(s) \/ txn[s].tag # "none" => top[s] # c /\ top[s] \in Call
      <4>1. Posted(s) => txn[s].tag = "serving"
        BY DEF Posted, TokenInv, SemaphoreInv, HandlerInv
      <4> QED
        BY <1>1, <2>1, <4>1, WaitingTop
    <3> QED
      BY <1>2, <1>3, <1>5, <1>6, <2>1, <3>1, <3>2, <3>3, <3>4
  <2>2. CASE s = t
    <3>1. top[t] = c
      BY <1>7, <1>8, <1>11, <2>2
    <3>2. CASE PostResult(c)
      BY <1>2, <1>4, <2>2, <3>1, <3>2 DEF PostResult
    <3>3. CASE PostRequest(c)
      <4>1. mStatus'[t] = WAIT4JNI /\ txn[t].tag = "serving"
        BY <1>1, <3>3 DEF PostRequest, TokenInv, NativeInv, Rest
      <4> QED
        BY <1>3, <2>2, <4>1, Statuses
    <3>4. CASE ResumeAfterJni(c)
      <4>1. mJniReady[t] # 0 /\ UNCHANGED mReplyReady
        BY <1>1, <3>4 DEF ResumeAfterJni, SemWait
      <4>2. txn[t].tag = "serving" /\ Semaphores(t, 0, 1) /\ HandlersAt(t, "waitReply")
        BY <4>1 DEF TokenInv, SemaphoreInv
      <4> QED
        BY <1>3, <2>2, <4>1, <4>2 DEF Posted, HandlersAt, Semaphores
    <3>5. CASE RunNative(c) \/ ReadJniResult(c) \/ InvokeReturns(c) \/ SignalResult(c) \/ \E f \in Function : ReqJniCall(c, f)
      <4>1. npc[c] \notin Rest /\ UNCHANGED mReplyReady
        BY <3>5 DEF RunNative, ReadJniResult, InvokeReturns, SignalResult, ReqJniCall, managerVars, Rest
      <4>2. txn[t].tag = "serving" /\ Semaphores(t, 0, 0) /\ HandlersAt(t, "waitReply")
        BY <1>1, <4>1 DEF TokenInv, NativeInv
      <4> QED
        BY <1>3, <2>2, <4>1, <4>2 DEF Posted, HandlersAt, Semaphores
    <3> QED
      BY <1>3, <3>2, <3>3, <3>4, <3>5 DEF Native
  <2> QED
    BY <2>1, <2>2
<1> QED
  BY <1>9, <1>10, <1>11 DEF FlatInv


LEMMA BinderFlat ==
    ASSUME TokenInv, TokenInv', FlatInv, NEW b \in Binder, BinderThread(b), UNCHANGED clientVars
    PROVE  FlatInv'
<1>1. UNCHANGED <<top, outer, cpc>>
  BY ClientUnchanged
<1>2. /\ npc \in [Call -> NativePC] /\ txn \in [Thread -> Parcel] /\ bpc \in [Binder -> {"idle", "waitReply", "reply"}]
      /\ bThread \in [Binder -> Thread \cup {Null}] /\ mReplyReady \in [Thread -> Nat] /\ mStatus \in [Thread -> Status]
  BY DEF TokenInv, TypeOK, ServerTypeOK, ManagerTypeOK
<1>3. \A s \in Thread : Healthy(s)' <=> Healthy(s)
  BY <1>1 DEF Healthy
<1>4. ASSUME UNCHANGED <<npc, mStatus>>, \A s \in Thread : Posted(s)' => Posted(s),
             \A s \in Thread : Healthy(s) /\ txn'[s].tag = "reply" /\ txn'[s].status = FINISHED => npc[top[s]] = "done"
      PROVE  FlatInv'
  <2>1. \A d \in Call : Open(d)' <=> Open(d)
    BY <1>1 DEF Open
  <2> QED
    BY <1>1, <1>4, <2>1, FlatKept
<1>5. ASSUME NEW t \in Thread, OnTaintCall(b, t) PROVE FlatInv'
  <2>1. PICK c \in Call : c = txn[t].call /\ c = top[t] /\ ThreadOf[c] = t /\ npc[c] = "none" /\ txn[t].tag = "TAINT_CALL"
    BY <1>5, WaitingTop DEF OnTaintCall, Enter, TokenInv, TransactionInv
  <2>2. cpc[c] \in {"awaitCall", "awaitCallback"}
    BY <2>1, WaitingTop
  <2>3. \A d \in Call : d # c => npc'[d] = npc[d]
    BY <1>2, <1>5, <2>1 DEF OnTaintCall, StartExec
  <2>4. /\ UNCHANGED mReplyReady /\ txn'[t].tag = "serving" /\ \A s \in Thread : s # t => txn'[s] = txn[s] /\ mStatus'[s] = mStatus[s]
    BY <1>2, <1>5, <2>1, ParcelFields DEF OnTaintCall, StartExec, Serve
  <2>5. \A s \in Thread : s # t => (Posted(s)' => Posted(s))
    BY <1>2, <1>5 DEF OnTaintCall, StartExec, Serve, Posted
  <2>6. ~Posted(t)'
    <3>1. Semaphores(t, 0, 0) /\ \A h \in Binder : bpc[h] # "idle" => bThread[h] # t
      BY <2>1, AtRest
    <3>2. bpc'[b] = "waitReply" /\ \A h \in Binder : h # b => bpc'[h] = bpc[h] /\ bThread'[h] = bThread[h]
      BY <1>2, <1>5 DEF OnTaintCall, Serve
    <3> QED
      BY <2>4, <3>1, <3>2 DEF Posted, Semaphores
  <2>7. \A d \in Call : Open(d)' => top'[ThreadOf[d]] = d /\ outer'[d] = Null
    BY <1>1 DEF FlatInv, Open
  <2>8. ASSUME NEW d \in Call, Healthy(ThreadOf[d])'
        PROVE  /\ npc'[d] \notin {"none", "done"} => top'[ThreadOf[d]] = d
               /\ cpc'[d] = "returned" => npc'[d] = "done"
    BY <1>1, <1>3, <2>1, <2>2, <2>3, <2>8 DEF FlatInv
  <2>9. ASSUME NEW s \in Thread, Healthy(s)'
        PROVE  /\ mStatus'[s] = FINISHED /\ Posted(s)' => npc'[top'[s]] = "done"
               /\ txn'[s].tag = "reply" /\ txn'[s].status = FINISHED => npc'[top'[s]] = "done"
    <3>1. CASE s = t
      BY <2>4, <2>6, <3>1
    <3>2. CASE s # t
      <4>1. Posted(s) => txn[s].tag = "serving"
        BY DEF Posted, TokenInv, SemaphoreInv, HandlerInv
      <4>2. txn[s].tag # "none" => top[s] # c /\ top[s] \in Call
        BY <2>1, <3>2, WaitingTop
      <4>3. mStatus[s] = FINISHED /\ Posted(s) => npc[top[s]] = "done"
        BY <1>3, <2>9 DEF FlatInv
      <4>4. txn[s].tag = "reply" /\ txn[s].status = FINISHED => npc[top[s]] = "done"
        BY <1>3, <2>9 DEF FlatInv
      <4> QED
        BY <1>1, <2>3, <2>4, <2>5, <3>2, <4>1, <4>2, <4>3, <4>4
    <3> QED
      BY <3>1, <3>2
  <2> QED
    BY <2>7, <2>8, <2>9 DEF FlatInv
<1>6. ASSUME NEW t \in Thread, OnCallback(b, t) PROVE FlatInv'
  <2>1. /\ UNCHANGED <<npc, mStatus, mReplyReady>> /\ txn'[t].tag = "serving" /\ \A s \in Thread : s # t => txn'[s] = txn[s]
    BY <1>2, <1>6, ParcelFields DEF OnCallback, Serve, nativeVars
  <2>2. \A s \in Thread : Posted(s)' => Posted(s)
    BY <1>2, <1>6, <2>1 DEF OnCallback, Serve, Posted
  <2> QED
    BY <1>4, <2>1, <2>2 DEF FlatInv
<1>7. ASSUME NEW t \in Thread, OnCallbackNotWaiting(b, t) \/ OnCallbackMismatch(b, t) PROVE FlatInv'
  <2>1. /\ UNCHANGED <<npc, mStatus, mReplyReady, bpc, bThread>> /\ txn'[t] \in {StatusReply(ERROR), Failed}
        /\ \A s \in Thread : s # t => txn'[s] = txn[s]
    BY <1>2, <1>7 DEF OnCallbackNotWaiting, OnCallbackMismatch, managerVars, nativeVars, binderVars
  <2>2. ~(txn'[t].tag = "reply" /\ txn'[t].status = FINISHED)
    BY <2>1, ParcelFields, Statuses
  <2>3. \A s \in Thread : Posted(s)' => Posted(s)
    BY <2>1 DEF Posted
  <2> QED
    BY <1>4, <2>1, <2>2, <2>3 DEF FlatInv
<1>8. CASE ReplyIsReady(b)
  <2>1. /\ UNCHANGED <<npc, mStatus, txn, bThread>> /\ mReplyReady[bThread[b]] # 0 /\ bpc' = [bpc EXCEPT ![b] = "reply"]
        /\ bThread[b] \in Thread /\ \A s \in Thread : s # bThread[b] => mReplyReady'[s] = mReplyReady[s]
    BY <1>2, <1>8 DEF ReplyIsReady, WaitReplyReady, SemWait, nativeVars, TokenInv, HandlerInv
  <2>2. \A s \in Thread : Posted(s)' => Posted(s)
    BY <1>2, <2>1 DEF Posted
  <2> QED
    BY <1>4, <2>1, <2>2 DEF FlatInv
<1>9. CASE ReplyTaintCall(b) \/ ReplyCallback(b)
  <2>1. PICK t \in Thread : t = bThread[b]
    BY <1>9, Reply
  <2>2. /\ UNCHANGED <<npc, mStatus, mReplyReady, bThread>> /\ bpc[b] = "reply" /\ bpc' = [bpc EXCEPT ![b] = "idle"]
        /\ mStatus[t] \in {WAIT4JNI, FINISHED}
    BY <1>9, <2>1, Reply
  <2>3. \A s \in Thread : Posted(s)' => Posted(s)
    BY <1>2, <2>2 DEF Posted
  <2>4. Posted(t)
    BY <2>1, <2>2 DEF Posted
  <2>5. /\ mStatus[t] = WAIT4JNI => txn'[t].status = WAIT4JNI
        /\ \A s \in Thread : s # t => txn'[s] = txn[s]
    BY <1>2, <1>9, <2>1, <2>2, Reply, ParcelFields
  <2>6. ASSUME NEW s \in Thread, Healthy(s), txn'[s].tag = "reply", txn'[s].status = FINISHED PROVE npc[top[s]] = "done"
    BY <2>2, <2>4, <2>5, <2>6, Statuses DEF FlatInv
  <2> QED
    BY <1>4, <2>2, <2>3, <2>6
<1> QED
  BY <1>5, <1>6, <1>7, <1>8, <1>9 DEF BinderThread

LEMMA ReturnFlat ==
    ASSUME TokenInv, TokenInv', FlatInv, NEW c \in Call, NEW pc \in {"returned", "aborted"}, NEW v, EndTransaction(c),
           Return(c, pc, v), IF pc = "returned" THEN FINISHED \in ExecStatus(c) ELSE ExecStatus(c) # {}
    PROVE  FlatInv'
<1>1. PICK t \in Thread : t = ThreadOf[c]
  OBVIOUS
<1>2. /\ top \in [Thread -> Call \cup {Null}] /\ cpc \in [Call -> ClientPC]
  BY DEF TokenInv, TypeOK, ClientTypeOK
<1>3. /\ top[t] = c /\ cpc[c] \in {"awaitCall", "awaitCallback"}
      /\ txn'[t].tag = "none" /\ \A s \in Thread : s # t => txn'[s] = txn[s]
      /\ UNCHANGED <<managerVars, stackResult, nativeVars, binderVars>>
      /\ pc = "returned" => txn[t].tag = "reply" /\ txn[t].status = FINISHED
  BY <1>1, Replied, Statuses
<1>4. UNCHANGED <<npc, mStatus, mReplyReady, bpc, bThread>>
  BY <1>3, ServerUnchanged
<1>5. outer[c] = Null /\ UNCHANGED outer
  BY <1>3 DEF FlatInv, Open, Return
<1>6. /\ top'[t] = Null /\ cpc'[c] = pc /\ \A s \in Thread : s # t => top'[s] = top[s]
      /\ \A d \in Call : d # c => cpc'[d] = cpc[d]
  BY <1>1, <1>2, <1>5 DEF Return, Goto
<1>7. \A s \in Thread : Healthy(s)' => Healthy(s)
  BY <1>3, <1>6 DEF Healthy
<1>8. Healthy(t)' => pc = "returned" /\ npc[c] = "done"
  BY <1>1, <1>3, <1>6, <1>7 DEF Healthy, FlatInv
<1>9. \A d \in Call : Open(d)' => top'[ThreadOf[d]] = d /\ outer'[d] = Null
  BY <1>1, <1>3, <1>5, <1>6 DEF FlatInv, Open
<1>10. ASSUME NEW d \in Call, Healthy(ThreadOf[d])'
       PROVE  /\ npc'[d] \notin {"none", "done"} => top'[ThreadOf[d]] = d
              /\ cpc'[d] = "returned" => npc'[d] = "done"
  BY <1>1, <1>3, <1>4, <1>6, <1>7, <1>8, <1>10 DEF FlatInv
<1>11. ASSUME NEW s \in Thread, Healthy(s)'
       PROVE  /\ mStatus'[s] = FINISHED /\ Posted(s)' => npc'[top'[s]] = "done"
              /\ txn'[s].tag = "reply" /\ txn'[s].status = FINISHED => npc'[top'[s]] = "done"
  <2>1. Posted(s)' <=> Posted(s)
    BY <1>4 DEF Posted
  <2>2. Posted(s) => txn[s].tag = "serving"
    BY DEF Posted, TokenInv, SemaphoreInv, HandlerInv
  <2>3. Posted(t)' => txn'[t].tag = "serving"
    BY DEF Posted, TokenInv, SemaphoreInv, HandlerInv
  <2> QED
    BY <1>3, <1>4, <1>6, <1>7, <1>11, <2>1, <2>2, <2>3 DEF FlatInv
<1> QED
  BY <1>9, <1>10, <1>11 DEF FlatInv

LEMMA ClientFlat ==
    ASSUME Reentrant = FALSE, TokenInv, TokenInv', FlatInv, NEW c \in Call, Client(c)
    PROVE  FlatInv'
<1>1. PICK t \in Thread : t = ThreadOf[c]
  OBVIOUS
<1>2. /\ top \in [Thread -> Call \cup {Null}] /\ cpc \in [Call -> ClientPC] /\ outer \in [Call -> Call \cup {Null}] /\ txn \in [Thread -> Parcel]
  BY DEF TokenInv, TypeOK, ClientTypeOK, ServerTypeOK
<1>3. CASE TaintCall(c)
  <2>1. top[t] = Null /\ top' = [top EXCEPT ![t] = c] /\ outer' = [outer EXCEPT ![c] = Null] /\ cpc' = [cpc EXCEPT ![c] = "transact"]
        /\ cpc[c] = "idle" /\ UNCHANGED txn /\ UNCHANGED <<managerVars, stackResult, nativeVars, binderVars>>
    BY <1>1, <1>3 DEF TaintCall, Goto, serverVars
  <2>2. UNCHANGED <<npc, mStatus, mReplyReady, bpc, bThread>>
    BY <2>1, ServerUnchanged
  <2>3. /\ top'[t] = c /\ outer'[c] = Null /\ cpc'[c] = "transact" /\ \A s \in Thread : s # t => top'[s] = top[s]
        /\ \A d \in Call : d # c => cpc'[d] = cpc[d] /\ outer'[d] = outer[d]
    BY <1>2, <2>1
  <2>4. \A s \in Thread : Healthy(s)' <=> Healthy(s)
    BY <2>1, <2>3 DEF Healthy
  <2>5. txn[t].tag = "none"
    BY <2>1 DEF TokenInv, TransactionInv, Waiting
  <2>6. ~Posted(t)
    BY <2>5 DEF Posted, TokenInv, SemaphoreInv, HandlerInv
  <2>7. \A d \in Call : Open(d)' => top'[ThreadOf[d]] = d /\ outer'[d] = Null
    BY <1>1, <2>1, <2>3 DEF FlatInv, Open
  <2>8. ASSUME NEW d \in Call, Healthy(ThreadOf[d])'
        PROVE  /\ npc'[d] \notin {"none", "done"} => top'[ThreadOf[d]] = d
               /\ cpc'[d] = "returned" => npc'[d] = "done"
    BY <1>1, <2>1, <2>2, <2>3, <2>4, <2>8 DEF FlatInv
  <2>9. ASSUME NEW s \in Thread, Healthy(s)'
        PROVE  /\ mStatus'[s] = FINISHED /\ Posted(s)' => npc'[top'[s]] = "done"
               /\ txn'[s].tag = "reply" /\ txn'[s].status = FINISHED => npc'[top'[s]] = "done"
    <3>1. Posted(s)' <=> Posted(s)
      BY <2>2 DEF Posted
    <3> QED
      BY <2>1, <2>2, <2>3, <2>4, <2>5, <2>6, <2>9, <3>1 DEF FlatInv
  <2> QED
    BY <2>7, <2>8, <2>9 DEF FlatInv
<1>4. CASE ReturnResult(c) \/ ReturnUnexpected(c)
  <2>1. CASE ReturnResult(c)
    BY <2>1, ReturnFlat DEF ReturnResult
  <2>2. CASE ReturnUnexpected(c)
    BY <2>2, ReturnFlat DEF ReturnUnexpected
  <2> QED
    BY <1>4, <2>1, <2>2
<1>5. ASSUME NEW p \in ClientPC, NEW q \in ClientPC, At(c, p), Goto(c, q), p \notin {"idle", "returned", "aborted"}, q \notin {"idle", "returned", "aborted"},
             UNCHANGED <<top, outer>>, UNCHANGED <<managerVars, stackResult, nativeVars, binderVars>>,
             \A s \in Thread : txn'[s].tag = "reply" => txn'[s] = txn[s]
      PROVE  FlatInv'
  <2>1. UNCHANGED <<npc, mStatus, mReplyReady, bpc, bThread>>
    BY <1>5, ServerUnchanged
  <2>2. cpc[c] = p /\ cpc'[c] = q /\ \A d \in Call : d # c => cpc'[d] = cpc[d]
    BY <1>2, <1>5 DEF At, Goto
  <2>3. \A d \in Call : Open(d)' <=> Open(d)
    BY <1>5, <2>2 DEF Open
  <2>4. \A s \in Thread : Posted(s)' => Posted(s)
    BY <2>1 DEF Posted
  <2>5. \A s \in Thread : Healthy(s) /\ txn'[s].tag = "reply" /\ txn'[s].status = FINISHED => npc[top[s]] = "done"
    BY <1>5 DEF FlatInv
  <2> QED
    BY <1>5, <2>1, <2>2, <2>3, <2>4, <2>5, FlatKept
<1>6. CASE TransactTaintCall(c)
  <2>1. /\ At(c, "transact") /\ Goto(c, "awaitCall") /\ UNCHANGED <<top, outer>> /\ UNCHANGED <<managerVars, stackResult, nativeVars, binderVars>>
    BY <1>6 DEF TransactTaintCall
  <2>2. txn'[t].tag = "TAINT_CALL" /\ \A s \in Thread : s # t => txn'[s] = txn[s]
    BY <1>1, <1>2, <1>6, ParcelFields DEF TransactTaintCall
  <2> QED
    BY <1>5, <2>1, <2>2 DEF ClientPC
<1>7. CASE ReadRequest(c)
  <2>1. /\ EndTransaction(c) /\ ExecStatus(c) # {} /\ Goto(c, "dispatch") /\ UNCHANGED <<top, outer>>
    BY <1>7 DEF ReadRequest
  <2>2. /\ txn'[t].tag = "none" /\ \A s \in Thread : s # t => txn'[s] = txn[s]
        /\ UNCHANGED <<managerVars, stackResult, nativeVars, binderVars>>
    BY <1>1, <2>1, Replied
  <2>3. PICK p \in {"awaitCall", "awaitCallback"} : At(c, p)
    BY <2>1 DEF EndTransaction
  <2> QED
    BY <1>5, <2>1, <2>2, <2>3 DEF ClientPC
<1>8. CASE CallJni(c) \/ ReturnFromJava(c) \/ WriteCallbackdata(c) \/ FreeReplydata(c) \/ StoreCbdata(c)
  <2>1. PICK p \in {"dispatch", "inJava", "result", "freeReply", "store"}, q \in {"inJava", "result", "freeReply", "store", "callback"} :
            At(c, p) /\ Goto(c, q) /\ UNCHANGED <<serverVars, top, outer>>
    BY <1>8 DEF CallJni, ReturnFromJava, WriteCallbackdata, FreeReplydata, StoreCbdata
  <2> QED
    BY <1>5, <2>1 DEF serverVars, ClientPC
<1>9. CASE DoCallbackTransaction(c)
  <2>1. /\ At(c, "callback") /\ Goto(c, "awaitCallback") /\ UNCHANGED <<top, outer>> /\ UNCHANGED <<managerVars, stackResult, nativeVars, binderVars>>
    BY <1>9 DEF DoCallbackTransaction
  <2>2. txn'[t].tag = "CALLBACK" /\ \A s \in Thread : s # t => txn'[s] = txn[s]
    BY <1>1, <1>2, <1>9, ParcelFields DEF DoCallbackTransaction
  <2> QED
    BY <1>5, <2>1, <2>2 DEF ClientPC
<1> QED
  BY <1>3, <1>4, <1>6, <1>7, <1>8, <1>9 DEF Client


LEMMA InitFlat == Init => FlatInv
<1> SUFFICES ASSUME Init PROVE FlatInv
  OBVIOUS
<1>1. /\ npc = [c \in Call |-> "none"] /\ cpc = [c \in Call |-> "idle"]
      /\ txn = [t \in Thread |-> NoTxn] /\ mStatus = [t \in Thread |-> INIT]
  BY DEF Init, ServerInit, ManagerInit
<1> QED
  BY <1>1, Statuses, ParcelFields DEF FlatInv, Open

LEMMA NextFlat ==
    ASSUME Reentrant = FALSE
    PROVE  TokenInv /\ FlatInv /\ [Next]_vars => FlatInv'
<1> SUFFICES ASSUME TokenInv, FlatInv, [Next]_vars PROVE FlatInv'
  OBVIOUS
<1>1. TokenInv'
  BY NextToken
<1>2. CASE UNCHANGED vars
  <2>1. UNCHANGED txn /\ UNCHANGED <<managerVars, stackResult, nativeVars, binderVars>> /\ UNCHANGED clientVars
    BY <1>2 DEF vars, serverVars
  <2>2. UNCHANGED <<mStatus, mReplyReady, npc, bpc, bThread>>
    BY <2>1, ServerUnchanged
  <2> QED
    BY <2>1, <2>2, ClientUnchanged DEF FlatInv, Posted, Open, Healthy
<1>3. CASE Next
  <2>1. CASE Service
    BY <1>1, <2>1, BinderFlat, NativeFlat DEF Service
  <2> QED
    BY <1>1, <1>2, <1>3, <2>1, ClientFlat DEF Next, Terminating
<1> QED
  BY <1>2, <1>3

\* Any number of app threads whose calls do not nest: as long as no taintCall
\* of a thread id was given up, a FINISHED that reaches the app means that the
\* native method of that call has ended, and of the calls of that thread id
\* only the one in progress has a native thread that has not.
THEOREM FlatAlways ==
    ASSUME Reentrant = FALSE
    PROVE  Spec => []FlatInv
<1>1. TokenInv /\ FlatInv /\ [Next]_vars => FlatInv'
  BY NextFlat, Zenon
<1> QED
  BY <1>1, InitFlat, TokenAlways, PTL DEF Spec

\* App threads that each make one native call: a FINISHED that reaches the
\* app means that the native method of that call has ended, although the
\* threads share the members of BpWrapper.
THEOREM FinishedMeansDoneAlways ==
    ASSUME Reentrant = FALSE, \A c, d \in Call : ThreadOf[c] = ThreadOf[d] => c = d
    PROVE  Spec => []FinishedMeansDone
<1>1. FlatInv => FinishedMeansDone
  <2> SUFFICES ASSUME FlatInv, NEW c \in Call, cpc[c] = "returned" PROVE npc[c] = "done"
    BY DEF FinishedMeansDone
  <2>1. Healthy(ThreadOf[c])
    BY DEF Healthy
  <2> QED
    BY <2>1 DEF FlatInv
<1>2. Spec => []FlatInv
  BY FlatAlways, Zenon
<1> QED
  BY <1>1, <1>2, PTL


-----------------------------------------------------------------------------
(* One thread whose calls do not nest: the members are its own.            *)

LEMMA Alone ==
    ASSUME SingleThreaded, TokenInv, FlatInv, CallInv, NEW t \in Thread
    PROVE  /\ \A s \in Thread : s = t
           /\ \A d \in Call : ThreadOf[d] = t
           /\ Healthy(t)
           /\ \A d \in Call : d # top[t] => cpc[d] \in {"idle", "returned"} /\ npc[d] \in {"none", "done"}
<1>1. (\A s \in Thread : s = t) /\ \A d \in Call : ThreadOf[d] = t
  BY DEF SingleThreaded
<1>2. Healthy(t)
  BY DEF Healthy, CallInv, OwnMembers
<1>3. ASSUME NEW d \in Call, d # top[t] PROVE cpc[d] \in {"idle", "returned"} /\ npc[d] \in {"none", "done"}
  BY <1>1, <1>2, <1>3 DEF FlatInv, Open, CallInv, OwnMembers
<1> QED
  BY <1>1, <1>2, <1>3

\* A step of call c leaves the others, which have not begun or have ended.
LEMMA CallsKept ==
    ASSUME SingleThreaded, TokenInv, FlatInv, CallInv, NEW t \in Thread, NEW c \in Call, top[t] \in {c, Null}, top'[t] \in {c, Null},
           \A d \in Call : d # c => npc'[d] = npc[d] /\ nJni'[d] = nJni[d] /\ nGot'[d] = nGot[d]
                                    /\ cpc'[d] = cpc[d] /\ returned'[d] = returned[d],
           OwnMembers(c)', OwnMailbox(c)', OwnResult(c)'
    PROVE  CallInv'
<1> SUFFICES ASSUME NEW d \in Call, d # c PROVE OwnMembers(d)' /\ OwnMailbox(d)' /\ OwnResult(d)'
  BY DEF CallInv
<1>1. ThreadOf[d] = t /\ d # top[t] /\ d # top'[t]
  BY Alone
<1>2. cpc'[d] \in {"idle", "returned"} /\ npc'[d] \in {"none", "done"}
  BY <1>1, Alone
<1>3. OwnMembers(d)'
  BY <1>1, <1>2 DEF OwnMembers, Open, InRequest
<1>4. OwnMailbox(d)'
  BY <1>1, <1>2 DEF OwnMailbox
<1>5. OwnResult(d)'
  BY <1>1, <1>2 DEF CallInv, OwnResult
<1> QED
  BY <1>3, <1>4, <1>5

\* While the app waits, its members stay as they are.
LEMMA MembersKept ==
    ASSUME NEW c \in Call, OwnMembers(c), cpc[c] \in {"awaitCall", "awaitCallback"}, txn'[ThreadOf[c]].tag # "CALLBACK", UNCHANGED clientVars
    PROVE  OwnMembers(c)'
  BY ClientUnchanged DEF OwnMembers, Open, InRequest

LEMMA FreedKept ==
    ASSUME FreedInv, UNCHANGED <<freed, doubleFree, executed>>,
           \A c \in Call : /\ cpc'[c] \in Answering => cpc[c] \in Answering
                           /\ cpc'[c] \in {"inJava", "result", "freeReply"} => cpc[c] \in {"inJava", "result", "freeReply"}
    PROVE  FreedInv'
  BY DEF FreedInv

LEMMA NativeSequential ==
    ASSUME SingleThreaded, TokenInv, TokenInv', SequentialInv, NEW c \in Call, NativeThread(c), UNCHANGED clientVars
    PROVE  CallInv' /\ FreedInv'
<1>1. FreedInv'
  BY ClientUnchanged, FreedKept DEF SequentialInv
<1>2. PICK t \in Thread : t = ThreadOf[c]
  OBVIOUS
<1>3. Native(c) /\ UNCHANGED <<txn, bpc, bThread, bCode>> /\ UNCHANGED <<top, cpc, returned>>
  BY ClientUnchanged DEF NativeThread, binderVars
<1>4. /\ npc \in [Call -> NativePC] /\ nJni \in [Call -> Nat] /\ nGot \in [Call -> Data] /\ nInvoke \in [Call -> PlatformInvoke]
      /\ jniCall \in [Thread -> JniCall] /\ mJniReady \in [Thread -> Nat] /\ stackResult \in [Binder -> Call \cup {Null}]
  BY DEF TokenInv, TypeOK, ServerTypeOK, ManagerTypeOK
<1>5. npc[c] \notin {"none", "done"} /\ \A d \in Call : d # c => npc'[d] = npc[d] /\ nJni'[d] = nJni[d] /\ nGot'[d] = nGot[d]
  BY <1>3, <1>4 DEF Native, RunNative, ReqJniCall, PostRequest, ResumeAfterJni, ReadJniResult, InvokeReturns, SignalResult, PostResult
<1>6. top[t] = c
  BY <1>2, <1>5, Alone DEF SequentialInv
<1>7. txn[t].tag = "serving" /\ mJniReady'[t] = 0
  <2>1. CASE npc[c] \notin Rest
    <3>1. txn[t].tag = "serving" /\ mJniReady[t] = 0
      BY <1>2, <2>1 DEF TokenInv, NativeInv, Semaphores
    <3>2. UNCHANGED mJniReady
      BY <1>3, <2>1 DEF Native, RunNative, ReqJniCall, PostRequest, ResumeAfterJni, ReadJniResult, InvokeReturns, SignalResult,
         PostResult, managerVars, Rest
    <3> QED
      BY <3>1, <3>2
  <2>2. CASE npc[c] \in Rest
    <3>1. ResumeAfterJni(c)
      BY <1>3, <1>5, <2>2 DEF Native, RunNative, ReqJniCall, PostRequest, ReadJniResult, InvokeReturns, SignalResult, PostResult, Rest
    <3>2. mJniReady[t] # 0 /\ mJniReady'[t] = mJniReady[t] - 1
      BY <1>2, <1>4, <3>1 DEF ResumeAfterJni, SemWait
    <3> QED
      BY <3>2 DEF TokenInv, SemaphoreInv, Semaphores
  <2> QED
    BY <2>1, <2>2
<1>8. cpc[c] \in {"awaitCall", "awaitCallback"}
  BY <1>6, <1>7, WaitingTop
<1>9. OwnMembers(c) /\ OwnMailbox(c) /\ OwnResult(c) /\ nJni[c] \in Nat
  BY <1>4 DEF SequentialInv, CallInv
<1>10. OwnMembers(c)'
  BY <1>2, <1>3, <1>7, <1>8, <1>9, MembersKept
<1>11. OwnMailbox(c)'
  <2>1. npc'[c] = "readResult" => jniCall'[t].param_data = Answer(c, nJni'[c])
    <3>1. CASE ResumeAfterJni(c)
      <4>1. mJniReady[t] # 0 /\ UNCHANGED <<jniCall, nJni>>
        BY <1>2, <3>1 DEF ResumeAfterJni, SemWait
      <4> QED
        BY <1>2, <1>6, <1>9, <4>1 DEF OwnMailbox
    <3>2. CASE ~ResumeAfterJni(c)
      BY <1>3, <1>4, <3>2 DEF Native, RunNative, ReqJniCall, PostRequest, ReadJniResult, InvokeReturns, SignalResult, PostResult
    <3> QED
      BY <3>1, <3>2
  <2> QED
    BY <1>2, <1>3, <1>7, <2>1 DEF OwnMailbox
<1>12. OwnResult(c)'
  <2>1. /\ platformInvoke'[t] = platformInvoke[t] /\ platformInvoke[t].call = c /\ platformInvoke[t].pResult \in Binder
        /\ \A b \in Binder : bpc'[b] # "idle" /\ bThread'[b] = t /\ bCode'[b] = "TAINT_CALL" => platformInvoke[t].pResult = b
    <3>1. UNCHANGED platformInvoke
      BY <1>3 DEF Native, RunNative, ReqJniCall, PostRequest, ResumeAfterJni, ReadJniResult, InvokeReturns, SignalResult,
         PostResult, managerVars
    <3> QED
      BY <1>2, <1>3, <1>5, <1>6, <1>9, <3>1 DEF OwnResult
  <2>2. cpc'[c] # "returned" /\ returned'[c] = Null /\ txn'[t].tag # "reply"
    BY <1>3, <1>7, <1>8, <1>9 DEF OwnResult
  <2> DEFINE GoesOn ==
           /\ nJni'[c] <= MaxJni
           /\ npc'[c] \notin {"none", "created", "failed"}
           /\ npc'[c] \in {"reqPost", "reqWait", "readResult"} =>
                 nJni'[c] > 0 /\ nGot'[c] = IF nJni'[c] = 1 THEN Null ELSE Answer(c, nJni'[c] - 1)
           /\ npc'[c] \notin {"reqPost", "reqWait", "readResult"} =>
                 nGot'[c] = IF nJni'[c] = 0 THEN Null ELSE Answer(c, nJni'[c])
           /\ nInvoke'[c] = platformInvoke[t]
           /\ npc'[c] \in {"signal", "resPost", "done"} => stackResult'[platformInvoke[t].pResult] = c
  <2>3. SUFFICES GoesOn
    BY <1>2, <1>3, <1>6, <2>1, <2>2 DEF OwnResult
  <2>4. CASE RunNative(c)
    BY <1>2, <1>4, <1>9, <2>4 DEF RunNative, OwnResult
  <2>5. ASSUME NEW f \in Function, ReqJniCall(c, f) PROVE GoesOn
    <3>1. /\ npc[c] = "running" /\ npc'[c] = "reqPost" /\ nJni[c] < MaxJni /\ nJni'[c] = nJni[c] + 1 /\ UNCHANGED <<nGot, nInvoke>>
      BY <1>4, <2>5 DEF ReqJniCall
    <3>2. nGot[c] = (IF nJni[c] = 0 THEN Null ELSE Answer(c, nJni[c])) /\ nInvoke[c] = platformInvoke[t]
      BY <1>2, <1>6, <1>9, <3>1 DEF OwnResult
    <3>3. nJni'[c] - 1 = nJni[c] /\ nJni'[c] > 0 /\ nJni'[c] <= MaxJni /\ (nJni'[c] = 1 <=> nJni[c] = 0)
      BY <1>9, <3>1
    <3> QED
      BY <3>1, <3>2, <3>3
  <2>6. CASE PostRequest(c) \/ ResumeAfterJni(c)
    <3>1. npc[c] \in {"reqPost", "reqWait"} /\ npc'[c] \in {"reqWait", "readResult"} /\ UNCHANGED <<nJni, nGot, nInvoke>>
      BY <1>4, <2>6 DEF PostRequest, ResumeAfterJni
    <3> QED
      BY <1>2, <1>6, <1>9, <3>1 DEF OwnResult
  <2>7. CASE ReadJniResult(c)
    <3>1. npc[c] = "readResult" /\ npc'[c] = "running" /\ nGot'[c] = jniCall[t].param_data /\ UNCHANGED <<nJni, nInvoke>>
      BY <1>2, <1>4, <2>7 DEF ReadJniResult
    <3>2. nGot'[c] = Answer(c, nJni[c]) /\ nJni[c] > 0
      BY <1>2, <1>9, <3>1 DEF OwnMailbox, OwnResult
    <3> QED
      BY <1>2, <1>6, <1>9, <3>1, <3>2 DEF OwnResult
  <2>8. CASE InvokeReturns(c)
    <3>1. npc[c] = "running" /\ npc'[c] = "signal" /\ UNCHANGED <<nJni, nGot, nInvoke>>
      BY <1>4, <2>8 DEF InvokeReturns
    <3>2. nInvoke[c] = platformInvoke[t]
      BY <1>2, <1>6, <1>9, <3>1 DEF OwnResult
    <3>3. stackResult'[platformInvoke[t].pResult] = c
      BY <1>4, <2>1, <2>8, <3>2 DEF InvokeReturns
    <3> QED
      BY <1>9, <3>1, <3>2, <3>3 DEF OwnResult
  <2>9. CASE SignalResult(c) \/ PostResult(c)
    <3>1. npc[c] \in {"signal", "resPost"} /\ npc'[c] \in {"resPost", "done"} /\ UNCHANGED <<nJni, nGot, nInvoke, stackResult>>
      BY <1>4, <2>9 DEF SignalResult, PostResult
    <3> QED
      BY <1>2, <1>6, <1>9, <3>1 DEF OwnResult
  <2> QED
    BY <1>3, <2>4, <2>5, <2>6, <2>7, <2>8, <2>9 DEF Native
<1>13. CallInv'
  <2>1. FlatInv /\ CallInv /\ top[t] \in {c, Null} /\ top'[t] \in {c, Null}
    BY <1>3, <1>6 DEF SequentialInv
  <2> QED
    BY <1>3, <1>5, <1>10, <1>11, <1>12, <2>1, CallsKept
<1> QED
  BY <1>1, <1>13


LEMMA BinderSequential ==
    ASSUME SingleThreaded, TokenInv, TokenInv', SequentialInv, NEW b \in Binder, BinderThread(b), UNCHANGED clientVars
    PROVE  CallInv' /\ FreedInv'
<1>1. FreedInv'
  BY ClientUnchanged, FreedKept DEF SequentialInv
<1>2. PICK t \in Thread : (\A s \in Thread : s = t) /\ \A d \in Call : ThreadOf[d] = t
  <2>1. Thread # {}
    BY DEF BinderThread, ReplyIsReady, ReplyTaintCall, ReplyCallback, TokenInv, HandlerInv
  <2> QED
    BY <2>1 DEF SingleThreaded
<1>3. UNCHANGED <<top, cpc, returned>>
  BY ClientUnchanged
<1>4. txn[t].tag # "none"
  BY <1>2 DEF BinderThread, OnTaintCall, OnCallback, OnCallbackNotWaiting, OnCallbackMismatch, Enter, ReplyIsReady, ReplyTaintCall,
     ReplyCallback, TokenInv, HandlerInv
<1>5. PICK c \in Call : c = top[t] /\ ThreadOf[c] = t /\ cpc[c] \in {"awaitCall", "awaitCallback"}
  BY <1>4, WaitingTop
<1>6. /\ npc \in [Call -> NativePC] /\ jniCall \in [Thread -> JniCall] /\ mJniReady \in [Thread -> Nat] /\ txn \in [Thread -> Parcel]
      /\ platformInvoke \in [Thread -> PlatformInvoke] /\ stackResult \in [Binder -> Call \cup {Null}]
      /\ bpc \in [Binder -> {"idle", "waitReply", "reply"}] /\ bThread \in [Binder -> Thread \cup {Null}]
      /\ bCode \in [Binder -> {"TAINT_CALL", "CALLBACK"} \cup {Null}]
  BY DEF TokenInv, TypeOK, ServerTypeOK, ManagerTypeOK
<1>7. OwnMembers(c) /\ OwnMailbox(c) /\ OwnResult(c) /\ FlatInv /\ PendingInv /\ CallInv
  BY DEF SequentialInv, CallInv
<1>8. cpc'[c] # "returned" /\ returned'[c] = Null
  BY <1>3, <1>5, <1>7 DEF OwnResult
<1>9. ASSUME OwnMailbox(c)', OwnResult(c)', txn'[t].tag # "CALLBACK",
             \A d \in Call : d # c => npc'[d] = npc[d], UNCHANGED <<nJni, nGot>>
      PROVE  CallInv'
  <2>1. OwnMembers(c)'
    BY <1>5, <1>7, <1>9, MembersKept
  <2> QED
    BY <1>3, <1>5, <1>7, <1>9, <2>1, CallsKept
<1>10. ASSUME NEW s \in Thread, OnTaintCall(b, s) PROVE CallInv'
  <2>1. s = t /\ txn[t].tag = "TAINT_CALL" /\ npc[c] = "none" /\ txn[t].call = c
    BY <1>2, <1>5, <1>10 DEF OnTaintCall, Enter, TokenInv, TransactionInv
  <2>2. /\ npc'[c] \in {"created", "failed"} /\ \A d \in Call : d # c => npc'[d] = npc[d]
    BY <1>6, <1>10, <2>1 DEF OnTaintCall, StartExec
  <2>3. /\ UNCHANGED <<mJniReady, nJni, nGot>> /\ platformInvoke'[t].call = c /\ platformInvoke'[t].pResult = b
    BY <1>6, <1>10, <2>1 DEF OnTaintCall, StartExec
  <2>4. txn'[t].tag = "serving" /\ \A h \in Binder : h # b => bpc'[h] = bpc[h] /\ bThread'[h] = bThread[h]
    BY <1>6, <1>10, <2>1, ParcelFields DEF OnTaintCall, Serve
  <2>5. mJniReady[t] = 0 /\ \A h \in Binder : bpc[h] # "idle" => bThread[h] # t
    BY <2>1, AtRest DEF Semaphores
  <2>6. OwnMailbox(c)'
    BY <1>5, <2>2, <2>3, <2>4, <2>5 DEF OwnMailbox
  <2>7. OwnResult(c)'
    BY <1>5, <1>7, <1>8, <2>1, <2>2, <2>3, <2>4, <2>5 DEF OwnResult
  <2> QED
    BY <1>9, <2>2, <2>3, <2>4, <2>6, <2>7
<1>11. ASSUME NEW s \in Thread, OnCallback(b, s) PROVE CallInv'
  <2>1. s = t /\ txn[t].tag = "CALLBACK"
    BY <1>2, <1>11 DEF OnCallback, Enter
  <2>2. npc[c] = "reqWait" /\ txn[t].data = Answer(c, nJni[c])
    BY <1>5, <1>7, <2>1 DEF OwnMembers, OwnMailbox
  <2>3. UNCHANGED <<npc, nJni, nGot, nInvoke, platformInvoke>> /\ jniCall'[t].param_data = txn[t].data
    BY <1>6, <1>11, <2>1 DEF OnCallback, nativeVars, JniCall
  <2>4. /\ txn'[t].tag = "serving" /\ bCode'[b] = "CALLBACK"
        /\ \A h \in Binder : h # b => bpc'[h] = bpc[h] /\ bThread'[h] = bThread[h] /\ bCode'[h] = bCode[h]
    BY <1>6, <1>11, <2>1, ParcelFields DEF OnCallback, Serve
  <2>5. \A h \in Binder : bpc[h] # "idle" => bThread[h] # t
    BY <2>1, AtRest
  <2>6. OwnMailbox(c)'
    BY <1>5, <2>2, <2>3, <2>4 DEF OwnMailbox
  <2>7. OwnResult(c)'
    BY <1>3, <1>5, <1>7, <1>8, <2>2, <2>3, <2>4, <2>5 DEF OwnResult
  <2> QED
    BY <1>9, <2>3, <2>4, <2>6, <2>7
<1>12. ASSUME NEW s \in Thread, OnCallbackNotWaiting(b, s) \/ OnCallbackMismatch(b, s) PROVE FALSE
  <2>1. s = t /\ txn[t].tag = "CALLBACK" /\ (mStatus[t] # WAIT4JNI \/ txn[t].function # jniCall[t].function)
    BY <1>2, <1>12 DEF OnCallbackNotWaiting, OnCallbackMismatch, Enter
  <2> QED
    BY <1>5, <1>7, <2>1 DEF OwnMembers, OwnMailbox
<1>13. CASE ReplyIsReady(b)
  <2>1. /\ UNCHANGED <<npc, nJni, nGot, nInvoke, mStatus, mJniReady, jniCall, platformInvoke, stackResult, txn, bThread, bCode>>
        /\ bpc[b] # "idle" /\ bpc' = [bpc EXCEPT ![b] = "reply"]
    BY <1>13 DEF ReplyIsReady, WaitReplyReady, nativeVars
  <2>2. \A h \in Binder : bpc'[h] # "idle" => bpc[h] # "idle"
    BY <1>6, <2>1
  <2>3. OwnMailbox(c)'
    BY <1>3, <1>5, <1>7, <2>1 DEF OwnMailbox
  <2>4. OwnResult(c)'
    BY <1>3, <1>5, <1>7, <2>1, <2>2 DEF OwnResult
  <2>5. txn[t].tag # "CALLBACK"
    BY <1>2, <2>1 DEF TokenInv, HandlerInv
  <2> QED
    BY <1>1, <1>9, <2>1, <2>3, <2>4, <2>5
<1>14. CASE ReplyTaintCall(b) \/ ReplyCallback(b)
  <2>1. bThread[b] = t
    BY <1>2, <1>14, Reply
  <2>2. /\ bpc[b] = "reply" /\ Semaphores(t, 0, 0) /\ Resting(t) /\ mStatus[t] \in {WAIT4JNI, FINISHED}
        /\ UNCHANGED <<mStatus, mJniReady, platformInvoke, npc, bThread, bCode>> /\ bpc' = [bpc EXCEPT ![b] = "idle"]
        /\ mStatus[t] = WAIT4JNI => txn'[t] = RequestReply(t)
        /\ mStatus[t] = FINISHED => txn'[t] = ResultReply(stackResult[IF bCode[b] = "TAINT_CALL" THEN b ELSE platformInvoke[t].pResult])
    BY <1>6, <1>14, <2>1, Reply
  <2>3. UNCHANGED <<nJni, nGot, nInvoke, stackResult>> /\ jniCall'[t].function = jniCall[t].function
    BY <1>2, <1>6, <1>14 DEF ReplyTaintCall, ReplyCallback, Leave, nativeVars, JniCall
  <2>4. Posted(t)
    BY <2>1, <2>2 DEF Posted
  <2>5. npc'[c] # "readResult" /\ mJniReady'[t] = 0
    BY <1>5, <2>2 DEF Resting, Rest, Semaphores
  <2>6. \A h \in Binder : bpc'[h] # "idle" => bpc[h] # "idle"
    BY <1>6, <2>2
  <2>7. CASE mStatus[t] = WAIT4JNI
    <3>1. txn'[t].tag = "reply" /\ txn'[t].status = WAIT4JNI /\ txn'[t].function = jniCall[t].function
      BY <2>2, <2>7, ParcelFields
    <3>2. PICK d \in Call : npc[d] = "reqWait"
      BY <1>7, <2>4, <2>7 DEF PendingInv, IsPending
    <3>3. d = c
      BY <1>5, <1>7, <3>2, Alone
    <3>4. OwnMailbox(c)'
      BY <1>5, <2>2, <2>3, <2>5, <2>7, <3>1, <3>2, <3>3 DEF OwnMailbox
    <3>5. OwnResult(c)'
      BY <1>3, <1>5, <1>7, <1>8, <2>2, <2>3, <2>6, <3>1, Statuses DEF OwnResult
    <3> QED
      BY <1>1, <1>9, <2>2, <2>3, <3>1, <3>4, <3>5
  <2>8. CASE mStatus[t] = FINISHED
    <3>1. npc[c] = "done"
      BY <1>5, <1>7, <2>4, <2>8, Alone DEF FlatInv
    <3>2. stackResult[IF bCode[b] = "TAINT_CALL" THEN b ELSE platformInvoke[t].pResult] = c
      BY <1>5, <1>7, <2>1, <2>2, <3>1 DEF OwnResult
    <3>3. txn'[t].tag = "reply" /\ txn'[t].status = FINISHED /\ txn'[t].call = c
      BY <2>2, <2>8, <3>2, ParcelFields
    <3>4. OwnMailbox(c)'
      BY <1>5, <2>5, <3>3, Statuses DEF OwnMailbox
    <3>5. OwnResult(c)'
      BY <1>3, <1>5, <1>7, <1>8, <2>2, <2>3, <2>6, <3>3 DEF OwnResult
    <3> QED
      BY <1>1, <1>9, <2>2, <2>3, <3>3, <3>4, <3>5
  <2> QED
    BY <2>2, <2>7, <2>8
<1> QED
  BY <1>1, <1>10, <1>11, <1>12, <1>13, <1>14 DEF BinderThread


\* The end of a transaction frees what was sent, once.
LEMMA EndFreed ==
    ASSUME TokenInv, CallInv, FreedInv, NEW c \in Call, EndTransaction(c), UNCHANGED executed, cpc'[c] \notin Answering,
           \A d \in Call : d # c => cpc'[d] = cpc[d]
    PROVE  FreedInv'
<1>1. cpc'[c] \notin {"inJava", "result", "freeReply"}
  BY DEF Answering
<1>2. CASE UNCHANGED heapVars
  BY <1>1, <1>2, FreedKept DEF heapVars
<1>3. CASE At(c, "awaitCallback") /\ Free(sent[c])
  <2>1. sent[c] = Answer(c, executed[c]) /\ executed[c] \in Nat /\ cpc[c] \in Answering
    BY <1>3 DEF CallInv, OwnMembers, At, TokenInv, TypeOK, ClientTypeOK, Answering
  <2>2. sent[c] \notin freed
    BY <2>1 DEF FreedInv
  <2>3. freed' = freed \cup {sent[c]} /\ doubleFree' = FALSE
    <3>1. sent[c] # Null
      BY <2>1, DataTypes
    <3>2. freed' = freed \cup {sent[c]}
      BY <1>3, <3>1 DEF Free
    <3>3. doubleFree = FALSE
      BY DEF FreedInv, TokenInv, TypeOK, ClientTypeOK
    <3>4. doubleFree' = (doubleFree \/ sent[c] \in freed)
      BY <1>3 DEF Free
    <3>5. doubleFree' = FALSE
      BY <2>2, <3>3, <3>4, Zenon
    <3> QED
      BY <3>2, <3>5
  <2>4. ASSUME NEW d \in Call, NEW n \in Nat, Args(d, n) \in freed'
        PROVE  n <= executed'[d] /\ (n = executed'[d] => cpc'[d] \notin {"inJava", "result", "freeReply"})
    <3>1. Args(d, n) \in freed
      BY <2>1, <2>3, <2>4, DataTypes
    <3> QED
      BY <1>1, <3>1 DEF FreedInv
  <2>5. ASSUME NEW d \in Call, NEW n \in Nat, Answer(d, n) \in freed'
        PROVE  n <= executed'[d] /\ (n = executed'[d] => cpc'[d] \notin Answering)
    <3>1. CASE Answer(d, n) \in freed
      BY <3>1 DEF FreedInv
    <3>2. CASE Answer(d, n) = sent[c]
      <4>1. d = c /\ n = executed[c]
        BY <2>1, <3>2, DataTypes
      <4> QED
        BY <2>1, <4>1
    <3> QED
      BY <2>3, <2>5, <3>1, <3>2
  <2>6. ~doubleFree'
    BY <2>3
  <2> QED
    BY <2>4, <2>5, <2>6 DEF FreedInv
<1> QED
  BY <1>2, <1>3 DEF EndTransaction


LEMMA TaintCallSequential ==
    ASSUME SingleThreaded, Reentrant = FALSE, TokenInv, TokenInv', SequentialInv, NEW c \in Call, TaintCall(c)
    PROVE  CallInv' /\ FreedInv'
<1>1. PICK t \in Thread : t = ThreadOf[c]
  OBVIOUS
<1>2. /\ cpc \in [Call -> ClientPC] /\ top \in [Thread -> Call \cup {Null}] /\ outer \in [Call -> Call \cup {Null}]
  BY DEF TokenInv, TypeOK, ClientTypeOK
<1>3. /\ cpc[c] = "idle" /\ top[t] = Null /\ top'[t] = c /\ cpc'[c] = "transact" /\ jniEnv' = t /\ \A d \in Call : d # c => cpc'[d] = cpc[d]
      /\ UNCHANGED <<returned, freed, doubleFree, executed>> /\ UNCHANGED txn /\ UNCHANGED <<managerVars, stackResult, nativeVars, binderVars>>
  BY <1>1, <1>2 DEF TaintCall, Goto, serverVars, heapVars
<1>4. UNCHANGED <<npc, nJni, nGot, mJniReady>>
  BY <1>3, ServerUnchanged
<1>5. npc[c] = "none" /\ txn[t].tag = "none"
  BY <1>3 DEF TokenInv, TransactionInv, Waiting
<1>6. mJniReady[t] = 0
  BY <1>5, AtRest DEF Semaphores
<1>7. OwnMembers(c)'
  BY <1>1, <1>3, <1>5 DEF OwnMembers, InRequest
<1>8. OwnMailbox(c)'
  BY <1>1, <1>3, <1>4, <1>5, <1>6 DEF OwnMailbox
<1>9. OwnResult(c)'
  BY <1>1, <1>3, <1>4, <1>5 DEF OwnResult, SequentialInv, CallInv
<1>10. CallInv'
  <2>1. top[t] \in {c, Null} /\ top'[t] \in {c, Null} /\ FlatInv /\ CallInv
    BY <1>3 DEF SequentialInv
  <2> QED
    BY <1>3, <1>4, <1>7, <1>8, <1>9, <2>1, CallsKept
<1>11. FreedInv'
  BY <1>3, FreedKept DEF SequentialInv, Answering
<1> QED
  BY <1>10, <1>11

LEMMA ReturnSequential ==
    ASSUME SingleThreaded, TokenInv, TokenInv', SequentialInv, NEW c \in Call, ReturnResult(c) \/ ReturnUnexpected(c)
    PROVE  CallInv' /\ FreedInv' /\ ReturnResult(c) /\ npc[c] = "done" /\ txn[ThreadOf[c]].call = c
           /\ executed[c] = nJni[c] /\ outer[c] = Null
<1>1. PICK t \in Thread : t = ThreadOf[c]
  OBVIOUS
<1>2. EndTransaction(c) /\ ExecStatus(c) # {} /\ FlatInv /\ CallInv /\ PendingInv /\ FreedInv
  BY DEF ReturnResult, ReturnUnexpected, SequentialInv
<1>3. /\ top[t] = c /\ cpc[c] \in {"awaitCall", "awaitCallback"} /\ txn[t].tag \in {"reply", "failed"}
      /\ (txn[t].tag = "reply" => ExecStatus(c) = {txn[t].status}) /\ txn'[t].tag = "none"
      /\ UNCHANGED <<managerVars, stackResult, nativeVars, binderVars>>
  BY <1>1, <1>2, Replied
<1>4. txn[t].tag = "reply" /\ txn[t].status \in {WAIT4JNI, FINISHED}
  BY <1>1, <1>2, <1>3 DEF CallInv, OwnMailbox
<1>5. ~ReturnUnexpected(c)
  BY <1>3, <1>4 DEF ReturnUnexpected
<1>6. ReturnResult(c) /\ txn[t].status = FINISHED /\ Return(c, "returned", txn[t].call)
  BY <1>1, <1>3, <1>4, <1>5 DEF ReturnResult
<1>7. npc[c] = "done" /\ txn[t].call = c /\ outer[c] = Null
  <2>1. npc[c] = "done"
    BY <1>2, <1>3, <1>4, <1>6, Alone DEF FlatInv
  <2>2. txn[t].call = c
    BY <1>1, <1>2, <1>3, <1>4, <1>6 DEF CallInv, OwnResult
  <2>3. Open(c)
    BY <1>3 DEF Open
  <2> QED
    BY <1>2, <2>1, <2>2, <2>3 DEF FlatInv
<1>8. executed[c] = nJni[c]
  BY <1>2, <1>7 DEF PendingInv, Carried
<1>9. /\ top'[t] = Null /\ cpc'[c] = "returned" /\ returned'[c] = c /\ UNCHANGED executed
      /\ \A d \in Call : d # c => cpc'[d] = cpc[d] /\ returned'[d] = returned[d]
  BY <1>1, <1>6, <1>7 DEF Return, Goto, TokenInv, TypeOK, ClientTypeOK
<1>10. FreedInv'
  BY <1>2, <1>9, EndFreed DEF Answering
<1>11. UNCHANGED <<npc, nJni, nGot>>
  BY <1>3, ServerUnchanged
<1>12. c # Null
  OBVIOUS
<1>13. OwnMembers(c)'
  BY <1>1, <1>9, <1>12 DEF OwnMembers, Open, InRequest
<1>14. OwnMailbox(c)'
  BY <1>1, <1>7, <1>9, <1>11, <1>12 DEF OwnMailbox
<1>15. OwnResult(c)'
  BY <1>1, <1>2, <1>7, <1>9, <1>11, <1>12 DEF CallInv, OwnResult
<1>16. CallInv'
  <2>1. top[t] \in {c, Null} /\ top'[t] \in {c, Null}
    BY <1>3, <1>9
  <2> QED
    BY <1>2, <1>9, <1>11, <1>13, <1>14, <1>15, <2>1, CallsKept
<1> QED
  BY <1>1, <1>6, <1>7, <1>8, <1>10, <1>16

LEMMA ClientSequential ==
    ASSUME SingleThreaded, Reentrant = FALSE, TokenInv, TokenInv', SequentialInv, NEW c \in Call, Client(c)
    PROVE  CallInv' /\ FreedInv'
<1>1. PICK t \in Thread : t = ThreadOf[c]
  OBVIOUS
<1>2. /\ cpc \in [Call -> ClientPC] /\ top \in [Thread -> Call \cup {Null}] /\ txn \in [Thread -> Parcel] /\ executed \in [Call -> Nat]
      /\ nJni \in [Call -> Nat] /\ args \in [Call -> [env : Thread \cup {Null}, data : Data]] /\ function \in [Call -> Function \cup {Null}]
      /\ sent \in [Call -> Data] /\ nJni[c] \in Nat /\ executed[c] \in Nat
  BY DEF TokenInv, TypeOK, ClientTypeOK, ServerTypeOK, ManagerTypeOK
<1>3. OwnMembers(c) /\ OwnMailbox(c) /\ OwnResult(c) /\ FlatInv /\ PendingInv /\ CallInv /\ FreedInv
  BY DEF SequentialInv, CallInv
<1>4. ASSUME NEW q \in ClientPC, q \notin {"returned", "aborted"}, top[t] = c, UNCHANGED <<top, returned>>, cpc[c] # "returned", Goto(c, q),
             UNCHANGED <<managerVars, stackResult, nativeVars, binderVars>>, txn'[t].tag \notin {"reply", "failed"},
             txn'[t].tag = "CALLBACK" => txn'[t].function = jniCall[t].function /\ txn'[t].data = Answer(c, nJni[c]),
             OwnMembers(c)'
      PROVE  CallInv'
  <2>1. UNCHANGED <<npc, nJni, nGot, nInvoke, mStatus, mJniReady, jniCall, platformInvoke, stackResult, bpc, bThread, bCode>>
    BY <1>4, ServerUnchanged
  <2>2. cpc'[c] = q /\ \A d \in Call : d # c => cpc'[d] = cpc[d]
    BY <1>2, <1>4 DEF Goto
  <2>3. OwnMailbox(c)'
    BY <1>1, <1>3, <1>4, <2>1 DEF OwnMailbox
  <2>4. OwnResult(c)'
    BY <1>1, <1>3, <1>4, <2>1, <2>2 DEF OwnResult
  <2>5. top[t] \in {c, Null} /\ top'[t] \in {c, Null}
    BY <1>4
  <2> QED
    BY <1>3, <1>4, <2>1, <2>2, <2>3, <2>4, <2>5, CallsKept
<1>5. ASSUME NEW p, At(c, p), p \notin {"awaitCall", "awaitCallback"} PROVE top[t] = c /\ cpc[c] = p /\ txn[t].tag = "none"
  BY <1>1, <1>5 DEF At, TokenInv, TransactionInv, Waiting
<1>6. CASE TaintCall(c)
  BY <1>6, TaintCallSequential
<1>7. CASE TransactTaintCall(c)
  <2>1. /\ At(c, "transact") /\ Goto(c, "awaitCall") /\ UNCHANGED <<managerVars, stackResult, nativeVars, binderVars>>
        /\ UNCHANGED <<top, returned, executed, jniEnv, freed, doubleFree>>
    BY <1>7 DEF TransactTaintCall, heapVars, sharedVars
  <2>2. top[t] = c /\ cpc[c] = "transact" /\ cpc'[c] = "awaitCall" /\ txn'[t].tag = "TAINT_CALL" /\ \A d \in Call : d # c => cpc'[d] = cpc[d]
    BY <1>1, <1>2, <1>5, <1>7, <2>1, ParcelFields DEF TransactTaintCall, Goto
  <2>3. OwnMembers(c)'
    BY <1>1, <1>3, <2>1, <2>2 DEF OwnMembers, Open, InRequest
  <2>4. CallInv'
    BY <1>4, <2>1, <2>2, <2>3 DEF ClientPC
  <2>5. FreedInv'
    BY <1>3, <2>1, <2>2, FreedKept DEF Answering
  <2> QED
    BY <2>4, <2>5
<1>8. CASE ReturnResult(c) \/ ReturnUnexpected(c)
  BY <1>8, ReturnSequential
<1>9. CASE ReadRequest(c)
  <2>1. /\ EndTransaction(c) /\ WAIT4JNI \in ExecStatus(c) /\ Goto(c, "dispatch") /\ function'[c] = txn[t].function /\ replydata' = txn[t].data
        /\ UNCHANGED <<top, returned, executed, jniEnv>>
    BY <1>1, <1>2, <1>9 DEF ReadRequest
  <2>2. /\ top[t] = c /\ cpc[c] \in {"awaitCall", "awaitCallback"} /\ txn[t].tag = "reply" /\ txn[t].status = WAIT4JNI /\ txn'[t].tag = "none"
        /\ UNCHANGED <<managerVars, stackResult, nativeVars, binderVars>>
    BY <1>1, <2>1, Replied, Statuses
  <2>3. cpc'[c] = "dispatch" /\ \A d \in Call : d # c => cpc'[d] = cpc[d]
    BY <1>2, <2>1 DEF Goto
  <2>4. npc[c] = "reqWait" /\ mStatus[t] = WAIT4JNI /\ txn[t].function = jniCall[t].function
    BY <1>1, <1>3, <2>2 DEF OwnMailbox
  <2>5. txn[t].data = Args(c, nJni[c])
    <3>1. PICK d \in Call : txn[t].data = Args(d, nJni[d]) /\ npc[d] = "reqWait"
      BY <1>3, <2>2 DEF PendingInv, IsPending
    <3> QED
      BY <1>3, <2>2, <3>1, Alone
  <2>6. OwnMembers(c)'
    <3>1. UNCHANGED <<npc, nJni, mStatus, jniCall>>
      BY <2>2, ServerUnchanged
    <3>2. jniEnv = t
      BY <1>1, <1>3, <2>2 DEF OwnMembers, Open
    <3> QED
      BY <1>1, <2>1, <2>2, <2>3, <2>4, <2>5, <3>1, <3>2 DEF OwnMembers, InRequest
  <2>7. CallInv'
    BY <1>4, <2>1, <2>2, <2>3, <2>6 DEF ClientPC
  <2>8. FreedInv'
    BY <1>3, <2>1, <2>3, EndFreed DEF Answering
  <2> QED
    BY <2>7, <2>8
<1>10. ASSUME UNCHANGED serverVars PROVE UNCHANGED <<txn, npc, nJni, mStatus, jniCall>> /\ UNCHANGED <<managerVars, stackResult, nativeVars, binderVars>>
  BY <1>10 DEF serverVars, managerVars, nativeVars
<1>11. CASE CallJni(c)
  <2>1. /\ At(c, "dispatch") /\ Goto(c, "inJava") /\ args' = [args EXCEPT ![c] = [env |-> jniEnv, data |-> replydata]]
        /\ UNCHANGED serverVars /\ UNCHANGED <<top, returned, jniEnv, replydata, function, freed, doubleFree>>
    BY <1>11 DEF CallJni, sharedVars, heapVars
  <2>2. top[t] = c /\ cpc[c] = "dispatch" /\ txn[t].tag = "none" /\ cpc'[c] = "inJava" /\ \A d \in Call : d # c => cpc'[d] = cpc[d]
    BY <1>2, <1>5, <2>1 DEF Goto
  <2>3. jniEnv = t /\ replydata = Args(c, nJni[c])
    BY <1>1, <1>3, <2>2 DEF OwnMembers, Open
  <2>4. args'[c].env = t /\ args'[c].data = Args(c, nJni[c])
    BY <1>2, <2>1, <2>3
  <2>5. executed[c] + 1 = nJni[c]
    <3>1. PICK d \in Call : replydata = Args(d, nJni[d]) /\ executed[d] + 1 = nJni[d]
      BY <1>3, <2>2 DEF PendingInv, IsPending
    <3>2. nJni[d] \in Nat
      BY <1>2
    <3>3. \A e \in Call, m \in Nat : Args(c, nJni[c]) = Args(e, m) => c = e
      BY <1>2, DataTypes
    <3> QED
      BY <2>3, <3>1, <3>2, <3>3
  <2>6. executed' = [executed EXCEPT ![c] = @ + 1]
    <3>1. replydata # Null /\ replydata[2] = c
      BY <1>2, <2>3, DataTypes
    <3> QED
      BY <1>11, <3>1 DEF CallJni
  <2>7. OwnMembers(c)'
    BY <1>1, <1>3, <1>10, <2>1, <2>2, <2>3, <2>4 DEF OwnMembers, InRequest
  <2>8. CallInv'
    BY <1>4, <1>10, <2>1, <2>2, <2>7 DEF ClientPC
  <2>9. FreedInv'
    <3>1. executed'[c] = executed[c] + 1 /\ \A d \in Call : d # c => executed'[d] = executed[d]
      BY <1>2, <2>6
    <3>2. ASSUME NEW d \in Call, NEW n \in Nat, Args(d, n) \in freed'
          PROVE  n <= executed'[d] /\ (n = executed'[d] => cpc'[d] \notin {"inJava", "result", "freeReply"})
      <4>1. n <= executed[d] /\ (n = executed[d] => cpc[d] \notin {"inJava", "result", "freeReply"})
        BY <1>3, <2>1, <3>2 DEF FreedInv
      <4> QED
        BY <1>2, <2>2, <3>1, <4>1
    <3>3. ASSUME NEW d \in Call, NEW n \in Nat, Answer(d, n) \in freed'
          PROVE  n <= executed'[d] /\ (n = executed'[d] => cpc'[d] \notin Answering)
      <4>1. n <= executed[d] /\ (n = executed[d] => cpc[d] \notin Answering)
        BY <1>3, <2>1, <3>3 DEF FreedInv
      <4> QED
        BY <1>2, <2>2, <3>1, <4>1
    <3>4. ~doubleFree'
      BY <1>3, <2>1 DEF FreedInv
    <3> QED
      BY <3>2, <3>3, <3>4 DEF FreedInv
  <2> QED
    BY <2>8, <2>9
<1>12. CASE ReturnFromJava(c)
  <2>1. /\ At(c, "inJava") /\ Goto(c, "result")
        /\ UNCHANGED serverVars /\ UNCHANGED <<top, returned, jniEnv, replydata, function, args, freed, doubleFree, executed>>
    BY <1>12 DEF ReturnFromJava, sharedVars, heapVars
  <2>2. top[t] = c /\ cpc[c] = "inJava" /\ txn[t].tag = "none" /\ cpc'[c] = "result" /\ \A d \in Call : d # c => cpc'[d] = cpc[d]
    BY <1>2, <1>5, <2>1 DEF Goto
  <2>3. OwnMembers(c)'
    BY <1>1, <1>3, <1>10, <2>1, <2>2 DEF OwnMembers, InRequest, Open
  <2>4. CallInv'
    BY <1>4, <1>10, <2>1, <2>2, <2>3 DEF ClientPC
  <2>5. FreedInv'
    BY <1>3, <2>1, <2>2, FreedKept DEF Answering
  <2> QED
    BY <2>4, <2>5
<1>13. CASE WriteCallbackdata(c)
  <2>1. /\ At(c, "result") /\ Goto(c, "freeReply")
        /\ UNCHANGED serverVars /\ UNCHANGED <<top, returned, jniEnv, replydata, function, freed, doubleFree, executed>>
    BY <1>13 DEF WriteCallbackdata, heapVars
  <2>2. top[t] = c /\ cpc[c] = "result" /\ txn[t].tag = "none" /\ cpc'[c] = "freeReply" /\ \A d \in Call : d # c => cpc'[d] = cpc[d]
    BY <1>2, <1>5, <2>1 DEF Goto
  <2>3. callbackdata' = Answer(c, nJni[c])
    <3>1. args[c].data = Args(c, nJni[c])
      BY <1>1, <1>3, <2>2 DEF OwnMembers
    <3>2. args[c].data # Null /\ args[c].data[2] = c /\ args[c].data[3] = nJni[c]
      BY <1>2, <3>1, DataTypes
    <3> QED
      BY <1>13, <3>2 DEF WriteCallbackdata
  <2>4. OwnMembers(c)'
    BY <1>1, <1>3, <1>10, <2>1, <2>2, <2>3 DEF OwnMembers, InRequest, Open
  <2>5. CallInv'
    BY <1>4, <1>10, <2>1, <2>2, <2>4 DEF ClientPC
  <2>6. FreedInv'
    BY <1>3, <2>1, <2>2, FreedKept DEF Answering
  <2> QED
    BY <2>5, <2>6
<1>14. ASSUME NEW p \in {"freeReply", "callback"}, At(c, p) PROVE executed[c] = nJni[c]
  <2>1. Elsewhere(t)
    BY <1>5, <1>14 DEF Elsewhere
  <2> QED
    BY <1>3, <2>1, ElsewhereIsDelivered, DeliveredIsExecuted
<1>15. CASE FreeReplydata(c)
  <2>1. /\ At(c, "freeReply") /\ Goto(c, "store") /\ Free(replydata)
        /\ UNCHANGED serverVars /\ UNCHANGED <<top, returned, jniEnv, function, callbackdata, executed>>
    BY <1>15 DEF FreeReplydata, sharedVars
  <2>2. top[t] = c /\ cpc[c] = "freeReply" /\ txn[t].tag = "none" /\ cpc'[c] = "store" /\ \A d \in Call : d # c => cpc'[d] = cpc[d]
    BY <1>2, <1>5, <2>1 DEF Goto
  <2>3. OwnMembers(c)'
    BY <1>1, <1>3, <1>10, <2>1, <2>2 DEF OwnMembers, InRequest, Open
  <2>4. CallInv'
    BY <1>4, <1>10, <2>1, <2>2, <2>3 DEF ClientPC
  <2>5. replydata = Args(c, executed[c]) /\ replydata # Null
    BY <1>1, <1>2, <1>3, <1>14, <2>1, <2>2, DataTypes DEF OwnMembers
  <2>6. replydata \notin freed
    BY <1>2, <1>3, <2>2, <2>5 DEF FreedInv
  <2>7. freed' = freed \cup {replydata} /\ ~doubleFree'
    <3>1. freed' = freed \cup {replydata}
      BY <2>1, <2>5 DEF Free
    <3>2. ~doubleFree /\ doubleFree' = (doubleFree \/ replydata \in freed)
      BY <1>3, <2>1 DEF FreedInv, Free
    <3>3. ~doubleFree'
      BY <2>6, <3>2, Zenon
    <3> QED
      BY <3>1, <3>3
  <2>8. FreedInv'
    <3>1. ASSUME NEW d \in Call, NEW n \in Nat, Args(d, n) \in freed'
          PROVE  n <= executed'[d] /\ (n = executed'[d] => cpc'[d] \notin {"inJava", "result", "freeReply"})
      <4>1. CASE Args(d, n) \in freed
        BY <1>3, <2>1, <2>2, <4>1 DEF FreedInv
      <4>2. CASE Args(d, n) = replydata
        <5>1. d = c /\ n = executed[c]
          BY <1>2, <2>5, <4>2, DataTypes
        <5> QED
          BY <1>2, <2>1, <2>2, <5>1
      <4> QED
        BY <2>7, <3>1, <4>1, <4>2
    <3>2. ASSUME NEW d \in Call, NEW n \in Nat, Answer(d, n) \in freed'
          PROVE  n <= executed'[d] /\ (n = executed'[d] => cpc'[d] \notin Answering)
      <4>1. Answer(d, n) \in freed
        BY <1>2, <2>5, <2>7, <3>2, DataTypes
      <4> QED
        BY <1>3, <2>1, <2>2, <4>1 DEF FreedInv, Answering
    <3> QED
      BY <2>7, <3>1, <3>2 DEF FreedInv
  <2> QED
    BY <2>4, <2>8
<1>16. CASE StoreCbdata(c)
  <2>1. /\ At(c, "store") /\ Goto(c, "callback") /\ cbdata' = [function |-> function[c], rawdata |-> callbackdata]
        /\ UNCHANGED serverVars /\ UNCHANGED <<top, returned, jniEnv, function, freed, doubleFree, executed>>
    BY <1>16 DEF StoreCbdata, heapVars
  <2>2. top[t] = c /\ cpc[c] = "store" /\ txn[t].tag = "none" /\ cpc'[c] = "callback" /\ \A d \in Call : d # c => cpc'[d] = cpc[d]
    BY <1>2, <1>5, <2>1 DEF Goto
  <2>3. cbdata'.function = function[c] /\ cbdata'.rawdata = Answer(c, nJni[c])
    BY <1>1, <1>3, <2>1, <2>2 DEF OwnMembers
  <2>4. OwnMembers(c)'
    BY <1>1, <1>3, <1>10, <2>1, <2>2, <2>3 DEF OwnMembers, InRequest, Open
  <2>5. CallInv'
    BY <1>4, <1>10, <2>1, <2>2, <2>4 DEF ClientPC
  <2>6. FreedInv'
    BY <1>3, <2>1, <2>2, FreedKept DEF Answering
  <2> QED
    BY <2>5, <2>6
<1>17. CASE DoCallbackTransaction(c)
  <2>1. /\ At(c, "callback") /\ Goto(c, "awaitCallback") /\ UNCHANGED <<managerVars, stackResult, nativeVars, binderVars>>
        /\ UNCHANGED <<top, returned, executed, jniEnv, freed, doubleFree>>
    BY <1>17 DEF DoCallbackTransaction, heapVars, sharedVars
  <2>2. top[t] = c /\ cpc[c] = "callback" /\ cpc'[c] = "awaitCallback" /\ \A d \in Call : d # c => cpc'[d] = cpc[d]
    BY <1>2, <1>5, <2>1 DEF Goto
  <2>3. /\ txn'[t].tag = "CALLBACK" /\ txn'[t].function = cbdata.function /\ txn'[t].data = cbdata.rawdata /\ sent'[c] = cbdata.rawdata
    BY <1>1, <1>2, <1>17, ParcelFields DEF DoCallbackTransaction
  <2>4. /\ cbdata.function = jniCall[t].function /\ cbdata.rawdata = Answer(c, nJni[c]) /\ npc[c] = "reqWait" /\ mStatus[t] = WAIT4JNI /\ jniEnv = t
    BY <1>1, <1>3, <2>2 DEF OwnMembers, InRequest, Open
  <2>5. OwnMembers(c)'
    BY <1>1, <1>14, <2>1, <2>2, <2>3, <2>4, ServerUnchanged DEF OwnMembers, InRequest
  <2>6. CallInv'
    BY <1>4, <2>1, <2>2, <2>3, <2>4, <2>5 DEF ClientPC
  <2>7. FreedInv'
    BY <1>3, <2>1, <2>2, FreedKept DEF Answering
  <2> QED
    BY <2>6, <2>7
<1> QED
  BY <1>6, <1>7, <1>8, <1>9, <1>11, <1>12, <1>13, <1>15, <1>16, <1>17 DEF Client


LEMMA InitSequential == Init => SequentialInv
<1> SUFFICES ASSUME Init PROVE SequentialInv
  OBVIOUS
<1>1. /\ npc = [c \in Call |-> "none"] /\ cpc = [c \in Call |-> "idle"] /\ nJni = [c \in Call |-> 0] /\ nGot = [c \in Call |-> Null]
      /\ txn = [t \in Thread |-> NoTxn] /\ top = [t \in Thread |-> Null] /\ returned = [c \in Call |-> Null]
      /\ freed = {} /\ doubleFree = FALSE
  BY DEF Init, ServerInit, ManagerInit
<1>2. CallInv
  <2> SUFFICES ASSUME NEW c \in Call PROVE OwnMembers(c) /\ OwnMailbox(c) /\ OwnResult(c)
    BY DEF CallInv
  <2>1. ThreadOf[c] \in Thread /\ c # Null
    OBVIOUS
  <2>2. OwnMembers(c)
    BY <1>1, <2>1 DEF OwnMembers, Open, InRequest
  <2>3. OwnMailbox(c)
    BY <1>1, <2>1 DEF OwnMailbox
  <2>4. OwnResult(c)
    BY <1>1, <2>1 DEF OwnResult
  <2> QED
    BY <2>2, <2>3, <2>4
<1>3. FreedInv
  BY <1>1 DEF FreedInv
<1> QED
  BY <1>2, <1>3, InitFlat, InitPending DEF SequentialInv

LEMMA NextSequential ==
    ASSUME SingleThreaded, Reentrant = FALSE
    PROVE  TokenInv /\ SequentialInv /\ [Next]_vars => SequentialInv'
<1> SUFFICES ASSUME TokenInv, SequentialInv, [Next]_vars PROVE SequentialInv'
  OBVIOUS
<1>1. TokenInv'
  BY NextToken
<1>2. FlatInv' /\ PendingInv'
  BY NextFlat, NextPending DEF SequentialInv
<1>3. CASE UNCHANGED vars
  <2>1. UNCHANGED txn /\ UNCHANGED <<managerVars, stackResult, nativeVars, binderVars>> /\ UNCHANGED clientVars
    BY <1>3 DEF vars, serverVars
  <2>2. UNCHANGED <<mStatus, mReplyReady, mJniReady, jniCall, platformInvoke, stackResult, npc, nInvoke, nJni, nGot,
                    bpc, bThread, bCode, rawdata>>
    BY <2>1, ServerUnchanged
  <2>3. FreedInv'
    BY <2>1, ClientUnchanged, FreedKept DEF SequentialInv
  <2>4. ASSUME NEW c \in Call PROVE OwnMembers(c)' /\ OwnMailbox(c)' /\ OwnResult(c)'
    <3>1. OwnMembers(c)'
      BY <2>1, <2>2, ClientUnchanged DEF SequentialInv, CallInv, OwnMembers, Open
    <3>2. OwnMailbox(c)'
      BY <2>1, <2>2, ClientUnchanged DEF SequentialInv, CallInv, OwnMailbox
    <3>3. OwnResult(c)'
      BY <2>1, <2>2, ClientUnchanged DEF SequentialInv, CallInv, OwnResult
    <3> QED
      BY <3>1, <3>2, <3>3
  <2> QED
    BY <1>2, <2>3, <2>4 DEF SequentialInv, CallInv
<1>4. CASE Next
  <2>1. CASE Service
    BY <1>1, <1>2, <2>1, BinderSequential, NativeSequential DEF Service, SequentialInv
  <2>2. CASE \E c \in Call : Client(c)
    BY <1>1, <1>2, <2>2, ClientSequential DEF SequentialInv
  <2> QED
    BY <1>3, <1>4, <2>1, <2>2 DEF Next, Terminating
<1> QED
  BY <1>3, <1>4

\* One app thread that makes any number of native calls one after the other:
\* members, mailbox and transaction are always those of the one call in
\* progress (taintCall, handleJNIRequest, reqJniCall).
THEOREM SequentialAlways ==
    ASSUME SingleThreaded, Reentrant = FALSE
    PROVE  Spec => []SequentialInv
<1>1. TokenInv /\ SequentialInv /\ [Next]_vars => SequentialInv'
  BY NextSequential, Zenon
<1> QED
  BY <1>1, InitSequential, TokenAlways, PTL DEF Spec

-----------------------------------------------------------------------------
(* ... and the wrapper is transparent.                                     *)

\* The refinement mapping of BpWrapper.
Phase(c) ==
    IF cpc[c] \in {"idle", "returned", "aborted"} THEN cpc[c]
    ELSE IF cpc[c] = "inJava" THEN "java"
    ELSE IF executed[c] > 0 /\ nGot[c] # Answer(c, executed[c]) THEN "answered"
    ELSE "native"
Seen(c) ==
    IF nGot[c] = Null THEN 0
    ELSE IF nGot[c][1] = "answer" /\ nGot[c][2] = c THEN nGot[c][3]
    ELSE Null

\* Whether the native code has the answer to the last request executed.
Informed(c) == executed[c] = 0 \/ nGot[c] = Answer(c, executed[c])
Outside == {"idle", "returned", "aborted", "inJava"}

LEMMA Phases ==
    ASSUME NEW c \in Call, executed[c] \in Nat
    PROVE  /\ cpc[c] \in {"idle", "returned"} => Phase(c) = cpc[c]
           /\ cpc[c] = "inJava" => Phase(c) = "java"
           /\ cpc[c] \notin Outside => Phase(c) = IF Informed(c) THEN "native" ELSE "answered"
<1>1. cpc[c] \in {"idle", "returned"} => Phase(c) = cpc[c]
  BY DEF Phase
<1>2. cpc[c] = "inJava" => Phase(c) = "java"
  BY DEF Phase
<1>3. executed[c] > 0 /\ nGot[c] # Answer(c, executed[c]) <=> ~Informed(c)
  BY DEF Informed
<1>4. cpc[c] \notin Outside => Phase(c) = IF executed[c] > 0 /\ nGot[c] # Answer(c, executed[c]) THEN "answered" ELSE "native"
  BY DEF Phase, Outside
<1> QED
  BY <1>1, <1>2, <1>3, <1>4

LEMMA PhasesNext ==
    ASSUME NEW c \in Call, executed'[c] \in Nat
    PROVE  /\ cpc'[c] \in {"idle", "returned"} => Phase(c)' = cpc'[c]
           /\ cpc'[c] = "inJava" => Phase(c)' = "java"
           /\ cpc'[c] \notin Outside => Phase(c)' = IF Informed(c)' THEN "native" ELSE "answered"
<1>1. cpc'[c] \in {"idle", "returned"} => Phase(c)' = cpc'[c]
  BY DEF Phase
<1>2. cpc'[c] = "inJava" => Phase(c)' = "java"
  BY DEF Phase
<1>3. executed'[c] > 0 /\ nGot'[c] # Answer(c, executed'[c]) <=> ~Informed(c)'
  BY DEF Informed
<1>4. cpc'[c] \notin Outside => Phase(c)' = IF executed'[c] > 0 /\ nGot'[c] # Answer(c, executed'[c]) THEN "answered" ELSE "native"
  BY DEF Phase, Outside
<1> QED
  BY <1>1, <1>2, <1>3, <1>4

\* A step that neither enters nor leaves Java code, for a call that it tells
\* nothing new.
LEMMA PhaseKept ==
    ASSUME NEW c \in Call, executed[c] \in Nat, executed'[c] = executed[c], nGot'[c] = nGot[c],
           cpc'[c] = cpc[c] \/ (cpc[c] \notin Outside /\ cpc'[c] \notin Outside)
    PROVE  Phase(c)' = Phase(c) /\ Seen(c)' = Seen(c)
<1>1. Seen(c)' = Seen(c)
  BY DEF Seen
<1>2. Phase(c)' = Phase(c)
  <2>1. CASE cpc'[c] = cpc[c]
    BY <2>1 DEF Phase
  <2>2. CASE cpc[c] \notin Outside /\ cpc'[c] \notin Outside
    BY <2>2, Phases, PhasesNext DEF Informed
  <2> QED
    BY <2>1, <2>2
<1> QED
  BY <1>1, <1>2

\* How far a call is: its last request is executed or not, and answered or
\* not.
LEMMA Progress ==
    ASSUME TokenInv, SequentialInv, NEW c \in Call
    PROVE  /\ executed[c] \in Nat /\ nJni[c] \in Nat /\ executed[c] <= nJni[c] /\ nJni[c] <= MaxJni
           /\ npc[c] \notin {"reqPost", "reqWait"} => executed[c] = nJni[c]
           /\ npc[c] \notin {"reqPost", "reqWait", "readResult"} => Informed(c)
           /\ npc[c] \in {"reqPost", "reqWait", "readResult"} => nJni[c] > 0 /\ (Informed(c) <=> executed[c] # nJni[c])
<1>1. executed[c] \in Nat /\ nJni[c] \in Nat
  BY DEF TokenInv, TypeOK, ServerTypeOK, ManagerTypeOK, ClientTypeOK
<1>2. executed[c] # nJni[c] => executed[c] + 1 = nJni[c] /\ npc[c] \in {"reqPost", "reqWait"}
  BY DEF SequentialInv, PendingInv, Carried
<1>3. OwnResult(c)
  BY DEF SequentialInv, CallInv
<1>4. ASSUME npc[c] \notin {"reqPost", "reqWait", "readResult"} PROVE Informed(c)
  BY <1>1, <1>2, <1>3, <1>4 DEF OwnResult, Informed
<1>5. ASSUME npc[c] \in {"reqPost", "reqWait", "readResult"} PROVE nJni[c] > 0 /\ (Informed(c) <=> executed[c] # nJni[c])
  <2>1. nJni[c] > 0 /\ nGot[c] = IF nJni[c] = 1 THEN Null ELSE Answer(c, nJni[c] - 1)
    BY <1>3, <1>5 DEF OwnResult
  <2>2. \A m, n \in Nat : Answer(c, m) = Answer(c, n) => m = n
    BY DataTypes
  <2>3. \A m \in Nat : Answer(c, m) # Null
    BY DataTypes
  <2>4. CASE executed[c] # nJni[c]
    <3>1. executed[c] = nJni[c] - 1
      BY <1>1, <1>2, <2>4
    <3> QED
      BY <1>1, <2>1, <2>4, <3>1 DEF Informed
  <2>5. CASE executed[c] = nJni[c]
    BY <1>1, <2>1, <2>2, <2>3, <2>5 DEF Informed
  <2> QED
    BY <2>1, <2>4, <2>5
<1>6. nJni[c] <= MaxJni
  BY <1>3 DEF OwnResult
<1> QED
  BY <1>1, <1>2, <1>4, <1>5, <1>6


\* A step seen from the app: nothing happens, or something to call c.
LEMMA LocalStutters ==
    ASSUME \A d \in Call : Phase(d)' = Phase(d) /\ Seen(d)' = Seen(d), UNCHANGED <<executed, returned, top, outer>>
    PROVE  UNCHANGED Local!vars
<1>1. [d \in Call |-> Phase(d)'] = [d \in Call |-> Phase(d)]
  OBVIOUS
<1>2. [d \in Call |-> Seen(d)'] = [d \in Call |-> Seen(d)]
  OBVIOUS
<1> QED
  BY <1>1, <1>2, Zenon DEF Local!vars, Phase, Seen

LEMMA LocalPhase ==
    ASSUME NEW c \in Call, NEW to, Phase(c)' = to, \A d \in Call : d # c => Phase(d)' = Phase(d)
    PROVE  [d \in Call |-> Phase(d)'] = [[d \in Call |-> Phase(d)] EXCEPT ![c] = to]
  OBVIOUS

LEMMA LocalSeen ==
    ASSUME \A d \in Call : Seen(d)' = Seen(d)
    PROVE  [d \in Call |-> Seen(d)'] = [d \in Call |-> Seen(d)]
  OBVIOUS

LEMMA LocalInvoke ==
    ASSUME NEW c \in Call, Phase(c) = "idle", Phase(c)' = "native", \A d \in Call : d # c => Phase(d)' = Phase(d),
           \A d \in Call : Seen(d)' = Seen(d), top[ThreadOf[c]] = Null, top' = [top EXCEPT ![ThreadOf[c]] = c],
           outer' = [outer EXCEPT ![c] = top[ThreadOf[c]]], UNCHANGED <<executed, returned>>
    PROVE  Local!Next
<1>1. [d \in Call |-> Phase(d)'] = [[d \in Call |-> Phase(d)] EXCEPT ![c] = "native"]
  BY LocalPhase
<1>2. [d \in Call |-> Seen(d)'] = [d \in Call |-> Seen(d)]
  BY LocalSeen
<1>3. [d \in Call |-> Phase(d)][c] = "idle"
  OBVIOUS
<1>4. Local!Invoke(c)
  BY <1>1, <1>2, <1>3, Zenon DEF Local!Invoke, Phase, Seen
<1> QED
  BY <1>4 DEF Local!Next

LEMMA LocalCallJava ==
    ASSUME NEW c \in Call, Phase(c) = "native", Phase(c)' = "java", \A d \in Call : d # c => Phase(d)' = Phase(d),
           \A d \in Call : Seen(d)' = Seen(d), top[ThreadOf[c]] = c, executed[c] < MaxJni, executed' = [executed EXCEPT ![c] = @ + 1],
           UNCHANGED <<top, outer, returned>>
    PROVE  Local!Next
<1>1. [d \in Call |-> Phase(d)'] = [[d \in Call |-> Phase(d)] EXCEPT ![c] = "java"]
  BY LocalPhase
<1>2. [d \in Call |-> Seen(d)'] = [d \in Call |-> Seen(d)]
  BY LocalSeen
<1>3. [d \in Call |-> Phase(d)][c] = "native"
  OBVIOUS
<1>4. Local!CallJava(c)
  BY <1>1, <1>2, <1>3, Zenon DEF Local!CallJava, Local!Step, Phase, Seen
<1> QED
  BY <1>4 DEF Local!Next

LEMMA LocalJavaReturns ==
    ASSUME NEW c \in Call, Phase(c) = "java", Phase(c)' = "answered", \A d \in Call : d # c => Phase(d)' = Phase(d),
           \A d \in Call : Seen(d)' = Seen(d), top[ThreadOf[c]] = c, UNCHANGED <<executed, top, outer, returned>>
    PROVE  Local!Next
<1>1. [d \in Call |-> Phase(d)'] = [[d \in Call |-> Phase(d)] EXCEPT ![c] = "answered"]
  BY LocalPhase
<1>2. [d \in Call |-> Seen(d)'] = [d \in Call |-> Seen(d)]
  BY LocalSeen
<1>3. [d \in Call |-> Phase(d)][c] = "java"
  OBVIOUS
<1>4. Local!JavaReturns(c)
  BY <1>1, <1>2, <1>3, Zenon DEF Local!JavaReturns, Local!Step, Phase, Seen
<1> QED
  BY <1>4 DEF Local!Next

LEMMA LocalResume ==
    ASSUME NEW c \in Call, Phase(c) = "answered", Phase(c)' = "native", \A d \in Call : d # c => Phase(d)' = Phase(d),
           Seen(c)' = executed[c], \A d \in Call : d # c => Seen(d)' = Seen(d), top[ThreadOf[c]] = c,
           UNCHANGED <<executed, top, outer, returned>>
    PROVE  Local!Next
<1>1. [d \in Call |-> Phase(d)'] = [[d \in Call |-> Phase(d)] EXCEPT ![c] = "native"]
  BY LocalPhase
<1>2. [d \in Call |-> Seen(d)'] = [[d \in Call |-> Seen(d)] EXCEPT ![c] = executed[c]]
  OBVIOUS
<1>3. [d \in Call |-> Phase(d)][c] = "answered"
  OBVIOUS
<1>4. Local!Resume(c)
  BY <1>1, <1>2, <1>3, Zenon DEF Local!Resume, Local!Step, Phase, Seen
<1> QED
  BY <1>4 DEF Local!Next

LEMMA LocalReturn ==
    ASSUME NEW c \in Call, Phase(c) = "native", Phase(c)' = "returned", \A d \in Call : d # c => Phase(d)' = Phase(d),
           \A d \in Call : Seen(d)' = Seen(d), top[ThreadOf[c]] = c, returned' = [returned EXCEPT ![c] = c],
           top' = [top EXCEPT ![ThreadOf[c]] = outer[c]], UNCHANGED <<executed, outer>>
    PROVE  Local!Next
<1>1. [d \in Call |-> Phase(d)'] = [[d \in Call |-> Phase(d)] EXCEPT ![c] = "returned"]
  BY LocalPhase
<1>2. [d \in Call |-> Seen(d)'] = [d \in Call |-> Seen(d)]
  BY LocalSeen
<1>3. [d \in Call |-> Phase(d)][c] = "native"
  OBVIOUS
<1>4. Local!Return(c)
  BY <1>1, <1>2, <1>3, Zenon DEF Local!Return, Local!Step, Phase, Seen
<1> QED
  BY <1>4 DEF Local!Next


LEMMA NativeLocal ==
    ASSUME SingleThreaded, TokenInv, TokenInv', SequentialInv, SequentialInv', NEW c \in Call, NativeThread(c), UNCHANGED clientVars
    PROVE  Local!Next \/ UNCHANGED Local!vars
<1>1. UNCHANGED <<top, outer, cpc, executed, returned>>
  BY ClientUnchanged
<1>2. \A d \in Call : executed[d] \in Nat
  BY Progress
<1>3. ASSUME NEW d \in Call, nGot'[d] = nGot[d] PROVE Phase(d)' = Phase(d) /\ Seen(d)' = Seen(d)
  BY <1>1, <1>2, <1>3, PhaseKept
<1>4. CASE ReadJniResult(c)
  <2>1. /\ npc[c] = "readResult" /\ nGot'[c] = jniCall[ThreadOf[c]].param_data /\ \A d \in Call : d # c => nGot'[d] = nGot[d]
    BY <1>4 DEF ReadJniResult, TokenInv, TypeOK, ServerTypeOK, ManagerTypeOK
  <2>2. executed[c] = nJni[c] /\ ~Informed(c)
    BY <2>1, Progress
  <2>3. nGot'[c] = Answer(c, executed[c])
    BY <2>1, <2>2 DEF SequentialInv, CallInv, OwnMailbox
  <2>4. top[ThreadOf[c]] = c /\ cpc[c] \in {"awaitCall", "awaitCallback"}
    <3>1. txn[ThreadOf[c]].tag = "serving"
      BY <2>1 DEF TokenInv, NativeInv, Rest
    <3>2. top[ThreadOf[c]] = c
      BY <2>1, Alone DEF SequentialInv
    <3> QED
      BY <3>1, <3>2, WaitingTop
  <2>5. Informed(c)'
    BY <1>1, <2>3 DEF Informed
  <2>6. Phase(c) = "answered" /\ Phase(c)' = "native"
    BY <1>1, <1>2, <2>2, <2>4, <2>5, Phases, PhasesNext DEF Outside
  <2>7. Seen(c)' = executed[c]
    BY <1>2, <2>3, DataTypes DEF Seen
  <2> QED
    BY <1>1, <1>3, <2>1, <2>4, <2>6, <2>7, LocalResume
<1>5. CASE ~ReadJniResult(c)
  <2>1. UNCHANGED nGot
    BY <1>5 DEF NativeThread, Native, RunNative, ReqJniCall, PostRequest, ResumeAfterJni, InvokeReturns, SignalResult, PostResult
  <2> QED
    BY <1>1, <1>3, <2>1, LocalStutters
<1> QED
  BY <1>4, <1>5

LEMMA BinderLocal ==
    ASSUME TokenInv, SequentialInv, NEW b \in Binder, BinderThread(b), UNCHANGED clientVars
    PROVE  UNCHANGED Local!vars
<1>1. UNCHANGED <<top, outer, cpc, executed, returned>>
  BY ClientUnchanged
<1>2. UNCHANGED nGot
  BY DEF BinderThread, OnTaintCall, StartExec, OnCallback, OnCallbackNotWaiting, OnCallbackMismatch, ReplyIsReady, WaitReplyReady,
     ReplyTaintCall, ReplyCallback, Leave, nativeVars
<1>3. \A d \in Call : Phase(d)' = Phase(d) /\ Seen(d)' = Seen(d)
  BY <1>1, <1>2, Progress, PhaseKept
<1> QED
  BY <1>1, <1>3, LocalStutters

LEMMA ClientLocal ==
    ASSUME SingleThreaded, Reentrant = FALSE, TokenInv, TokenInv', SequentialInv, SequentialInv', NEW c \in Call, Client(c)
    PROVE  Local!Next \/ UNCHANGED Local!vars
<1>1. /\ cpc \in [Call -> ClientPC] /\ executed \in [Call -> Nat] /\ executed' \in [Call -> Nat]
  BY DEF TokenInv, TypeOK, ClientTypeOK
<1>2. UNCHANGED <<nGot, npc, nJni>>
  BY ServerUnchanged DEF Client, TaintCall, TransactTaintCall, ReturnResult, ReturnUnexpected, ReadRequest, EndTransaction, CallJni,
     ReturnFromJava, WriteCallbackdata, FreeReplydata, StoreCbdata, DoCallbackTransaction, serverVars
<1>3. \A d \in Call : Seen(d)' = Seen(d)
  BY <1>2 DEF Seen
<1>4. ASSUME NEW q, Goto(c, q) PROVE cpc'[c] = q /\ \A d \in Call : d # c => cpc'[d] = cpc[d]
  BY <1>1, <1>4 DEF Goto
<1>5. ASSUME NEW q, Goto(c, q), \A d \in Call : d # c => executed'[d] = executed[d] PROVE \A d \in Call : d # c => Phase(d)' = Phase(d)
  BY <1>1, <1>2, <1>4, <1>5, PhaseKept
<1>6. ASSUME NEW q, Goto(c, q), cpc[c] \notin Outside, q \notin Outside, UNCHANGED <<executed, returned, top, outer>> PROVE UNCHANGED Local!vars
  <2>1. Phase(c)' = Phase(c)
    BY <1>1, <1>2, <1>4, <1>6, PhaseKept
  <2> QED
    BY <1>3, <1>5, <1>6, <2>1, LocalStutters
<1>7. CASE TaintCall(c)
  <2>1. /\ cpc[c] = "idle" /\ Goto(c, "transact") /\ top[ThreadOf[c]] = Null /\ top' = [top EXCEPT ![ThreadOf[c]] = c]
        /\ outer' = [outer EXCEPT ![c] = top[ThreadOf[c]]] /\ UNCHANGED <<executed, returned>>
    BY <1>7 DEF TaintCall
  <2>2. npc[c] = "none"
    BY <2>1 DEF TokenInv, TransactionInv
  <2>3. Informed(c)'
    BY <1>2, <2>1, <2>2, Progress DEF Informed
  <2>4. Phase(c) = "idle" /\ Phase(c)' = "native"
    BY <1>1, <1>4, <2>1, <2>3, Phases, PhasesNext DEF Outside
  <2> QED
    BY <1>3, <1>5, <2>1, <2>4, LocalInvoke
<1>8. CASE ReturnResult(c) \/ ReturnUnexpected(c)
  <2>1. ReturnResult(c) /\ npc[c] = "done" /\ txn[ThreadOf[c]].call = c
    BY <1>8, ReturnSequential
  <2>2. /\ Goto(c, "returned") /\ returned' = [returned EXCEPT ![c] = c] /\ top' = [top EXCEPT ![ThreadOf[c]] = outer[c]]
        /\ UNCHANGED <<executed, outer>>
    BY <2>1 DEF ReturnResult, Return
  <2>3. top[ThreadOf[c]] = c /\ cpc[c] \in {"awaitCall", "awaitCallback"}
    BY <2>1 DEF ReturnResult, EndTransaction, At
  <2>4. Phase(c) = "native" /\ Phase(c)' = "returned"
    BY <1>1, <1>4, <2>1, <2>2, <2>3, Progress, Phases, PhasesNext DEF Outside
  <2> QED
    BY <1>3, <1>5, <2>2, <2>3, <2>4, LocalReturn
<1>9. CASE CallJni(c)
  <2>1. At(c, "dispatch") /\ Goto(c, "inJava") /\ UNCHANGED <<top, outer, returned>>
    BY <1>9 DEF CallJni
  <2>2. npc[c] = "reqWait" /\ replydata = Args(c, nJni[c])
    BY <2>1 DEF At, SequentialInv, CallInv, OwnMembers, InRequest
  <2>3. replydata # Null /\ replydata[2] = c
    BY <2>2, Progress, DataTypes
  <2>4. executed' = [executed EXCEPT ![c] = @ + 1]
    BY <1>9, <2>3 DEF CallJni
  <2>5. executed[c] # nJni[c]
    <3>1. executed'[c] = executed[c] + 1 /\ nJni'[c] = nJni[c]
      BY <1>1, <1>2, <2>4
    <3>2. executed'[c] # nJni'[c] => executed'[c] + 1 = nJni'[c]
      BY DEF SequentialInv, PendingInv
    <3>3. executed[c] # nJni[c] => executed[c] + 1 = nJni[c]
      BY DEF SequentialInv, PendingInv
    <3> QED
      BY <1>1, <3>1, <3>2, <3>3, Progress
  <2>6. executed[c] < MaxJni /\ Informed(c)
    BY <2>2, <2>5, Progress
  <2>7. Phase(c) = "native" /\ Phase(c)' = "java"
    BY <1>1, <1>4, <2>1, <2>6, Phases, PhasesNext DEF Outside, At
  <2>8. \A d \in Call : d # c => executed'[d] = executed[d]
    BY <1>1, <2>4
  <2> QED
    BY <1>3, <1>5, <2>1, <2>4, <2>6, <2>7, <2>8, LocalCallJava DEF At
<1>10. CASE ReturnFromJava(c)
  <2>1. At(c, "inJava") /\ Goto(c, "result") /\ UNCHANGED <<top, outer, returned, executed>>
    BY <1>10 DEF ReturnFromJava
  <2>2. npc[c] = "reqWait"
    BY <2>1 DEF At, SequentialInv, CallInv, OwnMembers, InRequest
  <2>3. executed[c] = nJni[c]
    <3>1. txn[ThreadOf[c]].tag = "none"
      BY <2>1 DEF At, TokenInv, TransactionInv, Waiting
    <3>2. Elsewhere(ThreadOf[c])
      BY <2>1, <3>1 DEF Elsewhere, At
    <3> QED
      BY <3>2, ElsewhereIsDelivered, DeliveredIsExecuted DEF SequentialInv
  <2>4. ~Informed(c)'
    <3>1. ~Informed(c)
      BY <2>2, <2>3, Progress
    <3> QED
      BY <1>2, <2>1, <3>1 DEF Informed
  <2>5. Phase(c) = "java" /\ Phase(c)' = "answered"
    BY <1>1, <1>4, <2>1, <2>4, Phases, PhasesNext DEF Outside, At
  <2> QED
    BY <1>3, <1>5, <2>1, <2>5, LocalJavaReturns DEF At
<1>11. CASE ReadRequest(c)
  <2>1. Goto(c, "dispatch") /\ UNCHANGED <<executed, returned, top, outer>> /\ cpc[c] \in {"awaitCall", "awaitCallback"}
    BY <1>11 DEF ReadRequest, EndTransaction, At
  <2> QED
    BY <1>6, <2>1 DEF Outside
<1>12. CASE TransactTaintCall(c) \/ WriteCallbackdata(c) \/ FreeReplydata(c) \/ StoreCbdata(c) \/ DoCallbackTransaction(c)
  <2>1. PICK q \in {"awaitCall", "freeReply", "store", "callback", "awaitCallback"} :
            Goto(c, q) /\ UNCHANGED <<executed, returned, top, outer>> /\ cpc[c] \in {"transact", "result", "freeReply", "store", "callback"}
    BY <1>12 DEF TransactTaintCall, WriteCallbackdata, FreeReplydata, StoreCbdata, DoCallbackTransaction, At
  <2> QED
    BY <1>6, <2>1 DEF Outside
<1> QED
  BY <1>7, <1>8, <1>9, <1>10, <1>11, <1>12 DEF Client

LEMMA NextLocal ==
    ASSUME SingleThreaded, Reentrant = FALSE
    PROVE  TokenInv /\ TokenInv' /\ SequentialInv /\ SequentialInv' /\ [Next]_vars => [Local!Next]_(Local!vars)
<1> SUFFICES ASSUME TokenInv, TokenInv', SequentialInv, SequentialInv', [Next]_vars PROVE Local!Next \/ UNCHANGED Local!vars
  OBVIOUS
<1>1. CASE UNCHANGED vars
  <2>1. UNCHANGED <<top, outer, cpc, executed, returned, nGot>>
    BY <1>1, ServerUnchanged, ClientUnchanged DEF vars, serverVars
  <2>2. \A d \in Call : Phase(d)' = Phase(d) /\ Seen(d)' = Seen(d)
    BY <2>1, Progress, PhaseKept
  <2> QED
    BY <2>1, <2>2, LocalStutters
<1>2. CASE Next
  <2>1. CASE Service
    BY <2>1, NativeLocal, BinderLocal DEF Service
  <2>2. CASE \E c \in Call : Client(c)
    BY <2>2, ClientLocal
  <2> QED
    BY <1>1, <1>2, <2>1, <2>2 DEF Next, Terminating
<1> QED
  BY <1>1, <1>2

LEMMA InitLocal == Init => Local!Init
<1> SUFFICES ASSUME Init PROVE Local!Init
  OBVIOUS
<1>1. /\ cpc = [c \in Call |-> "idle"] /\ nGot = [c \in Call |-> Null] /\ executed = [c \in Call |-> 0] /\ returned = [c \in Call |-> Null]
      /\ top = [t \in Thread |-> Null] /\ outer = [c \in Call |-> Null]
  BY DEF Init, ServerInit, ManagerInit
<1>2. [c \in Call |-> Phase(c)] = [c \in Call |-> "idle"]
  BY <1>1 DEF Phase
<1>3. [c \in Call |-> Seen(c)] = [c \in Call |-> 0]
  BY <1>1 DEF Seen
<1> QED
  BY <1>1, <1>2, <1>3, Zenon DEF Local!Init, Phase, Seen

\* One app thread that makes any number of native calls one after the other:
\* the wrapper is transparent.  Every step of the two processes is a step of a
\* call made in the process, or the app does not notice it.
THEOREM WrapperIsTransparent ==
    ASSUME SingleThreaded, Reentrant = FALSE
    PROVE  Spec => ImplementsLocalCall
<1>1. TokenInv /\ TokenInv' /\ SequentialInv /\ SequentialInv' /\ [Next]_vars => [Local!Next]_(Local!vars)
  BY NextLocal, Zenon
<1>2. Spec => []SequentialInv
  BY SequentialAlways, Zenon
<1> QED
  BY <1>1, <1>2, InitLocal, TokenAlways, PTL DEF Spec, ImplementsLocalCall, Local!Spec
=============================================================================
