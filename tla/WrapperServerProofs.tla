------------------------ MODULE WrapperServerProofs ------------------------
EXTENDS WrapperServer, TLAPS

USE ThreadAssumption, BoundAssumption, NullAssumption

\* The arguments and the answer of a request are data, carry their request's
\* call and number, and differ from each other.
LEMMA DataTypes ==
    ASSUME NEW c \in Call, NEW n \in Nat
    PROVE  /\ Args(c, n) \in Data /\ Answer(c, n) \in Data
           /\ Args(c, n)[2] = c /\ Args(c, n)[3] = n
           /\ Answer(c, n) \in {"answer"} \X Call \X Nat
           /\ Args(c, n) # Null /\ Answer(c, n) # Null
           /\ Args(c, n) \notin {"answer"} \X Call \X Nat
BY DEF Args, Answer, Data

\* Every parcel that app and service build has the type of a parcel.
LEMMA ParcelTypes ==
    /\ NoTxn \in Parcel
    /\ \A c \in Call : TaintCallTxn(c) \in Parcel
    /\ \A f \in Function \cup {Null}, d \in Data : CallbackTxn(f, d) \in Parcel
    /\ Serving \in Parcel
    /\ Failed \in Parcel
    /\ \A s \in Status : StatusReply(s) \in Parcel
    /\ \A v \in Call \cup {Null} : ResultReply(v) \in Parcel
    /\ \A t \in Thread : jniCall \in [Thread -> JniCall] => RequestReply(t) \in Parcel
BY DEF Parcel, MakeParcel, NoTxn, TaintCallTxn, CallbackTxn, Serving, Failed, StatusReply,
       ResultReply, RequestReply, Status, INIT, WAIT4EXEC, WAIT4JNI, FINISHED, ERROR, Data, JniCall

\* Before the first native call no thread has a token, and the invariant holds.
LEMMA InitIInv == Init => IInv
<1> SUFFICES ASSUME Init PROVE IInv
  OBVIOUS
<1>1. TypeOK
  BY ParcelTypes DEF Init, ServerInit, ManagerInit, TypeOK, ServerTypeOK, ManagerTypeOK, JniCall,
     PlatformInvoke, NativePC, Status, INIT, Data
<1>2. NoCallInv /\ HandlerInv /\ RestInv
  BY DEF Init, ServerInit, ManagerInit, NoCallInv, HandlerInv, RestInv, Semaphores, NoTxn,
         MakeParcel
<1>3. SentInv /\ RunningInv /\ WaitingInv /\ EndedInv /\ MailboxInv /\ InvokeInv
      /\ AnswerIsOwn
  BY DEF Init, ServerInit, ManagerInit, SentInv, RunningInv, WaitingInv, EndedInv, MailboxInv,
     InvokeInv, AnswerIsOwn
<1> QED
  BY <1>1, <1>2, <1>3 DEF IInv

(***************************************************************************)
(* Where the token of a thread id is, read off the transaction of the app   *)
(* thread and off the position of a handler.                                *)
(***************************************************************************)
LEMMA Token ==
    ASSUME IInv, NEW t \in Thread, txn[t].tag # "none"
    PROVE  /\ active[t] \in Call /\ ThreadOf[active[t]] = t
           /\ txn[t].tag = "TAINT_CALL" => npc[active[t]] = "none" /\ txn[t].call = active[t]
           /\ txn[t].tag = "CALLBACK" => npc[active[t]] = "reqWait"
           /\ txn[t].tag = "reply" => \/ npc[active[t]] = "reqWait" /\ txn[t].status = WAIT4JNI
                                      \/ npc[active[t]] = "done" /\ txn[t].status = FINISHED
           /\ txn[t].tag # "failed"
           /\ txn[t].tag = "serving" => npc[active[t]] # "none"
<1>1. active[t] \in Call /\ ThreadOf[active[t]] = t
  BY DEF IInv, TypeOK, NoCallInv
<1>2. npc[active[t]] \in NativePC
  BY <1>1 DEF IInv, TypeOK, ServerTypeOK, ManagerTypeOK
<1>3. CASE npc[active[t]] = "none"
  BY <1>1, <1>3 DEF IInv, SentInv
<1>4. CASE npc[active[t]] = "reqWait"
  BY <1>1, <1>4 DEF IInv, WaitingInv
<1>5. CASE npc[active[t]] = "done"
  BY <1>1, <1>5 DEF IInv, EndedInv
<1>6. CASE npc[active[t]] \notin {"none", "reqWait", "done"}
  BY <1>1, <1>2, <1>6 DEF IInv, RunningInv, NativePC
<1> QED
  BY <1>3, <1>4, <1>5, <1>6

\* A handler that builds a reply serves a thread whose native side has just
\* posted: the call waits for a JNI answer or has ended.
LEMMA HandlerToken ==
    ASSUME IInv, NEW b \in Binder, bpc[b] = "reply"
    PROVE  LET t == bThread[b] IN
           /\ t \in Thread /\ txn[t].tag = "serving"
           /\ active[t] \in Call /\ ThreadOf[active[t]] = t
           /\ Semaphores(t, 0, 0)
           /\ \/ npc[active[t]] = "reqWait" /\ mStatus[t] = WAIT4JNI
              \/ npc[active[t]] = "done" /\ mStatus[t] = FINISHED
<1> DEFINE t == bThread[b]
<1>1. t \in Thread /\ txn[t].tag = "serving"
  BY DEF IInv, HandlerInv
<1>2. active[t] \in Call /\ ThreadOf[active[t]] = t /\ npc[active[t]] # "none"
  BY <1>1, Token
<1>3. npc[active[t]] \in NativePC
  BY <1>2 DEF IInv, TypeOK, ServerTypeOK, ManagerTypeOK
<1>4. ~HandlersAt(t, "waitReply")
  BY DEF HandlersAt, Serves
<1>5. npc[active[t]] \in {"reqWait", "done"}
  BY <1>2, <1>3, <1>4 DEF IInv, RunningInv, NativePC
<1>6. CASE npc[active[t]] = "reqWait"
  BY <1>1, <1>2, <1>4, <1>6 DEF IInv, WaitingInv
<1>7. CASE npc[active[t]] = "done"
  BY <1>1, <1>2, <1>4, <1>7 DEF IInv, EndedInv
<1> QED
  BY <1>1, <1>2, <1>5, <1>6, <1>7

\* RunNative: the new thread reads its parameters while the handler that wrote
\* them still waits.
LEMMA RunNativeStep ==
    ASSUME IInv, NEW c \in Call, RunNative(c),
           UNCHANGED <<txn, binderVars>>, UNCHANGED <<active, returned>>
    PROVE  IInv'
<1> USE DEF IInv, RunNative, managerVars, nativeVars, binderVars
<1>1. ThreadOf[c] \in Thread /\ active[ThreadOf[c]] = c
  BY DEF RestInv
<1>2. TypeOK'
  BY <1>1 DEF TypeOK, ServerTypeOK, ManagerTypeOK, NativePC, Status
<1>3. NoCallInv' /\ HandlerInv'
  BY <1>1 DEF TypeOK, ServerTypeOK, ManagerTypeOK, NoCallInv, HandlerInv, RestInv, RunningInv,
       WaitingInv, Semaphores
<1>4. RestInv' /\ SentInv'
  BY <1>1 DEF TypeOK, ServerTypeOK, ManagerTypeOK, NoCallInv, RestInv, SentInv, RunningInv,
       WaitingInv, Semaphores
<1>5. RunningInv'
  BY <1>1 DEF TypeOK, ServerTypeOK, ManagerTypeOK, RestInv, RunningInv, WaitingInv, HandlerInv,
       Semaphores, HandlersAt, Serves
<1>6. WaitingInv'
  BY <1>1 DEF TypeOK, ServerTypeOK, ManagerTypeOK, RestInv, RunningInv, WaitingInv, MailboxInv,
       HandlerInv, Semaphores, HandlersAt, Serves
<1>7. EndedInv'
  BY <1>1 DEF TypeOK, ServerTypeOK, ManagerTypeOK, RestInv, RunningInv, EndedInv, MailboxInv,
       HandlerInv, Semaphores, HandlersAt, Serves
<1>8. MailboxInv'
  BY <1>1 DEF TypeOK, ServerTypeOK, ManagerTypeOK, RestInv, MailboxInv, WaitingInv
<1>9. InvokeInv'
  BY <1>1 DEF TypeOK, ServerTypeOK, ManagerTypeOK, RestInv, InvokeInv
<1>10. AnswerIsOwn'
  BY <1>1 DEF TypeOK, ServerTypeOK, ManagerTypeOK, AnswerIsOwn, MailboxInv, InvokeInv
<1> QED
  BY <1>2, <1>3, <1>4, <1>5, <1>6, <1>7, <1>8, <1>9, <1>10

\* PostRequest: the token goes from the native thread into mReplyReady.
LEMMA PostRequestStep ==
    ASSUME IInv, NEW c \in Call, PostRequest(c),
           UNCHANGED <<txn, binderVars>>, UNCHANGED <<active, returned>>
    PROVE  IInv'
<1> USE DEF IInv, PostRequest, SemPost, managerVars, nativeVars, binderVars
<1>1. ThreadOf[c] \in Thread /\ active[ThreadOf[c]] = c
  BY DEF RestInv
<1>2. TypeOK'
  BY <1>1 DEF TypeOK, ServerTypeOK, ManagerTypeOK, NativePC, Status
<1>3. NoCallInv' /\ HandlerInv'
  BY <1>1 DEF TypeOK, ServerTypeOK, ManagerTypeOK, NoCallInv, HandlerInv, RestInv, RunningInv,
       WaitingInv, Semaphores
<1>4. RestInv' /\ SentInv'
  BY <1>1 DEF TypeOK, ServerTypeOK, ManagerTypeOK, NoCallInv, RestInv, SentInv, RunningInv,
       WaitingInv, Semaphores
<1>5. RunningInv'
  BY <1>1 DEF TypeOK, ServerTypeOK, ManagerTypeOK, RestInv, RunningInv, WaitingInv, HandlerInv,
       Semaphores, HandlersAt, Serves
<1>6. WaitingInv'
  BY <1>1 DEF TypeOK, ServerTypeOK, ManagerTypeOK, RestInv, RunningInv, WaitingInv, MailboxInv,
       HandlerInv, Semaphores, HandlersAt, Serves
<1>7. EndedInv'
  BY <1>1 DEF TypeOK, ServerTypeOK, ManagerTypeOK, RestInv, RunningInv, EndedInv, MailboxInv,
       HandlerInv, Semaphores, HandlersAt, Serves
<1>8. MailboxInv'
  BY <1>1 DEF TypeOK, ServerTypeOK, ManagerTypeOK, RestInv, MailboxInv, WaitingInv
<1>9. InvokeInv'
  BY <1>1 DEF TypeOK, ServerTypeOK, ManagerTypeOK, RestInv, InvokeInv
<1>10. AnswerIsOwn'
  BY <1>1 DEF TypeOK, ServerTypeOK, ManagerTypeOK, AnswerIsOwn, MailboxInv, InvokeInv
<1> QED
  BY <1>2, <1>3, <1>4, <1>5, <1>6, <1>7, <1>8, <1>9, <1>10

\* ResumeAfterJni: the native thread takes the token from mJniReady.
LEMMA ResumeAfterJniStep ==
    ASSUME IInv, NEW c \in Call, ResumeAfterJni(c),
           UNCHANGED <<txn, binderVars>>, UNCHANGED <<active, returned>>
    PROVE  IInv'
<1> USE DEF IInv, ResumeAfterJni, SemWait, managerVars, nativeVars, binderVars
<1>1. ThreadOf[c] \in Thread /\ active[ThreadOf[c]] = c
  BY DEF RestInv
<1>2. TypeOK'
  BY <1>1 DEF TypeOK, ServerTypeOK, ManagerTypeOK, NativePC, Status
<1>3. NoCallInv' /\ HandlerInv'
  BY <1>1 DEF TypeOK, ServerTypeOK, ManagerTypeOK, NoCallInv, HandlerInv, RestInv, RunningInv,
       WaitingInv, Semaphores
<1>4. RestInv' /\ SentInv'
  BY <1>1 DEF TypeOK, ServerTypeOK, ManagerTypeOK, NoCallInv, RestInv, SentInv, RunningInv,
       WaitingInv, Semaphores
<1>5. RunningInv'
  BY <1>1 DEF TypeOK, ServerTypeOK, ManagerTypeOK, RestInv, RunningInv, WaitingInv, HandlerInv,
       Semaphores, HandlersAt, Serves
<1>6. WaitingInv'
  BY <1>1 DEF TypeOK, ServerTypeOK, ManagerTypeOK, RestInv, RunningInv, WaitingInv, MailboxInv,
       HandlerInv, Semaphores, HandlersAt, Serves
<1>7. EndedInv'
  BY <1>1 DEF TypeOK, ServerTypeOK, ManagerTypeOK, RestInv, RunningInv, EndedInv, MailboxInv,
       HandlerInv, Semaphores, HandlersAt, Serves
<1>8. MailboxInv'
  BY <1>1 DEF TypeOK, ServerTypeOK, ManagerTypeOK, RestInv, MailboxInv, WaitingInv, Semaphores
<1>9. InvokeInv'
  BY <1>1 DEF TypeOK, ServerTypeOK, ManagerTypeOK, RestInv, InvokeInv
<1>10. AnswerIsOwn'
  BY <1>1 DEF TypeOK, ServerTypeOK, ManagerTypeOK, AnswerIsOwn, MailboxInv, InvokeInv
<1> QED
  BY <1>2, <1>3, <1>4, <1>5, <1>6, <1>7, <1>8, <1>9, <1>10

\* ReadJniResult: the mailbox holds the answer to this thread's last request.
LEMMA ReadJniResultStep ==
    ASSUME IInv, NEW c \in Call, ReadJniResult(c),
           UNCHANGED <<txn, binderVars>>, UNCHANGED <<active, returned>>
    PROVE  IInv'
<1> USE DEF IInv, ReadJniResult, managerVars, nativeVars, binderVars
<1>1. ThreadOf[c] \in Thread /\ active[ThreadOf[c]] = c
  BY DEF RestInv
<1>2. TypeOK'
  BY <1>1 DEF TypeOK, ServerTypeOK, ManagerTypeOK, NativePC, JniCall
<1>3. NoCallInv' /\ HandlerInv'
  BY <1>1 DEF TypeOK, ServerTypeOK, ManagerTypeOK, NoCallInv, HandlerInv, RestInv, RunningInv,
       WaitingInv, Semaphores
<1>4. RestInv' /\ SentInv'
  BY <1>1 DEF TypeOK, ServerTypeOK, ManagerTypeOK, NoCallInv, RestInv, SentInv, RunningInv,
       WaitingInv, Semaphores
<1>5. RunningInv'
  BY <1>1 DEF TypeOK, ServerTypeOK, ManagerTypeOK, RestInv, RunningInv, WaitingInv, HandlerInv,
       Semaphores, HandlersAt, Serves
<1>6. WaitingInv'
  BY <1>1 DEF TypeOK, ServerTypeOK, ManagerTypeOK, RestInv, RunningInv, WaitingInv, MailboxInv,
       HandlerInv, Semaphores, HandlersAt, Serves
<1>7. EndedInv'
  BY <1>1 DEF TypeOK, ServerTypeOK, ManagerTypeOK, RestInv, RunningInv, EndedInv, MailboxInv,
       HandlerInv, Semaphores, HandlersAt, Serves
<1>8. MailboxInv'
  BY <1>1 DEF TypeOK, ServerTypeOK, ManagerTypeOK, RestInv, MailboxInv, WaitingInv
<1>9. InvokeInv'
  BY <1>1 DEF TypeOK, ServerTypeOK, ManagerTypeOK, RestInv, InvokeInv
<1>10. AnswerIsOwn'
  BY <1>1 DEF TypeOK, ServerTypeOK, ManagerTypeOK, AnswerIsOwn, MailboxInv, InvokeInv
<1> QED
  BY <1>2, <1>3, <1>4, <1>5, <1>6, <1>7, <1>8, <1>9, <1>10

\* InvokeReturns: the native method ends; the token stays where it is.
LEMMA InvokeReturnsStep ==
    ASSUME IInv, NEW c \in Call, InvokeReturns(c),
           UNCHANGED <<txn, binderVars>>, UNCHANGED <<active, returned>>
    PROVE  IInv'
<1> USE DEF IInv, InvokeReturns, managerVars, nativeVars, binderVars
<1>1. ThreadOf[c] \in Thread /\ active[ThreadOf[c]] = c
  BY DEF RestInv
<1>2. TypeOK'
  BY <1>1 DEF TypeOK, ServerTypeOK, ManagerTypeOK, NativePC, PlatformInvoke
<1>3. NoCallInv' /\ HandlerInv'
  BY <1>1 DEF TypeOK, ServerTypeOK, ManagerTypeOK, NoCallInv, HandlerInv, RestInv, RunningInv,
       WaitingInv, Semaphores
<1>4. RestInv' /\ SentInv'
  BY <1>1 DEF TypeOK, ServerTypeOK, ManagerTypeOK, NoCallInv, RestInv, SentInv, RunningInv,
       WaitingInv, Semaphores
<1>5. RunningInv'
  BY <1>1 DEF TypeOK, ServerTypeOK, ManagerTypeOK, RestInv, RunningInv, WaitingInv, HandlerInv,
       Semaphores, HandlersAt, Serves
<1>6. WaitingInv'
  BY <1>1 DEF TypeOK, ServerTypeOK, ManagerTypeOK, RestInv, RunningInv, WaitingInv, MailboxInv,
       HandlerInv, Semaphores, HandlersAt, Serves
<1>7. EndedInv'
  BY <1>1 DEF TypeOK, ServerTypeOK, ManagerTypeOK, RestInv, RunningInv, EndedInv, MailboxInv,
       HandlerInv, Semaphores, HandlersAt, Serves
<1>8. MailboxInv'
  BY <1>1 DEF TypeOK, ServerTypeOK, ManagerTypeOK, RestInv, MailboxInv, WaitingInv
<1>9. InvokeInv'
  BY <1>1 DEF TypeOK, ServerTypeOK, ManagerTypeOK, RestInv, InvokeInv
<1>10. AnswerIsOwn'
  BY <1>1 DEF TypeOK, ServerTypeOK, ManagerTypeOK, AnswerIsOwn, MailboxInv, InvokeInv
<1> QED
  BY <1>2, <1>3, <1>4, <1>5, <1>6, <1>7, <1>8, <1>9, <1>10

\* SignalResult: FINISHED is written by the thread that has the token.
LEMMA SignalResultStep ==
    ASSUME IInv, NEW c \in Call, SignalResult(c),
           UNCHANGED <<txn, binderVars>>, UNCHANGED <<active, returned>>
    PROVE  IInv'
<1> USE DEF IInv, SignalResult, managerVars, nativeVars, binderVars
<1>1. ThreadOf[c] \in Thread /\ active[ThreadOf[c]] = c
  BY DEF RestInv
<1>2. TypeOK'
  BY <1>1 DEF TypeOK, ServerTypeOK, ManagerTypeOK, NativePC, Status
<1>3. NoCallInv' /\ HandlerInv'
  BY <1>1 DEF TypeOK, ServerTypeOK, ManagerTypeOK, NoCallInv, HandlerInv, RestInv, RunningInv,
       WaitingInv, Semaphores
<1>4. RestInv' /\ SentInv'
  BY <1>1 DEF TypeOK, ServerTypeOK, ManagerTypeOK, NoCallInv, RestInv, SentInv, RunningInv,
       WaitingInv, Semaphores
<1>5. RunningInv'
  BY <1>1 DEF TypeOK, ServerTypeOK, ManagerTypeOK, RestInv, RunningInv, WaitingInv, HandlerInv,
       Semaphores, HandlersAt, Serves
<1>6. WaitingInv'
  BY <1>1 DEF TypeOK, ServerTypeOK, ManagerTypeOK, RestInv, RunningInv, WaitingInv, MailboxInv,
       HandlerInv, Semaphores, HandlersAt, Serves
<1>7. EndedInv'
  BY <1>1 DEF TypeOK, ServerTypeOK, ManagerTypeOK, RestInv, RunningInv, EndedInv, MailboxInv,
       HandlerInv, Semaphores, HandlersAt, Serves
<1>8. MailboxInv'
  BY <1>1 DEF TypeOK, ServerTypeOK, ManagerTypeOK, RestInv, MailboxInv, WaitingInv
<1>9. InvokeInv'
  BY <1>1 DEF TypeOK, ServerTypeOK, ManagerTypeOK, RestInv, InvokeInv
<1>10. AnswerIsOwn'
  BY <1>1 DEF TypeOK, ServerTypeOK, ManagerTypeOK, AnswerIsOwn, MailboxInv, InvokeInv
<1> QED
  BY <1>2, <1>3, <1>4, <1>5, <1>6, <1>7, <1>8, <1>9, <1>10

\* PostResult: the native thread ends and leaves the token in mReplyReady.
LEMMA PostResultStep ==
    ASSUME IInv, NEW c \in Call, PostResult(c),
           UNCHANGED <<txn, binderVars>>, UNCHANGED <<active, returned>>
    PROVE  IInv'
<1> USE DEF IInv, PostResult, SemPost, managerVars, nativeVars, binderVars
<1>1. ThreadOf[c] \in Thread /\ active[ThreadOf[c]] = c
  BY DEF RestInv
<1>2. TypeOK'
  BY <1>1 DEF TypeOK, ServerTypeOK, ManagerTypeOK, NativePC, Status
<1>3. NoCallInv' /\ HandlerInv'
  BY <1>1 DEF TypeOK, ServerTypeOK, ManagerTypeOK, NoCallInv, HandlerInv, RestInv, RunningInv,
       WaitingInv, Semaphores
<1>4. RestInv' /\ SentInv'
  BY <1>1 DEF TypeOK, ServerTypeOK, ManagerTypeOK, NoCallInv, RestInv, SentInv, RunningInv,
       WaitingInv, Semaphores
<1>5. RunningInv'
  BY <1>1 DEF TypeOK, ServerTypeOK, ManagerTypeOK, RestInv, RunningInv, WaitingInv, HandlerInv,
       Semaphores, HandlersAt, Serves
<1>6. WaitingInv'
  BY <1>1 DEF TypeOK, ServerTypeOK, ManagerTypeOK, RestInv, RunningInv, WaitingInv, MailboxInv,
       HandlerInv, Semaphores, HandlersAt, Serves
<1>7. EndedInv'
  BY <1>1 DEF TypeOK, ServerTypeOK, ManagerTypeOK, RestInv, RunningInv, EndedInv, MailboxInv,
       HandlerInv, Semaphores, HandlersAt, Serves
<1>8. MailboxInv'
  BY <1>1 DEF TypeOK, ServerTypeOK, ManagerTypeOK, RestInv, MailboxInv, WaitingInv
<1>9. InvokeInv'
  BY <1>1 DEF TypeOK, ServerTypeOK, ManagerTypeOK, RestInv, InvokeInv
<1>10. AnswerIsOwn'
  BY <1>1 DEF TypeOK, ServerTypeOK, ManagerTypeOK, AnswerIsOwn, MailboxInv, InvokeInv
<1> QED
  BY <1>2, <1>3, <1>4, <1>5, <1>6, <1>7, <1>8, <1>9, <1>10

\* ReqJniCall: the request is written by the thread that has the token.
LEMMA ReqJniCallStep ==
    ASSUME IInv, NEW c \in Call, NEW f \in Function, ReqJniCall(c, f),
           UNCHANGED <<txn, binderVars>>, UNCHANGED <<active, returned>>
    PROVE  IInv'
<1> USE DEF IInv, ReqJniCall, managerVars, nativeVars, binderVars
<1>1. ThreadOf[c] \in Thread /\ active[ThreadOf[c]] = c
  BY DEF RestInv
<1>2. nJni' \in [Call -> Nat]
  BY DEF TypeOK, ServerTypeOK, ManagerTypeOK
<1>3. Args(c, nJni'[c]) \in Data
  BY <1>2, DataTypes
<1>4. TypeOK'
  BY <1>1, <1>2, <1>3 DEF TypeOK, ServerTypeOK, ManagerTypeOK, NativePC, JniCall, Status
<1>5. NoCallInv' /\ HandlerInv'
  BY <1>1 DEF TypeOK, ServerTypeOK, ManagerTypeOK, NoCallInv, HandlerInv, RestInv, RunningInv,
       WaitingInv, Semaphores
<1>6. RestInv' /\ SentInv'
  BY <1>1 DEF TypeOK, ServerTypeOK, ManagerTypeOK, NoCallInv, RestInv, SentInv, RunningInv,
       WaitingInv, Semaphores
<1>7. RunningInv'
  BY <1>1 DEF TypeOK, ServerTypeOK, ManagerTypeOK, RestInv, RunningInv, WaitingInv, HandlerInv,
       Semaphores, HandlersAt, Serves
<1>8. WaitingInv'
  BY <1>1 DEF TypeOK, ServerTypeOK, ManagerTypeOK, RestInv, RunningInv, WaitingInv, MailboxInv,
       HandlerInv, Semaphores, HandlersAt, Serves
<1>9. EndedInv'
  BY <1>1 DEF TypeOK, ServerTypeOK, ManagerTypeOK, RestInv, RunningInv, EndedInv, MailboxInv,
       HandlerInv, Semaphores, HandlersAt, Serves
<1>10. MailboxInv'
  BY <1>1 DEF TypeOK, ServerTypeOK, ManagerTypeOK, RestInv, MailboxInv, WaitingInv
<1>11. InvokeInv'
  BY <1>1 DEF TypeOK, ServerTypeOK, ManagerTypeOK, RestInv, InvokeInv
<1>12. AnswerIsOwn'
  BY <1>1 DEF TypeOK, ServerTypeOK, ManagerTypeOK, AnswerIsOwn, MailboxInv, InvokeInv
<1> QED
  BY <1>4, <1>5, <1>6, <1>7, <1>8, <1>9, <1>10, <1>11, <1>12

\* OnTaintCall: the app thread's token becomes a native thread's.
LEMMA OnTaintCallStep ==
    ASSUME IInv, NEW b \in Binder, NEW t \in Thread, OnTaintCall(b, t),
           UNCHANGED <<active, returned>>
    PROVE  IInv'
<1> USE DEF IInv, OnTaintCall, Enter, Serve, StartExec, managerVars, nativeVars, binderVars
<1>1. /\ active[t] = txn[t].call /\ txn[t].call \in Call
      /\ ThreadOf[txn[t].call] = t /\ npc[txn[t].call] = "none"
  BY Token
<1>2. TypeOK'
  BY <1>1, ParcelTypes DEF TypeOK, ServerTypeOK, ManagerTypeOK, NativePC, Status,
       PlatformInvoke, Data
<1>3. NoCallInv' /\ HandlerInv'
  BY <1>1 DEF TypeOK, ServerTypeOK, ManagerTypeOK, NoCallInv, HandlerInv, Semaphores, Serving,
       MakeParcel
<1>4. RestInv' /\ SentInv'
  BY <1>1 DEF TypeOK, ServerTypeOK, ManagerTypeOK, NoCallInv, RestInv, SentInv, Semaphores,
       Serving, MakeParcel
<1>5. RunningInv'
  BY <1>1 DEF TypeOK, ServerTypeOK, ManagerTypeOK, RestInv, RunningInv, SentInv, HandlerInv,
       Serving, MakeParcel, Semaphores, HandlersAt, Serves
<1>6. WaitingInv'
  BY <1>1 DEF TypeOK, ServerTypeOK, ManagerTypeOK, RestInv, WaitingInv, HandlerInv, Serving,
       MakeParcel, Semaphores, HandlersAt, Serves
<1>7. EndedInv'
  BY <1>1 DEF TypeOK, ServerTypeOK, ManagerTypeOK, RestInv, EndedInv, HandlerInv, Serving,
       MakeParcel, Semaphores, HandlersAt, Serves
<1>8. MailboxInv'
  BY <1>1 DEF TypeOK, ServerTypeOK, ManagerTypeOK, RestInv, MailboxInv, WaitingInv
<1>9. InvokeInv'
  BY <1>1 DEF TypeOK, ServerTypeOK, ManagerTypeOK, RestInv, InvokeInv
<1>10. AnswerIsOwn'
  BY <1>1 DEF TypeOK, ServerTypeOK, ManagerTypeOK, AnswerIsOwn, MailboxInv, InvokeInv
<1> QED
  BY <1>2, <1>3, <1>4, <1>5, <1>6, <1>7, <1>8, <1>9, <1>10

\* OnCallback: the answer is put in the mailbox and the token in mJniReady.
LEMMA OnCallbackStep ==
    ASSUME IInv, NEW b \in Binder, NEW t \in Thread, OnCallback(b, t),
           UNCHANGED <<active, returned>>
    PROVE  IInv'
<1> USE DEF IInv, OnCallback, Enter, Serve, SetJniResult, SemPost, managerVars, nativeVars,
       binderVars
<1>1. active[t] \in Call /\ ThreadOf[active[t]] = t /\ npc[active[t]] = "reqWait"
  BY Token
<1>2. txn[t].data \in {"answer"} \X Call \X Nat
  BY <1>1, DataTypes DEF TypeOK, ServerTypeOK, ManagerTypeOK, WaitingInv
<1>3. NoCallInv'
  BY <1>1 DEF TypeOK, ServerTypeOK, ManagerTypeOK, NoCallInv, Semaphores, Serving, MakeParcel
<1>4. HandlerInv'
  BY <1>2 DEF TypeOK, ServerTypeOK, ManagerTypeOK, HandlerInv, Serving, MakeParcel
<1>5. TypeOK'
  BY <1>1, ParcelTypes DEF TypeOK, ServerTypeOK, ManagerTypeOK, Parcel, JniCall
<1>6. NoCallInv' /\ HandlerInv'
  BY <1>3, <1>4
<1>7. RestInv' /\ SentInv'
  BY <1>1 DEF TypeOK, ServerTypeOK, ManagerTypeOK, RestInv, SentInv, Semaphores
<1>8. RunningInv'
  BY <1>1 DEF TypeOK, ServerTypeOK, ManagerTypeOK, RestInv, RunningInv, HandlerInv, Serving,
       MakeParcel, Semaphores, HandlersAt, Serves
<1>9. WaitingInv'
  BY <1>1 DEF TypeOK, ServerTypeOK, ManagerTypeOK, RestInv, WaitingInv, HandlerInv, Serving,
       MakeParcel, JniCall, Semaphores, HandlersAt, Serves
<1>10. EndedInv'
  BY <1>1 DEF TypeOK, ServerTypeOK, ManagerTypeOK, RestInv, EndedInv, HandlerInv, Serving,
       MakeParcel, Semaphores, HandlersAt, Serves
<1>11. MailboxInv'
  BY <1>1 DEF TypeOK, ServerTypeOK, ManagerTypeOK, RestInv, MailboxInv
<1>12. InvokeInv'
  BY <1>1 DEF TypeOK, ServerTypeOK, ManagerTypeOK, RestInv, InvokeInv
<1>13. AnswerIsOwn'
  BY <1>1 DEF TypeOK, ServerTypeOK, ManagerTypeOK, AnswerIsOwn, MailboxInv, InvokeInv
<1> QED
  BY <1>5, <1>6, <1>7, <1>8, <1>9, <1>10, <1>11, <1>12, <1>13

\* ReplyIsReady: the waiting handler takes the token from mReplyReady.
LEMMA ReplyIsReadyStep ==
    ASSUME IInv, NEW b \in Binder, ReplyIsReady(b),
           UNCHANGED <<active, returned>>
    PROVE  IInv'
<1> USE DEF IInv, ReplyIsReady, WaitReplyReady, SemWait, managerVars, nativeVars, binderVars
<1>1. bThread[b] \in Thread /\ txn[bThread[b]].tag = "serving"
  BY DEF HandlerInv
<1>2. TypeOK'
  BY <1>1 DEF TypeOK, ServerTypeOK, ManagerTypeOK
<1>3. NoCallInv' /\ HandlerInv'
  BY <1>1 DEF TypeOK, ServerTypeOK, ManagerTypeOK, NoCallInv, HandlerInv, RestInv, RunningInv,
       WaitingInv, Semaphores
<1>4. RestInv' /\ SentInv'
  BY <1>1 DEF TypeOK, ServerTypeOK, ManagerTypeOK, NoCallInv, RestInv, SentInv, RunningInv,
       WaitingInv, Semaphores
<1>5. RunningInv'
  BY <1>1 DEF TypeOK, ServerTypeOK, ManagerTypeOK, RestInv, RunningInv, WaitingInv, HandlerInv,
       Semaphores, HandlersAt, Serves
<1>6. WaitingInv'
  BY <1>1 DEF TypeOK, ServerTypeOK, ManagerTypeOK, RestInv, RunningInv, WaitingInv, MailboxInv,
       HandlerInv, Semaphores, HandlersAt, Serves
<1>7. EndedInv'
  BY <1>1 DEF TypeOK, ServerTypeOK, ManagerTypeOK, RestInv, RunningInv, EndedInv, MailboxInv,
       HandlerInv, Semaphores, HandlersAt, Serves
<1>8. MailboxInv'
  BY <1>1 DEF TypeOK, ServerTypeOK, ManagerTypeOK, RestInv, MailboxInv, WaitingInv
<1>9. InvokeInv'
  BY <1>1 DEF TypeOK, ServerTypeOK, ManagerTypeOK, RestInv, InvokeInv
<1>10. AnswerIsOwn'
  BY <1>1 DEF TypeOK, ServerTypeOK, ManagerTypeOK, AnswerIsOwn, MailboxInv, InvokeInv
<1> QED
  BY <1>2, <1>3, <1>4, <1>5, <1>6, <1>7, <1>8, <1>9, <1>10

\* ReplyTaintCall: the token goes back to the app with a request or the result.
LEMMA ReplyTaintCallStep ==
    ASSUME IInv, NEW b \in Binder, ReplyTaintCall(b),
           UNCHANGED <<active, returned>>
    PROVE  IInv'
<1> USE DEF IInv, ReplyTaintCall, Leave, managerVars, nativeVars, binderVars
<1>1. /\ bThread[b] \in Thread /\ active[bThread[b]] \in Call
      /\ ThreadOf[active[bThread[b]]] = bThread[b]
  BY HandlerToken
<1>2. txn' \in [Thread -> Parcel]
  BY <1>1, ParcelTypes, HandlerToken DEF TypeOK, ServerTypeOK, ManagerTypeOK, PlatformInvoke,
       InvokeInv
<1>3. jniCall' \in [Thread -> JniCall]
  BY <1>1 DEF TypeOK, ServerTypeOK, ManagerTypeOK, JniCall, Data
<1>4. TypeOK'
  BY <1>1, <1>2, <1>3 DEF TypeOK, ServerTypeOK, ManagerTypeOK
<1>5. NoCallInv' /\ HandlerInv'
  BY <1>1 DEF TypeOK, ServerTypeOK, ManagerTypeOK, NoCallInv, HandlerInv, Semaphores
<1>6. RestInv' /\ SentInv'
  BY <1>1, HandlerToken DEF TypeOK, ServerTypeOK, ManagerTypeOK, RestInv, SentInv, Semaphores
<1>7. RunningInv'
  BY <1>1, HandlerToken DEF TypeOK, ServerTypeOK, ManagerTypeOK, RestInv, RunningInv,
       HandlerInv, Semaphores, HandlersAt, Serves
<1>8. WaitingInv'
  BY <1>1, HandlerToken, DataTypes DEF TypeOK, ServerTypeOK, ManagerTypeOK, RestInv,
       WaitingInv, HandlerInv, RequestReply, MakeParcel, JniCall, FINISHED, WAIT4JNI,
       Semaphores, HandlersAt, Serves
<1>9. EndedInv'
  BY <1>1, HandlerToken DEF TypeOK, ServerTypeOK, ManagerTypeOK, RestInv, EndedInv, HandlerInv,
       ResultReply, MakeParcel, FINISHED, WAIT4JNI, Semaphores, HandlersAt, Serves
<1>10. MailboxInv'
  BY <1>1, HandlerToken DEF TypeOK, ServerTypeOK, ManagerTypeOK, RestInv, MailboxInv
<1>11. InvokeInv'
  BY <1>1 DEF TypeOK, ServerTypeOK, ManagerTypeOK, RestInv, InvokeInv
<1>12. AnswerIsOwn'
  BY <1>1 DEF TypeOK, ServerTypeOK, ManagerTypeOK, AnswerIsOwn, MailboxInv, InvokeInv
<1> QED
  BY <1>4, <1>5, <1>6, <1>7, <1>8, <1>9, <1>10, <1>11, <1>12

\* ReplyCallback: the same for the handler of a CALLBACK.
LEMMA ReplyCallbackStep ==
    ASSUME IInv, NEW b \in Binder, ReplyCallback(b),
           UNCHANGED <<active, returned>>
    PROVE  IInv'
<1> USE DEF IInv, ReplyCallback, Leave, managerVars, nativeVars, binderVars
<1>1. /\ bThread[b] \in Thread /\ active[bThread[b]] \in Call
      /\ ThreadOf[active[bThread[b]]] = bThread[b]
  BY HandlerToken
<1>2. txn' \in [Thread -> Parcel]
  BY <1>1, ParcelTypes, HandlerToken DEF TypeOK, ServerTypeOK, ManagerTypeOK, PlatformInvoke,
       InvokeInv
<1>3. jniCall' \in [Thread -> JniCall]
  <2> DEFINE old == jniCall[bThread[b]].param_data
             new == IF old = rawdata[b] THEN Null ELSE old
  <2>1. Null \in Data
    BY DEF Data
  <2>2. old \in Data
    BY <1>1 DEF TypeOK, ServerTypeOK, ManagerTypeOK, JniCall
  <2>3. new \in Data
    BY <2>1, <2>2
  <2>4. jniCall' = [jniCall EXCEPT ![bThread[b]].param_data = new]
    OBVIOUS
  <2>5. jniCall \in [Thread -> JniCall]
    BY DEF TypeOK, ServerTypeOK, ManagerTypeOK
  <2> HIDE DEF new, IInv, ReplyCallback
  <2> QED
    BY <1>1, <2>3, <2>4, <2>5 DEF JniCall
<1>4. TypeOK'
  BY <1>1, <1>2, <1>3 DEF TypeOK, ServerTypeOK, ManagerTypeOK
<1>5. NoCallInv' /\ HandlerInv'
  BY <1>1 DEF TypeOK, ServerTypeOK, ManagerTypeOK, NoCallInv, HandlerInv, Semaphores
<1>6. RestInv' /\ SentInv'
  BY <1>1, HandlerToken DEF TypeOK, ServerTypeOK, ManagerTypeOK, RestInv, SentInv, Semaphores
<1>7. RunningInv'
  BY <1>1, HandlerToken DEF TypeOK, ServerTypeOK, ManagerTypeOK, RestInv, RunningInv,
       HandlerInv, Semaphores, HandlersAt, Serves
<1>8. WaitingInv'
  BY <1>1, HandlerToken, DataTypes DEF TypeOK, ServerTypeOK, ManagerTypeOK, RestInv,
       WaitingInv, HandlerInv, RequestReply, MakeParcel, JniCall, FINISHED, WAIT4JNI,
       Semaphores, HandlersAt, Serves
<1>9. EndedInv'
  BY <1>1, HandlerToken DEF TypeOK, ServerTypeOK, ManagerTypeOK, RestInv, EndedInv, HandlerInv,
       ResultReply, MakeParcel, FINISHED, WAIT4JNI, Semaphores, HandlersAt, Serves
<1>10. MailboxInv'
  BY <1>1, HandlerToken DEF TypeOK, ServerTypeOK, ManagerTypeOK, RestInv, MailboxInv
<1>11. InvokeInv'
  BY <1>1 DEF TypeOK, ServerTypeOK, ManagerTypeOK, RestInv, InvokeInv
<1>12. AnswerIsOwn'
  BY <1>1 DEF TypeOK, ServerTypeOK, ManagerTypeOK, AnswerIsOwn, MailboxInv, InvokeInv
<1> QED
  BY <1>4, <1>5, <1>6, <1>7, <1>8, <1>9, <1>10, <1>11, <1>12

\* TransactTaintCall: a thread without a call makes one; its manager is at rest.
LEMMA TransactTaintCallStep ==
    ASSUME IInv, NEW c \in Call, TransactTaintCall(c)
    PROVE  IInv'
<1> USE DEF IInv, TransactTaintCall, TaintCallTxn, MakeParcel, managerVars, nativeVars,
       binderVars
<1>1. ThreadOf[c] \in Thread /\ c # Null
  OBVIOUS
<1>2. \A d \in Call : ThreadOf[d] = ThreadOf[c] => npc[d] \in {"none", "done"}
  BY <1>1 DEF RestInv
<1>3. TypeOK'
  BY <1>1, ParcelTypes DEF TypeOK, ServerTypeOK, ManagerTypeOK, TaintCallTxn
<1>4. NoCallInv' /\ HandlerInv'
  BY <1>1 DEF TypeOK, ServerTypeOK, ManagerTypeOK, NoCallInv, HandlerInv, Semaphores
<1>5. RestInv' /\ SentInv'
  BY <1>1 DEF TypeOK, ServerTypeOK, ManagerTypeOK, NoCallInv, RestInv, SentInv, RunningInv,
       WaitingInv, Semaphores
<1>6. RunningInv'
  BY <1>1 DEF TypeOK, ServerTypeOK, ManagerTypeOK, RestInv, RunningInv, WaitingInv, HandlerInv,
       Semaphores, HandlersAt, Serves
<1>7. WaitingInv'
  BY <1>1, <1>2 DEF TypeOK, ServerTypeOK, ManagerTypeOK, WaitingInv, Semaphores, HandlersAt,
       Serves
<1>8. EndedInv'
  BY <1>1 DEF TypeOK, ServerTypeOK, ManagerTypeOK, RestInv, RunningInv, EndedInv, MailboxInv,
       HandlerInv, Semaphores, HandlersAt, Serves
<1>9. MailboxInv'
  BY <1>1 DEF TypeOK, ServerTypeOK, ManagerTypeOK, RestInv, MailboxInv, WaitingInv
<1>10. InvokeInv'
  BY <1>1 DEF TypeOK, ServerTypeOK, ManagerTypeOK, RestInv, InvokeInv
<1>11. AnswerIsOwn'
  BY <1>1 DEF TypeOK, ServerTypeOK, ManagerTypeOK, AnswerIsOwn, MailboxInv, InvokeInv
<1> QED
  BY <1>3, <1>4, <1>5, <1>6, <1>7, <1>8, <1>9, <1>10, <1>11

\* TransactCallback: the app thread answers the request it was given.
LEMMA TransactCallbackStep ==
    ASSUME IInv, NEW t \in Thread, TransactCallback(t)
    PROVE  IInv'
<1> USE DEF IInv, TransactCallback, CallbackTxn, MakeParcel, managerVars, nativeVars,
       binderVars
<1>1. /\ active[t] \in Call /\ ThreadOf[active[t]] = t /\ npc[active[t]] = "reqWait"
      /\ nJni[active[t]] \in Nat /\ txn[t].data = Args(active[t], nJni[active[t]])
  BY Token DEF TypeOK, ServerTypeOK, ManagerTypeOK, WaitingInv, WAIT4JNI, FINISHED
<1>2. Answer(txn[t].data[2], txn[t].data[3]) = Answer(active[t], nJni[active[t]])
  BY <1>1, DataTypes
<1>3. txn[t].function \in Function \cup {Null} /\ Answer(active[t], nJni[active[t]]) \in Data
  BY <1>1, DataTypes DEF TypeOK, ServerTypeOK, ManagerTypeOK, Parcel
<1>4. txn' \in [Thread -> Parcel]
  BY <1>2, <1>3, ParcelTypes DEF TypeOK, ServerTypeOK, ManagerTypeOK
<1>5. TypeOK'
  BY <1>4 DEF TypeOK, ServerTypeOK, ManagerTypeOK
<1>6. NoCallInv' /\ HandlerInv'
  BY <1>1 DEF TypeOK, ServerTypeOK, ManagerTypeOK, NoCallInv, HandlerInv, Semaphores
<1>7. RestInv' /\ SentInv'
  BY <1>1 DEF TypeOK, ServerTypeOK, ManagerTypeOK, NoCallInv, RestInv, SentInv, RunningInv,
       WaitingInv, Semaphores
<1>8. RunningInv'
  BY <1>1 DEF TypeOK, ServerTypeOK, ManagerTypeOK, RestInv, RunningInv, WaitingInv, HandlerInv,
       Semaphores, HandlersAt, Serves
<1>9. WaitingInv'
  BY <1>1, <1>2 DEF TypeOK, ServerTypeOK, ManagerTypeOK, RestInv, WaitingInv, Semaphores,
       HandlersAt, Serves
<1>10. EndedInv'
  BY <1>1 DEF TypeOK, ServerTypeOK, ManagerTypeOK, RestInv, EndedInv, Semaphores, HandlersAt,
       Serves
<1>11. MailboxInv'
  BY <1>1 DEF TypeOK, ServerTypeOK, ManagerTypeOK, RestInv, MailboxInv, WaitingInv
<1>12. InvokeInv'
  BY <1>1 DEF TypeOK, ServerTypeOK, ManagerTypeOK, RestInv, InvokeInv
<1>13. AnswerIsOwn'
  BY <1>1 DEF TypeOK, ServerTypeOK, ManagerTypeOK, AnswerIsOwn, MailboxInv, InvokeInv
<1> QED
  BY <1>5, <1>6, <1>7, <1>8, <1>9, <1>10, <1>11, <1>12, <1>13

\* ReturnResult: the call is over and the manager at rest again.
LEMMA ReturnResultStep ==
    ASSUME IInv, NEW t \in Thread, ReturnResult(t)
    PROVE  IInv'
<1> USE DEF IInv, ReturnResult, NoTxn, MakeParcel, managerVars, nativeVars, binderVars
<1>1. active[t] \in Call /\ ThreadOf[active[t]] = t /\ npc[active[t]] = "done"
  BY Token DEF WAIT4JNI, FINISHED
<1>2. TypeOK'
  BY <1>1, ParcelTypes DEF TypeOK, ServerTypeOK, ManagerTypeOK, Parcel
<1>3. NoCallInv' /\ HandlerInv'
  BY <1>1 DEF TypeOK, ServerTypeOK, ManagerTypeOK, NoCallInv, HandlerInv, EndedInv, Semaphores
<1>4. RestInv' /\ SentInv'
  BY <1>1 DEF TypeOK, ServerTypeOK, ManagerTypeOK, RestInv, SentInv, Semaphores
<1>5. RunningInv'
  BY <1>1 DEF TypeOK, ServerTypeOK, ManagerTypeOK, RestInv, RunningInv, Semaphores, HandlersAt,
       Serves
<1>6. WaitingInv'
  BY <1>1 DEF TypeOK, ServerTypeOK, ManagerTypeOK, RestInv, WaitingInv, Semaphores, HandlersAt,
       Serves
<1>7. EndedInv'
  BY <1>1 DEF TypeOK, ServerTypeOK, ManagerTypeOK, RestInv, EndedInv, Semaphores, HandlersAt,
       Serves
<1>8. MailboxInv'
  BY <1>1 DEF TypeOK, ServerTypeOK, ManagerTypeOK, RestInv, MailboxInv, WaitingInv
<1>9. InvokeInv'
  BY <1>1 DEF TypeOK, ServerTypeOK, ManagerTypeOK, RestInv, InvokeInv
<1>10. AnswerIsOwn'
  BY <1>1 DEF TypeOK, ServerTypeOK, ManagerTypeOK, AnswerIsOwn, MailboxInv, InvokeInv
<1> QED
  BY <1>2, <1>3, <1>4, <1>5, <1>6, <1>7, <1>8, <1>9, <1>10

\* In a state of the invariant a CALLBACK is never refused.
LEMMA CallbackAccepted ==
    ASSUME IInv, NEW t \in Thread, txn[t].tag = "CALLBACK"
    PROVE  txn[t].function = jniCall[t].function /\ mStatus[t] = WAIT4JNI
<1>1. active[t] \in Call /\ ThreadOf[active[t]] = t /\ npc[active[t]] = "reqWait"
  BY Token
<1> QED
  BY <1>1 DEF IInv, WaitingInv

\* A step that changes nothing keeps the invariant.
LEMMA StutterStep ==
    ASSUME IInv, UNCHANGED vars
    PROVE  IInv'
<1> USE DEF vars, serverVars, managerVars, nativeVars, binderVars
<1>1. TypeOK' /\ NoCallInv' /\ HandlerInv' /\ RestInv'
  BY DEF IInv, TypeOK, ServerTypeOK, ManagerTypeOK, NoCallInv, HandlerInv, RestInv, Semaphores
<1>2. SentInv' /\ RunningInv' /\ WaitingInv' /\ EndedInv'
  BY DEF IInv, SentInv, RunningInv, WaitingInv, EndedInv, Semaphores, HandlersAt, Serves
<1>3. MailboxInv' /\ InvokeInv' /\ AnswerIsOwn'
  BY DEF IInv, MailboxInv, InvokeInv, AnswerIsOwn
<1> QED
  BY <1>1, <1>2, <1>3 DEF IInv

\* The token discipline is inductive: every step of an app thread, a binder
\* thread or a native thread keeps it.
THEOREM NextIInv == IInv /\ [Next]_vars => IInv'
<1> SUFFICES ASSUME IInv, [Next]_vars PROVE IInv'
  OBVIOUS
<1>1. ASSUME NEW t \in Thread, AppThread(t) PROVE IInv'
  BY <1>1, TransactTaintCallStep, TransactCallbackStep, ReturnResultStep DEF AppThread
<1>2. ASSUME NEW b \in Binder, BinderThread(b), UNCHANGED <<active, returned>> PROVE IInv'
  <2>1. CASE \E t \in Thread : OnTaintCall(b, t) \/ OnCallback(b, t)
    BY <1>2, <2>1, OnTaintCallStep, OnCallbackStep
  <2>2. CASE \E t \in Thread : OnCallbackNotWaiting(b, t) \/ OnCallbackMismatch(b, t)
    BY <2>2, CallbackAccepted DEF OnCallbackNotWaiting, OnCallbackMismatch, Enter
  <2>3. CASE ReplyIsReady(b) \/ ReplyTaintCall(b) \/ ReplyCallback(b)
    BY <1>2, <2>3, ReplyIsReadyStep, ReplyTaintCallStep, ReplyCallbackStep
  <2> QED
    BY <1>2, <2>1, <2>2, <2>3 DEF BinderThread
<1>3. ASSUME NEW c \in Call, NativeThread(c), UNCHANGED <<active, returned>> PROVE IInv'
  <2>1. CASE RunNative(c) \/ ReadJniResult(c) \/ InvokeReturns(c) \/ SignalResult(c)
    BY <1>3, <2>1, RunNativeStep, ReadJniResultStep, InvokeReturnsStep, SignalResultStep
       DEF NativeThread
  <2>2. CASE PostRequest(c) \/ ResumeAfterJni(c) \/ PostResult(c)
    BY <1>3, <2>2, PostRequestStep, ResumeAfterJniStep, PostResultStep DEF NativeThread
  <2>3. CASE \E f \in Function : ReqJniCall(c, f)
    BY <1>3, <2>3, ReqJniCallStep DEF NativeThread
  <2> QED
    BY <1>3, <2>1, <2>2, <2>3 DEF NativeThread, Native
<1>4. CASE Terminating \/ UNCHANGED vars
  BY <1>4, StutterStep DEF Terminating
<1> QED
  BY <1>1, <1>2, <1>3, <1>4 DEF Next

\* The token discipline holds in every reachable state, for every number of
\* threads, calls, JNI requests and binder threads.
THEOREM Invariance == Spec => []IInv
<1> QED
  BY InitIInv, NextIInv, PTL DEF Spec

\* The variables keep their types for every number of threads, calls and
\* binder threads.
THEOREM TypeCorrect == Spec => []TypeOK
<1>1. IInv => TypeOK
  BY DEF IInv
<1> QED
  BY <1>1, Invariance, PTL

\* A JNI stub always reads the answer to the request it has made, however many
\* threads call native methods at the same time.
THEOREM AnswersAreOwn == Spec => []AnswerIsOwn
<1>1. IInv => AnswerIsOwn
  BY DEF IInv
<1> QED
  BY <1>1, Invariance, PTL

\* Against clients that echo the function code, onTransact refuses nothing and
\* taintCall only sees the two statuses it handles.
THEOREM NothingRefused == Spec => []NoInterference
<1>1. IInv => NoInterference
  BY Token DEF NoInterference
<1> QED
  BY <1>1, Invariance, PTL

\* The handler that builds a reply has the manager for itself, and finds in it
\* one of the two statuses it can report.
THEOREM ManagerExclusive == Spec => [](MailboxExclusive /\ ReplyStatus)
<1>1. IInv => ReplyStatus
  BY HandlerToken DEF ReplyStatus
<1>2. IInv => MailboxExclusive
  <2> SUFFICES ASSUME IInv, NEW b \in Binder, NEW c \in Call,
                      bpc[b] = "reply", bThread[b] = ThreadOf[c],
                      npc[c] \notin {"none", "done"}
               PROVE  npc[c] = "reqWait" /\ mJniReady[ThreadOf[c]] = 0
    BY DEF MailboxExclusive
  <2>1. active[ThreadOf[c]] = c
    BY DEF IInv, RestInv
  <2> QED
    BY <2>1, HandlerToken DEF Semaphores
<1> QED
  BY <1>1, <1>2, Invariance, PTL
=============================================================================
