-------------------------- MODULE ExecutionManager --------------------------
(***************************************************************************)
(* The execution manager of the wrapper process (wrapper/ExecutionManager)  *)
(* and the native thread it creates for a call.  There is one manager per   *)
(* Dalvik thread id.  The binder thread that serves a transaction and the   *)
(* native thread hand over to each other with two semaphores: the native    *)
(* side posts mReplyReady when there is something to send to the app (a JNI *)
(* request, or the end of the call) and the binder side posts mJniReady     *)
(* when the answer to a JNI request has arrived.                            *)
(*                                                                         *)
(* A call is one invocation of a native method.  Its arguments and result   *)
(* are abstracted to the identity of the call, the arguments and the answer *)
(* of its n-th JNI request to <<"args", c, n>> and <<"answer", c, n>>.      *)
(***************************************************************************)
EXTENDS Naturals, FiniteSets

CONSTANTS Thread,     \* Dalvik thread ids of the app
          Call,       \* native calls, each of them made at most once
          ThreadOf,   \* the thread id a call is made with
          Function,   \* JNI function codes
          MaxJni,     \* bound on the JNI requests of one call
          Binder,     \* threads of the wrapper's binder pool
          MaxNative,  \* native threads the system lets the wrapper have
          Null        \* an uninitialised or freed value

ASSUME ThreadAssumption == ThreadOf \in [Call -> Thread]
ASSUME BoundAssumption == MaxJni \in Nat /\ MaxNative \in Nat
ASSUME NullAssumption ==
    Null \notin Thread \cup Call \cup Function \cup Binder \cup ({"args", "answer"} \X Call \X Nat)

INIT == 0
WAIT4EXEC == 1
WAIT4JNI == 2
FINISHED == 3
ERROR == 4
Status == {INIT, WAIT4EXEC, WAIT4JNI, FINISHED, ERROR}

\* What param_data may point at.
Args(c, n) == <<"args", c, n>>
Answer(c, n) == <<"answer", c, n>>
Data == ({"args", "answer"} \X Call \X Nat) \cup {Null}

\* jniCall_t, the mailbox both sides use for the request and its answer.
JniCall == [function : Function \cup {Null}, param_data : Data]
\* platformInvoke_t: which call to run and where its result goes.  pResult
\* points into the stack of a binder thread.
PlatformInvoke == [call : Call \cup {Null}, pResult : Binder \cup {Null}]

NativePC == {"none", "created", "running", "reqPost", "reqWait", "readResult",
             "signal", "resPost", "done", "failed"}

VARIABLES mStatus, mReplyReady, mJniReady,  \* per thread id
          jniCall, platformInvoke,          \* per thread id
          stackResult,                      \* jvalue result in a binder thread's stack
          npc,                              \* native thread of a call: its position
          nInvoke,                          \* ... what it read from platformInvoke
          nJni,                             \* ... JNI requests it has made
          nGot                              \* ... the last answer it read

managerVars == <<mStatus, mReplyReady, mJniReady, jniCall, platformInvoke>>
nativeVars == <<npc, nInvoke, nJni, nGot>>

ManagerInit ==
    /\ mStatus = [t \in Thread |-> INIT]
    /\ mReplyReady = [t \in Thread |-> 0]
    /\ mJniReady = [t \in Thread |-> 0]
    /\ jniCall = [t \in Thread |-> [function |-> Null, param_data |-> Null]]
    /\ platformInvoke = [t \in Thread |-> [call |-> Null, pResult |-> Null]]
    /\ stackResult = [b \in Binder |-> Null]
    /\ npc = [c \in Call |-> "none"]
    /\ nInvoke = [c \in Call |-> [call |-> Null, pResult |-> Null]]
    /\ nJni = [c \in Call |-> 0]
    /\ nGot = [c \in Call |-> Null]

ManagerTypeOK ==
    /\ mStatus \in [Thread -> Status]
    /\ mReplyReady \in [Thread -> Nat]
    /\ mJniReady \in [Thread -> Nat]
    /\ jniCall \in [Thread -> JniCall]
    /\ platformInvoke \in [Thread -> PlatformInvoke]
    /\ stackResult \in [Binder -> Call \cup {Null}]
    /\ npc \in [Call -> NativePC]
    /\ nInvoke \in [Call -> PlatformInvoke]
    /\ nJni \in [Call -> Nat]
    /\ nGot \in [Call -> Data]

-----------------------------------------------------------------------------
(* Semaphores.                                                             *)

SemPost(sem, t) == sem' = [sem EXCEPT ![t] = @ + 1]
SemWait(sem, t) == sem[t] > 0 /\ sem' = [sem EXCEPT ![t] = @ - 1]

-----------------------------------------------------------------------------
(* The half of the manager that runs on a binder thread.                   *)

\* Detached native threads that have not ended.
LiveNative == {c \in Call : npc[c] \notin {"none", "done", "failed"}}

\* startExec up to its sem_wait.  The new thread reads platformInvoke, filled
\* in by the caller, by reference.  A failing pthread_create is only logged.
StartExec(c) ==
    /\ mStatus' = [mStatus EXCEPT ![ThreadOf[c]] = WAIT4EXEC]
    /\ npc' = [npc EXCEPT ![c] = IF Cardinality(LiveNative) < MaxNative
                                THEN "created" ELSE "failed"]
    /\ UNCHANGED <<mReplyReady, mJniReady, jniCall, nInvoke, nJni, nGot>>

\* Mutant: the handler does not wait.
WaitReplyReadySkipped(t) ==
    UNCHANGED <<managerVars, stackResult, nativeVars>>

\* The sem_wait at the end of startExec and of setJniResult.
WaitReplyReady(t) ==
    /\ SemWait(mReplyReady, t)
    /\ UNCHANGED <<mStatus, mJniReady, jniCall, platformInvoke, stackResult, nativeVars>>

\* Mutant: the native thread is not woken.
SetJniResultNoPost(t) ==
    /\ mStatus[t] = WAIT4JNI
    /\ UNCHANGED mJniReady

\* setJniResult finds the manager waiting for an answer and posts mJniReady.
SetJniResult(t) ==
    /\ mStatus[t] = WAIT4JNI
    /\ SemPost(mJniReady, t)

-----------------------------------------------------------------------------
(* The native thread of call c.                                            *)

\* runNative reads the parameters through the pointer it was given.
RunNative(c) ==
    /\ npc[c] = "created"
    /\ nInvoke' = [nInvoke EXCEPT ![c] = platformInvoke[ThreadOf[c]]]
    /\ npc' = [npc EXCEPT ![c] = "running"]
    /\ UNCHANGED <<managerVars, stackResult, nJni, nGot>>

\* Mutant: the status is not set.
ReqJniCallNoStatus(c, f) ==
    LET t == ThreadOf[c] IN
    /\ npc[c] = "running"
    /\ nJni[c] < MaxJni
    /\ nJni' = [nJni EXCEPT ![c] = @ + 1]
    /\ jniCall' = [jniCall EXCEPT ![t] = [function |-> f, param_data |-> Args(c, nJni'[c])]]
    /\ npc' = [npc EXCEPT ![c] = "reqPost"]
    /\ UNCHANGED <<mStatus, mReplyReady, mJniReady, platformInvoke, stackResult, nInvoke, nGot>>

\* A JNI stub fills in jniCall and enters reqJniCall, which sets the status.
ReqJniCall(c, f) ==
    LET t == ThreadOf[c] IN
    /\ npc[c] = "running"
    /\ nJni[c] < MaxJni
    /\ nJni' = [nJni EXCEPT ![c] = @ + 1]
    /\ jniCall' = [jniCall EXCEPT ![t] = [function |-> f, param_data |-> Args(c, nJni'[c])]]
    /\ mStatus' = [mStatus EXCEPT ![t] = WAIT4JNI]
    /\ npc' = [npc EXCEPT ![c] = "reqPost"]
    /\ UNCHANGED <<mReplyReady, mJniReady, platformInvoke, stackResult, nInvoke, nGot>>

\* reqJniCall signals that there is a request to send.
PostRequest(c) ==
    /\ npc[c] = "reqPost"
    /\ SemPost(mReplyReady, ThreadOf[c])
    /\ npc' = [npc EXCEPT ![c] = "reqWait"]
    /\ UNCHANGED <<mStatus, mJniReady, jniCall, platformInvoke, stackResult, nInvoke, nJni, nGot>>

\* Mutant: reqJniCall returns without waiting for the answer.
ResumeWithoutAnswer(c) ==
    /\ npc[c] = "reqWait"
    /\ npc' = [npc EXCEPT ![c] = "readResult"]
    /\ UNCHANGED <<managerVars, stackResult, nInvoke, nJni, nGot>>

\* reqJniCall gets past its sem_wait and returns to the stub.
ResumeAfterJni(c) ==
    LET t == ThreadOf[c] IN
    /\ npc[c] = "reqWait"
    /\ SemWait(mJniReady, t)
    /\ mStatus' = [mStatus EXCEPT ![t] = WAIT4EXEC]
    /\ npc' = [npc EXCEPT ![c] = "readResult"]
    /\ UNCHANGED <<mReplyReady, jniCall, platformInvoke, stackResult, nInvoke, nJni, nGot>>

\* The stub reads the answer out of param_data.
ReadJniResult(c) ==
    /\ npc[c] = "readResult"
    /\ nGot' = [nGot EXCEPT ![c] = jniCall[ThreadOf[c]].param_data]
    /\ npc' = [npc EXCEPT ![c] = "running"]
    /\ UNCHANGED <<managerVars, stackResult, nInvoke, nJni>>

\* dvmPlatformInvoke stores the return value through pResult and returns.
InvokeReturns(c) ==
    /\ npc[c] = "running"
    /\ stackResult' = [stackResult EXCEPT ![nInvoke[c].pResult] = nInvoke[c].call]
    /\ npc' = [npc EXCEPT ![c] = "signal"]
    /\ UNCHANGED <<managerVars, nInvoke, nJni, nGot>>

\* Mutant: the status is not set.
SignalResultNoStatus(c) ==
    /\ npc[c] = "signal"
    /\ npc' = [npc EXCEPT ![c] = "resPost"]
    /\ UNCHANGED <<managerVars, stackResult, nInvoke, nJni, nGot>>

\* signalResult up to its sem_post ...
SignalResult(c) ==
    /\ npc[c] = "signal"
    /\ mStatus' = [mStatus EXCEPT ![ThreadOf[c]] = FINISHED]
    /\ npc' = [npc EXCEPT ![c] = "resPost"]
    /\ UNCHANGED <<mReplyReady, mJniReady, jniCall, platformInvoke, stackResult, nInvoke, nJni, nGot>>

\* Mutant: the waiting handler is not woken.
PostResultForgotten(c) ==
    /\ npc[c] = "resPost"
    /\ npc' = [npc EXCEPT ![c] = "done"]
    /\ UNCHANGED <<managerVars, stackResult, nInvoke, nJni, nGot>>

\* ... and its sem_post.  The thread ends.
PostResult(c) ==
    /\ npc[c] = "resPost"
    /\ SemPost(mReplyReady, ThreadOf[c])
    /\ npc' = [npc EXCEPT ![c] = "done"]
    /\ UNCHANGED <<mStatus, mJniReady, jniCall, platformInvoke, stackResult, nInvoke, nJni, nGot>>

Native(c) ==
    \/ RunNative(c)
    \/ \E f \in Function : ReqJniCall(c, f)
    \/ PostRequest(c)
    \/ ResumeAfterJni(c)
    \/ ReadJniResult(c)
    \/ InvokeReturns(c)
    \/ SignalResult(c)
    \/ PostResult(c)
=============================================================================
