------------------------------ MODULE LocalCall ------------------------------
(***************************************************************************)
(* What the wrapper promises the app: a native call looks like one made in  *)
(* the process.  A thread of control alternates between native code and     *)
(* the Java code its JNI requests execute; each request is executed once,   *)
(* in order, and its result is what the native code sees; a call returns    *)
(* its own value; calls of a thread nest.                                   *)
(***************************************************************************)
EXTENDS Naturals

CONSTANTS Thread, Call, ThreadOf, MaxJni, Null

VARIABLES phase,      \* per call: where its control is
          requests,   \* per call: JNI requests executed in Java
          seen,       \* per call: last request whose answer the native code has
          result,     \* per call: the value returned
          innermost,  \* per thread: the call that runs
          caller      \* per call: the call it is nested in

vars == <<phase, requests, seen, result, innermost, caller>>

Init ==
    /\ phase = [c \in Call |-> "idle"]
    /\ requests = [c \in Call |-> 0]
    /\ seen = [c \in Call |-> 0]
    /\ result = [c \in Call |-> Null]
    /\ innermost = [t \in Thread |-> Null]
    /\ caller = [c \in Call |-> Null]

Step(c, from, to) ==
    /\ innermost[ThreadOf[c]] = c
    /\ phase[c] = from
    /\ phase' = [phase EXCEPT ![c] = to]

\* Java code calls the native method.
Invoke(c) ==
    LET t == ThreadOf[c] IN
    /\ phase[c] = "idle"
    /\ innermost[t] # Null => phase[innermost[t]] = "java"
    /\ phase' = [phase EXCEPT ![c] = "native"]
    /\ caller' = [caller EXCEPT ![c] = innermost[t]]
    /\ innermost' = [innermost EXCEPT ![t] = c]
    /\ UNCHANGED <<requests, seen, result>>

\* The native code calls a JNI function.
CallJava(c) ==
    /\ Step(c, "native", "java")
    /\ requests[c] < MaxJni
    /\ requests' = [requests EXCEPT ![c] = @ + 1]
    /\ UNCHANGED <<seen, result, innermost, caller>>

\* The JNI function returns ...
JavaReturns(c) ==
    /\ Step(c, "java", "answered")
    /\ UNCHANGED <<requests, seen, result, innermost, caller>>

\* ... and the native code continues with its result.
Resume(c) ==
    /\ Step(c, "answered", "native")
    /\ seen' = [seen EXCEPT ![c] = requests[c]]
    /\ UNCHANGED <<requests, result, innermost, caller>>

\* The native method returns to Java code.
Return(c) ==
    /\ Step(c, "native", "returned")
    /\ result' = [result EXCEPT ![c] = c]
    /\ innermost' = [innermost EXCEPT ![ThreadOf[c]] = caller[c]]
    /\ UNCHANGED <<requests, seen, caller>>

Next == \E c \in Call :
    Invoke(c) \/ CallJava(c) \/ JavaReturns(c) \/ Resume(c) \/ Return(c)

Spec == Init /\ [][Next]_vars
=============================================================================
