------------------------------ MODULE Service ------------------------------
(***************************************************************************)
(* The app and the life of the wrapper service: the dispatcher looks the   *)
(* service up, the app registers libraries and functions and calls them,   *)
(* the service may die, and the death observer starts another one.  The    *)
(* proxy's remote() is the service that was found first, for ever.  A call *)
(* uses the lists of its manager (Registry).                               *)
(***************************************************************************)
EXTENDS Registry

CONSTANTS Libs, Broken,   \* libraries the app asks for, and those that cannot be opened
          MaxDeaths,
          MaxTable        \* entries of a table

ASSUME ServiceAssumption == Broken \subseteq Libs /\ MaxDeaths \in Nat /\ MaxTable \in Nat

Unset == -1
NULL == <<"null">>

VARIABLES
    service,       \* the process: which one it is (0: none yet), whether it lives and is registered
    libtable,      \* its table of libraries and functions, counted from 0
    app,           \* where the app's thread is
    remote,        \* the service the proxy sends to (0: no proxy yet)
    serviceAlive, serviceName,
    observer,      \* the death observer: "linked", "notified", "restarting" or "done"
    libref, funcref,   \* the references the app has got
    running,       \* the function a native thread executes, and the library it was asked for with
    outOfTable     \* a service was asked for an entry it does not have (not in the code)

serviceVars == <<service, libtable>>
appVars == <<app, remote, serviceAlive, serviceName, libref, funcref>>
vars == <<serviceVars, appVars, observer, running, outOfTable, registryVars>>

Init ==
    /\ RegistryInit
    /\ service = [nr |-> 0, up |-> FALSE, registered |-> FALSE]
    /\ libtable = <<>>
    /\ app = "start" /\ remote = 0
    /\ serviceAlive = FALSE /\ serviceName = FALSE
    /\ observer = "none"
    /\ libref = [l \in Libs |-> Unset] /\ funcref = [l \in Libs |-> Unset]
    /\ running = NULL
    /\ outOfTable = FALSE

-----------------------------------------------------------------------------
(* androidmain: the process registers a new Wrapper, with an empty table. *)
StartService ==
    /\ service.up /\ ~service.registered
    /\ service' = [service EXCEPT !.registered = TRUE]
    /\ libtable' = <<>>
    /\ UNCHANGED <<appVars, observer, running, outOfTable, registryVars>>

(* Zygote starts the first one. *)
FirstService ==
    /\ service.nr = 0
    /\ service' = [nr |-> 1, up |-> TRUE, registered |-> FALSE]
    /\ UNCHANGED <<libtable, appVars, observer, running, outOfTable, registryVars>>

(* The process ends, with its table and its managers; the binder driver notifies the observer. *)
Gone ==
    /\ service' = [service EXCEPT !.up = FALSE, !.registered = FALSE]
    /\ libtable' = <<>>
    /\ observer' = IF observer = "linked" /\ remote = service.nr THEN "notified" ELSE observer
    /\ RegistryLost
    /\ running' = NULL

Dies ==
    /\ service.up
    /\ service.nr <= MaxDeaths
    /\ Gone
    /\ UNCHANGED <<appVars, outOfTable>>

-----------------------------------------------------------------------------
(* initDispatcher, with getWrapperService: the service is looked up, once or until it is found. *)
Lookup ==
    /\ app = "start"
    /\ service.registered
    /\ app' = "found"
    /\ remote' = service.nr
    /\ observer' = "linked"
    /\ UNCHANGED <<serviceVars, serviceAlive, serviceName, libref, funcref, running, outOfTable, registryVars>>

SetAlive ==
    /\ app = "found"
    /\ app' = "alive"
    /\ serviceAlive' = TRUE
    /\ UNCHANGED <<serviceVars, remote, serviceName, libref, funcref, observer, running, outOfTable, registryVars>>

setServiceName ==
    /\ app = "alive"
    /\ app' = "idle"
    /\ serviceName' = TRUE
    /\ UNCHANGED <<serviceVars, remote, serviceAlive, libref, funcref, observer, running, outOfTable, registryVars>>

-----------------------------------------------------------------------------
(* The service that the proxy sends to answers; a transaction with a dead one returns no parcel. *)
Answers == service.registered /\ remote = service.nr

(* ADD_LIB; the handle of a library that cannot be opened is read before it is tested. *)
addLib(l) ==
    /\ app = "idle"
    /\ libref[l] = Unset
    /\ Len(libtable) < MaxTable
    /\ IF ~Answers
       THEN /\ \E any \in {0, MaxTable} : libref' = [libref EXCEPT ![l] = any]
            /\ UNCHANGED <<serviceVars, observer, running, registryVars>>
       ELSE IF l \in Broken
       THEN /\ Gone
            /\ \E any \in {0, MaxTable} : libref' = [libref EXCEPT ![l] = any]
       ELSE /\ libtable' = Append(libtable, <<"lib", l>>)
            /\ libref' = [libref EXCEPT ![l] = Len(libtable)]
            /\ UNCHANGED <<service, observer, running, registryVars>>
    /\ UNCHANGED <<app, remote, serviceAlive, serviceName, funcref, outOfTable>>

Entry(i) == libtable[i + 1]
InTable(i) == i \in 0 .. Len(libtable) - 1

(* ADD_FUNC; a function that is not found is added as well. *)
addFunc(l) ==
    /\ app = "idle"
    /\ libref[l] # Unset /\ funcref[l] = Unset
    /\ Len(libtable) < MaxTable
    /\ outOfTable' = (outOfTable \/ (Answers /\ ~InTable(libref[l])))
    /\ IF ~Answers \/ ~InTable(libref[l])
       THEN funcref' = [funcref EXCEPT ![l] = 0] /\ UNCHANGED libtable
       ELSE /\ \E func \in {<<"func", Entry(libref[l])[2]>>, NULL} : libtable' = Append(libtable, func)
            /\ funcref' = [funcref EXCEPT ![l] = Len(libtable)]
    /\ UNCHANGED <<service, app, remote, serviceAlive, serviceName, libref, observer, running, registryVars>>

(* CHANGE_FUNC adds the function that is registered instead of the old one. *)
changeFunc(l) ==
    /\ app = "idle"
    /\ funcref[l] # Unset
    /\ Len(libtable) < MaxTable
    /\ IF Answers
       THEN libtable' = Append(libtable, <<"func", l>>) /\ funcref' = [funcref EXCEPT ![l] = Len(libtable)]
       ELSE funcref' = [funcref EXCEPT ![l] = 0] /\ UNCHANGED libtable
    /\ UNCHANGED <<service, app, remote, serviceAlive, serviceName, libref, observer, running, outOfTable, registryVars>>

-----------------------------------------------------------------------------
(* taintCall waits until the service is said to live, and sends TAINT_CALL. *)
TaintCall ==
    /\ app = "idle"
    /\ \E l \in Libs : funcref[l] # Unset
    /\ app' = "waiting"
    /\ UNCHANGED <<serviceVars, remote, serviceAlive, serviceName, libref, funcref, observer, running, outOfTable, registryVars>>

(* The call of a function that was not found ends the process.  A dead one sends no status: what
   is in the variable may look like a JNI request. *)
Transact(l) ==
    /\ app = "waiting"
    /\ serviceAlive
    /\ funcref[l] # Unset
    /\ outOfTable' = (outOfTable \/ (Answers /\ ~(InTable(funcref[l]) /\ InTable(libref[l]))))
    /\ IF ~Answers
       THEN app' \in {"idle", "answering"} /\ UNCHANGED <<serviceVars, observer, running, registryVars>>
       ELSE IF ~InTable(funcref[l]) \/ ~InTable(libref[l]) \/ Entry(funcref[l]) = NULL
       THEN app' = "idle" /\ Gone
       ELSE /\ app' = "inCall"
            /\ running' = <<Entry(funcref[l]), l>>
            /\ UNCHANGED <<serviceVars, observer, registryVars>>
    /\ UNCHANGED <<remote, serviceAlive, serviceName, libref, funcref>>

(* The native method makes a JNI request about strings or arrays, which the app executes. *)
UsesJni ==
    /\ app = "inCall" /\ running # NULL
    /\ Strings \/ ArrayElements
    /\ app' = "answering"
    /\ UNCHANGED <<serviceVars, remote, serviceAlive, serviceName, libref, funcref, observer, running, outOfTable>>

(* It releases elements with a reference the list does not have. *)
ReleasesUnlisted ==
    /\ app = "inCall" /\ running # NULL
    /\ \E i \in DOMAIN elements, r \in Refs : ReleaseUnlisted(i, r)
    /\ Gone
    /\ UNCHANGED <<appVars, outOfTable>>

(* The answer waits until the service is said to live, too, and is sent with CALLBACK; the status a
   dead service does not send is read as 0, with which taintCall returns. *)
doCallbackTransaction ==
    /\ app = "answering"
    /\ serviceAlive
    /\ app' = IF Answers THEN "inCall" ELSE "idle"
    /\ UNCHANGED <<serviceVars, remote, serviceAlive, serviceName, libref, funcref, observer, running, outOfTable, registryVars>>

(* The native method returns, or its service is dead and the status is anything. *)
Returns ==
    /\ app = "inCall"
    /\ app' \in IF running = NULL THEN {"idle", "answering"} ELSE {"idle"}
    /\ running' = NULL
    /\ UNCHANGED <<serviceVars, remote, serviceAlive, serviceName, libref, funcref, observer, outOfTable, registryVars>>

-----------------------------------------------------------------------------
(* binderDied: setServiceState(false), with restartService, which starts a process ... *)
binderDied ==
    /\ observer = "notified"
    /\ observer' = "restarting"
    /\ serviceAlive' = FALSE
    /\ service' = [nr |-> service.nr + 1, up |-> TRUE, registered |-> FALSE]
    /\ UNCHANGED <<libtable, app, remote, serviceName, libref, funcref, running, outOfTable, registryVars>>

\* Mutant: the state is left to be set by the dispatcher, as a comment has it.
RestartOnly ==
    /\ observer = "restarting"
    /\ serviceName /\ service.registered
    /\ observer' = "done"
    /\ UNCHANGED <<serviceVars, appVars, running, outOfTable, registryVars>>

\* Mutant: the proxy sends to the service that was found.
Reconnect ==
    /\ observer = "restarting"
    /\ serviceName /\ service.registered
    /\ observer' = "done"
    /\ serviceAlive' = TRUE
    /\ remote' = service.nr
    /\ UNCHANGED <<serviceVars, app, serviceName, libref, funcref, running, outOfTable, registryVars>>

(* ... and looks it up by its name until it is found.  The service found becomes the member wrapper,
   which is not used; nobody observes its death. *)
Restarted ==
    /\ observer = "restarting"
    /\ serviceName /\ service.registered
    /\ observer' = "done"
    /\ serviceAlive' = TRUE
    /\ UNCHANGED <<serviceVars, app, remote, serviceName, libref, funcref, running, outOfTable, registryVars>>

(* A name that has not been set is an uninitialised pointer: the app's process ends, or nothing is
   found by it and it is read again. *)
LooksUpNameless ==
    /\ observer = "restarting"
    /\ ~serviceName
    /\ app' = "ended"
    /\ observer' = "none"
    /\ UNCHANGED <<serviceVars, remote, serviceAlive, serviceName, libref, funcref, running, outOfTable, registryVars>>

-----------------------------------------------------------------------------
App ==
    \/ Lookup \/ SetAlive \/ setServiceName
    \/ \E l \in Libs : Transact(l)
    \/ doCallbackTransaction
    \/ Returns

Requests == TaintCall \/ (\E l \in Libs : addLib(l) \/ addFunc(l) \/ changeFunc(l))

Next ==
    \/ App \/ Requests \/ UsesJni \/ ReleasesUnlisted
    \/ FirstService \/ StartService \/ Dies \/ binderDied \/ Restarted \/ LooksUpNameless

Spec ==
    /\ Init /\ [][Next]_vars
    /\ WF_vars(App) /\ WF_vars(FirstService) /\ WF_vars(StartService)
    /\ WF_vars(binderDied) /\ WF_vars(Restarted)

-----------------------------------------------------------------------------
(* Every variable stays in its type. *)
TypeOK ==
    /\ app \in {"start", "found", "alive", "idle", "waiting", "inCall", "answering", "ended"}
    /\ service.nr \in 0 .. MaxDeaths + 2 /\ remote \in 0 .. 1
    /\ observer \in {"none", "linked", "notified", "restarting", "done"}
    /\ Len(libtable) <= MaxTable
    /\ \A l \in Libs : {libref[l], funcref[l]} \subseteq -1 .. MaxTable
    /\ \A i \in DOMAIN charsList : charsList[i].wrapperP \in Addresses
    /\ \A i \in DOMAIN arrayList : arrayList[i].jarr \in Refs

(* A function that runs is the one of the library the app asked for, and no service is asked for an
   entry that is not in its table: references a dead service gave, and the indeterminate ones of a
   transaction that failed, never reach the service started after it. *)
ReferencesHold ==
    /\ ~outOfTable
    /\ running # NULL => running[1] = <<"func", running[2]>>

(* A call that waits for the service to come alive again goes on, before TAINT_CALL as before
   CALLBACK, and also if the restart began before the dispatcher had set the name it looks for;
   unless the process that was started has died before it was found: it is not observed, and not
   started again. *)
WaitEnds ==
    (app \in {"waiting", "answering"}) ~>
        (app \notin {"waiting", "answering"} \/ (observer = "restarting" /\ ~service.up))
=============================================================================
