--------------------------- MODULE ServiceProofs ---------------------------
(***************************************************************************)
(* What is proved of the app and the life of the wrapper service.  The     *)
(* references of the app belong to the first service: they are entries of  *)
(* its table while it answers, and when it is gone no other process ever   *)
(* has its number.                                                         *)
(***************************************************************************)
EXTENDS Service, SequenceTheorems, TLAPS

USE ServiceAssumption, RegistryAssumption

Entries == ({"lib", "func"} \X Libs) \cup {NULL}

(* The types the proofs need: also those of what the app has been given. *)
ServiceTypes ==
    /\ service \in [nr : Nat, up : BOOLEAN, registered : BOOLEAN]
    /\ remote \in Nat
    /\ libtable \in Seq(Entries)
    /\ libref \in [Libs -> Int] /\ funcref \in [Libs -> Int]
    /\ app \in {"start", "found", "alive", "idle", "waiting", "inCall", "answering", "ended"}
    /\ observer \in {"none", "linked", "notified", "restarting", "done"}
    /\ serviceAlive \in BOOLEAN /\ serviceName \in BOOLEAN /\ outOfTable \in BOOLEAN

(* The service that was found first does not come back once it is gone: only a process with a new
   number is started. *)
OneLife ==
    /\ remote <= service.nr
    /\ service.nr = 0 => ~service.up
    /\ service.registered => service.up
    /\ remote = service.nr /\ service.up => service.registered

(* Before the service is found the app has no references. *)
NoneBefore ==
    app \in {"start", "found", "alive"} =>
        /\ \A l \in Libs : libref[l] = Unset /\ funcref[l] = Unset
        /\ app = "start" => remote = 0 /\ observer = "none"

(* While the service that gave them answers, a reference to a library is the entry of this library,
   and one to a function that of the function, or of one that was not found. *)
ReferencesAreEntries ==
    Answers => \A l \in Libs :
        /\ libref[l] # Unset => InTable(libref[l]) /\ Entry(libref[l]) = <<"lib", l>>
        /\ funcref[l] # Unset => /\ libref[l] # Unset
                                 /\ InTable(funcref[l])
                                 /\ Entry(funcref[l]) \in {<<"func", l>>, NULL}

NameIsSet == app \in {"idle", "waiting", "inCall", "answering"} => serviceName

ServiceInv ==
    /\ ServiceTypes
    /\ OneLife
    /\ NoneBefore
    /\ ReferencesAreEntries
    /\ NameIsSet
    /\ ReferencesHold

\* An entry that is added is the last of the table, and the others stay where they are.
LEMMA AppendedEntry ==
    ASSUME NEW S, NEW s \in Seq(S), NEW e \in S
    PROVE  /\ Append(s, e) \in Seq(S)
           /\ Len(Append(s, e)) = Len(s) + 1
           /\ Append(s, e)[Len(s) + 1] = e
           /\ \A i \in 0 .. Len(s) - 1 : i + 1 \in 1 .. Len(s) /\ Append(s, e)[i + 1] = s[i + 1]
OBVIOUS

\* A table starts empty.
LEMMA EmptyTable == <<>> \in Seq(Entries)
OBVIOUS

\* Before any process is started the invariant holds.
LEMMA InitServiceInv == Init => ServiceInv
<1> SUFFICES ASSUME Init PROVE ServiceInv
  OBVIOUS
<1>1. ServiceTypes
  <2>1. service \in [nr : Nat, up : BOOLEAN, registered : BOOLEAN]
    BY DEF Init
  <2>2. libref \in [Libs -> Int] /\ funcref \in [Libs -> Int]
    BY DEF Init, Unset
  <2> QED
    BY <2>1, <2>2, EmptyTable DEF Init, ServiceTypes
<1>2. OneLife /\ NoneBefore /\ ReferencesAreEntries /\ NameIsSet /\ ReferencesHold
  BY DEF Init, OneLife, NoneBefore, ReferencesAreEntries, NameIsSet, ReferencesHold, Answers
<1> QED
  BY <1>1, <1>2 DEF ServiceInv

\* What the end of the service's process does to the invariant.
LEMMA GoneServiceInv ==
    ASSUME ServiceInv, Gone,
           UNCHANGED <<remote, serviceAlive, serviceName, funcref>>,
           app' \in {app, "idle"}, app' = "idle" => serviceName,
           app' = app \/ app \notin {"start", "found", "alive"},
           app \in {"start", "found", "alive"} => libref' = libref,
           libref' \in [Libs -> Int], outOfTable' = FALSE
    PROVE  ServiceInv'
<1> USE DEF ServiceInv
<1>1. ServiceTypes'
  BY EmptyTable DEF Gone, ServiceTypes
<1>2. OneLife' /\ NoneBefore' /\ ReferencesAreEntries' /\ NameIsSet' /\ ReferencesHold'
  BY DEF Gone, ServiceTypes, OneLife, NoneBefore, ReferencesAreEntries, NameIsSet, ReferencesHold, Answers
<1> QED
  BY <1>1, <1>2

(***************************************************************************)
(* The requests: what they leave of the invariant's parts is the same for   *)
(* all of them, since only the app's references and the table change.       *)
(***************************************************************************)
\* ADD_LIB: the library's reference is the new entry's place; a service that a broken
\* library ends does not answer again.
LEMMA addLibServiceInv ==
    ASSUME ServiceInv, NEW l \in Libs, addLib(l)
    PROVE  ServiceInv'
<1> USE DEF ServiceInv
<1>0. app = "idle" /\ app' = "idle" /\ serviceName /\ ~outOfTable /\ outOfTable' = FALSE
  BY DEF addLib, NameIsSet, ReferencesHold, ServiceTypes
<1>1. CASE ~Answers
  <2>1. libref' \in [Libs -> Int]
    BY <1>1 DEF addLib, ServiceTypes
  <2>2. Answers' = Answers /\ UNCHANGED <<serviceVars, observer, running, remote, serviceAlive, serviceName, funcref>>
    BY <1>1 DEF addLib, Answers, serviceVars
  <2> QED
    BY <1>0, <1>1, <2>1, <2>2 DEF ServiceTypes, OneLife, NoneBefore, ReferencesAreEntries, NameIsSet,
       ReferencesHold, serviceVars
<1>2. CASE Answers /\ l \in Broken
  <2>1. libref' \in [Libs -> Int]
    BY <1>2 DEF addLib, ServiceTypes
  <2>2. Gone /\ UNCHANGED <<remote, serviceAlive, serviceName, funcref>>
    BY <1>2 DEF addLib
  <2> QED
    BY <1>0, <2>1, <2>2, GoneServiceInv
<1>3. CASE Answers /\ l \notin Broken
  <2>1. /\ libtable' = Append(libtable, <<"lib", l>>)
        /\ libref' = [libref EXCEPT ![l] = Len(libtable)]
        /\ libref[l] = Unset
        /\ UNCHANGED <<service, observer, running, remote, serviceAlive, serviceName, funcref>>
    BY <1>3 DEF addLib
  <2>2. <<"lib", l>> \in Entries /\ Len(libtable) \in Nat
    BY DEF Entries, ServiceTypes
  <2>3. /\ libtable' \in Seq(Entries)
        /\ Len(libtable') = Len(libtable) + 1
        /\ libtable'[Len(libtable) + 1] = <<"lib", l>>
        /\ \A i \in 0 .. Len(libtable) - 1 : libtable'[i + 1] = libtable[i + 1]
    BY <2>1, <2>2, AppendedEntry DEF ServiceTypes
  <2>4. OneLife' /\ NoneBefore' /\ NameIsSet' /\ ReferencesHold'
    BY <1>0, <2>1 DEF OneLife, NoneBefore, NameIsSet, ReferencesHold
  <2>t. ServiceTypes'
    <3>1. libref' \in [Libs -> Int]
      BY <2>1, <2>2 DEF ServiceTypes
    <3>2. outOfTable' \in BOOLEAN
      BY <1>0
    <3> QED
      BY <1>0, <2>1, <2>3, <3>1, <3>2 DEF ServiceTypes
  <2>5. ReferencesAreEntries'
    BY <1>3, <2>1, <2>2, <2>3 DEF ReferencesAreEntries, Answers, InTable, Entry, Unset, ServiceTypes
  <2> QED
    BY <2>t, <2>4, <2>5
<1> QED
  BY <1>1, <1>2, <1>3

\* ADD_FUNC: the library's reference is in the table, and names the library of the function.
LEMMA addFuncServiceInv ==
    ASSUME ServiceInv, NEW l \in Libs, addFunc(l)
    PROVE  ServiceInv'
<1> USE DEF ServiceInv
<1>0. /\ app = "idle" /\ app' = "idle" /\ serviceName /\ ~outOfTable
      /\ libref[l] # Unset
      /\ UNCHANGED <<service, observer, running, remote, serviceAlive, serviceName, libref>>
  BY DEF addFunc, NameIsSet, ReferencesHold, ServiceTypes
<1>1. Answers => InTable(libref[l]) /\ Entry(libref[l])[2] = l
  BY <1>0 DEF ReferencesAreEntries
<1>2. outOfTable' = FALSE
  BY <1>0, <1>1 DEF addFunc
<1>3. CASE ~Answers
  <2>1. funcref' \in [Libs -> Int] /\ libtable' = libtable
    BY <1>3 DEF addFunc, ServiceTypes
  <2> QED
    BY <1>0, <1>2, <1>3, <2>1 DEF ServiceTypes, OneLife, NoneBefore, ReferencesAreEntries, NameIsSet,
       ReferencesHold, Answers
<1>4. CASE Answers
  <2>1. PICK func \in {<<"func", l>>, NULL} : libtable' = Append(libtable, func)
    BY <1>1, <1>4 DEF addFunc
  <2>2. funcref' = [funcref EXCEPT ![l] = Len(libtable)]
    BY <1>1, <1>4 DEF addFunc
  <2>3. func \in Entries /\ Len(libtable) \in Nat
    BY <2>1 DEF Entries, ServiceTypes
  <2>4. /\ libtable' \in Seq(Entries)
        /\ Len(libtable') = Len(libtable) + 1
        /\ libtable'[Len(libtable) + 1] = func
        /\ \A i \in 0 .. Len(libtable) - 1 : libtable'[i + 1] = libtable[i + 1]
    BY <2>1, <2>3, AppendedEntry DEF ServiceTypes
  <2>5. OneLife' /\ NoneBefore' /\ NameIsSet' /\ ReferencesHold'
    BY <1>0, <1>2 DEF OneLife, NoneBefore, NameIsSet, ReferencesHold
  <2>t. ServiceTypes'
    <3>1. funcref' \in [Libs -> Int]
      BY <2>2, <2>3 DEF ServiceTypes
    <3>2. outOfTable' \in BOOLEAN
      BY <1>2
    <3> QED
      BY <1>0, <2>4, <3>1, <3>2 DEF ServiceTypes
  <2>6. ReferencesAreEntries'
    BY <1>0, <1>4, <2>1, <2>2, <2>3, <2>4 DEF ReferencesAreEntries, Answers, InTable, Entry, Unset, ServiceTypes
  <2> QED
    BY <2>t, <2>5, <2>6
<1> QED
  BY <1>3, <1>4

\* CHANGE_FUNC: the function that replaces another is its library's.
LEMMA changeFuncServiceInv ==
    ASSUME ServiceInv, NEW l \in Libs, changeFunc(l)
    PROVE  ServiceInv'
<1> USE DEF ServiceInv
<1>0. /\ app = "idle" /\ app' = "idle" /\ serviceName /\ ~outOfTable
      /\ funcref[l] # Unset
      /\ UNCHANGED <<service, observer, running, remote, serviceAlive, serviceName, libref, outOfTable>>
  BY DEF changeFunc, NameIsSet, ReferencesHold, ServiceTypes
<1>1. CASE ~Answers
  <2>1. funcref' \in [Libs -> Int] /\ libtable' = libtable
    BY <1>1 DEF changeFunc, ServiceTypes
  <2> QED
    BY <1>0, <1>1, <2>1 DEF ServiceTypes, OneLife, NoneBefore, ReferencesAreEntries, NameIsSet,
       ReferencesHold, Answers
<1>2. CASE Answers
  <2>1. /\ libtable' = Append(libtable, <<"func", l>>)
        /\ funcref' = [funcref EXCEPT ![l] = Len(libtable)]
    BY <1>2 DEF changeFunc
  <2>2. <<"func", l>> \in Entries /\ Len(libtable) \in Nat
    BY DEF Entries, ServiceTypes
  <2>3. /\ libtable' \in Seq(Entries)
        /\ Len(libtable') = Len(libtable) + 1
        /\ libtable'[Len(libtable) + 1] = <<"func", l>>
        /\ \A i \in 0 .. Len(libtable) - 1 : libtable'[i + 1] = libtable[i + 1]
    BY <2>1, <2>2, AppendedEntry DEF ServiceTypes
  <2>4. ServiceTypes' /\ OneLife' /\ NoneBefore' /\ NameIsSet' /\ ReferencesHold'
    BY <1>0, <2>1, <2>2, <2>3 DEF ServiceTypes, OneLife, NoneBefore, NameIsSet, ReferencesHold
  <2>5. ReferencesAreEntries'
    BY <1>0, <1>2, <2>1, <2>2, <2>3 DEF ReferencesAreEntries, Answers, InTable, Entry, Unset, ServiceTypes
  <2> QED
    BY <2>4, <2>5
<1> QED
  BY <1>1, <1>2

\* TAINT_CALL: the function that starts to run is the one of the library it was asked for with.
LEMMA TransactServiceInv ==
    ASSUME ServiceInv, NEW l \in Libs, Transact(l)
    PROVE  ServiceInv'
<1> USE DEF ServiceInv
<1>0. /\ app = "waiting" /\ serviceName /\ ~outOfTable /\ funcref[l] # Unset
      /\ UNCHANGED <<remote, serviceAlive, serviceName, libref, funcref>>
  BY DEF Transact, NameIsSet, ReferencesHold, ServiceTypes
<1>1. Answers => /\ InTable(libref[l]) /\ InTable(funcref[l])
                 /\ Entry(funcref[l]) \in {<<"func", l>>, NULL}
  BY <1>0 DEF ReferencesAreEntries
<1>2. outOfTable' = FALSE
  BY <1>0, <1>1 DEF Transact
<1>3. CASE ~Answers
  BY <1>0, <1>2, <1>3 DEF Transact, ServiceTypes, OneLife, NoneBefore, ReferencesAreEntries, NameIsSet,
     ReferencesHold, Answers, serviceVars
<1>4. CASE Answers /\ Entry(funcref[l]) = NULL
  <2>1. Gone /\ app' = "idle"
    BY <1>1, <1>4 DEF Transact
  <2>2. libref' \in [Libs -> Int]
    BY <1>0 DEF ServiceTypes
  <2> QED
    BY <1>0, <1>2, <2>1, <2>2, GoneServiceInv
<1>5. CASE Answers /\ Entry(funcref[l]) # NULL
  <2>1. /\ app' = "inCall" /\ running' = <<Entry(funcref[l]), l>>
        /\ UNCHANGED <<service, libtable, observer>>
    BY <1>1, <1>5 DEF Transact, serviceVars
  <2>2. running'[1] = <<"func", l>> /\ running'[2] = l
    BY <1>1, <1>5, <2>1
  <2>3. ReferencesHold'
    BY <1>2, <2>2 DEF ReferencesHold
  <2>4. ServiceTypes' /\ OneLife' /\ NoneBefore' /\ NameIsSet'
    BY <1>0, <1>2, <2>1 DEF ServiceTypes, OneLife, NoneBefore, NameIsSet
  <2>5. ReferencesAreEntries'
    BY <1>0, <2>1 DEF ReferencesAreEntries, Answers, InTable, Entry
  <2> QED
    BY <2>3, <2>4, <2>5
<1> QED
  BY <1>1, <1>3, <1>4, <1>5

\* Every step keeps the invariant.
LEMMA NextServiceInv == ServiceInv /\ [Next]_vars => ServiceInv'
<1> SUFFICES ASSUME ServiceInv, [Next]_vars PROVE ServiceInv'
  OBVIOUS
<1> USE DEF ServiceInv
<1>1. CASE FirstService
  BY <1>1 DEF FirstService, appVars, ServiceTypes, OneLife, NoneBefore, ReferencesAreEntries, NameIsSet,
     ReferencesHold, Answers
<1>2. CASE StartService
  <2>1. service.up /\ ~service.registered /\ service.nr # 0 /\ remote # service.nr
    BY <1>2 DEF StartService, OneLife
  <2> QED
    BY <1>2, <2>1, EmptyTable DEF StartService, appVars, ServiceTypes, OneLife, NoneBefore, ReferencesAreEntries,
       NameIsSet, ReferencesHold, Answers
<1>3. CASE Dies
  <2>1. /\ Gone
        /\ UNCHANGED <<app, remote, serviceAlive, serviceName, libref, funcref, outOfTable>>
    BY <1>3 DEF Dies, appVars
  <2>2. app' = "idle" => serviceName
    BY <2>1 DEF NameIsSet
  <2>3. libref' \in [Libs -> Int] /\ outOfTable' = FALSE
    BY <2>1 DEF ServiceTypes, ReferencesHold
  <2> QED
    BY <2>1, <2>2, <2>3, GoneServiceInv
<1>4. CASE Lookup
  <2>1. \A l \in Libs : libref[l] = Unset /\ funcref[l] = Unset
    BY <1>4 DEF Lookup, NoneBefore
  <2> QED
    BY <1>4, <2>1 DEF Lookup, serviceVars, ServiceTypes, OneLife, NoneBefore, ReferencesAreEntries, NameIsSet,
       ReferencesHold, Answers
<1>5. CASE SetAlive \/ setServiceName
  <2>1. /\ UNCHANGED <<service, libtable, remote, libref, funcref, observer, running, outOfTable>>
        /\ app \in {"found", "alive"} /\ app' \in {"alive", "idle"}
        /\ app' = "idle" => serviceName'
        /\ serviceAlive' \in {serviceAlive, TRUE} /\ serviceName' \in {serviceName, TRUE}
    BY <1>5 DEF SetAlive, setServiceName, serviceVars
  <2>2. ServiceTypes'
    BY <2>1 DEF ServiceTypes
  <2> QED
    BY <2>1, <2>2 DEF OneLife, NoneBefore, ReferencesAreEntries, NameIsSet, ReferencesHold, Answers, InTable, Entry
<1>6. ASSUME NEW l \in Libs, Transact(l) PROVE ServiceInv'
  BY <1>6, TransactServiceInv
<1>7. CASE Returns
  BY <1>7 DEF Returns, serviceVars, ServiceTypes, OneLife, NoneBefore, ReferencesAreEntries, NameIsSet,
     ReferencesHold, Answers, InTable, Entry
<1>8. CASE TaintCall
  BY <1>8 DEF TaintCall, serviceVars, ServiceTypes, OneLife, NoneBefore, ReferencesAreEntries, NameIsSet,
     ReferencesHold, Answers, InTable, Entry
<1>9. ASSUME NEW l \in Libs, addLib(l) \/ addFunc(l) \/ changeFunc(l) PROVE ServiceInv'
  BY <1>9, addLibServiceInv, addFuncServiceInv, changeFuncServiceInv
<1>10. CASE UsesJni
  BY <1>10 DEF UsesJni, serviceVars, ServiceTypes, OneLife, NoneBefore, ReferencesAreEntries, NameIsSet,
     ReferencesHold, Answers, InTable, Entry
<1>11. CASE binderDied
  <2>1. /\ service' = [nr |-> service.nr + 1, up |-> TRUE, registered |-> FALSE]
        /\ observer = "notified" /\ observer' = "restarting" /\ serviceAlive' = FALSE
        /\ UNCHANGED <<libtable, app, remote, serviceName, libref, funcref, running, outOfTable>>
    BY <1>11 DEF binderDied
  <2>2. service' \in [nr : Nat, up : BOOLEAN, registered : BOOLEAN]
    BY <2>1 DEF ServiceTypes
  <2>3. ServiceTypes'
    BY <2>1, <2>2 DEF ServiceTypes
  <2> QED
    BY <2>1, <2>3 DEF ServiceTypes, OneLife, NoneBefore, ReferencesAreEntries, NameIsSet, ReferencesHold, Answers
<1>12. CASE Restarted
  BY <1>12 DEF Restarted, serviceVars, ServiceTypes, OneLife, NoneBefore, ReferencesAreEntries, NameIsSet,
     ReferencesHold, Answers, InTable, Entry
<1>13. CASE LooksUpNameless
  BY <1>13 DEF LooksUpNameless, serviceVars, ServiceTypes, OneLife, NoneBefore, ReferencesAreEntries, NameIsSet,
     ReferencesHold, Answers, InTable, Entry
<1>14. CASE ReleasesUnlisted
  <2>1. /\ Gone /\ app = "inCall"
        /\ UNCHANGED <<app, remote, serviceAlive, serviceName, libref, funcref, outOfTable>>
    BY <1>14 DEF ReleasesUnlisted, appVars
  <2>2. libref' \in [Libs -> Int] /\ outOfTable' = FALSE
    BY <2>1 DEF ServiceTypes, ReferencesHold
  <2> QED
    BY <2>1, <2>2, GoneServiceInv
<1>15. CASE doCallbackTransaction
  BY <1>15 DEF doCallbackTransaction, serviceVars, ServiceTypes, OneLife, NoneBefore, ReferencesAreEntries, NameIsSet,
     ReferencesHold, Answers, InTable, Entry
<1>16. CASE UNCHANGED vars
  BY <1>16 DEF vars, serviceVars, appVars, ServiceTypes, OneLife, NoneBefore, ReferencesAreEntries, NameIsSet,
     ReferencesHold, Answers, InTable, Entry
<1> QED
  BY <1>1, <1>2, <1>3, <1>4, <1>5, <1>6, <1>7, <1>8, <1>9, <1>10, <1>11, <1>12, <1>13, <1>14, <1>15, <1>16 DEF Next, App, Requests

\* Whatever dies when: a function that runs is the one of the library the app asked for, and no
\* service is asked for an entry that is not in its table.
THEOREM ReferencesHoldAlways == Spec => []ReferencesHold
<1>1. ServiceInv => ReferencesHold
  BY DEF ServiceInv
<1> QED
  BY <1>1, InitServiceInv, NextServiceInv, PTL DEF Spec

-----------------------------------------------------------------------------
(***************************************************************************)
(* The lists of the manager.  A string that is neither released nor reused *)
(* has its own entry in the list, in front of any other with its address;  *)
(* elements whose reference still means the same array have an entry with  *)
(* this array in front.                                                    *)
(***************************************************************************)
StringRecord == [kind : {"UTF", "copy"}, address : Addresses, reused : BOOLEAN, released : BOOLEAN]
CharsEntry == [dalvikP : Nat, wrapperP : Addresses]
ArrayEntry == [jarr : Refs, dalvikP : Arrays \cup {0}]
ElementRecord == [ref : Refs, array : Arrays \cup {0}, same : BOOLEAN]

RegistryTypes ==
    /\ strings \in Seq(StringRecord) /\ charsList \in Seq(CharsEntry)
    /\ elements \in Seq(ElementRecord) /\ arrayList \in Seq(ArrayEntry)
    /\ refers \in [Refs -> Arrays \cup {0}]

IsOwnEntry(i, k) ==
    /\ charsList[k].dalvikP = i /\ charsList[k].wrapperP = strings[i].address
    /\ \A m \in 1 .. k - 1 : charsList[m].wrapperP # strings[i].address

StringsListed ==
    /\ \A i \in DOMAIN strings :
          ~strings[i].released /\ ~strings[i].reused => \E k \in DOMAIN charsList : IsOwnEntry(i, k)
    /\ \A i \in DOMAIN strings : strings[i].kind # "UTF" => ~strings[i].reused

IsFrontEntry(e, k) ==
    /\ arrayList[k].jarr = e.ref /\ arrayList[k].dalvikP = e.array
    /\ \A m \in 1 .. k - 1 : arrayList[m].jarr # e.ref

ArraysListed ==
    \A i \in DOMAIN elements : elements[i].same =>
        /\ refers[elements[i].ref] = elements[i].array
        /\ \E k \in DOMAIN arrayList : IsFrontEntry(elements[i], k)

RegistryInv == RegistryTypes /\ StringsListed /\ ArraysListed /\ HandsBackOwn

\* An entry that is added in front of a list moves the others one place on.
LEMMA AddedInFront ==
    ASSUME NEW S, NEW s \in Seq(S), NEW e \in S
    PROVE  /\ <<e>> \o s \in Seq(S)
           /\ Len(<<e>> \o s) = Len(s) + 1
           /\ (<<e>> \o s)[1] = e
           /\ \A k \in 1 .. Len(s) : (<<e>> \o s)[k + 1] = s[k]
           /\ \A k \in 2 .. Len(s) + 1 : (<<e>> \o s)[k] = s[k - 1]
OBVIOUS

\* A list without its entry i: the entries behind it move one place up.
LEMMA WithoutOne ==
    ASSUME NEW S, NEW s \in Seq(S), NEW i \in 1 .. Len(s)
    PROVE  /\ Without(s, i) \in Seq(S)
           /\ Len(Without(s, i)) = Len(s) - 1
           /\ \A m \in 1 .. i - 1 : Without(s, i)[m] = s[m]
           /\ \A m \in i .. Len(s) - 1 : Without(s, i)[m] = s[m + 1]
<1> DEFINE front == SubSeq(s, 1, i - 1)
           back == SubSeq(s, i + 1, Len(s))
<1>1. front \in Seq(S) /\ Len(front) = i - 1 /\ \A m \in 1 .. i - 1 : front[m] = s[m]
  OBVIOUS
<1>2. back \in Seq(S) /\ Len(back) = Len(s) - i /\ \A m \in 1 .. Len(s) - i : back[m] = s[m + i]
  OBVIOUS
<1>3. Without(s, i) = front \o back
  BY DEF Without
<1> HIDE DEF front, back
<1>n. i \in Nat /\ Len(s) \in Nat /\ 1 <= i /\ i <= Len(s)
  OBVIOUS
<1>c. /\ front \o back \in Seq(S) /\ Len(front \o back) = Len(front) + Len(back)
      /\ \A m \in 1 .. Len(front) + Len(back) :
            (front \o back)[m] = IF m <= Len(front) THEN front[m] ELSE back[m - Len(front)]
  BY <1>1, <1>2, ConcatProperties
<1>4. front \o back \in Seq(S) /\ Len(front \o back) = Len(s) - 1
  BY <1>n, <1>1, <1>2, <1>c
<1>f. \A m \in 1 .. i - 1 : (front \o back)[m] = front[m]
  BY <1>n, <1>1, <1>2, <1>c
<1>5. ASSUME NEW m \in i .. Len(s) - 1 PROVE (front \o back)[m] = s[m + 1]
  <2>1. m - (i - 1) \in 1 .. Len(s) - i /\ (m - (i - 1)) + i = m + 1
    BY <1>n
  <2>2. (front \o back)[m] = back[m - (i - 1)]
    BY <1>n, <1>1, <1>2, <1>c
  <2> QED
    BY <1>2, <2>1, <2>2
<1> QED
  BY <1>1, <1>3, <1>4, <1>f, <1>5

\* The place that First finds is the one in front of all others.
LEMMA FirstIsFront ==
    ASSUME NEW S \in SUBSET Int, NEW k \in S, \A j \in S : k <= j
    PROVE  First(S) = k
<1>1. First(S) \in S /\ \A j \in S : First(S) <= j
  BY DEF First
<1>2. First(S) \in Int /\ k \in Int /\ First(S) <= k /\ k <= First(S)
  BY <1>1
<1> QED
  BY <1>2

\* A function on 1 .. n is a list of n entries.
LEMMA FunctionIsList ==
    ASSUME NEW S, NEW n \in Nat, NEW f \in [1 .. n -> S]
    PROVE  f \in Seq(S) /\ Len(f) = n /\ DOMAIN f = 1 .. n
<1>1. f \in Seq(S)
  BY SeqDef
<1>2. Len(f) \in Nat /\ DOMAIN f = 1 .. Len(f) /\ DOMAIN f = 1 .. n
  BY <1>1, LenProperties
<1> QED
  BY <1>1, <1>2

\* What a request does to the strings: their addresses stay, and one that is not
\* released and whose place is taken is reused.
LEMMA ReusedStrings ==
    ASSUME RegistryTypes, NEW a
    PROVE  /\ Reused(a) \in Seq(StringRecord)
           /\ Len(Reused(a)) = Len(strings)
           /\ \A i \in 1 .. Len(strings) :
                 Reused(a)[i] = [strings[i] EXCEPT !.reused = strings[i].reused \/ (~strings[i].released /\ strings[i].address = a)]
<1>1. DOMAIN strings = 1 .. Len(strings) /\ Len(strings) \in Nat /\ \A i \in 1 .. Len(strings) : strings[i] \in StringRecord
  BY LenProperties, ElementOfSeq DEF RegistryTypes
<1>2. \A i \in 1 .. Len(strings) :
         Reused(a)[i] = [strings[i] EXCEPT !.reused = strings[i].reused \/ (~strings[i].released /\ strings[i].address = a)]
  BY <1>1 DEF Reused
<1>3. Reused(a) \in [1 .. Len(strings) -> StringRecord]
  BY <1>1 DEF Reused, StringRecord
<1> QED
  BY <1>1, <1>2, <1>3, FunctionIsList

\* The entry that getDalvikChars finds for a string is its own.
LEMMA OwnFound ==
    ASSUME RegistryTypes, NEW i, NEW k \in DOMAIN charsList, IsOwnEntry(i, k)
    PROVE  getDalvikChars(strings[i].address) = k /\ k \in 1 .. Len(charsList)
<1> DEFINE found == {m \in DOMAIN charsList : charsList[m].wrapperP = strings[i].address}
<1>1. DOMAIN charsList = 1 .. Len(charsList) /\ Len(charsList) \in Nat
  BY LenProperties DEF RegistryTypes
<1>2. found \in SUBSET Int /\ k \in found /\ \A j \in found : k <= j
  BY <1>1 DEF IsOwnEntry
<1>3. First(found) = k
  BY <1>2, FirstIsFront
<1>4. Positions(charsList, LAMBDA s : s.wrapperP = strings[i].address) = found
  BY DEF Positions
<1> QED
  BY <1>1, <1>2, <1>3, <1>4 DEF getDalvikChars

\* The entry that getArrayLength finds for elements is the one in front.
LEMMA FrontFound ==
    ASSUME RegistryTypes, NEW e, NEW k \in DOMAIN arrayList, IsFrontEntry(e, k)
    PROVE  getArrayLength(e.ref) = k /\ k # 0
<1> DEFINE found == {m \in DOMAIN arrayList : arrayList[m].jarr = e.ref}
<1>1. DOMAIN arrayList = 1 .. Len(arrayList) /\ Len(arrayList) \in Nat
  BY LenProperties DEF RegistryTypes
<1>2. found \in SUBSET Int /\ k \in found /\ \A j \in found : k <= j
  BY <1>1 DEF IsFrontEntry
<1>3. First(found) = k
  BY <1>2, FirstIsFront
<1>4. Positions(arrayList, LAMBDA s : s.jarr = e.ref) = found
  BY DEF Positions
<1>5. found # {} /\ k # 0
  BY <1>1, <1>2
<1> HIDE DEF found
<1> QED
  BY <1>3, <1>4, <1>5 DEF getArrayLength

\* A string that is not reused gets back its own buffer.
LEMMA GivesBackOwn ==
    ASSUME RegistryInv, NEW i \in DOMAIN strings, ~strings[i].released, GiveBack(i)
    PROVE  HandsBackOwn'
<1>1. CASE strings[i].reused
  BY <1>1 DEF GiveBack, HandsBackOwn
<1>2. CASE ~strings[i].reused
  <2>1. PICK k \in DOMAIN charsList : IsOwnEntry(i, k)
    BY <1>2 DEF RegistryInv, StringsListed
  <2>2. getDalvikChars(strings[i].address) = k /\ k # 0
    BY <2>1, OwnFound DEF RegistryInv
  <2> QED
    BY <2>1, <2>2 DEF GiveBack, HandsBackOwn, IsOwnEntry
<1> QED
  BY <1>1, <1>2

\* A string that is got with its characters at a place that is not kept: its entry is in front,
\* and a string that was there is reused.
LEMMA StringAdded ==
    ASSUME RegistryInv, NEW a \in Addresses, a \notin Kept, NEW kind \in {"UTF", "copy"},
           NEW old \in Seq(StringRecord), Len(old) = Len(strings),
           \A i \in 1 .. Len(strings) :
               /\ old[i].kind = strings[i].kind /\ old[i].address = strings[i].address
               /\ old[i].released = strings[i].released
               /\ ~strings[i].released /\ ~old[i].reused => ~strings[i].reused /\ strings[i].address # a
               /\ strings[i].kind # "UTF" /\ old[i].reused => strings[i].reused,
           strings' = Append(old, NewString(kind, a)),
           charsList' = addStringChars(Len(strings) + 1, a)
    PROVE  /\ strings' \in Seq(StringRecord) /\ charsList' \in Seq(CharsEntry)
           /\ StringsListed'
<1> DEFINE n == Len(strings)
           new == NewString(kind, a)
           entry == [dalvikP |-> n + 1, wrapperP |-> a]
<1>1. /\ strings \in Seq(StringRecord) /\ n \in Nat /\ DOMAIN strings = 1 .. n
      /\ charsList \in Seq(CharsEntry) /\ Len(charsList) \in Nat /\ DOMAIN charsList = 1 .. Len(charsList)
  BY LenProperties DEF RegistryInv, RegistryTypes
<1>2. new \in StringRecord /\ new.address = a /\ ~new.reused /\ ~new.released
  BY DEF NewString, StringRecord
<1>3. entry \in CharsEntry /\ entry.dalvikP = n + 1 /\ entry.wrapperP = a
  BY <1>1 DEF CharsEntry
<1> HIDE DEF new, entry
<1>4. /\ strings' \in Seq(StringRecord) /\ Len(strings') = n + 1 /\ DOMAIN strings' = 1 .. n + 1
      /\ strings'[n + 1] = new /\ \A i \in 1 .. n : strings'[i] = old[i]
  BY <1>1, <1>2 DEF new
<1>5. charsList' = <<entry>> \o charsList
  BY DEF addStringChars, entry
<1>6. /\ charsList' \in Seq(CharsEntry) /\ Len(charsList') = Len(charsList) + 1
      /\ DOMAIN charsList' = 1 .. Len(charsList) + 1
      /\ charsList'[1] = entry
      /\ \A k \in 1 .. Len(charsList) : charsList'[k + 1] = charsList[k]
      /\ \A k \in 2 .. Len(charsList) + 1 : charsList'[k] = charsList[k - 1]
  <2>1. <<entry>> \o charsList \in Seq(CharsEntry) /\ Len(<<entry>> \o charsList) = Len(charsList) + 1
    BY <1>1, <1>3, AddedInFront
  <2>2. DOMAIN (<<entry>> \o charsList) = 1 .. Len(charsList) + 1
    BY <2>1, LenProperties
  <2>3. /\ (<<entry>> \o charsList)[1] = entry
        /\ \A k \in 1 .. Len(charsList) : (<<entry>> \o charsList)[k + 1] = charsList[k]
        /\ \A k \in 2 .. Len(charsList) + 1 : (<<entry>> \o charsList)[k] = charsList[k - 1]
    BY <1>1, <1>3, AddedInFront
  <2> QED
    BY <1>5, <2>1, <2>2, <2>3
<1>7. ASSUME NEW i \in 1 .. n + 1, ~strings'[i].released, ~strings'[i].reused
      PROVE  \E k \in DOMAIN charsList' : IsOwnEntry(i, k)'
  <2>1. CASE i = n + 1
    <3>1. 1 \in DOMAIN charsList' /\ charsList'[1].dalvikP = i /\ charsList'[1].wrapperP = strings'[i].address
      BY <1>1, <1>2, <1>3, <1>4, <1>6, <2>1
    <3>2. IsOwnEntry(i, 1)'
      BY <3>1 DEF IsOwnEntry
    <3> QED
      BY <3>1, <3>2
  <2>2. CASE i # n + 1
    <3>1. i \in 1 .. n /\ strings'[i] = old[i]
      BY <1>1, <1>4, <2>2
    <3>2. ~strings[i].released /\ ~strings[i].reused /\ strings[i].address # a /\ strings'[i].address = strings[i].address
      BY <1>7, <3>1
    <3>3. PICK k \in 1 .. Len(charsList) : IsOwnEntry(i, k)
      BY <1>1, <3>1, <3>2 DEF RegistryInv, StringsListed
    <3>4. k + 1 \in DOMAIN charsList' /\ charsList'[k + 1] = charsList[k]
      BY <1>1, <1>6
    <3>5. ASSUME NEW m \in 1 .. k PROVE charsList'[m].wrapperP # strings[i].address
      <4>1. CASE m = 1
        BY <1>3, <1>6, <3>2, <4>1
      <4>2. CASE m # 1
        <5>1. m \in 2 .. Len(charsList) + 1 /\ m - 1 \in 1 .. k - 1
          BY <1>1, <4>2
        <5> QED
          BY <1>6, <3>3, <5>1 DEF IsOwnEntry
      <4> QED
        BY <4>1, <4>2
    <3>6. IsOwnEntry(i, k + 1)'
      BY <3>2, <3>3, <3>4, <3>5 DEF IsOwnEntry
    <3> QED
      BY <3>4, <3>6
  <2> QED
    BY <2>1, <2>2
<1>8. ASSUME NEW i \in 1 .. n + 1, strings'[i].kind # "UTF" PROVE ~strings'[i].reused
  <2>1. CASE i = n + 1
    BY <1>2, <1>4, <2>1
  <2>2. CASE i # n + 1
    BY <1>1, <1>4, <1>8, <2>2 DEF RegistryInv, StringsListed
  <2> QED
    BY <2>1, <2>2
<1> QED
  BY <1>4, <1>6, <1>7, <1>8 DEF StringsListed

\* Strings that are got.
LEMMA GetStringInv ==
    ASSUME RegistryInv,
           \/ \E a \in Addresses : GetStringUTFChars(a)
           \/ \E a, copy \in Addresses : GetStringCopy(a, copy)
    PROVE  RegistryInv'
<1>1. /\ strings \in Seq(StringRecord) /\ Len(strings) \in Nat /\ DOMAIN strings = 1 .. Len(strings)
      /\ \A i \in 1 .. Len(strings) : strings[i] \in StringRecord
  BY LenProperties, ElementOfSeq DEF RegistryInv, RegistryTypes
<1>2. ASSUME NEW a \in Addresses, a \notin Kept
      PROVE  /\ \A i \in 1 .. Len(strings) :
                    /\ Reused(a)[i].kind = strings[i].kind /\ Reused(a)[i].address = strings[i].address
                    /\ Reused(a)[i].released = strings[i].released
                    /\ Reused(a)[i].reused => strings[i].reused \/ strings[i].address = a
                    /\ ~Reused(a)[i].reused => ~strings[i].reused /\ (strings[i].released \/ strings[i].address # a)
             /\ \A i \in 1 .. Len(strings) : strings[i].kind # "UTF" => strings[i].address # a
  <2>1. \A i \in 1 .. Len(strings) :
            Reused(a)[i] = [strings[i] EXCEPT !.reused = strings[i].reused \/ (~strings[i].released /\ strings[i].address = a)]
    BY ReusedStrings DEF RegistryInv
  <2>2. \A i \in 1 .. Len(strings) : strings[i].kind # "UTF" => strings[i].address # a
    BY <1>1, <1>2 DEF Kept
  <2> QED
    BY <1>1, <2>1, <2>2 DEF StringRecord
<1>3. StringsListed' /\ strings' \in Seq(StringRecord) /\ charsList' \in Seq(CharsEntry)
  <2>1. ASSUME NEW a \in Addresses, GetStringUTFChars(a)
        PROVE  StringsListed' /\ strings' \in Seq(StringRecord) /\ charsList' \in Seq(CharsEntry)
    <3>1. /\ a \notin Kept
          /\ strings' = Append(Reused(a), NewString("UTF", a))
          /\ charsList' = addStringChars(Len(strings) + 1, a)
      BY <2>1 DEF GetStringUTFChars, Request
    <3>2. Reused(a) \in Seq(StringRecord) /\ Len(Reused(a)) = Len(strings)
      BY ReusedStrings DEF RegistryInv
    <3>3. \A i \in 1 .. Len(strings) :
               /\ Reused(a)[i].kind = strings[i].kind /\ Reused(a)[i].address = strings[i].address
               /\ Reused(a)[i].released = strings[i].released
               /\ ~strings[i].released /\ ~Reused(a)[i].reused => ~strings[i].reused /\ strings[i].address # a
               /\ strings[i].kind # "UTF" /\ Reused(a)[i].reused => strings[i].reused
      BY <1>1, <1>2, <3>1 DEF StringRecord
    <3> QED
      BY <3>1, <3>2, <3>3, StringAdded
  <2>2. ASSUME NEW a \in Addresses, NEW copy \in Addresses, GetStringCopy(a, copy)
        PROVE  StringsListed' /\ strings' \in Seq(StringRecord) /\ charsList' \in Seq(CharsEntry)
    <3> DEFINE old == [i \in DOMAIN strings |-> [strings[i] EXCEPT !.reused = Reused(a)[i].reused \/ Reused(copy)[i].reused]]
    <3>1. /\ a \notin Kept /\ copy \notin Kept
          /\ strings' = Append(old, NewString("copy", copy))
          /\ charsList' = addStringChars(Len(strings) + 1, copy)
      BY <2>2 DEF GetStringCopy, Request
    <3>2. /\ old \in [1 .. Len(strings) -> StringRecord]
          /\ \A i \in 1 .. Len(strings) :
               old[i] = [strings[i] EXCEPT !.reused = Reused(a)[i].reused \/ Reused(copy)[i].reused]
      BY <1>1 DEF StringRecord
    <3>3. old \in Seq(StringRecord) /\ Len(old) = Len(strings)
      BY <1>1, <3>2, FunctionIsList
    <3>4. \A i \in 1 .. Len(strings) :
               /\ old[i].kind = strings[i].kind /\ old[i].address = strings[i].address
               /\ old[i].released = strings[i].released
               /\ old[i].reused => Reused(a)[i].reused \/ Reused(copy)[i].reused
               /\ ~old[i].reused => ~Reused(copy)[i].reused
      BY <1>1, <3>2 DEF StringRecord
    <3> HIDE DEF old
    <3>5. \A i \in 1 .. Len(strings) :
               /\ ~strings[i].released /\ ~old[i].reused => ~strings[i].reused /\ strings[i].address # copy
               /\ strings[i].kind # "UTF" /\ old[i].reused => strings[i].reused
      BY <1>1, <1>2, <3>1, <3>4 DEF StringRecord
    <3> QED
      BY <3>1, <3>3, <3>4, <3>5, StringAdded
  <2> QED
    BY <2>1, <2>2
<1>4. UNCHANGED <<arrayList, elements, refers, handedBack>>
  BY DEF GetStringUTFChars, GetStringCopy
<1> QED
  BY <1>3, <1>4 DEF RegistryInv, RegistryTypes, ArraysListed, IsFrontEntry, HandsBackOwn

\* The strings after one has been released: no address changes, and what is neither released nor
\* reused afterwards was not before.
LEMMA StringReleased ==
    ASSUME RegistryInv, NEW i \in DOMAIN strings, NEW a, a \notin Kept,
           strings' = [Reused(a) EXCEPT ![i].released = TRUE]
    PROVE  /\ strings' \in Seq(StringRecord) /\ DOMAIN strings' = DOMAIN strings
           /\ \A j \in DOMAIN strings :
                 /\ strings'[j].address = strings[j].address
                 /\ ~strings'[j].released /\ ~strings'[j].reused
                        => j # i /\ ~strings[j].released /\ ~strings[j].reused
                 /\ strings'[j].kind # "UTF" => ~strings'[j].reused
<1>1. /\ Len(strings) \in Nat /\ DOMAIN strings = 1 .. Len(strings)
      /\ \A j \in 1 .. Len(strings) : strings[j] \in StringRecord
  BY LenProperties, ElementOfSeq DEF RegistryInv, RegistryTypes
<1>2. /\ Reused(a) \in Seq(StringRecord) /\ Len(Reused(a)) = Len(strings)
      /\ \A j \in 1 .. Len(strings) :
            Reused(a)[j] = [strings[j] EXCEPT !.reused = strings[j].reused \/ (~strings[j].released /\ strings[j].address = a)]
  BY ReusedStrings DEF RegistryInv
<1>3. \A j \in 1 .. Len(strings) :
         /\ Reused(a)[j] \in StringRecord
         /\ Reused(a)[j].address = strings[j].address /\ Reused(a)[j].kind = strings[j].kind
         /\ Reused(a)[j].released = strings[j].released
         /\ ~Reused(a)[j].reused => ~strings[j].reused
         /\ Reused(a)[j].reused => strings[j].reused \/ strings[j].address = a
  <2>1. \A j \in 1 .. Len(strings) : Reused(a)[j] \in StringRecord
    BY <1>1, <1>2, ElementOfSeq
  <2> QED
    BY <1>1, <1>2, <2>1 DEF StringRecord
<1>4. \A j \in 1 .. Len(strings) : strings[j].kind # "UTF" => ~strings[j].reused /\ strings[j].address # a
  BY <1>1 DEF Kept, RegistryInv, StringsListed
<1>5. [Reused(a)[i] EXCEPT !.released = TRUE] \in StringRecord
  BY <1>1, <1>3 DEF StringRecord
<1>6. strings' = [Reused(a) EXCEPT ![i] = [Reused(a)[i] EXCEPT !.released = TRUE]]
  OBVIOUS
<1>7. /\ strings' \in Seq(StringRecord) /\ Len(strings') = Len(strings)
      /\ \A j \in 1 .. Len(strings) :
            strings'[j] = IF j = i THEN [Reused(a)[i] EXCEPT !.released = TRUE] ELSE Reused(a)[j]
  BY <1>1, <1>2, <1>5, <1>6, ExceptSeq
<1>8. DOMAIN strings' = 1 .. Len(strings)
  BY <1>7, LenProperties
<1>9. ASSUME NEW j \in 1 .. Len(strings)
      PROVE  /\ strings'[j].address = strings[j].address
             /\ ~strings'[j].released /\ ~strings'[j].reused
                        => j # i /\ ~strings[j].released /\ ~strings[j].reused
             /\ strings'[j].kind # "UTF" => ~strings'[j].reused
  <2>1. CASE j = i
    BY <1>3, <1>4, <1>7, <2>1 DEF StringRecord
  <2>2. CASE j # i
    BY <1>3, <1>4, <1>7, <2>2
  <2> QED
    BY <2>1, <2>2
<1> QED
  BY <1>1, <1>7, <1>8, <1>9

\* Strings that are released: the entry of a copy is taken out of the list, and no other is.
LEMMA ReleaseStringInv ==
    ASSUME RegistryInv, NEW i \in DOMAIN strings, NEW a \in Addresses, ~strings[i].released,
           ReleaseStringCopy(i, a) \/ ReleaseStringUTFChars(i, a)
    PROVE  RegistryInv'
<1>1. /\ a \notin Kept /\ GiveBack(i)
      /\ strings' = [Reused(a) EXCEPT ![i].released = TRUE]
      /\ UNCHANGED <<arrayList, elements, refers>>
  BY DEF ReleaseStringCopy, ReleaseStringUTFChars, Request
<1>2. HandsBackOwn'
  BY <1>1, GivesBackOwn
<1>3. /\ strings' \in Seq(StringRecord) /\ DOMAIN strings' = DOMAIN strings
      /\ \A j \in DOMAIN strings :
                 /\ strings'[j].address = strings[j].address
                 /\ ~strings'[j].released /\ ~strings'[j].reused
                        => j # i /\ ~strings[j].released /\ ~strings[j].reused
                 /\ strings'[j].kind # "UTF" => ~strings'[j].reused
  BY <1>1, StringReleased
<1>4. /\ charsList \in Seq(CharsEntry)
      /\ Len(charsList) \in Nat /\ DOMAIN charsList = 1 .. Len(charsList)
  BY LenProperties DEF RegistryInv, RegistryTypes
<1>5. /\ charsList' \in Seq(CharsEntry)
      /\ \A j \in DOMAIN strings : ~strings'[j].released /\ ~strings'[j].reused =>
            \E k \in DOMAIN charsList' : IsOwnEntry(j, k)'
  <2>1. CASE ReleaseStringUTFChars(i, a)
    <3>1. charsList' = charsList
      BY <2>1 DEF ReleaseStringUTFChars
    <3>2. ASSUME NEW j \in DOMAIN strings, ~strings'[j].released, ~strings'[j].reused
          PROVE  \E k \in DOMAIN charsList' : IsOwnEntry(j, k)'
      <4>1. PICK k \in DOMAIN charsList : IsOwnEntry(j, k)
        BY <1>3, <3>2 DEF RegistryInv, StringsListed
      <4> QED
        BY <1>3, <3>1, <4>1 DEF IsOwnEntry
    <3> QED
      BY <1>4, <3>1, <3>2
  <2>2. CASE ReleaseStringCopy(i, a)
    <3>1. strings[i].kind # "UTF" /\ charsList' = deleteCharsEntry(strings[i].address)
      BY <2>2 DEF ReleaseStringCopy
    <3>2. PICK k \in DOMAIN charsList : IsOwnEntry(i, k)
      BY <3>1 DEF RegistryInv, StringsListed
    <3>3. getDalvikChars(strings[i].address) = k /\ k \in 1 .. Len(charsList)
      BY <3>2, OwnFound DEF RegistryInv
    <3>4. charsList' = IF Len(charsList) <= 1 THEN <<>> ELSE Without(charsList, k)
      BY <3>1, <3>3 DEF deleteCharsEntry
    <3>5. CASE Len(charsList) <= 1
      <4>1. charsList' = <<>> /\ <<>> \in Seq(CharsEntry)
        BY <3>4, <3>5
      <4>2. ASSUME NEW j \in DOMAIN strings, ~strings'[j].released, ~strings'[j].reused
            PROVE  FALSE
        <5>1. PICK kj \in DOMAIN charsList : IsOwnEntry(j, kj)
          BY <1>3, <4>2 DEF RegistryInv, StringsListed
        <5>2. kj = k
          BY <1>4, <3>3, <3>5
        <5>3. j = i
          BY <3>2, <5>1, <5>2 DEF IsOwnEntry
        <5> QED
          BY <1>3, <4>2, <5>3
      <4> QED
        BY <4>1, <4>2
    <3>6. CASE ~(Len(charsList) <= 1)
      <4>1. /\ charsList' \in Seq(CharsEntry) /\ Len(charsList') = Len(charsList) - 1
            /\ \A m \in 1 .. k - 1 : charsList'[m] = charsList[m]
            /\ \A m \in k .. Len(charsList) - 1 : charsList'[m] = charsList[m + 1]
        BY <1>4, <3>3, <3>4, <3>6, WithoutOne
      <4>2. DOMAIN charsList' = 1 .. Len(charsList) - 1
        BY <4>1, LenProperties
      <4>3. ASSUME NEW j \in DOMAIN strings, ~strings'[j].released, ~strings'[j].reused
            PROVE  \E kj \in DOMAIN charsList' : IsOwnEntry(j, kj)'
        <5>1. PICK kj \in DOMAIN charsList : IsOwnEntry(j, kj)
          BY <1>3, <4>3 DEF RegistryInv, StringsListed
        <5>2. j # i /\ kj # k /\ strings'[j].address = strings[j].address
          BY <1>3, <3>2, <4>3, <5>1 DEF IsOwnEntry
        <5>3. CASE kj < k
          <6>1. kj \in DOMAIN charsList' /\ charsList'[kj] = charsList[kj]
            BY <1>4, <3>3, <4>1, <4>2, <5>1, <5>3
          <6>2. \A m \in 1 .. kj - 1 : charsList'[m] = charsList[m]
            BY <1>4, <3>3, <4>1, <5>1, <5>3
          <6> QED
            BY <5>1, <5>2, <6>1, <6>2 DEF IsOwnEntry
        <5>4. CASE kj > k
          <6>1. kj - 1 \in DOMAIN charsList' /\ charsList'[kj - 1] = charsList[kj]
            BY <1>4, <3>3, <4>1, <4>2, <5>1, <5>4
          <6>2. ASSUME NEW m \in 1 .. (kj - 1) - 1
                PROVE  charsList'[m].wrapperP # strings[j].address
            <7>1. CASE m < k
              <8>1. m \in 1 .. k - 1 /\ m \in 1 .. kj - 1
                BY <1>4, <3>3, <5>1, <5>4, <7>1
              <8> QED
                BY <4>1, <5>1, <8>1 DEF IsOwnEntry
            <7>2. CASE ~(m < k)
              <8>1. m \in k .. Len(charsList) - 1 /\ m + 1 \in 1 .. kj - 1
                BY <1>4, <3>3, <5>1, <5>4, <7>2
              <8> QED
                BY <4>1, <5>1, <8>1 DEF IsOwnEntry
            <7> QED
              BY <7>1, <7>2
          <6>3. IsOwnEntry(j, kj - 1)'
            BY <5>1, <5>2, <6>1, <6>2 DEF IsOwnEntry
          <6> QED
            BY <6>1, <6>3
        <5> QED
          BY <1>4, <3>3, <5>1, <5>2, <5>3, <5>4
      <4> QED
        BY <4>1, <4>3
    <3> QED
      BY <3>5, <3>6
  <2> QED
    BY <2>1, <2>2
<1>6. StringsListed'
  BY <1>3, <1>5 DEF StringsListed
<1> QED
  BY <1>1, <1>2, <1>3, <1>5, <1>6 DEF RegistryInv, RegistryTypes, ArraysListed, IsFrontEntry

\* References, and the elements got and released with them.
LEMMA ArrayElementsInv ==
    ASSUME RegistryInv, ArrayElements
    PROVE  RegistryInv'
<1>1. /\ elements \in Seq(ElementRecord) /\ Len(elements) \in Nat /\ DOMAIN elements = 1 .. Len(elements)
      /\ \A i \in 1 .. Len(elements) : elements[i] \in ElementRecord
      /\ arrayList \in Seq(ArrayEntry) /\ Len(arrayList) \in Nat /\ DOMAIN arrayList = 1 .. Len(arrayList)
  BY LenProperties, ElementOfSeq DEF RegistryInv, RegistryTypes
<1>2. ASSUME NEW r \in Refs, NEW array \in Arrays \cup {0}, Refer(r, array)
      PROVE  RegistryInv'
  <2> DEFINE after == [i \in DOMAIN elements |-> [elements[i] EXCEPT !.same = @ /\ elements[i].ref # r]]
  <2>1. /\ refers' = [refers EXCEPT ![r] = array] /\ elements' = after
        /\ UNCHANGED <<charsList, arrayList, strings, handedBack>>
    BY <1>2 DEF Refer
  <2>2. after \in [1 .. Len(elements) -> ElementRecord]
    BY <1>1 DEF ElementRecord
  <2>3. \A i \in 1 .. Len(elements) :
            /\ after[i].ref = elements[i].ref /\ after[i].array = elements[i].array
            /\ after[i].same => elements[i].same /\ elements[i].ref # r
    BY <1>1 DEF ElementRecord
  <2>4. after \in Seq(ElementRecord) /\ DOMAIN after = 1 .. Len(elements)
    BY <1>1, <2>2, FunctionIsList
  <2> HIDE DEF after
  <2>5. RegistryTypes'
    BY <2>1, <2>4 DEF RegistryInv, RegistryTypes
  <2>6. ASSUME NEW i \in 1 .. Len(elements), after[i].same
        PROVE  /\ refers'[after[i].ref] = after[i].array
               /\ \E k \in DOMAIN arrayList : IsFrontEntry(after[i], k)
    <3>1. elements[i].same /\ elements[i].ref # r /\ elements[i].ref \in Refs
      BY <1>1, <2>3, <2>6 DEF ElementRecord
    <3>2. refers[elements[i].ref] = elements[i].array /\ \E k \in DOMAIN arrayList : IsFrontEntry(elements[i], k)
      BY <1>1, <3>1 DEF RegistryInv, ArraysListed
    <3> QED
      BY <2>1, <2>3, <3>1, <3>2 DEF IsFrontEntry, RegistryInv, RegistryTypes
  <2>7. ArraysListed'
    BY <2>1, <2>4, <2>6 DEF ArraysListed, IsFrontEntry
  <2> QED
    BY <2>1, <2>5, <2>7 DEF RegistryInv, StringsListed, IsOwnEntry, HandsBackOwn
<1>3. ASSUME NEW r \in Refs, GetArrayElements(r)
      PROVE  RegistryInv'
  <2> DEFINE new == [ref |-> r, array |-> refers[r], same |-> TRUE]
             entry == [jarr |-> r, dalvikP |-> refers[r]]
  <2>1. /\ elements' = Append(elements, new) /\ arrayList' = <<entry>> \o arrayList
        /\ UNCHANGED <<charsList, strings, refers, handedBack>>
    BY <1>3 DEF GetArrayElements, addArray
  <2>2. /\ new \in ElementRecord /\ new.ref = r /\ new.array = refers[r]
        /\ entry \in ArrayEntry /\ entry.jarr = r /\ entry.dalvikP = refers[r]
    BY DEF ElementRecord, ArrayEntry, RegistryInv, RegistryTypes
  <2> HIDE DEF new, entry
  <2>3. /\ elements' \in Seq(ElementRecord) /\ DOMAIN elements' = 1 .. Len(elements) + 1
        /\ elements'[Len(elements) + 1] = new /\ \A i \in 1 .. Len(elements) : elements'[i] = elements[i]
    BY <1>1, <2>1, <2>2
  <2>4. /\ <<entry>> \o arrayList \in Seq(ArrayEntry) /\ Len(<<entry>> \o arrayList) = Len(arrayList) + 1
        /\ (<<entry>> \o arrayList)[1] = entry
        /\ \A k \in 1 .. Len(arrayList) : (<<entry>> \o arrayList)[k + 1] = arrayList[k]
        /\ \A k \in 2 .. Len(arrayList) + 1 : (<<entry>> \o arrayList)[k] = arrayList[k - 1]
    BY <1>1, <2>2, AddedInFront
  <2>5. DOMAIN arrayList' = 1 .. Len(arrayList) + 1
    BY <2>1, <2>4, LenProperties
  <2>6. RegistryTypes'
    BY <2>1, <2>3, <2>4 DEF RegistryInv, RegistryTypes
  <2>7. ASSUME NEW i \in 1 .. Len(elements) + 1, elements'[i].same
        PROVE  /\ refers[elements'[i].ref] = elements'[i].array
               /\ \E k \in DOMAIN arrayList' : IsFrontEntry(elements[i], k)'
    <3>1. refers[elements'[i].ref] = elements'[i].array
      <4>1. CASE i = Len(elements) + 1
        BY <2>2, <2>3, <4>1
      <4>2. CASE i \in 1 .. Len(elements)
        BY <1>1, <2>3, <2>7, <4>2 DEF RegistryInv, ArraysListed
      <4> QED
        BY <1>1, <4>1, <4>2
    <3>2. CASE elements'[i].ref = r
      <4>1. /\ 1 \in DOMAIN arrayList' /\ arrayList'[1].jarr = elements'[i].ref
            /\ arrayList'[1].dalvikP = elements'[i].array
        BY <1>1, <2>1, <2>2, <2>4, <2>5, <3>1, <3>2
      <4>2. IsFrontEntry(elements[i], 1)'
        BY <4>1 DEF IsFrontEntry
      <4> QED
        BY <3>1, <4>1, <4>2
    <3>3. CASE elements'[i].ref # r
      <4>1. i \in 1 .. Len(elements) /\ elements'[i] = elements[i]
        BY <1>1, <2>2, <2>3, <3>3
      <4>2. PICK k \in 1 .. Len(arrayList) : IsFrontEntry(elements[i], k)
        BY <1>1, <2>7, <4>1 DEF RegistryInv, ArraysListed
      <4>3. k + 1 \in DOMAIN arrayList' /\ arrayList'[k + 1] = arrayList[k]
        BY <1>1, <2>1, <2>4, <2>5
      <4>4. ASSUME NEW m \in 1 .. k PROVE arrayList'[m].jarr # elements[i].ref
        <5>1. CASE m = 1
          BY <2>1, <2>2, <2>4, <3>3, <4>1, <5>1
        <5>2. CASE m # 1
          <6>1. m \in 2 .. Len(arrayList) + 1 /\ m - 1 \in 1 .. k - 1
            BY <1>1, <5>2
          <6> QED
            BY <2>1, <2>4, <4>2, <6>1 DEF IsFrontEntry
        <5> QED
          BY <5>1, <5>2
      <4>5. IsFrontEntry(elements[i], k + 1)'
        BY <4>1, <4>2, <4>3, <4>4 DEF IsFrontEntry
      <4> QED
        BY <3>1, <4>3, <4>5
    <3> QED
      BY <3>2, <3>3
  <2>8. ArraysListed'
    BY <2>1, <2>3, <2>7 DEF ArraysListed
  <2> QED
    BY <2>1, <2>6, <2>8 DEF RegistryInv, StringsListed, IsOwnEntry, HandsBackOwn
<1>4. ASSUME NEW i \in DOMAIN elements, NEW r \in Refs, ReleaseArrayElements(i, r)
      PROVE  RegistryInv'
  <2>1. /\ elements' = Without(elements, i) /\ UNCHANGED <<charsList, arrayList, strings, refers>>
        /\ handedBack' = [is |-> arrayList[getArrayLength(r)].dalvikP,
                          was |-> elements[i].array, excused |-> r # elements[i].ref \/ ~elements[i].same]
    BY <1>4 DEF ReleaseArrayElements
  <2>2. HandsBackOwn'
    <3>1. CASE r # elements[i].ref \/ ~elements[i].same
      BY <2>1, <3>1 DEF HandsBackOwn
    <3>2. CASE r = elements[i].ref /\ elements[i].same
      <4>1. PICK k \in DOMAIN arrayList : IsFrontEntry(elements[i], k)
        BY <3>2 DEF RegistryInv, ArraysListed
      <4>2. getArrayLength(r) = k /\ k # 0
        BY <3>2, <4>1, FrontFound DEF RegistryInv
      <4> QED
        BY <2>1, <4>1, <4>2 DEF HandsBackOwn, IsFrontEntry
    <3> QED
      BY <3>1, <3>2
  <2>3. /\ elements' \in Seq(ElementRecord) /\ Len(elements') = Len(elements) - 1
        /\ \A m \in 1 .. i - 1 : elements'[m] = elements[m]
        /\ \A m \in i .. Len(elements) - 1 : elements'[m] = elements[m + 1]
    <3>1. i \in 1 .. Len(elements)
      BY <1>1
    <3>2. /\ Without(elements, i) \in Seq(ElementRecord) /\ Len(Without(elements, i)) = Len(elements) - 1
          /\ \A m \in 1 .. i - 1 : Without(elements, i)[m] = elements[m]
          /\ \A m \in i .. Len(elements) - 1 : Without(elements, i)[m] = elements[m + 1]
      BY <1>1, <3>1, WithoutOne
    <3> QED
      BY <2>1, <3>2
  <2>4. DOMAIN elements' = 1 .. Len(elements) - 1
    BY <2>3, LenProperties
  <2>5. \A m \in DOMAIN elements' : \E j \in DOMAIN elements : elements'[m] = elements[j]
    <3> TAKE m \in DOMAIN elements'
    <3>1. CASE m < i
      BY <1>1, <2>3, <2>4, <3>1
    <3>2. CASE ~(m < i)
      <4>1. m \in i .. Len(elements) - 1 /\ m + 1 \in DOMAIN elements
        BY <1>1, <2>4, <3>2
      <4> QED
        BY <2>3, <4>1
    <3> QED
      BY <3>1, <3>2
  <2>6. ArraysListed'
    BY <2>1, <2>5 DEF RegistryInv, ArraysListed, IsFrontEntry
  <2> QED
    BY <2>1, <2>2, <2>3, <2>6 DEF RegistryInv, RegistryTypes, StringsListed, IsOwnEntry
<1>5. ASSUME NEW r \in Refs, NEW sent \in BOOLEAN, GetElementsOfType(r, sent)
      PROVE  RegistryInv'
  <2> DEFINE after == [i \in DOMAIN elements |-> [elements[i] EXCEPT !.same = @ /\ (sent \/ elements[i].ref # r)]]
             entry == [jarr |-> r, dalvikP |-> IF sent THEN refers[r] ELSE 0]
  <2>1. /\ elements' = after /\ arrayList' = <<entry>> \o arrayList
        /\ UNCHANGED <<charsList, strings, refers, handedBack>>
    BY <1>5 DEF GetElementsOfType, addArray
  <2>2. /\ entry \in ArrayEntry /\ entry.jarr = r /\ (sent => entry.dalvikP = refers[r])
        /\ after \in [1 .. Len(elements) -> ElementRecord]
    <3>1. entry \in ArrayEntry /\ entry.jarr = r /\ (sent => entry.dalvikP = refers[r])
      BY DEF ArrayEntry, RegistryInv, RegistryTypes
    <3>2. after \in [1 .. Len(elements) -> ElementRecord]
      BY <1>1 DEF ElementRecord
    <3> QED
      BY <3>1, <3>2
  <2>3. \A i \in 1 .. Len(elements) :
            /\ after[i].ref = elements[i].ref /\ after[i].array = elements[i].array
            /\ after[i].same => elements[i].same /\ (sent \/ elements[i].ref # r)
    BY <1>1 DEF ElementRecord
  <2>4. after \in Seq(ElementRecord) /\ DOMAIN after = 1 .. Len(elements)
    BY <1>1, <2>2, FunctionIsList
  <2> HIDE DEF after, entry
  <2>5. /\ <<entry>> \o arrayList \in Seq(ArrayEntry) /\ Len(<<entry>> \o arrayList) = Len(arrayList) + 1
        /\ (<<entry>> \o arrayList)[1] = entry
        /\ \A k \in 1 .. Len(arrayList) : (<<entry>> \o arrayList)[k + 1] = arrayList[k]
        /\ \A k \in 2 .. Len(arrayList) + 1 : (<<entry>> \o arrayList)[k] = arrayList[k - 1]
    BY <1>1, <2>2, AddedInFront
  <2>6. DOMAIN arrayList' = 1 .. Len(arrayList) + 1
    BY <2>1, <2>5, LenProperties
  <2>7. RegistryTypes'
    BY <2>1, <2>4, <2>5 DEF RegistryInv, RegistryTypes
  <2>8. ASSUME NEW i \in 1 .. Len(elements), after[i].same
        PROVE  /\ refers[after[i].ref] = after[i].array
               /\ \E k \in DOMAIN arrayList' : IsFrontEntry(elements[i], k)'
    <3>1. refers[elements[i].ref] = elements[i].array /\ \E k \in DOMAIN arrayList : IsFrontEntry(elements[i], k)
      BY <1>1, <2>3, <2>8 DEF RegistryInv, ArraysListed
    <3>2. elements'[i].ref = elements[i].ref /\ elements'[i].array = elements[i].array
      BY <2>1, <2>3
    <3>3. CASE elements[i].ref = r
      <4>1. /\ 1 \in DOMAIN arrayList' /\ arrayList'[1].jarr = elements'[i].ref
            /\ arrayList'[1].dalvikP = elements'[i].array
        BY <1>1, <2>1, <2>2, <2>3, <2>5, <2>6, <2>8, <3>1, <3>2, <3>3
      <4>2. IsFrontEntry(elements[i], 1)'
        BY <4>1 DEF IsFrontEntry
      <4> QED
        BY <2>3, <3>1, <4>1, <4>2
    <3>4. CASE elements[i].ref # r
      <4>1. PICK k \in 1 .. Len(arrayList) : IsFrontEntry(elements[i], k)
        BY <1>1, <3>1
      <4>2. k + 1 \in DOMAIN arrayList' /\ arrayList'[k + 1] = arrayList[k]
        BY <1>1, <2>1, <2>5, <2>6
      <4>3. ASSUME NEW m \in 1 .. k PROVE arrayList'[m].jarr # elements[i].ref
        <5>1. CASE m = 1
          BY <2>1, <2>2, <2>5, <3>4, <5>1
        <5>2. CASE m # 1
          <6>1. m \in 2 .. Len(arrayList) + 1 /\ m - 1 \in 1 .. k - 1
            BY <1>1, <5>2
          <6> QED
            BY <2>1, <2>5, <4>1, <6>1 DEF IsFrontEntry
        <5> QED
          BY <5>1, <5>2
      <4>4. IsFrontEntry(elements[i], k + 1)'
        BY <3>2, <4>1, <4>2, <4>3 DEF IsFrontEntry
      <4> QED
        BY <2>3, <3>1, <4>2, <4>4
    <3> QED
      BY <3>3, <3>4
  <2>9. ArraysListed'
    BY <2>1, <2>4, <2>8 DEF ArraysListed
  <2> QED
    BY <2>1, <2>7, <2>9 DEF RegistryInv, StringsListed, IsOwnEntry, HandsBackOwn
<1> QED
  BY <1>2, <1>3, <1>4, <1>5 DEF ArrayElements

\* In whatever order strings and arrays are got and released, what is given back to Dalvik is what
\* was got, but for the strings whose block has been taken and the elements whose reference has.
THEOREM HandsBackOwnAlways == Spec => []HandsBackOwn
<1>1. Init => RegistryInv
  BY EmptySeq DEF Init, RegistryInit, RegistryInv, RegistryTypes, StringsListed, ArraysListed, HandsBackOwn
<1>2. RegistryInv /\ [Next]_vars => RegistryInv'
  <2> SUFFICES ASSUME RegistryInv, [Next]_vars PROVE RegistryInv'
    OBVIOUS
  <2>1. CASE RegistryLost
    BY <2>1, EmptySeq DEF RegistryLost, RegistryInv, RegistryTypes, StringsListed, ArraysListed, HandsBackOwn
  <2>2. CASE UNCHANGED registryVars
    BY <2>2 DEF registryVars, RegistryInv, RegistryTypes, StringsListed, ArraysListed, IsOwnEntry, IsFrontEntry,
       HandsBackOwn
  <2>3. CASE Strings
    BY <2>3, GetStringInv, ReleaseStringInv DEF Strings
  <2>4. CASE ArrayElements
    BY <2>4, ArrayElementsInv
  <2>5. RegistryLost \/ UNCHANGED registryVars \/ Strings \/ ArrayElements
    BY DEF Next, App, Requests, vars, UsesJni, FirstService, StartService, Dies, Gone, Lookup, SetAlive,
       setServiceName, Transact, Returns, TaintCall, addLib, addFunc, changeFunc, binderDied, Restarted,
       ReleasesUnlisted, doCallbackTransaction, LooksUpNameless
  <2> QED
    BY <2>1, <2>2, <2>3, <2>4, <2>5
<1>3. RegistryInv => HandsBackOwn
  BY DEF RegistryInv
<1> QED
  BY <1>1, <1>2, <1>3, PTL DEF Spec

=============================================================================
