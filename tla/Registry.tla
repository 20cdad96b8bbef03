------------------------------ MODULE Registry ------------------------------
(***************************************************************************)
(* The lists of an ExecutionManager: which buffer of Dalvik belongs to the *)
(* characters or elements a native method got.  Entries are found by the   *)
(* address of the characters and by the reference to the array.  The       *)
(* answer to a request is a block that is freed when the next request is   *)
(* made; what GetStringUTFChars returns points into that block, while      *)
(* GetStringChars and GetStringCritical return a copy, which nobody frees. *)
(***************************************************************************)
EXTENDS Integers, Sequences, FiniteSets

CONSTANTS Addresses,      \* where a block or a copy may be
          Refs, Arrays,   \* references to arrays, and the arrays
          MaxGets         \* strings and elements a native method asks for

ASSUME RegistryAssumption == MaxGets \in Nat

VARIABLES
    charsList,    \* the list of strings, its head first
    arrayList,    \* the list of arrays
    answer,       \* the block of the last answer (0: none)
    strings,      \* strings asked for: kind, address, and whether the address was used again
    elements,     \* elements asked for: the reference, the array, and whether the reference is still the same
    refers,       \* what the references refer to (0: nothing)
    handedBack    \* the last buffer that was given back to Dalvik, and which one it should have been

registryVars == <<charsList, arrayList, answer, strings, elements, refers, handedBack>>

RegistryInit ==
    /\ charsList = <<>> /\ arrayList = <<>>
    /\ answer = 0
    /\ strings = <<>> /\ elements = <<>>
    /\ refers = [r \in Refs |-> 0]
    /\ handedBack = [is |-> 0, was |-> 0, excused |-> FALSE]

(* A new manager, in a new process. *)
RegistryLost ==
    /\ charsList' = <<>> /\ arrayList' = <<>>
    /\ answer' = 0
    /\ strings' = <<>> /\ elements' = <<>>
    /\ refers' = [r \in Refs |-> 0]
    /\ handedBack' = [is |-> 0, was |-> 0, excused |-> FALSE]

-----------------------------------------------------------------------------
Positions(list, Is(_)) == {i \in DOMAIN list : Is(list[i])}
First(S) == CHOOSE i \in S : \A j \in S : i <= j
Without(list, i) == SubSeq(list, 1, i - 1) \o SubSeq(list, i + 1, Len(list))

addStringChars(dalvikP, wrapperP) == <<[dalvikP |-> dalvikP, wrapperP |-> wrapperP]>> \o charsList

(* The position of the entry, 0 if there is none. *)
getDalvikChars(wrapperP) ==
    LET found == Positions(charsList, LAMBDA s : s.wrapperP = wrapperP)
    IN IF found = {} THEN 0 ELSE First(found)

(* A list of one entry is emptied whatever its address is. *)
deleteCharsEntry(wrapperP) ==
    IF Len(charsList) <= 1 THEN <<>> ELSE Without(charsList, getDalvikChars(wrapperP))

\* Mutant: entries are added behind the others.
addArrayLast(jarr, dalvikP) == arrayList \o <<[jarr |-> jarr, dalvikP |-> dalvikP]>>
addArray(jarr, dalvikP) == <<[jarr |-> jarr, dalvikP |-> dalvikP]>> \o arrayList
getArrayLength(jarr) ==
    LET found == Positions(arrayList, LAMBDA s : s.jarr = jarr)
    IN IF found = {} THEN 0 ELSE First(found)

-----------------------------------------------------------------------------
Gets == Len(strings) + Len(arrayList)
Kept == {strings[i].address : i \in {j \in DOMAIN strings : strings[j].kind # "UTF"}}
Reused(a) == [i \in DOMAIN strings |-> [strings[i] EXCEPT !.reused = @ \/ (~strings[i].released /\ strings[i].address = a)]]

(* A request: the last answer has been freed when the next one is allocated. *)
Request(a) == a \in Addresses \ Kept /\ answer' = a

NewString(kind, a) == [kind |-> kind, address |-> a, reused |-> FALSE, released |-> FALSE]

(* GetStringUTFChars: the characters are in the answer. *)
GetStringUTFChars(a) ==
    /\ Gets < MaxGets
    /\ Request(a)
    /\ strings' = Append(Reused(a), NewString("UTF", a))
    /\ charsList' = addStringChars(Len(strings) + 1, a)
    /\ UNCHANGED <<arrayList, elements, refers, handedBack>>

(* GetStringChars and GetStringCritical: the characters are copied out of the answer. *)
GetStringCopy(a, copy) ==
    /\ Gets < MaxGets
    /\ Request(a)
    /\ copy \in Addresses \ (Kept \cup {a})
    /\ strings' = Append([i \in DOMAIN strings |-> [strings[i] EXCEPT !.reused = Reused(a)[i].reused \/ Reused(copy)[i].reused]],
                         NewString("copy", copy))
    /\ charsList' = addStringChars(Len(strings) + 1, copy)
    /\ UNCHANGED <<arrayList, elements, refers, handedBack>>

(* A string that is released: what getDalvikChars finds is given back. *)
GiveBack(i) ==
    handedBack' = [is |-> IF getDalvikChars(strings[i].address) = 0 THEN 0
                          ELSE charsList[getDalvikChars(strings[i].address)].dalvikP,
                   was |-> i, excused |-> strings[i].reused]

(* ReleaseStringChars and ReleaseStringCritical delete the entry.  Their early return for a missing
   one is a 0 given back, which HandsBackOwn shows not to happen. *)
ReleaseStringCopy(i, a) ==
    /\ strings[i].kind # "UTF"
    /\ Request(a)
    /\ GiveBack(i)
    /\ charsList' = deleteCharsEntry(strings[i].address)
    /\ strings' = [Reused(a) EXCEPT ![i].released = TRUE]
    /\ UNCHANGED <<arrayList, elements, refers>>

(* ReleaseStringUTFChars leaves the entry in the list. *)
ReleaseStringUTFChars(i, a) ==
    /\ strings[i].kind = "UTF"
    /\ Request(a)
    /\ GiveBack(i)
    /\ strings' = [Reused(a) EXCEPT ![i].released = TRUE]
    /\ UNCHANGED <<charsList, arrayList, elements, refers>>

Strings ==
    \/ \E a \in Addresses : GetStringUTFChars(a)
    \/ \E a, copy \in Addresses : GetStringCopy(a, copy)
    \/ \E i \in DOMAIN strings, a \in Addresses :
          ~strings[i].released /\ (ReleaseStringCopy(i, a) \/ ReleaseStringUTFChars(i, a))

-----------------------------------------------------------------------------
(* A reference is made or deleted; the number of a deleted one is used again. *)
Refer(r, array) ==
    /\ refers[r] # array
    /\ refers' = [refers EXCEPT ![r] = array]
    /\ elements' = [i \in DOMAIN elements |-> [elements[i] EXCEPT !.same = @ /\ elements[i].ref # r]]
    /\ UNCHANGED <<charsList, arrayList, answer, strings, handedBack>>

(* GetPrimitiveArrayCritical, whose answer has the address of the elements. *)
GetArrayElements(r) ==
    /\ Gets < MaxGets
    /\ refers[r] # 0
    /\ elements' = Append(elements, [ref |-> r, array |-> refers[r], same |-> TRUE])
    /\ arrayList' = addArray(r, refers[r])
    /\ UNCHANGED <<charsList, answer, strings, refers, handedBack>>

(* Get<T>ArrayElements puts its array in front of the same list; the answer for less than 8 bytes has
   no address (module JniHandlers), and what is found behind it is taken for one. *)
GetElementsOfType(r, sent) ==
    /\ Gets < MaxGets
    /\ refers[r] # 0
    /\ arrayList' = addArray(r, IF sent THEN refers[r] ELSE 0)
    /\ elements' = [i \in DOMAIN elements |-> [elements[i] EXCEPT !.same = @ /\ (sent \/ elements[i].ref # r)]]
    /\ UNCHANGED <<charsList, answer, strings, refers, handedBack>>

(* ReleasePrimitiveArrayCritical: elements are released with a reference to their array, not always
   the one they were got with. *)
ReleaseArrayElements(i, r) ==
    /\ refers[r] = elements[i].array
    /\ getArrayLength(r) # 0
    /\ handedBack' = [is |-> arrayList[getArrayLength(r)].dalvikP,
                      was |-> elements[i].array, excused |-> r # elements[i].ref \/ ~elements[i].same]
    /\ elements' = Without(elements, i)
    /\ UNCHANGED <<charsList, arrayList, answer, strings, refers>>

(* With a reference that has no entry the missing one is read, which ends the process. *)
ReleaseUnlisted(i, r) == refers[r] = elements[i].array /\ getArrayLength(r) = 0

ArrayElements ==
    \/ \E r \in Refs, array \in Arrays \cup {0} : Refer(r, array)
    \/ \E r \in Refs : GetArrayElements(r)
    \/ \E r \in Refs, sent \in BOOLEAN : GetElementsOfType(r, sent)
    \/ \E i \in DOMAIN elements, r \in Refs : ReleaseArrayElements(i, r)

-----------------------------------------------------------------------------
(* What a native method releases is given back to Dalvik as what it was got as, in whatever order
   strings and arrays are got and released.  Excepted are a string of GetStringUTFChars whose block
   a later answer or copy has taken, and elements released with another reference to their array or
   one that has been used since, for another array or to get the elements without their address. *)
HandsBackOwn == handedBack.is = handedBack.was \/ handedBack.excused
=============================================================================
