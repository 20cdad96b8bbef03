----------------------------- MODULE Marshal -----------------------------
(***************************************************************************)
(* The data path of the JNI requests of one native method: a stub packs    *)
(* and sends its block (JniRemote), the app's process executes the request *)
(* (JniHandlers) and answers with the block the members of BpWrapper       *)
(* describe.  The members, and the number of taints in jniCall, outlive    *)
(* the call: a step that does not set one works with what an earlier call  *)
(* left there.                                                             *)
(***************************************************************************)
EXTENDS JniRemote, JniHandlers

CONSTANTS Lengths,        \* lengths of strings and arrays
          Signatures,     \* signatures of the methods that are called
          ElementTypes,   \* element types of the arrays that are accessed critically
          Garbage         \* values a member may have before it is first assigned

ASSUME LengthsAssumption == Lengths \subseteq Nat /\ Garbage \subseteq Nat
ASSUME SignaturesAssumption == \A sig \in Signatures : DOMAIN sig \subseteq DOMAIN Arg
ASSUME TypesAssumption == ElementTypes \subseteq Types \ {"Object"}

(* The table of functions a native method gets. *)
gNativeInterface(T, n, m) ==
    [GetVersion |-> GetVersion, FindClass |-> FindClass(n),
     FromReflectedMethod |-> FromReflectedMethod, FromReflectedField |-> FromReflectedField,
     ToReflectedMethod |-> ToReflectedMethod, ToReflectedField |-> ToReflectedField,
     GetSuperclass |-> GetSuperclass, IsAssignableFrom |-> IsAssignableFrom, Throw |-> Throw,
     ThrowNew |-> ThrowNew(n), ExceptionOccurred |-> ExceptionOccurred,
     ExceptionDescribe |-> ExceptionDescribe, ExceptionClear |-> ExceptionClear,
     ExceptionCheck |-> ExceptionCheck, PushLocalFrame |-> PushLocalFrame,
     PopLocalFrame |-> PopLocalFrame, NewGlobalRef |-> NewGlobalRef,
     DeleteGlobalRef |-> DeleteGlobalRef, DeleteLocalRef |-> DeleteLocalRef,
     IsSameObject |-> IsSameObject, NewLocalRef |-> NewLocalRef,
     EnsureLocalCapacity |-> EnsureLocalCapacity, AllocObject |-> AllocObject,
     GetObjectClass |-> GetObjectClass, IsInstanceOf |-> IsInstanceOf,
     NewWeakGlobalRef |-> NewWeakGlobalRef, DeleteWeakGlobalRef |-> DeleteWeakGlobalRef,
     GetObjectRefType |-> GetObjectRefType, MonitorEnter |-> MonitorEnter,
     MonitorExit |-> MonitorExit, UnregisterNatives |-> UnregisterNatives,
     GetMethodID |-> GetMethodID(n), GetFieldID |-> GetFieldID(n),
     GetStaticMethodID |-> GetStaticMethodID(n), GetStaticFieldID |-> GetStaticFieldID(n),
     RegisterNatives |-> RegisterNatives(n), NewObject |-> NewObject(m),
     CallObjectMethod |-> CallObjectMethod(m), CallBooleanMethod |-> CallBooleanMethod(m),
     CallBooleanMethodV |-> CallBooleanMethodV(m), CallBooleanMethodA |-> CallBooleanMethodA(m),
     CallByteMethod |-> CallByteMethod(m), CallCharMethod |-> CallCharMethod(m),
     CallShortMethod |-> CallShortMethod(m), CallIntMethod |-> CallIntMethod(m),
     CallIntMethodV |-> CallIntMethodV(m), CallIntMethodA |-> CallIntMethodA(m),
     CallLongMethod |-> CallLongMethod(m), CallFloatMethod |-> CallFloatMethod(m),
     CallDoubleMethod |-> CallDoubleMethod(m), CallVoidMethod |-> CallVoidMethod(m),
     CallNonvirtualObjectMethod |-> CallNonvirtualObjectMethod(m),
     CallNonvirtualBooleanMethod |-> CallNonvirtualBooleanMethod(m),
     CallNonvirtualByteMethod |-> CallNonvirtualByteMethod(m),
     CallNonvirtualCharMethod |-> CallNonvirtualCharMethod(m),
     CallNonvirtualShortMethod |-> CallNonvirtualShortMethod(m),
     CallNonvirtualIntMethod |-> CallNonvirtualIntMethod(m),
     CallNonvirtualLongMethod |-> CallNonvirtualLongMethod(m),
     CallNonvirtualFloatMethod |-> CallNonvirtualFloatMethod(m),
     CallNonvirtualDoubleMethod |-> CallNonvirtualDoubleMethod(m),
     CallNonvirtualVoidMethod |-> CallNonvirtualVoidMethod(m),
     CallStaticVoidMethod |-> CallStaticVoidMethod(m),
     CallStaticObjectMethod |-> CallStaticObjectMethod(m),
     CallStaticBooleanMethod |-> CallStaticBooleanMethod(m),
     CallStaticByteMethod |-> CallStaticByteMethod(m),
     CallStaticCharMethod |-> CallStaticCharMethod(m),
     CallStaticShortMethod |-> CallStaticShortMethod(m),
     CallStaticIntMethod |-> CallStaticIntMethod(m), CallStaticLongMethod |-> CallStaticLongMethod(m),
     CallStaticFloatMethod |-> CallStaticFloatMethod(m),
     CallStaticDoubleMethod |-> CallStaticDoubleMethod(m), GetObjectField |-> GetObjectField,
     GetBooleanField |-> GetBooleanField, GetByteField |-> GetByteField,
     GetCharField |-> GetCharField, GetShortField |-> GetShortField, GetIntField |-> GetIntField,
     GetLongField |-> GetLongField, GetFloatField |-> GetFloatField,
     GetDoubleField |-> GetDoubleField, SetObjectField |-> SetObjectField,
     SetBooleanField |-> SetBooleanField, SetByteField |-> SetByteField,
     SetCharField |-> SetCharField, SetShortField |-> SetShortField, SetIntField |-> SetIntField,
     SetLongField |-> SetLongField, SetFloatField |-> SetFloatField,
     SetDoubleField |-> SetDoubleField, GetStaticIntField |-> GetStaticIntField,
     GetStaticShortField |-> GetStaticShortField, GetStaticCharField |-> GetStaticCharField,
     GetStaticByteField |-> GetStaticByteField, GetStaticBooleanField |-> GetStaticBooleanField,
     GetStaticObjectField |-> GetStaticObjectField, GetStaticLongField |-> GetStaticLongField,
     GetStaticFloatField |-> GetStaticFloatField, GetStaticDoubleField |-> GetStaticDoubleField,
     SetStaticObjectField |-> SetStaticObjectField, SetStaticBooleanField |-> SetStaticBooleanField,
     SetStaticByteField |-> SetStaticByteField, SetStaticCharField |-> SetStaticCharField,
     SetStaticShortField |-> SetStaticShortField, SetStaticIntField |-> SetStaticIntField,
     SetStaticLongField |-> SetStaticLongField, SetStaticFloatField |-> SetStaticFloatField,
     SetStaticDoubleField |-> SetStaticDoubleField, NewString |-> NewString(n),
     GetStringLength |-> GetStringLength, GetStringChars |-> GetStringChars(n),
     ReleaseStringChars |-> ReleaseStringChars(n), NewStringUTF |-> NewStringUTF(n),
     GetStringUTFLength |-> GetStringUTFLength, GetStringUTFChars |-> GetStringUTFChars(n),
     ReleaseStringUTFChars |-> ReleaseStringUTFChars(n), GetStringRegion |-> GetStringRegion(n),
     GetStringUTFRegion |-> GetStringUTFRegion(n), GetStringCritical |-> GetStringCritical(n),
     ReleaseStringCritical |-> ReleaseStringCritical(n), GetArrayLength |-> GetArrayLength,
     NewObjectArray |-> NewObjectArray, GetObjectArrayElement |-> GetObjectArrayElement,
     SetObjectArrayElement |-> SetObjectArrayElement, NewBooleanArray |-> NewBooleanArray,
     NewByteArray |-> NewByteArray, NewCharArray |-> NewCharArray, NewShortArray |-> NewShortArray,
     NewIntArray |-> NewIntArray, NewLongArray |-> NewLongArray, NewFloatArray |-> NewFloatArray,
     NewDoubleArray |-> NewDoubleArray, GetBooleanArrayElements |-> GetBooleanArrayElements(n),
     GetByteArrayElements |-> GetByteArrayElements(n),
     GetCharArrayElements |-> GetCharArrayElements(n),
     GetShortArrayElements |-> GetShortArrayElements(n),
     GetIntArrayElements |-> GetIntArrayElements(n), GetLongArrayElements |-> GetLongArrayElements(n),
     GetFloatArrayElements |-> GetFloatArrayElements(n),
     GetDoubleArrayElements |-> GetDoubleArrayElements(n),
     ReleaseBooleanArrayElements |-> ReleaseBooleanArrayElements(n),
     ReleaseByteArrayElements |-> ReleaseByteArrayElements(n),
     ReleaseCharArrayElements |-> ReleaseCharArrayElements(n),
     ReleaseShortArrayElements |-> ReleaseShortArrayElements(n),
     ReleaseIntArrayElements |-> ReleaseIntArrayElements(n),
     ReleaseLongArrayElements |-> ReleaseLongArrayElements(n),
     ReleaseFloatArrayElements |-> ReleaseFloatArrayElements(n),
     ReleaseDoubleArrayElements |-> ReleaseDoubleArrayElements(n),
     GetBooleanArrayRegion |-> GetBooleanArrayRegion(n), GetByteArrayRegion |-> GetByteArrayRegion(n),
     GetCharArrayRegion |-> GetCharArrayRegion(n), GetShortArrayRegion |-> GetShortArrayRegion(n),
     GetIntArrayRegion |-> GetIntArrayRegion(n), GetLongArrayRegion |-> GetLongArrayRegion(n),
     GetFloatArrayRegion |-> GetFloatArrayRegion(n), GetDoubleArrayRegion |-> GetDoubleArrayRegion(n),
     SetBooleanArrayRegion |-> SetBooleanArrayRegion(n), SetByteArrayRegion |-> SetByteArrayRegion(n),
     SetCharArrayRegion |-> SetCharArrayRegion(n), SetShortArrayRegion |-> SetShortArrayRegion(n),
     SetIntArrayRegion |-> SetIntArrayRegion(n), SetLongArrayRegion |-> SetLongArrayRegion(n),
     SetFloatArrayRegion |-> SetFloatArrayRegion(n), SetDoubleArrayRegion |-> SetDoubleArrayRegion(n),
     GetPrimitiveArrayCritical |-> GetPrimitiveArrayCritical(T, n),
     ReleasePrimitiveArrayCritical |-> ReleasePrimitiveArrayCritical(n * elementSize(T)),
     NewDirectByteBuffer |-> NewDirectByteBuffer(n),
     GetDirectBufferAddress |-> GetDirectBufferAddress(n),
     GetDirectBufferCapacity |-> GetDirectBufferCapacity]

(***************************************************************************)
(* A call of function f about n characters or elements, with an array of   *)
(* elements t, or of the method m, while an exception is pending or not:   *)
(* what its stub does, and what the handler does that its code selects.    *)
(***************************************************************************)
CallsOf(t, n, m, pending) ==
    LET stubs == gNativeInterface(t, n, m)
        handlers == Handlers(t, n, m, pending)
    IN {[f |-> f, n |-> n, t |-> t, m |-> m, stub |-> stubs[f], handler |-> HandlerOf(handlers, stubs[f].code)]
            : f \in DOMAIN stubs}
Critical == {"GetPrimitiveArrayCritical", "ReleasePrimitiveArrayCritical"}

(* The functions that call a method, and how those with a code of their own get its parameters. *)
Family(first, kinds, last) == {first \o k \o last : k \in kinds}
MethodCalls(kind) == Family(kind, Types \cup {"Void"}, "Method")
WithArray == {"CallBooleanMethodA", "CallIntMethodA"}
WithVarArgs == {"CallBooleanMethod", "CallBooleanMethodV", "CallIntMethod", "CallIntMethodV"}
CallingMethods ==
    UNION {{"NewObject"}, WithArray, WithVarArgs, MethodCalls("Call"), MethodCalls("CallNonvirtual"), MethodCalls("CallStatic")}
CanCall(f, m) == (f \in WithArray => m.pack = "array") /\ (f \in WithVarArgs => m.pack = "va")

Methods == [sig : Signatures, pack : {"va", "array"}]
AnyType == CHOOSE t \in ElementTypes : TRUE
AnyLength == CHOOSE n \in Lengths : TRUE
AnyMethod == CHOOSE m \in Methods : TRUE
Calls ==
    {c \in UNION ({{d \in CallsOf(t, n, AnyMethod, pending) : d.f \notin CallingMethods /\ (d.f \in Critical \/ t = AnyType)}
                       : t \in ElementTypes, n \in Lengths, pending \in BOOLEAN}
                  \cup {{d \in CallsOf(AnyType, AnyLength, m, FALSE) : d.f \in CallingMethods} : m \in Methods})
        : CanCall(c.f, c.m)}

VARIABLES
    phase,         \* who is at work: the native method, the app with a request, or its answer
    call,          \* the call being made
    jniTaint,      \* jniCall.taintsize of the execution manager
    size,          \* BpWrapper::size
    taintsize,     \* BpWrapper::taintsize
    callbackdata,  \* the block BpWrapper::callbackdata points to: its state and its size
    replyFrees     \* how often the block of the request has been freed

vars == <<phase, call, jniTaint, size, taintsize, callbackdata, replyFrees>>

NoCall == [f |-> "none"]
Keep(old, new) == IF new = Unset THEN old ELSE new

Init ==
    /\ phase = "native"
    /\ call = NoCall
    /\ jniTaint \in Garbage
    /\ size \in Garbage
    /\ taintsize = 0
    /\ callbackdata = [is |-> "unset", alloc |-> 0]
    /\ replyFrees = 0

(* A stub packs its parameters; requestJNI hands the block to the transaction, which sends it. *)
RequestJNI(c) ==
    /\ phase = "native"
    /\ phase' = "request"
    /\ call' = c
    /\ jniTaint' = Keep(jniTaint, c.stub.taint)
    /\ replyFrees' = 0
    /\ UNCHANGED <<size, taintsize, callbackdata>>

\* Mutant: the handlers free the block of the request as well.
HandleJNIRequestFreesAgain ==
    LET h == call.handler
    IN /\ phase = "request"
       /\ phase' = "answer"
       /\ size' = Keep(size, h.size)
       /\ taintsize' = Keep(jniTaint, h.taint)
       /\ callbackdata' = IF h.alloc = Unset THEN callbackdata ELSE [is |-> "live", alloc |-> h.alloc]
       /\ replyFrees' = 2
       /\ UNCHANGED <<call, jniTaint>>

(* taintsize is overwritten with the number received before the handler runs.  The freed block
   of an unknown code may end the process; otherwise the members are sent as they are. *)
HandleJNIRequest ==
    LET h == call.handler
    IN /\ phase = "request"
       /\ phase' \in IF h.fn = "none" THEN {"answer", "dead"} ELSE {"answer"}
       /\ size' = Keep(size, h.size)
       /\ taintsize' = Keep(jniTaint, h.taint)
       /\ callbackdata' =
            CASE h.alloc = Unset -> callbackdata
              [] h = Handle(h.fn, h.reads, NoValue) -> [is |-> "null", alloc |-> 0]
              [] OTHER -> [is |-> "live", alloc |-> h.alloc]
       /\ replyFrees' = IF h.fn = "none" THEN 2 ELSE 1
       /\ UNCHANGED <<call, jniTaint>>

(* The answer is sent and its block freed if it has any bytes; the stub takes its result out. *)
DoCallbackTransaction ==
    /\ phase = "answer"
    /\ phase' = "native"
    /\ call' = NoCall
    /\ callbackdata' = IF size > 0 THEN [callbackdata EXCEPT !.is = "freed"] ELSE callbackdata
    /\ replyFrees' = 0
    /\ UNCHANGED <<jniTaint, size, taintsize>>

Next ==
    \/ \E c \in Calls : RequestJNI(c)
    \/ HandleJNIRequest
    \/ DoCallbackTransaction

Spec == Init /\ [][Next]_vars

-----------------------------------------------------------------------------
(* The variants of a function, where the stubs tell them apart. *)
JniFunction(f) ==
    CASE f \in {"CallBooleanMethodV", "CallBooleanMethodA"} -> "CallBooleanMethod"
      [] f \in {"CallIntMethodV", "CallIntMethodA"} -> "CallIntMethod"
      [] OTHER -> f

(* What is known to go wrong, by function. *)
Primitive == Types \ {"Object"}
Small == {t \in Types : Width[t] < 4}
Unaligned(c, first, last) == \E t \in Small : c.f = first \o t \o last /\ (c.n * Width[t]) % 4 # 0
SharedCode == {"CallStaticDoubleMethod", "SetStaticObjectField", "GetStringUTFRegion"}
UnknownCode == {"GetDirectBufferCapacity"}
StringRegions == {"GetStringRegion", "GetStringUTFRegion"}

(* A signature whose letters are not its parameters, one for one: in a va_list they have to have
   their widths, and a float has none; in an array there have to be as many. *)
Misread(m) ==
    LET letters == Letters(m.sig)
    IN \E i \in DOMAIN m.sig :
            \/ i > Len(letters)
            \/ m.pack = "va" /\ (letters[i] # m.sig[i].width \/ m.sig[i] = FloatParam)

(* What the last four bytes of the block are needed for: the size if there are no parameters, and
   the last of them if it is a wide one. *)
CutShort(m) ==
    \/ getNumParams(m.sig) = 0
    \/ getNumParams(m.sig) = Len(m.sig) /\ m.sig[Len(m.sig)].width = 8

(* Parameters that the stub does not send; a block sent four bytes short; the class of a static
   field read where the value is; floating point numbers sent as integers; methods whose parameters
   are read where their size is, or whose signature is misread. *)
LosesArguments(c) ==
    \/ c.f \in UNION {Family("ToReflected", {"Method", "Field"}, ""), Family("Release", Primitive, "ArrayElements"),
                      {"ReleasePrimitiveArrayCritical"}, Family("SetStatic", Types, "Field"),
                      {"SetFloatField", "SetDoubleField"}, UnknownCode}
    \/ c.f \in MethodCalls("CallStatic") /\ CutShort(c.m)
    \/ c.f \in {"CallBooleanMethod", "CallIntMethod", "CallIntMethodV"} /\ c.m.sig # <<>>
    \/ c.f \in CallingMethods /\ Misread(c.m)
    \/ c.f = "ReleaseStringCritical" /\ c.n > 0
    \/ c.f = "ReleaseStringUTFChars" /\ c.n = 0
    \/ Unaligned(c, "Set", "ArrayRegion")

(* Results sent as an int; elements that are not sent at all; taints written over the end of what
   does not end at a word; an element size that is too small; a region of a string of which as much
   is sent as of the last answer. *)
LosesResult(c) ==
    \/ \E kind \in {"Call", "CallNonvirtual", "CallStatic"} :
            c.f \in Family(kind, {"Long", "Float", "Double"}, "Method")
    \/ c.f \in {"GetFloatField"} \cup UnknownCode
    \/ c.f \in StringRegions /\ c.n > 0 /\ (c.f \in SharedCode \/ size < 2 * c.n)
    \/ c.f \in Family("Get", Primitive, "ArrayElements")
    \/ \E t \in Small : Unaligned(c, "Get", "ArrayRegion") /\ c.f = "Get" \o t \o "ArrayRegion" /\ c.n * Width[t] > 4
    \/ c.f = "GetPrimitiveArrayCritical" /\ elementSize(c.t) < Width[c.t] /\ c.n > 0

(* A block of the request, of 4 or 8 bytes too few; an array with fewer parameters than letters. *)
OverrunsRequest(c) ==
    \/ c.f \in MethodCalls("CallStatic") \cup {"ReleasePrimitiveArrayCritical"}
    \/ c.f = "ReleaseStringUTFChars" /\ c.n = 0
    \/ c.f \in CallingMethods /\ c.m.pack = "array" /\ getNumParams(c.m.sig) > Len(c.m.sig)

(* Taints counted twice; small results written as an int; the block of ExceptionCheck; an element
   size that is too large. *)
OverrunsAnswer(c) ==
    \/ \E kind \in {"Get", "GetStatic"} : c.f \in Family(kind, Types, "Field")
    \/ \E kind \in {"Call", "CallNonvirtual", "CallStatic"} : c.f \in Family(kind, Small, "Method") \ {"CallBooleanMethod"}
    \/ c.f \in {"CallBooleanMethodV", "CallBooleanMethodA"}
    \/ c.f = "ExceptionCheck" /\ c.handler.alloc = 0
    \/ c.f \in Critical /\ elementSize(c.t) > Width[c.t] /\ c.n > 0

-----------------------------------------------------------------------------
(* Every variable stays in its type. *)
TypeOK ==
    /\ phase \in {"native", "request", "answer", "dead"}
    /\ phase = "native" <=> call = NoCall
    /\ {jniTaint, size, taintsize, replyFrees} \subseteq Nat
    /\ callbackdata \in [is : {"unset", "null", "live", "freed"}, alloc : Nat]

(* A request reaches the function that was called: the code of its stub selects its handler.
   Three codes are those of another function, and one has no handler. *)
FunctionReached ==
    phase = "request" =>
        (call.handler.fn = JniFunction(call.f) <=> call.f \notin SharedCode \cup UnknownCode)

(* Every byte of every parameter arrives at the function of Dalvik, unless the call is one of
   those that lose some: stub and handler agree on the layout of the block. *)
ArgumentsArrive ==
    phase = "request" =>
        LET reads == call.handler.reads
            arrived == /\ \A j \in DOMAIN reads : ReadsRight(reads[j], call.stub.fields, call.stub.size)
                       /\ \A p \in call.stub.params : (0 .. p[2] - 1) \subseteq BytesOf(p[1], reads)
        IN arrived <=> ~LosesArguments(call)

(* The stub takes out of the answer what the function of Dalvik returned, unless the call is one
   of those that lose it; what is sent is what the members say, also if an earlier call set them. *)
ResultArrives ==
    phase = "answer" =>
        LET arrived == \A j \in DOMAIN call.stub.gets : ReadsRight(call.stub.gets[j], call.handler.fields, size)
        IN arrived <=> ~LosesResult(call)

(* No stub and no handler writes, sends or copies past the end of a block, but for those known to
   and for the answers sent with the size of an earlier one. *)
StaysInBlocks ==
    /\ phase = "request" =>
          LET inside == /\ End(call.stub.fields) <= call.stub.alloc /\ call.stub.size <= call.stub.alloc
                        /\ \A copy \in call.stub.copies : copy[1] <= copy[2]
          IN inside <=> ~OverrunsRequest(call)
    /\ phase = "answer" /\ call.f \notin StringRegions \cup UnknownCode =>
          LET inside == /\ End(call.handler.fields) <= callbackdata.alloc
                        /\ size > 0 => size + taintsize <= callbackdata.alloc
                        /\ \A copy \in call.handler.copies : copy[1] <= copy[2]
          IN inside <=> ~OverrunsAnswer(call)

(* The block of a request is freed once, and what is sent as an answer is a block allocated for
   it, which is freed then.  An empty block is left behind, and so is the region of a string if
   the answer before it was empty, and the block of 16 bytes for an array without elements, of
   which nothing is sent; a code without handler frees the request twice and sends the block of an
   earlier answer. *)
BlocksFreedOnce ==
    /\ [](phase = "answer" =>
            \/ replyFrees = 1 /\ (size > 0 => callbackdata.is = "live")
            \/ call.f \in UnknownCode)
    /\ [][phase = "answer" /\ phase' = "native" /\ callbackdata'.is = "live" =>
            \/ callbackdata.alloc = 0
            \/ call.f \in Family("Get", Primitive, "ArrayElements") /\ call.n = 0
            \/ call.f \in StringRegions \cup UnknownCode]_vars
=============================================================================
