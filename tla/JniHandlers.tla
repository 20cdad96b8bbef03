--------------------------- MODULE JniHandlers ---------------------------
(***************************************************************************)
(* The functions of the app's process that execute a JNI request: each     *)
(* takes the parameters out of the block received, calls the function of   *)
(* Dalvik and describes the answer with the members callbackdata, size and *)
(* taintsize of BpWrapper.  n is the length the request is about, m the    *)
(* method called, T the element type of the array of a critical access,    *)
(* pending whether an exception is pending.                                *)
(***************************************************************************)
EXTENDS Wire

(* References, classes, exceptions *)
callGetVersion == Handle("GetVersion", <<>>, Value("Int"))
callFindClass(n) == Handle("FindClass", <<Put("name", 0, n + 1)>>, Value("Object"))
callGetSuperclass == Handle("GetSuperclass", Words(<<"jclazz">>), Value("Object"))
callIsAssignableFrom ==
    Handle("IsAssignableFrom", Words(<<"jclazz1", "jclazz2">>), Value("Boolean"))
callAllocObject == Handle("AllocObject", Words(<<"jclazz">>), Value("Object"))
callThrow == Handle("Throw", Words(<<"jt">>), Value("Int"))
callThrowNew(n) ==
    Handle("ThrowNew", <<Put("jclazz", 0, 4), Put("message", 4, n + 1)>>, Value("Int"))
callExceptionOccurred == Handle("ExceptionOccurred", <<>>, Value("Object"))
callExceptionDescribe == Handle("ExceptionDescribe", <<>>, NoValue)
callExceptionClear == Handle("ExceptionClear", <<>>, NoValue)

(* malloc(result) instead of malloc(size): no byte is allocated if there is no exception. *)
callExceptionCheck(pending) ==
    Handle("ExceptionCheck", <<>>, [Value("Boolean") EXCEPT !.alloc = IF pending THEN 1 ELSE 0])
callFromReflectedMethod == Handle("FromReflectedMethod", Words(<<"jmethod">>), Value("Object"))
callFromReflectedField == Handle("FromReflectedField", Words(<<"jfield">>), Value("Object"))
callToReflectedMethod == Handle("ToReflectedMethod", Words(<<"jcls", "methodID">>), Value("Object"))
callToReflectedField == Handle("ToReflectedField", Words(<<"jcls", "fieldID">>), Value("Object"))
callGetObjectClass == Handle("GetObjectClass", Words(<<"jobj">>), Value("Object"))
callIsInstanceOf == Handle("IsInstanceOf", Words(<<"jobj", "jclazz">>), Value("Boolean"))
callNewLocalRef == Handle("NewLocalRef", Words(<<"jobj">>), Value("Object"))
callNewGlobalRef == Handle("NewGlobalRef", Words(<<"jobj">>), Value("Object"))
callDeleteGlobalRef == Handle("DeleteGlobalRef", Words(<<"jobj">>), NoValue)
callDeleteLocalRef == Handle("DeleteLocalRef", Words(<<"jobj">>), NoValue)
callIsSameObject == Handle("IsSameObject", Words(<<"jobj1", "jobj2">>), Value("Boolean"))
callNewWeakGlobalRef == Handle("NewWeakGlobalRef", Words(<<"jobj">>), Value("Object"))
callDeleteWeakGlobalRef == Handle("DeleteWeakGlobalRef", Words(<<"jw">>), NoValue)
callGetObjectRefType == Handle("GetObjectRefType", Words(<<"jobj">>), Value("Int"))
callEnsureLocalCapacity == Handle("EnsureLocalCapacity", Words(<<"capacity">>), Value("Int"))
callPushLocalFrame == Handle("PushLocalFrame", Words(<<"capacity">>), Value("Int"))
callPopLocalFrame == Handle("PopLocalFrame", Words(<<"jresult">>), Value("Object"))
callMonitorEnter == Handle("MonitorEnter", Words(<<"jobj">>), Value("Int"))
callMonitorExit == Handle("MonitorExit", Words(<<"jobj">>), Value("Int"))
callUnregisterNatives == Handle("UnregisterNatives", Words(<<"jclazz">>), Value("Int"))

(* Identifiers *)
NameAndSigOf(fn, n) ==
    Handle(fn, <<Put("jclazz", 0, 4), Put("name", 4, n + 1), Put("sig", 4 + n + 1, n + 1)>>, Value("Object"))
callGetMethodID(n) == NameAndSigOf("GetMethodID", n)
callGetFieldID(n) == NameAndSigOf("GetFieldID", n)
callGetStaticMethodID(n) == NameAndSigOf("GetStaticMethodID", n)
callGetStaticFieldID(n) == NameAndSigOf("GetStaticFieldID", n)
callRegisterNatives(n) ==
    LET Reads[i \in 0 .. n] ==
            IF i = 0 THEN Words(<<"jclazz", "nMethods">>)
            ELSE LET r2 == 8 + 16 * (i - 1)
                 IN Reads[i - 1] \o <<Part("nameLen", r2, 4, 4 * (i - 1)), Part("name", r2 + 4, 2, 2 * (i - 1)),
                                      Part("sigLen", r2 + 6, 4, 4 * (i - 1)),
                                      Part("signature", r2 + 10, 2, 2 * (i - 1)),
                                      Part("fnPtr", r2 + 12, 4, 4 * (i - 1))>>
    IN Handle("RegisterNatives", Reads[n], Value("Int"))

(* Fields.  GETFIELD writes the result as an int and counts the taint both in size and in taintsize. *)
UNPACK_GETFIELD == Words(<<"jobj", "fieldID">>)
WRITEOUT_GETFIELD(T) ==
    Answer(<<IF T = "Float" THEN Cast("result", 0, 4) ELSE Put("result", 0, 4), Put("taint", 4, 4)>>,
           Width[T] + 4, Width[T] + 4, 4)
callGetObjectField == Handle("GetObjectField", UNPACK_GETFIELD, WRITEOUT_GETFIELD("Object"))
callGetBooleanField == Handle("GetBooleanField", UNPACK_GETFIELD, WRITEOUT_GETFIELD("Boolean"))
callGetByteField == Handle("GetByteField", UNPACK_GETFIELD, WRITEOUT_GETFIELD("Byte"))
callGetCharField == Handle("GetCharField", UNPACK_GETFIELD, WRITEOUT_GETFIELD("Char"))
callGetShortField == Handle("GetShortField", UNPACK_GETFIELD, WRITEOUT_GETFIELD("Short"))
callGetIntField == Handle("GetIntField", UNPACK_GETFIELD, WRITEOUT_GETFIELD("Int"))
callGetLongField ==
    Handle("GetLongField", UNPACK_GETFIELD, Answer(<<Put("result", 0, 8), Put("taint", 8, 4)>>, 12, 12, 4))
callGetFloatField == Handle("GetFloatField", UNPACK_GETFIELD, WRITEOUT_GETFIELD("Float"))
callGetDoubleField ==
    Handle("GetDoubleField", UNPACK_GETFIELD, Answer(<<Put("result", 0, 8), Put("taint", 8, 4)>>, 12, 12, 4))
\* Mutant: the object is taken for the field.
UNPACK_SETFIELDSwapped(T) == <<Put("val", 0, Width[T]), Put("jobj", 4, 4), Put("fieldID", 8, 4)>>
UNPACK_SETFIELD(T) ==
    <<IF T = "Float" THEN Cast("val", 0, 4) ELSE Put("val", 0, Width[T]), Put("fieldID", 4, 4), Put("jobj", 8, 4)>>
UNPACK_SETFIELDL(T) ==
    <<IF T = "Double" THEN Cast("val", 0, 8) ELSE Put("val", 0, 8), Put("fieldID", 8, 4), Put("jobj", 12, 4)>>
callSetObjectField == Handle("SetObjectField", UNPACK_SETFIELD("Object"), NoValue)
callSetBooleanField == Handle("SetBooleanField", UNPACK_SETFIELD("Boolean"), NoValue)
callSetByteField == Handle("SetByteField", UNPACK_SETFIELD("Byte"), NoValue)
callSetCharField == Handle("SetCharField", UNPACK_SETFIELD("Char"), NoValue)
callSetShortField == Handle("SetShortField", UNPACK_SETFIELD("Short"), NoValue)
callSetIntField == Handle("SetIntField", UNPACK_SETFIELD("Int"), NoValue)
callSetLongField == Handle("SetLongField", UNPACK_SETFIELDL("Long"), NoValue)
callSetFloatField == Handle("SetFloatField", UNPACK_SETFIELD("Float"), NoValue)
callSetDoubleField == Handle("SetDoubleField", UNPACK_SETFIELDL("Double"), NoValue)
UNPACK_GETSTATICFIELD == Words(<<"jclazz", "fieldID">>)
\* Mutant: the taint is written in front of the result.
WRITEOUT_GETSTATICFIELDTaintFirst(T) ==
    Answer(<<Put("taint", 0, 4), Put("result", 4, Width[T])>>, Width[T] + 4, Width[T] + 4, 4)
WRITEOUT_GETSTATICFIELD(T) ==
    Answer(<<Put("result", 0, Width[T]), Put("taint", Width[T], 4)>>, Width[T] + 4, Width[T] + 4, 4)
callGetStaticBooleanField ==
    Handle("GetStaticBooleanField", UNPACK_GETSTATICFIELD, WRITEOUT_GETSTATICFIELD("Boolean"))
callGetStaticByteField ==
    Handle("GetStaticByteField", UNPACK_GETSTATICFIELD, WRITEOUT_GETSTATICFIELD("Byte"))
callGetStaticCharField ==
    Handle("GetStaticCharField", UNPACK_GETSTATICFIELD, WRITEOUT_GETSTATICFIELD("Char"))
callGetStaticShortField ==
    Handle("GetStaticShortField", UNPACK_GETSTATICFIELD, WRITEOUT_GETSTATICFIELD("Short"))
callGetStaticIntField ==
    Handle("GetStaticIntField", UNPACK_GETSTATICFIELD, WRITEOUT_GETSTATICFIELD("Int"))
callGetStaticLongField ==
    Handle("GetStaticLongField", UNPACK_GETSTATICFIELD, WRITEOUT_GETSTATICFIELD("Long"))
callGetStaticFloatField ==
    Handle("GetStaticFloatField", UNPACK_GETSTATICFIELD, WRITEOUT_GETSTATICFIELD("Float"))
callGetStaticDoubleField ==
    Handle("GetStaticDoubleField", UNPACK_GETSTATICFIELD, WRITEOUT_GETSTATICFIELD("Double"))
callGetStaticObjectField ==
    Handle("GetStaticObjectField", UNPACK_GETSTATICFIELD, WRITEOUT_GETSTATICFIELD("Object"))

(* The class of a static field is read at offset 0, where the value is. *)
SETSTATIC_GETDATA(T) ==
    <<Put("val", 0, Width[T]), Put("jc", 0, 4), Put("fieldID", Width[T] + 4, 4)>>
callSetStaticObjectField == Handle("SetStaticObjectField", SETSTATIC_GETDATA("Object"), NoValue)
callSetStaticBooleanField == Handle("SetStaticBooleanField", SETSTATIC_GETDATA("Boolean"), NoValue)
callSetStaticByteField == Handle("SetStaticByteField", SETSTATIC_GETDATA("Byte"), NoValue)
callSetStaticCharField == Handle("SetStaticCharField", SETSTATIC_GETDATA("Char"), NoValue)
callSetStaticShortField == Handle("SetStaticShortField", SETSTATIC_GETDATA("Short"), NoValue)
callSetStaticIntField == Handle("SetStaticIntField", SETSTATIC_GETDATA("Int"), NoValue)
callSetStaticLongField == Handle("SetStaticLongField", SETSTATIC_GETDATA("Long"), NoValue)
callSetStaticFloatField == Handle("SetStaticFloatField", SETSTATIC_GETDATA("Float"), NoValue)
callSetStaticDoubleField == Handle("SetStaticDoubleField", SETSTATIC_GETDATA("Double"), NoValue)

(* Method calls.  Dalvik takes the parameters of the method m from an array of jvalues. *)
JValues(m, at) == [i \in DOMAIN m.sig |-> Put(Arg[i], at + 8 * (i - 1), m.sig[i].width)]
UNPACK_CALLMETHOD(m) == Words(<<"jobj", "methodID", "paramSize">>) \o JValues(m, 12)
WRITE_CALLRESULT(T) ==
    Answer(<<IF T \in {"Float", "Double"} THEN Cast("result", 0, 4) ELSE Put("result", 0, 4), Put("taint", 4, 4)>>,
           Width[T] + 4, Width[T], 4)
Untainted(fn, T, m) ==
    Handle(fn, Words(<<"jobj", "methodID">>) \o JValues(m, 8), Value(T))
callCallBooleanMethod(m) == Untainted("CallBooleanMethod", "Boolean", m)
callCallBooleanMethodA(m) ==
    Handle("CallBooleanMethod", UNPACK_CALLMETHOD(m), WRITE_CALLRESULT("Boolean"))
callCallByteMethodA(m) == Handle("CallByteMethod", UNPACK_CALLMETHOD(m), WRITE_CALLRESULT("Byte"))
callCallCharMethodA(m) == Handle("CallCharMethod", UNPACK_CALLMETHOD(m), WRITE_CALLRESULT("Char"))
callCallShortMethodA(m) ==
    Handle("CallShortMethod", UNPACK_CALLMETHOD(m), WRITE_CALLRESULT("Short"))
callCallIntMethod(m) == Untainted("CallIntMethod", "Int", m)
callCallIntMethodV(m) == Untainted("CallIntMethod", "Int", m)
callCallIntMethodA(m) == Handle("CallIntMethod", UNPACK_CALLMETHOD(m), WRITE_CALLRESULT("Int"))
callCallLongMethodA(m) == Handle("CallLongMethod", UNPACK_CALLMETHOD(m), WRITE_CALLRESULT("Long"))
callCallFloatMethodA(m) ==
    Handle("CallFloatMethod", UNPACK_CALLMETHOD(m), WRITE_CALLRESULT("Float"))
callCallDoubleMethodA(m) ==
    Handle("CallDoubleMethod", UNPACK_CALLMETHOD(m), WRITE_CALLRESULT("Double"))
callCallObjectMethod(m) ==
    Handle("CallObjectMethod", UNPACK_CALLMETHOD(m), WRITE_CALLRESULT("Object"))
callCallVoidMethod(m) == Handle("CallVoidMethod", UNPACK_CALLMETHOD(m), NoValue)
UNPACK_CALLVIRTUALMETHOD(m) ==
    Words(<<"jobj", "jc", "methodID", "paramSize">>) \o JValues(m, 16)
callCallNonvirtualObjectMethodA(m) ==
    Handle("CallNonvirtualObjectMethod", UNPACK_CALLVIRTUALMETHOD(m), WRITE_CALLRESULT("Object"))
callCallNonvirtualBooleanMethodA(m) ==
    Handle("CallNonvirtualBooleanMethod", UNPACK_CALLVIRTUALMETHOD(m), WRITE_CALLRESULT("Boolean"))
callCallNonvirtualByteMethodA(m) ==
    Handle("CallNonvirtualByteMethod", UNPACK_CALLVIRTUALMETHOD(m), WRITE_CALLRESULT("Byte"))
callCallNonvirtualCharMethodA(m) ==
    Handle("CallNonvirtualCharMethod", UNPACK_CALLVIRTUALMETHOD(m), WRITE_CALLRESULT("Char"))
callCallNonvirtualShortMethodA(m) ==
    Handle("CallNonvirtualShortMethod", UNPACK_CALLVIRTUALMETHOD(m), WRITE_CALLRESULT("Short"))
callCallNonvirtualIntMethodA(m) ==
    Handle("CallNonvirtualIntMethod", UNPACK_CALLVIRTUALMETHOD(m), WRITE_CALLRESULT("Int"))
callCallNonvirtualLongMethodA(m) ==
    Handle("CallNonvirtualLongMethod", UNPACK_CALLVIRTUALMETHOD(m), WRITE_CALLRESULT("Long"))
callCallNonvirtualFloatMethodA(m) ==
    Handle("CallNonvirtualFloatMethod", UNPACK_CALLVIRTUALMETHOD(m), WRITE_CALLRESULT("Float"))
callCallNonvirtualDoubleMethodA(m) ==
    Handle("CallNonvirtualDoubleMethod", UNPACK_CALLVIRTUALMETHOD(m), WRITE_CALLRESULT("Double"))
callCallNonvirtualVoidMethodA(m) ==
    Handle("CallNonvirtualVoidMethod", UNPACK_CALLVIRTUALMETHOD(m), NoValue)
UNPACK_CALLSTATICMETHOD(m) == Words(<<"jc", "methodID", "paramSize">>) \o JValues(m, 12)
callCallStaticVoidMethodA(m) == Handle("CallStaticVoidMethod", UNPACK_CALLSTATICMETHOD(m), NoValue)
callCallStaticObjectMethodA(m) ==
    Handle("CallStaticObjectMethod", UNPACK_CALLSTATICMETHOD(m), WRITE_CALLRESULT("Object"))
callCallStaticBooleanMethodA(m) ==
    Handle("CallStaticBooleanMethod", UNPACK_CALLSTATICMETHOD(m), WRITE_CALLRESULT("Boolean"))
callCallStaticByteMethodA(m) ==
    Handle("CallStaticByteMethod", UNPACK_CALLSTATICMETHOD(m), WRITE_CALLRESULT("Byte"))
callCallStaticCharMethodA(m) ==
    Handle("CallStaticCharMethod", UNPACK_CALLSTATICMETHOD(m), WRITE_CALLRESULT("Char"))
callCallStaticShortMethodA(m) ==
    Handle("CallStaticShortMethod", UNPACK_CALLSTATICMETHOD(m), WRITE_CALLRESULT("Short"))
callCallStaticIntMethodA(m) ==
    Handle("CallStaticIntMethod", UNPACK_CALLSTATICMETHOD(m), WRITE_CALLRESULT("Int"))
callCallStaticLongMethodA(m) ==
    Handle("CallStaticLongMethod", UNPACK_CALLSTATICMETHOD(m), WRITE_CALLRESULT("Long"))
callCallStaticFloatMethodA(m) ==
    Handle("CallStaticFloatMethod", UNPACK_CALLSTATICMETHOD(m), WRITE_CALLRESULT("Float"))
callCallStaticDoubleMethodA(m) ==
    Handle("CallStaticDoubleMethod", UNPACK_CALLSTATICMETHOD(m), WRITE_CALLRESULT("Double"))
callNewObjectA(m) ==
    Handle("NewObject", Words(<<"jclazz", "methodID">>) \o JValues(m, 8), Value("Object"))

(* Strings.  The two region functions leave size and taintsize as they are.  callGetStringUTFChars
   clears other words for a tainted string than for an untainted one; both are fields here. *)
callGetStringUTFChars(n) ==
    LET word == (n + 3) \div 4
    IN Handle("GetStringUTFChars", Words(<<"jstr">>),
              Answer(<<Put("dalvikP", 0, 4), Put("strlen", 4, 4), Put("chars", 8, n),
                       Put("taint", 4 * (4 + word), n \div 4), Put("taint", 4 * (2 + word), 4),
                       Put("taint", 4 * (2 + word), 2 + (n \div 4))>>,
                     2 * (8 + 2 * n), 8 + 2 * n, 8 + 2 * n))
callNewStringUTF(n) == Handle("NewStringUTF", <<Put("bytes", 0, n + 1)>>, Value("Object"))
callGetStringChars(n) ==
    Handle("GetStringChars", Words(<<"jstr">>),
           Answer(Words(<<"dalvikP", "strlen">>) \o <<Put("chars", 8, 2 * n)>>, 8 + 2 * n, 8 + 2 * n, 0))
callReleaseStringChars(n) ==
    Handle("ReleaseStringChars", Words(<<"jstr", "dalvikP", "strlen">>) \o <<Put("chars", 12, 2 * n)>>, NoValue)
callReleaseStringCritical(n) ==
    LET word == (n + 1) \div 2
    IN Handle("ReleaseStringCritical", <<Put("strlen", 0, 4), Put("chars", 4, 2 * n),
                  Put("jstr", 4 * (1 + word), 4), Put("dalvikP", 4 * (2 + word), 4)>>, NoValue)
callReleaseStringUTFChars(n) ==
    Handle("ReleaseStringUTFChars", Words(<<"dalvikP", "length", "jstr">>) \o <<Put("utf", 12, n)>>, NoValue)
callGetStringCritical(n) ==
    LET word == n \div 2
    IN Handle("GetStringCritical", Words(<<"jstr">>),
              Answer(Words(<<"dalvikP", "strlen">>)
                       \o <<Put("chars", 8, 2 * n), Put("taint", 4 * (4 + word), 4 * word)>>,
                     2 * (8 + 2 * n), 8 + 2 * n, 8 + 2 * n))
callGetStringLength == Handle("GetStringLength", Words(<<"jstr">>), Value("Int"))
callGetStringUTFLength == Handle("GetStringUTFLength", Words(<<"jstr">>), Value("Int"))
callGetStringRegion(n) ==
    Handle("GetStringRegion", Words(<<"jstr", "start", "len">>),
           Answer(<<Put("chars", 0, 2 * n)>>, 2 * n, Unset, Unset))
callGetStringUTFRegion(n) ==
    Handle("GetStringUTFRegion", Words(<<"jstr", "start", "len">>),
           Answer(<<Put("utf", 0, n)>>, 8 * n, Unset, Unset))
callNewString(n) ==
    Handle("NewString", <<Put("len", 0, 4), Put("unicodeChars", 4, 2 * n)>>, Value("Object"))

(* Arrays.  The taints of a region start at the word in which the elements end. *)
callNewBooleanArray == Handle("NewBooleanArray", Words(<<"length">>), Value("Object"))
callNewByteArray == Handle("NewByteArray", Words(<<"length">>), Value("Object"))
callNewCharArray == Handle("NewCharArray", Words(<<"length">>), Value("Object"))
callNewShortArray == Handle("NewShortArray", Words(<<"length">>), Value("Object"))
callNewIntArray == Handle("NewIntArray", Words(<<"length">>), Value("Object"))
callNewLongArray == Handle("NewLongArray", Words(<<"length">>), Value("Object"))
callNewFloatArray == Handle("NewFloatArray", Words(<<"length">>), Value("Object"))
callNewDoubleArray == Handle("NewDoubleArray", Words(<<"length">>), Value("Object"))
callNewObjectArray ==
    Handle("NewObjectArray", Words(<<"jinitialElement", "length", "jelementClass">>), Value("Object"))
callGetArrayLength == Handle("GetArrayLength", Words(<<"jarr">>), Value("Int"))
callGetObjectArrayElement ==
    Handle("GetObjectArrayElement", Words(<<"jarr", "index">>), Answer(Words(<<"result", "taint">>), 8, 4, 4))
callSetObjectArrayElement ==
    Handle("SetObjectArrayElement", Words(<<"jobj", "index", "jarr">>), NoValue)
SetRegion(fn, T, n) ==
    LET word == (n * Width[T]) \div 4
    IN Handle(fn, <<Put("len", 0, 4), Put("buf", 4, n * Width[T]), Put("jarr", 4 * (word + 1), 4),
                    Put("start", 4 * (word + 2), 4)>>, NoValue)
callSetBooleanArrayRegion(n) == SetRegion("SetBooleanArrayRegion", "Boolean", n)
callSetByteArrayRegion(n) == SetRegion("SetByteArrayRegion", "Byte", n)
callSetCharArrayRegion(n) == SetRegion("SetCharArrayRegion", "Char", n)
callSetShortArrayRegion(n) == SetRegion("SetShortArrayRegion", "Short", n)
callSetIntArrayRegion(n) == SetRegion("SetIntArrayRegion", "Int", n)
callSetLongArrayRegion(n) == SetRegion("SetLongArrayRegion", "Long", n)
callSetFloatArrayRegion(n) == SetRegion("SetFloatArrayRegion", "Float", n)
callSetDoubleArrayRegion(n) == SetRegion("SetDoubleArrayRegion", "Double", n)
COPYOUT_GETARRAYREGION(T, n) ==
    LET bytes == n * Width[T]
        word == bytes \div 4
    IN Answer(<<Put("buf", 0, bytes), Put("taint", 4 * word, 4 * word)>>, 2 * bytes, bytes, bytes)
callGetBooleanArrayRegion(n) ==
    Handle("GetBooleanArrayRegion", Words(<<"jarr", "start", "len">>), COPYOUT_GETARRAYREGION("Boolean", n))
callGetByteArrayRegion(n) ==
    Handle("GetByteArrayRegion", Words(<<"jarr", "start", "len">>), COPYOUT_GETARRAYREGION("Byte", n))
callGetCharArrayRegion(n) ==
    Handle("GetCharArrayRegion", Words(<<"jarr", "start", "len">>), COPYOUT_GETARRAYREGION("Char", n))
callGetShortArrayRegion(n) ==
    Handle("GetShortArrayRegion", Words(<<"jarr", "start", "len">>), COPYOUT_GETARRAYREGION("Short", n))
callGetIntArrayRegion(n) ==
    Handle("GetIntArrayRegion", Words(<<"jarr", "start", "len">>), COPYOUT_GETARRAYREGION("Int", n))
callGetLongArrayRegion(n) ==
    Handle("GetLongArrayRegion", Words(<<"jarr", "start", "len">>), COPYOUT_GETARRAYREGION("Long", n))
callGetFloatArrayRegion(n) ==
    Handle("GetFloatArrayRegion", Words(<<"jarr", "start", "len">>), COPYOUT_GETARRAYREGION("Float", n))
callGetDoubleArrayRegion(n) ==
    Handle("GetDoubleArrayRegion", Words(<<"jarr", "start", "len">>), COPYOUT_GETARRAYREGION("Double", n))
(* The macro ends with its first comment, whose lines are spliced with all that follow: neither the
   elements nor the taints are copied, and size stays that of the elements alone. *)
GENERIC_GETARRAYELEMENTS(T, n) ==
    LET bytes == n * Width[T]
    IN Answer(Words(<<"size", "dalvikP">>), 2 * (bytes + 8), bytes, bytes + 8)
callGetBooleanArrayElements(n) ==
    Handle("GetBooleanArrayElements", Words(<<"jarr">>), GENERIC_GETARRAYELEMENTS("Boolean", n))
callGetByteArrayElements(n) ==
    Handle("GetByteArrayElements", Words(<<"jarr">>), GENERIC_GETARRAYELEMENTS("Byte", n))
callGetCharArrayElements(n) ==
    Handle("GetCharArrayElements", Words(<<"jarr">>), GENERIC_GETARRAYELEMENTS("Char", n))
callGetShortArrayElements(n) ==
    Handle("GetShortArrayElements", Words(<<"jarr">>), GENERIC_GETARRAYELEMENTS("Short", n))
callGetIntArrayElements(n) ==
    Handle("GetIntArrayElements", Words(<<"jarr">>), GENERIC_GETARRAYELEMENTS("Int", n))
callGetLongArrayElements(n) ==
    Handle("GetLongArrayElements", Words(<<"jarr">>), GENERIC_GETARRAYELEMENTS("Long", n))
callGetFloatArrayElements(n) ==
    Handle("GetFloatArrayElements", Words(<<"jarr">>), GENERIC_GETARRAYELEMENTS("Float", n))
callGetDoubleArrayElements(n) ==
    Handle("GetDoubleArrayElements", Words(<<"jarr">>), GENERIC_GETARRAYELEMENTS("Double", n))
callReleaseBooleanArrayElements == Handle("ReleaseBooleanArrayElements", Words(<<"jarr">>), NoValue)
callReleaseByteArrayElements == Handle("ReleaseByteArrayElements", Words(<<"jarr">>), NoValue)
callReleaseCharArrayElements == Handle("ReleaseCharArrayElements", Words(<<"jarr">>), NoValue)
callReleaseShortArrayElements == Handle("ReleaseShortArrayElements", Words(<<"jarr">>), NoValue)
callReleaseIntArrayElements == Handle("ReleaseIntArrayElements", Words(<<"jarr">>), NoValue)
callReleaseLongArrayElements == Handle("ReleaseLongArrayElements", Words(<<"jarr">>), NoValue)
callReleaseFloatArrayElements == Handle("ReleaseFloatArrayElements", Words(<<"jarr">>), NoValue)
callReleaseDoubleArrayElements == Handle("ReleaseDoubleArrayElements", Words(<<"jarr">>), NoValue)

(* The element size of a critical array is guessed from its signature; there is none for boolean. *)
elementSize(T) == CASE T = "Boolean" -> 0 [] T \in {"Object", "Double"} -> 8 [] OTHER -> 4
callGetPrimitiveArrayCritical(T, n) ==
    LET arraysize == n * elementSize(T)
    IN [Handle("GetPrimitiveArrayCritical", Words(<<"jarr">>),
               Answer(<<Put("size", 0, 4), Put("dalvikP", 4, 4), Put("elements", 8, Min({arraysize, n * Width[T]}))>>,
                      8 + arraysize, 8 + arraysize, 0)) EXCEPT !.copies = {<<arraysize, n * Width[T]>>}]
callReleasePrimitiveArrayCritical(T, n) ==
    LET arraysize == n * elementSize(T)
    IN [Handle("ReleasePrimitiveArrayCritical",
               Words(<<"jarr", "arraysize", "dalvikP">>) \o <<Put("array", 12, arraysize)>>, NoValue)
            EXCEPT !.copies = {<<arraysize, n * Width[T]>>}]
callNewDirectByteBuffer(n) ==
    Handle("NewDirectByteBuffer", <<Put("capacity", 0, 8), Put("address", 8, 4 * n)>>, Value("Object"))
callGetDirectBufferAddress(n) ==
    Handle("GetDirectBufferAddress", Words(<<"jbuf">>),
           Answer(<<Put("resultsize", 0, 8), Put("result", 8, n)>>, 8 + n, 8 + n, 0))

(* The switch of handleJNIRequest, by code; case 25 falls through to case 26. *)
Handlers(T, n, m, pending) ==
    <<callGetStringUTFChars(n), callNewStringUTF(n), callGetVersion, callFindClass(n),
      callGetSuperclass, callIsAssignableFrom, callAllocObject, callThrow, callThrowNew(n),
      callExceptionOccurred, callExceptionDescribe, callExceptionClear, callExceptionCheck(pending),
      callGetMethodID(n), callGetFieldID(n), callGetStaticMethodID(n), callGetLongField,
      callGetObjectClass, callIsInstanceOf, callNewLocalRef, callNewGlobalRef, callDeleteGlobalRef,
      callIsSameObject, callCallBooleanMethod(m), callCallBooleanMethodA(m), callCallBooleanMethodA(m),
      callCallIntMethod(m), callCallIntMethodV(m), callCallIntMethodA(m), callGetIntField,
      callCallNonvirtualObjectMethodA(m), callDeleteLocalRef, callCallObjectMethod(m),
      callCallVoidMethod(m), callSetIntField, callSetLongField, callSetDoubleField, callSetFloatField,
      callSetShortField, callSetCharField, callSetByteField, callSetBooleanField, callSetObjectField,
      callGetObjectField, callGetBooleanField, callGetByteField, callGetCharField, callGetShortField,
      callGetFloatField, callGetDoubleField, callCallStaticShortMethodA(m),
      callCallStaticVoidMethodA(m), callSetShortArrayRegion(n), callGetByteArrayRegion(n),
      callGetStringChars(n), callReleaseStringChars(n), callReleaseStringCritical(n),
      callFromReflectedField, callNewObjectA(m), callSetStaticLongField, callToReflectedMethod,
      callCallFloatMethodA(m), callToReflectedField, callFromReflectedMethod,
      callGetPrimitiveArrayCritical(T, n), callReleasePrimitiveArrayCritical(T, n),
      callReleaseStringUTFChars(n), callGetStringCritical(n), callDeleteWeakGlobalRef,
      callGetByteArrayElements(n), callCallByteMethodA(m), callCallCharMethodA(m),
      callCallLongMethodA(m), callCallDoubleMethodA(m), callCallNonvirtualBooleanMethodA(m),
      callCallNonvirtualByteMethodA(m), callCallNonvirtualCharMethodA(m),
      callCallNonvirtualShortMethodA(m), callCallNonvirtualIntMethodA(m),
      callCallNonvirtualLongMethodA(m), callCallNonvirtualFloatMethodA(m),
      callCallNonvirtualDoubleMethodA(m), callCallNonvirtualVoidMethodA(m), callCallShortMethodA(m),
      callCallStaticCharMethodA(m), callCallStaticByteMethodA(m), callCallStaticBooleanMethodA(m),
      callCallStaticObjectMethodA(m), callCallStaticIntMethodA(m), callCallStaticLongMethodA(m),
      callCallStaticFloatMethodA(m), callCallStaticDoubleMethodA(m), callSetFloatArrayRegion(n),
      callSetByteArrayRegion(n), callSetCharArrayRegion(n), callSetIntArrayRegion(n),
      callGetLongArrayElements(n), callGetDoubleArrayElements(n), callGetShortArrayElements(n),
      callGetDoubleArrayRegion(n), callReleaseByteArrayElements, callReleaseBooleanArrayElements,
      callReleaseCharArrayElements, callReleaseShortArrayElements, callReleaseIntArrayElements,
      callReleaseLongArrayElements, callReleaseFloatArrayElements, callReleaseDoubleArrayElements,
      callNewWeakGlobalRef, callNewBooleanArray, callNewByteArray, callNewCharArray, callNewShortArray,
      callNewIntArray, callNewLongArray, callNewFloatArray, callNewDoubleArray, callGetObjectRefType,
      callGetStringLength, callGetStringRegion(n), callGetStringUTFRegion(n), callNewObjectArray,
      callEnsureLocalCapacity, callUnregisterNatives, callPushLocalFrame, callPopLocalFrame,
      callSetStaticDoubleField, callSetStaticFloatField, callSetStaticIntField,
      callSetStaticShortField, callSetStaticCharField, callSetStaticByteField,
      callSetStaticBooleanField, callGetStaticFieldID(n), callGetStaticIntField,
      callGetStaticShortField, callGetStaticCharField, callGetStaticByteField,
      callGetStaticBooleanField, callGetStaticObjectField, callGetStaticLongField,
      callGetStaticFloatField, callGetStaticDoubleField, callGetStringUTFLength,
      callRegisterNatives(n), callSetStaticObjectField, callNewString(n), callGetArrayLength,
      callGetObjectArrayElement, callSetObjectArrayElement, callGetBooleanArrayElements(n),
      callGetCharArrayElements(n), callGetIntArrayElements(n), callGetFloatArrayElements(n),
      callGetBooleanArrayRegion(n), callGetCharArrayRegion(n), callGetShortArrayRegion(n),
      callGetIntArrayRegion(n), callGetLongArrayRegion(n), callGetFloatArrayRegion(n),
      callSetBooleanArrayRegion(n), callSetLongArrayRegion(n), callSetDoubleArrayRegion(n),
      callMonitorEnter, callMonitorExit, callNewDirectByteBuffer(n), callGetDirectBufferAddress(n)>>

(* Any other code: replydata is freed here, and again behind the switch, and the members that   *)
(* describe the answer stay as they are.                                                         *)
NoHandler == Handle("none", <<>>, Answer(<<>>, Unset, Unset, Unset))
HandlerOf(handlers, code) == IF code \in DOMAIN handlers THEN handlers[code] ELSE NoHandler
=============================================================================
