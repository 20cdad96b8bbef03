---------------------------- MODULE JniRemote ----------------------------
(***************************************************************************)
(* The JNI functions a native method finds in its environment: each packs  *)
(* its parameters into a block, hands it to the execution manager and      *)
(* takes its result out of the block it gets back.  n is the length of     *)
(* what the call is about, characters or elements, m the method called.    *)
(***************************************************************************)
EXTENDS Wire

(* References, classes, exceptions *)
GetVersion == SendWords(3, <<>>, Result("Int"))
FindClass(n) == Send(4, <<Put("name", 0, n + 1)>>, n + 1, 0, Result("Object"))
FromReflectedMethod == SendWords(64, <<"jmethod">>, Result("Object"))
FromReflectedField == SendWords(58, <<"jfield">>, Result("Object"))
WithFlag(s) == [s EXCEPT !.params = @ \cup {<<"isStatic", 1>>}]
ToReflectedMethod == WithFlag(SendWords(61, <<"jcls", "methodID">>, Result("Object")))
ToReflectedField == WithFlag(SendWords(63, <<"jcls", "fieldID">>, Result("Object")))
GetSuperclass == SendWords(5, <<"jclazz">>, Result("Object"))
IsAssignableFrom == SendWords(6, <<"jclazz1", "jclazz2">>, Result("Boolean"))
Throw == SendWords(8, <<"jt">>, Result("Int"))
\* Mutant: the terminator is not counted.
ThrowNewUnterminated(n) ==
    Send(9, <<Put("jclazz", 0, 4), Put("message", 4, n + 1)>>, 4 + n, 0, Result("Int"))
ThrowNew(n) ==
    Send(9, <<Put("jclazz", 0, 4), Put("message", 4, n + 1)>>, 4 + n + 1, 0, Result("Int"))
ExceptionOccurred == SendWords(10, <<>>, Result("Object"))
ExceptionDescribe == SendWords(11, <<>>, Nothing)
ExceptionClear == SendWords(12, <<>>, Nothing)
ExceptionCheck == SendWords(13, <<>>, Result("Boolean"))
PushLocalFrame == SendWords(125, <<"capacity">>, Result("Int"))
PopLocalFrame == SendWords(126, <<"jresult">>, Result("Object"))
NewGlobalRef == SendWords(21, <<"jobj">>, Result("Object"))
DeleteGlobalRef == SendWords(22, <<"jobj">>, Nothing)
DeleteLocalRef == SendWords(32, <<"jobj">>, Nothing)
IsSameObject == SendWords(23, <<"jobj1", "jobj2">>, Result("Boolean"))
NewLocalRef == SendWords(20, <<"jobj">>, Result("Object"))
EnsureLocalCapacity == SendWords(123, <<"capacity">>, Result("Int"))
AllocObject == SendWords(7, <<"jclazz">>, Result("Object"))
GetObjectClass == SendWords(18, <<"jobj">>, Result("Object"))
IsInstanceOf == SendWords(19, <<"jobj", "jclazz">>, Result("Boolean"))
NewWeakGlobalRef == SendWords(109, <<"jobj">>, Result("Object"))
DeleteWeakGlobalRef == SendWords(69, <<"jw">>, Nothing)
GetObjectRefType == SendWords(118, <<"jobj">>, Result("Int"))
MonitorEnter == SendWords(164, <<"jobj">>, Result("Int"))
MonitorExit == SendWords(165, <<"jobj">>, Result("Int"))
UnregisterNatives == SendWords(124, <<"jclazz">>, Result("Int"))

(* Identifiers: a class, a name and a signature, both of n characters.  The signature of a
   method is remembered (addSignatureForMethod), which is not modelled. *)
NameAndSig(code, n) ==
    Send(code, <<Put("jclazz", 0, 4), Put("name", 4, n + 1), Put("sig", 4 + n + 1, n + 1)>>,
         4 + 2 * (n + 1), 0, Result("Object"))
\* Mutant: the code of GetFieldID.
GetMethodIDCode(n) == NameAndSig(15, n)
GetMethodID(n) == NameAndSig(14, n)
GetFieldID(n) == NameAndSig(15, n)
GetStaticMethodID(n) == NameAndSig(16, n)
GetStaticFieldID(n) == NameAndSig(134, n)

(* RegisterNatives: n methods with names and signatures of one character. *)
RegisterNatives(n) ==
    LET Field(i) == 8 + 16 * i
        PerMethod(i) == <<Part("nameLen", Field(i), 4, 4 * i), Part("name", Field(i) + 4, 2, 2 * i),
                          Part("sigLen", Field(i) + 6, 4, 4 * i),
                          Part("signature", Field(i) + 10, 2, 2 * i), Part("fnPtr", Field(i) + 12, 4, 4 * i)>>
        Fields[i \in 0 .. n] ==
            IF i = 0 THEN Words(<<"jclazz", "nMethods">>) ELSE Fields[i - 1] \o PerMethod(i - 1)
    IN Send(145, Fields[n], 8 + 16 * n, 0, Result("Int"))

(***************************************************************************)
(* Method calls.  A method m has a signature, the sequence of its          *)
(* parameters, and is called with them in a va_list ("va", which the       *)
(* variants with ... make themselves) or in an array of jvalues ("array"); *)
(* one definition stands for the three variants unless their codes differ. *)
(* Of a parameter the model has its width, the width in which it is passed *)
(* to a variadic function, and the widths that the letters of its part of  *)
(* the signature stand for: getNumParams and PARAMS_FROM_ARGS take every   *)
(* letter L Z B C S I D J for a parameter, those of a class name too, and  *)
(* do not know F.                                                          *)
(***************************************************************************)
WordParam == [width |-> 4, passed |-> 4, letters |-> <<4>>]
WideParam == [width |-> 8, passed |-> 8, letters |-> <<8>>]
FloatParam == [width |-> 4, passed |-> 8, letters |-> <<>>]
FloatArrayParam == [width |-> 4, passed |-> 4, letters |-> <<>>]

(* A reference to an object whose class has such letters in its name, of the short types. *)
ClassParam(inName) == [width |-> 4, passed |-> 4, letters |-> [i \in 1 .. inName + 1 |-> 4]]

Letters(sig) == FlattenSeq([i \in DOMAIN sig |-> sig[i].letters])
getNumParams(sig) == Len(Letters(sig))

(* Where values of these widths lie, one behind the other from base on, each at a multiple of its width. *)
Places(widths, base) ==
    LET Behind[i \in 0 .. Len(widths)] ==
            IF i = 0 THEN base ELSE ((Behind[i - 1] + 2 * widths[i] - 1) \div widths[i]) * widths[i]
    IN [i \in DOMAIN widths |-> Behind[i] - widths[i]]

(* The parameters as the caller passes them to a variadic function, behind the named ones; a float is
   passed as a double. *)
VarArgs(sig, named) ==
    LET at == Places([i \in DOMAIN sig |-> sig[i].passed], 4 * named)
    IN [i \in DOMAIN sig |->
            IF sig[i] = FloatParam THEN Cast(Arg[i], at[i], 8) ELSE Put(Arg[i], at[i], sig[i].passed)]

(* What is copied to offset to with the word at offset at of memory with the fields fs. *)
CopyWord(fs, at, to) ==
    LET over == SelectSeq(fs, LAMBDA f : f.at <= at /\ at < f.at + f.len)
    IN [i \in DOMAIN over |-> [over[i] EXCEPT !.at = to, !.len = 4, !.from = at - over[i].at]]

(* A jvalue per letter, which gets the next 4 or 8 bytes of the va_list. *)
PARAMS_FROM_ARGS(sig, named, d2) ==
    LET letters == Letters(sig)
        args == Places(letters, 4 * named)
        JValue(j, to) ==
            <<Put("jvalue", to, 8)>> \o CopyWord(VarArgs(sig, named), args[j], to)
                \o IF letters[j] = 8 THEN CopyWord(VarArgs(sig, named), args[j] + 4, to + 4) ELSE <<>>
    IN FlattenSeq([j \in DOMAIN letters |-> JValue(j, d2 + 8 * (j - 1))])

(* As many jvalues of the array as there are letters. *)
CopyArgs(sig, d2) ==
    LET JValue(j) == <<Put("jvalue", d2 + 8 * (j - 1), 8)>>
                        \o IF j \in DOMAIN sig THEN <<Put(Arg[j], d2 + 8 * (j - 1), sig[j].width)>> ELSE <<>>
    IN FlattenSeq([j \in DOMAIN Letters(sig) |-> JValue(j)])

(* A block with the named parameters, in some the size of the others, and those; JNIEnv is named, too. *)
SendCall(code, names, sized, m, fixed, gets) ==
    LET words == Words(names \o sized)
        d2 == 4 * Len(words)
        paramSize == 8 * getNumParams(m.sig)
        args == IF m.pack = "va" THEN PARAMS_FROM_ARGS(m.sig, Len(names) + 1, d2) ELSE CopyArgs(m.sig, d2)
    IN [Send(code, words \o args, fixed + paramSize, fixed + paramSize, gets)
            EXCEPT !.params = {<<names[i], 4>> : i \in DOMAIN names} \cup {<<Arg[i], m.sig[i].width>> : i \in DOMAIN m.sig},
                   !.copies = IF m.pack = "va" THEN {} ELSE {<<paramSize, 8 * Len(m.sig)>>}]

Returned(T) == IF T = "Void" THEN Nothing ELSE Result(T)
CALL_COPY(code, T, m) ==
    LET sent == SendCall(code, <<"jobj", "methodID">>, <<"paramSize">>, m, 12, Returned(T))
    IN [sent EXCEPT !.alloc = 2 * sent.size]
NEW_COPY(code, m) == SendCall(code, <<"jclazz", "methodID">>, <<>>, m, 8, Result("Object"))
CALL_COPY_NONVIRTUAL(code, T, m) ==
    SendCall(code, <<"jobj", "jc", "methodID">>, <<"paramSize">>, m, 16, Returned(T))
CALL_COPY_STATIC(code, T, m) ==
    SendCall(code, <<"jc", "methodID">>, <<"paramSize">>, m, 8, Returned(T))
NewObject(m) == NEW_COPY(59, m)
CallObjectMethod(m) == CALL_COPY(33, "Object", m)
CallBooleanMethod(m) == CALL_COPY(24, "Boolean", m)
CallBooleanMethodV(m) == CALL_COPY(25, "Boolean", m)
CallBooleanMethodA(m) == CALL_COPY(26, "Boolean", m)
CallByteMethod(m) == CALL_COPY(71, "Byte", m)
CallCharMethod(m) == CALL_COPY(72, "Char", m)
CallShortMethod(m) == CALL_COPY(84, "Short", m)
CallIntMethod(m) == CALL_COPY(27, "Int", m)
CallIntMethodV(m) == CALL_COPY(28, "Int", m)
CallIntMethodA(m) == CALL_COPY(29, "Int", m)
CallLongMethod(m) == CALL_COPY(73, "Long", m)
CallFloatMethod(m) == CALL_COPY(62, "Float", m)
CallDoubleMethod(m) == CALL_COPY(74, "Double", m)
CallVoidMethod(m) == CALL_COPY(34, "Void", m)
CallNonvirtualObjectMethod(m) == CALL_COPY_NONVIRTUAL(31, "Object", m)
CallNonvirtualBooleanMethod(m) == CALL_COPY_NONVIRTUAL(75, "Boolean", m)
CallNonvirtualByteMethod(m) == CALL_COPY_NONVIRTUAL(76, "Byte", m)
CallNonvirtualCharMethod(m) == CALL_COPY_NONVIRTUAL(77, "Char", m)
CallNonvirtualShortMethod(m) == CALL_COPY_NONVIRTUAL(78, "Short", m)
CallNonvirtualIntMethod(m) == CALL_COPY_NONVIRTUAL(79, "Int", m)
CallNonvirtualLongMethod(m) == CALL_COPY_NONVIRTUAL(80, "Long", m)
CallNonvirtualFloatMethod(m) == CALL_COPY_NONVIRTUAL(81, "Float", m)
CallNonvirtualDoubleMethod(m) == CALL_COPY_NONVIRTUAL(82, "Double", m)
CallNonvirtualVoidMethod(m) == CALL_COPY_NONVIRTUAL(83, "Void", m)
CallStaticVoidMethod(m) == CALL_COPY_STATIC(52, "Void", m)
CallStaticObjectMethod(m) == CALL_COPY_STATIC(88, "Object", m)
CallStaticBooleanMethod(m) == CALL_COPY_STATIC(87, "Boolean", m)
CallStaticByteMethod(m) == CALL_COPY_STATIC(86, "Byte", m)
CallStaticCharMethod(m) == CALL_COPY_STATIC(85, "Char", m)
CallStaticShortMethod(m) == CALL_COPY_STATIC(51, "Short", m)
CallStaticIntMethod(m) == CALL_COPY_STATIC(89, "Int", m)
CallStaticLongMethod(m) == CALL_COPY_STATIC(90, "Long", m)
CallStaticFloatMethod(m) == CALL_COPY_STATIC(91, "Float", m)
CallStaticDoubleMethod(m) == CALL_COPY_STATIC(91, "Double", m)

(* Fields.  SETFIELD_COPYDATA casts the value to an int, SETFIELD_COPYDATAL to a long. *)
GETFIELD_COPYDATA(code, T) == SendWords(code, <<"jobj", "fieldID">>, Result(T))
GetObjectField == GETFIELD_COPYDATA(44, "Object")
GetBooleanField == GETFIELD_COPYDATA(45, "Boolean")
GetByteField == GETFIELD_COPYDATA(46, "Byte")
GetCharField == GETFIELD_COPYDATA(47, "Char")
GetShortField == GETFIELD_COPYDATA(48, "Short")
GetIntField == GETFIELD_COPYDATA(30, "Int")
GetLongField == GETFIELD_COPYDATA(17, "Long")
GetFloatField == GETFIELD_COPYDATA(49, "Float")
GetDoubleField == GETFIELD_COPYDATA(50, "Double")
SetParams(T) == {<<"val", Width[T]>>, <<"fieldID", 4>>, <<"jobj", 4>>}
SETFIELD_COPYDATA(code, T) ==
    [Send(code, <<IF T = "Float" THEN Cast("val", 0, 4) ELSE Put("val", 0, 4),
                 Put("fieldID", 4, 4), Put("jobj", 8, 4)>>, 12, 4, Nothing)
        EXCEPT !.params = SetParams(T)]
SETFIELD_COPYDATAL(code, T) ==
    [Send(code, <<IF T = "Double" THEN Cast("val", 0, 8) ELSE Put("val", 0, 8),
                 Put("fieldID", 8, 4), Put("jobj", 12, 4)>>, 16, 4, Nothing)
        EXCEPT !.params = SetParams(T)]
SetObjectField == SETFIELD_COPYDATA(43, "Object")
SetBooleanField == SETFIELD_COPYDATA(42, "Boolean")
SetByteField == SETFIELD_COPYDATA(41, "Byte")
SetCharField == SETFIELD_COPYDATA(40, "Char")
SetShortField == SETFIELD_COPYDATA(39, "Short")
SetIntField == SETFIELD_COPYDATA(35, "Int")
SetLongField == SETFIELD_COPYDATAL(36, "Long")
SetFloatField == SETFIELD_COPYDATA(38, "Float")
SetDoubleField == SETFIELD_COPYDATAL(37, "Double")
GETSTATIC_COPYDATA(code, T) ==
    [SendWords(code, <<"jclazz", "fieldID">>, Result(T)) EXCEPT !.taint = Unset]
GetStaticIntField == GETSTATIC_COPYDATA(135, "Int")
GetStaticShortField == GETSTATIC_COPYDATA(136, "Short")
GetStaticCharField == GETSTATIC_COPYDATA(137, "Char")
GetStaticByteField == GETSTATIC_COPYDATA(138, "Byte")
GetStaticBooleanField == GETSTATIC_COPYDATA(139, "Boolean")
GetStaticObjectField == GETSTATIC_COPYDATA(140, "Object")
GetStaticLongField == GETSTATIC_COPYDATA(141, "Long")
GetStaticFloatField == GETSTATIC_COPYDATA(142, "Float")
GetStaticDoubleField == GETSTATIC_COPYDATA(143, "Double")
SETSTATIC_COPYDATA(code, T, taint) ==
    Send(code, <<Put("val", 0, Width[T]), Put("jc", Width[T], 4), Put("fieldID", Width[T] + 4, 4)>>,
         Width[T] + 8, taint, Nothing)
SetStaticObjectField == SETSTATIC_COPYDATA(133, "Object", 8)
SetStaticBooleanField == SETSTATIC_COPYDATA(133, "Boolean", 8)
SetStaticByteField == SETSTATIC_COPYDATA(132, "Byte", 8)
SetStaticCharField == SETSTATIC_COPYDATA(131, "Char", 8)
SetStaticShortField == SETSTATIC_COPYDATA(130, "Short", 8)
SetStaticIntField == SETSTATIC_COPYDATA(129, "Int", 8)
SetStaticLongField == SETSTATIC_COPYDATA(60, "Long", 8)
SetStaticFloatField == SETSTATIC_COPYDATA(128, "Float", 0)
SetStaticDoubleField == SETSTATIC_COPYDATA(127, "Double", 0)

(* Strings of n characters.  GetStringUTFChars returns a pointer into the answer, the others copy;
   pointer and length are remembered (addStringChars, module Registry). *)
NewString(n) ==
    Send(147, <<Put("len", 0, 4), Put("unicodeChars", 4, 2 * n)>>, 4 + 2 * n, 0, Result("Object"))
GetStringLength == [SendWords(119, <<"jstr">>, Result("Int")) EXCEPT !.taint = Unset]
CharsAnswer(width) == <<Put("dalvikP", 0, 4), Put("strlen", 4, 4), Put("chars", 8, width)>>
GetStringChars(n) == SendWords(55, <<"jstr">>, CharsAnswer(2 * n))
ReleaseStringChars(n) ==
    Send(56, Words(<<"jstr", "dalvikP", "strlen">>) \o <<Put("chars", 12, 2 * n)>>,
         12 + 2 * n, 12 + 2 * n, Nothing)
NewStringUTF(n) == Send(2, <<Put("bytes", 0, n + 1)>>, n + 1, n + 1, Result("Object"))
GetStringUTFLength == SendWords(144, <<"jstr">>, Result("Int"))
GetStringUTFChars(n) == SendWords(1, <<"jstr">>, CharsAnswer(n))
ReleaseStringUTFChars(n) ==
    Send(67, Words(<<"dalvikP", "length", "jstr">>) \o <<Put("utf", 12, n)>>,
         8 + 8 * n, 8 + 8 * n, Nothing)
GetStringRegion(n) == SendWords(120, <<"jstr", "start", "len">>, <<Put("chars", 0, 2 * n)>>)
GetStringUTFRegion(n) == SendWords(120, <<"jstr", "start", "len">>, <<Put("utf", 0, n)>>)
GetStringCritical(n) == SendWords(68, <<"jstr">>, CharsAnswer(2 * n))
ReleaseStringCritical(n) ==
    LET strlen == n + (n % 2)
    IN [Send(57, <<Put("strlen", 0, 4), Put("chars", 4, strlen \div 2), Put("jstr", 4 + 2 * strlen, 4),
                   Put("dalvikP", 8 + 2 * strlen, 4)>>, 12 + 2 * strlen, 4 + 2 * n, Nothing)
            EXCEPT !.params = {<<"strlen", 4>>, <<"chars", 2 * n>>, <<"jstr", 4>>, <<"dalvikP", 4>>}]

(* Arrays of n elements *)
GetArrayLength == SendWords(148, <<"jarr">>, Result("Int"))
NewObjectArray ==
    [SendWords(122, <<"jinitialElement", "length", "jelementClass">>, Result("Object"))
        EXCEPT !.taint = 4]
GetObjectArrayElement == SendWords(149, <<"jarr", "index">>, Result("Object"))
SetObjectArrayElement == [SendWords(150, <<"jobj", "index", "jarr">>, Nothing) EXCEPT !.taint = 4]
NewBooleanArray == SendWords(110, <<"length">>, Result("Object"))
NewByteArray == SendWords(111, <<"length">>, Result("Object"))
NewCharArray == SendWords(112, <<"length">>, Result("Object"))
NewShortArray == SendWords(113, <<"length">>, Result("Object"))
NewIntArray == SendWords(114, <<"length">>, Result("Object"))
NewLongArray == SendWords(115, <<"length">>, Result("Object"))
NewFloatArray == SendWords(116, <<"length">>, Result("Object"))
NewDoubleArray == SendWords(117, <<"length">>, Result("Object"))
GET_GENERIC_ARRAYELEMENTS(code, T, n) ==
    SendWords(code, <<"jarr">>,
              <<Put("size", 0, 4), Put("dalvikP", 4, 4), Put("elements", 8, n * Width[T])>>)
GetBooleanArrayElements(n) == GET_GENERIC_ARRAYELEMENTS(151, "Boolean", n)
GetByteArrayElements(n) == GET_GENERIC_ARRAYELEMENTS(70, "Byte", n)
GetCharArrayElements(n) == GET_GENERIC_ARRAYELEMENTS(152, "Char", n)
GetShortArrayElements(n) == GET_GENERIC_ARRAYELEMENTS(99, "Short", n)
GetIntArrayElements(n) == GET_GENERIC_ARRAYELEMENTS(153, "Int", n)
GetLongArrayElements(n) == GET_GENERIC_ARRAYELEMENTS(97, "Long", n)
GetFloatArrayElements(n) == GET_GENERIC_ARRAYELEMENTS(154, "Float", n)
GetDoubleArrayElements(n) == GET_GENERIC_ARRAYELEMENTS(98, "Double", n)
ReleaseElements(code, T, n) ==
    [SendWords(code, <<"jarr">>, Nothing) EXCEPT !.params = @ \cup {<<"elems", n * Width[T]>>, <<"mode", 4>>}]
ReleaseBooleanArrayElements(n) == ReleaseElements(102, "Boolean", n)
ReleaseByteArrayElements(n) == ReleaseElements(101, "Byte", n)
ReleaseCharArrayElements(n) == ReleaseElements(103, "Char", n)
ReleaseShortArrayElements(n) == ReleaseElements(104, "Short", n)
ReleaseIntArrayElements(n) == ReleaseElements(105, "Int", n)
ReleaseLongArrayElements(n) == ReleaseElements(106, "Long", n)
ReleaseFloatArrayElements(n) == ReleaseElements(107, "Float", n)
ReleaseDoubleArrayElements(n) == ReleaseElements(108, "Double", n)
GENERIC_GETARRAYREGION(code, T, n) ==
    SendWords(code, <<"jarr", "start", "len">>, <<Put("buf", 0, n * Width[T])>>)
GetBooleanArrayRegion(n) == GENERIC_GETARRAYREGION(155, "Boolean", n)
GetByteArrayRegion(n) == GENERIC_GETARRAYREGION(54, "Byte", n)
GetCharArrayRegion(n) == GENERIC_GETARRAYREGION(156, "Char", n)
GetShortArrayRegion(n) == GENERIC_GETARRAYREGION(157, "Short", n)
GetIntArrayRegion(n) == GENERIC_GETARRAYREGION(158, "Int", n)
GetLongArrayRegion(n) == GENERIC_GETARRAYREGION(159, "Long", n)
GetFloatArrayRegion(n) == GENERIC_GETARRAYREGION(160, "Float", n)
GetDoubleArrayRegion(n) == GENERIC_GETARRAYREGION(100, "Double", n)
ARRAYREGION_COPYOUT(code, T, n) ==
    LET bytes == n * Width[T]
        word == bytes \div 4
    IN Send(code, <<Put("len", 0, 4), Put("buf", 4, bytes), Put("jarr", 4 * (word + 1), 4),
                    Put("start", 4 * (word + 2), 4)>>, 12 + bytes, bytes + 4, Nothing)
SetBooleanArrayRegion(n) == ARRAYREGION_COPYOUT(161, "Boolean", n)
SetByteArrayRegion(n) == ARRAYREGION_COPYOUT(94, "Byte", n)
SetCharArrayRegion(n) == ARRAYREGION_COPYOUT(95, "Char", n)
SetShortArrayRegion(n) == ARRAYREGION_COPYOUT(53, "Short", n)
SetIntArrayRegion(n) == ARRAYREGION_COPYOUT(96, "Int", n)
SetLongArrayRegion(n) == ARRAYREGION_COPYOUT(162, "Long", n)
SetFloatArrayRegion(n) == ARRAYREGION_COPYOUT(93, "Float", n)
SetDoubleArrayRegion(n) == ARRAYREGION_COPYOUT(163, "Double", n)

(* GetPrimitiveArrayCritical is for arrays of any type T; what is sent is up to the handler.
   The release sends as many bytes as it was given, at->length (getArrayLength, module Registry). *)
GetPrimitiveArrayCritical(T, n) ==
    SendWords(65, <<"jarr">>,
              <<Put("size", 0, 4), Put("dalvikP", 4, 4), Put("elements", 8, n * Width[T])>>)
ReleasePrimitiveArrayCritical(bytes) ==
    [Send(66, Words(<<"jarr", "arraysize", "dalvikP">>) \o <<Put("array", 12, bytes)>>,
          8 + bytes, 0, Nothing) EXCEPT !.params = @ \cup {<<"mode", 4>>}]
NewDirectByteBuffer(n) ==
    Send(166, <<Put("capacity", 0, 8), Put("address", 8, 4 * n)>>, 8 + 4 * n, 0, Result("Object"))
GetDirectBufferAddress(n) ==
    SendWords(167, <<"jbuf">>, <<Put("resultsize", 0, 8), Put("result", 8, n)>>)
GetDirectBufferCapacity == SendWords(168, <<"jbuf">>, Result("Long"))
=============================================================================
