------------------------------- MODULE Wire -------------------------------
(***************************************************************************)
(* The memory blocks in which the JNI stubs of the wrapper process and the *)
(* handlers of the app's process exchange arguments and results.  The      *)
(* content of a block is described by the sequence of the fields written   *)
(* into it; a byte belongs to the last field written over it.  Taints are  *)
(* fields like any other: what counts is which bytes they take up.         *)
(***************************************************************************)
EXTENDS Integers, Sequences, FiniteSets, FiniteSetsExt, SequencesExt

(***************************************************************************)
(* A field: bytes from .. from + len - 1 of the value arg, at offset at.   *)
(* as is "raw" if the bytes are copied and "cast" if the value was         *)
(* converted, which for a floating point number is another value.          *)
(***************************************************************************)
Part(arg, at, len, from) == [arg |-> arg, at |-> at, len |-> len, from |-> from, as |-> "raw"]
Put(arg, at, len) == Part(arg, at, len, 0)
Cast(arg, at, len) == [Put(arg, at, len) EXCEPT !.as = "cast"]
Words(args) == FoldLeft(LAMBDA fs, arg : Append(fs, Put(arg, 4 * Len(fs), 4)), <<>>, args)

Types == {"Object", "Boolean", "Byte", "Char", "Short", "Int", "Long", "Float", "Double"}

(* sizeof on the 32 bit target *)
Width == [Object |-> 4, Boolean |-> 1, Byte |-> 1, Char |-> 2, Short |-> 2, Int |-> 4,
          Long |-> 8, Float |-> 4, Double |-> 8]

(* A length the code does not assign, so that it keeps its old value. *)
Unset == -1

Junk == <<"junk", 0, "raw">>
ByteOf(f, i) == <<f.arg, f.from + i - f.at, f.as>>

(* What a reader finds at offset i of a block of sent bytes with the fields fs. *)
ByteAt(fs, sent, i) ==
    LET over == {j \in DOMAIN fs : fs[j].at <= i /\ i < fs[j].at + fs[j].len}
    IN IF i >= sent \/ over = {} THEN Junk ELSE ByteOf(fs[Max(over)], i)

(* The field r, read from such a block, is the value it is taken for; a cast gives another. *)
ReadsRight(r, fs, sent) ==
    /\ r.as = "raw"
    /\ \A i \in r.at .. r.at + r.len - 1 : ByteAt(fs, sent, i) = ByteOf(r, i)

(* The bytes of the value arg that the fields rs have. *)
BytesOf(arg, rs) ==
    UNION {rs[j].from .. rs[j].from + rs[j].len - 1 : j \in {k \in DOMAIN rs : rs[k].arg = arg}}

(* The end of the last field. *)
End(fs) == Max({0} \cup {fs[j].at + fs[j].len : j \in DOMAIN fs})

-----------------------------------------------------------------------------
(* What a stub does: the code it sends, the fields it writes into its block, the size of   *)
(* the block and how much of it is sent, the number of taints it announces, its parameters *)
(* with their sizes, and the fields it takes out of the answer.  copies has, for copies of *)
(* an array of parameters, the number of bytes copied and the number of bytes there.       *)
Send(code, fs, bytes, taint, gets) ==
    [code |-> code, fields |-> fs, alloc |-> bytes, size |-> bytes, taint |-> taint,
     params |-> {<<fs[j].arg, fs[j].from + fs[j].len>> : j \in DOMAIN fs}, gets |-> gets, copies |-> {}]

(* A stub that sends nothing but words. *)
SendWords(code, args, gets) == Send(code, Words(args), 4 * Len(args), 0, gets)

(* The parameters of a method that is called. *)
Arg == <<"arg1", "arg2", "arg3">>

Result(T) == <<Put("result", 0, Width[T])>>
Nothing == <<>>

(* What a handler does: the JNI function it calls, the fields it takes out of the request  *)
(* for the parameters, and the answer it writes.  copies has, for the copies into memory   *)
(* of Dalvik, the number of bytes copied and the number of bytes there.                    *)
Handle(fn, reads, answer) ==
    [fn |-> fn, reads |-> reads, fields |-> answer.fields, alloc |-> answer.alloc,
     size |-> answer.size, taint |-> answer.taint, copies |-> {}]

Answer(fs, alloc, sent, taint) == [fields |-> fs, alloc |-> alloc, size |-> sent, taint |-> taint]
Value(T) == Answer(Result(T), Width[T], Width[T], 0)
NoValue == Answer(<<>>, 0, 0, 0)
=============================================================================
