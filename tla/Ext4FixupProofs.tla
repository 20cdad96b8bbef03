-------------------------- MODULE Ext4FixupProofs --------------------------
(***************************************************************************)
(* Proofs about ext4fixup, for every tree of directories and wherever the  *)
(* tool is stopped and run again.                                          *)
(***************************************************************************)
EXTENDS Ext4Fixup, SequenceTheorems, WellFoundedInduction, TLAPS

-----------------------------------------------------------------------------
(* Inode numbers and group sizes.                                          *)

LEMMA Sizes ==
    /\ OldIpg \in Nat /\ OldIpg > 0 /\ InodesPerBlock \in Nat /\ InodesPerBlock > 0
    /\ Groups \in Nat /\ Groups > 0 /\ FreeInodes \in Nat
  BY SizeAssumption

\* Rounding up to whole blocks, of what is whole already too (ext4fixup_internal).
LEMMA Aligned ==
    /\ TheNewIpg \in Nat /\ TheNewIpg >= OldIpg
    /\ AlignUp(TheNewIpg, InodesPerBlock) = TheNewIpg
<1>1. ASSUME NEW a \in Nat, NEW k \in Nat, k > 0
      PROVE  LET q == (a + k - 1) \div k IN q \in Nat /\ k * q >= a
  <2> DEFINE q == (a + k - 1) \div k
  <2>1. q \in Int /\ k * q <= a + k - 1 /\ a + k - 1 < k * q + k
    BY <1>1
  <2> HIDE DEF q
  <2>2. q >= 0 /\ k * q >= a
    BY <1>1, <2>1
  <2> QED
    BY <2>1, <2>2 DEF q
<1>2. ASSUME NEW m \in Nat, NEW k \in Nat, k > 0
      PROVE  (k * m + k - 1) \div k = m
  <2> DEFINE q == (k * m + k - 1) \div k
  <2>1. q \in Int /\ k * q <= k * m + k - 1 /\ k * m + k - 1 < k * q + k
    BY <1>2
  <2> HIDE DEF q
  <2>2. q <= m
    BY <1>2, <2>1
  <2>3. m <= q
    BY <1>2, <2>1
  <2> QED
    BY <2>1, <2>2, <2>3 DEF q
<1>3. PICK m \in Nat : TheNewIpg = InodesPerBlock * m /\ InodesPerBlock * m >= OldIpg
  BY <1>1, Sizes DEF TheNewIpg, AlignUp
<1>4. AlignUp(TheNewIpg, InodesPerBlock) = InodesPerBlock * m
  BY <1>2, <1>3, Sizes DEF AlignUp
<1> QED
  BY <1>3, <1>4, Sizes

Number(e, n) == InodeNumber(Slot[e], n)

\* A number leads back to the inode it counts (read_inode, compute_new_inum).
LEMMA SlotOfNumber ==
    ASSUME NEW e \in Entry, NEW n \in {OldIpg, TheNewIpg}
    PROVE  Number(e, n) \in Int /\ SlotOf(Number(e, n), n) = Slot[e]
<1>1. PICK a \in Nat, b \in Nat : Slot[e] = <<a, b>> /\ b < OldIpg
  <2>1. Slot[e] \in Group \X (0 .. OldIpg - 1)
    BY TreeAssumption
  <2>2. PICK a \in Group, b \in 0 .. OldIpg - 1 : Slot[e] = <<a, b>>
    BY <2>1
  <2> QED
    BY <2>2, Sizes DEF Group
<1>2. n \in Nat /\ n > 0 /\ b < n
  BY <1>1, Sizes, Aligned
<1>3. Number(e, n) = a * n + b + 1 /\ a * n \in Nat
  BY <1>1, <1>2 DEF Number, InodeNumber
<1>4. (a * n + b) \div n = a /\ (a * n + b) % n = b
  <2> DEFINE q == (a * n + b) \div n
  <2>1. q \in Int /\ n * q <= a * n + b /\ a * n + b < n * q + n
    BY <1>2, <1>3
  <2>2. (a * n + b) % n = a * n + b - n * q
    BY <1>2, <1>3
  <2> HIDE DEF q
  <2>3. q <= a
    BY <1>2, <2>1
  <2>4. a <= q
    BY <1>2, <2>1
  <2>5. q = a
    BY <2>1, <2>3, <2>4
  <2> QED
    BY <1>2, <2>2, <2>5 DEF q
<1>5. Number(e, n) - 1 = a * n + b
  BY <1>3
<1> QED
  BY <1>1, <1>3, <1>4, <1>5 DEF SlotOf

-----------------------------------------------------------------------------
(* The entries of a directory are those of its blocks.                     *)

\* Induction over the natural numbers, for a set of them.
LEMMA Induction ==
    ASSUME NEW T, 0 \in T, \A n \in Nat : n \in T => n + 1 \in T
    PROVE  Nat \subseteq T
<1> SUFFICES ASSUME Nat \ T # {} PROVE FALSE
  OBVIOUS
<1> DEFINE R == OpToRel(<, Nat)
<1>1. IsWellFoundedOn(R, Nat)
  BY NatLessThanWellFounded
<1>2. \A x, y \in Nat : y < x => <<y, x>> \in R
  BY DEF OpToRel
<1> HIDE DEF R
<1>3. PICK x \in Nat \ T : \A y \in Nat \ T : ~(<<y, x>> \in R)
  BY <1>1, WFMin
<1>4. x # 0 /\ x - 1 \in Nat /\ x - 1 < x /\ (x - 1) + 1 = x
  BY <1>3
<1>5. x - 1 \in T
  BY <1>2, <1>3, <1>4
<1> QED
  BY <1>3, <1>4, <1>5

\* FlattenSeq puts the sequences together, one after the other.
LEMMA Flattened ==
    ASSUME NEW S, NEW s \in Seq(Seq(S)), s # <<>>
    PROVE  /\ FlattenSeq(s) \in Seq(S)
           /\ \A x : x \in Range(FlattenSeq(s)) <=> \E j \in DOMAIN s : x \in Range(s[j])
<1>1. Len(s) \in Nat /\ Len(s) > 0 /\ DOMAIN s = 1 .. Len(s) /\ \A i \in 1 .. Len(s) : s[i] \in Seq(S)
  BY LenProperties, ElementOfSeq, EmptySeq
<1> DEFINE Flat(g, n) == g = [i \in 1 .. n |-> IF i = 1 THEN s[i] ELSE g[i - 1] \o s[i]]
           T == {n \in Nat : \A m \in Nat : m = n + 1 => \E g : Flat(g, m)}
<1>2. 0 \in T
  <2>1. Flat([i \in 1 .. 1 |-> s[i]], 1)
    OBVIOUS
  <2> HIDE DEF Flat
  <2> QED
    BY <2>1
<1>3. ASSUME NEW n \in Nat, n \in T PROVE n + 1 \in T
  <2> HIDE DEF Flat
  <2> SUFFICES ASSUME NEW k \in Nat, k = n + 2 PROVE \E g : Flat(g, k)
    <3>1. \A k \in Nat : k = (n + 1) + 1 => k = n + 2
      OBVIOUS
    <3> QED
      BY <3>1
  <2>1. PICK m \in Nat : m = n + 1 /\ k = m + 1 /\ m >= 1
    OBVIOUS
  <2>2. PICK g : Flat(g, m)
    BY <1>3, <2>1
  <2>3. \A i \in 1 .. m : g[i] = IF i = 1 THEN s[i] ELSE g[i - 1] \o s[i]
    BY <2>2 DEF Flat
  <2> DEFINE h == [i \in 1 .. k |-> IF i = k THEN g[m] \o s[k] ELSE g[i]]
  <2>4. \A i \in 1 .. k : (i # 1 => h[i - 1] = g[i - 1])
    BY <2>1
  <2>5. ASSUME NEW i \in 1 .. k PROVE h[i] = IF i = 1 THEN s[i] ELSE h[i - 1] \o s[i]
    <3>1. CASE i = k
      <4>1. i # 1 /\ i - 1 = m
        BY <2>1, <3>1
      <4>2. h[i] = g[m] \o s[k]
        BY <3>1
      <4> HIDE DEF h
      <4> QED
        BY <2>4, <3>1, <4>1, <4>2
    <3>2. CASE i # k
      <4>1. i \in 1 .. m
        BY <2>1, <3>2
      <4>2. h[i] = g[i]
        BY <3>2
      <4> HIDE DEF h
      <4> QED
        BY <2>3, <2>4, <4>1, <4>2
    <3> QED
      BY <3>1, <3>2
  <2>6. h = [i \in 1 .. k |-> h[i]]
    OBVIOUS
  <2> HIDE DEF h
  <2>7. Flat(h, k)
    BY <2>5, <2>6 DEF Flat
  <2> QED
    BY <2>7
<1>4. \E g : Flat(g, Len(s))
  <2> HIDE DEF Flat
  <2>1. Nat \subseteq T
    <3> HIDE DEF T
    <3> QED
      BY <1>2, <1>3, Induction
  <2>2. PICK n \in Nat : Len(s) = n + 1
    <3>1. Len(s) - 1 \in Nat /\ Len(s) = (Len(s) - 1) + 1
      BY <1>1
    <3> QED
      BY <3>1
  <2> QED
    BY <1>1, <2>1, <2>2
<1>5. PICK g : Flat(g, Len(s)) /\ FlattenSeq(s) = g[Len(s)]
  <2> DEFINE c == CHOOSE g : Flat(g, Len(s))
  <2>1. Flat(c, Len(s))
    <3> HIDE DEF Flat
    <3> QED
      BY <1>4
  <2>2. FlattenSeq(s) = c[Len(s)]
    BY <1>1 DEF FlattenSeq
  <2> HIDE DEF c
  <2> QED
    BY <2>1, <2>2
<1>6. \A i \in 1 .. Len(s) : g[i] = IF i = 1 THEN s[i] ELSE g[i - 1] \o s[i]
  BY <1>5
<1> HIDE DEF Flat
<1> DEFINE IsFlat(q, n) == /\ q \in Seq(S)
                           /\ \A x : x \in Range(q) <=> \E j \in 1 .. n : x \in Range(s[j])
           U == {n \in Nat : \A m \in 1 .. Len(s) : m = n + 1 => IsFlat(g[m], m)}
<1>7. 0 \in U
  <2>1. g[1] = s[1] /\ g[1] \in Seq(S)
    BY <1>1, <1>6
  <2>2. \A j : j \in 1 .. 1 <=> j = 1
    OBVIOUS
  <2>3. IsFlat(g[1], 1)
    BY <2>1, <2>2
  <2> HIDE DEF IsFlat
  <2> QED
    BY <2>3
<1>8. ASSUME NEW n \in Nat, n \in U PROVE n + 1 \in U
  <2> SUFFICES ASSUME NEW k \in 1 .. Len(s), k = n + 2 PROVE IsFlat(g[k], k)
    OBVIOUS
  <2>1. PICK m \in 1 .. Len(s) : m = n + 1 /\ m = k - 1 /\ k # 1
    <3>1. n + 1 \in 1 .. Len(s) /\ n + 1 = k - 1 /\ k # 1
      BY <1>1
    <3> QED
      BY <3>1
  <2>0. IsFlat(g[m], m)
    BY <1>8, <2>1
  <2>2. g[k] = g[m] \o s[k] /\ s[k] \in Seq(S)
    BY <1>1, <1>6, <2>1
  <2>3. PICK a \in Seq(S), b \in Seq(S) : a = g[m] /\ b = s[k]
    BY <2>0, <2>2
  <2>4. /\ a \o b \in Seq(S) /\ Len(a \o b) = Len(a) + Len(b)
        /\ \A i \in 1 .. Len(a) + Len(b) : (a \o b)[i] = IF i <= Len(a) THEN a[i] ELSE b[i - Len(a)]
    BY ConcatProperties
  <2>5. /\ Len(a) \in Nat /\ Len(b) \in Nat /\ DOMAIN a = 1 .. Len(a) /\ DOMAIN b = 1 .. Len(b)
        /\ DOMAIN (a \o b) = 1 .. Len(a) + Len(b)
    BY <2>4, LenProperties
  <2>6. ASSUME NEW x PROVE x \in Range(a \o b) => x \in Range(a) \/ x \in Range(b)
    <3> SUFFICES ASSUME NEW i \in 1 .. Len(a) + Len(b), x = (a \o b)[i]
                 PROVE  x \in Range(a) \/ x \in Range(b)
      BY <2>5 DEF Range
    <3>1. CASE i <= Len(a)
      BY <2>4, <2>5, <3>1 DEF Range
    <3>2. CASE ~(i <= Len(a))
      <4>1. i - Len(a) \in 1 .. Len(b)
        BY <2>5, <3>2
      <4> QED
        BY <2>4, <2>5, <3>2, <4>1 DEF Range
    <3> QED
      BY <3>1, <3>2
  <2>7. ASSUME NEW x PROVE x \in Range(a) \/ x \in Range(b) => x \in Range(a \o b)
    <3>1. ASSUME NEW i \in 1 .. Len(a) PROVE a[i] \in Range(a \o b)
      <4>1. i \in 1 .. Len(a) + Len(b) /\ i <= Len(a)
        BY <2>5
      <4> QED
        BY <2>4, <2>5, <4>1 DEF Range
    <3>2. ASSUME NEW i \in 1 .. Len(b) PROVE b[i] \in Range(a \o b)
      <4>1. PICK j \in Int : j = Len(a) + i
        BY <2>5
      <4>2. j \in 1 .. Len(a) + Len(b) /\ ~(j <= Len(a)) /\ j - Len(a) = i
        BY <2>5, <4>1
      <4> QED
        BY <2>4, <2>5, <4>2 DEF Range
    <3> QED
      BY <2>5, <3>1, <3>2 DEF Range
  <2>8. \A j : j \in 1 .. k <=> j \in 1 .. m \/ j = k
    BY <1>1, <2>1
  <2>9. \A x : x \in Range(a \o b) <=> \E j \in 1 .. k : x \in Range(s[j])
    BY <2>0, <2>3, <2>6, <2>7, <2>8
  <2> QED
    BY <2>2, <2>3, <2>4, <2>9
<1>9. Nat \subseteq U
  <2> HIDE DEF U
  <2> QED
    BY <1>7, <1>8, Induction
<1>10. IsFlat(g[Len(s)], Len(s))
  <2>1. PICK n \in Nat : Len(s) = n + 1
    <3>1. Len(s) - 1 \in Nat /\ Len(s) = (Len(s) - 1) + 1
      BY <1>1
    <3> QED
      BY <3>1
  <2>2. n \in U /\ Len(s) \in 1 .. Len(s)
    <3> HIDE DEF U
    <3> QED
      BY <1>1, <1>9
  <2> HIDE DEF IsFlat
  <2> QED
    BY <2>1, <2>2
<1> QED
  BY <1>1, <1>5, <1>10

\* What the proofs use of the layout of a directory.
LEMMA Entries ==
    ASSUME NEW d \in Dir
    PROVE  /\ EntriesOf(d) \in Seq(Entry) /\ Len(EntriesOf(d)) \in Nat
           /\ \A k \in 1 .. Len(EntriesOf(d)) : EntriesOf(d)[k] \in Range(EntriesOf(d))
           /\ \A e \in Range(EntriesOf(d)) : e \in Entry /\ \E k \in 1 .. Len(EntriesOf(d)) : EntriesOf(d)[k] = e
           /\ Len(Layout[d]) \in Nat /\ Len(Layout[d]) > 0
           /\ \A e \in Range(EntriesOf(d)) : \E j \in 1 .. Len(Layout[d]) : e \in Range(Layout[d][j])
           /\ \A j \in 1 .. Len(Layout[d]) : Range(Layout[d][j]) \subseteq Range(EntriesOf(d))
<1>1. Layout[d] \in Seq(Seq(Entry)) /\ Layout[d] # <<>>
  BY TreeAssumption
<1>2. DOMAIN Layout[d] = 1 .. Len(Layout[d]) /\ Len(Layout[d]) \in Nat /\ Len(Layout[d]) > 0
  BY <1>1, LenProperties, EmptySeq
<1>3. /\ EntriesOf(d) \in Seq(Entry)
      /\ \A x : x \in Range(EntriesOf(d)) <=> \E j \in DOMAIN Layout[d] : x \in Range(Layout[d][j])
  BY <1>1, Flattened DEF EntriesOf
<1>4. DOMAIN EntriesOf(d) = 1 .. Len(EntriesOf(d)) /\ Len(EntriesOf(d)) \in Nat
  BY <1>3, LenProperties
<1>5. Range(EntriesOf(d)) \subseteq Entry
  BY LayoutAssumption
<1> QED
  BY <1>2, <1>3, <1>4, <1>5 DEF Range

-----------------------------------------------------------------------------
(* The stack of activations: its top is changed, pushed and popped.        *)

Record == [inode : Int, high : BOOLEAN]
Frames == [dir : Dir, buf : UNION {[Range(EntriesOf(d)) -> Record] : d \in Dir}, short : BOOLEAN,
           pos : Nat, back : BOOLEAN, blk : Nat]

LEMMA RecordMade ==
    ASSUME NEW n \in Int, NEW h \in BOOLEAN
    PROVE  [inode |-> n, high |-> h] \in Record
  BY DEF Record

Bufs == UNION {[Range(EntriesOf(d)) -> Record] : d \in Dir}

\* The activation f with another position, buffer, block and so on.
Changed(f, buf, short, pos, back, blk) ==
    [dir |-> f.dir, buf |-> buf, short |-> short, pos |-> pos, back |-> back, blk |-> blk]

LEMMA FrameChanged ==
    ASSUME NEW f \in Frames, NEW buf \in Bufs, NEW short \in BOOLEAN, NEW pos \in Nat,
           NEW back \in BOOLEAN, NEW blk \in Nat
    PROVE  Changed(f, buf, short, pos, back, blk) \in Frames
  BY DEF Changed, Frames, Bufs

LEMMA FrameExcept ==
    ASSUME NEW f \in Frames, NEW v
    PROVE  /\ [f EXCEPT !.back = v] = Changed(f, f.buf, f.short, f.pos, v, f.blk)
           /\ [f EXCEPT !.short = v] = Changed(f, f.buf, v, f.pos, f.back, f.blk)
           /\ [f EXCEPT !.blk = v] = Changed(f, f.buf, f.short, f.pos, f.back, v)
<1>1. PICK d, b, s, p, k, l : f = [dir |-> d, buf |-> b, short |-> s, pos |-> p, back |-> k, blk |-> l]
  BY DEF Frames
<1>2. f.dir = d /\ f.buf = b /\ f.short = s /\ f.pos = p /\ f.back = k /\ f.blk = l
  BY <1>1
<1>3. [f EXCEPT !.back = v] = [dir |-> d, buf |-> b, short |-> s, pos |-> p, back |-> v, blk |-> l]
  BY <1>1
<1>4. [f EXCEPT !.short = v] = [dir |-> d, buf |-> b, short |-> v, pos |-> p, back |-> k, blk |-> l]
  BY <1>1
<1>5. [f EXCEPT !.blk = v] = [dir |-> d, buf |-> b, short |-> s, pos |-> p, back |-> k, blk |-> v]
  BY <1>1
<1> QED
  BY <1>2, <1>3, <1>4, <1>5 DEF Changed

LEMMA ChangedFields ==
    ASSUME NEW f, NEW buf, NEW short, NEW pos, NEW back, NEW blk, NEW c,
           c = Changed(f, buf, short, pos, back, blk)
    PROVE  c.dir = f.dir /\ c.buf = buf /\ c.short = short /\ c.pos = pos /\ c.back = back /\ c.blk = blk
  BY DEF Changed

\* The activation behind an entry whose record has become r (ProcessEntry).
LEMMA FrameProcessed ==
    ASSUME NEW f \in Frames, NEW x, NEW r
    PROVE  [f EXCEPT !.buf[x] = r, !.pos = @ + 1, !.back = FALSE]
             = Changed(f, [f.buf EXCEPT ![x] = r], f.short, f.pos + 1, FALSE, f.blk)
<1>1. PICK d, b, s, p, k, l : f = [dir |-> d, buf |-> b, short |-> s, pos |-> p, back |-> k, blk |-> l]
  BY DEF Frames
<1>2. f.dir = d /\ f.buf = b /\ f.short = s /\ f.pos = p /\ f.back = k /\ f.blk = l
  BY <1>1
<1>3. PICK c : c = [b EXCEPT ![x] = r]
  OBVIOUS
<1>4. PICK g : g = [f EXCEPT !.buf = c]
  OBVIOUS
<1>5. g = [dir |-> d, buf |-> c, short |-> s, pos |-> p, back |-> k, blk |-> l]
  BY <1>1, <1>4
<1>6. PICK q : q = f.pos + 1
  OBVIOUS
<1>7. PICK h : h = [g EXCEPT !.pos = q]
  OBVIOUS
<1>8. h = [dir |-> d, buf |-> c, short |-> s, pos |-> q, back |-> k, blk |-> l]
  BY <1>5, <1>7
<1>9. PICK no : no = FALSE
  OBVIOUS
<1>10. [h EXCEPT !.back = no] = [dir |-> d, buf |-> c, short |-> s, pos |-> q, back |-> no, blk |-> l]
  BY <1>8
<1>11. g.pos = f.pos
  BY <1>2, <1>5
<1>12. [f EXCEPT !.buf[x] = r, !.pos = @ + 1, !.back = FALSE] = [h EXCEPT !.back = FALSE]
  BY <1>2, <1>3, <1>4, <1>6, <1>7, <1>11, Zenon
<1> QED
  BY <1>2, <1>3, <1>6, <1>9, <1>10, <1>12, Zenon DEF Changed

LEMMA EntryProcessed ==
    ASSUME ProcessEntry, Top \in Frames
    PROVE  stack' = <<Changed(Top, [Top.buf EXCEPT ![Current] = Renumbered(CurrentEntry)], Top.short,
                              Top.pos + 1, FALSE, Top.blk)>> \o Tail(stack)
<1>1. \A f \in Frames : \A x, r :
         [f EXCEPT !.buf[x] = r, !.pos = @ + 1, !.back = FALSE]
           = Changed(f, [f.buf EXCEPT ![x] = r], f.short, f.pos + 1, FALSE, f.blk)
  BY FrameProcessed
<1>2. PICK f, x, r : f \in Frames /\ f = Top /\ x = Current /\ r = Renumbered(CurrentEntry)
  OBVIOUS
<1>3. stack' = <<[f EXCEPT !.buf[x] = r, !.pos = @ + 1, !.back = FALSE]>> \o Tail(stack)
  BY <1>2, Zenon DEF ProcessEntry
<1> QED
  BY <1>1, <1>2, <1>3, Zenon

LEMMA FrameFields ==
    ASSUME NEW f \in Frames
    PROVE  f.dir \in Dir /\ f.buf \in Bufs /\ f.short \in BOOLEAN /\ f.pos \in Nat /\ f.back \in BOOLEAN /\ f.blk \in Nat
  BY DEF Frames, Bufs

LEMMA Single ==
    ASSUME NEW F, NEW a \in F
    PROVE  \E q \in Seq(F) : q = <<a>> /\ Len(q) = 1 /\ q[1] = a
<1>1. <<a>> \in Seq(F)
  OBVIOUS
<1>2. Len(<<a>>) = 1 /\ <<a>>[1] = a
  OBVIOUS
<1> QED
  BY <1>1, <1>2

LEMMA Replaced ==
    ASSUME NEW F, NEW s \in Seq(F), s # <<>>, NEW a \in F
    PROVE  /\ <<a>> \o Tail(s) \in Seq(F)
           /\ Len(<<a>> \o Tail(s)) = Len(s) /\ Len(s) \in Nat /\ Len(s) >= 1
           /\ (<<a>> \o Tail(s))[1] = a /\ s[1] \in F /\ Head(s) = s[1]
           /\ \A i \in 2 .. Len(s) : (<<a>> \o Tail(s))[i] = s[i]
<1>1. Len(s) \in Nat /\ Len(s) >= 1 /\ s[1] \in F
  BY EmptySeq, LenProperties, ElementOfSeq
<1>2. PICK r \in Seq(F) : r = Tail(s) /\ Len(r) = Len(s) - 1 /\ \A i \in 1 .. Len(r) : r[i] = s[i + 1]
  BY HeadTailProperties
<1>3. PICK q \in Seq(F) : q = <<a>> /\ Len(q) = 1 /\ q[1] = a
  BY Single
<1>4. /\ q \o r \in Seq(F) /\ Len(q \o r) = Len(q) + Len(r)
      /\ \A i \in 1 .. Len(q) + Len(r) : (q \o r)[i] = IF i <= Len(q) THEN q[i] ELSE r[i - Len(q)]
  BY ConcatProperties
<1>5. \A i \in 2 .. Len(s) : (q \o r)[i] = s[i]
  <2> TAKE i \in 2 .. Len(s)
  <2>1. i \in 1 .. Len(q) + Len(r) /\ ~(i <= Len(q)) /\ i - Len(q) \in 1 .. Len(r) /\ (i - Len(q)) + 1 = i
    BY <1>1, <1>2, <1>3
  <2> QED
    BY <1>2, <1>4, <2>1
<1>6. (q \o r)[1] = a
  <2>1. 1 \in 1 .. Len(q) + Len(r) /\ 1 <= Len(q)
    BY <1>1, <1>2, <1>3
  <2> QED
    BY <1>3, <1>4, <2>1
<1>7. Head(s) = s[1]
  OBVIOUS
<1> QED
  BY <1>1, <1>2, <1>3, <1>4, <1>5, <1>6, <1>7

LEMMA Pushed ==
    ASSUME NEW F, NEW s \in Seq(F), s # <<>>, NEW a \in F, NEW b \in F
    PROVE  LET r == <<a>> \o <<b>> \o Tail(s)
           IN /\ r \in Seq(F) /\ Len(r) = Len(s) + 1 /\ Len(s) \in Nat /\ Len(s) >= 1
              /\ r[1] = a /\ r[2] = b /\ s[1] \in F /\ Head(s) = s[1]
              /\ \A i \in 3 .. Len(s) + 1 : r[i] = s[i - 1]
<1>1. PICK t \in Seq(F) :
         /\ t = <<b>> \o Tail(s) /\ Len(t) = Len(s) /\ t[1] = b /\ s[1] \in F /\ Head(s) = s[1]
         /\ Len(s) \in Nat /\ Len(s) >= 1
         /\ \A i \in 2 .. Len(s) : t[i] = s[i]
  <2>1. /\ <<b>> \o Tail(s) \in Seq(F)
        /\ Len(<<b>> \o Tail(s)) = Len(s) /\ Len(s) \in Nat /\ Len(s) >= 1
        /\ (<<b>> \o Tail(s))[1] = b /\ s[1] \in F /\ Head(s) = s[1]
        /\ \A i \in 2 .. Len(s) : (<<b>> \o Tail(s))[i] = s[i]
    BY Replaced
  <2> QED
    BY <2>1, Zenon
<1>2. PICK q \in Seq(F) : q = <<a>> /\ Len(q) = 1 /\ q[1] = a
  BY Single
<1>3. /\ q \o t \in Seq(F) /\ Len(q \o t) = Len(q) + Len(t)
      /\ \A i \in 1 .. Len(q) + Len(t) : (q \o t)[i] = IF i <= Len(q) THEN q[i] ELSE t[i - Len(q)]
  BY ConcatProperties
<1>4. <<a>> \o <<b>> \o Tail(s) = q \o t
  <2>1. <<a>> \in Seq(F) /\ <<b>> \in Seq(F) /\ Tail(s) \in Seq(F)
    BY HeadTailProperties
  <2> QED
    BY <1>1, <1>2, <2>1, ConcatAssociative
<1>5. \A i \in 3 .. Len(s) + 1 : (q \o t)[i] = s[i - 1]
  <2> TAKE i \in 3 .. Len(s) + 1
  <2>1. i \in 1 .. Len(q) + Len(t) /\ ~(i <= Len(q)) /\ i - Len(q) \in 2 .. Len(s) /\ i - Len(q) = i - 1
    BY <1>1, <1>2
  <2> QED
    BY <1>1, <1>3, <2>1
<1>6. (q \o t)[1] = a /\ (q \o t)[2] = b
  <2>1. /\ 1 \in 1 .. Len(q) + Len(t) /\ 1 <= Len(q)
        /\ 2 \in 1 .. Len(q) + Len(t) /\ ~(2 <= Len(q)) /\ 2 - Len(q) = 1
    BY <1>1, <1>2
  <2> QED
    BY <1>1, <1>2, <1>3, <2>1
<1> QED
  BY <1>1, <1>2, <1>3, <1>4, <1>5, <1>6

-----------------------------------------------------------------------------
(* An image the sanity pass refuses.                                       *)

\* The entry of the root that says it is a directory, at p: no activation gets
\* past it, and all of them are of the root.
Refused(p) ==
    LET e == EntriesOf(Root)[p] IN e \notin Dots /\ FileType[e] = "dir" /\ Slot[e] # DirSlot[Root]

ImageBuf == [x \in Range(EntriesOf(Root)) |-> Image.entry[x]]
RootFrame(f, p) ==
    f.dir = Root /\ f.pos \in 1 .. p /\ (f.pos = p => ~f.back) /\ f.buf = ImageBuf

NotDirStack ==
    \E p \in 1 .. Len(EntriesOf(Root)) :
        /\ Refused(p)
        /\ pc = "entry" => /\ stack # <<>> /\ stack \in Seq(Frames)
                           /\ \A i \in 1 .. Len(stack) : RootFrame(stack[i], p)

\* A run gets no further than the first if, which writes nothing.
Untouched ==
    /\ disk = Image
    /\ pc \in {"off", "phase", "entry", "write", "bitmap"}
    /\ pc # "off" =>
          /\ damage \in {"count", "notdir"}
          /\ phase = UNSET /\ no_write_fixup_state = UNSET
          /\ ipg = OldIpg /\ newIpg = TheNewIpg
    /\ pc \in {"write", "bitmap"} => damage = "count"
    /\ pc = "bitmap" => sb = Image.sb[0]
    /\ damage = "notdir" => NotDirStack

DamagedInv == damage \in Damage /\ (damage # "none" => Untouched)

LEMMA ImageKept == UNCHANGED damage => Image' = Image /\ ImageBuf' = ImageBuf
  BY DEF Image, ImageBuf

LEMMA ImageFields ==
    /\ Image.magic = UNSET /\ Image.sb[0].ipg = OldIpg
    /\ Image.sb[0].count = OldIpg * Groups + IF damage = "count" THEN 1 ELSE 0
    /\ \A d \in Dir : Image.short[d] = TRUE
    /\ \A e \in Entry : Image.entry[e] = [inode |-> Number(e, OldIpg), high |-> FALSE]
  BY LayoutAssumption DEF Image, Number

\* The activation of the root on the image as it was made.
LEMMA RootFrameStarts ==
    ASSUME disk = Image, NEW p \in 1 .. Len(EntriesOf(Root))
    PROVE  Frame(Root) \in Frames /\ RootFrame(Frame(Root), p)
<1>1. Root \in Dir
  BY TreeAssumption
<1>2. /\ Frame(Root).dir = Root /\ Frame(Root).pos = 1 /\ Frame(Root).back = FALSE
      /\ Frame(Root).buf = ImageBuf
  BY DEF Frame, ImageBuf
<1>3. ImageBuf \in [Range(EntriesOf(Root)) -> Record]
  <2>1. ASSUME NEW x \in Range(EntriesOf(Root)) PROVE Image.entry[x] \in Record
    <3>1. x \in Entry
      BY <1>1, Entries
    <3>2. Number(x, OldIpg) \in Int
      BY <3>1, SlotOfNumber
    <3> QED
      BY <3>1, <3>2, ImageFields, RecordMade
  <2> QED
    BY <2>1 DEF ImageBuf
<1>4. disk.short[Root] \in BOOLEAN
  BY <1>1, ImageFields
<1>5. Frame(Root) \in Frames
  BY <1>1, <1>3, <1>4 DEF Frame, Frames, ImageBuf
<1>6. 1 \in 1 .. p
  BY <1>1, Entries
<1> QED
  BY <1>2, <1>5, <1>6 DEF RootFrame

\* At the refused entry there is nothing to recurse into, and it has to be (NotADirectory).
LEMMA RefusedStops ==
    ASSUME Untouched, damage = "notdir", pc = "entry", NEW p \in 1 .. Len(EntriesOf(Root)), Refused(p),
           stack # <<>>, stack \in Seq(Frames), RootFrame(stack[1], p), Top.pos = p
    PROVE  MustRecurse /\ DirAt(CurrentEntry.inode) = {} /\ ~Top.back
<1>1. Root \in Dir /\ Top = stack[1]
  BY TreeAssumption DEF Top
<1>2. PICK e \in Range(EntriesOf(Root)) : e = EntriesOf(Root)[p] /\ e \in Entry
  BY <1>1, Entries
<1>3. Current = e /\ CurrentEntry = Image.entry[e] /\ ~Top.back
  BY <1>1, <1>2 DEF Current, CurrentEntry, RootFrame, ImageBuf
<1>4. CurrentEntry.inode = Number(e, OldIpg) /\ ipg = OldIpg /\ phase = UNSET
  <2>1. CurrentEntry = [inode |-> Number(e, OldIpg), high |-> FALSE]
    BY <1>2, <1>3, ImageFields
  <2> QED
    BY <2>1 DEF Untouched
<1>5. SlotOf(CurrentEntry.inode, ipg) = Slot[e]
  BY <1>2, <1>4, SlotOfNumber
<1>6. DirAt(CurrentEntry.inode) = {}
  BY <1>2, <1>5 DEF DirAt, Refused
<1>7. MustRecurse
  BY <1>2, <1>3, <1>4 DEF MustRecurse, is_entry_dir, Refused, UNSET, UPDATING_INUMS
<1> QED
  BY <1>3, <1>6, <1>7

\* The activations stay before it.
LEMMA NotDirKept ==
    ASSUME Untouched, damage = "notdir", pc = "entry", UNCHANGED damage, Recurse \/ ProcessEntry
    PROVE  pc' = "entry" /\ NotDirStack'
<1>1. PICK p \in 1 .. Len(EntriesOf(Root)) :
         Refused(p) /\ stack # <<>> /\ stack \in Seq(Frames) /\ \A i \in 1 .. Len(stack) : RootFrame(stack[i], p)
  BY DEF Untouched, NotDirStack
<1>2. Root \in Dir /\ Top = stack[1] /\ Len(stack) \in Nat /\ Len(stack) >= 1 /\ Top \in Frames
  BY <1>1, TreeAssumption, Replaced DEF Top
<1>3. RootFrame(Top, p) /\ p \in Nat
  BY <1>1, <1>2, Entries
<1>4. \A f : RootFrame(f, p) => RootFrame(f, p)'
  BY ImageKept DEF RootFrame
<1>5. pc' = "entry"
  BY DEF Recurse, ProcessEntry
<1>6. CASE Recurse
  <2>1. PICK d \in DirAt(CurrentEntry.inode) :
           stack' = <<Frame(d)>> \o <<[Top EXCEPT !.back = TRUE]>> \o Tail(stack)
    BY <1>6 DEF Recurse
  <2>2. d = Root
    BY <2>1 DEF DirAt
  <2>3. Frame(Root) \in Frames /\ RootFrame(Frame(Root), p)
    BY RootFrameStarts DEF Untouched
  <2>4. PICK b : b = [Top EXCEPT !.back = TRUE]
    OBVIOUS
  <2>5. b \in Frames /\ b.dir = Top.dir /\ b.pos = Top.pos /\ b.buf = Top.buf
    BY <1>2, <2>4 DEF Frames
  <2>6. Top.pos # p
    BY <1>1, <1>2, <1>3, <2>1, RefusedStops
  <2>7. RootFrame(b, p)
    BY <1>3, <2>5, <2>6 DEF RootFrame
  <2>8. /\ stack' \in Seq(Frames) /\ Len(stack') = Len(stack) + 1 /\ stack'[1] = Frame(Root) /\ stack'[2] = b
        /\ \A i \in 3 .. Len(stack) + 1 : stack'[i] = stack[i - 1]
    <3>1. PICK a \in Frames : a = Frame(Root)
      BY <2>3
    <3>2. stack' = <<a>> \o <<b>> \o Tail(stack)
      BY <2>1, <2>2, <2>4, <3>1
    <3> QED
      BY <1>1, <2>5, <3>1, <3>2, Pushed
  <2>9. ASSUME NEW i \in 1 .. Len(stack') PROVE RootFrame(stack'[i], p)
    <3>1. i = 1 \/ i = 2 \/ (i \in 3 .. Len(stack) + 1 /\ i - 1 \in 1 .. Len(stack))
      BY <1>2, <2>8
    <3> QED
      BY <1>1, <2>3, <2>7, <2>8, <3>1
  <2>10. stack' # <<>>
    BY <1>2, <2>8, EmptySeq
  <2> QED
    BY <1>1, <1>4, <1>5, <2>8, <2>9, <2>10 DEF NotDirStack, Refused
<1>7. CASE ProcessEntry
  <2>1. Top.pos # p
    BY <1>1, <1>2, <1>3, <1>7, RefusedStops DEF ProcessEntry
  <2>2. Renumbered(CurrentEntry) = CurrentEntry
    BY DEF Untouched, Renumbered, UNSET, MARKING_INUMS, UPDATING_INUMS
  <2>3. [Top.buf EXCEPT ![Current] = Renumbered(CurrentEntry)] = Top.buf
    BY <1>3, <2>2 DEF CurrentEntry, RootFrame, ImageBuf
  <2>4. PICK b : b = Changed(Top, Top.buf, Top.short, Top.pos + 1, FALSE, Top.blk)
    OBVIOUS
  <2>5. stack' = <<b>> \o Tail(stack)
    BY <1>2, <1>7, <2>3, <2>4, EntryProcessed
  <2>11. Top.buf \in Bufs /\ Top.short \in BOOLEAN /\ Top.pos + 1 \in Nat /\ FALSE \in BOOLEAN /\ Top.blk \in Nat
    BY <1>2, FrameFields
  <2>12. b \in Frames
    BY <1>2, <2>4, <2>11, FrameChanged
  <2>6. b \in Frames /\ b.dir = Top.dir /\ b.pos = Top.pos + 1 /\ b.buf = Top.buf /\ b.back = FALSE
    BY <2>4, <2>12 DEF Changed
  <2>7. RootFrame(b, p)
    BY <1>3, <2>1, <2>6 DEF RootFrame
  <2>9. /\ stack' \in Seq(Frames) /\ Len(stack') = Len(stack) /\ stack'[1] = b
        /\ \A i \in 2 .. Len(stack) : stack'[i] = stack[i]
    BY <1>1, <2>5, <2>6, Replaced
  <2>10. ASSUME NEW i \in 1 .. Len(stack') PROVE RootFrame(stack'[i], p)
    <3>1. i = 1 \/ (i \in 2 .. Len(stack) /\ i \in 1 .. Len(stack))
      BY <1>2, <2>9
    <3> QED
      BY <1>1, <2>7, <2>9, <3>1
  <2>13. stack' # <<>>
    BY <1>2, <2>9, EmptySeq
  <2> QED
    BY <1>1, <1>4, <1>5, <2>9, <2>10, <2>13 DEF NotDirStack, Refused
<1> QED
  BY <1>5, <1>6, <1>7

LEMMA InitDamaged == Init => DamagedInv
<1> SUFFICES ASSUME Init PROVE DamagedInv
  OBVIOUS
<1>1. damage \in Damage /\ disk = Image /\ pc = "off"
  BY DEF Init
<1>2. ASSUME damage = "notdir" PROVE NotDirStack
  <2>1. Root \in Dir
    BY TreeAssumption
  <2>2. PICK e \in Range(EntriesOf(Root)) : e \notin Dots /\ FileType[e] = "dir" /\ Slot[e] # DirSlot[Root]
    BY <1>1, <1>2, DamageAssumption
  <2>3. PICK p \in 1 .. Len(EntriesOf(Root)) : EntriesOf(Root)[p] = e
    BY <2>1, Entries
  <2>4. Refused(p)
    BY <2>2, <2>3 DEF Refused
  <2> QED
    BY <1>1, <2>4 DEF NotDirStack
<1> QED
  BY <1>1, <1>2 DEF DamagedInv, Untouched

\* With one inode too many the counts do not add up (CountIsSane).
LEMMA CountRefused ==
    ASSUME damage = "count", sb = Image.sb[0], newIpg = TheNewIpg
    PROVE  ~CountIsSane
<1>1. sb.ipg = OldIpg /\ sb.count = OldIpg * Groups + 1
  BY ImageFields
<1>2. OldIpg \in Int /\ TheNewIpg \in Int /\ Groups \in Int
  BY Sizes, Aligned
<1>3. \A a, b, c \in Int : (a * c + 1) + c * (b - a) # b * c
  OBVIOUS
<1> QED
  BY <1>1, <1>2, <1>3 DEF CountIsSane, NewInodes

LEMMA DamageKept == [Next]_vars => damage' = damage
  BY DEF Next, vars, Step, Start, NextPhase, Recurse, NotADirectory, ProcessEntry, LastEntry, WriteBlock,
         CheckBitmap, SanityFails, UpdateSuperblock, WriteSuperblock, WriteDescriptors, SuperblocksWritten,
         SetMagic, SetLowBit, Stop, Terminating, Abort

LEMMA NextDamaged == DamagedInv /\ [Next]_vars => DamagedInv'
<1> SUFFICES ASSUME damage # "none", damage \in Damage, Untouched, [Next]_vars PROVE damage' = damage /\ Untouched'
  BY DamageKept DEF DamagedInv
<1>11. damage' = damage
  BY DamageKept
<1>12. Image' = Image
  BY <1>11, ImageKept
<1>13. ASSUME damage = "notdir", pc' # "entry" PROVE NotDirStack'
  BY <1>13 DEF Untouched, NotDirStack, Refused
<1>1. ASSUME NEW n \in BOOLEAN, Start(n) PROVE Untouched'
  <2>1. CASE damage = "recover"
    BY <1>1, <1>11, <1>12, <2>1 DEF Start, Untouched
  <2>2. CASE damage # "recover"
    <3>1. damage \in {"count", "notdir"}
      BY <2>2, LayoutAssumption
    <3>2. disk.sb[0].ipg = OldIpg
      BY ImageFields DEF Untouched
    <3>3. pc' = "phase" /\ phase' = UNSET /\ no_write_fixup_state' = UNSET /\ ipg' = OldIpg /\ newIpg' = TheNewIpg
          /\ disk' = disk
      BY <1>1, <2>2, <3>2 DEF Start, TheNewIpg
    <3>4. damage = "notdir" => NotDirStack'
      BY <1>13, <3>3
    <3> QED
      BY <1>11, <1>12, <3>1, <3>3, <3>4 DEF Untouched
  <2> QED
    BY <2>1, <2>2
<1>2. CASE NextPhase
  <2>1. get_fs_fixup_state = UNSET /\ phase = UNSET
    BY <1>2, ImageFields DEF NextPhase, Untouched, get_fs_fixup_state
  <2>2. pc' = "entry" /\ stack' = <<Frame(Root)>> /\ UNCHANGED <<phase, disk, no_write_fixup_state, ipg, newIpg, sb>>
    BY <1>2, <2>1 DEF NextPhase, UNSET, UPDATING_SB
  <2>3. ASSUME damage = "notdir" PROVE NotDirStack'
    <3>1. PICK p \in 1 .. Len(EntriesOf(Root)) : Refused(p)
      BY <2>3 DEF Untouched, NotDirStack
    <3>2. Frame(Root) \in Frames /\ RootFrame(Frame(Root), p)
      BY <3>1, RootFrameStarts DEF Untouched
    <3>3. stack' \in Seq(Frames) /\ Len(stack') = 1 /\ stack'[1] = Frame(Root)
      BY <2>2, <3>2, Single
    <3>4. \A f : RootFrame(f, p) => RootFrame(f, p)'
      BY <1>11, ImageKept DEF RootFrame
    <3>5. \A i \in 1 .. Len(stack') : i = 1
      BY <3>3
    <3>6. stack' # <<>>
      BY <3>3, EmptySeq
    <3> QED
      BY <3>1, <3>2, <3>3, <3>4, <3>5, <3>6 DEF NotDirStack, Refused
  <2> QED
    BY <1>2, <1>11, <1>12, <2>2, <2>3 DEF Untouched, NextPhase
<1>3. CASE Recurse \/ ProcessEntry
  <2>1. pc = "entry" /\ pc' = "entry" /\ UNCHANGED <<phase, disk, no_write_fixup_state, ipg, newIpg>>
    BY <1>3 DEF Recurse, ProcessEntry, AtEntry
  <2>2. damage = "notdir" => NotDirStack'
    BY <1>3, <1>11, <2>1, NotDirKept
  <2> QED
    BY <1>11, <1>12, <2>1, <2>2 DEF Untouched
<1>4. CASE NotADirectory \/ SanityFails \/ Stop
  <2>1. pc' = "off" /\ disk' = disk
    BY <1>4 DEF NotADirectory, SanityFails, Stop, Abort
  <2>2. damage = "notdir" => NotDirStack'
    BY <1>13, <2>1
  <2> QED
    BY <1>11, <1>12, <2>1, <2>2 DEF Untouched
<1>5. CASE LastEntry
  <2>1. pc = "entry" /\ pc' = "write" /\ UNCHANGED <<phase, disk, no_write_fixup_state, ipg, newIpg>>
    BY <1>5 DEF LastEntry
  <2>2. damage # "notdir"
    <3> SUFFICES ASSUME damage = "notdir" PROVE FALSE
      OBVIOUS
    <3>1. PICK p \in 1 .. Len(EntriesOf(Root)) :
             stack # <<>> /\ stack \in Seq(Frames) /\ \A i \in 1 .. Len(stack) : RootFrame(stack[i], p)
      BY <2>1 DEF Untouched, NotDirStack
    <3>2. Root \in Dir /\ Top = stack[1] /\ Len(stack) \in Nat /\ Len(stack) >= 1
      BY <3>1, TreeAssumption, Replaced DEF Top
    <3>3. Top.dir = Root /\ Top.pos \in 1 .. p /\ Len(EntriesOf(Root)) \in Nat
      BY <3>1, <3>2, Entries DEF RootFrame
    <3> QED
      BY <1>5, <3>1, <3>3 DEF LastEntry
  <2>3. damage = "count"
    BY <2>1, <2>2 DEF Untouched
  <2> QED
    BY <1>11, <1>12, <2>1, <2>3 DEF Untouched
<1>6. CASE WriteBlock
  <2>1. pc = "write" /\ damage = "count" /\ phase = UNSET
    BY <1>6 DEF WriteBlock, Untouched
  <2>2. disk' = disk /\ UNCHANGED <<phase, no_write_fixup_state, ipg, newIpg>>
    BY <1>6, <2>1 DEF WriteBlock, Write, no_write
  <2>3. \/ pc' = pc \/ pc' = "entry"
        \/ pc' = "bitmap" /\ sb' = disk.sb[0]
    BY <1>6, <2>1 DEF WriteBlock
  <2> QED
    BY <1>11, <1>12, <2>1, <2>2, <2>3 DEF Untouched
<1>7. CASE CheckBitmap
  <2>1. pc = "bitmap" /\ damage = "count" /\ phase = UNSET
    BY <1>7 DEF CheckBitmap, Untouched
  <2>2. disk' = disk /\ UNCHANGED <<pc, phase, no_write_fixup_state, ipg, newIpg, sb>>
    BY <1>7, <2>1 DEF CheckBitmap, Write, no_write
  <2> QED
    BY <1>11, <1>12, <2>1, <2>2 DEF Untouched
<1>8. CASE UpdateSuperblock
  <2>1. damage = "count" /\ sb = Image.sb[0] /\ newIpg = TheNewIpg
    BY <1>8 DEF UpdateSuperblock, Untouched
  <2> QED
    BY <1>8, <2>1, CountRefused DEF UpdateSuperblock
<1>9. CASE WriteSuperblock \/ WriteDescriptors \/ SuperblocksWritten \/ SetMagic \/ SetLowBit
  BY <1>9 DEF WriteSuperblock, WriteDescriptors, SuperblocksWritten, SetMagic, SetLowBit, Untouched
<1>10. CASE Terminating \/ UNCHANGED vars
  <2>1. UNCHANGED <<disk, pc, phase, no_write_fixup_state, ipg, newIpg, sb, stack>>
    BY <1>10 DEF Terminating, vars, toolVars
  <2>2. damage = "notdir" => NotDirStack'
    <3>1. \A f, p : RootFrame(f, p) => RootFrame(f, p)'
      BY <1>11, ImageKept DEF RootFrame
    <3> QED
      BY <2>1, <3>1 DEF Untouched, NotDirStack, Refused
  <2> QED
    BY <1>11, <1>12, <2>1, <2>2 DEF Untouched
<1> QED
  BY <1>11, <1>1, <1>2, <1>3, <1>4, <1>5, <1>6, <1>7, <1>8, <1>9, <1>10 DEF Next, Step

\* An image the sanity pass refuses is never written to, wherever the tool is
\* stopped and however often it is run (ext4fixup_internal, critical_error).
THEOREM DamagedIsUntouchedAlways == Spec => []DamagedIsUntouched
<1>1. DamagedInv => DamagedIsUntouched
  BY DEF DamagedInv, Untouched, DamagedIsUntouched
<1> QED
  BY <1>1, InitDamaged, NextDamaged, PTL DEF Spec

-----------------------------------------------------------------------------
(* What is on the disk, between any two writes.                            *)

Clean(d) == ~disk.short[d] /\ \A x \in Range(EntriesOf(d)) : ~disk.entry[x].high
Marked(d) == \A x \in Range(EntriesOf(d)) : disk.entry[x].high

SuperblockOf(n, low) ==
    [ipg |-> n, count |-> n * Groups, free |-> (FreeInodes + n - OldIpg) * Groups, low |-> low]

Disk(magic, entry, short, sbs, bg, stray) ==
    [magic |-> magic, entry |-> entry, short |-> short, sb |-> sbs, bg |-> bg, stray |-> stray]

DiskTypes ==
    /\ disk = Disk(disk.magic, disk.entry, disk.short, disk.sb, disk.bg, disk.stray)
    /\ disk.magic \in UNSET .. UPDATING_SB
    /\ disk.entry \in [Entry -> Record]
    /\ disk.short \in [Dir -> BOOLEAN]
    /\ disk.stray \in [Group -> BOOLEAN]
    /\ DOMAIN disk.sb = Super /\ DOMAIN disk.bg = Super

\* The numbers count by the group size that magic and high bit say.
NumbersCount ==
    \A e \in Entry :
        /\ disk.magic = UNSET => ~disk.entry[e].high
        /\ disk.magic = UPDATING_SB => ~disk.entry[e].high
        /\ disk.entry[e].inode =
              Number(e, IF disk.magic \in {UNSET, MARKING_INUMS} \/ disk.entry[e].high
                        THEN disk.sb[0].ipg ELSE TheNewIpg)

BottomUp ==
    /\ disk.magic = UPDATING_INUMS =>
          \A e \in Entry, d \in Dir : ~disk.entry[e].high /\ Names(e, d) => Clean(d)
    /\ disk.magic = UPDATING_SB => \A d \in Dir : Clean(d)

\* The superblock counts by the old or the new group size, and bitmaps are
\* cleared before it counts by the new one.
PrimarySound ==
    /\ disk.sb[0].ipg \in {OldIpg, TheNewIpg}
    /\ disk.sb[0].low \in BOOLEAN
    /\ disk.sb[0] = SuperblockOf(disk.sb[0].ipg, disk.sb[0].low)
    /\ disk.sb[0].ipg = TheNewIpg /\ TheNewIpg # OldIpg => \A g \in Group : ~disk.stray[g]

DiskInv == DiskTypes /\ NumbersCount /\ BottomUp /\ PrimarySound

-----------------------------------------------------------------------------
(* Where a run is.                                                         *)

Places == {"off", "phase", "entry", "write", "bitmap", "sb", "bg", "magic", "low", "done"}

RunInv ==
    /\ pc \in Places /\ n_flag \in BOOLEAN
    /\ pc \notin {"off", "done"} =>
          /\ newIpg = TheNewIpg
          /\ phase \in UNSET .. UPDATING_SB + 1
          /\ pc # "phase" => phase <= UPDATING_SB
    /\ pc \in {"entry", "write"} => phase \in {UNSET, MARKING_INUMS, UPDATING_INUMS}
    /\ pc \in {"bitmap", "sb", "bg"} => phase \in {UNSET, UPDATING_SB}
    /\ pc = "low" => ~n_flag

\* A run that writes: how far the image is and how far the run.
PhaseInv ==
    /\ pc = "phase" => IF phase > UPDATING_SB THEN disk.magic = UNSET ELSE phase <= disk.magic
    /\ pc \in {"entry", "write", "bitmap", "sb", "bg", "magic"} => disk.magic = phase
    /\ pc = "low" => disk.magic = StateAfter
    /\ pc \in {"phase", "entry", "write", "bitmap"} /\ phase <= UPDATING_SB => ipg = disk.sb[0].ipg
    /\ pc \in {"sb", "bg", "magic", "low"} /\ phase < UPDATING_SB => ipg = disk.sb[0].ipg
    /\ pc = "magic" /\ phase = MARKING_INUMS => \A d \in Dir : Marked(d)
    /\ pc = "magic" /\ phase = UPDATING_INUMS => \A d \in Dir : Clean(d)

\* The last phase: bitmaps, then the superblocks.
CopiesWritten(n) == \A s \in Super : s # 0 /\ s < n => disk.sb[s] = SuperblockOf(TheNewIpg, FALSE)

SuperblockInv ==
    phase = UPDATING_SB /\ pc \in {"bitmap", "sb", "bg", "magic", "low"} =>
        /\ group \in 0 .. Groups
        /\ \A d \in Dir : Clean(d)
        /\ pc = "bitmap" =>
              /\ sb = disk.sb[0]
              /\ ipg # TheNewIpg => \A g \in Group : g < group => ~disk.stray[g]
        /\ pc \in {"sb", "bg"} =>
              /\ sb \in {SuperblockOf(TheNewIpg, TRUE), SuperblockOf(TheNewIpg, FALSE)}
              /\ TheNewIpg # OldIpg => \A g \in Group : ~disk.stray[g]
              /\ group > 0 \/ pc = "bg" => disk.sb[0].ipg = TheNewIpg
              /\ CopiesWritten(IF pc = "bg" THEN group + 1 ELSE group)
        /\ pc = "bg" => group \in Super
        /\ pc \in {"magic", "low"} => disk.sb[0].ipg = TheNewIpg /\ CopiesWritten(Groups)

FinishedInv ==
    pc = "done" \/ (pc = "phase" /\ phase > UPDATING_SB) =>
        /\ disk.magic = UNSET
        /\ disk.sb[0] = SuperblockOf(TheNewIpg, FALSE) /\ CopiesWritten(Groups)
        /\ \A d \in Dir : Clean(d)

-----------------------------------------------------------------------------
(* The activations of recurse_dir.                                         *)

IsFrame(f) ==
    /\ f.buf \in [Range(EntriesOf(f.dir)) -> Record]
    /\ f.pos \in 1 .. Len(EntriesOf(f.dir)) + 1
    /\ f.blk \in 1 .. Len(Layout[f.dir])

\* Activation a was called for the entry b is at.
Linked(a, b) ==
    b.pos <= Len(EntriesOf(b.dir)) /\ Names(EntriesOf(b.dir)[b.pos], a.dir)

StackInv ==
    /\ stack # <<>> /\ stack \in Seq(Frames)
    /\ \A i \in 1 .. Len(stack) : IsFrame(stack[i])
    /\ stack[Len(stack)].dir = Root
    /\ \A i \in 1 .. Len(stack) - 1 : Linked(stack[i], stack[i + 1])
    /\ \A i \in 1 .. Len(stack) : i > 1 \/ pc = "entry" => stack[i].blk = 1
    /\ pc = "write" => stack[1].pos > Len(EntriesOf(stack[1].dir))

\* The directory that the top was called back from, if it was.
ReturnedFrom(d) ==
    /\ pc = "entry" /\ stack[1].back
    /\ stack[1].pos <= Len(EntriesOf(stack[1].dir))
    /\ Names(EntriesOf(stack[1].dir)[stack[1].pos], d)

Written(x) == pc = "write" /\ \E j \in 1 .. stack[1].blk - 1 : x \in Range(Layout[stack[1].dir][j])

MarkingFrame(f, S) ==
    /\ \A e \in Range(EntriesOf(f.dir)) : f.buf[e].inode = Number(e, disk.sb[0].ipg)
    /\ \A k \in 1 .. f.pos - 1 :
          /\ f.buf[EntriesOf(f.dir)[k]].high
          /\ \A d \in Dir : Names(EntriesOf(f.dir)[k], d) => d \in S

\* The marking pass: S has the directories it has left behind.
Marking(S) ==
    /\ \A d \in S : Marked(d)
    /\ \A d \in S, c \in Dir : (\E e \in Range(EntriesOf(d)) : Names(e, c)) => c \in S
    /\ \A i \in 1 .. Len(stack) : MarkingFrame(stack[i], S)
    /\ \A d \in Dir : ReturnedFrom(d) => d \in S
    /\ \A x \in Entry : Written(x) => disk.entry[x].high

UpdatingFrame(f) ==
    /\ \A e \in Range(EntriesOf(f.dir)) :
          /\ f.buf[e].inode = Number(e, IF f.buf[e].high THEN disk.sb[0].ipg ELSE TheNewIpg)
          /\ \A d \in Dir : ~f.buf[e].high /\ Names(e, d) => Clean(d)
    /\ \A k \in 1 .. f.pos - 1 : ~f.buf[EntriesOf(f.dir)[k]].high

\* The updating pass, which leaves out what an earlier one has updated.
Updating ==
    /\ \A i \in 1 .. Len(stack) : UpdatingFrame(stack[i])
    /\ \A d \in Dir : ReturnedFrom(d) => Clean(d)
    /\ pc = "write" => ~stack[1].short
    /\ \A x \in Entry : Written(x) => ~disk.entry[x].high

FramesInv ==
    pc \in {"entry", "write"} /\ phase # UNSET =>
        /\ StackInv
        /\ phase = MARKING_INUMS => \E S \in SUBSET Dir : Marking(S)
        /\ phase = UPDATING_INUMS => Updating

Progress == PhaseInv /\ SuperblockInv /\ FinishedInv /\ FramesInv

Sound == DiskInv /\ RunInv /\ (~n_flag => Progress)

FixupInv == damage = "none" => Sound

-----------------------------------------------------------------------------
(* A tool that stops where -d says only.                                   *)

LowBit ==
    /\ pc # "low" => (disk.sb[0].low <=> disk.magic # UNSET)
    /\ pc = "low" => /\ disk.sb[0].low <=> phase # UNSET
                     /\ phase = UNSET => \A e \in Entry : ~disk.entry[e].high
    /\ pc = "sb" /\ group = 0 /\ phase = UPDATING_SB /\ ~n_flag => (sb.low <=> disk.sb[0].low)

\* The free counts b are those of groups of n inodes.
Counted(b, n) == \A g \in Group : b[g] = FreeInodes + n - OldIpg

\* Between the primary superblock and its group descriptors.
BetweenWrites == pc = "bg" /\ group = 0 /\ phase = UPDATING_SB /\ ~n_flag

DescriptorInv ==
    /\ disk.bg \in [Super -> [Group -> Int]]
    /\ ~BetweenWrites => Counted(disk.bg[0], disk.sb[0].ipg)

CountsInv ==
    /\ pc \notin {"off", "done"} => bg_desc \in [Group -> Int]
    /\ pc \notin {"off", "done"} /\ phase < UPDATING_SB => Counted(bg_desc, ipg)
    /\ pc = "phase" /\ phase = UPDATING_SB => Counted(bg_desc, ipg)
    /\ phase = UPDATING_SB /\ pc = "bitmap" =>
          \A g \in Group : bg_desc[g] = FreeInodes + (IF g < group THEN TheNewIpg ELSE ipg) - OldIpg
    /\ phase = UPDATING_SB /\ pc \in {"sb", "bg"} =>
          Counted(bg_desc, TheNewIpg) /\ \A s \in Super : s < group => Counted(disk.bg[s], TheNewIpg)
    /\ \/ phase = UPDATING_SB /\ pc \in {"magic", "low"}
       \/ phase > UPDATING_SB /\ pc = "phase"
       \/ pc = "done"
       => \A s \in Super : Counted(disk.bg[s], TheNewIpg)

Bailed == LowBit /\ DescriptorInv /\ (~n_flag => CountsInv)

BailInv == damage = "none" => Bailed

-----------------------------------------------------------------------------
(* The writes, field by field.                                             *)

LEMMA DiskFields ==
    ASSUME NEW m, NEW e, NEW s, NEW b, NEW g, NEW t
    PROVE  LET d == Disk(m, e, s, b, g, t)
           IN  d.magic = m /\ d.entry = e /\ d.short = s /\ d.sb = b /\ d.bg = g /\ d.stray = t
  BY DEF Disk

LEMMA DiskWrites ==
    ASSUME DiskTypes, NEW v, NEW w
    PROVE  /\ [disk EXCEPT !.magic = v] = Disk(v, disk.entry, disk.short, disk.sb, disk.bg, disk.stray)
           /\ [disk EXCEPT !.entry = v, !.short = w] = Disk(disk.magic, v, w, disk.sb, disk.bg, disk.stray)
           /\ [disk EXCEPT !.sb = v] = Disk(disk.magic, disk.entry, disk.short, v, disk.bg, disk.stray)
           /\ [disk EXCEPT !.bg = v] = Disk(disk.magic, disk.entry, disk.short, disk.sb, v, disk.stray)
           /\ [disk EXCEPT !.stray = v] = Disk(disk.magic, disk.entry, disk.short, disk.sb, disk.bg, v)
<1>1. PICK m, e, s, b, g, t : disk = Disk(m, e, s, b, g, t)
  BY DEF DiskTypes
<1>2. disk.magic = m /\ disk.entry = e /\ disk.short = s /\ disk.sb = b /\ disk.bg = g /\ disk.stray = t
  BY <1>1, DiskFields
<1>3. [disk EXCEPT !.magic = v] = Disk(v, e, s, b, g, t)
  BY <1>1 DEF Disk
<1>4. [disk EXCEPT !.entry = v, !.short = w] = Disk(m, v, w, b, g, t)
  <2>1. PICK d : d = [disk EXCEPT !.entry = v]
    OBVIOUS
  <2>2. d = Disk(m, v, s, b, g, t)
    BY <1>1, <2>1 DEF Disk
  <2>3. [d EXCEPT !.short = w] = Disk(m, v, w, b, g, t)
    BY <2>2 DEF Disk
  <2> QED
    BY <2>1, <2>3, Zenon
<1>5. [disk EXCEPT !.sb = v] = Disk(m, e, s, v, g, t)
  BY <1>1 DEF Disk
<1>6. [disk EXCEPT !.bg = v] = Disk(m, e, s, b, v, t)
  BY <1>1 DEF Disk
<1>7. [disk EXCEPT !.stray = v] = Disk(m, e, s, b, g, v)
  BY <1>1 DEF Disk
<1> QED
  BY <1>2, <1>3, <1>4, <1>5, <1>6, <1>7, Zenon

\* What SetMagic writes.
LEMMA MagicWritten ==
    ASSUME DiskTypes, NEW v, disk' = [disk EXCEPT !.magic = v]
    PROVE  /\ disk'.magic = v
           /\ UNCHANGED <<disk.entry, disk.short, disk.sb, disk.bg, disk.stray>>
           /\ disk' = Disk(disk'.magic, disk'.entry, disk'.short, disk'.sb, disk'.bg, disk'.stray)
<1>1. disk' = Disk(v, disk.entry, disk.short, disk.sb, disk.bg, disk.stray)
  BY DiskWrites
<1> QED
  BY <1>1, DiskFields

\* What WriteBlock writes.
LEMMA BlockWritten ==
    ASSUME DiskTypes, NEW W, NEW f, NEW d, NEW v,
           disk' = [disk EXCEPT !.entry = [x \in Entry |-> IF x \in W THEN f[x] ELSE @[x]],
                                !.short[d] = v]
    PROVE  /\ disk'.entry = [x \in Entry |-> IF x \in W THEN f[x] ELSE disk.entry[x]]
           /\ disk'.short = [disk.short EXCEPT ![d] = v]
           /\ UNCHANGED <<disk.magic, disk.sb, disk.bg, disk.stray>>
           /\ disk' = Disk(disk'.magic, disk'.entry, disk'.short, disk'.sb, disk'.bg, disk'.stray)
<1>1. PICK e : e = [x \in Entry |-> IF x \in W THEN f[x] ELSE disk.entry[x]]
  OBVIOUS
<1>2. PICK s : s = [disk.short EXCEPT ![d] = v]
  OBVIOUS
<1>3. [disk EXCEPT !.entry = e].short = disk.short
  BY DEF DiskTypes, Disk
<1>4. disk' = [disk EXCEPT !.entry = e, !.short = s]
  BY <1>1, <1>2, <1>3, Zenon
<1>5. disk' = Disk(disk.magic, e, s, disk.sb, disk.bg, disk.stray)
  BY <1>4, DiskWrites
<1> QED
  BY <1>1, <1>2, <1>5, DiskFields

\* What WriteSuperblock writes.
LEMMA SuperblockWritten ==
    ASSUME DiskTypes, NEW i, NEW v, disk' = [disk EXCEPT !.sb[i] = v]
    PROVE  /\ disk'.sb = [disk.sb EXCEPT ![i] = v]
           /\ UNCHANGED <<disk.magic, disk.entry, disk.short, disk.bg, disk.stray>>
           /\ disk' = Disk(disk'.magic, disk'.entry, disk'.short, disk'.sb, disk'.bg, disk'.stray)
<1>1. PICK n : n = [disk.sb EXCEPT ![i] = v]
  OBVIOUS
<1>2. disk' = [disk EXCEPT !.sb = n]
  BY <1>1, Zenon
<1>3. disk' = Disk(disk.magic, disk.entry, disk.short, n, disk.bg, disk.stray)
  BY <1>2, DiskWrites
<1> QED
  BY <1>1, <1>3, DiskFields

\* What WriteDescriptors writes.
LEMMA DescriptorsWritten ==
    ASSUME DiskTypes, NEW i, NEW v, disk' = [disk EXCEPT !.bg[i] = v]
    PROVE  /\ disk'.bg = [disk.bg EXCEPT ![i] = v]
           /\ UNCHANGED <<disk.magic, disk.entry, disk.short, disk.sb, disk.stray>>
           /\ disk' = Disk(disk'.magic, disk'.entry, disk'.short, disk'.sb, disk'.bg, disk'.stray)
<1>1. PICK n : n = [disk.bg EXCEPT ![i] = v]
  OBVIOUS
<1>2. disk' = [disk EXCEPT !.bg = n]
  BY <1>1, Zenon
<1>3. disk' = Disk(disk.magic, disk.entry, disk.short, disk.sb, n, disk.stray)
  BY <1>2, DiskWrites
<1> QED
  BY <1>1, <1>3, DiskFields

\* What CheckBitmap writes.
LEMMA BitmapWritten ==
    ASSUME DiskTypes, NEW i, NEW v, disk' = [disk EXCEPT !.stray[i] = v]
    PROVE  /\ disk'.stray = [disk.stray EXCEPT ![i] = v]
           /\ UNCHANGED <<disk.magic, disk.entry, disk.short, disk.sb, disk.bg>>
           /\ disk' = Disk(disk'.magic, disk'.entry, disk'.short, disk'.sb, disk'.bg, disk'.stray)
<1>1. PICK n : n = [disk.stray EXCEPT ![i] = v]
  OBVIOUS
<1>2. disk' = [disk EXCEPT !.stray = n]
  BY <1>1, Zenon
<1>3. disk' = Disk(disk.magic, disk.entry, disk.short, disk.sb, disk.bg, n)
  BY <1>2, DiskWrites
<1> QED
  BY <1>1, <1>3, DiskFields

\* What SetLowBit writes.
LEMMA LowBitWritten ==
    ASSUME DiskTypes, NEW v, disk' = [disk EXCEPT !.sb[0].low = v]
    PROVE  /\ disk'.sb = [disk.sb EXCEPT ![0] = [disk.sb[0] EXCEPT !.low = v]]
           /\ UNCHANGED <<disk.magic, disk.entry, disk.short, disk.bg, disk.stray>>
           /\ disk' = Disk(disk'.magic, disk'.entry, disk'.short, disk'.sb, disk'.bg, disk'.stray)
<1>1. PICK p : p = [disk.sb[0] EXCEPT !.low = v]
  OBVIOUS
<1>2. disk' = [disk EXCEPT !.sb[0] = p]
  BY <1>1, Zenon
<1> QED
  BY <1>1, <1>2, SuperblockWritten

-----------------------------------------------------------------------------
(* The steps that leave the image alone.                                   *)

USE DEF UNSET, MARKING_INUMS, UPDATING_INUMS, UPDATING_SB

LEMMA RecordFields ==
    ASSUME NEW n, NEW h
    PROVE  [inode |-> n, high |-> h].inode = n /\ [inode |-> n, high |-> h].high = h
  OBVIOUS

LEMMA SuperblockFields ==
    ASSUME NEW n, NEW low
    PROVE  /\ SuperblockOf(n, low).ipg = n /\ SuperblockOf(n, low).low = low
           /\ SuperblockOf(n, low).count = n * Groups
           /\ SuperblockOf(n, low).free = (FreeInodes + n - OldIpg) * Groups
           /\ \A v : [SuperblockOf(n, low) EXCEPT !.low = v] = SuperblockOf(n, v)
  BY DEF SuperblockOf

LEMMA DiskKept == DiskInv /\ UNCHANGED disk => DiskInv'
  BY DEF DiskInv, DiskTypes, NumbersCount, BottomUp, Clean, PrimarySound

LEMMA MagicType == DiskInv => disk.magic \in 0 .. 3 /\ disk.magic \in Int
  BY DEF DiskInv, DiskTypes

LEMMA InitSound == Init /\ damage = "none" => Sound
<1> SUFFICES ASSUME Init, damage = "none" PROVE Sound
  OBVIOUS
<1>1. disk = Image /\ pc = "off" /\ n_flag = FALSE
  BY DEF Init
<1>2. DiskTypes
  <2>1. disk = Disk(disk.magic, disk.entry, disk.short, disk.sb, disk.bg, disk.stray)
    BY <1>1 DEF Image, Disk
  <2>2. ASSUME NEW e \in Entry PROVE disk.entry[e] \in Record
    BY <1>1, SlotOfNumber, ImageFields, RecordMade
  <2>3. disk.entry \in [Entry -> Record]
    BY <1>1, <2>2 DEF Image
  <2>4. disk.magic = UNSET /\ DOMAIN disk.sb = Super /\ DOMAIN disk.bg = Super
    BY <1>1 DEF Image
  <2>5. disk.short \in [Dir -> BOOLEAN] /\ disk.stray \in [Group -> BOOLEAN]
    BY <1>1 DEF Image
  <2> QED
    BY <2>1, <2>3, <2>4, <2>5 DEF DiskTypes
<1>3. NumbersCount /\ BottomUp
  <2>1. disk.magic = 0 /\ disk.sb[0].ipg = OldIpg
    BY <1>1, ImageFields
  <2>2. ASSUME NEW e \in Entry PROVE disk.entry[e].inode = Number(e, OldIpg) /\ ~disk.entry[e].high
    <3>1. disk.entry[e] = [inode |-> Number(e, OldIpg), high |-> FALSE]
      BY <1>1, ImageFields
    <3>2. disk.entry[e].inode = Number(e, OldIpg) /\ disk.entry[e].high = FALSE
      BY <3>1, RecordFields
    <3> QED
      BY <3>2
  <2>3. NumbersCount
    BY <2>1, <2>2 DEF NumbersCount
  <2>4. BottomUp
    BY <2>1 DEF BottomUp
  <2> QED
    BY <2>3, <2>4
<1>4. PrimarySound
  <2>1. 0 \in Super
    BY LayoutAssumption
  <2>2. disk.sb[0] = [ipg |-> OldIpg, count |-> OldIpg * Groups + 0, free |-> FreeInodes * Groups, low |-> FALSE]
    BY <1>1, <2>1 DEF Image
  <2>3. OldIpg * Groups + 0 = OldIpg * Groups /\ (FreeInodes + OldIpg - OldIpg) * Groups = FreeInodes * Groups
    BY Sizes
  <2>4. disk.sb[0] = SuperblockOf(OldIpg, FALSE)
    BY <2>2, <2>3, Zenon DEF SuperblockOf
  <2>5. disk.sb[0].ipg = OldIpg /\ disk.sb[0].low = FALSE
    <3>1. \A low : SuperblockOf(OldIpg, low).ipg = OldIpg /\ SuperblockOf(OldIpg, low).low = low
      BY SuperblockFields
    <3> QED
      BY <2>4, <3>1, Zenon
  <2> QED
    BY <2>4, <2>5 DEF PrimarySound
<1>5. RunInv
  BY <1>1 DEF RunInv, Places
<1>6. Progress
  BY <1>1 DEF Progress, PhaseInv, SuperblockInv, FinishedInv, FramesInv
<1> QED
  BY <1>2, <1>3, <1>4, <1>5, <1>6 DEF Sound, DiskInv

LEMMA StartKeeps ==
    ASSUME Sound, damage = "none", NEW n \in BOOLEAN, Start(n)
    PROVE  Sound'
<1>1. DiskInv' /\ DiskInv
  BY DiskKept DEF Sound, Start
<1>2. disk.sb[0].ipg \in {OldIpg, TheNewIpg}
  BY <1>1 DEF DiskInv, PrimarySound
<1>3. AlignUp(disk.sb[0].ipg, InodesPerBlock) = TheNewIpg
  BY <1>2, Aligned DEF TheNewIpg
<1>4. /\ pc' = "phase" /\ phase' = 0 /\ newIpg' = TheNewIpg /\ ipg' = disk'.sb[0].ipg /\ n_flag' \in BOOLEAN
      /\ disk' = disk
  BY <1>3 DEF Start
<1>5. RunInv'
  BY <1>4 DEF RunInv, Places
<1>6. Progress'
  BY <1>1, <1>4, MagicType DEF Progress, PhaseInv, SuperblockInv, FinishedInv, FramesInv
<1> QED
  BY <1>1, <1>5, <1>6 DEF Sound

\* Out of everything: what is on the disk is all that is left.
LEMMA AbortKeeps ==
    ASSUME Sound, Abort
    PROVE  Sound'
<1>1. pc' = "off" /\ disk' = disk /\ n_flag' = n_flag
  BY DEF Abort
<1>2. DiskInv'
  BY <1>1, DiskKept DEF Sound
<1>3. RunInv'
  BY <1>1 DEF Sound, RunInv, Places
<1>4. Progress'
  BY <1>1 DEF Progress, PhaseInv, SuperblockInv, FinishedInv, FramesInv
<1> QED
  BY <1>2, <1>3, <1>4 DEF Sound

-----------------------------------------------------------------------------
(* The activations of recurse_dir, while the image stays as it is.          *)

\* The activation of d reads what is on the disk.
LEMMA FrameStarts ==
    ASSUME DiskInv, NEW d \in Dir
    PROVE  /\ Frame(d) \in Frames /\ IsFrame(Frame(d))
           /\ Frame(d).dir = d /\ Frame(d).pos = 1 /\ ~Frame(d).back /\ Frame(d).blk = 1
           /\ \A e \in Range(EntriesOf(d)) : e \in Entry /\ Frame(d).buf[e] = disk.entry[e]
<1>1. PICK b : b = [e \in Range(EntriesOf(d)) |-> disk.entry[e]]
  OBVIOUS
<1>2. \A e \in Range(EntriesOf(d)) : e \in Entry /\ disk.entry[e] \in Record
  BY Entries DEF DiskInv, DiskTypes
<1>3. b \in [Range(EntriesOf(d)) -> Record]
  BY <1>1, <1>2
<1>4. PICK s \in BOOLEAN : s = disk.short[d]
  BY DEF DiskInv, DiskTypes
<1>5. PICK no \in BOOLEAN : no = FALSE
  OBVIOUS
<1>6. Frame(d) = [dir |-> d, buf |-> b, short |-> s, pos |-> 1, back |-> no, blk |-> 1]
  BY <1>1, <1>4, <1>5, Zenon DEF Frame
<1>7. Frame(d).dir = d /\ Frame(d).buf = b /\ Frame(d).pos = 1 /\ Frame(d).back = no /\ Frame(d).blk = 1
  BY <1>6
<1>8. Frame(d) \in Frames
  BY <1>3, <1>6 DEF Frames
<1>9. IsFrame(Frame(d))
  BY <1>3, <1>7, Entries DEF IsFrame
<1> QED
  BY <1>1, <1>2, <1>5, <1>7, <1>8, <1>9

\* The numbers it has read count as those on the disk.
LEMMA MarkingStarts ==
    ASSUME DiskInv, disk.magic = MARKING_INUMS, NEW d \in Dir, NEW S
    PROVE  MarkingFrame(Frame(d), S)
<1>1. \A e \in Range(EntriesOf(d)) : Frame(d).buf[e].inode = Number(e, disk.sb[0].ipg)
  BY FrameStarts DEF DiskInv, NumbersCount
<1>2. Frame(d).dir = d /\ Frame(d).pos = 1
  BY FrameStarts
<1> QED
  BY <1>1, <1>2 DEF MarkingFrame

LEMMA UpdatingStarts ==
    ASSUME DiskInv, disk.magic = UPDATING_INUMS, NEW d \in Dir
    PROVE  UpdatingFrame(Frame(d))
<1>1. ASSUME NEW e \in Range(EntriesOf(d))
      PROVE  /\ Frame(d).buf[e].inode = Number(e, IF Frame(d).buf[e].high THEN disk.sb[0].ipg ELSE TheNewIpg)
             /\ \A c \in Dir : ~Frame(d).buf[e].high /\ Names(e, c) => Clean(c)
  <2>1. e \in Entry /\ Frame(d).buf[e] = disk.entry[e]
    BY FrameStarts
  <2>2. disk.entry[e].inode = Number(e, IF disk.entry[e].high THEN disk.sb[0].ipg ELSE TheNewIpg)
    BY <2>1 DEF DiskInv, NumbersCount
  <2>3. \A c \in Dir : ~disk.entry[e].high /\ Names(e, c) => Clean(c)
    BY <2>1 DEF DiskInv, BottomUp
  <2> QED
    BY <2>1, <2>2, <2>3
<1>2. Frame(d).dir = d /\ Frame(d).pos = 1
  BY FrameStarts
<1> QED
  BY <1>1, <1>2 DEF UpdatingFrame

\* Entering the first if whose state the image has.
LEMMA RootStarts ==
    ASSUME DiskInv, disk.magic = phase, UNCHANGED <<disk, phase>>, pc' = "entry", stack' = <<Frame(Root)>>
    PROVE  FramesInv'
<1>1. Root \in Dir
  BY TreeAssumption
<1>2. PICK f \in Frames : f = Frame(Root)
  BY <1>1, FrameStarts
<1>3. IsFrame(f) /\ f.dir = Root /\ ~f.back /\ f.blk = 1
  BY <1>1, <1>2, FrameStarts
<1>4. stack' \in Seq(Frames) /\ Len(stack') = 1 /\ stack'[1] = f
  BY <1>2, Single
<1>5. stack' # <<>>
  BY <1>4, EmptySeq
<1>6. \A i \in 1 .. Len(stack') : i = 1
  BY <1>4
<1>7. ~ \E i \in 1 .. Len(stack') - 1 : TRUE
  BY <1>4
<1>8. StackInv'
  BY <1>3, <1>4, <1>5, <1>6, <1>7 DEF StackInv, IsFrame
<1>9. (\A d \in Dir : ~ReturnedFrom(d)') /\ (\A x \in Entry : ~Written(x)')
  BY <1>3, <1>4 DEF ReturnedFrom, Written
<1>10. ASSUME phase = MARKING_INUMS PROVE Marking({})'
  <2>1. MarkingFrame(f, {})
    BY <1>1, <1>2, <1>10, MarkingStarts
  <2>2. MarkingFrame(f, {})'
    BY <2>1 DEF MarkingFrame
  <2> QED
    BY <1>4, <1>6, <1>9, <2>2 DEF Marking
<1>11. ASSUME phase = UPDATING_INUMS PROVE Updating'
  <2>1. UpdatingFrame(f)
    BY <1>1, <1>2, <1>11, UpdatingStarts
  <2>2. UpdatingFrame(f)'
    BY <2>1 DEF UpdatingFrame, Clean
  <2> QED
    BY <1>4, <1>6, <1>9, <2>2 DEF Updating
<1>12. {} \in SUBSET Dir
  OBVIOUS
<1> QED
  BY <1>8, <1>10, <1>11, <1>12 DEF FramesInv

LEMMA NextPhaseKeeps ==
    ASSUME Sound, NextPhase
    PROVE  Sound'
<1>1. /\ pc = "phase" /\ disk' = disk /\ n_flag' = n_flag /\ newIpg' = newIpg /\ ipg' = ipg
      /\ phase \in 0 .. 4 /\ newIpg = TheNewIpg /\ n_flag \in BOOLEAN
  BY DEF Sound, RunInv, NextPhase
<1>2. DiskInv /\ DiskInv'
  BY <1>1, DiskKept DEF Sound
<1>3. disk.magic \in 0 .. 3
  BY <1>2, MagicType
<1>4. ~n_flag => PhaseInv /\ FinishedInv /\ get_fs_fixup_state = disk.magic
  BY DEF Sound, Progress, get_fs_fixup_state
<1>5. CASE phase > 3 /\ pc' = "done" /\ phase' = phase
  <2>1. RunInv'
    BY <1>1, <1>5 DEF RunInv, Places
  <2>2. ASSUME ~n_flag PROVE Progress'
    <3>1. FinishedInv'
      BY <1>1, <1>4, <1>5, <2>2 DEF FinishedInv, Clean, CopiesWritten
    <3> QED
      BY <1>5, <3>1 DEF Progress, PhaseInv, SuperblockInv, FramesInv
  <2> QED
    BY <1>1, <1>2, <2>1, <2>2 DEF Sound
<1>6. CASE phase <= 3 /\ get_fs_fixup_state # phase /\ phase' = phase + 1 /\ pc' = pc
  <2>1. RunInv'
    BY <1>1, <1>6 DEF RunInv, Places
  <2>2. ASSUME ~n_flag PROVE Progress'
    <3>1. phase <= disk.magic /\ ipg = disk.sb[0].ipg /\ disk.magic # phase
      BY <1>1, <1>4, <1>6, <2>2 DEF PhaseInv
    <3>2. phase' <= disk.magic /\ phase' \in 0 .. 3
      BY <1>1, <1>3, <1>6, <3>1
    <3>3. pc' = "phase" /\ ~(phase' > 3)
      BY <1>1, <1>6, <3>2
    <3>4. PhaseInv'
      BY <1>1, <3>1, <3>2, <3>3 DEF PhaseInv
    <3> QED
      BY <3>3, <3>4 DEF Progress, SuperblockInv, FinishedInv, FramesInv
  <2> QED
    BY <1>1, <1>2, <2>1, <2>2 DEF Sound
<1>7. CASE /\ phase < 3 /\ get_fs_fixup_state = phase /\ phase' = phase
           /\ pc' = "entry" /\ stack' = <<Frame(Root)>>
  <2>1. RunInv'
    BY <1>1, <1>7 DEF RunInv, Places
  <2>2. ASSUME ~n_flag PROVE Progress'
    <3>1. disk.magic = phase /\ ipg = disk.sb[0].ipg
      BY <1>1, <1>4, <1>7, <2>2 DEF PhaseInv
    <3>2. FramesInv'
      BY <1>1, <1>2, <1>7, <3>1, RootStarts
    <3> QED
      BY <1>1, <1>3, <1>7, <3>1, <3>2 DEF Progress, PhaseInv, SuperblockInv, FinishedInv
  <2> QED
    BY <1>1, <1>2, <2>1, <2>2 DEF Sound
<1>8. CASE /\ phase = 3 /\ get_fs_fixup_state = phase /\ phase' = phase
           /\ pc' = "bitmap" /\ sb' = disk.sb[0] /\ group' = 0
  <2>1. RunInv'
    BY <1>1, <1>8 DEF RunInv, Places
  <2>2. ASSUME ~n_flag PROVE Progress'
    <3>1. disk.magic = phase /\ ipg = disk.sb[0].ipg
      BY <1>1, <1>4, <1>8, <2>2 DEF PhaseInv
    <3>2. \A d \in Dir : Clean(d)'
      BY <1>1, <1>2, <1>8, <3>1 DEF DiskInv, BottomUp, Clean
    <3>3. group' \in 0 .. Groups /\ \A g \in Group : ~(g < group')
      BY <1>8, Sizes DEF Group
    <3>4. SuperblockInv'
      BY <1>1, <1>8, <3>2, <3>3 DEF SuperblockInv
    <3> QED
      BY <1>1, <1>3, <1>8, <3>1, <3>4 DEF Progress, PhaseInv, FinishedInv, FramesInv
  <2> QED
    BY <1>1, <1>2, <2>1, <2>2 DEF Sound
<1> QED
  BY <1>5, <1>6, <1>7, <1>8 DEF NextPhase

\* What holds of a run that writes entries (Recurse, ProcessEntry, LastEntry, WriteBlock).
LEMMA InDirectory ==
    ASSUME Sound, ~n_flag, phase # UNSET, pc \in {"entry", "write"}
    PROVE  /\ StackInv /\ DiskInv /\ phase \in {1, 2} /\ disk.magic = phase
           /\ ipg = disk.sb[0].ipg /\ ipg \in {OldIpg, TheNewIpg} /\ newIpg = TheNewIpg
           /\ phase = 1 => \E S \in SUBSET Dir : Marking(S)
           /\ phase = 2 => Updating
           /\ stack # <<>> /\ stack \in Seq(Frames) /\ Len(stack) \in Nat /\ Len(stack) >= 1
           /\ Top = stack[1] /\ Top \in Frames /\ IsFrame(Top) /\ Top.dir \in Dir
<1>1. phase \in {1, 2} /\ disk.magic = phase /\ ipg = disk.sb[0].ipg /\ newIpg = TheNewIpg
  BY DEF Sound, Progress, RunInv, PhaseInv
<1>2. DiskInv /\ ipg \in {OldIpg, TheNewIpg}
  BY <1>1 DEF Sound, DiskInv, PrimarySound
<1>3. StackInv /\ (phase = 1 => \E S \in SUBSET Dir : Marking(S)) /\ (phase = 2 => Updating)
  BY DEF Sound, Progress, FramesInv
<1>4. stack # <<>> /\ stack \in Seq(Frames)
  BY <1>3 DEF StackInv
<1>5. Len(stack) \in Nat /\ Len(stack) >= 1 /\ Top = stack[1] /\ Top \in Frames
  BY <1>4, Replaced DEF Top
<1>6. IsFrame(Top) /\ Top.dir \in Dir
  BY <1>3, <1>5, FrameFields DEF StackInv
<1> QED
  BY <1>1, <1>2, <1>3, <1>4, <1>5, <1>6

\* A step of recurse_dir that leaves the image and the place of the run.
LEMMA StepInDirectory ==
    ASSUME Sound, pc \in {"entry", "write"}, pc' \in {"entry", "write"},
           UNCHANGED <<disk, phase, n_flag, ipg, newIpg>>,
           ~n_flag /\ phase # UNSET => FramesInv'
    PROVE  Sound'
<1>1. DiskInv'
  BY DiskKept DEF Sound
<1>2. RunInv'
  BY DEF Sound, RunInv, Places
<1>3. ASSUME ~n_flag PROVE Progress'
  <2>1. PhaseInv' /\ phase \in {0, 1, 2}
    BY <1>3 DEF Sound, Progress, RunInv, PhaseInv
  <2>2. FramesInv'
    BY <1>3 DEF FramesInv
  <2> QED
    BY <2>1, <2>2 DEF Progress, SuperblockInv, FinishedInv
<1> QED
  BY <1>1, <1>2, <1>3 DEF Sound

\* The entry the run is at, and the directory it names.
LEMMA AtCurrent ==
    ASSUME Sound, damage = "none", ~n_flag, phase # UNSET, AtEntry
    PROVE  /\ Top.pos \in 1 .. Len(EntriesOf(Top.dir)) /\ Current = EntriesOf(Top.dir)[Top.pos]
           /\ Current \in Range(EntriesOf(Top.dir)) /\ Current \in Entry
           /\ CurrentEntry = Top.buf[Current] /\ CurrentEntry \in Record
           /\ phase = 1 \/ CurrentEntry.high =>
                 /\ SlotOf(CurrentEntry.inode, ipg) = Slot[Current]
                 /\ \A d : d \in DirAt(CurrentEntry.inode) <=> d \in Dir /\ DirSlot[d] = Slot[Current]
                 /\ \A d \in Dir : Names(Current, d) => MustRecurse
<1>1. /\ pc = "entry" /\ Top.pos <= Len(EntriesOf(Top.dir))
  BY DEF AtEntry
<1>2. /\ Len(stack) \in Nat /\ Len(stack) >= 1 /\ Top = stack[1] /\ Top \in Frames /\ IsFrame(Top) /\ Top.dir \in Dir
      /\ phase \in {1, 2} /\ ipg = disk.sb[0].ipg /\ ipg \in {OldIpg, TheNewIpg}
      /\ (phase = 1 => \E S \in SUBSET Dir : Marking(S)) /\ (phase = 2 => Updating)
  BY <1>1, InDirectory
<1>3. Top.pos \in 1 .. Len(EntriesOf(Top.dir)) /\ Top.buf \in [Range(EntriesOf(Top.dir)) -> Record]
  BY <1>1, <1>2, Entries DEF IsFrame
<1>4. /\ Current = EntriesOf(Top.dir)[Top.pos] /\ Current \in Range(EntriesOf(Top.dir)) /\ Current \in Entry
      /\ CurrentEntry = Top.buf[Current] /\ CurrentEntry \in Record
  BY <1>2, <1>3, Entries DEF Current, CurrentEntry
<1>5. ASSUME phase = 1 \/ CurrentEntry.high
      PROVE  /\ SlotOf(CurrentEntry.inode, ipg) = Slot[Current]
             /\ \A d : d \in DirAt(CurrentEntry.inode) <=> d \in Dir /\ DirSlot[d] = Slot[Current]
             /\ \A d \in Dir : Names(Current, d) => MustRecurse
  <2>1. 1 \in 1 .. Len(stack)
    BY <1>2
  <2>2. CurrentEntry.inode = Number(Current, ipg)
    <3>1. CASE phase = 1
      <4>1. PICK S \in SUBSET Dir : Marking(S)
        BY <1>2, <3>1
      <4>2. MarkingFrame(Top, S)
        BY <1>2, <2>1, <4>1 DEF Marking
      <4> QED
        BY <1>2, <1>4, <4>2 DEF MarkingFrame
    <3>2. CASE phase = 2
      <4>1. UpdatingFrame(Top) /\ CurrentEntry.high
        BY <1>2, <1>5, <2>1, <3>2 DEF Updating
      <4> QED
        BY <1>2, <1>4, <4>1 DEF UpdatingFrame
    <3> QED
      BY <1>2, <3>1, <3>2
  <2>3. SlotOf(CurrentEntry.inode, ipg) = Slot[Current]
    BY <1>2, <1>4, <2>2, SlotOfNumber
  <2>4. \A d : d \in DirAt(CurrentEntry.inode) <=> d \in Dir /\ DirSlot[d] = Slot[Current]
    BY <2>3 DEF DirAt
  <2>5. ASSUME NEW d \in Dir, Names(Current, d) PROVE MustRecurse
    <3>1. FileType[Current] \in {"dir", "unknown"}
      BY <1>4, <2>5, TreeAssumption
    <3>2. DirAt(CurrentEntry.inode) # {} /\ Current \notin Dots
      BY <2>4, <2>5 DEF Names
    <3> QED
      BY <1>2, <1>5, <3>1, <3>2 DEF MustRecurse, is_entry_dir
  <2> QED
    BY <2>3, <2>4, <2>5
<1> QED
  BY <1>3, <1>4, <1>5

\* recurse_dir calls itself: the new activation is linked to the one that waits.
LEMMA RecurseStack ==
    ASSUME Sound, damage = "none", ~n_flag, phase # UNSET, Recurse
    PROVE  \E d \in Dir, b \in Frames :
              /\ Names(Current, d)
              /\ b.dir = Top.dir /\ b.buf = Top.buf /\ b.pos = Top.pos /\ b.blk = Top.blk
              /\ stack' = <<Frame(d)>> \o <<b>> \o Tail(stack)
<1>1. AtEntry /\ MustRecurse
  BY DEF Recurse
<1>2. Top \in Frames /\ phase \in {1, 2}
  BY <1>1, InDirectory DEF AtEntry
<1>3. phase = 1 \/ CurrentEntry.high
  BY <1>1, <1>2 DEF MustRecurse
<1>4. PICK d \in DirAt(CurrentEntry.inode) :
         stack' = <<Frame(d)>> \o <<[Top EXCEPT !.back = TRUE]>> \o Tail(stack)
  BY DEF Recurse
<1>5. d \in Dir /\ Names(Current, d)
  BY <1>1, <1>3, <1>4, AtCurrent DEF Names, MustRecurse
<1>6. PICK yes \in BOOLEAN : yes = TRUE
  OBVIOUS
<1>7. [Top EXCEPT !.back = yes] = Changed(Top, Top.buf, Top.short, Top.pos, yes, Top.blk)
  BY <1>2, FrameExcept
<1>8. Changed(Top, Top.buf, Top.short, Top.pos, yes, Top.blk) \in Frames
  BY <1>2, <1>6, FrameFields, FrameChanged
<1>9. PICK b \in Frames : b = Changed(Top, Top.buf, Top.short, Top.pos, yes, Top.blk)
  BY <1>8
<1>10. stack' = <<Frame(d)>> \o <<b>> \o Tail(stack)
  BY <1>4, <1>6, <1>7, <1>9, Zenon
<1>11. b.dir = Top.dir /\ b.buf = Top.buf /\ b.pos = Top.pos /\ b.blk = Top.blk
  BY <1>9, ChangedFields
<1> QED
  BY <1>5, <1>9, <1>10, <1>11

LEMMA RecurseFrames ==
    ASSUME Sound, damage = "none", ~n_flag, phase # UNSET, Recurse
    PROVE  FramesInv'
<1>1. AtEntry /\ pc = "entry" /\ pc' = "entry" /\ disk' = disk /\ phase' = phase
  BY DEF Recurse, AtEntry
<1>2. /\ Len(stack) \in Nat /\ Len(stack) >= 1 /\ Top = stack[1] /\ Top \in Frames /\ IsFrame(Top) /\ Top.dir \in Dir
      /\ phase \in {1, 2} /\ stack # <<>> /\ stack \in Seq(Frames) /\ StackInv /\ DiskInv /\ disk.magic = phase
      /\ (phase = 1 => \E S \in SUBSET Dir : Marking(S)) /\ (phase = 2 => Updating)
  BY <1>1, InDirectory
<1>3. PICK d \in Dir, b \in Frames :
         /\ Names(Current, d)
         /\ b.dir = Top.dir /\ b.buf = Top.buf /\ b.pos = Top.pos /\ b.blk = Top.blk
         /\ stack' = <<Frame(d)>> \o <<b>> \o Tail(stack)
  BY RecurseStack
<1>4. PICK a \in Frames : a = Frame(d)
  BY <1>2, FrameStarts
<1>5. IsFrame(a) /\ a.dir = d /\ ~a.back /\ a.blk = 1
  BY <1>2, <1>4, FrameStarts
<1>6. b.dir = Top.dir /\ b.buf = Top.buf /\ b.pos = Top.pos /\ b.blk = Top.blk
  BY <1>3
<1>7. /\ stack' \in Seq(Frames) /\ Len(stack') = Len(stack) + 1 /\ stack'[1] = a /\ stack'[2] = b
      /\ \A i \in 3 .. Len(stack) + 1 : stack'[i] = stack[i - 1]
  <2>1. stack' = <<a>> \o <<b>> \o Tail(stack)
    BY <1>3, <1>4
  <2> QED
    BY <1>2, <2>1, Pushed
<1>8. stack' # <<>>
  BY <1>2, <1>7, EmptySeq
<1>9. IsFrame(b) /\ Linked(a, b) /\ \A f : Linked(Top, f) => Linked(b, f)
  <2>1. Current = EntriesOf(b.dir)[b.pos] /\ Top.pos <= Len(EntriesOf(Top.dir))
    BY <1>1, <1>6 DEF Current, AtEntry
  <2> QED
    BY <1>2, <1>3, <1>5, <1>6, <2>1 DEF IsFrame, Linked
<1>10. /\ \A i \in 1 .. Len(stack) : IsFrame(stack[i]) /\ stack[i].blk = 1
       /\ \A i \in 1 .. Len(stack) - 1 : Linked(stack[i], stack[i + 1])
       /\ stack[Len(stack)].dir = Root
  BY <1>1, <1>2 DEF StackInv
<1>11. \A i \in 1 .. Len(stack') : i = 1 \/ i = 2 \/ (i \in 3 .. Len(stack) + 1 /\ i - 1 \in 1 .. Len(stack))
  BY <1>2, <1>7
<1>12. StackInv'
  <2>1. \A i \in 1 .. Len(stack') : IsFrame(stack'[i]) /\ stack'[i].blk = 1
    <3>1. Top.blk = 1
      BY <1>2, <1>10
    <3> QED
      BY <1>5, <1>6, <1>7, <1>9, <1>10, <1>11, <3>1
  <2>2. stack'[Len(stack')].dir = Root
    <3>1. CASE Len(stack) = 1
      BY <1>2, <1>6, <1>7, <1>10, <3>1
    <3>2. CASE Len(stack) # 1
      <4>1. PICK n \in Nat : n = Len(stack) /\ n >= 1
        BY <1>2
      <4>0. n >= 2
        BY <3>2, <4>1
      <4>2. n + 1 \in 3 .. n + 1 /\ (n + 1) - 1 = n
        BY <4>0
      <4>3. stack'[n + 1] = stack[n]
        BY <1>7, <4>1, <4>2
      <4> QED
        BY <1>7, <1>10, <4>1, <4>3
    <3> QED
      BY <3>1, <3>2
  <2>3. ASSUME NEW i \in 1 .. Len(stack') - 1 PROVE Linked(stack'[i], stack'[i + 1])
    <3>1. CASE i = 1
      BY <1>7, <1>9, <3>1
    <3>2. CASE i = 2
      <4>1. Len(stack) >= 2
        BY <1>2, <1>7, <3>2
      <4>2. 3 \in 3 .. Len(stack) + 1 /\ 1 \in 1 .. Len(stack) - 1
        BY <1>2, <4>1
      <4>3. stack'[3] = stack[2]
        BY <1>7, <4>2
      <4>4. Linked(Top, stack[2])
        BY <1>2, <1>10, <4>2
      <4> QED
        BY <1>7, <1>9, <3>2, <4>3, <4>4
    <3>3. CASE i # 1 /\ i # 2
      <4>1. PICK k \in Int : k = i - 1
        OBVIOUS
      <4>2. /\ i \in 3 .. Len(stack) + 1 /\ i + 1 \in 3 .. Len(stack) + 1
            /\ k \in 1 .. Len(stack) - 1 /\ (i + 1) - 1 = k + 1
        BY <1>2, <1>7, <3>3, <4>1
      <4>3. stack'[i] = stack[k] /\ stack'[i + 1] = stack[k + 1]
        BY <1>7, <4>1, <4>2
      <4> QED
        BY <1>10, <4>2, <4>3
    <3> QED
      BY <3>1, <3>2, <3>3
  <2> QED
    BY <1>1, <1>7, <1>8, <2>1, <2>2, <2>3 DEF StackInv
<1>13. (\A c \in Dir : ~ReturnedFrom(c)') /\ (\A x \in Entry : ~Written(x)')
  BY <1>1, <1>5, <1>7 DEF ReturnedFrom, Written
<1>14. ASSUME NEW S \in SUBSET Dir, Marking(S), phase = 1 PROVE Marking(S)'
  <2>1. MarkingFrame(a, S) /\ MarkingFrame(Top, S)
    BY <1>2, <1>4, <1>14, MarkingStarts DEF Marking
  <2>2. MarkingFrame(b, S)
    BY <1>6, <2>1 DEF MarkingFrame
  <2>3. \A f : MarkingFrame(f, S) => MarkingFrame(f, S)'
    BY <1>1 DEF MarkingFrame
  <2>4. \A i \in 1 .. Len(stack') : MarkingFrame(stack'[i], S)
    BY <1>7, <1>11, <1>14, <2>1, <2>2 DEF Marking
  <2>5. \A c \in Dir : Marked(c) => Marked(c)'
    BY <1>1 DEF Marked
  <2> QED
    BY <1>13, <1>14, <2>3, <2>4, <2>5 DEF Marking
<1>15. ASSUME phase = 2 PROVE Updating'
  <2>1. UpdatingFrame(a) /\ UpdatingFrame(Top)
    BY <1>2, <1>4, <1>15, UpdatingStarts DEF Updating
  <2>2. UpdatingFrame(b)
    BY <1>6, <2>1 DEF UpdatingFrame
  <2>3. \A f : UpdatingFrame(f) => UpdatingFrame(f)'
    BY <1>1 DEF UpdatingFrame, Clean
  <2>4. \A i \in 1 .. Len(stack') : UpdatingFrame(stack'[i])
    BY <1>2, <1>7, <1>11, <1>15, <2>1, <2>2 DEF Updating
  <2> QED
    BY <1>1, <1>13, <2>3, <2>4 DEF Updating
<1> QED
  BY <1>1, <1>2, <1>12, <1>14, <1>15 DEF FramesInv

\* The top changes and stays in its directory.
LEMMA TopReplaced ==
    ASSUME StackInv, NEW b \in Frames, b.dir = Top.dir, IsFrame(b), stack' = <<b>> \o Tail(stack),
           pc' = "entry" => b.blk = 1,
           pc' = "write" => b.pos > Len(EntriesOf(b.dir))
    PROVE  /\ StackInv'
           /\ Len(stack') = Len(stack) /\ Len(stack) \in Nat /\ Len(stack) >= 1
           /\ stack'[1] = b /\ Top = stack[1] /\ \A i \in 2 .. Len(stack) : stack'[i] = stack[i]
           /\ \A i \in 1 .. Len(stack') : i = 1 \/ i \in 2 .. Len(stack)
<1>1. stack # <<>> /\ stack \in Seq(Frames)
  BY DEF StackInv
<1>2. /\ stack' \in Seq(Frames) /\ Len(stack') = Len(stack) /\ stack'[1] = b /\ Top = stack[1]
      /\ \A i \in 2 .. Len(stack) : stack'[i] = stack[i]
  BY <1>1, Replaced DEF Top
<1>3. PICK n \in Nat : n = Len(stack) /\ n >= 1 /\ n = Len(stack')
  BY <1>1, <1>2, Replaced
<1>4. \A i \in 1 .. n : i = 1 \/ i \in 2 .. n
  BY <1>3
<1>5. /\ \A i \in 1 .. n : IsFrame(stack[i]) /\ (i > 1 => stack[i].blk = 1)
      /\ \A i \in 1 .. n - 1 : Linked(stack[i], stack[i + 1])
      /\ stack[n].dir = Root
  BY <1>3 DEF StackInv
<1>6. ASSUME NEW i \in 1 .. n PROVE IsFrame(stack'[i]) /\ (i > 1 \/ pc' = "entry" => stack'[i].blk = 1)
  <2>1. CASE i = 1
    BY <1>2, <2>1
  <2>2. CASE i \in 2 .. n
    <3>1. stack'[i] = stack[i] /\ i > 1
      BY <1>2, <1>3, <2>2
    <3> QED
      BY <1>5, <3>1
  <2> QED
    BY <1>4, <2>1, <2>2
<1>7. stack'[n].dir = Root
  <2>1. CASE n = 1
    BY <1>2, <1>5, <2>1
  <2>2. CASE n # 1
    <3>1. n \in 2 .. n
      BY <1>3, <2>2
    <3> QED
      BY <1>2, <1>3, <1>5, <3>1
  <2> QED
    BY <2>1, <2>2
<1>8. ASSUME NEW i \in 1 .. n - 1 PROVE Linked(stack'[i], stack'[i + 1])
  <2>1. i + 1 \in 2 .. n /\ (i = 1 \/ i \in 2 .. n)
    BY <1>3
  <2>2. stack'[i + 1] = stack[i + 1] /\ stack'[i].dir = stack[i].dir
    BY <1>2, <1>3, <2>1
  <2> QED
    BY <1>5, <2>2 DEF Linked
<1>9. stack' # <<>>
  BY <1>2, <1>3, EmptySeq
<1>10. StackInv'
  BY <1>2, <1>3, <1>6, <1>7, <1>8, <1>9 DEF StackInv
<1> QED
  BY <1>2, <1>3, <1>4, <1>10

\* An entry is dealt with: all that it names has been, and it gets its mark or
\* its number (recurse_dir).
LEMMA ProcessEntryFrames ==
    ASSUME Sound, damage = "none", ~n_flag, phase # UNSET, ProcessEntry
    PROVE  FramesInv'
<1>1. AtEntry /\ pc = "entry" /\ pc' = "entry" /\ disk' = disk /\ phase' = phase
  BY DEF ProcessEntry, AtEntry
<1>2. /\ Len(stack) \in Nat /\ Len(stack) >= 1 /\ Top = stack[1] /\ Top \in Frames /\ IsFrame(Top) /\ Top.dir \in Dir
      /\ phase \in {1, 2} /\ StackInv /\ DiskInv
      /\ ipg = disk.sb[0].ipg /\ ipg \in {OldIpg, TheNewIpg} /\ newIpg = TheNewIpg
      /\ (phase = 1 => \E S \in SUBSET Dir : Marking(S)) /\ (phase = 2 => Updating)
  BY <1>1, InDirectory
<1>3. /\ Top.pos \in 1 .. Len(EntriesOf(Top.dir)) /\ Current = EntriesOf(Top.dir)[Top.pos]
      /\ Current \in Range(EntriesOf(Top.dir)) /\ Current \in Entry
      /\ CurrentEntry = Top.buf[Current] /\ CurrentEntry \in Record
  BY <1>1, AtCurrent
<1>4. PICK r : r = Renumbered(CurrentEntry)
  OBVIOUS
<1>5. PICK h \in BOOLEAN : h = CurrentEntry.high
  BY <1>3 DEF Record
<1>6. phase = 1 => r \in Record /\ r.inode = CurrentEntry.inode /\ r.high
  <2> SUFFICES ASSUME phase = 1 PROVE r \in Record /\ r.inode = CurrentEntry.inode /\ r.high
    OBVIOUS
  <2>1. r = [CurrentEntry EXCEPT !.high = TRUE]
    BY <1>4 DEF Renumbered
  <2>2. PICK yes \in BOOLEAN : yes = TRUE
    OBVIOUS
  <2>3. [CurrentEntry EXCEPT !.high = yes] = [inode |-> CurrentEntry.inode, high |-> yes] /\ CurrentEntry.inode \in Int
    BY <1>3 DEF Record
  <2>4. r = [inode |-> CurrentEntry.inode, high |-> yes]
    BY <2>1, <2>2, <2>3, Zenon
  <2> QED
    BY <2>2, <2>3, <2>4, RecordMade, RecordFields
<1>7. phase = 2 /\ h => r \in Record /\ r.inode = Number(Current, TheNewIpg) /\ ~r.high
  <2> SUFFICES ASSUME phase = 2, h PROVE r \in Record /\ r.inode = Number(Current, TheNewIpg) /\ ~r.high
    OBVIOUS
  <2>1. PICK no \in BOOLEAN : no = FALSE
    OBVIOUS
  <2>2. r = [inode |-> compute_new_inum(CurrentEntry.inode), high |-> FALSE]
    <3>1. CurrentEntry.high
      BY <1>5, Zenon
    <3>2. phase = 2 /\ ~(phase = 1)
      OBVIOUS
    <3> QED
      BY <1>4, <3>1, <3>2, Zenon DEF Renumbered
  <2>3. compute_new_inum(CurrentEntry.inode) = Number(Current, TheNewIpg)
    BY <1>1, <1>2, <1>5, AtCurrent DEF compute_new_inum, Number
  <2>4. r = [inode |-> Number(Current, TheNewIpg), high |-> no] /\ Number(Current, TheNewIpg) \in Int
    BY <1>3, <2>1, <2>2, <2>3, SlotOfNumber
  <2> QED
    BY <2>1, <2>4, RecordMade, RecordFields
<1>8. phase = 2 /\ ~h => r = CurrentEntry
  BY <1>4, <1>5 DEF Renumbered
<1>9. r \in Record
  BY <1>2, <1>3, <1>6, <1>7, <1>8
<1>10. PICK buf \in Bufs : buf = [Top.buf EXCEPT ![Current] = r]
  BY <1>2, <1>9 DEF IsFrame, Bufs
<1>11. /\ buf \in [Range(EntriesOf(Top.dir)) -> Record] /\ buf[Current] = r
       /\ \A e \in Range(EntriesOf(Top.dir)) : e # Current => buf[e] = Top.buf[e]
  BY <1>2, <1>3, <1>9, <1>10 DEF IsFrame
<1>12. PICK no \in BOOLEAN : no = FALSE
  OBVIOUS
<1>13. PICK p \in Nat : p = Top.pos + 1 /\ p - 1 = Top.pos
  BY <1>2, FrameFields
<1>14. PICK b \in Frames : b = Changed(Top, buf, Top.short, p, no, Top.blk)
  BY <1>2, <1>10, FrameFields, FrameChanged
<1>15. b.dir = Top.dir /\ b.buf = buf /\ b.pos = p /\ ~b.back /\ b.blk = Top.blk
  BY <1>12, <1>14, ChangedFields
<1>16. stack' = <<b>> \o Tail(stack)
  BY <1>2, <1>4, <1>10, <1>12, <1>13, <1>14, EntryProcessed, Zenon
<1>17. IsFrame(b)
  BY <1>2, <1>3, <1>11, <1>13, <1>15, Entries DEF IsFrame
<1>18. b.blk = 1
  BY <1>1, <1>2, <1>15 DEF StackInv
<1>19. /\ StackInv' /\ Len(stack') = Len(stack) /\ stack'[1] = b
       /\ \A i \in 2 .. Len(stack) : stack'[i] = stack[i]
       /\ \A i \in 1 .. Len(stack') : i = 1 \/ i \in 2 .. Len(stack)
  BY <1>1, <1>2, <1>15, <1>16, <1>17, <1>18, TopReplaced
<1>20. (\A c \in Dir : ~ReturnedFrom(c)') /\ (\A x \in Entry : ~Written(x)')
  BY <1>1, <1>15, <1>19 DEF ReturnedFrom, Written
<1>21. \A i \in 2 .. Len(stack) : i \in 1 .. Len(stack)
  BY <1>2
<1>22. ASSUME NEW d \in Dir, Names(Current, d), phase = 1 \/ h PROVE ReturnedFrom(d)
  <2>1. MustRecurse
    BY <1>1, <1>5, <1>22, AtCurrent
  <2>2. Top.back
    BY <2>1 DEF ProcessEntry
  <2> QED
    BY <1>1, <1>2, <1>3, <1>22, <2>2 DEF ReturnedFrom, AtEntry
<1>23. \A k \in 1 .. p - 1 : k = Top.pos \/ k \in 1 .. Top.pos - 1
  BY <1>13, <1>3, Entries
<1>24. ASSUME NEW k \in 1 .. p - 1 PROVE EntriesOf(Top.dir)[k] \in Range(EntriesOf(Top.dir))
  <2>1. k \in 1 .. Len(EntriesOf(Top.dir))
    BY <1>2, <1>3, <1>13, Entries
  <2> QED
    BY <1>2, <2>1, Entries
<1>25. ASSUME NEW S \in SUBSET Dir, Marking(S), phase = 1 PROVE Marking(S)'
  <2>1. MarkingFrame(Top, S)
    BY <1>2, <1>25 DEF Marking
  <2>2. \A e \in Range(EntriesOf(Top.dir)) : buf[e].inode = Number(e, disk.sb[0].ipg)
    BY <1>3, <1>6, <1>11, <1>25, <2>1 DEF MarkingFrame
  <2>3. ASSUME NEW k \in 1 .. p - 1
        PROVE  /\ buf[EntriesOf(Top.dir)[k]].high
               /\ \A d \in Dir : Names(EntriesOf(Top.dir)[k], d) => d \in S
    <3>1. CASE k = Top.pos
      BY <1>3, <1>6, <1>11, <1>22, <1>25, <3>1 DEF Marking
    <3>2. CASE k \in 1 .. Top.pos - 1
      BY <1>6, <1>11, <1>24, <1>25, <2>1, <3>2 DEF MarkingFrame
    <3> QED
      BY <1>23, <3>1, <3>2
  <2>4. MarkingFrame(b, S)
    BY <1>15, <2>2, <2>3 DEF MarkingFrame
  <2>5. \A f : MarkingFrame(f, S) => MarkingFrame(f, S)'
    BY <1>1 DEF MarkingFrame
  <2>6. \A i \in 1 .. Len(stack') : MarkingFrame(stack'[i], S)
    BY <1>19, <1>21, <1>25, <2>4 DEF Marking
  <2>7. \A c \in Dir : Marked(c) => Marked(c)'
    BY <1>1 DEF Marked
  <2> QED
    BY <1>20, <1>25, <2>5, <2>6, <2>7 DEF Marking
<1>26. ASSUME phase = 2 PROVE Updating'
  <2>1. UpdatingFrame(Top) /\ \A d \in Dir : ReturnedFrom(d) => Clean(d)
    BY <1>2, <1>26 DEF Updating
  <2>2. ASSUME NEW e \in Range(EntriesOf(Top.dir))
        PROVE  /\ buf[e].inode = Number(e, IF buf[e].high THEN disk.sb[0].ipg ELSE TheNewIpg)
               /\ \A d \in Dir : ~buf[e].high /\ Names(e, d) => Clean(d)
    <3>1. CASE buf[e] = Top.buf[e]
      BY <2>1, <3>1 DEF UpdatingFrame
    <3>2. CASE e = Current /\ h
      BY <1>7, <1>11, <1>22, <1>26, <2>1, <3>2
    <3> QED
      BY <1>3, <1>8, <1>11, <1>26, <3>1, <3>2
  <2>3. ASSUME NEW k \in 1 .. p - 1 PROVE ~buf[EntriesOf(Top.dir)[k]].high
    <3>1. ~r.high
      BY <1>5, <1>7, <1>8, <1>26
    <3>2. CASE k = Top.pos
      BY <1>3, <1>11, <3>1, <3>2
    <3>3. CASE k \in 1 .. Top.pos - 1
      BY <1>11, <1>24, <2>1, <3>1, <3>3 DEF UpdatingFrame
    <3> QED
      BY <1>23, <3>2, <3>3
  <2>4. UpdatingFrame(b)
    BY <1>15, <2>2, <2>3 DEF UpdatingFrame
  <2>5. \A f : UpdatingFrame(f) => UpdatingFrame(f)'
    BY <1>1 DEF UpdatingFrame, Clean
  <2>6. \A i \in 1 .. Len(stack') : UpdatingFrame(stack'[i])
    BY <1>2, <1>19, <1>21, <1>26, <2>4 DEF Updating
  <2> QED
    BY <1>1, <1>20, <2>5, <2>6 DEF Updating
<1> QED
  BY <1>1, <1>2, <1>19, <1>25, <1>26 DEF FramesInv

LEMMA LastEntryFrames ==
    ASSUME Sound, damage = "none", ~n_flag, phase # UNSET, LastEntry
    PROVE  FramesInv'
<1>1. /\ pc = "entry" /\ pc' = "write" /\ disk' = disk /\ phase' = phase
      /\ Top.pos > Len(EntriesOf(Top.dir))
  BY DEF LastEntry
<1>2. /\ Len(stack) \in Nat /\ Len(stack) >= 1 /\ Top = stack[1] /\ Top \in Frames /\ IsFrame(Top)
      /\ phase \in {1, 2} /\ StackInv
      /\ (phase = 1 => \E S \in SUBSET Dir : Marking(S)) /\ (phase = 2 => Updating)
  BY <1>1, InDirectory
<1>3. PICK v \in BOOLEAN : v = (Top.short /\ phase = 1)
  OBVIOUS
<1>4. PICK b \in Frames : b = Changed(Top, Top.buf, v, Top.pos, Top.back, Top.blk)
  BY <1>2, FrameFields, FrameChanged
<1>5. b.dir = Top.dir /\ b.buf = Top.buf /\ b.short = v /\ b.pos = Top.pos /\ b.blk = Top.blk
  BY <1>4, ChangedFields
<1>6. stack' = <<b>> \o Tail(stack)
  <2>1. [Top EXCEPT !.short = v] = b
    BY <1>2, <1>4, FrameExcept
  <2> QED
    BY <1>3, <2>1, Zenon DEF LastEntry, MARKING_INUMS
<1>7. IsFrame(b) /\ b.blk = 1
  BY <1>1, <1>2, <1>5 DEF IsFrame, StackInv
<1>8. /\ StackInv' /\ Len(stack') = Len(stack) /\ stack'[1] = b
      /\ \A i \in 2 .. Len(stack) : stack'[i] = stack[i]
      /\ \A i \in 1 .. Len(stack') : i = 1 \/ i \in 2 .. Len(stack)
  BY <1>1, <1>2, <1>5, <1>6, <1>7, TopReplaced
<1>9. (\A c \in Dir : ~ReturnedFrom(c)') /\ (\A x \in Entry : ~Written(x)')
  BY <1>1, <1>7, <1>8 DEF ReturnedFrom, Written
<1>10. \A i \in 2 .. Len(stack) : i \in 1 .. Len(stack)
  BY <1>2
<1>11. ASSUME NEW S \in SUBSET Dir, Marking(S), phase = 1 PROVE Marking(S)'
  <2>1. MarkingFrame(Top, S)
    BY <1>2, <1>11 DEF Marking
  <2>2. MarkingFrame(b, S)
    BY <1>5, <2>1 DEF MarkingFrame
  <2>3. \A f : MarkingFrame(f, S) => MarkingFrame(f, S)'
    BY <1>1 DEF MarkingFrame
  <2>4. \A i \in 1 .. Len(stack') : MarkingFrame(stack'[i], S)
    BY <1>8, <1>10, <1>11, <2>2 DEF Marking
  <2>5. \A c \in Dir : Marked(c) => Marked(c)'
    BY <1>1 DEF Marked
  <2> QED
    BY <1>9, <1>11, <2>3, <2>4, <2>5 DEF Marking
<1>12. ASSUME phase = 2 PROVE Updating'
  <2>1. UpdatingFrame(Top)
    BY <1>2, <1>12 DEF Updating
  <2>2. UpdatingFrame(b)
    BY <1>5, <2>1 DEF UpdatingFrame
  <2>3. \A f : UpdatingFrame(f) => UpdatingFrame(f)'
    BY <1>1 DEF UpdatingFrame, Clean
  <2>4. \A i \in 1 .. Len(stack') : UpdatingFrame(stack'[i])
    BY <1>2, <1>8, <1>10, <1>12, <2>2 DEF Updating
  <2>5. ~stack'[1].short
    <3>1. ~(phase = 1)
      BY <1>12
    <3>2. ~v
      BY <1>3, <3>1, Zenon
    <3> QED
      BY <1>5, <1>8, <3>2
  <2> QED
    BY <1>9, <2>3, <2>4, <2>5 DEF Updating
<1> QED
  BY <1>1, <1>2, <1>8, <1>11, <1>12 DEF FramesInv

LEMMA DirectoryKeeps ==
    ASSUME Sound, damage = "none", Recurse \/ ProcessEntry \/ LastEntry
    PROVE  Sound'
<1>1. pc = "entry" /\ pc' \in {"entry", "write"} /\ UNCHANGED <<disk, phase, n_flag, ipg, newIpg>>
  BY DEF Recurse, ProcessEntry, LastEntry, AtEntry
<1>2. ~n_flag /\ phase # UNSET => FramesInv'
  BY RecurseFrames, ProcessEntryFrames, LastEntryFrames
<1> QED
  BY <1>1, <1>2, StepInDirectory

-----------------------------------------------------------------------------
(* A block of a directory is written.                                      *)

TopBlock == Range(Layout[Top.dir][Top.blk])
LastBlock == Top.blk = Len(Layout[Top.dir])

LEMMA TopBlockWritten ==
    ASSUME Sound, damage = "none", ~n_flag, phase # UNSET, WriteBlock
    PROVE  /\ DiskTypes'
           /\ UNCHANGED <<disk.magic, disk.sb, disk.bg, disk.stray>>
           /\ \A e \in Entry : disk'.entry[e] = IF e \in TopBlock THEN Top.buf[e] ELSE disk.entry[e]
           /\ \A d \in Dir : disk'.short[d] = IF d = Top.dir /\ LastBlock THEN Top.short ELSE disk.short[d]
           /\ TopBlock \subseteq Range(EntriesOf(Top.dir)) /\ TopBlock \subseteq Entry
<1>1. pc = "write" /\ no_write = FALSE
  BY DEF WriteBlock, no_write
<1>2. /\ Top \in Frames /\ IsFrame(Top) /\ Top.dir \in Dir /\ DiskInv
  BY <1>1, InDirectory
<1>3. DiskTypes
  BY <1>2 DEF DiskInv
<1>4. PICK v \in BOOLEAN : v = IF LastBlock THEN Top.short ELSE disk.short[Top.dir]
  BY <1>2, <1>3, FrameFields DEF DiskTypes
<1>5. disk' = [disk EXCEPT !.entry = [x \in Entry |-> IF x \in TopBlock THEN Top.buf[x] ELSE @[x]],
                           !.short[Top.dir] = v]
  <2>1. disk' = [disk EXCEPT !.entry = [x \in Entry |-> IF x \in TopBlock THEN Top.buf[x] ELSE @[x]],
                             !.short[Top.dir] = IF LastBlock THEN Top.short ELSE @]
    BY <1>1, Zenon DEF WriteBlock, Write, TopBlock, LastBlock
  <2>2. [disk EXCEPT !.entry = [x \in Entry |-> IF x \in TopBlock THEN Top.buf[x] ELSE disk.entry[x]]].short = disk.short
    <3>1. PICK g : g = [x \in Entry |-> IF x \in TopBlock THEN Top.buf[x] ELSE disk.entry[x]]
      OBVIOUS
    <3>2. [disk EXCEPT !.entry = g].short = disk.short
      BY <1>3 DEF DiskTypes, Disk
    <3> QED
      BY <3>1, <3>2, Zenon
  <2> QED
    BY <1>4, <2>1, <2>2, Zenon
<1>6. /\ disk'.entry = [x \in Entry |-> IF x \in TopBlock THEN Top.buf[x] ELSE disk.entry[x]]
      /\ disk'.short = [disk.short EXCEPT ![Top.dir] = v]
      /\ UNCHANGED <<disk.magic, disk.sb, disk.bg, disk.stray>>
      /\ disk' = Disk(disk'.magic, disk'.entry, disk'.short, disk'.sb, disk'.bg, disk'.stray)
  BY <1>3, <1>5, BlockWritten
<1>7. TopBlock \subseteq Range(EntriesOf(Top.dir)) /\ TopBlock \subseteq Entry
  BY <1>2, Entries DEF IsFrame, TopBlock
<1>8. \A d \in Dir : disk'.short[d] = IF d = Top.dir /\ LastBlock THEN Top.short ELSE disk.short[d]
  BY <1>3, <1>4, <1>6 DEF DiskTypes
<1>9. DiskTypes'
  <2>1. \A e \in Entry : (IF e \in TopBlock THEN Top.buf[e] ELSE disk.entry[e]) \in Record
    BY <1>2, <1>3, <1>7 DEF IsFrame, DiskTypes
  <2>2. disk'.entry \in [Entry -> Record]
    BY <1>6, <2>1
  <2>3. disk'.short \in [Dir -> BOOLEAN]
    BY <1>3, <1>4, <1>6 DEF DiskTypes
  <2> QED
    BY <1>3, <1>6, <2>2, <2>3 DEF DiskTypes
<1> QED
  BY <1>6, <1>7, <1>8, <1>9

\* All of the block has been dealt with: in the marking pass it is marked, in the
\* updating pass it has its new numbers and nothing is left to update below it.
LEMMA TopBlockContents ==
    ASSUME Sound, damage = "none", ~n_flag, phase # UNSET, pc = "write"
    PROVE  \A e \in Range(EntriesOf(Top.dir)) :
              /\ phase = 1 => Top.buf[e].high /\ Top.buf[e].inode = Number(e, disk.sb[0].ipg)
              /\ phase = 2 => /\ ~Top.buf[e].high /\ Top.buf[e].inode = Number(e, TheNewIpg)
                              /\ \A d \in Dir : Names(e, d) => Clean(d)
              /\ \A S \in SUBSET Dir : phase = 1 /\ Marking(S) => \A d \in Dir : Names(e, d) => d \in S
<1> SUFFICES ASSUME NEW e \in Range(EntriesOf(Top.dir))
             PROVE  /\ phase = 1 => Top.buf[e].high /\ Top.buf[e].inode = Number(e, disk.sb[0].ipg)
                    /\ phase = 2 => /\ ~Top.buf[e].high /\ Top.buf[e].inode = Number(e, TheNewIpg)
                                    /\ \A d \in Dir : Names(e, d) => Clean(d)
                    /\ \A S \in SUBSET Dir : phase = 1 /\ Marking(S) => \A d \in Dir : Names(e, d) => d \in S
  OBVIOUS
<1>1. /\ Len(stack) \in Nat /\ Len(stack) >= 1 /\ Top = stack[1] /\ IsFrame(Top) /\ StackInv /\ Top.dir \in Dir
      /\ (phase = 1 => \E S \in SUBSET Dir : Marking(S)) /\ (phase = 2 => Updating)
  BY InDirectory
<1>2. PICK k \in 1 .. Len(EntriesOf(Top.dir)) : EntriesOf(Top.dir)[k] = e
  BY <1>1, Entries
<1>3. k \in 1 .. Top.pos - 1
  <2>1. Top.pos > Len(EntriesOf(Top.dir)) /\ Top.pos \in Int /\ Len(EntriesOf(Top.dir)) \in Nat
    BY <1>1, Entries DEF StackInv, IsFrame
  <2> QED
    BY <2>1
<1>4. 1 \in 1 .. Len(stack)
  BY <1>1
<1>5. ASSUME NEW S \in SUBSET Dir, phase = 1, Marking(S)
      PROVE  /\ Top.buf[e].high /\ Top.buf[e].inode = Number(e, disk.sb[0].ipg)
             /\ \A d \in Dir : Names(e, d) => d \in S
  <2>1. MarkingFrame(Top, S)
    BY <1>1, <1>4, <1>5 DEF Marking
  <2> QED
    BY <1>2, <1>3, <2>1 DEF MarkingFrame
<1>6. ASSUME phase = 2
      PROVE  /\ ~Top.buf[e].high /\ Top.buf[e].inode = Number(e, TheNewIpg)
             /\ \A d \in Dir : Names(e, d) => Clean(d)
  <2>1. UpdatingFrame(Top)
    BY <1>1, <1>4, <1>6 DEF Updating
  <2>2. ~Top.buf[e].high
    BY <1>2, <1>3, <2>1 DEF UpdatingFrame
  <2> QED
    BY <2>1, <2>2 DEF UpdatingFrame
<1> QED
  BY <1>1, <1>5, <1>6

\* What is clean or marked stays so.
LEMMA BlockMonotone ==
    ASSUME Sound, damage = "none", ~n_flag, phase # UNSET, WriteBlock
    PROVE  /\ phase = 1 => /\ \A d \in Dir : Marked(d) => Marked(d)'
                           /\ \A e \in TopBlock : disk'.entry[e].high
                           /\ \A e \in Entry : disk.entry[e].high => disk'.entry[e].high
           /\ phase = 2 => /\ \A d \in Dir : Clean(d) => Clean(d)'
                           /\ \A e \in TopBlock : ~disk'.entry[e].high
                           /\ \A e \in Entry : ~disk.entry[e].high => ~disk'.entry[e].high
                           /\ LastBlock => ~disk'.short[Top.dir]
<1>1. pc = "write"
  BY DEF WriteBlock
<1>2. /\ \A e \in Entry : disk'.entry[e] = IF e \in TopBlock THEN Top.buf[e] ELSE disk.entry[e]
      /\ \A d \in Dir : disk'.short[d] = IF d = Top.dir /\ LastBlock THEN Top.short ELSE disk.short[d]
      /\ TopBlock \subseteq Range(EntriesOf(Top.dir)) /\ TopBlock \subseteq Entry
  BY TopBlockWritten
<1>3. Top.dir \in Dir /\ Top = stack[1] /\ (phase = 2 => Updating)
  BY <1>1, InDirectory
<1>4. ASSUME phase = 1
      PROVE  /\ \A d \in Dir : Marked(d) => Marked(d)'
             /\ \A e \in TopBlock : disk'.entry[e].high
             /\ \A e \in Entry : disk.entry[e].high => disk'.entry[e].high
  <2>1. \A e \in TopBlock : disk'.entry[e].high
    BY <1>1, <1>2, <1>4, TopBlockContents
  <2>2. \A e \in Entry : disk.entry[e].high => disk'.entry[e].high
    BY <1>2, <2>1
  <2>3. \A d \in Dir : Marked(d) => Marked(d)'
    BY <2>2, Entries DEF Marked
  <2> QED
    BY <2>1, <2>2, <2>3
<1>5. ASSUME phase = 2
      PROVE  /\ \A d \in Dir : Clean(d) => Clean(d)'
             /\ \A e \in TopBlock : ~disk'.entry[e].high
             /\ \A e \in Entry : ~disk.entry[e].high => ~disk'.entry[e].high
             /\ LastBlock => ~disk'.short[Top.dir]
  <2>1. \A e \in TopBlock : ~disk'.entry[e].high
    BY <1>1, <1>2, <1>5, TopBlockContents
  <2>2. \A e \in Entry : ~disk.entry[e].high => ~disk'.entry[e].high
    BY <1>2, <2>1
  <2>3. ~Top.short
    BY <1>1, <1>3, <1>5 DEF Updating
  <2>4. LastBlock => ~disk'.short[Top.dir]
    BY <1>2, <1>3, <2>3
  <2>5. \A d \in Dir : ~disk.short[d] => ~disk'.short[d]
    BY <1>2, <2>3
  <2>6. \A d \in Dir : Clean(d) => Clean(d)'
    BY <2>2, <2>5, Entries DEF Clean
  <2> QED
    BY <2>1, <2>2, <2>4, <2>6
<1> QED
  BY <1>4, <1>5

LEMMA BlockKeepsDisk ==
    ASSUME Sound, damage = "none", ~n_flag, phase # UNSET, WriteBlock
    PROVE  DiskInv'
<1>1. pc = "write"
  BY DEF WriteBlock
<1>2. /\ \A e \in Entry : disk'.entry[e] = IF e \in TopBlock THEN Top.buf[e] ELSE disk.entry[e]
      /\ TopBlock \subseteq Range(EntriesOf(Top.dir)) /\ TopBlock \subseteq Entry
      /\ DiskTypes' /\ UNCHANGED <<disk.magic, disk.sb, disk.bg, disk.stray>>
  BY TopBlockWritten
<1>3. DiskInv /\ disk.magic = phase /\ phase \in {1, 2}
  BY <1>1, InDirectory
<1>4. NumbersCount'
  <2>1. ASSUME NEW e \in Entry
        PROVE  disk'.entry[e].inode = Number(e, IF phase = 1 \/ disk'.entry[e].high THEN disk.sb[0].ipg ELSE TheNewIpg)
    <3>1. CASE e \in TopBlock
      <4>1. disk'.entry[e] = Top.buf[e] /\ e \in Range(EntriesOf(Top.dir))
        BY <1>2, <3>1
      <4> QED
        BY <1>1, <1>3, <4>1, TopBlockContents
    <3>2. CASE e \notin TopBlock
      <4>1. disk'.entry[e] = disk.entry[e]
        BY <1>2, <3>2
      <4> QED
        BY <1>3, <4>1 DEF DiskInv, NumbersCount
    <3> QED
      BY <3>1, <3>2
  <2> QED
    BY <1>2, <1>3, <2>1 DEF NumbersCount
<1>5. BottomUp'
  <2>1. ASSUME phase = 2, NEW e \in Entry, NEW d \in Dir, ~disk'.entry[e].high, Names(e, d) PROVE Clean(d)'
    <3>1. Clean(d)
      <4>1. CASE e \in TopBlock
        BY <1>1, <1>2, <2>1, <4>1, TopBlockContents
      <4>2. CASE e \notin TopBlock
        BY <1>2, <1>3, <2>1, <4>2 DEF DiskInv, BottomUp
      <4> QED
        BY <4>1, <4>2
    <3> QED
      BY <2>1, <3>1, BlockMonotone
  <2>2. disk'.magic = phase
    BY <1>2, <1>3
  <2> QED
    BY <1>3, <2>1, <2>2 DEF BottomUp
<1>6. PrimarySound'
  BY <1>2, <1>3 DEF DiskInv, PrimarySound
<1> QED
  BY <1>2, <1>4, <1>5, <1>6 DEF DiskInv

\* What has been written when the block is.
LEMMA WrittenSoFar ==
    ASSUME Sound, damage = "none", ~n_flag, phase # UNSET, WriteBlock,
           NEW x \in Entry, NEW j \in 1 .. Top.blk, x \in Range(Layout[Top.dir][j])
    PROVE  (phase = 1 => disk'.entry[x].high) /\ (phase = 2 => ~disk'.entry[x].high)
<1>1. pc = "write"
  BY DEF WriteBlock
<1>2. /\ Top = stack[1] /\ IsFrame(Top) /\ Top \in Frames /\ phase \in {1, 2}
      /\ (phase = 1 => \E S \in SUBSET Dir : Marking(S)) /\ (phase = 2 => Updating)
  BY <1>1, InDirectory
<1>3. Top.blk \in Nat
  BY <1>2, FrameFields
<1>4. CASE j = Top.blk
  BY <1>4, BlockMonotone DEF TopBlock
<1>5. CASE j # Top.blk
  <2>1. j \in 1 .. Top.blk - 1
    BY <1>3, <1>5
  <2>2. Written(x)
    BY <1>1, <1>2, <2>1 DEF Written
  <2>3. (phase = 1 => disk.entry[x].high) /\ (phase = 2 => ~disk.entry[x].high)
    BY <1>2, <2>2 DEF Marking, Updating
  <2> QED
    BY <2>3, BlockMonotone
<1> QED
  BY <1>4, <1>5

LEMMA DirectoryWritten ==
    ASSUME Sound, damage = "none", ~n_flag, phase # UNSET, WriteBlock, LastBlock,
           NEW c, c = Top.dir
    PROVE  (phase = 1 => Marked(c)') /\ (phase = 2 => Clean(c)')
<1>1. pc = "write"
  BY DEF WriteBlock
<1>2. Top.dir \in Dir /\ phase \in {1, 2}
  BY <1>1, InDirectory
<1>3. ASSUME NEW x \in Range(EntriesOf(c))
      PROVE  (phase = 1 => disk'.entry[x].high) /\ (phase = 2 => ~disk'.entry[x].high)
  <2>1. x \in Entry /\ \E j \in 1 .. Top.blk : x \in Range(Layout[Top.dir][j])
    BY <1>2, Entries DEF LastBlock
  <2> QED
    BY <2>1, WrittenSoFar
<1>4. phase = 2 => ~disk'.short[c]
  BY BlockMonotone
<1> QED
  BY <1>3, <1>4 DEF Marked, Clean

\* The next block of the same directory.
LEMMA BlockFrames ==
    ASSUME Sound, damage = "none", ~n_flag, phase # UNSET, WriteBlock, ~LastBlock
    PROVE  FramesInv' /\ pc' = "write"
<1>1. pc = "write" /\ pc' = "write" /\ phase' = phase
  BY DEF WriteBlock, LastBlock
<1>2. /\ Len(stack) \in Nat /\ Len(stack) >= 1 /\ Top = stack[1] /\ Top \in Frames /\ IsFrame(Top) /\ Top.dir \in Dir
      /\ phase \in {1, 2} /\ StackInv
      /\ (phase = 1 => \E S \in SUBSET Dir : Marking(S)) /\ (phase = 2 => Updating)
  BY <1>1, InDirectory
<1>3. PICK k \in Nat : k = Top.blk + 1 /\ k - 1 = Top.blk
  BY <1>2, FrameFields
<1>4. PICK b \in Frames : b = Changed(Top, Top.buf, Top.short, Top.pos, Top.back, k)
  BY <1>2, FrameFields, FrameChanged
<1>5. b.dir = Top.dir /\ b.buf = Top.buf /\ b.short = Top.short /\ b.pos = Top.pos /\ b.blk = k
  BY <1>4, ChangedFields
<1>6. stack' = <<b>> \o Tail(stack)
  <2>1. [Top EXCEPT !.blk = k] = b
    <3>1. [Top EXCEPT !.blk = k] = Changed(Top, Top.buf, Top.short, Top.pos, Top.back, k)
      BY <1>2, FrameExcept
    <3> QED
      BY <1>4, <3>1, Zenon
  <2>2. stack' = <<[Top EXCEPT !.blk = @ + 1]>> \o Tail(stack)
    BY Zenon DEF WriteBlock, LastBlock
  <2> QED
    BY <1>3, <2>1, <2>2, Zenon
<1>7. IsFrame(b)
  <2>1. k \in 1 .. Len(Layout[Top.dir])
    BY <1>2, <1>3, Entries DEF LastBlock, IsFrame
  <2> QED
    BY <1>2, <1>5, <2>1 DEF IsFrame
<1>8. b.pos > Len(EntriesOf(b.dir))
  BY <1>1, <1>2, <1>5 DEF StackInv
<1>9. /\ StackInv' /\ Len(stack') = Len(stack) /\ stack'[1] = b
      /\ \A i \in 2 .. Len(stack) : stack'[i] = stack[i]
      /\ \A i \in 1 .. Len(stack') : i = 1 \/ i \in 2 .. Len(stack)
  BY <1>1, <1>2, <1>5, <1>6, <1>7, <1>8, TopReplaced
<1>10. \A c \in Dir : ~ReturnedFrom(c)'
  BY <1>1 DEF ReturnedFrom
<1>11. \A i \in 2 .. Len(stack) : i \in 1 .. Len(stack)
  BY <1>2
<1>12. ASSUME NEW x \in Entry, Written(x)'
       PROVE  (phase = 1 => disk'.entry[x].high) /\ (phase = 2 => ~disk'.entry[x].high)
  <2>1. \E j \in 1 .. Top.blk : x \in Range(Layout[Top.dir][j])
    BY <1>3, <1>5, <1>9, <1>12 DEF Written
  <2> QED
    BY <2>1, WrittenSoFar
<1>13. disk'.sb = disk.sb
  BY TopBlockWritten
<1>14. ASSUME NEW S \in SUBSET Dir, Marking(S), phase = 1 PROVE Marking(S)'
  <2>1. MarkingFrame(Top, S)
    BY <1>2, <1>14 DEF Marking
  <2>2. MarkingFrame(b, S)
    BY <1>5, <2>1 DEF MarkingFrame
  <2>3. \A f : MarkingFrame(f, S) => MarkingFrame(f, S)'
    BY <1>13 DEF MarkingFrame
  <2>4. \A i \in 1 .. Len(stack') : MarkingFrame(stack'[i], S)
    BY <1>9, <1>11, <1>14, <2>2 DEF Marking
  <2>5. \A c \in Dir : Marked(c) => Marked(c)'
    BY <1>14, BlockMonotone
  <2> QED
    BY <1>10, <1>12, <1>14, <2>3, <2>4, <2>5 DEF Marking
<1>15. ASSUME phase = 2 PROVE Updating'
  <2>1. UpdatingFrame(Top) /\ ~Top.short
    BY <1>1, <1>2, <1>15 DEF Updating
  <2>2. UpdatingFrame(b)
    BY <1>5, <2>1 DEF UpdatingFrame
  <2>3. \A c \in Dir : Clean(c) => Clean(c)'
    BY <1>15, BlockMonotone
  <2>4. \A f : UpdatingFrame(f) => UpdatingFrame(f)'
    BY <1>13, <2>3 DEF UpdatingFrame
  <2>5. \A i \in 1 .. Len(stack') : UpdatingFrame(stack'[i])
    BY <1>2, <1>9, <1>11, <1>15, <2>2 DEF Updating
  <2>6. ~stack'[1].short
    BY <1>5, <1>9, <2>1
  <2> QED
    BY <1>10, <1>12, <1>15, <2>4, <2>5, <2>6 DEF Updating
<1> QED
  BY <1>1, <1>2, <1>9, <1>14, <1>15 DEF FramesInv

\* recurse_dir returns: the directory is done, and the one above it goes on.
LEMMA ReturnFrames ==
    ASSUME Sound, damage = "none", ~n_flag, phase # UNSET, WriteBlock, LastBlock, Len(stack) > 1
    PROVE  FramesInv' /\ pc' = "entry"
<1>1. pc = "write" /\ pc' = "entry" /\ phase' = phase /\ stack' = Tail(stack)
  <2>1. pc = "write" /\ phase' = phase
    BY DEF WriteBlock
  <2>2. ~(Len(stack) = 1)
    <3>1. PICK n \in Nat : n = Len(stack)
      BY <2>1, InDirectory
    <3>2. n > 1
      BY <3>1
    <3>3. n # 1
      BY <3>2
    <3> QED
      BY <3>1, <3>3
  <2>3. pc' = "entry" /\ stack' = Tail(stack)
    BY <2>2, Zenon DEF WriteBlock, LastBlock
  <2> QED
    BY <2>1, <2>3
<1>2. /\ Top = stack[1] /\ Top.dir \in Dir
      /\ phase \in {1, 2} /\ StackInv /\ stack # <<>> /\ stack \in Seq(Frames)
      /\ (phase = 1 => \E S \in SUBSET Dir : Marking(S)) /\ (phase = 2 => Updating)
  BY <1>1, InDirectory
<1>3. PICK n \in Nat : n = Len(stack) /\ n >= 1
  BY <1>1, InDirectory
<1>4. PICK c \in Dir : c = Top.dir
  BY <1>2
<1>5. n - 1 \in Nat /\ n - 1 >= 1 /\ (n - 1) + 1 = n /\ 1 \in 1 .. n /\ 1 \in 1 .. n - 1
  BY <1>3
<1>6. /\ stack' \in Seq(Frames) /\ Len(stack') = n - 1
      /\ \A i \in 1 .. n - 1 : stack'[i] = stack[i + 1]
  BY <1>1, <1>2, <1>3, HeadTailProperties
<1>7. \A i \in 1 .. n - 1 : i + 1 \in 1 .. n /\ i + 1 > 1
  BY <1>3
<1>8. /\ \A i \in 1 .. n : IsFrame(stack[i]) /\ (i > 1 => stack[i].blk = 1)
      /\ \A i \in 1 .. n - 1 : Linked(stack[i], stack[i + 1])
      /\ stack[n].dir = Root
  BY <1>2, <1>3 DEF StackInv
<1>9. StackInv'
  <2>1. \A i \in 1 .. n - 1 : IsFrame(stack'[i]) /\ stack'[i].blk = 1
    BY <1>6, <1>7, <1>8
  <2>2. stack'[n - 1].dir = Root
    <3>1. n - 1 \in 1 .. n - 1
      BY <1>5
    <3> QED
      BY <1>5, <1>6, <1>8, <3>1
  <2>3. ASSUME NEW i \in 1 .. (n - 1) - 1 PROVE Linked(stack'[i], stack'[i + 1])
    <3>1. i \in 1 .. n - 1 /\ i + 1 \in 1 .. n - 1
      BY <1>3
    <3> QED
      BY <1>6, <1>8, <3>1
  <2>4. stack' # <<>>
    BY <1>5, <1>6, EmptySeq
  <2> QED
    BY <1>1, <1>6, <2>1, <2>2, <2>3, <2>4 DEF StackInv
<1>10. ASSUME NEW d \in Dir, ReturnedFrom(d)' PROVE d = c
  <2>1. Linked(stack[1], stack[1 + 1]) /\ stack'[1] = stack[1 + 1]
    BY <1>5, <1>6, <1>8
  <2>2. PICK e : e = EntriesOf(stack'[1].dir)[stack'[1].pos]
    OBVIOUS
  <2>3. Names(e, c)
    BY <1>2, <1>4, <2>1, <2>2 DEF Linked
  <2>4. Names(e, d)
    BY <1>10, <2>2 DEF ReturnedFrom
  <2> QED
    BY <2>3, <2>4, TreeAssumption DEF Names
<1>11. \A x \in Entry : ~Written(x)'
  BY <1>1 DEF Written
<1>12. disk'.sb = disk.sb
  BY TopBlockWritten
<1>13. ASSUME NEW S \in SUBSET Dir, Marking(S), phase = 1 PROVE \E U \in SUBSET Dir : Marking(U)'
  <2>1. PICK U \in SUBSET Dir : U = S \cup {c}
    BY <1>4
  <2>2. \A f : MarkingFrame(f, S) => MarkingFrame(f, U)'
    BY <1>12, <2>1 DEF MarkingFrame
  <2>3. \A i \in 1 .. n - 1 : MarkingFrame(stack'[i], S)
    BY <1>3, <1>6, <1>7, <1>13 DEF Marking
  <2>4. \A d \in U : Marked(d)'
    <3>1. Marked(c)'
      BY <1>4, <1>13, DirectoryWritten
    <3>2. \A d \in Dir : Marked(d) => Marked(d)'
      BY <1>13, BlockMonotone
    <3> QED
      BY <1>13, <2>1, <3>1, <3>2 DEF Marking
  <2>5. \A d \in U, k \in Dir : (\E e \in Range(EntriesOf(d)) : Names(e, k)) => k \in U
    <3>1. \A k \in Dir : (\E e \in Range(EntriesOf(c)) : Names(e, k)) => k \in S
      BY <1>1, <1>4, <1>13, TopBlockContents
    <3> QED
      BY <1>13, <2>1, <3>1 DEF Marking
  <2>6. \A d \in Dir : ReturnedFrom(d)' => d \in U
    BY <1>10, <2>1
  <2>7. Marking(U)'
    BY <1>6, <1>11, <2>2, <2>3, <2>4, <2>5, <2>6 DEF Marking
  <2> QED
    BY <2>7
<1>14. ASSUME phase = 2 PROVE Updating'
  <2>1. Clean(c)'
    BY <1>4, <1>14, DirectoryWritten
  <2>2. \A d \in Dir : Clean(d) => Clean(d)'
    BY <1>14, BlockMonotone
  <2>3. \A f : UpdatingFrame(f) => UpdatingFrame(f)'
    BY <1>12, <2>2 DEF UpdatingFrame
  <2>4. \A i \in 1 .. n - 1 : UpdatingFrame(stack'[i])
    BY <1>2, <1>3, <1>6, <1>7, <1>14 DEF Updating
  <2> QED
    BY <1>1, <1>6, <1>10, <1>11, <2>1, <2>3, <2>4 DEF Updating
<1> QED
  BY <1>1, <1>2, <1>9, <1>13, <1>14 DEF FramesInv

\* The pass is over when the root is written: it has been to every directory
\* that can be reached, and those are all.
LEMMA PassEnds ==
    ASSUME Sound, damage = "none", ~n_flag, phase # UNSET, WriteBlock, LastBlock, Len(stack) = 1
    PROVE  (phase = 1 => \A d \in Dir : Marked(d)') /\ (phase = 2 => \A d \in Dir : Clean(d)')
<1>1. pc = "write"
  BY DEF WriteBlock
<1>2. /\ Top = stack[1] /\ phase \in {1, 2} /\ StackInv /\ disk.magic = phase
      /\ (phase = 1 => \E S \in SUBSET Dir : Marking(S))
  BY <1>1, InDirectory
<1>3. Top.dir = Root /\ Root \in Dir
  BY <1>2, TreeAssumption DEF StackInv
<1>4. \A S \in SUBSET Dir :
          Root \in S /\ (\A d \in S, c \in Dir : (\E e \in Range(EntriesOf(d)) : Names(e, c)) => c \in S) => S = Dir
  BY TreeAssumption
<1>5. ASSUME phase = 1 PROVE \A d \in Dir : Marked(d)'
  <2>1. PICK S \in SUBSET Dir : Marking(S)
    BY <1>2, <1>5
  <2>2. PICK U \in SUBSET Dir : U = S \cup {Root}
    BY <1>3
  <2>3. \A d \in U, k \in Dir : (\E e \in Range(EntriesOf(d)) : Names(e, k)) => k \in U
    <3>1. \A k \in Dir : (\E e \in Range(EntriesOf(Root)) : Names(e, k)) => k \in S
      BY <1>1, <1>3, <1>5, <2>1, TopBlockContents
    <3> QED
      BY <2>1, <2>2, <3>1 DEF Marking
  <2>4. U = Dir
    BY <1>4, <2>2, <2>3
  <2>5. \A d \in U : Marked(d)'
    <3>1. Marked(Root)'
      BY <1>3, <1>5, DirectoryWritten
    <3>2. \A d \in Dir : Marked(d) => Marked(d)'
      BY <1>5, BlockMonotone
    <3> QED
      BY <2>1, <2>2, <3>1, <3>2 DEF Marking
  <2> QED
    BY <2>4, <2>5
<1>6. ASSUME phase = 2 PROVE \A d \in Dir : Clean(d)'
  <2>1. PICK U \in SUBSET Dir : \A d \in Dir : d \in U <=> Clean(d)'
    <3>1. {d \in Dir : Clean(d)'} \in SUBSET Dir
      OBVIOUS
    <3> QED
      BY <3>1
  <2>2. Root \in U
    BY <1>3, <1>6, <2>1, DirectoryWritten
  <2>3. ASSUME NEW d \in U, NEW k \in Dir, NEW e \in Range(EntriesOf(d)), Names(e, k) PROVE k \in U
    <3>1. e \in Entry /\ ~disk'.entry[e].high
      BY <2>1, <2>3, Entries DEF Clean
    <3>2. disk'.magic = 2
      BY <1>2, <1>6, TopBlockWritten
    <3>3. Clean(k)'
      BY <2>3, <3>1, <3>2, BlockKeepsDisk DEF DiskInv, BottomUp
    <3> QED
      BY <2>1, <3>3
  <2>4. U = Dir
    BY <1>4, <2>2, <2>3
  <2> QED
    BY <2>1, <2>4
<1> QED
  BY <1>5, <1>6

LEMMA WriteBlockKeeps ==
    ASSUME Sound, damage = "none", WriteBlock
    PROVE  Sound'
<1>1. /\ pc = "write" /\ UNCHANGED <<phase, n_flag, ipg, newIpg>>
  BY DEF WriteBlock
<1>2. \/ pc' = "write" /\ ~LastBlock
      \/ pc' = "entry" /\ LastBlock /\ Len(stack) > 1
      \/ pc' = "magic" /\ LastBlock /\ Len(stack) = 1 /\ phase # UNSET
      \/ pc' = "bitmap" /\ phase = UNSET
  BY DEF WriteBlock, LastBlock
<1>3. RunInv /\ phase \in {0, 1, 2} /\ newIpg = TheNewIpg
  BY <1>1 DEF Sound, RunInv
<1>4. RunInv'
  BY <1>1, <1>2, <1>3 DEF RunInv, Places
<1>5. CASE n_flag \/ phase = UNSET
  <2>1. disk' = disk
    BY <1>5 DEF WriteBlock, Write, no_write
  <2>2. DiskInv'
    BY <2>1, DiskKept DEF Sound
  <2>3. ASSUME ~n_flag PROVE Progress'
    <3>1. phase = 0 /\ disk.magic = 0 /\ ipg = disk.sb[0].ipg
      BY <1>1, <1>3, <1>5, <2>3 DEF Sound, Progress, PhaseInv
    <3>2. PhaseInv'
      BY <1>1, <1>2, <2>1, <3>1 DEF PhaseInv
    <3>3. phase' = 0 /\ pc' # "phase" /\ pc' # "done"
      BY <1>1, <1>2, <3>1
    <3>4. SuperblockInv'
      BY <3>3 DEF SuperblockInv
    <3>5. FinishedInv'
      BY <3>3 DEF FinishedInv
    <3>6. FramesInv'
      BY <3>3 DEF FramesInv
    <3> QED
      BY <3>2, <3>4, <3>5, <3>6 DEF Progress
  <2> QED
    BY <1>1, <1>4, <2>2, <2>3 DEF Sound
<1>6. CASE ~n_flag /\ phase # UNSET
  <2>1. DiskInv'
    BY <1>6, BlockKeepsDisk
  <2>2. disk.magic = phase /\ ipg = disk.sb[0].ipg /\ UNCHANGED <<disk.magic, disk.sb>>
    BY <1>1, <1>6, InDirectory, TopBlockWritten
  <2>3. pc' \in {"entry", "write", "magic"}
    BY <1>2, <1>6
  <2>4. FramesInv'
    <3>1. CASE pc' = "write"
      BY <1>2, <1>6, <3>1, BlockFrames
    <3>2. CASE pc' = "entry"
      BY <1>2, <1>6, <3>2, ReturnFrames
    <3>3. CASE pc' = "magic"
      BY <3>3 DEF FramesInv
    <3> QED
      BY <2>3, <3>1, <3>2, <3>3
  <2>5. pc' = "magic" => (phase = 1 => \A d \in Dir : Marked(d)') /\ (phase = 2 => \A d \in Dir : Clean(d)')
    BY <1>2, <1>6, PassEnds
  <2>6. PhaseInv'
    BY <1>1, <1>3, <2>2, <2>3, <2>5 DEF PhaseInv
  <2>7. phase' # 3 /\ pc' # "phase" /\ pc' # "done"
    BY <1>1, <1>3, <2>3
  <2> QED
    BY <1>1, <1>4, <2>1, <2>4, <2>6, <2>7 DEF Sound, Progress, SuperblockInv, FinishedInv
<1> QED
  BY <1>3, <1>5, <1>6 DEF RunInv

-----------------------------------------------------------------------------
(* Bitmaps and superblocks.                                                *)

\* A step of update_superblocks_and_bg_desc that writes nothing, in the sanity
\* pass or with -n.
LEMMA SanityStep ==
    ASSUME Sound, n_flag \/ phase = UNSET, pc \in {"bitmap", "sb", "bg"},
           pc' \in {"bitmap", "sb", "bg", "magic"}, UNCHANGED <<disk, phase, n_flag, ipg, newIpg>>
    PROVE  Sound'
<1>1. DiskInv'
  BY DiskKept DEF Sound
<1>2. RunInv /\ phase \in {0, 3}
  BY DEF Sound, RunInv
<1>3. RunInv'
  BY <1>2 DEF RunInv, Places
<1>4. ASSUME ~n_flag PROVE Progress'
  <2>1. PhaseInv /\ phase = 0 /\ phase' = 0
    BY <1>2, <1>4 DEF Sound, Progress
  <2>2. disk.magic = 0 /\ ipg = disk.sb[0].ipg
    BY <2>1 DEF PhaseInv
  <2>3. PhaseInv'
    BY <2>1, <2>2 DEF PhaseInv
  <2>4. SuperblockInv'
    BY <2>1 DEF SuperblockInv
  <2>5. FinishedInv' /\ FramesInv'
    BY DEF FinishedInv, FramesInv
  <2> QED
    BY <2>3, <2>4, <2>5 DEF Progress
<1> QED
  BY <1>1, <1>3, <1>4 DEF Sound

\* What holds of a run that writes bitmaps and superblocks.
LEMMA InSuperblocks ==
    ASSUME Sound, ~n_flag, phase = UPDATING_SB, pc \in {"bitmap", "sb", "bg", "magic", "low"}
    PROVE  /\ DiskInv /\ DiskTypes /\ NumbersCount /\ BottomUp /\ PrimarySound /\ RunInv /\ PhaseInv /\ SuperblockInv
           /\ pc # "low" => disk.magic = 3
           /\ pc = "bitmap" => ipg = disk.sb[0].ipg
           /\ newIpg = TheNewIpg /\ group \in 0 .. Groups /\ group \in Int
           /\ \A d \in Dir : Clean(d)
<1>1. DiskInv /\ RunInv /\ PhaseInv /\ SuperblockInv
  BY DEF Sound, Progress
<1>2. group \in 0 .. Groups /\ \A d \in Dir : Clean(d)
  BY <1>1 DEF SuperblockInv
<1> QED
  BY <1>1, <1>2, Sizes DEF DiskInv, RunInv, PhaseInv

LEMMA SuperblockStep ==
    ASSUME Sound, ~n_flag, phase = UPDATING_SB, pc \in {"bitmap", "sb", "bg"},
           pc' \in {"bitmap", "sb", "bg", "magic"}, UNCHANGED <<phase, n_flag, ipg, newIpg>>,
           disk'.magic = disk.magic, pc' = "bitmap" => pc = "bitmap" /\ disk'.sb[0].ipg = disk.sb[0].ipg,
           DiskInv', SuperblockInv'
    PROVE  Sound'
<1>1. RunInv /\ PhaseInv /\ disk.magic = 3 /\ (pc = "bitmap" => ipg = disk.sb[0].ipg)
  BY InSuperblocks
<1>2. RunInv'
  BY <1>1 DEF RunInv, Places
<1>3. PhaseInv'
  BY <1>1 DEF PhaseInv
<1>4. FinishedInv' /\ FramesInv'
  BY DEF FinishedInv, FramesInv
<1> QED
  BY <1>2, <1>3, <1>4 DEF Sound, Progress

LEMMA CheckBitmapKeeps ==
    ASSUME Sound, CheckBitmap
    PROVE  Sound'
<1>1. pc = "bitmap" /\ pc' = "bitmap" /\ group < Groups /\ group' = group + 1 /\ UNCHANGED <<phase, n_flag, ipg, newIpg, sb>>
  BY DEF CheckBitmap
<1>2. phase \in {0, 3} /\ n_flag \in BOOLEAN
  BY <1>1 DEF Sound, RunInv
<1>3. CASE n_flag \/ phase = UNSET
  <2>1. disk' = disk
    BY <1>3 DEF CheckBitmap, Write, no_write
  <2> QED
    BY <1>1, <1>3, <2>1, SanityStep
<1>4. CASE ~n_flag /\ phase = UPDATING_SB
  <2>1. /\ DiskInv /\ DiskTypes /\ NumbersCount /\ BottomUp /\ PrimarySound /\ SuperblockInv
        /\ ipg = disk.sb[0].ipg /\ newIpg = TheNewIpg /\ group \in Int /\ group \in 0 .. Groups
        /\ \A d \in Dir : Clean(d)
    BY <1>1, <1>4, InSuperblocks
  <2>2. group \in Group /\ group' \in 0 .. Groups
    BY <1>1, <2>1, Sizes DEF Group
  <2>3. PICK v \in BOOLEAN : v = (disk.stray[group] /\ ipg = newIpg)
    OBVIOUS
  <2>4. disk' = [disk EXCEPT !.stray[group] = v]
    <3>1. ~no_write
      BY <1>4 DEF no_write
    <3> QED
      BY <2>3, <3>1, Zenon DEF CheckBitmap, Write
  <2>5. /\ disk'.stray = [disk.stray EXCEPT ![group] = v]
        /\ UNCHANGED <<disk.magic, disk.entry, disk.short, disk.sb, disk.bg>>
        /\ disk' = Disk(disk'.magic, disk'.entry, disk'.short, disk'.sb, disk'.bg, disk'.stray)
    BY <2>1, <2>4, BitmapWritten
  <2>6. disk'.stray \in [Group -> BOOLEAN] /\ disk'.stray[group] = v
        /\ \A g \in Group : g # group => disk'.stray[g] = disk.stray[g]
    BY <2>1, <2>2, <2>5 DEF DiskTypes
  <2>7. (v => disk.stray[group]) /\ (ipg # newIpg => ~v)
    BY <2>3, Zenon
  <2>8. \A g \in Group : ~disk.stray[g] => ~disk'.stray[g]
    BY <2>6, <2>7
  <2>9. DiskInv'
    <3>1. DiskTypes'
      BY <2>1, <2>5, <2>6 DEF DiskTypes
    <3>2. NumbersCount' /\ BottomUp'
      BY <2>1, <2>5 DEF NumbersCount, BottomUp, Clean
    <3>3. PrimarySound'
      BY <2>1, <2>5, <2>8 DEF PrimarySound
    <3> QED
      BY <3>1, <3>2, <3>3 DEF DiskInv
  <2>10. SuperblockInv'
    <3>1. sb = disk.sb[0] /\ (ipg # TheNewIpg => \A g \in Group : g < group => ~disk.stray[g])
      BY <1>1, <1>4, <2>1 DEF SuperblockInv
    <3>2. ASSUME ipg # TheNewIpg, NEW g \in Group, g < group' PROVE ~disk'.stray[g]
      <4>1. g = group \/ g < group
        BY <1>1, <2>1, <3>2, Sizes DEF Group
      <4> QED
        BY <2>1, <2>6, <2>7, <2>8, <3>1, <3>2, <4>1
    <3>3. \A d \in Dir : Clean(d)'
      BY <2>1, <2>5 DEF Clean
    <3> QED
      BY <1>1, <2>2, <2>5, <3>1, <3>2, <3>3 DEF SuperblockInv
  <2> QED
    BY <1>1, <1>4, <2>5, <2>9, <2>10, SuperblockStep
<1> QED
  BY <1>2, <1>3, <1>4

\* The counts of new inodes add up (CountIsSane).
LEMMA SuperblockUpdated ==
    ASSUME NEW n \in {OldIpg, TheNewIpg}, NEW low, sb = SuperblockOf(n, low), newIpg = TheNewIpg
    PROVE  [sb EXCEPT !.count = @ + Groups * NewInodes, !.free = @ + Groups * NewInodes, !.ipg = newIpg]
             = SuperblockOf(TheNewIpg, low)
<1>1. sb.ipg = n /\ sb.count = n * Groups /\ sb.free = (FreeInodes + n - OldIpg) * Groups /\ sb.low = low
  BY SuperblockFields
<1>2. n \in Int /\ TheNewIpg \in Int /\ OldIpg \in Int /\ FreeInodes \in Int /\ Groups \in Int
  BY Sizes, Aligned
<1>3. \A a, b, o, f, g \in Int :
         a * g + g * (b - a) = b * g /\ (f + a - o) * g + g * (b - a) = (f + b - o) * g
  OBVIOUS
<1>4. PICK c, r : c = sb.count + Groups * NewInodes /\ r = sb.free + Groups * NewInodes
  OBVIOUS
<1>5. c = TheNewIpg * Groups /\ r = (FreeInodes + TheNewIpg - OldIpg) * Groups
  BY <1>1, <1>2, <1>3, <1>4 DEF NewInodes
<1>6. PICK m, s, t, u :
         m = newIpg /\ s = [sb EXCEPT !.count = c] /\ t = [s EXCEPT !.free = r] /\ u = [t EXCEPT !.ipg = m]
  OBVIOUS
<1>7. s = [ipg |-> n, count |-> c, free |-> (FreeInodes + n - OldIpg) * Groups, low |-> low]
  BY <1>6 DEF SuperblockOf
<1>8. t = [ipg |-> n, count |-> c, free |-> r, low |-> low] /\ s.free = sb.free
  BY <1>1, <1>6, <1>7
<1>9. u = [ipg |-> m, count |-> c, free |-> r, low |-> low]
  <2>1. u = [t EXCEPT !.ipg = m]
    BY <1>6
  <2> QED
    BY <1>8, <2>1
<1>10. [sb EXCEPT !.count = @ + Groups * NewInodes, !.free = @ + Groups * NewInodes, !.ipg = newIpg] = u
  BY <1>4, <1>6, <1>8, Zenon
<1> QED
  BY <1>5, <1>6, <1>9, <1>10 DEF SuperblockOf

LEMMA UpdateSuperblockKeeps ==
    ASSUME Sound, UpdateSuperblock
    PROVE  Sound'
<1>1. pc = "bitmap" /\ pc' = "sb" /\ group = Groups /\ group' = 0 /\ UNCHANGED <<disk, phase, n_flag, ipg, newIpg>>
  BY DEF UpdateSuperblock
<1>2. phase \in {0, 3} /\ n_flag \in BOOLEAN
  BY <1>1 DEF Sound, RunInv
<1>3. CASE n_flag \/ phase = UNSET
  BY <1>1, <1>3, SanityStep
<1>4. CASE ~n_flag /\ phase = UPDATING_SB
  <2>1. /\ DiskInv /\ PrimarySound /\ SuperblockInv
        /\ ipg = disk.sb[0].ipg /\ newIpg = TheNewIpg /\ \A d \in Dir : Clean(d)
    BY <1>1, <1>4, InSuperblocks
  <2>2. sb = disk.sb[0] /\ (ipg # TheNewIpg => \A g \in Group : g < group => ~disk.stray[g])
    BY <1>1, <1>4, <2>1 DEF SuperblockInv
  <2>3. TheNewIpg # OldIpg => \A g \in Group : ~disk.stray[g]
    <3>1. \A g \in Group : g < Groups
      BY Sizes DEF Group
    <3> QED
      BY <1>1, <2>1, <2>2, <3>1 DEF PrimarySound
  <2>4. PICK low \in BOOLEAN : sb = SuperblockOf(ipg, low) /\ ipg \in {OldIpg, TheNewIpg}
    BY <2>1, <2>2 DEF PrimarySound
  <2>5. sb' = SuperblockOf(TheNewIpg, low)
    BY <2>1, <2>4, SuperblockUpdated, Zenon DEF UpdateSuperblock
  <2>6. sb' \in {SuperblockOf(TheNewIpg, TRUE), SuperblockOf(TheNewIpg, FALSE)}
    BY <2>5, Zenon
  <2>7. CopiesWritten(group)' /\ group' \in 0 .. Groups
    <3>1. \A s \in Super : ~(s < 0)
      BY LayoutAssumption, Sizes DEF Group
    <3>2. group' = 0 /\ 0 \in 0 .. Groups
      BY <1>1, Sizes
    <3>3. \A s \in Super : ~(s < group')
      BY <3>1, <3>2
    <3> QED
      BY <3>2, <3>3 DEF CopiesWritten
  <2>8. \A d \in Dir : Clean(d)'
    BY <1>1, <2>1 DEF Clean
  <2>9. SuperblockInv'
    <3>1. pc' = "sb" /\ ~(group' > 0) /\ disk' = disk
      BY <1>1
    <3> QED
      BY <2>3, <2>6, <2>7, <2>8, <3>1 DEF SuperblockInv
  <2>10. DiskInv'
    BY <1>1, <2>1, DiskKept
  <2> QED
    BY <1>1, <1>4, <2>9, <2>10, SuperblockStep
<1> QED
  BY <1>2, <1>3, <1>4

LEMMA WriteSuperblockKeeps ==
    ASSUME Sound, WriteSuperblock
    PROVE  Sound'
<1>1. pc = "sb" /\ group < Groups /\ UNCHANGED <<phase, n_flag, ipg, newIpg>> /\ pc' \in {"sb", "bg"}
  BY DEF WriteSuperblock
<1>2. phase \in {0, 3} /\ n_flag \in BOOLEAN
  BY <1>1 DEF Sound, RunInv
<1>3. CASE n_flag \/ phase = UNSET
  <2>1. disk' = disk
    BY <1>3 DEF WriteSuperblock, Write, no_write
  <2> QED
    BY <1>1, <1>3, <2>1, SanityStep
<1>4. ASSUME ~n_flag, phase = UPDATING_SB PROVE Sound'
  <2>1. /\ DiskInv /\ DiskTypes /\ NumbersCount /\ BottomUp /\ PrimarySound /\ SuperblockInv /\ disk.magic = 3
        /\ newIpg = TheNewIpg /\ group \in Int /\ group \in 0 .. Groups /\ \A d \in Dir : Clean(d)
    BY <1>1, <1>4, InSuperblocks
  <2>2. /\ sb \in {SuperblockOf(TheNewIpg, TRUE), SuperblockOf(TheNewIpg, FALSE)}
        /\ TheNewIpg # OldIpg => \A g \in Group : ~disk.stray[g]
        /\ group > 0 => disk.sb[0].ipg = TheNewIpg
        /\ CopiesWritten(group)
    BY <1>1, <1>4, <2>1 DEF SuperblockInv
  <2>3. 0 \in Super /\ Super \subseteq Group
    BY LayoutAssumption
  <2>4. ASSUME group \notin Super, group' = group + 1, UNCHANGED <<disk, pc, sb>> PROVE Sound'
    <3>1. group # 0 /\ group > 0 /\ group' \in 0 .. Groups
      BY <1>1, <2>1, <2>3, <2>4, Sizes
    <3>2. CopiesWritten(group)'
      <4>1. ASSUME NEW s \in Super, s # 0, s < group' PROVE s < group
        BY <2>1, <2>3, <2>4, <4>1, Sizes DEF Group
      <4> QED
        BY <2>2, <2>4, <4>1 DEF CopiesWritten
    <3>3. \A d \in Dir : Clean(d)'
      BY <2>1, <2>4 DEF Clean
    <3>4. SuperblockInv'
      BY <1>1, <1>4, <2>2, <2>4, <3>1, <3>2, <3>3 DEF SuperblockInv
    <3>5. DiskInv'
      BY <2>1, <2>4, DiskKept
    <3> QED
      BY <1>1, <1>4, <2>4, <3>4, <3>5, SuperblockStep
  <2>5. ASSUME group \in Super, pc' = "bg", group' = group, sb' = [sb EXCEPT !.low = @ /\ group = 0],
               Write([disk EXCEPT !.sb[group] = sb'])
        PROVE  Sound'
    <3>1. PICK low \in BOOLEAN : sb = SuperblockOf(TheNewIpg, low)
      BY <2>2
    <3>2. PICK l \in BOOLEAN : l = (sb.low /\ group = 0)
      OBVIOUS
    <3>3. PICK new : new = sb'
      OBVIOUS
    <3>4. new = SuperblockOf(TheNewIpg, l)
      <4>1. \A v : [sb EXCEPT !.low = v] = SuperblockOf(TheNewIpg, v)
        BY <3>1, SuperblockFields
      <4> QED
        BY <2>5, <3>2, <3>3, <4>1, Zenon
    <3>5. group # 0 => new = SuperblockOf(TheNewIpg, FALSE)
      <4>1. group # 0 => ~l
        BY <3>2, Zenon
      <4> QED
        BY <3>4, <4>1, Zenon
    <3>6. new \in {SuperblockOf(TheNewIpg, TRUE), SuperblockOf(TheNewIpg, FALSE)}
      BY <3>4, Zenon
    <3>7. disk' = [disk EXCEPT !.sb[group] = new]
      <4>1. ~no_write
        BY <1>4 DEF no_write
      <4> QED
        BY <2>5, <3>3, <4>1, Zenon DEF Write
    <3>8. /\ disk'.sb = [disk.sb EXCEPT ![group] = new]
          /\ UNCHANGED <<disk.magic, disk.entry, disk.short, disk.bg, disk.stray>>
          /\ disk' = Disk(disk'.magic, disk'.entry, disk'.short, disk'.sb, disk'.bg, disk'.stray)
      BY <2>1, <3>7, SuperblockWritten
    <3>9. DOMAIN disk'.sb = Super /\ disk'.sb[group] = new /\ \A s \in Super : s # group => disk'.sb[s] = disk.sb[s]
      BY <2>1, <2>5, <3>8 DEF DiskTypes
    <3>10. new.ipg = TheNewIpg /\ new.low = l
      BY <3>4, SuperblockFields
    <3>11. disk'.sb[0].ipg = TheNewIpg
      <4>1. CASE group = 0
        BY <3>9, <3>10, <4>1
      <4>2. CASE group # 0
        BY <2>1, <2>2, <2>3, <3>9, <4>2
      <4> QED
        BY <4>1, <4>2
    <3>12. PrimarySound'
      <4>1. disk'.sb[0].low \in BOOLEAN /\ disk'.sb[0] = SuperblockOf(disk'.sb[0].ipg, disk'.sb[0].low)
        <5>1. CASE group = 0
          BY <3>4, <3>9, <3>10, <5>1
        <5>2. CASE group # 0
          BY <2>1, <2>3, <3>9, <5>2 DEF PrimarySound
        <5> QED
          BY <5>1, <5>2
      <4> QED
        BY <2>2, <3>8, <3>11, <4>1 DEF PrimarySound
    <3>13. DiskInv'
      <4>1. DiskTypes'
        BY <2>1, <3>8, <3>9 DEF DiskTypes
      <4>2. NumbersCount'
        BY <2>1, <3>8 DEF NumbersCount
      <4>3. BottomUp'
        BY <2>1, <3>8 DEF BottomUp, Clean
      <4> QED
        BY <3>12, <4>1, <4>2, <4>3 DEF DiskInv
    <3>14. CopiesWritten(group + 1)'
      <4>1. ASSUME NEW s \in Super, s # 0, s < group + 1 PROVE disk'.sb[s] = SuperblockOf(TheNewIpg, FALSE)
        <5>1. s = group \/ (s # group /\ s < group)
          BY <2>1, <2>3, <4>1, Sizes DEF Group
        <5> QED
          BY <2>2, <3>5, <3>9, <4>1, <5>1 DEF CopiesWritten
      <4> QED
        BY <2>5, <4>1 DEF CopiesWritten
    <3>15. \A d \in Dir : Clean(d)'
      BY <2>1, <3>8 DEF Clean
    <3>16. SuperblockInv'
      BY <2>1, <2>2, <2>5, <1>1, <1>4, <3>3, <3>6, <3>8, <3>11, <3>14, <3>15 DEF SuperblockInv
    <3> QED
      BY <1>1, <1>4, <2>5, <3>8, <3>13, <3>16, SuperblockStep
  <2> QED
    BY <2>4, <2>5 DEF WriteSuperblock
<1> QED
  BY <1>2, <1>3, <1>4

LEMMA WriteDescriptorsKeeps ==
    ASSUME Sound, WriteDescriptors
    PROVE  Sound'
<1>1. pc = "bg" /\ pc' = "sb" /\ group' = group + 1 /\ UNCHANGED <<phase, n_flag, ipg, newIpg, sb>>
  BY DEF WriteDescriptors
<1>2. phase \in {0, 3} /\ n_flag \in BOOLEAN
  BY <1>1 DEF Sound, RunInv
<1>3. CASE n_flag \/ phase = UNSET
  <2>1. disk' = disk
    BY <1>3 DEF WriteDescriptors, Write, no_write
  <2> QED
    BY <1>1, <1>3, <2>1, SanityStep
<1>4. ASSUME ~n_flag, phase = UPDATING_SB PROVE Sound'
  <2>1. /\ DiskInv /\ DiskTypes /\ NumbersCount /\ BottomUp /\ PrimarySound /\ SuperblockInv
        /\ group \in Int /\ group \in 0 .. Groups /\ \A d \in Dir : Clean(d)
    BY <1>1, <1>4, InSuperblocks
  <2>2. /\ sb \in {SuperblockOf(TheNewIpg, TRUE), SuperblockOf(TheNewIpg, FALSE)}
        /\ TheNewIpg # OldIpg => \A g \in Group : ~disk.stray[g]
        /\ disk.sb[0].ipg = TheNewIpg /\ CopiesWritten(group + 1) /\ group \in Super
    BY <1>1, <1>4, <2>1 DEF SuperblockInv
  <2>3. group \in Group /\ group' \in 0 .. Groups
    BY <1>1, <2>1, <2>2, LayoutAssumption, Sizes DEF Group
  <2>4. disk' = [disk EXCEPT !.bg[group] = bg_desc]
    <3>1. ~no_write
      BY <1>4 DEF no_write
    <3> QED
      BY <3>1, Zenon DEF WriteDescriptors, Write
  <2>5. /\ disk'.bg = [disk.bg EXCEPT ![group] = bg_desc]
        /\ UNCHANGED <<disk.magic, disk.entry, disk.short, disk.sb, disk.stray>>
        /\ disk' = Disk(disk'.magic, disk'.entry, disk'.short, disk'.sb, disk'.bg, disk'.stray)
    BY <2>1, <2>4, DescriptorsWritten
  <2>6. DiskInv'
    <3>1. DiskTypes'
      BY <2>1, <2>5 DEF DiskTypes
    <3>2. NumbersCount' /\ BottomUp' /\ PrimarySound'
      BY <2>1, <2>5 DEF NumbersCount, BottomUp, Clean, PrimarySound
    <3> QED
      BY <3>1, <3>2 DEF DiskInv
  <2>7. CopiesWritten(group)'
    BY <1>1, <2>2, <2>5 DEF CopiesWritten
  <2>8. \A d \in Dir : Clean(d)'
    BY <2>1, <2>5 DEF Clean
  <2>9. SuperblockInv'
    BY <1>1, <2>2, <2>3, <2>5, <2>7, <2>8 DEF SuperblockInv
  <2> QED
    BY <1>1, <1>4, <2>5, <2>6, <2>9, SuperblockStep
<1> QED
  BY <1>2, <1>3, <1>4

LEMMA SuperblocksWrittenKeeps ==
    ASSUME Sound, SuperblocksWritten
    PROVE  Sound'
<1>1. pc = "sb" /\ pc' = "magic" /\ group = Groups /\ UNCHANGED <<disk, phase, n_flag, ipg, newIpg, sb, group>>
  BY DEF SuperblocksWritten, toolVars
<1>2. phase \in {0, 3} /\ n_flag \in BOOLEAN
  BY <1>1 DEF Sound, RunInv
<1>3. CASE n_flag \/ phase = UNSET
  BY <1>1, <1>3, SanityStep
<1>4. ASSUME ~n_flag, phase = UPDATING_SB PROVE Sound'
  <2>1. DiskInv /\ SuperblockInv /\ group \in 0 .. Groups /\ \A d \in Dir : Clean(d)
    BY <1>1, <1>4, InSuperblocks
  <2>2. group > 0
    BY <1>1, Sizes
  <2>3. disk.sb[0].ipg = TheNewIpg /\ CopiesWritten(Groups)
    BY <1>1, <1>4, <2>1, <2>2 DEF SuperblockInv
  <2>4. CopiesWritten(Groups)' /\ \A d \in Dir : Clean(d)'
    BY <1>1, <2>1, <2>3 DEF CopiesWritten, Clean
  <2>5. SuperblockInv'
    BY <1>1, <2>1, <2>3, <2>4 DEF SuperblockInv
  <2>6. DiskInv'
    BY <1>1, <2>1, DiskKept
  <2> QED
    BY <1>1, <1>4, <2>5, <2>6, SuperblockStep
<1> QED
  BY <1>2, <1>3, <1>4

-----------------------------------------------------------------------------
(* From one state of the image to the next.                                *)

LEMMA SetMagicKeeps ==
    ASSUME Sound, SetMagic
    PROVE  Sound'
<1>1. pc = "magic" /\ UNCHANGED <<n_flag, ipg, newIpg, sb, group>>
  BY DEF SetMagic
<1>2. phase \in 0 .. 3 /\ n_flag \in BOOLEAN /\ newIpg = TheNewIpg /\ RunInv /\ DiskInv
  BY <1>1 DEF Sound, RunInv
<1>3. CASE n_flag
  <2>1. pc' = "phase" /\ phase' = phase + 1 /\ disk' = disk
    BY <1>3 DEF SetMagic
  <2>2. RunInv'
    BY <1>1, <1>2, <1>3, <2>1 DEF RunInv, Places
  <2> QED
    BY <1>1, <1>2, <1>3, <2>1, <2>2, DiskKept DEF Sound
<1>4. CASE ~n_flag
  <2>1. pc' = "low" /\ phase' = phase /\ disk' = [disk EXCEPT !.magic = StateAfter]
    BY <1>4 DEF SetMagic
  <2>2. /\ DiskTypes /\ NumbersCount /\ BottomUp /\ PrimarySound
    BY <1>2 DEF DiskInv
  <2>3. /\ disk'.magic = StateAfter
        /\ UNCHANGED <<disk.entry, disk.short, disk.sb, disk.bg, disk.stray>>
        /\ disk' = Disk(disk'.magic, disk'.entry, disk'.short, disk'.sb, disk'.bg, disk'.stray)
    BY <2>1, <2>2, MagicWritten
  <2>4. PhaseInv /\ SuperblockInv /\ disk.magic = phase
    BY <1>1, <1>4 DEF Sound, Progress, PhaseInv
  <2>5. \A e \in Entry : \E d \in Dir : e \in Range(EntriesOf(d))
    BY TreeAssumption
  <2>6. NumbersCount' /\ BottomUp'
    <3>1. CASE phase = 0
      BY <2>2, <2>3, <2>4, <3>1 DEF NumbersCount, BottomUp, StateAfter
    <3>2. CASE phase = 1
      <4>1. \A e \in Entry : disk.entry[e].high
        BY <1>1, <2>4, <2>5, <3>2 DEF PhaseInv, Marked
      <4>2. disk'.magic = 2
        BY <2>3, <3>2 DEF StateAfter
      <4> QED
        BY <2>2, <2>3, <2>4, <3>2, <4>1, <4>2 DEF NumbersCount, BottomUp
    <3>3. CASE phase = 2
      <4>1. \A d \in Dir : Clean(d) /\ Clean(d)'
        BY <1>1, <2>3, <2>4, <3>3 DEF PhaseInv, Clean
      <4>2. \A e \in Entry : ~disk.entry[e].high
        BY <2>5, <4>1 DEF Clean
      <4>3. disk'.magic = 3
        BY <2>3, <3>3 DEF StateAfter
      <4> QED
        BY <2>2, <2>3, <2>4, <3>3, <4>1, <4>2, <4>3 DEF NumbersCount, BottomUp
    <3>4. CASE phase = 3
      <4>1. disk.sb[0].ipg = TheNewIpg /\ disk'.magic = 0
        BY <1>1, <2>3, <2>4, <3>4 DEF SuperblockInv, StateAfter
      <4> QED
        BY <2>2, <2>3, <2>4, <3>4, <4>1 DEF NumbersCount, BottomUp
    <3> QED
      BY <1>2, <3>1, <3>2, <3>3, <3>4
  <2>7. DiskInv'
    <3>1. StateAfter \in 0 .. 3
      BY <1>2 DEF StateAfter
    <3>2. DiskTypes' /\ PrimarySound'
      BY <2>2, <2>3, <3>1 DEF DiskTypes, PrimarySound
    <3> QED
      BY <2>6, <3>2 DEF DiskInv
  <2>8. RunInv'
    BY <1>1, <1>2, <1>4, <2>1 DEF RunInv, Places
  <2>9. PhaseInv'
    <3>1. StateAfter' = StateAfter
      BY <2>1 DEF StateAfter
    <3> QED
      BY <1>1, <2>1, <2>3, <2>4, <3>1 DEF PhaseInv
  <2>10. SuperblockInv'
    <3>1. \A d \in Dir : Clean(d) => Clean(d)'
      BY <2>3 DEF Clean
    <3>2. CopiesWritten(Groups) => CopiesWritten(Groups)'
      BY <2>3 DEF CopiesWritten
    <3> QED
      BY <1>1, <2>1, <2>3, <2>4, <3>1, <3>2 DEF SuperblockInv
  <2>11. FinishedInv' /\ FramesInv'
    BY <2>1 DEF FinishedInv, FramesInv
  <2> QED
    BY <2>7, <2>8, <2>9, <2>10, <2>11 DEF Sound, Progress
<1> QED
  BY <1>2, <1>3, <1>4

LEMMA SetLowBitKeeps ==
    ASSUME Sound, SetLowBit
    PROVE  Sound'
<1>1. /\ pc = "low" /\ pc' = "phase" /\ phase' = phase + 1 /\ UNCHANGED <<n_flag, ipg, newIpg, sb, group>>
  BY DEF SetLowBit
<1>2. phase \in 0 .. 3 /\ ~n_flag /\ n_flag \in BOOLEAN /\ newIpg = TheNewIpg /\ RunInv /\ DiskInv
  BY <1>1 DEF Sound, RunInv
<1>3. PICK l \in BOOLEAN : l = (StateAfter # UNSET)
  OBVIOUS
<1>4. disk' = [disk EXCEPT !.sb[0].low = l]
  BY <1>3, Zenon DEF SetLowBit
<1>5. /\ DiskTypes /\ NumbersCount /\ BottomUp /\ PrimarySound
  BY <1>2 DEF DiskInv
<1>6. /\ disk'.sb = [disk.sb EXCEPT ![0] = [disk.sb[0] EXCEPT !.low = l]]
      /\ UNCHANGED <<disk.magic, disk.entry, disk.short, disk.bg, disk.stray>>
      /\ disk' = Disk(disk'.magic, disk'.entry, disk'.short, disk'.sb, disk'.bg, disk'.stray)
  BY <1>4, <1>5, LowBitWritten
<1>7. PICK n \in {OldIpg, TheNewIpg}, low \in BOOLEAN : disk.sb[0] = SuperblockOf(n, low)
  BY <1>5 DEF PrimarySound
<1>8. [disk.sb[0] EXCEPT !.low = l] = SuperblockOf(n, l) /\ disk.sb[0].ipg = n
  BY <1>7, SuperblockFields
<1>9. 0 \in Super /\ disk'.sb[0] = SuperblockOf(n, l) /\ DOMAIN disk'.sb = Super
      /\ \A s \in Super : s # 0 => disk'.sb[s] = disk.sb[s]
  BY <1>5, <1>6, <1>8, LayoutAssumption DEF DiskTypes
<1>10. disk'.sb[0].ipg = n /\ disk'.sb[0].low = l
  BY <1>9, SuperblockFields
<1>11. DiskInv'
  <2>1. DiskTypes'
    BY <1>5, <1>6, <1>9 DEF DiskTypes
  <2>2. NumbersCount' /\ BottomUp'
    BY <1>5, <1>6, <1>8, <1>10 DEF NumbersCount, BottomUp, Clean
  <2>3. PrimarySound'
    BY <1>5, <1>6, <1>8, <1>9, <1>10 DEF PrimarySound
  <2> QED
    BY <2>1, <2>2, <2>3 DEF DiskInv
<1>12. RunInv'
  BY <1>1, <1>2 DEF RunInv, Places
<1>13. PhaseInv /\ SuperblockInv /\ disk.magic = StateAfter
  BY <1>1, <1>2 DEF Sound, Progress, PhaseInv
<1>14. PhaseInv'
  <2>1. CASE phase = 3
    <3>1. StateAfter = 0 /\ phase' = 4
      BY <1>1, <2>1 DEF StateAfter
    <3> QED
      BY <1>1, <1>6, <1>13, <3>1 DEF PhaseInv
  <2>2. CASE phase # 3
    <3>1. StateAfter = phase + 1 /\ phase < 3 /\ ~(phase + 1 > 3)
      BY <1>2, <2>2 DEF StateAfter
    <3>2. ipg = disk'.sb[0].ipg
      BY <1>1, <1>8, <1>10, <1>13, <3>1 DEF PhaseInv
    <3> QED
      BY <1>1, <1>2, <1>6, <1>13, <3>1, <3>2 DEF PhaseInv
  <2> QED
    BY <2>1, <2>2
<1>15. FinishedInv'
  <2>1. CASE phase = 3
    <3>1. StateAfter = 0
      BY <2>1 DEF StateAfter
    <3>2. ~l
      BY <1>3, <3>1
    <3>3. disk.sb[0].ipg = TheNewIpg /\ CopiesWritten(Groups) /\ \A d \in Dir : Clean(d)
      BY <1>1, <1>13, <2>1 DEF SuperblockInv
    <3>4. disk'.sb[0] = SuperblockOf(TheNewIpg, FALSE)
      BY <1>8, <1>9, <3>2, <3>3, Zenon
    <3>5. CopiesWritten(Groups)' /\ \A d \in Dir : Clean(d)'
      BY <1>6, <1>9, <3>3 DEF CopiesWritten, Clean
    <3> QED
      BY <1>6, <1>13, <3>1, <3>4, <3>5 DEF FinishedInv
  <2>2. CASE phase # 3
    <3>1. ~(phase' > 3)
      BY <1>1, <1>2, <2>2
    <3> QED
      BY <1>1, <3>1 DEF FinishedInv
  <2> QED
    BY <2>1, <2>2
<1>16. SuperblockInv' /\ FramesInv'
  BY <1>1 DEF SuperblockInv, FramesInv
<1> QED
  BY <1>11, <1>12, <1>14, <1>15, <1>16 DEF Sound, Progress

LEMMA StutterKeeps ==
    ASSUME Sound, UNCHANGED vars
    PROVE  Sound'
<1>1. UNCHANGED <<disk, pc, phase, n_flag, ipg, newIpg, sb, group, stack>>
  BY DEF vars, toolVars
<1>2. DiskInv' /\ RunInv'
  BY <1>1, DiskKept DEF Sound, RunInv
<1>3. PhaseInv => PhaseInv'
  BY <1>1 DEF PhaseInv, Marked, Clean, StateAfter
<1>4. SuperblockInv => SuperblockInv'
  BY <1>1 DEF SuperblockInv, Clean, CopiesWritten
<1>5. FinishedInv => FinishedInv'
  BY <1>1 DEF FinishedInv, Clean, CopiesWritten
<1>6. FramesInv => FramesInv'
  <2>1. StackInv => StackInv'
    BY <1>1 DEF StackInv
  <2>2. ASSUME NEW S, Marking(S) PROVE Marking(S)'
    <3>1. \A f : MarkingFrame(f, S) => MarkingFrame(f, S)'
      BY <1>1 DEF MarkingFrame
    <3> QED
      BY <1>1, <2>2, <3>1 DEF Marking, Marked, ReturnedFrom, Written
  <2>3. Updating => Updating'
    <3>1. \A f : UpdatingFrame(f) => UpdatingFrame(f)'
      BY <1>1 DEF UpdatingFrame, Clean
    <3> QED
      BY <1>1, <3>1 DEF Updating, Clean, ReturnedFrom, Written
  <2> QED
    BY <1>1, <2>1, <2>2, <2>3 DEF FramesInv
<1> QED
  BY <1>1, <1>2, <1>3, <1>4, <1>5, <1>6 DEF Sound, Progress

-----------------------------------------------------------------------------
(* Every step keeps the invariant.                                         *)

LEMMA InitFixup == Init => FixupInv
  BY InitSound DEF FixupInv

LEMMA NextFixup == FixupInv /\ [Next]_vars => FixupInv'
<1> SUFFICES ASSUME damage = "none", Sound, [Next]_vars PROVE Sound'
  BY DamageKept DEF FixupInv
<1>1. ASSUME NEW n \in BOOLEAN, Start(n) PROVE Sound'
  BY <1>1, StartKeeps
<1>2. CASE NextPhase
  BY <1>2, NextPhaseKeeps
<1>3. CASE Recurse \/ ProcessEntry \/ LastEntry
  BY <1>3, DirectoryKeeps
<1>4. CASE NotADirectory \/ SanityFails \/ Stop
  BY <1>4, AbortKeeps DEF NotADirectory, SanityFails, Stop
<1>5. CASE WriteBlock
  BY <1>5, WriteBlockKeeps
<1>6. CASE CheckBitmap
  BY <1>6, CheckBitmapKeeps
<1>7. CASE UpdateSuperblock
  BY <1>7, UpdateSuperblockKeeps
<1>8. CASE WriteSuperblock
  BY <1>8, WriteSuperblockKeeps
<1>9. CASE WriteDescriptors
  BY <1>9, WriteDescriptorsKeeps
<1>10. CASE SuperblocksWritten
  BY <1>10, SuperblocksWrittenKeeps
<1>11. CASE SetMagic
  BY <1>11, SetMagicKeeps
<1>12. CASE SetLowBit
  BY <1>12, SetLowBitKeeps
<1>13. CASE Terminating \/ UNCHANGED vars
  BY <1>13, StutterKeeps DEF Terminating
<1> QED
  BY <1>1, <1>2, <1>3, <1>4, <1>5, <1>6, <1>7, <1>8, <1>9, <1>10, <1>11, <1>12, <1>13 DEF Next, Step

LEMMA ReadsBack ==
    ASSUME damage = "none" => Sound, damage # "none" => Untouched
    PROVE  Resumable
<1>1. CASE damage = "none"
  <2>1. NumbersCount /\ BottomUp /\ disk.sb[0].ipg \in {OldIpg, TheNewIpg}
    BY <1>1 DEF Sound, DiskInv, PrimarySound
  <2>2. NumbersAreReadable
    BY <2>1, SlotOfNumber DEF NumbersCount, NumbersAreReadable
  <2>3. UpdatedBottomUp
    <3>1. ASSUME disk.magic = UPDATING_INUMS, NEW d \in Dir, NEW child \in Dir, NEW e \in Range(EntriesOf(d)) \ Dots,
                 Slot[e] = DirSlot[child], ~disk.entry[e].high, NEW x \in Range(EntriesOf(child))
          PROVE  ~disk.entry[x].high
      <4>1. Names(e, child) /\ e \in Entry
        BY <3>1, Entries DEF Names
      <4>2. Clean(child)
        BY <2>1, <3>1, <4>1 DEF BottomUp
      <4> QED
        BY <4>2 DEF Clean
    <3> QED
      BY <3>1 DEF UpdatedBottomUp
  <2> QED
    BY <2>2, <2>3 DEF Resumable
<1>2. CASE damage # "none"
  <2>1. disk.magic = UNSET /\ disk.sb[0].ipg = OldIpg
    BY <1>2, ImageFields DEF Untouched
  <2>2. ASSUME NEW e \in Entry PROVE disk.entry[e].inode = Number(e, OldIpg)
    <3>1. disk.entry[e] = [inode |-> Number(e, OldIpg), high |-> FALSE]
      BY <1>2, ImageFields DEF Untouched
    <3> QED
      BY <3>1, RecordFields
  <2>3. NumbersAreReadable
    BY <2>1, <2>2, SlotOfNumber DEF NumbersAreReadable
  <2>4. UpdatedBottomUp
    BY <2>1 DEF UpdatedBottomUp
  <2> QED
    BY <2>3, <2>4 DEF Resumable
<1> QED
  BY <1>1, <1>2

\* Wherever a run was stopped, what is on the disk tells the next one by which
\* group size a number counts, and an updated entry has nothing left to update
\* below it (recurse_dir, set_fs_fixup_state).
THEOREM ResumableAlways == Spec => []Resumable
<1>1. FixupInv /\ DamagedInv => Resumable
  BY ReadsBack DEF FixupInv, DamagedInv
<1> QED
  BY <1>1, InitFixup, NextFixup, InitDamaged, NextDamaged, PTL DEF Spec

LEMMA Finished ==
    ASSUME damage = "none" => Sound, damage # "none" => Untouched, Completed
    PROVE  EntriesFixed /\ SuperblocksFixed
<1>1. pc = "done" /\ ~n_flag /\ damage = "none"
  BY DEF Completed, Untouched
<1>2. /\ disk.magic = UNSET
      /\ disk.sb[0] = SuperblockOf(TheNewIpg, FALSE) /\ CopiesWritten(Groups)
      /\ \A d \in Dir : Clean(d)
  BY <1>1 DEF Sound, Progress, FinishedInv
<1>3. disk.sb[0].ipg = TheNewIpg
  <2>1. \A low : SuperblockOf(TheNewIpg, low).ipg = TheNewIpg
    BY SuperblockFields
  <2> QED
    BY <1>2, <2>1, Zenon
<1>4. ASSUME NEW e \in Entry PROVE disk.entry[e] = [inode |-> Number(e, TheNewIpg), high |-> FALSE]
  <2>1. disk.entry[e] \in Record /\ disk.entry[e].inode = Number(e, TheNewIpg) /\ ~disk.entry[e].high
    BY <1>1, <1>2, <1>3 DEF Sound, DiskInv, DiskTypes, NumbersCount
  <2>2. PICK n \in Int, h \in BOOLEAN : disk.entry[e] = [inode |-> n, high |-> h]
    BY <2>1 DEF Record
  <2>3. disk.entry[e].inode = n /\ disk.entry[e].high = h
    BY <2>2, RecordFields
  <2>4. h = FALSE
    BY <2>1, <2>3, Zenon
  <2> QED
    BY <2>1, <2>2, <2>3, <2>4, Zenon
<1>5. EntriesFixed
  BY <1>4 DEF EntriesFixed, Number
<1>6. ASSUME NEW s \in Super PROVE disk.sb[s] = SuperblockOf(TheNewIpg, FALSE)
  <2>1. s < Groups
    BY LayoutAssumption, Sizes DEF Group
  <2> QED
    BY <1>2, <2>1 DEF CopiesWritten
<1>7. TheNewIpg # OldIpg => \A g \in Group : ~disk.stray[g]
  BY <1>1, <1>3 DEF Sound, DiskInv, PrimarySound
<1>8. \A d \in Dir : ~disk.short[d]
  BY <1>2 DEF Clean
<1> QED
  BY <1>2, <1>5, <1>6, <1>7, <1>8, Zenon DEF SuperblocksFixed, SuperblockOf

\* A run that completes has every number, superblock, bitmap and last entry
\* fixed, wherever the runs before it were stopped (ext4fixup_internal).
THEOREM ImageFixedAlways == Spec => []ImageFixed
<1>1. FixupInv /\ DamagedInv => ImageFixed
  BY Finished DEF FixupInv, DamagedInv, ImageFixed, EntriesFixed, SuperblocksFixed
<1> QED
  BY <1>1, InitFixup, NextFixup, InitDamaged, NextDamaged, PTL DEF Spec

\* A run with -n changes nothing (no_write).
THEOREM DryRunsWriteNothing == Spec => [][n_flag => UNCHANGED disk]_vars
<1>1. FixupInv /\ DamagedInv => (pc = "low" => ~n_flag)
  BY DEF FixupInv, Sound, RunInv, DamagedInv, Untouched
<1>2. (pc = "low" => ~n_flag) /\ [Next]_vars => [n_flag => UNCHANGED disk]_vars
  <2> SUFFICES ASSUME pc = "low" => ~n_flag, Next, n_flag PROVE disk' = disk
    OBVIOUS
  <2>1. no_write
    BY DEF no_write
  <2>2. CASE Step
    BY <2>1, <2>2 DEF Step, NextPhase, Recurse, NotADirectory, ProcessEntry, LastEntry, WriteBlock, CheckBitmap, SanityFails,
       UpdateSuperblock, WriteSuperblock, WriteDescriptors, SuperblocksWritten, SetMagic, SetLowBit, Abort, Write
  <2> QED
    BY <2>2 DEF Next, Start, Stop, Terminating, Abort, vars
<1> QED
  BY <1>1, <1>2, InitFixup, NextFixup, InitDamaged, NextDamaged, PTL DEF Spec

-----------------------------------------------------------------------------
(* A tool that stops where -d says only: the steps.                        *)

LEMMA InitBail == Init => BailInv
<1> SUFFICES ASSUME Init, damage = "none" PROVE Bailed
  BY DEF BailInv
<1>1. disk = Image /\ pc = "off" /\ 0 \in Super
  BY LayoutAssumption DEF Init
<1>2. disk.sb[0].ipg = OldIpg /\ disk.magic = 0
  BY <1>1, ImageFields
<1>3. disk.sb[0].low = FALSE
  BY <1>1, Zenon DEF Image
<1>4. disk.bg = [s \in Super |-> [g \in Group |-> FreeInodes]]
  BY <1>1 DEF Image
<1>5. LowBit
  BY <1>1, <1>2, <1>3 DEF LowBit
<1>6. DescriptorInv
  BY <1>1, <1>2, <1>4, Sizes DEF DescriptorInv, Counted
<1>7. CountsInv
  BY <1>1 DEF CountsInv
<1> QED
  BY <1>5, <1>6, <1>7 DEF Bailed

\* A step that writes neither superblocks nor descriptors, before the last phase
\* or out of it.
LEMMA BailKept ==
    ASSUME Bailed, UNCHANGED <<disk.sb, disk.bg, disk.magic>>, pc \notin {"low", "bg"}, pc' \notin {"low", "bg", "sb"},
           ~n_flag' => CountsInv'
    PROVE  Bailed'
<1>1. LowBit'
  BY DEF Bailed, LowBit
<1>2. DescriptorInv'
  BY DEF Bailed, DescriptorInv, BetweenWrites, Counted
<1> QED
  BY <1>1, <1>2 DEF Bailed

LEMMA StartBail ==
    ASSUME Sound, Bailed, damage = "none", NEW n \in BOOLEAN, Start(n)
    PROVE  Bailed'
<1>1. /\ pc \in {"off", "done"} /\ pc' = "phase" /\ phase' = 0 /\ ipg' = disk.sb[0].ipg /\ bg_desc' = disk.bg[0] /\ disk' = disk
  BY DEF Start
<1>2. disk.bg \in [Super -> [Group -> Int]] /\ Counted(disk.bg[0], disk.sb[0].ipg)
  BY <1>1 DEF Bailed, DescriptorInv, BetweenWrites
<1>3. bg_desc' \in [Group -> Int] /\ Counted(bg_desc, ipg)'
  BY <1>1, <1>2, LayoutAssumption DEF Counted
<1>4. CountsInv'
  BY <1>1, <1>3 DEF CountsInv
<1> QED
  BY <1>1, <1>4, BailKept

LEMMA NextPhaseBail ==
    ASSUME Sound, Bailed, NextPhase
    PROVE  Bailed'
<1>1. pc = "phase" /\ UNCHANGED <<disk, n_flag, ipg, bg_desc>> /\ pc' \in {"done", "phase", "entry", "bitmap"} /\ phase \in 0 .. 4
  BY DEF NextPhase, Sound, RunInv
<1>2. ASSUME ~n_flag PROVE CountsInv'
  <2>1. /\ CountsInv /\ get_fs_fixup_state = disk.magic /\ disk.magic \in 0 .. 3
        /\ (phase <= 3 => phase <= disk.magic)
    BY <1>1, <1>2, MagicType DEF Bailed, Sound, Progress, PhaseInv, get_fs_fixup_state
  <2>2. bg_desc \in [Group -> Int] /\ (phase <= 3 => Counted(bg_desc, ipg))
    BY <1>1, <2>1 DEF CountsInv
  <2>3. Counted(bg_desc, ipg) => Counted(bg_desc, ipg)'
    BY <1>1 DEF Counted
  <2>4. CASE phase > 3 /\ pc' = "done" /\ phase' = phase
    <3>1. \A s \in Super : Counted(disk.bg[s], TheNewIpg)'
      BY <1>1, <2>1, <2>4 DEF CountsInv, Counted
    <3> QED
      BY <2>4, <3>1 DEF CountsInv
  <2>5. CASE phase <= 3 /\ disk.magic # phase /\ phase' = phase + 1 /\ pc' = pc
    <3>1. phase' <= 3 /\ phase' \in 0 .. 3
      BY <1>1, <2>1, <2>5
    <3> QED
      BY <1>1, <2>2, <2>3, <2>5, <3>1 DEF CountsInv
  <2>6. CASE phase < 3 /\ phase' = phase /\ pc' = "entry"
    BY <1>1, <2>2, <2>3, <2>6 DEF CountsInv
  <2>7. CASE phase = 3 /\ phase' = phase /\ pc' = "bitmap" /\ group' = 0
    <3>1. \A g \in Group : ~(g < group')
      BY <2>7, Sizes DEF Group
    <3>2. \A g \in Group : bg_desc[g] = FreeInodes + ipg - OldIpg
      BY <2>2, <2>7 DEF Counted
    <3> QED
      BY <1>1, <2>2, <2>7, <3>1, <3>2 DEF CountsInv
  <2> QED
    BY <2>1, <2>4, <2>5, <2>6, <2>7 DEF NextPhase
<1> QED
  BY <1>1, <1>2, BailKept

LEMMA AbortBail ==
    ASSUME Bailed, Abort, pc \notin {"low", "bg"}
    PROVE  Bailed'
<1>1. pc' = "off" /\ disk' = disk
  BY DEF Abort
<1>2. CountsInv'
  BY <1>1 DEF CountsInv
<1> QED
  BY <1>1, <1>2, BailKept

LEMMA DirectoryBail ==
    ASSUME Sound, Bailed, damage = "none", Recurse \/ ProcessEntry \/ LastEntry \/ WriteBlock
    PROVE  Bailed'
<1>1. /\ pc \in {"entry", "write"} /\ pc' \in {"entry", "write", "bitmap", "magic"}
      /\ UNCHANGED <<phase, n_flag, ipg, bg_desc>>
  BY DEF Recurse, ProcessEntry, LastEntry, WriteBlock, AtEntry
<1>2. phase \in {0, 1, 2}
  BY <1>1 DEF Sound, RunInv
<1>3. UNCHANGED <<disk.sb, disk.bg, disk.magic>>
  <2>1. CASE WriteBlock /\ ~n_flag /\ phase # UNSET
    BY <2>1, TopBlockWritten
  <2>2. CASE WriteBlock /\ (n_flag \/ phase = UNSET)
    BY <2>2 DEF WriteBlock, Write, no_write
  <2>3. CASE Recurse \/ ProcessEntry \/ LastEntry
    BY <2>3 DEF Recurse, ProcessEntry, LastEntry
  <2> QED
    BY <2>1, <2>2, <2>3
<1>4. ASSUME ~n_flag PROVE CountsInv'
  <2>1. bg_desc \in [Group -> Int] /\ Counted(bg_desc, ipg)
    BY <1>1, <1>2, <1>4 DEF Bailed, CountsInv
  <2>2. Counted(bg_desc, ipg)'
    BY <1>1, <2>1 DEF Counted
  <2> QED
    BY <1>1, <1>2, <2>1, <2>2 DEF CountsInv
<1> QED
  BY <1>1, <1>3, <1>4, BailKept

LEMMA CheckBitmapBail ==
    ASSUME Sound, Bailed, CheckBitmap
    PROVE  Bailed'
<1>1. /\ pc = "bitmap" /\ pc' = "bitmap" /\ group < Groups /\ group' = group + 1 /\ UNCHANGED <<phase, n_flag, ipg, newIpg, sb>>
      /\ bg_desc' = IF phase = 3 THEN [bg_desc EXCEPT ![group] = @ + NewInodes] ELSE bg_desc
  BY DEF CheckBitmap
<1>2. phase \in {0, 3} /\ n_flag \in BOOLEAN
  BY <1>1 DEF Sound, RunInv
<1>3. CASE n_flag \/ phase = UNSET
  <2>1. disk' = disk
    BY <1>3 DEF CheckBitmap, Write, no_write
  <2>2. ASSUME ~n_flag PROVE CountsInv'
    <3>1. phase = 0 /\ phase' = 0 /\ bg_desc' = bg_desc
      BY <1>1, <1>2, <1>3, <2>2
    <3>2. bg_desc \in [Group -> Int] /\ Counted(bg_desc, ipg)
      BY <1>1, <2>2, <3>1 DEF Bailed, CountsInv
    <3>3. Counted(bg_desc, ipg)'
      BY <1>1, <3>1, <3>2 DEF Counted
    <3> QED
      BY <1>1, <3>1, <3>2, <3>3 DEF CountsInv
  <2> QED
    BY <1>1, <2>1, <2>2, BailKept
<1>4. ASSUME ~n_flag, phase = UPDATING_SB PROVE Bailed'
  <2>1. /\ DiskTypes /\ SuperblockInv /\ PrimarySound
        /\ ipg = disk.sb[0].ipg /\ newIpg = TheNewIpg /\ group \in Int /\ group \in 0 .. Groups
    BY <1>1, <1>4, InSuperblocks
  <2>2. UNCHANGED <<disk.sb, disk.bg, disk.magic>>
    <3>1. PICK v : v = (disk.stray[group] /\ ipg = newIpg)
      OBVIOUS
    <3>2. ~no_write
      BY <1>4 DEF no_write
    <3>3. disk' = [disk EXCEPT !.stray[group] = v]
      BY <3>1, <3>2, Zenon DEF CheckBitmap, Write
    <3> QED
      BY <2>1, <3>3, BitmapWritten
  <2>3. sb.ipg = ipg /\ ipg \in Int /\ TheNewIpg \in Int /\ OldIpg \in Int /\ FreeInodes \in Int /\ group \in Group
    BY <1>1, <1>4, <2>1, Sizes, Aligned DEF SuperblockInv, PrimarySound, Group
  <2>4. bg_desc \in [Group -> Int]
        /\ \A g \in Group : bg_desc[g] = FreeInodes + (IF g < group THEN TheNewIpg ELSE ipg) - OldIpg
    BY <1>1, <1>4 DEF Bailed, CountsInv
  <2>5. PICK k \in Int : k = NewInodes /\ k = TheNewIpg - ipg
    BY <2>1, <2>3 DEF NewInodes
  <2>6. bg_desc' = [bg_desc EXCEPT ![group] = bg_desc[group] + k]
    BY <1>1, <1>4, <2>5
  <2>7. bg_desc' \in [Group -> Int]
    BY <2>3, <2>4, <2>5, <2>6
  <2>8. ASSUME NEW g \in Group PROVE bg_desc'[g] = FreeInodes + (IF g < group' THEN TheNewIpg ELSE ipg) - OldIpg
    <3>1. g \in Int
      BY Sizes DEF Group
    <3>2. CASE g = group
      <4>1. ~(g < group) /\ g < group'
        BY <1>1, <2>1, <3>2
      <4>2. bg_desc'[g] = bg_desc[group] + k /\ bg_desc[group] = FreeInodes + ipg - OldIpg
        BY <2>4, <2>6, <3>2, <4>1
      <4> QED
        BY <2>3, <2>5, <4>1, <4>2
    <3>3. CASE g # group
      <4>1. g < group' <=> g < group
        BY <1>1, <2>1, <3>1, <3>3
      <4> QED
        BY <2>4, <2>6, <3>3, <4>1
    <3> QED
      BY <3>2, <3>3
  <2>9. CountsInv'
    BY <1>1, <1>4, <2>7, <2>8 DEF CountsInv
  <2> QED
    BY <1>1, <2>2, <2>9, BailKept
<1> QED
  BY <1>2, <1>3, <1>4

LEMMA UpdateSuperblockBail ==
    ASSUME Sound, Bailed, UpdateSuperblock
    PROVE  Bailed'
<1>1. pc = "bitmap" /\ pc' = "sb" /\ group = Groups /\ group' = 0 /\ UNCHANGED <<disk, phase, n_flag, ipg, newIpg, bg_desc>>
  BY DEF UpdateSuperblock
<1>2. phase \in {0, 3}
  BY <1>1 DEF Sound, RunInv
<1>3. ASSUME ~n_flag, phase = 3 PROVE sb'.low <=> disk'.sb[0].low
  <2>1. /\ SuperblockInv /\ PrimarySound /\ newIpg = TheNewIpg /\ sb = disk.sb[0]
    BY <1>1, <1>3, InSuperblocks DEF SuperblockInv
  <2>2. PICK n \in {OldIpg, TheNewIpg}, low \in BOOLEAN : sb = SuperblockOf(n, low)
    BY <2>1 DEF PrimarySound
  <2>3. sb' = SuperblockOf(TheNewIpg, low)
    BY <2>1, <2>2, SuperblockUpdated, Zenon DEF UpdateSuperblock
  <2>4. sb'.low = low /\ sb.low = low
    BY <2>2, <2>3, SuperblockFields
  <2> QED
    BY <1>1, <2>1, <2>4
<1>4. LowBit'
  BY <1>1, <1>3 DEF Bailed, LowBit
<1>5. DescriptorInv'
  BY <1>1 DEF Bailed, DescriptorInv, BetweenWrites, Counted
<1>6. ASSUME ~n_flag PROVE CountsInv'
  <2>1. CountsInv /\ bg_desc \in [Group -> Int]
    BY <1>1, <1>6 DEF Bailed, CountsInv
  <2>2. CASE phase = 0
    <3>1. Counted(bg_desc, ipg)'
      BY <1>1, <2>1, <2>2 DEF CountsInv, Counted
    <3> QED
      BY <1>1, <2>1, <2>2, <3>1 DEF CountsInv
  <2>3. CASE phase = 3
    <3>1. \A g \in Group : g < group
      BY <1>1, Sizes DEF Group
    <3>2. Counted(bg_desc, TheNewIpg)'
      BY <1>1, <2>1, <2>3, <3>1 DEF CountsInv, Counted
    <3>3. \A s \in Super : ~(s < group')
      BY <1>1, LayoutAssumption, Sizes DEF Group
    <3> QED
      BY <1>1, <2>1, <2>3, <3>2, <3>3 DEF CountsInv
  <2> QED
    BY <1>2, <2>2, <2>3
<1> QED
  BY <1>1, <1>4, <1>5, <1>6 DEF Bailed

LEMMA WriteSuperblockBail ==
    ASSUME Sound, Bailed, WriteSuperblock
    PROVE  Bailed'
<1>1. pc = "sb" /\ group < Groups /\ UNCHANGED <<phase, n_flag, ipg, newIpg, bg_desc>> /\ pc' \in {"sb", "bg"}
  BY DEF WriteSuperblock
<1>2. phase \in {0, 3} /\ n_flag \in BOOLEAN
  BY <1>1 DEF Sound, RunInv
<1>3. CASE n_flag \/ phase = UNSET
  <2>1. disk' = disk
    BY <1>3 DEF WriteSuperblock, Write, no_write
  <2>2. LowBit'
    BY <1>1, <1>3, <2>1 DEF Bailed, LowBit
  <2>3. DescriptorInv'
    BY <1>1, <1>3, <2>1 DEF Bailed, DescriptorInv, BetweenWrites, Counted
  <2>4. ASSUME ~n_flag PROVE CountsInv'
    <3>1. phase = 0 /\ bg_desc \in [Group -> Int] /\ Counted(bg_desc, ipg)
      BY <1>1, <1>2, <1>3, <2>4 DEF Bailed, CountsInv
    <3>2. Counted(bg_desc, ipg)'
      BY <1>1, <3>1 DEF Counted
    <3> QED
      BY <1>1, <3>1, <3>2 DEF CountsInv
  <2> QED
    BY <1>1, <2>2, <2>3, <2>4 DEF Bailed
<1>4. ASSUME ~n_flag, phase = UPDATING_SB PROVE Bailed'
  <2>1. /\ DiskTypes /\ PrimarySound /\ SuperblockInv /\ disk.magic = 3 /\ group \in Int /\ group \in 0 .. Groups
    BY <1>1, <1>4, InSuperblocks
  <2>2. 0 \in Super /\ \A s \in Super : s \in Nat
    BY LayoutAssumption, Sizes DEF Group
  <2>3. /\ CountsInv /\ bg_desc \in [Group -> Int] /\ Counted(bg_desc, TheNewIpg)
        /\ \A s \in Super : s < group => Counted(disk.bg[s], TheNewIpg)
    BY <1>1, <1>4 DEF Bailed, CountsInv
  <2>4. Counted(bg_desc, TheNewIpg)'
    BY <1>1, <2>3 DEF Counted
  <2>5. ASSUME group \notin Super, group' = group + 1, UNCHANGED <<disk, pc, sb>> PROVE Bailed'
    <3>1. group' # 0
      BY <2>1, <2>5
    <3>2. LowBit'
      BY <1>1, <2>5, <3>1 DEF Bailed, LowBit
    <3>3. DescriptorInv'
      BY <1>1, <2>5 DEF Bailed, DescriptorInv, BetweenWrites, Counted
    <3>4. \A s \in Super : s < group' => Counted(disk.bg[s], TheNewIpg)'
      <4>1. \A s \in Super : s < group' => s < group
        BY <2>1, <2>2, <2>5
      <4> QED
        BY <2>3, <2>5, <4>1 DEF Counted
    <3>5. CountsInv'
      BY <1>1, <1>4, <2>3, <2>4, <2>5, <3>4 DEF CountsInv
    <3> QED
      BY <3>2, <3>3, <3>5 DEF Bailed
  <2>6. ASSUME group \in Super, pc' = "bg", group' = group, sb' = [sb EXCEPT !.low = @ /\ group = 0],
               Write([disk EXCEPT !.sb[group] = sb'])
        PROVE  Bailed'
    <3>1. PICK low \in BOOLEAN : sb = SuperblockOf(TheNewIpg, low)
      BY <1>1, <1>4, <2>1 DEF SuperblockInv
    <3>2. PICK l \in BOOLEAN : l = (sb.low /\ group = 0)
      OBVIOUS
    <3>3. PICK new : new = sb'
      OBVIOUS
    <3>4. new = SuperblockOf(TheNewIpg, l)
      <4>1. \A v : [sb EXCEPT !.low = v] = SuperblockOf(TheNewIpg, v)
        BY <3>1, SuperblockFields
      <4> QED
        BY <2>6, <3>2, <3>3, <4>1, Zenon
    <3>5. new.low = l
      BY <3>4, SuperblockFields
    <3>6. disk' = [disk EXCEPT !.sb[group] = new]
      <4>1. ~no_write
        BY <1>4 DEF no_write
      <4> QED
        BY <2>6, <3>3, <4>1, Zenon DEF Write
    <3>7. disk'.sb = [disk.sb EXCEPT ![group] = new] /\ UNCHANGED <<disk.magic, disk.bg>>
      BY <2>1, <3>6, SuperblockWritten
    <3>8. disk'.sb[group] = new /\ \A s \in Super : s # group => disk'.sb[s] = disk.sb[s]
      BY <2>1, <2>6, <3>7 DEF DiskTypes
    <3>9. LowBit'
      <4>1. disk.sb[0].low <=> disk.magic # 0
        BY <1>1 DEF Bailed, LowBit
      <4>2. CASE group = 0
        <5>1. sb.low <=> disk.sb[0].low
          BY <1>1, <1>4, <4>2 DEF Bailed, LowBit
        <5>2. l <=> sb.low
          BY <3>2, <4>2
        <5>3. disk'.sb[0].low <=> disk'.magic # 0
          BY <3>5, <3>7, <3>8, <4>1, <4>2, <5>1, <5>2
        <5> QED
          BY <2>6, <5>3 DEF LowBit
      <4>3. CASE group # 0
        BY <2>2, <2>6, <3>7, <3>8, <4>1, <4>3 DEF LowBit
      <4> QED
        BY <4>2, <4>3
    <3>10. DescriptorInv'
      <4>1. disk'.bg \in [Super -> [Group -> Int]] /\ Counted(disk.bg[0], disk.sb[0].ipg)
        BY <1>1, <3>7 DEF Bailed, DescriptorInv, BetweenWrites
      <4>2. CASE group = 0
        BY <1>1, <1>4, <2>6, <4>1, <4>2 DEF DescriptorInv, BetweenWrites
      <4>3. CASE group # 0
        <5>1. Counted(disk.bg[0], disk.sb[0].ipg)'
          BY <2>2, <3>7, <3>8, <4>1, <4>3 DEF Counted
        <5> QED
          BY <4>1, <5>1 DEF DescriptorInv
      <4> QED
        BY <4>2, <4>3
    <3>11. \A s \in Super : s < group' => Counted(disk.bg[s], TheNewIpg)'
      BY <2>3, <2>6, <3>7 DEF Counted
    <3>12. CountsInv'
      BY <1>1, <1>4, <2>3, <2>4, <2>6, <3>11 DEF CountsInv
    <3> QED
      BY <3>9, <3>10, <3>12 DEF Bailed
  <2> QED
    BY <2>5, <2>6 DEF WriteSuperblock
<1> QED
  BY <1>2, <1>3, <1>4

LEMMA WriteDescriptorsBail ==
    ASSUME Sound, Bailed, WriteDescriptors
    PROVE  Bailed'
<1>1. pc = "bg" /\ pc' = "sb" /\ group' = group + 1 /\ UNCHANGED <<phase, n_flag, ipg, newIpg, bg_desc, sb>>
  BY DEF WriteDescriptors
<1>2. phase \in {0, 3} /\ n_flag \in BOOLEAN
  BY <1>1 DEF Sound, RunInv
<1>3. CASE n_flag \/ phase = UNSET
  <2>1. disk' = disk
    BY <1>3 DEF WriteDescriptors, Write, no_write
  <2>2. LowBit'
    BY <1>1, <1>3, <2>1 DEF Bailed, LowBit
  <2>3. DescriptorInv'
    BY <1>1, <1>3, <2>1 DEF Bailed, DescriptorInv, BetweenWrites, Counted
  <2>4. ASSUME ~n_flag PROVE CountsInv'
    <3>1. phase = 0 /\ bg_desc \in [Group -> Int] /\ Counted(bg_desc, ipg)
      BY <1>1, <1>2, <1>3, <2>4 DEF Bailed, CountsInv
    <3>2. Counted(bg_desc, ipg)'
      BY <1>1, <3>1 DEF Counted
    <3> QED
      BY <1>1, <3>1, <3>2 DEF CountsInv
  <2> QED
    BY <1>1, <2>2, <2>3, <2>4 DEF Bailed
<1>4. ASSUME ~n_flag, phase = UPDATING_SB PROVE Bailed'
  <2>1. DiskTypes /\ SuperblockInv /\ disk.magic = 3 /\ group \in Int /\ group \in 0 .. Groups
    BY <1>1, <1>4, InSuperblocks
  <2>2. disk.sb[0].ipg = TheNewIpg /\ group \in Super
    BY <1>1, <1>4, <2>1 DEF SuperblockInv
  <2>3. 0 \in Super /\ \A s \in Super : s \in Nat
    BY LayoutAssumption, Sizes DEF Group
  <2>4. /\ bg_desc \in [Group -> Int] /\ Counted(bg_desc, TheNewIpg)
        /\ \A s \in Super : s < group => Counted(disk.bg[s], TheNewIpg)
    BY <1>1, <1>4 DEF Bailed, CountsInv
  <2>5. disk' = [disk EXCEPT !.bg[group] = bg_desc]
    <3>1. ~no_write
      BY <1>4 DEF no_write
    <3> QED
      BY <3>1, Zenon DEF WriteDescriptors, Write
  <2>6. disk'.bg = [disk.bg EXCEPT ![group] = bg_desc] /\ UNCHANGED <<disk.magic, disk.sb>>
    BY <2>1, <2>5, DescriptorsWritten
  <2>7. disk.bg \in [Super -> [Group -> Int]]
    BY DEF Bailed, DescriptorInv
  <2>8. /\ disk'.bg \in [Super -> [Group -> Int]] /\ disk'.bg[group] = bg_desc
        /\ \A s \in Super : s # group => disk'.bg[s] = disk.bg[s]
    BY <2>2, <2>4, <2>6, <2>7
  <2>9. group' # 0
    BY <1>1, <2>1
  <2>10. LowBit'
    BY <1>1, <2>6, <2>9 DEF Bailed, LowBit
  <2>11. Counted(bg_desc, TheNewIpg)' /\ \A s \in Super : s < group' => Counted(disk.bg[s], TheNewIpg)'
    <3>1. \A s \in Super : s < group' => s = group \/ s < group
      BY <1>1, <2>1, <2>3
    <3>2. \A s \in Super : s < group => s # group
      BY <2>1, <2>3
    <3> QED
      BY <1>1, <2>4, <2>8, <3>1, <3>2 DEF Counted
  <2>12. Counted(disk.bg[0], disk.sb[0].ipg)'
    <3>1. 0 < group'
      BY <1>1, <2>1
    <3> QED
      BY <2>2, <2>3, <2>6, <2>11, <3>1 DEF Counted
  <2>13. DescriptorInv'
    BY <2>8, <2>12 DEF DescriptorInv
  <2>14. CountsInv'
    BY <1>1, <1>4, <2>4, <2>11 DEF CountsInv
  <2> QED
    BY <2>10, <2>13, <2>14 DEF Bailed
<1> QED
  BY <1>2, <1>3, <1>4

LEMMA SuperblocksWrittenBail ==
    ASSUME Sound, Bailed, SuperblocksWritten
    PROVE  Bailed'
<1>1. pc = "sb" /\ pc' = "magic" /\ group = Groups /\ UNCHANGED <<disk, phase, n_flag, ipg, bg_desc>>
  BY DEF SuperblocksWritten, toolVars
<1>2. phase \in {0, 3}
  BY <1>1 DEF Sound, RunInv
<1>3. ASSUME ~n_flag PROVE CountsInv'
  <2>1. CountsInv /\ bg_desc \in [Group -> Int]
    BY <1>1, <1>3 DEF Bailed, CountsInv
  <2>2. CASE phase = 0
    <3>1. Counted(bg_desc, ipg)'
      BY <1>1, <2>1, <2>2 DEF CountsInv, Counted
    <3> QED
      BY <1>1, <2>1, <2>2, <3>1 DEF CountsInv
  <2>3. CASE phase = 3
    <3>1. \A s \in Super : s < group
      BY <1>1, LayoutAssumption, Sizes DEF Group
    <3>2. \A s \in Super : Counted(disk.bg[s], TheNewIpg)'
      BY <1>1, <2>1, <2>3, <3>1 DEF CountsInv, Counted
    <3> QED
      BY <1>1, <2>1, <2>3, <3>2 DEF CountsInv
  <2> QED
    BY <1>2, <2>2, <2>3
<1> QED
  BY <1>1, <1>3, BailKept

LEMMA SetMagicBail ==
    ASSUME Sound, Bailed, SetMagic
    PROVE  Bailed'
<1>1. pc = "magic" /\ UNCHANGED <<n_flag, ipg, bg_desc>>
  BY DEF SetMagic
<1>2. CASE n_flag
  <2>1. pc' = "phase" /\ disk' = disk
    BY <1>2 DEF SetMagic
  <2> QED
    BY <1>1, <1>2, <2>1, BailKept
<1>3. CASE ~n_flag
  <2>1. pc' = "low" /\ phase' = phase /\ disk' = [disk EXCEPT !.magic = StateAfter]
    BY <1>3 DEF SetMagic
  <2>2. DiskTypes /\ NumbersCount /\ disk.magic = phase /\ phase \in 0 .. 3
    BY <1>1, <1>3 DEF Sound, DiskInv, RunInv, Progress, PhaseInv
  <2>3. UNCHANGED <<disk.entry, disk.sb, disk.bg>>
    BY <2>1, <2>2, MagicWritten
  <2>4. LowBit'
    <3>1. disk.sb[0].low <=> phase # 0
      BY <1>1, <2>2 DEF Bailed, LowBit
    <3>2. phase = 0 => \A e \in Entry : ~disk.entry[e].high
      BY <2>2 DEF NumbersCount
    <3> QED
      BY <2>1, <2>3, <3>1, <3>2 DEF LowBit
  <2>5. DescriptorInv'
    BY <1>1, <2>3 DEF Bailed, DescriptorInv, BetweenWrites, Counted
  <2>6. CountsInv'
    <3>1. CountsInv /\ bg_desc \in [Group -> Int]
      BY <1>1, <1>3 DEF Bailed, CountsInv
    <3>2. CASE phase < 3
      <4>1. Counted(bg_desc, ipg)'
        BY <1>1, <3>1, <3>2 DEF CountsInv, Counted
      <4>2. ~(phase = 3)
        BY <2>2, <3>2
      <4> QED
        BY <1>1, <2>1, <3>1, <4>1, <4>2 DEF CountsInv
    <3>3. CASE phase = 3
      <4>1. \A s \in Super : Counted(disk.bg[s], TheNewIpg)'
        BY <1>1, <2>3, <3>1, <3>3 DEF CountsInv, Counted
      <4> QED
        BY <1>1, <2>1, <3>1, <3>3, <4>1 DEF CountsInv
    <3> QED
      BY <2>2, <3>2, <3>3
  <2> QED
    BY <2>4, <2>5, <2>6 DEF Bailed
<1> QED
  BY <1>2, <1>3

LEMMA SetLowBitBail ==
    ASSUME Sound, Bailed, SetLowBit
    PROVE  Bailed'
<1>1. pc = "low" /\ pc' = "phase" /\ phase' = phase + 1 /\ UNCHANGED <<n_flag, ipg, bg_desc>>
  BY DEF SetLowBit
<1>2. /\ phase \in 0 .. 3 /\ ~n_flag /\ DiskTypes /\ PrimarySound
      /\ disk.magic = StateAfter
  BY <1>1 DEF Sound, DiskInv, RunInv, Progress, PhaseInv
<1>3. PICK l \in BOOLEAN : l = (StateAfter # UNSET)
  OBVIOUS
<1>4. disk' = [disk EXCEPT !.sb[0].low = l]
  BY <1>3, Zenon DEF SetLowBit
<1>5. /\ disk'.sb = [disk.sb EXCEPT ![0] = [disk.sb[0] EXCEPT !.low = l]]
      /\ UNCHANGED <<disk.magic, disk.bg>>
  BY <1>2, <1>4, LowBitWritten
<1>6. PICK n \in {OldIpg, TheNewIpg}, low \in BOOLEAN : disk.sb[0] = SuperblockOf(n, low)
  BY <1>2 DEF PrimarySound
<1>7. [disk.sb[0] EXCEPT !.low = l] = SuperblockOf(n, l) /\ disk.sb[0].ipg = n
  BY <1>6, SuperblockFields
<1>8. disk'.sb[0] = SuperblockOf(n, l)
  BY <1>2, <1>5, <1>7, LayoutAssumption DEF DiskTypes
<1>9. disk'.sb[0].ipg = n /\ disk'.sb[0].low = l
  BY <1>8, SuperblockFields
<1>10. LowBit'
  <2>1. disk'.sb[0].low <=> disk'.magic # UNSET
    BY <1>2, <1>3, <1>5, <1>9
  <2> QED
    BY <1>1, <2>1 DEF LowBit
<1>11. DescriptorInv'
  BY <1>1, <1>5, <1>7, <1>9 DEF Bailed, DescriptorInv, BetweenWrites, Counted
<1>12. CountsInv'
  <2>1. CountsInv /\ bg_desc \in [Group -> Int]
    BY <1>1, <1>2 DEF Bailed, CountsInv
  <2>2. CASE phase < 3
    <3>1. Counted(bg_desc, ipg)'
      BY <1>1, <2>1, <2>2 DEF CountsInv, Counted
    <3>2. ~(phase' > 3)
      BY <1>1, <1>2, <2>2
    <3> QED
      BY <1>1, <2>1, <3>1, <3>2 DEF CountsInv
  <2>3. CASE phase = 3
    <3>1. \A s \in Super : Counted(disk.bg[s], TheNewIpg)'
      BY <1>1, <1>5, <2>1, <2>3 DEF CountsInv, Counted
    <3>2. phase' = 4
      BY <1>1, <2>3
    <3> QED
      BY <1>1, <2>1, <3>1, <3>2 DEF CountsInv
  <2> QED
    BY <1>2, <2>2, <2>3
<1> QED
  BY <1>10, <1>11, <1>12 DEF Bailed

LEMMA StutterBail ==
    ASSUME Bailed, UNCHANGED vars
    PROVE  Bailed'
<1>1. UNCHANGED <<disk, pc, phase, n_flag, ipg, bg_desc, sb, group>>
  BY DEF vars, toolVars
<1>2. LowBit'
  BY <1>1 DEF Bailed, LowBit
<1>3. DescriptorInv'
  BY <1>1 DEF Bailed, DescriptorInv, BetweenWrites, Counted
<1>4. CountsInv => CountsInv'
  BY <1>1 DEF CountsInv, Counted
<1> QED
  BY <1>1, <1>2, <1>3, <1>4 DEF Bailed

LEMMA NextBail ==
    ASSUME Kill = FALSE
    PROVE  FixupInv /\ BailInv /\ [Next]_vars => BailInv'
<1> SUFFICES ASSUME damage = "none", Sound, Bailed, [Next]_vars PROVE Bailed'
  BY DamageKept DEF FixupInv, BailInv
<1>1. ASSUME NEW n \in BOOLEAN, Start(n) PROVE Bailed'
  BY <1>1, StartBail
<1>2. CASE NextPhase
  BY <1>2, NextPhaseBail
<1>3. CASE Recurse \/ ProcessEntry \/ LastEntry \/ WriteBlock
  BY <1>3, DirectoryBail
<1>4. CASE NotADirectory \/ SanityFails \/ Stop
  BY <1>4, AbortBail DEF NotADirectory, AtEntry, SanityFails, Stop, BailPoint
<1>5. CASE CheckBitmap
  BY <1>5, CheckBitmapBail
<1>6. CASE UpdateSuperblock
  BY <1>6, UpdateSuperblockBail
<1>7. CASE WriteSuperblock
  BY <1>7, WriteSuperblockBail
<1>8. CASE WriteDescriptors
  BY <1>8, WriteDescriptorsBail
<1>9. CASE SuperblocksWritten
  BY <1>9, SuperblocksWrittenBail
<1>10. CASE SetMagic
  BY <1>10, SetMagicBail
<1>11. CASE SetLowBit
  BY <1>11, SetLowBitBail
<1>12. CASE Terminating \/ UNCHANGED vars
  BY <1>12, StutterBail DEF Terminating
<1> QED
  BY <1>1, <1>2, <1>3, <1>4, <1>5, <1>6, <1>7, <1>8, <1>9, <1>10, <1>11, <1>12 DEF Next, Step

LEMMA Mountable ==
    ASSUME damage = "none" => Sound /\ Bailed, damage # "none" => Untouched, ~disk.sb[0].low, NEW e \in Entry
    PROVE  ~disk.entry[e].high /\ SlotOf(disk.entry[e].inode, disk.sb[0].ipg) = Slot[e]
<1>1. ~disk.entry[e].high /\ \E n \in {OldIpg, TheNewIpg} : disk.sb[0].ipg = n /\ disk.entry[e].inode = Number(e, n)
  <2>1. CASE damage # "none"
    <3>1. disk = Image
      BY <2>1 DEF Untouched
    <3>2. disk.entry[e].inode = Number(e, OldIpg) /\ disk.sb[0].ipg = OldIpg
      <4>1. disk.entry[e] = [inode |-> Number(e, OldIpg), high |-> FALSE] /\ disk.sb[0].ipg = OldIpg
        BY <3>1, ImageFields
      <4>2. \A n, h : [inode |-> n, high |-> h].inode = n
        BY RecordFields
      <4> QED
        BY <4>1, <4>2, Zenon
    <3>3. disk.entry[e].high = FALSE
      BY <3>1, Zenon DEF Image
    <3> QED
      BY <3>2, <3>3
  <2>2. CASE damage = "none"
    <3>1. NumbersCount /\ disk.sb[0].ipg \in {OldIpg, TheNewIpg} /\ LowBit
      BY <2>2 DEF Sound, DiskInv, PrimarySound, Bailed
    <3>2. ~disk.entry[e].high /\ disk.magic \in {0, 1}
      <4>1. CASE pc = "low"
        <5>1. phase = 0 /\ ~n_flag
          BY <2>2, <3>1, <4>1 DEF LowBit, Sound, RunInv
        <5>2. disk.magic = 1
          BY <2>2, <4>1, <5>1 DEF Sound, Progress, PhaseInv, StateAfter
        <5> QED
          BY <3>1, <4>1, <5>1, <5>2 DEF LowBit
      <4>2. CASE pc # "low"
        BY <3>1, <4>2 DEF LowBit, NumbersCount
      <4> QED
        BY <4>1, <4>2
    <3> QED
      BY <3>1, <3>2 DEF NumbersCount
  <2> QED
    BY <2>1, <2>2
<1> QED
  BY <1>1, SlotOfNumber

\* A filesystem that can be mounted has entries that count by its group size, if
\* the tool stops at the places of -d only (set_fs_fixup_state, bail_phase).
THEOREM MountableIsConsistentAlways ==
    ASSUME Kill = FALSE
    PROVE  Spec => []MountableIsConsistent
<1>1. FixupInv /\ BailInv /\ DamagedInv => MountableIsConsistent
  BY Mountable DEF FixupInv, BailInv, DamagedInv, MountableIsConsistent
<1>2. FixupInv /\ BailInv /\ [Next]_vars => BailInv'
  BY NextBail, Zenon
<1> QED
  BY <1>1, <1>2, InitFixup, NextFixup, InitDamaged, NextDamaged, InitBail, PTL DEF Spec

\* A run that completes leaves every copy of the group descriptors with the new
\* free counts, if the tool stops at the places of -d only
\* (update_superblocks_and_bg_desc).
THEOREM DescriptorsFixedAlways ==
    ASSUME Kill = FALSE
    PROVE  Spec => []DescriptorsFixed
<1>1. FixupInv /\ BailInv /\ DamagedInv => DescriptorsFixed
  <2> SUFFICES ASSUME BailInv, DamagedInv, Completed
               PROVE  \A s \in Super, g \in Group : disk.bg[s][g] = FreeInodes + TheNewIpg - OldIpg
    BY DEF DescriptorsFixed
  <2>1. pc = "done" /\ ~n_flag /\ damage = "none"
    BY DEF Completed, DamagedInv, Untouched
  <2>2. \A s \in Super : Counted(disk.bg[s], TheNewIpg)
    BY <2>1 DEF BailInv, Bailed, CountsInv
  <2> QED
    BY <2>2 DEF Counted
<1>2. FixupInv /\ BailInv /\ [Next]_vars => BailInv'
  BY NextBail, Zenon
<1> QED
  BY <1>1, <1>2, InitFixup, NextFixup, InitDamaged, NextDamaged, InitBail, PTL DEF Spec
=============================================================================
