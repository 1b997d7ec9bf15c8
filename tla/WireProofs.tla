----------------------------- MODULE WireProofs -----------------------------
(***************************************************************************)
(* What TLAPS proves of the format: whatever the bytes are, and however    *)
(* deep the values nest, a value is read back from its text whatever       *)
(* follows it, and is never taken from a part of its text.                 *)
(*                                                                         *)
(* The proof goes from the bytes to the values: texts and their cuts, a    *)
(* line and its end, decimal numbers, then one lemma per kind of value,    *)
(* then one level of nesting after the other.  Every definition by         *)
(* recursion on numbers (Decimal, Joined, readMany, Texts, Inside) comes   *)
(* with a lemma that says what its function is, step by step.              *)
(***************************************************************************)
EXTENDS Wire, SequenceTheorems, WellFoundedInduction, TLAPS

-----------------------------------------------------------------------------
(* Induction on numbers, for sets.                                         *)

Below == {ss \in Nat \X Nat : ss[1] < ss[2]}

LEMMA BelowWellFounded == IsWellFoundedOn(Below, Nat)
BY NatLessThanWellFounded DEF OpToRel, Below

\* What holds of 0, and of n + 1 when of n, holds of every number.
LEMMA NatInd ==
  ASSUME NEW S, 0 \in S, \A n \in Nat : n \in S => n + 1 \in S
  PROVE  Nat \subseteq S
<1> SUFFICES ASSUME Nat \ S # {} PROVE FALSE OBVIOUS
<1>1. (Nat \ S) \subseteq Nat OBVIOUS
<1>2. PICK x \in Nat \ S : \A y \in Nat \ S : ~(<<y, x>> \in Below)
  BY <1>1, BelowWellFounded, WFMin
<1>3. \A y \in Nat \ S : ~(y < x) BY <1>2 DEF Below
<1>4. x # 0 /\ x - 1 \in Nat BY <1>2
<1>5. x - 1 \in S BY <1>3, <1>4
<1>6. (x - 1) + 1 \in S BY <1>4, <1>5
<1> QED BY <1>2, <1>6

-----------------------------------------------------------------------------
(* Texts and their beginnings.                                             *)

\* What has arrived of a text while some of it is missing.
Cuts(t) == {q \in Bytes : \E w \in Bytes : w # <<>> /\ t = q \o w}

\* What the concatenation of two texts is, byte by byte.
LEMMA Concat ==
  ASSUME NEW a \in Bytes, NEW b \in Bytes
  PROVE  /\ a \o b \in Bytes /\ Len(a \o b) = Len(a) + Len(b)
         /\ \A i \in 1 .. Len(a) : (a \o b)[i] = a[i]
         /\ \A i \in 1 .. Len(b) : (a \o b)[Len(a) + i] = b[i]
<1>1. Len(a) \in Nat /\ Len(b) \in Nat BY DEF Bytes
<1> QED BY <1>1, ConcatProperties DEF Bytes

LEMMA Assoc ==
  ASSUME NEW a \in Bytes, NEW b \in Bytes, NEW c \in Bytes
  PROVE  (a \o b) \o c = a \o (b \o c)
BY ConcatAssociative DEF Bytes

LEMMA OneByte ==
  ASSUME NEW b \in Byte
  PROVE  /\ <<b>> \in Bytes /\ Len(<<b>>) = 1 /\ <<b>>[1] = b
         /\ \A t \in Bytes : /\ <<b>> \o t # <<>>
                             /\ Head(<<b>> \o t) = b /\ Tail(<<b>> \o t) = t
<1>1. <<b>> \in Bytes /\ Len(<<b>>) = 1 /\ <<b>>[1] = b
  <2>1. <<b>> \in Seq(Byte) OBVIOUS
  <2>2. Len(<<b>>) = 1 OBVIOUS
  <2> QED BY <2>1, <2>2 DEF Bytes
<1>2. ASSUME NEW t \in Bytes
      PROVE  <<b>> \o t # <<>> /\ Head(<<b>> \o t) = b /\ Tail(<<b>> \o t) = t
  <2>1. /\ <<b>> \o t \in Bytes /\ Len(<<b>> \o t) = 1 + Len(t)
        /\ (<<b>> \o t)[1] = b
        /\ \A i \in 1 .. Len(t) : (<<b>> \o t)[1 + i] = t[i]
    BY <1>1, Concat
  <2>2. <<b>> \o t # <<>> BY <2>1 DEF Bytes
  <2>3. Head(<<b>> \o t) = b BY <2>1, <2>2 DEF Bytes
  <2>4. /\ Tail(<<b>> \o t) \in Bytes /\ Len(Tail(<<b>> \o t)) = Len(t)
        /\ \A i \in 1 .. Len(t) : Tail(<<b>> \o t)[i] = t[i]
    <3> DEFINE u == <<b>> \o t
    <3>1. u \in Bytes /\ u # <<>> /\ Len(u) = 1 + Len(t) /\ Len(t) \in Nat
          /\ \A i \in 1 .. Len(t) : u[1 + i] = t[i]
      BY <2>1, <2>2 DEF Bytes
    <3> HIDE DEF u
    <3>2. /\ Tail(u) \in Seq(Byte) /\ Len(Tail(u)) = Len(u) - 1
          /\ \A i \in 1 .. Len(Tail(u)) : Tail(u)[i] = u[i + 1]
      BY <3>1, HeadTailProperties DEF Bytes
    <3>3. \A i \in 1 .. Len(t) : Tail(u)[i] = t[i]
      BY <3>1, <3>2
    <3> QED BY <3>1, <3>2, <3>3 DEF u, Bytes
  <2>5. Tail(<<b>> \o t) = t BY <2>4, SeqEqual DEF Bytes
  <2> QED BY <2>2, <2>3, <2>5
<1> QED BY <1>1, <1>2

\* A text is its first byte and the rest.
LEMMA Split ==
  ASSUME NEW t \in Bytes, t # <<>>
  PROVE  Head(t) \in Byte /\ Tail(t) \in Bytes /\ t = <<Head(t)>> \o Tail(t)
         /\ Len(t) = 1 + Len(Tail(t))
<1>1. /\ Head(t) \in Byte /\ Tail(t) \in Bytes /\ Len(Tail(t)) = Len(t) - 1
      /\ \A i \in 1 .. Len(Tail(t)) : Tail(t)[i] = t[i + 1]
  BY HeadTailProperties DEF Bytes
<1>2. Head(t) = t[1] /\ Len(t) \in Nat \ {0} BY EmptySeq DEF Bytes
<1>3. <<Head(t)>> \o Tail(t) \in Bytes BY <1>1, OneByte, Concat
<1>4. Len(<<Head(t)>> \o Tail(t)) = Len(t) BY <1>1, <1>2, OneByte, Concat
<1>5. \A i \in 1 .. Len(t) : (<<Head(t)>> \o Tail(t))[i] = t[i]
  <2> TAKE i \in 1 .. Len(t)
  <2>1. CASE i = 1 BY <2>1, <1>1, <1>2, OneByte, Concat
  <2>2. CASE i > 1
    <3>1. i - 1 \in 1 .. Len(Tail(t)) /\ Len(<<Head(t)>>) = 1
      BY <2>2, <1>1, <1>2, OneByte
    <3>2. (<<Head(t)>> \o Tail(t))[1 + (i - 1)] = Tail(t)[i - 1]
      BY <3>1, <1>1, OneByte, Concat
    <3> QED BY <3>1, <3>2, <1>1, <1>2
  <2> QED BY <2>1, <2>2
<1>6. t = <<Head(t)>> \o Tail(t) BY <1>3, <1>4, <1>5, SeqEqual DEF Bytes
<1> QED BY <1>1, <1>2, <1>6

\* A cut of two texts is one of the first, or ends within the second.
LEMMA CutJoin ==
  ASSUME NEW a \in Bytes, NEW b \in Bytes, NEW q \in Cuts(a \o b)
  PROVE  q \in Cuts(a) \/ \E p \in Cuts(b) : q = a \o p
<1>1. PICK w \in Bytes : w # <<>> /\ a \o b = q \o w BY DEF Cuts
<1>2. q \in Bytes BY DEF Cuts
<1>3. /\ Len(a) \in Nat /\ Len(b) \in Nat /\ Len(q) \in Nat /\ Len(w) \in Nat \ {0}
      /\ Len(a) + Len(b) = Len(q) + Len(w)
  BY <1>1, <1>2, Concat, EmptySeq DEF Bytes
<1>4. CASE Len(q) < Len(a)
  <2> DEFINE v == SubSeq(a, Len(q) + 1, Len(a))
  <2>1. SubSeq(a, 1, Len(q)) \o v = SubSeq(a, 1, Len(a))
    <3>1. /\ 1 \in 1 .. Len(a) + 1 /\ Len(q) \in 1 - 1 .. Len(a)
          /\ Len(a) \in Len(q) .. Len(a)
      BY <1>3, <1>4
    <3> QED BY <3>1, ConcatAdjacentSubSeq DEF Bytes
  <2>2. SubSeq(a, 1, Len(a)) = a BY SubSeqFull DEF Bytes
  <2>3. /\ SubSeq(a, 1, Len(q)) \in Bytes /\ Len(SubSeq(a, 1, Len(q))) = Len(q)
        /\ \A i \in 1 .. Len(q) : SubSeq(a, 1, Len(q))[i] = a[i]
    <3>1. \A i \in 1 .. Len(q) : a[i] \in Byte BY <1>3, <1>4 DEF Bytes
    <3> QED BY <3>1, <1>3, SubSeqProperties DEF Bytes
  <2>4. \A i \in 1 .. Len(q) : a[i] = q[i]
    <3> TAKE i \in 1 .. Len(q)
    <3>1. (a \o b)[i] = a[i] BY <1>3, <1>4, Concat
    <3>2. (q \o w)[i] = q[i] BY <1>2, Concat
    <3> QED BY <3>1, <3>2, <1>1
  <2>5. SubSeq(a, 1, Len(q)) = q BY <2>3, <2>4, <1>2, SeqEqual DEF Bytes
  <2>6. v \in Bytes /\ Len(v) = Len(a) - Len(q)
    <3>1. \A i \in Len(q) + 1 .. Len(a) : a[i] \in Byte BY <1>3, <1>4 DEF Bytes
    <3> QED BY <3>1, <1>3, <1>4, SubSeqProperties DEF Bytes
  <2> HIDE DEF v
  <2>7. v # <<>> BY <2>6, <1>3, <1>4
  <2>8. a = q \o v BY <2>1, <2>2, <2>5
  <2> QED BY <2>6, <2>7, <2>8, <1>2 DEF Cuts
<1>5. CASE Len(q) >= Len(a)
  <2> DEFINE p == SubSeq(q, Len(a) + 1, Len(q))
  <2>1. SubSeq(q, 1, Len(a)) \o p = SubSeq(q, 1, Len(q))
    <3>1. /\ 1 \in 1 .. Len(q) + 1 /\ Len(a) \in 1 - 1 .. Len(q)
          /\ Len(q) \in Len(a) .. Len(q)
      BY <1>3, <1>5
    <3> QED BY <1>2, <3>1, ConcatAdjacentSubSeq DEF Bytes
  <2>2. SubSeq(q, 1, Len(q)) = q BY <1>2, SubSeqFull DEF Bytes
  <2>3. /\ SubSeq(q, 1, Len(a)) \in Bytes /\ Len(SubSeq(q, 1, Len(a))) = Len(a)
        /\ \A i \in 1 .. Len(a) : SubSeq(q, 1, Len(a))[i] = q[i]
    <3>1. \A i \in 1 .. Len(a) : q[i] \in Byte BY <1>2, <1>3, <1>5 DEF Bytes
    <3> QED BY <3>1, <1>3, SubSeqProperties DEF Bytes
  <2>4. \A i \in 1 .. Len(a) : a[i] = q[i]
    <3> TAKE i \in 1 .. Len(a)
    <3>1. (a \o b)[i] = a[i] BY Concat
    <3>2. (q \o w)[i] = q[i] BY <1>2, <1>3, <1>5, Concat
    <3> QED BY <3>1, <3>2, <1>1
  <2>5. SubSeq(q, 1, Len(a)) = a BY <2>3, <2>4, <1>2, SeqEqual DEF Bytes
  <2>6. p \in Bytes
    <3>1. \A i \in Len(a) + 1 .. Len(q) : q[i] \in Byte
      BY <1>2, <1>3, <1>5 DEF Bytes
    <3> QED BY <3>1, <1>3, SubSeqProperties DEF Bytes
  <2> HIDE DEF p
  <2>7. q = a \o p BY <2>1, <2>2, <2>5
  <2>8. a \o b = a \o (p \o w) BY <2>6, <2>7, <1>1, Assoc
  <2>9. b = p \o w
    <3>1. p \o w \in Bytes BY <2>6, Concat
    <3> QED BY <2>8, <3>1, <2>6, <1>1, ConcatSimplifications DEF Bytes
  <2> QED BY <2>6, <2>7, <2>9, <1>1 DEF Cuts
<1> QED BY <1>3, <1>4, <1>5

-----------------------------------------------------------------------------
(* Lines.                                                                  *)

LEMMA NullSignOnly == NullSign \notin {"#", "+", "-", "@", "=", "*", "$", ":", Nl}
BY Zenon DEF NullSign, Nl

LEMMA Literals ==
  /\ Nl \in Byte /\ {"t", "f", " ", ","} \subseteq Byte
  /\ \A i \in 1 .. 10 : Digits[i] \in Byte
  /\ \A c \in Sigils : c \in Byte /\ c # Nl
<1>1. DOMAIN Digits = 1 .. 10 BY DEF Digits
<1>2. Meanings \subseteq Byte BY WireAssumption
<1>3. \A i \in 1 .. 10 : Digits[i] \in Meanings BY <1>1 DEF Meanings
<1>4. Sigils \subseteq Meanings /\ {"t", "f", " ", ",", Nl} \subseteq Meanings
  BY DEF Meanings
<1>5. \A c \in Sigils : c # Nl BY NullSignOnly DEF Sigils, Nl
<1> QED BY <1>2, <1>3, <1>4, <1>5

\* The first newline (or space, or comma) is where it was written when
\* nothing before it is one.
LEMMA IndexOfFirst ==
  ASSUME NEW a \in Bytes, NEW b \in Byte, NEW u \in Bytes,
         \A i \in DOMAIN a : a[i] # b
  PROVE  IndexOf(a \o (<<b>> \o u), b) = Len(a) + 1
<1> DEFINE t == a \o (<<b>> \o u)
           n == Len(a) + 1
<1>0. DOMAIN t = 1 .. Len(t) BY OneByte, Concat, LenProperties DEF Bytes
<1>1. /\ n \in DOMAIN t /\ t[n] = b /\ \A i \in 1 .. n - 1 : t[i] # b
      /\ n \in Nat /\ DOMAIN t \subseteq Nat
  BY OneByte DEF Bytes
<1> HIDE DEF t, n
<1>2. ASSUME NEW i \in DOMAIN t, t[i] = b, \A j \in 1 .. i - 1 : t[j] # b
      PROVE  i = n
  <2>1. i \in Nat /\ i >= 1 BY <1>1, <1>0
  <2>2. CASE i < n
    <3>1. i \in 1 .. n - 1 BY <2>1, <2>2, <1>1
    <3> QED BY <3>1, <1>1, <1>2
  <2>3. CASE n < i
    <3>1. n \in 1 .. i - 1 BY <2>1, <2>3, <1>1, <1>0
    <3> QED BY <3>1, <1>1, <1>2
  <2> QED BY <2>1, <2>2, <2>3, <1>1
<1>3. (CHOOSE i \in DOMAIN t : t[i] = b /\ \A j \in 1 .. i - 1 : t[j] # b) = n
  BY <1>1, <1>2
<1>4. IndexOf(t, b) = n BY <1>1, <1>3 DEF IndexOf
<1> QED BY <1>4 DEF t, n

LEMMA IndexOfNone ==
  ASSUME NEW a \in Bytes, NEW b, \A i \in DOMAIN a : a[i] # b
  PROVE  IndexOf(a, b) = 0
BY DEF IndexOf

LEMMA IndexOfAny ==
  ASSUME NEW a \in Bytes, NEW b
  PROVE  \/ IndexOf(a, b) = 0 /\ \A i \in DOMAIN a : a[i] # b
         \/ /\ IndexOf(a, b) \in 1 .. Len(a)
            /\ \A i \in 1 .. IndexOf(a, b) - 1 : a[i] # b
<1>1. CASE \A i \in DOMAIN a : a[i] # b BY <1>1 DEF IndexOf
<1>2. CASE \E i \in DOMAIN a : a[i] = b
  <2> DEFINE S == {i \in DOMAIN a : a[i] = b}
  <2>1. DOMAIN a = 1 .. Len(a) /\ Len(a) \in Nat BY DEF Bytes
  <2>2. S \subseteq Nat /\ S # {} BY <1>2, <2>1
  <2>3. PICK n \in S : \A m \in S : ~(<<m, n>> \in Below)
    BY <2>2, BelowWellFounded, WFMin
  <2>4. n \in DOMAIN a /\ a[n] = b /\ \A j \in 1 .. n - 1 : a[j] # b
    <3>1. n \in Nat /\ n \in DOMAIN a /\ a[n] = b BY <2>1, <2>3
    <3>2. ASSUME NEW j \in 1 .. n - 1, a[j] = b PROVE FALSE
      <4>1. j \in S /\ j \in Nat /\ j < n BY <3>1, <3>2, <2>1
      <4>2. <<j, n>> \in Below BY <4>1, <3>1 DEF Below
      <4> QED BY <4>1, <4>2, <2>3
    <3> QED BY <3>1, <3>2
  <2> DEFINE m == CHOOSE i \in DOMAIN a : a[i] = b /\ \A j \in 1 .. i - 1 : a[j] # b
  <2>5. m \in DOMAIN a /\ \A j \in 1 .. m - 1 : a[j] # b BY <2>4
  <2>6. IndexOf(a, b) = m BY <1>2 DEF IndexOf
  <2> QED BY <2>1, <2>5, <2>6
<1> QED BY <1>1, <1>2

\* ReadBytes returns the line that was written, without its end, and what
\* follows it.
LEMMA ReadBytesLine ==
  ASSUME NEW s \in InLine, NEW u \in Bytes
  PROVE  ReadBytes((s \o <<Nl>>) \o u) = [ok |-> TRUE, line |-> s, rest |-> u]
<1> DEFINE t == s \o (<<Nl>> \o u)
<1>1. s \in Bytes /\ <<Nl>> \in Bytes /\ Nl \in Byte BY Literals, OneByte DEF InLine
<1>2. (s \o <<Nl>>) \o u = t BY <1>1, Assoc
<1>3. IndexOf(t, Nl) = Len(s) + 1 BY <1>1, IndexOfFirst DEF InLine
<1>4. /\ t \in Bytes /\ Len(t) = Len(s) + 1 + Len(u)
      /\ \A i \in 1 .. Len(s) : t[i] = s[i]
      /\ \A i \in 1 .. Len(u) : t[Len(s) + 1 + i] = u[i]
      /\ Len(s) \in Nat /\ Len(u) \in Nat
  BY <1>1 DEF Bytes
<1> HIDE DEF t
<1>5. SubSeq(t, 1, Len(s)) = s
  BY <1>1, <1>4 DEF Bytes
<1>6. SubSeq(t, Len(s) + 2, Len(t)) = u
  BY <1>4 DEF Bytes
<1>7. Len(s) + 1 # 0 /\ (Len(s) + 1) - 1 = Len(s) /\ (Len(s) + 1) + 1 = Len(s) + 2
  BY <1>4
<1> QED BY <1>2, <1>3, <1>5, <1>6, <1>7 DEF ReadBytes, From

\* ... and fails when there is no newline.
LEMMA ReadBytesNone ==
  ASSUME NEW s \in InLine
  PROVE  ReadBytes(s) = [ok |-> FALSE, line |-> <<>>, rest |-> <<>>]
<1>1. IndexOf(s, Nl) = 0 BY IndexOfNone DEF InLine
<1>2. SubSeq(s, 1, 0 - 1) = <<>> BY SubSeqEmpty
<1> QED BY <1>1, <1>2 DEF ReadBytes

LEMMA LineFields ==
  ASSUME NEW s \in InLine, NEW u \in Bytes
  PROVE  /\ ReadBytes((s \o <<Nl>>) \o u).ok
         /\ ReadBytes((s \o <<Nl>>) \o u).line = s
         /\ ReadBytes((s \o <<Nl>>) \o u).rest = u
<1> DEFINE r == ReadBytes((s \o <<Nl>>) \o u)
<1>1. r = [ok |-> TRUE, line |-> s, rest |-> u] BY ReadBytesLine
<1> HIDE DEF r
<1>2. r.ok /\ r.line = s /\ r.rest = u BY <1>1
<1> QED BY <1>2 DEF r

LEMMA NoLineFields ==
  ASSUME NEW s \in InLine
  PROVE  ~ReadBytes(s).ok /\ ReadBytes(s).line = <<>> /\ ReadBytes(s).rest = <<>>
<1> DEFINE r == ReadBytes(s)
<1>1. r = [ok |-> FALSE, line |-> <<>>, rest |-> <<>>] BY ReadBytesNone
<1> HIDE DEF r
<1>2. ~r.ok /\ r.line = <<>> /\ r.rest = <<>> BY <1>1
<1> QED BY <1>2 DEF r

LEMMA ReadBytesAny ==
  ASSUME NEW t \in Bytes
  PROVE  /\ ReadBytes(t) = [ok |-> ReadBytes(t).ok, line |-> ReadBytes(t).line,
                            rest |-> ReadBytes(t).rest]
         /\ ReadBytes(t).ok \in BOOLEAN /\ ReadBytes(t).line \in InLine
         /\ ReadBytes(t).rest \in Bytes
<1>1. CASE IndexOf(t, Nl) = 0
  <2>1. t \in InLine BY <1>1, IndexOfAny DEF InLine, Bytes
  <2>2. <<>> \in InLine BY DEF InLine, Bytes
  <2>3. ReadBytes(t) = [ok |-> FALSE, line |-> <<>>, rest |-> <<>>]
    BY <2>1, ReadBytesNone
  <2> QED BY <2>2, <2>3 DEF InLine
<1>2. CASE IndexOf(t, Nl) # 0
  <2> DEFINE n == IndexOf(t, Nl)
  <2>1. n \in 1 .. Len(t) /\ \A i \in 1 .. n - 1 : t[i] # Nl
    BY <1>2, IndexOfAny
  <2> HIDE DEF n
  <2>2. Len(t) \in Nat /\ \A i \in 1 .. Len(t) : t[i] \in Byte BY DEF Bytes
  <2>3. /\ SubSeq(t, 1, n - 1) \in Bytes /\ Len(SubSeq(t, 1, n - 1)) = n - 1
        /\ \A i \in 1 .. n - 1 : SubSeq(t, 1, n - 1)[i] = t[i]
    BY <2>1, <2>2 DEF Bytes
  <2>4. SubSeq(t, n + 1, Len(t)) \in Bytes BY <2>1, <2>2 DEF Bytes
  <2>5. SubSeq(t, 1, n - 1) \in InLine
    <3> DEFINE l == SubSeq(t, 1, n - 1)
    <3>1. DOMAIN l = 1 .. n - 1 BY <2>3, LenProperties DEF Bytes
    <3> QED BY <3>1, <2>1, <2>3 DEF InLine
  <2> QED BY <1>2, <2>4, <2>5 DEF n, ReadBytes, From
<1> QED BY <1>1, <1>2

LEMMA NextLineFirst ==
  ASSUME NEW t \in Bytes, t = <<>> \/ Head(t) # Nl
  PROVE  nextLine(t) = ReadBytes(t)
<1> DEFINE P(i) == (i <= Len(t) => t[i] # Nl) /\ \A j \in 1 .. i - 1 : t[j] = Nl
           n == CHOOSE i \in 1 .. Len(t) + 1 : P(i)
<1>1. Len(t) \in Nat /\ (t # <<>> => Len(t) > 0 /\ Head(t) = t[1]) BY DEF Bytes
<1>2. 1 \in 1 .. Len(t) + 1 /\ P(1)
  <2>1. CASE t = <<>> BY <2>1, <1>1
  <2>2. CASE t # <<>> BY <2>2, <1>1
  <2> QED BY <2>1, <2>2
<1>3. ASSUME NEW i \in 1 .. Len(t) + 1, P(i) PROVE i = 1
  <2> SUFFICES ASSUME i # 1 PROVE FALSE OBVIOUS
  <2>1. 1 \in 1 .. i - 1 /\ Len(t) > 0 BY <1>1
  <2>2. t # <<>> BY <2>1
  <2> QED BY <2>1, <2>2, <1>1, <1>3
<1>4. n = 1 BY <1>2, <1>3
<1>5. From(t, 1) = t BY SubSeqFull DEF From, Bytes
<1>6. nextLine(t) = ReadBytes(From(t, n)) BY DEF nextLine
<1> QED BY <1>4, <1>5, <1>6

\* nextLine skips nothing when the line is not empty.
LEMMA NextLine ==
  ASSUME NEW s \in InLine
  PROVE  /\ nextLine(s) = [ok |-> FALSE, line |-> <<>>, rest |-> <<>>]
         /\ \A u \in Bytes : s # <<>> =>
              nextLine((s \o <<Nl>>) \o u) = [ok |-> TRUE, line |-> s, rest |-> u]
<1>1. s \in Bytes /\ \A i \in DOMAIN s : s[i] # Nl BY DEF InLine
<1>2. s # <<>> => Len(s) \in Nat \ {0} /\ 1 \in DOMAIN s /\ Head(s) = s[1]
  BY <1>1 DEF Bytes
<1>3. nextLine(s) = ReadBytes(s) BY <1>1, <1>2, NextLineFirst
<1>4. ASSUME NEW u \in Bytes, s # <<>>
      PROVE  nextLine((s \o <<Nl>>) \o u) = ReadBytes((s \o <<Nl>>) \o u)
  <2>1. <<Nl>> \in Bytes BY Literals, OneByte
  <2>2. s \o (<<Nl>> \o u) \in Bytes /\ Head(s \o (<<Nl>> \o u)) = s[1]
    BY <2>1, <1>1, <1>2, <1>4 DEF Bytes
  <2>3. (s \o <<Nl>>) \o u = s \o (<<Nl>> \o u) BY <2>1, <1>1, Assoc
  <2> QED BY <2>2, <2>3, <1>1, <1>2, <1>4, NextLineFirst
<1> QED BY <1>3, <1>4, ReadBytesNone, ReadBytesLine

LEMMA NextLineAny ==
  ASSUME NEW t \in Bytes
  PROVE  \E u \in Bytes : nextLine(t) = ReadBytes(u)
<1> DEFINE P(i) == (i <= Len(t) => t[i] # Nl) /\ \A j \in 1 .. i - 1 : t[j] = Nl
           n == CHOOSE i \in 1 .. Len(t) + 1 : P(i)
           S == {i \in 1 .. Len(t) + 1 : i <= Len(t) => t[i] # Nl}
<1>1. Len(t) \in Nat BY DEF Bytes
<1>2. S \subseteq Nat /\ Len(t) + 1 \in S BY <1>1
<1>3. PICK m \in S : \A k \in S : ~(<<k, m>> \in Below)
  BY <1>2, BelowWellFounded, WFMin
<1>4. m \in 1 .. Len(t) + 1 /\ P(m)
  <2>1. ASSUME NEW j \in 1 .. m - 1, t[j] # Nl PROVE FALSE
    <3>1. j \in S /\ j \in Nat /\ m \in Nat /\ j < m BY <2>1, <1>1, <1>2
    <3> QED BY <3>1, <1>3 DEF Below
  <2> QED BY <2>1
<1>5. n \in 1 .. Len(t) + 1 BY <1>4
<1> HIDE DEF n
<1>6. SubSeq(t, n, Len(t)) \in Bytes
  <2>1. \A i \in n .. Len(t) : t[i] \in Byte BY <1>1, <1>5 DEF Bytes
  <2> QED BY <1>1, <1>5, <2>1, SubSeqProperties DEF Bytes
<1> QED BY <1>6 DEF n, nextLine, From

-----------------------------------------------------------------------------
(* A line of a value, with its sigil, and what follows.                    *)

LEMMA LineType ==
  ASSUME NEW c \in Byte, NEW s \in Bytes
  PROVE  s \o <<Nl>> \in Bytes /\ Line(c, s) \in Bytes /\ Line(c, s) # <<>>
BY Literals, OneByte, Concat DEF Line

\* readValue sees the sigil, and the handlers the rest of the line.
LEMMA LineHead ==
  ASSUME NEW c \in Byte, NEW s \in Bytes, NEW u \in Bytes
  PROVE  /\ Line(c, s) \o u \in Bytes /\ Line(c, s) \o u # <<>>
         /\ Head(Line(c, s) \o u) = c
         /\ Tail(Line(c, s) \o u) = (s \o <<Nl>>) \o u
         /\ Len((s \o <<Nl>>) \o u) < Len(Line(c, s) \o u)
         /\ Len(u) < Len(Line(c, s) \o u)
<1>1. <<c>> \in Bytes /\ s \o <<Nl>> \in Bytes BY OneByte, LineType
<1>2. Line(c, s) \o u = <<c>> \o ((s \o <<Nl>>) \o u) BY <1>1, Assoc DEF Line
<1>3. (s \o <<Nl>>) \o u \in Bytes BY <1>1, Concat
<1>4. /\ Len((s \o <<Nl>>) \o u) = Len(s \o <<Nl>>) + Len(u)
      /\ Len(s \o <<Nl>>) \in Nat /\ Len(u) \in Nat
  BY <1>1, Concat DEF Bytes
<1>5. Len(<<c>> \o ((s \o <<Nl>>) \o u)) = 1 + Len((s \o <<Nl>>) \o u)
  BY <1>1, <1>3, OneByte, Concat
<1>6. <<c>> \o ((s \o <<Nl>>) \o u) \in Bytes BY <1>1, <1>3, Concat
<1>7. /\ <<c>> \o ((s \o <<Nl>>) \o u) # <<>>
      /\ Head(<<c>> \o ((s \o <<Nl>>) \o u)) = c
      /\ Tail(<<c>> \o ((s \o <<Nl>>) \o u)) = (s \o <<Nl>>) \o u
  BY <1>3, OneByte
<1> HIDE DEF Line
<1> QED BY <1>2, <1>4, <1>5, <1>6, <1>7

LEMMA CutEmpty == Cuts(<<>>) = {}
<1> SUFFICES ASSUME NEW q \in Bytes, NEW w \in Bytes, w # <<>>, <<>> = q \o w
             PROVE  FALSE
  BY DEF Cuts
<1>1. Len(w) \in Nat \ {0} /\ Len(q) \in Nat /\ Len(q \o w) = Len(q) + Len(w)
  BY Concat, EmptySeq DEF Bytes
<1> QED BY <1>1

LEMMA CutOne == ASSUME NEW b \in Byte, NEW q \in Cuts(<<b>>) PROVE q = <<>>
<1>1. PICK w \in Bytes : w # <<>> /\ <<b>> = q \o w BY DEF Cuts
<1>2. q \in Bytes BY DEF Cuts
<1>3. Len(w) \in Nat \ {0} /\ Len(q) \in Nat /\ 1 = Len(q) + Len(w)
  BY <1>1, <1>2, Concat, EmptySeq, OneByte DEF Bytes
<1> QED BY <1>2, <1>3, EmptySeq DEF Bytes

\* A cut is shorter than its text.
LEMMA CutShort ==
  ASSUME NEW a \in Bytes, NEW q \in Cuts(a)
  PROVE  /\ q \in Bytes /\ Len(q) < Len(a) /\ Len(q) \in Nat
         /\ \A i \in 1 .. Len(q) : q[i] = a[i]
<1>1. PICK w \in Bytes : w # <<>> /\ a = q \o w BY DEF Cuts
<1>2. q \in Bytes BY DEF Cuts
<1>3. Len(w) \in Nat \ {0} /\ Len(q) \in Nat BY <1>1, <1>2, EmptySeq DEF Bytes
<1> QED BY <1>1, <1>2, <1>3, Concat

\* Of a line that is cut there is no newline.
LEMMA CutLine ==
  ASSUME NEW s \in InLine, NEW q \in Cuts(s \o <<Nl>>)
  PROVE  q \in InLine
<1>1. s \in Bytes /\ Nl \in Byte /\ <<Nl>> \in Bytes /\ \A i \in DOMAIN s : s[i] # Nl
  BY Literals, OneByte DEF InLine
<1>2. CASE q \in Cuts(s)
  <2>1. /\ q \in Bytes /\ Len(q) < Len(s) /\ Len(q) \in Nat
        /\ \A i \in 1 .. Len(q) : q[i] = s[i]
    BY <1>1, <1>2, CutShort
  <2>2. DOMAIN q = 1 .. Len(q) /\ DOMAIN s = 1 .. Len(s) /\ Len(s) \in Nat
    BY <2>1, <1>1, LenProperties DEF Bytes
  <2> QED BY <1>1, <2>1, <2>2 DEF InLine
<1>3. CASE \E p \in Cuts(<<Nl>>) : q = s \o p
  <2>1. q = s \o <<>> BY <1>1, <1>3, CutOne
  <2>2. q = s BY <1>1, <2>1, ConcatEmptySeq DEF Bytes
  <2> QED BY <2>2
<1> QED BY <1>1, <1>2, <1>3, CutJoin

\* Nothing has arrived of a value, or its sigil and a part of its line, or its
\* line and a part of what follows.
LEMMA CutValue ==
  ASSUME NEW c \in Byte, NEW s \in Bytes, NEW b \in Bytes,
         NEW q \in Cuts(Line(c, s) \o b)
  PROVE  \/ q = <<>>
         \/ q # <<>> /\ Head(q) = c /\ Tail(q) \in Cuts(s \o <<Nl>>)
         \/ \E p \in Cuts(b) : q = Line(c, s) \o p
<1>1. s \o <<Nl>> \in Bytes /\ Line(c, s) \in Bytes /\ <<c>> \in Bytes
  BY LineType, OneByte
<1>2. CASE q \in Cuts(Line(c, s))
  <2>1. q \in Cuts(<<c>>) \/ \E p \in Cuts(s \o <<Nl>>) : q = <<c>> \o p
    BY <1>1, <1>2, CutJoin DEF Line
  <2>2. CASE q \in Cuts(<<c>>) BY <2>2, CutOne
  <2>3. CASE \E p \in Cuts(s \o <<Nl>>) : q = <<c>> \o p
    <3>1. PICK p \in Cuts(s \o <<Nl>>) : q = <<c>> \o p BY <2>3
    <3>2. p \in Bytes BY DEF Cuts
    <3>3. q # <<>> /\ Head(q) = c /\ Tail(q) = p BY <3>1, <3>2, OneByte
    <3> QED BY <3>3
  <2> QED BY <2>1, <2>2, <2>3
<1>3. CASE \E p \in Cuts(b) : q = Line(c, s) \o p BY <1>3
<1> QED BY <1>1, <1>2, <1>3, CutJoin

LEMMA CutLineOnly ==
  ASSUME NEW c \in Byte, NEW s \in Bytes, NEW q \in Cuts(Line(c, s))
  PROVE  \/ q = <<>>
         \/ q # <<>> /\ Head(q) = c /\ Tail(q) \in Cuts(s \o <<Nl>>)
<1>1. Line(c, s) \in Bytes /\ <<>> \in Bytes BY LineType, EmptySeq DEF Bytes
<1>2. Line(c, s) \o <<>> = Line(c, s) BY <1>1, ConcatEmptySeq DEF Bytes
<1> QED BY <1>1, <1>2, CutValue, CutEmpty

-----------------------------------------------------------------------------
(* Numbers.                                                                *)

Absolute(n) == IF n < 0 THEN -n ELSE n

DecOf(f, m) ==
    f = [k \in 0 .. m |-> IF k < 10 THEN <<Digits[k + 1]>>
                          ELSE Append(f[k \div 10], Digits[(k % 10) + 1])]

\* The recursive functions inside Decimal and Number.
LEMMA DecExists == ASSUME NEW m \in Nat PROVE \E f : DecOf(f, m)
<1> DEFINE St(x, k) == IF k < 10 THEN <<Digits[k + 1]>>
                       ELSE Append(x, Digits[(k % 10) + 1])
           D(f, n) == f = [k \in 0 .. n |-> St(f[k \div 10], k)]
           S == {n \in Nat : \E f : D(f, n)}
<1>0. \A x, y : St(x, 0) = St(y, 0) OBVIOUS
<1> HIDE DEF St
<1>1. 0 \in S
  <2> DEFINE g == [k \in 0 .. 0 |-> St(<<>>, 0)]
  <2>1. \A k \in 0 .. 0 : St(g[k \div 10], k) = St(<<>>, 0) BY <1>0
  <2>2. D(g, 0) BY <2>1
  <2> HIDE DEF g, D
  <2> QED BY <2>2
<1>2. ASSUME NEW n \in Nat, n \in S PROVE n + 1 \in S
  <2>1. PICK f : D(f, n) BY <1>2
  <2> DEFINE g == [k \in 0 .. n + 1 |-> IF k = n + 1 THEN St(f[(n + 1) \div 10], n + 1)
                                        ELSE f[k]]
  <2>2. \A k \in 0 .. n + 1 : (k \div 10) \in 0 .. n \/ k = 0
    OBVIOUS
  <2>3. \A k \in 0 .. n + 1 : g[k] = St(g[k \div 10], k)
    <3> TAKE k \in 0 .. n + 1
    <3>1. CASE k = n + 1
      <4>1. (k \div 10) \in 0 .. n BY <2>2, <3>1
      <4> QED BY <3>1, <4>1
    <3>2. CASE k # n + 1 /\ k # 0
      <4>1. k \in 0 .. n /\ (k \div 10) \in 0 .. n BY <2>2, <3>2
      <4>2. g[k] = f[k] /\ g[k \div 10] = f[k \div 10] BY <4>1
      <4>3. f[k] = St(f[k \div 10], k) BY <4>1, <2>1
      <4> QED BY <4>2, <4>3
    <3>3. CASE k = 0
      <4>1. g[0] = f[0] /\ f[0] = St(f[0 \div 10], 0) BY <2>1
      <4> QED BY <3>3, <4>1, <1>0
    <3> QED BY <3>1, <3>2, <3>3
  <2>4. D(g, n + 1)
    <3>1. g = [k \in 0 .. n + 1 |-> g[k]] OBVIOUS
    <3> HIDE DEF g
    <3> QED BY <2>3, <3>1
  <2> HIDE DEF g, D
  <2>5. \E h : D(h, n + 1) BY <2>4
  <2> QED BY <2>5
<1>3. Nat \subseteq S BY <1>1, <1>2, NatInd
<1> QED BY <1>3 DEF St, DecOf

LEMMA DecimalDef ==
  ASSUME NEW n \in Int
  PROVE  \E f : /\ DecOf(f, Absolute(n))
                /\ Decimal(n) = IF n < 0 THEN <<"-">> \o f[-n] ELSE f[n]
<1>1. Absolute(n) \in Nat BY DEF Absolute
<1>2. \E f : DecOf(f, Absolute(n)) BY <1>1, DecExists
<1> QED BY <1>2 DEF Decimal, DecOf, Absolute

UpToOf(f, ds) ==
    f = [i \in 0 .. Len(ds) |-> IF i = 0 THEN 0
                                ELSE 10 * f[i - 1] + DigitOf(ds[i])]

LEMMA UpToExists == ASSUME NEW ds \in Bytes PROVE \E f : UpToOf(f, ds)
<1> DEFINE St(x, i) == 10 * x + DigitOf(ds[i])
           D(f, n) == f = [i \in 0 .. n |-> IF i = 0 THEN 0 ELSE St(f[i - 1], i)]
           S == {n \in Nat : \E f : D(f, n)}
<1> HIDE DEF St
<1>1. 0 \in S
  <2>1. D([i \in 0 .. 0 |-> 0], 0) OBVIOUS
  <2> QED BY <2>1
<1>2. ASSUME NEW n \in Nat, n \in S PROVE n + 1 \in S
  <2>1. PICK f : D(f, n) BY <1>2
  <2> DEFINE g == [i \in 0 .. n + 1 |-> IF i = n + 1 THEN St(f[n], n + 1) ELSE f[i]]
  <2>2. D(g, n + 1) BY <2>1
  <2> HIDE DEF g, D
  <2>3. \E h : D(h, n + 1) BY <2>2
  <2> QED BY <2>3
<1>3. Nat \subseteq S BY <1>1, <1>2, NatInd
<1>4. Len(ds) \in Nat BY DEF Bytes
<1> QED BY <1>3, <1>4 DEF St, UpToOf

LEMMA NumberDef ==
  ASSUME NEW ds \in Bytes
  PROVE  \E f : UpToOf(f, ds) /\ Number(ds) = f[Len(ds)]
BY UpToExists DEF Number, UpToOf

AllDigits(ds) == \A i \in DOMAIN ds : IsDigit(ds[i])

LEMMA DigitOfType ==
  ASSUME NEW b, IsDigit(b) PROVE DigitOf(b) \in 0 .. 9
<1>1. PICK i \in DOMAIN Digits : Digits[i] = b BY DEF IsDigit
<1>2. i \in 1 .. 10 BY DEF Digits
<1>3. i - 1 \in 0 .. 9 /\ Digits[(i - 1) + 1] = b BY <1>1, <1>2
<1> QED BY <1>3 DEF DigitOf

LEMMA DigitOfDigit ==
  ASSUME NEW n \in 0 .. 9
  PROVE  /\ Digits[n + 1] \in Byte /\ IsDigit(Digits[n + 1])
         /\ DigitOf(Digits[n + 1]) = n
         /\ Digits[n + 1] \notin {Nl, ",", "+", "-"}
<1>1. DOMAIN Digits = 1 .. 10 BY DEF Digits
<1>2. n + 1 \in DOMAIN Digits BY <1>1
<1>3. \A m \in 0 .. 9 : Digits[m + 1] = Digits[n + 1] => m = n
  BY DEF Digits
<1>4. DigitOf(Digits[n + 1]) = n BY <1>3 DEF DigitOf
<1>5. Digits[n + 1] \notin {Nl, ",", "+", "-"}
  <2>1. n \in {0, 1, 2, 3, 4, 5, 6, 7, 8, 9} OBVIOUS
  <2>2. Digits[n + 1] \in {"0", "1", "2", "3", "4", "5", "6", "7", "8", "9"}
    BY <2>1 DEF Digits
  <2> QED BY <2>2 DEF Nl
<1> QED BY <1>1, <1>2, <1>4, <1>5, Literals DEF IsDigit

LEMMA NumberType ==
  ASSUME NEW ds \in Bytes, AllDigits(ds) PROVE Number(ds) \in Nat
<1>1. PICK f : UpToOf(f, ds) /\ Number(ds) = f[Len(ds)] BY NumberDef
<1> DEFINE S == {i \in Nat : i <= Len(ds) => f[i] \in Nat}
<1>2. Len(ds) \in Nat /\ DOMAIN ds = 1 .. Len(ds) BY LenProperties DEF Bytes
<1>3. 0 \in S BY <1>1, <1>2 DEF UpToOf
<1>4. ASSUME NEW i \in Nat, i \in S PROVE i + 1 \in S
  <2>1. CASE i + 1 <= Len(ds)
    <3>1. i + 1 \in DOMAIN ds /\ i + 1 \in 0 .. Len(ds) /\ i + 1 # 0
          /\ (i + 1) - 1 = i
      BY <2>1, <1>2
    <3>2. DigitOf(ds[i + 1]) \in 0 .. 9 BY <3>1, DigitOfType DEF AllDigits
    <3>3. f[i + 1] = 10 * f[i] + DigitOf(ds[i + 1]) BY <1>1, <3>1 DEF UpToOf
    <3>4. f[i] \in Nat BY <1>4, <2>1, <1>2
    <3> QED BY <3>2, <3>3, <3>4
  <2>2. CASE ~(i + 1 <= Len(ds)) BY <2>2
  <2> QED BY <2>1, <2>2
<1>5. Nat \subseteq S BY <1>3, <1>4, NatInd
<1> QED BY <1>1, <1>2, <1>5

\* The value of digits, and of one digit more.
LEMMA NumberAppend ==
  ASSUME NEW ds \in Bytes, NEW d \in Byte
  PROVE  Number(Append(ds, d)) = 10 * Number(ds) + DigitOf(d)
<1> DEFINE es == Append(ds, d)
<1>1. /\ es \in Bytes /\ Len(es) = Len(ds) + 1 /\ es[Len(ds) + 1] = d
      /\ \A i \in 1 .. Len(ds) : es[i] = ds[i]
      /\ Len(ds) \in Nat
  BY AppendProperties DEF Bytes
<1> HIDE DEF es
<1>2. PICK f : UpToOf(f, ds) /\ Number(ds) = f[Len(ds)] BY NumberDef
<1>3. PICK g : UpToOf(g, es) /\ Number(es) = g[Len(es)] BY <1>1, NumberDef
<1> DEFINE S == {i \in Nat : i <= Len(ds) => g[i] = f[i]}
<1>4. 0 \in S BY <1>1, <1>2, <1>3 DEF UpToOf
<1>5. ASSUME NEW i \in Nat, i \in S PROVE i + 1 \in S
  <2>1. CASE i + 1 <= Len(ds)
    <3>1. i + 1 \in 0 .. Len(ds) /\ i + 1 \in 0 .. Len(es) /\ i + 1 # 0
          /\ (i + 1) - 1 = i /\ i + 1 \in 1 .. Len(ds)
      BY <2>1, <1>1
    <3>2. f[i + 1] = 10 * f[i] + DigitOf(ds[i + 1]) BY <1>2, <3>1 DEF UpToOf
    <3>3. g[i + 1] = 10 * g[i] + DigitOf(es[i + 1]) BY <1>3, <3>1 DEF UpToOf
    <3> QED BY <3>1, <3>2, <3>3, <1>1, <1>5
  <2>2. CASE ~(i + 1 <= Len(ds)) BY <2>2
  <2> QED BY <2>1, <2>2
<1>6. Nat \subseteq S BY <1>4, <1>5, NatInd
<1>7. g[Len(ds)] = f[Len(ds)] BY <1>1, <1>6
<1>8. /\ Len(ds) + 1 \in 0 .. Len(es) /\ Len(ds) + 1 # 0
      /\ (Len(ds) + 1) - 1 = Len(ds)
  BY <1>1
<1>9. g[Len(ds) + 1] = 10 * g[Len(ds)] + DigitOf(es[Len(ds) + 1])
  BY <1>3, <1>8 DEF UpToOf
<1> QED BY <1>1, <1>2, <1>3, <1>7, <1>9 DEF es

LEMMA NumberEmpty == <<>> \in Bytes /\ Number(<<>>) = 0
<1>1. <<>> \in Bytes /\ Len(<<>>) = 0 BY EmptySeq DEF Bytes
<1>2. PICK f : UpToOf(f, <<>>) /\ Number(<<>>) = f[0] BY <1>1, NumberDef
<1>3. f[0] = 0 BY <1>1, <1>2 DEF UpToOf
<1> QED BY <1>1, <1>2, <1>3

\* What Decimal writes of a natural number.
LEMMA DecNatural ==
  ASSUME NEW m \in Nat, NEW f, DecOf(f, m)
  PROVE  \A k \in 0 .. m : /\ f[k] \in Bytes /\ f[k] # <<>> /\ AllDigits(f[k])
                           /\ \A i \in DOMAIN f[k] : f[k][i] \notin {Nl, ",", "+", "-"}
                           /\ Number(f[k]) = k
<1> DEFINE P(k) == /\ f[k] \in Bytes /\ f[k] # <<>> /\ AllDigits(f[k])
                   /\ \A i \in DOMAIN f[k] : f[k][i] \notin {Nl, ",", "+", "-"}
                   /\ Number(f[k]) = k
           S == {k \in Nat : \A j \in 0 .. k : j <= m => P(j)}
<1>1. ASSUME NEW k \in 0 .. m, k < 10 PROVE P(k)
  <2>1. f[k] = <<Digits[k + 1]>> BY <1>1 DEF DecOf
  <2>2. k \in 0 .. 9 BY <1>1
  <2> DEFINE d == Digits[k + 1]
  <2>3. d \in Byte /\ IsDigit(d) /\ DigitOf(d) = k /\ d \notin {Nl, ",", "+", "-"}
    BY <2>2, DigitOfDigit
  <2> HIDE DEF d
  <2>4. <<d>> \in Bytes /\ <<d>> # <<>> /\ <<d>>[1] = d BY <2>3, OneByte
  <2>9. DOMAIN <<d>> = {1} OBVIOUS
  <2>5. Number(Append(<<>>, d)) = 10 * 0 + k BY <2>3, NumberAppend, NumberEmpty
  <2>6. Append(<<>>, d) = <<d>> OBVIOUS
  <2>7. Number(<<d>>) = k BY <2>5, <2>6, <2>2
  <2>8. f[k] = <<d>> BY <2>1 DEF d
  <2>10. AllDigits(<<d>>) /\ \A i \in DOMAIN <<d>> : <<d>>[i] \notin {Nl, ",", "+", "-"}
    BY <2>3, <2>4, <2>9 DEF AllDigits
  <2> QED BY <2>4, <2>7, <2>8, <2>10
<1>2. ASSUME NEW k \in 0 .. m, k >= 10, P(k \div 10) PROVE P(k)
  <2> DEFINE h == k \div 10
             d == Digits[(k % 10) + 1]
  <2>1. k = 10 * h + (k % 10) /\ k % 10 \in 0 .. 9 /\ h \in Nat
    <3>0. k >= 10 BY <1>2
    <3>1. k \in Nat /\ k >= 10 BY ONLY <3>0, m \in Nat, k \in 0 .. m
    <3>2. k % 10 \in 0 .. 9 BY <3>1
    <3>3. k \div 10 \in Nat BY <3>1
    <3>4. k = 10 * (k \div 10) + (k % 10) BY <3>1
    <3> QED BY <3>2, <3>3, <3>4
  <2>2. f[k] = Append(f[h], d)
    <3>0. k >= 10 BY <1>2
    <3>1. k \in Nat /\ ~(k < 10) BY ONLY <3>0, m \in Nat, k \in 0 .. m
    <3>2. f[k] = IF k < 10 THEN <<Digits[k + 1]>>
                 ELSE Append(f[k \div 10], Digits[(k % 10) + 1])
      BY DEF DecOf
    <3> QED BY <3>1, <3>2
  <2>3. d \in Byte /\ IsDigit(d) /\ DigitOf(d) = k % 10 /\ d \notin {Nl, ",", "+", "-"}
    BY <2>1, DigitOfDigit
  <2>0. P(h) BY <1>2
  <2> HIDE DEF d, h
  <2>4. /\ Append(f[h], d) \in Bytes /\ Append(f[h], d) # <<>>
        /\ Len(Append(f[h], d)) = Len(f[h]) + 1
        /\ \A i \in 1 .. Len(f[h]) : Append(f[h], d)[i] = f[h][i]
        /\ Append(f[h], d)[Len(f[h]) + 1] = d
        /\ Len(f[h]) \in Nat
    <3>1. f[h] \in Seq(Byte) /\ d \in Byte BY <2>0, <2>3 DEF Bytes
    <3>2. Len(f[h]) \in Nat BY <3>1
    <3> QED BY <3>1, <3>2, AppendProperties DEF Bytes
  <2>5. DOMAIN f[h] = 1 .. Len(f[h]) /\ DOMAIN f[k] = 1 .. Len(f[h]) + 1
    BY <2>0, <2>2, <2>4, LenProperties DEF Bytes
  <2>6. \A i \in DOMAIN f[k] : f[k][i] = d \/ \E j \in DOMAIN f[h] : f[k][i] = f[h][j]
    BY <2>2, <2>4, <2>5
  <2>7. Number(f[k]) = 10 * h + (k % 10)
    BY <2>0, <2>2, <2>3, NumberAppend
  <2> QED BY <2>0, <2>1, <2>2, <2>3, <2>4, <2>6, <2>7 DEF AllDigits
<1> HIDE DEF P
<1>3. 0 \in S BY <1>1
<1>4. ASSUME NEW k \in Nat, k \in S PROVE k + 1 \in S
  <2> SUFFICES ASSUME k + 1 <= m PROVE P(k + 1) BY <1>4
  <2>1. CASE k + 1 < 10 BY <2>1, <1>1
  <2>2. CASE k + 1 >= 10
    <3>1. (k + 1) \div 10 \in 0 .. k BY <2>2
    <3>2. P((k + 1) \div 10) BY <3>1, <1>4
    <3> QED BY <2>2, <3>2, <1>2
  <2> QED BY <2>1, <2>2
<1>5. Nat \subseteq S BY <1>3, <1>4, NatInd
<1>6. \A k \in 0 .. m : P(k) BY <1>5
<1> QED BY <1>6 DEF P

\* Atoi reads what Decimal writes.
LEMMA DecimalReads ==
  ASSUME NEW n \in Int
  PROVE  /\ Decimal(n) \in InLine /\ Decimal(n) # <<>>
         /\ \A i \in DOMAIN Decimal(n) : Decimal(n)[i] # ","
         /\ IsNumber(Decimal(n)) /\ Atoi(Decimal(n)) = n
<1>1. PICK f : /\ DecOf(f, Absolute(n))
               /\ Decimal(n) = IF n < 0 THEN <<"-">> \o f[-n] ELSE f[n]
  BY DecimalDef
<1> DEFINE m == Absolute(n)
           ds == f[m]
<1>2. m \in Nat /\ (n < 0 => m = -n) /\ (n >= 0 => m = n) BY DEF Absolute
<1>3. /\ ds \in Bytes /\ ds # <<>> /\ AllDigits(ds) /\ Number(ds) = m
      /\ \A i \in DOMAIN ds : ds[i] \notin {Nl, ",", "+", "-"}
  <2>1. m \in 0 .. m BY <1>2
  <2>2. DecOf(f, m) BY <1>1
  <2> HIDE DEF m
  <2> QED BY <2>1, <2>2, <1>2, DecNatural
<1>4. Decimal(n) = IF n < 0 THEN <<"-">> \o ds ELSE ds BY <1>1, <1>2
<1> HIDE DEF ds, m
<1>5. CASE n < 0
  <2> DEFINE s == <<"-">> \o ds
  <2>1. "-" \in Byte /\ "-" \notin {Nl, ","} BY Literals DEF Sigils, Nl
  <2>2. s # <<>> /\ Head(s) = "-" /\ Tail(s) = ds /\ s \in Bytes
    BY <2>1, <1>3, OneByte, Concat
  <2>3. \A i \in DOMAIN s : s[i] \notin {Nl, ","}
    <3>1. <<"-">> \in Bytes /\ Len(<<"-">>) = 1 /\ <<"-">>[1] = "-" BY <2>1, OneByte
    <3>0. /\ Len(s) = Len(<<"-">>) + Len(ds)
          /\ \A i \in 1 .. Len(<<"-">>) : s[i] = <<"-">>[i]
          /\ \A i \in 1 .. Len(ds) : s[Len(<<"-">>) + i] = ds[i]
      BY <3>1, <1>3, Concat
    <3>2. DOMAIN ds = 1 .. Len(ds) /\ DOMAIN s = 1 .. 1 + Len(ds) /\ Len(ds) \in Nat
      <4>1. s \in Seq(Byte) /\ ds \in Seq(Byte) BY <2>2, <1>3 DEF Bytes
      <4> HIDE DEF s
      <4> QED BY <4>1, <3>0, <3>1
    <3>3. \A i \in 1 .. Len(ds) : s[1 + i] = ds[i] BY <3>0, <3>1
    <3>4. s[1] = "-" BY <3>0, <3>1
    <3>5. \A i \in DOMAIN s : i = 1 \/ (i - 1 \in DOMAIN ds /\ s[i] = ds[i - 1])
      <4> SUFFICES ASSUME NEW i \in DOMAIN s, i # 1
                   PROVE i - 1 \in DOMAIN ds /\ s[i] = ds[i - 1] OBVIOUS
      <4> HIDE DEF s
      <4>1. i - 1 \in 1 .. Len(ds) /\ i = 1 + (i - 1) BY <3>2
      <4> QED BY <4>1, <3>2, <3>3
    <3> QED BY <3>4, <3>5, <2>1, <1>3
  <2> HIDE DEF s
  <2>4. Unsigned(s) = ds BY <2>2 DEF Unsigned
  <2>5. Decimal(n) = s BY <1>4, <1>5 DEF s
  <2>6. IsNumber(s) BY <2>4, <1>3 DEF IsNumber, AllDigits
  <2>7. Atoi(s) = n
    <3>1. Atoi(s) = -m BY <2>2, <2>4, <1>3 DEF Atoi
    <3>2. -m = n BY <1>2, <1>5
    <3> QED BY <3>1, <3>2
  <2>8. s \in InLine BY <2>2, <2>3 DEF InLine
  <2> QED BY <2>2, <2>3, <2>5, <2>6, <2>7, <2>8
<1>6. CASE n >= 0
  <2>1. Head(ds) \notin {"+", "-"} /\ 1 \in DOMAIN ds
    <3>1. ds \in Seq(Byte) /\ ds # <<>> BY <1>3 DEF Bytes
    <3>2. 1 \in DOMAIN ds /\ Head(ds) = ds[1] BY <3>1
    <3> QED BY <3>2, <1>3
  <2>2. Unsigned(ds) = ds BY <2>1 DEF Unsigned
  <2>5. Decimal(n) = ds BY <1>4, <1>6
  <2>6. IsNumber(ds) BY <2>2, <1>3 DEF IsNumber, AllDigits
  <2>7. Atoi(ds) = n BY <2>1, <2>2, <1>2, <1>3, <1>6 DEF Atoi
  <2>8. ds \in InLine BY <1>3 DEF InLine
  <2> QED BY <1>3, <2>5, <2>6, <2>7, <2>8
<1>7. n < 0 \/ n >= 0 OBVIOUS
<1> QED BY <1>5, <1>6, <1>7

LEMMA AtoiType ==
  ASSUME NEW s \in Bytes, IsNumber(s) PROVE Atoi(s) \in Int
<1>1. s # <<>> BY DEF IsNumber, Unsigned
<1>2. Unsigned(s) \in Bytes BY <1>1, Split DEF Unsigned
<1>3. AllDigits(Unsigned(s)) BY DEF IsNumber, AllDigits
<1> QED BY <1>2, <1>3, NumberType DEF Atoi

-----------------------------------------------------------------------------
(* Several values, one after the other.                                    *)

LastOf(f, ts) ==
    f = [k \in 0 .. Len(ts) |-> IF k = 0 THEN <<>>
                                ELSE ts[Len(ts) - k + 1] \o f[k - 1]]

\* The recursive functions inside Joined and readMany.
LEMMA LastExists == ASSUME NEW ts \in Seq(Bytes) PROVE \E f : LastOf(f, ts)
<1> DEFINE St(x, k) == ts[Len(ts) - k + 1] \o x
           D(f, n) == f = [k \in 0 .. n |-> IF k = 0 THEN <<>> ELSE St(f[k - 1], k)]
           S == {n \in Nat : \E f : D(f, n)}
<1> HIDE DEF St
<1>1. 0 \in S
  <2>1. D([k \in 0 .. 0 |-> <<>>], 0) OBVIOUS
  <2> QED BY <2>1
<1>2. ASSUME NEW n \in Nat, n \in S PROVE n + 1 \in S
  <2>1. PICK f : D(f, n) BY <1>2
  <2> DEFINE g == [k \in 0 .. n + 1 |-> IF k = n + 1 THEN St(f[n], n + 1) ELSE f[k]]
  <2>2. D(g, n + 1) BY <2>1
  <2> HIDE DEF g, D
  <2>3. \E h : D(h, n + 1) BY <2>2
  <2> QED BY <2>3
<1>3. Nat \subseteq S BY <1>1, <1>2, NatInd
<1>4. Len(ts) \in Nat OBVIOUS
<1> QED BY <1>3, <1>4 DEF St, LastOf

LEMMA JoinedDef ==
  ASSUME NEW ts \in Seq(Bytes)
  PROVE  \E f : LastOf(f, ts) /\ Joined(ts) = f[Len(ts)]
BY LastExists DEF Joined, LastOf

LEMMA LastType ==
  ASSUME NEW ts \in Seq(Bytes), NEW f, LastOf(f, ts)
  PROVE  /\ f[0] = <<>> /\ \A k \in 0 .. Len(ts) : f[k] \in Bytes
         /\ \A k \in 1 .. Len(ts) : f[k] = ts[Len(ts) - k + 1] \o f[k - 1]
<1> DEFINE S == {k \in Nat : k <= Len(ts) => f[k] \in Bytes}
<1>1. Len(ts) \in Nat /\ \A i \in 1 .. Len(ts) : ts[i] \in Bytes OBVIOUS
<1>2. f[0] = <<>> BY <1>1 DEF LastOf
<1>3. \A k \in 1 .. Len(ts) : f[k] = ts[Len(ts) - k + 1] \o f[k - 1]
  BY <1>1 DEF LastOf
<1>4. 0 \in S BY <1>2, NumberEmpty
<1>5. ASSUME NEW k \in Nat, k \in S PROVE k + 1 \in S
  <2> SUFFICES ASSUME k + 1 <= Len(ts) PROVE f[k + 1] \in Bytes OBVIOUS
  <2>1. /\ k + 1 \in 1 .. Len(ts) /\ Len(ts) - (k + 1) + 1 \in 1 .. Len(ts)
        /\ (k + 1) - 1 = k /\ f[k] \in Bytes
    BY <1>1, <1>5
  <2>2. f[k + 1] = ts[Len(ts) - (k + 1) + 1] \o f[k] BY <2>1, <1>3
  <2> QED BY <2>1, <2>2, <1>1, Concat
<1>6. Nat \subseteq S BY <1>4, <1>5, NatInd
<1>7. \A k \in 0 .. Len(ts) : f[k] \in Bytes BY <1>1, <1>6
<1> QED BY <1>2, <1>3, <1>7

GotOf(g, n, R, t) ==
    g = [k \in 0 .. n |->
          IF k = 0 THEN Read(<<>>, t)
          ELSE IF g[k - 1].end # "none" THEN g[k - 1]
          ELSE IF R[g[k - 1].rest].end = "none"
               THEN Read(Append(g[k - 1].val, R[g[k - 1].rest].val),
                         R[g[k - 1].rest].rest)
          ELSE R[g[k - 1].rest]]

LEMMA GotExists ==
  ASSUME NEW m \in Nat, NEW R, NEW t PROVE \E g : GotOf(g, m, R, t)
<1> DEFINE St(x) == IF x.end # "none" THEN x
                    ELSE IF R[x.rest].end = "none"
                         THEN Read(Append(x.val, R[x.rest].val), R[x.rest].rest)
                    ELSE R[x.rest]
           D(f, n) == f = [k \in 0 .. n |-> IF k = 0 THEN Read(<<>>, t) ELSE St(f[k - 1])]
           S == {n \in Nat : \E f : D(f, n)}
<1> HIDE DEF St
<1>1. 0 \in S
  <2>1. D([k \in 0 .. 0 |-> Read(<<>>, t)], 0) OBVIOUS
  <2> QED BY <2>1
<1>2. ASSUME NEW n \in Nat, n \in S PROVE n + 1 \in S
  <2>1. PICK f : D(f, n) BY <1>2
  <2> DEFINE g == [k \in 0 .. n + 1 |-> IF k = n + 1 THEN St(f[n]) ELSE f[k]]
  <2>2. D(g, n + 1) BY <2>1
  <2> HIDE DEF g, D
  <2>3. \E h : D(h, n + 1) BY <2>2
  <2> QED BY <2>3
<1>3. Nat \subseteq S BY <1>1, <1>2, NatInd
<1> QED BY <1>3 DEF St, GotOf

LEMMA ManyDef ==
  ASSUME NEW n \in Nat, NEW R, NEW t
  PROVE  \E g : GotOf(g, n, R, t) /\ readMany(n, R, t) = g[n]
<1>1. PICK g : GotOf(g, n, R, t) BY GotExists
<1> QED BY <1>1 DEF readMany, GotOf

\* What readMany has after k values.
LEMMA GotStep ==
  ASSUME NEW n \in Nat, NEW R, NEW t, NEW g, GotOf(g, n, R, t)
  PROVE  /\ g[0] = Read(<<>>, t)
         /\ \A k \in 0 .. n - 1 :
              /\ g[k].end # "none" => g[k + 1] = g[k]
              /\ \A vs, u, v, w : g[k] = Read(vs, u) /\ R[u] = Read(v, w)
                                     => g[k + 1] = Read(Append(vs, v), w)
              /\ \A vs, u : g[k] = Read(vs, u) /\ R[u].end # "none"
                               => g[k + 1] = R[u]
<1>1. g[0] = Read(<<>>, t) BY DEF GotOf
<1>2. ASSUME NEW k \in 0 .. n - 1
      PROVE  g[k + 1] = IF g[k].end # "none" THEN g[k]
                        ELSE IF R[g[k].rest].end = "none"
                             THEN Read(Append(g[k].val, R[g[k].rest].val),
                                       R[g[k].rest].rest)
                        ELSE R[g[k].rest]
  <2>1. k + 1 \in 0 .. n /\ k + 1 # 0 /\ (k + 1) - 1 = k OBVIOUS
  <2> QED BY <2>1 DEF GotOf
<1>3. \A v, u : Read(v, u).end = "none" /\ Read(v, u).val = v /\ Read(v, u).rest = u
  BY DEF Read
<1> QED BY <1>1, <1>2, <1>3

Stops(r) == r.end \in {"io", "format"} /\ r.rest = <<>>

\* reader takes a text of at most d bytes for a value, whatever follows, and
\* takes nothing for a value while a part of it is missing.
ReadsText(reader, d, t, v) ==
    /\ \A u \in Bytes : Len(t \o u) <= d => reader[t \o u] = Read(v, u)
    /\ \A q \in Cuts(t) : Len(q) <= d => Stops(reader[q])

\* readMany reads texts that its reader reads, one after the other.
LEMMA ManyRead ==
  ASSUME NEW d \in Nat, NEW R, NEW ts \in Seq(Bytes), NEW V, NEW vs \in Seq(V),
         Len(vs) = Len(ts), \A i \in 1 .. Len(ts) : ReadsText(R, d, ts[i], vs[i]),
         NEW u \in Bytes, Len(Joined(ts) \o u) <= d
  PROVE  readMany(Len(ts), R, Joined(ts) \o u) = Read(vs, u)
<1> DEFINE n == Len(ts)
           t == Joined(ts) \o u
<1>1. n \in Nat /\ \A i \in 1 .. n : ts[i] \in Bytes OBVIOUS
<1>2. PICK f : LastOf(f, ts) /\ Joined(ts) = f[n] BY JoinedDef
<1>3. PICK g : GotOf(g, n, R, t) /\ readMany(n, R, t) = g[n] BY <1>1, ManyDef
<1> DEFINE P(k) == /\ g[k] = Read(SubSeq(vs, 1, k), f[n - k] \o u)
                   /\ Len(f[n - k] \o u) <= d
           S == {k \in Nat : k <= n => P(k)}
<1>4. P(0)
  <2>1. SubSeq(vs, 1, 0) = <<>> BY SubSeqEmpty
  <2>2. g[0] = Read(<<>>, t) BY <1>1, <1>3, GotStep
  <2>3. n - 0 = n BY <1>1
  <2> QED BY <2>1, <2>2, <2>3, <1>2
<1>5. ASSUME NEW k \in Nat, k + 1 <= n, P(k) PROVE P(k + 1)
  <2> DEFINE s == ts[k + 1]
             w == f[n - (k + 1)] \o u
  <2>1. /\ k \in 0 .. n - 1 /\ k + 1 \in 1 .. n /\ n - k \in 1 .. n
        /\ n - (n - k) + 1 = k + 1 /\ (n - k) - 1 = n - (k + 1)
        /\ n - (k + 1) \in 0 .. n
    BY <1>1, <1>5
  <2>2. f[n - k] = s \o f[n - (k + 1)] BY <2>1, <1>2, LastType
  <2>3. f[n - (k + 1)] \in Bytes /\ s \in Bytes BY <2>1, <1>1, <1>2, LastType
  <2>4. f[n - k] \o u = s \o w
    <3> DEFINE x == f[n - (k + 1)]
    <3>1. x \in Bytes /\ s \in Bytes /\ f[n - k] = s \o x BY <2>2, <2>3
    <3> HIDE DEF s, x
    <3>2. (s \o x) \o u = s \o (x \o u) BY <3>1, Assoc
    <3> QED BY <3>1, <3>2 DEF x
  <2>5. w \in Bytes BY <2>3, Concat
  <2>6. ReadsText(R, d, s, vs[k + 1]) BY <2>1
  <2>7. Len(s \o w) <= d /\ g[k] = Read(SubSeq(vs, 1, k), s \o w) BY <2>4, <1>5
  <2> HIDE DEF s, w, n, t
  <2>8. R[s \o w] = Read(vs[k + 1], w) BY <2>5, <2>6, <2>7 DEF ReadsText
  <2>9. g[k + 1] = Read(Append(SubSeq(vs, 1, k), vs[k + 1]), w)
    BY <2>1, <2>7, <2>8, <1>1, <1>3, GotStep
  <2>10. Append(SubSeq(vs, 1, k), vs[k + 1]) = SubSeq(vs, 1, k + 1)
    BY <2>1, <1>1 DEF n
  <2>11. Len(w) <= d
    BY <2>3, <2>5, <2>7, Concat DEF Bytes
  <2> QED BY <2>9, <2>10, <2>11 DEF w
<1> HIDE DEF P
<1>6. 0 \in S BY <1>4
<1>7. \A k \in Nat : k \in S => k + 1 \in S BY <1>1, <1>5
<1>8. Nat \subseteq S BY <1>6, <1>7, NatInd
<1>9. P(n) BY <1>1, <1>8
<1>10. SubSeq(vs, 1, n) = vs BY SubSeqFull
<1>11. f[n - n] = <<>>
  <2>1. n - n = 0 BY <1>1
  <2> QED BY <2>1, <1>2, LastType
<1>12. <<>> \o u = u BY ConcatEmptySeq DEF Bytes
<1> QED BY <1>3, <1>9, <1>10, <1>11, <1>12 DEF P

\* ... and stops when a part of them is missing, wherever the cut is.
LEMMA ManyCut ==
  ASSUME NEW d \in Nat, NEW R, NEW ts \in Seq(Bytes), NEW V, NEW vs \in Seq(V),
         Len(vs) = Len(ts), \A i \in 1 .. Len(ts) : ReadsText(R, d, ts[i], vs[i]),
         NEW q \in Cuts(Joined(ts)), Len(q) <= d
  PROVE  Stops(readMany(Len(ts), R, q))
<1> DEFINE n == Len(ts)
<1>1. n \in Nat /\ \A i \in 1 .. n : ts[i] \in Bytes OBVIOUS
<1>2. PICK f : LastOf(f, ts) /\ Joined(ts) = f[n] BY JoinedDef
<1>3. PICK g : GotOf(g, n, R, q) /\ readMany(n, R, q) = g[n] BY <1>1, ManyDef
<1> DEFINE P(k) == \/ Stops(g[k])
                   \/ \E p \in Cuts(f[n - k]) : /\ g[k] = Read(SubSeq(vs, 1, k), p)
                                               /\ Len(p) <= d
           S == {k \in Nat : k <= n => P(k)}
<1>4. P(0)
  <2>1. SubSeq(vs, 1, 0) = <<>> BY SubSeqEmpty
  <2>2. g[0] = Read(<<>>, q) BY <1>1, <1>3, GotStep
  <2>3. n - 0 = n BY <1>1
  <2> QED BY <2>1, <2>2, <2>3, <1>2
<1>5. ASSUME NEW k \in Nat, k + 1 <= n, P(k) PROVE P(k + 1)
  <2>1. /\ k \in 0 .. n - 1 /\ k + 1 \in 1 .. n /\ n - k \in 1 .. n
        /\ n - (n - k) + 1 = k + 1 /\ (n - k) - 1 = n - (k + 1)
        /\ n - (k + 1) \in 0 .. n
    BY <1>1, <1>5
  <2>2. CASE Stops(g[k])
    <3>1. g[k].end # "none" BY <2>2 DEF Stops
    <3>2. g[k + 1] = g[k] BY <3>1, <2>1, <1>1, <1>3, GotStep
    <3> QED BY <3>2, <2>2
  <2>3. CASE \E p \in Cuts(f[n - k]) : /\ g[k] = Read(SubSeq(vs, 1, k), p)
                                      /\ Len(p) <= d
    <3> DEFINE s == ts[k + 1]
               w == f[n - (k + 1)]
    <3>1. PICK p \in Cuts(f[n - k]) : g[k] = Read(SubSeq(vs, 1, k), p) /\ Len(p) <= d
      BY <2>3
    <3>2. f[n - k] = s \o w BY <2>1, <1>2, LastType
    <3>3. w \in Bytes /\ s \in Bytes BY <2>1, <1>1, <1>2, LastType
    <3>4. ReadsText(R, d, s, vs[k + 1]) BY <2>1
    <3> HIDE DEF s, w, n, P
    <3>5. CASE p \in Cuts(s)
      <4>1. Stops(R[p]) BY <3>1, <3>4, <3>5 DEF ReadsText
      <4>2. R[p].end # "none" BY <4>1 DEF Stops
      <4>3. g[k + 1] = R[p] BY <4>2, <3>1, <2>1, <1>1, <1>3, GotStep
      <4> QED BY <4>1, <4>3 DEF P
    <3>6. CASE \E r \in Cuts(w) : p = s \o r
      <4>1. PICK r \in Cuts(w) : p = s \o r BY <3>6
      <4>2. r \in Bytes BY DEF Cuts
      <4>3. R[p] = Read(vs[k + 1], r) BY <4>1, <4>2, <3>1, <3>4 DEF ReadsText
      <4>4. g[k + 1] = Read(Append(SubSeq(vs, 1, k), vs[k + 1]), r)
        BY <4>3, <3>1, <2>1, <1>1, <1>3, GotStep
      <4>5. Append(SubSeq(vs, 1, k), vs[k + 1]) = SubSeq(vs, 1, k + 1)
        BY <2>1, <1>1 DEF n
      <4>6. Len(r) <= d BY <4>1, <4>2, <3>1, <3>3, Concat DEF Bytes
      <4> QED BY <4>1, <4>4, <4>5, <4>6 DEF P, w
    <3> QED BY <3>1, <3>2, <3>3, <3>5, <3>6, CutJoin
  <2> QED BY <2>2, <2>3, <1>5
<1> HIDE DEF P
<1>6. 0 \in S BY <1>4
<1>7. \A k \in Nat : k \in S => k + 1 \in S BY <1>1, <1>5
<1>8. Nat \subseteq S BY <1>6, <1>7, NatInd
<1>9. P(n) BY <1>1, <1>8
<1>10. f[n - n] = <<>>
  <2>1. n - n = 0 BY <1>1
  <2> QED BY <2>1, <1>2, LastType
<1> QED BY <1>3, <1>9, <1>10, CutEmpty DEF P

-----------------------------------------------------------------------------
(* OneByte value.                                                              *)

\* readValue hands over to the handler of the sigil.
LEMMA Dispatch ==
  ASSUME NEW t, NEW canBeTag, NEW R, t # <<>>
  PROVE  /\ Head(t) = NullSign => readValue(t, canBeTag, R) = handleNull(Tail(t))
         /\ Head(t) = "#" => readValue(t, canBeTag, R) = handleBoolean(Tail(t))
         /\ Head(t) = "+" => readValue(t, canBeTag, R) = handleString(Tail(t))
         /\ Head(t) = "-" => readValue(t, canBeTag, R) = handleError(Tail(t))
         /\ Head(t) = "@" => readValue(t, canBeTag, R) = handleTag(canBeTag, R, Tail(t))
         /\ Head(t) = "=" => readValue(t, canBeTag, R) = handleTable(R, Tail(t))
         /\ Head(t) \in {"*", "$", ":"}
              => readValue(t, canBeTag, R) = handleSized(Head(t), R, Tail(t))
         /\ Head(t) \notin Sigils
              => readValue(t, canBeTag, R) = Bad(<<Head(t)>>, Tail(t))
<1> HIDE DEF handleNull, handleBoolean, handleString, handleError, handleTag,
             handleTable, handleSized, Bad
<1>1. Head(t) \in Sigils
        <=> Head(t) \in {NullSign, "#", "+", "-", "@", "="} \/ Head(t) \in {"*", "$", ":"}
  BY DEF Sigils
<1> QED BY <1>1, NullSignOnly DEF readValue

\* How the outcomes of a read differ.
LEMMA Ends ==
  /\ Stops(Ended) /\ Ended.end # "none"
  /\ \A odd : Stops(Bad(odd, <<>>)) /\ Bad(odd, <<>>).end # "none"
BY DEF Stops, Ended, Bad

LEMMA StopsEmpty ==
  ASSUME NEW canBeTag, NEW R
  PROVE  Stops(readValue(<<>>, canBeTag, R))
BY Ends DEF readValue

LEMMA LineRead ==
  ASSUME NEW c \in Sigils, NEW s \in Bytes, NEW u \in Bytes, NEW canBeTag, NEW R
  PROVE  LET t == Line(c, s) \o u
             w == (s \o <<Nl>>) \o u
         IN  /\ c = NullSign => readValue(t, canBeTag, R) = handleNull(w)
             /\ c = "#" => readValue(t, canBeTag, R) = handleBoolean(w)
             /\ c = "+" => readValue(t, canBeTag, R) = handleString(w)
             /\ c = "-" => readValue(t, canBeTag, R) = handleError(w)
             /\ c = "@" => readValue(t, canBeTag, R) = handleTag(canBeTag, R, w)
             /\ c = "=" => readValue(t, canBeTag, R) = handleTable(R, w)
             /\ c \in {"*", "$", ":"}
                  => readValue(t, canBeTag, R) = handleSized(c, R, w)
<1> DEFINE t == Line(c, s) \o u
           w == (s \o <<Nl>>) \o u
<1>0. c \in Byte BY Literals
<1>1. t # <<>> /\ Head(t) = c /\ Tail(t) = w BY <1>0, LineHead
<1> HIDE DEF t, w
<1>2. c \in {"*", "$", ":"} => readValue(t, canBeTag, R) = handleSized(c, R, w)
  BY <1>1, Dispatch
<1>3. /\ c = NullSign => readValue(t, canBeTag, R) = handleNull(w)
      /\ c = "#" => readValue(t, canBeTag, R) = handleBoolean(w)
      /\ c = "+" => readValue(t, canBeTag, R) = handleString(w)
      /\ c = "-" => readValue(t, canBeTag, R) = handleError(w)
      /\ c = "@" => readValue(t, canBeTag, R) = handleTag(canBeTag, R, w)
      /\ c = "=" => readValue(t, canBeTag, R) = handleTable(R, w)
  BY <1>1, Dispatch
<1> QED BY <1>2, <1>3 DEF t, w

LEMMA ReadFields ==
  ASSUME NEW v, NEW u
  PROVE  Read(v, u).end = "none" /\ Read(v, u).val = v /\ Read(v, u).rest = u
BY DEF Read

\* readValue takes a text for a value, and nothing for one while a part of it
\* is missing.
TakesText(canBeTag, R, t, v) ==
    /\ \A u \in Bytes : readValue(t \o u, canBeTag, R) = Read(v, u)
    /\ \A q \in Cuts(t) : Stops(readValue(q, canBeTag, R))

LEMMA NullHandled ==
  ASSUME NEW u \in Bytes
  PROVE  handleNull(<<Nl>> \o u) = Read(Null, u)
<1> DEFINE t == <<Nl>> \o u
<1>1. t # <<>> /\ Head(t) = Nl /\ Tail(t) = u BY Literals, OneByte
<1> HIDE DEF t
<1>2. handleNull(t) = Read(Null, u) BY <1>1 DEF handleNull
<1> QED BY <1>2 DEF t

LEMMA NullStops == Stops(handleNull(<<>>))
BY Ends DEF handleNull

\* The kinds without values inside: null, a boolean, a string, an error, an
\* integer and a blob.
LEMMA NullReads ==
  ASSUME NEW canBeTag, NEW R
  PROVE  TakesText(canBeTag, R, Line(NullSign, <<>>), Null)
<1>1. NullSign \in Sigils /\ NullSign \in Byte /\ Nl \in Byte
  BY Literals DEF Sigils
<1>5. <<>> \in Bytes BY NumberEmpty
<1>2. <<>> \o <<Nl>> = <<Nl>> OBVIOUS
<1>3. ASSUME NEW u \in Bytes
      PROVE  readValue(Line(NullSign, <<>>) \o u, canBeTag, R) = Read(Null, u)
  <2> DEFINE s == <<>>
  <2>1. s \in Bytes BY <1>5
  <2> HIDE DEF s
  <2>2. readValue(Line(NullSign, s) \o u, canBeTag, R) = handleNull((s \o <<Nl>>) \o u)
    BY <2>1, <1>1, LineRead
  <2> QED BY <2>2, <1>2, NullHandled DEF s
<1>4. ASSUME NEW q \in Cuts(Line(NullSign, <<>>))
      PROVE  Stops(readValue(q, canBeTag, R))
  <2>1. CASE q = <<>> BY <2>1, StopsEmpty
  <2>2. CASE q # <<>> /\ Head(q) = NullSign /\ Tail(q) \in Cuts(<<>> \o <<Nl>>)
    <3>1. Tail(q) = <<>> BY <2>2, <1>1, <1>2, CutOne
    <3>2. readValue(q, canBeTag, R) = handleNull(Tail(q)) BY <2>2, Dispatch
    <3> QED BY <3>1, <3>2, NullStops
  <2> QED BY <2>1, <2>2, <1>1, <1>5, CutLineOnly
<1> QED BY <1>3, <1>4 DEF TakesText

LEMMA BoolReads ==
  ASSUME NEW canBeTag, NEW R, NEW b \in BOOLEAN
  PROVE  TakesText(canBeTag, R, Line("#", <<IF b THEN "t" ELSE "f">>), Bool(b))
<1> DEFINE x == IF b THEN "t" ELSE "f"
           l == Line("#", <<x>>)
<1>1. "#" \in Sigils /\ "#" \in Byte /\ x \in Byte /\ Nl \in Byte /\ <<Nl>> \in Bytes
  BY Literals, OneByte DEF Sigils
<1>2. <<x>> \in Bytes BY <1>1, OneByte
<1>3. x \in {"t", "f"} /\ (x = "t") = b OBVIOUS
<1> HIDE DEF x
<1>4. ASSUME NEW u \in Bytes
      PROVE  readValue(l \o u, canBeTag, R) = Read(Bool(b), u)
  <2> DEFINE w == <<x>> \o (<<Nl>> \o u)
  <2>1. (<<x>> \o <<Nl>>) \o u = w /\ <<Nl>> \o u \in Bytes
    BY <1>1, <1>2, Assoc, Concat
  <2>2. readValue(l \o u, canBeTag, R) = handleBoolean((<<x>> \o <<Nl>>) \o u)
    BY <1>1, <1>2, LineRead
  <2>3. handleNull(<<Nl>> \o u) = Read(Null, u) BY NullHandled
  <2>4. w # <<>> /\ Head(w) = x /\ Tail(w) = <<Nl>> \o u
    BY <2>1, <1>1, OneByte
  <2> HIDE DEF w
  <2>5. handleNull(Tail(w)).end = "none" /\ handleNull(Tail(w)).rest = u
    <3>1. handleNull(Tail(w)) = Read(Null, u) BY <2>3, <2>4, Zenon
    <3> QED BY <3>1, ReadFields
  <2>6. w # <<>> /\ Head(w) \in {"t", "f"} /\ (Head(w) = "t") = b
    BY <2>4, <1>3
  <2>7. handleBoolean(w) = Read(Bool(Head(w) = "t"), handleNull(Tail(w)).rest)
    BY <2>5, <2>6, Zenon DEF handleBoolean
  <2>8. handleBoolean(w) = Read(Bool(b), u) BY <2>5, <2>6, <2>7, Zenon
  <2> QED BY <2>1, <2>2, <2>8
<1>5. ASSUME NEW q \in Cuts(l) PROVE Stops(readValue(q, canBeTag, R))
  <2>1. CASE q = <<>> BY <2>1, StopsEmpty
  <2>2. CASE q # <<>> /\ Head(q) = "#" /\ Tail(q) \in Cuts(<<x>> \o <<Nl>>)
    <3>1. readValue(q, canBeTag, R) = handleBoolean(Tail(q)) BY <2>2, Dispatch
    <3>2. Tail(q) = <<>> \/ Tail(q) = <<x>> \o <<>>
      <4>1. Tail(q) \in Cuts(<<x>>) \/ \E p \in Cuts(<<Nl>>) : Tail(q) = <<x>> \o p
        BY <2>2, <1>1, <1>2, CutJoin
      <4> QED BY <4>1, <1>1, CutOne
    <3>3. CASE Tail(q) = <<>>
      <4>1. handleBoolean(<<>>) = Ended BY DEF handleBoolean
      <4> QED BY <3>1, <3>3, <4>1, Ends
    <3>4. CASE Tail(q) = <<x>> \o <<>>
      <4> DEFINE w == <<x>> \o <<>>
      <4>1. w # <<>> /\ Head(w) = x /\ Tail(w) = <<>> BY <1>1, OneByte, NumberEmpty
      <4> HIDE DEF w
      <4>2. handleNull(<<>>).end # "none" BY NullStops DEF Stops
      <4>3. handleBoolean(w) = handleNull(<<>>)
        BY <4>1, <4>2, <1>3 DEF handleBoolean
      <4> QED BY <3>1, <3>4, <4>3, NullStops DEF w
    <3> QED BY <3>2, <3>3, <3>4
  <2> QED BY <2>1, <2>2, <1>1, <1>2, CutLineOnly
<1> QED BY <1>4, <1>5 DEF TakesText, x

LEMMA StringReads ==
  ASSUME NEW canBeTag, NEW R, NEW s \in InLine
  PROVE  TakesText(canBeTag, R, Line("+", s), String(s))
<1>1. "+" \in Sigils /\ "+" \in Byte /\ s \in Bytes BY Literals DEF Sigils, InLine
<1>2. ASSUME NEW u \in Bytes
      PROVE  readValue(Line("+", s) \o u, canBeTag, R) = Read(String(s), u)
  <2> DEFINE w == (s \o <<Nl>>) \o u
  <2>1. readValue(Line("+", s) \o u, canBeTag, R) = handleString(w)
    BY <1>1, LineRead
  <2>2. ReadBytes(w).ok /\ ReadBytes(w).line = s /\ ReadBytes(w).rest = u
    BY LineFields
  <2> HIDE DEF w
  <2>3. handleString(w) = Read(String(s), u) BY <2>2 DEF handleString
  <2> QED BY <2>1, <2>3
<1>3. ASSUME NEW q \in Cuts(Line("+", s)) PROVE Stops(readValue(q, canBeTag, R))
  <2>1. CASE q = <<>> BY <2>1, StopsEmpty
  <2>2. CASE q # <<>> /\ Head(q) = "+" /\ Tail(q) \in Cuts(s \o <<Nl>>)
    <3> DEFINE w == Tail(q)
    <3>1. readValue(q, canBeTag, R) = handleString(w) BY <2>2, Dispatch
    <3>2. ~ReadBytes(w).ok
      BY <2>2, CutLine, NoLineFields
    <3> HIDE DEF w
    <3>3. handleString(w) = Ended BY <3>2 DEF handleString
    <3> QED BY <3>1, <3>3, Ends
  <2> QED BY <2>1, <2>2, <1>1, CutLineOnly
<1> QED BY <1>2, <1>3 DEF TakesText

\* A line of two parts with a separator that is not in the first.
LEMMA TwoParts ==
  ASSUME NEW a \in Bytes, NEW b \in Byte, NEW c \in Bytes,
         \A i \in DOMAIN a : a[i] # b
  PROVE  LET s == a \o (<<b>> \o c)
         IN  /\ IndexOf(s, b) = Len(a) + 1 /\ Len(a) + 1 # 0
             /\ SubSeq(s, 1, (Len(a) + 1) - 1) = a
             /\ From(s, (Len(a) + 1) + 1) = c
<1> DEFINE s == a \o (<<b>> \o c)
<1>1. <<b>> \in Bytes /\ Len(a) \in Nat BY OneByte DEF Bytes
<1>2. IndexOf(s, b) = Len(a) + 1 BY IndexOfFirst
<1>3. /\ s \in Bytes /\ Len(s) = Len(a) + 1 + Len(c)
      /\ \A i \in 1 .. Len(a) : s[i] = a[i]
      /\ \A i \in 1 .. Len(c) : s[Len(a) + 1 + i] = c[i]
      /\ Len(c) \in Nat
  BY <1>1 DEF Bytes
<1> HIDE DEF s
<1>4. SubSeq(s, 1, Len(a)) = a BY <1>1, <1>3 DEF Bytes
<1>5. SubSeq(s, Len(a) + 2, Len(s)) = c BY <1>1, <1>3 DEF Bytes
<1>6. (Len(a) + 1) - 1 = Len(a) /\ (Len(a) + 1) + 1 = Len(a) + 2 /\ Len(a) + 1 # 0
  BY <1>1
<1> QED BY <1>2, <1>4, <1>5, <1>6 DEF s, From

LEMMA TwoPartsLine ==
  ASSUME NEW a \in InLine, NEW b \in Byte, NEW c \in InLine, b # Nl
  PROVE  a \o (<<b>> \o c) \in InLine
<1>1. a \in Bytes /\ c \in Bytes /\ \A i \in DOMAIN a : a[i] # Nl BY DEF InLine
<1>2. \A i \in DOMAIN c : c[i] # Nl BY DEF InLine
<1> DEFINE s == a \o (<<b>> \o c)
<1>3. s \in Bytes BY <1>1, OneByte, Concat
<1>4. \A i \in DOMAIN s : s[i] # Nl BY <1>1, <1>2 DEF Bytes
<1> QED BY <1>3, <1>4 DEF InLine

LEMMA LineReadError ==
  ASSUME NEW s \in Bytes, NEW u \in Bytes, NEW canBeTag, NEW R
  PROVE  readValue(Line("-", s) \o u, canBeTag, R) = handleError((s \o <<Nl>>) \o u)
<1>1. "-" \in Sigils BY DEF Sigils
<1> QED BY <1>1, LineRead

LEMMA ErrorReads ==
  ASSUME NEW canBeTag, NEW R, NEW a \in InLine, NEW m \in InLine,
         \A i \in DOMAIN a : a[i] # " "
  PROVE  TakesText(canBeTag, R, Line("-", a \o (<<" ">> \o m)), Error(a, m))
<1> DEFINE s == a \o (<<" ">> \o m)
<1>1. "-" \in Sigils /\ "-" \in Byte /\ " " \in Byte /\ " " # Nl BY Literals DEF Sigils, Nl
<1>2. a \in Bytes /\ m \in Bytes BY DEF InLine
<1>3. s \in InLine BY <1>1, TwoPartsLine
<1>4. s \in Bytes BY <1>3 DEF InLine
<1>5. /\ IndexOf(s, " ") = Len(a) + 1 /\ Len(a) + 1 # 0
      /\ SubSeq(s, 1, (Len(a) + 1) - 1) = a
      /\ From(s, (Len(a) + 1) + 1) = m
  BY <1>1, <1>2, TwoParts
<1> HIDE DEF s
<1>6. ASSUME NEW u \in Bytes
      PROVE  readValue(Line("-", s) \o u, canBeTag, R) = Read(Error(a, m), u)
  <2> DEFINE w == (s \o <<Nl>>) \o u
  <2>1. readValue(Line("-", s) \o u, canBeTag, R) = handleError(w)
    BY <1>4, LineReadError
  <2>2. ReadBytes(w).ok /\ ReadBytes(w).line = s /\ ReadBytes(w).rest = u
    BY <1>3, LineFields
  <2> HIDE DEF w
  <2>3. handleError(w) = Read(Error(a, m), u) BY <2>2, <1>5 DEF handleError
  <2> QED BY <2>1, <2>3
<1>7. ASSUME NEW q \in Cuts(Line("-", s)) PROVE Stops(readValue(q, canBeTag, R))
  <2>1. CASE q = <<>> BY <2>1, StopsEmpty
  <2>2. CASE q # <<>> /\ Head(q) = "-" /\ Tail(q) \in Cuts(s \o <<Nl>>)
    <3> DEFINE w == Tail(q)
    <3>1. readValue(q, canBeTag, R) = handleError(w) BY <2>2, Dispatch
    <3>2. ~ReadBytes(w).ok
      BY <2>2, <1>3, CutLine, NoLineFields
    <3> HIDE DEF w
    <3>3. handleError(w) = Ended BY <3>2 DEF handleError
    <3> QED BY <3>1, <3>3, Ends
  <2> QED BY <2>1, <2>2, <1>1, <1>4, CutLineOnly
<1> QED BY <1>6, <1>7 DEF TakesText, s

LEMMA NextLineFields ==
  ASSUME NEW s \in InLine
  PROVE  /\ ~nextLine(s).ok /\ nextLine(s).line = <<>> /\ nextLine(s).rest = <<>>
         /\ \A u \in Bytes : s # <<>> =>
              /\ nextLine((s \o <<Nl>>) \o u).ok
              /\ nextLine((s \o <<Nl>>) \o u).line = s
              /\ nextLine((s \o <<Nl>>) \o u).rest = u
<1>1. /\ ~nextLine(s).ok /\ nextLine(s).line = <<>> /\ nextLine(s).rest = <<>>
  <2> DEFINE r == nextLine(s)
  <2>1. r = [ok |-> FALSE, line |-> <<>>, rest |-> <<>>] BY NextLine
  <2> HIDE DEF r
  <2>2. ~r.ok /\ r.line = <<>> /\ r.rest = <<>> BY <2>1
  <2> QED BY <2>2 DEF r
<1>2. ASSUME NEW u \in Bytes, s # <<>>
      PROVE  /\ nextLine((s \o <<Nl>>) \o u).ok
             /\ nextLine((s \o <<Nl>>) \o u).line = s
             /\ nextLine((s \o <<Nl>>) \o u).rest = u
  <2> DEFINE r == nextLine((s \o <<Nl>>) \o u)
  <2>1. r = [ok |-> TRUE, line |-> s, rest |-> u] BY <1>2, NextLine
  <2> HIDE DEF r
  <2>2. r.ok /\ r.line = s /\ r.rest = u BY <2>1
  <2> QED BY <2>2 DEF r
<1> QED BY <1>1, <1>2

\* readSize reads the line of an array, a blob or an integer.
LEMMA SizeRead ==
  ASSUME NEW n \in Int, NEW u \in Bytes
  PROVE  readSize((Decimal(n) \o <<Nl>>) \o u) = Read(n, u)
<1> DEFINE w == (Decimal(n) \o <<Nl>>) \o u
<1>1. /\ Decimal(n) \in InLine /\ Decimal(n) # <<>> /\ IsNumber(Decimal(n))
      /\ Atoi(Decimal(n)) = n
  BY DecimalReads
<1>2. nextLine(w).ok /\ nextLine(w).line = Decimal(n) /\ nextLine(w).rest = u
  BY <1>1, NextLineFields
<1> HIDE DEF w
<1>3. readSize(w) = Read(n, u) BY <1>1, <1>2 DEF readSize
<1> QED BY <1>3 DEF w

LEMMA SizeStops ==
  ASSUME NEW s \in InLine, NEW p \in Cuts(s \o <<Nl>>)
  PROVE  readSize(p) = Bad(<<>>, <<>>)
<1>1. p \in InLine BY CutLine
<1>2. ~nextLine(p).ok /\ nextLine(p).line = <<>> /\ nextLine(p).rest = <<>>
  BY <1>1, NextLineFields
<1> QED BY <1>2 DEF readSize

LEMMA SizedRead ==
  ASSUME NEW c \in {"*", "$", ":"}, NEW n \in Int, NEW u \in Bytes,
         NEW canBeTag, NEW R
  PROVE  /\ c = "*" => readValue(Line(c, Decimal(n)) \o u, canBeTag, R)
                         = handleArray(n, R, u)
         /\ c = "$" => readValue(Line(c, Decimal(n)) \o u, canBeTag, R)
                         = handleBlob(n, u)
         /\ c = ":" => readValue(Line(c, Decimal(n)) \o u, canBeTag, R)
                         = Read(Integer(n), u)
<1> DEFINE w == (Decimal(n) \o <<Nl>>) \o u
           t == Line(c, Decimal(n)) \o u
<1>1. Decimal(n) \in Bytes BY DecimalReads DEF InLine
<1>2. c \in Sigils BY DEF Sigils
<1>3. readValue(t, canBeTag, R) = handleSized(c, R, w) BY <1>1, <1>2, LineRead
<1>4. readSize(w) = Read(n, u) BY SizeRead
<1> HIDE DEF w, t
<1>5. readSize(w).end = "none" /\ readSize(w).val = n /\ readSize(w).rest = u
  BY <1>4, ReadFields
<1>6. /\ c = "*" => handleSized(c, R, w) = handleArray(n, R, u)
      /\ c = "$" => handleSized(c, R, w) = handleBlob(n, u)
      /\ c = ":" => handleSized(c, R, w) = Read(Integer(n), u)
  BY <1>5 DEF handleSized
<1> QED BY <1>3, <1>6 DEF t

\* What is missing of a size.
LEMMA SizedStops ==
  ASSUME NEW c \in {"*", "$", ":"}, NEW n \in Int, NEW canBeTag, NEW R, NEW q,
         q # <<>>, Head(q) = c, Tail(q) \in Cuts(Decimal(n) \o <<Nl>>)
  PROVE  Stops(readValue(q, canBeTag, R))
<1> DEFINE w == Tail(q)
<1>1. readValue(q, canBeTag, R) = handleSized(c, R, w) BY Dispatch
<1>2. Decimal(n) \in InLine BY DecimalReads
<1>3. readSize(w) = Bad(<<>>, <<>>) BY <1>2, SizeStops
<1> HIDE DEF w
<1>4. readSize(w).end # "none" /\ Stops(readSize(w)) BY <1>3, Ends
<1>5. handleSized(c, R, w) = readSize(w) BY <1>4 DEF handleSized
<1> QED BY <1>1, <1>4, <1>5

LEMMA IntegerReads ==
  ASSUME NEW canBeTag, NEW R, NEW n \in Int
  PROVE  TakesText(canBeTag, R, Line(":", Decimal(n)), Integer(n))
<1> DEFINE c == ":"
<1>1. c \in {"*", "$", ":"} /\ c \in Byte BY Literals DEF Sigils
<1>2. Decimal(n) \in Bytes BY DecimalReads DEF InLine
<1>3. c = ":" OBVIOUS
<1> HIDE DEF c
<1>4. \A u \in Bytes : readValue(Line(c, Decimal(n)) \o u, canBeTag, R)
                         = Read(Integer(n), u)
  BY <1>1, <1>3, SizedRead
<1>5. ASSUME NEW q \in Cuts(Line(c, Decimal(n)))
      PROVE  Stops(readValue(q, canBeTag, R))
  <2>1. CASE q = <<>> BY <2>1, StopsEmpty
  <2>2. CASE q # <<>> /\ Head(q) = c /\ Tail(q) \in Cuts(Decimal(n) \o <<Nl>>)
    BY <2>2, <1>1, SizedStops
  <2> QED BY <2>1, <2>2, <1>1, <1>2, CutLineOnly
<1> QED BY <1>4, <1>5 DEF TakesText, c

\* The bytes of a blob are taken whatever they are, and its newline after
\* them.
LEMMA BlobBody ==
  ASSUME NEW data \in Bytes, Len(data) <= MaxBlobSize
  PROVE  /\ \A u \in Bytes : handleBlob(Len(data), (data \o <<Nl>>) \o u)
                               = Read(Blob(data), u)
         /\ \A p \in Cuts(data \o <<Nl>>) : Stops(handleBlob(Len(data), p))
<1>a. Len(data) \in Nat BY DEF Bytes
<1>b. MaxBlobSize \in Nat BY WireAssumption
<1>c. Nl \in Byte BY Literals
<1>d. <<Nl>> \in Bytes BY <1>c, OneByte
<1>1. Len(data) \in Nat /\ MaxBlobSize \in Nat /\ Nl \in Byte /\ <<Nl>> \in Bytes
  BY <1>a, <1>b, <1>c, <1>d
<1>2. ASSUME NEW u \in Bytes
      PROVE  handleBlob(Len(data), (data \o <<Nl>>) \o u) = Read(Blob(data), u)
  <2> DEFINE t == (data \o <<Nl>>) \o u
             w == <<Nl>> \o u
  <2>1. w \in Bytes /\ t = data \o w BY <1>1, Assoc, Concat
  <2>2. /\ t \in Bytes /\ Len(t) = Len(data) + Len(w)
        /\ \A i \in 1 .. Len(data) : t[i] = data[i]
        /\ \A i \in 1 .. Len(w) : t[Len(data) + i] = w[i]
        /\ Len(w) \in Nat
    BY <2>1, Concat DEF Bytes
  <2>3. handleNull(w) = Read(Null, u) BY NullHandled
  <2> HIDE DEF t, w
  <2>4. SubSeq(t, 1, Len(data)) = data BY <2>2, <1>1 DEF Bytes
  <2>5. From(t, Len(data) + 1) = w BY <2>1, <2>2, <1>1 DEF From, Bytes
  <2>6. ~(Len(data) > MaxBlobSize) /\ ~(Len(data) < 0) BY <1>1
  <2>7. handleNull(w).end = "none" /\ handleNull(w).rest = u BY <2>3, ReadFields
  <2>8. handleBlob(Len(data), t) = Read(Blob(data), u)
    BY <2>4, <2>5, <2>6, <2>7 DEF handleBlob
  <2> QED BY <2>8 DEF t
<1>3. ASSUME NEW p \in Cuts(data \o <<Nl>>)
      PROVE  Stops(handleBlob(Len(data), p))
  <2>1. /\ p \in Bytes /\ Len(p) < Len(data \o <<Nl>>) /\ Len(p) \in Nat
        /\ Len(data \o <<Nl>>) = Len(data) + 1
    BY <1>1, Concat, CutShort, OneByte
  <2>2. Len(p) < Len(data) + 1 BY <2>1, <1>1
  <2>3. From(p, Len(data) + 1) = <<>> BY <2>1, <2>2, <1>1, SubSeqEmpty DEF From
  <2>4. ~(Len(data) > MaxBlobSize) /\ ~(Len(data) < 0) BY <1>1
  <2>5. handleNull(<<>>).end # "none" /\ Stops(handleNull(<<>>)) BY NullStops DEF Stops
  <2>6. handleBlob(Len(data), p) = handleNull(<<>>)
    BY <2>3, <2>4, <2>5 DEF handleBlob
  <2> QED BY <2>5, <2>6
<1> QED BY <1>2, <1>3

LEMMA BlobReads ==
  ASSUME NEW canBeTag, NEW R, NEW data \in Bytes, Len(data) <= MaxBlobSize
  PROVE  TakesText(canBeTag, R,
                   Line("$", Decimal(Len(data))) \o (data \o <<Nl>>), Blob(data))
<1> DEFINE c == "$"
           n == Len(data)
           h == Line(c, Decimal(n))
           b == data \o <<Nl>>
<1>a. c \in Byte BY Literals DEF Sigils
<1>b. n \in Int BY DEF Bytes
<1>1. c \in {"*", "$", ":"} /\ c \in Byte /\ n \in Int BY <1>a, <1>b
<1>2. Decimal(n) \in Bytes BY <1>1, DecimalReads DEF InLine
<1>3. h \in Bytes /\ b \in Bytes BY <1>1, <1>2, LineType, Literals, OneByte, Concat
<1>4. c = "$" OBVIOUS
<1> HIDE DEF c
<1>5. ASSUME NEW u \in Bytes PROVE readValue((h \o b) \o u, canBeTag, R) = Read(Blob(data), u)
  <2>1. (h \o b) \o u = h \o (b \o u) /\ b \o u \in Bytes
    <3> HIDE DEF h, b
    <3>1. (h \o b) \o u = h \o (b \o u) BY <1>3, Assoc
    <3>2. b \o u \in Bytes BY <1>3, Concat
    <3> QED BY <3>1, <3>2
  <2>2. readValue(h \o (b \o u), canBeTag, R) = handleBlob(n, b \o u)
    BY <2>1, <1>1, <1>4, SizedRead
  <2> QED BY <2>1, <2>2, BlobBody
<1>6. ASSUME NEW q \in Cuts(h \o b) PROVE Stops(readValue(q, canBeTag, R))
  <2>1. CASE q = <<>> BY <2>1, StopsEmpty
  <2>2. CASE q # <<>> /\ Head(q) = c /\ Tail(q) \in Cuts(Decimal(n) \o <<Nl>>)
    BY <2>2, <1>1, SizedStops
  <2>3. CASE \E p \in Cuts(b) : q = h \o p
    <3>1. PICK p \in Cuts(b) : q = h \o p BY <2>3
    <3>2. p \in Bytes BY DEF Cuts
    <3>3. readValue(q, canBeTag, R) = handleBlob(n, p)
      BY <3>1, <3>2, <1>1, <1>4, SizedRead
    <3> QED BY <3>3, BlobBody
  <2> QED BY <2>1, <2>2, <2>3, <1>1, <1>2, <1>3, CutValue
<1> QED BY <1>5, <1>6 DEF TakesText, c

-----------------------------------------------------------------------------
(* The values with values inside.                                          *)

\* TakesText of a text of at most d bytes.
TakesWithin(canBeTag, R, d, t, v) ==
    /\ \A u \in Bytes : Len(t \o u) <= d => readValue(t \o u, canBeTag, R) = Read(v, u)
    /\ \A q \in Cuts(t) : Len(q) <= d => Stops(readValue(q, canBeTag, R))

LEMMA JoinedType == ASSUME NEW ts \in Seq(Bytes) PROVE Joined(ts) \in Bytes
<1>1. PICK f : LastOf(f, ts) /\ Joined(ts) = f[Len(ts)] BY JoinedDef
<1>2. Len(ts) \in 0 .. Len(ts) OBVIOUS
<1> QED BY <1>1, <1>2, LastType

LEMMA JoinedNone == Joined(<<>>) = <<>>
<1>1. <<>> \in Seq(Bytes) /\ Len(<<>>) = 0 BY EmptySeq
<1>2. PICK f : LastOf(f, <<>>) /\ Joined(<<>>) = f[0] BY <1>1, JoinedDef
<1> QED BY <1>1, <1>2, LastType

\* The text after a line is shorter than the text.
LEMMA AfterLine ==
  ASSUME NEW c \in Byte, NEW s \in Bytes, NEW b \in Bytes, NEW u \in Bytes
  PROVE  /\ (Line(c, s) \o b) \o u = Line(c, s) \o (b \o u) /\ b \o u \in Bytes
         /\ \A d \in Nat : Len((Line(c, s) \o b) \o u) <= d + 1 => Len(b \o u) <= d
<1> DEFINE l == Line(c, s)
<1>1. l \in Bytes BY LineType
<1>2. b \o u \in Bytes BY Concat
<1>3. Len(b \o u) < Len(l \o (b \o u)) BY <1>2, LineHead
<1> HIDE DEF l
<1>4. (l \o b) \o u = l \o (b \o u) BY <1>1, Assoc
<1>5. Len(b \o u) \in Nat /\ Len(l \o (b \o u)) \in Nat BY <1>1, <1>2, Concat DEF Bytes
<1>6. \A d \in Nat : Len((l \o b) \o u) <= d + 1 => Len(b \o u) <= d
  BY <1>3, <1>4, <1>5 DEF l
<1> QED BY <1>2, <1>4, <1>6 DEF l

\* ... and so is what has arrived of it.
LEMMA AfterLineCut ==
  ASSUME NEW c \in Byte, NEW s \in Bytes, NEW p \in Bytes, NEW d \in Nat,
         Len(Line(c, s) \o p) <= d + 1
  PROVE  Len(p) <= d
<1>1. Len(p) < Len(Line(c, s) \o p) BY LineHead
<1>2. Len(p) \in Nat BY DEF Bytes
<1>3. Line(c, s) \o p \in Bytes BY LineHead
<1>4. Len(Line(c, s) \o p) \in Nat BY <1>3 DEF Bytes
<1> QED BY <1>1, <1>2, <1>4

\* An array is read when the reader reads what is inside.
LEMMA ArrayReads ==
  ASSUME NEW canBeTag, NEW d \in Nat, NEW R, NEW ts \in Seq(Bytes),
         NEW V, NEW vs \in Seq(V), Len(vs) = Len(ts), Len(ts) <= MaxLen,
         \A i \in 1 .. Len(ts) : ReadsText(R, d, ts[i], vs[i])
  PROVE  TakesWithin(canBeTag, R, d + 1,
                     Line("*", Decimal(Len(ts))) \o Joined(ts), Array(vs))
<1> DEFINE c == "*"
           n == Len(ts)
           s == Decimal(n)
           b == Joined(ts)
<1>1. c \in Byte BY Literals DEF Sigils
<1>2. n \in Nat /\ n \in Int /\ ~(n < 0 \/ n > MaxLen)
  BY WireAssumption
<1>3. s \in Bytes BY <1>2, DecimalReads DEF InLine
<1>4. b \in Bytes BY JoinedType
<1>5. c = "*" /\ c \in {"*", "$", ":"} OBVIOUS
<1>6. \A u \in Bytes : readValue(Line(c, s) \o u, canBeTag, R) = handleArray(n, R, u)
  BY <1>2, <1>5, SizedRead
<1>7. \A u \in Bytes : Len(b \o u) <= d => readMany(n, R, b \o u) = Read(vs, u)
  BY ManyRead
<1>8. \A p \in Cuts(b) : Len(p) <= d => Stops(readMany(n, R, p)) BY ManyCut
<1>9. \A q \in Bytes : q # <<>> /\ Head(q) = c /\ Tail(q) \in Cuts(s \o <<Nl>>)
                         => Stops(readValue(q, canBeTag, R))
  BY <1>2, <1>5, SizedStops
<1> HIDE DEF c, n, s, b
<1>10. ASSUME NEW u \in Bytes, Len((Line(c, s) \o b) \o u) <= d + 1
       PROVE  readValue((Line(c, s) \o b) \o u, canBeTag, R) = Read(Array(vs), u)
  <2>1. /\ (Line(c, s) \o b) \o u = Line(c, s) \o (b \o u) /\ b \o u \in Bytes
        /\ Len(b \o u) <= d
    <3>1. /\ (Line(c, s) \o b) \o u = Line(c, s) \o (b \o u) /\ b \o u \in Bytes
          /\ \A e \in Nat : Len((Line(c, s) \o b) \o u) <= e + 1 => Len(b \o u) <= e
      BY <1>1, <1>3, <1>4, AfterLine
    <3> QED BY <3>1, <1>10
  <2>2. readMany(n, R, b \o u).end = "none" /\ readMany(n, R, b \o u).val = vs
        /\ readMany(n, R, b \o u).rest = u
    BY <2>1, <1>7, ReadFields
  <2>3. handleArray(n, R, b \o u) = Read(Array(vs), u)
    BY <2>2, <1>2 DEF handleArray
  <2> QED BY <2>1, <2>3, <1>6
<1>11. ASSUME NEW q \in Cuts(Line(c, s) \o b), Len(q) <= d + 1
       PROVE  Stops(readValue(q, canBeTag, R))
  <2>1. q \in Bytes BY DEF Cuts
  <2>2. CASE q = <<>> BY <2>2, StopsEmpty
  <2>3. CASE q # <<>> /\ Head(q) = c /\ Tail(q) \in Cuts(s \o <<Nl>>)
    BY <2>1, <2>3, <1>9
  <2>4. CASE \E p \in Cuts(b) : q = Line(c, s) \o p
    <3>1. PICK p \in Cuts(b) : q = Line(c, s) \o p BY <2>4
    <3>2. p \in Bytes BY DEF Cuts
    <3>3. Len(p) <= d BY <3>1, <3>2, <1>1, <1>3, <1>11, AfterLineCut
    <3>4. Stops(readMany(n, R, p)) BY <3>1, <3>3, <1>8
    <3>5. readMany(n, R, p).end # "none" BY <3>4 DEF Stops
    <3>6. handleArray(n, R, p) = readMany(n, R, p) BY <3>5, <1>2 DEF handleArray
    <3> QED BY <3>1, <3>2, <3>4, <3>6, <1>6
  <2> QED BY <2>2, <2>3, <2>4, <1>1, <1>3, <1>4, CutValue
<1> QED BY <1>10, <1>11 DEF TakesWithin, c, n, s, b

LEMMA AddTable ==
  ASSUME NEW rows, NEW cols, NEW cells, NEW row
  PROVE  /\ cells = <<>> => Add(Table(rows, cols, cells), row) = Table(1, Len(row), row)
         /\ cells # <<>> => Add(Table(rows, cols, cells), row)
                             = Table(rows + 1, cols, cells \o row)
<1> DEFINE x == Table(rows, cols, cells)
<1>1. x.cells = cells /\ x.cols = cols /\ x.rows = rows BY DEF Table
<1> HIDE DEF x
<1>2. cells = <<>> => Add(x, row) = Table(1, Len(row), row) BY <1>1, Zenon DEF Add
<1>3. cells # <<>> => Add(x, row) = Table(rows + 1, cols, cells \o row)
  BY <1>1, Zenon DEF Add
<1> QED BY <1>2, <1>3 DEF x

LEMMA Product ==
  ASSUME NEW a \in Nat, NEW r \in Nat, NEW b \in Nat
  PROVE  /\ a * b \in Nat /\ (a + 1) * b = a * b + b
         /\ a <= r => a * b <= r * b
         /\ a > 0 /\ b > 0 => a * b > 0
<1>1. a * b \in Nat /\ r * b \in Nat /\ (a + 1) * b = a * b + b OBVIOUS
<1>2. ASSUME a <= r PROVE a * b <= r * b
  <2> DEFINE k == r - a
  <2>1. k \in Nat /\ r = a + k BY <1>2
  <2> HIDE DEF k
  <2>2. k * b \in Nat BY <2>1
  <2>3. (a + k) * b = a * b + k * b BY <2>1
  <2> QED BY <2>1, <2>2, <2>3, <1>1
<1>3. ASSUME a > 0, b > 0 PROVE a * b > 0
  <2>1. a - 1 \in Nat BY <1>3
  <2>2. (a - 1) * b \in Nat BY <2>1
  <2>3. a * b = (a - 1) * b + b BY <2>1
  <2> QED BY <2>2, <2>3, <1>3, <1>1
<1> QED BY <1>1, <1>2, <1>3

AddedOf(f, rows, cols, cells) ==
    f = [i \in 0 .. rows |->
          IF i = 0 THEN Table(0, cols, <<>>)
          ELSE Add(f[i - 1], SubSeq(cells, (i - 1) * cols + 1, i * cols))]

\* The recursive function inside TableOf.
LEMMA AddedExists ==
  ASSUME NEW rows \in Nat, NEW cols, NEW cells
  PROVE  \E f : AddedOf(f, rows, cols, cells)
<1> DEFINE St(x, i) == Add(x, SubSeq(cells, (i - 1) * cols + 1, i * cols))
           z == Table(0, cols, <<>>)
           D(f, n) == f = [i \in 0 .. n |-> IF i = 0 THEN z ELSE St(f[i - 1], i)]
           S == {n \in Nat : \E f : D(f, n)}
<1> HIDE DEF St, z
<1>1. 0 \in S
  <2>1. D([i \in 0 .. 0 |-> z], 0) OBVIOUS
  <2> QED BY <2>1
<1>2. ASSUME NEW n \in Nat, n \in S PROVE n + 1 \in S
  <2>1. PICK f : D(f, n) BY <1>2
  <2> DEFINE g == [i \in 0 .. n + 1 |-> IF i = n + 1 THEN St(f[n], n + 1) ELSE f[i]]
  <2>2. D(g, n + 1) BY <2>1
  <2> HIDE DEF g, D
  <2>3. \E h : D(h, n + 1) BY <2>2
  <2> QED BY <2>3
<1>3. Nat \subseteq S BY <1>1, <1>2, NatInd
<1> QED BY <1>3 DEF St, z, AddedOf

\* Rows of cols cells each add up to the table of all cells.
LEMMA RowsAddUp ==
  ASSUME NEW rows \in Nat, NEW cols \in Nat, NEW V, NEW cells \in Seq(V),
         IsTable(Table(rows, cols, cells)), rows > 0
  PROVE  Len(cells) = rows * cols /\ TableOf(rows, cols, cells) = Table(rows, cols, cells)
<1>0. Len(cells) \in Nat /\ (cells = <<>> <=> Len(cells) = 0) BY EmptySeq
<1>1. \/ rows = 1 /\ cols = 0 /\ cells = <<>>
      \/ cols > 0 /\ Len(cells) = rows * cols
  BY DEF IsTable, Table
<1>2. PICK f : AddedOf(f, rows, cols, cells) /\ TableOf(rows, cols, cells) = f[rows]
  <2>1. \E f : AddedOf(f, rows, cols, cells) BY AddedExists
  <2> QED BY <2>1 DEF TableOf, AddedOf
<1>3. TableOf(rows, cols, cells) = f[rows] BY <1>2
<1>4. f[0] = Table(0, cols, <<>>) BY <1>2 DEF AddedOf
<1>5. \A i \in 0 .. rows - 1 :
        f[i + 1] = Add(f[i], SubSeq(cells, i * cols + 1, (i + 1) * cols))
  <2> TAKE i \in 0 .. rows - 1
  <2>1. i + 1 \in 0 .. rows /\ i + 1 # 0 /\ (i + 1) - 1 = i OBVIOUS
  <2> QED BY <2>1, <1>2 DEF AddedOf
<1>6. CASE rows = 1 /\ cols = 0 /\ cells = <<>>
  <2>1. SubSeq(cells, 1, 0) = <<>> BY <1>6
  <2>2. f[1] = Add(f[0], SubSeq(cells, 1, 0)) BY <1>5, <1>6
  <2>3. Add(Table(0, cols, <<>>), <<>>) = Table(1, 0, <<>>)
    <3>1. Len(<<>>) = 0 OBVIOUS
    <3> DEFINE x == <<>>
               r == 0
    <3>2. x = <<>> /\ x \in Seq(V) /\ r \in Nat OBVIOUS
    <3> HIDE DEF x, r
    <3>3. Add(Table(r, cols, x), x) = Table(1, Len(x), x) BY <3>2, AddTable
    <3> QED BY <3>1, <3>3 DEF x, r
  <2>4. f[rows] = Table(1, 0, <<>>)
    BY <2>1, <2>2, <2>3, <1>4, <1>6
  <2>5. Len(cells) = 0 /\ rows * cols = 0 BY <1>0, <1>6
  <2> QED BY <2>4, <2>5, <1>3, <1>6
<1>7. CASE cols > 0 /\ Len(cells) = rows * cols
  <2> DEFINE pre(i) == SubSeq(cells, 1, i * cols)
             S == {i \in Nat : i <= rows => f[i] = Table(i, cols, pre(i))}
  <2>1. 0 \in S
    <3>1. pre(0) = <<>> BY SubSeqEmpty
    <3> QED BY <3>1, <1>4
  <2>2. ASSUME NEW i \in Nat, i \in S, i + 1 <= rows
        PROVE  f[i + 1] = Table(i + 1, cols, pre(i + 1))
    <3> DEFINE a == i * cols
               e == (i + 1) * cols
               row == SubSeq(cells, a + 1, e)
    <3>1. a \in Nat /\ e = a + cols /\ e <= Len(cells) /\ (i > 0 => a > 0) /\ e \in Nat
      <4>1. i + 1 \in Nat BY <2>2
      <4>2. a \in Nat /\ e = a + cols /\ (i > 0 => a > 0)
        BY <2>2, <1>7, Product
      <4>3. e <= Len(cells) /\ e \in Nat BY <4>1, <2>2, <1>7, Product
      <4> QED BY <4>2, <4>3
    <3>2. f[i] = Table(i, cols, pre(i)) BY <2>2
    <3>3. i \in 0 .. rows - 1 BY <2>2
    <3>4. f[i + 1] = Add(f[i], row) BY <3>3, <1>5
    <3> HIDE DEF a, e
    <3>5. Len(row) = cols /\ row \in Seq(V) /\ SubSeq(cells, 1, a) \in Seq(V)
      BY <3>1, <1>0
    <3>6. SubSeq(cells, 1, a) \o row = SubSeq(cells, 1, e)
      <4>1. /\ 1 \in 1 .. Len(cells) + 1 /\ a \in 1 - 1 .. Len(cells)
            /\ e \in a .. Len(cells)
        BY <3>1, <1>0
      <4> QED BY <4>1, ConcatAdjacentSubSeq
    <3>7. Len(SubSeq(cells, 1, a)) = a BY <3>1, <1>0
    <3>8. SubSeq(cells, 1, a) = <<>> <=> i = 0
      <4>1. i = 0 => a = 0 BY DEF a
      <4>2. a = 0 => SubSeq(cells, 1, a) = <<>> BY SubSeqEmpty
      <4>3. a > 0 => SubSeq(cells, 1, a) # <<>>
        <5> DEFINE x == SubSeq(cells, 1, a)
        <5>1. Len(x) = a BY <3>7
        <5> HIDE DEF x
        <5>2. a > 0 => x # <<>> BY <5>1, EmptySeq
        <5> QED BY <5>2 DEF x
      <4> QED BY <4>1, <4>2, <4>3, <3>1, <2>2
    <3> HIDE DEF row
    <3>9. f[i] = Table(i, cols, SubSeq(cells, 1, a)) BY <3>2 DEF a
    <3>10. Add(f[i], row) = Table(i + 1, cols, SubSeq(cells, 1, a) \o row)
      <4> DEFINE x == SubSeq(cells, 1, a)
      <4>1. x = <<>> <=> i = 0 BY <3>8
      <4>2. f[i] = Table(i, cols, x) BY <3>9
      <4>5. x \in Seq(V) /\ row \in Seq(V) BY <3>5
      <4> HIDE DEF x
      <4>3. Add(f[i], row) = Table(i + 1, cols, x \o row)
        <5>1. CASE i = 0
          <6>1. x = <<>> /\ i + 1 = 1 BY <4>1, <5>1
          <6>2. Add(Table(i, cols, x), row) = Table(1, Len(row), row)
            BY <6>1, AddTable
          <6>3. x \o row = row
            <7> HIDE DEF row
            <7> QED BY <6>1, <4>5, ConcatEmptySeq
          <6> QED BY <6>1, <6>2, <6>3, <4>2, <3>5
        <5>2. CASE i # 0 BY <4>1, <4>2, <5>2, AddTable
        <5> QED BY <5>1, <5>2
      <4> QED BY <4>3 DEF x
    <3> QED BY <3>4, <3>6, <3>10 DEF e
  <2>3. \A i \in Nat : i \in S => i + 1 \in S BY <2>2
  <2> HIDE DEF pre
  <2>4. Nat \subseteq S BY <2>1, <2>3, NatInd
  <2>5. f[rows] = Table(rows, cols, pre(rows)) BY <2>4
  <2>6. pre(rows) = cells BY <1>7, SubSeqFull DEF pre
  <2> QED BY <2>5, <2>6, <1>3, <1>7
<1> QED BY <1>1, <1>6, <1>7

\* The line of a table: rows, comma, columns.
LEMMA SizeLine ==
  ASSUME NEW rows \in Int, NEW cols \in Int
  PROVE  LET s == Decimal(rows) \o (<<",">> \o Decimal(cols))
         IN  /\ s \in InLine /\ s # <<>>
             /\ readTableSize(s).rows = Decimal(rows)
             /\ readTableSize(s).cols = Decimal(cols)
<1> DEFINE a == Decimal(rows)
           b == ","
           c == Decimal(cols)
           s == a \o (<<b>> \o c)
<1>1. /\ a \in InLine /\ a \in Bytes /\ c \in InLine /\ c \in Bytes
      /\ \A i \in DOMAIN a : a[i] # b
  BY DecimalReads DEF InLine
<1>2. b \in Byte /\ b # Nl BY Literals DEF Nl
<1> HIDE DEF a, b, c
<1>3. s \in InLine BY <1>1, <1>2, TwoPartsLine
<1>4. /\ IndexOf(s, b) = Len(a) + 1
      /\ SubSeq(s, 1, (Len(a) + 1) - 1) = a
      /\ From(s, (Len(a) + 1) + 1) = c
  BY <1>1, <1>2, TwoParts
<1>5. s # <<>>
  <2>1. /\ <<b>> \o c \in Bytes /\ Len(<<b>> \o c) = 1 + Len(c)
    BY <1>1, <1>2, OneByte, Concat
  <2>2. Len(s) = Len(a) + (1 + Len(c)) /\ Len(a) \in Nat /\ Len(c) \in Nat
    BY <2>1, <1>1, Concat DEF Bytes
  <2> HIDE DEF s
  <2> QED BY <2>2, EmptySeq
<1> HIDE DEF s
<1>6. readTableSize(s).rows = a /\ readTableSize(s).cols = c
  <2>1. b = "," BY DEF b
  <2> QED BY <2>1, <1>4 DEF readTableSize
<1> QED BY <1>3, <1>5, <1>6 DEF s, a, b, c

\* handleTable after the line of the size.
LEMMA TableSized ==
  ASSUME NEW rows \in Nat, NEW cols \in Nat, rows = 0 \/ cols <= MaxLen,
         NEW R, NEW u \in Bytes
  PROVE  LET s == Decimal(rows) \o (<<",">> \o Decimal(cols))
             r == readMany(rows * cols, R, u)
         IN  handleTable(R, (s \o <<Nl>>) \o u)
               = IF rows = 0 THEN Read(Table(0, cols, <<>>), u)
                 ELSE IF r.end = "none"
                      THEN Read(TableOf(rows, cols, r.val), r.rest)
                      ELSE r
<1> DEFINE s == Decimal(rows) \o (<<",">> \o Decimal(cols))
           w == (s \o <<Nl>>) \o u
<1>1. rows \in Int /\ cols \in Int OBVIOUS
<1>2. /\ s \in InLine /\ s # <<>>
      /\ readTableSize(s).rows = Decimal(rows)
      /\ readTableSize(s).cols = Decimal(cols)
  BY <1>1, SizeLine
<1>3. /\ IsNumber(Decimal(rows)) /\ Atoi(Decimal(rows)) = rows
      /\ IsNumber(Decimal(cols)) /\ Atoi(Decimal(cols)) = cols
  BY <1>1, DecimalReads
<1> HIDE DEF s
<1>4. nextLine(w).ok /\ nextLine(w).line = s /\ nextLine(w).rest = u
  BY <1>2, NextLineFields
<1> HIDE DEF w
<1>5. (rows <= 0 <=> rows = 0)
      /\ (rows = 0 \/ ~(cols < 0 \/ cols > MaxLen))
  BY WireAssumption
<1>6. handleTable(R, w) = IF rows <= 0 THEN Read(Table(0, cols, <<>>), u)
                          ELSE IF readMany(rows * cols, R, u).end = "none"
                               THEN Read(TableOf(rows, cols, readMany(rows * cols, R, u).val),
                                         readMany(rows * cols, R, u).rest)
                               ELSE readMany(rows * cols, R, u)
  BY <1>2, <1>3, <1>4, <1>5, Zenon DEF handleTable
<1> QED BY <1>5, <1>6 DEF w, s

LEMMA LineReadTable ==
  ASSUME NEW s \in Bytes, NEW u \in Bytes, NEW canBeTag, NEW R
  PROVE  readValue(Line("=", s) \o u, canBeTag, R) = handleTable(R, (s \o <<Nl>>) \o u)
<1>1. "=" \in Sigils BY DEF Sigils
<1> QED BY <1>1, LineRead

\* A table is read when the reader reads its cells: as many as its rows and
\* columns, or none.
LEMMA TableReads ==
  ASSUME NEW canBeTag, NEW d \in Nat, NEW R, NEW ts \in Seq(Bytes),
         NEW V, NEW vs \in Seq(V), Len(vs) = Len(ts),
         \A i \in 1 .. Len(ts) : ReadsText(R, d, ts[i], vs[i]),
         NEW rows \in Nat, NEW cols \in Nat, IsTable(Table(rows, cols, vs))
  PROVE  TakesWithin(canBeTag, R, d + 1,
                     Line("=", Decimal(rows) \o (<<",">> \o Decimal(cols))) \o Joined(ts),
                     Table(rows, cols, vs))
<1> DEFINE c == "="
           n == Len(ts)
           s == Decimal(rows) \o (<<",">> \o Decimal(cols))
           b == Joined(ts)
           whole == Table(rows, cols, vs)
<1>1. c \in Byte /\ c \in Sigils BY Literals DEF Sigils
<1>2. n \in Nat OBVIOUS
<1>3. s \in Bytes /\ s \in InLine
  <2>1. rows \in Int /\ cols \in Int OBVIOUS
  <2> QED BY <2>1, SizeLine DEF InLine
<1>4. b \in Bytes BY JoinedType
<1>5. \A w \in Bytes : readValue(Line(c, s) \o w, canBeTag, R)
                         = handleTable(R, (s \o <<Nl>>) \o w)
  BY <1>3, LineReadTable
<1>6. \A q : q # <<>> /\ Head(q) = c => readValue(q, canBeTag, R) = handleTable(R, Tail(q))
  BY Dispatch
<1>0. rows = 0 \/ cols <= MaxLen
  BY WireAssumption DEF IsTable, Table
<1>7. \A w \in Bytes :
        /\ rows = 0 => handleTable(R, (s \o <<Nl>>) \o w) = Read(Table(0, cols, <<>>), w)
        /\ rows > 0 /\ readMany(rows * cols, R, w).end = "none"
             => handleTable(R, (s \o <<Nl>>) \o w)
                  = Read(TableOf(rows, cols, readMany(rows * cols, R, w).val),
                         readMany(rows * cols, R, w).rest)
        /\ rows > 0 /\ readMany(rows * cols, R, w).end # "none"
             => handleTable(R, (s \o <<Nl>>) \o w) = readMany(rows * cols, R, w)
  <2> TAKE w \in Bytes
  <2> DEFINE r == readMany(rows * cols, R, w)
  <2>1. handleTable(R, (s \o <<Nl>>) \o w)
          = IF rows = 0 THEN Read(Table(0, cols, <<>>), w)
            ELSE IF r.end = "none" THEN Read(TableOf(rows, cols, r.val), r.rest)
                 ELSE r
    BY <1>0, TableSized
  <2> HIDE DEF r, s
  <2>2. rows > 0 => rows # 0 OBVIOUS
  <2>3. /\ rows = 0 => handleTable(R, (s \o <<Nl>>) \o w) = Read(Table(0, cols, <<>>), w)
        /\ rows > 0 /\ r.end = "none"
             => handleTable(R, (s \o <<Nl>>) \o w)
                  = Read(TableOf(rows, cols, r.val), r.rest)
        /\ rows > 0 /\ r.end # "none"
             => handleTable(R, (s \o <<Nl>>) \o w) = r
    BY <2>1, <2>2, Zenon
  <2> QED BY <2>3 DEF r
<1>8. \A u \in Bytes : Len(b \o u) <= d => readMany(n, R, b \o u) = Read(vs, u)
  BY ManyRead
<1>9. \A p \in Cuts(b) : Len(p) <= d => Stops(readMany(n, R, p)) BY ManyCut
<1>10. rows > 0 => rows * cols = n /\ TableOf(rows, cols, vs) = whole BY RowsAddUp
<1>11. rows = 0 => vs = <<>> /\ b = <<>> /\ whole = Table(0, cols, <<>>)
  <2>1. rows = 0 => vs = <<>> BY DEF IsTable, Table
  <2>2. vs = <<>> => ts = <<>> BY EmptySeq
  <2> QED BY <2>1, <2>2, JoinedNone
<1>12. rows = 0 \/ rows > 0 OBVIOUS
<1> HIDE DEF c, n, s, b, whole
<1>13. ASSUME NEW u \in Bytes, Len((Line(c, s) \o b) \o u) <= d + 1
       PROVE  readValue((Line(c, s) \o b) \o u, canBeTag, R) = Read(whole, u)
  <2>1. /\ (Line(c, s) \o b) \o u = Line(c, s) \o (b \o u) /\ b \o u \in Bytes
        /\ Len(b \o u) <= d
    <3>1. /\ (Line(c, s) \o b) \o u = Line(c, s) \o (b \o u) /\ b \o u \in Bytes
          /\ \A e \in Nat : Len((Line(c, s) \o b) \o u) <= e + 1 => Len(b \o u) <= e
      BY <1>1, <1>3, <1>4, AfterLine
    <3> QED BY <3>1, <1>13
  <2>2. CASE rows = 0
    <3>1. b \o u = u BY <2>2, <1>11, ConcatEmptySeq DEF Bytes
    <3> QED BY <2>1, <2>2, <3>1, <1>5, <1>7, <1>11
  <2>3. CASE rows > 0
    <3>1. readMany(n, R, b \o u).end = "none" /\ readMany(n, R, b \o u).val = vs
          /\ readMany(n, R, b \o u).rest = u
      BY <2>1, <1>8, ReadFields
    <3>2. rows * cols = n BY <2>3, <1>10
    <3>3. handleTable(R, (s \o <<Nl>>) \o (b \o u)) = Read(TableOf(rows, cols, vs), u)
      BY <2>1, <2>3, <3>1, <3>2, <1>7
    <3> QED BY <2>1, <2>3, <3>3, <1>5, <1>10
  <2> QED BY <2>2, <2>3, <1>12
<1>14. ASSUME NEW q \in Cuts(Line(c, s) \o b), Len(q) <= d + 1
       PROVE  Stops(readValue(q, canBeTag, R))
  <2>1. CASE q = <<>> BY <2>1, StopsEmpty
  <2>2. CASE q # <<>> /\ Head(q) = c /\ Tail(q) \in Cuts(s \o <<Nl>>)
    <3> DEFINE w == Tail(q)
    <3>1. w \in InLine BY <2>2, <1>3, CutLine
    <3>2. ~nextLine(w).ok /\ nextLine(w).line = <<>> /\ nextLine(w).rest = <<>>
      BY <3>1, NextLineFields
    <3>3. readValue(q, canBeTag, R) = handleTable(R, w) BY <2>2, <1>6
    <3> HIDE DEF w
    <3>4. handleTable(R, w) = Bad(<<>>, <<>>) BY <3>2, Zenon DEF handleTable
    <3> QED BY <3>3, <3>4, Ends
  <2>3. CASE \E p \in Cuts(b) : q = Line(c, s) \o p
    <3>1. PICK p \in Cuts(b) : q = Line(c, s) \o p BY <2>3
    <3>2. p \in Bytes BY DEF Cuts
    <3>3. Len(p) <= d BY <3>1, <3>2, <1>1, <1>3, <1>14, AfterLineCut
    <3>4. Stops(readMany(n, R, p)) BY <3>1, <3>3, <1>9
    <3>5. readMany(n, R, p).end # "none" BY <3>4 DEF Stops
    <3>6. rows > 0
      <4>1. rows = 0 => Cuts(b) = {} BY <1>11, CutEmpty
      <4> QED BY <4>1, <3>1, <1>12
    <3>7. rows * cols = n BY <3>6, <1>10
    <3>8. handleTable(R, (s \o <<Nl>>) \o p) = readMany(n, R, p)
      BY <3>2, <3>5, <3>6, <3>7, <1>7
    <3> QED BY <3>1, <3>2, <3>4, <3>8, <1>5
  <2> QED BY <2>1, <2>2, <2>3, <1>1, <1>3, <1>4, CutValue
<1> QED BY <1>13, <1>14 DEF TakesWithin, c, n, s, b, whole

-----------------------------------------------------------------------------
(* Every value, however deep.                                              *)

\* What each kind of value is made of, and how each is written.
LEMMA SimpleKinds ==
  ASSUME NEW v \in Simple
  PROVE  \/ v = Null
         \/ \E b \in BOOLEAN : v = Bool(b)
         \/ \E s \in InLine : v = String(s)
         \/ \E a \in InLine, m \in InLine :
               v = Error(a, m) /\ \A i \in DOMAIN a : a[i] # " "
         \/ \E n \in Int : v = Integer(n)
         \/ \E data \in Bytes : v = Blob(data) /\ Len(data) <= MaxBlobSize
<1>1. CASE v \in [t : {"null"}] BY <1>1 DEF Null
<1>2. CASE v \in [t : {"bool"}, value : BOOLEAN]
  <2>1. v = [t |-> "bool", value |-> v.value] /\ v.value \in BOOLEAN BY <1>2
  <2> QED BY <2>1, Zenon DEF Bool
<1>3. CASE v \in [t : {"string"}, text : InLine] BY <1>3 DEF String
<1>4. CASE v \in [t : {"error"},
                  code : {s \in InLine : \A i \in DOMAIN s : s[i] # " "},
                  message : InLine]
  BY <1>4 DEF Error
<1>5. CASE v \in [t : {"integer"}, int : Int] BY <1>5 DEF Integer
<1>6. CASE v \in [t : {"blob"}, data : {d \in Bytes : Len(d) <= MaxBlobSize}]
  BY <1>6 DEF Blob
<1> QED BY <1>1, <1>2, <1>3, <1>4, <1>5, <1>6 DEF Simple

LEMMA CompoundKinds ==
  ASSUME NEW W, NEW v \in Compound(W)
  PROVE  \/ \E vs \in Seq(W) : v = Array(vs) /\ Len(vs) <= MaxLen
         \/ \E rows \in Nat, cols \in Nat, vs \in Seq(W) :
               v = Table(rows, cols, vs) /\ IsTable(v)
BY DEF Compound, Array, Table

LEMMA Written ==
  ASSUME NEW inner
  PROVE  /\ WriteTo(Null, inner) = Line(NullSign, <<>>)
         /\ \A b : WriteTo(Bool(b), inner) = Line("#", <<IF b THEN "t" ELSE "f">>)
         /\ \A s : WriteTo(String(s), inner) = Line("+", s)
         /\ \A n : WriteTo(Integer(n), inner) = Line(":", Decimal(n))
         /\ \A data : WriteTo(Blob(data), inner)
                        = Line("$", Decimal(Len(data))) \o (data \o <<Nl>>)
         /\ \A vs : WriteTo(Array(vs), inner)
                      = Line("*", Decimal(Len(vs)))
                          \o Joined([i \in DOMAIN vs |-> inner[vs[i]]])
<1>1. WriteTo(Null, inner) = Line(NullSign, <<>>) BY DEF WriteTo, Null
<1>2. ASSUME NEW b PROVE WriteTo(Bool(b), inner) = Line("#", <<IF b THEN "t" ELSE "f">>)
  BY DEF WriteTo, Bool
<1>3. \A s : WriteTo(String(s), inner) = Line("+", s) BY DEF WriteTo, String
<1>5. \A n : WriteTo(Integer(n), inner) = Line(":", Decimal(n)) BY DEF WriteTo, Integer
<1>6. \A data : WriteTo(Blob(data), inner)
                  = Line("$", Decimal(Len(data))) \o (data \o <<Nl>>)
  BY DEF WriteTo, Blob
<1>7. ASSUME NEW vs
      PROVE  WriteTo(Array(vs), inner)
               = Line("*", Decimal(Len(vs)))
                   \o Joined([i \in DOMAIN vs |-> inner[vs[i]]])
  BY DEF WriteTo, Array
<1> QED BY <1>1, <1>2, <1>3, <1>5, <1>6, <1>7

LEMMA WrittenError ==
  ASSUME NEW inner, NEW a, NEW m
  PROVE  WriteTo(Error(a, m), inner) = Line("-", a \o (<<" ">> \o m))
BY DEF WriteTo, Error

LEMMA WrittenTable ==
  ASSUME NEW inner, NEW r, NEW c, NEW vs
  PROVE  WriteTo(Table(r, c, vs), inner)
           = Line("=", Decimal(r) \o (<<",">> \o Decimal(c)))
               \o Joined([i \in DOMAIN vs |-> inner[vs[i]]])
BY DEF WriteTo, Table

UntaggedOf(f) ==
    f = [d \in 0 .. Nesting |->
          Simple \cup (IF d = 0 THEN {} ELSE Compound(f[d - 1]))]

\* The recursive functions Untagged and Texts, level by level.
LEMMA UntaggedDef == UntaggedOf(Untagged)
<1> DEFINE St(x) == Simple \cup Compound(x)
           z == Simple \cup {}
           D(f, n) == f = [i \in 0 .. n |-> IF i = 0 THEN z ELSE St(f[i - 1])]
           S == {n \in Nat : \E f : D(f, n)}
<1> HIDE DEF St, z
<1>1. 0 \in S
  <2>1. D([i \in 0 .. 0 |-> z], 0) OBVIOUS
  <2> QED BY <2>1
<1>2. ASSUME NEW n \in Nat, n \in S PROVE n + 1 \in S
  <2>1. PICK f : D(f, n) BY <1>2
  <2> DEFINE g == [i \in 0 .. n + 1 |-> IF i = n + 1 THEN St(f[n]) ELSE f[i]]
  <2>2. D(g, n + 1) BY <2>1
  <2> HIDE DEF g, D
  <2>3. \E h : D(h, n + 1) BY <2>2
  <2> QED BY <2>3
<1>3. Nat \subseteq S BY <1>1, <1>2, NatInd
<1>4. Nesting \in Nat BY WireAssumption
<1>5. PICK f : D(f, Nesting) BY <1>3, <1>4
<1>6. ASSUME NEW i \in 0 .. Nesting
      PROVE  f[i] = Simple \cup (IF i = 0 THEN {} ELSE Compound(f[i - 1]))
  BY <1>5, Zenon DEF St, z
<1>7. UntaggedOf(f) BY <1>5, <1>6 DEF UntaggedOf
<1>8. \E g : UntaggedOf(g) BY <1>7
<1> QED BY <1>8 DEF Untagged, UntaggedOf

LEMMA UntaggedLevel ==
  /\ Untagged[0] = Simple
  /\ \A d \in 0 .. Nesting : d > 0 => Untagged[d] = Simple \cup Compound(Untagged[d - 1])
  /\ \A d \in 0 .. Nesting : Simple \subseteq Untagged[d]
<1>1. Nesting \in Nat BY WireAssumption
<1> DEFINE U == Untagged
<1>2. \A d \in 0 .. Nesting :
        U[d] = Simple \cup (IF d = 0 THEN {} ELSE Compound(U[d - 1]))
  BY UntaggedDef DEF UntaggedOf
<1> HIDE DEF U
<1>3. U[0] = Simple BY <1>1, <1>2
<1>4. \A d \in 0 .. Nesting : d > 0 => U[d] = Simple \cup Compound(U[d - 1])
  BY <1>1, <1>2
<1>5. \A d \in 0 .. Nesting : Simple \subseteq U[d] BY <1>2
<1> QED BY <1>3, <1>4, <1>5 DEF U

TextsOf(f) ==
    f = [d \in 0 .. Nesting |->
          [v \in Untagged[d] |-> WriteTo(v, IF d = 0 THEN <<>> ELSE f[d - 1])]]

LEMMA TextsDef == TextsOf(Texts)
<1> DEFINE St(x, i) == [v \in Untagged[i] |-> WriteTo(v, x)]
           D(f, n) == f = [i \in 0 .. n |-> St(IF i = 0 THEN <<>> ELSE f[i - 1], i)]
           S == {n \in Nat : \E f : D(f, n)}
<1> HIDE DEF St
<1>1. 0 \in S
  <2>1. D([i \in 0 .. 0 |-> St(<<>>, 0)], 0) OBVIOUS
  <2> QED BY <2>1
<1>2. ASSUME NEW n \in Nat, n \in S PROVE n + 1 \in S
  <2>1. PICK f : D(f, n) BY <1>2
  <2> DEFINE g == [i \in 0 .. n + 1 |-> IF i = n + 1 THEN St(f[n], n + 1) ELSE f[i]]
  <2>2. D(g, n + 1) BY <2>1
  <2> HIDE DEF g, D
  <2>3. \E h : D(h, n + 1) BY <2>2
  <2> QED BY <2>3
<1>3. Nat \subseteq S BY <1>1, <1>2, NatInd
<1>4. Nesting \in Nat BY WireAssumption
<1>5. PICK f : D(f, Nesting) BY <1>3, <1>4
<1>7. TextsOf(f) BY <1>5 DEF TextsOf, St
<1>8. \E g : TextsOf(g) BY <1>7
<1> QED BY <1>8 DEF Texts, TextsOf

LEMMA TextsLevel ==
  ASSUME NEW d \in 0 .. Nesting, NEW v \in Untagged[d]
  PROVE  Texts[d][v] = WriteTo(v, IF d = 0 THEN <<>> ELSE Texts[d - 1])
<1> DEFINE T == Texts
<1>1. T[d] = [w \in Untagged[d] |-> WriteTo(w, IF d = 0 THEN <<>> ELSE T[d - 1])]
  BY TextsDef DEF TextsOf
<1> HIDE DEF T
<1>2. T[d][v] = WriteTo(v, IF d = 0 THEN <<>> ELSE T[d - 1]) BY <1>1, Zenon
<1> QED BY <1>2 DEF T

\* A value of the lowest level is read, whatever the reader inside.
LEMMA SimpleReads ==
  ASSUME NEW v \in Simple, NEW inner, NEW canBeTag, NEW R
  PROVE  TakesText(canBeTag, R, WriteTo(v, inner), v)
<1>1. CASE v = Null BY <1>1, NullReads, Written
<1>2. CASE \E b \in BOOLEAN : v = Bool(b)
  <2>1. PICK b \in BOOLEAN : v = Bool(b) BY <1>2
  <2>2. TakesText(canBeTag, R, Line("#", <<IF b THEN "t" ELSE "f">>), Bool(b))
    BY BoolReads
  <2>3. WriteTo(Bool(b), inner) = Line("#", <<IF b THEN "t" ELSE "f">>)
    BY Written, Zenon
  <2> QED BY <2>1, <2>2, <2>3, Zenon
<1>3. CASE \E s \in InLine : v = String(s) BY <1>3, StringReads, Written
<1>4. CASE \E a \in InLine, m \in InLine :
             v = Error(a, m) /\ \A i \in DOMAIN a : a[i] # " "
  <2>1. PICK a \in InLine, m \in InLine :
               v = Error(a, m) /\ \A i \in DOMAIN a : a[i] # " "
    BY <1>4
  <2>2. TakesText(canBeTag, R, Line("-", a \o (<<" ">> \o m)), Error(a, m))
    BY <2>1, ErrorReads
  <2>3. WriteTo(Error(a, m), inner) = Line("-", a \o (<<" ">> \o m))
    BY WrittenError
  <2> QED BY <2>1, <2>2, <2>3, Zenon
<1>5. CASE \E n \in Int : v = Integer(n) BY <1>5, IntegerReads, Written
<1>6. CASE \E data \in Bytes : v = Blob(data) /\ Len(data) <= MaxBlobSize
  <2>1. PICK data \in Bytes : v = Blob(data) /\ Len(data) <= MaxBlobSize BY <1>6
  <2>2. TakesText(canBeTag, R, Line("$", Decimal(Len(data))) \o (data \o <<Nl>>),
                  Blob(data))
    BY <2>1, BlobReads
  <2>3. WriteTo(Blob(data), inner) = Line("$", Decimal(Len(data))) \o (data \o <<Nl>>)
    BY Written, Zenon
  <2> QED BY <2>1, <2>2, <2>3, Zenon
<1> QED BY <1>1, <1>2, <1>3, <1>4, <1>5, <1>6, SimpleKinds

LEMMA LineSome ==
  ASSUME NEW c \in Byte, NEW s \in Bytes, NEW b \in Bytes
  PROVE  /\ Line(c, s) \in Bytes \ {<<>>} /\ Line(c, s) \o b \in Bytes \ {<<>>}
BY LineType, LineHead

\* Its text holds a byte, and is one that readValue takes.
LEMMA SimpleText ==
  ASSUME NEW v \in Simple, NEW inner
  PROVE  WriteTo(v, inner) \in Bytes \ {<<>>}
<1>1. {NullSign, "#", "+", "-", ":", "$"} \subseteq Byte BY Literals DEF Sigils
<1>2. <<>> \in Bytes BY NumberEmpty
<1>3. CASE v = Null
  <2>1. NullSign \in Byte BY <1>1
  <2>2. WriteTo(v, inner) = Line(NullSign, <<>>) BY <1>3, Written
  <2> QED BY <2>1, <2>2, <1>2, LineSome
<1>4. CASE \E b \in BOOLEAN : v = Bool(b)
  <2>1. PICK b \in BOOLEAN : v = Bool(b) BY <1>4
  <2> DEFINE x == IF b THEN "t" ELSE "f"
  <2>2. x \in Byte BY Literals
  <2>3. WriteTo(v, inner) = Line("#", <<x>>) BY <2>1, Written, Zenon
  <2> HIDE DEF x
  <2>4. <<x>> \in Bytes BY <2>2, OneByte
  <2> QED BY <2>3, <2>4, <1>1, <1>2, LineSome
<1>5. CASE \E s \in InLine : v = String(s)
  <2>1. PICK s \in InLine : v = String(s) BY <1>5
  <2>2. s \in Bytes BY DEF InLine
  <2>3. WriteTo(v, inner) = Line("+", s) BY <2>1, Written, Zenon
  <2> QED BY <2>2, <2>3, <1>1, <1>2, LineSome
<1>6. CASE \E a \in InLine, m \in InLine :
             v = Error(a, m) /\ \A i \in DOMAIN a : a[i] # " "
  <2>1. PICK a \in InLine, m \in InLine : v = Error(a, m) BY <1>6
  <2>2. " " \in Byte BY Literals
  <2>3. a \in Bytes /\ m \in Bytes BY DEF InLine
  <2>4. a \o (<<" ">> \o m) \in Bytes BY <2>2, <2>3, OneByte, Concat
  <2>5. WriteTo(v, inner) = Line("-", a \o (<<" ">> \o m))
    BY <2>1, WrittenError, Zenon
  <2> QED BY <2>4, <2>5, <1>1, <1>2, LineSome
<1>7. CASE \E n \in Int : v = Integer(n)
  <2>1. PICK n \in Int : v = Integer(n) BY <1>7
  <2>2. Decimal(n) \in Bytes BY DecimalReads DEF InLine
  <2>3. WriteTo(v, inner) = Line(":", Decimal(n)) BY <2>1, Written
  <2> QED BY <2>2, <2>3, <1>1, <1>2, LineSome
<1>8. CASE \E data \in Bytes : v = Blob(data) /\ Len(data) <= MaxBlobSize
  <2>1. PICK data \in Bytes : v = Blob(data) BY <1>8
  <2>2. Len(data) \in Int BY DEF Bytes
  <2>3. Decimal(Len(data)) \in Bytes BY <2>2, DecimalReads DEF InLine
  <2>4. data \o <<Nl>> \in Bytes BY Literals, OneByte, Concat
  <2>5. WriteTo(v, inner) = Line("$", Decimal(Len(data))) \o (data \o <<Nl>>)
    BY <2>1, Written
  <2> QED BY <2>3, <2>4, <2>5, <1>1, LineSome
<1> QED BY <1>3, <1>4, <1>5, <1>6, <1>7, <1>8, SimpleKinds

\* The texts of the values inside.
LEMMA InnerTexts ==
  ASSUME NEW W, NEW inner, \A w \in W : inner[w] \in Bytes, NEW vs \in Seq(W)
  PROVE  LET ts == [i \in DOMAIN vs |-> inner[vs[i]]]
         IN  /\ ts \in Seq(Bytes) /\ Len(ts) = Len(vs)
             /\ \A i \in 1 .. Len(ts) : ts[i] = inner[vs[i]] /\ vs[i] \in W
<1>1. DOMAIN vs = 1 .. Len(vs) /\ Len(vs) \in Nat /\ \A i \in 1 .. Len(vs) : vs[i] \in W
  OBVIOUS
<1> QED BY <1>1

LEMMA CompoundText ==
  ASSUME NEW W, NEW inner, \A w \in W : inner[w] \in Bytes, NEW v \in Compound(W)
  PROVE  WriteTo(v, inner) \in Bytes \ {<<>>}
<1>1. {"*", "="} \subseteq Byte BY Literals DEF Sigils
<1>2. ASSUME NEW vs \in Seq(W)
      PROVE  Joined([i \in DOMAIN vs |-> inner[vs[i]]]) \in Bytes
  BY InnerTexts, JoinedType
<1>3. CASE \E vs \in Seq(W) : v = Array(vs)
  <2>1. PICK vs \in Seq(W) : v = Array(vs) BY <1>3
  <2>2. Len(vs) \in Int OBVIOUS
  <2>3. Decimal(Len(vs)) \in Bytes BY <2>2, DecimalReads DEF InLine
  <2>4. WriteTo(v, inner) = Line("*", Decimal(Len(vs)))
                              \o Joined([i \in DOMAIN vs |-> inner[vs[i]]])
    BY <2>1, Written
  <2> QED BY <2>3, <2>4, <1>1, <1>2, LineSome
<1>4. CASE \E rows \in Nat, cols \in Nat, vs \in Seq(W) :
             v = Table(rows, cols, vs) /\ IsTable(v)
  <2>1. PICK rows \in Nat, cols \in Nat, vs \in Seq(W) : v = Table(rows, cols, vs)
    BY <1>4
  <2>2. rows \in Int /\ cols \in Int OBVIOUS
  <2>3. Decimal(rows) \o (<<",">> \o Decimal(cols)) \in Bytes
    BY <2>2, SizeLine DEF InLine
  <2>4. WriteTo(v, inner) = Line("=", Decimal(rows) \o (<<",">> \o Decimal(cols)))
                              \o Joined([i \in DOMAIN vs |-> inner[vs[i]]])
    BY <2>1, WrittenTable, Zenon
  <2> QED BY <2>3, <2>4, <1>1, <1>2, LineSome
<1> QED BY <1>3, <1>4, CompoundKinds

\* The text of a value of any level.
LEMMA TextsType ==
  \A d \in 0 .. Nesting : \A v \in Untagged[d] : Texts[d][v] \in Bytes \ {<<>>}
<1> DEFINE P(d) == \A v \in Untagged[d] : Texts[d][v] \in Bytes \ {<<>>}
           S == {d \in Nat : d <= Nesting => P(d)}
<1>1. Nesting \in Nat BY WireAssumption
<1>2. 0 \in S
  <2>1. 0 \in 0 .. Nesting BY <1>1
  <2>2. \A v \in Untagged[0] : v \in Simple /\ Texts[0][v] = WriteTo(v, <<>>)
    BY <2>1, TextsLevel, UntaggedLevel
  <2> QED BY <2>2, SimpleText
<1>3. ASSUME NEW d \in Nat, d \in S, d + 1 <= Nesting PROVE P(d + 1)
  <2>1. d + 1 \in 0 .. Nesting /\ d + 1 > 0 /\ d + 1 # 0 /\ (d + 1) - 1 = d
    BY <1>1, <1>3
  <2>2. Untagged[d + 1] = Simple \cup Compound(Untagged[d])
    BY <2>1, UntaggedLevel
  <2>3. \A w \in Untagged[d] : Texts[d][w] \in Bytes BY <1>1, <1>3
  <2>4. \A v \in Untagged[d + 1] : Texts[d + 1][v] = WriteTo(v, Texts[d])
    BY <2>1, TextsLevel
  <2> QED BY <2>2, <2>3, <2>4, SimpleText, CompoundText
<1> HIDE DEF P
<1>4. \A d \in Nat : d \in S => d + 1 \in S BY <1>1, <1>3
<1>5. Nat \subseteq S BY <1>2, <1>4, NatInd
<1>6. \A d \in 0 .. Nesting : P(d) BY <1>1, <1>5
<1> QED BY <1>6 DEF P

InsideOf(f, d) ==
    f = [k \in 0 .. d |-> [txt \in Bytes |->
          IF k = 0 THEN Ended ELSE readValue(txt, FALSE, f[k - 1])]]

\* The recursive function of the reader: its level d reads what nests at most
\* d deep, since every value takes a byte.
LEMMA InsideDef ==
  ASSUME NEW d \in Nat
  PROVE  \E f : InsideOf(f, d) /\ Inside(d) = f[d]
<1> DEFINE St(x, i) == [txt \in Bytes |-> IF i = 0 THEN Ended ELSE readValue(txt, FALSE, x)]
           D(f, n) == f = [i \in 0 .. n |-> St(f[i - 1], i)]
           S == {n \in Nat : \E f : D(f, n)}
<1>0. \A x, y : St(x, 0) = St(y, 0) OBVIOUS
<1> HIDE DEF St
<1>1. 0 \in S
  <2> DEFINE g == [i \in 0 .. 0 |-> St(<<>>, 0)]
  <2>1. \A i \in 0 .. 0 : St(g[i - 1], i) = St(<<>>, 0) BY <1>0
  <2>2. D(g, 0) BY <2>1
  <2> HIDE DEF g, D
  <2> QED BY <2>2
<1>2. ASSUME NEW n \in Nat, n \in S PROVE n + 1 \in S
  <2>1. PICK f : D(f, n) BY <1>2
  <2> DEFINE g == [i \in 0 .. n + 1 |-> IF i = n + 1 THEN St(f[n], n + 1) ELSE f[i]]
  <2>2. \A i \in 0 .. n + 1 : g[i] = St(g[i - 1], i)
    <3> TAKE i \in 0 .. n + 1
    <3>1. CASE i = n + 1
      <4>1. n \in 0 .. n + 1 /\ i - 1 = n /\ n # n + 1 /\ n + 1 \in 0 .. n + 1 BY <3>1
      <4>2. g[i] = St(f[n], n + 1) /\ g[n] = f[n] BY <3>1, <4>1
      <4> QED BY <3>1, <4>1, <4>2
    <3>2. CASE i # n + 1 /\ i # 0
      <4>1. i \in 0 .. n /\ i - 1 \in 0 .. n BY <3>2
      <4>2. g[i] = f[i] /\ g[i - 1] = f[i - 1] BY <4>1
      <4>3. f[i] = St(f[i - 1], i) BY <4>1, <2>1
      <4> QED BY <4>2, <4>3
    <3>3. CASE i = 0
      <4>1. g[0] = f[0] /\ f[0] = St(f[0 - 1], 0) BY <2>1
      <4> QED BY <3>3, <4>1, <1>0
    <3> QED BY <3>1, <3>2, <3>3
  <2>3. D(g, n + 1)
    <3>1. g = [i \in 0 .. n + 1 |-> g[i]] OBVIOUS
    <3> HIDE DEF g
    <3> QED BY <2>2, <3>1
  <2> HIDE DEF g, D
  <2>4. \E h : D(h, n + 1) BY <2>3
  <2> QED BY <2>4
<1>3. Nat \subseteq S BY <1>1, <1>2, NatInd
<1>4. \E f : InsideOf(f, d) BY <1>3 DEF St, InsideOf
<1> QED BY <1>4 DEF Inside, InsideOf

Layer(R) == [t \in Bytes |-> readValue(t, FALSE, R)]

LEMMA InsideLevels ==
  ASSUME NEW d \in Nat, NEW f, InsideOf(f, d)
  PROVE  /\ f[0] = [s \in Bytes |-> Ended]
         /\ \A k \in 1 .. d : \A j : j = k - 1 =>
              f[k] = Layer(f[j])
<1>1. \A k \in 0 .. d : f[k] = [s \in Bytes |-> IF k = 0 THEN Ended
                                               ELSE readValue(s, FALSE, f[k - 1])]
  BY DEF InsideOf
<1>2. 0 \in 0 .. d /\ \A k \in 1 .. d : k \in 0 .. d /\ k # 0 OBVIOUS
<1>3. f[0] = [s \in Bytes |-> Ended] BY <1>1, <1>2
<1>4. ASSUME NEW k \in 1 .. d, NEW j, j = k - 1
      PROVE  f[k] = Layer(f[j])
  <2>1. f[k] = Layer(f[k - 1]) BY <1>1, <1>2 DEF Layer
  <2> QED BY <2>1, <1>4, Zenon
<1> QED BY <1>3, <1>4

LEMMA InsideStep ==
  /\ \A t \in Bytes : Inside(0)[t] = Ended
  /\ \A d \in Nat, t \in Bytes : Inside(d + 1)[t] = readValue(t, FALSE, Inside(d))
<1>2. \A t \in Bytes : Inside(0)[t] = Ended
  <2>1. PICK f : InsideOf(f, 0) /\ Inside(0) = f[0] BY InsideDef
  <2>2. f[0] = [s \in Bytes |-> Ended] BY <2>1, InsideLevels
  <2> QED BY <2>1, <2>2
<1>3. ASSUME NEW d \in Nat, NEW t \in Bytes
      PROVE  Inside(d + 1)[t] = readValue(t, FALSE, Inside(d))
  <2>1. PICK f : InsideOf(f, d) /\ Inside(d) = f[d] BY InsideDef
  <2>2. d + 1 \in Nat /\ d + 1 \in 1 .. d + 1 /\ d = (d + 1) - 1 OBVIOUS
  <2>3. PICK g : InsideOf(g, d + 1) /\ Inside(d + 1) = g[d + 1] BY <2>2, InsideDef
  <2> DEFINE S == {k \in Nat : k <= d => g[k] = f[k]}
  <2>4. 0 \in S
    <3>1. f[0] = [s \in Bytes |-> Ended] BY <2>1, InsideLevels
    <3>2. g[0] = [s \in Bytes |-> Ended] BY <2>2, <2>3, InsideLevels
    <3> QED BY <3>1, <3>2
  <2>5. ASSUME NEW k \in Nat, k \in S, k + 1 <= d PROVE g[k + 1] = f[k + 1]
    <3>1. k + 1 \in 1 .. d /\ k + 1 \in 1 .. d + 1 /\ k = (k + 1) - 1 /\ g[k] = f[k]
      BY <2>5
    <3>2. f[k + 1] = Layer(f[k])
      BY <3>1, <2>1, InsideLevels
    <3>3. g[k + 1] = Layer(g[k])
      BY <3>1, <2>2, <2>3, InsideLevels
    <3> QED BY <3>1, <3>2, <3>3
  <2>6. \A k \in Nat : k \in S => k + 1 \in S BY <2>5
  <2>7. Nat \subseteq S BY <2>4, <2>6, NatInd
  <2>8. g[d] = f[d] BY <2>7
  <2>9. g[d + 1] = Layer(g[d])
    BY <2>2, <2>3, InsideLevels
  <2>10. Layer(g[d])[t] = readValue(t, FALSE, g[d]) BY DEF Layer
  <2> QED BY <2>1, <2>3, <2>8, <2>9, <2>10, Zenon
<1> QED BY <1>2, <1>3

LEMMA TextWithin ==
  ASSUME NEW canBeTag, NEW R, NEW d, NEW t, NEW v, TakesText(canBeTag, R, t, v)
  PROVE  TakesWithin(canBeTag, R, d, t, v)
BY Zenon DEF TakesText, TakesWithin

\* From one level of nesting to the next.
LEMMA CompoundReads ==
  ASSUME NEW canBeTag, NEW d \in Nat, NEW R, NEW W, NEW inner,
         \A w \in W : inner[w] \in Bytes,
         \A w \in W : ReadsText(R, d, inner[w], w),
         NEW v \in Compound(W)
  PROVE  TakesWithin(canBeTag, R, d + 1, WriteTo(v, inner), v)
<1>1. ASSUME NEW vs \in Seq(W), NEW ts, ts = [i \in DOMAIN vs |-> inner[vs[i]]]
      PROVE  /\ ts \in Seq(Bytes) /\ Len(vs) = Len(ts)
             /\ \A i \in 1 .. Len(ts) : ReadsText(R, d, ts[i], vs[i])
  <2>1. /\ ts \in Seq(Bytes) /\ Len(ts) = Len(vs)
        /\ \A i \in 1 .. Len(ts) : ts[i] = inner[vs[i]] /\ vs[i] \in W
    BY <1>1, InnerTexts
  <2> QED BY <2>1
<1>2. CASE \E vs \in Seq(W) : v = Array(vs) /\ Len(vs) <= MaxLen
  <2>1. PICK vs \in Seq(W) : v = Array(vs) /\ Len(vs) <= MaxLen BY <1>2
  <2>2. PICK ts : ts = [i \in DOMAIN vs |-> inner[vs[i]]] OBVIOUS
  <2>3. /\ ts \in Seq(Bytes) /\ Len(vs) = Len(ts)
        /\ \A i \in 1 .. Len(ts) : ReadsText(R, d, ts[i], vs[i])
    BY <2>2, <1>1
  <2>4. WriteTo(v, inner) = Line("*", Decimal(Len(vs))) \o Joined(ts)
    BY <2>1, <2>2, Written
  <2>5. TakesWithin(canBeTag, R, d + 1,
                    Line("*", Decimal(Len(ts))) \o Joined(ts), Array(vs))
    <3>1. Len(ts) <= MaxLen BY <2>1, <2>3
    <3> QED BY <2>3, <3>1, ArrayReads
  <2> QED BY <2>1, <2>3, <2>4, <2>5
<1>3. CASE \E rows \in Nat, cols \in Nat, vs \in Seq(W) :
             v = Table(rows, cols, vs) /\ IsTable(v)
  <2>1. PICK rows \in Nat, cols \in Nat, vs \in Seq(W) :
               v = Table(rows, cols, vs) /\ IsTable(v)
    BY <1>3
  <2>2. PICK ts : ts = [i \in DOMAIN vs |-> inner[vs[i]]] OBVIOUS
  <2>3. /\ ts \in Seq(Bytes) /\ Len(vs) = Len(ts)
        /\ \A i \in 1 .. Len(ts) : ReadsText(R, d, ts[i], vs[i])
    BY <2>2, <1>1
  <2>4. WriteTo(v, inner)
          = Line("=", Decimal(rows) \o (<<",">> \o Decimal(cols))) \o Joined(ts)
    BY <2>1, <2>2, WrittenTable
  <2>5. TakesWithin(canBeTag, R, d + 1,
          Line("=", Decimal(rows) \o (<<",">> \o Decimal(cols))) \o Joined(ts),
          Table(rows, cols, vs))
    <3>1. IsTable(Table(rows, cols, vs)) BY <2>1, Zenon
    <3> QED BY <3>1, <2>3, TableReads
  <2> QED BY <2>1, <2>4, <2>5
<1> QED BY <1>2, <1>3, CompoundKinds

\* Inside a text of at most d bytes every value is read.
ReadsInside(d) ==
    \A k \in 0 .. Nesting : \A v \in Untagged[k] :
        ReadsText(Inside(d), d, Texts[k][v], v)

LEMMA ValueReads ==
  ASSUME NEW canBeTag, NEW d \in Nat, ReadsInside(d),
         NEW k \in 0 .. Nesting, NEW v \in Untagged[k]
  PROVE  TakesWithin(canBeTag, Inside(d), d + 1, Texts[k][v], v)
<1>1. Nesting \in Nat BY WireAssumption
<1> DEFINE inner == IF k = 0 THEN <<>> ELSE Texts[k - 1]
           R == Inside(d)
<1>2. Texts[k][v] = WriteTo(v, inner) BY TextsLevel
<1>3. CASE v \in Simple
  <2> HIDE DEF inner, R
  <2>1. TakesText(canBeTag, R, WriteTo(v, inner), v) BY <1>3, SimpleReads
  <2>2. TakesWithin(canBeTag, R, d + 1, WriteTo(v, inner), v) BY <2>1, TextWithin
  <2> QED BY <2>2, <1>2 DEF R
<1>4. CASE v \notin Simple
  <2>1. k > 0 /\ v \in Compound(Untagged[k - 1]) /\ k - 1 \in 0 .. Nesting
    <3>1. k # 0 BY <1>4, UntaggedLevel
    <3>2. k > 0 /\ k - 1 \in 0 .. Nesting BY <3>1, <1>1
    <3> QED BY <3>2, <1>4, UntaggedLevel
  <2>2. inner = Texts[k - 1] BY <2>1
  <2>3. \A w \in Untagged[k - 1] : inner[w] \in Bytes /\ ReadsText(R, d, inner[w], w)
    BY <2>1, <2>2, TextsType DEF ReadsInside
  <2> HIDE DEF inner, R
  <2>4. TakesWithin(canBeTag, R, d + 1, WriteTo(v, inner), v)
    BY <2>1, <2>3, CompoundReads
  <2> QED BY <2>4, <1>2 DEF R
<1> QED BY <1>3, <1>4

\* By induction on the size of the text.
LEMMA InsideReads == \A d \in Nat : ReadsInside(d)
<1> DEFINE S == {d \in Nat : ReadsInside(d)}
<1>1. 0 \in S
  <2> SUFFICES ASSUME NEW k \in 0 .. Nesting, NEW v \in Untagged[k]
               PROVE  ReadsText(Inside(0), 0, Texts[k][v], v)
    BY DEF ReadsInside
  <2> DEFINE t == Texts[k][v]
  <2>1. t \in Bytes /\ t # <<>> BY TextsType
  <2> HIDE DEF t
  <2>2. ASSUME NEW u \in Bytes, Len(t \o u) <= 0 PROVE FALSE
    <3>1. Len(t \o u) = Len(t) + Len(u) /\ Len(t) \in Nat \ {0} /\ Len(u) \in Nat
      BY <2>1, Concat, EmptySeq DEF Bytes
    <3> QED BY <3>1, <2>2
  <2>3. \A q \in Cuts(t) : Stops(Inside(0)[q]) BY InsideStep, Ends DEF Cuts
  <2> QED BY <2>2, <2>3 DEF ReadsText, t
<1>2. ASSUME NEW d \in Nat, d \in S PROVE d + 1 \in S
  <2> SUFFICES ASSUME NEW k \in 0 .. Nesting, NEW v \in Untagged[k]
               PROVE  ReadsText(Inside(d + 1), d + 1, Texts[k][v], v)
    BY DEF ReadsInside
  <2> DEFINE t == Texts[k][v]
  <2>1. t \in Bytes BY TextsType
  <2>2. ReadsInside(d) BY <1>2
  <2>3. TakesWithin(FALSE, Inside(d), d + 1, t, v) BY <2>2, ValueReads, Zenon
  <2> HIDE DEF t
  <2>4. \A s \in Bytes : Inside(d + 1)[s] = readValue(s, FALSE, Inside(d))
    BY InsideStep, Zenon
  <2>5. \A u \in Bytes : t \o u \in Bytes BY <2>1, Concat
  <2>6. \A q \in Cuts(t) : q \in Bytes BY DEF Cuts
  <2>7. \A u \in Bytes : Len(t \o u) <= d + 1 => Inside(d + 1)[t \o u] = Read(v, u)
    BY <2>3, <2>4, <2>5, Zenon DEF TakesWithin
  <2>8. \A q \in Cuts(t) : Len(q) <= d + 1 => Stops(Inside(d + 1)[q])
    BY <2>3, <2>4, <2>6, Zenon DEF TakesWithin
  <2> QED BY <2>7, <2>8, Zenon DEF ReadsText, t
<1>3. Nat \subseteq S BY <1>1, <1>2, NatInd
<1> QED BY <1>3

LEMMA TagRead ==
  ASSUME NEW R, NEW g \in InLine, NEW w \in Bytes
  PROVE  /\ readValue(Line("@", g) \o w, TRUE, R) = handleTag(TRUE, R, (g \o <<Nl>>) \o w)
         /\ \A v, u : R[w] = Read(v, u) => handleTag(TRUE, R, (g \o <<Nl>>) \o w)
                                             = Read(Tagged(v, g), u)
         /\ R[w].end # "none" => handleTag(TRUE, R, (g \o <<Nl>>) \o w) = R[w]
<1>1. g \in Bytes /\ "@" \in Sigils BY DEF InLine, Sigils
<1>2. readValue(Line("@", g) \o w, TRUE, R) = handleTag(TRUE, R, (g \o <<Nl>>) \o w)
  <2> DEFINE canBeTag == TRUE
  <2> HIDE DEF canBeTag
  <2>1. readValue(Line("@", g) \o w, canBeTag, R)
          = handleTag(canBeTag, R, (g \o <<Nl>>) \o w)
    BY <1>1, LineRead
  <2> QED BY <2>1, Zenon DEF canBeTag
<1> DEFINE x == (g \o <<Nl>>) \o w
<1>3. ReadBytes(x).ok /\ ReadBytes(x).line = g /\ ReadBytes(x).rest = w
  BY LineFields
<1> HIDE DEF x
<1>4. ASSUME NEW v, NEW u, R[w] = Read(v, u)
      PROVE  handleTag(TRUE, R, x) = Read(Tagged(v, g), u)
  <2>1. R[w].end = "none" /\ R[w].val = v /\ R[w].rest = u BY <1>4, ReadFields
  <2> QED BY <2>1, <1>3, Zenon DEF handleTag
<1>5. R[w].end # "none" => handleTag(TRUE, R, x) = R[w]
  BY <1>3, Zenon DEF handleTag
<1> QED BY <1>2, <1>4, <1>5, Zenon DEF x

\* A tag, and the value after it.
LEMMA TagReads ==
  ASSUME NEW d \in Nat, NEW R, NEW t \in Bytes, NEW v, NEW g \in InLine,
         ReadsText(R, d, t, v)
  PROVE  TakesWithin(TRUE, R, d + 1, Line("@", g) \o t, Tagged(v, g))
<1> DEFINE c == "@"
<1>1. c \in Byte BY Literals DEF Sigils
<1>2. g \in Bytes BY DEF InLine
<1>3. \A w \in Bytes :
        /\ readValue(Line(c, g) \o w, TRUE, R) = handleTag(TRUE, R, (g \o <<Nl>>) \o w)
        /\ \A x, u : R[w] = Read(x, u) => handleTag(TRUE, R, (g \o <<Nl>>) \o w)
                                            = Read(Tagged(x, g), u)
        /\ R[w].end # "none" => handleTag(TRUE, R, (g \o <<Nl>>) \o w) = R[w]
  BY TagRead, Zenon
<1>4. \A q : q # <<>> /\ Head(q) = c => readValue(q, TRUE, R) = handleTag(TRUE, R, Tail(q))
  <2> DEFINE canBeTag == TRUE
  <2> HIDE DEF canBeTag
  <2>1. \A q : q # <<>> /\ Head(q) = c
                 => readValue(q, canBeTag, R) = handleTag(canBeTag, R, Tail(q))
    BY Dispatch
  <2> QED BY <2>1, Zenon DEF canBeTag
<1> HIDE DEF c
<1>5. ASSUME NEW u \in Bytes, Len((Line(c, g) \o t) \o u) <= d + 1
      PROVE  readValue((Line(c, g) \o t) \o u, TRUE, R) = Read(Tagged(v, g), u)
  <2>1. /\ (Line(c, g) \o t) \o u = Line(c, g) \o (t \o u) /\ t \o u \in Bytes
        /\ \A e \in Nat : Len((Line(c, g) \o t) \o u) <= e + 1 => Len(t \o u) <= e
    BY <1>1, <1>2, AfterLine
  <2>2. Len(t \o u) <= d BY <2>1, <1>5
  <2>3. R[t \o u] = Read(v, u) BY <2>2 DEF ReadsText
  <2> QED BY <2>1, <2>3, <1>3, Zenon
<1>6. ASSUME NEW q \in Cuts(Line(c, g) \o t), Len(q) <= d + 1
      PROVE  Stops(readValue(q, TRUE, R))
  <2>1. CASE q = <<>> BY <2>1, StopsEmpty, Zenon
  <2>2. CASE q # <<>> /\ Head(q) = c /\ Tail(q) \in Cuts(g \o <<Nl>>)
    <3> DEFINE w == Tail(q)
    <3>1. ~ReadBytes(w).ok BY <2>2, CutLine, NoLineFields
    <3>2. readValue(q, TRUE, R) = handleTag(TRUE, R, w) BY <2>2, <1>4, Zenon
    <3> HIDE DEF w
    <3>3. handleTag(TRUE, R, w) = Ended BY <3>1, Zenon DEF handleTag
    <3> QED BY <3>2, <3>3, Ends, Zenon
  <2>3. CASE \E p \in Cuts(t) : q = Line(c, g) \o p
    <3>1. PICK p \in Cuts(t) : q = Line(c, g) \o p BY <2>3
    <3>2. p \in Bytes BY DEF Cuts
    <3>3. Len(p) <= d BY <3>1, <3>2, <1>1, <1>2, <1>6, AfterLineCut
    <3>4. Stops(R[p]) BY <3>1, <3>3 DEF ReadsText
    <3>5. R[p].end # "none" BY <3>4 DEF Stops
    <3> QED BY <3>1, <3>2, <3>4, <3>5, <1>3, Zenon
  <2> QED BY <2>1, <2>2, <2>3, <1>1, <1>2, CutValue
<1> QED BY <1>5, <1>6, Zenon DEF TakesWithin, c

\* Reader.Read reads back what WriteTo wrote, and stops where the value ends,
\* whatever comes next; of a text that is cut anywhere it takes nothing for a
\* value, and leaves nothing that could be taken for one.
THEOREM NextReads ==
  ASSUME NEW v \in Values
  PROVE  /\ Text(v) \in Bytes \ {<<>>}
         /\ \A u \in Bytes : ReadNext(Text(v) \o u) = Read(v, u)
         /\ \A q \in Cuts(Text(v)) : Stops(ReadNext(q))
<1>1. Nesting \in Nat /\ Nesting \in 0 .. Nesting BY WireAssumption
<1>2. /\ Text(v) \in Bytes \ {<<>>}
      /\ \A d \in Nat : TakesWithin(TRUE, Inside(d), d + 1, Text(v), v)
  <2>1. CASE v \in Untagged[Nesting]
    <3>1. v.t # "tagged"
      <4>1. v \in Simple \/ \E k \in 0 .. Nesting : v \in Compound(Untagged[k])
        <5>1. CASE Nesting = 0 BY <5>1, <2>1, <1>1, UntaggedLevel
        <5>2. CASE Nesting > 0
          <6>1. v \in Simple \cup Compound(Untagged[Nesting - 1])
            BY <5>2, <2>1, <1>1, UntaggedLevel
          <6>2. Nesting - 1 \in 0 .. Nesting BY <5>2, <1>1
          <6> QED BY <6>1, <6>2
        <5> QED BY <5>1, <5>2, <1>1
      <4>2. CASE v \in Simple BY <4>2 DEF Simple
      <4>3. CASE \E k \in 0 .. Nesting : v \in Compound(Untagged[k])
        BY <4>3 DEF Compound
      <4> QED BY <4>1, <4>2, <4>3
    <3>2. Text(v) = Texts[Nesting][v] BY <3>1 DEF Text
    <3>3. \A d \in Nat : TakesWithin(TRUE, Inside(d), d + 1, Texts[Nesting][v], v)
      BY <1>1, <2>1, ValueReads, InsideReads, Zenon
    <3> QED BY <1>1, <2>1, <3>2, <3>3, TextsType, Zenon
  <2>2. CASE v \in [t : {"tagged"}, tag : InLine, of : Untagged[Nesting]]
    <3> DEFINE w == v.of
               g == v.tag
    <3>1. v = Tagged(w, g) /\ v.t = "tagged" /\ w \in Untagged[Nesting] /\ g \in InLine
      BY <2>2 DEF Tagged
    <3> HIDE DEF w, g
    <3>2. Text(v) = Line("@", g) \o Texts[Nesting][w] BY <3>1 DEF Text, w, g
    <3>3. Texts[Nesting][w] \in Bytes BY <1>1, <3>1, TextsType
    <3>4. \A d \in Nat : ReadsText(Inside(d), d, Texts[Nesting][w], w)
      BY <1>1, <3>1, InsideReads DEF ReadsInside
    <3>5. \A d \in Nat : TakesWithin(TRUE, Inside(d), d + 1,
                                     Line("@", g) \o Texts[Nesting][w], Tagged(w, g))
      BY <3>1, <3>3, <3>4, TagReads, Zenon
    <3>6. Line("@", g) \o Texts[Nesting][w] \in Bytes \ {<<>>}
      <4>1. "@" \in Byte /\ g \in Bytes BY <3>1, Literals DEF Sigils, InLine
      <4> QED BY <4>1, <3>3, LineSome
    <3> QED BY <3>1, <3>2, <3>5, <3>6, Zenon
  <2> QED BY <2>1, <2>2 DEF Values
<1> DEFINE t == Text(v)
<1>3. t \in Bytes BY <1>2
<1>4. \A d \in Nat : TakesWithin(TRUE, Inside(d), d + 1, t, v) BY <1>2
<1> HIDE DEF t
<1>5. ASSUME NEW u \in Bytes PROVE ReadNext(t \o u) = Read(v, u)
  <2>1. t \o u \in Bytes BY <1>3, Concat
  <2>2. Len(t \o u) \in Nat /\ Len(t \o u) <= Len(t \o u) + 1 BY <2>1 DEF Bytes
  <2>3. readValue(t \o u, TRUE, Inside(Len(t \o u))) = Read(v, u)
    BY <2>2, <1>4, Zenon DEF TakesWithin
  <2> QED BY <2>3, Zenon DEF ReadNext
<1>6. ASSUME NEW q \in Cuts(t) PROVE Stops(ReadNext(q))
  <2>1. q \in Bytes BY DEF Cuts
  <2>2. Len(q) \in Nat /\ Len(q) <= Len(q) + 1 BY <2>1 DEF Bytes
  <2>3. Stops(readValue(q, TRUE, Inside(Len(q)))) BY <2>2, <1>4, Zenon DEF TakesWithin
  <2> QED BY <2>3, Zenon DEF ReadNext
<1> QED BY <1>2, <1>5, <1>6 DEF t

-----------------------------------------------------------------------------
(* Every text, well formed or not.                                         *)

\* What is left is a text, and what was not expected is a part of a line or
\* the end of one.
Tidy(r) == r.rest \in Bytes /\ r.odd \in InLine \cup {<<Nl>>}

LEMMA Tidies ==
  /\ Tidy(Ended) /\ Tidy(Panicked)
  /\ \A v : \A u \in Bytes : Tidy(Read(v, u))
  /\ \A odd \in InLine \cup {<<Nl>>}, u \in Bytes : Tidy(Bad(odd, u))
  /\ <<>> \in Bytes /\ <<>> \in InLine
  /\ \A b \in Byte : <<b>> \in InLine \cup {<<Nl>>}
<1>1. <<>> \in Bytes /\ <<>> \in InLine BY NumberEmpty DEF InLine
<1>2. Tidy(Ended) BY <1>1 DEF Tidy, Ended
<1>3. Tidy(Panicked) BY <1>1 DEF Tidy, Panicked
<1>4. ASSUME NEW v, NEW u \in Bytes PROVE Tidy(Read(v, u)) BY <1>1 DEF Tidy, Read
<1>5. ASSUME NEW odd \in InLine \cup {<<Nl>>}, NEW u \in Bytes PROVE Tidy(Bad(odd, u))
  BY DEF Tidy, Bad
<1>6. ASSUME NEW b \in Byte, b # Nl PROVE <<b>> \in InLine
  <2>1. <<b>> \in Bytes /\ <<b>>[1] = b BY OneByte
  <2>2. DOMAIN <<b>> = {1} OBVIOUS
  <2> QED BY <2>1, <2>2, <1>6 DEF InLine
<1>7. \A b \in Byte : <<b>> \in InLine \cup {<<Nl>>} BY <1>6
<1> QED BY <1>1, <1>2, <1>3, <1>4, <1>5, <1>7

LEMMA Part ==
  ASSUME NEW t \in Bytes, NEW i \in Nat, NEW j \in Nat, i > 0, j <= Len(t)
  PROVE  SubSeq(t, i, j) \in Bytes
<1>1. \A k \in i .. j : t[k] \in Byte BY DEF Bytes
<1> QED BY <1>1, SubSeqProperties DEF Bytes

\* Parts of texts are texts.
LEMMA FromType ==
  ASSUME NEW t \in Bytes, NEW i \in Nat, i > 0 PROVE From(t, i) \in Bytes
<1>1. Len(t) \in Nat /\ Len(t) <= Len(t) BY DEF Bytes
<1> QED BY <1>1, Part DEF From

LEMMA NextLineType ==
  ASSUME NEW t \in Bytes
  PROVE  /\ nextLine(t).ok \in BOOLEAN /\ nextLine(t).line \in InLine
         /\ nextLine(t).line \in Bytes /\ nextLine(t).rest \in Bytes
<1>1. PICK u \in Bytes : nextLine(t) = ReadBytes(u) BY NextLineAny
<1>2. /\ ReadBytes(u).ok \in BOOLEAN /\ ReadBytes(u).line \in InLine
      /\ ReadBytes(u).rest \in Bytes
  BY ReadBytesAny
<1> QED BY <1>1, <1>2 DEF InLine

\* One lemma per handler.
LEMMA NullTidy == ASSUME NEW t \in Bytes PROVE Tidy(handleNull(t))
<1>1. CASE t = <<>> BY <1>1, Tidies DEF handleNull
<1>2. CASE t # <<>>
  <2>1. Head(t) \in Byte /\ Tail(t) \in Bytes BY <1>2, Split
  <2>2. CASE Head(t) # Nl
    <3>1. handleNull(t) = Bad(<<Head(t)>>, Tail(t)) BY <1>2, <2>2 DEF handleNull
    <3> QED BY <2>1, <3>1, Tidies
  <2>3. CASE Head(t) = Nl
    <3>1. handleNull(t) = Read(Null, Tail(t)) BY <1>2, <2>3 DEF handleNull
    <3> QED BY <2>1, <3>1, Tidies
  <2> QED BY <2>2, <2>3
<1> QED BY <1>1, <1>2

LEMMA BoolTidy == ASSUME NEW t \in Bytes PROVE Tidy(handleBoolean(t))
<1>1. CASE t = <<>> BY <1>1, Tidies DEF handleBoolean
<1>2. CASE t # <<>>
  <2> DEFINE r == handleNull(Tail(t))
  <2>1. Head(t) \in Byte /\ Tail(t) \in Bytes BY <1>2, Split
  <2>2. Tidy(r) BY <2>1, NullTidy
  <2> HIDE DEF r
  <2>3. r.rest \in Bytes BY <2>2 DEF Tidy
  <2>4. CASE Head(t) \notin {"t", "f"}
    <3>1. handleBoolean(t) = Bad(<<Head(t)>>, Tail(t)) BY <1>2, <2>4 DEF handleBoolean
    <3> QED BY <2>1, <3>1, Tidies
  <2>5. CASE Head(t) \in {"t", "f"} /\ r.end = "none"
    <3>1. handleBoolean(t) = Read(Bool(Head(t) = "t"), r.rest)
      BY <1>2, <2>5, Zenon DEF handleBoolean, r
    <3>2. \A v : Tidy(Read(v, r.rest)) BY <2>3, Tidies
    <3> QED BY <3>1, <3>2, Zenon
  <2>6. CASE Head(t) \in {"t", "f"} /\ r.end # "none"
    <3>1. handleBoolean(t) = r BY <1>2, <2>6, Zenon DEF handleBoolean, r
    <3> QED BY <3>1, <2>2
  <2> QED BY <2>4, <2>5, <2>6
<1> QED BY <1>1, <1>2

LEMMA StringTidy == ASSUME NEW t \in Bytes PROVE Tidy(handleString(t))
<1>1. ReadBytes(t).rest \in Bytes BY ReadBytesAny
<1> QED BY <1>1, Tidies DEF handleString

LEMMA ErrorTidy == ASSUME NEW t \in Bytes PROVE Tidy(handleError(t))
<1> DEFINE r == ReadBytes(t)
           space == IndexOf(r.line, " ")
           e == Error(SubSeq(r.line, 1, space - 1), From(r.line, space + 1))
<1>1. r.rest \in Bytes BY ReadBytesAny
<1>2. handleError(t) = IF ~r.ok THEN Ended
                       ELSE IF space = 0 THEN Bad(<<>>, r.rest)
                       ELSE Read(e, r.rest)
  BY DEF handleError
<1> HIDE DEF r, space, e
<1> QED BY <1>1, <1>2, Tidies

LEMMA BlobTidy ==
  ASSUME NEW n \in Int, NEW t \in Bytes PROVE Tidy(handleBlob(n, t))
<1> DEFINE r == handleNull(From(t, n + 1))
           b == Blob(SubSeq(t, 1, n))
<1>1. handleBlob(n, t) = IF n > MaxBlobSize THEN Bad(<<>>, t)
                         ELSE IF n < 0 THEN Panicked
                         ELSE IF r.end = "none" THEN Read(b, r.rest) ELSE r
  BY DEF handleBlob
<1>2. n >= 0 => Tidy(r)
  <2> SUFFICES ASSUME n >= 0 PROVE Tidy(r) OBVIOUS
  <2>1. n + 1 \in Nat /\ n + 1 > 0 OBVIOUS
  <2> QED BY <2>1, FromType, NullTidy
<1> HIDE DEF r, b
<1>3. n >= 0 => r.rest \in Bytes BY <1>2 DEF Tidy
<1>4. ~(n < 0) => n >= 0 OBVIOUS
<1> QED BY <1>1, <1>2, <1>3, <1>4, Tidies

LEMMA ManyTidy ==
  ASSUME NEW n \in Nat, NEW R, \A s \in Bytes : Tidy(R[s]), NEW t \in Bytes
  PROVE  Tidy(readMany(n, R, t))
<1>1. PICK g : GotOf(g, n, R, t) /\ readMany(n, R, t) = g[n] BY ManyDef
<1> DEFINE S == {k \in Nat : k <= n => Tidy(g[k])}
<1>2. 0 \in S
  <2>1. g[0] = Read(<<>>, t) BY <1>1, GotStep
  <2> QED BY <2>1, Tidies
<1>3. ASSUME NEW k \in Nat, k \in S, k + 1 <= n PROVE Tidy(g[k + 1])
  <2> DEFINE x == g[k]
             r == R[x.rest]
  <2>1. k + 1 \in 0 .. n /\ k + 1 # 0 /\ (k + 1) - 1 = k BY <1>3
  <2>2. Tidy(x) BY <1>3
  <2>3. g[k + 1] = IF x.end # "none" THEN x
                   ELSE IF r.end = "none" THEN Read(Append(x.val, r.val), r.rest)
                   ELSE r
    BY <2>1, <1>1 DEF GotOf
  <2>4. Tidy(r) BY <2>2 DEF Tidy
  <2> HIDE DEF x, r
  <2>5. r.rest \in Bytes BY <2>4 DEF Tidy
  <2> QED BY <2>2, <2>3, <2>4, <2>5, Tidies
<1>4. \A k \in Nat : k \in S => k + 1 \in S BY <1>3
<1>5. Nat \subseteq S BY <1>2, <1>4, NatInd
<1> QED BY <1>1, <1>5

LEMMA ArrayTidy ==
  ASSUME NEW n \in Int, NEW R, \A s \in Bytes : Tidy(R[s]), NEW t \in Bytes
  PROVE  Tidy(handleArray(n, R, t))
<1> DEFINE r == readMany(n, R, t)
<1>1. handleArray(n, R, t) = IF n < 0 \/ n > MaxLen THEN Panicked
                             ELSE IF r.end = "none" THEN Read(Array(r.val), r.rest)
                             ELSE r
  BY DEF handleArray
<1>2. ~(n < 0) => Tidy(r) BY ManyTidy
<1> HIDE DEF r
<1>3. ~(n < 0) => r.rest \in Bytes BY <1>2 DEF Tidy
<1> QED BY <1>1, <1>2, <1>3, Tidies

LEMMA SizeType ==
  ASSUME NEW s \in Bytes
  PROVE  readTableSize(s).rows \in Bytes /\ readTableSize(s).cols \in Bytes
<1> DEFINE n == IndexOf(s, ",")
<1>1. n = 0 \/ n \in 1 .. Len(s)
  <2> DEFINE b == ","
  <2> HIDE DEF b
  <2>1. IndexOf(s, b) = 0 \/ IndexOf(s, b) \in 1 .. Len(s) BY IndexOfAny
  <2> QED BY <2>1 DEF b
<1>2. Len(s) \in Nat BY DEF Bytes
<1>3. readTableSize(s).rows = SubSeq(s, 1, n - 1) /\ readTableSize(s).cols = From(s, n + 1)
  BY DEF readTableSize
<1> HIDE DEF n
<1>4. From(s, n + 1) \in Bytes
  <2>1. n + 1 \in Nat /\ n + 1 > 0 BY <1>1, <1>2
  <2> QED BY <2>1, FromType
<1>5. SubSeq(s, 1, n - 1) \in Bytes
  <2>1. CASE n = 0
    <3>1. SubSeq(s, 1, n - 1) = <<>> BY <2>1, SubSeqEmpty
    <3> QED BY <3>1, Tidies
  <2>2. CASE n \in 1 .. Len(s)
    <3>1. n - 1 \in Nat /\ n - 1 <= Len(s) /\ 1 \in Nat /\ 1 > 0 BY <2>2, <1>2
    <3> QED BY <3>1, Part
  <2> QED BY <2>1, <2>2, <1>1
<1> QED BY <1>3, <1>4, <1>5

LEMMA TableTidy ==
  ASSUME NEW R, \A s \in Bytes : Tidy(R[s]), NEW t \in Bytes
  PROVE  Tidy(handleTable(R, t))
<1> DEFINE line == nextLine(t)
           size == readTableSize(line.line)
           rows == Atoi(size.rows)
           cols == Atoi(size.cols)
           r    == readMany(rows * cols, R, line.rest)
           bad  == ~line.ok \/ ~IsNumber(size.rows) \/ ~IsNumber(size.cols)
<1>1. line.line \in InLine /\ line.line \in Bytes /\ line.rest \in Bytes
  BY NextLineType
<1>2. size.rows \in Bytes /\ size.cols \in Bytes BY <1>1, SizeType
<1>3. ~bad => rows \in Int /\ cols \in Int BY <1>2, AtoiType
<1>4. ~bad /\ ~(rows <= 0) /\ ~(cols < 0) => Tidy(r)
  <2> SUFFICES ASSUME ~bad, ~(rows <= 0), ~(cols < 0) PROVE Tidy(r) OBVIOUS
  <2> DEFINE x == line.rest
  <2>1. x \in Bytes BY <1>1
  <2> HIDE DEF rows, cols, x
  <2>2. rows \in Nat /\ cols \in Nat BY <1>3
  <2>3. rows * cols \in Nat BY <2>2
  <2>4. Tidy(readMany(rows * cols, R, x)) BY <2>1, <2>3, ManyTidy
  <2> QED BY <2>4 DEF x, rows, cols
<1>5. handleTable(R, t) = IF bad THEN Bad(line.line, line.rest)
                          ELSE IF rows <= 0 THEN Read(Table(0, cols, <<>>), line.rest)
                          ELSE IF cols < 0 \/ cols > MaxLen THEN Panicked
                          ELSE IF r.end = "none"
                               THEN Read(TableOf(rows, cols, r.val), r.rest)
                          ELSE r
  BY Zenon DEF handleTable
<1> HIDE DEF line, size, rows, cols, r, bad
<1>6. Tidy(r) => r.rest \in Bytes BY DEF Tidy
<1> QED BY <1>1, <1>4, <1>5, <1>6, Tidies

LEMMA ReadSizeType ==
  ASSUME NEW t \in Bytes
  PROVE  /\ Tidy(readSize(t))
         /\ readSize(t).end = "none" => /\ readSize(t).val \in Int
                                        /\ readSize(t).rest \in Bytes
<1> DEFINE line == nextLine(t)
           n == Atoi(line.line)
<1>1. line.line \in InLine /\ line.line \in Bytes /\ line.rest \in Bytes
  BY NextLineType
<1>2. readSize(t) = IF line.ok /\ IsNumber(line.line) THEN Read(n, line.rest)
                    ELSE Bad(line.line, line.rest)
  BY Zenon DEF readSize
<1>3. IsNumber(line.line) => n \in Int BY <1>1, AtoiType
<1> HIDE DEF line, n
<1>4. Tidy(readSize(t)) BY <1>1, <1>2, Tidies
<1>5. \A odd, u : Bad(odd, u).end # "none" BY DEF Bad
<1>6. ASSUME readSize(t).end = "none" PROVE readSize(t).val \in Int
  <2>1. IsNumber(line.line) /\ readSize(t) = Read(n, line.rest) BY <1>2, <1>5, <1>6
  <2> QED BY <2>1, <1>3, ReadFields
<1>7. readSize(t).rest \in Bytes BY <1>4 DEF Tidy
<1> QED BY <1>4, <1>6, <1>7

LEMMA SizedTidy ==
  ASSUME NEW c, NEW R, \A s \in Bytes : Tidy(R[s]), NEW t \in Bytes
  PROVE  Tidy(handleSized(c, R, t))
<1> DEFINE z == readSize(t)
<1>1. Tidy(z) /\ (z.end = "none" => z.val \in Int /\ z.rest \in Bytes) BY ReadSizeType
<1>2. handleSized(c, R, t) = IF z.end # "none" THEN z
                             ELSE IF c = "*" THEN handleArray(z.val, R, z.rest)
                             ELSE IF c = "$" THEN handleBlob(z.val, z.rest)
                             ELSE Read(Integer(z.val), z.rest)
  BY DEF handleSized
<1> HIDE DEF z
<1>3. CASE z.end # "none" BY <1>1, <1>2, <1>3
<1>4. CASE z.end = "none"
  <2>1. Tidy(handleArray(z.val, R, z.rest)) BY <1>1, <1>4, ArrayTidy
  <2>2. Tidy(handleBlob(z.val, z.rest)) BY <1>1, <1>4, BlobTidy
  <2>3. Tidy(Read(Integer(z.val), z.rest)) BY <1>1, <1>4, Tidies
  <2> QED BY <2>1, <2>2, <2>3, <1>2, <1>4
<1> QED BY <1>3, <1>4

LEMMA TagTidy ==
  ASSUME NEW canBeTag \in BOOLEAN, NEW R, \A s \in Bytes : Tidy(R[s]), NEW t \in Bytes
  PROVE  Tidy(handleTag(canBeTag, R, t))
<1> DEFINE name == ReadBytes(t)
           r == R[name.rest]
<1>1. name.rest \in Bytes BY ReadBytesAny
<1>2. Tidy(r) BY <1>1
<1>3. handleTag(canBeTag, R, t) = IF ~canBeTag THEN Bad(<<>>, t)
                                  ELSE IF ~name.ok THEN Ended
                                  ELSE IF r.end = "none"
                                       THEN Read(Tagged(r.val, name.line), r.rest)
                                  ELSE r
  BY Zenon DEF handleTag
<1> HIDE DEF name, r
<1>4. r.rest \in Bytes BY <1>2 DEF Tidy
<1>5. /\ Tidy(Bad(<<>>, t)) /\ Tidy(Ended)
      /\ Tidy(Read(Tagged(r.val, name.line), r.rest))
  BY <1>4, Tidies
<1> QED BY <1>2, <1>3, <1>5, Zenon

\* ... and readValue, when what it reads inside is so.
LEMMA ValueTidy ==
  ASSUME NEW canBeTag \in BOOLEAN, NEW R, \A s \in Bytes : Tidy(R[s]), NEW t \in Bytes
  PROVE  Tidy(readValue(t, canBeTag, R))
<1>1. CASE t = <<>>
  <2>1. readValue(t, canBeTag, R) = Ended BY <1>1, Zenon DEF readValue
  <2> QED BY <2>1, Tidies, Zenon
<1>2. CASE t # <<>>
  <2> DEFINE w == Tail(t)
  <2>1. Head(t) \in Byte /\ w \in Bytes BY <1>2, Split
  <2>2. /\ Tidy(handleNull(w)) /\ Tidy(handleBoolean(w)) /\ Tidy(handleString(w))
        /\ Tidy(handleError(w)) /\ Tidy(handleTable(R, w))
        /\ Tidy(handleSized(Head(t), R, w))
    BY <2>1, NullTidy, BoolTidy, StringTidy, ErrorTidy, TableTidy, SizedTidy
  <2>3. Tidy(handleTag(canBeTag, R, w)) BY <2>1, TagTidy
  <2>4. Tidy(Bad(<<Head(t)>>, w)) BY <2>1, Tidies
  <2>5. \/ Head(t) \in {NullSign, "#", "+", "-", "@", "="}
        \/ Head(t) \in {"*", "$", ":"} \/ Head(t) \notin Sigils
    BY DEF Sigils
  <2> HIDE DEF w
  <2>6. /\ Head(t) = NullSign => readValue(t, canBeTag, R) = handleNull(w)
        /\ Head(t) = "#" => readValue(t, canBeTag, R) = handleBoolean(w)
        /\ Head(t) = "+" => readValue(t, canBeTag, R) = handleString(w)
        /\ Head(t) = "-" => readValue(t, canBeTag, R) = handleError(w)
        /\ Head(t) = "@" => readValue(t, canBeTag, R) = handleTag(canBeTag, R, w)
        /\ Head(t) = "=" => readValue(t, canBeTag, R) = handleTable(R, w)
        /\ Head(t) \in {"*", "$", ":"}
             => readValue(t, canBeTag, R) = handleSized(Head(t), R, w)
        /\ Head(t) \notin Sigils => readValue(t, canBeTag, R) = Bad(<<Head(t)>>, w)
    BY <1>2, Dispatch DEF w
  <2>7. CASE Head(t) \in {NullSign, "#", "+", "-", "@", "="} BY <2>7, <2>6, <2>2, <2>3
  <2>8. CASE Head(t) \in {"*", "$", ":"} BY <2>8, <2>6, <2>2
  <2>9. CASE Head(t) \notin Sigils BY <2>9, <2>6, <2>4
  <2> QED BY <2>5, <2>7, <2>8, <2>9
<1> QED BY <1>1, <1>2

\* Reader.Read ends on every text, well formed or not, with the rest of the
\* text, and what its error quotes stays within a line or is a newline.
THEOREM NextTidy == ASSUME NEW t \in Bytes PROVE Tidy(ReadNext(t))
<1> DEFINE S == {d \in Nat : \A s \in Bytes : Tidy(Inside(d)[s])}
<1>1. 0 \in S BY InsideStep, Tidies
<1>2. ASSUME NEW d \in Nat, d \in S PROVE d + 1 \in S
  <2>1. ASSUME NEW s \in Bytes PROVE Tidy(Inside(d + 1)[s])
    <3>1. Inside(d + 1)[s] = readValue(s, FALSE, Inside(d)) BY InsideStep, Zenon
    <3>2. FALSE \in BOOLEAN OBVIOUS
    <3>3. \A u \in Bytes : Tidy(Inside(d)[u]) BY <1>2
    <3>4. Tidy(readValue(s, FALSE, Inside(d))) BY <3>2, <3>3, ValueTidy, Zenon
    <3> QED BY <3>1, <3>4, Zenon
  <2> QED BY <2>1
<1>3. Nat \subseteq S BY <1>1, <1>2, NatInd
<1>4. Len(t) \in Nat BY DEF Bytes
<1>5. \A s \in Bytes : Tidy(Inside(Len(t))[s]) BY <1>3, <1>4
<1>6. TRUE \in BOOLEAN OBVIOUS
<1>7. Tidy(readValue(t, TRUE, Inside(Len(t)))) BY <1>5, <1>6, ValueTidy, Zenon
<1> QED BY <1>7, Zenon DEF ReadNext

-----------------------------------------------------------------------------
(* What is on a connection: several values, one after the other.           *)

\* The first of two texts.
LEMMA FrontOf ==
  ASSUME NEW a \in Bytes, NEW b \in Bytes
  PROVE  SubSeq(a \o b, 1, Len(a)) = a
<1> DEFINE t == a \o b
<1>1. /\ t \in Bytes /\ Len(t) = Len(a) + Len(b)
      /\ \A i \in 1 .. Len(a) : t[i] = a[i]
      /\ Len(a) \in Nat /\ Len(b) \in Nat
  BY Concat DEF Bytes
<1> HIDE DEF t
<1>2. SubSeq(t, 1, Len(a)) = a BY <1>1 DEF Bytes
<1> QED BY <1>2 DEF t

\* All but the last of a sequence.
LEMMA Front ==
  ASSUME NEW S, NEW s \in Seq(S), s # <<>>
  PROVE  LET n == Len(s)
             u == SubSeq(s, 1, n - 1)
         IN  /\ n \in Nat \ {0} /\ s[n] \in S
             /\ u \in Seq(S) /\ Len(u) = n - 1
             /\ \A i \in 1 .. n - 1 : u[i] = s[i] /\ u[i] \in S
<1> DEFINE n == Len(s)
           u == SubSeq(s, 1, n - 1)
<1>1. n \in Nat \ {0} /\ \A i \in 1 .. n : s[i] \in S BY EmptySeq
<1> HIDE DEF n
<1>2. /\ 1 \in Int /\ n - 1 \in Int /\ \A i \in 1 .. n - 1 : s[i] \in S
      /\ n \in 1 .. n
  BY <1>1
<1>3. /\ u \in Seq(S) /\ Len(u) = IF 1 <= n - 1 THEN (n - 1) - 1 + 1 ELSE 0
      /\ \A i \in 1 .. (n - 1) - 1 + 1 : u[i] = s[1 + i - 1]
  BY <1>2, SubSeqProperties
<1> HIDE DEF u
<1>4. Len(u) = n - 1 BY <1>1, <1>3
<1>5. \A i \in 1 .. n - 1 : u[i] = s[i] BY <1>1, <1>3
<1>6. \A i \in 1 .. n - 1 : u[i] \in S BY <1>2, <1>5
<1>7. s[n] \in S BY <1>1, <1>2
<1> QED BY <1>1, <1>3, <1>4, <1>5, <1>6, <1>7 DEF u, n

\* The first k bytes of a longer text are a cut of it.
LEMMA BeginningIsCut ==
  ASSUME NEW t \in Bytes, NEW k \in 0 .. Len(t) - 1
  PROVE  SubSeq(t, 1, k) \in Cuts(t)
<1> DEFINE m == Len(t)
           p == SubSeq(t, 1, k)
           w == SubSeq(t, k + 1, m)
<1>1. m \in Nat /\ k \in Nat /\ k < m BY DEF Bytes
<1> HIDE DEF m
<1>2. k <= m /\ m <= m /\ 1 \in Nat /\ 1 > 0 /\ k + 1 \in Nat /\ k + 1 > 0 BY <1>1
<1>3. p \in Bytes /\ w \in Bytes BY <1>1, <1>2, Part DEF m
<1>4. t = p \o w
  <2>1. 1 \in 1 .. m + 1 /\ k \in 1 - 1 .. m /\ m \in k .. m BY <1>1
  <2>2. p \o w = SubSeq(t, 1, m) BY <2>1, ConcatAdjacentSubSeq DEF Bytes, m
  <2>3. SubSeq(t, 1, m) = t BY SubSeqFull DEF Bytes, m
  <2> QED BY <2>2, <2>3
<1>5. w # <<>>
  <2>1. CASE w = <<>>
    <3>1. p = t BY <2>1, <1>3, <1>4, ConcatEmptySeq DEF Bytes
    <3>2. Len(p) = k
      <4>1. \A i \in 1 .. k : t[i] \in Byte BY <1>1 DEF Bytes, m
      <4>2. 1 \in Int /\ k \in Int /\ (1 <= k => k - 1 + 1 = k) /\ (~(1 <= k) => k = 0)
        BY <1>1
      <4> QED BY <4>1, <4>2, SubSeqProperties
    <3> QED BY <3>1, <3>2, <1>1 DEF m
  <2> QED BY <2>1
<1> HIDE DEF p, w
<1>6. p \in Cuts(t) BY <1>3, <1>4, <1>5 DEF Cuts
<1> QED BY <1>6 DEF p

\* Without its last byte a text ends in a part of its last value.
LEMMA ButTheLast ==
  ASSUME NEW a \in Bytes, NEW b \in Bytes, b # <<>>
  PROVE  \E p \in Cuts(b) : SubSeq(a \o b, 1, Len(a \o b) - 1) = a \o p
<1>1. Len(b) \in Nat \ {0} /\ Len(a) \in Nat BY EmptySeq DEF Bytes
<1> DEFINE m == Len(b)
           p == SubSeq(b, 1, m - 1)
           w == SubSeq(b, m, m)
<1>2. p \in Bytes /\ Len(p) = m - 1 BY Front DEF Bytes
<1>3. w \in Bytes /\ Len(w) = 1
  <2>1. m \in Nat /\ m > 0 /\ m <= Len(b) BY <1>1
  <2>2. w \in Bytes BY <2>1, Part
  <2>3. Len(w) = 1 BY <1>1 DEF Bytes
  <2> QED BY <2>2, <2>3
<1>4. b = p \o w
  <2>1. /\ 1 \in 1 .. m + 1 /\ m - 1 \in 1 - 1 .. m /\ m \in m - 1 .. m
        /\ (m - 1) + 1 = m
    BY <1>1
  <2>2. SubSeq(b, 1, m - 1) \o SubSeq(b, (m - 1) + 1, m) = SubSeq(b, 1, m)
    BY <2>1, ConcatAdjacentSubSeq DEF Bytes
  <2>3. SubSeq(b, 1, m) = b BY SubSeqFull DEF Bytes
  <2> QED BY <2>1, <2>2, <2>3
<1> HIDE DEF p, w, m
<1>5. w # <<>> BY <1>3, EmptySeq
<1>6. p \in Cuts(b) BY <1>2, <1>3, <1>4, <1>5 DEF Cuts
<1>7. a \o p \in Bytes /\ Len(a \o p) = Len(a) + (m - 1) BY <1>2, Concat
<1>8. a \o b = (a \o p) \o w BY <1>2, <1>3, <1>4, Assoc
<1>9. Len(a \o b) - 1 = Len(a \o p)
  <2> DEFINE x == a \o p
  <2>0. x \in Bytes BY <1>7
  <2> HIDE DEF x
  <2>3. Len(x \o w) = Len(x) + Len(w) BY <2>0, <1>3, Concat
  <2>1. Len(a \o b) = Len(a \o p) + 1 BY <2>3, <1>3, <1>8 DEF x
  <2>2. Len(a \o p) \in Nat BY <1>7 DEF Bytes
  <2> QED BY <2>1, <2>2
<1>10. SubSeq((a \o p) \o w, 1, Len(a \o p)) = a \o p BY <1>3, <1>7, FrontOf
<1> QED BY <1>6, <1>8, <1>9, <1>10

\* Texts end in the last one.
LEMMA JoinedLast ==
  ASSUME NEW ts \in Seq(Bytes), ts # <<>>
  PROVE  LET n == Len(ts)
         IN  Joined(ts) = Joined(SubSeq(ts, 1, n - 1)) \o ts[n]
<1> DEFINE n == Len(ts)
           us == SubSeq(ts, 1, n - 1)
<1>1. n \in Nat \ {0} /\ \A i \in 1 .. n : ts[i] \in Bytes BY EmptySeq
<1>2. /\ us \in Seq(Bytes) /\ Len(us) = n - 1
      /\ \A i \in 1 .. n - 1 : us[i] = ts[i]
  BY Front
<1>3. PICK f : LastOf(f, ts) /\ Joined(ts) = f[n] BY JoinedDef
<1> HIDE DEF us
<1>4. PICK g : LastOf(g, us) /\ Joined(us) = g[n - 1] BY <1>2, JoinedDef
<1> HIDE DEF n
<1>5. /\ f[0] = <<>> /\ \A k \in 1 .. n : f[k] = ts[n - k + 1] \o f[k - 1]
  BY <1>3, LastType, Zenon DEF n
<1>6. /\ g[0] = <<>> /\ \A k \in 0 .. n - 1 : g[k] \in Bytes
      /\ \A k \in 1 .. n - 1 : g[k] = us[(n - 1) - k + 1] \o g[k - 1]
  <2>1. /\ g[0] = <<>> /\ \A k \in 0 .. Len(us) : g[k] \in Bytes
        /\ \A k \in 1 .. Len(us) : g[k] = us[Len(us) - k + 1] \o g[k - 1]
    BY <1>2, <1>4, LastType, Zenon
  <2> QED BY <2>1, <1>2
<1> DEFINE last == ts[n]
           S == {k \in Nat : k <= n - 1 => f[k + 1] = g[k] \o last}
<1>7. last \in Bytes BY <1>1
<1> HIDE DEF last
<1>8. 0 \in S
  <2>1. 1 \in 1 .. n /\ n - 1 + 1 = n /\ 1 - 1 = 0 BY <1>1
  <2>2. f[1] = last \o <<>> BY <2>1, <1>5 DEF last
  <2>3. last \o <<>> = last /\ <<>> \o last = last
    BY <1>7, ConcatEmptySeq DEF Bytes
  <2>4. f[0 + 1] = g[0] \o last BY <2>2, <2>3, <1>6
  <2> HIDE DEF last
  <2> QED BY <2>4
<1>9. ASSUME NEW k \in Nat, k \in S, k + 1 <= n - 1
      PROVE  f[(k + 1) + 1] = g[k + 1] \o last
  <2>1. /\ (k + 1) + 1 \in 1 .. n /\ k + 1 \in 1 .. n - 1 /\ k \in 0 .. n - 1
        /\ ((k + 1) + 1) - 1 = k + 1 /\ (k + 1) - 1 = k
        /\ n - ((k + 1) + 1) + 1 = (n - 1) - (k + 1) + 1
        /\ (n - 1) - (k + 1) + 1 \in 1 .. n - 1
        /\ (n - 1) - (k + 1) + 1 \in 1 .. n
    BY <1>1, <1>9
  <2> DEFINE j == (n - 1) - (k + 1) + 1
             x == ts[j]
             y == g[k]
  <2>2. f[(k + 1) + 1] = x \o f[k + 1] BY <2>1, <1>5
  <2>3. g[k + 1] = x \o y BY <2>1, <1>2, <1>6
  <2>4. f[k + 1] = y \o last BY <2>1, <1>9
  <2>5. x \in Bytes /\ y \in Bytes BY <2>1, <1>1, <1>6
  <2> HIDE DEF x, y
  <2>6. (x \o y) \o last = x \o (y \o last) BY <2>5, <1>7, Assoc
  <2> QED BY <2>2, <2>3, <2>4, <2>6
<1>10. \A k \in Nat : k \in S => k + 1 \in S
  <2>1. ASSUME NEW k \in Nat, k \in S PROVE k + 1 \in S
    <3>1. k + 1 <= n - 1 => f[(k + 1) + 1] = g[k + 1] \o last BY <2>1, <1>9
    <3>2. k + 1 \in Nat OBVIOUS
    <3> QED BY <3>1, <3>2
  <2> QED BY <2>1
<1>11. Nat \subseteq S BY <1>8, <1>10, NatInd
<1>12. n - 1 \in Nat /\ (n - 1) + 1 = n BY <1>1
<1>13. f[n] = g[n - 1] \o last
  <2>1. n - 1 \in S BY <1>11, <1>12
  <2>2. n - 1 <= n - 1 BY <1>12
  <2>3. f[(n - 1) + 1] = g[n - 1] \o last BY <2>1, <2>2
  <2> QED BY <2>3, <1>12
<1> QED BY <1>3, <1>4, <1>13 DEF last, us, n

\* The session reads every value that is written.
LEMMA WireReads ==
  ASSUME NEW d \in Nat, NEW v \in Values
  PROVE  Text(v) \in Bytes /\ Text(v) # <<>> /\ ReadsText(WireReader, d, Text(v), v)
<1> DEFINE t == Text(v)
<1>1. /\ t \in Bytes /\ t # <<>>
      /\ \A u \in Bytes : ReadNext(t \o u) = Read(v, u)
      /\ \A q \in Cuts(t) : Stops(ReadNext(q))
  BY NextReads
<1> HIDE DEF t
<1>2. \A s \in Bytes : WireReader[s] = ReadNext(s) BY DEF WireReader
<1>3. \A u \in Bytes : t \o u \in Bytes BY <1>1, Concat
<1>4. \A q \in Cuts(t) : q \in Bytes BY DEF Cuts
<1>5. ReadsText(WireReader, d, t, v) BY <1>1, <1>2, <1>3, <1>4, Zenon DEF ReadsText
<1> QED BY <1>1, <1>5 DEF t

\* Several values, and whatever follows them.
LEMMA ManyTexts ==
  ASSUME NEW vs \in Seq(Values), NEW ts \in Seq(Bytes), Len(ts) = Len(vs),
         \A i \in 1 .. Len(ts) : ts[i] = Text(vs[i]),
         NEW u \in Bytes, Joined(ts) \in Bytes
  PROVE  readMany(Len(ts), WireReader, Joined(ts) \o u) = Read(vs, u)
<1> DEFINE d == Len(Joined(ts) \o u)
<1>1. d \in Nat /\ d <= d
  <2>1. Joined(ts) \o u \in Bytes BY Concat
  <2> QED BY <2>1 DEF Bytes
<1>2. Len(Joined(ts) \o u) <= d BY <1>1
<1> HIDE DEF d
<1>3. \A i \in 1 .. Len(ts) : ReadsText(WireReader, d, ts[i], vs[i])
  <2> TAKE i \in 1 .. Len(ts)
  <2>1. vs[i] \in Values OBVIOUS
  <2> QED BY <2>1, <1>1, WireReads
<1>4. Len(vs) = Len(ts) OBVIOUS
<1> QED BY <1>1, <1>2, <1>3, <1>4, ManyRead

LEMMA ManyNext ==
  ASSUME NEW vs \in Seq(Values), NEW ts, ts = [i \in DOMAIN vs |-> Text(vs[i])],
         NEW u \in Bytes
  PROVE  /\ ts \in Seq(Bytes) /\ Len(ts) = Len(vs) /\ Joined(ts) \in Bytes
         /\ readMany(Len(vs), WireReader, Joined(ts) \o u) = Read(vs, u)
<1>1. DOMAIN vs = 1 .. Len(vs) /\ Len(vs) \in Nat /\ \A i \in 1 .. Len(vs) : vs[i] \in Values
  OBVIOUS
<1>2. \A i \in 1 .. Len(vs) : Text(vs[i]) \in Bytes
  <2>1. 0 \in Nat OBVIOUS
  <2> QED BY <2>1, <1>1, WireReads
<1>3. ts \in Seq(Bytes) /\ Len(ts) = Len(vs) /\ \A i \in 1 .. Len(ts) : ts[i] = Text(vs[i])
  BY <1>1, <1>2
<1>4. Joined(ts) \in Bytes BY <1>3, JoinedType
<1>5. readMany(Len(ts), WireReader, Joined(ts) \o u) = Read(vs, u)
  BY <1>1, <1>3, <1>4, ManyTexts
<1> QED BY <1>3, <1>4, <1>5

\* What several WriteTo wrote is read as those values, in their order; without
\* its last byte, as all of them but the last, and then as no value.
THEOREM AllRead ==
  ASSUME NEW vs \in Seq(Values)
  PROVE  LET n    == Len(vs)
             text == AllTexts(vs)
             most == readMany(n - 1, WireReader, SubSeq(text, 1, Len(text) - 1))
         IN  /\ readMany(n, WireReader, text) = Read(vs, <<>>)
             /\ n > 0 => /\ most = Read(SubSeq(vs, 1, n - 1), most.rest)
                         /\ ReadNext(most.rest).end # "none"
<1> DEFINE n == Len(vs)
           text == AllTexts(vs)
           most == readMany(n - 1, WireReader, SubSeq(text, 1, Len(text) - 1))
<1>1. PICK ts : ts = [i \in DOMAIN vs |-> Text(vs[i])] OBVIOUS
<1>2. <<>> \in Bytes BY NumberEmpty
<1>3. text = Joined(ts) BY <1>1 DEF AllTexts
<1>4. /\ ts \in Seq(Bytes) /\ Len(ts) = n /\ Joined(ts) \in Bytes
      /\ readMany(n, WireReader, Joined(ts) \o <<>>) = Read(vs, <<>>)
  BY <1>1, <1>2, ManyNext
<1>5. Joined(ts) \o <<>> = Joined(ts) BY <1>4, ConcatEmptySeq DEF Bytes
<1>6. readMany(n, WireReader, text) = Read(vs, <<>>) BY <1>3, <1>4, <1>5
<1>7. ASSUME n > 0
      PROVE  /\ most = Read(SubSeq(vs, 1, n - 1), most.rest)
             /\ ReadNext(most.rest).end # "none"
  <2> DEFINE ws == SubSeq(vs, 1, n - 1)
             us == SubSeq(ts, 1, n - 1)
  <2>0. n \in Nat /\ n \in 1 .. n BY <1>7
  <2>1. /\ ws \in Seq(Values) /\ Len(ws) = n - 1 /\ vs[n] \in Values
        /\ us = [i \in DOMAIN ws |-> Text(ws[i])]
    <3>1. ws \in Seq(Values) /\ Len(ws) = n - 1 /\ vs[n] \in Values
          /\ \A i \in 1 .. n - 1 : ws[i] = vs[i]
      <4>1. vs # <<>> BY <1>7, EmptySeq
      <4> QED BY <4>1, Front
    <3>2. DOMAIN ws = 1 .. n - 1 BY <3>1
    <3>3. us \in Seq(Bytes) /\ Len(us) = n - 1 /\ \A i \in 1 .. n - 1 : us[i] = ts[i]
      <4>1. ts # <<>> BY <1>4, <1>7, EmptySeq
      <4> QED BY <4>1, <1>4, Front
    <3>4. \A i \in 1 .. n : ts[i] = Text(vs[i]) BY <1>1, <2>0
    <3>5. us = [i \in 1 .. n - 1 |-> us[i]] BY <3>3
    <3>6. \A i \in 1 .. n - 1 : us[i] = Text(ws[i]) BY <3>1, <3>3, <3>4, <2>0
    <3> HIDE DEF us, ws
    <3> QED BY <3>1, <3>2, <3>5, <3>6
  <2>2. ts[n] = Text(vs[n]) BY <1>1, <2>0
  <2>3. ts # <<>> BY <1>4, <1>7, EmptySeq
  <2> DEFINE a == Joined(us)
             b == ts[n]
  <2>4. text = a \o b BY <2>3, <1>3, <1>4, JoinedLast
  <2>5. b \in Bytes /\ b # <<>>
    <3>1. 0 \in Nat OBVIOUS
    <3> QED BY <3>1, <2>1, <2>2, WireReads
  <2>6. \A u \in Bytes : a \in Bytes /\ readMany(n - 1, WireReader, a \o u) = Read(ws, u)
    BY <2>1, ManyNext
  <2> HIDE DEF a, b, text, ws
  <2>7. a \in Bytes BY <2>6, <1>2
  <2>8. PICK p \in Cuts(b) : SubSeq(text, 1, Len(text) - 1) = a \o p
    BY <2>4, <2>5, <2>7, ButTheLast
  <2>9. p \in Bytes BY DEF Cuts
  <2>10. most = Read(ws, p) BY <2>6, <2>8, <2>9
  <2>11. Stops(ReadNext(p))
    <3>1. p \in Cuts(Text(vs[n])) BY <2>2, <2>8 DEF b
    <3> QED BY <3>1, <2>1, NextReads
  <2> HIDE DEF most
  <2>12. most.rest = p BY <2>10, ReadFields
  <2>13. ReadNext(p).end # "none" BY <2>11 DEF Stops
  <2> QED BY <2>10, <2>12, <2>13 DEF ws
<1> QED BY <1>6, <1>7
=============================================================================
