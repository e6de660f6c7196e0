--------------------------- MODULE NodeCodecProofs ---------------------------
(***************************************************************************)
(* The reader of node records, for every base, every capacity and every    *)
(* set of nodes: a record is decoded only if it is the encoding of what    *)
(* comes out, an undamaged record gives back its node, and decode_hash     *)
(* sees the hash that the decoder of whole nodes sees.                     *)
(*                                                                         *)
(* In order: FlattenSeq and the numbers, which are defined by recursion;   *)
(* the types of fields and where they stand in a record; the fields of a   *)
(* node; the reader's invariant (ReaderInv); what is due while an          *)
(* undamaged record is read (Planned) and RoundTripInv; HashInv.           *)
(***************************************************************************)
EXTENDS NodeCodec, SequenceTheorems, WellFoundedInduction, TLAPS

(* What holds at the start of an interval and passes from each number to   *)
(* the next holds on all of it.                                            *)
LEMMA UpTo ==
  ASSUME NEW lo \in Int, NEW hi \in Int, NEW S,
         lo \in S,
         \A k \in lo .. hi - 1 : k \in S => k + 1 \in S
  PROVE  \A k \in lo .. hi : k \in S
<1> SUFFICES ASSUME NEW k0 \in lo .. hi, k0 \notin S
             PROVE  FALSE
  OBVIOUS
<1> DEFINE T == {k - lo : k \in {j \in lo .. hi : j \notin S}}
<1>1. T \subseteq Nat /\ k0 - lo \in T
  OBVIOUS
<1>2. PICK m \in T : \A y \in T : ~(<<y, m>> \in OpToRel(<, Nat))
  BY <1>1, WFMin, NatLessThanWellFounded
<1>3. \A y \in T : ~(y < m)
  BY <1>1, <1>2 DEF OpToRel
<1>4. PICK k \in lo .. hi : k \notin S /\ m = k - lo
  OBVIOUS
<1>5. k - 1 \in lo .. hi - 1
  BY <1>4
<1>6. k - 1 \in S
  <2>1. k - 1 \notin S => (k - 1) - lo \in T
    BY <1>5
  <2> HIDE DEF T
  <2>2. (k - 1) - lo < m
    BY <1>4
  <2> QED
    BY <1>3, <2>1, <2>2
<1>7. (k - 1) + 1 \in S
  BY <1>5, <1>6
<1> QED
  BY <1>4, <1>7

-----------------------------------------------------------------------------
(* FlattenSeq concatenates from the left.                                  *)
IsFlat(f, s, n) == f = [i \in 1 .. n |-> IF i = 1 THEN s[i] ELSE f[i - 1] \o s[i]]

SameUpTo(s, t, n) == \A i \in 1 .. n : s[i] = t[i]

(* FlattenSeq is defined by recursion on the length; the recursion has a   *)
(* solution.                                                               *)
LEMMA FlatExists ==
  ASSUME NEW s, NEW n \in Nat, n > 0
  PROVE  \E f : IsFlat(f, s, n)
<1> DEFINE S == {k \in Nat : \E f : IsFlat(f, s, k)}
<1>1. 1 \in S
  <2>1. IsFlat([i \in 1 .. 1 |-> s[1]], s, 1)
    BY DEF IsFlat
  <2> QED
    BY <2>1
<1>2. ASSUME NEW k \in 1 .. n - 1, k \in S
      PROVE  k + 1 \in S
  <2>1. PICK f : IsFlat(f, s, k)
    BY <1>2
  <2> DEFINE h == [i \in 1 .. k + 1 |-> IF i = k + 1 THEN f[k] \o s[k + 1] ELSE f[i]]
  <2>2. ASSUME NEW i \in 1 .. k + 1
        PROVE  h[i] = IF i = 1 THEN s[i] ELSE h[i - 1] \o s[i]
    <3>1. CASE i = k + 1
      <4>0. k \in Nat /\ k > 0 /\ k \in 1 .. k + 1 /\ k # k + 1
        OBVIOUS
      <4>1. h[i] = f[k] \o s[i] /\ i # 1 /\ i - 1 = k /\ h[k] = f[k]
        <5>1. h[i] = f[k] \o s[k + 1]
          BY <3>1
        <5>2. h[k] = f[k]
          BY <4>0
        <5>3. i # 1 /\ i - 1 = k
          BY <3>1, <4>0
        <5> QED
          BY <3>1, <5>1, <5>2, <5>3
      <4> QED
        BY <4>1, Zenon
    <3>2. CASE i \in 1 .. k
      <4>1. f[i] = IF i = 1 THEN s[i] ELSE f[i - 1] \o s[i]
        BY <2>1, <3>2, Zenon DEF IsFlat
      <4>2. h[i] = f[i] /\ (i # 1 => h[i - 1] = f[i - 1])
        BY <3>2
      <4> QED
        BY <4>1, <4>2, Zenon
    <3> QED
      BY <3>1, <3>2
  <2>3. h = [i \in 1 .. k + 1 |-> h[i]]
    OBVIOUS
  <2> HIDE DEF h
  <2>4. IsFlat(h, s, k + 1)
    BY <2>2, <2>3, Zenon DEF IsFlat
  <2> QED
    BY <2>4
<1> HIDE DEF S
<1>3. n \in S
  BY <1>1, <1>2, UpTo
<1> QED
  BY <1>3 DEF S

(* What FlattenSeq returns.                                                *)
LEMMA FlatDef ==
  ASSUME NEW s, Len(s) \in Nat, Len(s) > 0
  PROVE  \E f : IsFlat(f, s, Len(s)) /\ FlattenSeq(s) = f[Len(s)]
<1> DEFINE n == Len(s)
           f == CHOOSE g : IsFlat(g, s, n)
<1>1. FlattenSeq(s) = f[n]
  BY DEF FlattenSeq, IsFlat
<1> HIDE DEF n
<1>2. IsFlat(f, s, n)
  <2>1. \E g : IsFlat(g, s, n)
    BY FlatExists DEF n
  <2> QED
    BY <2>1, Zenon
<1> QED
  BY <1>1, <1>2 DEF n

(* Equal sequences so far are concatenated to the same so far.             *)
LEMMA FlatSame ==
  ASSUME NEW s, NEW t, NEW f, NEW g, NEW n \in Nat, n > 0,
         IsFlat(f, s, n), IsFlat(g, t, n + 1),
         SameUpTo(s, t, n)
  PROVE  f[n] = g[n]
<1> DEFINE S == {k \in 1 .. n : f[k] = g[k]}
<1>1. /\ \A i \in 1 .. n : f[i] = IF i = 1 THEN s[i] ELSE f[i - 1] \o s[i]
      /\ \A i \in 1 .. n + 1 : g[i] = IF i = 1 THEN t[i] ELSE g[i - 1] \o t[i]
  BY Zenon DEF IsFlat
<1>0. \A i \in 1 .. n : s[i] = t[i]
  BY DEF SameUpTo
<1>2. 1 \in S
  BY <1>0, <1>1
<1>3. ASSUME NEW k \in 1 .. n - 1, k \in S
      PROVE  k + 1 \in S
  <2>1. k + 1 \in 1 .. n /\ k + 1 \in 1 .. n + 1 /\ k + 1 # 1 /\ (k + 1) - 1 = k /\ f[k] = g[k]
    BY <1>3
  <2>2. f[k + 1] = f[k] \o s[k + 1] /\ g[k + 1] = g[k] \o t[k + 1]
    BY <1>1, <2>1, Zenon
  <2> QED
    BY <1>0, <2>1, <2>2
<1>4. \A k \in 1 .. n - 1 : k \in S => k + 1 \in S
  BY <1>3
<1> HIDE DEF S
<1>5. \A k \in 1 .. n : k \in S
  <2>1. 1 \in Int /\ n \in Int
    OBVIOUS
  <2> QED
    BY ONLY <1>2, <1>4, <2>1, UpTo
<1> QED
  BY <1>5 DEF S

(* An element more is concatenated behind what there was.                  *)
LEMMA FlattenAppend ==
  ASSUME NEW S, NEW s \in Seq(Seq(S)), NEW x \in Seq(S)
  PROVE  FlattenSeq(Append(s, x)) = FlattenSeq(s) \o x
<1> DEFINE n == Len(s)
           t == Append(s, x)
<1>1. /\ n \in Nat /\ Len(t) = n + 1 /\ t[n + 1] = x
      /\ \A i \in 1 .. n : t[i] = s[i]
  <2>1. s \in Seq(Seq(S)) /\ x \in Seq(S)
    OBVIOUS
  <2> QED
    BY <2>1, AppendProperties, LenProperties
<1> HIDE DEF n, t
<1>2. PICK g : IsFlat(g, t, n + 1) /\ FlattenSeq(t) = g[n + 1]
  BY <1>1, FlatDef
<1>3. \A i \in 1 .. n + 1 : g[i] = IF i = 1 THEN t[i] ELSE g[i - 1] \o t[i]
  BY <1>2, Zenon DEF IsFlat
<1>4. CASE n = 0
  <2>1. s = <<>>
    BY <1>4, EmptySeq DEF n
  <2>2. FlattenSeq(s) = <<>>
    BY <1>4, <2>1 DEF FlattenSeq, n
  <2>3. g[n + 1] = x
    BY <1>1, <1>3, <1>4
  <2> QED
    BY <1>2, <2>2, <2>3, ConcatEmptySeq DEF t
<1>5. CASE n > 0
  <2>1. PICK f : IsFlat(f, s, n) /\ FlattenSeq(s) = f[n]
    BY <1>1, <1>5, FlatDef DEF n
  <2>2. f[n] = g[n]
    <3>1. n \in Nat /\ n > 0 /\ IsFlat(f, s, n) /\ IsFlat(g, t, n + 1)
      BY <1>1, <1>2, <1>5, <2>1
    <3>2. SameUpTo(s, t, n)
      BY <1>1, Zenon DEF SameUpTo
    <3> QED
      BY <3>1, <3>2, FlatSame
  <2>3. g[n + 1] = g[n] \o x
    <3>1. n + 1 \in 1 .. n + 1 /\ n + 1 # 1 /\ (n + 1) - 1 = n
      BY <1>1, <1>5
    <3> QED
      BY <1>1, <1>3, <3>1, Zenon
  <2> QED
    BY <1>2, <2>1, <2>2, <2>3 DEF t
<1> QED
  BY <1>1, <1>4, <1>5

(* No sequences are concatenated to nothing.                               *)
LEMMA FlattenEmpty ==
  FlattenSeq(<<>>) = <<>>
  BY DEF FlattenSeq

(* Every sequence is built by appending.                                   *)
LEMMA FrontAndLast ==
  ASSUME NEW S, NEW s \in Seq(S), NEW k \in 1 .. Len(s)
  PROVE  /\ SubSeq(s, 1, k) = Append(SubSeq(s, 1, k - 1), s[k])
         /\ SubSeq(s, 1, k - 1) \in Seq(S) /\ s[k] \in S
         /\ Len(SubSeq(s, 1, k)) = k
<1>1. \A i \in 1 .. Len(s) : s[i] \in S
  BY ElementOfSeq
<1>2. Len(s) \in Nat
  BY LenProperties
<1>3. SubSeq(s, 1, k - 1) \in Seq(S) /\ Len(SubSeq(s, 1, k)) = k
  BY <1>1, <1>2, SubSeqProperties
<1>4. SubSeq(s, 1, k) = SubSeq(s, 1, k - 1) \o <<s[k]>>
  BY SubSeqRecursiveSecond
<1>5. Append(SubSeq(s, 1, k - 1), s[k]) = SubSeq(s, 1, k - 1) \o <<s[k]>>
  BY <1>1, <1>3, AppendIsConcat
<1> QED
  BY <1>1, <1>3, <1>4, <1>5

(* Sequences of elements are concatenated to a sequence of elements.       *)
LEMMA FlattenType ==
  ASSUME NEW S, NEW s \in Seq(Seq(S))
  PROVE  FlattenSeq(s) \in Seq(S)
<1> DEFINE Part(k) == SubSeq(s, 1, k)
           Ok == {k \in 0 .. Len(s) : FlattenSeq(Part(k)) \in Seq(S)}
<1>0. Len(s) \in Nat
  BY LenProperties
<1>1. 0 \in Ok
  <2>1. Part(0) = <<>>
    BY SubSeqEmpty
  <2>2. <<>> \in Seq(S)
    BY EmptySeq
  <2> HIDE DEF Part
  <2>3. FlattenSeq(Part(0)) \in Seq(S)
    BY <2>1, <2>2, FlattenEmpty, Zenon
  <2> QED
    BY <1>0, <2>3
<1>2. ASSUME NEW k \in 0 .. Len(s) - 1, k \in Ok
      PROVE  k + 1 \in Ok
  <2>1. k + 1 \in 1 .. Len(s) /\ (k + 1) - 1 = k
    BY <1>0
  <2>2. Part(k + 1) = Append(Part(k), s[k + 1]) /\ Part(k) \in Seq(Seq(S)) /\ s[k + 1] \in Seq(S)
    BY <2>1, FrontAndLast
  <2> HIDE DEF Part
  <2>3. FlattenSeq(Part(k + 1)) = FlattenSeq(Part(k)) \o s[k + 1]
    BY <2>2, FlattenAppend
  <2>4. FlattenSeq(Part(k)) \in Seq(S)
    BY <1>2
  <2>5. \A a, b \in Seq(S) : a \o b \in Seq(S)
    BY ConcatProperties
  <2>6. FlattenSeq(Part(k + 1)) \in Seq(S)
    BY <2>2, <2>3, <2>4, <2>5, Zenon
  <2> QED
    BY <1>0, <2>6
<1>5. \A k \in 0 .. Len(s) - 1 : k \in Ok => k + 1 \in Ok
  BY <1>2
<1> HIDE DEF Ok
<1>3. Len(s) \in Ok
  <2> DEFINE n == Len(s)
  <2>1. n \in Nat /\ 0 \in Int /\ n \in Int /\ n \in 0 .. n
    BY <1>0
  <2>2. \A k \in 0 .. n - 1 : k \in Ok => k + 1 \in Ok
    BY <1>5
  <2> HIDE DEF n
  <2>3. \A k \in 0 .. n : k \in Ok
    BY ONLY <1>1, <2>1, <2>2, UpTo
  <2> QED
    BY <2>1, <2>3 DEF n
<1>4. Part(Len(s)) = s
  BY SubSeqFull
<1> HIDE DEF Part
<1> QED
  BY <1>3, <1>4 DEF Ok

-----------------------------------------------------------------------------
(* Quotient and remainder.                                                 *)
Divided(m, b, q, r) == b \in Nat /\ b > 0 /\ q \in Int /\ r \in 0 .. b - 1 /\ m = b * q + r

(* What quotient and remainder are is given by the division with remainder.*)
LEMMA DivMod ==
  ASSUME NEW m, NEW b, NEW q, NEW r, Divided(m, b, q, r)
  PROVE  m \div b = q /\ m % b = r
<1>0. b \in Nat /\ b > 0 /\ q \in Int /\ r \in 0 .. b - 1 /\ m = b * q + r
  BY DEF Divided
<1> DEFINE d == m \div b
           e == m % b
<1>1. m \in Int /\ d \in Int /\ e \in 0 .. b - 1 /\ m = b * d + e
  BY <1>0
<1> HIDE DEF d, e
<1>2. ASSUME q < d PROVE FALSE
  <2>1. b * (q + 1) <= b * d
    BY <1>0, <1>1, <1>2
  <2>2. b * (q + 1) = b * q + b
    BY <1>0
  <2> QED
    BY <1>0, <1>1, <2>1, <2>2
<1>3. ASSUME d < q PROVE FALSE
  <2>1. b * (d + 1) <= b * q
    BY <1>0, <1>1, <1>3
  <2>2. b * (d + 1) = b * d + b
    BY <1>0, <1>1
  <2> QED
    BY <1>0, <1>1, <2>1, <2>2
<1>4. q = d
  BY <1>0, <1>1, <1>2, <1>3
<1>5. r = e
  BY <1>0, <1>1, <1>4
<1> QED
  BY <1>4, <1>5 DEF d, e

(* The digits, spelt out.                                                  *)
LEMMA BaseFacts == Base \in Nat /\ Base > 2 /\ Bytes = 0 .. Base - 1
  BY CodecAssumption DEF Bytes

(* The places, spelt out.                                                  *)
LEMMA PlaceFacts ==
  Place[1] = 1 /\ Place[2] = Base /\ Place[3] = Base * Base
  BY DEF Place

(* What Number computes.                                                   *)
Weighed(raw, n) == IF n = 1 THEN raw[1]
                   ELSE IF n = 2 THEN raw[1] * Base + raw[2]
                   ELSE (raw[1] * Base + raw[2]) * Base + raw[3]

(* Number weighs up to three digits.                                       *)
LEMMA NumberDef ==
  ASSUME NEW raw \in Seq(Bytes), Len(raw) \in 1 .. 3
  PROVE  Number(raw) = Weighed(raw, Len(raw))
<1> DEFINE n == Len(raw)
           P(f) == f = [i \in 0 .. n |-> IF i = 0 THEN 0 ELSE f[i - 1] * Base + raw[i]]
           v1 == 0 * Base + raw[1]
           v2 == v1 * Base + raw[2]
           v3 == v2 * Base + raw[3]
           g == [i \in 0 .. n |-> IF i = 0 THEN 0 ELSE IF i = 1 THEN v1 ELSE IF i = 2 THEN v2 ELSE v3]
           upto == CHOOSE f : P(f)
<1>1. Number(raw) = upto[n]
  BY DEF Number
<1>2. n \in 1 .. 3 /\ \A i \in 1 .. n : raw[i] \in Nat
  BY ElementOfSeq, BaseFacts
<1> HIDE DEF n
<1>3. P(g)
  <2> HIDE DEF v1, v2, v3
  <2>1. /\ g[0] = 0 /\ g[1] = v1
        /\ n >= 2 => g[2] = v2
        /\ n = 3 => g[3] = v3
    BY <1>2
  <2>2. g = [i \in 0 .. n |-> g[i]]
    OBVIOUS
  <2> HIDE DEF g
  <2>3. ASSUME NEW i \in 0 .. n
        PROVE  g[i] = IF i = 0 THEN 0 ELSE g[i - 1] * Base + raw[i]
    <3>1. CASE i = 0
      BY <2>1, <3>1
    <3>2. CASE i = 1
      <4>1. g[i - 1] = 0 /\ g[i] = v1 /\ i # 0
        BY <2>1, <3>2
      <4> QED
        BY <3>2, <4>1, Zenon DEF v1
    <3>3. CASE i = 2
      <4>1. g[i - 1] = v1 /\ g[i] = v2 /\ i # 0
        BY <1>2, <2>1, <3>3
      <4> QED
        BY <3>3, <4>1, Zenon DEF v2
    <3>4. CASE i = 3
      <4>1. g[i - 1] = v2 /\ g[i] = v3 /\ i # 0
        BY <1>2, <2>1, <3>4
      <4> QED
        BY <3>4, <4>1, Zenon DEF v3
    <3> QED
      BY <1>2, <3>1, <3>2, <3>3, <3>4
  <2> QED
    BY <2>2, <2>3, Zenon
<1>4. P(upto)
  <2> HIDE DEF P, g
  <2> QED
    BY <1>3
<1> HIDE DEF upto, g
<1>5. \A i \in 0 .. n : upto[i] = IF i = 0 THEN 0 ELSE upto[i - 1] * Base + raw[i]
  BY <1>4, Zenon
<1> HIDE DEF P
<1>6. upto[0] = 0
  BY <1>2, <1>5
<1>7. upto[1] = raw[1]
  <2>1. 1 \in 0 .. n /\ 1 # 0 /\ 1 - 1 = 0
    BY <1>2
  <2>2. upto[1] = upto[0] * Base + raw[1]
    BY <1>5, <2>1, Zenon
  <2> QED
    BY <1>2, <1>6, <2>2, BaseFacts
<1>8. n >= 2 => upto[2] = raw[1] * Base + raw[2]
  <2> SUFFICES ASSUME n >= 2 PROVE upto[2] = raw[1] * Base + raw[2]
    OBVIOUS
  <2>1. 2 \in 0 .. n /\ 2 # 0 /\ 2 - 1 = 1
    BY <1>2
  <2> QED
    BY <1>5, <1>7, <2>1, Zenon
<1>9. n = 3 => upto[3] = (raw[1] * Base + raw[2]) * Base + raw[3]
  <2> SUFFICES ASSUME n = 3 PROVE upto[3] = (raw[1] * Base + raw[2]) * Base + raw[3]
    OBVIOUS
  <2>1. 3 \in 0 .. n /\ 3 # 0 /\ 3 - 1 = 2
    BY <1>2
  <2>2. upto[2] = raw[1] * Base + raw[2]
    BY <1>8
  <2> QED
    BY <1>5, <2>1, <2>2, Zenon
<1> QED
  BY <1>1, <1>2, <1>7, <1>8, <1>9 DEF Weighed, n

(* A number that was read is written back as it was.                       *)
LEMMA NumberTaken ==
  ASSUME NEW raw \in Seq(Bytes), Len(raw) \in 1 .. 3
  PROVE  Number(raw) \in Nat /\ Digits(Number(raw), Len(raw)) = raw
<1> DEFINE n == Len(raw)
           a == raw[1]
           b == raw[2]
           c == raw[3]
           v == Number(raw)
           d == Digits(v, n)
<1>1. v = Weighed(raw, n)
  BY NumberDef
<1>2. n \in 1 .. 3 /\ \A i \in 1 .. n : raw[i] \in Bytes
  BY ElementOfSeq
<1>3. Base \in Nat /\ Base > 2 /\ Bytes = 0 .. Base - 1
  BY BaseFacts
<1>4. raw \in [1 .. n -> Bytes]
  BY LenProperties
<1>5. d = [i \in 1 .. n |-> (v \div Place[n - i + 1]) % Base]
  BY DEF Digits
<1> HIDE DEF n, v, d
<1>6. CASE n = 1
  <2>1. a \in 0 .. Base - 1 /\ v = a
    BY <1>1, <1>2, <1>3, <1>6 DEF Weighed
  <2> HIDE DEF a
  <2>2. v \in Nat /\ (v \div 1) % Base = a
    BY <1>3, <2>1
  <2>3. \A i \in 1 .. n : (v \div Place[n - i + 1]) % Base = raw[i]
    BY <1>6, <2>2, PlaceFacts DEF a
  <2> QED
    BY <1>4, <1>5, <2>2, <2>3 DEF n, v, d
<1>7. CASE n = 2
  <2>1. a \in 0 .. Base - 1 /\ b \in 0 .. Base - 1 /\ v = Base * a + b
    BY <1>1, <1>2, <1>3, <1>7 DEF Weighed
  <2> HIDE DEF a, b
  <2>5. Divided(v, Base, a, b)
    BY <1>3, <2>1 DEF Divided
  <2>6. v \in Nat /\ v \div 1 = v
    BY <1>3, <2>1
  <2>2. v \in Nat /\ v \div Base = a /\ v % Base = b /\ v \div 1 = v
    BY <2>5, <2>6, DivMod
  <2>3. a % Base = a
    BY <1>3, <2>1
  <2>4. \A i \in 1 .. n : (v \div Place[n - i + 1]) % Base = raw[i]
    BY <1>7, <2>2, <2>3, PlaceFacts DEF a, b
  <2> QED
    BY <1>4, <1>5, <2>2, <2>4 DEF n, v, d
<1>8. CASE n = 3
  <2>1. /\ a \in 0 .. Base - 1 /\ b \in 0 .. Base - 1 /\ c \in 0 .. Base - 1
        /\ v = (a * Base + b) * Base + c
    BY <1>1, <1>2, <1>3, <1>8 DEF Weighed
  <2> HIDE DEF a, b, c
  <2> DEFINE ab == a * Base + b
             bc == b * Base + c
             sq == Base * Base
  <2>2. /\ ab \in Nat /\ v = Base * ab + c /\ ab = Base * a + b
        /\ sq \in Nat /\ sq > 0 /\ v = sq * a + bc
    BY <1>3, <2>1
  <2>3. bc \in 0 .. sq - 1
    <3>1. b * Base <= (Base - 1) * Base /\ (Base - 1) * Base = sq - Base /\ b * Base >= 0
      BY <1>3, <2>1
    <3> QED
      BY <1>3, <2>1, <3>1
  <2> HIDE DEF ab, bc, sq
  <2>4. Divided(v, Base, ab, c) /\ Divided(ab, Base, a, b) /\ Divided(v, sq, a, bc)
    BY <1>3, <2>1, <2>2, <2>3 DEF Divided
  <2>5. v \div Base = ab /\ v % Base = c /\ ab % Base = b
    BY <2>4, DivMod
  <2>6. v \div sq = a
    BY <2>4, DivMod
  <2>7. v \in Nat /\ v \div 1 = v /\ a % Base = a
    BY <1>3, <2>1, <2>2
  <2>8. \A i \in 1 .. n : (v \div Place[n - i + 1]) % Base = raw[i]
    <3>1. /\ (v \div Place[3]) % Base = raw[1] /\ (v \div Place[2]) % Base = raw[2]
          /\ (v \div Place[1]) % Base = raw[3]
      BY <2>5, <2>6, <2>7, PlaceFacts DEF a, b, c, sq
    <3>2. \A i \in 1 .. 3 : i = 1 \/ i = 2 \/ i = 3
      OBVIOUS
    <3>3. 3 - 1 + 1 = 3 /\ 3 - 2 + 1 = 2 /\ 3 - 3 + 1 = 1
      OBVIOUS
    <3> QED
      BY <1>8, <3>1, <3>2, <3>3, Zenon
  <2> QED
    BY <1>4, <1>5, <2>7, <2>8 DEF n, v, d
<1> QED
  BY <1>2, <1>6, <1>7, <1>8

(* A number that fits is read as what was written.                         *)
Limit(w) == IF w = 1 THEN Base ELSE IF w = 2 THEN Base * Base ELSE Base * Base * Base

(* take_u32 and take_u64 give back what put_u32 and put_u64 were given.    *)
LEMMA NumberWritten ==
  ASSUME NEW w \in 1 .. 3, NEW v \in 0 .. Limit(w) - 1
  PROVE  /\ Digits(v, w) \in Seq(Bytes) /\ Len(Digits(v, w)) = w
         /\ Number(Digits(v, w)) = v
<1> DEFINE raw == Digits(v, w)
           q == v \div Base
           r == v % Base
           p == q \div Base
           s == q % Base
<1>1. Base \in Nat /\ Base > 2 /\ Bytes = 0 .. Base - 1
  BY BaseFacts
<1>2. v \in Nat /\ v < Limit(w)
  <2>1. Limit(w) \in Nat
    <3>1. Base * Base \in Nat
      BY <1>1
    <3>2. Base * Base * Base \in Nat
      BY <1>1, <3>1
    <3> QED
      BY <1>1, <3>1, <3>2 DEF Limit
  <2> QED
    BY <2>1
<1>3. \A i \in 1 .. w : (v \div Place[w - i + 1]) % Base \in Bytes
  <2>1. \A k \in 1 .. 3 : Place[k] \in Nat /\ Place[k] > 0
    BY <1>1, PlaceFacts
  <2>2. \A k \in 1 .. 3 : v \div Place[k] \in Int
    BY <1>2, <2>1
  <2>3. \A x \in Int : x % Base \in Bytes
    BY <1>1
  <2> QED
    BY <2>2, <2>3
<1>4. raw \in Seq(Bytes) /\ Len(raw) = w /\ \A i \in 1 .. w : raw[i] = (v \div Place[w - i + 1]) % Base
  BY <1>3 DEF Digits
<1> HIDE DEF raw
<1>5. Number(raw) = Weighed(raw, w)
  BY <1>4, NumberDef
<1>6. /\ v = Base * q + r /\ r \in 0 .. Base - 1 /\ q \in Nat
      /\ q = Base * p + s /\ s \in 0 .. Base - 1 /\ p \in Nat
  <2>1. v = Base * q + r /\ r \in 0 .. Base - 1 /\ q \in Nat
    BY <1>1, <1>2
  <2> HIDE DEF q
  <2> QED
    BY <1>1, <2>1
<1>7. ASSUME w = 1 PROVE Number(raw) = v
  <2>1. raw[1] = (v \div 1) % Base
    BY <1>4, <1>7, PlaceFacts
  <2> QED
    BY <1>1, <1>2, <1>5, <1>7, <2>1 DEF Weighed, Limit
<1>8. ASSUME w = 2 PROVE Number(raw) = v
  <2>1. raw[1] = s /\ raw[2] = (v \div 1) % Base
    BY <1>4, <1>8, PlaceFacts
  <2>2. raw[2] = r
    BY <1>2, <2>1
  <2> HIDE DEF q, r, p, s
  <2>3. p = 0
    <3>1. p >= 1 => Base * p >= Base
      BY <1>1, <1>6
    <3>2. q >= Base => Base * q >= Base * Base
      BY <1>1, <1>6
    <3> QED
      BY <1>1, <1>2, <1>6, <1>8, <3>1, <3>2 DEF Limit
  <2>4. q = s
    BY <1>1, <1>6, <2>3
  <2> QED
    BY <1>1, <1>5, <1>6, <1>8, <2>1, <2>2, <2>4 DEF Weighed
<1>9. ASSUME w = 3 PROVE Number(raw) = v
  <2> DEFINE sq == Base * Base
             t == s * Base + r
  <2>1. raw[1] = (v \div sq) % Base /\ raw[2] = s /\ raw[3] = (v \div 1) % Base
    <3>1. \A i \in 1 .. 3 : raw[i] = (v \div Place[3 - i + 1]) % Base
      BY <1>4, <1>9
    <3>2. 3 - 1 + 1 = 3 /\ 3 - 2 + 1 = 2 /\ 3 - 3 + 1 = 1 /\ 1 \in 1 .. 3 /\ 2 \in 1 .. 3 /\ 3 \in 1 .. 3
      OBVIOUS
    <3>3. raw[1] = (v \div Place[3]) % Base /\ raw[2] = (v \div Place[2]) % Base /\ raw[3] = (v \div Place[1]) % Base
      BY <3>1, <3>2
    <3> QED
      BY <3>3, PlaceFacts
  <2>2. raw[3] = r
    BY <1>2, <2>1
  <2> HIDE DEF q, r, p, s
  <2>3. sq \in Nat /\ sq > 0 /\ v = sq * p + t
    BY <1>1, <1>6
  <2>4. t \in 0 .. sq - 1
    <3>1. s * Base <= (Base - 1) * Base /\ (Base - 1) * Base = sq - Base /\ s * Base >= 0
      BY <1>1, <1>6
    <3> QED
      BY <1>1, <1>6, <3>1
  <2>5. v < sq * Base
    BY <1>2, <1>9 DEF Limit
  <2> HIDE DEF sq, t
  <2>6. v \div sq = p
    <3>1. Divided(v, sq, p, t)
      BY <1>6, <2>3, <2>4 DEF Divided
    <3> QED
      BY <3>1, DivMod
  <2>7. p < Base
    <3>1. p >= Base => sq * p >= sq * Base
      BY <1>1, <1>6, <2>3
    <3>2. sq * Base \in Nat /\ sq * p \in Nat
      BY <1>1, <1>6, <2>3
    <3> QED
      BY <1>1, <1>6, <2>3, <2>4, <2>5, <3>1, <3>2
  <2>8. raw[1] = p
    BY <1>1, <1>6, <2>1, <2>6, <2>7
  <2>9. v = (raw[1] * Base + raw[2]) * Base + raw[3]
    BY <1>1, <1>6, <2>1, <2>2, <2>8
  <2> QED
    BY <1>5, <1>9, <2>9 DEF Weighed
<1> QED
  BY <1>4, <1>7, <1>8, <1>9 DEF raw

-----------------------------------------------------------------------------
(* Fields as they may come out of a record, and as encode_node writes them *)
(* for a node: numbers fit, arrays have their length.                      *)
Names == Numeric \cup ArrayNames
Entries == (Numeric \X Nat) \cup (ArrayNames \X Seq(Bytes))
Storable ==
  {f \in Entries : /\ f[1] \in Numeric => f[2] \in 0 .. Limit(Width[f[1]]) - 1
                   /\ f[1] \in ArrayNames \ {"data"} => Len(f[2]) = 2}

(* What may be due: the width of a number is given by its name.            *)
Plans == {d \in Names \X Nat : d[1] \in Numeric => d[2] = Width[d[1]]}

(* The numeric fields and their widths, spelt out.                         *)
LEMMA WidthFacts ==
  /\ Numeric = {"tree", "leaf", "block", "body_tag", "asset_tag", "bundle", "blocks", "blob"}
  /\ Width["tree"] = 2 /\ Width["leaf"] = 2 /\ Width["block"] = 3 /\ Width["body_tag"] = 1
  /\ Width["asset_tag"] = 1 /\ Width["bundle"] = 2 /\ Width["blocks"] = 2 /\ Width["blob"] = 2
  BY DEF Numeric, Width

(* A field is a number or raw bytes, and numbers have one to three digits. *)
LEMMA NamesApart ==
  /\ Numeric \cap ArrayNames = {}
  /\ \A name \in Numeric : Width[name] \in 1 .. 3
<1>1. Numeric \cap ArrayNames = {}
  BY WidthFacts DEF ArrayNames
<1>2. \A name \in Numeric : Width[name] \in 1 .. 3
  BY WidthFacts
<1> QED
  BY <1>1, <1>2

(* The parts of an entry.                                                  *)
LEMMA EntryParts ==
  ASSUME NEW f \in Entries
  PROVE  /\ f = <<f[1], f[2]>>
         /\ \/ f[1] \in Numeric /\ f[2] \in Nat
            \/ f[1] \in ArrayNames /\ f[1] \notin Numeric /\ f[2] \in Seq(Bytes)
<1>1. Numeric \cap ArrayNames = {}
  BY NamesApart
<1> QED
  BY <1>1 DEF Entries

(* A number is written in as many bytes as its width says.                 *)
LEMMA DigitsType ==
  ASSUME NEW n \in Nat, NEW w \in 1 .. 3
  PROVE  Digits(n, w) \in Seq(Bytes) /\ Len(Digits(n, w)) = w
<1>1. \A k \in 1 .. 3 : Place[k] \in Nat /\ Place[k] > 0
  BY BaseFacts, PlaceFacts
<1>2. \A i \in 1 .. w : (n \div Place[w - i + 1]) % Base \in Bytes
  <2>1. \A k \in 1 .. 3 : n \div Place[k] \in Int
    BY <1>1
  <2>2. \A x \in Int : x % Base \in Bytes
    BY BaseFacts
  <2> QED
    BY <2>1, <2>2
<1> QED
  BY <1>2 DEF Digits

(* Every field is written as bytes.                                        *)
LEMMA WrittenType ==
  ASSUME NEW f \in Entries
  PROVE  Written(f) \in Seq(Bytes)
<1>1. CASE f[1] \in Numeric /\ f[2] \in Nat
  <2>1. Width[f[1]] \in 1 .. 3
    BY <1>1, NamesApart
  <2>2. Written(f) = Digits(f[2], Width[f[1]])
    BY <1>1 DEF Written
  <2> QED
    BY <1>1, <2>1, <2>2, DigitsType
<1>2. CASE f[1] \notin Numeric /\ f[2] \in Seq(Bytes)
  BY <1>2 DEF Written
<1> QED
  BY <1>1, <1>2, EntryParts

(* One field more.                                                         *)
Writing(fields) == [i \in 1 .. Len(fields) |-> Written(fields[i])]

(* A field more is written behind the others.                              *)
LEMMA EncodedAppend ==
  ASSUME NEW fields \in Seq(Entries), NEW f \in Entries
  PROVE  /\ Encoded(Append(fields, f)) = Encoded(fields) \o Written(f)
         /\ Encoded(fields) \in Seq(Bytes) /\ Written(f) \in Seq(Bytes)
         /\ Append(fields, f) \in Seq(Entries)
<1> DEFINE more == Append(fields, f)
           w == Written(f)
           s == Writing(fields)
           t == Writing(more)
<1>1. /\ more \in Seq(Entries) /\ Len(more) = Len(fields) + 1 /\ more[Len(fields) + 1] = f
      /\ \A i \in 1 .. Len(fields) : more[i] = fields[i]
  BY AppendProperties
<1>2. w \in Seq(Bytes)
  BY WrittenType
<1>3. Len(fields) \in Nat /\ \A i \in 1 .. Len(fields) : Written(fields[i]) \in Seq(Bytes)
  BY ElementOfSeq, LenProperties, WrittenType
<1>4. s \in Seq(Seq(Bytes)) /\ Len(s) = Len(fields) /\ \A i \in 1 .. Len(fields) : s[i] = Written(fields[i])
  BY <1>3 DEF Writing
<1>5. Append(s, w) = t
  <2> DEFINE n == Len(fields)
             u == Append(s, w)
  <2>1. /\ u \in Seq(Seq(Bytes)) /\ Len(u) = Len(s) + 1 /\ u[Len(s) + 1] = w
        /\ \A i \in 1 .. Len(s) : u[i] = s[i]
    BY <1>2, <1>4, AppendProperties
  <2>2. u \in [1 .. Len(u) -> Seq(Bytes)] /\ Len(u) = n + 1
    BY <1>4, <2>1, LenProperties
  <2>3. t = [i \in 1 .. n + 1 |-> Written(more[i])]
    BY <1>1 DEF Writing
  <2> HIDE DEF n, u, s, t, w, more
  <2>4. ASSUME NEW i \in 1 .. n + 1
        PROVE  u[i] = Written(more[i])
    <3>1. CASE i = n + 1
      <4>1. u[i] = w /\ more[i] = f
        BY <1>1, <1>4, <2>1, <3>1 DEF n
      <4> QED
        BY <4>1 DEF w
    <3>2. CASE i \in 1 .. n
      <4>1. u[i] = Written(fields[i]) /\ more[i] = fields[i]
        BY <1>1, <1>4, <2>1, <3>2 DEF n
      <4> QED
        BY <4>1
    <3> QED
      BY <1>3, <3>1, <3>2 DEF n
  <2>5. u = [i \in 1 .. n + 1 |-> u[i]]
    BY <2>2
  <2>6. u = t
    BY <2>3, <2>4, <2>5, Zenon
  <2> QED
    BY <2>6 DEF u
<1>6. Encoded(more) = FlattenSeq(t) /\ Encoded(fields) = FlattenSeq(s)
  BY Zenon DEF Encoded, Writing
<1> HIDE DEF s, t, w, more
<1>7. FlattenSeq(t) = FlattenSeq(s) \o w
  BY <1>2, <1>4, <1>5, FlattenAppend
<1>8. FlattenSeq(s) \in Seq(Bytes)
  BY <1>4, FlattenType
<1> QED
  BY <1>1, <1>2, <1>6, <1>7, <1>8 DEF w, more

(* No field is written as no byte.                                         *)
LEMMA EncodedNothing ==
  Encoded(<<>>) = <<>>
<1>1. Writing(<<>>) = <<>>
  BY DEF Writing
<1> QED
  BY <1>1, FlattenEmpty, Zenon DEF Encoded, Writing

(* A list of fields is written as bytes.                                   *)
LEMMA EncodedType ==
  ASSUME NEW fields \in Seq(Entries)
  PROVE  Encoded(fields) \in Seq(Bytes)
<1> DEFINE s == Writing(fields)
<1>1. Len(fields) \in Nat /\ \A i \in 1 .. Len(fields) : Written(fields[i]) \in Seq(Bytes)
  BY ElementOfSeq, LenProperties, WrittenType
<1>2. s \in Seq(Seq(Bytes))
  BY <1>1 DEF Writing
<1>3. Encoded(fields) = FlattenSeq(s)
  BY Zenon DEF Encoded, Writing
<1> HIDE DEF s
<1> QED
  BY <1>2, <1>3, FlattenType

(* Where the next field stands in a record.                                *)
StartsWith(s, a, b) == \E rest \in Seq(Bytes) : s = (a \o b) \o rest

(* Behind the first k fields of a record come the bytes of the next.       *)
LEMMA NextInRecord ==
  ASSUME NEW fields \in Seq(Entries), NEW k \in 0 .. Len(fields) - 1
  PROVE  StartsWith(Encoded(fields), Encoded(SubSeq(fields, 1, k)), Written(fields[k + 1]))
<1> DEFINE n == Len(fields)
           Part(j) == SubSeq(fields, 1, j)
           a == Encoded(Part(k))
           b == Written(fields[k + 1])
           S == {j \in Int : StartsWith(Encoded(Part(j)), a, b)}
<1>0. n \in Nat /\ k \in Nat /\ k + 1 \in 1 .. n
  BY LenProperties
<1>1. ASSUME NEW j \in 1 .. n
      PROVE  /\ Encoded(Part(j)) = Encoded(Part(j - 1)) \o Written(fields[j])
             /\ Encoded(Part(j - 1)) \in Seq(Bytes) /\ Written(fields[j]) \in Seq(Bytes)
  <2>1. Part(j) = Append(Part(j - 1), fields[j]) /\ Part(j - 1) \in Seq(Entries) /\ fields[j] \in Entries
    BY FrontAndLast
  <2> HIDE DEF Part
  <2> QED
    BY <2>1, EncodedAppend
<1> HIDE DEF n, Part
<1>2. k + 1 \in S
  <2>1. Encoded(Part(k + 1)) = a \o b /\ a \in Seq(Bytes) /\ b \in Seq(Bytes)
    <3>1. (k + 1) - 1 = k
      BY <1>0
    <3> QED
      BY <1>0, <1>1, <3>1
  <2> HIDE DEF a, b
  <2>2. a \o b \in Seq(Bytes)
    BY <2>1, ConcatProperties
  <2>3. a \o b = (a \o b) \o <<>> /\ <<>> \in Seq(Bytes)
    BY <2>2, ConcatEmptySeq, EmptySeq
  <2>4. StartsWith(Encoded(Part(k + 1)), a, b)
    BY <2>1, <2>3, Zenon DEF StartsWith
  <2> QED
    BY <1>0, <2>4 DEF a, b
<1>3. ASSUME NEW j \in k + 1 .. n - 1, j \in S
      PROVE  j + 1 \in S
  <2>1. PICK rest \in Seq(Bytes) : Encoded(Part(j)) = (a \o b) \o rest
    BY <1>3 DEF StartsWith
  <2> DEFINE w == Written(fields[j + 1])
  <2>2. Encoded(Part(j + 1)) = Encoded(Part(j)) \o w /\ w \in Seq(Bytes)
    <3>1. j + 1 \in 1 .. n /\ (j + 1) - 1 = j
      BY <1>0
    <3> QED
      BY <1>1, <3>1
  <2>3. a \in Seq(Bytes) /\ b \in Seq(Bytes)
    <3>1. (k + 1) - 1 = k
      BY <1>0
    <3> QED
      BY <1>0, <1>1, <3>1
  <2> HIDE DEF a, b, w
  <2>4. a \o b \in Seq(Bytes)
    BY <2>3, ConcatProperties
  <2>5. ((a \o b) \o rest) \o w = (a \o b) \o (rest \o w) /\ rest \o w \in Seq(Bytes)
    <3> DEFINE ab == a \o b
    <3>1. ab \in Seq(Bytes) /\ rest \in Seq(Bytes) /\ w \in Seq(Bytes)
      BY <2>2, <2>4
    <3> HIDE DEF ab
    <3>2. (ab \o rest) \o w = ab \o (rest \o w)
      BY <3>1, ConcatAssociative
    <3>3. rest \o w \in Seq(Bytes)
      BY <3>1, ConcatProperties
    <3> QED
      BY <3>2, <3>3 DEF ab
  <2>6. StartsWith(Encoded(Part(j + 1)), a, b)
    BY <2>1, <2>2, <2>5 DEF StartsWith
  <2> QED
    BY <1>0, <2>6 DEF a, b
<1>4. \A j \in k + 1 .. n - 1 : j \in S => j + 1 \in S
  BY <1>3
<1> HIDE DEF S
<1>5. \A j \in k + 1 .. n : j \in S
  <2>1. k + 1 \in Int /\ n \in Int
    BY <1>0
  <2> QED
    BY ONLY <1>2, <1>4, <2>1, UpTo
<1>6. Part(n) = fields
  BY SubSeqFull DEF Part, n
<1>7. n \in S
  BY <1>0, <1>5
<1> QED
  BY <1>6, <1>7 DEF S, a, b, Part

(* The bytes of the next field.                                            *)
LEMMA NextBytes ==
  ASSUME NEW s \in Seq(Bytes), NEW a \in Seq(Bytes), NEW b \in Seq(Bytes), StartsWith(s, a, b)
  PROVE  /\ Len(a) + Len(b) <= Len(s)
         /\ SubSeq(s, Len(a) + 1, Len(a) + Len(b)) = b
<1>1. PICK rest \in Seq(Bytes) : s = (a \o b) \o rest
  BY DEF StartsWith
<1> DEFINE ab == a \o b
           i == Len(a) + 1
           j == Len(a) + Len(b)
           t == SubSeq(s, i, j)
<1>2. /\ ab \in Seq(Bytes) /\ Len(ab) = Len(a) + Len(b)
      /\ \A k \in 1 .. Len(a) + Len(b) : ab[k] = IF k <= Len(a) THEN a[k] ELSE b[k - Len(a)]
  BY ConcatProperties
<1>3. Len(a) \in Nat /\ Len(b) \in Nat /\ Len(rest) \in Nat
  BY LenProperties
<1> HIDE DEF ab
<1>4. /\ Len(s) = Len(ab) + Len(rest)
      /\ \A k \in 1 .. Len(ab) + Len(rest) : s[k] = IF k <= Len(ab) THEN ab[k] ELSE rest[k - Len(ab)]
  BY <1>1, <1>2, ConcatProperties DEF ab
<1>5. \A k \in i .. j : s[k] = b[k - Len(a)] /\ s[k] \in Bytes
  <2> SUFFICES ASSUME NEW k \in i .. j PROVE s[k] = b[k - Len(a)] /\ s[k] \in Bytes
    OBVIOUS
  <2>1. k \in 1 .. Len(ab) + Len(rest) /\ k <= Len(ab) /\ k \in 1 .. Len(a) + Len(b) /\ ~(k <= Len(a))
    BY <1>2, <1>3
  <2>2. s[k] = ab[k]
    BY <1>4, <2>1
  <2>3. ab[k] = b[k - Len(a)]
    BY <1>2, <2>1
  <2>4. k - Len(a) \in 1 .. Len(b)
    BY <1>3
  <2>5. b[k - Len(a)] \in Bytes
    BY <2>4, ElementOfSeq
  <2> QED
    BY <2>2, <2>3, <2>5
<1>6. i \in Int /\ j \in Int
  BY <1>3
<1>7. /\ t \in Seq(Bytes) /\ Len(t) = IF i <= j THEN j - i + 1 ELSE 0
      /\ \A k \in 1 .. j - i + 1 : t[k] = s[i + k - 1]
  BY <1>5, <1>6, SubSeqProperties
<1> HIDE DEF t
<1>8. Len(t) = Len(b)
  BY <1>3, <1>7
<1>9. ASSUME NEW k \in 1 .. Len(t)
      PROVE  t[k] = b[k]
  <2>1. k \in 1 .. j - i + 1 /\ i + k - 1 \in i .. j /\ (i + k - 1) - Len(a) = k
    BY <1>3, <1>8
  <2>2. t[k] = s[i + k - 1]
    BY <1>7, <2>1
  <2> QED
    BY <1>5, <2>1, <2>2
<1>10. t = b
  BY <1>7, <1>8, <1>9, SeqEqual
<1> QED
  BY <1>2, <1>3, <1>4, <1>10 DEF t

-----------------------------------------------------------------------------
(* Where the elements of a concatenation stand.                            *)
LEMMA ConcatParts ==
  ASSUME NEW S, NEW s \in Seq(S), NEW t \in Seq(S)
  PROVE  /\ s \o t \in Seq(S) /\ Len(s \o t) = Len(s) + Len(t)
         /\ \A i \in 1 .. Len(s) : (s \o t)[i] = s[i]
         /\ \A i \in 1 .. Len(t) : (s \o t)[Len(s) + i] = t[i]
<1>1. Len(s) \in Nat /\ Len(t) \in Nat
  BY LenProperties
<1>2. /\ s \o t \in Seq(S) /\ Len(s \o t) = Len(s) + Len(t)
      /\ \A i \in 1 .. Len(s) + Len(t) : (s \o t)[i] = IF i <= Len(s) THEN s[i] ELSE t[i - Len(s)]
  BY ConcatProperties
<1> DEFINE u == s \o t
<1> HIDE DEF u
<1>3. \A i \in 1 .. Len(s) : u[i] = s[i]
  BY <1>1, <1>2 DEF u
<1>4. ASSUME NEW i \in 1 .. Len(t)
      PROVE  u[Len(s) + i] = t[i]
  <2>1. Len(s) + i \in 1 .. Len(s) + Len(t) /\ ~(Len(s) + i <= Len(s)) /\ (Len(s) + i) - Len(s) = i
    BY <1>1
  <2>2. u[Len(s) + i] = t[(Len(s) + i) - Len(s)]
    BY <1>2, <2>1, Zenon DEF u
  <2> QED
    BY <2>1, <2>2
<1> QED
  BY <1>2, <1>3, <1>4 DEF u

(* A raw array is two bytes.                                               *)
LEMMA ArrayIsSeq ==
  ASSUME NEW v \in Arrays
  PROVE  v \in Seq(Bytes) /\ Len(v) = 2
<1>1. v \in [1 .. 2 -> Bytes] /\ DOMAIN v = 1 .. 2
  BY DEF Arrays
<1>2. v \in Seq(Bytes)
  BY <1>1, SeqDef, 2 \in Nat, Zenon
<1>3. DOMAIN v = 1 .. Len(v) /\ Len(v) \in Nat
  BY <1>2, LenProperties
<1>4. Len(v) = 2
  <2>1. 2 \in 1 .. Len(v) /\ (Len(v) > 2 => Len(v) \in 1 .. 2)
    BY <1>1, <1>3
  <2> QED
    BY <1>3, <2>1
<1> QED
  BY <1>2, <1>4

(* Which entries can be stored.                                            *)
LEMMA StorableEntries ==
  /\ \A name \in Numeric : \A v \in 0 .. Limit(Width[name]) - 1 : <<name, v>> \in Storable
  /\ \A name \in ArrayNames \ {"data"} : \A v \in Arrays : <<name, v>> \in Storable
  /\ \A v \in Seq(Bytes) : <<"data", v>> \in Storable
<1>1. Numeric \cap ArrayNames = {} /\ "data" \in ArrayNames
  BY NamesApart DEF ArrayNames
<1>2. ASSUME NEW name \in Numeric, NEW v \in 0 .. Limit(Width[name]) - 1
      PROVE  <<name, v>> \in Storable
  <2>1. v \in Nat
    <3>1. Limit(Width[name]) \in Int
      <4>1. Base * Base \in Int
        BY BaseFacts
      <4>2. Base * Base * Base \in Int
        BY <4>1, BaseFacts
      <4> QED
        BY <4>1, <4>2, BaseFacts DEF Limit
    <3> QED
      BY <3>1
  <2>2. <<name, v>> \in Entries
    BY <2>1 DEF Entries
  <2> QED
    BY <1>1, <2>2 DEF Storable
<1>3. ASSUME NEW name \in ArrayNames \ {"data"}, NEW v \in Arrays
      PROVE  <<name, v>> \in Storable
  <2>1. v \in Seq(Bytes) /\ Len(v) = 2
    BY ArrayIsSeq
  <2>2. <<name, v>> \in Entries
    BY <2>1 DEF Entries
  <2> QED
    BY <1>1, <2>1, <2>2 DEF Storable
<1>4. ASSUME NEW v \in Seq(Bytes)
      PROVE  <<"data", v>> \in Storable
  <2>1. <<"data", v>> \in Entries
    BY <1>1 DEF Entries
  <2> QED
    BY <1>1, <2>1 DEF Storable
<1> QED
  BY <1>2, <1>3, <1>4

(* The numbers encode_node writes.                                         *)
LEMMA StorableNumbers ==
  /\ \A v \in U32 : /\ <<"tree", v>> \in Storable /\ <<"leaf", v>> \in Storable
                    /\ <<"bundle", v>> \in Storable /\ <<"blocks", v>> \in Storable
                    /\ <<"blob", v>> \in Storable
  /\ \A v \in U64 : <<"block", v>> \in Storable
  /\ <<"body_tag", 0>> \in Storable /\ <<"body_tag", 1>> \in Storable /\ <<"asset_tag", 0>> \in Storable
<1>1. \A name \in Numeric : \A v \in 0 .. Limit(Width[name]) - 1 : <<name, v>> \in Storable
  BY StorableEntries
<1>2. Limit(2) = Base * Base /\ Limit(3) = Base * Base * Base /\ Limit(1) = Base
  BY DEF Limit
<1>3. U32 = 0 .. Limit(2) - 1 /\ U64 = 0 .. Limit(3) - 1 /\ 0 \in 0 .. Limit(1) - 1 /\ 1 \in 0 .. Limit(1) - 1
  BY <1>2, BaseFacts DEF U32, U64
<1> QED
  BY <1>1, <1>3, WidthFacts

(* Blocks, one behind the other.                                           *)
LEMMA BlobsLaid ==
  ASSUME NEW data \in Seq(Seq(Bytes)), \A i \in 1 .. Len(data) : Len(data[i]) \in U32
  PROVE  LET s == FlattenSeq([i \in 1 .. Len(data) |-> Blob(data[i])])
         IN  /\ s \in Seq(Storable) /\ Len(s) = 2 * Len(data)
             /\ \A i \in 1 .. Len(data) :
                  s[2 * i - 1] = <<"blob", Len(data[i])>> /\ s[2 * i] = <<"data", data[i]>>
<1> DEFINE m == Len(data)
           Blobs(k) == [i \in 1 .. k |-> Blob(data[i])]
           Laid(s, k) == /\ s \in Seq(Storable) /\ Len(s) = 2 * k
                         /\ \A i \in 1 .. k : s[2 * i - 1] = <<"blob", Len(data[i])>> /\ s[2 * i] = <<"data", data[i]>>
           S == {k \in 0 .. m : Laid(FlattenSeq(Blobs(k)), k)}
<1>0. m \in Nat
  BY LenProperties
<1>1. ASSUME NEW i \in 1 .. m
      PROVE  /\ Blob(data[i]) \in Seq(Storable) /\ Len(Blob(data[i])) = 2
             /\ Blob(data[i])[1] = <<"blob", Len(data[i])>> /\ Blob(data[i])[2] = <<"data", data[i]>>
  <2>1. data[i] \in Seq(Bytes)
    BY ElementOfSeq
  <2>2. <<"blob", Len(data[i])>> \in Storable /\ <<"data", data[i]>> \in Storable
    BY <2>1, StorableNumbers, StorableEntries
  <2> QED
    BY <2>2 DEF Blob
<1> HIDE DEF m
<1>2. 0 \in S
  <2>1. Blobs(0) = <<>>
    OBVIOUS
  <2>2. Laid(<<>>, 0)
    <3>1. <<>> \in Seq(Storable) /\ Len(<<>>) = 0
      BY EmptySeq
    <3> QED
      BY <3>1
  <2> HIDE DEF Laid, Blobs
  <2>3. Laid(FlattenSeq(Blobs(0)), 0)
    BY <2>1, <2>2, FlattenEmpty, Zenon
  <2> QED
    BY <1>0, <2>3
<1>3. ASSUME NEW k \in 0 .. m - 1, k \in S
      PROVE  k + 1 \in S
  <2> DEFINE x == Blob(data[k + 1])
             s == FlattenSeq(Blobs(k))
             t == FlattenSeq(Blobs(k + 1))
  <2>0. k + 1 \in 1 .. m /\ k \in Nat
    BY <1>0
  <2>1. Blobs(k) \in Seq(Seq(Storable)) /\ x \in Seq(Storable)
    <3>1. \A i \in 1 .. k : Blob(data[i]) \in Seq(Storable)
      BY <1>0, <1>1
    <3> QED
      BY <1>1, <2>0, <3>1
  <2>2. Blobs(k + 1) = Append(Blobs(k), x)
    <3> DEFINE u == Append(Blobs(k), x)
               e(i) == Blob(data[i])
    <3>1. Len(Blobs(k)) = k /\ \A i \in 1 .. k : Blobs(k)[i] = e(i)
      BY <2>0
    <3>6. Blobs(k + 1) = [i \in 1 .. k + 1 |-> e(i)] /\ x = e(k + 1)
      BY Zenon
    <3> HIDE DEF Blobs, x, e
    <3>2. /\ u \in Seq(Seq(Storable)) /\ Len(u) = k + 1 /\ u[k + 1] = x
          /\ \A i \in 1 .. k : u[i] = e(i)
      BY <2>1, <3>1, AppendProperties
    <3> HIDE DEF u
    <3>3. u = [i \in 1 .. k + 1 |-> u[i]]
      BY <3>2, LenProperties
    <3>4. \A i \in 1 .. k + 1 : u[i] = e(i)
      BY <2>0, <3>2, <3>6
    <3>5. u = Blobs(k + 1)
      BY <3>3, <3>4, <3>6, Zenon
    <3> QED
      BY <3>5 DEF u
  <2>3. t = s \o x
    <3> HIDE DEF Blobs, x
    <3> QED
      BY <2>1, <2>2, FlattenAppend
  <2>4. Laid(s, k)
    BY <1>3
  <2>5. /\ x \in Seq(Storable) /\ Len(x) = 2
        /\ x[1] = <<"blob", Len(data[k + 1])>> /\ x[2] = <<"data", data[k + 1]>>
    BY <1>1, <2>0
  <2> HIDE DEF s, t, x
  <2>6. /\ t \in Seq(Storable) /\ Len(t) = Len(s) + Len(x)
        /\ \A i \in 1 .. Len(s) : t[i] = s[i]
        /\ \A i \in 1 .. Len(x) : t[Len(s) + i] = x[i]
    <3>1. s \in Seq(Storable) /\ x \in Seq(Storable)
      BY <2>4, <2>5
    <3> HIDE DEF Laid
    <3> QED
      BY <2>3, <3>1, ConcatParts
  <2>7. /\ Len(t) = 2 * (k + 1) /\ t[2 * k + 1] = x[1] /\ t[2 * k + 2] = x[2]
        /\ \A i \in 1 .. 2 * k : t[i] = s[i]
    BY <2>0, <2>4, <2>5, <2>6
  <2>8. ASSUME NEW i \in 1 .. k + 1
        PROVE  t[2 * i - 1] = <<"blob", Len(data[i])>> /\ t[2 * i] = <<"data", data[i]>>
    <3>1. CASE i = k + 1
      <4>1. 2 * i - 1 = 2 * k + 1 /\ 2 * i = 2 * k + 2
        BY <2>0, <3>1
      <4> QED
        BY <2>5, <2>7, <3>1, <4>1, Zenon
    <3>2. CASE i \in 1 .. k
      <4>1. 2 * i - 1 \in 1 .. 2 * k /\ 2 * i \in 1 .. 2 * k
        BY <2>0, <3>2
      <4> QED
        BY <2>4, <2>7, <3>2, <4>1
    <3> QED
      BY <2>0, <3>1, <3>2
  <2>9. Laid(t, k + 1)
    BY <2>6, <2>7, <2>8
  <2> HIDE DEF Laid
  <2> QED
    BY <1>0, <2>0, <2>9 DEF t
<1>4. \A k \in 0 .. m - 1 : k \in S => k + 1 \in S
  BY <1>3
<1> HIDE DEF S
<1>5. \A k \in 0 .. m : k \in S
  <2>1. 0 \in Int /\ m \in Int
    BY <1>0
  <2> QED
    BY ONLY <1>2, <1>4, <2>1, UpTo
<1>6. m \in S
  BY <1>0, <1>5
<1>7. Laid(FlattenSeq(Blobs(m)), m)
  BY <1>6 DEF S
<1> QED
  BY <1>7, Zenon DEF m

-----------------------------------------------------------------------------
(* Where the fields of a node stand.                                       *)
HeaderLaid(fields, n) ==
  /\ fields[1] = <<"tree", n.tree>> /\ fields[2] = <<"leaf", n.leaf>>
  /\ fields[3] = <<"hash", n.hash>> /\ fields[4] = <<"block", n.block>>

ShieldLaid(f, b) ==
  LET n == Len(b.bundle)
  IN  /\ Len(f) = 11 + n
      /\ f[5] = <<"body_tag", 0>> /\ f[6] = <<"npk", b.npk>> /\ f[7] = <<"asset_tag", 0>>
      /\ f[8] = <<"token", b.token>> /\ f[9] = <<"value", b.value>> /\ f[10] = <<"bundle", n>>
      /\ \A i \in 1 .. n : f[10 + i] = <<"word", b.bundle[i]>>
      /\ f[11 + n] = <<"shield_key", b.shield_key>>

TransactLaid(f, b) ==
  LET m == Len(b.data)
  IN  /\ Len(f) = 14 + 2 * m
      /\ f[5] = <<"body_tag", 1>> /\ f[6] = <<"iv", b.iv>> /\ f[7] = <<"tag", b.tag>>
      /\ f[8] = <<"blocks", m>>
      /\ \A i \in 1 .. m : f[7 + 2 * i] = <<"blob", Len(b.data[i])>> /\ f[8 + 2 * i] = <<"data", b.data[i]>>
      /\ f[9 + 2 * m] = <<"blob", Len(b.memo)>> /\ f[10 + 2 * m] = <<"data", b.memo>>
      /\ f[11 + 2 * m] = <<"sender_key", b.sender_key>>
      /\ f[12 + 2 * m] = <<"receiver_key", b.receiver_key>>
      /\ f[13 + 2 * m] = <<"blob", Len(b.annotation)>> /\ f[14 + 2 * m] = <<"data", b.annotation>>

(* The tag, the fixed fields, the words and the key of a shield.           *)
LEMMA ShieldFields ==
  ASSUME NEW b \in ShieldBodies, Len(b.bundle) \in U32
  PROVE  LET s == BodyFields(b)
             n == Len(b.bundle)
         IN  /\ s \in Seq(Storable) /\ Len(s) = 7 + n
             /\ s[1] = <<"body_tag", 0>> /\ s[2] = <<"npk", b.npk>> /\ s[3] = <<"asset_tag", 0>>
             /\ s[4] = <<"token", b.token>> /\ s[5] = <<"value", b.value>> /\ s[6] = <<"bundle", n>>
             /\ \A i \in 1 .. n : s[6 + i] = <<"word", b.bundle[i]>>
             /\ s[7 + n] = <<"shield_key", b.shield_key>>
<1> DEFINE n == Len(b.bundle)
           x == << <<"body_tag", 0>>, <<"npk", b.npk>>, <<"asset_tag", 0>>, <<"token", b.token>>,
                   <<"value", b.value>>, <<"bundle", n>> >>
           y == [i \in 1 .. n |-> <<"word", b.bundle[i]>>]
           z == << <<"shield_key", b.shield_key>> >>
           xy == x \o y
           s == xy \o z
<1>1. BodyFields(b) = s
  BY DEF BodyFields, ShieldBodies
<1>2. /\ b.npk \in Arrays /\ b.token \in Arrays /\ b.value \in Arrays /\ b.shield_key \in Arrays
      /\ b.bundle \in Seq(Arrays) /\ n \in Nat /\ \A i \in 1 .. n : b.bundle[i] \in Arrays
  BY LenProperties, ElementOfSeq DEF ShieldBodies
<1>3. \A name \in {"npk", "token", "value", "word", "shield_key"} : \A v \in Arrays : <<name, v>> \in Storable
  BY StorableEntries DEF ArrayNames
<1>4. /\ x \in Seq(Storable) /\ Len(x) = 6
      /\ x[1] = <<"body_tag", 0>> /\ x[2] = <<"npk", b.npk>> /\ x[3] = <<"asset_tag", 0>>
      /\ x[4] = <<"token", b.token>> /\ x[5] = <<"value", b.value>> /\ x[6] = <<"bundle", n>>
  <2> DEFINE e1 == <<"body_tag", 0>>
             e2 == <<"npk", b.npk>>
             e3 == <<"asset_tag", 0>>
             e4 == <<"token", b.token>>
             e5 == <<"value", b.value>>
             e6 == <<"bundle", n>>
  <2>1. /\ e1 \in Storable /\ e2 \in Storable /\ e3 \in Storable
        /\ e4 \in Storable /\ e5 \in Storable /\ e6 \in Storable
    BY <1>2, <1>3, StorableNumbers
  <2> HIDE DEF e1, e2, e3, e4, e5, e6
  <2>2. /\ x \in Seq(Storable) /\ Len(x) = 6
        /\ x[1] = e1 /\ x[2] = e2 /\ x[3] = e3 /\ x[4] = e4 /\ x[5] = e5 /\ x[6] = e6
    <3>1. x = <<e1, e2, e3, e4, e5, e6>>
      BY DEF e1, e2, e3, e4, e5, e6
    <3> HIDE DEF x
    <3> QED
      BY <2>1, <3>1
  <2> HIDE DEF x
  <2> QED
    BY <2>2 DEF e1, e2, e3, e4, e5, e6
<1>5. y \in Seq(Storable) /\ Len(y) = n /\ \A i \in 1 .. n : y[i] = <<"word", b.bundle[i]>>
  BY <1>2, <1>3
<1>6. z \in Seq(Storable) /\ Len(z) = 1 /\ z[1] = <<"shield_key", b.shield_key>>
  BY <1>2, <1>3
<1> HIDE DEF x, y, z
<1>7. /\ xy \in Seq(Storable) /\ Len(xy) = Len(x) + Len(y)
      /\ \A i \in 1 .. Len(x) : xy[i] = x[i]
      /\ \A i \in 1 .. Len(y) : xy[Len(x) + i] = y[i]
  <2>1. x \in Seq(Storable) /\ y \in Seq(Storable)
    BY <1>4, <1>5
  <2> QED
    BY <2>1, ConcatParts
<1> HIDE DEF xy
<1>8. /\ s \in Seq(Storable) /\ Len(s) = Len(xy) + Len(z)
      /\ \A i \in 1 .. Len(xy) : s[i] = xy[i]
      /\ \A i \in 1 .. Len(z) : s[Len(xy) + i] = z[i]
  <2>1. xy \in Seq(Storable) /\ z \in Seq(Storable)
    BY <1>6, <1>7
  <2> QED
    BY <2>1, ConcatParts
<1> HIDE DEF s
<1>9. Len(xy) = 6 + n /\ Len(s) = 7 + n
  <2>1. Len(xy) = Len(x) + Len(y) /\ Len(s) = Len(xy) + Len(z)
    BY <1>7, <1>8
  <2>2. Len(x) = 6 /\ Len(y) = n /\ Len(z) = 1 /\ n \in Nat
    BY <1>2, <1>4, <1>5, <1>6
  <2> HIDE DEF n
  <2> QED
    BY <2>1, <2>2
<1>10. \A i \in 1 .. 6 : s[i] = x[i]
  <2>1. \A i \in 1 .. 6 : xy[i] = x[i]
    BY <1>4, <1>7
  <2>2. \A i \in 1 .. 6 + n : s[i] = xy[i]
    BY <1>8, <1>9
  <2>3. n \in Nat
    BY <1>2
  <2> HIDE DEF n
  <2>4. \A i \in 1 .. 6 : i \in 1 .. 6 + n
    BY <2>3
  <2> QED
    BY <2>1, <2>2, <2>4, Zenon
<1>11. \A i \in 1 .. n : s[6 + i] = y[i]
  BY <1>2, <1>4, <1>5, <1>7, <1>8, <1>9
<1>12. s[7 + n] = z[1]
  <2>1. s[Len(xy) + 1] = z[1]
    BY <1>6, <1>8
  <2> QED
    BY <1>2, <1>9, <2>1
<1>13. s[1] = x[1] /\ s[2] = x[2] /\ s[3] = x[3] /\ s[4] = x[4] /\ s[5] = x[5] /\ s[6] = x[6]
  BY <1>10
<1>14. \A i \in 1 .. n : s[6 + i] = <<"word", b.bundle[i]>>
  BY <1>5, <1>11
<1>15. s \in Seq(Storable)
  BY <1>8
<1> QED
  BY <1>1, <1>4, <1>6, <1>9, <1>12, <1>13, <1>14, <1>15

(* The tag, the fixed fields, the blocks, and the rest of a transfer.      *)
LEMMA TransactFields ==
  ASSUME NEW b \in TransactBodies,
         {Len(b.data), Len(b.memo), Len(b.annotation)} \subseteq U32,
         \A i \in DOMAIN b.data : Len(b.data[i]) \in U32
  PROVE  LET s == BodyFields(b)
             m == Len(b.data)
         IN  /\ s \in Seq(Storable) /\ Len(s) = 10 + 2 * m
             /\ s[1] = <<"body_tag", 1>> /\ s[2] = <<"iv", b.iv>> /\ s[3] = <<"tag", b.tag>>
             /\ s[4] = <<"blocks", m>>
             /\ \A i \in 1 .. m : s[3 + 2 * i] = <<"blob", Len(b.data[i])>> /\ s[4 + 2 * i] = <<"data", b.data[i]>>
             /\ s[5 + 2 * m] = <<"blob", Len(b.memo)>> /\ s[6 + 2 * m] = <<"data", b.memo>>
             /\ s[7 + 2 * m] = <<"sender_key", b.sender_key>>
             /\ s[8 + 2 * m] = <<"receiver_key", b.receiver_key>>
             /\ s[9 + 2 * m] = <<"blob", Len(b.annotation)>> /\ s[10 + 2 * m] = <<"data", b.annotation>>
<1> DEFINE m == Len(b.data)
           x == << <<"body_tag", 1>>, <<"iv", b.iv>>, <<"tag", b.tag>>, <<"blocks", m>> >>
           y == FlattenSeq([i \in 1 .. m |-> Blob(b.data[i])])
           z == Blob(b.memo)
           v == << <<"sender_key", b.sender_key>>, <<"receiver_key", b.receiver_key>> >>
           w == Blob(b.annotation)
           xy == x \o y
           xyz == xy \o z
           xyzv == xyz \o v
           s == xyzv \o w
<1>1. BodyFields(b) = s
  BY DEF BodyFields, TransactBodies
<1>2. /\ b.iv \in Arrays /\ b.tag \in Arrays /\ b.sender_key \in Arrays /\ b.receiver_key \in Arrays
      /\ b.data \in Seq(Seq(Bytes)) /\ b.memo \in Seq(Bytes) /\ b.annotation \in Seq(Bytes)
      /\ m \in Nat /\ DOMAIN b.data = 1 .. m
  BY LenProperties DEF TransactBodies
<1>3. \A name \in {"iv", "tag", "sender_key", "receiver_key"} : \A a \in Arrays : <<name, a>> \in Storable
  BY StorableEntries DEF ArrayNames
<1>4. /\ x \in Seq(Storable) /\ Len(x) = 4
      /\ x[1] = <<"body_tag", 1>> /\ x[2] = <<"iv", b.iv>> /\ x[3] = <<"tag", b.tag>>
      /\ x[4] = <<"blocks", m>>
  <2> DEFINE e1 == <<"body_tag", 1>>
             e2 == <<"iv", b.iv>>
             e3 == <<"tag", b.tag>>
             e4 == <<"blocks", m>>
  <2>1. e1 \in Storable /\ e2 \in Storable /\ e3 \in Storable /\ e4 \in Storable
    BY <1>2, <1>3, StorableNumbers
  <2>2. x = <<e1, e2, e3, e4>>
    OBVIOUS
  <2> HIDE DEF e1, e2, e3, e4, x
  <2>3. x \in Seq(Storable) /\ Len(x) = 4 /\ x[1] = e1 /\ x[2] = e2 /\ x[3] = e3 /\ x[4] = e4
    BY <2>1, <2>2
  <2> QED
    BY <2>3 DEF e1, e2, e3, e4
<1>5. /\ y \in Seq(Storable) /\ Len(y) = 2 * m
      /\ \A i \in 1 .. m : y[2 * i - 1] = <<"blob", Len(b.data[i])>> /\ y[2 * i] = <<"data", b.data[i]>>
  <2> DEFINE data == b.data
  <2>1. data \in Seq(Seq(Bytes)) /\ \A i \in 1 .. Len(data) : Len(data[i]) \in U32
    BY <1>2
  <2> HIDE DEF data
  <2> QED
    BY <2>1, BlobsLaid DEF data
<1>6. \A d \in Seq(Bytes) : Len(d) \in U32 =>
        /\ Blob(d) \in Seq(Storable) /\ Len(Blob(d)) = 2
        /\ Blob(d)[1] = <<"blob", Len(d)>> /\ Blob(d)[2] = <<"data", d>>
  <2> SUFFICES ASSUME NEW d \in Seq(Bytes), Len(d) \in U32
               PROVE  /\ Blob(d) \in Seq(Storable) /\ Len(Blob(d)) = 2
                      /\ Blob(d)[1] = <<"blob", Len(d)>> /\ Blob(d)[2] = <<"data", d>>
    OBVIOUS
  <2>1. <<"blob", Len(d)>> \in Storable /\ <<"data", d>> \in Storable
    BY StorableNumbers, StorableEntries
  <2> QED
    BY <2>1 DEF Blob
<1>7. /\ z \in Seq(Storable) /\ Len(z) = 2 /\ z[1] = <<"blob", Len(b.memo)>> /\ z[2] = <<"data", b.memo>>
      /\ w \in Seq(Storable) /\ Len(w) = 2
      /\ w[1] = <<"blob", Len(b.annotation)>> /\ w[2] = <<"data", b.annotation>>
  BY <1>2, <1>6
<1>8. /\ v \in Seq(Storable) /\ Len(v) = 2
      /\ v[1] = <<"sender_key", b.sender_key>> /\ v[2] = <<"receiver_key", b.receiver_key>>
  BY <1>2, <1>3
<1> HIDE DEF x, y, z, v, w
<1>9. /\ xy \in Seq(Storable) /\ Len(xy) = Len(x) + Len(y)
      /\ \A i \in 1 .. Len(x) : xy[i] = x[i]
      /\ \A i \in 1 .. Len(y) : xy[Len(x) + i] = y[i]
  <2>1. x \in Seq(Storable) /\ y \in Seq(Storable)
    BY <1>4, <1>5
  <2> QED
    BY <2>1, ConcatParts
<1> HIDE DEF xy
<1>10. /\ xyz \in Seq(Storable) /\ Len(xyz) = Len(xy) + Len(z)
       /\ \A i \in 1 .. Len(xy) : xyz[i] = xy[i]
       /\ \A i \in 1 .. Len(z) : xyz[Len(xy) + i] = z[i]
  <2>1. xy \in Seq(Storable) /\ z \in Seq(Storable)
    BY <1>7, <1>9
  <2> QED
    BY <2>1, ConcatParts
<1> HIDE DEF xyz
<1>11. /\ xyzv \in Seq(Storable) /\ Len(xyzv) = Len(xyz) + Len(v)
       /\ \A i \in 1 .. Len(xyz) : xyzv[i] = xyz[i]
       /\ \A i \in 1 .. Len(v) : xyzv[Len(xyz) + i] = v[i]
  <2>1. xyz \in Seq(Storable) /\ v \in Seq(Storable)
    BY <1>8, <1>10
  <2> QED
    BY <2>1, ConcatParts
<1> HIDE DEF xyzv
<1>12. /\ s \in Seq(Storable) /\ Len(s) = Len(xyzv) + Len(w)
       /\ \A i \in 1 .. Len(xyzv) : s[i] = xyzv[i]
       /\ \A i \in 1 .. Len(w) : s[Len(xyzv) + i] = w[i]
  <2>1. xyzv \in Seq(Storable) /\ w \in Seq(Storable)
    BY <1>7, <1>11
  <2> QED
    BY <2>1, ConcatParts
<1> HIDE DEF s
<1>13. /\ Len(xy) = 4 + 2 * m /\ Len(xyz) = 6 + 2 * m /\ Len(xyzv) = 8 + 2 * m /\ Len(s) = 10 + 2 * m
  BY <1>2, <1>4, <1>5, <1>7, <1>8, <1>9, <1>10, <1>11, <1>12
<1>0. m \in Nat
  BY <1>2
<1> HIDE DEF m
<1>14. /\ \A i \in 1 .. 4 + 2 * m : s[i] = xy[i]
       /\ \A i \in 1 .. 6 + 2 * m : s[i] = xyz[i]
       /\ \A i \in 1 .. 8 + 2 * m : s[i] = xyzv[i]
  <2>1. \A i \in 1 .. 8 + 2 * m : s[i] = xyzv[i]
    BY <1>12, <1>13
  <2>2. \A i \in 1 .. 6 + 2 * m : xyzv[i] = xyz[i]
    BY <1>11, <1>13
  <2>3. \A i \in 1 .. 4 + 2 * m : xyz[i] = xy[i]
    BY <1>10, <1>13
  <2>4. /\ \A i \in 1 .. 4 + 2 * m : i \in 1 .. 6 + 2 * m
        /\ \A i \in 1 .. 6 + 2 * m : i \in 1 .. 8 + 2 * m
    BY <1>2
  <2> QED
    BY <2>1, <2>2, <2>3, <2>4
<1>15. \A i \in 1 .. 4 : s[i] = x[i]
  BY <1>2, <1>4, <1>9, <1>14
<1>16. \A i \in 1 .. 2 * m : s[4 + i] = y[i]
  <2>1. \A i \in 1 .. 2 * m : xy[4 + i] = y[i]
    BY <1>4, <1>5, <1>9
  <2> QED
    BY <1>2, <1>14, <2>1
<1>17. \A i \in 1 .. m : s[3 + 2 * i] = <<"blob", Len(b.data[i])>> /\ s[4 + 2 * i] = <<"data", b.data[i]>>
  <2> SUFFICES ASSUME NEW i \in 1 .. m
               PROVE  s[3 + 2 * i] = <<"blob", Len(b.data[i])>> /\ s[4 + 2 * i] = <<"data", b.data[i]>>
    OBVIOUS
  <2>1. /\ 2 * i - 1 \in 1 .. 2 * m /\ 2 * i \in 1 .. 2 * m /\ 4 + (2 * i - 1) = 3 + 2 * i
    BY <1>2
  <2>2. s[4 + (2 * i - 1)] = y[2 * i - 1] /\ s[4 + 2 * i] = y[2 * i]
    BY <1>16, <2>1, Zenon
  <2> QED
    BY <1>5, <2>1, <2>2 DEF m
<1>18. s[5 + 2 * m] = z[1] /\ s[6 + 2 * m] = z[2]
  <2>1. xyz[Len(xy) + 1] = z[1] /\ xyz[Len(xy) + 2] = z[2]
    BY <1>7, <1>10
  <2>2. Len(xy) + 1 = 5 + 2 * m /\ Len(xy) + 2 = 6 + 2 * m
    BY <1>2, <1>13
  <2> QED
    BY <1>2, <1>14, <2>1, <2>2
<1>19. s[7 + 2 * m] = v[1] /\ s[8 + 2 * m] = v[2]
  <2>1. xyzv[Len(xyz) + 1] = v[1] /\ xyzv[Len(xyz) + 2] = v[2]
    BY <1>8, <1>11
  <2>2. Len(xyz) + 1 = 7 + 2 * m /\ Len(xyz) + 2 = 8 + 2 * m
    BY <1>2, <1>13
  <2> QED
    BY <1>2, <1>14, <2>1, <2>2
<1>20. s[9 + 2 * m] = w[1] /\ s[10 + 2 * m] = w[2]
  <2>1. s[Len(xyzv) + 1] = w[1] /\ s[Len(xyzv) + 2] = w[2]
    BY <1>7, <1>12
  <2>2. Len(xyzv) + 1 = 9 + 2 * m /\ Len(xyzv) + 2 = 10 + 2 * m
    BY <1>2, <1>13
  <2> QED
    BY <2>1, <2>2
<1>21. s[1] = x[1] /\ s[2] = x[2] /\ s[3] = x[3] /\ s[4] = x[4]
  BY <1>15
<1> QED
  BY <1>1, <1>4, <1>7, <1>8, <1>12, <1>13, <1>17, <1>18, <1>19, <1>20, <1>21 DEF m

(* A whole node.                                                           *)
LEMMA NodeFields ==
  ASSUME NEW n \in Nodes
  PROVE  LET f == Fields(n)
         IN  /\ f \in Seq(Storable) /\ HeaderLaid(f, n)
             /\ \/ n.body.kind = "shield" /\ ShieldLaid(f, n.body)
                \/ n.body.kind = "transact" /\ TransactLaid(f, n.body)
<1> DEFINE f == Fields(n)
           b == n.body
           x == << <<"tree", n.tree>>, <<"leaf", n.leaf>>, <<"hash", n.hash>>, <<"block", n.block>> >>
           s == BodyFields(b)
<1>1. /\ n.tree \in U32 /\ n.leaf \in U32 /\ n.hash \in Arrays /\ n.block \in U64
      /\ b \in ShieldBodies \cup TransactBodies /\ Fits(n)
  <2>1. /\ n.tree \in U32 /\ n.leaf \in 0 .. Capacity - 1 /\ n.hash \in Arrays /\ n.block \in U64
        /\ b \in ShieldBodies \cup TransactBodies /\ Fits(n) /\ Capacity \in U32
    BY CodecAssumption
  <2>2. Capacity \in 0 .. Base * Base - 1 /\ Base * Base \in Int
    BY <2>1, BaseFacts DEF U32
  <2>3. n.leaf \in U32
    BY <2>1, <2>2 DEF U32
  <2> QED
    BY <2>1, <2>3
<1>2. \A v \in Arrays : <<"hash", v>> \in Storable
  BY StorableEntries DEF ArrayNames
<1>3. /\ x \in Seq(Storable) /\ Len(x) = 4
      /\ x[1] = <<"tree", n.tree>> /\ x[2] = <<"leaf", n.leaf>>
      /\ x[3] = <<"hash", n.hash>> /\ x[4] = <<"block", n.block>>
  <2> DEFINE e1 == <<"tree", n.tree>>
             e2 == <<"leaf", n.leaf>>
             e3 == <<"hash", n.hash>>
             e4 == <<"block", n.block>>
  <2>1. e1 \in Storable /\ e2 \in Storable /\ e3 \in Storable /\ e4 \in Storable
    BY <1>1, <1>2, StorableNumbers
  <2>2. x = <<e1, e2, e3, e4>>
    OBVIOUS
  <2> HIDE DEF e1, e2, e3, e4, x
  <2>3. x \in Seq(Storable) /\ Len(x) = 4 /\ x[1] = e1 /\ x[2] = e2 /\ x[3] = e3 /\ x[4] = e4
    BY <2>1, <2>2
  <2> QED
    BY <2>3 DEF e1, e2, e3, e4
<1>4. f = x \o s
  BY DEF Fields
<1> HIDE DEF f, x, s, b
<1>5. ASSUME s \in Seq(Storable)
      PROVE  /\ f \in Seq(Storable) /\ Len(f) = 4 + Len(s) /\ HeaderLaid(f, n)
             /\ \A i \in 1 .. Len(s) : f[4 + i] = s[i]
  <2>1. x \in Seq(Storable)
    BY <1>3
  <2>2. /\ f \in Seq(Storable) /\ Len(f) = Len(x) + Len(s)
        /\ \A i \in 1 .. Len(x) : f[i] = x[i]
        /\ \A i \in 1 .. Len(s) : f[Len(x) + i] = s[i]
    BY <1>4, <1>5, <2>1, ConcatParts
  <2>3. f[1] = x[1] /\ f[2] = x[2] /\ f[3] = x[3] /\ f[4] = x[4]
    BY <1>3, <2>2
  <2> QED
    BY <1>3, <2>2, <2>3 DEF HeaderLaid
<1>6. CASE b \in ShieldBodies
  <2> DEFINE k == Len(b.bundle)
  <2>0. b.kind = "shield" /\ k \in U32
    BY <1>1, <1>6 DEF ShieldBodies, Fits, b
  <2>1. /\ s \in Seq(Storable) /\ Len(s) = 7 + k
        /\ s[1] = <<"body_tag", 0>> /\ s[2] = <<"npk", b.npk>> /\ s[3] = <<"asset_tag", 0>>
        /\ s[4] = <<"token", b.token>> /\ s[5] = <<"value", b.value>> /\ s[6] = <<"bundle", k>>
        /\ \A i \in 1 .. k : s[6 + i] = <<"word", b.bundle[i]>>
        /\ s[7 + k] = <<"shield_key", b.shield_key>>
    BY <1>6, <2>0, ShieldFields DEF s
  <2>2. k \in Nat
    BY <2>0, BaseFacts DEF U32
  <2> HIDE DEF k
  <2>3. Len(f) = 11 + k /\ \A i \in 1 .. 7 + k : f[4 + i] = s[i]
    BY <1>5, <2>1, <2>2
  <2>4. /\ f[4 + 1] = s[1] /\ f[4 + 2] = s[2] /\ f[4 + 3] = s[3] /\ f[4 + 4] = s[4] /\ f[4 + 5] = s[5]
        /\ f[4 + 6] = s[6] /\ f[4 + (7 + k)] = s[7 + k]
    BY <2>2, <2>3
  <2>5. /\ f[5] = s[1] /\ f[6] = s[2] /\ f[7] = s[3] /\ f[8] = s[4] /\ f[9] = s[5]
        /\ f[10] = s[6] /\ f[11 + k] = s[7 + k]
    BY <2>2, <2>4
  <2>6. \A i \in 1 .. k : f[10 + i] = <<"word", b.bundle[i]>>
    <3> SUFFICES ASSUME NEW i \in 1 .. k PROVE f[10 + i] = <<"word", b.bundle[i]>>
      OBVIOUS
    <3>1. 6 + i \in 1 .. 7 + k /\ 4 + (6 + i) = 10 + i
      BY <2>2
    <3>2. f[4 + (6 + i)] = s[6 + i]
      BY <2>3, <3>1, Zenon
    <3> QED
      BY <2>1, <3>1, <3>2
  <2>7. ShieldLaid(f, b)
    BY <2>1, <2>3, <2>5, <2>6 DEF ShieldLaid, k
  <2> QED
    BY <1>5, <2>0, <2>1, <2>7 DEF f, b
<1>7. CASE b \in TransactBodies
  <2> DEFINE m == Len(b.data)
  <2>0. /\ b.kind = "transact" /\ {m, Len(b.memo), Len(b.annotation)} \subseteq U32
        /\ \A i \in DOMAIN b.data : Len(b.data[i]) \in U32
    BY <1>1, <1>7 DEF TransactBodies, Fits, b
  <2>1. /\ s \in Seq(Storable) /\ Len(s) = 10 + 2 * m
        /\ s[1] = <<"body_tag", 1>> /\ s[2] = <<"iv", b.iv>> /\ s[3] = <<"tag", b.tag>>
        /\ s[4] = <<"blocks", m>>
        /\ \A i \in 1 .. m : s[3 + 2 * i] = <<"blob", Len(b.data[i])>> /\ s[4 + 2 * i] = <<"data", b.data[i]>>
        /\ s[5 + 2 * m] = <<"blob", Len(b.memo)>> /\ s[6 + 2 * m] = <<"data", b.memo>>
        /\ s[7 + 2 * m] = <<"sender_key", b.sender_key>>
        /\ s[8 + 2 * m] = <<"receiver_key", b.receiver_key>>
        /\ s[9 + 2 * m] = <<"blob", Len(b.annotation)>> /\ s[10 + 2 * m] = <<"data", b.annotation>>
    BY <1>7, <2>0, TransactFields DEF s
  <2>2. m \in Nat
    <3>1. m \in U32
      BY <2>0
    <3> HIDE DEF m
    <3> QED
      BY <3>1, BaseFacts DEF U32
  <2> HIDE DEF m
  <2>3. Len(f) = 14 + 2 * m /\ \A i \in 1 .. 10 + 2 * m : f[4 + i] = s[i]
    <3>1. Len(s) = 10 + 2 * m /\ s \in Seq(Storable)
      BY <2>1
    <3>2. Len(f) = 4 + Len(s) /\ \A i \in 1 .. Len(s) : f[4 + i] = s[i]
      BY <1>5, <3>1
    <3>3. 4 + (10 + 2 * m) = 14 + 2 * m
      BY <2>2
    <3> QED
      BY <3>1, <3>2, <3>3
  <2>4. /\ f[4 + 1] = s[1] /\ f[4 + 2] = s[2] /\ f[4 + 3] = s[3] /\ f[4 + 4] = s[4]
        /\ f[4 + (5 + 2 * m)] = s[5 + 2 * m] /\ f[4 + (6 + 2 * m)] = s[6 + 2 * m]
        /\ f[4 + (7 + 2 * m)] = s[7 + 2 * m] /\ f[4 + (8 + 2 * m)] = s[8 + 2 * m]
        /\ f[4 + (9 + 2 * m)] = s[9 + 2 * m] /\ f[4 + (10 + 2 * m)] = s[10 + 2 * m]
    BY <2>2, <2>3
  <2>5. /\ f[5] = s[1] /\ f[6] = s[2] /\ f[7] = s[3] /\ f[8] = s[4]
        /\ f[9 + 2 * m] = s[5 + 2 * m] /\ f[10 + 2 * m] = s[6 + 2 * m]
        /\ f[11 + 2 * m] = s[7 + 2 * m] /\ f[12 + 2 * m] = s[8 + 2 * m]
        /\ f[13 + 2 * m] = s[9 + 2 * m] /\ f[14 + 2 * m] = s[10 + 2 * m]
    BY <2>2, <2>4
  <2>6. \A i \in 1 .. m : f[7 + 2 * i] = <<"blob", Len(b.data[i])>> /\ f[8 + 2 * i] = <<"data", b.data[i]>>
    <3> SUFFICES ASSUME NEW i \in 1 .. m
                 PROVE  f[7 + 2 * i] = <<"blob", Len(b.data[i])>> /\ f[8 + 2 * i] = <<"data", b.data[i]>>
      OBVIOUS
    <3>1. /\ 3 + 2 * i \in 1 .. 10 + 2 * m /\ 4 + (3 + 2 * i) = 7 + 2 * i
          /\ 4 + 2 * i \in 1 .. 10 + 2 * m /\ 4 + (4 + 2 * i) = 8 + 2 * i
      BY <2>2
    <3>2. f[4 + (3 + 2 * i)] = s[3 + 2 * i] /\ f[4 + (4 + 2 * i)] = s[4 + 2 * i]
      BY <2>3, <3>1, Zenon
    <3> QED
      BY <2>1, <3>1, <3>2
  <2>7. TransactLaid(f, b)
    BY <2>1, <2>3, <2>5, <2>6 DEF TransactLaid, m
  <2> QED
    BY <1>5, <2>0, <2>1, <2>7 DEF f, b
<1> QED
  BY <1>1, <1>6, <1>7

-----------------------------------------------------------------------------
(* What has been read so far, and what is due.                             *)
ReaderInv ==
  /\ bytes \in Seq(Bytes) /\ pos \in 0 .. Len(bytes)
  /\ todo \in Seq(Plans) /\ got \in Seq(Entries)
  /\ Encoded(got) = SubSeq(bytes, 1, pos)
  /\ outcome = "ok" => pos = Len(bytes)

(* A record as stored or damaged is bytes.                                 *)
LEMMA RecordType ==
  ASSUME NEW n \in Nodes
  PROVE  EncodeNode(n) \in Seq(Bytes) /\ Damaged(EncodeNode(n)) \subseteq Seq(Bytes)
<1> DEFINE r == EncodeNode(n)
<1>1. r \in Seq(Bytes)
  <2>1. Fields(n) \in Seq(Storable) /\ Storable \subseteq Entries
    BY NodeFields DEF Storable
  <2>2. Fields(n) \in Seq(Entries)
    BY <2>1, SeqMonotonic
  <2> QED
    BY <2>2, EncodedType DEF EncodeNode
<1> HIDE DEF r
<1>2. Len(r) \in Nat /\ \A i \in 1 .. Len(r) : r[i] \in Bytes
  BY <1>1, LenProperties, ElementOfSeq
<1>3. ASSUME NEW k \in 0 .. Len(r) - 1
      PROVE  SubSeq(r, 1, k) \in Seq(Bytes)
  <2>1. \A i \in 1 .. k : r[i] \in Bytes
    BY <1>2
  <2> QED
    BY <1>2, <2>1, SubSeqProperties
<1>4. \A b \in Bytes : Append(r, b) \in Seq(Bytes)
  BY <1>1, AppendProperties
<1>5. \A i \in 1 .. Len(r), b \in Bytes : [r EXCEPT ![i] = b] \in Seq(Bytes)
  <2> SUFFICES ASSUME NEW i \in 1 .. Len(r), NEW b \in Bytes
               PROVE  [r EXCEPT ![i] = b] \in Seq(Bytes)
    OBVIOUS
  <2>1. r = [j \in 1 .. Len(r) |-> r[j]]
    BY <1>1
  <2>2. [r EXCEPT ![i] = b] = [j \in 1 .. Len(r) |-> IF j = i THEN b ELSE r[j]]
    BY <2>1
  <2>3. \A j \in 1 .. Len(r) : (IF j = i THEN b ELSE r[j]) \in Bytes
    BY <1>2
  <2> DEFINE u == [r EXCEPT ![i] = b]
             m == Len(r)
             E(j) == IF j = i THEN b ELSE r[j]
  <2>4. u = [j \in 1 .. m |-> E(j)] /\ m \in Nat /\ \A j \in 1 .. m : E(j) \in Bytes
    BY <1>2, <2>2, <2>3
  <2> HIDE DEF u, m, E
  <2>5. u \in Seq(Bytes)
    BY <2>4
  <2> QED
    BY <2>5 DEF u
<1>6. Damaged(r) \subseteq Seq(Bytes)
  <2> DEFINE cut == {SubSeq(r, 1, k) : k \in 0 .. Len(r) - 1}
             more == {Append(r, b) : b \in Bytes}
             other == {[r EXCEPT ![i] = b] : i \in 1 .. Len(r), b \in Bytes}
  <2>1. cut \subseteq Seq(Bytes)
    BY <1>3
  <2>2. more \subseteq Seq(Bytes)
    BY <1>4
  <2>3. other \subseteq Seq(Bytes)
    BY <1>5
  <2>4. Damaged(r) = {r} \cup cut \cup more \cup other
    BY SMT DEF Damaged
  <2> HIDE DEF cut, more, other
  <2> QED
    BY <1>1, <2>1, <2>2, <2>3, <2>4
<1> QED
  BY <1>1, <1>6 DEF r

(* The plans name known fields.                                            *)
LEMMA PlanTypes ==
  /\ \A name \in Names : Field(name) \in Plans
  /\ Header \in Seq(Plans) /\ ShieldPlan \in Seq(Plans) /\ TransactPlan \in Seq(Plans)
  /\ \A n \in Nat : <<"data", n>> \in Plans
<1>1. Numeric \cap ArrayNames = {} /\ "data" \in ArrayNames /\ \A name \in Numeric : Width[name] \in 1 .. 3
  BY NamesApart DEF ArrayNames
<1>2. ASSUME NEW name \in Names
      PROVE  Field(name) \in Plans
  <2>1. CASE name \in Numeric
    BY <1>1, <2>1 DEF Field, Plans, Names
  <2>2. CASE name \notin Numeric
    BY <2>2 DEF Field, Plans, Names
  <2> QED
    BY <2>1, <2>2
<1>3. \A n \in Nat : <<"data", n>> \in Plans
  BY <1>1 DEF Plans, Names
<1>4. {"tree", "leaf", "hash", "block", "body_tag", "npk", "asset_tag", "token", "value", "bundle",
       "shield_key", "iv", "tag", "blocks", "blob", "sender_key", "receiver_key", "word"} \subseteq Names
  BY WidthFacts DEF Names, ArrayNames
<1>5. Header \in Seq(Plans)
  <2>1. /\ Field("tree") \in Plans /\ Field("leaf") \in Plans /\ Field("hash") \in Plans
        /\ Field("block") \in Plans /\ Field("body_tag") \in Plans
    BY <1>2, <1>4
  <2> QED
    BY <2>1 DEF Header
<1>6. ShieldPlan \in Seq(Plans)
  <2>1. /\ Field("npk") \in Plans /\ Field("asset_tag") \in Plans /\ Field("token") \in Plans
        /\ Field("value") \in Plans /\ Field("bundle") \in Plans /\ Field("shield_key") \in Plans
    BY <1>2, <1>4
  <2> QED
    BY <2>1 DEF ShieldPlan
<1>7. TransactPlan \in Seq(Plans)
  <2>1. /\ Field("iv") \in Plans /\ Field("tag") \in Plans /\ Field("blocks") \in Plans
        /\ Field("blob") \in Plans /\ Field("sender_key") \in Plans /\ Field("receiver_key") \in Plans
    BY <1>2, <1>4
  <2> QED
    BY <2>1 DEF TransactPlan
<1> QED
  BY <1>2, <1>3, <1>5, <1>6, <1>7

(* Repeated fields in front of a plan are a plan.                          *)
LEMMA TimesType ==
  ASSUME NEW n \in Nat, NEW d \in Plans, NEW rest \in Seq(Plans)
  PROVE  Times(n, d) \o rest \in Seq(Plans)
<1>1. Times(n, d) \in Seq(Plans)
  BY DEF Times
<1> QED
  BY <1>1, ConcatProperties

(* The invariant of the reader holds of every record it starts with.       *)
LEMMA ReaderInit == Init => ReaderInv
<1> SUFFICES ASSUME Init PROVE ReaderInv
  OBVIOUS
<1>1. bytes \in Seq(Bytes)
  BY RecordType DEF Init
<1>2. Len(bytes) \in Nat /\ SubSeq(bytes, 1, 0) = <<>> /\ <<>> \in Seq(Entries)
  <2>1. Len(bytes) \in Nat
    BY <1>1, LenProperties
  <2>2. SubSeq(bytes, 1, 0) = <<>>
    BY SubSeqEmpty
  <2>3. <<>> \in Seq(Entries)
    BY EmptySeq
  <2> QED
    BY <2>1, <2>2, <2>3
<1>3. pos = 0 /\ todo = Header /\ got = <<>> /\ outcome = "reading"
  BY DEF Init
<1>4. pos \in 0 .. Len(bytes) /\ outcome # "ok"
  BY <1>2, <1>3
<1>5. todo \in Seq(Plans) /\ got \in Seq(Entries)
  BY <1>2, <1>3, PlanTypes
<1>6. Encoded(got) = SubSeq(bytes, 1, pos)
  BY <1>2, <1>3, EncodedNothing, Zenon
<1> QED
  BY <1>1, <1>4, <1>5, <1>6 DEF ReaderInv

(* The bytes a take looks at.                                              *)
LEMMA RawBytes ==
  ASSUME ReaderInv, NEW w \in Nat, pos + w <= Len(bytes)
  PROVE  /\ Raw(w) \in Seq(Bytes) /\ Len(Raw(w)) = w
         /\ SubSeq(bytes, 1, pos) \o Raw(w) = SubSeq(bytes, 1, pos + w)
         /\ pos + w \in 0 .. Len(bytes)
<1>1. Len(bytes) \in Nat /\ pos \in 0 .. Len(bytes) /\ bytes \in Seq(Bytes)
  BY LenProperties DEF ReaderInv
<1>2. \A i \in pos + 1 .. pos + w : bytes[i] \in Bytes
  BY <1>1, ElementOfSeq
<1>3. pos + 1 \in Int /\ pos + w \in Int
  BY <1>1
<1>4. /\ Raw(w) \in Seq(Bytes)
      /\ Len(Raw(w)) = IF pos + 1 <= pos + w THEN (pos + w) - (pos + 1) + 1 ELSE 0
  BY <1>2, <1>3, SubSeqProperties DEF Raw
<1>5. Len(Raw(w)) = w
  BY <1>1, <1>4
<1>6. SubSeq(bytes, 1, pos) \o SubSeq(bytes, pos + 1, pos + w) = SubSeq(bytes, 1, pos + w)
  <2>1. 1 \in 1 .. Len(bytes) + 1 /\ pos \in 1 - 1 .. Len(bytes) /\ pos + w \in pos .. Len(bytes)
    BY <1>1
  <2> QED
    BY <1>1, <2>1, ConcatAdjacentSubSeq
<1> QED
  BY <1>1, <1>4, <1>5, <1>6 DEF Raw

(* A field that is due.                                                    *)
LEMMA DueField ==
  ASSUME ReaderInv, NEW name, Due(name)
  PROVE  /\ Head(todo)[2] \in Nat /\ pos + Head(todo)[2] <= Len(bytes) /\ name \in Names
         /\ name \in Numeric => Head(todo)[2] = Width[name]
         /\ Tail(todo) \in Seq(Plans)
<1>1. todo \in Seq(Plans) /\ todo # <<>>
  BY DEF ReaderInv, Due
<1> DEFINE h == Head(todo)
<1>2. h \in Plans /\ Tail(todo) \in Seq(Plans)
  BY <1>1, HeadTailProperties
<1>3. h[1] = name /\ pos + h[2] <= Len(bytes)
  BY DEF Due
<1> HIDE DEF h
<1>4. h[2] \in Nat /\ h[1] \in Names /\ (h[1] \in Numeric => h[2] = Width[h[1]])
  BY <1>2 DEF Plans
<1> QED
  BY <1>2, <1>3, <1>4 DEF h

(* A take that keeps what it saw.                                          *)
LEMMA TakeReads ==
  ASSUME ReaderInv, NEW name, NEW value, NEW next \in Seq(Plans), NEW verdict, verdict # "ok",
         Due(name), Take(name, value, next, verdict),
         <<name, value>> \in Entries, Written(<<name, value>>) = Raw(Head(todo)[2])
  PROVE  ReaderInv'
<1> DEFINE w == Head(todo)[2]
           f == <<name, value>>
<1>1. w \in Nat /\ pos + w <= Len(bytes)
  BY DueField
<1>2. /\ pos' = pos + w /\ got' = Append(got, f) /\ todo' = next /\ outcome' = verdict /\ bytes' = bytes
  BY DEF Take
<1> HIDE DEF w, f
<1>3. /\ Raw(w) \in Seq(Bytes) /\ pos + w \in 0 .. Len(bytes)
      /\ SubSeq(bytes, 1, pos) \o Raw(w) = SubSeq(bytes, 1, pos + w)
  BY <1>1, RawBytes
<1>4. got \in Seq(Entries) /\ f \in Entries /\ Written(f) = Raw(w) /\ Encoded(got) = SubSeq(bytes, 1, pos)
  BY DEF f, w, ReaderInv
<1>5. Append(got, f) \in Seq(Entries) /\ Encoded(Append(got, f)) = Encoded(got) \o Written(f)
  BY <1>4, EncodedAppend
<1>6. Encoded(Append(got, f)) = SubSeq(bytes, 1, pos + w)
  BY <1>3, <1>4, <1>5
<1> QED
  BY <1>2, <1>3, <1>5, <1>6 DEF ReaderInv

(* A number that is due.                                                   *)
LEMMA NumberDue ==
  ASSUME ReaderInv, NEW name \in Numeric, Due(name)
  PROVE  LET v == Number(Raw(Width[name]))
         IN  /\ Head(todo)[2] = Width[name] /\ Width[name] \in 1 .. 3
             /\ v \in Nat /\ <<name, v>> \in Entries
             /\ Written(<<name, v>>) = Raw(Head(todo)[2])
<1> DEFINE w == Width[name]
           r == Raw(w)
<1>1. Head(todo)[2] = w /\ w \in 1 .. 3 /\ pos + w <= Len(bytes)
  BY DueField, NamesApart
<1> HIDE DEF w
<1>2. r \in Seq(Bytes) /\ Len(r) = w
  <2>1. w \in Nat
    BY <1>1
  <2> QED
    BY <1>1, <2>1, RawBytes
<1> HIDE DEF r
<1>3. Number(r) \in Nat /\ Digits(Number(r), w) = r
  BY <1>1, <1>2, NumberTaken
<1>4. <<name, Number(r)>> \in Entries
  BY <1>3 DEF Entries
<1>5. Written(<<name, Number(r)>>) = r
  BY <1>3 DEF Written, w
<1> QED
  BY <1>1, <1>3, <1>4, <1>5 DEF r, w

(* Every take, the end of the record and every error keep it.              *)
LEMMA ReaderStep == ReaderInv /\ [Next]_vars => ReaderInv'
<1> SUFFICES ASSUME ReaderInv, [Next]_vars PROVE ReaderInv'
  OBVIOUS
<1>0. /\ Width["tree"] = 2 /\ Width["leaf"] = 2 /\ Width["block"] = 3 /\ Width["body_tag"] = 1
      /\ Width["asset_tag"] = 1 /\ Width["bundle"] = 2 /\ Width["blocks"] = 2 /\ Width["blob"] = 2
      /\ {"tree", "leaf", "block", "body_tag", "asset_tag", "bundle", "blocks", "blob"} = Numeric
  BY WidthFacts
<1>1. CASE UnexpectedEof
  BY <1>1 DEF UnexpectedEof, ReaderInv
<1>2. CASE TakeTree
  <2>1. /\ Due("tree") /\ Take("tree", Number(Raw(2)), Tail(todo), "reading")
    BY <1>2 DEF TakeTree
  <2>2. /\ <<"tree", Number(Raw(2))>> \in Entries
        /\ Written(<<"tree", Number(Raw(2))>>) = Raw(Head(todo)[2]) /\ Tail(todo) \in Seq(Plans)
    BY <1>0, <2>1, NumberDue, DueField
  <2> QED
    BY <2>1, <2>2, TakeReads
<1>3. CASE TakeLeaf
  <2> DEFINE v == Number(Raw(2))
             verdict == IF v < Capacity THEN "reading" ELSE "InvalidNodePosition"
  <2>1. /\ Due("leaf") /\ Take("leaf", v, Tail(todo), verdict) /\ verdict # "ok"
    BY <1>3 DEF TakeLeaf
  <2>2. /\ <<"leaf", v>> \in Entries
        /\ Written(<<"leaf", v>>) = Raw(Head(todo)[2]) /\ Tail(todo) \in Seq(Plans)
    BY <1>0, <2>1, NumberDue, DueField
  <2> HIDE DEF v, verdict
  <2> QED
    BY <2>1, <2>2, TakeReads
<1>4. CASE TakeBlock
  <2>1. /\ Due("block") /\ Take("block", Number(Raw(3)), Tail(todo), "reading")
    BY <1>4 DEF TakeBlock
  <2>2. /\ <<"block", Number(Raw(3))>> \in Entries
        /\ Written(<<"block", Number(Raw(3))>>) = Raw(Head(todo)[2]) /\ Tail(todo) \in Seq(Plans)
    BY <1>0, <2>1, NumberDue, DueField
  <2> QED
    BY <2>1, <2>2, TakeReads
<1>5. CASE TakeBodyTag
  <2> DEFINE v == Number(Raw(1))
             next == CASE v = 0 -> ShieldPlan [] v = 1 -> TransactPlan [] OTHER -> <<>>
             verdict == IF v \in {0, 1} THEN "reading" ELSE "InvalidCommitmentTag"
  <2>1. /\ Due("body_tag") /\ Take("body_tag", v, next, verdict) /\ verdict # "ok"
    BY <1>5 DEF TakeBodyTag
  <2>2. /\ <<"body_tag", v>> \in Entries /\ Written(<<"body_tag", v>>) = Raw(Head(todo)[2])
    BY <1>0, <2>1, NumberDue
  <2>3. next \in Seq(Plans)
    <3> HIDE DEF v
    <3> QED
      BY PlanTypes, EmptySeq
  <2> HIDE DEF v, next, verdict
  <2> QED
    BY <2>1, <2>2, <2>3, TakeReads
<1>6. CASE TakeAssetTag
  <2> DEFINE v == Number(Raw(1))
             verdict == IF v = 0 THEN "reading" ELSE "InvalidAssetTag"
  <2>1. /\ Due("asset_tag") /\ Take("asset_tag", v, Tail(todo), verdict) /\ verdict # "ok"
    BY <1>6 DEF TakeAssetTag
  <2>2. /\ <<"asset_tag", v>> \in Entries
        /\ Written(<<"asset_tag", v>>) = Raw(Head(todo)[2]) /\ Tail(todo) \in Seq(Plans)
    BY <1>0, <2>1, NumberDue, DueField
  <2> HIDE DEF v, verdict
  <2> QED
    BY <2>1, <2>2, TakeReads
<1>7. CASE TakeBundle
  <2> DEFINE v == Number(Raw(2))
             next == Times(v, Field("word")) \o Tail(todo)
  <2>1. /\ Due("bundle") /\ Take("bundle", v, next, "reading")
    BY <1>7 DEF TakeBundle
  <2>2. /\ v \in Nat /\ <<"bundle", v>> \in Entries
        /\ Written(<<"bundle", v>>) = Raw(Head(todo)[2]) /\ Tail(todo) \in Seq(Plans)
    BY <1>0, <2>1, NumberDue, DueField
  <2>3. next \in Seq(Plans)
    <3>1. Field("word") \in Plans
      BY PlanTypes DEF Names, ArrayNames
    <3> HIDE DEF v
    <3> QED
      BY <2>2, <3>1, TimesType
  <2> HIDE DEF v, next
  <2> QED
    BY <2>1, <2>2, <2>3, TakeReads
<1>8. CASE TakeBlocks
  <2> DEFINE v == Number(Raw(2))
             next == Times(v, Field("blob")) \o Tail(todo)
  <2>1. /\ Due("blocks") /\ Take("blocks", v, next, "reading")
    BY <1>8 DEF TakeBlocks
  <2>2. /\ v \in Nat /\ <<"blocks", v>> \in Entries
        /\ Written(<<"blocks", v>>) = Raw(Head(todo)[2]) /\ Tail(todo) \in Seq(Plans)
    BY <1>0, <2>1, NumberDue, DueField
  <2>3. next \in Seq(Plans)
    <3>1. Field("blob") \in Plans
      BY <1>0, PlanTypes DEF Names
    <3> HIDE DEF v
    <3> QED
      BY <2>2, <3>1, TimesType
  <2> HIDE DEF v, next
  <2> QED
    BY <2>1, <2>2, <2>3, TakeReads
<1>9. CASE TakeBlob
  <2> DEFINE v == Number(Raw(2))
             next == << <<"data", v>> >> \o Tail(todo)
  <2>1. /\ Due("blob") /\ Take("blob", v, next, "reading")
    BY <1>9 DEF TakeBlob
  <2>2. /\ v \in Nat /\ <<"blob", v>> \in Entries
        /\ Written(<<"blob", v>>) = Raw(Head(todo)[2]) /\ Tail(todo) \in Seq(Plans)
    BY <1>0, <2>1, NumberDue, DueField
  <2>3. next \in Seq(Plans)
    <3> DEFINE d == <<"data", v>>
    <3>1. d \in Plans
      BY <2>2, PlanTypes
    <3> HIDE DEF v, d
    <3>2. <<d>> \in Seq(Plans)
      BY <3>1
    <3>3. <<d>> \o Tail(todo) \in Seq(Plans)
      BY <2>2, <3>2, ConcatProperties
    <3> QED
      BY <3>3 DEF d
  <2> HIDE DEF v, next
  <2> QED
    BY <2>1, <2>2, <2>3, TakeReads
<1>10. CASE Finish
  BY <1>10 DEF Finish, ReaderInv
<1>11. CASE Done
  BY <1>11 DEF Done, ReaderInv, vars
<1>12. ASSUME NEW name \in ArrayNames, TakeArray(name)
       PROVE  ReaderInv'
  <2> DEFINE w == Head(todo)[2]
             v == Raw(w)
  <2>1. Due(name) /\ Take(name, v, Tail(todo), "reading")
    BY <1>12 DEF TakeArray
  <2>2. w \in Nat /\ pos + w <= Len(bytes) /\ Tail(todo) \in Seq(Plans)
    BY <2>1, DueField
  <2>3. v \in Seq(Bytes)
    <3> HIDE DEF w
    <3> QED
      BY <2>2, RawBytes
  <2>4. <<name, v>> \in Entries /\ Written(<<name, v>>) = v
    <3>1. name \notin Numeric
      BY NamesApart
    <3> HIDE DEF v
    <3> QED
      BY <2>3, <3>1 DEF Entries, Written
  <2>5. Written(<<name, v>>) = Raw(Head(todo)[2])
    BY <2>4, Zenon
  <2> HIDE DEF v, w
  <2> QED
    BY <2>1, <2>2, <2>4, <2>5, TakeReads
<1>13. CASE UNCHANGED vars
  BY <1>13 DEF ReaderInv, vars
<1> QED
  BY <1>1, <1>2, <1>3, <1>4, <1>5, <1>6, <1>7, <1>8, <1>9, <1>10, <1>11, <1>12, <1>13 DEF Next

(* So it holds throughout.                                                 *)
LEMMA ReaderInvHolds == Spec => []ReaderInv
  BY ReaderInit, ReaderStep, PTL DEF Spec

(* A record is decoded only if it is, to the last byte, the encoding of    *)
(* what comes out, however it was cut, continued or changed.               *)
THEOREM RecordsAreCanonical == Spec => []Canonical
<1>1. ReaderInv => Canonical
  <2> SUFFICES ASSUME ReaderInv, outcome = "ok" PROVE bytes = Encoded(got)
    BY DEF Canonical
  <2>1. bytes \in Seq(Bytes) /\ Encoded(got) = SubSeq(bytes, 1, Len(bytes))
    BY DEF ReaderInv
  <2> QED
    BY <2>1, SubSeqFull
<1> QED
  BY <1>1, ReaderInvHolds, PTL

-----------------------------------------------------------------------------
(* What is due while an undamaged record is read: after k fields of a      *)
(* node the rest of a plan, behind as many words, blocks or the bytes of   *)
(* the blob as are still missing.                                          *)
From(s, i) == SubSeq(s, i, Len(s))
Data(b) == << <<"data", Len(b)>> >>

InHeader(k, t) == k \in 0 .. 4 /\ t = From(Header, k + 1)

InShield(b, k, t) ==
  LET n == Len(b.bundle)
  IN  \/ k \in 5 .. 9 /\ t = From(ShieldPlan, k - 4)
      \/ k \in 10 .. 10 + n /\ t = Times((10 + n) - k, Field("word")) \o From(ShieldPlan, 6)
      \/ k = 11 + n /\ t = <<>>

BlocksLeft(b, i) == Times(Len(b.data) - i, Field("blob")) \o From(TransactPlan, 4)

InTransact(b, k, t) ==
  LET m == Len(b.data)
  IN  \/ k \in 5 .. 7 /\ t = From(TransactPlan, k - 4)
      \/ \E i \in 0 .. m : k = 8 + 2 * i /\ t = BlocksLeft(b, i)
      \/ \E i \in 1 .. m : k = 7 + 2 * i /\ t = Data(b.data[i]) \o BlocksLeft(b, i)
      \/ k = 9 + 2 * m /\ t = Data(b.memo) \o From(TransactPlan, 5)
      \/ k = 10 + 2 * m /\ t = From(TransactPlan, 5)
      \/ k = 11 + 2 * m /\ t = From(TransactPlan, 6)
      \/ k = 12 + 2 * m /\ t = From(TransactPlan, 7)
      \/ k = 13 + 2 * m /\ t = Data(b.annotation)
      \/ k = 14 + 2 * m /\ t = <<>>

Planned(b, k, t) ==
  \/ InHeader(k, t)
  \/ b.kind = "shield" /\ InShield(b, k, t)
  \/ b.kind = "transact" /\ InTransact(b, k, t)

(* The first k fields of the stored node have been taken.                  *)
TakenUpTo(k) == got = SubSeq(Fields(node), 1, k) /\ Planned(node.body, k, todo)

RoundTripInv ==
  /\ node \in Nodes
  /\ bytes = EncodeNode(node) =>
       /\ outcome \in {"reading", "ok"}
       /\ \E k \in 0 .. Len(Fields(node)) :
            TakenUpTo(k) /\ (outcome = "ok" => k = Len(Fields(node)))

(* A field that is due, and what follows it.                               *)
Asks(t, f) ==
  /\ t # <<>>
  /\ Head(t) = IF f[1] = "data" THEN <<"data", Len(f[2])>> ELSE Field(f[1])

Accepted(f) ==
  /\ f[1] = "leaf" => f[2] < Capacity
  /\ f[1] = "body_tag" => f[2] \in {0, 1}
  /\ f[1] = "asset_tag" => f[2] = 0

Follow(f, t) ==
  CASE f[1] = "body_tag" /\ f[2] = 0 -> ShieldPlan
    [] f[1] = "body_tag" /\ f[2] # 0 -> TransactPlan
    [] f[1] = "bundle" -> Times(f[2], Field("word")) \o Tail(t)
    [] f[1] = "blocks" -> Times(f[2], Field("blob")) \o Tail(t)
    [] f[1] = "blob" -> << <<"data", f[2]>> >> \o Tail(t)
    [] OTHER -> Tail(t)

Proceeds(n, k, t) ==
  LET f == Fields(n)[k + 1]
  IN  Asks(t, f) /\ Accepted(f) /\ Planned(n.body, k + 1, Follow(f, t))

(* A plan from some place on.                                              *)
LEMMA FromStep ==
  ASSUME NEW S, NEW s \in Seq(S), NEW i \in 1 .. Len(s)
  PROVE  /\ From(s, i) \in Seq(S) /\ From(s, i) # <<>>
         /\ Head(From(s, i)) = s[i] /\ Tail(From(s, i)) = From(s, i + 1)
<1>1. Len(s) \in Nat /\ i \in Int /\ \A j \in i .. Len(s) : s[j] \in S
  BY LenProperties, ElementOfSeq
<1>2. From(s, i) \in Seq(S) /\ Len(From(s, i)) = Len(s) - i + 1
  <2>1. Len(s) \in Int
    BY <1>1
  <2> QED
    BY <1>1, <2>1, SubSeqProperties DEF From
<1>3. From(s, i) # <<>>
  BY <1>1, <1>2
<1>4. Head(From(s, i)) = s[i] /\ Tail(From(s, i)) = From(s, i + 1)
  <2>1. Len(s) \in i .. Len(s)
    BY <1>1
  <2> QED
    BY <2>1, HeadTailOfSubSeq DEF From
<1> QED
  BY <1>2, <1>3, <1>4

(* A plan from its start, and behind its end.                              *)
LEMMA FromEnds ==
  ASSUME NEW S, NEW s \in Seq(S)
  PROVE  From(s, 1) = s /\ From(s, Len(s) + 1) = <<>>
<1>1. Len(s) \in Nat
  BY LenProperties
<1>2. From(s, 1) = s
  BY SubSeqFull DEF From
<1>3. From(s, Len(s) + 1) = <<>>
  BY <1>1, SubSeqEmpty DEF From
<1> QED
  BY <1>2, <1>3

(* One field in front of a plan.                                           *)
LEMMA OneStep ==
  ASSUME NEW d \in Plans, NEW rest \in Seq(Plans)
  PROVE  /\ <<d>> \o rest \in Seq(Plans) /\ <<d>> \o rest # <<>>
         /\ Head(<<d>> \o rest) = d /\ Tail(<<d>> \o rest) = rest
<1> DEFINE u == <<d>> \o rest
<1>1. <<d>> \in Seq(Plans) /\ Len(<<d>>) = 1 /\ <<d>>[1] = d
  OBVIOUS
<1> DEFINE e == <<d>>
<1> HIDE DEF e
<1>2. e \in Seq(Plans) /\ Len(e) = 1 /\ e[1] = d
  BY <1>1 DEF e
<1>3. /\ e \o rest \in Seq(Plans) /\ Len(e \o rest) = Len(e) + Len(rest)
      /\ \A i \in 1 .. Len(e) : (e \o rest)[i] = e[i]
      /\ \A i \in 1 .. Len(rest) : (e \o rest)[Len(e) + i] = rest[i]
  BY <1>2, ConcatParts
<1>4. /\ u \in Seq(Plans) /\ Len(u) = 1 + Len(rest) /\ u[1] = d
      /\ \A i \in 1 .. Len(rest) : u[1 + i] = rest[i]
  BY <1>2, <1>3 DEF e
<1> HIDE DEF u
<1>5. Len(rest) \in Nat
  BY LenProperties
<1>6. u # <<>> /\ Head(u) = d
  BY <1>4, <1>5
<1>7. Tail(u) = rest
  <2>1. /\ Tail(u) \in Seq(Plans) /\ Len(Tail(u)) = Len(u) - 1
        /\ \A i \in 1 .. Len(Tail(u)) : Tail(u)[i] = u[i + 1]
    BY <1>4, <1>6, HeadTailProperties
  <2>2. Len(Tail(u)) = Len(rest)
    BY <1>4, <1>5, <2>1
  <2>3. \A i \in 1 .. Len(rest) : Tail(u)[i] = rest[i]
    <3> SUFFICES ASSUME NEW i \in 1 .. Len(rest) PROVE Tail(u)[i] = rest[i]
      OBVIOUS
    <3>1. i + 1 = 1 + i
      OBVIOUS
    <3> QED
      BY <1>4, <2>1, <2>2, <3>1
  <2> QED
    BY <2>1, <2>2, <2>3, SeqEqual
<1> QED
  BY <1>4, <1>6, <1>7 DEF u

(* Repeated fields in front of a plan.                                     *)
LEMMA TimesStep ==
  ASSUME NEW n \in Nat, NEW d \in Plans, NEW rest \in Seq(Plans)
  PROVE  /\ Times(0, d) \o rest = rest
         /\ Times(n + 1, d) \o rest # <<>>
         /\ Head(Times(n + 1, d) \o rest) = d
         /\ Tail(Times(n + 1, d) \o rest) = Times(n, d) \o rest
<1>1. Times(0, d) = <<>>
  BY DEF Times
<1>2. Times(0, d) \o rest = rest
  BY <1>1, ConcatEmptySeq
<1>3. Times(n + 1, d) = <<d>> \o Times(n, d) /\ Times(n, d) \in Seq(Plans)
  <2> DEFINE a == <<d>>
             b == Times(n, d)
             u == Times(n + 1, d)
  <2>1. a \in Seq(Plans) /\ Len(a) = 1 /\ a[1] = d
    OBVIOUS
  <2>2. b \in Seq(Plans) /\ Len(b) = n /\ \A i \in 1 .. n : b[i] = d
    BY DEF Times
  <2>3. u \in Seq(Plans) /\ Len(u) = n + 1 /\ \A i \in 1 .. n + 1 : u[i] = d
    BY DEF Times
  <2> HIDE DEF a, b, u
  <2>4. /\ a \o b \in Seq(Plans) /\ Len(a \o b) = n + 1
        /\ \A i \in 1 .. n + 1 : (a \o b)[i] = IF i <= 1 THEN a[i] ELSE b[i - 1]
    <3>1. /\ a \o b \in Seq(Plans) /\ Len(a \o b) = Len(a) + Len(b)
          /\ \A i \in 1 .. Len(a) + Len(b) : (a \o b)[i] = IF i <= Len(a) THEN a[i] ELSE b[i - Len(a)]
      BY <2>1, <2>2, ConcatProperties
    <3>2. Len(a) = 1 /\ Len(b) = n /\ 1 + n = n + 1
      BY <2>1, <2>2
    <3> QED
      BY <3>1, <3>2
  <2>5. \A i \in 1 .. n + 1 : (a \o b)[i] = u[i]
    <3> SUFFICES ASSUME NEW i \in 1 .. n + 1 PROVE (a \o b)[i] = u[i]
      OBVIOUS
    <3>1. CASE i = 1
      BY <2>1, <2>3, <2>4, <3>1
    <3>2. CASE i # 1
      <4>1. i \in Int /\ n \in Int /\ 1 <= i /\ i <= n + 1
        OBVIOUS
      <4>2. i - 1 \in 1 .. n /\ ~(i <= 1)
        BY <3>2, <4>1
      <4> QED
        BY <2>2, <2>3, <2>4, <4>2
    <3> QED
      BY <3>1, <3>2
  <2>6. a \o b = u
    BY <2>3, <2>4, <2>5, SeqEqual
  <2> QED
    BY <2>2, <2>6 DEF a, b, u
<1> DEFINE b == Times(n, d)
           u == Times(n + 1, d)
<1>4. u = <<d>> \o b /\ b \in Seq(Plans)
  BY <1>3
<1> HIDE DEF b, u
<1>5. <<d>> \in Seq(Plans)
  OBVIOUS
<1>6. u \o rest = <<d>> \o (b \o rest) /\ b \o rest \in Seq(Plans)
  <2> DEFINE e == <<d>>
  <2>1. e \in Seq(Plans) /\ b \in Seq(Plans) /\ rest \in Seq(Plans) /\ u = e \o b
    BY <1>4, <1>5
  <2> HIDE DEF e
  <2>2. u \o rest = e \o (b \o rest)
    BY <2>1, ConcatAssociative
  <2>3. b \o rest \in Seq(Plans)
    BY <2>1, ConcatProperties
  <2> QED
    BY <2>2, <2>3 DEF e
<1> DEFINE br == b \o rest
<1>7. u \o rest = <<d>> \o br /\ br \in Seq(Plans)
  BY <1>6
<1> HIDE DEF br
<1>8. u \o rest # <<>> /\ Head(u \o rest) = d /\ Tail(u \o rest) = br
  BY <1>7, OneStep
<1> QED
  BY <1>2, <1>8 DEF b, u, br

(* The plans, place by place.                                              *)
LEMMA PlanParts ==
  /\ Len(Header) = 5 /\ Header[1] = Field("tree") /\ Header[2] = Field("leaf")
  /\ Header[3] = Field("hash") /\ Header[4] = Field("block") /\ Header[5] = Field("body_tag")
  /\ Len(ShieldPlan) = 6 /\ ShieldPlan[1] = Field("npk") /\ ShieldPlan[2] = Field("asset_tag")
  /\ ShieldPlan[3] = Field("token") /\ ShieldPlan[4] = Field("value")
  /\ ShieldPlan[5] = Field("bundle") /\ ShieldPlan[6] = Field("shield_key")
  /\ Len(TransactPlan) = 7 /\ TransactPlan[1] = Field("iv") /\ TransactPlan[2] = Field("tag")
  /\ TransactPlan[3] = Field("blocks") /\ TransactPlan[4] = Field("blob")
  /\ TransactPlan[5] = Field("sender_key") /\ TransactPlan[6] = Field("receiver_key")
  /\ TransactPlan[7] = Field("blob")
  BY DEF Header, ShieldPlan, TransactPlan

-----------------------------------------------------------------------------
(* Going on in a plan.                                                     *)
LEMMA PlansGoOn ==
  /\ \A i \in 1 .. 5 : /\ From(Header, i) # <<>> /\ Head(From(Header, i)) = Header[i]
                       /\ Tail(From(Header, i)) = From(Header, i + 1)
  /\ \A i \in 1 .. 6 : /\ From(ShieldPlan, i) # <<>> /\ Head(From(ShieldPlan, i)) = ShieldPlan[i]
                       /\ Tail(From(ShieldPlan, i)) = From(ShieldPlan, i + 1)
                       /\ From(ShieldPlan, i) \in Seq(Plans)
  /\ \A i \in 1 .. 7 : /\ From(TransactPlan, i) # <<>> /\ Head(From(TransactPlan, i)) = TransactPlan[i]
                       /\ Tail(From(TransactPlan, i)) = From(TransactPlan, i + 1)
                       /\ From(TransactPlan, i) \in Seq(Plans)
  /\ From(Header, 1) = Header /\ From(ShieldPlan, 1) = ShieldPlan /\ From(TransactPlan, 1) = TransactPlan
  /\ From(ShieldPlan, 7) = <<>> /\ From(TransactPlan, 8) = <<>>
<1>1. /\ Header \in Seq(Plans) /\ ShieldPlan \in Seq(Plans) /\ TransactPlan \in Seq(Plans)
      /\ Len(Header) = 5 /\ Len(ShieldPlan) = 6 /\ Len(TransactPlan) = 7
  BY PlanTypes, PlanParts
<1>2. \A i \in 1 .. 5 : /\ From(Header, i) # <<>> /\ Head(From(Header, i)) = Header[i]
                        /\ Tail(From(Header, i)) = From(Header, i + 1)
  BY <1>1, FromStep
<1>3. \A i \in 1 .. 6 : /\ From(ShieldPlan, i) # <<>> /\ Head(From(ShieldPlan, i)) = ShieldPlan[i]
                        /\ Tail(From(ShieldPlan, i)) = From(ShieldPlan, i + 1)
                        /\ From(ShieldPlan, i) \in Seq(Plans)
  BY <1>1, FromStep
<1>4. \A i \in 1 .. 7 : /\ From(TransactPlan, i) # <<>> /\ Head(From(TransactPlan, i)) = TransactPlan[i]
                        /\ Tail(From(TransactPlan, i)) = From(TransactPlan, i + 1)
                        /\ From(TransactPlan, i) \in Seq(Plans)
  BY <1>1, FromStep
<1>5. From(Header, 1) = Header /\ From(ShieldPlan, 1) = ShieldPlan /\ From(TransactPlan, 1) = TransactPlan
  BY <1>1, FromEnds
<1>6. From(ShieldPlan, 6 + 1) = <<>> /\ From(TransactPlan, 7 + 1) = <<>>
  BY <1>1, FromEnds
<1>7. 6 + 1 = 7 /\ 7 + 1 = 8
  OBVIOUS
<1>8. From(ShieldPlan, 7) = <<>> /\ From(TransactPlan, 8) = <<>>
  BY <1>6, <1>7
<1> QED
  BY <1>2, <1>3, <1>4, <1>5, <1>8

(* A field that is taken as it is and is followed by the rest of the plan. *)
LEMMA PlainField ==
  ASSUME NEW t, NEW f,
         f[1] \notin {"data", "body_tag", "bundle", "blocks", "blob", "leaf", "asset_tag"},
         t # <<>>, Head(t) = Field(f[1])
  PROVE  Asks(t, f) /\ Accepted(f) /\ Follow(f, t) = Tail(t)
<1>1. Asks(t, f)
  BY DEF Asks
<1>2. Accepted(f)
  BY DEF Accepted
<1>3. Follow(f, t) = Tail(t)
  BY DEF Follow
<1> QED
  BY <1>1, <1>2, <1>3

(* The fields both kinds of node begin with.                               *)
LEMMA HeaderProceeds ==
  ASSUME NEW n \in Nodes, NEW k \in 0 .. 4, NEW t, InHeader(k, t)
  PROVE  Proceeds(n, k, t)
<1> DEFINE F == Fields(n)
           f == F[k + 1]
           tag == IF n.body.kind = "shield" THEN 0 ELSE 1
<1>1. /\ F[1] = <<"tree", n.tree>> /\ F[2] = <<"leaf", n.leaf>> /\ F[3] = <<"hash", n.hash>>
      /\ F[4] = <<"block", n.block>> /\ F[5] = <<"body_tag", tag>>
      /\ n.body.kind \in {"shield", "transact"} /\ n.leaf < Capacity
  <2>1. n.leaf < Capacity
    <3>1. Capacity \in Int /\ n.leaf \in 0 .. Capacity - 1
      BY CodecAssumption, BaseFacts DEF U32
    <3> QED
      BY <3>1
  <2>2. HeaderLaid(F, n)
    BY NodeFields
  <2>3. \/ n.body.kind = "shield" /\ ShieldLaid(F, n.body)
        \/ n.body.kind = "transact" /\ TransactLaid(F, n.body)
    BY NodeFields
  <2>4. n.body.kind \in {"shield", "transact"} /\ F[5] = <<"body_tag", tag>>
    BY <2>3 DEF ShieldLaid, TransactLaid
  <2> QED
    BY <2>1, <2>2, <2>4 DEF HeaderLaid
<1>2. t # <<>> /\ Head(t) = Header[k + 1] /\ Tail(t) = From(Header, k + 2)
  <2>1. k + 1 \in 1 .. 5 /\ k + 1 + 1 = k + 2
    OBVIOUS
  <2> QED
    BY <2>1, PlansGoOn DEF InHeader
<1>a. f = F[k + 1]
  OBVIOUS
<1> HIDE DEF tag, f, F
<1>3. ASSUME k \in 0 .. 3
      PROVE  Asks(t, f) /\ Accepted(f) /\ Follow(f, t) = Tail(t)
  <2>1. CASE k = 0
    <3>1. f = <<"tree", n.tree>> /\ t # <<>> /\ Head(t) = Field("tree")
      BY <1>1, <1>2, <1>a, <2>1, PlanParts
    <3> QED
      BY <3>1, PlainField
  <2>2. CASE k = 1
    <3>1. f = <<"leaf", n.leaf>> /\ t # <<>> /\ Head(t) = Field("leaf")
      BY <1>1, <1>2, <1>a, <2>2, PlanParts
    <3>2. Asks(t, f) /\ Accepted(f)
      BY <1>1, <3>1 DEF Asks, Accepted
    <3>3. Follow(f, t) = Tail(t)
      BY <3>1 DEF Follow
    <3> QED
      BY <3>2, <3>3
  <2>3. CASE k = 2
    <3>1. f = <<"hash", n.hash>> /\ t # <<>> /\ Head(t) = Field("hash")
      BY <1>1, <1>2, <1>a, <2>3, PlanParts
    <3> QED
      BY <3>1, PlainField
  <2>4. CASE k = 3
    <3>1. f = <<"block", n.block>> /\ t # <<>> /\ Head(t) = Field("block")
      BY <1>1, <1>2, <1>a, <2>4, PlanParts
    <3> QED
      BY <3>1, PlainField
  <2> QED
    BY <1>3, <2>1, <2>2, <2>3, <2>4
<1>4. CASE k \in 0 .. 3
  <2>1. k + 1 \in 0 .. 4 /\ k + 1 + 1 = k + 2
    BY <1>4
  <2>2. InHeader(k + 1, Follow(f, t))
    BY <1>2, <1>3, <1>4, <2>1 DEF InHeader
  <2>3. Asks(t, f) /\ Accepted(f) /\ Planned(n.body, k + 1, Follow(f, t))
    BY <1>3, <1>4, <2>2 DEF Planned
  <2> QED
    BY <2>3 DEF Proceeds, f, F
<1>5. CASE k = 4
  <2>1. f = <<"body_tag", tag>> /\ Head(t) = Field("body_tag") /\ t # <<>>
    BY <1>1, <1>2, <1>a, <1>5, PlanParts
  <2>2. Asks(t, f) /\ Accepted(f)
    BY <2>1 DEF Asks, Accepted, tag
  <2>3. Follow(f, t) = IF n.body.kind = "shield" THEN From(ShieldPlan, 1) ELSE From(TransactPlan, 1)
    BY <2>1, PlansGoOn DEF Follow, tag
  <2>4. k + 1 \in 5 .. 9 /\ k + 1 \in 5 .. 7 /\ (k + 1) - 4 = 1
    BY <1>5
  <2>5. Planned(n.body, k + 1, Follow(f, t))
    <3>1. CASE n.body.kind = "shield"
      BY <2>3, <2>4, <3>1 DEF Planned, InShield
    <3>2. CASE n.body.kind = "transact"
      BY <2>3, <2>4, <3>2 DEF Planned, InTransact
    <3> QED
      BY <1>1, <3>1, <3>2
  <2> QED
    BY <2>2, <2>5 DEF Proceeds, f, F
<1> QED
  BY <1>4, <1>5

(* The fields of a shield.                                                 *)
LEMMA ShieldProceeds ==
  ASSUME NEW n \in Nodes, n.body.kind = "shield", ShieldLaid(Fields(n), n.body),
         Len(n.body.bundle) \in Nat,
         NEW k \in 0 .. Len(Fields(n)) - 1, NEW t, InShield(n.body, k, t)
  PROVE  Proceeds(n, k, t)
<1> DEFINE F == Fields(n)
           f == F[k + 1]
           b == n.body
           m == Len(b.bundle)
           w == Field("word")
           last == From(ShieldPlan, 6)
<1>1. /\ F[6] = <<"npk", b.npk>> /\ F[7] = <<"asset_tag", 0>>
      /\ F[8] = <<"token", b.token>> /\ F[9] = <<"value", b.value>> /\ F[10] = <<"bundle", m>>
      /\ \A i \in 1 .. m : F[10 + i] = <<"word", b.bundle[i]>>
      /\ F[11 + m] = <<"shield_key", b.shield_key>> /\ Len(F) = 11 + m /\ m \in Nat
  BY DEF ShieldLaid
<1>2. ASSUME Asks(t, f), Accepted(f), InShield(b, k + 1, Follow(f, t))
      PROVE  Proceeds(n, k, t)
  <2>1. Planned(b, k + 1, Follow(f, t))
    BY <1>2 DEF Planned
  <2> QED
    BY <1>2, <2>1 DEF Proceeds
<1>a. f = F[k + 1] /\ k \in Nat /\ k < 11 + m
  <2>1. k \in 0 .. Len(F) - 1
    OBVIOUS
  <2> QED
    BY <1>1, <2>1
<1>3. last \in Seq(Plans) /\ w \in Plans
  <2>1. "word" \in Names
    BY DEF Names, ArrayNames
  <2> QED
    BY <2>1, PlansGoOn, PlanTypes
<1>b. m \in Nat /\ k \in Nat
  BY <1>1, <1>a
<1> HIDE DEF F, f, m, w, last
<1>4. CASE k \in 5 .. 9 /\ t = From(ShieldPlan, k - 4)
  <2>1. t # <<>> /\ Head(t) = ShieldPlan[k - 4] /\ Tail(t) = From(ShieldPlan, k - 3)
    <3>1. k - 4 \in 1 .. 6 /\ (k - 4) + 1 = k - 3
      BY <1>4
    <3> QED
      BY <1>4, <3>1, PlansGoOn
  <2>2. Asks(t, f) /\ Accepted(f) /\ (k < 9 => Follow(f, t) = Tail(t))
    <3>1. CASE k = 5
      <4>1. f = <<"npk", b.npk>> /\ t # <<>> /\ Head(t) = Field("npk")
        BY <1>1, <1>a, <2>1, <3>1, PlanParts
      <4> QED
        BY <4>1, <3>1, PlainField
    <3>2. CASE k = 6
      <4>1. f = <<"asset_tag", 0>> /\ t # <<>> /\ Head(t) = Field("asset_tag")
        BY <1>1, <1>a, <2>1, <3>2, PlanParts
      <4> QED
        BY <4>1 DEF Asks, Accepted, Follow
    <3>3. CASE k = 7
      <4>1. f = <<"token", b.token>> /\ t # <<>> /\ Head(t) = Field("token")
        BY <1>1, <1>a, <2>1, <3>3, PlanParts
      <4> QED
        BY <4>1, <3>3, PlainField
    <3>4. CASE k = 8
      <4>1. f = <<"value", b.value>> /\ t # <<>> /\ Head(t) = Field("value")
        BY <1>1, <1>a, <2>1, <3>4, PlanParts
      <4> QED
        BY <4>1, <3>4, PlainField
    <3>5. CASE k = 9
      <4>1. f = <<"bundle", m>> /\ t # <<>> /\ Head(t) = Field("bundle")
        BY <1>1, <1>a, <2>1, <3>5, PlanParts
      <4> QED
        BY <4>1, <3>5 DEF Asks, Accepted
    <3> QED
      BY <1>4, <3>1, <3>2, <3>3, <3>4, <3>5
  <2>3. CASE k < 9
    <3>1. k + 1 \in 5 .. 9 /\ (k + 1) - 4 = k - 3
      BY <1>4, <2>3
    <3>2. InShield(b, k + 1, Follow(f, t))
      BY <2>1, <2>2, <2>3, <3>1 DEF InShield
    <3> QED
      BY <1>2, <2>2, <3>2
  <2>4. CASE k = 9
    <3>1. f = <<"bundle", m>> /\ Tail(t) = last
      BY <1>1, <1>a, <2>1, <2>4 DEF last
    <3>2. Follow(f, t) = Times(m, w) \o last
      BY <3>1 DEF Follow, w
    <3>3. k + 1 \in 10 .. 10 + m /\ (10 + m) - (k + 1) = m
      BY <1>b, <2>4
    <3>4. Follow(f, t) = Times((10 + m) - (k + 1), w) \o last
      BY <3>2, <3>3, Zenon
    <3>5. InShield(b, k + 1, Follow(f, t))
      BY <3>3, <3>4, Zenon DEF InShield, m, w, last
    <3> QED
      BY <1>2, <2>2, <3>5
  <2> QED
    BY <1>4, <2>3, <2>4
<1>5. CASE k \in 10 .. 10 + m /\ t = Times((10 + m) - k, w) \o last
  <2>1. CASE k = 10 + m
    <3>1. (10 + m) - k = 0
      BY <1>b, <2>1
    <3>2. t = Times(0, w) \o last
      BY <1>5, <3>1, Zenon
    <3>2a. t = last
      BY <1>3, <3>2, TimesStep
    <3>3. t # <<>> /\ Head(t) = Field("shield_key") /\ Tail(t) = <<>>
      <4>1. last # <<>> /\ Head(last) = ShieldPlan[6] /\ Tail(last) = From(ShieldPlan, 6 + 1)
        BY PlansGoOn DEF last
      <4>2. 6 + 1 = 7
        OBVIOUS
      <4> QED
        BY <3>2a, <4>1, <4>2, PlansGoOn, PlanParts
    <3>4. f = <<"shield_key", b.shield_key>>
      <4>1. k + 1 = 11 + m
        BY <1>1, <2>1
      <4> QED
        BY <1>1, <1>a, <4>1
    <3>5. Asks(t, f) /\ Accepted(f) /\ Follow(f, t) = Tail(t)
      BY <3>3, <3>4, PlainField
    <3>6. InShield(b, k + 1, Follow(f, t))
      <4>1. k + 1 = 11 + m
        BY <1>1, <2>1
      <4> QED
        BY <3>3, <3>5, <4>1 DEF InShield, m
    <3> QED
      BY <1>2, <3>5, <3>6
  <2>2. CASE k # 10 + m
    <3> DEFINE c == (9 + m) - k
    <3>0. 10 <= k /\ k <= 10 + m
      BY <1>b, <1>5
    <3>1. /\ c \in Nat /\ c + 1 = (10 + m) - k /\ k + 1 \in 10 .. 10 + m /\ (10 + m) - (k + 1) = c
          /\ k - 9 \in 1 .. m /\ 10 + (k - 9) = k + 1
      BY <1>b, <2>2, <3>0
    <3>2. t = Times(c + 1, w) \o last
      BY <1>5, <3>1, Zenon
    <3>3. f = <<"word", b.bundle[k - 9]>>
      BY <1>1, <1>a, <3>1
    <3> HIDE DEF c
    <3>4. t # <<>> /\ Head(t) = w /\ Tail(t) = Times(c, w) \o last
      <4> DEFINE u == Times(c + 1, w) \o last
      <4>1. c \in Nat /\ w \in Plans /\ last \in Seq(Plans)
        BY <1>3, <3>1
      <4>2. u # <<>> /\ Head(u) = w /\ Tail(u) = Times(c, w) \o last
        BY <4>1, TimesStep
      <4>3. t = u
        BY <3>2
      <4> HIDE DEF u
      <4> QED
        BY <4>2, <4>3
    <3>5. Asks(t, f) /\ Accepted(f) /\ Follow(f, t) = Tail(t)
      BY <3>3, <3>4, PlainField DEF w
    <3>6. InShield(b, k + 1, Follow(f, t))
      BY <3>1, <3>4, <3>5, Zenon DEF InShield, m, w, last
    <3> QED
      BY <1>2, <3>5, <3>6
  <2> QED
    BY <2>1, <2>2
<1>6. CASE k = 11 + m /\ t = <<>>
  <2>1. FALSE
    BY <1>a, <1>b, <1>6
  <2> QED
    BY <2>1
<1> QED
  BY <1>4, <1>5, <1>6 DEF InShield, m, w, last

-----------------------------------------------------------------------------
(* The bytes of a blob in front of a plan.                                 *)
LEMMA DataStep ==
  ASSUME NEW v \in Seq(Bytes), NEW rest \in Seq(Plans)
  PROVE  /\ Data(v) \o rest # <<>> /\ Head(Data(v) \o rest) = <<"data", Len(v)>>
         /\ Tail(Data(v) \o rest) = rest /\ Data(v) \in Seq(Plans)
<1> DEFINE d == <<"data", Len(v)>>
<1>1. Data(v) = <<d>> /\ d \in Plans
  <2>1. Len(v) \in Nat
    BY LenProperties
  <2> QED
    BY <2>1, PlanTypes DEF Data
<1> HIDE DEF d
<1>2. <<d>> \o rest # <<>> /\ Head(<<d>> \o rest) = d /\ Tail(<<d>> \o rest) = rest
  BY <1>1, OneStep
<1>3. <<d>> \in Seq(Plans)
  BY <1>1
<1> QED
  BY <1>1, <1>2, <1>3, Zenon DEF d

(* A blob's bytes, and its length.                                         *)
LEMMA DataField ==
  ASSUME NEW t, NEW f, NEW v, f = <<"data", v>>, t # <<>>, Head(t) = <<"data", Len(v)>>
  PROVE  Asks(t, f) /\ Accepted(f) /\ Follow(f, t) = Tail(t)
<1>1. Asks(t, f) /\ Accepted(f)
  BY DEF Asks, Accepted
<1>2. Follow(f, t) = Tail(t)
  BY DEF Follow
<1> QED
  BY <1>1, <1>2

(* A length is followed by as many bytes.                                  *)
LEMMA BlobField ==
  ASSUME NEW t, NEW f, NEW v, f = <<"blob", Len(v)>>, t # <<>>, Head(t) = Field("blob")
  PROVE  Asks(t, f) /\ Accepted(f) /\ Follow(f, t) = Data(v) \o Tail(t)
<1>1. Asks(t, f) /\ Accepted(f)
  BY DEF Asks, Accepted
<1>2. Follow(f, t) = Data(v) \o Tail(t)
  BY DEF Follow, Data
<1> QED
  BY <1>1, <1>2

(* The blocks that are still to be taken.                                  *)
LEMMA BlocksStep ==
  ASSUME NEW b, Len(b.data) \in Nat
  PROVE  /\ BlocksLeft(b, Len(b.data)) = From(TransactPlan, 4)
         /\ BlocksLeft(b, 0) = Times(Len(b.data), Field("blob")) \o From(TransactPlan, 4)
         /\ \A i \in 0 .. Len(b.data) - 1 :
              /\ BlocksLeft(b, i) # <<>> /\ Head(BlocksLeft(b, i)) = Field("blob")
              /\ Tail(BlocksLeft(b, i)) = BlocksLeft(b, i + 1)
         /\ \A i \in 0 .. Len(b.data) : BlocksLeft(b, i) \in Seq(Plans)
<1> DEFINE m == Len(b.data)
           d == Field("blob")
           last == From(TransactPlan, 4)
<1>1. d \in Plans /\ last \in Seq(Plans) /\ m \in Nat
  BY PlansGoOn, PlanTypes, WidthFacts DEF Names
<1>2. \A i : BlocksLeft(b, i) = Times(m - i, d) \o last
  BY Zenon DEF BlocksLeft
<1> HIDE DEF m, d, last
<1>3. m - m = 0 /\ m - 0 = m
  BY <1>1
<1>4. BlocksLeft(b, m) = last
  <2>1. BlocksLeft(b, m) = Times(0, d) \o last
    BY <1>2, <1>3, Zenon
  <2>2. Times(0, d) \o last = last
    BY <1>1, TimesStep
  <2> QED
    BY <2>1, <2>2
<1>5. BlocksLeft(b, 0) = Times(m, d) \o last
  BY <1>2, <1>3, Zenon
<1>6. ASSUME NEW i \in 0 .. m - 1
      PROVE  /\ BlocksLeft(b, i) # <<>> /\ Head(BlocksLeft(b, i)) = d
             /\ Tail(BlocksLeft(b, i)) = BlocksLeft(b, i + 1)
  <2> DEFINE c == m - (i + 1)
             u == Times(c + 1, d) \o last
             v == Times(c, d) \o last
  <2>1. c \in Nat /\ c + 1 = m - i
    BY <1>1
  <2>2. BlocksLeft(b, i) = u /\ BlocksLeft(b, i + 1) = v
    BY <1>2, <2>1, Zenon
  <2> HIDE DEF c
  <2>3. u # <<>> /\ Head(u) = d /\ Tail(u) = v
    BY <1>1, <2>1, TimesStep
  <2> HIDE DEF u, v
  <2> QED
    BY <2>2, <2>3
<1>7. ASSUME NEW i \in 0 .. m
      PROVE  BlocksLeft(b, i) \in Seq(Plans)
  <2> DEFINE c == m - i
  <2>0. c \in Nat
    BY <1>1
  <2>1. BlocksLeft(b, i) = Times(c, d) \o last
    BY <1>2, Zenon
  <2> HIDE DEF c
  <2>2. Times(c, d) \o last \in Seq(Plans)
    BY <1>1, <2>0, TimesType
  <2> QED
    BY <2>1, <2>2
<1> QED
  BY <1>4, <1>5, <1>6, <1>7 DEF m, d, last

(* The fields of a transact.                                               *)
LEMMA TransactProceeds ==
  ASSUME NEW n \in Nodes, n.body.kind = "transact", TransactLaid(Fields(n), n.body),
         n.body \in TransactBodies,
         NEW k \in 0 .. Len(Fields(n)) - 1, NEW t, InTransact(n.body, k, t)
  PROVE  Proceeds(n, k, t)
<1> DEFINE F == Fields(n)
           f == F[k + 1]
           b == n.body
           m == Len(b.data)
           P(i) == From(TransactPlan, i)
           B(i) == BlocksLeft(b, i)
<1>1. /\ F[6] = <<"iv", b.iv>> /\ F[7] = <<"tag", b.tag>> /\ F[8] = <<"blocks", m>>
      /\ \A i \in 1 .. m : F[7 + 2 * i] = <<"blob", Len(b.data[i])>> /\ F[8 + 2 * i] = <<"data", b.data[i]>>
      /\ F[9 + 2 * m] = <<"blob", Len(b.memo)>> /\ F[10 + 2 * m] = <<"data", b.memo>>
      /\ F[11 + 2 * m] = <<"sender_key", b.sender_key>> /\ F[12 + 2 * m] = <<"receiver_key", b.receiver_key>>
      /\ F[13 + 2 * m] = <<"blob", Len(b.annotation)>> /\ F[14 + 2 * m] = <<"data", b.annotation>>
      /\ Len(F) = 14 + 2 * m
  BY DEF TransactLaid
<1>2. /\ b.data \in Seq(Seq(Bytes)) /\ b.memo \in Seq(Bytes) /\ b.annotation \in Seq(Bytes)
  BY DEF TransactBodies
<1>3. m \in Nat /\ \A i \in 1 .. m : b.data[i] \in Seq(Bytes)
  BY <1>2, LenProperties, ElementOfSeq
<1>4. k \in Nat /\ k < 14 + 2 * m /\ f = F[k + 1]
  <2>1. k \in 0 .. Len(F) - 1
    OBVIOUS
  <2> QED
    BY <1>1, <1>3, <2>1
<1>5. ASSUME Asks(t, f), Accepted(f), InTransact(b, k + 1, Follow(f, t))
      PROVE  Proceeds(n, k, t)
  <2>1. Planned(b, k + 1, Follow(f, t))
    BY <1>5 DEF Planned
  <2> QED
    BY <1>5, <2>1 DEF Proceeds
<1>6. /\ B(m) = P(4) /\ B(0) = Times(m, Field("blob")) \o P(4)
      /\ \A i \in 0 .. m - 1 : B(i) # <<>> /\ Head(B(i)) = Field("blob") /\ Tail(B(i)) = B(i + 1)
      /\ \A i \in 0 .. m : B(i) \in Seq(Plans)
  BY <1>3, BlocksStep
<1>7. /\ \A i \in 1 .. 7 : /\ P(i) # <<>> /\ Head(P(i)) = TransactPlan[i] /\ Tail(P(i)) = P(i + 1)
                           /\ P(i) \in Seq(Plans)
      /\ P(8) = <<>>
  BY PlansGoOn
<1>a. /\ Head(P(4)) = Field("blob") /\ Tail(P(4)) = P(5) /\ P(4) # <<>>
      /\ Head(P(5)) = Field("sender_key") /\ Tail(P(5)) = P(6) /\ P(5) # <<>>
      /\ Head(P(6)) = Field("receiver_key") /\ Tail(P(6)) = P(7) /\ P(6) # <<>>
      /\ Head(P(7)) = Field("blob") /\ Tail(P(7)) = <<>> /\ P(7) # <<>>
      /\ P(5) \in Seq(Plans)
  <2> HIDE DEF P
  <2>1. 4 + 1 = 5 /\ 5 + 1 = 6 /\ 6 + 1 = 7 /\ 7 + 1 = 8
    OBVIOUS
  <2>2. Tail(P(4)) = P(4 + 1) /\ Tail(P(5)) = P(5 + 1) /\ Tail(P(6)) = P(6 + 1) /\ Tail(P(7)) = P(7 + 1)
    <3>1. \A i \in 1 .. 7 : Tail(P(i)) = P(i + 1)
      BY <1>7
    <3>2. 4 \in 1 .. 7 /\ 5 \in 1 .. 7 /\ 6 \in 1 .. 7 /\ 7 \in 1 .. 7
      OBVIOUS
    <3> QED
      BY <3>1, <3>2, Zenon
  <2>3. Tail(P(4)) = P(5) /\ Tail(P(5)) = P(6) /\ Tail(P(6)) = P(7) /\ Tail(P(7)) = P(8)
    BY <2>1, <2>2, Zenon
  <2>4. /\ Head(P(4)) = TransactPlan[4] /\ Head(P(5)) = TransactPlan[5] /\ Head(P(6)) = TransactPlan[6]
        /\ Head(P(7)) = TransactPlan[7] /\ P(4) # <<>> /\ P(5) # <<>> /\ P(6) # <<>> /\ P(7) # <<>>
        /\ P(5) \in Seq(Plans)
    BY <1>7
  <2> QED
    BY <1>7, <2>3, <2>4, PlanParts
<1>8. \/ k \in 5 .. 7 /\ t = P(k - 4)
      \/ \E i \in 0 .. m : k = 8 + 2 * i /\ t = B(i)
      \/ \E i \in 1 .. m : k = 7 + 2 * i /\ t = Data(b.data[i]) \o B(i)
      \/ k = 9 + 2 * m /\ t = Data(b.memo) \o P(5)
      \/ k = 10 + 2 * m /\ t = P(5)
      \/ k = 11 + 2 * m /\ t = P(6)
      \/ k = 12 + 2 * m /\ t = P(7)
      \/ k = 13 + 2 * m /\ t = Data(b.annotation)
      \/ k = 14 + 2 * m /\ t = <<>>
  BY DEF InTransact
<1>9. ASSUME NEW j, NEW u,
             \/ j \in 5 .. 7 /\ u = P(j - 4)
             \/ \E i \in 0 .. m : j = 8 + 2 * i /\ u = B(i)
             \/ \E i \in 1 .. m : j = 7 + 2 * i /\ u = Data(b.data[i]) \o B(i)
             \/ j = 9 + 2 * m /\ u = Data(b.memo) \o P(5)
             \/ j = 10 + 2 * m /\ u = P(5)
             \/ j = 11 + 2 * m /\ u = P(6)
             \/ j = 12 + 2 * m /\ u = P(7)
             \/ j = 13 + 2 * m /\ u = Data(b.annotation)
             \/ j = 14 + 2 * m /\ u = <<>>
      PROVE  InTransact(b, j, u)
  BY <1>9 DEF InTransact
<1> HIDE DEF F, f, b, m, P, B
<1>10. ASSUME k \in 5 .. 7, t = P(k - 4)
       PROVE  Proceeds(n, k, t)
  <2>1. t # <<>> /\ Head(t) = TransactPlan[k - 4] /\ Tail(t) = P(k - 3)
    <3>1. k - 4 \in 1 .. 7 /\ (k - 4) + 1 = k - 3
      BY <1>10
    <3> QED
      BY <1>7, <1>10, <3>1
  <2>2. CASE k \in {5, 6}
    <3>1. Asks(t, f) /\ Accepted(f) /\ Follow(f, t) = Tail(t)
      <4>1. CASE k = 5
        <5>1. f = <<"iv", b.iv>> /\ Head(t) = Field("iv") /\ t # <<>>
          BY <1>1, <1>4, <2>1, <4>1, PlanParts
        <5> QED
          BY <5>1, PlainField
      <4>2. CASE k = 6
        <5>1. f = <<"tag", b.tag>> /\ Head(t) = Field("tag") /\ t # <<>>
          BY <1>1, <1>4, <2>1, <4>2, PlanParts
        <5> QED
          BY <5>1, PlainField
      <4> QED
        BY <2>2, <4>1, <4>2
    <3>2. k + 1 \in 5 .. 7 /\ (k + 1) - 4 = k - 3
      BY <2>2
    <3>3. InTransact(b, k + 1, Follow(f, t))
      BY <1>9, <2>1, <3>1, <3>2
    <3> QED
      BY <1>5, <3>1, <3>3
  <2>3. CASE k = 7
    <3>1. f = <<"blocks", m>> /\ Head(t) = Field("blocks") /\ Tail(t) = P(4) /\ t # <<>>
      BY <1>1, <1>4, <2>1, <2>3, PlanParts
    <3>2. Asks(t, f) /\ Accepted(f)
      BY <3>1 DEF Asks, Accepted
    <3>3. Follow(f, t) = B(0)
      BY <1>6, <3>1 DEF Follow
    <3>4. k + 1 = 8 + 2 * 0 /\ 0 \in 0 .. m
      BY <1>3, <2>3
    <3>5. InTransact(b, k + 1, Follow(f, t))
      BY <1>9, <3>3, <3>4
    <3> QED
      BY <1>5, <3>2, <3>5
  <2> QED
    BY <1>10, <2>2, <2>3
<1>11. ASSUME NEW i \in 0 .. m, k = 8 + 2 * i, t = B(i)
       PROVE  Proceeds(n, k, t)
  <2>1. CASE i < m
    <3> DEFINE v == b.data[i + 1]
    <3>1. i \in 0 .. m - 1 /\ i + 1 \in 1 .. m /\ k + 1 = 7 + 2 * (i + 1)
      BY <1>3, <1>4, <1>11, <2>1
    <3>2. f = <<"blob", Len(v)>>
      BY <1>1, <1>4, <3>1
    <3>3. t # <<>> /\ Head(t) = Field("blob") /\ Tail(t) = B(i + 1)
      BY <1>6, <1>11, <3>1
    <3> HIDE DEF v
    <3>4. Asks(t, f) /\ Accepted(f) /\ Follow(f, t) = Data(v) \o Tail(t)
      BY <3>2, <3>3, BlobField
    <3>5. Follow(f, t) = Data(b.data[i + 1]) \o B(i + 1)
      BY <3>3, <3>4, Zenon DEF v
    <3>6. InTransact(b, k + 1, Follow(f, t))
      BY <1>9, <3>1, <3>5
    <3> QED
      BY <1>5, <3>4, <3>6
  <2>2. CASE i = m
    <3>1. k + 1 = 9 + 2 * m
      BY <1>3, <1>4, <1>11, <2>2
    <3>2. f = <<"blob", Len(b.memo)>>
      BY <1>1, <1>4, <3>1
    <3>3. t # <<>> /\ Head(t) = Field("blob") /\ Tail(t) = P(5)
      <4>1. t = P(4)
        BY <1>6, <1>11, <2>2
      <4> QED
        BY <1>a, <4>1
    <3>4. Asks(t, f) /\ Accepted(f) /\ Follow(f, t) = Data(b.memo) \o P(5)
      BY <3>2, <3>3, BlobField
    <3>5. InTransact(b, k + 1, Follow(f, t))
      BY <1>9, <3>1, <3>4
    <3> QED
      BY <1>5, <3>4, <3>5
  <2> QED
    BY <1>3, <2>1, <2>2
<1>12. ASSUME NEW i \in 1 .. m, k = 7 + 2 * i, t = Data(b.data[i]) \o B(i)
       PROVE  Proceeds(n, k, t)
  <2>1. i \in 0 .. m /\ k + 1 = 8 + 2 * i
    BY <1>3, <1>4, <1>12
  <2>2. f = <<"data", b.data[i]>>
    BY <1>1, <1>4, <2>1
  <2>3. t # <<>> /\ Head(t) = <<"data", Len(b.data[i])>> /\ Tail(t) = B(i)
    <3> DEFINE v == b.data[i]
               u == B(i)
    <3>1. v \in Seq(Bytes) /\ u \in Seq(Plans) /\ t = Data(v) \o u
      BY <1>3, <1>6, <1>12, <2>1
    <3> HIDE DEF v, u
    <3>2. t # <<>> /\ Head(t) = <<"data", Len(v)>> /\ Tail(t) = u
      BY <3>1, DataStep
    <3> QED
      BY <3>2 DEF v, u
  <2>4. Asks(t, f) /\ Accepted(f) /\ Follow(f, t) = B(i)
    BY <2>2, <2>3, DataField
  <2>5. InTransact(b, k + 1, Follow(f, t))
    BY <1>9, <2>1, <2>4
  <2> QED
    BY <1>5, <2>4, <2>5
<1>13. ASSUME k = 9 + 2 * m, t = Data(b.memo) \o P(5)
       PROVE  Proceeds(n, k, t)
  <2>1. k + 1 = 10 + 2 * m
    BY <1>3, <1>4, <1>13
  <2>2. f = <<"data", b.memo>>
    BY <1>1, <1>4, <2>1
  <2>3. t # <<>> /\ Head(t) = <<"data", Len(b.memo)>> /\ Tail(t) = P(5)
    <3> DEFINE v == b.memo
               u == P(5)
    <3>1. v \in Seq(Bytes) /\ u \in Seq(Plans) /\ t = Data(v) \o u
      BY <1>2, <1>a, <1>13
    <3> HIDE DEF v, u
    <3>2. t # <<>> /\ Head(t) = <<"data", Len(v)>> /\ Tail(t) = u
      BY <3>1, DataStep
    <3> QED
      BY <3>2 DEF v, u
  <2>4. Asks(t, f) /\ Accepted(f) /\ Follow(f, t) = P(5)
    BY <2>2, <2>3, DataField
  <2>5. InTransact(b, k + 1, Follow(f, t))
    BY <1>9, <2>1, <2>4
  <2> QED
    BY <1>5, <2>4, <2>5
<1>14. ASSUME k = 10 + 2 * m, t = P(5)
       PROVE  Proceeds(n, k, t)
  <2>1. k + 1 = 11 + 2 * m
    BY <1>3, <1>4, <1>14
  <2>2. f = <<"sender_key", b.sender_key>>
    BY <1>1, <1>4, <2>1
  <2>3. t # <<>> /\ Head(t) = Field("sender_key") /\ Tail(t) = P(6)
    BY <1>a, <1>14
  <2>4. Asks(t, f) /\ Accepted(f) /\ Follow(f, t) = P(6)
    BY <2>2, <2>3, PlainField
  <2>5. InTransact(b, k + 1, Follow(f, t))
    BY <1>9, <2>1, <2>4
  <2> QED
    BY <1>5, <2>4, <2>5
<1>15. ASSUME k = 11 + 2 * m, t = P(6)
       PROVE  Proceeds(n, k, t)
  <2>1. k + 1 = 12 + 2 * m
    BY <1>3, <1>4, <1>15
  <2>2. f = <<"receiver_key", b.receiver_key>>
    BY <1>1, <1>4, <2>1
  <2>3. t # <<>> /\ Head(t) = Field("receiver_key") /\ Tail(t) = P(7)
    BY <1>a, <1>15
  <2>4. Asks(t, f) /\ Accepted(f) /\ Follow(f, t) = P(7)
    BY <2>2, <2>3, PlainField
  <2>5. InTransact(b, k + 1, Follow(f, t))
    BY <1>9, <2>1, <2>4
  <2> QED
    BY <1>5, <2>4, <2>5
<1>16. ASSUME k = 12 + 2 * m, t = P(7)
       PROVE  Proceeds(n, k, t)
  <2>1. k + 1 = 13 + 2 * m
    BY <1>3, <1>4, <1>16
  <2>2. f = <<"blob", Len(b.annotation)>>
    BY <1>1, <1>4, <2>1
  <2>3. t # <<>> /\ Head(t) = Field("blob") /\ Tail(t) = <<>>
    BY <1>a, <1>16
  <2>4. Asks(t, f) /\ Accepted(f) /\ Follow(f, t) = Data(b.annotation)
    <3>1. Asks(t, f) /\ Accepted(f) /\ Follow(f, t) = Data(b.annotation) \o <<>>
      BY <2>2, <2>3, BlobField
    <3>2. Data(b.annotation) \o <<>> = Data(b.annotation)
      BY DEF Data
    <3> QED
      BY <3>1, <3>2
  <2>5. InTransact(b, k + 1, Follow(f, t))
    BY <1>9, <2>1, <2>4
  <2> QED
    BY <1>5, <2>4, <2>5
<1>17. ASSUME k = 13 + 2 * m, t = Data(b.annotation)
       PROVE  Proceeds(n, k, t)
  <2>1. k + 1 = 14 + 2 * m
    BY <1>3, <1>4, <1>17
  <2>2. f = <<"data", b.annotation>>
    BY <1>1, <1>4, <2>1
  <2>3. t # <<>> /\ Head(t) = <<"data", Len(b.annotation)>> /\ Tail(t) = <<>>
    BY <1>17 DEF Data
  <2>4. Asks(t, f) /\ Accepted(f) /\ Follow(f, t) = <<>>
    BY <2>2, <2>3, DataField
  <2>5. InTransact(b, k + 1, Follow(f, t))
    BY <1>9, <2>1, <2>4
  <2> QED
    BY <1>5, <2>4, <2>5
<1>18. k # 14 + 2 * m
  BY <1>3, <1>4
<1> QED
  BY <1>8, <1>10, <1>11, <1>12, <1>13, <1>14, <1>15, <1>16, <1>17, <1>18

-----------------------------------------------------------------------------
Nothing(t) == t = <<>>

(* A field is due as long as there is one, and none behind the last.       *)
LEMMA PlannedProceeds ==
  ASSUME NEW n \in Nodes, NEW k \in 0 .. Len(Fields(n)), NEW t, Planned(n.body, k, t)
  PROVE  IF k < Len(Fields(n)) THEN Proceeds(n, k, t) ELSE Nothing(t)
<1> DEFINE F == Fields(n)
           b == n.body
<1>1. /\ \/ b.kind = "shield" /\ ShieldLaid(F, b)
         \/ b.kind = "transact" /\ TransactLaid(F, b)
      /\ Len(F) \in Nat
  BY NodeFields, LenProperties
<1>2. b \in ShieldBodies \cup TransactBodies
  BY CodecAssumption
<1>3. CASE b.kind = "shield" /\ ShieldLaid(F, b)
  <2> DEFINE m == Len(b.bundle)
  <2>1. b \in ShieldBodies
    BY <1>2, <1>3 DEF TransactBodies
  <2>2. b.bundle \in Seq(Arrays)
    BY <2>1 DEF ShieldBodies
  <2>3. m \in Nat
    BY <2>2, LenProperties
  <2>4. Len(F) = 11 + m
    BY <1>3 DEF ShieldLaid
  <2>5. InHeader(k, t) \/ InShield(b, k, t)
    BY <1>3 DEF Planned
  <2>6. InHeader(k, t) => k \in 0 .. 4
    BY DEF InHeader
  <2>7. \/ k \in 0 .. 4
        \/ k \in 5 .. 9
        \/ k \in 10 .. 10 + m
        \/ k = 11 + m /\ t = <<>>
    <3>1. InShield(b, k, t) => k \in 5 .. 9 \/ k \in 10 .. 10 + m \/ (k = 11 + m /\ t = <<>>)
      <4> SUFFICES ASSUME InShield(b, k, t), k \notin 5 .. 9, k \notin 10 .. 10 + m
                   PROVE  k = 11 + m /\ t = <<>>
        OBVIOUS
      <4> QED
        BY DEF InShield
    <3> QED
      BY <2>5, <2>6, <3>1
  <2>8. ASSUME k < Len(F)
        PROVE  Proceeds(n, k, t)
    <3>1. k \in 0 .. Len(F) - 1
      BY <1>1, <2>8
    <3>2. CASE InHeader(k, t)
      BY <2>6, <3>2, HeaderProceeds
    <3>3. CASE InShield(b, k, t)
      BY <1>3, <2>3, <3>1, <3>3, ShieldProceeds
    <3> QED
      BY <2>5, <3>2, <3>3
  <2> HIDE DEF m, F
  <2>9. ~(k < Len(F)) => Nothing(t)
    BY <2>3, <2>4, <2>7 DEF Nothing
  <2> QED
    BY <2>8, <2>9 DEF F
<1>4. CASE b.kind = "transact" /\ TransactLaid(F, b)
  <2> DEFINE m == Len(b.data)
  <2>1. b \in TransactBodies
    BY <1>2, <1>4 DEF ShieldBodies
  <2>2. b.data \in Seq(Seq(Bytes))
    BY <2>1 DEF TransactBodies
  <2>3. m \in Nat
    BY <2>2, LenProperties
  <2>4. Len(F) = 14 + 2 * m
    BY <1>4 DEF TransactLaid
  <2>5. InHeader(k, t) \/ InTransact(b, k, t)
    BY <1>4 DEF Planned
  <2>6. InHeader(k, t) => k \in 0 .. 4
    BY DEF InHeader
  <2>7. \/ k \in 5 .. 7
        \/ \E i \in 0 .. m : k = 8 + 2 * i
        \/ \E i \in 1 .. m : k = 7 + 2 * i
        \/ k \in {9 + 2 * m, 10 + 2 * m, 11 + 2 * m, 12 + 2 * m, 13 + 2 * m}
        \/ k = 14 + 2 * m /\ t = <<>>
        \/ k \in 0 .. 4
    BY <2>5, <2>6 DEF InTransact
  <2>8. ASSUME k < Len(F)
        PROVE  Proceeds(n, k, t)
    <3>1. k \in 0 .. Len(F) - 1
      BY <1>1, <2>8
    <3>2. CASE InHeader(k, t)
      BY <2>6, <3>2, HeaderProceeds
    <3>3. CASE InTransact(b, k, t)
      BY <1>4, <2>1, <3>1, <3>3, TransactProceeds
    <3> QED
      BY <2>5, <3>2, <3>3
  <2> HIDE DEF m, F
  <2>9. ~(k < Len(F)) => Nothing(t)
    BY <2>3, <2>4, <2>7 DEF Nothing
  <2> QED
    BY <2>8, <2>9 DEF F
<1> QED
  BY <1>1, <1>3, <1>4

(* What the next take finds in an undamaged record.                        *)
Found(k) ==
  LET f == Fields(node)[k + 1]
  IN  /\ f = <<f[1], f[2]>> /\ Accepted(f)
      /\ todo # <<>> /\ Head(todo)[1] = f[1] /\ pos + Head(todo)[2] <= Len(bytes)
      /\ f[1] \in Numeric => Head(todo)[2] = Width[f[1]] /\ Number(Raw(Head(todo)[2])) = f[2]
      /\ f[1] \notin Numeric => Raw(Head(todo)[2]) = f[2]
      /\ SubSeq(Fields(node), 1, k + 1) = Append(got, f)
      /\ Planned(node.body, k + 1, Follow(f, todo))

(* In an undamaged record the next take finds the next field of the node.  *)
LEMMA NextFound ==
  ASSUME ReaderInv, node \in Nodes, bytes = EncodeNode(node),
         NEW k \in 0 .. Len(Fields(node)) - 1, TakenUpTo(k)
  PROVE  Found(k)
<1> DEFINE F == Fields(node)
           f == F[k + 1]
           w == Head(todo)[2]
           a == Encoded(got)
           v == Written(f)
<1>1. F \in Seq(Storable) /\ Len(F) \in Nat
  BY NodeFields, LenProperties
<1>2. k \in 0 .. Len(F) /\ k < Len(F) /\ k + 1 \in 1 .. Len(F) /\ k \in Nat /\ (k + 1) - 1 = k
  BY <1>1
<1>3. Asks(todo, f) /\ Accepted(f) /\ Planned(node.body, k + 1, Follow(f, todo))
  <2>1. Proceeds(node, k, todo)
    BY <1>2, PlannedProceeds DEF TakenUpTo
  <2> QED
    BY <2>1 DEF Proceeds
<1>4. f \in Storable /\ SubSeq(F, 1, k + 1) = Append(got, f) /\ got = SubSeq(F, 1, k)
  <2>1. got = SubSeq(F, 1, k)
    BY DEF TakenUpTo
  <2>2. SubSeq(F, 1, k + 1) = Append(SubSeq(F, 1, (k + 1) - 1), f) /\ f \in Storable
    BY <1>1, <1>2, FrontAndLast
  <2> QED
    BY <1>2, <2>1, <2>2
<1>5. F \in Seq(Entries)
  BY <1>1, SeqMonotonic DEF Storable
<1>6. StartsWith(bytes, a, v)
  <2>1. StartsWith(Encoded(F), Encoded(SubSeq(F, 1, k)), Written(F[k + 1]))
    BY <1>5, NextInRecord
  <2> QED
    BY <1>4, <2>1 DEF EncodeNode
<1> HIDE DEF F, f
<1>7. f \in Entries /\ f = <<f[1], f[2]>>
  BY <1>4, EntryParts DEF Storable
<1>8. v \in Seq(Bytes) /\ a \in Seq(Bytes) /\ bytes \in Seq(Bytes) /\ Len(a) = pos
  <2>1. v \in Seq(Bytes)
    BY <1>7, WrittenType
  <2>2. bytes \in Seq(Bytes) /\ pos \in 0 .. Len(bytes) /\ a = SubSeq(bytes, 1, pos) /\ got \in Seq(Entries)
    BY DEF ReaderInv
  <2>3. a \in Seq(Bytes)
    BY <2>2, EncodedType
  <2>4. Len(a) = pos
    <3>1. Len(bytes) \in Nat /\ \A i \in 1 .. pos : bytes[i] \in Bytes
      <4>1. Len(bytes) \in Nat
        BY <2>2, LenProperties
      <4>2. \A i \in 1 .. Len(bytes) : bytes[i] \in Bytes
        BY <2>2, ElementOfSeq
      <4> QED
        BY <2>2, <4>1, <4>2
    <3>2. pos \in Int /\ 1 \in Int
      BY <2>2, <3>1
    <3>3. Len(SubSeq(bytes, 1, pos)) = IF 1 <= pos THEN pos - 1 + 1 ELSE 0
      BY <3>1, <3>2, SubSeqProperties
    <3> QED
      BY <2>2, <3>1, <3>3
  <2> QED
    BY <2>1, <2>2, <2>3, <2>4
<1> HIDE DEF a, v
<1>9. pos + Len(v) <= Len(bytes) /\ SubSeq(bytes, pos + 1, pos + Len(v)) = v
  BY <1>6, <1>8, NextBytes
<1>10. w = Len(v) /\ (f[1] \in Numeric => w = Width[f[1]] /\ Number(v) = f[2])
       /\ (f[1] \notin Numeric => v = f[2])
  <2>1. CASE f[1] \in Numeric
    <3>1. Width[f[1]] \in 1 .. 3 /\ f[2] \in 0 .. Limit(Width[f[1]]) - 1 /\ f[1] # "data"
      <4>1. "data" \in ArrayNames
        BY DEF ArrayNames
      <4> QED
        BY <1>4, <2>1, <4>1, NamesApart DEF Storable
    <3>2. v = Digits(f[2], Width[f[1]])
      BY <2>1 DEF Written, v
    <3>3. w = Width[f[1]]
      BY <1>3, <2>1, <3>1 DEF Asks, Field
    <3>4. Len(v) = Width[f[1]] /\ Number(v) = f[2]
      BY <3>1, <3>2, NumberWritten
    <3> QED
      BY <2>1, <3>3, <3>4
  <2>2. CASE f[1] \notin Numeric
    <3>1. v = f[2]
      BY <2>2 DEF Written, v
    <3>2. w = Len(v)
      <4>1. CASE f[1] = "data"
        BY <1>3, <3>1, <4>1 DEF Asks
      <4>2. CASE f[1] # "data"
        <5>1. w = 2
          BY <1>3, <2>2, <4>2 DEF Asks, Field
        <5>2. f[1] \in ArrayNames
          BY <1>7, <2>2, EntryParts
        <5>3. Len(f[2]) = 2
          BY <1>4, <4>2, <5>2 DEF Storable
        <5> QED
          BY <3>1, <5>1, <5>3
      <4> QED
        BY <4>1, <4>2
    <3> QED
      BY <2>2, <3>1, <3>2
  <2> QED
    BY <2>1, <2>2
<1>11. Raw(w) = v
  BY <1>9, <1>10 DEF Raw
<1>12. todo # <<>> /\ Head(todo)[1] = f[1]
  BY <1>3 DEF Asks, Field
<1> HIDE DEF w
<1>13. /\ f = <<f[1], f[2]>> /\ Accepted(f)
       /\ todo # <<>> /\ Head(todo)[1] = f[1] /\ pos + w <= Len(bytes)
       /\ f[1] \in Numeric => w = Width[f[1]] /\ Number(Raw(w)) = f[2]
       /\ f[1] \notin Numeric => Raw(w) = f[2]
       /\ SubSeq(F, 1, k + 1) = Append(got, f)
       /\ Planned(node.body, k + 1, Follow(f, todo))
  BY <1>3, <1>4, <1>7, <1>9, <1>10, <1>11, <1>12
<1> QED
  BY <1>13, Zenon DEF Found, w, f, F

-----------------------------------------------------------------------------
(* A take of what was found leaves one field more taken.                   *)
LEMMA TakenOneMore ==
  ASSUME node \in Nodes, NEW k \in 0 .. Len(Fields(node)) - 1, Found(k),
         NEW name, NEW value, NEW next,
         Fields(node)[k + 1] = <<name, value>>,
         next = Follow(<<name, value>>, todo),
         Take(name, value, next, "reading")
  PROVE  RoundTripInv'
<1> DEFINE F == Fields(node)
           f == F[k + 1]
<1>1. Len(F) \in Nat
  BY NodeFields, LenProperties
<1>2. k + 1 \in 0 .. Len(F)
  BY <1>1
<1>3. got' = Append(got, f) /\ todo' = Follow(f, todo) /\ outcome' = "reading" /\ node' = node /\ bytes' = bytes
  BY DEF Take
<1>4. SubSeq(F, 1, k + 1) = Append(got, f) /\ Planned(node.body, k + 1, Follow(f, todo))
  BY DEF Found
<1>5. got' = SubSeq(Fields(node'), 1, k + 1) /\ Planned(node'.body, k + 1, todo')
  BY <1>3, <1>4
<1>6. k + 1 \in 0 .. Len(Fields(node')) /\ TakenUpTo(k + 1)'
  BY <1>2, <1>3, <1>5 DEF TakenUpTo
<1> QED
  BY <1>3, <1>6 DEF RoundTripInv

(* Nothing has been taken of an undamaged record.                          *)
LEMMA RoundTripStart == Init => RoundTripInv
<1> SUFFICES ASSUME Init PROVE RoundTripInv
  OBVIOUS
<1> DEFINE F == Fields(node)
<1>1. node \in Nodes /\ todo = Header /\ got = <<>> /\ outcome = "reading"
  BY DEF Init
<1>2. F \in Seq(Storable) /\ Len(F) \in Nat /\ 0 \in 0 .. Len(F)
  BY <1>1, NodeFields, LenProperties
<1>3. got = SubSeq(F, 1, 0)
  BY <1>1, SubSeqEmpty
<1>4. InHeader(0, todo)
  <2>1. From(Header, 0 + 1) = Header
    BY PlansGoOn
  <2> QED
    BY <1>1, <2>1 DEF InHeader
<1>5. TakenUpTo(0)
  BY <1>3, <1>4 DEF TakenUpTo, Planned
<1> QED
  BY <1>1, <1>2, <1>5 DEF RoundTripInv

(* Every step takes the next field of the node, and the last is followed by*)
(* the end of the record.                                                  *)
LEMMA RoundTripStep == ReaderInv /\ RoundTripInv /\ [Next]_vars => RoundTripInv'
<1> SUFFICES ASSUME ReaderInv, RoundTripInv, [Next]_vars PROVE RoundTripInv'
  OBVIOUS
<1>1. node' = node /\ bytes' = bytes /\ node \in Nodes
  BY DEF Next, vars, UnexpectedEof, TakeTree, TakeLeaf, TakeBlock, TakeBodyTag, TakeAssetTag, TakeBundle,
         TakeBlocks, TakeBlob, Finish, Done, TakeArray, Take, RoundTripInv
<1>2. CASE bytes # EncodeNode(node)
  BY <1>1, <1>2 DEF RoundTripInv
<1>3. CASE bytes = EncodeNode(node)
  <2> DEFINE F == Fields(node)
  <2>1. PICK k \in 0 .. Len(F) : TakenUpTo(k) /\ (outcome = "ok" => k = Len(F))
    BY <1>3 DEF RoundTripInv
  <2>2. Len(F) \in Nat
    BY <1>1, NodeFields, LenProperties
  <2>3. outcome \in {"reading", "ok"}
    BY <1>3 DEF RoundTripInv
  <2>4. CASE UNCHANGED vars
    BY <2>4 DEF RoundTripInv, TakenUpTo, vars
  <2>5. CASE k = Len(F)
    <3>1. todo = <<>>
      <4>1. Planned(node.body, k, todo)
        BY <2>1 DEF TakenUpTo
      <4>2. ~(k < Len(F))
        BY <2>2, <2>5
      <4>3. IF k < Len(F) THEN Proceeds(node, k, todo) ELSE Nothing(todo)
        BY <1>1, <4>1, PlannedProceeds
      <4> QED
        BY <4>2, <4>3 DEF Nothing
    <3>2. CASE Finish
      <4>1. pos = Len(bytes)
        <5>1. got = F
          BY <1>1, <2>1, <2>5, NodeFields, SubSeqFull DEF TakenUpTo
        <5>2. bytes = SubSeq(bytes, 1, pos) /\ bytes \in Seq(Bytes) /\ pos \in 0 .. Len(bytes)
          BY <1>3, <5>1 DEF ReaderInv, EncodeNode
        <5>3. Len(bytes) \in Nat /\ \A i \in 1 .. pos : bytes[i] \in Bytes
          <6>1. Len(bytes) \in Nat
            BY <5>2, LenProperties
          <6>2. \A i \in 1 .. Len(bytes) : bytes[i] \in Bytes
            BY <5>2, ElementOfSeq
          <6> QED
            BY <5>2, <6>1, <6>2
        <5>4. pos \in Int /\ 1 \in Int
          BY <5>2, <5>3
        <5>5. Len(SubSeq(bytes, 1, pos)) = IF 1 <= pos THEN pos - 1 + 1 ELSE 0
          BY <5>3, <5>4, SubSeqProperties
        <5>6. Len(bytes) = IF 1 <= pos THEN pos - 1 + 1 ELSE 0
          BY <5>2, <5>5
        <5> QED
          BY <5>2, <5>3, <5>6
      <4>2. outcome' = "ok" /\ UNCHANGED <<node, bytes, pos, todo, got>>
        BY <3>2, <4>1 DEF Finish
      <4>3. TakenUpTo(k)'
        BY <2>1, <4>2 DEF TakenUpTo
      <4>4. k \in 0 .. Len(Fields(node')) /\ k = Len(Fields(node'))
        BY <2>5, <4>2
      <4> QED
        BY <1>1, <4>2, <4>3, <4>4 DEF RoundTripInv
    <3>3. CASE Done
      BY <2>4, <3>3 DEF Done
    <3>4. ~UnexpectedEof /\ \A name : ~Due(name)
      BY <3>1 DEF UnexpectedEof, Due
    <3> QED
      BY <2>4, <3>2, <3>3, <3>4
         DEF Next, TakeTree, TakeLeaf, TakeBlock, TakeBodyTag, TakeAssetTag, TakeBundle, TakeBlocks,
             TakeBlob, TakeArray
  <2>6. CASE k # Len(F)
    <3>0. k \in 0 .. Len(F) - 1 /\ outcome = "reading"
      BY <2>1, <2>2, <2>3, <2>6
    <3>1. Found(k)
      BY <1>1, <1>3, <2>1, <3>0, NextFound
    <3> DEFINE f == F[k + 1]
               w == Head(todo)[2]
    <3>2. /\ f = <<f[1], f[2]>> /\ Accepted(f)
          /\ todo # <<>> /\ Head(todo)[1] = f[1] /\ pos + w <= Len(bytes)
          /\ f[1] \in Numeric => w = Width[f[1]] /\ Number(Raw(w)) = f[2]
          /\ f[1] \notin Numeric => Raw(w) = f[2]
      BY <3>1 DEF Found
    <3>3. ASSUME NEW name, NEW value, NEW next, f[1] = name, f[2] = value,
                 next = Follow(<<name, value>>, todo), Take(name, value, next, "reading")
          PROVE  RoundTripInv'
      <4>1. F[k + 1] = <<name, value>>
        BY <3>2, <3>3
      <4> QED
        BY <1>1, <3>0, <3>1, <3>3, <4>1, TakenOneMore
    <3> HIDE DEF F, f, w
    <3>a. ~UnexpectedEof
      <4>1. pos + w \in Int /\ Len(bytes) \in Int
        <5>1. pos \in 0 .. Len(bytes) /\ Len(bytes) \in Nat /\ todo \in Seq(Plans)
          BY LenProperties DEF ReaderInv
        <5>2. Head(todo) \in Plans
          BY <3>2, <5>1, HeadTailProperties
        <5>3. w \in Nat
          BY <5>2 DEF Plans, w
        <5> QED
          BY <5>1, <5>3
      <4> QED
        BY <3>2, <4>1 DEF UnexpectedEof, w
    <3>b. ~Finish /\ ~Done
      BY <3>0, <3>2 DEF Finish, Done
    <3>c. \A name : Due(name) => name = f[1]
      BY <3>2 DEF Due
    <3>4. CASE TakeTree
      <4>1. Due("tree") /\ Take("tree", Number(Raw(2)), Tail(todo), "reading")
        BY <3>4 DEF TakeTree
      <4>2. f[1] = "tree" /\ f[2] = Number(Raw(2))
        BY <3>2, <3>c, <4>1, WidthFacts
      <4>3. Tail(todo) = Follow(<<"tree", f[2]>>, todo)
        BY DEF Follow
      <4> QED
        BY <3>3, <4>1, <4>2, <4>3
    <3>5. CASE TakeLeaf
      <4> DEFINE v == Number(Raw(2))
                 verdict == IF v < Capacity THEN "reading" ELSE "InvalidNodePosition"
      <4>1. Due("leaf") /\ Take("leaf", v, Tail(todo), verdict)
        BY <3>5 DEF TakeLeaf
      <4>2. f[1] = "leaf" /\ f[2] = v
        BY <3>2, <3>c, <4>1, WidthFacts
      <4>3. Tail(todo) = Follow(<<"leaf", f[2]>>, todo)
        BY DEF Follow
      <4> HIDE DEF v
      <4>4. verdict = "reading"
        BY <3>2, <4>2 DEF Accepted
      <4> HIDE DEF verdict
      <4> QED
        BY <3>3, <4>1, <4>2, <4>3, <4>4
    <3>6. CASE TakeBlock
      <4>1. Due("block") /\ Take("block", Number(Raw(3)), Tail(todo), "reading")
        BY <3>6 DEF TakeBlock
      <4>2. f[1] = "block" /\ f[2] = Number(Raw(3))
        BY <3>2, <3>c, <4>1, WidthFacts
      <4>3. Tail(todo) = Follow(<<"block", f[2]>>, todo)
        BY DEF Follow
      <4> QED
        BY <3>3, <4>1, <4>2, <4>3
    <3>7. CASE TakeBodyTag
      <4> DEFINE v == Number(Raw(1))
                 next == CASE v = 0 -> ShieldPlan [] v = 1 -> TransactPlan [] OTHER -> <<>>
                 verdict == IF v \in {0, 1} THEN "reading" ELSE "InvalidCommitmentTag"
      <4>1. Due("body_tag") /\ Take("body_tag", v, next, verdict)
        BY <3>7 DEF TakeBodyTag
      <4>2. f[1] = "body_tag" /\ f[2] = v
        BY <3>2, <3>c, <4>1, WidthFacts
      <4> HIDE DEF v
      <4>3. verdict = "reading" /\ v \in {0, 1}
        BY <3>2, <4>2 DEF Accepted
      <4>4. next = Follow(<<"body_tag", v>>, todo)
        BY <4>3 DEF Follow
      <4> HIDE DEF next, verdict
      <4> QED
        BY <3>3, <4>1, <4>2, <4>3, <4>4
    <3>8. CASE TakeAssetTag
      <4> DEFINE v == Number(Raw(1))
                 verdict == IF v = 0 THEN "reading" ELSE "InvalidAssetTag"
      <4>1. Due("asset_tag") /\ Take("asset_tag", v, Tail(todo), verdict)
        BY <3>8 DEF TakeAssetTag
      <4>2. f[1] = "asset_tag" /\ f[2] = v
        BY <3>2, <3>c, <4>1, WidthFacts
      <4>3. Tail(todo) = Follow(<<"asset_tag", f[2]>>, todo)
        BY DEF Follow
      <4> HIDE DEF v
      <4>4. verdict = "reading"
        BY <3>2, <4>2 DEF Accepted
      <4> HIDE DEF verdict
      <4> QED
        BY <3>3, <4>1, <4>2, <4>3, <4>4
    <3>9. CASE TakeBundle
      <4> DEFINE v == Number(Raw(2))
                 next == Times(v, Field("word")) \o Tail(todo)
      <4>1. Due("bundle") /\ Take("bundle", v, next, "reading")
        BY <3>9 DEF TakeBundle
      <4>2. f[1] = "bundle" /\ f[2] = v
        BY <3>2, <3>c, <4>1, WidthFacts
      <4> HIDE DEF v
      <4>3. next = Follow(<<"bundle", v>>, todo)
        BY DEF Follow
      <4> HIDE DEF next
      <4> QED
        BY <3>3, <4>1, <4>2, <4>3
    <3>10. CASE TakeBlocks
      <4> DEFINE v == Number(Raw(2))
                 next == Times(v, Field("blob")) \o Tail(todo)
      <4>1. Due("blocks") /\ Take("blocks", v, next, "reading")
        BY <3>10 DEF TakeBlocks
      <4>2. f[1] = "blocks" /\ f[2] = v
        BY <3>2, <3>c, <4>1, WidthFacts
      <4> HIDE DEF v
      <4>3. next = Follow(<<"blocks", v>>, todo)
        BY DEF Follow
      <4> HIDE DEF next
      <4> QED
        BY <3>3, <4>1, <4>2, <4>3
    <3>11. CASE TakeBlob
      <4> DEFINE v == Number(Raw(2))
                 next == << <<"data", v>> >> \o Tail(todo)
      <4>1. Due("blob") /\ Take("blob", v, next, "reading")
        BY <3>11 DEF TakeBlob
      <4>2. f[1] = "blob" /\ f[2] = v
        BY <3>2, <3>c, <4>1, WidthFacts
      <4> HIDE DEF v
      <4>3. next = Follow(<<"blob", v>>, todo)
        BY DEF Follow
      <4> HIDE DEF next
      <4> QED
        BY <3>3, <4>1, <4>2, <4>3
    <3>12. ASSUME NEW name \in ArrayNames, TakeArray(name)
           PROVE  RoundTripInv'
      <4>1. Due(name) /\ Take(name, Raw(w), Tail(todo), "reading")
        BY <3>12 DEF TakeArray, w
      <4>2. f[1] = name /\ f[2] = Raw(w)
        BY <3>2, <3>c, <4>1, NamesApart
      <4>3. Tail(todo) = Follow(<<name, f[2]>>, todo)
        <5>1. name \notin {"body_tag", "bundle", "blocks", "blob"}
          BY DEF ArrayNames
        <5> QED
          BY <5>1 DEF Follow
      <4> QED
        BY <3>3, <4>1, <4>2, <4>3
    <3> QED
      BY <2>4, <3>a, <3>b, <3>4, <3>5, <3>6, <3>7, <3>8, <3>9, <3>10, <3>11, <3>12 DEF Next
  <2> QED
    BY <2>5, <2>6
<1> QED
  BY <1>2, <1>3

(* decode_node gives back what encode_node was given, whatever the node's  *)
(* kind and the number and length of its variable parts.                   *)
THEOREM RecordsRoundTrip == Spec => []RoundTrip
<1>1. Init => ReaderInv /\ RoundTripInv
  BY ReaderInit, RoundTripStart
<1>2. ReaderInv /\ RoundTripInv /\ [Next]_vars => (ReaderInv /\ RoundTripInv)'
  BY ReaderStep, RoundTripStep
<1>3. RoundTripInv => RoundTrip
  <2> SUFFICES ASSUME RoundTripInv, bytes = EncodeNode(node), outcome # "reading"
               PROVE  outcome = "ok" /\ got = Fields(node)
    BY DEF RoundTrip
  <2>1. outcome = "ok" /\ node \in Nodes /\ got = SubSeq(Fields(node), 1, Len(Fields(node)))
    BY DEF RoundTripInv, TakenUpTo
  <2> QED
    BY <2>1, NodeFields, SubSeqFull
<1> QED
  BY <1>1, <1>2, <1>3, PTL DEF Spec

-----------------------------------------------------------------------------
(* Where the reader stands in the first fields, and that it took the hash  *)
(* from where decode_hash looks for it.                                    *)
HashInv ==
  outcome \in {"reading", "ok"} =>
    /\ Len(got) < 5 => todo = From(Header, Len(got) + 1)
    /\ Len(got) = 0 => pos = 0
    /\ Len(got) = 1 => pos = 2
    /\ Len(got) = 2 => pos = 4
    /\ Len(got) >= 2 => Number(SubSeq(bytes, 3, 4)) < Capacity
    /\ Len(got) >= 3 => pos >= 6 /\ got[3] = <<"hash", SubSeq(bytes, 5, 6)>>
    /\ outcome = "ok" => Len(got) >= 5

(* What every take has in common.                                          *)
Takes(name, value, next, verdict) ==
  /\ Due(name) /\ Take(name, value, next, verdict) /\ verdict # "ok"
  /\ name \in {"tree", "leaf", "hash", "block"} => next = Tail(todo)
  /\ name = "leaf" /\ verdict = "reading" => Number(Raw(2)) < Capacity
  /\ name = "hash" => value = Raw(Head(todo)[2])

(* A step is a take, an error at the end of the record or the end.         *)
LEMMA StepsAreTakes ==
  ASSUME Next
  PROVE  \/ UNCHANGED vars \/ UnexpectedEof \/ Finish
         \/ \E name, value, next, verdict : Takes(name, value, next, verdict)
<1>1. CASE TakeTree
  <2>1. Takes("tree", Number(Raw(2)), Tail(todo), "reading")
    BY <1>1 DEF TakeTree, Takes
  <2> QED
    BY <2>1
<1>2. CASE TakeLeaf
  <2> DEFINE v == Number(Raw(2))
             verdict == IF v < Capacity THEN "reading" ELSE "InvalidNodePosition"
  <2>1. Due("leaf") /\ Take("leaf", v, Tail(todo), verdict)
    BY <1>2 DEF TakeLeaf
  <2>2. verdict # "ok" /\ (verdict = "reading" => v < Capacity)
    OBVIOUS
  <2> HIDE DEF verdict
  <2>3. Takes("leaf", v, Tail(todo), verdict)
    BY <2>1, <2>2 DEF Takes
  <2> QED
    BY <2>3
<1>3. CASE TakeBlock
  <2>1. Takes("block", Number(Raw(3)), Tail(todo), "reading")
    BY <1>3 DEF TakeBlock, Takes
  <2> QED
    BY <2>1
<1>4. CASE TakeBodyTag
  <2> DEFINE v == Number(Raw(1))
             next == CASE v = 0 -> ShieldPlan [] v = 1 -> TransactPlan [] OTHER -> <<>>
             verdict == IF v \in {0, 1} THEN "reading" ELSE "InvalidCommitmentTag"
  <2>1. /\ Due("body_tag") /\ Take("body_tag", v, next, verdict) /\ verdict # "ok"
    BY <1>4 DEF TakeBodyTag
  <2> HIDE DEF v, next, verdict
  <2>2. Takes("body_tag", v, next, verdict)
    BY <2>1 DEF Takes
  <2> QED
    BY <2>2
<1>5. CASE TakeAssetTag
  <2> DEFINE v == Number(Raw(1))
             verdict == IF v = 0 THEN "reading" ELSE "InvalidAssetTag"
  <2>1. /\ Due("asset_tag") /\ Take("asset_tag", v, Tail(todo), verdict) /\ verdict # "ok"
    BY <1>5 DEF TakeAssetTag
  <2> HIDE DEF v, verdict
  <2>2. Takes("asset_tag", v, Tail(todo), verdict)
    BY <2>1 DEF Takes
  <2> QED
    BY <2>2
<1>6. CASE TakeBundle
  <2> DEFINE v == Number(Raw(2))
             next == Times(v, Field("word")) \o Tail(todo)
  <2>1. Due("bundle") /\ Take("bundle", v, next, "reading")
    BY <1>6 DEF TakeBundle
  <2> HIDE DEF v, next
  <2>2. Takes("bundle", v, next, "reading")
    BY <2>1 DEF Takes
  <2> QED
    BY <2>2
<1>7. CASE TakeBlocks
  <2> DEFINE v == Number(Raw(2))
             next == Times(v, Field("blob")) \o Tail(todo)
  <2>1. Due("blocks") /\ Take("blocks", v, next, "reading")
    BY <1>7 DEF TakeBlocks
  <2> HIDE DEF v, next
  <2>2. Takes("blocks", v, next, "reading")
    BY <2>1 DEF Takes
  <2> QED
    BY <2>2
<1>8. CASE TakeBlob
  <2> DEFINE v == Number(Raw(2))
             next == << <<"data", v>> >> \o Tail(todo)
  <2>1. Due("blob") /\ Take("blob", v, next, "reading")
    BY <1>8 DEF TakeBlob
  <2> HIDE DEF v, next
  <2>2. Takes("blob", v, next, "reading")
    BY <2>1 DEF Takes
  <2> QED
    BY <2>2
<1>9. ASSUME NEW name \in ArrayNames, TakeArray(name)
      PROVE  \E value, next, verdict : Takes(name, value, next, verdict)
  <2>1. Takes(name, Raw(Head(todo)[2]), Tail(todo), "reading")
    <3>1. name # "leaf"
      BY DEF ArrayNames
    <3> QED
      BY <1>9, <3>1 DEF TakeArray, Takes
  <2> QED
    BY <2>1
<1> QED
  BY <1>1, <1>2, <1>3, <1>4, <1>5, <1>6, <1>7, <1>8, <1>9 DEF Next, Done

(* The first two bytes-wide fields, one after the other.                   *)
LEMMA HeaderWidths ==
  /\ Head(From(Header, 1)) = <<"tree", 2>> /\ Head(From(Header, 2)) = <<"leaf", 2>>
  /\ Head(From(Header, 3)) = <<"hash", 2>> /\ Head(From(Header, 4)) = <<"block", 3>>
  /\ Head(From(Header, 5)) = <<"body_tag", 1>>
<1>1. /\ Field("tree") = <<"tree", 2>> /\ Field("leaf") = <<"leaf", 2>> /\ Field("hash") = <<"hash", 2>>
      /\ Field("block") = <<"block", 3>> /\ Field("body_tag") = <<"body_tag", 1>>
  BY WidthFacts DEF Field
<1>2. /\ Head(From(Header, 1)) = Header[1] /\ Head(From(Header, 2)) = Header[2]
      /\ Head(From(Header, 3)) = Header[3] /\ Head(From(Header, 4)) = Header[4]
      /\ Head(From(Header, 5)) = Header[5]
  <2>1. \A i \in 1 .. 5 : Head(From(Header, i)) = Header[i]
    BY PlansGoOn
  <2>2. 1 \in 1 .. 5 /\ 2 \in 1 .. 5 /\ 3 \in 1 .. 5 /\ 4 \in 1 .. 5 /\ 5 \in 1 .. 5
    OBVIOUS
  <2> QED
    BY <2>1, <2>2, Zenon
<1> QED
  BY <1>1, <1>2, PlanParts

(* The reader starts in front of the tree number.                          *)
LEMMA HashInvStart == Init => HashInv
<1> SUFFICES ASSUME Init PROVE HashInv
  OBVIOUS
<1>1. pos = 0 /\ todo = Header /\ got = <<>> /\ outcome = "reading"
  BY DEF Init
<1>2. Len(got) = 0 /\ From(Header, 0 + 1) = Header
  BY <1>1, PlansGoOn
<1> QED
  BY <1>1, <1>2 DEF HashInv

(* The third field it takes is the hash, from the fifth and sixth byte.    *)
LEMMA HashInvStep == ReaderInv /\ HashInv /\ [Next]_vars => HashInv'
<1> SUFFICES ASSUME ReaderInv, HashInv, [Next]_vars PROVE HashInv'
  OBVIOUS
<1> DEFINE g == Len(got)
<1>1. got \in Seq(Entries) /\ g \in Nat /\ todo \in Seq(Plans) /\ pos \in Nat
  <2>1. got \in Seq(Entries) /\ todo \in Seq(Plans) /\ bytes \in Seq(Bytes) /\ pos \in 0 .. Len(bytes)
    BY DEF ReaderInv
  <2>2. g \in Nat /\ Len(bytes) \in Nat
    BY <2>1, LenProperties
  <2> QED
    BY <2>1, <2>2
<1>2. CASE UNCHANGED vars
  BY <1>2 DEF HashInv, vars
<1>3. CASE UnexpectedEof
  BY <1>3 DEF HashInv, UnexpectedEof
<1>4. CASE Finish
  <2>1. UNCHANGED <<bytes, pos, todo, got>> /\ outcome' \in {"ok", "TrailingBytes"}
        /\ outcome = "reading" /\ todo = <<>>
    BY <1>4 DEF Finish
  <2>2. g >= 5
    <3> SUFFICES ASSUME g < 5 PROVE FALSE
      BY <1>1
    <3>1. todo = From(Header, g + 1) /\ g + 1 \in 1 .. 5
      BY <1>1, <2>1 DEF HashInv
    <3>2. From(Header, g + 1) # <<>>
      BY <3>1, PlansGoOn
    <3> QED
      BY <2>1, <3>1, <3>2
  <2> QED
    BY <2>1, <2>2 DEF HashInv
<1>5. ASSUME NEW name, NEW value, NEW next, NEW verdict, Takes(name, value, next, verdict)
      PROVE  HashInv'
  <2> DEFINE w == Head(todo)[2]
             f == <<name, value>>
  <2>1. /\ todo # <<>> /\ outcome = "reading" /\ Head(todo)[1] = name
        /\ pos' = pos + w /\ got' = Append(got, f) /\ todo' = next /\ outcome' = verdict /\ bytes' = bytes
        /\ verdict # "ok"
        /\ name \in {"tree", "leaf", "hash", "block"} => next = Tail(todo)
        /\ name = "leaf" /\ verdict = "reading" => Number(Raw(2)) < Capacity
        /\ name = "hash" => value = Raw(w)
    BY <1>5 DEF Takes, Due, Take
  <2>2. w \in Nat
    <3>1. Head(todo) \in Plans
      BY <1>1, <2>1, HeadTailProperties
    <3> QED
      BY <3>1 DEF Plans
  <2> HIDE DEF f
  <2>3. /\ Len(got') = g + 1 /\ got'[g + 1] = f /\ \A i \in 1 .. g : got'[i] = got[i]
    <3> DEFINE S == Entries \cup {f}
    <3>1. got \in Seq(S) /\ f \in S
      BY <1>1, SeqMonotonic
    <3> HIDE DEF S
    <3> QED
      BY <2>1, <3>1, AppendProperties
  <2>4. /\ g < 5 => todo = From(Header, g + 1)
        /\ g = 0 => pos = 0
        /\ g = 1 => pos = 2
        /\ g = 2 => pos = 4
        /\ g >= 2 => Number(SubSeq(bytes, 3, 4)) < Capacity
        /\ g >= 3 => pos >= 6 /\ got[3] = <<"hash", SubSeq(bytes, 5, 6)>>
    BY <2>1 DEF HashInv
  <2>5. SUFFICES ASSUME verdict = "reading"
        PROVE  /\ g + 1 < 5 => next = From(Header, g + 1 + 1)
               /\ g + 1 = 0 => pos + w = 0
               /\ g + 1 = 1 => pos + w = 2
               /\ g + 1 = 2 => pos + w = 4
               /\ g + 1 >= 2 => Number(SubSeq(bytes, 3, 4)) < Capacity
               /\ g + 1 >= 3 => pos + w >= 6 /\ got'[3] = <<"hash", SubSeq(bytes, 5, 6)>>
    BY <2>1, <2>3 DEF HashInv
  <2> HIDE DEF g, w
  <2>6. CASE g = 0
    <3>1. todo = From(Header, 1)
      BY <2>4, <2>6
    <3>2. name = "tree" /\ w = 2
      BY <2>1, <3>1, HeaderWidths DEF w
    <3>3. next = From(Header, 2)
      <4>1. Tail(From(Header, 1)) = From(Header, 1 + 1)
        BY PlansGoOn
      <4> QED
        BY <2>1, <3>1, <3>2, <4>1
    <3> QED
      BY <2>4, <2>6, <3>2, <3>3
  <2>7. CASE g = 1
    <3>1. todo = From(Header, 2) /\ pos = 2
      BY <2>4, <2>7
    <3>2. name = "leaf" /\ w = 2
      BY <2>1, <3>1, HeaderWidths DEF w
    <3>3. next = From(Header, 3)
      <4>1. Tail(From(Header, 2)) = From(Header, 2 + 1)
        BY PlansGoOn
      <4> QED
        BY <2>1, <3>1, <3>2, <4>1
    <3>4. Number(SubSeq(bytes, 3, 4)) < Capacity
      <4>1. Raw(2) = SubSeq(bytes, 3, 4)
        <5>1. pos + 1 = 3 /\ pos + 2 = 4
          BY <3>1
        <5> QED
          BY <5>1, Zenon DEF Raw
      <4> QED
        BY <2>1, <2>5, <3>2, <4>1
    <3> QED
      BY <2>7, <3>1, <3>2, <3>3, <3>4
  <2>8. CASE g = 2
    <3>1. todo = From(Header, 3) /\ pos = 4 /\ Number(SubSeq(bytes, 3, 4)) < Capacity
      BY <2>4, <2>8
    <3>2. name = "hash" /\ w = 2
      BY <2>1, <3>1, HeaderWidths DEF w
    <3>3. next = From(Header, 4)
      <4>1. Tail(From(Header, 3)) = From(Header, 3 + 1)
        BY PlansGoOn
      <4> QED
        BY <2>1, <3>1, <3>2, <4>1
    <3>4. got'[3] = <<"hash", SubSeq(bytes, 5, 6)>>
      <4>1. Raw(w) = SubSeq(bytes, 5, 6)
        <5>1. pos + 1 = 5 /\ pos + w = 6
          BY <3>1, <3>2
        <5> QED
          BY <5>1, Zenon DEF Raw
      <4>2. f = <<"hash", SubSeq(bytes, 5, 6)>>
        BY <2>1, <3>2, <4>1 DEF f
      <4>3. got'[3] = f
        <5>1. g + 1 = 3
          BY <2>8
        <5> QED
          BY <2>3, <5>1
      <4> QED
        BY <4>2, <4>3
    <3> QED
      BY <2>8, <3>1, <3>2, <3>3, <3>4
  <2>9. CASE g >= 3
    <3>1. pos >= 6 /\ got[3] = <<"hash", SubSeq(bytes, 5, 6)>> /\ Number(SubSeq(bytes, 3, 4)) < Capacity
      BY <1>1, <2>4, <2>9 DEF g
    <3>2. got'[3] = got[3]
      <4>1. g \in Nat
        BY <1>1 DEF g
      <4>2. 3 \in 1 .. g
        BY <2>9, <4>1
      <4> QED
        BY <2>3, <4>2
    <3>3. pos + w >= 6
      BY <1>1, <2>2, <3>1
    <3>4. g + 1 < 5 => next = From(Header, g + 1 + 1)
      <4> SUFFICES ASSUME g + 1 < 5 PROVE next = From(Header, 5)
        <5>1. g \in Nat
          BY <1>1 DEF g
        <5>2. g + 1 < 5 => g + 1 + 1 = 5
          BY <2>9, <5>1
        <5> QED
          BY <5>2
      <4>1. g = 3
        <5>1. g \in Nat
          BY <1>1 DEF g
        <5> QED
          BY <2>9, <5>1
      <4>2. todo = From(Header, 4)
        BY <2>4, <4>1
      <4>3. name = "block"
        BY <2>1, <4>2, HeaderWidths
      <4>4. Tail(From(Header, 4)) = From(Header, 4 + 1)
        BY PlansGoOn
      <4> QED
        BY <2>1, <4>2, <4>3, <4>4
    <3>5. g \in Nat
      BY <1>1 DEF g
    <3> QED
      BY <2>9, <3>1, <3>2, <3>3, <3>4, <3>5
  <2>10. g \in Nat
    BY <1>1 DEF g
  <2>11. g = 0 \/ g = 1 \/ g = 2 \/ g >= 3
    BY <2>10
  <2> QED
    BY <2>6, <2>7, <2>8, <2>9, <2>11
<1> QED
  BY <1>2, <1>3, <1>4, <1>5, StepsAreTakes

(* decode_hash, which is all the Merkle walk reads of a record, sees the   *)
(* hash of the node that the whole decoder would give back.                *)
THEOREM LeafHashesAgree == Spec => []LeafHashAgrees
<1>1. Init => ReaderInv /\ HashInv
  BY ReaderInit, HashInvStart
<1>2. ReaderInv /\ HashInv /\ [Next]_vars => (ReaderInv /\ HashInv)'
  BY ReaderStep, HashInvStep
<1>3. ReaderInv /\ HashInv => LeafHashAgrees
  <2> SUFFICES ASSUME ReaderInv, HashInv, outcome = "ok" PROVE DecodeHash(bytes) = got[3][2]
    BY DEF LeafHashAgrees
  <2>1. Len(got) >= 5 /\ pos \in 0 .. Len(bytes) /\ got \in Seq(Entries) /\ bytes \in Seq(Bytes)
    BY DEF HashInv, ReaderInv
  <2>2. Len(got) \in Nat /\ Len(bytes) \in Nat
    BY <2>1, LenProperties
  <2>3. Len(got) >= 2 /\ Len(got) >= 3
    BY <2>1, <2>2
  <2>4. pos >= 6 /\ got[3] = <<"hash", SubSeq(bytes, 5, 6)>> /\ Number(SubSeq(bytes, 3, 4)) < Capacity
    BY <2>3 DEF HashInv
  <2>5. Len(bytes) >= 6
    BY <2>1, <2>2, <2>4
  <2> QED
    BY <2>4, <2>5 DEF DecodeHash
<1> QED
  BY <1>1, <1>2, <1>3, PTL DEF Spec
=============================================================================
