--------------------------- MODULE TransfersProofs ---------------------------
(***************************************************************************)
(* What is proved of the transfers of module Transfers, for integers of    *)
(* every width, chunks, images and speech of every size, and a stream cut  *)
(* anywhere.  Its functions are recursive; what they compute is proved by  *)
(* induction on the set of the numbers a fact holds for.  From there:      *)
(* numbers, frames, chunks, the stream, the arithmetic of the amplifier,   *)
(* the types, an undamaged speech, an undamaged image.                     *)
(***************************************************************************)
EXTENDS Transfers, SequenceLemmas, FiniteSetTheorems

-----------------------------------------------------------------------------
(* Recursive functions *)

\* The recursion of Powers has a solution on 0 .. n.
IsPowers(f, n) == f = [i \in 0 .. n |-> IF i = 0 THEN 1 ELSE Byte * f[i - 1]]

\* It has one for every n.
LEMMA PowersExist == \A n \in Nat : \E f : IsPowers(f, n)
<1> DEFINE S == {n \in Nat : \E f : IsPowers(f, n)}
<1>1. 0 \in S
  <2>1. IsPowers([i \in 0 .. 0 |-> 1], 0)
    BY DEF IsPowers
  <2> QED
    BY <2>1
<1>2. ASSUME NEW n \in Nat, n \in S
      PROVE  n + 1 \in S
  <2>1. PICK f : IsPowers(f, n)
    BY <1>2
  <2> DEFINE g == [i \in 0 .. n + 1 |-> IF i \in 0 .. n THEN f[i] ELSE Byte * f[n]]
  <2>2. ASSUME NEW i \in 0 .. n + 1
        PROVE  g[i] = IF i = 0 THEN 1 ELSE Byte * g[i - 1]
    BY <2>1 DEF IsPowers
  <2>3. IsPowers(g, n + 1)
    BY <2>2 DEF IsPowers
  <2> QED
    BY <2>3
<1> HIDE DEF S
<1>3. Nat \subseteq S
  BY <1>1, <1>2, SetInduction
<1> QED
  BY <1>3 DEF S

\* What the definition of Powers says.
LEMMA PowersDef ==
  /\ Powers[0] = 1
  /\ \A i \in 1 .. Digits : Powers[i] = Byte * Powers[i - 1]
<1>1. IsPowers(Powers, Digits)
  <2>1. \E f : IsPowers(f, Digits)
    BY PowersExist, WidthsAssumption
  <2>2. IsPowers(CHOOSE f : IsPowers(f, Digits), Digits)
    BY <2>1, Zenon
  <2>3. Powers = CHOOSE f : IsPowers(f, Digits)
    BY DEF Powers, IsPowers
  <2> QED
    BY <2>2, <2>3
<1> DEFINE f == Powers
<1>2. IsPowers(f, Digits)
  BY <1>1
<1> HIDE DEF f
<1>3. \A i \in 0 .. Digits : f[i] = IF i = 0 THEN 1 ELSE Byte * f[i - 1]
  BY <1>2 DEF IsPowers
<1>4. 0 \in 0 .. Digits /\ \A i \in 1 .. Digits : i \in 0 .. Digits /\ i # 0
  BY WidthsAssumption
<1> QED
  BY <1>3, <1>4 DEF f

\* The recursion of Value.
IsValue(v, ds, n) == v = [i \in 0 .. n |-> IF i = 0 THEN 0 ELSE v[i - 1] * Byte + ds[i]]

\* It has a solution whatever the digits are.
LEMMA ValueExists ==
  ASSUME NEW ds
  PROVE  \A n \in Nat : \E v : IsValue(v, ds, n)
<1> DEFINE S == {n \in Nat : \E v : IsValue(v, ds, n)}
<1>1. 0 \in S
  <2>1. IsValue([i \in 0 .. 0 |-> 0], ds, 0)
    BY DEF IsValue
  <2> QED
    BY <2>1
<1>2. ASSUME NEW n \in Nat, n \in S
      PROVE  n + 1 \in S
  <2>1. PICK v : IsValue(v, ds, n)
    BY <1>2
  <2> DEFINE w == [i \in 0 .. n + 1 |-> IF i \in 0 .. n THEN v[i] ELSE v[n] * Byte + ds[n + 1]]
  <2>2. ASSUME NEW i \in 0 .. n + 1
        PROVE  w[i] = IF i = 0 THEN 0 ELSE w[i - 1] * Byte + ds[i]
    BY <2>1 DEF IsValue
  <2>3. IsValue(w, ds, n + 1)
    BY <2>2 DEF IsValue
  <2> QED
    BY <2>3
<1> HIDE DEF S
<1>3. Nat \subseteq S
  BY <1>1, <1>2, SetInduction
<1> QED
  BY <1>3 DEF S

\* What the definition of Value says.
LEMMA ValueDef ==
  ASSUME NEW ds, Len(ds) \in Nat
  PROVE  \E v : IsValue(v, ds, Len(ds)) /\ Value(ds) = v[Len(ds)]
<1>1. \E v : IsValue(v, ds, Len(ds))
  BY ValueExists
<1>2. IsValue(CHOOSE v : IsValue(v, ds, Len(ds)), ds, Len(ds))
  BY <1>1, Zenon
<1>3. Value(ds) = (CHOOSE v : IsValue(v, ds, Len(ds)))[Len(ds)]
  BY DEF Value, IsValue
<1> QED
  BY <1>2, <1>3

-----------------------------------------------------------------------------
(* Numbers of Digits bytes *)

\* Division with remainder.
LEMMA Remainder ==
  ASSUME NEW a \in Nat, NEW b \in Nat, b > 0
  PROVE  /\ a \div b \in Nat
         /\ a % b \in Nat /\ a % b < b
         /\ a = b * (a \div b) + (a % b)
BY SMT

\* Multiplying keeps an order.
LEMMA TimesMonotone ==
  ASSUME NEW a \in Nat, NEW b \in Nat, NEW c \in Nat, a <= b
  PROVE  a * c \in Nat /\ b * c \in Nat /\ a * c <= b * c
BY SMT

\* A quotient is known by what its remainder may be.
LEMMA Quotient ==
  ASSUME NEW a \in Nat, NEW b \in Nat, b > 0, NEW q \in Nat, NEW r \in 0 .. b - 1,
         a = b * q + r
  PROVE  a \div b = q
BY SMT

\* Dividing by a product is dividing twice.
LEMMA DividedTwice ==
  ASSUME NEW n \in Nat, NEW b \in Nat, NEW p \in Nat, b > 0, p > 0
  PROVE  n \div (b * p) = (n \div p) \div b
<1> DEFINE q == n \div p
           r == n % p
           s == q \div b
           t == q % b
<1>1. q \in Nat /\ r \in Nat /\ r < p /\ n = p * q + r
  BY Remainder
<1>2. s \in Nat /\ t \in Nat /\ t < b /\ q = b * s + t
  BY <1>1, Remainder
<1> HIDE DEF q, r, s, t
<1>3. p * q = (b * p) * s + p * t
  BY <1>1, <1>2
<1>4. p * t <= p * (b - 1) /\ p * t \in Nat
  BY <1>2
<1>5. b * p \in Nat /\ b * p > 0 /\ p * (b - 1) = b * p - p
  OBVIOUS
<1>6. p * t + r \in 0 .. b * p - 1
  BY <1>1, <1>4, <1>5
<1>7. n = (b * p) * s + (p * t + r)
  BY <1>1, <1>2, <1>3, <1>4, <1>5
<1>8. n \div (b * p) = s
  BY <1>2, <1>5, <1>6, <1>7, Quotient
<1> QED
  BY <1>8 DEF q, s

\* Powers are positive.
LEMMA PowersPositive == \A i \in 0 .. Digits : Powers[i] \in Nat /\ Powers[i] > 0
<1> DEFINE S == {n \in Nat : n <= Digits => Powers[n] \in Nat /\ Powers[n] > 0}
<1>1. 0 \in S
  BY PowersDef
<1>2. ASSUME NEW n \in Nat, n \in S
      PROVE  n + 1 \in S
  <2>1. CASE n + 1 <= Digits
    <3>1. n + 1 \in 1 .. Digits /\ Digits \in Nat /\ (n + 1) - 1 = n
      BY <2>1, WidthsAssumption
    <3>2. Powers[n + 1] = Byte * Powers[n]
      BY <3>1, PowersDef
    <3>3. Powers[n] \in Nat /\ Powers[n] > 0
      BY <1>2, <3>1
    <3> QED
      BY <3>2, <3>3, WidthsAssumption
  <2> QED
    BY <2>1
<1> HIDE DEF S
<1>3. Nat \subseteq S
  BY <1>1, <1>2, SetInduction
<1> QED
  BY <1>3, WidthsAssumption DEF S

\* A number of Digits bytes is below Word.
LEMMA ValueBound ==
  ASSUME NEW ds \in Seq(Bytes), Len(ds) = Digits
  PROVE  Value(ds) \in 0 .. Word - 1
<1>1. Digits \in Nat /\ Byte \in Nat /\ Byte > 0 /\ Word = Powers[Digits] /\ Word \in Nat
  BY WidthsAssumption
<1>2. PICK v : IsValue(v, ds, Digits) /\ Value(ds) = v[Digits]
  BY <1>1, ValueDef
<1> DEFINE S == {n \in Nat : n <= Digits => v[n] \in Nat /\ v[n] < Powers[n]}
<1>3. 0 \in S
  BY <1>1, <1>2, PowersDef DEF IsValue
<1>4. ASSUME NEW n \in Nat, n \in S
      PROVE  n + 1 \in S
  <2>1. CASE n + 1 <= Digits
    <3>1. n + 1 \in 1 .. Digits /\ n \in 0 .. Digits /\ (n + 1) - 1 = n
      BY <1>1, <2>1
    <3>2. v[n + 1] = v[n] * Byte + ds[n + 1] /\ Powers[n + 1] = Byte * Powers[n]
      BY <1>2, <3>1, PowersDef DEF IsValue
    <3>3. ds[n + 1] \in Nat /\ ds[n + 1] < Byte
      BY <1>1, <3>1, ElementOfSeq DEF Bytes
    <3>4. v[n] \in Nat /\ v[n] <= Powers[n] - 1 /\ Powers[n] \in Nat
      BY <1>4, <3>1, PowersPositive
    <3> DEFINE p == Powers[n]
               x == v[n]
               d == ds[n + 1]
    <3>5. x \in Nat /\ p \in Nat /\ x + 1 <= p /\ d \in Nat /\ d < Byte
      BY <3>3, <3>4
    <3>6. v[n + 1] = x * Byte + d /\ Powers[n + 1] = Byte * p
      BY <3>2
    <3> HIDE DEF x, p, d
    <3>7. (x + 1) * Byte <= p * Byte /\ p * Byte = Byte * p /\ p * Byte \in Nat
      BY <1>1, <3>5, TimesMonotone
    <3>8. (x + 1) * Byte = x * Byte + Byte /\ x * Byte \in Nat
      BY <1>1, <3>5
    <3>9. x * Byte + d \in Nat /\ x * Byte + d < Byte * p
      BY <1>1, <3>5, <3>7, <3>8
    <3> QED
      BY <3>6, <3>9
  <2> QED
    BY <2>1
<1> HIDE DEF S
<1>5. Nat \subseteq S
  BY <1>3, <1>4, SetInduction
<1>6. v[Digits] \in Nat /\ v[Digits] < Powers[Digits]
  BY <1>1, <1>5 DEF S
<1> QED
  BY <1>1, <1>2, <1>6

\* What a header holds is Digits bytes.
LEMMA BigEndianType ==
  ASSUME NEW n \in Nat
  PROVE  /\ BigEndian(n) \in Seq(Bytes)
         /\ Len(BigEndian(n)) = Digits
         /\ \A i \in 1 .. Digits : BigEndian(n)[i] = (n \div Powers[Digits - i]) % Byte
<1> DEFINE e(i) == (n \div Powers[Digits - i]) % Byte
<1>1. Digits \in Nat /\ Byte \in Nat /\ Byte > 0
  BY WidthsAssumption
<1>2. ASSUME NEW i \in 1 .. Digits
      PROVE  e(i) \in Bytes
  <2>1. Powers[Digits - i] \in Nat /\ Powers[Digits - i] > 0
    BY <1>1, PowersPositive
  <2>2. n \div Powers[Digits - i] \in Nat
    BY <2>1, Remainder
  <2> QED
    BY <1>1, <2>2, Remainder DEF Bytes
<1> HIDE DEF e
<1>3. [i \in 1 .. Digits |-> e(i)] \in [1 .. Digits -> Bytes]
  BY <1>2
<1>4. BigEndian(n) = [i \in 1 .. Digits |-> e(i)]
  BY DEF BigEndian, e
<1>5. BigEndian(n) \in Seq(Bytes) /\ Len(BigEndian(n)) = Digits
  BY <1>1, <1>3, <1>4
<1> QED
  BY <1>4, <1>5 DEF e

\* What one end writes into a header the other reads.
LEMMA ValueOfBigEndian ==
  ASSUME NEW n \in 0 .. Word - 1
  PROVE  Value(BigEndian(n)) = n
<1> DEFINE ds == BigEndian(n)
<1>1. Digits \in Nat /\ Byte \in Nat /\ Byte > 0 /\ Word = Powers[Digits] /\ n \in Nat
  BY WidthsAssumption
<1>2. Len(ds) = Digits /\ \A i \in 1 .. Digits : ds[i] = (n \div Powers[Digits - i]) % Byte
  BY BigEndianType
<1> HIDE DEF ds
<1>3. PICK v : IsValue(v, ds, Digits) /\ Value(ds) = v[Digits]
  BY <1>1, <1>2, ValueDef
<1> DEFINE S == {k \in Nat : k <= Digits => v[k] = n \div Powers[Digits - k]}
<1>4. 0 \in S
  <2>1. n \div Word = 0
    BY <1>1, WidthsAssumption, Quotient
  <2>2. v[0] = 0 /\ Digits - 0 = Digits
    BY <1>1, <1>3 DEF IsValue
  <2> QED
    BY <1>1, <2>1, <2>2
<1>5. ASSUME NEW k \in Nat, k \in S
      PROVE  k + 1 \in S
  <2>1. CASE k + 1 <= Digits
    <3> DEFINE j == Digits - (k + 1)
    <3>1. k + 1 \in 1 .. Digits /\ (k + 1) - 1 = k /\ j \in 0 .. Digits /\ Digits - k = j + 1
          /\ j + 1 \in 1 .. Digits /\ (j + 1) - 1 = j
      BY <1>1, <2>1
    <3> HIDE DEF j
    <3>2. v[k + 1] = v[k] * Byte + ds[k + 1] /\ ds[k + 1] = (n \div Powers[j]) % Byte
      <4>1. v[k + 1] = v[k] * Byte + ds[k + 1]
        BY <1>1, <1>3, <3>1 DEF IsValue
      <4> QED
        BY <1>2, <3>1, <4>1 DEF j
    <3>3. v[k] = n \div Powers[j + 1] /\ Powers[j + 1] = Byte * Powers[j]
      <4>1. v[k] = n \div Powers[Digits - k]
        BY <1>1, <1>5, <2>1
      <4>2. Powers[j + 1] = Byte * Powers[(j + 1) - 1]
        BY <3>1, PowersDef
      <4> QED
        BY <3>1, <4>1, <4>2
    <3>4. Powers[j] \in Nat /\ Powers[j] > 0
      BY <3>1, PowersPositive
    <3>5. v[k] = (n \div Powers[j]) \div Byte
      BY <1>1, <3>3, <3>4, DividedTwice
    <3> DEFINE q == n \div Powers[j]
    <3>6. q \in Nat
      BY <1>1, <3>4, Remainder
    <3>7. v[k] = q \div Byte /\ v[k + 1] = v[k] * Byte + (q % Byte)
      BY <3>2, <3>5
    <3> HIDE DEF q
    <3>8. q = Byte * (q \div Byte) + (q % Byte) /\ q \div Byte \in Nat /\ q % Byte \in Nat
      BY <1>1, <3>6, Remainder
    <3>9. v[k + 1] = q
      BY <1>1, <3>6, <3>7, <3>8
    <3> QED
      BY <3>9 DEF q, j
  <2> QED
    BY <2>1
<1> HIDE DEF S
<1>6. Nat \subseteq S
  BY <1>4, <1>5, SetInduction
<1>7. v[Digits] = n \div Powers[0] /\ Powers[0] = 1
  BY <1>1, <1>6, PowersDef DEF S
<1> QED
  BY <1>1, <1>3, <1>7 DEF ds

-----------------------------------------------------------------------------
(* Frames *)

WireFrames == [kind : Kinds, payload : {p \in Seq(Bytes) : Len(p) <= MaxFrame}]

Header(f) == <<f.kind>> \o BigEndian(Len(f.payload))

\* Bytes and widths are numbers.
LEMMA Numbers ==
  /\ Byte \in Nat /\ Byte > 2 /\ Digits \in Nat /\ Digits > 0 /\ Word \in Nat /\ Word > 0
  /\ HeaderSize \in Nat /\ HeaderSize = 1 + Digits
  /\ Chunk \in Nat /\ Chunk > 0 /\ MaxFrame \in Nat /\ Digits + Chunk <= MaxFrame
  /\ MaxFrame < Word
  /\ Kinds \subseteq Bytes /\ Bytes \subseteq Nat
  /\ KindJson # KindBinary
<1>1. MaxFrame \in Nat
  BY WidthsAssumption, WireAssumption
<1> QED
  BY <1>1, WidthsAssumption, WireAssumption DEF HeaderSize, Kinds, Bytes

\* Joining keeps the parts.
LEMMA HeadOfConcat ==
  ASSUME NEW S, NEW e \in S, NEW s \in Seq(S)
  PROVE  /\ <<e>> \o s \in Seq(S)
         /\ Len(<<e>> \o s) = 1 + Len(s)
         /\ (<<e>> \o s)[1] = e /\ Head(<<e>> \o s) = e /\ <<e>> \o s # << >>
         /\ \A i \in 1 .. Len(s) : (<<e>> \o s)[i + 1] = s[i]
         /\ Tail(<<e>> \o s) = s
<1>1. <<e>> \in Seq(S) /\ Len(<<e>>) = 1 /\ <<e>>[1] = e /\ Len(s) \in Nat
  BY LenProperties
<1> DEFINE a == <<e>>
           t == a \o s
<1>2. a \in Seq(S) /\ Len(a) = 1 /\ a[1] = e
  BY <1>1
<1> HIDE DEF a
<1>3. t \in Seq(S) /\ Len(t) = 1 + Len(s)
      /\ \A i \in 1 .. 1 + Len(s) : t[i] = IF i <= 1 THEN a[i] ELSE s[i - 1]
  <2>1. /\ t \in Seq(S) /\ Len(t) = Len(a) + Len(s)
        /\ \A i \in 1 .. Len(a) + Len(s) : t[i] = IF i <= Len(a) THEN a[i] ELSE s[i - Len(a)]
    BY <1>2, ConcatProperties
  <2> HIDE DEF t
  <2> QED
    BY <1>2, <2>1
<1> HIDE DEF t
<1>4. t[1] = e /\ \A i \in 1 .. Len(s) : t[i + 1] = s[i]
  <2>1. 1 \in 1 .. 1 + Len(s) /\ \A i \in 1 .. Len(s) : i + 1 \in 1 .. 1 + Len(s) /\ (i + 1) - 1 = i
    BY <1>1
  <2> QED
    BY <1>2, <1>3, <2>1
<1>5. t # << >>
  BY <1>1, <1>3, EmptySeq
<1>6. /\ Tail(t) \in Seq(S) /\ Len(Tail(t)) = Len(t) - 1
      /\ \A i \in 1 .. Len(Tail(t)) : Tail(t)[i] = t[i + 1]
  BY <1>3, <1>5, HeadTailProperties
<1>7. Len(Tail(t)) = Len(s) /\ \A i \in 1 .. Len(Tail(t)) : Tail(t)[i] = s[i]
  BY <1>1, <1>3, <1>4, <1>6
<1>8. Tail(t) = s
  BY <1>6, <1>7, SeqEqual
<1>9. Head(t) = t[1]
  BY <1>3, <1>5
<1> QED
  BY <1>3, <1>4, <1>5, <1>8, <1>9 DEF t, a

\* The header of a frame announces its payload.
LEMMA HeaderProperties ==
  ASSUME NEW f \in WireFrames
  PROVE  /\ Header(f) \in Seq(Bytes) /\ Len(Header(f)) = HeaderSize
         /\ Header(f)[1] = f.kind /\ Announced(Header(f)) = Len(f.payload)
         /\ f.kind \in Kinds /\ f.payload \in Seq(Bytes) /\ Len(f.payload) \in 0 .. MaxFrame
<1>1. f.kind \in Kinds /\ f.payload \in Seq(Bytes) /\ Len(f.payload) <= MaxFrame
  BY DEF WireFrames
<1>2. Len(f.payload) \in 0 .. MaxFrame /\ Len(f.payload) \in 0 .. Word - 1
  BY <1>1, Numbers, LenProperties
<1>3. /\ BigEndian(Len(f.payload)) \in Seq(Bytes)
      /\ Len(BigEndian(Len(f.payload))) = Digits
      /\ Value(BigEndian(Len(f.payload))) = Len(f.payload)
  BY <1>2, BigEndianType, ValueOfBigEndian
<1>4. f.kind \in Bytes
  BY <1>1, Numbers
<1> DEFINE b == BigEndian(Len(f.payload))
<1>5. Header(f) = <<f.kind>> \o b
  BY DEF Header
<1> HIDE DEF b
<1>6. b \in Seq(Bytes) /\ Len(b) = Digits /\ Value(b) = Len(f.payload)
  BY <1>3 DEF b
<1>7. /\ Header(f) \in Seq(Bytes) /\ Len(Header(f)) = 1 + Digits
      /\ Header(f)[1] = f.kind /\ Tail(Header(f)) = b
  BY <1>4, <1>5, <1>6, HeadOfConcat
<1>8. Announced(Header(f)) = Len(f.payload)
  BY <1>6, <1>7 DEF Announced
<1> QED
  BY <1>1, <1>2, <1>7, <1>8, Numbers

\* A frame is its header, then its payload.
LEMMA EncodeProperties ==
  ASSUME NEW f \in WireFrames
  PROVE  Encode(f) = Header(f) \o f.payload /\ Encode(f) \in Seq(Bytes)
<1>1. Header(f) \in Seq(Bytes) /\ f.payload \in Seq(Bytes)
  BY HeaderProperties
<1> QED
  BY <1>1, ConcatProperties DEF Encode, Header

Encoded(frames) == [i \in DOMAIN frames |-> Encode(frames[i])]

\* Frames make a stream of bytes.
LEMMA StreamType ==
  ASSUME NEW frames \in Seq(WireFrames)
  PROVE  /\ Encoded(frames) \in Seq(Seq(Bytes))
         /\ Len(Encoded(frames)) = Len(frames)
         /\ \A i \in 1 .. Len(frames) : Encoded(frames)[i] = Encode(frames[i])
         /\ FlattenSeq(Encoded(frames)) \in Seq(Bytes)
<1>1. Len(frames) \in Nat /\ DOMAIN frames = 1 .. Len(frames)
      /\ \A i \in 1 .. Len(frames) : frames[i] \in WireFrames
  BY LenProperties, ElementOfSeq
<1>2. \A i \in 1 .. Len(frames) : Encode(frames[i]) \in Seq(Bytes)
  BY <1>1, EncodeProperties
<1> DEFINE e == Encoded(frames)
<1>3. e \in [1 .. Len(frames) -> Seq(Bytes)] /\ \A i \in 1 .. Len(frames) : e[i] = Encode(frames[i])
  BY <1>1, <1>2 DEF Encoded
<1> HIDE DEF e
<1>4. e \in Seq(Seq(Bytes)) /\ Len(e) = Len(frames)
  BY <1>1, <1>3
<1>5. FlattenSeq(e) = JoinedFirst(e)[Len(e)] /\ JoinedFirst(e)[Len(e)] \in Seq(Bytes)
  <2>1. Len(e) \in 0 .. Len(e)
    BY <1>1, <1>4
  <2> QED
    BY <1>4, <2>1, FlattenIsJoined, JoinedProperties
<1> QED
  BY <1>3, <1>4, <1>5 DEF e

-----------------------------------------------------------------------------
(* The chunks of a transfer *)

\* A size is at least one chunk's and at most that of all its chunks.
LEMMA ChunksProperties ==
  ASSUME NEW size \in 0 .. Word - 1
  PROVE  /\ Chunks(size) \in 1 .. Word - 1
         /\ size \in Nat
         /\ (Chunks(size) - 1) * Chunk \in Nat /\ (Chunks(size) - 1) * Chunk <= size
         /\ Chunks(size) * Chunk \in Nat /\ size <= Chunks(size) * Chunk
<1>1. Chunk \in Nat /\ Chunk > 0 /\ Word \in Nat /\ Word > Chunk /\ size \in Nat
  BY Numbers
<1>2. CASE size = 0
  <2>1. Chunks(size) = 1
    BY <1>2 DEF Chunks
  <2>2. (1 - 1) * Chunk = 0 /\ 1 * Chunk = Chunk
    BY <1>1
  <2> QED
    BY <1>1, <1>2, <2>1, <2>2
<1>3. CASE size # 0
  <2> DEFINE q == (size + Chunk - 1) \div Chunk
             r == (size + Chunk - 1) % Chunk
  <2>1. q \in Nat /\ r \in Nat /\ r < Chunk /\ size + Chunk - 1 = Chunk * q + r
    BY <1>1, Remainder
  <2>2. Chunks(size) = q
    BY <1>3 DEF Chunks
  <2> HIDE DEF q, r
  <2>3. q * Chunk = Chunk * q /\ q * Chunk \in Nat /\ (q - 1) * Chunk = q * Chunk - Chunk
    BY <1>1, <2>1
  <2>4. q # 0
    <3>1. SUFFICES ASSUME q = 0 PROVE FALSE
      OBVIOUS
    <3>2. Chunk * q = 0
      BY <1>1, <3>1
    <3> QED
      BY <1>1, <1>3, <2>1, <3>2
  <2>5. (q - 1) * Chunk \in Nat /\ (q - 1) * Chunk <= size /\ size <= q * Chunk
    <3>1. q - 1 \in Nat
      BY <2>1, <2>4
    <3>2. (q - 1) * Chunk \in Nat
      BY <1>1, <3>1
    <3> QED
      BY <1>1, <2>1, <2>3, <3>2
  <2>6. q <= Word - 1
    <3>1. (q - 1) * 1 <= (q - 1) * Chunk
      <4>1. q - 1 \in Nat
        BY <2>1, <2>4
      <4> QED
        BY <1>1, <4>1
    <3>2. q - 1 <= size
      BY <1>1, <2>1, <2>5, <3>1
    <3>3. CASE q = 1
      BY <1>1, <3>3
    <3>4. CASE q > 1
      <4>1. (q - 1) * Chunk >= (q - 1)
        BY <1>1, <2>1, <3>1
      <4>2. size > q - 1 \/ Chunk = 1 \/ q - 1 = size
        BY <1>1, <2>1, <3>2
      <4>3. CASE Chunk = 1
        BY <1>1, <2>1, <2>3, <4>3
      <4>4. CASE Chunk > 1
        <5>1. (q - 1) * 2 <= (q - 1) * Chunk
          BY <1>1, <2>1, <3>4, <4>4
        <5> QED
          BY <1>1, <2>1, <2>5, <3>4, <5>1
      <4> QED
        BY <1>1, <4>3, <4>4
    <3> QED
      BY <2>1, <2>4, <3>3, <3>4
  <2> QED
    BY <1>1, <2>1, <2>2, <2>3, <2>4, <2>5, <2>6
<1> QED
  BY <1>2, <1>3

\* The parts of it carry bytes of it, all but the last a whole chunk.
LEMMA SliceProperties ==
  ASSUME NEW size \in 0 .. Word - 1, NEW seq \in 0 .. Chunks(size) - 1
  PROVE  /\ seq * Chunk \in Nat /\ seq * Chunk <= size
         /\ Slice(size, seq) \in Seq(Bytes)
         /\ Len(Slice(size, seq)) = IF size - seq * Chunk < Chunk THEN size - seq * Chunk ELSE Chunk
         /\ Len(Slice(size, seq)) \in 0 .. Chunk
         /\ \A k \in 1 .. Len(Slice(size, seq)) :
              Slice(size, seq)[k] = Content(size)[seq * Chunk + k - 1]
         /\ \A b \in 0 .. size - 1 : Content(size)[b] \in Bytes
<1> DEFINE start == seq * Chunk
           n == IF size - start < Chunk THEN size - start ELSE Chunk
           e(k) == Content(size)[start + k - 1]
<1>1. /\ Chunks(size) \in Nat /\ size \in Nat /\ (Chunks(size) - 1) * Chunk <= size
      /\ Chunk \in Nat /\ Chunk > 0 /\ Byte \in Nat /\ Byte > 0 /\ seq \in Nat
  BY ChunksProperties, Numbers
<1>2. start \in Nat /\ start <= size
  <2>1. seq <= Chunks(size) - 1 /\ Chunks(size) - 1 \in Nat
    BY <1>1
  <2>2. seq * Chunk <= (Chunks(size) - 1) * Chunk /\ seq * Chunk \in Nat
        /\ (Chunks(size) - 1) * Chunk \in Nat
    BY <1>1, <2>1, TimesMonotone
  <2> QED
    BY <1>1, <2>2
<1>3. \A b \in 0 .. size - 1 : Content(size)[b] \in Bytes
  <2> SUFFICES ASSUME NEW b \in 0 .. size - 1 PROVE Content(size)[b] \in Bytes
    OBVIOUS
  <2>1. Content(size)[b] = b % Byte /\ b \in Nat
    BY <1>1 DEF Content
  <2> QED
    BY <1>1, <2>1, Remainder DEF Bytes
<1>4. n \in 0 .. Chunk /\ n \in Nat
  <2> HIDE DEF start
  <2> QED
    BY <1>1, <1>2
<1>5. Slice(size, seq) = [k \in 1 .. n |-> e(k)]
  BY DEF Slice
<1>6. \A k \in 1 .. n : e(k) \in Bytes
  <2> SUFFICES ASSUME NEW k \in 1 .. n PROVE e(k) \in Bytes
    OBVIOUS
  <2> HIDE DEF start
  <2>1. start + k - 1 \in 0 .. size - 1
    BY <1>1, <1>2
  <2> QED
    BY <1>3, <2>1
<1> HIDE DEF e
<1>7. [k \in 1 .. n |-> e(k)] \in [1 .. n -> Bytes]
  BY <1>6
<1> HIDE DEF n
<1>8. Slice(size, seq) \in Seq(Bytes) /\ Len(Slice(size, seq)) = n
      /\ \A k \in 1 .. n : Slice(size, seq)[k] = e(k)
  BY <1>4, <1>5, <1>7
<1> QED
  BY <1>2, <1>3, <1>4, <1>8 DEF n, e

\* What a chunk frame says and carries.
LEMMA ChunkFrameProperties ==
  ASSUME NEW size \in 0 .. Word - 1, NEW seq \in 0 .. Chunks(size) - 1
  PROVE  LET p == ChunkFrame(size, seq).payload IN
         /\ ChunkFrame(size, seq) \in WireFrames
         /\ ChunkFrame(size, seq).kind = KindBinary
         /\ p \in Seq(Bytes) /\ Len(p) = Digits + Len(Slice(size, seq)) /\ Len(p) <= Digits + Chunk
         /\ SubSeq(p, 1, Digits) = BigEndian(seq)
         /\ Value(SubSeq(p, 1, Digits)) = seq
         /\ SubSeq(p, Digits + 1, Len(p)) = Slice(size, seq)
<1> DEFINE a == BigEndian(seq)
           s == Slice(size, seq)
           p == ChunkFrame(size, seq).payload
<1>1. Digits \in Nat /\ Digits > 0 /\ Word \in Nat /\ MaxFrame \in Nat /\ Digits + Chunk <= MaxFrame
      /\ Chunk \in Nat
  BY Numbers
<1>2. seq \in 0 .. Word - 1
  <2>1. Chunks(size) \in 1 .. Word - 1
    BY ChunksProperties
  <2> QED
    BY <1>1, <2>1
<1>3. a \in Seq(Bytes) /\ Len(a) = Digits /\ Value(a) = seq
  BY <1>1, <1>2, BigEndianType, ValueOfBigEndian
<1>4. s \in Seq(Bytes) /\ Len(s) \in 0 .. Chunk
  BY SliceProperties
<1>5. ChunkFrame(size, seq) = [kind |-> KindBinary, payload |-> a \o s]
  BY DEF ChunkFrame
<1>6. p = a \o s /\ ChunkFrame(size, seq).kind = KindBinary
  BY <1>5
<1> HIDE DEF a, s, p
<1>7. p \in Seq(Bytes) /\ Len(p) = Digits + Len(s)
      /\ \A i \in 1 .. Digits + Len(s) : p[i] = IF i <= Digits THEN a[i] ELSE s[i - Digits]
  <2>1. p \in Seq(Bytes) /\ Len(p) = Len(a) + Len(s)
        /\ \A i \in 1 .. Len(a) + Len(s) : p[i] = IF i <= Len(a) THEN a[i] ELSE s[i - Len(a)]
    BY <1>3, <1>4, <1>6, ConcatProperties
  <2> QED
    BY <1>3, <2>1
<1>8. SubSeq(p, 1, Digits) = a
  <2>1. \A i \in 1 .. Digits : i \in 1 .. Digits + Len(s) /\ i <= Digits /\ p[i] = a[i] /\ a[i] \in Bytes
    BY <1>1, <1>3, <1>4, <1>7, ElementOfSeq
  <2>2. /\ SubSeq(p, 1, Digits) \in Seq(Bytes) /\ Len(SubSeq(p, 1, Digits)) = Digits
        /\ \A i \in 1 .. Digits : SubSeq(p, 1, Digits)[i] = p[i]
    <3>1. /\ SubSeq(p, 1, Digits) \in Seq(Bytes)
          /\ Len(SubSeq(p, 1, Digits)) = IF 1 <= Digits THEN Digits - 1 + 1 ELSE 0
          /\ \A i \in 1 .. Digits - 1 + 1 : SubSeq(p, 1, Digits)[i] = p[1 + i - 1]
      <4>1. 1 \in Int /\ Digits \in Int /\ \A i \in 1 .. Digits : p[i] \in Bytes
        BY <1>1, <2>1
      <4> QED
        BY <4>1, SubSeqProperties
    <3> QED
      BY <1>1, <3>1
  <2> QED
    BY <1>3, <2>1, <2>2, SeqEqual
<1>9. SubSeq(p, Digits + 1, Len(p)) = s
  <2> DEFINE m == Digits + 1
             n == Len(p)
             u == SubSeq(p, m, n)
  <2>1. m \in Int /\ n \in Int /\ \A i \in m .. n : p[i] \in Bytes
    <3>1. \A i \in 1 .. Len(p) : p[i] \in Bytes
      BY <1>7, ElementOfSeq
    <3> QED
      BY <1>1, <1>4, <1>7, <3>1
  <2>2. /\ u \in Seq(Bytes) /\ Len(u) = IF m <= n THEN n - m + 1 ELSE 0
        /\ \A i \in 1 .. n - m + 1 : u[i] = p[m + i - 1]
    <3> HIDE DEF m, n
    <3> QED
      BY <2>1, SubSeqProperties
  <2> HIDE DEF u
  <2>3. Len(u) = Len(s)
    BY <1>1, <1>4, <1>7, <2>2
  <2>4. ASSUME NEW i \in 1 .. Len(u)
        PROVE  u[i] = s[i]
    <3>1. i \in 1 .. n - m + 1 /\ m + i - 1 \in 1 .. Digits + Len(s) /\ ~(m + i - 1 <= Digits)
          /\ (m + i - 1) - Digits = i
      BY <1>1, <1>4, <1>7, <2>3
    <3> QED
      BY <1>7, <2>2, <3>1
  <2>5. u = s
    BY <1>4, <2>2, <2>3, <2>4, SeqEqual
  <2> QED
    BY <2>5 DEF u
<1>10. Len(p) <= Digits + Chunk /\ Len(p) <= MaxFrame
  BY <1>1, <1>4, <1>7
<1>11. ChunkFrame(size, seq) \in WireFrames
  <2>1. a \o s \in {x \in Seq(Bytes) : Len(x) <= MaxFrame}
    BY <1>6, <1>7, <1>10
  <2> QED
    BY <1>5, <2>1 DEF WireFrames, Kinds
<1> QED
  BY <1>3, <1>6, <1>7, <1>8, <1>9, <1>10, <1>11 DEF p, a, s

-----------------------------------------------------------------------------
(* The frames of a transfer *)

\* send_chunks: as many frames as chunks, each with its own.
LEMMA ChunkFramesProperties ==
  ASSUME NEW size \in 0 .. Word - 1
  PROVE  /\ ChunkFrames(size) \in Seq(WireFrames)
         /\ Len(ChunkFrames(size)) = Chunks(size)
         /\ \A i \in 1 .. Chunks(size) :
              /\ i - 1 \in 0 .. Chunks(size) - 1
              /\ ChunkFrames(size)[i] = ChunkFrame(size, i - 1)
<1> DEFINE n == Chunks(size)
           e(i) == ChunkFrame(size, i - 1)
<1>1. n \in Nat
  BY ChunksProperties
<1>2. \A i \in 1 .. n : i - 1 \in 0 .. n - 1
  BY <1>1
<1>3. \A i \in 1 .. n : e(i) \in WireFrames
  BY <1>2, ChunkFrameProperties
<1>4. ChunkFrames(size) = [i \in 1 .. n |-> e(i)]
  BY DEF ChunkFrames
<1> HIDE DEF n, e
<1>5. [i \in 1 .. n |-> e(i)] \in [1 .. n -> WireFrames]
  BY <1>3
<1>6. ChunkFrames(size) \in Seq(WireFrames) /\ Len(ChunkFrames(size)) = n
      /\ \A i \in 1 .. n : ChunkFrames(size)[i] = e(i)
  BY <1>1, <1>4, <1>5
<1> QED
  BY <1>2, <1>6 DEF n, e

\* The speech and audio_end.
LEMMA AudioBodyProperties ==
  ASSUME NEW size \in 0 .. Word - 1
  PROVE  /\ AudioBody(size) \in Seq(WireFrames)
         /\ Len(AudioBody(size)) = Chunks(size) + 1
         /\ \A i \in 1 .. Chunks(size) : AudioBody(size)[i] = ChunkFrame(size, i - 1)
         /\ AudioBody(size)[Chunks(size) + 1] = AudioEnd
<1> DEFINE n == Chunks(size)
           s == ChunkFrames(size)
           t == <<AudioEnd>>
<1>1. n \in Nat
  BY ChunksProperties
<1>2. s \in Seq(WireFrames) /\ Len(s) = n /\ \A i \in 1 .. n : s[i] = ChunkFrame(size, i - 1)
  BY ChunkFramesProperties
<1>3. AudioEnd \in WireFrames
  <2>1. 0 \in Bytes /\ 1 <= MaxFrame
    BY Numbers DEF Bytes
  <2>2. <<0>> \in Seq(Bytes) /\ Len(<<0>>) = 1
    BY <2>1, Singleton
  <2> QED
    BY <2>1, <2>2 DEF AudioEnd, WireFrames, Kinds
<1>4. t \in Seq(WireFrames) /\ Len(t) = 1 /\ t[1] = AudioEnd
  BY <1>3, Singleton
<1>5. AudioBody(size) = s \o t
  BY DEF AudioBody
<1> HIDE DEF n, s, t
<1>6. s \o t \in Seq(WireFrames) /\ Len(s \o t) = n + 1
      /\ \A i \in 1 .. n + 1 : (s \o t)[i] = IF i <= n THEN s[i] ELSE t[i - n]
  <2>1. s \o t \in Seq(WireFrames) /\ Len(s \o t) = Len(s) + Len(t)
        /\ \A i \in 1 .. Len(s) + Len(t) : (s \o t)[i] = IF i <= Len(s) THEN s[i] ELSE t[i - Len(s)]
    BY <1>2, <1>4, ConcatProperties
  <2> HIDE <1>2
  <2> QED
    BY <1>2, <1>4, <2>1
<1>7. /\ \A i \in 1 .. n : i \in 1 .. n + 1 /\ i <= n
      /\ n + 1 \in 1 .. n + 1 /\ ~(n + 1 <= n) /\ (n + 1) - n = 1
  BY <1>1
<1>8. \A i \in 1 .. n : (s \o t)[i] = s[i]
  BY <1>6, <1>7
<1>9. (s \o t)[n + 1] = t[1]
  BY <1>6, <1>7
<1> QED
  BY <1>2, <1>4, <1>5, <1>6, <1>8, <1>9 DEF n

BeginFrame(size) ==
  [kind |-> KindJson, payload |-> <<ImageBegin>> \o BigEndian(size) \o BigEndian(Chunks(size))]

EndFrame == [kind |-> KindJson, payload |-> <<ImageEnd>>]

\* image_begin, and what handle_connection reads of it.
LEMMA BeginFrameProperties ==
  ASSUME NEW size \in 0 .. Word - 1
  PROVE  LET p == BeginFrame(size).payload IN
         /\ BeginFrame(size) \in WireFrames
         /\ BeginFrame(size).kind = KindJson
         /\ Len(p) = 1 + 2 * Digits /\ Head(p) = ImageBegin /\ p # << >>
         /\ Value(SubSeq(p, 2, 1 + Digits)) = size
         /\ Value(SubSeq(p, 2 + Digits, 1 + 2 * Digits)) = Chunks(size)
<1> DEFINE b == BigEndian(size)
           c == BigEndian(Chunks(size))
           a == <<ImageBegin>>
           p == (a \o b) \o c
<1>1. Digits \in Nat /\ Digits > 0 /\ Word \in Nat /\ MaxFrame \in Nat /\ 1 + 2 * Digits <= MaxFrame
  BY Numbers, UplinkAssumption
<1>2. Chunks(size) \in 0 .. Word - 1 /\ size \in Nat /\ Chunks(size) \in Nat
  BY <1>1, ChunksProperties
<1>3. b \in Seq(Bytes) /\ Len(b) = Digits /\ Value(b) = size
  BY <1>2, BigEndianType, ValueOfBigEndian
<1>4. c \in Seq(Bytes) /\ Len(c) = Digits /\ Value(c) = Chunks(size)
  BY <1>2, BigEndianType, ValueOfBigEndian
<1>5. ImageBegin \in Bytes
  BY Numbers DEF ImageBegin, Bytes
<1>6. a \in Seq(Bytes) /\ Len(a) = 1 /\ a[1] = ImageBegin
  BY <1>5, Singleton
<1>7. BeginFrame(size) = [kind |-> KindJson, payload |-> p]
  BY DEF BeginFrame
<1> HIDE DEF a, b, c
<1> DEFINE ab == a \o b
<1>8. ab \in Seq(Bytes) /\ Len(ab) = 1 + Digits
      /\ \A i \in 1 .. 1 + Digits : ab[i] = IF i <= 1 THEN a[i] ELSE b[i - 1]
  <2>1. ab \in Seq(Bytes) /\ Len(ab) = Len(a) + Len(b)
        /\ \A i \in 1 .. Len(a) + Len(b) : ab[i] = IF i <= Len(a) THEN a[i] ELSE b[i - Len(a)]
    BY <1>3, <1>6, ConcatProperties
  <2> HIDE DEF ab
  <2> QED
    BY <1>3, <1>6, <2>1
<1>9. p = ab \o c
  OBVIOUS
<1> HIDE DEF ab, p
<1>10. p \in Seq(Bytes) /\ Len(p) = 1 + 2 * Digits
       /\ \A i \in 1 .. 1 + 2 * Digits : p[i] = IF i <= 1 + Digits THEN ab[i] ELSE c[i - (1 + Digits)]
  <2>1. p \in Seq(Bytes) /\ Len(p) = Len(ab) + Len(c)
        /\ \A i \in 1 .. Len(ab) + Len(c) : p[i] = IF i <= Len(ab) THEN ab[i] ELSE c[i - Len(ab)]
    BY <1>4, <1>8, <1>9, ConcatProperties
  <2>2. (1 + Digits) + Digits = 1 + 2 * Digits
    BY <1>1
  <2> QED
    BY <1>4, <1>8, <2>1, <2>2
<1>11. Head(p) = ImageBegin /\ p # << >>
  <2>1. p # << >>
    BY <1>1, <1>10, EmptySeq
  <2>2. p[1] = ImageBegin
    <3>1. 1 \in 1 .. 1 + Digits /\ 1 <= 1 /\ 1 \in 1 .. 1 + 2 * Digits /\ 1 <= 1 + Digits
      BY <1>1
    <3> QED
      BY <1>6, <1>8, <1>10, <3>1
  <2> QED
    BY <2>1, <2>2
<1>12. SubSeq(p, 2, 1 + Digits) = b
  <2> DEFINE m == 2
             n == 1 + Digits
             u == SubSeq(p, m, n)
  <2>1. \A i \in m .. n : p[i] = b[i - 1] /\ b[i - 1] \in Bytes
    <3> SUFFICES ASSUME NEW i \in m .. n PROVE p[i] = b[i - 1] /\ b[i - 1] \in Bytes
      OBVIOUS
    <3>1. i \in 1 .. 1 + Digits /\ ~(i <= 1) /\ i \in 1 .. 1 + 2 * Digits /\ i <= 1 + Digits
          /\ i - 1 \in 1 .. Digits
      BY <1>1
    <3>2. p[i] = ab[i] /\ ab[i] = b[i - 1]
      BY <1>8, <1>10, <3>1
    <3> QED
      BY <1>3, <3>1, <3>2, ElementOfSeq
  <2>2. u \in Seq(Bytes) /\ Len(u) = (IF m <= n THEN n - m + 1 ELSE 0)
        /\ \A i \in 1 .. n - m + 1 : u[i] = p[m + i - 1]
    <3>1. m \in Int /\ n \in Int /\ \A i \in m .. n : p[i] \in Bytes
      BY <1>1, <2>1
    <3> HIDE DEF m, n
    <3> QED
      BY <3>1, SubSeqProperties
  <2> HIDE DEF u
  <2>3. Len(u) = Digits
    BY <1>1, <2>2
  <2>4. \A i \in 1 .. Len(u) : u[i] = b[i]
    <3> SUFFICES ASSUME NEW i \in 1 .. Len(u) PROVE u[i] = b[i]
      OBVIOUS
    <3>1. i \in 1 .. n - m + 1 /\ m + i - 1 \in m .. n /\ (m + i - 1) - 1 = i
      BY <1>1, <2>3
    <3> QED
      BY <2>1, <2>2, <3>1
  <2> QED
    BY <1>3, <2>2, <2>3, <2>4, SeqEqual DEF u
<1>13. SubSeq(p, 2 + Digits, 1 + 2 * Digits) = c
  <2> DEFINE m == 2 + Digits
             n == 1 + 2 * Digits
             u == SubSeq(p, m, n)
  <2>1. \A i \in m .. n : p[i] = c[i - (1 + Digits)] /\ c[i - (1 + Digits)] \in Bytes
    <3> SUFFICES ASSUME NEW i \in m .. n
                 PROVE  p[i] = c[i - (1 + Digits)] /\ c[i - (1 + Digits)] \in Bytes
      OBVIOUS
    <3>1. i \in 1 .. 1 + 2 * Digits /\ ~(i <= 1 + Digits) /\ i - (1 + Digits) \in 1 .. Digits
      BY <1>1
    <3> QED
      BY <1>4, <1>10, <3>1, ElementOfSeq
  <2>2. u \in Seq(Bytes) /\ Len(u) = (IF m <= n THEN n - m + 1 ELSE 0)
        /\ \A i \in 1 .. n - m + 1 : u[i] = p[m + i - 1]
    <3>1. m \in Int /\ n \in Int /\ \A i \in m .. n : p[i] \in Bytes
      BY <1>1, <2>1
    <3> HIDE DEF m, n
    <3> QED
      BY <3>1, SubSeqProperties
  <2> HIDE DEF u
  <2>3. Len(u) = Digits /\ n - m + 1 = Digits
    BY <1>1, <2>2
  <2>4. \A i \in 1 .. Len(u) : u[i] = c[i]
    <3> SUFFICES ASSUME NEW i \in 1 .. Len(u) PROVE u[i] = c[i]
      OBVIOUS
    <3>1. i \in 1 .. n - m + 1 /\ m + i - 1 \in m .. n /\ (m + i - 1) - (1 + Digits) = i
      BY <1>1, <2>3
    <3> QED
      BY <2>1, <2>2, <3>1
  <2> QED
    BY <1>4, <2>2, <2>3, <2>4, SeqEqual DEF u
<1>14. BeginFrame(size) \in WireFrames
  <2>1. p \in {x \in Seq(Bytes) : Len(x) <= MaxFrame}
    BY <1>1, <1>10
  <2> QED
    BY <1>7, <2>1 DEF WireFrames, Kinds
<1>15. BeginFrame(size).payload = p /\ BeginFrame(size).kind = KindJson
  BY <1>7
<1> QED
  BY <1>3, <1>4, <1>10, <1>11, <1>12, <1>13, <1>14, <1>15

\* image_begin, the chunks and image_end.
LEMMA ImageFramesProperties ==
  ASSUME NEW size \in 0 .. Word - 1
  PROVE  /\ ImageFrames(size) \in Seq(WireFrames)
         /\ Len(ImageFrames(size)) = Chunks(size) + 2
         /\ ImageFrames(size)[1] = BeginFrame(size)
         /\ \A i \in 1 .. Chunks(size) : ImageFrames(size)[i + 1] = ChunkFrame(size, i - 1)
         /\ ImageFrames(size)[Chunks(size) + 2] = EndFrame
         /\ EndFrame.kind = KindJson /\ EndFrame.payload = <<ImageEnd>>
<1> DEFINE n == Chunks(size)
           s == ChunkFrames(size)
           h == <<BeginFrame(size)>>
           t == <<EndFrame>>
<1>1. n \in Nat
  BY ChunksProperties
<1>2. s \in Seq(WireFrames) /\ Len(s) = n /\ \A i \in 1 .. n : s[i] = ChunkFrame(size, i - 1)
  BY ChunkFramesProperties
<1>3. EndFrame \in WireFrames /\ EndFrame.kind = KindJson /\ EndFrame.payload = <<ImageEnd>>
  <2>1. ImageEnd \in Bytes /\ 1 <= MaxFrame
    BY Numbers DEF Bytes, ImageEnd
  <2>2. <<ImageEnd>> \in Seq(Bytes) /\ Len(<<ImageEnd>>) = 1
    BY <2>1, Singleton
  <2> QED
    BY <2>1, <2>2 DEF EndFrame, WireFrames, Kinds
<1>4. t \in Seq(WireFrames) /\ Len(t) = 1 /\ t[1] = EndFrame
  BY <1>3, Singleton
<1>5. h \in Seq(WireFrames) /\ Len(h) = 1 /\ h[1] = BeginFrame(size)
  <2>1. BeginFrame(size) \in WireFrames
    BY BeginFrameProperties
  <2> QED
    BY <2>1, Singleton
<1>6. ImageFrames(size) = (h \o s) \o t
  BY DEF ImageFrames, BeginFrame, EndFrame
<1> HIDE DEF n, s, h, t
<1> DEFINE hs == h \o s
<1>7. hs \in Seq(WireFrames) /\ Len(hs) = 1 + n
      /\ \A i \in 1 .. 1 + n : hs[i] = IF i <= 1 THEN h[i] ELSE s[i - 1]
  <2>1. hs \in Seq(WireFrames) /\ Len(hs) = Len(h) + Len(s)
        /\ \A i \in 1 .. Len(h) + Len(s) : hs[i] = IF i <= Len(h) THEN h[i] ELSE s[i - Len(h)]
    BY <1>2, <1>5, ConcatProperties
  <2> HIDE DEF hs
  <2> QED
    BY <1>2, <1>5, <2>1
<1> DEFINE f == hs \o t
<1>8. ImageFrames(size) = f
  BY <1>6
<1> HIDE DEF hs
<1>9. f \in Seq(WireFrames) /\ Len(f) = n + 2
      /\ \A i \in 1 .. n + 2 : f[i] = IF i <= 1 + n THEN hs[i] ELSE t[i - (1 + n)]
  <2>1. f \in Seq(WireFrames) /\ Len(f) = Len(hs) + Len(t)
        /\ \A i \in 1 .. Len(hs) + Len(t) : f[i] = IF i <= Len(hs) THEN hs[i] ELSE t[i - Len(hs)]
    BY <1>4, <1>7, ConcatProperties
  <2>2. (1 + n) + 1 = n + 2
    BY <1>1
  <2> HIDE DEF f
  <2> QED
    BY <1>4, <1>7, <2>1, <2>2
<1> HIDE DEF f
<1>10. f[1] = BeginFrame(size)
  <2>1. 1 \in 1 .. n + 2 /\ 1 <= 1 + n /\ 1 \in 1 .. 1 + n /\ 1 <= 1
    BY <1>1
  <2> QED
    BY <1>5, <1>7, <1>9, <2>1
<1>11. \A i \in 1 .. n : f[i + 1] = ChunkFrame(size, i - 1)
  <2> SUFFICES ASSUME NEW i \in 1 .. n PROVE f[i + 1] = ChunkFrame(size, i - 1)
    OBVIOUS
  <2>1. i + 1 \in 1 .. n + 2 /\ i + 1 <= 1 + n /\ i + 1 \in 1 .. 1 + n /\ ~(i + 1 <= 1)
        /\ (i + 1) - 1 = i
    BY <1>1
  <2>2. f[i + 1] = hs[i + 1] /\ hs[i + 1] = s[i]
    BY <1>7, <1>9, <2>1
  <2> QED
    BY <1>2, <2>2
<1>12. f[n + 2] = EndFrame
  <2>1. n + 2 \in 1 .. n + 2 /\ ~(n + 2 <= 1 + n) /\ (n + 2) - (1 + n) = 1
    BY <1>1
  <2> QED
    BY <1>4, <1>9, <2>1
<1> QED
  BY <1>3, <1>8, <1>9, <1>10, <1>11, <1>12 DEF n

-----------------------------------------------------------------------------
(* The stream *)

\* ConcatAssociative for bytes.
LEMMA Associative == \A a, b, c \in Seq(Bytes) : (a \o b) \o c = a \o (b \o c)
BY ConcatAssociative, SMTT(60)

\* What a header says is a number below Word.
LEMMA AnnouncedType ==
  ASSUME NEW h \in Seq(Bytes), Len(h) = HeaderSize
  PROVE  Announced(h) \in 0 .. Word - 1 /\ h[1] \in Bytes /\ h # NoHeader
<1>1. h # << >> /\ Len(h) = 1 + Digits /\ Digits \in Nat
  BY Numbers, EmptySeq DEF HeaderSize
<1>2. Tail(h) \in Seq(Bytes) /\ Len(Tail(h)) = Digits
  BY <1>1, HeadTailProperties
<1>3. h[1] \in Bytes
  BY <1>1, ElementOfSeq
<1> QED
  BY <1>1, <1>2, <1>3, ValueBound DEF Announced, NoHeader

\* The type invariant of the stream, and that a header read announces no more than the
\* buffer holds: both receivers have looked.
WireInv ==
  /\ TypeOKWire
  /\ header # NoHeader => Announced(header) <= MaxFrame

\* The bytes in flight, the header and what is received of its payload first.
Flow == header \o (got \o (wire \o outgoing))

\* What was received with the header, and was sent.
LEMMA InFlight ==
  ASSUME WireInv
  PROVE  /\ outgoing \in Seq(Bytes) /\ wire \in Seq(Bytes) /\ got \in Seq(Bytes)
         /\ header \in Seq(Bytes) /\ wire \o outgoing \in Seq(Bytes)
         /\ got \o (wire \o outgoing) \in Seq(Bytes) /\ Flow \in Seq(Bytes)
         /\ Len(outgoing) \in Nat /\ Len(wire) \in Nat /\ Len(got) \in Nat
<1>1. outgoing \in Seq(Bytes) /\ wire \in Seq(Bytes) /\ got \in Seq(Bytes) /\ header \in Seq(Bytes)
  BY DEF WireInv, TypeOKWire
<1>2. wire \o outgoing \in Seq(Bytes)
  BY <1>1, ConcatProperties
<1>3. got \o (wire \o outgoing) \in Seq(Bytes)
  BY <1>1, <1>2, ConcatProperties
<1>4. Flow \in Seq(Bytes)
  BY <1>1, <1>3, ConcatProperties DEF Flow
<1> QED
  BY <1>1, <1>2, <1>3, <1>4, LenProperties

\* What is handed to the kernel keeps its place in the stream.
LEMMA SentStep ==
  ASSUME WireInv, SenderWrites
  PROVE  WireInv' /\ wire' \o outgoing' = wire \o outgoing
<1>1. PICK n \in 1 .. Len(outgoing) :
        /\ Len(wire) + n <= SockBytes
        /\ wire' = wire \o SubSeq(outgoing, 1, n)
        /\ outgoing' = SubSeq(outgoing, n + 1, Len(outgoing))
        /\ UNCHANGED <<damages, header, got>>
  BY DEF SenderWrites, Unsent
<1>2. outgoing \in Seq(Bytes) /\ wire \in Seq(Bytes) /\ Len(outgoing) \in Nat /\ Len(wire) \in Nat
  BY InFlight
<1> DEFINE a == SubSeq(outgoing, 1, n)
           b == SubSeq(outgoing, n + 1, Len(outgoing))
<1>3. a \in Seq(Bytes) /\ Len(a) = n /\ b \in Seq(Bytes) /\ outgoing = a \o b
  <2>1. n \in 0 .. Len(outgoing)
    BY <1>2
  <2> QED
    BY <1>2, <2>1, Cut
<1>4. wire' = wire \o a /\ outgoing' = b
  BY <1>1
<1> HIDE DEF a, b
<1>5. wire' \in Seq(Bytes) /\ Len(wire') = Len(wire) + n
  BY <1>2, <1>3, <1>4, ConcatProperties
<1>6. wire' \o outgoing' = wire \o outgoing
  BY <1>2, <1>3, <1>4, ConcatAssociative
<1> QED
  BY <1>1, <1>3, <1>4, <1>5, <1>6 DEF WireInv, TypeOKWire

\* A sender that stops leaves the channel what it is: what it had still to send is gone.
LEMMA StopStep ==
  ASSUME WireInv, SenderStops
  PROVE  WireInv'
BY EmptySeq DEF WireInv, TypeOKWire, SenderStops

\* A damaged byte is still a byte, and the damage is counted.
LEMMA DamageStep ==
  ASSUME WireInv, ByteDamaged
  PROVE  WireInv' /\ damages' > 0
<1>1. PICK i \in DOMAIN wire : \E b \in Bytes \ {wire[i]} : wire' = [wire EXCEPT ![i] = b]
  BY DEF ByteDamaged
<1>2. PICK b \in Bytes : wire' = [wire EXCEPT ![i] = b]
  BY <1>1
<1>3. wire \in Seq(Bytes) /\ i \in 1 .. Len(wire)
  BY InFlight, LenProperties
<1>4. wire' \in Seq(Bytes) /\ Len(wire') = Len(wire)
  BY <1>2, <1>3, ExceptSeq
<1>5. MaxDamage \in Nat /\ damages \in 0 .. MaxDamage /\ damages < MaxDamage /\ damages' = damages + 1
  BY WireAssumption DEF WireInv, TypeOKWire, ByteDamaged
<1>6. damages' \in 0 .. MaxDamage /\ damages' > 0
  BY <1>5
<1> QED
  BY <1>4, <1>6 DEF WireInv, TypeOKWire, ByteDamaged

\* So does what recv() hands over, of which there is never more than asked for.
LEMMA ReceivedStep ==
  ASSUME WireInv, RecvSome
  PROVE  WireInv' /\ got' \o (wire' \o outgoing') = got \o (wire \o outgoing)
<1>1. PICK n \in 1 .. Len(wire) :
        /\ Len(got) + n <= Want
        /\ got' = got \o SubSeq(wire, 1, n)
        /\ wire' = SubSeq(wire, n + 1, Len(wire))
  BY DEF RecvSome, Joined
<1>2. UNCHANGED <<outgoing, damages, header>>
  BY DEF RecvSome
<1>3. /\ outgoing \in Seq(Bytes) /\ wire \in Seq(Bytes) /\ got \in Seq(Bytes)
      /\ Len(wire) \in Nat /\ Len(got) \in Nat
  BY InFlight
<1> DEFINE a == SubSeq(wire, 1, n)
           b == SubSeq(wire, n + 1, Len(wire))
<1>4. a \in Seq(Bytes) /\ Len(a) = n /\ b \in Seq(Bytes) /\ Len(b) = Len(wire) - n /\ wire = a \o b
  <2>1. n \in 0 .. Len(wire)
    BY <1>3
  <2> QED
    BY <1>3, <2>1, Cut
<1>5. got' = got \o a /\ wire' = b
  BY <1>1
<1> HIDE DEF a, b
<1>6. got' \in Seq(Bytes) /\ Len(got') = Len(got) + n
  BY <1>3, <1>4, <1>5, ConcatProperties
<1>7. Len(got') <= Want
  BY <1>1, <1>6
<1>8. got' \o (wire' \o outgoing') = got \o (wire \o outgoing)
  <2>1. got \in Seq(Bytes) /\ a \in Seq(Bytes) /\ b \in Seq(Bytes) /\ outgoing \in Seq(Bytes)
    BY <1>3, <1>4
  <2>2. (got \o a) \o (b \o outgoing) = got \o ((a \o b) \o outgoing)
    BY <2>1, Regrouped, SMTT(60)
  <2> QED
    BY <1>2, <1>4, <1>5, <2>2
<1>9. Len(wire') <= SockBytes
  <2>1. Len(wire) <= SockBytes /\ SockBytes \in Nat
    BY WireAssumption DEF WireInv, TypeOKWire
  <2> QED
    BY <1>3, <1>4, <1>5, <2>1
<1>10. IF header' = NoHeader THEN Len(got') <= HeaderSize
       ELSE Len(header') = HeaderSize /\ Len(got') <= MaxFrame
  <2>1. CASE header = NoHeader
    BY <1>2, <1>7, <2>1 DEF Want
  <2>2. CASE header # NoHeader
    <3>1. Len(header) = HeaderSize /\ header \in Seq(Bytes) /\ Announced(header) <= MaxFrame
      BY <2>2 DEF WireInv, TypeOKWire
    <3>2. Len(got') <= Announced(header) /\ Announced(header) \in Nat /\ MaxFrame \in Nat
          /\ Len(got') \in Nat
      BY <1>6, <1>7, <2>2, <3>1, AnnouncedType, Numbers, LenProperties DEF Want
    <3>3. Len(got') <= MaxFrame
      BY <3>1, <3>2
    <3> QED
      BY <1>2, <2>2, <3>1, <3>3
  <2> QED
    BY <2>1, <2>2
<1> QED
  BY <1>2, <1>4, <1>5, <1>6, <1>8, <1>9, <1>10 DEF WireInv, TypeOKWire

\* A header accepted for its length leaves room for its payload.
LEMMA HeaderStep ==
  ASSUME WireInv, HeaderTaken, Announced(got) <= MaxFrame
  PROVE  /\ WireInv' /\ header' = got /\ header = << >> /\ got' = << >>
         /\ Len(got) = HeaderSize /\ UNCHANGED <<outgoing, wire, damages>>
<1>1. header' = got /\ header = << >> /\ got' = << >> /\ UNCHANGED <<outgoing, wire, damages>>
      /\ Len(got) = HeaderSize
  BY DEF HeaderTaken, HeaderRead, Full, Want, NoHeader
<1>2. got \in Seq(Bytes) /\ got # NoHeader
  BY <1>1, InFlight, AnnouncedType
<1>3. << >> \in Seq(Bytes) /\ Len(<< >>) = 0 /\ 0 <= MaxFrame
  BY EmptySeq, Numbers
<1> QED
  BY <1>1, <1>2, <1>3 DEF WireInv, TypeOKWire

\* After a frame the receiver starts on the next header.
LEMMA AwaitStep ==
  ASSUME WireInv, AwaitFrame
  PROVE  /\ WireInv' /\ header' = << >> /\ got' = << >>
         /\ UNCHANGED <<outgoing, wire, damages>>
<1>1. << >> \in Seq(Bytes) /\ Len(<< >>) = 0 /\ 0 <= HeaderSize
  BY EmptySeq, Numbers
<1> QED
  BY <1>1 DEF WireInv, TypeOKWire, AwaitFrame, NoHeader

\* A new stream is all of its frames.
LEMMA StreamsStep ==
  ASSUME NEW frames \in Seq(WireFrames), Streams(frames)
  PROVE  /\ WireInv' /\ damages' = 0
         /\ Flow' = JoinedFirst(Encoded(frames))[Len(frames)]
<1>1. << >> \in Seq(Bytes) /\ Len(<< >>) = 0 /\ 0 <= HeaderSize /\ 0 <= SockBytes /\ 0 \in 0 .. MaxDamage
  BY EmptySeq, Numbers, WireAssumption
<1>2. /\ outgoing' = FlattenSeq(Encoded(frames)) /\ wire' = << >> /\ damages' = 0
      /\ header' = << >> /\ got' = << >>
  BY DEF Streams, NoHeader, Encoded
<1>3. /\ FlattenSeq(Encoded(frames)) \in Seq(Bytes)
      /\ Encoded(frames) \in Seq(Seq(Bytes)) /\ Len(Encoded(frames)) = Len(frames)
  BY StreamType
<1>4. FlattenSeq(Encoded(frames)) = JoinedFirst(Encoded(frames))[Len(frames)]
  BY <1>3, FlattenIsJoined
<1>5. Flow' = FlattenSeq(Encoded(frames))
  BY <1>2, <1>3, ConcatEmptySeq DEF Flow
<1> QED
  BY <1>1, <1>2, <1>3, <1>4, <1>5 DEF WireInv, TypeOKWire, NoHeader

\* The end of a connection is a stream of no frames.
LEMMA EndedStep ==
  ASSUME Ended
  PROVE  WireInv' /\ damages' = 0
<1>1. << >> \in Seq(WireFrames)
  BY EmptySeq
<1> QED
  BY <1>1, StreamsStep DEF Ended

\* A connection starts with nothing under way.
LEMMA WireInit == InitWire => WireInv
<1>1. << >> \in Seq(Bytes) /\ Len(<< >>) = 0 /\ 0 <= HeaderSize /\ 0 <= SockBytes /\ 0 \in 0 .. MaxDamage
  BY EmptySeq, Numbers, WireAssumption
<1> QED
  BY <1>1 DEF InitWire, WireInv, TypeOKWire, NoHeader

\* A frame that was read has the payload its header announces.
LEMMA FrameType ==
  ASSUME WireInv, FrameRead
  PROVE  /\ header \in Seq(Bytes) /\ Len(header) = HeaderSize /\ header # << >>
         /\ FrameGot.kind = header[1] /\ FrameGot.payload = got
         /\ got \in Seq(Bytes) /\ Len(got) = Announced(header) /\ Len(got) \in 0 .. MaxFrame
<1>1. header # << >> /\ Len(got) = Announced(header)
  BY DEF FrameRead, Full, Want, NoHeader
<1>2. header \in Seq(Bytes) /\ Len(header) = HeaderSize /\ got \in Seq(Bytes)
      /\ Announced(header) <= MaxFrame
  BY <1>1 DEF WireInv, TypeOKWire, NoHeader
<1>3. Announced(header) \in Nat
  BY <1>2, AnnouncedType
<1> QED
  BY <1>1, <1>2, <1>3, Numbers DEF FrameGot

\* A chunk's number is below Word, and its data are what its payload has behind it.
LEMMA ChunkType ==
  ASSUME WireInv, FrameRead, Digits <= Len(FrameGot.payload)
  PROVE  /\ Seqno \in 0 .. Word - 1
         /\ Data \in Seq(Bytes) /\ Len(Data) = Len(FrameGot.payload) - Digits
         /\ Len(Data) \in 0 .. MaxFrame - Digits
<1> DEFINE p == FrameGot.payload
<1>1. p \in Seq(Bytes) /\ Len(p) \in 0 .. MaxFrame /\ Digits \in Nat /\ MaxFrame \in Nat /\ Digits <= Len(p)
  BY FrameType, Numbers
<1>2. Seqno = Value(SubSeq(p, 1, Digits)) /\ Data = SubSeq(p, Digits + 1, Len(p))
  BY DEF Seqno, Data
<1> HIDE DEF p
<1>3. Digits \in 0 .. Len(p)
  BY <1>1
<1>4. /\ SubSeq(p, 1, Digits) \in Seq(Bytes) /\ Len(SubSeq(p, 1, Digits)) = Digits
      /\ Data \in Seq(Bytes) /\ Len(Data) = Len(p) - Digits
  BY <1>1, <1>2, <1>3, Cut
<1>5. Len(Data) \in 0 .. MaxFrame - Digits
  BY <1>1, <1>4
<1>6. Seqno \in 0 .. Word - 1
  BY <1>2, <1>4, ValueBound
<1> QED
  BY <1>4, <1>5, <1>6 DEF p

-----------------------------------------------------------------------------
(* The amplifier *)

\* What play_audio_downlink returns.
Results == {"none", "OK", "IO", "TIMEOUT", "INVALID", "NO_MEM"}

\* What was played lies in the buffer, in a format the channel has; a body or a playback
\* has an utterance with channels.
AudioInv ==
  /\ result \in Results
  /\ channel \in Formats \cup {NoFormat}
  /\ rate \in 0 .. Word - 1
  /\ channels \in 0 .. 2
  /\ last \in Utterances \cup {NoUtterance}
  /\ phase \in {"body", "play"} => last \in Utterances
  /\ written > 0 => last \in Utterances
  /\ written \in Nat
  /\ channel # NoFormat => channel = [rate |-> rate, channels |-> channels]
  /\ PlayedInItsFormat
  /\ ReadsOnlySpeech
  /\ NeverDividesByZero

-----------------------------------------------------------------------------
(* The arithmetic of the amplifier *)

\* A multiple of b above -b is none below 0.
LEMMA Multiple ==
  ASSUME NEW b \in Nat, NEW i \in Int, b > 0, b * i > 0 - b
  PROVE  i >= 0 /\ b * i >= 0
<1>1. CASE i <= 0 - 1
  <2>1. b * i <= b * (0 - 1)
    BY <1>1, SMT
  <2> QED
    BY <2>1, SMT
<1>2. CASE i >= 0
  BY <1>2, SMT
<1> QED
  BY <1>1, <1>2, SMT

\* The announced numbers are numbers, below 2^32 each.
LEMMA UtteranceTypes ==
  ASSUME NEW u \in Utterances
  PROVE  /\ u.size \in Nat /\ u.rate \in 0 .. Word - 1 /\ u.channels \in Nat
         /\ Byte \in Nat /\ Byte > 2 /\ Word \in Nat /\ Word > 0
<1>1. Byte \in Nat /\ Byte > 2 /\ Word \in Nat /\ Word > 0
  BY WidthsAssumption
<1>2. u.size \in Sizes /\ u.rate \in Rates /\ u.channels \in Channels
  BY DEF Utterances
<1>3. u.size \in 0 .. Word - 1 /\ u.rate \in 0 .. Word - 1 /\ u.channels \in 0 .. Word - 1
  BY <1>2, AudioAssumption
<1> QED
  BY <1>1, <1>3

\* Cutting 2 * n to 32 bits leaves at least twice what the cast to 8 bits leaves of n.
LEMMA CastBelowWrap ==
  ASSUME NEW n \in Nat
  PROVE  /\ n % Byte \in Nat /\ (2 * n) % Word \in Nat
         /\ 2 * (n % Byte) <= (2 * n) % Word
<1> DEFINE two == 2 * Byte
           m == Word \div two
           q == n \div Byte
           r == n % Byte
           k == (2 * n) \div Word
           x == (2 * n) % Word
<1>1. Byte \in Nat /\ Byte > 0 /\ two \in Nat /\ two > 0 /\ Word \in Nat /\ Word > 0
  BY WidthsAssumption
<1>2. m \in Nat /\ Word = two * m
  BY <1>1, WidthsAssumption, Remainder
<1>3. q \in Nat /\ r \in Nat /\ r < Byte /\ n = Byte * q + r
  BY <1>1, Remainder
<1>4. k \in Nat /\ x \in Nat /\ 2 * n = Word * k + x
  BY <1>1, Remainder
<1> HIDE DEF m, q, r, k, x
<1>5. 2 * n = two * q + 2 * r
  BY <1>1, <1>3
<1>6. Word * k = two * (m * k)
  BY <1>1, <1>2, <1>4
<1>7. q - m * k \in Int /\ two * (q - m * k) = two * q - two * (m * k)
  BY <1>1, <1>2, <1>3, <1>4
<1>8. x = two * (q - m * k) + 2 * r
  <2> HIDE DEF two
  <2>1. two * q \in Int /\ two * (m * k) \in Int
    BY <1>1, <1>2, <1>3, <1>4
  <2> QED
    BY <1>3, <1>4, <1>5, <1>6, <1>7, <2>1
<1>9. two * (q - m * k) > 0 - two
  BY <1>1, <1>3, <1>4, <1>7, <1>8
<1>10. two * (q - m * k) >= 0
  BY <1>1, <1>7, <1>9, Multiple
<1>11. x >= 2 * r
  <2> HIDE DEF two
  <2>1. two * (q - m * k) \in Int
    BY <1>1, <1>7
  <2> QED
    BY <1>3, <1>4, <1>8, <1>10, <2>1
<1> QED
  BY <1>3, <1>4, <1>11 DEF r, x

\* What fits a buffer when cut into pieces of d fits it in pieces of no more than d.
LEMMA PiecesFit ==
  ASSUME NEW size \in Nat, NEW d \in Nat, NEW piece \in Nat, d > 0, piece <= d
  PROVE  (size \div d) * piece \in Nat /\ (size \div d) * piece <= size
<1> DEFINE f == size \div d
<1>1. f \in Nat /\ d * f <= size /\ d * f \in Nat
  BY Remainder
<1> HIDE DEF f
<1>2. f * piece \in Nat /\ f * piece <= d * f
  BY <1>1
<1> QED
  BY <1>1, <1>2 DEF f

\* The number of bytes written is no more than the size announced, and the divisor is not
\* zero, whenever sd_audio_init has accepted the count.
LEMMA AcceptedFits ==
  ASSUME NEW u \in Utterances, Accepted(u), NEW outcome \in Played(u)
  PROVE  /\ outcome[1] \in {"OK", "IO"}
         /\ outcome[2] \in Nat /\ outcome[2] <= u.size
<1> DEFINE r == u.channels % Byte
           d == (2 * u.channels) % Word
           bytes == (u.size \div d) * r * 2
<1>1. u.size \in Nat /\ u.channels \in Nat
  BY UtteranceTypes
<1>2. r \in 1 .. 2
  BY DEF Accepted, Wanted
<1>3. d \in Nat /\ 2 * r <= d
  BY <1>1, CastBelowWrap
<1> HIDE DEF r, d
<1>4. /\ (u.size \div d) * (2 * r) \in Nat
      /\ (u.size \div d) * (2 * r) <= u.size
      /\ u.size \div d \in Nat
  BY <1>1, <1>2, <1>3, PiecesFit, Remainder
<1>5. bytes = (u.size \div d) * (2 * r)
  BY <1>2, <1>4
<1>6. bytes \in Nat /\ bytes <= u.size
  BY <1>4, <1>5
<1>7. outcome \in {<<"OK", bytes>>} \cup (IF bytes = 0 THEN {} ELSE {"IO"} \X {0, bytes - 1})
  BY <1>2, <1>3 DEF Played, Frames, Divides, Wanted, r, d
<1> HIDE DEF bytes
<1>8. CASE outcome = <<"OK", bytes>>
  BY <1>6, <1>8
<1>9. CASE bytes # 0 /\ outcome \in {"IO"} \X {0, bytes - 1}
  BY <1>1, <1>6, <1>9
<1> QED
  BY <1>7, <1>8, <1>9

-----------------------------------------------------------------------------
(* The steps of the amplifier *)

\* An utterance refused at once, or for its format, leaves the channel as it was.
LEMMA RefusalStep ==
  ASSUME AudioInv, NEW u \in Utterances, phase' = "idle",
         Rejected(u) \/ InitRefuses(u)
  PROVE  AudioInv'
BY DEF AudioInv, Results, Rejected, InitRefuses, Ends, PlayedInItsFormat, ReadsOnlySpeech,
       NeverDividesByZero

\* So does one whose transfer begins, and one whose transfer fails.
LEMMA TransferStep ==
  ASSUME AudioInv, NEW u \in Utterances,
         last' = u, written' = 0, result' \in Results,
         UNCHANGED <<channel, rate, channels>>
  PROVE  AudioInv'
BY DEF AudioInv, Results, PlayedInItsFormat, ReadsOnlySpeech, NeverDividesByZero

\* A channel that could not be set up is none.
LEMMA LostChannelStep ==
  ASSUME AudioInv, NEW u \in Utterances, phase' = "idle", InitFails(u)
  PROVE  AudioInv'
BY DEF AudioInv, Results, InitFails, LoseChannel, Ends, PlayedInItsFormat, ReadsOnlySpeech,
       NeverDividesByZero

\* Kept or rebuilt, the channel runs in the format wanted, and what is played fits.
LEMMA PlayingStep ==
  ASSUME AudioInv, NEW u \in Utterances, phase' = "idle", Plays(u)
  PROVE  AudioInv'
<1>1. Accepted(u) /\ (KeepChannel(u) \/ RebuildChannel(u))
  BY DEF Plays
<1>2. PICK outcome \in Played(u) : Ends(u, outcome[1], outcome[2])
  BY DEF Plays
<1>3. outcome[1] \in {"OK", "IO"} /\ outcome[2] \in Nat /\ outcome[2] <= u.size
  BY <1>1, AcceptedFits
<1>4. last' = u /\ written' \in Nat /\ written' <= u.size /\ result' \in Results
  BY <1>2, <1>3 DEF Ends, Results
<1>5. Wanted(u) \in Formats /\ u.rate \in 0 .. Word - 1 /\ Wanted(u).channels \in 0 .. 2
  BY <1>1, UtteranceTypes DEF Accepted, Wanted, Formats
<1>6. /\ channel' = Wanted(u)
      /\ rate' = u.rate
      /\ channels' = Wanted(u).channels
  <2>1. CASE KeepChannel(u)
    BY <2>1 DEF AudioInv, KeepChannel, SameFormat, Wanted
  <2>2. CASE RebuildChannel(u)
    BY <2>2 DEF RebuildChannel
  <2> QED
    BY <1>1, <2>1, <2>2
<1>7. channel' = [rate |-> last'.rate, channels |-> last'.channels % Byte]
  BY <1>4, <1>6 DEF Wanted
<1>8. channel' = [rate |-> rate', channels |-> channels']
  BY <1>6 DEF Wanted
<1> QED
  BY <1>4, <1>5, <1>6, <1>7, <1>8
  DEF AudioInv, Results, PlayedInItsFormat, ReadsOnlySpeech, NeverDividesByZero

\* Bytes that move in either direction concern no utterance but the one being received.
LEMMA StreamStep ==
  ASSUME AudioInv, UNCHANGED audioVars,
         phase' = phase \/ (phase = "body" /\ phase' = "play")
  PROVE  AudioInv'
BY DEF AudioInv, audioVars, PlayedInItsFormat, ReadsOnlySpeech, NeverDividesByZero

\* Every step of a body keeps the invariant.
LEMMA PlaybackStep ==
  ASSUME AudioInv, DownlinkStep
  PROVE  AudioInv'
<1>1. phase \in {"body", "play"} => last \in Utterances
  BY DEF AudioInv
<1>2. CASE Receive
  BY <1>2, StreamStep DEF Receive, bodyVars
<1>3. CASE ReceiveFails
  <2>1. PICK code \in {"TIMEOUT", "IO", "NO_MEM"} : phase = "body" /\ BodyFails(code)
    BY <1>3 DEF ReceiveFails
  <2> QED
    BY <1>1, <2>1, TransferStep DEF BodyFails, Ends, Results
<1>4. CASE TakeChunk
  BY <1>4, StreamStep DEF TakeChunk
<1>5. CASE RefuseChunk \/ RefuseEnd
  <2>1. phase = "body" /\ BodyFails("IO")
    BY <1>5 DEF RefuseChunk, RefuseEnd
  <2> QED
    BY <1>1, <2>1, TransferStep DEF BodyFails, Ends, Results
<1>6. CASE TakeEnd
  BY <1>6, StreamStep DEF TakeEnd
<1>7. CASE Play
  <2>1. phase' = "idle" /\ last \in Utterances
    BY <1>1, <1>7 DEF Play
  <2>2. CASE InitRefuses(last)
    BY <2>1, <2>2, RefusalStep
  <2>3. CASE InitFails(last)
    BY <2>1, <2>3, LostChannelStep
  <2>4. CASE Plays(last)
    BY <2>1, <2>4, PlayingStep
  <2> QED
    BY <1>7, <2>2, <2>3, <2>4 DEF Play
<1> QED
  BY <1>2, <1>3, <1>4, <1>5, <1>6, <1>7 DEF DownlinkStep

\* No audio_begin either breaks it, of whatever size and format.
LEMMA ReplyStep ==
  ASSUME AudioInv, Reply
  PROVE  AudioInv'
<1>1. PICK u \in Utterances : Announce(u) \/ Refuse(u)
  BY DEF Reply
<1>2. CASE Announce(u)
  BY <1>2, TransferStep DEF Announce, Results
<1>3. CASE Refuse(u)
  <2>1. phase' = "idle" /\ Rejected(u)
    BY <1>3 DEF Refuse, bodyVars
  <2> QED
    BY <2>1, RefusalStep
<1> QED
  BY <1>1, <1>2, <1>3

-----------------------------------------------------------------------------
(* The amplifier, always *)

\* The inductive invariant holds of every transfer, reply and playback.
THEOREM AudioInvariance == Spec => []AudioInv
<1>1. Init => AudioInv
  <2> SUFFICES ASSUME Init PROVE AudioInv
    OBVIOUS
  <2>1. Word \in Nat /\ Word > 0
    BY WidthsAssumption
  <2> QED
    BY <2>1 DEF Init, InitAudio, InitBody, AudioInv, Results, PlayedInItsFormat, ReadsOnlySpeech,
                NeverDividesByZero
<1>2. AudioInv /\ [Next]_vars => AudioInv'
  <2> SUFFICES ASSUME AudioInv, [Next]_vars PROVE AudioInv'
    OBVIOUS
  <2>1. CASE Upload \/ Stream
    BY <2>1, StreamStep DEF Upload, Stream, bodyVars
  <2>2. CASE Reply
    BY <2>2, ReplyStep
  <2>3. CASE Playback
    BY <2>3, PlaybackStep DEF Playback
  <2>4. CASE UNCHANGED vars
    BY <2>4, StreamStep DEF vars, bodyVars
  <2> QED
    BY <2>1, <2>2, <2>3, <2>4 DEF Next
<1> QED
  BY <1>1, <1>2, PTL DEF Spec

\* Speech is played at the rate and in the channels announced with it, however the cast
\* to uint8_t and the channel kept from earlier turns interact.
THEOREM FormatKept == Spec => []PlayedInItsFormat
<1>1. AudioInv => PlayedInItsFormat
  BY DEF AudioInv
<1> QED
  BY <1>1, AudioInvariance, PTL

\* The amplifier is never given bytes from behind the buffer, for no announced size and
\* count of channels and in no width: CastBelowWrap and PiecesFit say why.
THEOREM SpeechOnly == Spec => []ReadsOnlySpeech
<1>1. AudioInv => ReadsOnlySpeech
  BY DEF AudioInv
<1> QED
  BY <1>1, AudioInvariance, PTL

\* The divisor that wraps to zero belongs to a count sd_audio_init has refused.
THEOREM DivisorNotZero == Spec => []NeverDividesByZero
<1>1. AudioInv => NeverDividesByZero
  BY DEF AudioInv
<1> QED
  BY <1>1, AudioInvariance, PTL

-----------------------------------------------------------------------------
(* The types of the two ends *)

\* What the reassembler is, field by field.
UpInv ==
  /\ TypeOKUp
  /\ reasm = [begun |-> reasm.begun, size |-> reasm.size, chunks |-> reasm.chunks,
              data |-> reasm.data]

\* What the glasses have of a speech: no more chunks than it has, in a buffer of its size.
BodyInv ==
  /\ phase \in {"idle", "body", "play"}
  /\ taken \in 0 .. Word
  /\ total \in 0 .. Word - 1
  /\ \A b \in DOMAIN pcm : pcm[b] \in Bytes \cup {Unset}
  /\ phase = "body" => taken <= Chunks(last.size)
  /\ WritesInBuffer

\* Sizes are below Word.
LEMMA Sized ==
  /\ \A size \in ImageSizes : size \in 0 .. Word - 1
  /\ \A u \in Utterances : u.size \in 0 .. Word - 1 /\ u.size \in Sizes
BY UplinkAssumption, AudioAssumption DEF Utterances

\* The reassembler starts without a transfer.
LEMMA UpInit == InitUp => UpInv
<1> SUFFICES ASSUME InitUp PROVE UpInv
  OBVIOUS
<1>1. 0 \in 0 .. Word - 1
  BY Numbers
<1>2. DOMAIN << >> = {}
  OBVIOUS
<1> QED
  BY <1>1, <1>2 DEF InitUp, UpInv, TypeOKUp, NoTransfer

\* A reassembler dropped is as it was.
LEMMA UpEnds ==
  ASSUME upload' \in {"none", "taken"}, EndUpload(upload')
  PROVE  UpInv'
<1>1. 0 \in 0 .. Word - 1
  BY Numbers
<1>2. DOMAIN << >> = {}
  OBVIOUS
<1> QED
  BY <1>1, <1>2 DEF EndUpload, UpInv, TypeOKUp, NoTransfer

\* The part of a sequence from m to n.
LEMMA Part ==
  ASSUME NEW S, NEW s \in Seq(S), NEW m \in 1 .. Len(s), NEW n \in m .. Len(s)
  PROVE  /\ SubSeq(s, m, n) \in Seq(S) /\ Len(SubSeq(s, m, n)) = n - m + 1
         /\ \A i \in 1 .. n - m + 1 : SubSeq(s, m, n)[i] = s[m + i - 1]
<1>1. m \in Int /\ n \in Int /\ m <= n
  BY LenProperties
<1>2. \A i \in m .. n : s[i] \in S
  BY <1>1, ElementOfSeq, LenProperties
<1> QED
  BY <1>1, <1>2, SubSeqProperties

\* A chunk is stored under its number.
LEMMA StoredStep ==
  ASSUME UpInv, reasm.begun, NEW seq \in 0 .. Word - 1,
         NEW data \in Seq(Bytes), Len(data) <= MaxFrame - Digits,
         UNCHANGED <<upload, imageSize>>,
         reasm' = [reasm EXCEPT !.data = Stored(@, seq, data)]
  PROVE  /\ UpInv'
         /\ reasm'.begun /\ reasm'.size = reasm.size /\ reasm'.chunks = reasm.chunks
         /\ DOMAIN reasm'.data = DOMAIN reasm.data \cup {seq}
         /\ reasm'.data[seq] = data
         /\ \A k \in DOMAIN reasm.data : k # seq => reasm'.data[k] = reasm.data[k]
<1> DEFINE d == Stored(reasm.data, seq, data)
<1>1. /\ DOMAIN d = DOMAIN reasm.data \cup {seq}
      /\ d[seq] = data
      /\ \A k \in DOMAIN reasm.data : k # seq => d[k] = reasm.data[k]
  BY DEF Stored
<1> HIDE DEF d
<1>2. reasm' = [begun |-> TRUE, size |-> reasm.size, chunks |-> reasm.chunks, data |-> d]
  <2>1. reasm.begun = TRUE
    BY DEF UpInv, TypeOKUp
  <2> QED
    BY <2>1 DEF UpInv, d
<1>3. /\ reasm'.begun = TRUE /\ reasm'.size = reasm.size /\ reasm'.chunks = reasm.chunks
      /\ reasm'.data = d
  BY <1>2
<1>4. UpInv'
  BY <1>1, <1>2, <1>3 DEF UpInv, TypeOKUp
<1> QED
  BY <1>1, <1>3, <1>4

\* Every step of the phone's end keeps the types.
LEMMA UplinkType ==
  ASSUME WireInv, UpInv, UplinkStep
  PROVE  UpInv' /\ WireInv'
<1>1. ASSUME NEW size \in ImageSizes, SendImage(size)
      PROVE  UpInv' /\ WireInv'
  <2>1. ImageFrames(size) \in Seq(WireFrames)
    BY Sized, ImageFramesProperties
  <2>2. WireInv'
    BY <1>1, <2>1, StreamsStep DEF SendImage
  <2>3. UpInv'
    BY <1>1 DEF SendImage, UpInv, TypeOKUp
  <2> QED
    BY <2>2, <2>3
<1>2. CASE PhoneReceives
  <2>1. UpInv'
    BY <1>2 DEF PhoneReceives, upVars, UpInv, TypeOKUp
  <2>2. WireInv'
    BY <1>2, ReceivedStep, HeaderStep DEF PhoneReceives
  <2> QED
    BY <2>1, <2>2
<1>3. CASE PhoneReceiveFails \/ FrameRefused
  <2>1. EndUpload("none") /\ upload' = "none"
    BY <1>3 DEF PhoneReceiveFails, FrameRefused, EndUpload
  <2> QED
    BY <2>1, UpEnds, EndedStep DEF EndUpload
<1>4. CASE ImageTaken
  <2>1. EndUpload("taken") /\ upload' = "taken"
    BY <1>4 DEF ImageTaken, EndUpload
  <2> QED
    BY <2>1, UpEnds, EndedStep DEF EndUpload
<1>5. CASE FramePassedOver
  <2>1. UpInv'
    BY <1>5 DEF FramePassedOver, upVars, UpInv, TypeOKUp
  <2> QED
    BY <1>5, <2>1, AwaitStep DEF FramePassedOver
<1>6. CASE BeginTaken
  <2> DEFINE p == FrameGot.payload
             size == Value(SubSeq(p, 2, 1 + Digits))
             chunks == Value(SubSeq(p, 2 + Digits, 1 + 2 * Digits))
  <2>1. p \in Seq(Bytes) /\ Len(p) = 1 + 2 * Digits /\ Digits \in Nat /\ Digits > 0
    BY <1>6, FrameType, Numbers DEF BeginTaken, PhoneFrame, IsBegin, IsControl
  <2> HIDE DEF p
  <2>2. size \in 0 .. Word - 1
    <3> DEFINE m == 2
               n == 1 + Digits
    <3>1. m \in 1 .. Len(p) /\ n \in m .. Len(p) /\ n - m + 1 = Digits
      BY <2>1
    <3> HIDE DEF m, n
    <3>2. SubSeq(p, m, n) \in Seq(Bytes) /\ Len(SubSeq(p, m, n)) = Digits
      BY <2>1, <3>1, Part
    <3>3. Value(SubSeq(p, m, n)) \in 0 .. Word - 1
      BY <3>2, ValueBound
    <3> QED
      BY <3>3 DEF m, n
  <2>3. chunks \in 0 .. Word - 1
    <3> DEFINE m == 2 + Digits
               n == 1 + 2 * Digits
    <3>1. m \in 1 .. Len(p) /\ n \in m .. Len(p) /\ n - m + 1 = Digits
      BY <2>1
    <3> HIDE DEF m, n
    <3>2. SubSeq(p, m, n) \in Seq(Bytes) /\ Len(SubSeq(p, m, n)) = Digits
      BY <2>1, <3>1, Part
    <3>3. Value(SubSeq(p, m, n)) \in 0 .. Word - 1
      BY <3>2, ValueBound
    <3> QED
      BY <3>3 DEF m, n
  <2>4. reasm' = [begun |-> TRUE, size |-> size, chunks |-> chunks, data |-> << >>]
    BY <1>6 DEF BeginTaken, p
  <2> HIDE DEF size, chunks
  <2>5. UNCHANGED <<upload, imageSize>> /\ DOMAIN << >> = {}
    BY <1>6 DEF BeginTaken
  <2>6. UpInv'
    BY <2>2, <2>3, <2>4, <2>5 DEF UpInv, TypeOKUp
  <2> QED
    BY <1>6, <2>6, AwaitStep DEF BeginTaken
<1>7. CASE ChunkAdded
  <2>1. /\ FrameRead /\ reasm.begun /\ Digits <= Len(FrameGot.payload)
        /\ UNCHANGED <<upload, imageSize>>
        /\ reasm' = [reasm EXCEPT !.data = Stored(@, Seqno, Data)]
    <3>1. FrameRead /\ Len(FrameGot.payload) \in Nat /\ Digits \in Nat
      BY <1>7, FrameType, Numbers DEF ChunkAdded, PhoneFrame
    <3> QED
      BY <1>7, <3>1 DEF ChunkAdded, Short
  <2>2. Seqno \in 0 .. Word - 1 /\ Data \in Seq(Bytes) /\ Len(Data) <= MaxFrame - Digits
    BY <2>1, ChunkType
  <2>3. UpInv'
    BY <2>1, <2>2, StoredStep
  <2> QED
    BY <1>7, <2>3, AwaitStep DEF ChunkAdded
<1> QED
  BY <1>1, <1>2, <1>3, <1>4, <1>5, <1>6, <1>7 DEF UplinkStep

\* The glasses start without a buffer.
LEMMA BodyInit == InitBody => BodyInv
<1>1. 0 \in 0 .. Word /\ 0 \in 0 .. Word - 1 /\ DOMAIN << >> = {}
  BY Numbers
<1> QED
  BY <1>1 DEF InitBody, BodyInv, WritesInBuffer, NoBuffer

\* A buffer freed.
LEMMA BodyEnds ==
  ASSUME phase' \in {"idle", "play"}, Freed \/ (BodyInv /\ UNCHANGED <<taken, total, pcm>>)
  PROVE  BodyInv'
<1>1. 0 \in 0 .. Word /\ 0 \in 0 .. Word - 1 /\ DOMAIN << >> = {}
  BY Numbers
<1> QED
  BY <1>1 DEF BodyInv, WritesInBuffer, NoBuffer, Freed

\* A chunk that fits the speech by a sum that never wraps is copied to where it fits by one
\* that may.
LEMMA ChunkFits ==
  ASSUME WireInv, FrameRead, Digits <= Len(FrameGot.payload),
         NEW size \in 0 .. Word - 1, Seqno * Chunk + Len(Data) <= size
  PROVE  LET at == (Seqno * Chunk) % Word IN
         /\ at = Seqno * Chunk /\ at \in Nat
         /\ Len(Data) \in Nat /\ Data \in Seq(Bytes)
         /\ at .. at + Len(Data) - 1 \subseteq 0 .. size - 1
<1>1. Seqno \in Nat /\ Data \in Seq(Bytes) /\ Len(Data) \in Nat
  BY ChunkType, LenProperties
<1> DEFINE off == Seqno * Chunk
<1>2. off \in Nat /\ Word \in Nat /\ Word > 0
  BY <1>1, Numbers
<1>3. off + Len(Data) <= size
  OBVIOUS
<1> HIDE DEF off
<1>4. off < Word
  BY <1>1, <1>2, <1>3
<1>5. off % Word = off
  BY <1>2, <1>4
<1>6. off .. off + Len(Data) - 1 \subseteq 0 .. size - 1
  BY <1>1, <1>2, <1>3
<1>7. (Seqno * Chunk) % Word = off
  BY <1>5 DEF off
<1> QED
  BY <1>1, <1>2, <1>6, <1>7 DEF off

\* Every step of the glasses' end keeps the types, and the buffer its size.
LEMMA DownlinkType ==
  ASSUME WireInv, BodyInv, AudioInv, DownlinkStep
  PROVE  BodyInv' /\ WireInv'
<1>1. CASE Receive
  <2>1. WireInv'
    <3>1. CASE RecvSome
      BY <3>1, ReceivedStep
    <3>2. CASE HeaderTaken /\ Sound(got) /\ FitsFrame(got)
      BY <3>2, HeaderStep DEF Sound
    <3> QED
      BY <1>1, <3>1, <3>2 DEF Receive
  <2>2. BodyInv'
    BY <1>1 DEF Receive, audioVars, bodyVars, BodyInv, WritesInBuffer
  <2> QED
    BY <2>1, <2>2
<1>2. CASE ReceiveFails \/ RefuseChunk \/ RefuseEnd
  <2>1. PICK code \in {"TIMEOUT", "IO", "NO_MEM"} : BodyFails(code)
    BY <1>2 DEF ReceiveFails, RefuseChunk, RefuseEnd
  <2> QED
    BY <2>1, BodyEnds, EndedStep DEF BodyFails
<1>3. CASE TakeEnd
  BY <1>3, BodyEnds, EndedStep DEF TakeEnd
<1>4. CASE Play
  <2>1. phase' = "idle" /\ Freed /\ UNCHANGED wireVars
    BY <1>4 DEF Play
  <2>2. WireInv'
    BY <2>1 DEF wireVars, WireInv, TypeOKWire, NoHeader, Announced
  <2> QED
    BY <2>1, <2>2, BodyEnds
<1>5. CASE TakeChunk
  <2> DEFINE at == (Seqno * Chunk) % Word
             here == at .. at + Len(Data) - 1
             size == last.size
  <2>1. /\ phase = "body" /\ FrameRead /\ taken < Chunks(size)
        /\ Digits <= Len(FrameGot.payload) /\ Seqno * Chunk + Len(Data) <= size
        /\ pcm' = [b \in DOMAIN pcm \cup here |-> IF b \in here THEN Data[b - at + 1] ELSE pcm[b]]
        /\ total' = (total + Len(Data)) % Word /\ taken' = taken + 1
        /\ phase' = "body" /\ last' = last
    <3>1. FrameRead /\ Len(FrameGot.payload) \in Nat /\ Digits \in Nat
      BY <1>5, FrameType, Numbers DEF TakeChunk
    <3> QED
      BY <1>5, <3>1 DEF TakeChunk, MoreChunks, IsChunk, Fits, Copied, CopiedTo, audioVars
  <2>2. size \in 0 .. Word - 1 /\ Chunks(size) \in 1 .. Word - 1
    BY <2>1, Sized, ChunksProperties DEF AudioInv
  <2>3. /\ at \in Nat /\ Len(Data) \in Nat /\ Data \in Seq(Bytes)
        /\ here \subseteq 0 .. size - 1
    <3> HIDE DEF size
    <3> QED
      BY <2>1, <2>2, ChunkFits
  <2>4. DOMAIN pcm = 0 .. size - 1
    BY <2>1 DEF BodyInv, WritesInBuffer
  <2> HIDE DEF at, size
  <2>5. DOMAIN pcm' = 0 .. size - 1
    BY <2>1, <2>3, <2>4
  <2>6. ASSUME NEW b \in DOMAIN pcm'
        PROVE  pcm'[b] \in Bytes \cup {Unset}
    <3>1. CASE b \in here
      <4>1. b - at + 1 \in 1 .. Len(Data)
        BY <2>3, <3>1
      <4>2. Data[b - at + 1] \in Bytes
        BY <2>3, <4>1, ElementOfSeq
      <4> QED
        BY <2>1, <3>1, <4>2
    <3>2. CASE b \notin here
      BY <2>1, <3>2 DEF BodyInv
    <3> QED
      BY <3>1, <3>2
  <2>7. taken' \in 0 .. Word /\ taken' <= Chunks(size)
    <3>1. taken \in Nat /\ Word \in Nat
      BY Numbers DEF BodyInv
    <3> QED
      BY <2>1, <2>2, <3>1
  <2>8. total' \in 0 .. Word - 1
    <3>1. total \in Nat /\ Word \in Nat /\ Word > 0
      BY Numbers DEF BodyInv
    <3>2. total + Len(Data) \in Nat
      BY <2>3, <3>1
    <3> QED
      BY <2>1, <3>1, <3>2, Remainder
  <2>9. BodyInv'
    BY <2>1, <2>5, <2>6, <2>7, <2>8 DEF BodyInv, WritesInBuffer, size
  <2> QED
    BY <1>5, <2>9, AwaitStep DEF TakeChunk
<1> QED
  BY <1>1, <1>2, <1>3, <1>4, <1>5 DEF DownlinkStep

\* So does the announcement of a speech.
LEMMA ReplyType ==
  ASSUME WireInv, BodyInv, Reply
  PROVE  BodyInv' /\ WireInv'
<1>1. PICK u \in Utterances : Announce(u) \/ Refuse(u)
  BY DEF Reply
<1>2. u.size \in 0 .. Word - 1
  BY Sized
<1>3. CASE Announce(u)
  <2>1. AudioBody(u.size) \in Seq(WireFrames)
    BY <1>2, AudioBodyProperties
  <2>2. WireInv'
    BY <1>3, <2>1, StreamsStep DEF Announce
  <2>3. 0 \in 0 .. Word /\ 0 \in 0 .. Word - 1 /\ 0 <= Chunks(u.size)
    BY <1>2, Numbers, ChunksProperties
  <2>4. BodyInv'
    BY <1>3, <2>3 DEF Announce, BodyInv, WritesInBuffer
  <2> QED
    BY <2>2, <2>4
<1>4. CASE Refuse(u)
  <2>1. WireInv'
    BY <1>4 DEF Refuse, wireVars, WireInv, TypeOKWire, NoHeader, Announced
  <2>2. phase = "idle"
    BY <1>4 DEF Refuse
  <2>3. BodyInv'
    BY <1>4, <2>2 DEF Refuse, bodyVars, BodyInv, WritesInBuffer
  <2> QED
    BY <2>1, <2>3
<1> QED
  BY <1>1, <1>3, <1>4

\* The three parts of the type invariant, together inductive with that of the channel.
Typed == WireInv /\ UpInv /\ BodyInv /\ AudioInv

\* The inductive invariant of the types: of the stream, the reassembler, the body of a speech
\* and the amplifier.
THEOREM TypeInvariance == Spec => []Typed
<1>1. Init => WireInv /\ UpInv /\ BodyInv
  BY WireInit, UpInit, BodyInit DEF Init
<1>2. WireInv /\ UpInv /\ BodyInv /\ AudioInv /\ [Next]_vars => (WireInv /\ UpInv /\ BodyInv)'
  <2> SUFFICES ASSUME WireInv, UpInv, BodyInv, AudioInv, [Next]_vars
               PROVE  WireInv' /\ UpInv' /\ BodyInv'
    OBVIOUS
  <2>1. ASSUME UNCHANGED upVars
        PROVE  UpInv'
    BY <2>1 DEF upVars, UpInv, TypeOKUp
  <2>2. ASSUME UNCHANGED <<audioVars, bodyVars>>
        PROVE  BodyInv'
    BY <2>2 DEF audioVars, bodyVars, BodyInv, WritesInBuffer
  <2>3. CASE Upload
    BY <2>2, <2>3, UplinkType DEF Upload
  <2>4. CASE Reply
    BY <2>1, <2>4, ReplyType DEF Reply
  <2>5. CASE Playback
    BY <2>1, <2>5, DownlinkType DEF Playback
  <2>6. CASE Stream
    BY <2>1, <2>2, <2>6, SentStep, StopStep, DamageStep DEF Stream
  <2>7. CASE UNCHANGED vars
    <3>1. WireInv'
      BY <2>7 DEF vars, wireVars, WireInv, TypeOKWire, NoHeader, Announced
    <3> QED
      BY <2>1, <2>2, <2>7, <3>1 DEF vars
  <2> QED
    BY <2>3, <2>4, <2>5, <2>6, <2>7 DEF Next
<1> QED
  BY <1>1, <1>2, AudioInvariance, PTL DEF Spec, Typed

\* Whatever is damaged and wherever a side stops, the buffers, counters and numbers of both
\* ends stay of their types: what has been read fits MaxFrame, no sequence number and no
\* amount of samples exceeds a uint32_t.
THEOREM TypesKept == Spec => []TypeOK
<1>1. Typed => TypeOK
  <2> SUFFICES ASSUME Typed PROVE TypeOK
    OBVIOUS
  <2>1. written \in 0 .. Word - 1
    <3>1. CASE written > 0
      <4>1. last.size \in 0 .. Word - 1 /\ written <= last.size /\ written \in Nat
        BY <3>1, Sized DEF Typed, AudioInv, ReadsOnlySpeech
      <4> QED
        BY <4>1, Numbers
    <3>2. CASE ~(written > 0)
      <4>1. written \in Nat
        BY DEF Typed, AudioInv
      <4> QED
        BY <3>2, <4>1, Numbers
    <3> QED
      BY <3>1, <3>2
  <2>2. TypeOKAudio
    BY <2>1 DEF Typed, AudioInv, Results, TypeOKAudio
  <2> QED
    BY <2>2 DEF Typed, WireInv, UpInv, BodyInv, TypeOK, TypeOKBody
<1> QED
  BY <1>1, TypeInvariance, PTL

\* sd_msg_recv_audio_body writes within what it has allocated, for every width of the integers,
\* chunk size and announced size, and whatever sequence number a damaged chunk carries.
THEOREM BufferKept == Spec => []WritesInBuffer
<1>1. Typed => WritesInBuffer
  BY DEF Typed, BodyInv
<1> QED
  BY <1>1, TypeInvariance, PTL

-----------------------------------------------------------------------------
(* An undamaged stream *)

\* The bytes of the first k frames.
Sent(frames, k) == JoinedFirst(Encoded(frames))[k]

\* The first k frames are consumed, and what is in flight comes behind them: some of the rest.
Flowing(frames, k) == Begins(Sent(frames, k) \o Flow, Sent(frames, Len(frames)))

\* So it is after the step.
FlowsOn(frames, k) == Begins(Sent(frames, k) \o Flow', Sent(frames, Len(frames)))

\* What frames a stream is made of.
LEMMA SentProperties ==
  ASSUME NEW frames \in Seq(WireFrames)
  PROVE  /\ Len(frames) \in Nat
         /\ Sent(frames, 0) = << >>
         /\ \A k \in 0 .. Len(frames) :
              Sent(frames, k) \in Seq(Bytes) /\ Begins(Sent(frames, k), Sent(frames, Len(frames)))
         /\ \A k \in 1 .. Len(frames) : Sent(frames, k) = Sent(frames, k - 1) \o Encode(frames[k])
         /\ \A k \in 1 .. Len(frames) : frames[k] \in WireFrames
<1> DEFINE e == Encoded(frames)
<1>1. e \in Seq(Seq(Bytes)) /\ Len(e) = Len(frames) /\ \A i \in 1 .. Len(frames) : e[i] = Encode(frames[i])
  BY StreamType
<1>2. Len(frames) \in Nat /\ \A k \in 1 .. Len(frames) : frames[k] \in WireFrames
  BY LenProperties, ElementOfSeq
<1> HIDE DEF e
<1> DEFINE f == JoinedFirst(e)
<1>3. f[0] = << >> /\ \A i \in 1 .. Len(e) : f[i] = f[i - 1] \o e[i]
  BY <1>1, JoinedProperties
<1>4. \A i \in 0 .. Len(e) : f[i] \in Seq(Bytes)
  BY <1>1, JoinedProperties
<1>5. \A k \in 0 .. Len(e) : Begins(f[k], f[Len(e)])
  BY <1>1, JoinedBegins
<1> HIDE DEF f
<1>6. \A k : Sent(frames, k) = f[k]
  BY DEF Sent, f, e
<1> QED
  BY <1>1, <1>2, <1>3, <1>4, <1>5, <1>6

\* What comes next is the next frame, as far as it has come.
LEMMA NextFrame ==
  ASSUME NEW frames \in Seq(WireFrames), NEW k \in 0 .. Len(frames),
         NEW x \in Seq(Bytes), HeaderSize <= Len(x),
         Begins(Sent(frames, k) \o x, Sent(frames, Len(frames)))
  PROVE  /\ k + 1 \in 1 .. Len(frames)
         /\ \A i \in 1 .. HeaderSize : x[i] = Header(frames[k + 1])[i]
         /\ \A j \in 1 .. Len(frames[k + 1].payload) :
              HeaderSize + j <= Len(x) => x[HeaderSize + j] = frames[k + 1].payload[j]
<1> DEFINE s == Sent(frames, k)
           t == Sent(frames, Len(frames))
<1>1. Len(frames) \in Nat /\ k \in Nat /\ HeaderSize \in Nat /\ HeaderSize > 0
  BY SentProperties, Numbers DEF HeaderSize
<1>2. s \in Seq(Bytes) /\ t \in Seq(Bytes) /\ Begins(s, t)
  <2>1. Len(frames) \in 0 .. Len(frames)
    BY <1>1
  <2> QED
    BY <2>1, SentProperties
<1>3. k < Len(frames)
  <2>1. SUFFICES ASSUME k = Len(frames) PROVE FALSE
    BY <1>1
  <2>2. Len(s) \in Nat /\ Len(x) \in Nat /\ Len(s \o x) = Len(s) + Len(x)
    BY <1>2, LenProperties, ConcatProperties
  <2>3. Len(s \o x) <= Len(t) /\ s = t
    BY <2>1 DEF Begins
  <2> QED
    BY <1>1, <2>2, <2>3
<1>4. k + 1 \in 1 .. Len(frames) /\ (k + 1) - 1 = k /\ k + 1 \in 0 .. Len(frames)
  BY <1>1, <1>3
<1> DEFINE f == frames[k + 1]
<1>5. f \in WireFrames /\ Sent(frames, k + 1) = s \o Encode(f)
      /\ Begins(Sent(frames, k + 1), t)
  BY <1>4, SentProperties
<1> DEFINE h == Header(f)
           p == f.payload
           y == Encode(f)
<1>6. /\ h \in Seq(Bytes) /\ Len(h) = HeaderSize /\ p \in Seq(Bytes) /\ Len(p) \in Nat
      /\ y = h \o p /\ y \in Seq(Bytes)
  <2> HIDE DEF f
  <2>1. h \in Seq(Bytes) /\ Len(h) = HeaderSize /\ p \in Seq(Bytes)
    BY <1>5, HeaderProperties
  <2>2. y = h \o p /\ y \in Seq(Bytes)
    BY <1>5, EncodeProperties
  <2> QED
    BY <2>1, <2>2, LenProperties
<1>7. Begins(s \o y, t) /\ Begins(s \o x, t)
  BY <1>5
<1> HIDE DEF s, t, f, h, p, y
<1>8. \A i \in 1 .. Len(y) : i <= Len(x) => y[i] = x[i]
  <2>1. s \in Seq(Bytes) /\ t \in Seq(Bytes) /\ x \in Seq(Bytes) /\ y \in Seq(Bytes)
    BY <1>2, <1>6
  <2> QED
    BY <1>7, <2>1, BeginsBoth, SMTT(60)
<1>9. /\ Len(y) = HeaderSize + Len(p)
      /\ \A i \in 1 .. HeaderSize + Len(p) :
           y[i] = IF i <= HeaderSize THEN h[i] ELSE p[i - HeaderSize]
  <2>1. /\ Len(y) = Len(h) + Len(p)
        /\ \A i \in 1 .. Len(h) + Len(p) : y[i] = IF i <= Len(h) THEN h[i] ELSE p[i - Len(h)]
    BY <1>6, ConcatProperties
  <2> QED
    BY <1>6, <2>1
<1>10. \A i \in 1 .. HeaderSize : x[i] = h[i]
  <2> SUFFICES ASSUME NEW i \in 1 .. HeaderSize PROVE x[i] = h[i]
    OBVIOUS
  <2>1. i \in 1 .. HeaderSize + Len(p) /\ i <= HeaderSize /\ i <= Len(x)
    <3>1. Len(x) \in Nat
      BY LenProperties
    <3> QED
      BY <1>1, <1>6, <3>1
  <2> QED
    BY <1>8, <1>9, <2>1
<1>11. \A j \in 1 .. Len(p) : HeaderSize + j <= Len(x) => x[HeaderSize + j] = p[j]
  <2> SUFFICES ASSUME NEW j \in 1 .. Len(p), HeaderSize + j <= Len(x)
               PROVE  x[HeaderSize + j] = p[j]
    OBVIOUS
  <2>1. HeaderSize + j \in 1 .. HeaderSize + Len(p) /\ ~(HeaderSize + j <= HeaderSize)
        /\ (HeaderSize + j) - HeaderSize = j
    BY <1>1, <1>6
  <2> QED
    BY <1>8, <1>9, <2>1
<1> QED
  BY <1>4, <1>10, <1>11 DEF f, h, p

\* A header read is that of the next frame.
LEMMA HeaderArrived ==
  ASSUME WireInv, NEW frames \in Seq(WireFrames), NEW k \in 0 .. Len(frames),
         Flowing(frames, k), HeaderRead
  PROVE  /\ k + 1 \in 1 .. Len(frames)
         /\ got = Header(frames[k + 1])
         /\ Announced(got) = Len(frames[k + 1].payload)
         /\ got[1] = frames[k + 1].kind
<1> DEFINE rest == wire \o outgoing
           x == got \o rest
<1>1. header = << >> /\ Len(got) = HeaderSize
  BY DEF HeaderRead, Full, Want, NoHeader
<1>2. got \in Seq(Bytes) /\ rest \in Seq(Bytes) /\ x \in Seq(Bytes)
  BY InFlight
<1>3. Flow = x
  BY <1>1, <1>2, ConcatEmptySeq DEF Flow
<1>4. Begins(Sent(frames, k) \o x, Sent(frames, Len(frames)))
  BY <1>3 DEF Flowing
<1> HIDE DEF rest
<1>5. /\ Len(x) = HeaderSize + Len(rest) /\ Len(rest) \in Nat /\ HeaderSize \in Nat
      /\ \A i \in 1 .. HeaderSize : x[i] = got[i]
  <2>1. Len(rest) \in Nat /\ HeaderSize \in Nat
    BY <1>2, LenProperties, Numbers
  <2>2. /\ Len(x) = Len(got) + Len(rest)
        /\ \A i \in 1 .. Len(got) + Len(rest) : x[i] = IF i <= Len(got) THEN got[i] ELSE rest[i - Len(got)]
    BY <1>2, ConcatProperties
  <2> HIDE DEF x
  <2>3. \A i \in 1 .. HeaderSize : i \in 1 .. HeaderSize + Len(rest) /\ i <= HeaderSize
    BY <2>1
  <2> QED
    BY <1>1, <2>1, <2>2, <2>3
<1> HIDE DEF x
<1>6. HeaderSize <= Len(x)
  BY <1>5
<1>7. k + 1 \in 1 .. Len(frames) /\ \A i \in 1 .. HeaderSize : x[i] = Header(frames[k + 1])[i]
  BY <1>2, <1>4, <1>6, NextFrame
<1> DEFINE h == Header(frames[k + 1])
<1>8. h \in Seq(Bytes) /\ Len(h) = HeaderSize /\ h[1] = frames[k + 1].kind
      /\ Announced(h) = Len(frames[k + 1].payload)
  BY <1>7, SentProperties, HeaderProperties
<1>9. \A i \in 1 .. HeaderSize : got[i] = h[i]
  BY <1>5, <1>7
<1> HIDE DEF h
<1>10. got = h
  BY <1>1, <1>2, <1>8, <1>9, SeqEqual
<1> QED
  BY <1>7, <1>8, <1>10 DEF h

\* A frame read is the next one, and what is in flight then comes behind it.
LEMMA FrameArrived ==
  ASSUME WireInv, NEW frames \in Seq(WireFrames), NEW k \in 0 .. Len(frames),
         Flowing(frames, k), FrameRead
  PROVE  /\ k + 1 \in 1 .. Len(frames)
         /\ FrameGot = frames[k + 1]
         /\ AwaitFrame => FlowsOn(frames, k + 1)
<1> DEFINE rest == wire \o outgoing
           gr == got \o rest
           x == header \o gr
<1>1. /\ header \in Seq(Bytes) /\ Len(header) = HeaderSize
      /\ FrameGot.kind = header[1] /\ FrameGot.payload = got
      /\ got \in Seq(Bytes) /\ Len(got) = Announced(header)
  BY FrameType
<1>2. rest \in Seq(Bytes) /\ gr \in Seq(Bytes) /\ x \in Seq(Bytes)
  BY InFlight DEF Flow
<1>3. Begins(Sent(frames, k) \o x, Sent(frames, Len(frames)))
  BY DEF Flowing, Flow
<1>4. Len(rest) \in Nat /\ Len(gr) \in Nat /\ Len(got) \in Nat /\ HeaderSize \in Nat
  BY <1>1, <1>2, LenProperties, Numbers
<1> HIDE DEF rest
<1>5. /\ Len(gr) = Len(got) + Len(rest)
      /\ \A i \in 1 .. Len(got) : gr[i] = got[i]
  <2>1. \A i \in 1 .. Len(got) + Len(rest) : gr[i] = IF i <= Len(got) THEN got[i] ELSE rest[i - Len(got)]
    BY <1>1, <1>2, ConcatProperties
  <2>2. \A i \in 1 .. Len(got) : i \in 1 .. Len(got) + Len(rest) /\ i <= Len(got)
    BY <1>4
  <2>3. Len(gr) = Len(got) + Len(rest)
    BY <1>1, <1>2, ConcatProperties
  <2> HIDE DEF gr
  <2> QED
    BY <2>1, <2>2, <2>3
<1> HIDE DEF gr
<1>6. /\ Len(x) = HeaderSize + Len(gr)
      /\ \A i \in 1 .. HeaderSize : x[i] = header[i]
      /\ \A i \in 1 .. Len(gr) : x[HeaderSize + i] = gr[i]
  <2>1. /\ Len(x) = Len(header) + Len(gr)
        /\ \A i \in 1 .. Len(header) + Len(gr) :
             x[i] = IF i <= Len(header) THEN header[i] ELSE gr[i - Len(header)]
    BY <1>1, <1>2, ConcatProperties
  <2>2. \A i \in 1 .. HeaderSize : i \in 1 .. HeaderSize + Len(gr) /\ i <= HeaderSize
    BY <1>4
  <2>3. \A i \in 1 .. Len(gr) : HeaderSize + i \in 1 .. HeaderSize + Len(gr)
             /\ ~(HeaderSize + i <= HeaderSize) /\ (HeaderSize + i) - HeaderSize = i
    BY <1>4
  <2> HIDE DEF x
  <2> QED
    BY <1>1, <2>1, <2>2, <2>3
<1>7. HeaderSize <= Len(x)
  BY <1>4, <1>6
<1> HIDE DEF x
<1> DEFINE f == frames[k + 1]
           h == Header(f)
<1>8. /\ k + 1 \in 1 .. Len(frames)
      /\ \A i \in 1 .. HeaderSize : x[i] = h[i]
      /\ \A j \in 1 .. Len(f.payload) : HeaderSize + j <= Len(x) => x[HeaderSize + j] = f.payload[j]
  BY <1>2, <1>3, <1>7, NextFrame
<1>9. f \in WireFrames
  BY <1>8, SentProperties
<1>10. /\ h \in Seq(Bytes) /\ Len(h) = HeaderSize /\ h[1] = f.kind /\ Announced(h) = Len(f.payload)
       /\ f.payload \in Seq(Bytes) /\ Len(f.payload) \in Nat
       /\ Encode(f) = h \o f.payload
  <2> HIDE DEF f
  <2>1. /\ h \in Seq(Bytes) /\ Len(h) = HeaderSize /\ h[1] = f.kind /\ Announced(h) = Len(f.payload)
        /\ f.payload \in Seq(Bytes)
    BY <1>9, HeaderProperties
  <2>2. Encode(f) = h \o f.payload
    BY <1>9, EncodeProperties
  <2> QED
    BY <2>1, <2>2, LenProperties
<1> HIDE DEF h
<1>11. header = h
  <2>1. \A i \in 1 .. Len(header) : header[i] = h[i]
    BY <1>1, <1>6, <1>8
  <2> QED
    BY <1>1, <1>10, <2>1, SeqEqual
<1>12. got = f.payload
  <2>1. Len(got) = Len(f.payload)
    BY <1>1, <1>10, <1>11
  <2>2. \A j \in 1 .. Len(got) : got[j] = f.payload[j]
    <3> SUFFICES ASSUME NEW j \in 1 .. Len(got) PROVE got[j] = f.payload[j]
      OBVIOUS
    <3>1. j \in 1 .. Len(gr) /\ HeaderSize + j <= Len(x) /\ j \in 1 .. Len(f.payload)
      BY <1>4, <1>5, <1>6, <2>1
    <3>2. x[HeaderSize + j] = gr[j] /\ gr[j] = got[j] /\ x[HeaderSize + j] = f.payload[j]
      BY <1>5, <1>6, <1>8, <3>1
    <3> QED
      BY <3>2
  <2> QED
    BY <1>1, <1>10, <2>1, <2>2, SeqEqual
<1>13. FrameGot = f
  <2>1. f = [kind |-> f.kind, payload |-> f.payload]
    BY <1>9 DEF WireFrames
  <2>2. header[1] = f.kind
    BY <1>10, <1>11
  <2> QED
    BY <1>12, <2>1, <2>2 DEF FrameGot
<1>14. ASSUME AwaitFrame
       PROVE  FlowsOn(frames, k + 1)
  <2> DEFINE s == Sent(frames, k)
  <2>1. Flow' = rest
    <3>1. header' = << >> /\ got' = << >> /\ wire' \o outgoing' = rest
      BY <1>14 DEF AwaitFrame, NoHeader, rest
    <3> QED
      BY <1>2, <3>1, ConcatEmptySeq DEF Flow
  <2>2. (k + 1) - 1 = k /\ s \in Seq(Bytes)
    BY SentProperties
  <2>3. Sent(frames, k + 1) = s \o Encode(f)
    BY <1>8, <2>2, SentProperties
  <2>4. Encode(f) = header \o got
    BY <1>10, <1>11, <1>12
  <2> HIDE DEF s
  <2>5. (s \o (header \o got)) \o rest = s \o (header \o (got \o rest))
    <3>1. s \in Seq(Bytes) /\ header \in Seq(Bytes) /\ got \in Seq(Bytes) /\ rest \in Seq(Bytes)
      BY <1>1, <1>2, <2>2
    <3> HIDE DEF rest, s
    <3>2. header \o got \in Seq(Bytes)
      BY <3>1, ConcatProperties
    <3>3. \A p, q, v \in Seq(Bytes) : (p \o q) \o v = p \o (q \o v)
      BY Associative
    <3>4. (s \o (header \o got)) \o rest = s \o ((header \o got) \o rest)
      BY <3>1, <3>2, <3>3, Zenon
    <3>5. (header \o got) \o rest = header \o (got \o rest)
      BY <3>1, <3>3, Zenon
    <3> QED
      BY <3>4, <3>5
  <2>6. x = header \o (got \o rest)
    BY DEF x, gr
  <2>7. Sent(frames, k + 1) \o Flow' = s \o x
    BY <2>1, <2>3, <2>4, <2>5, <2>6
  <2>8. Begins(Sent(frames, k + 1) \o Flow', Sent(frames, Len(frames)))
    BY <1>3, <2>7 DEF s
  <2> QED
    BY <2>8 DEF FlowsOn
<1> QED
  BY <1>8, <1>13, <1>14

\* Sending, receiving and stopping leave the order as it is.
LEMMA FlowStep ==
  ASSUME WireInv, NEW frames \in Seq(WireFrames), NEW k \in 0 .. Len(frames),
         Flowing(frames, k),
         SenderWrites \/ SenderStops \/ RecvSome \/ (HeaderTaken /\ Announced(got) <= MaxFrame)
  PROVE  FlowsOn(frames, k)
<1> SUFFICES Begins(Sent(frames, k) \o Flow', Sent(frames, Len(frames)))
  BY DEF FlowsOn
<1>1. CASE SenderWrites
  <2>1. header' = header /\ got' = got /\ wire' \o outgoing' = wire \o outgoing
    BY <1>1, SentStep DEF SenderWrites
  <2> QED
    BY <2>1 DEF Flow, Flowing
<1>2. CASE RecvSome
  <2>1. header' = header /\ got' \o (wire' \o outgoing') = got \o (wire \o outgoing)
    BY <1>2, ReceivedStep DEF RecvSome
  <2> QED
    BY <2>1 DEF Flow, Flowing
<1>3. CASE HeaderTaken /\ Announced(got) <= MaxFrame
  <2>1. header' = got /\ header = << >> /\ got' = << >> /\ wire' \o outgoing' = wire \o outgoing
    BY <1>3, HeaderStep
  <2>2. << >> \o (wire \o outgoing) = wire \o outgoing
        /\ << >> \o (got \o (wire \o outgoing)) = got \o (wire \o outgoing)
    BY InFlight, ConcatEmptySeq
  <2>3. Flow' = Flow
    BY <2>1, <2>2 DEF Flow
  <2> QED
    BY <2>3 DEF Flowing
<1>4. CASE SenderStops
  <2> DEFINE hg == header \o got
             r == wire \o outgoing
  <2>1. header' = header /\ got' = got /\ wire' \o outgoing' = wire
    BY <1>4, InFlight, ConcatEmptySeq DEF SenderStops
  <2>2. wire \in Seq(Bytes) /\ r \in Seq(Bytes) /\ header \in Seq(Bytes) /\ got \in Seq(Bytes)
        /\ outgoing \in Seq(Bytes)
    BY InFlight
  <2>3. Begins(wire, r)
    BY <2>2, BeginsConcat
  <2>4. got \o wire \in Seq(Bytes) /\ got \o r \in Seq(Bytes) /\ Begins(got \o r, got \o r)
    BY <2>2, ConcatProperties DEF Begins
  <2> HIDE DEF r
  <2>5. Begins(got \o wire, got \o r)
    BY <2>2, <2>3, <2>4, BeginsLess
  <2> DEFINE gw == got \o wire
             gr == got \o r
  <2>6. gw \in Seq(Bytes) /\ gr \in Seq(Bytes) /\ Begins(gw, gr)
    BY <2>4, <2>5
  <2>7. Flow' = header \o gw /\ Flow = header \o gr
    BY <2>1 DEF Flow, r
  <2> HIDE DEF gw, gr
  <2>8. header \o gr \in Seq(Bytes) /\ header \o gw \in Seq(Bytes)
        /\ Begins(header \o gr, header \o gr)
    BY <2>2, <2>6, ConcatProperties DEF Begins
  <2>9. Begins(header \o gw, header \o gr)
    BY <2>2, <2>6, <2>8, BeginsLess
  <2>10. Sent(frames, k) \in Seq(Bytes) /\ Sent(frames, Len(frames)) \in Seq(Bytes)
    <3>1. Len(frames) \in 0 .. Len(frames)
      BY SentProperties
    <3> QED
      BY <3>1, SentProperties
  <2>11. Flow' \in Seq(Bytes) /\ Flow \in Seq(Bytes) /\ Begins(Flow', Flow)
    BY <2>7, <2>8, <2>9
  <2> QED
    BY <2>10, <2>11, BeginsLess DEF Flowing
<1> QED
  BY <1>1, <1>2, <1>3, <1>4

\* A new stream begins.
LEMMA FlowStarts ==
  ASSUME NEW frames \in Seq(WireFrames), Streams(frames)
  PROVE  FlowsOn(frames, 0)
<1>1. Flow' = Sent(frames, Len(frames))
  BY StreamsStep DEF Sent
<1>2. Sent(frames, Len(frames)) \in Seq(Bytes) /\ Sent(frames, 0) = << >>
  <2>1. Len(frames) \in 0 .. Len(frames)
    BY SentProperties
  <2> QED
    BY <2>1, SentProperties
<1>3. Sent(frames, 0) \o Flow' = Sent(frames, Len(frames))
  BY <1>1, <1>2, ConcatEmptySeq
<1>4. Begins(Sent(frames, Len(frames)), Sent(frames, Len(frames)))
  BY <1>2, LenProperties DEF Begins
<1> QED
  BY <1>3, <1>4 DEF FlowsOn

-----------------------------------------------------------------------------
(* The speech *)

\* The image has been taken before a speech comes.
TurnInv == upload # "taken" => phase = "idle"

\* Bytes in the first chunks of a speech.
Covered(size, chunks) == IF chunks * Chunk < size THEN chunks * Chunk ELSE size

\* Of an undamaged speech the first chunks are taken, and stand where they belong.
SpeechInv ==
  phase = "body" /\ damages = 0 =>
    /\ Flowing(AudioBody(last.size), taken)
    /\ total = Covered(last.size, taken)
    /\ \A b \in 0 .. last.size - 1 :
         pcm[b] = IF b < taken * Chunk THEN Content(last.size)[b] ELSE Unset

\* A speech being received, as the lemmas need it.
LEMMA SpeechTypes ==
  ASSUME Typed, phase = "body"
  PROVE  /\ last \in Utterances /\ last.size \in 0 .. Word - 1
         /\ AudioBody(last.size) \in Seq(WireFrames)
         /\ Len(AudioBody(last.size)) = Chunks(last.size) + 1
         /\ Chunks(last.size) \in Nat /\ taken \in 0 .. Chunks(last.size)
         /\ taken \in 0 .. Len(AudioBody(last.size))
         /\ DOMAIN pcm = 0 .. last.size - 1
<1>1. last \in Utterances
  BY DEF Typed, AudioInv
<1>2. last.size \in 0 .. Word - 1
  BY <1>1, Sized
<1>3. /\ AudioBody(last.size) \in Seq(WireFrames)
      /\ Len(AudioBody(last.size)) = Chunks(last.size) + 1
  BY <1>2, AudioBodyProperties
<1>4. Chunks(last.size) \in Nat
  BY <1>2, ChunksProperties
<1>5. taken \in Nat /\ taken <= Chunks(last.size) /\ DOMAIN pcm = 0 .. last.size - 1
  BY Numbers DEF Typed, BodyInv, WritesInBuffer
<1> QED
  BY <1>1, <1>2, <1>3, <1>4, <1>5

\* The next chunk of an undamaged speech.
LEMMA ChunkArrives ==
  ASSUME Typed, SpeechInv, phase = "body", damages = 0, FrameRead, MoreChunks
  PROVE  LET at == taken * Chunk
             n == Len(Slice(last.size, taken))
         IN  /\ IsChunk /\ Seqno = taken /\ Data = Slice(last.size, taken)
             /\ taken \in 0 .. Chunks(last.size) - 1
             /\ at \in Nat /\ at <= last.size /\ n \in 0 .. Chunk
             /\ n = IF last.size - at < Chunk THEN last.size - at ELSE Chunk
             /\ AwaitFrame => FlowsOn(AudioBody(last.size), taken + 1)
<1> DEFINE size == last.size
           n == Len(Slice(size, taken))
           f == ChunkFrame(size, taken)
<1>1. /\ size \in 0 .. Word - 1 /\ AudioBody(size) \in Seq(WireFrames)
      /\ Chunks(size) \in Nat /\ taken \in 0 .. Chunks(size) /\ taken \in 0 .. Len(AudioBody(size))
  BY SpeechTypes
<1>2. taken \in 0 .. Chunks(size) - 1 /\ taken + 1 \in 1 .. Chunks(size) /\ (taken + 1) - 1 = taken
  BY <1>1 DEF MoreChunks
<1>3. WireInv /\ Flowing(AudioBody(size), taken)
  BY DEF Typed, SpeechInv
<1> HIDE DEF size
<1>4. FrameGot = AudioBody(size)[taken + 1] /\ (AwaitFrame => FlowsOn(AudioBody(size), taken + 1))
  BY <1>1, <1>3, FrameArrived
<1>5. FrameGot = f
  BY <1>1, <1>2, <1>4, AudioBodyProperties
<1>6. LET p == f.payload IN
      /\ f.kind = KindBinary
      /\ Len(p) = Digits + n
      /\ Value(SubSeq(p, 1, Digits)) = taken
      /\ SubSeq(p, Digits + 1, Len(p)) = Slice(size, taken)
  BY <1>1, <1>2, ChunkFrameProperties
<1>7. /\ taken * Chunk \in Nat /\ taken * Chunk <= size
      /\ n = IF size - taken * Chunk < Chunk THEN size - taken * Chunk ELSE Chunk
      /\ n \in 0 .. Chunk
  BY <1>1, <1>2, SliceProperties
<1>8. Seqno = taken /\ Data = Slice(size, taken)
  BY <1>5, <1>6 DEF Seqno, Data
<1>9. IsChunk
  <2>1. FrameGot.kind = KindBinary /\ Len(FrameGot.payload) = Digits + n
    BY <1>5, <1>6
  <2>2. Digits \in Nat /\ n \in Nat /\ size \in Nat /\ Chunk \in Nat
    BY <1>1, <1>7, Numbers
  <2>3. Len(Data) = n
    BY <1>8
  <2> DEFINE at == taken * Chunk
  <2> HIDE DEF n
  <2>4. at \in Nat /\ at <= size /\ n = IF size - at < Chunk THEN size - at ELSE Chunk
    BY <1>7
  <2> HIDE DEF at
  <2>5. at + n <= size
    BY <2>2, <2>4
  <2>6. Seqno * Chunk + Len(Data) <= last.size
    BY <1>8, <2>3, <2>5 DEF at, size
  <2> QED
    BY <2>1, <2>2, <2>6 DEF IsChunk, Fits
<1> QED
  BY <1>2, <1>4, <1>7, <1>8, <1>9 DEF size

\* It is put where it belongs.
LEMMA ChunkPlaced ==
  ASSUME Typed, SpeechInv, TakeChunk, damages = 0
  PROVE  SpeechInv'
<1> DEFINE size == last.size
           at == taken * Chunk
           next == (taken + 1) * Chunk
           n == Len(Slice(size, taken))
           here == at .. at + n - 1
<1>1. phase = "body" /\ FrameRead /\ MoreChunks /\ AwaitFrame
      /\ phase' = "body" /\ last' = last /\ taken' = taken + 1
      /\ total' = (total + Len(Data)) % Word
      /\ pcm' = Copied(Seqno, Data)
  BY DEF TakeChunk, audioVars
<1>2. /\ Seqno = taken /\ Data = Slice(size, taken)
      /\ taken \in 0 .. Chunks(size) - 1
      /\ at \in Nat /\ at <= size /\ n \in 0 .. Chunk
      /\ n = IF size - at < Chunk THEN size - at ELSE Chunk
      /\ FlowsOn(AudioBody(size), taken + 1)
  BY <1>1, ChunkArrives
<1>3. /\ size \in 0 .. Word - 1 /\ Chunks(size) \in Nat /\ DOMAIN pcm = 0 .. size - 1
  BY <1>1, SpeechTypes
<1>4. /\ Word \in Nat /\ Word > 0 /\ Chunk \in Nat /\ Chunk > 0 /\ size \in Nat /\ size < Word
      /\ taken \in Nat /\ n \in Nat
  BY <1>2, <1>3, Numbers
<1>5. next = at + Chunk /\ next \in Nat
  BY <1>4
<1>6. total = Covered(size, taken)
  BY <1>1 DEF SpeechInv
<1>7. \A k \in 1 .. n : Data[k] = Content(size)[at + k - 1]
  BY <1>2, <1>3, SliceProperties
<1>8. \A b \in 0 .. size - 1 : pcm[b] = IF b < at THEN Content(size)[b] ELSE Unset
  BY <1>1 DEF SpeechInv
<1>9. at % Word = at
  <2> HIDE DEF at
  <2> QED
    BY <1>2, <1>4
<1>10. pcm' = [b \in DOMAIN pcm \cup here |-> IF b \in here THEN Data[b - at + 1] ELSE pcm[b]]
  <2>1. (Seqno * Chunk) % Word = at /\ Len(Data) = n
    BY <1>2, <1>9
  <2> QED
    BY <1>1, <2>1 DEF Copied, CopiedTo
<1>11. Covered(size, taken) = at
  <2>1. at < size \/ at = size
    BY <1>2, <1>4
  <2> QED
    BY <2>1 DEF Covered
<1>12. Covered(size, taken + 1) = IF next < size THEN next ELSE size
  BY DEF Covered
<1> HIDE DEF size, at, next, n
<1>13. at + n = IF next < size THEN next ELSE size
  BY <1>2, <1>4, <1>5
<1>14. total' = Covered(size, taken + 1)
  <2>1. Len(Data) = n
    BY <1>2 DEF n
  <2>2. at + n \in Nat /\ at + n < Word
    BY <1>2, <1>4
  <2>3. (at + n) % Word = at + n
    BY <1>4, <2>2
  <2> QED
    BY <1>1, <1>6, <1>11, <1>12, <1>13, <2>1, <2>3
<1>15. ASSUME NEW b \in 0 .. size - 1
       PROVE  pcm'[b] = IF b < next THEN Content(size)[b] ELSE Unset
  <2>1. pcm'[b] = IF b \in here THEN Data[b - at + 1] ELSE pcm[b]
    BY <1>3, <1>10
  <2>2. CASE b \in here
    <3>1. b - at + 1 \in 1 .. n /\ at + (b - at + 1) - 1 = b /\ b < next
      BY <1>2, <1>4, <1>5, <2>2
    <3> QED
      BY <1>7, <2>1, <2>2, <3>1
  <2>3. CASE b \notin here /\ b < at
    <3>1. b < next
      BY <1>2, <1>4, <1>5, <2>3
    <3> QED
      BY <1>8, <2>1, <2>3, <3>1
  <2>4. CASE b \notin here /\ ~(b < at)
    <3>1. b \in Nat /\ b >= at + n
      BY <1>2, <1>4, <2>4
    <3>2. ~(b < next)
      BY <1>4, <1>5, <1>13, <3>1
    <3> QED
      BY <1>8, <2>1, <2>4, <3>2
  <2> QED
    BY <2>2, <2>3, <2>4
<1>16. FlowsOn(AudioBody(size), taken + 1)
  BY <1>2
<1>17. Flowing(AudioBody(last.size), taken)'
  BY <1>1, <1>16 DEF size, Flowing, FlowsOn
<1> QED
  BY <1>1, <1>14, <1>15, <1>17 DEF SpeechInv, size, next

\* Every step of the glasses' end keeps it.
LEMMA SpeechStep ==
  ASSUME Typed, SpeechInv, DownlinkStep
  PROVE  SpeechInv'
<1> SUFFICES ASSUME phase' = "body", damages' = 0
             PROVE  SpeechInv'
  BY DEF SpeechInv
<1>1. CASE Receive
  <2>1. UNCHANGED <<damages, last, phase, taken, total, pcm>> /\ phase = "body"
    BY <1>1 DEF Receive, RecvSome, HeaderTaken, audioVars, bodyVars
  <2>2. RecvSome \/ (HeaderTaken /\ Announced(got) <= MaxFrame)
    BY <1>1 DEF Receive, Sound
  <2>3. WireInv /\ Flowing(AudioBody(last.size), taken)
    BY <2>1 DEF Typed, SpeechInv
  <2>4. AudioBody(last.size) \in Seq(WireFrames) /\ taken \in 0 .. Len(AudioBody(last.size))
    BY <2>1, SpeechTypes
  <2>5. FlowsOn(AudioBody(last.size), taken)
    BY <2>2, <2>3, <2>4, FlowStep
  <2>7. Flowing(AudioBody(last.size), taken)'
    BY <2>1, <2>5 DEF Flowing, FlowsOn
  <2> QED
    BY <2>1, <2>7 DEF SpeechInv
<1>2. CASE TakeChunk
  BY <1>2, ChunkPlaced DEF TakeChunk, AwaitFrame
<1>3. CASE ReceiveFails \/ RefuseChunk \/ RefuseEnd \/ TakeEnd \/ Play
  BY <1>3 DEF ReceiveFails, RefuseChunk, RefuseEnd, TakeEnd, Play, BodyFails
<1> QED
  BY <1>1, <1>2, <1>3 DEF DownlinkStep

\* A speech announced is all before the glasses.
LEMMA SpeechStarts ==
  ASSUME Reply, TurnInv, SpeechInv
  PROVE  SpeechInv' /\ TurnInv'
<1>1. PICK u \in Utterances : Announce(u) \/ Refuse(u)
  BY DEF Reply
<1>2. upload' = "taken"
  BY DEF Reply, upVars
<1>3. CASE Announce(u)
  <2>1. u.size \in 0 .. Word - 1 /\ u.size \in Nat
    BY Sized, Numbers
  <2>2. AudioBody(u.size) \in Seq(WireFrames)
    BY <2>1, AudioBodyProperties
  <2>3. FlowsOn(AudioBody(u.size), 0)
    BY <1>3, <2>2, FlowStarts DEF Announce
  <2>4. /\ last' = u /\ taken' = 0 /\ total' = 0
        /\ pcm' = [b \in 0 .. u.size - 1 |-> Unset]
    BY <1>3 DEF Announce
  <2>5. 0 * Chunk = 0
    BY Numbers
  <2>6. Covered(u.size, 0) = 0
    BY <2>1, <2>5 DEF Covered
  <2>7. \A b \in 0 .. u.size - 1 : ~(b < 0 * Chunk)
    BY <2>1, <2>5
  <2>8. Flowing(AudioBody(last.size), taken)'
    BY <2>3, <2>4 DEF Flowing, FlowsOn
  <2>9. total' = Covered(last.size, taken)'
    BY <2>4, <2>6 DEF Covered
  <2> QED
    BY <1>2, <2>4, <2>7, <2>8, <2>9 DEF SpeechInv, TurnInv
<1>4. CASE Refuse(u)
  BY <1>2, <1>4 DEF Refuse, bodyVars, SpeechInv, TurnInv
<1> QED
  BY <1>1, <1>3, <1>4

\* What the sender and the path do leaves the order as it is, or damages it.
LEMMA SpeechStream ==
  ASSUME Typed, SpeechInv, Stream
  PROVE  SpeechInv'
<1>1. UNCHANGED <<last, phase, taken, total, pcm>>
  BY DEF Stream, audioVars, bodyVars
<1>2. CASE phase = "body" /\ (SenderWrites \/ SenderStops) /\ damages = 0
  <2>1. WireInv /\ Flowing(AudioBody(last.size), taken)
    BY <1>2 DEF Typed, SpeechInv
  <2>2. AudioBody(last.size) \in Seq(WireFrames) /\ taken \in 0 .. Len(AudioBody(last.size))
    BY <1>2, SpeechTypes
  <2>3. FlowsOn(AudioBody(last.size), taken)
    BY <1>2, <2>1, <2>2, FlowStep
  <2>4. Flowing(AudioBody(last.size), taken)'
    BY <1>1, <2>3 DEF Flowing, FlowsOn
  <2> QED
    BY <1>1, <1>2, <2>4 DEF SpeechInv, SenderWrites, SenderStops, Covered
<1>3. CASE phase # "body" \/ ByteDamaged \/ damages # 0
  <2>1. phase' # "body" \/ damages' # 0
    <3>1. CASE ByteDamaged
      BY <3>1, DamageStep DEF Typed
    <3>2. CASE ~ByteDamaged
      BY <1>1, <1>3, <3>2 DEF Stream, SenderWrites, SenderStops
    <3> QED
      BY <3>1, <3>2
  <2> QED
    BY <2>1 DEF SpeechInv
<1> QED
  BY <1>2, <1>3 DEF Stream

\* The invariant of the whole connection, as far as the speech is concerned.
DownInv == TurnInv /\ SpeechInv

\* The inductive invariant of an undamaged speech: what is in flight is what the frames taken
\* leave of the stream.
THEOREM SpeechInvariance == Spec => []DownInv
<1>1. Init => DownInv
  BY DEF Init, InitUp, InitBody, DownInv, TurnInv, SpeechInv
<1>2. Typed /\ DownInv /\ [Next]_vars => DownInv'
  <2> SUFFICES ASSUME Typed, TurnInv, SpeechInv, [Next]_vars
               PROVE  TurnInv' /\ SpeechInv'
    BY DEF DownInv
  <2>1. CASE Upload
    <3>1. UNCHANGED <<phase, taken, total, pcm, last>> /\ upload # "taken"
      BY <2>1 DEF Upload, UplinkStep, SendImage, PhoneReceives, PhoneReceiveFails, BeginTaken,
                  ChunkAdded, FramePassedOver, ImageTaken, FrameRefused, PhoneFrame,
                  audioVars, bodyVars
    <3> QED
      BY <3>1 DEF TurnInv, SpeechInv
  <2>2. CASE Reply
    BY <2>2, SpeechStarts
  <2>3. CASE Playback
    <3>1. upload' = upload /\ phase # "idle"
      BY <2>3 DEF Playback, upVars, DownlinkStep, Receive, ReceiveFails, TakeChunk, RefuseChunk,
                  TakeEnd, RefuseEnd, Play
    <3>2. TurnInv'
      BY <3>1 DEF TurnInv
    <3> QED
      BY <2>3, <3>2, SpeechStep DEF Playback
  <2>4. CASE Stream
    <3>1. UNCHANGED <<upload, phase>>
      BY <2>4 DEF Stream, upVars, bodyVars
    <3> QED
      BY <2>4, <3>1, SpeechStream DEF TurnInv
  <2>5. CASE UNCHANGED vars
    <3>1. /\ UNCHANGED <<outgoing, wire, damages, header, got>>
          /\ UNCHANGED <<upload, last, phase, taken, total, pcm>>
      BY <2>5 DEF vars, wireVars, upVars, audioVars, bodyVars
    <3>2. Flow' = Flow
      BY <3>1 DEF Flow
    <3>3. Flowing(AudioBody(last.size), taken)' <=> Flowing(AudioBody(last.size), taken)
      BY <3>1, <3>2 DEF Flowing
    <3> QED
      BY <3>1, <3>3 DEF TurnInv, SpeechInv, Covered
  <2> QED
    BY <2>1, <2>2, <2>3, <2>4, <2>5 DEF Next
<1> QED
  BY <1>1, <1>2, TypeInvariance, PTL DEF Spec

\* However send() and recv() cut the stream, the glasses hold the bytes of the chunks taken so
\* far, each at its place, and nothing else.
THEOREM PrefixKept == Spec => []UndamagedPrefix
<1>1. DownInv => UndamagedPrefix
  BY DEF DownInv, SpeechInv, UndamagedPrefix
<1> QED
  BY <1>1, SpeechInvariance, PTL

\* None of the checks a frame goes through refuses one of an undamaged speech.
LEMMA SpeechNotRefused ==
  ASSUME Typed, DownInv, [Next]_vars, phase = "body", damages = 0, Full
  PROVE  phase' # "idle"
<1> DEFINE size == last.size
           frames == AudioBody(size)
<1>1. SpeechInv /\ WireInv /\ Flowing(frames, taken) /\ upload = "taken"
  BY DEF DownInv, TurnInv, SpeechInv, Typed
<1>2. /\ size \in 0 .. Word - 1 /\ frames \in Seq(WireFrames) /\ Len(frames) = Chunks(size) + 1
      /\ Chunks(size) \in Nat /\ taken \in 0 .. Chunks(size) /\ taken \in 0 .. Len(frames)
  BY SpeechTypes
<1>3. ~ReceiveFails
  <2>1. SUFFICES ASSUME HeaderRead PROVE Sound(got) /\ FitsFrame(got)
    BY DEF ReceiveFails
  <2> DEFINE f == frames[taken + 1]
  <2> HIDE DEF frames
  <2>2. /\ taken + 1 \in 1 .. Len(frames) /\ Announced(got) = Len(f.payload) /\ got[1] = f.kind
    BY <1>1, <1>2, <2>1, HeaderArrived
  <2>3. f.kind \in Kinds /\ Len(f.payload) \in 0 .. MaxFrame
    BY <1>2, <2>2, SentProperties, HeaderProperties
  <2>4. Len(f.payload) <= Digits + Chunk
    <3>1. CASE taken + 1 \in 1 .. Chunks(size)
      <4>1. taken \in 0 .. Chunks(size) - 1 /\ (taken + 1) - 1 = taken
        BY <1>2, <3>1
      <4>2. f = ChunkFrame(size, taken)
        BY <1>2, <3>1, <4>1, AudioBodyProperties DEF frames
      <4> QED
        BY <1>2, <4>1, <4>2, ChunkFrameProperties
    <3>2. CASE taken + 1 \notin 1 .. Chunks(size)
      <4>1. taken = Chunks(size)
        BY <1>2, <3>2
      <4>2. f = AudioEnd
        BY <1>2, <4>1, AudioBodyProperties DEF frames
      <4>3. Len(f.payload) = 1
        BY <4>2 DEF AudioEnd
      <4> QED
        BY <4>3, Numbers
    <3> QED
      BY <3>1, <3>2
  <2>5. Announced(got) <= MaxFrame /\ Announced(got) <= Digits + Chunk /\ got[1] \in Kinds
    BY <2>2, <2>3, <2>4, Numbers
  <2> QED
    BY <2>5 DEF Sound, FitsFrame
<1>4. ~RefuseChunk
  BY <1>1, ChunkArrives DEF RefuseChunk
<1>5. ~RefuseEnd
  <2> SUFFICES ASSUME FrameRead, ~MoreChunks PROVE Verified
    BY DEF RefuseEnd
  <2>1. taken = Chunks(size)
    BY <1>2 DEF MoreChunks
  <2>2. FrameGot = frames[taken + 1]
    <3> HIDE DEF frames
    <3> QED
      BY <1>1, <1>2, FrameArrived
  <2>3. FrameGot = AudioEnd
    BY <1>2, <2>1, <2>2, AudioBodyProperties
  <2>4. size <= taken * Chunk /\ taken * Chunk \in Nat /\ size \in Nat
    BY <1>2, <2>1, ChunksProperties
  <2> DEFINE covered == taken * Chunk
  <2>5. size <= covered /\ covered \in Nat
    BY <2>4
  <2>6. total = Covered(size, taken)
    BY <1>1 DEF SpeechInv
  <2>7. \A b \in 0 .. size - 1 : pcm[b] = IF b < covered THEN Content(size)[b] ELSE Unset
    BY <1>1 DEF SpeechInv
  <2>8. Covered(size, taken) = IF covered < size THEN covered ELSE size
    BY DEF Covered
  <2> HIDE DEF covered, size
  <2>9. total = size
    BY <2>4, <2>5, <2>6, <2>8
  <2>10. \A b \in 0 .. size - 1 : pcm[b] = Content(size)[b]
    <3> SUFFICES ASSUME NEW b \in 0 .. size - 1 PROVE pcm[b] = Content(size)[b]
      OBVIOUS
    <3>1. b < covered
      BY <2>4, <2>5
    <3> QED
      BY <2>7, <3>1
  <2>11. FrameGot.kind = KindJson
    BY <2>3 DEF AudioEnd
  <2> QED
    BY <2>9, <2>10, <2>11 DEF Verified, size
<1>6. CASE Playback
  <2>1. Receive \/ TakeChunk \/ TakeEnd
    BY <1>3, <1>4, <1>5, <1>6 DEF Playback, DownlinkStep, Play
  <2> QED
    BY <2>1 DEF Receive, TakeChunk, TakeEnd, bodyVars
<1>7. CASE Reply
  BY <1>7 DEF Reply, Announce, Refuse
<1>8. CASE Upload \/ Stream \/ UNCHANGED vars
  BY <1>8 DEF Upload, Stream, vars, bodyVars
<1> QED
  BY <1>6, <1>7, <1>8 DEF Next

\* None of the checks of sd_frame_recv and sd_msg_recv_audio_body refuses a frame of an undamaged
\* speech, whatever its size.
THEOREM SpeechTaken == Spec => UndamagedIsTaken
<1>1. Typed /\ DownInv /\ [Next]_vars =>
        [phase = "body" /\ damages = 0 /\ Full => phase' # "idle"]_vars
  BY SpeechNotRefused
<1> QED
  BY <1>1, TypeInvariance, SpeechInvariance, PTL DEF Spec, UndamagedIsTaken

-----------------------------------------------------------------------------
(* The image *)

\* The first m chunks of the image are in the reassembler, each under its own number.
Holds(m) ==
  /\ reasm.size = imageSize /\ reasm.chunks = Chunks(imageSize)
  /\ DOMAIN reasm.data = 0 .. m - 1
  /\ \A seq \in DOMAIN reasm.data : reasm.data[seq] = Slice(imageSize, seq)

\* Of an undamaged image image_begin and then the chunks are taken in their order.
ImageInv ==
  /\ upload # "sending" => reasm = NoTransfer
  /\ upload = "sending" /\ damages = 0 =>
       IF reasm.begun
       THEN \E m \in 0 .. Chunks(imageSize) :
              Flowing(ImageFrames(imageSize), 1 + m) /\ Holds(m)
       ELSE Flowing(ImageFrames(imageSize), 0)

\* An image being sent, as the lemmas need it.
LEMMA ImageTypes ==
  ASSUME Typed
  PROVE  /\ imageSize \in 0 .. Word - 1
         /\ ImageFrames(imageSize) \in Seq(WireFrames)
         /\ Len(ImageFrames(imageSize)) = Chunks(imageSize) + 2
         /\ Chunks(imageSize) \in Nat /\ Chunks(imageSize) > 0
         /\ \A m \in 0 .. Chunks(imageSize) :
              /\ 1 + m \in 0 .. Len(ImageFrames(imageSize))
              /\ 0 \in 0 .. Len(ImageFrames(imageSize))
<1>1. imageSize \in 0 .. Word - 1
  <2>1. imageSize \in ImageSizes \cup {0} /\ 0 \in 0 .. Word - 1
    BY Numbers DEF Typed, UpInv, TypeOKUp
  <2> QED
    BY <2>1, Sized
<1>2. /\ ImageFrames(imageSize) \in Seq(WireFrames)
      /\ Len(ImageFrames(imageSize)) = Chunks(imageSize) + 2
  BY <1>1, ImageFramesProperties
<1>3. Chunks(imageSize) \in Nat /\ Chunks(imageSize) > 0
  <2>1. Chunks(imageSize) \in 1 .. Word - 1 /\ Word \in Nat
    BY <1>1, ChunksProperties, Numbers
  <2> QED
    BY <2>1
<1> QED
  BY <1>1, <1>2, <1>3

\* Behind nothing comes image_begin.
LEMMA BeginArrives ==
  ASSUME Typed, ImageInv, PhoneFrame, damages = 0, ~reasm.begun
  PROVE  /\ IsBegin /\ ~IsBinary /\ ~IsEnd /\ ~IsAnswered
         /\ Value(SubSeq(FrameGot.payload, 2, 1 + Digits)) = imageSize
         /\ Value(SubSeq(FrameGot.payload, 2 + Digits, 1 + 2 * Digits)) = Chunks(imageSize)
         /\ AwaitFrame => FlowsOn(ImageFrames(imageSize), 1)
<1> DEFINE frames == ImageFrames(imageSize)
           f == BeginFrame(imageSize)
           p == f.payload
<1>1. /\ imageSize \in 0 .. Word - 1 /\ frames \in Seq(WireFrames) /\ 0 \in 0 .. Len(frames)
  <2>1. 0 \in 0 .. Chunks(imageSize)
    BY ImageTypes
  <2> QED
    BY <2>1, ImageTypes
<1>2. WireInv /\ FrameRead /\ Flowing(frames, 0)
  BY DEF Typed, ImageInv, PhoneFrame
<1> DEFINE zero == 0
<1>3. zero \in 0 .. Len(frames) /\ Flowing(frames, zero)
  BY <1>1, <1>2
<1> HIDE DEF zero, frames
<1>4. FrameGot = frames[zero + 1] /\ (AwaitFrame => FlowsOn(frames, zero + 1))
  BY <1>1, <1>2, <1>3, FrameArrived
<1>5. FrameGot = frames[1] /\ (AwaitFrame => FlowsOn(frames, 1))
  <2>1. zero + 1 = 1
    BY DEF zero
  <2> QED
    BY <1>4, <2>1
<1>6. FrameGot = f
  BY <1>1, <1>5, ImageFramesProperties DEF frames
<1>7. /\ f.kind = KindJson /\ Len(p) = 1 + 2 * Digits /\ Head(p) = ImageBegin /\ p # << >>
      /\ Value(SubSeq(p, 2, 1 + Digits)) = imageSize
      /\ Value(SubSeq(p, 2 + Digits, 1 + 2 * Digits)) = Chunks(imageSize)
  BY <1>1, BeginFrameProperties
<1> HIDE DEF f
<1>8. ~IsBinary
  BY <1>6, <1>7, Numbers DEF IsBinary
<1>9. IsBegin
  BY <1>6, <1>7, <1>8 DEF IsBegin, IsControl
<1>10. ~IsEnd /\ ~IsAnswered
  BY <1>6, <1>7, <1>8 DEF IsEnd, IsControl, IsAnswered, ImageBegin, ImageEnd, OtherType
<1> QED
  BY <1>5, <1>6, <1>7, <1>8, <1>9, <1>10 DEF frames

\* Behind image_begin and m chunks comes the next chunk, or image_end.
LEMMA NextArrives ==
  ASSUME Typed, PhoneFrame, reasm.begun,
         NEW m \in 0 .. Chunks(imageSize), Flowing(ImageFrames(imageSize), 1 + m), Holds(m)
  PROVE  /\ m < Chunks(imageSize) =>
              /\ m \in 0 .. Chunks(imageSize) - 1
              /\ IsBinary /\ ~Short(FrameGot.payload)
              /\ Seqno = m /\ Data = Slice(imageSize, m)
              /\ AwaitFrame => FlowsOn(ImageFrames(imageSize), 1 + (m + 1))
         /\ m = Chunks(imageSize) => IsEnd /\ ~IsBinary
         /\ ~IsBegin /\ ~IsAnswered
<1> DEFINE frames == ImageFrames(imageSize)
           n == Chunks(imageSize)
           k == 1 + m
<1>1. /\ imageSize \in 0 .. Word - 1 /\ frames \in Seq(WireFrames)
      /\ n \in Nat /\ n > 0 /\ k \in 0 .. Len(frames)
  BY ImageTypes
<1>2. WireInv /\ FrameRead /\ Flowing(frames, k)
  BY DEF Typed, PhoneFrame
<1> HIDE DEF frames, k
<1>3. FrameGot = frames[k + 1] /\ (AwaitFrame => FlowsOn(frames, k + 1))
  BY <1>1, <1>2, FrameArrived
<1>4. ASSUME m < n
      PROVE  /\ m \in 0 .. n - 1 /\ IsBinary /\ ~Short(FrameGot.payload)
             /\ Seqno = m /\ Data = Slice(imageSize, m)
             /\ AwaitFrame => FlowsOn(frames, 1 + (m + 1))
             /\ ~IsBegin /\ ~IsAnswered
  <2> DEFINE i == m + 1
             f == ChunkFrame(imageSize, m)
             p == f.payload
  <2>1. m \in 0 .. n - 1 /\ i \in 1 .. n /\ i - 1 = m /\ k + 1 = i + 1 /\ k + 1 = 1 + (m + 1)
    BY <1>1, <1>4 DEF k
  <2>2. frames[i + 1] = ChunkFrame(imageSize, i - 1)
    <3> HIDE DEF i
    <3> QED
      BY <1>1, <2>1, ImageFramesProperties DEF frames
  <2>3. FrameGot = f
    BY <1>3, <2>1, <2>2
  <2>4. /\ f.kind = KindBinary /\ Len(p) = Digits + Len(Slice(imageSize, m))
        /\ Value(SubSeq(p, 1, Digits)) = m
        /\ SubSeq(p, Digits + 1, Len(p)) = Slice(imageSize, m)
    BY <1>1, <2>1, ChunkFrameProperties
  <2>5. Len(Slice(imageSize, m)) \in Nat /\ Digits \in Nat
    <3>1. Len(Slice(imageSize, m)) \in 0 .. Chunk
      BY <1>1, <2>1, SliceProperties
    <3> QED
      BY <3>1, Numbers
  <2> HIDE DEF f
  <2>6. IsBinary
    BY <2>3, <2>4 DEF IsBinary
  <2>7. ~Short(FrameGot.payload)
    <3>1. Len(FrameGot.payload) = Digits + Len(Slice(imageSize, m))
      BY <2>3, <2>4
    <3> QED
      BY <2>5, <3>1 DEF Short
  <2>8. Seqno = m /\ Data = Slice(imageSize, m)
    BY <2>3, <2>4 DEF Seqno, Data
  <2>9. ~IsBegin /\ ~IsAnswered
    BY <2>6 DEF IsBegin, IsControl, IsAnswered
  <2> QED
    BY <1>3, <2>1, <2>6, <2>7, <2>8, <2>9
<1>5. ASSUME m = n
      PROVE  IsEnd /\ ~IsBinary /\ ~IsBegin /\ ~IsAnswered
  <2>1. k + 1 = n + 2
    BY <1>1, <1>5 DEF k
  <2>2. FrameGot = EndFrame
    BY <1>1, <1>3, <2>1, ImageFramesProperties DEF frames
  <2>3. FrameGot.kind = KindJson /\ FrameGot.payload = <<ImageEnd>>
    BY <2>2 DEF EndFrame
  <2>4. ~IsBinary
    BY <2>3, Numbers DEF IsBinary
  <2>5. Len(FrameGot.payload) = 1 /\ Head(FrameGot.payload) = ImageEnd
    BY <2>3
  <2>6. 1 # 1 + 2 * Digits
    BY Numbers
  <2> QED
    BY <2>4, <2>5, <2>6 DEF IsEnd, IsBegin, IsControl, IsAnswered, ImageEnd, OtherType
<1>6. m < n \/ m = n
  BY <1>1
<1> QED
  BY <1>4, <1>5, <1>6 DEF frames

-----------------------------------------------------------------------------
(* The slices of an image make the image *)

\* b"".join in ImageReassembler.finish: the chunks of an image, in their order, are the image,
\* the short last one and the empty one of an empty image included.
LEMMA SlicesJoined ==
  ASSUME NEW size \in 0 .. Word - 1
  PROVE  FlattenSeq([i \in 1 .. Chunks(size) |-> Slice(size, i - 1)])
           = [b \in 1 .. size |-> Content(size)[b - 1]]
<1> DEFINE n == Chunks(size)
           e(i) == Slice(size, i - 1)
           slices == [i \in 1 .. n |-> e(i)]
           image == [b \in 1 .. size |-> Content(size)[b - 1]]
<1>1. /\ n \in Nat /\ n > 0 /\ size \in Nat /\ size <= n * Chunk
      /\ Chunk \in Nat /\ Chunk > 0
  <2>1. n \in 1 .. Word - 1 /\ size \in Nat /\ size <= n * Chunk
    BY ChunksProperties
  <2> QED
    BY <2>1, Numbers
<1>2. \A i \in 1 .. n : i - 1 \in 0 .. n - 1
  BY <1>1
<1>3. \A i \in 1 .. n : e(i) \in Seq(Bytes)
  BY <1>2, SliceProperties
<1> HIDE DEF n, e
<1>4. slices \in Seq(Seq(Bytes)) /\ Len(slices) = n /\ \A i \in 1 .. n : slices[i] = e(i)
  <2>1. slices \in [1 .. n -> Seq(Bytes)]
    BY <1>3
  <2> QED
    BY <1>1, <2>1
<1> HIDE DEF slices
<1> DEFINE f == JoinedFirst(slices)
<1>5. /\ f[0] = << >> /\ \A i \in 1 .. n : f[i] = f[i - 1] \o slices[i]
      /\ \A i \in 0 .. n : f[i] \in Seq(Bytes)
  BY <1>4, JoinedProperties
<1>6. FlattenSeq(slices) = f[n]
  BY <1>4, FlattenIsJoined
<1> HIDE DEF f
<1> DEFINE First(s, k) == Len(s) = Covered(size, k)
                          /\ \A b \in 1 .. Covered(size, k) : s[b] = Content(size)[b - 1]
           T == {k \in Nat : k <= n => First(f[k], k)}
<1>7. 0 \in T
  <2>1. 0 * Chunk = 0
    BY <1>1
  <2>2. Covered(size, 0) = 0
    BY <1>1, <2>1 DEF Covered
  <2> QED
    BY <1>5, <2>2
<1>8. ASSUME NEW k \in Nat, k \in T
      PROVE  k + 1 \in T
  <2>1. ASSUME k + 1 <= n
        PROVE  First(f[k + 1], k + 1)
    <3> DEFINE s == f[k]
               t == slices[k + 1]
               at == k * Chunk
               next == (k + 1) * Chunk
    <3>1. k \in 0 .. n - 1 /\ k \in 0 .. n /\ k + 1 \in 1 .. n /\ (k + 1) - 1 = k /\ k <= n
      BY <1>1, <2>1
    <3>2. t = Slice(size, k)
      BY <1>4, <3>1 DEF e
    <3>3. /\ at \in Nat /\ at <= size
          /\ t \in Seq(Bytes)
          /\ Len(t) = IF size - at < Chunk THEN size - at ELSE Chunk
          /\ Len(t) \in 0 .. Chunk
          /\ \A j \in 1 .. Len(t) : t[j] = Content(size)[at + j - 1]
      <4> HIDE DEF t
      <4>1. k \in 0 .. Chunks(size) - 1
        BY <3>1 DEF n
      <4> QED
        BY <3>2, <4>1, SliceProperties
    <3>4. s \in Seq(Bytes) /\ f[k + 1] = s \o t
      <4>1. f[k + 1] = f[(k + 1) - 1] \o slices[k + 1]
        BY <1>5, <3>1
      <4> QED
        BY <1>5, <3>1, <4>1
    <3>5. First(s, k)
      BY <1>8, <3>1
    <3>6. next = at + Chunk /\ next \in Nat
      BY <1>1
    <3> HIDE DEF at, next, t
    <3>7. Covered(size, k) = at
      <4>1. Covered(size, k) = IF at < size THEN at ELSE size
        BY DEF Covered, at
      <4> QED
        BY <1>1, <3>3, <4>1
    <3>8. Covered(size, k + 1) = at + Len(t)
      <4>1. Covered(size, k + 1) = IF next < size THEN next ELSE size
        BY DEF Covered, next
      <4> QED
        BY <1>1, <3>3, <3>6, <4>1
    <3>9. Len(s) = at /\ \A b \in 1 .. at : s[b] = Content(size)[b - 1]
      BY <3>5, <3>7
    <3> HIDE DEF s
    <3>10. /\ Len(s \o t) = at + Len(t)
           /\ \A b \in 1 .. at + Len(t) : (s \o t)[b] = IF b <= at THEN s[b] ELSE t[b - at]
      <4>1. /\ Len(s \o t) = Len(s) + Len(t)
            /\ \A b \in 1 .. Len(s) + Len(t) : (s \o t)[b] = IF b <= Len(s) THEN s[b] ELSE t[b - Len(s)]
        BY <3>3, <3>4, ConcatProperties
      <4> QED
        BY <3>9, <4>1
    <3>11. ASSUME NEW b \in 1 .. at + Len(t)
           PROVE  (s \o t)[b] = Content(size)[b - 1]
      <4>1. CASE b <= at
        <5>1. b \in 1 .. at
          BY <3>3, <4>1
        <5> QED
          BY <3>9, <3>10, <4>1, <5>1
      <4>2. CASE ~(b <= at)
        <5>1. at \in Nat /\ Len(t) \in Nat /\ b \in Nat
          <6>1. at \in Nat /\ Len(t) \in Nat
            BY <3>3
          <6> QED
            BY <6>1
        <5>2. b - at \in 1 .. Len(t) /\ at + (b - at) - 1 = b - 1
          BY <4>2, <5>1
        <5> QED
          BY <3>3, <3>10, <4>2, <5>2
      <4> QED
        BY <4>1, <4>2
    <3> QED
      BY <3>4, <3>8, <3>10, <3>11
  <2> HIDE DEF First
  <2>2. k + 1 \in Nat
    OBVIOUS
  <2> QED
    BY <2>1, <2>2, Zenon
<1> HIDE DEF T
<1>9. Nat \subseteq T
  BY <1>7, <1>8, SetInduction
<1>10. First(f[n], n)
  <2> HIDE DEF First
  <2> QED
    BY <1>1, <1>9 DEF T
<1>11. Covered(size, n) = size
  BY <1>1 DEF Covered
<1>12. f[n] = image
  <2>1. f[n] \in Seq(Bytes)
    BY <1>1, <1>5
  <2>2. \A b \in 0 .. size - 1 : Content(size)[b] \in Bytes
    <3>1. 0 \in 0 .. Chunks(size) - 1
      BY <1>1 DEF n
    <3> QED
      BY <3>1, SliceProperties
  <2>3. \A b \in 1 .. size : Content(size)[b - 1] \in Bytes
    <3>1. \A b \in 1 .. size : b - 1 \in 0 .. size - 1
      BY <1>1
    <3> QED
      BY <2>2, <3>1
  <2>4. image \in [1 .. size -> Bytes]
    BY <2>3
  <2>5. image \in Seq(Bytes) /\ Len(image) = size
    BY <1>1, <2>4
  <2>6. \A b \in 1 .. size : image[b] = Content(size)[b - 1]
    OBVIOUS
  <2> HIDE DEF image
  <2>7. Len(f[n]) = Len(image) /\ \A b \in 1 .. Len(f[n]) : f[n][b] = image[b]
    BY <1>10, <1>11, <2>5, <2>6
  <2> QED
    BY <2>1, <2>5, <2>7, SeqEqual
<1> QED
  BY <1>6, <1>12 DEF slices, e, n

\* What the reassembler holds when image_end comes is the image.
LEMMA AllThere ==
  ASSUME Typed, Holds(Chunks(imageSize))
  PROVE  Finishes
<1> DEFINE n == Chunks(imageSize)
           parts == [i \in 1 .. reasm.chunks |-> reasm.data[i - 1]]
           slices == [i \in 1 .. n |-> Slice(imageSize, i - 1)]
           image == [b \in 1 .. imageSize |-> Content(imageSize)[b - 1]]
<1>1. imageSize \in 0 .. Word - 1 /\ imageSize \in Nat /\ n \in Nat
  BY ImageTypes, Numbers
<1>2. /\ reasm.size = imageSize /\ reasm.chunks = n
      /\ DOMAIN reasm.data = 0 .. n - 1
      /\ \A seq \in 0 .. n - 1 : reasm.data[seq] = Slice(imageSize, seq)
  BY DEF Holds
<1>3. parts = slices
  <2>1. \A i \in 1 .. n : i - 1 \in 0 .. n - 1
    BY <1>1
  <2>2. \A i \in 1 .. n : reasm.data[i - 1] = Slice(imageSize, i - 1)
    BY <1>2, <2>1
  <2> QED
    BY <1>2, <2>2
<1>4. FlattenSeq(slices) = image
  BY <1>1, SlicesJoined
<1>5. Len(image) = imageSize
  BY <1>1
<1> HIDE DEF slices, image
<1>6. FlattenSeq(parts) = image
  BY <1>3, <1>4
<1> QED
  BY <1>2, <1>5, <1>6 DEF Finishes, image

\* The image to come is all before the phone.
LEMMA ImageStarts ==
  ASSUME ImageInv, NEW size \in ImageSizes, SendImage(size)
  PROVE  ImageInv'
<1>1. size \in 0 .. Word - 1
  BY Sized
<1>2. ImageFrames(size) \in Seq(WireFrames)
  BY <1>1, ImageFramesProperties
<1>3. FlowsOn(ImageFrames(size), 0)
  BY <1>2, FlowStarts DEF SendImage
<1>4. imageSize' = size /\ reasm' = reasm /\ reasm = NoTransfer /\ upload' = "sending"
  BY DEF SendImage, ImageInv
<1>5. Flowing(ImageFrames(imageSize), 0)'
  BY <1>3, <1>4 DEF Flowing, FlowsOn
<1>6. ~reasm'.begun
  BY <1>4 DEF NoTransfer
<1> QED
  BY <1>4, <1>5, <1>6 DEF ImageInv

\* Steps that keep the order in the stream, and leave the reassembler, keep the invariant.
LEMMA ImageFlows ==
  ASSUME Typed, ImageInv, upload = "sending", damages = 0,
         UNCHANGED <<damages, upload, imageSize, reasm>>,
         SenderWrites \/ SenderStops \/ RecvSome \/ (HeaderTaken /\ Announced(got) <= MaxFrame)
  PROVE  ImageInv'
<1>1. WireInv /\ ImageFrames(imageSize) \in Seq(WireFrames)
  BY ImageTypes DEF Typed
<1>2. CASE ~reasm.begun
  <2> DEFINE k == 0
  <2>1. k \in 0 .. Len(ImageFrames(imageSize)) /\ Flowing(ImageFrames(imageSize), k)
    <3>1. 0 \in 0 .. Chunks(imageSize)
      BY ImageTypes
    <3> QED
      BY <1>2, <3>1, ImageTypes DEF ImageInv
  <2>2. k = 0
    OBVIOUS
  <2> HIDE DEF k
  <2>3. FlowsOn(ImageFrames(imageSize), k)
    BY <1>1, <2>1, FlowStep
  <2>4. Flowing(ImageFrames(imageSize), 0)'
    BY <2>2, <2>3 DEF Flowing, FlowsOn
  <2> QED
    BY <1>2, <2>4 DEF ImageInv
<1>3. CASE reasm.begun
  <2>1. PICK m \in 0 .. Chunks(imageSize) : Flowing(ImageFrames(imageSize), 1 + m) /\ Holds(m)
    BY <1>3 DEF ImageInv
  <2> DEFINE k == 1 + m
  <2>2. k \in 0 .. Len(ImageFrames(imageSize)) /\ Flowing(ImageFrames(imageSize), k)
    BY <2>1, ImageTypes
  <2>3. k = 1 + m
    OBVIOUS
  <2> HIDE DEF k
  <2>4. FlowsOn(ImageFrames(imageSize), k)
    BY <1>1, <2>2, FlowStep
  <2>5. Flowing(ImageFrames(imageSize), 1 + m)'
    BY <2>3, <2>4 DEF Flowing, FlowsOn
  <2>6. Holds(m)'
    BY <2>1 DEF Holds
  <2>7. m \in 0 .. Chunks(imageSize)'
    OBVIOUS
  <2> QED
    BY <1>3, <2>5, <2>6, <2>7 DEF ImageInv
<1> QED
  BY <1>2, <1>3

\* Every step of the phone's end keeps it.
LEMMA ImageStep ==
  ASSUME Typed, ImageInv, UplinkStep
  PROVE  ImageInv'
<1>1. ASSUME NEW size \in ImageSizes, SendImage(size)
      PROVE  ImageInv'
  BY <1>1, ImageStarts
<1>2. CASE PhoneReceives
  <2>1. UNCHANGED <<damages, upload, imageSize, reasm>> /\ upload = "sending"
    BY <1>2 DEF PhoneReceives, RecvSome, HeaderTaken, upVars
  <2>2. CASE damages = 0
    BY <1>2, <2>1, <2>2, ImageFlows DEF PhoneReceives
  <2>3. CASE damages # 0
    BY <2>1, <2>3 DEF ImageInv
  <2> QED
    BY <2>2, <2>3
<1>3. CASE PhoneReceiveFails \/ FrameRefused \/ ImageTaken
  BY <1>3 DEF PhoneReceiveFails, FrameRefused, ImageTaken, EndUpload, ImageInv
<1>4. CASE BeginTaken \/ ChunkAdded \/ FramePassedOver
  <2>1. PhoneFrame /\ AwaitFrame /\ UNCHANGED <<upload, imageSize, damages>> /\ upload = "sending"
    BY <1>4 DEF BeginTaken, ChunkAdded, FramePassedOver, PhoneFrame, AwaitFrame, upVars
  <2>2. CASE damages # 0
    BY <2>1, <2>2 DEF ImageInv
  <2>3. CASE damages = 0 /\ ~reasm.begun
    <3>1. /\ IsBegin /\ ~IsBinary /\ ~IsEnd /\ ~IsAnswered
          /\ Value(SubSeq(FrameGot.payload, 2, 1 + Digits)) = imageSize
          /\ Value(SubSeq(FrameGot.payload, 2 + Digits, 1 + 2 * Digits)) = Chunks(imageSize)
          /\ FlowsOn(ImageFrames(imageSize), 1)
      BY <2>1, <2>3, BeginArrives
    <3>2. BeginTaken
      BY <1>4, <3>1 DEF ChunkAdded, FramePassedOver
    <3>3. reasm' = [begun |-> TRUE, size |-> imageSize, chunks |-> Chunks(imageSize),
                    data |-> << >>]
      BY <3>1, <3>2 DEF BeginTaken
    <3>4. DOMAIN << >> = 0 .. 0 - 1
      OBVIOUS
    <3>5. Holds(0)' /\ reasm'.begun
      BY <2>1, <3>3, <3>4 DEF Holds
    <3>6. Flowing(ImageFrames(imageSize), 1 + 0)'
      BY <2>1, <3>1 DEF Flowing, FlowsOn
    <3>7. 0 \in 0 .. Chunks(imageSize)'
      BY <2>1, ImageTypes
    <3> QED
      BY <2>1, <3>5, <3>6, <3>7 DEF ImageInv
  <2>4. CASE damages = 0 /\ reasm.begun
    <3>1. PICK m \in 0 .. Chunks(imageSize) : Flowing(ImageFrames(imageSize), 1 + m) /\ Holds(m)
      BY <2>1, <2>4 DEF ImageInv
    <3>2. /\ m < Chunks(imageSize) =>
               /\ m \in 0 .. Chunks(imageSize) - 1
               /\ IsBinary /\ ~Short(FrameGot.payload)
               /\ Seqno = m /\ Data = Slice(imageSize, m)
               /\ FlowsOn(ImageFrames(imageSize), 1 + (m + 1))
          /\ m = Chunks(imageSize) => IsEnd /\ ~IsBinary
          /\ ~IsBegin /\ ~IsAnswered
      BY <2>1, <2>4, <3>1, NextArrives
    <3>3. Chunks(imageSize) \in Nat
      BY ImageTypes
    <3>4. ChunkAdded
      BY <1>4, <2>4, <3>2 DEF BeginTaken, FramePassedOver
    <3>5. m < Chunks(imageSize)
      BY <3>2, <3>3, <3>4 DEF ChunkAdded
    <3>6. /\ Seqno = m /\ Data = Slice(imageSize, m)
          /\ FlowsOn(ImageFrames(imageSize), 1 + (m + 1))
          /\ m \in 0 .. Chunks(imageSize) - 1 /\ m + 1 \in 0 .. Chunks(imageSize)
      BY <3>2, <3>3, <3>5
    <3>7. /\ reasm'.begun /\ reasm'.size = reasm.size /\ reasm'.chunks = reasm.chunks
          /\ DOMAIN reasm'.data = DOMAIN reasm.data \cup {m}
          /\ reasm'.data[m] = Slice(imageSize, m)
          /\ \A j \in DOMAIN reasm.data : j # m => reasm'.data[j] = reasm.data[j]
      <4>1. FrameRead /\ Len(FrameGot.payload) \in Nat /\ Digits \in Nat
        BY <2>1, FrameType, Numbers DEF Typed, PhoneFrame
      <4>2. Digits <= Len(FrameGot.payload)
        BY <3>4, <4>1 DEF ChunkAdded, Short
      <4>3. Seqno \in 0 .. Word - 1 /\ Data \in Seq(Bytes) /\ Len(Data) <= MaxFrame - Digits
        BY <4>1, <4>2, ChunkType DEF Typed
      <4>4. UNCHANGED <<upload, imageSize>> /\ reasm' = [reasm EXCEPT !.data = Stored(@, Seqno, Data)]
        BY <3>4 DEF ChunkAdded
      <4>5. UpInv
        BY DEF Typed
      <4>6. /\ reasm'.begun /\ reasm'.size = reasm.size /\ reasm'.chunks = reasm.chunks
            /\ DOMAIN reasm'.data = DOMAIN reasm.data \cup {Seqno}
            /\ reasm'.data[Seqno] = Data
            /\ \A j \in DOMAIN reasm.data : j # Seqno => reasm'.data[j] = reasm.data[j]
        BY <2>4, <4>3, <4>4, <4>5, StoredStep
      <4> QED
        BY <3>6, <4>6
    <3>8. DOMAIN reasm.data = 0 .. m - 1 /\ reasm.size = imageSize
          /\ reasm.chunks = Chunks(imageSize)
          /\ \A seq \in 0 .. m - 1 : reasm.data[seq] = Slice(imageSize, seq)
      BY <3>1 DEF Holds
    <3>9. DOMAIN reasm'.data = 0 .. (m + 1) - 1
      BY <3>7, <3>8
    <3>10. \A seq \in DOMAIN reasm'.data : reasm'.data[seq] = Slice(imageSize, seq)
      BY <3>7, <3>8
    <3>11. Holds(m + 1)'
      BY <2>1, <3>7, <3>8, <3>9, <3>10 DEF Holds
    <3>12. Flowing(ImageFrames(imageSize), 1 + (m + 1))'
      BY <2>1, <3>6 DEF Flowing, FlowsOn
    <3>13. m + 1 \in 0 .. Chunks(imageSize)'
      BY <2>1, <3>6
    <3> QED
      BY <2>1, <3>7, <3>11, <3>12, <3>13 DEF ImageInv
  <2> QED
    BY <2>2, <2>3, <2>4
<1> QED
  BY <1>1, <1>2, <1>3, <1>4 DEF UplinkStep

\* The invariant of the image.
THEOREM ImageInvariance == Spec => []ImageInv
<1>1. Init => ImageInv
  BY DEF Init, InitUp, ImageInv
<1>2. Typed /\ DownInv /\ ImageInv /\ [Next]_vars => ImageInv'
  <2> SUFFICES ASSUME Typed, TurnInv, ImageInv, [Next]_vars
               PROVE  ImageInv'
    BY DEF DownInv
  <2>1. CASE Upload
    BY <2>1, ImageStep DEF Upload
  <2>2. CASE Reply \/ Playback
    <3>1. upload = "taken" /\ UNCHANGED <<upload, reasm>>
      <4>1. CASE Reply
        BY <4>1 DEF Reply, upVars
      <4>2. CASE Playback
        <5>1. phase # "idle"
          BY <4>2 DEF Playback, DownlinkStep, Receive, ReceiveFails, TakeChunk, RefuseChunk,
                      TakeEnd, RefuseEnd, Play
        <5> QED
          BY <4>2, <5>1 DEF Playback, TurnInv, upVars
      <4> QED
        BY <2>2, <4>1, <4>2
    <3> QED
      BY <3>1 DEF ImageInv
  <2>3. CASE Stream
    <3>1. UNCHANGED <<upload, imageSize, reasm>>
      BY <2>3 DEF Stream, upVars
    <3>2. CASE ByteDamaged
      <4>1. damages' # 0
        BY <3>2, DamageStep DEF Typed
      <4> QED
        BY <3>1, <4>1 DEF ImageInv
    <3>3. CASE (SenderWrites \/ SenderStops) /\ upload = "sending" /\ damages = 0
      <4>1. UNCHANGED damages
        BY <3>3 DEF SenderWrites, SenderStops
      <4> QED
        BY <3>1, <3>3, <4>1, ImageFlows
    <3>4. CASE (SenderWrites \/ SenderStops) /\ ~(upload = "sending" /\ damages = 0)
      BY <3>1, <3>4 DEF SenderWrites, SenderStops, ImageInv
    <3> QED
      BY <2>3, <3>2, <3>3, <3>4 DEF Stream
  <2>4. CASE UNCHANGED vars
    <3>1. UNCHANGED <<outgoing, wire, damages, header, got, upload, imageSize, reasm>>
      BY <2>4 DEF vars, wireVars, upVars
    <3>2. \A frames, k : FlowsOn(frames, k) <=> Flowing(frames, k)
      BY <3>1 DEF Flowing, FlowsOn, Flow
    <3>3. CASE upload = "sending" /\ damages = 0 /\ reasm.begun
      <4>1. PICK m \in 0 .. Chunks(imageSize) : Flowing(ImageFrames(imageSize), 1 + m) /\ Holds(m)
        BY <3>3 DEF ImageInv
      <4>2. Flowing(ImageFrames(imageSize), 1 + m)' /\ Holds(m)' /\ m \in 0 .. Chunks(imageSize)'
        BY <3>1, <4>1 DEF Flowing, Flow, Holds
      <4> QED
        BY <3>1, <3>3, <4>2 DEF ImageInv
    <3>4. CASE upload = "sending" /\ damages = 0 /\ ~reasm.begun
      <4>1. Flowing(ImageFrames(imageSize), 0)'
        BY <3>1, <3>4 DEF Flowing, Flow, ImageInv
      <4> QED
        BY <3>1, <3>4, <4>1 DEF ImageInv
    <3>5. CASE ~(upload = "sending" /\ damages = 0)
      BY <3>1, <3>5 DEF ImageInv
    <3> QED
      BY <3>3, <3>4, <3>5
  <2> QED
    BY <2>1, <2>2, <2>3, <2>4 DEF Next
<1> QED
  BY <1>1, <1>2, TypeInvariance, SpeechInvariance, PTL DEF Spec

\* However the stream is cut, the reassembler holds the first chunks of an undamaged image, each
\* under its own number.
THEOREM ChunksKept == Spec => []UndamagedChunks
<1>1. Typed /\ ImageInv => UndamagedChunks
  <2> SUFFICES ASSUME Typed, ImageInv, reasm.begun, damages = 0
               PROVE  /\ reasm.size = imageSize /\ reasm.chunks = Chunks(imageSize)
                      /\ DOMAIN reasm.data = 0 .. Cardinality(DOMAIN reasm.data) - 1
                      /\ \A seq \in DOMAIN reasm.data : reasm.data[seq] = Slice(imageSize, seq)
    BY DEF UndamagedChunks
  <2>1. upload = "sending"
    BY DEF ImageInv, NoTransfer
  <2>2. PICK m \in 0 .. Chunks(imageSize) : Holds(m)
    BY <2>1 DEF ImageInv
  <2>3. m \in Nat
    BY ImageTypes
  <2>4. Cardinality(0 .. m - 1) = m
    <3>1. m - 1 \in Int /\ 0 \in Int
      BY <2>3
    <3>2. Cardinality(0 .. m - 1) = IF 0 > m - 1 THEN 0 ELSE (m - 1) - 0 + 1
      BY <3>1, FS_Interval
    <3> QED
      BY <2>3, <3>2
  <2> QED
    BY <2>2, <2>4 DEF Holds
<1> QED
  BY <1>1, TypeInvariance, ImageInvariance, PTL

\* None of the checks refuses a frame of an undamaged image.
LEMMA ImageNotRefused ==
  ASSUME Typed, DownInv, ImageInv, [Next]_vars, upload = "sending", damages = 0, Full
  PROVE  upload' # "none"
<1>1. ~PhoneReceiveFails
  <2>1. SUFFICES ASSUME HeaderRead PROVE ~(Announced(got) > MaxFrame)
    BY DEF PhoneReceiveFails
  <2> DEFINE frames == ImageFrames(imageSize)
  <2>2. \E k \in 0 .. Len(frames) : Flowing(frames, k)
    <3>1. CASE reasm.begun
      <4>1. PICK m \in 0 .. Chunks(imageSize) : Flowing(frames, 1 + m)
        BY <3>1 DEF ImageInv
      <4>2. 1 + m \in 0 .. Len(frames)
        BY ImageTypes
      <4> QED
        BY <4>1, <4>2
    <3>2. CASE ~reasm.begun
      <4>1. 0 \in 0 .. Chunks(imageSize)
        BY ImageTypes
      <4>2. 0 \in 0 .. Len(frames)
        BY <4>1, ImageTypes
      <4> QED
        BY <3>2, <4>2 DEF ImageInv
    <3> QED
      BY <3>1, <3>2
  <2>3. PICK k \in 0 .. Len(frames) : Flowing(frames, k)
    BY <2>2
  <2>4. frames \in Seq(WireFrames) /\ WireInv
    BY ImageTypes DEF Typed
  <2> HIDE DEF frames
  <2>5. k + 1 \in 1 .. Len(frames) /\ Announced(got) = Len(frames[k + 1].payload)
    BY <2>1, <2>3, <2>4, HeaderArrived
  <2>6. Len(frames[k + 1].payload) \in 0 .. MaxFrame
    BY <2>4, <2>5, SentProperties, HeaderProperties
  <2> QED
    BY <2>5, <2>6, Numbers
<1>2. ~FrameRefused
  <2> SUFFICES ASSUME FrameRefused PROVE FALSE
    OBVIOUS
  <2>1. PhoneFrame
    BY DEF FrameRefused
  <2>2. CASE ~reasm.begun
    BY <2>1, <2>2, BeginArrives DEF FrameRefused
  <2>3. CASE reasm.begun
    <3>1. PICK m \in 0 .. Chunks(imageSize) : Flowing(ImageFrames(imageSize), 1 + m) /\ Holds(m)
      BY <2>3 DEF ImageInv
    <3>2. m < Chunks(imageSize) \/ m = Chunks(imageSize)
      BY ImageTypes
    <3>3. CASE m < Chunks(imageSize)
      <4>1. IsBinary /\ ~Short(FrameGot.payload)
        BY <2>1, <2>3, <3>1, <3>3, NextArrives
      <4>2. ~IsEnd
        BY <4>1 DEF IsEnd, IsControl
      <4> QED
        BY <4>1, <4>2 DEF FrameRefused
    <3>4. CASE m = Chunks(imageSize)
      <4>1. IsEnd /\ ~IsBinary
        BY <2>1, <2>3, <3>1, <3>4, NextArrives
      <4>2. Finishes
        BY <3>1, <3>4, AllThere
      <4> QED
        BY <4>1, <4>2 DEF FrameRefused
    <3> QED
      BY <3>2, <3>3, <3>4
  <2> QED
    BY <2>2, <2>3
<1>3. CASE Upload
  <2>1. UplinkStep /\ (\A size \in ImageSizes : ~SendImage(size))
    BY <1>3 DEF Upload, SendImage
  <2>2. PhoneReceives \/ BeginTaken \/ ChunkAdded \/ FramePassedOver \/ ImageTaken
    BY <1>1, <1>2, <2>1 DEF UplinkStep
  <2> QED
    BY <2>2 DEF PhoneReceives, BeginTaken, ChunkAdded, FramePassedOver, ImageTaken, EndUpload, upVars
<1>4. CASE Reply \/ Playback \/ Stream \/ UNCHANGED vars
  BY <1>4 DEF Reply, Playback, Stream, vars, upVars
<1> QED
  BY <1>3, <1>4 DEF Next

\* None of the checks of recv_frame, handle_connection and ImageReassembler refuses a frame of an
\* undamaged image, whatever its size.
THEOREM ImageIsTaken == Spec => UndamagedImageIsTaken
<1>1. Typed /\ DownInv /\ ImageInv /\ [Next]_vars =>
        [upload = "sending" /\ damages = 0 /\ Full => upload' # "none"]_vars
  BY ImageNotRefused
<1> QED
  BY <1>1, TypeInvariance, SpeechInvariance, ImageInvariance, PTL DEF Spec, UndamagedImageIsTaken
==============================================================================
