--------------------------- MODULE SequenceLemmas ---------------------------
(***************************************************************************)
(* Lemmas about numbers and sequences that the proofs of several modules   *)
(* need: induction, sequences joined, cut and compared.                    *)
(***************************************************************************)
EXTENDS Integers, SequencesExt, SequenceTheorems, WellFoundedInduction, TLAPS

-----------------------------------------------------------------------------
(* Induction *)

\* Induction, for a property given as the set of the numbers that have it.
LEMMA SetInduction ==
  ASSUME NEW S, 0 \in S, \A n \in Nat : n \in S => n + 1 \in S
  PROVE  Nat \subseteq S
<1> DEFINE T == Nat \ S
<1>1. SUFFICES ASSUME T # {} PROVE FALSE
  OBVIOUS
<1>2. PICK x \in T : \A y \in T : ~(<<y, x>> \in OpToRel(<, Nat))
  BY <1>1, NatLessThanWellFounded, WFMin
<1>3. x - 1 \in Nat /\ x - 1 < x
  OBVIOUS
<1>4. <<x - 1, x>> \in OpToRel(<, Nat)
  BY <1>3 DEF OpToRel
<1>5. x - 1 \in S
  BY <1>2, <1>3, <1>4
<1> QED
  BY <1>3, <1>5

-----------------------------------------------------------------------------
(* Sequences cut in two *)

\* One element is a sequence.
LEMMA Singleton ==
  ASSUME NEW S, NEW e \in S
  PROVE  <<e>> \in Seq(S) /\ Len(<<e>>) = 1 /\ <<e>>[1] = e
OBVIOUS

\* A sequence cut in two.
LEMMA Cut ==
  ASSUME NEW S, NEW s \in Seq(S), NEW n \in 0 .. Len(s)
  PROVE  LET a == SubSeq(s, 1, n)
             b == SubSeq(s, n + 1, Len(s))
         IN  /\ a \in Seq(S) /\ Len(a) = n /\ \A i \in 1 .. n : a[i] = s[i]
             /\ b \in Seq(S) /\ Len(b) = Len(s) - n /\ \A i \in 1 .. Len(b) : b[i] = s[n + i]
             /\ s = a \o b
<1> DEFINE a == SubSeq(s, 1, n)
           m == n + 1
           k == Len(s)
           b == SubSeq(s, m, k)
<1>1. k \in Nat /\ n \in Nat /\ n <= k /\ \A i \in 1 .. k : s[i] \in S
  BY LenProperties, ElementOfSeq
<1>2. a \in Seq(S) /\ Len(a) = n /\ \A i \in 1 .. n : a[i] = s[i]
  <2> DEFINE one == 1
  <2>1. one \in Int /\ n \in Int /\ \A i \in one .. n : s[i] \in S
    BY <1>1
  <2>2. one = 1
    OBVIOUS
  <2> HIDE DEF one
  <2>3. /\ SubSeq(s, one, n) \in Seq(S) /\ Len(SubSeq(s, one, n)) = IF one <= n THEN n - one + 1 ELSE 0
        /\ \A i \in 1 .. n - one + 1 : SubSeq(s, one, n)[i] = s[one + i - 1]
    BY <2>1, SubSeqProperties
  <2> DEFINE u == SubSeq(s, one, n)
  <2>4. a = u
    BY <2>2
  <2> HIDE DEF a, u
  <2>5. u \in Seq(S) /\ Len(u) = n /\ \A i \in 1 .. n : u[i] = s[i]
    <3>1. n - one + 1 = n /\ \A i \in 1 .. n : one + i - 1 = i
      BY <1>1, <2>2
    <3> QED
      BY <1>1, <2>2, <2>3, <3>1 DEF u
  <2> QED
    BY <2>4, <2>5
<1>3. b \in Seq(S) /\ Len(b) = k - n /\ \A i \in 1 .. Len(b) : b[i] = s[n + i]
  <2>1. m \in Int /\ k \in Int /\ \A i \in m .. k : s[i] \in S
    BY <1>1
  <2>2. m = n + 1
    OBVIOUS
  <2> HIDE DEF m, k
  <2>3. /\ b \in Seq(S) /\ Len(b) = IF m <= k THEN k - m + 1 ELSE 0
        /\ \A i \in 1 .. k - m + 1 : b[i] = s[m + i - 1]
    BY <2>1, SubSeqProperties
  <2> HIDE DEF b
  <2>4. Len(b) = k - n
    BY <1>1, <2>2, <2>3
  <2>5. \A i \in 1 .. Len(b) : i \in 1 .. k - m + 1 /\ m + i - 1 = n + i
    BY <1>1, <2>2, <2>4
  <2> QED
    BY <2>3, <2>4, <2>5
<1>4. s = a \o b
  <2>1. 1 \in 1 .. k + 1 /\ n \in (1 - 1) .. k /\ k \in n .. k
    BY <1>1
  <2>2. SubSeq(s, 1, n) \o SubSeq(s, n + 1, k) = SubSeq(s, 1, k)
    BY <2>1, ConcatAdjacentSubSeq
  <2> QED
    BY <2>2, SubSeqFull
<1> QED
  BY <1>2, <1>3, <1>4

\* Bytes that move from one part of the stream to the next keep their place.
LEMMA Regrouped ==
  ASSUME NEW S, NEW g \in Seq(S), NEW a \in Seq(S), NEW b \in Seq(S), NEW o \in Seq(S)
  PROVE  (g \o a) \o (b \o o) = g \o ((a \o b) \o o)
<1>1. b \o o \in Seq(S)
  BY ConcatProperties
<1>2. (a \o b) \o o = a \o (b \o o)
  BY ConcatAssociative
<1>3. \A u \in Seq(S) : (g \o a) \o u = g \o (a \o u)
  <2> SUFFICES ASSUME NEW u \in Seq(S) PROVE (g \o a) \o u = g \o (a \o u)
    OBVIOUS
  <2> QED
    BY ConcatAssociative, SMTT(60)
<1> QED
  BY <1>1, <1>2, <1>3, Zenon

-----------------------------------------------------------------------------
(* Sequences one after another *)

\* The first i of seqs, joined.
IsJoined(f, seqs, n) == f = [i \in 0 .. n |-> IF i = 0 THEN << >> ELSE f[i - 1] \o seqs[i]]

JoinedFirst(seqs) == CHOOSE f : IsJoined(f, seqs, Len(seqs))

\* The sequences can be joined, as FlattenSeq does it: one after another.
LEMMA JoinedExists ==
  ASSUME NEW seqs
  PROVE  \A n \in Nat : \E f : IsJoined(f, seqs, n)
<1> DEFINE S == {n \in Nat : \E f : IsJoined(f, seqs, n)}
<1>1. 0 \in S
  <2>1. IsJoined([i \in 0 .. 0 |-> << >>], seqs, 0)
    BY DEF IsJoined
  <2> QED
    BY <2>1
<1>2. ASSUME NEW n \in Nat, n \in S
      PROVE  n + 1 \in S
  <2>1. PICK f : IsJoined(f, seqs, n)
    BY <1>2
  <2> DEFINE g == [i \in 0 .. n + 1 |-> IF i \in 0 .. n THEN f[i] ELSE f[n] \o seqs[n + 1]]
  <2>2. ASSUME NEW i \in 0 .. n + 1
        PROVE  g[i] = IF i = 0 THEN << >> ELSE g[i - 1] \o seqs[i]
    BY <2>1 DEF IsJoined
  <2>3. IsJoined(g, seqs, n + 1)
    BY <2>2 DEF IsJoined
  <2> QED
    BY <2>3
<1> HIDE DEF S
<1>3. Nat \subseteq S
  BY <1>1, <1>2, SetInduction
<1> QED
  BY <1>3 DEF S

\* The first of them, and one more.
LEMMA JoinedProperties ==
  ASSUME NEW S, NEW seqs \in Seq(Seq(S))
  PROVE  /\ JoinedFirst(seqs)[0] = << >>
         /\ \A i \in 1 .. Len(seqs) : JoinedFirst(seqs)[i] = JoinedFirst(seqs)[i - 1] \o seqs[i]
         /\ \A i \in 0 .. Len(seqs) : JoinedFirst(seqs)[i] \in Seq(S)
<1> DEFINE f == JoinedFirst(seqs)
<1>1. Len(seqs) \in Nat /\ \A i \in 1 .. Len(seqs) : seqs[i] \in Seq(S)
  BY LenProperties, ElementOfSeq
<1>2. IsJoined(f, seqs, Len(seqs))
  <2>1. \E g : IsJoined(g, seqs, Len(seqs))
    BY <1>1, JoinedExists
  <2> QED
    BY <2>1, Zenon DEF JoinedFirst
<1> HIDE DEF f
<1>3. \A i \in 0 .. Len(seqs) : f[i] = IF i = 0 THEN << >> ELSE f[i - 1] \o seqs[i]
  BY <1>2 DEF IsJoined
<1>4. f[0] = << >> /\ \A i \in 1 .. Len(seqs) : f[i] = f[i - 1] \o seqs[i]
  <2>1. 0 \in 0 .. Len(seqs) /\ \A i \in 1 .. Len(seqs) : i \in 0 .. Len(seqs) /\ i # 0
    BY <1>1
  <2> QED
    BY <1>3, <2>1, Zenon
<1> DEFINE T == {n \in Nat : n <= Len(seqs) => f[n] \in Seq(S)}
<1>5. 0 \in T
  BY <1>4, EmptySeq
<1>6. ASSUME NEW n \in Nat, n \in T
      PROVE  n + 1 \in T
  <2>1. CASE n + 1 <= Len(seqs)
    <3>1. n + 1 \in 1 .. Len(seqs) /\ (n + 1) - 1 = n /\ n <= Len(seqs)
      BY <1>1, <2>1
    <3>2. f[n] \in Seq(S) /\ seqs[n + 1] \in Seq(S)
      BY <1>1, <1>6, <3>1
    <3>3. f[n + 1] = f[n] \o seqs[n + 1]
      BY <1>4, <3>1
    <3>4. f[n] \o seqs[n + 1] \in Seq(S) /\ n + 1 \in Nat
      BY <3>2, ConcatProperties
    <3> QED
      BY <3>3, <3>4, Zenon
  <2> QED
    BY <2>1
<1> HIDE DEF T
<1>7. Nat \subseteq T
  BY <1>5, <1>6, SetInduction
<1>8. \A i \in 0 .. Len(seqs) : f[i] \in Seq(S)
  BY <1>1, <1>7 DEF T
<1> QED
  BY <1>4, <1>8 DEF f

\* All of them make what FlattenSeq makes.
LEMMA FlattenIsJoined ==
  ASSUME NEW S, NEW seqs \in Seq(Seq(S))
  PROVE  FlattenSeq(seqs) = JoinedFirst(seqs)[Len(seqs)]
<1> DEFINE f == JoinedFirst(seqs)
           IsFlat(g) == g = [i \in 1 .. Len(seqs) |->
                               IF i = 1 THEN seqs[i] ELSE g[i - 1] \o seqs[i]]
           h == CHOOSE g : IsFlat(g)
<1>1. Len(seqs) \in Nat /\ \A i \in 1 .. Len(seqs) : seqs[i] \in Seq(S)
  BY LenProperties, ElementOfSeq
<1>2. f[0] = << >> /\ \A i \in 1 .. Len(seqs) : f[i] = f[i - 1] \o seqs[i]
  BY JoinedProperties
<1>3. CASE Len(seqs) = 0
  <2>1. seqs = << >>
    BY <1>3, EmptySeq
  <2> QED
    BY <1>2, <1>3, <2>1 DEF FlattenSeq
<1>4. CASE Len(seqs) # 0
  <2>1. \A i \in 1 .. Len(seqs) : f[i] = IF i = 1 THEN seqs[i] ELSE f[i - 1] \o seqs[i]
    <3> SUFFICES ASSUME NEW i \in 1 .. Len(seqs)
                 PROVE  f[i] = IF i = 1 THEN seqs[i] ELSE f[i - 1] \o seqs[i]
      OBVIOUS
    <3>1. CASE i = 1
      <4>1. f[1] = f[0] \o seqs[1] /\ seqs[1] \in Seq(S)
        <5>1. 1 \in 1 .. Len(seqs) /\ 1 - 1 = 0
          BY <3>1
        <5>2. f[1] = f[1 - 1] \o seqs[1]
          BY <1>2, <5>1
        <5> QED
          BY <1>1, <5>1, <5>2, Zenon
      <4> QED
        BY <1>2, <3>1, <4>1, ConcatEmptySeq
    <3> QED
      BY <1>2, <3>1
  <2>2. FlattenSeq(seqs) = h[Len(seqs)]
    BY <1>4 DEF FlattenSeq
  <2>3. IsFlat([i \in 1 .. Len(seqs) |-> f[i]])
    <3> HIDE DEF f
    <3> DEFINE e == [i \in 1 .. Len(seqs) |-> f[i]]
    <3>1. ASSUME NEW i \in 1 .. Len(seqs)
          PROVE  e[i] = IF i = 1 THEN seqs[i] ELSE e[i - 1] \o seqs[i]
      <4>1. CASE i = 1
        BY <2>1, <4>1
      <4>2. CASE i # 1
        <5>1. i - 1 \in 1 .. Len(seqs)
          BY <1>1, <4>2
        <5> QED
          BY <2>1, <4>2, <5>1
      <4> QED
        BY <4>1, <4>2
    <3> QED
      BY <3>1
  <2>4. IsFlat(h)
    BY <2>3, Zenon
  <2> HIDE DEF h, f
  <2> DEFINE T == {n \in Nat : n + 1 <= Len(seqs) => h[n + 1] = f[n + 1]}
  <2>5. 0 \in T
    BY <1>1, <1>4, <2>1, <2>4
  <2>6. ASSUME NEW n \in Nat, n \in T
        PROVE  (n + 1) \in T
    <3>1. CASE (n + 1) + 1 <= Len(seqs)
      <4> DEFINE m == n + 1
      <4>1. m + 1 \in 1 .. Len(seqs) /\ m + 1 # 1 /\ (m + 1) - 1 = m /\ m <= Len(seqs)
        BY <1>1, <3>1
      <4>2. h[m] = f[m]
        BY <2>6, <4>1
      <4> HIDE DEF m
      <4>3. h[m + 1] = h[m] \o seqs[m + 1] /\ f[m + 1] = f[m] \o seqs[m + 1]
        BY <2>1, <2>4, <4>1
      <4>4. h[m + 1] = f[m + 1] /\ m \in Nat
        BY <4>2, <4>3 DEF m
      <4> QED
        BY <4>4, Zenon DEF m
    <3> QED
      BY <3>1
  <2> HIDE DEF T
  <2>7. Nat \subseteq T
    BY <2>5, <2>6, SetInduction
  <2>8. PICK n \in Nat : n + 1 = Len(seqs)
    <3>1. Len(seqs) - 1 \in Nat /\ (Len(seqs) - 1) + 1 = Len(seqs)
      BY <1>1, <1>4
    <3> QED
      BY <3>1
  <2>9. h[Len(seqs)] = f[Len(seqs)]
    BY <1>1, <2>7, <2>8 DEF T
  <2> QED
    BY <2>2, <2>9 DEF f
<1> QED
  BY <1>3, <1>4

-----------------------------------------------------------------------------
(* Prefixes *)

Begins(s, t) == Len(s) <= Len(t) /\ \A i \in 1 .. Len(s) : s[i] = t[i]

\* What begins begins with all of its beginnings.
LEMMA BeginsTransitive ==
  ASSUME NEW S, NEW r \in Seq(S), NEW s \in Seq(S), NEW t \in Seq(S),
         Begins(r, s), Begins(s, t)
  PROVE  Begins(r, t)
<1>1. Len(r) \in Nat /\ Len(s) \in Nat /\ Len(t) \in Nat
  BY LenProperties
<1> QED
  BY <1>1 DEF Begins

\* A sequence begins what it is continued to.
LEMMA BeginsConcat ==
  ASSUME NEW S, NEW s \in Seq(S), NEW t \in Seq(S)
  PROVE  Begins(s, s \o t)
<1>1. Len(s) \in Nat /\ Len(t) \in Nat
  BY LenProperties
<1> QED
  BY <1>1, ConcatProperties DEF Begins

\* Two beginnings of a sequence agree as far as the shorter goes.
LEMMA BeginsBoth ==
  ASSUME NEW S, NEW p \in Seq(S), NEW a \in Seq(S), NEW b \in Seq(S), NEW t \in Seq(S),
         Begins(p \o a, t), Begins(p \o b, t)
  PROVE  \A i \in 1 .. Len(a) : i <= Len(b) => a[i] = b[i]
<1>1. Len(p) \in Nat /\ Len(a) \in Nat /\ Len(b) \in Nat
  BY LenProperties
<1>2. /\ Len(p \o a) = Len(p) + Len(a)
      /\ \A i \in 1 .. Len(p) + Len(a) : (p \o a)[i] = IF i <= Len(p) THEN p[i] ELSE a[i - Len(p)]
  BY ConcatProperties
<1>3. /\ Len(p \o b) = Len(p) + Len(b)
      /\ \A i \in 1 .. Len(p) + Len(b) : (p \o b)[i] = IF i <= Len(p) THEN p[i] ELSE b[i - Len(p)]
  BY ConcatProperties
<1> SUFFICES ASSUME NEW i \in 1 .. Len(a), i <= Len(b) PROVE a[i] = b[i]
  OBVIOUS
<1> DEFINE k == Len(p) + i
<1>4. k \in 1 .. Len(p) + Len(a) /\ k \in 1 .. Len(p) + Len(b) /\ ~(k <= Len(p)) /\ k - Len(p) = i
  BY <1>1
<1> HIDE DEF k
<1>5. (p \o a)[k] = a[i] /\ (p \o b)[k] = b[i]
  BY <1>2, <1>3, <1>4
<1>6. (p \o a)[k] = t[k] /\ (p \o b)[k] = t[k]
  BY <1>2, <1>3, <1>4 DEF Begins
<1> QED
  BY <1>5, <1>6

\* Less behind the same bytes begins what more behind them begins.
LEMMA BeginsLess ==
  ASSUME NEW S, NEW p \in Seq(S), NEW a \in Seq(S), NEW b \in Seq(S), NEW t \in Seq(S),
         Begins(a, b), Begins(p \o b, t)
  PROVE  Begins(p \o a, t)
<1>1. Len(p) \in Nat /\ Len(a) \in Nat /\ Len(b) \in Nat /\ Len(a) <= Len(b)
  BY LenProperties DEF Begins
<1> DEFINE pa == p \o a
           pb == p \o b
<1>2. /\ pa \in Seq(S) /\ Len(pa) = Len(p) + Len(a)
      /\ \A i \in 1 .. Len(p) + Len(a) : pa[i] = IF i <= Len(p) THEN p[i] ELSE a[i - Len(p)]
  BY ConcatProperties
<1>3. /\ pb \in Seq(S) /\ Len(pb) = Len(p) + Len(b)
      /\ \A i \in 1 .. Len(p) + Len(b) : pb[i] = IF i <= Len(p) THEN p[i] ELSE b[i - Len(p)]
  BY ConcatProperties
<1> HIDE DEF pa, pb
<1>4. ASSUME NEW i \in 1 .. Len(pa)
      PROVE  pa[i] = pb[i]
  <2>1. i \in 1 .. Len(p) + Len(a) /\ i \in 1 .. Len(p) + Len(b) /\ i \in Nat
    BY <1>1, <1>2
  <2>2. CASE i <= Len(p)
    BY <1>2, <1>3, <2>1, <2>2
  <2>3. CASE ~(i <= Len(p))
    <3>1. i - Len(p) \in 1 .. Len(a)
      BY <1>1, <2>1, <2>3
    <3>2. a[i - Len(p)] = b[i - Len(p)]
      BY <3>1 DEF Begins
    <3> QED
      BY <1>2, <1>3, <2>1, <2>3, <3>2
  <2> QED
    BY <2>2, <2>3
<1>5. Begins(pa, pb)
  <2>1. Len(pa) <= Len(pb)
    BY <1>1, <1>2, <1>3
  <2> QED
    BY <1>4, <2>1 DEF Begins
<1>6. Begins(pa, t)
  <2>1. Begins(pb, t)
    BY DEF pb
  <2> QED
    BY <1>2, <1>3, <1>5, <2>1, BeginsTransitive
<1> QED
  BY <1>6 DEF pa

\* The joined sequences begin with the first of them.
LEMMA JoinedBegins ==
  ASSUME NEW S, NEW seqs \in Seq(Seq(S)), NEW k \in 0 .. Len(seqs)
  PROVE  Begins(JoinedFirst(seqs)[k], JoinedFirst(seqs)[Len(seqs)])
<1> DEFINE f == JoinedFirst(seqs)
           T == {n \in Nat : k + n <= Len(seqs) => Begins(f[k], f[k + n])}
<1>1. Len(seqs) \in Nat /\ \A i \in 1 .. Len(seqs) : seqs[i] \in Seq(S)
  BY LenProperties, ElementOfSeq
<1>2. /\ \A i \in 1 .. Len(seqs) : f[i] = f[i - 1] \o seqs[i]
      /\ \A i \in 0 .. Len(seqs) : f[i] \in Seq(S)
  BY JoinedProperties
<1> HIDE DEF f
<1>3. 0 \in T
  <2>1. k + 0 = k /\ f[k] \in Seq(S)
    BY <1>1, <1>2
  <2>2. Len(f[k]) \in Nat
    BY <2>1, LenProperties
  <2> QED
    BY <2>1, <2>2 DEF Begins
<1>4. ASSUME NEW n \in Nat, n \in T
      PROVE  n + 1 \in T
  <2>1. CASE k + (n + 1) <= Len(seqs)
    <3> DEFINE j == k + n
    <3>1. j + 1 = k + (n + 1) /\ j \in 0 .. Len(seqs) /\ j + 1 \in 1 .. Len(seqs) /\ (j + 1) - 1 = j
          /\ k + n <= Len(seqs)
      BY <1>1, <2>1
    <3>2. Begins(f[k], f[j])
      BY <1>4, <3>1
    <3> HIDE DEF j
    <3>3. f[j + 1] = f[j] \o seqs[j + 1] /\ f[j] \in Seq(S) /\ seqs[j + 1] \in Seq(S)
      BY <1>1, <1>2, <3>1
    <3>4. Begins(f[j], f[j + 1]) /\ f[j + 1] \in Seq(S)
      BY <3>3, BeginsConcat, ConcatProperties
    <3>5. Begins(f[k], f[j + 1])
      BY <1>2, <3>2, <3>3, <3>4, BeginsTransitive
    <3>6. Begins(f[k], f[k + (n + 1)]) /\ n + 1 \in Nat
      BY <3>1, <3>5
    <3> QED
      BY <3>6, Zenon
  <2> QED
    BY <2>1
<1> HIDE DEF T
<1>5. Nat \subseteq T
  BY <1>3, <1>4, SetInduction
<1>6. PICK n \in Nat : k + n = Len(seqs)
  <2>1. Len(seqs) - k \in Nat /\ k + (Len(seqs) - k) = Len(seqs)
    BY <1>1
  <2> QED
    BY <2>1
<1>7. Begins(f[k], f[Len(seqs)])
  <2>1. k + n <= Len(seqs) /\ n \in T
    BY <1>1, <1>5, <1>6
  <2> QED
    BY <1>6, <2>1, Zenon DEF T
<1> QED
  BY <1>7 DEF f

\* One sequence joined is itself, and two are one behind the other.
LEMMA FlattenFew ==
  ASSUME NEW S, NEW seqs \in Seq(Seq(S))
  PROVE  /\ Len(seqs) = 0 => FlattenSeq(seqs) = << >>
         /\ Len(seqs) = 1 => FlattenSeq(seqs) = seqs[1]
         /\ Len(seqs) = 2 => FlattenSeq(seqs) = seqs[1] \o seqs[2]
<1> DEFINE f == JoinedFirst(seqs)
<1>1. /\ FlattenSeq(seqs) = f[Len(seqs)]
      /\ f[0] = << >>
      /\ \A i \in 1 .. Len(seqs) : f[i] = f[i - 1] \o seqs[i]
  BY FlattenIsJoined, JoinedProperties
<1> HIDE DEF f
<1>2. ASSUME 1 \in 1 .. Len(seqs)
      PROVE  f[1] = seqs[1]
  <2>1. f[1] = f[0] \o seqs[1]
    <3>1. 1 - 1 = 0
      OBVIOUS
    <3>2. f[1] = f[1 - 1] \o seqs[1]
      BY <1>1, <1>2, Zenon
    <3> QED
      BY <3>1, <3>2, Zenon
  <2>2. seqs[1] \in Seq(S)
    BY <1>2, ElementOfSeq
  <2> QED
    BY <1>1, <2>1, <2>2, ConcatEmptySeq
<1>3. ASSUME Len(seqs) = 2
      PROVE  f[2] = seqs[1] \o seqs[2]
  <2>1. 2 \in 1 .. Len(seqs) /\ 1 \in 1 .. Len(seqs) /\ 2 - 1 = 1
    BY <1>3
  <2>2. f[2] = f[2 - 1] \o seqs[2]
    BY <1>1, <2>1, Zenon
  <2> QED
    BY <1>2, <2>1, <2>2, Zenon
<1>4. Len(seqs) = 1 => 1 \in 1 .. Len(seqs)
  OBVIOUS
<1> QED
  BY <1>1, <1>2, <1>3, <1>4, Zenon

\* Every place in joined sequences is a place in one of them.
LEMMA JoinedPlaces ==
  ASSUME NEW S, NEW seqs \in Seq(Seq(S))
  PROVE  LET j == JoinedFirst(seqs)
             n == Len(seqs)
         IN  /\ Len(j[0]) = 0
             /\ \A i \in 0 .. n : Len(j[i]) \in Nat
             /\ \A i \in 1 .. n : Len(j[i]) = Len(j[i - 1]) + Len(seqs[i])
             /\ \A i \in 1 .. n : \A l \in 1 .. Len(seqs[i]) :
                  Len(j[i - 1]) + l \in 1 .. Len(j[n]) /\ j[n][Len(j[i - 1]) + l] = seqs[i][l]
             /\ \A p \in 1 .. Len(j[n]) :
                  \E i \in 1 .. n : \E l \in 1 .. Len(seqs[i]) : p = Len(j[i - 1]) + l
<1> DEFINE j == JoinedFirst(seqs)
           n == Len(seqs)
<1>1. n \in Nat /\ \A i \in 1 .. n : seqs[i] \in Seq(S)
  BY LenProperties, ElementOfSeq
<1>2. /\ j[0] = << >>
      /\ \A i \in 1 .. n : j[i] = j[i - 1] \o seqs[i]
      /\ \A i \in 0 .. n : j[i] \in Seq(S)
  BY JoinedProperties
<1>3. \A i \in 0 .. n : Begins(j[i], j[n])
  BY JoinedBegins
<1> SUFFICES /\ Len(j[0]) = 0
             /\ \A i \in 0 .. n : Len(j[i]) \in Nat
             /\ \A i \in 1 .. n : Len(j[i]) = Len(j[i - 1]) + Len(seqs[i])
             /\ \A i \in 1 .. n : \A l \in 1 .. Len(seqs[i]) :
                  Len(j[i - 1]) + l \in 1 .. Len(j[n]) /\ j[n][Len(j[i - 1]) + l] = seqs[i][l]
             /\ \A p \in 1 .. Len(j[n]) :
                  \E i \in 1 .. n : \E l \in 1 .. Len(seqs[i]) : p = Len(j[i - 1]) + l
  OBVIOUS
<1> HIDE DEF j, n
<1>4. \A i \in 0 .. n : Len(j[i]) \in Nat
  BY <1>2, LenProperties
<1>5. ASSUME NEW i \in 1 .. n
      PROVE  /\ Len(j[i]) = Len(j[i - 1]) + Len(seqs[i])
             /\ Len(seqs[i]) \in Nat /\ Len(j[i - 1]) \in Nat
             /\ \A l \in 1 .. Len(seqs[i]) :
                  Len(j[i - 1]) + l \in 1 .. Len(j[n]) /\ j[n][Len(j[i - 1]) + l] = seqs[i][l]
  <2> DEFINE a == j[i - 1]
             b == seqs[i]
             t == j[n]
  <2>1. i - 1 \in 0 .. n /\ i \in 0 .. n /\ n \in 0 .. n
    BY <1>1
  <2>2. a \in Seq(S) /\ b \in Seq(S) /\ t \in Seq(S) /\ j[i] = a \o b
    BY <1>1, <1>2, <2>1
  <2>3. Begins(a \o b, t)
    <3>1. Begins(j[i], t)
      BY <1>3, <2>1
    <3> QED
      BY <2>2, <3>1
  <2> HIDE DEF a, b, t
  <2>4. /\ Len(a) \in Nat /\ Len(b) \in Nat /\ Len(a \o b) = Len(a) + Len(b) /\ Len(t) \in Nat
        /\ \A k \in 1 .. Len(a) + Len(b) : (a \o b)[k] = IF k <= Len(a) THEN a[k] ELSE b[k - Len(a)]
    BY <2>2, ConcatProperties, LenProperties
  <2>5. ASSUME NEW l \in 1 .. Len(b)
        PROVE  Len(a) + l \in 1 .. Len(t) /\ t[Len(a) + l] = b[l]
    <3> DEFINE k == Len(a) + l
    <3>1. k \in 1 .. Len(a) + Len(b) /\ ~(k <= Len(a)) /\ k - Len(a) = l
      BY <2>4
    <3> HIDE DEF k
    <3>2. (a \o b)[k] = b[l]
      BY <2>4, <3>1
    <3>3. k \in 1 .. Len(t) /\ t[k] = (a \o b)[k]
      <4> DEFINE ab == a \o b
      <4> HIDE DEF ab
      <4>1. Len(ab) <= Len(t) /\ \A x \in 1 .. Len(ab) : ab[x] = t[x]
        BY <2>3 DEF Begins, ab
      <4>2. Len(ab) = Len(a) + Len(b)
        BY <2>4 DEF ab
      <4>3. k \in 1 .. Len(ab) /\ k \in 1 .. Len(t)
        BY <2>4, <3>1, <4>1, <4>2
      <4> QED
        BY <4>1, <4>3 DEF ab
    <3> QED
      BY <3>2, <3>3 DEF k
  <2> QED
    BY <2>2, <2>4, <2>5 DEF a, b, t
<1> DEFINE T == {m \in Nat : m <= n =>
                   \A p \in 1 .. Len(j[m]) :
                     \E i \in 1 .. m : \E l \in 1 .. Len(seqs[i]) : p = Len(j[i - 1]) + l}
<1>6. 0 \in T
  BY <1>2
<1>7. ASSUME NEW m \in Nat, m \in T
      PROVE  m + 1 \in T
  <2>1. ASSUME m + 1 <= n, NEW p \in 1 .. Len(j[m + 1])
        PROVE  \E i \in 1 .. m + 1 : \E l \in 1 .. Len(seqs[i]) : p = Len(j[i - 1]) + l
    <3> DEFINE k == m + 1
    <3>1. k \in 1 .. n /\ k - 1 = m /\ m <= n /\ k \in 1 .. k
      BY <1>1, <2>1
    <3>2. \A x \in 1 .. Len(j[m]) : \E i \in 1 .. m : \E l \in 1 .. Len(seqs[i]) : x = Len(j[i - 1]) + l
      BY <1>7, <3>1
    <3>3. \A i \in 1 .. m : i \in 1 .. k
      OBVIOUS
    <3> HIDE DEF k, T
    <3>4. Len(j[k]) = Len(j[m]) + Len(seqs[k]) /\ Len(seqs[k]) \in Nat /\ Len(j[m]) \in Nat
      BY <1>5, <3>1
    <3>5. CASE p <= Len(j[m])
      <4>1. p \in 1 .. Len(j[m])
        BY <3>4, <3>5 DEF k
      <4> QED
        BY <3>2, <3>3, <4>1 DEF k
    <3>6. CASE ~(p <= Len(j[m]))
      <4>1. p \in 1 .. Len(j[k])
        BY DEF k
      <4>2. p - Len(j[m]) \in 1 .. Len(seqs[k]) /\ p = Len(j[m]) + (p - Len(j[m]))
        <5> DEFINE x == Len(j[m])
                   y == Len(seqs[k])
                   z == Len(j[k])
        <5>1. z = x + y /\ x \in Nat /\ y \in Nat /\ p \in 1 .. z /\ ~(p <= x)
          BY <3>4, <3>6, <4>1
        <5> HIDE DEF x, y, z
        <5>2. p - x \in 1 .. y /\ p = x + (p - x)
          BY <5>1
        <5> QED
          BY <5>2 DEF x, y
      <4>3. \E l \in 1 .. Len(seqs[k]) : p = Len(j[k - 1]) + l
        BY <3>1, <4>2
      <4> QED
        BY <3>1, <4>3 DEF k
    <3> QED
      BY <3>5, <3>6
  <2> QED
    BY <2>1
<1> HIDE DEF T
<1>8. Nat \subseteq T
  BY <1>6, <1>7, SetInduction
<1>9. \A p \in 1 .. Len(j[n]) : \E i \in 1 .. n : \E l \in 1 .. Len(seqs[i]) : p = Len(j[i - 1]) + l
  <2>1. n \in T /\ n <= n
    BY <1>1, <1>8
  <2> QED
    BY <2>1, Zenon DEF T
<1>10. Len(j[0]) = 0
  BY <1>2
<1> QED
  BY <1>4, <1>5, <1>9, <1>10

\* The least of a set of numbers.
LEMMA MinIs ==
  ASSUME NEW S \in SUBSET Int, NEW x \in S, \A y \in S : x <= y
  PROVE  Min(S) = x
<1> DEFINE P(z) == z \in S /\ \A y \in S : z <= y
           z == CHOOSE z : P(z)
<1>1. P(x)
  OBVIOUS
<1>2. P(z)
  <2> HIDE DEF P
  <2> QED
    BY <1>1
<1> HIDE DEF z
<1>3. z <= x /\ x <= z /\ z \in Int /\ x \in Int
  BY <1>2
<1>4. z = x
  BY <1>3
<1> QED
  BY <1>4 DEF Min, z
=============================================================================
