-------------------------- MODULE EventStream_proofs --------------------------
(***************************************************************************)
(* Proofs about the event log and its reader, for every value of the       *)
(* constants: the types; the published lines are numbered 1, 2, 3, ...;    *)
(* the log implements AppendOnlyLog through every failed write, crash and  *)
(* recovery; the reader sees what is published, once, and in order.        *)
(***************************************************************************)
EXTENDS EventStream, SequenceTheorems, WellFoundedInduction, NaturalsInduction, TLAPS

-----------------------------------------------------------------------------
(***************************************************************************)
(* Flattening a sequence of sequences.  A property of a number holds up to *)
(* n when there is no least number that it fails for.                      *)
(***************************************************************************)
LessThan == {pair \in Nat \X Nat : pair[1] < pair[2]}

LEMMA LeastNumber ==
  ASSUME NEW T \in SUBSET Nat, T # {}
  PROVE  \E x \in T : \A y \in Nat : y < x => y \notin T
<1>1. IsWellFoundedOn(LessThan, Nat)
  BY NatLessThanWellFounded DEF OpToRel, LessThan
<1>2. PICK x \in T : \A y \in T : ~(<<y, x>> \in LessThan)
  BY <1>1, WFMin
<1>3. QED
  BY <1>2 DEF LessThan

\* A set that has 0, and with a number the next, has all up to n.
LEMMA UpTo ==
  ASSUME NEW n \in Nat, NEW T, 0 \in T,
         \A m \in Nat : m < n /\ m \in T => m + 1 \in T
  PROVE  \A m \in 0..n : m \in T
<1> DEFINE Missing == {m \in Nat : m <= n /\ m \notin T}
<1>1. SUFFICES ASSUME NEW k \in 0..n, k \notin T PROVE FALSE
  OBVIOUS
<1>2. Missing \in SUBSET Nat /\ Missing # {}
  BY <1>1
<1>3. PICK x \in Missing : \A y \in Nat : y < x => y \notin Missing
  BY <1>2, LeastNumber
<1>4. x # 0 /\ x - 1 \in Nat /\ x - 1 < x /\ x - 1 < n
  BY <1>3
<1>5. x - 1 \in T
  BY <1>3, <1>4
<1>6. (x - 1) + 1 \in T
  BY <1>4, <1>5
<1>7. QED
  BY <1>3, <1>6

\* How FlattenSeq goes through the first n of the sequences.
Flattening(f, n, ss) ==
  \A i \in 1..n : f[i] = IF i = 1 THEN ss[i] ELSE f[i - 1] \o ss[i]

LEMMA FlatteningExists ==
  ASSUME NEW n \in Nat, NEW ss
  PROVE  \E f : f = [i \in 1..n |-> f[i]] /\ Flattening(f, n, ss)
<1> DEFINE T == {m \in Nat : \E f : f = [i \in 1..m |-> f[i]] /\ Flattening(f, m, ss)}
<1>1. 0 \in T
  <2> DEFINE f == [i \in 1..0 |-> ss]
  <2>1. f = [i \in 1..0 |-> f[i]]
    OBVIOUS
  <2>2. Flattening(f, 0, ss)
    BY DEF Flattening
  <2> HIDE DEF f
  <2>3. QED
    BY <2>1, <2>2
<1>2. ASSUME NEW m \in Nat, m \in T PROVE m + 1 \in T
  <2>1. PICK f : f = [i \in 1..m |-> f[i]] /\ Flattening(f, m, ss)
    BY <1>2
  <2>7. Flattening(f, m, ss)
    BY <2>1
  <2> DEFINE new == IF m = 0 THEN ss[1] ELSE f[m] \o ss[m + 1]
             g == [i \in 1..(m + 1) |-> IF i <= m THEN f[i] ELSE new]
  <2>2. /\ \A i \in 1..m : g[i] = f[i]
        /\ g[m + 1] = new
    <3> HIDE DEF new
    <3>1. QED
      OBVIOUS
  <2>3. g = [i \in 1..(m + 1) |-> g[i]]
    <3> HIDE DEF new
    <3>1. QED
      OBVIOUS
  <2> HIDE DEF g
  <2>4. ASSUME NEW i \in 1..(m + 1)
        PROVE  g[i] = IF i = 1 THEN ss[i] ELSE g[i - 1] \o ss[i]
    <3>1. CASE i <= m
      <4>1. f[i] = IF i = 1 THEN ss[i] ELSE f[i - 1] \o ss[i]
        BY <2>7, <3>1 DEF Flattening
      <4>2. g[i] = f[i] /\ (i # 1 => g[i - 1] = f[i - 1])
        BY <2>2, <3>1
      <4>3. QED
        BY <4>1, <4>2
    <3>2. CASE i = m + 1
      <4>1. i # 1 => g[i - 1] = f[m] /\ m # 0
        BY <2>2, <3>2
      <4>2. i = 1 => m = 0
        BY <3>2
      <4>3. QED
        BY <2>2, <3>2, <4>1, <4>2 DEF new
    <3>3. QED
      BY <3>1, <3>2
  <2>5. Flattening(g, m + 1, ss)
    BY <2>4 DEF Flattening
  <2>6. QED
    BY <2>3, <2>5
<1>3. n \in T
  <2> HIDE DEF T
  <2>1. QED
    BY <1>1, <1>2, UpTo
<1>4. QED
  BY <1>3

Agree(n, ss, tt) == \A i \in 1..n : ss[i] = tt[i]

LEMMA FlatteningAgrees ==
  ASSUME NEW n \in Nat, NEW m \in Nat, NEW ss, NEW tt, NEW f, NEW g, n <= m,
         Flattening(f, n, ss), Flattening(g, m, tt), Agree(n, ss, tt)
  PROVE  Agree(n, f, g)
<1> DEFINE T == {k \in Nat : k # 0 /\ k <= n => f[k] = g[k]}
<1>1. 0 \in T
  OBVIOUS
<1>2. ASSUME NEW k \in Nat, k < n, k \in T PROVE k + 1 \in T
  <2>1. k + 1 \in 1..n /\ k + 1 \in 1..m /\ (k + 1) - 1 = k
    BY <1>2
  <2>2. f[k + 1] = IF k + 1 = 1 THEN ss[k + 1] ELSE f[k] \o ss[k + 1]
    BY <2>1 DEF Flattening
  <2>3. g[k + 1] = IF k + 1 = 1 THEN tt[k + 1] ELSE g[k] \o tt[k + 1]
    BY <2>1 DEF Flattening
  <2>4. k # 0 => f[k] = g[k]
    BY <1>2
  <2>5. f[k + 1] = g[k + 1]
    BY <2>1, <2>2, <2>3, <2>4 DEF Agree
  <2>6. QED
    BY <2>5
<1>3. \A k \in 0..n : k \in T
  <2> HIDE DEF T
  <2>1. QED
    BY <1>1, <1>2, UpTo
<1>4. QED
  BY <1>3 DEF Agree

\* FlattenSeq by any function that goes through its argument.
LEMMA FlattenIs ==
  ASSUME NEW ss, NEW n \in Nat, n # 0, Len(ss) = n, NEW f, Flattening(f, n, ss)
  PROVE  FlattenSeq(ss) = f[n]
<1> DEFINE Goes(h) == h = [i \in 1..n |-> IF i = 1 THEN ss[i] ELSE h[i - 1] \o ss[i]]
           g == CHOOSE h : Goes(h)
<1>1. FlattenSeq(ss) = g[n]
  BY Zenon DEF FlattenSeq
<1>2. \E h : Goes(h)
  <2>1. PICK h : h = [i \in 1..n |-> h[i]] /\ Flattening(h, n, ss)
    BY FlatteningExists
  <2>2. [i \in 1..n |-> h[i]] = [i \in 1..n |-> IF i = 1 THEN ss[i] ELSE h[i - 1] \o ss[i]]
    BY <2>1 DEF Flattening
  <2>3. Goes(h)
    BY <2>1, <2>2, Zenon
  <2>4. QED
    BY <2>3
<1>3. Goes(g)
  BY <1>2, Zenon
<1>4. Flattening(g, n, ss)
  <2>1. g = [i \in 1..n |-> IF i = 1 THEN ss[i] ELSE g[i - 1] \o ss[i]]
    BY <1>3
  <2> DEFINE v(i) == IF i = 1 THEN ss[i] ELSE g[i - 1] \o ss[i]
  <2>2. g = [i \in 1..n |-> v(i)]
    BY <2>1
  <2> HIDE DEF g, v
  <2>3. \A i \in 1..n : g[i] = v(i)
    BY <2>2
  <2>4. QED
    BY <2>3 DEF v, Flattening
<1>5. Agree(n, f, g)
  <2> HIDE DEF g
  <2>1. Agree(n, ss, ss) /\ n <= n
    BY DEF Agree
  <2>2. QED
    BY <1>4, <2>1, FlatteningAgrees
<1>6. QED
  <2> HIDE DEF g
  <2>1. QED
    BY <1>1, <1>5 DEF Agree

LEMMA FlattenEmpty ==
  FlattenSeq(<<>>) = <<>>
BY DEF FlattenSeq

LEMMA FlattenOne ==
  ASSUME NEW S, NEW s \in Seq(S)
  PROVE  FlattenSeq(<<s>>) = s
<1> DEFINE ss == <<s>>
           f == [i \in 1..1 |-> s]
<1>1. Len(ss) = 1 /\ ss[1] = s /\ f[1] = s
  OBVIOUS
<1> HIDE DEF ss, f
<1>2. Flattening(f, 1, ss)
  BY <1>1 DEF Flattening
<1>3. FlattenSeq(ss) = f[1]
  <2>1. 1 \in Nat /\ 1 # 0
    OBVIOUS
  <2>2. QED
    BY <1>1, <1>2, <2>1, FlattenIs, Zenon
<1>4. QED
  BY <1>1, <1>3 DEF ss

LEMMA FlattenTyped ==
  ASSUME NEW S, NEW ss \in Seq(Seq(S))
  PROVE  FlattenSeq(ss) \in Seq(S)
<1>1. CASE ss = <<>>
  BY <1>1, FlattenEmpty, EmptySeq
<1>2. CASE ss # <<>>
  <2> DEFINE n == Len(ss)
  <2>1. n \in Nat /\ n # 0 /\ \A i \in 1..n : ss[i] \in Seq(S)
    BY <1>2, EmptySeq, ElementOfSeq, LenProperties
  <2> HIDE DEF n
  <2>2. PICK f : Flattening(f, n, ss)
    BY <2>1, FlatteningExists
  <2> DEFINE T == {k \in Nat : k # 0 /\ k <= n => f[k] \in Seq(S)}
  <2>3. 0 \in T
    OBVIOUS
  <2>4. ASSUME NEW k \in Nat, k < n, k \in T PROVE k + 1 \in T
    <3>1. k + 1 \in 1..n /\ (k + 1) - 1 = k
      BY <2>1, <2>4
    <3>2. f[k + 1] = IF k + 1 = 1 THEN ss[k + 1] ELSE f[k] \o ss[k + 1]
      BY <2>2, <3>1 DEF Flattening
    <3>3. k = 0 => f[k + 1] \in Seq(S)
      BY <2>1, <3>1, <3>2
    <3>4. ASSUME k # 0 PROVE f[k + 1] \in Seq(S)
      <4>1. f[k] \in Seq(S) /\ ss[k + 1] \in Seq(S)
        BY <2>1, <2>4, <3>1, <3>4
      <4>2. f[k] \o ss[k + 1] \in Seq(S)
        BY <4>1, ConcatProperties
      <4>3. k + 1 # 1
        BY <3>4
      <4>4. QED
        BY <3>2, <4>2, <4>3
    <3>5. f[k + 1] \in Seq(S)
      BY <3>3, <3>4
    <3>6. QED
      BY <3>5
  <2>5. n \in T
    <3> HIDE DEF T
    <3>1. n \in Nat
      BY <2>1
    <3>2. \A k \in 0..n : k \in T
      BY <3>1, <2>3, <2>4, UpTo
    <3>3. QED
      BY <3>1, <3>2
  <2>6. FlattenSeq(ss) = f[n]
    BY <2>1, <2>2, FlattenIs DEF n
  <2>7. QED
    BY <2>1, <2>5, <2>6
<1>3. QED
  BY <1>1, <1>2

\* Flattening one sequence more.
LEMMA FlattenLast ==
  ASSUME NEW S, NEW ss \in Seq(Seq(S)), NEW tt \in Seq(Seq(S)),
         Len(tt) = Len(ss) + 1, \A i \in 1..Len(ss) : tt[i] = ss[i]
  PROVE  FlattenSeq(tt) = FlattenSeq(ss) \o tt[Len(tt)]
<1> DEFINE n == Len(ss)
           p == Len(tt)
<1>1. n \in Nat /\ p \in Nat /\ p = n + 1 /\ tt[p] \in Seq(S) /\ Len(tt) = p /\ Len(ss) = n
  BY LenProperties, ElementOfSeq
<1>2. Agree(n, ss, tt)
  BY DEF Agree
<1> HIDE DEF n, p
<1>3. p # 0 /\ n <= p /\ p \in 1..p /\ p - 1 = n /\ (n = 0 <=> p = 1)
  BY <1>1
<1>4. PICK g : Flattening(g, p, tt)
  BY <1>1, FlatteningExists
<1>5. FlattenSeq(tt) = g[p]
  BY <1>1, <1>3, <1>4, FlattenIs
<1>6. g[p] = IF n = 0 THEN tt[p] ELSE g[n] \o tt[p]
  BY <1>3, <1>4 DEF Flattening
<1>7. CASE n = 0
  <2>1. ss = <<>>
    BY <1>1, <1>7, EmptySeq
  <2>2. FlattenSeq(ss) \o tt[p] = tt[p]
    BY <1>1, <2>1, FlattenEmpty, ConcatEmptySeq
  <2>3. QED
    BY <1>1, <1>5, <1>6, <1>7, <2>2
<1>8. CASE n # 0
  <2>1. PICK f : Flattening(f, n, ss)
    BY <1>1, FlatteningExists
  <2>2. FlattenSeq(ss) = f[n]
    BY <1>1, <1>8, <2>1, FlattenIs
  <2>3. Agree(n, f, g)
    BY <1>1, <1>2, <1>3, <1>4, <2>1, FlatteningAgrees
  <2>4. f[n] = g[n]
    BY <1>1, <1>8, <2>3 DEF Agree
  <2>5. QED
    BY <1>1, <1>5, <1>6, <1>8, <2>2, <2>4
<1>9. QED
  BY <1>7, <1>8

LEMMA FlattenConcat ==
  ASSUME NEW S, NEW ss \in Seq(Seq(S)), NEW tt \in Seq(Seq(S))
  PROVE  FlattenSeq(ss \o tt) = FlattenSeq(ss) \o FlattenSeq(tt)
<1> DEFINE n == Len(tt)
           Part(k) == SubSeq(tt, 1, k)
           T == {k \in Nat : k <= n => FlattenSeq(ss \o Part(k)) = FlattenSeq(ss) \o FlattenSeq(Part(k))}
<1>1. n \in Nat /\ Part(n) = tt
  BY LenProperties, SubSeqFull
<1>2. \A k \in 0..n : /\ Part(k) \in Seq(Seq(S)) /\ Len(Part(k)) = k
                      /\ \A i \in 1..k : Part(k)[i] = tt[i]
  <2>1. TAKE k \in 0..n
  <2>2. \A i \in 1..k : tt[i] \in Seq(S)
    BY <1>1, ElementOfSeq
  <2>3. QED
    BY <1>1, <2>2, SubSeqProperties
<1> HIDE DEF Part
<1>3. 0 \in T
  <2>1. Part(0) = <<>>
    BY <1>1, <1>2, EmptySeq
  <2>2. FlattenSeq(ss) \in Seq(S)
    BY FlattenTyped
  <2>3. ss \o Part(0) = ss /\ FlattenSeq(ss) \o FlattenSeq(Part(0)) = FlattenSeq(ss)
    BY <2>1, <2>2, FlattenEmpty, ConcatEmptySeq
  <2>4. QED
    BY <2>3
<1>4. ASSUME NEW k \in Nat, k < n, k \in T PROVE k + 1 \in T
  <2>1. k \in 0..n /\ k + 1 \in 0..n
    BY <1>1, <1>4
  <2>2. /\ Part(k) \in Seq(Seq(S)) /\ Len(Part(k)) = k
        /\ Part(k + 1) \in Seq(Seq(S)) /\ Len(Part(k + 1)) = k + 1
        /\ \A i \in 1..k : Part(k + 1)[i] = Part(k)[i]
    BY <1>2, <2>1
  <2> DEFINE l == Part(k + 1)[k + 1]
             a == ss \o Part(k)
             b == ss \o Part(k + 1)
  <2>3. FlattenSeq(Part(k + 1)) = FlattenSeq(Part(k)) \o l
    BY <2>2, FlattenLast
  <2>4. /\ a \in Seq(Seq(S)) /\ Len(a) = Len(ss) + k
        /\ b \in Seq(Seq(S)) /\ Len(b) = Len(ss) + (k + 1)
        /\ b[Len(b)] = l
        /\ \A i \in 1..Len(a) : b[i] = a[i]
    <3> DEFINE m == Len(ss)
               u == Part(k)
               v == Part(k + 1)
    <3>1. /\ m \in Nat /\ Len(ss) = m
          /\ u \in Seq(Seq(S)) /\ Len(u) = k
          /\ v \in Seq(Seq(S)) /\ Len(v) = k + 1
          /\ \A i \in 1..k : v[i] = u[i]
      BY <2>2, LenProperties
    <3> HIDE DEF m, u, v
    <3>2. /\ ss \o u \in Seq(Seq(S)) /\ Len(ss \o u) = m + k
          /\ \A i \in 1..(m + k) : (ss \o u)[i] = IF i <= m THEN ss[i] ELSE u[i - m]
      BY <3>1, ConcatProperties
    <3>3. /\ ss \o v \in Seq(Seq(S)) /\ Len(ss \o v) = m + (k + 1)
          /\ \A i \in 1..(m + (k + 1)) : (ss \o v)[i] = IF i <= m THEN ss[i] ELSE v[i - m]
      <4> DEFINE j == Len(v)
      <4>1. j \in Nat /\ j = k + 1
        BY <3>1, LenProperties
      <4>2. /\ ss \o v \in Seq(Seq(S)) /\ Len(ss \o v) = m + j
            /\ \A i \in 1..(m + j) : (ss \o v)[i] = IF i <= m THEN ss[i] ELSE v[i - m]
        BY <3>1, ConcatProperties
      <4> HIDE DEF j
      <4>3. QED
        BY <4>1, <4>2
    <3>4. (ss \o v)[m + (k + 1)] = v[k + 1]
      <4>1. m + (k + 1) \in 1..(m + (k + 1)) /\ ~(m + (k + 1) <= m) /\ (m + (k + 1)) - m = k + 1
        BY <3>1
      <4>2. QED
        BY <3>3, <4>1
    <3>5. ASSUME NEW i \in 1..(m + k) PROVE (ss \o v)[i] = (ss \o u)[i]
      <4>1. i \in 1..(m + (k + 1))
        BY <3>1
      <4>2. CASE i <= m
        BY <3>2, <3>3, <4>1, <4>2
      <4>3. CASE ~(i <= m)
        <5>1. i - m \in 1..k
          BY <3>1, <4>3
        <5>2. QED
          BY <3>1, <3>2, <3>3, <4>1, <4>3, <5>1
      <4>4. QED
        BY <4>2, <4>3
    <3>6. QED
      BY <3>2, <3>3, <3>4, <3>5 DEF m, u, v
  <2>5. FlattenSeq(b) = FlattenSeq(a) \o l
    <3>1. Len(b) = Len(a) + 1
      BY <2>4, LenProperties
    <3>2. QED
      BY <2>4, <3>1, FlattenLast
  <2>6. FlattenSeq(a) = FlattenSeq(ss) \o FlattenSeq(Part(k))
    BY <1>1, <1>4
  <2>7. /\ FlattenSeq(ss) \in Seq(S) /\ FlattenSeq(Part(k)) \in Seq(S) /\ l \in Seq(S)
    BY <2>1, <2>2, FlattenTyped, ElementOfSeq
  <2>8. FlattenSeq(b) = FlattenSeq(ss) \o FlattenSeq(Part(k + 1))
    <3> HIDE DEF a, b, l
    <3>1. (FlattenSeq(ss) \o FlattenSeq(Part(k))) \o l = FlattenSeq(ss) \o (FlattenSeq(Part(k)) \o l)
      BY <2>7, ConcatAssociative, SMTT(40)
    <3>2. QED
      BY <2>3, <2>5, <2>6, <3>1
  <2>9. QED
    BY <2>8
<1>5. n \in T
  <2> HIDE DEF T, n
  <2>1. n \in Nat
    BY <1>1
  <2>2. \A k \in 0..n : k \in T
    BY <2>1, <1>3, <1>4, UpTo
  <2>3. QED
    BY <2>1, <2>2
<1>6. QED
  BY <1>1, <1>5

\* Sequences of one element each.
LEMMA FlattenUnits ==
  ASSUME NEW S, NEW s \in Seq(S), NEW ss, Len(ss) = Len(s), ss \in Seq(Seq(S)),
         \A i \in 1..Len(s) : ss[i] = <<s[i]>>
  PROVE  FlattenSeq(ss) = s
<1> DEFINE n == Len(s)
<1>1. n \in Nat /\ Len(ss) = n
  BY LenProperties
<1>2. CASE n = 0
  BY <1>1, <1>2, EmptySeq, FlattenEmpty
<1>3. CASE n # 0
  <2> DEFINE f == [k \in 1..n |-> SubSeq(s, 1, k)]
  <2>1. \A i \in 1..n : f[i] = SubSeq(s, 1, i)
    OBVIOUS
  <2>2. ASSUME NEW i \in 1..n
        PROVE  f[i] = IF i = 1 THEN ss[i] ELSE f[i - 1] \o ss[i]
    <3>1. SubSeq(s, 1, i) = SubSeq(s, 1, i - 1) \o <<s[i]>>
      <4>1. 1 \in 1..Len(s) /\ i \in 1..Len(s)
        BY <1>1
      <4>2. QED
        BY <4>1, SubSeqRecursiveSecond
    <3>2. i = 1 => SubSeq(s, 1, i - 1) = <<>>
      BY SubSeqEmpty
    <3>3. s[i] \in S /\ <<s[i]>> \in Seq(S)
      BY <1>1, ElementOfSeq
    <3> HIDE DEF n
    <3>4. <<>> \o <<s[i]>> = <<s[i]>>
      BY <3>3, ConcatEmptySeq
    <3>5. i # 1 => f[i - 1] = SubSeq(s, 1, i - 1)
      BY <1>1, <2>1
    <3> HIDE DEF f
    <3>6. QED
      BY <1>1, <2>1, <3>1, <3>2, <3>4, <3>5
  <2> HIDE DEF f
  <2>3. Flattening(f, n, ss)
    BY <2>2 DEF Flattening
  <2>4. FlattenSeq(ss) = f[n]
    BY <1>1, <1>3, <2>3, FlattenIs
  <2>5. f[n] = SubSeq(s, 1, n)
    <3> HIDE DEF n
    <3>1. n \in 1..n
      BY <1>1, <1>3
    <3>2. QED
      BY <2>1, <3>1
  <2>6. SubSeq(s, 1, n) = s
    BY SubSeqFull
  <2>7. QED
    BY <2>4, <2>5, <2>6
<1>4. QED
  BY <1>2, <1>3

-----------------------------------------------------------------------------
(***************************************************************************)
(* What holds of the empty sequence, and with a sequence of one that is    *)
(* longer by an element, holds of every sequence.                          *)
(***************************************************************************)
LEMMA ElementByElement ==
  ASSUME NEW P, NEW T, <<>> \in T,
         \A s \in Seq(P), e \in P : s \in T => s \o <<e>> \in T,
         NEW q \in Seq(P)
  PROVE  q \in T
<1> DEFINE n == Len(q)
           Pre(k) == SubSeq(q, 1, k)
           U == {k \in Nat : k <= n => Pre(k) \in T}
<1>1. n \in Nat /\ Pre(n) = q
  BY LenProperties, SubSeqFull
<1>2. 0 \in U
  <2>1. Pre(0) = <<>>
    BY SubSeqEmpty
  <2>2. QED
    BY <2>1
<1>3. ASSUME NEW k \in Nat, k < n, k \in U PROVE k + 1 \in U
  <2> DEFINE m == k + 1
  <2>1. m \in 1..Len(q) /\ 1 \in 1..Len(q) /\ m \in 1..m /\ m - 1 = k /\ m \in Nat
    BY <1>1, <1>3
  <2>2. Pre(m) = SubSeq(q, 1, m - 1) \o <<q[m]>>
    <3> HIDE DEF m
    <3>1. m \in 1..Len(q) /\ 1 \in 1..Len(q) /\ m \in 1..Len(q)
      BY <2>1
    <3>2. QED
      BY <3>1, SubSeqRecursiveSecond
  <2>3. Pre(k) \in Seq(P) /\ q[m] \in P
    <3>1. \A i \in 1..k : q[i] \in P
      BY <1>1, <1>3, ElementOfSeq
    <3>2. QED
      BY <2>1, <3>1, SubSeqProperties, ElementOfSeq
  <2>4. Pre(k) \in T
    BY <1>3
  <2>5. Pre(m) \in T
    <3> HIDE DEF m
    <3>1. Pre(m) = Pre(k) \o <<q[m]>>
      BY <2>1, <2>2
    <3> HIDE DEF Pre
    <3>2. QED
      BY <2>3, <2>4, <3>1
  <2>6. QED
    BY <2>1, <2>5
<1>4. n \in U
  <2> HIDE DEF U, n
  <2>1. n \in Nat
    BY <1>1
  <2>2. \A k \in 0..n : k \in U
    BY <2>1, <1>2, <1>3, UpTo
  <2>3. QED
    BY <2>1, <2>2
<1>5. QED
  <2> HIDE DEF n, Pre
  <2>1. QED
    BY <1>1, <1>4

(***************************************************************************)
(* Every element gives a sequence, the results are put behind each other.  *)
(***************************************************************************)
Maps(G, P, S) == G \in [P -> Seq(S)]
Image(q, G) == [i \in DOMAIN q |-> G[q[i]]]
Spread(q, G) == FlattenSeq(Image(q, G))

LEMMA ImageOfSeq ==
  ASSUME NEW P, NEW S, NEW G, Maps(G, P, S), NEW q \in Seq(P)
  PROVE  /\ Image(q, G) \in Seq(Seq(S)) /\ Len(Image(q, G)) = Len(q)
         /\ \A i \in 1..Len(q) : Image(q, G)[i] = G[q[i]]
<1> DEFINE n == Len(q)
           m == Image(q, G)
<1>1. n \in Nat /\ DOMAIN q = 1..n
  BY LenProperties
<1>2. \A i \in 1..n : G[q[i]] \in Seq(S)
  BY ElementOfSeq DEF Maps
<1>3. m = [i \in 1..n |-> G[q[i]]]
  BY <1>1 DEF Image
<1>4. m \in [1..n -> Seq(S)] /\ \A i \in 1..n : m[i] = G[q[i]]
  <2> HIDE DEF m, n
  <2>1. QED
    BY <1>2, <1>3
<1>5. m \in Seq(Seq(S)) /\ Len(m) = n
  <2> HIDE DEF m, n
  <2>1. m \in Seq(Seq(S))
    BY <1>1, <1>4, SeqDef
  <2>2. Len(m) \in Nat /\ DOMAIN m = 1..Len(m)
    BY <2>1, LenProperties
  <2>3. DOMAIN m = 1..n
    BY <1>4
  <2> DEFINE l == Len(m)
  <2>4. l \in Nat /\ 1..l = 1..n
    BY <2>2, <2>3
  <2> HIDE DEF l
  <2>5. l = n
    <3>1. l \in Nat /\ n \in Nat
      BY <1>1, <2>4
    <3>2. (l # 0 => l \in 1..l) /\ (n # 0 => n \in 1..n)
      BY <3>1
    <3>3. (l # 0 => l \in 1..n) /\ (n # 0 => n \in 1..l)
      BY <2>4, <3>2, Zenon
    <3>4. QED
      BY <3>1, <3>3
  <2>6. QED
    BY <2>1, <2>5 DEF l
<1>6. QED
  BY <1>4, <1>5

LEMMA SpreadEmpty ==
  ASSUME NEW G
  PROVE  Spread(<<>>, G) = <<>>
<1>1. Image(<<>>, G) = <<>>
  BY DEF Image
<1>2. QED
  BY <1>1, FlattenEmpty DEF Spread

LEMMA SpreadTyped ==
  ASSUME NEW P, NEW S, NEW G, Maps(G, P, S), NEW q \in Seq(P)
  PROVE  Spread(q, G) \in Seq(S)
BY ImageOfSeq, FlattenTyped DEF Spread

LEMMA SpreadOne ==
  ASSUME NEW P, NEW S, NEW G, Maps(G, P, S), NEW e \in P
  PROVE  Spread(<<e>>, G) = G[e]
<1> DEFINE q == <<e>>
           g == G[e]
           m == Image(q, G)
<1>1. q \in Seq(P) /\ Len(q) = 1 /\ q[1] = e /\ g \in Seq(S)
  BY DEF Maps
<1>2. m \in Seq(Seq(S)) /\ Len(m) = 1 /\ m[1] = g
  <2> HIDE DEF q
  <2>1. 1 \in 1..1
    OBVIOUS
  <2>2. /\ m \in Seq(Seq(S)) /\ Len(m) = Len(q)
        /\ \A i \in 1..Len(q) : m[i] = G[q[i]]
    BY <1>1, ImageOfSeq
  <2> HIDE DEF m
  <2>3. QED
    BY <1>1, <2>1, <2>2
<1>4. m = <<g>>
  <2> HIDE DEF m, g
  <2>1. <<g>> \in Seq(Seq(S)) /\ Len(<<g>>) = 1 /\ <<g>>[1] = g
    BY <1>1
  <2>2. \A i \in 1..Len(m) : m[i] = <<g>>[i]
    BY <1>2, <2>1
  <2>3. QED
    BY <1>2, <2>1, <2>2, SeqEqual
<1>5. Spread(q, G) = FlattenSeq(m)
  BY DEF Spread
<1>6. FlattenSeq(<<g>>) = g
  <2> HIDE DEF g
  <2>1. QED
    BY <1>1, FlattenOne
<1>7. QED
  BY <1>4, <1>5, <1>6

LEMMA SpreadConcat ==
  ASSUME NEW P, NEW S, NEW G, Maps(G, P, S), NEW q \in Seq(P), NEW r \in Seq(P)
  PROVE  Spread(q \o r, G) = Spread(q, G) \o Spread(r, G)
<1> DEFINE qr == q \o r
           a == Image(q, G)
           b == Image(r, G)
           c == Image(qr, G)
           n == Len(q)
           m == Len(r)
<1>1. n \in Nat /\ m \in Nat /\ Len(q) = n /\ Len(r) = m
  BY LenProperties
<1>2. /\ qr \in Seq(P) /\ Len(qr) = n + m
      /\ \A i \in 1..(n + m) : qr[i] = IF i <= n THEN q[i] ELSE r[i - n]
  BY ConcatProperties
<1> HIDE DEF qr
<1>3. /\ a \in Seq(Seq(S)) /\ Len(a) = n
      /\ \A i \in 1..n : a[i] = G[q[i]]
  BY ImageOfSeq
<1>4. /\ b \in Seq(Seq(S)) /\ Len(b) = m
      /\ \A i \in 1..m : b[i] = G[r[i]]
  BY ImageOfSeq
<1>11. /\ c \in Seq(Seq(S)) /\ Len(c) = n + m
       /\ \A i \in 1..(n + m) : c[i] = G[qr[i]]
  <2> DEFINE l == Len(qr)
  <2>1. /\ c \in Seq(Seq(S)) /\ Len(c) = l
        /\ \A i \in 1..l : c[i] = G[qr[i]]
    <3>1. qr \in Seq(P) /\ Maps(G, P, S)
      BY <1>2
    <3>2. QED
      BY <3>1, ImageOfSeq
  <2>2. l = n + m
    BY <1>2
  <2> HIDE DEF l, n, m, c
  <2>3. QED
    BY <2>1, <2>2
<1> HIDE DEF a, b, c, n, m
<1>5. /\ a \o b \in Seq(Seq(S)) /\ Len(a \o b) = n + m
      /\ \A i \in 1..(n + m) : (a \o b)[i] = IF i <= n THEN a[i] ELSE b[i - n]
  <2> DEFINE j == Len(a)
             k == Len(b)
  <2>1. /\ a \o b \in Seq(Seq(S)) /\ Len(a \o b) = j + k
        /\ \A i \in 1..(j + k) : (a \o b)[i] = IF i <= j THEN a[i] ELSE b[i - j]
    BY <1>3, <1>4, ConcatProperties
  <2>2. j = n /\ k = m
    BY <1>3, <1>4
  <2> HIDE DEF j, k
  <2>3. QED
    BY <2>1, <2>2
<1>6. ASSUME NEW i \in 1..(n + m) PROVE c[i] = (a \o b)[i]
  <2>1. CASE i <= n
    <3>1. i \in 1..n
      BY <1>1, <2>1
    <3>2. QED
      <4>1. (a \o b)[i] = a[i]
        BY <1>5, <2>1
      <4>2. qr[i] = q[i]
        BY <1>2, <2>1
      <4>3. a[i] = G[q[i]]
        BY <1>3, <3>1
      <4>4. c[i] = G[qr[i]]
        BY <1>11
      <4>5. QED
        BY <4>1, <4>2, <4>3, <4>4, Zenon
  <2>2. CASE ~(i <= n)
    <3>1. i - n \in 1..m
      BY <1>1, <2>2
    <3>2. QED
      <4>1. (a \o b)[i] = b[i - n]
        BY <1>5, <2>2
      <4>2. qr[i] = r[i - n]
        BY <1>2, <2>2
      <4>3. b[i - n] = G[r[i - n]]
        BY <1>4, <3>1
      <4>4. c[i] = G[qr[i]]
        BY <1>11
      <4>5. QED
        BY <4>1, <4>2, <4>3, <4>4, Zenon
  <2>3. QED
    BY <2>1, <2>2
<1>7. c = a \o b
  BY <1>5, <1>6, <1>11, SeqEqual
<1>8. FlattenSeq(a \o b) = FlattenSeq(a) \o FlattenSeq(b)
  BY <1>3, <1>4, FlattenConcat
<1>9. Spread(qr, G) = FlattenSeq(c) /\ Spread(q, G) = FlattenSeq(a) /\ Spread(r, G) = FlattenSeq(b)
  BY DEF Spread, a, b, c
<1>10. QED
  BY <1>7, <1>8, <1>9 DEF qr

-----------------------------------------------------------------------------
(***************************************************************************)
(* The lines and the texts of events.                                      *)
(***************************************************************************)
AnyLine == Line \cup {Torn}

TextOfLine  == [l \in AnyLine |-> l.text]
TextOfEvent == [p \in Payload |-> IF p.kind = "invalid" THEN <<>> ELSE p.text]
PlainText   == [p \in Payload |-> p.text]
Kept        == [p \in Payload |-> IF p.kind = "invalid" THEN <<>> ELSE <<p>>]

LEMMA MapsOfData ==
  /\ Maps(TextOfLine, AnyLine, Token) /\ Maps(TextOfEvent, Payload, Token)
  /\ Maps(PlainText, Payload, Token) /\ Maps(Kept, Payload, Payload)
<1>1. \A l \in AnyLine : l.text \in Seq(Token)
  <2>1. \A l \in Line : l.text \in Seq(Token)
    BY DEF Line
  <2>2. Torn.text = <<>> /\ <<>> \in Seq(Token)
    BY DEF Torn
  <2>3. QED
    BY <2>1, <2>2 DEF AnyLine
<1>2. \A p \in Payload : p.text \in Seq(Token) /\ <<>> \in Seq(Token)
  BY DEF Payload
<1>3. \A p \in Payload : <<p>> \in Seq(Payload) /\ <<>> \in Seq(Payload)
  OBVIOUS
<1>4. Maps(TextOfLine, AnyLine, Token)
  BY <1>1 DEF Maps, TextOfLine
<1>5. Maps(TextOfEvent, Payload, Token)
  BY <1>2 DEF Maps, TextOfEvent
<1>6. Maps(PlainText, Payload, Token)
  BY <1>2 DEF Maps, PlainText
<1>7. Maps(Kept, Payload, Payload)
  BY <1>3 DEF Maps, Kept
<1>8. QED
  BY <1>4, <1>5, <1>6, <1>7

LEMMA TextOfIs ==
  ASSUME NEW s \in Seq(AnyLine)
  PROVE  TextOf(s) = Spread(s, TextOfLine)
<1>1. \A i \in DOMAIN s : s[i] \in AnyLine
  BY ElementOfSeq, LenProperties
<1>2. \A i \in DOMAIN s : TextOfLine[s[i]] = s[i].text
  BY <1>1 DEF TextOfLine
<1>3. [i \in DOMAIN s |-> s[i].text] = Image(s, TextOfLine)
  BY <1>2 DEF Image
<1>4. QED
  BY <1>3 DEF TextOf, Spread

LEMMA WritableIs ==
  ASSUME NEW q \in Seq(Payload)
  PROVE  Writable(q) = Spread(q, TextOfEvent)
<1>1. \A i \in DOMAIN q : q[i] \in Payload
  BY ElementOfSeq, LenProperties
<1>2. \A i \in DOMAIN q : TextOfEvent[q[i]] = IF q[i].kind = "invalid" THEN <<>> ELSE q[i].text
  BY <1>1 DEF TextOfEvent
<1>3. [i \in DOMAIN q |-> IF q[i].kind = "invalid" THEN <<>> ELSE q[i].text] = Image(q, TextOfEvent)
  BY <1>2 DEF Image
<1>4. QED
  BY <1>3 DEF Writable, Spread

LEMMA ValidIs ==
  ASSUME NEW q \in Seq(Payload)
  PROVE  Valid(q) = Spread(q, Kept)
<1>1. \A i \in DOMAIN q : q[i] \in Payload
  BY ElementOfSeq, LenProperties
<1>2. \A i \in DOMAIN q : Kept[q[i]] = IF q[i].kind = "invalid" THEN <<>> ELSE <<q[i]>>
  BY <1>1 DEF Kept
<1>3. [i \in DOMAIN q |-> IF q[i].kind = "invalid" THEN <<>> ELSE <<q[i]>>] = Image(q, Kept)
  BY <1>2 DEF Image
<1>4. QED
  BY <1>3 DEF Valid, Spread

LEMMA TextOfLines ==
  ASSUME NEW s \in Seq(AnyLine), NEW t \in Seq(AnyLine)
  PROVE  /\ TextOf(s) \in Seq(Token)
         /\ TextOf(s \o t) = TextOf(s) \o TextOf(t)
         /\ TextOf(<<>>) = <<>>
<1>1. s \o t \in Seq(AnyLine) /\ <<>> \in Seq(AnyLine)
  BY ConcatProperties, EmptySeq
<1>2. Spread(s, TextOfLine) \in Seq(Token)
  BY MapsOfData, SpreadTyped
<1>3. Spread(s \o t, TextOfLine) = Spread(s, TextOfLine) \o Spread(t, TextOfLine)
  BY MapsOfData, SpreadConcat
<1>4. Spread(<<>>, TextOfLine) = <<>>
  BY SpreadEmpty
<1>5. QED
  BY <1>1, <1>2, <1>3, <1>4, TextOfIs

LEMMA WritableTexts ==
  ASSUME NEW q \in Seq(Payload), NEW r \in Seq(Payload)
  PROVE  /\ Writable(q) \in Seq(Token)
         /\ Writable(q \o r) = Writable(q) \o Writable(r)
         /\ Writable(<<>>) = <<>>
<1>1. q \o r \in Seq(Payload) /\ <<>> \in Seq(Payload)
  BY ConcatProperties, EmptySeq
<1>2. Spread(q, TextOfEvent) \in Seq(Token)
  BY MapsOfData, SpreadTyped
<1>3. Spread(q \o r, TextOfEvent) = Spread(q, TextOfEvent) \o Spread(r, TextOfEvent)
  BY MapsOfData, SpreadConcat
<1>4. Spread(<<>>, TextOfEvent) = <<>>
  BY SpreadEmpty
<1>5. QED
  BY <1>1, <1>2, <1>3, <1>4, WritableIs

LEMMA WritableOne ==
  ASSUME NEW p \in Payload
  PROVE  Writable(<<p>>) = IF p.kind = "invalid" THEN <<>> ELSE p.text
<1>1. <<p>> \in Seq(Payload)
  OBVIOUS
<1>2. Spread(<<p>>, TextOfEvent) = TextOfEvent[p]
  BY MapsOfData, SpreadOne
<1>3. QED
  BY <1>1, <1>2, WritableIs DEF TextOfEvent

LEMMA ValidEvents ==
  ASSUME NEW q \in Seq(Payload), NEW r \in Seq(Payload)
  PROVE  /\ Valid(q) \in Seq(Payload)
         /\ Valid(q \o r) = Valid(q) \o Valid(r)
         /\ Valid(<<>>) = <<>>
<1>1. q \o r \in Seq(Payload) /\ <<>> \in Seq(Payload)
  BY ConcatProperties, EmptySeq
<1>2. Spread(q, Kept) \in Seq(Payload)
  BY MapsOfData, SpreadTyped
<1>3. Spread(q \o r, Kept) = Spread(q, Kept) \o Spread(r, Kept)
  BY MapsOfData, SpreadConcat
<1>4. Spread(<<>>, Kept) = <<>>
  BY SpreadEmpty
<1>5. QED
  BY <1>1, <1>2, <1>3, <1>4, ValidIs

LEMMA ValidOne ==
  ASSUME NEW p \in Payload
  PROVE  Valid(<<p>>) = IF p.kind = "invalid" THEN <<>> ELSE <<p>>
<1>1. <<p>> \in Seq(Payload)
  OBVIOUS
<1>2. Spread(<<p>>, Kept) = Kept[p]
  BY MapsOfData, SpreadOne
<1>3. QED
  BY <1>1, <1>2, ValidIs DEF Kept

\* Every line has its number and the text of its event.
LEMMA NumberedLines ==
  ASSUME seq \in Nat, NEW q \in Seq(Payload)
  PROVE  /\ Numbered(q) \in Seq(Line)
         /\ Len(Numbered(q)) = Len(Valid(q))
         /\ \A i \in 1..Len(Valid(q)) : /\ Numbered(q)[i].seq = seq + i
                                        /\ Numbered(q)[i].text = Valid(q)[i].text
<1> DEFINE v == Valid(q)
           n == Len(v)
           m == Numbered(q)
           at(i) == [seq |-> seq + i, text |-> v[i].text]
<1>1. v \in Seq(Payload) /\ n \in Nat /\ DOMAIN v = 1..n
  BY ValidEvents, LenProperties
<1>2. m = [i \in 1..n |-> at(i)]
  BY <1>1 DEF Numbered
<1>3. \A i \in 1..n : at(i) \in Line
  <2>1. TAKE i \in 1..n
  <2>2. v[i] \in Payload
    BY <1>1, ElementOfSeq
  <2>3. v[i].text \in Seq(Token) /\ seq + i \in Nat \ {0}
    BY <1>1, <2>2 DEF Payload
  <2>4. QED
    BY <2>3 DEF Line
<1>4. \A i \in 1..n : at(i).seq = seq + i /\ at(i).text = v[i].text
  OBVIOUS
<1> HIDE DEF v, n, m, at
<1>5. m \in Seq(Line) /\ Len(m) = n /\ \A i \in 1..n : m[i] = at(i)
  BY <1>1, <1>2, <1>3
<1>6. QED
  BY <1>4, <1>5 DEF v, n, m

LEMMA PlainTextOfValid ==
  ASSUME NEW q \in Seq(Payload)
  PROVE  Spread(Valid(q), PlainText) = Writable(q)
<1> DEFINE T == {s \in Seq(Payload) : Spread(Valid(s), PlainText) = Writable(s)}
<1>1. <<>> \in T
  <2>1. <<>> \in Seq(Payload)
    OBVIOUS
  <2>2. Valid(<<>>) = <<>> /\ Writable(<<>>) = <<>>
    BY <2>1, ValidEvents, WritableTexts
  <2>3. QED
    BY <2>1, <2>2, SpreadEmpty
<1>2. ASSUME NEW s \in Seq(Payload), NEW p \in Payload, s \in T
      PROVE  s \o <<p>> \in T
  <2> DEFINE e == <<p>>
  <2>1. e \in Seq(Payload)
    OBVIOUS
  <2>2. Spread(Valid(e), PlainText) = Writable(e)
    <3>1. Spread(<<p>>, PlainText) = p.text
      BY MapsOfData, SpreadOne DEF PlainText
    <3>2. Spread(<<>>, PlainText) = <<>>
      BY SpreadEmpty
    <3>3. QED
      BY <3>1, <3>2, ValidOne, WritableOne
  <2> HIDE DEF e
  <2>3. /\ Valid(s \o e) = Valid(s) \o Valid(e)
        /\ Writable(s \o e) = Writable(s) \o Writable(e)
        /\ Valid(s) \in Seq(Payload) /\ Valid(e) \in Seq(Payload)
    BY <2>1, ValidEvents, WritableTexts
  <2>4. Spread(Valid(s) \o Valid(e), PlainText)
          = Spread(Valid(s), PlainText) \o Spread(Valid(e), PlainText)
    <3>1. Maps(PlainText, Payload, Token) /\ Valid(s) \in Seq(Payload) /\ Valid(e) \in Seq(Payload)
      BY <2>3, MapsOfData
    <3>2. QED
      BY <3>1, SpreadConcat
  <2>5. Spread(Valid(s), PlainText) = Writable(s)
    BY <1>2
  <2>6. s \o e \in Seq(Payload)
    BY <2>1, ConcatProperties
  <2>7. s \o e \in T
    BY <2>2, <2>3, <2>4, <2>5, <2>6
  <2>8. QED
    BY <2>7 DEF e
<1>3. q \in T
  <2> HIDE DEF T
  <2>1. QED
    BY <1>1, <1>2, ElementByElement
<1>4. QED
  BY <1>3

\* The lines of a batch say what the batch has to say.
LEMMA NumberedText ==
  ASSUME seq \in Nat, NEW q \in Seq(Payload)
  PROVE  TextOf(Numbered(q)) = Writable(q)
<1> DEFINE v == Valid(q)
           m == Numbered(q)
           n == Len(v)
<1>1. /\ v \in Seq(Payload) /\ m \in Seq(Line) /\ n \in Nat /\ Len(m) = n
      /\ \A i \in 1..n : m[i].text = v[i].text
      /\ DOMAIN v = 1..n
  BY ValidEvents, NumberedLines, LenProperties
<1>2. DOMAIN m = 1..n
  BY <1>1, LenProperties
<1>3. \A i \in 1..n : PlainText[v[i]] = v[i].text
  BY <1>1, ElementOfSeq DEF PlainText
<1> HIDE DEF v, m, n
<1>4. [i \in DOMAIN m |-> m[i].text] = Image(v, PlainText)
  BY <1>1, <1>2, <1>3 DEF Image
<1>5. TextOf(m) = Spread(v, PlainText)
  BY <1>4 DEF TextOf, Spread
<1>6. QED
  BY <1>5, PlainTextOfValid DEF v, m

\* No event of a batch is without a word.
LEMMA WorthWriting ==
  ASSUME NEW q \in Seq(Payload), \A i \in DOMAIN q : q[i].text # <<>>, Valid(q) # <<>>
  PROVE  Len(Writable(q)) \in Nat \ {0}
<1> DEFINE Says(s) == \A i \in 1..Len(s) : s[i].text # <<>>
           T == {s \in Seq(Payload) : Says(s) => Len(Valid(s)) <= Len(Writable(s))}
<1>1. <<>> \in T
  <2>1. <<>> \in Seq(Payload)
    OBVIOUS
  <2>2. Valid(<<>>) = <<>> /\ Writable(<<>>) = <<>>
    BY <2>1, ValidEvents, WritableTexts
  <2>3. QED
    BY <2>1, <2>2
<1>2. ASSUME NEW s \in Seq(Payload), NEW p \in Payload, s \in T
      PROVE  s \o <<p>> \in T
  <2> DEFINE e == <<p>>
             se == s \o e
  <2>1. e \in Seq(Payload) /\ Len(e) = 1 /\ e[1] = p
    OBVIOUS
  <2> HIDE DEF e
  <2>2. /\ Valid(s \o e) = Valid(s) \o Valid(e)
        /\ Writable(s \o e) = Writable(s) \o Writable(e)
        /\ Valid(s) \in Seq(Payload) /\ Valid(e) \in Seq(Payload)
        /\ Writable(s) \in Seq(Token) /\ Writable(e) \in Seq(Token)
    BY <2>1, ValidEvents, WritableTexts
  <2>3. /\ Len(Valid(s \o e)) = Len(Valid(s)) + Len(Valid(e))
        /\ Len(Writable(s \o e)) = Len(Writable(s)) + Len(Writable(e))
    BY <2>2, ConcatProperties
  <2>4. /\ se \in Seq(Payload) /\ Len(se) = Len(s) + 1 /\ Len(s) \in Nat
        /\ \A i \in 1..(Len(s) + 1) : se[i] = IF i <= Len(s) THEN s[i] ELSE e[i - Len(s)]
    <3> DEFINE j == Len(e)
               n == Len(s)
    <3>1. n \in Nat /\ j = 1
      BY <2>1, LenProperties
    <3>2. /\ se \in Seq(Payload) /\ Len(se) = n + j
          /\ \A i \in 1..(n + j) : se[i] = IF i <= n THEN s[i] ELSE e[i - n]
      BY <2>1, ConcatProperties
    <3> HIDE DEF j, n, se
    <3>3. /\ se \in Seq(Payload) /\ Len(se) = n + 1 /\ n \in Nat
          /\ \A i \in 1..(n + 1) : se[i] = IF i <= n THEN s[i] ELSE e[i - n]
      BY <3>1, <3>2
    <3>4. QED
      BY <3>3 DEF n
  <2> HIDE DEF se
  <2>5. ASSUME Says(se) PROVE Says(s) /\ p.text # <<>>
    <3>1. \A i \in 1..Len(s) : i \in 1..Len(se) /\ se[i] = s[i]
      BY <2>4
    <3>2. Len(s) + 1 \in 1..Len(se) /\ se[Len(s) + 1] = p
      <4>1. (Len(s) + 1) - Len(s) = 1 /\ ~(Len(s) + 1 <= Len(s)) /\ Len(s) + 1 \in 1..(Len(s) + 1)
        BY <2>4
      <4>2. QED
        BY <2>1, <2>4, <4>1
    <3>3. QED
      BY <2>5, <3>1, <3>2
  <2>6. ASSUME p.text # <<>> PROVE Len(Valid(e)) <= Len(Writable(e))
    <3>1. p.text \in Seq(Token) /\ Len(p.text) \in Nat \ {0}
      BY <2>6, EmptySeq DEF Payload
    <3>2. CASE p.kind = "invalid"
      <4>1. Valid(e) = <<>> /\ Writable(e) = <<>>
        BY <3>2, ValidOne, WritableOne DEF e
      <4>2. QED
        BY <4>1
    <3>3. CASE p.kind # "invalid"
      <4>1. Valid(e) = <<p>> /\ Writable(e) = p.text
        BY <3>3, ValidOne, WritableOne DEF e
      <4>2. Len(Valid(e)) = 1
        BY <4>1
      <4>3. QED
        BY <3>1, <4>1, <4>2
    <3>4. QED
      BY <3>2, <3>3
  <2>7. Len(Valid(s)) \in Nat /\ Len(Valid(e)) \in Nat /\ Len(Writable(s)) \in Nat /\ Len(Writable(e)) \in Nat
    BY <2>2, LenProperties
  <2>8. Says(se) => Len(Valid(se)) <= Len(Writable(se))
    <3>1. SUFFICES ASSUME Says(se) PROVE Len(Valid(se)) <= Len(Writable(se))
      OBVIOUS
    <3>2. Len(Valid(s)) <= Len(Writable(s))
      BY <1>2, <2>5, <3>1
    <3>3. Len(Valid(e)) <= Len(Writable(e))
      BY <2>5, <2>6, <3>1
    <3>4. QED
      BY <2>3, <2>7, <3>2, <3>3 DEF se
  <2>9. se \in T
    BY <2>4, <2>8
  <2>10. QED
    BY <2>9 DEF se, e
<1>3. q \in T
  <2> HIDE DEF T
  <2>1. QED
    BY <1>1, <1>2, ElementByElement
<1>4. Says(q)
  BY LenProperties
<1>5. Len(Valid(q)) \in Nat \ {0} /\ Len(Writable(q)) \in Nat
  BY ValidEvents, WritableTexts, EmptySeq, LenProperties
<1>6. QED
  BY <1>3, <1>4, <1>5

-----------------------------------------------------------------------------
(***************************************************************************)
(* The lines in a log's files.                                             *)
(***************************************************************************)
Lines == Seq(AnyLine)
Files == [Segment -> Lines]

Cut(s, l)    == SubSeq(s, 1, Min({Len(s), l}))
Before(g, k) == FlattenSeq([n \in 1..k |-> g[n]])

LEMMA SegmentIs ==
  /\ MaxSegment \in Nat \ {0} /\ \A n \in Segment : n \in Nat /\ n >= 1 /\ n <= MaxSegment
  /\ \A n \in Nat : n \in Segment <=> 1 <= n /\ n <= MaxSegment
  /\ SegmentMax \in Nat \ {0} /\ MaxTokens \in Nat /\ \A l \in 0..SegmentMax : l \in Nat
BY EventLogAssumption DEF Segment

LEMMA MinOfTwo ==
  ASSUME NEW a \in Nat, NEW b \in Nat
  PROVE  Min({a, b}) = IF a <= b THEN a ELSE b
<1> DEFINE m == IF a <= b THEN a ELSE b
<1>1. m \in {a, b} /\ \A y \in {a, b} : m <= y
  OBVIOUS
<1>2. \A x \in {a, b} : (\A y \in {a, b} : x <= y) => x = m
  OBVIOUS
<1>3. QED
  BY <1>1, <1>2 DEF Min

LEMMA CutOfLines ==
  ASSUME NEW S, NEW s \in Seq(S), NEW l \in Nat
  PROVE  /\ Cut(s, l) \in Seq(S)
         /\ Len(Cut(s, l)) = IF Len(s) <= l THEN Len(s) ELSE l
         /\ \A i \in 1..Len(Cut(s, l)) : Cut(s, l)[i] = s[i]
         /\ Len(s) <= l => Cut(s, l) = s
<1> DEFINE m == IF Len(s) <= l THEN Len(s) ELSE l
<1>1. Len(s) \in Nat /\ m \in Nat /\ m <= Len(s)
  BY LenProperties
<1>2. Min({Len(s), l}) = m
  BY <1>1, MinOfTwo
<1>3. \A i \in 1..m : s[i] \in S
  BY <1>1, ElementOfSeq
<1>4. Cut(s, l) = SubSeq(s, 1, m)
  BY <1>2 DEF Cut
<1>5. /\ SubSeq(s, 1, m) \in Seq(S) /\ Len(SubSeq(s, 1, m)) = m
      /\ \A i \in 1..m : SubSeq(s, 1, m)[i] = s[i]
  <2> HIDE DEF m
  <2>1. /\ SubSeq(s, 1, m) \in Seq(S)
        /\ Len(SubSeq(s, 1, m)) = IF 1 <= m THEN m - 1 + 1 ELSE 0
        /\ \A i \in 1 .. m - 1 + 1 : SubSeq(s, 1, m)[i] = s[1 + i - 1]
    BY <1>1, <1>3, SubSeqProperties
  <2>2. QED
    BY <1>1, <2>1
<1>6. Len(s) <= l => SubSeq(s, 1, m) = s
  BY SubSeqFull
<1>7. QED
  BY <1>4, <1>5, <1>6

\* Lines behind those that are kept do not matter.
LEMMA CutOfMore ==
  ASSUME NEW S, NEW s \in Seq(S), NEW t \in Seq(S), NEW l \in Nat, l <= Len(s), l <= Len(t),
         \A i \in 1..l : s[i] = t[i]
  PROVE  Cut(s, l) = Cut(t, l)
<1>1. Len(s) \in Nat /\ Len(t) \in Nat
  BY LenProperties
<1>2. /\ Cut(s, l) \in Seq(S) /\ Len(Cut(s, l)) = l /\ \A i \in 1..l : Cut(s, l)[i] = s[i]
  BY <1>1, CutOfLines
<1>3. /\ Cut(t, l) \in Seq(S) /\ Len(Cut(t, l)) = l /\ \A i \in 1..l : Cut(t, l)[i] = t[i]
  BY <1>1, CutOfLines
<1>4. QED
  BY <1>2, <1>3, SeqEqual

LEMMA BeforeEmpty ==
  ASSUME NEW g
  PROVE  Before(g, 0) = <<>>
<1>1. [n \in 1..0 |-> g[n]] = <<>>
  OBVIOUS
<1>2. QED
  BY <1>1, FlattenEmpty DEF Before

\* A sequence of the first segments, as it is or with the last one cut.
LEMMA FirstSegments ==
  ASSUME NEW g \in Files, NEW k \in Nat, k <= MaxSegment
  PROVE  /\ [n \in 1..k |-> g[n]] \in Seq(Lines)
         /\ Len([n \in 1..k |-> g[n]]) = k
<1> DEFINE m == [n \in 1..k |-> g[n]]
<1>1. \A n \in 1..k : n \in Segment
  BY SegmentIs
<1>2. \A n \in 1..k : g[n] \in Lines
  BY <1>1 DEF Files
<1>3. m \in Seq(Lines) /\ Len(m) = k
  <2> HIDE DEF Lines
  <2>1. QED
    BY <1>2
<1>4. QED
  BY <1>3

LEMMA BeforeNext ==
  ASSUME NEW g \in Files, NEW k \in Segment
  PROVE  /\ Before(g, k) = Before(g, k - 1) \o g[k]
         /\ Before(g, k) \in Lines /\ Before(g, k - 1) \in Lines /\ g[k] \in Lines
<1> DEFINE j == k - 1
           ss == [n \in 1..j |-> g[n]]
           tt == [n \in 1..k |-> g[n]]
<1>1. k \in Nat /\ j \in Nat /\ k <= MaxSegment /\ j <= MaxSegment /\ k = j + 1
  BY SegmentIs
<1>2. ss \in Seq(Lines) /\ Len(ss) = j /\ tt \in Seq(Lines) /\ Len(tt) = k
  <2> HIDE DEF j
  <2>1. QED
    BY <1>1, FirstSegments
<1>3. tt[k] = g[k] /\ \A i \in 1..j : tt[i] = ss[i]
  <2> HIDE DEF j
  <2>1. QED
    BY <1>1
<1>4. Before(g, k) = FlattenSeq(tt) /\ Before(g, j) = FlattenSeq(ss)
  BY DEF Before
<1> HIDE DEF ss, tt, j
<1>5. FlattenSeq(tt) = FlattenSeq(ss) \o tt[Len(tt)]
  <2>1. Len(tt) = Len(ss) + 1 /\ \A i \in 1..Len(ss) : tt[i] = ss[i]
    BY <1>1, <1>2, <1>3
  <2>2. QED
    BY <1>2, <2>1, FlattenLast DEF Lines
<1>6. FlattenSeq(tt) \in Lines /\ FlattenSeq(ss) \in Lines
  BY <1>2, FlattenTyped DEF Lines
<1>7. g[k] \in Lines
  BY DEF Files
<1>8. QED
  BY <1>2, <1>3, <1>4, <1>5, <1>6, <1>7 DEF j

LEMMA BeforeTyped ==
  ASSUME NEW g \in Files, NEW k \in 0..MaxSegment
  PROVE  Before(g, k) \in Lines
<1>1. CASE k = 0
  BY <1>1, BeforeEmpty, EmptySeq DEF Lines
<1>2. CASE k # 0
  <2>1. k \in Segment
    BY <1>2, SegmentIs
  <2>2. QED
    BY <2>1, BeforeNext
<1>3. QED
  BY <1>1, <1>2

LEMMA BeforeSame ==
  ASSUME NEW g, NEW h, NEW k, \A n \in 1..k : g[n] = h[n]
  PROVE  Before(g, k) = Before(h, k)
<1>1. [n \in 1..k |-> g[n]] = [n \in 1..k |-> h[n]]
  OBVIOUS
<1>2. QED
  BY <1>1 DEF Before

LEMMA LinesToIs ==
  ASSUME NEW g \in Files, NEW l \in Nat
  PROVE  /\ LinesTo(g, 0, l) = <<>>
         /\ \A k \in Segment : LinesTo(g, k, l) = Before(g, k - 1) \o Cut(g[k], l)
<1>1. LinesTo(g, 0, l) = <<>>
  <2> DEFINE cut(n) == IF n < 0 THEN g[n] ELSE SubSeq(g[n], 1, Min({Len(g[n]), l}))
  <2>1. [n \in 1..0 |-> cut(n)] = <<>>
    OBVIOUS
  <2>2. LinesTo(g, 0, l) = FlattenSeq([n \in 1..0 |-> cut(n)])
    BY DEF LinesTo
  <2> HIDE DEF cut
  <2>3. QED
    BY <2>1, <2>2, FlattenEmpty
<1>2. ASSUME NEW k \in Segment
      PROVE  LinesTo(g, k, l) = Before(g, k - 1) \o Cut(g[k], l)
  <2> DEFINE j == k - 1
             cut(n) == IF n < k THEN g[n] ELSE Cut(g[n], l)
             h == [n \in Segment |-> cut(n)]
  <2>1. k \in Nat /\ j \in Nat /\ k <= MaxSegment /\ j <= MaxSegment /\ k = j + 1
    BY SegmentIs
  <2>2. \A n \in Segment : cut(n) \in Lines
    <3>1. TAKE n \in Segment
    <3>2. g[n] \in Seq(AnyLine)
      BY DEF Files, Lines
    <3>3. Cut(g[n], l) \in Seq(AnyLine)
      BY <3>2, CutOfLines
    <3>4. QED
      BY <3>2, <3>3 DEF Lines
  <2>3. h \in Files /\ \A n \in Segment : h[n] = cut(n)
    <3> HIDE DEF cut
    <3>1. QED
      BY <2>2 DEF Files
  <2>4. \A n \in 1..k : n \in Segment
    BY <2>1, SegmentIs
  <2>5. LinesTo(g, k, l) = FlattenSeq([n \in 1..k |-> cut(n)])
    BY DEF LinesTo, Cut
  <2>6. [n \in 1..k |-> cut(n)] = [n \in 1..k |-> h[n]]
    <3> HIDE DEF h, cut
    <3>1. QED
      BY <2>3, <2>4
  <2>7. LinesTo(g, k, l) = Before(h, k)
    <3> HIDE DEF h, cut
    <3>1. QED
      BY <2>5, <2>6 DEF Before
  <2>8. Before(h, k) = Before(h, j) \o h[k]
    <3> HIDE DEF h
    <3>1. QED
      BY <2>3, BeforeNext
  <2>9. h[k] = Cut(g[k], l)
    <3>1. ~(k < k)
      BY <2>1
    <3> HIDE DEF h
    <3>2. QED
      BY <2>3, <3>1
  <2>10. \A n \in 1..j : h[n] = g[n]
    <3>1. TAKE n \in 1..j
    <3>2. n < k /\ n \in Segment
      BY <2>1, SegmentIs
    <3> HIDE DEF h
    <3>3. QED
      BY <2>3, <3>2
  <2>11. Before(h, j) = Before(g, j)
    <3> HIDE DEF h, j
    <3>1. QED
      BY <2>10, BeforeSame
  <2>12. QED
    <3> HIDE DEF h
    <3>1. QED
      BY <2>7, <2>8, <2>9, <2>11
<1>3. QED
  BY <1>1, <1>2

LEMMA LinesToTyped ==
  ASSUME NEW g \in Files, NEW l \in Nat, NEW k \in 0..MaxSegment
  PROVE  LinesTo(g, k, l) \in Lines
<1>1. CASE k = 0
  BY <1>1, LinesToIs, EmptySeq DEF Lines
<1>2. CASE k # 0
  <2>1. k \in Segment
    BY <1>2, SegmentIs
  <2>2. Before(g, k - 1) \in Seq(AnyLine) /\ g[k] \in Seq(AnyLine)
    BY <2>1, BeforeNext DEF Lines
  <2>3. Before(g, k - 1) \o Cut(g[k], l) \in Seq(AnyLine)
    BY <2>2, CutOfLines, ConcatProperties
  <2>4. QED
    BY <2>1, <2>3, LinesToIs DEF Lines
<1>3. QED
  BY <1>1, <1>2

\* The lines up to a place, by what the segments have up to it.
LEMMA LinesToSame ==
  ASSUME NEW g \in Files, NEW h \in Files, NEW l \in Nat, NEW k \in 0..MaxSegment,
         \A n \in 1..(k - 1) : g[n] = h[n], k # 0 => Cut(g[k], l) = Cut(h[k], l)
  PROVE  LinesTo(g, k, l) = LinesTo(h, k, l)
<1>1. CASE k = 0
  BY <1>1, LinesToIs
<1>2. CASE k # 0
  <2>1. k \in Segment
    BY <1>2, SegmentIs
  <2>2. Before(g, k - 1) = Before(h, k - 1)
    BY BeforeSame
  <2>3. QED
    BY <1>2, <2>1, <2>2, LinesToIs
<1>3. QED
  BY <1>1, <1>2

\* Where the lines of a segment are among all of them.
LEMMA BeforeHas ==
  ASSUME NEW g \in Files, NEW n \in Segment, NEW k \in n..MaxSegment
  PROVE  /\ Len(Before(g, n)) <= Len(Before(g, k))
         /\ \A i \in 1..Len(Before(g, n)) : Before(g, k)[i] = Before(g, n)[i]
<1> DEFINE b == Before(g, n)
           Has(m) == LET c == Before(g, n + m)
                     IN  Len(b) <= Len(c) /\ \A i \in 1..Len(b) : c[i] = b[i]
           T == {m \in Nat : n + m <= MaxSegment => Has(m)}
<1>1. n \in Nat /\ k \in Nat /\ n >= 1 /\ MaxSegment \in Nat
  BY SegmentIs
<1>2. \A m \in 0..MaxSegment : Before(g, m) \in Seq(AnyLine) /\ Len(Before(g, m)) \in Nat
  BY BeforeTyped, LenProperties DEF Lines
<1>3. b \in Seq(AnyLine) /\ Len(b) \in Nat
  BY <1>1, <1>2, SegmentIs
<1>4. 0 \in T
  <2>1. n + 0 = n
    BY <1>1
  <2>2. QED
    BY <1>3, <2>1
<1>5. ASSUME NEW m \in Nat, m \in T PROVE m + 1 \in T
  <2> DEFINE p == n + m
             q == n + (m + 1)
             c == Before(g, p)
             d == Before(g, q)
  <2>1. SUFFICES ASSUME q <= MaxSegment PROVE Has(m + 1)
    OBVIOUS
  <2>2. /\ q \in Nat /\ p \in Nat /\ q = p + 1 /\ q - 1 = p /\ p <= MaxSegment /\ q >= 1
        /\ p \in 0..MaxSegment /\ q \in Segment
    BY <1>1, <2>1, SegmentIs
  <2>3. Len(b) <= Len(c) /\ \A i \in 1..Len(b) : c[i] = b[i]
    BY <1>5, <2>2
  <2>4. /\ d = c \o g[q] /\ c \in Seq(AnyLine) /\ g[q] \in Seq(AnyLine)
    <3> HIDE DEF p, q
    <3>1. QED
      BY <2>2, BeforeNext DEF Lines
  <2> HIDE DEF p, q, c
  <2>5. /\ Len(c \o g[q]) = Len(c) + Len(g[q]) /\ Len(c) \in Nat /\ Len(g[q]) \in Nat
        /\ \A i \in 1..(Len(c) + Len(g[q])) : i <= Len(c) => (c \o g[q])[i] = c[i]
    BY <2>4, ConcatProperties, LenProperties
  <2> HIDE DEF d, b
  <2>6. Len(b) <= Len(d)
    BY <1>3, <2>3, <2>4, <2>5
  <2>7. ASSUME NEW i \in 1..Len(b) PROVE d[i] = b[i]
    <3>1. i \in 1..(Len(c) + Len(g[q])) /\ i <= Len(c)
      BY <1>3, <2>3, <2>5
    <3>2. QED
      BY <2>3, <2>4, <2>5, <3>1
  <2>8. QED
    BY <2>6, <2>7 DEF d, q
<1>6. \A m \in 0..(k - n) : m \in T
  <2>1. k - n \in Nat
    BY <1>1
  <2> HIDE DEF T
  <2>2. QED
    BY <1>4, <1>5, <2>1, UpTo
<1>7. k - n \in 0..(k - n) /\ n + (k - n) = k /\ k <= MaxSegment
  BY <1>1
<1>8. k - n \in T
  <2> HIDE DEF T
  <2>1. QED
    BY <1>6, <1>7
<1>9. QED
  BY <1>7, <1>8

\* A set of numbers up to n that is not empty has a greatest one.
LEMMA GreatestOf ==
  ASSUME NEW n \in Nat, NEW T \in SUBSET (0..n), T # {}
  PROVE  Max(T) \in T /\ \A y \in T : y <= Max(T)
<1> DEFINE L == {m \in Nat : \E x \in T : m = n - x}
<1>1. L \in SUBSET Nat /\ L # {}
  <2>1. PICK x \in T : TRUE
    OBVIOUS
  <2>2. n - x \in Nat
    OBVIOUS
  <2>3. n - x \in L
    BY <2>2
  <2> HIDE DEF L
  <2>4. L # {}
    BY <2>3
  <2>5. L \in SUBSET Nat
    BY DEF L
  <2>6. QED
    BY <2>4, <2>5
<1>2. PICK l \in L : \A m \in Nat : m < l => m \notin L
  <2> HIDE DEF L
  <2>1. QED
    BY <1>1, LeastNumber
<1>3. PICK x \in T : l = n - x
  BY <1>2
<1>4. ASSUME NEW y \in T PROVE x >= y
  <2>1. n - y \in Nat /\ n - y \in L
    OBVIOUS
  <2>2. ~(n - y < l)
    <3> HIDE DEF L
    <3>1. QED
      BY <1>2, <2>1
  <2>3. QED
    BY <1>3, <2>2
<1>5. \E z \in T : \A y \in T : z >= y
  BY <1>4
<1> DEFINE g == CHOOSE z \in T : \A y \in T : z >= y
<1>6. g \in T /\ \A y \in T : g >= y
  BY <1>5
<1>7. Max(T) = g
  BY DEF Max
<1> HIDE DEF g
<1>8. \A y \in T : y <= g
  BY <1>6
<1>9. QED
  BY <1>6, <1>7, <1>8

\* The last line that is whole.
LEMMA LastSeqTyped ==
  ASSUME NEW s \in Lines
  PROVE  /\ LastSeqIn(s) \in Nat
         /\ LastSeqIn(s) > 0 =>
              \E k \in 1..Len(s) : /\ s[k].seq > 0 /\ LastSeqIn(s) = s[k].seq
                                   /\ \A i \in 1..Len(s) : s[i].seq > 0 => i <= k
         /\ ~(LastSeqIn(s) > 0) => \A i \in 1..Len(s) : ~(s[i].seq > 0)
<1> DEFINE whole == {i \in 1..Len(s) : s[i].seq > 0}
           k == Max(whole)
<1>1. Len(s) \in Nat /\ DOMAIN s = 1..Len(s)
  BY LenProperties DEF Lines
<1>2. LastSeqIn(s) = IF whole = {} THEN 0 ELSE s[k].seq
  BY <1>1 DEF LastSeqIn
<1>3. whole \in SUBSET (0..Len(s))
  BY <1>1
<1>4. CASE whole = {}
  <2>1. \A i \in 1..Len(s) : ~(s[i].seq > 0)
    BY <1>4
  <2>2. QED
    BY <1>2, <1>4, <2>1
<1>5. CASE whole # {}
  <2>1. k \in whole /\ \A y \in whole : y <= k
    <3> HIDE DEF whole
    <3>1. QED
      BY <1>1, <1>3, <1>5, GreatestOf
  <2> HIDE DEF k
  <2>2. k \in 1..Len(s) /\ s[k].seq > 0 /\ \A i \in 1..Len(s) : s[i].seq > 0 => i <= k
    BY <2>1
  <2>3. s[k].seq \in Nat
    <3>1. s[k] \in AnyLine
      BY <2>2, ElementOfSeq DEF Lines
    <3>2. QED
      BY <3>1 DEF AnyLine, Line, Torn
  <2>4. LastSeqIn(s) = s[k].seq
    BY <1>2, <1>5
  <2>5. QED
    BY <2>2, <2>3, <2>4
<1>6. QED
  BY <1>4, <1>5

-----------------------------------------------------------------------------
(***************************************************************************)
(* What the types say of the write under way and of the queue.             *)
(***************************************************************************)
LEMMA WriteTyped ==
  ASSUME TypeOK, w # Idle
  PROVE  /\ w \in Write /\ w.step \in Step /\ w.batch \in Seq(Payload) /\ w.lines \in Seq(Line)
         /\ w.head \in HeadFile /\ w.head.segment \in Segment /\ w.head.length \in 0..SegmentMax
         /\ w.head = [segment |-> w.head.segment, length |-> w.head.length]
BY DEF TypeOK, Write, HeadFile

LEMMA StepNotIdle ==
  w.step \in Step => w # Idle
BY DEF Step, Idle

LEMMA QueueTyped ==
  ASSUME TypeOK
  PROVE  /\ pending \in Seq(Payload) /\ Taken \in Seq(Payload) /\ w.batch \in Seq(Payload)
         /\ delta # NoDelta => delta \in Payload /\ delta.kind # "invalid"
<1>1. pending \in Seq(Payload)
  BY DEF TypeOK
<1>2. delta # NoDelta => delta \in Payload /\ delta.kind # "invalid"
  BY DEF TypeOK, Payload, Kind, DeltaKind
<1>3. w.batch \in Seq(Payload)
  <2>1. CASE w = Idle
    BY <2>1, EmptySeq DEF Idle
  <2>2. CASE w # Idle
    BY <2>2, WriteTyped
  <2>3. QED
    BY <2>1, <2>2
<1>4. Taken \in Seq(Payload)
  <2> DEFINE tail == IF delta = NoDelta THEN <<>> ELSE <<delta>>
  <2>1. tail \in Seq(Payload)
    BY <1>2
  <2>2. Taken = pending \o tail
    BY DEF Taken
  <2> HIDE DEF tail
  <2>3. QED
    BY <1>1, <2>1, <2>2, ConcatProperties
<1>5. QED
  BY <1>1, <1>2, <1>3, <1>4

\* A line of a write is whole.
LEMMA LinesAreLines ==
  ASSUME NEW s \in Seq(Line)
  PROVE  s \in Lines
<1>1. Line \subseteq AnyLine
  BY DEF AnyLine
<1>2. QED
  BY <1>1, SeqMonotonic DEF Lines

\* How many lines fit, and the lines that do and that do not.
Fit  == SubSeq(w.lines, 1, Fitting)
Rest == SubSeq(w.lines, Fitting + 1, Len(w.lines))

LEMMA FittingLines ==
  ASSUME TypeOK, w # Idle
  PROVE  /\ Fitting \in Nat /\ Fitting <= Len(w.lines) /\ w.head.length + Fitting <= SegmentMax
         /\ Fitting # Len(w.lines) => w.head.length + Fitting = SegmentMax
         /\ Fit \in Seq(Line) /\ Len(Fit) = Fitting
         /\ Rest \in Seq(Line) /\ Len(Rest) = Len(w.lines) - Fitting
         /\ Fit \o Rest = w.lines
<1> DEFINE n == Len(w.lines)
           room == SegmentMax - w.head.length
<1>1. w.lines \in Seq(Line) /\ n \in Nat /\ room \in Nat /\ w.head.length \in Nat /\ SegmentMax \in Nat
  BY WriteTyped, LenProperties, SegmentIs
<1>2. Fitting = IF room <= n THEN room ELSE n
  BY <1>1, MinOfTwo DEF Fitting
<1> DEFINE f == Fitting
<1>3. f \in 0..n
  BY <1>1, <1>2
<1>4. /\ w.head.length + f <= SegmentMax
      /\ f # n => w.head.length + f = SegmentMax
  BY <1>1, <1>2
<1> HIDE DEF f
<1>5. \A i \in 1..n : w.lines[i] \in Line
  BY <1>1, ElementOfSeq
<1> DEFINE s == w.lines
           a == SubSeq(s, 1, f)
           b == SubSeq(s, f + 1, n)
<1>6. /\ a \in Seq(Line) /\ Len(a) = f
      /\ b \in Seq(Line) /\ Len(b) = n - f
  <2> HIDE DEF n
  <2>1. (\A i \in 1..f : s[i] \in Line) /\ (\A i \in (f + 1)..n : s[i] \in Line)
    BY <1>1, <1>3, <1>5
  <2> HIDE DEF s
  <2>2. a \in Seq(Line) /\ Len(a) = IF 1 <= f THEN f - 1 + 1 ELSE 0
    BY <1>3, <2>1, SubSeqProperties
  <2>3. b \in Seq(Line) /\ Len(b) = IF f + 1 <= n THEN n - (f + 1) + 1 ELSE 0
    BY <1>1, <1>3, <2>1, SubSeqProperties
  <2>4. QED
    BY <1>1, <1>3, <2>2, <2>3
<1>7. a \o b = s
  <2>1. SubSeq(s, 1, f) \o SubSeq(s, f + 1, n) = SubSeq(s, 1, n)
    <3>1. 1 \in 1..Len(s) + 1 /\ f \in (1 - 1)..Len(s) /\ n \in f..Len(s)
      BY <1>1, <1>3
    <3>2. QED
      BY <1>1, <3>1, ConcatAdjacentSubSeq
  <2>2. SubSeq(s, 1, n) = s
    BY <1>1, SubSeqFull
  <2>3. QED
    BY <2>1, <2>2
<1>8. Fit = a /\ Rest = b
  BY DEF Fit, Rest, f
<1> HIDE DEF a, b
<1>9. QED
  BY <1>3, <1>4, <1>6, <1>7, <1>8 DEF f

-----------------------------------------------------------------------------
(***************************************************************************)
(* Types.                                                                  *)
(***************************************************************************)
\* A segment with other lines.
LEMMA FilesTyped ==
  ASSUME NEW g \in Files, NEW n \in Segment, NEW s \in Lines
  PROVE  [g EXCEPT ![n] = s] \in Files
BY DEF Files

LEMMA CutTyped ==
  ASSUME NEW s \in Lines, NEW l \in Nat
  PROVE  SubSeq(s, 1, Min({Len(s), l})) \in Lines
BY CutOfLines DEF Cut, Lines

LEMMA ScheduleFlushTyped ==
  ASSUME TypeOK, ScheduleFlush
  PROVE  flushTimer' \in BOOLEAN /\ retryTimer' \in BOOLEAN
BY DEF TypeOK, ScheduleFlush

LEMMA TypesInit ==
  Init => TypeOK
<1> SUFFICES ASSUME Init PROVE TypeOK
  OBVIOUS
<1>1. segs \in [Segment -> Seq(Line \cup {Torn})]
  BY DEF Init
<1>2. headFile \in HeadFile \cup {NoHead} /\ head \in HeadFile
  BY SegmentIs DEF Init, HeadFile, FirstHead
<1>3. /\ up \in BOOLEAN /\ seq \in Nat
      /\ flushTimer \in BOOLEAN /\ retryTimer \in BOOLEAN
      /\ unclean \in BOOLEAN /\ closed \in BOOLEAN /\ calls \in Nat
      /\ intact \in BOOLEAN
  BY DEF Init
<1>6. pending \in Seq(Payload)
  BY EmptySeq DEF Init
<1>7. w \in Write \cup {Idle} /\ delta \in [kind : DeltaKind, text : Seq(Token)] \cup {NoDelta}
  BY DEF Init
<1>4. emitted \in 0..MaxTokens /\ failures \in 0..MaxFailures /\ restarts \in 0..MaxRestarts
  BY EventLogAssumption DEF Init
<1>5. QED
  BY <1>1, <1>2, <1>3, <1>4, <1>6, <1>7 DEF TypeOK

LEMMA TypesEmit ==
  ASSUME TypeOK, NEW kind \in Kind, Emit(kind)
  PROVE  TypeOK'
<1> DEFINE e == emitted + 1
           payload == [kind |-> kind, text |-> <<emitted + 1>>]
           more == [delta EXCEPT !.text = Append(@, emitted + 1)]
<1>1. emitted' = e /\ e \in 0..MaxTokens /\ e \in Token /\ <<e>> \in Seq(Token)
  BY SegmentIs DEF TypeOK, Emit, Token
<1>2. payload \in Payload /\ (kind \in DeltaKind => payload \in [kind : DeltaKind, text : Seq(Token)])
  BY <1>1 DEF Payload
<1>3. Taken \in Seq(Payload) /\ Append(Taken, payload) \in Seq(Payload)
  BY <1>2, QueueTyped, AppendProperties
<1>4. delta # NoDelta => more \in [kind : DeltaKind, text : Seq(Token)]
  <2>1. ASSUME delta # NoDelta
        PROVE  /\ delta \in [kind : DeltaKind, text : Seq(Token)]
               /\ delta.text \in Seq(Token)
    BY <2>1 DEF TypeOK
  <2>2. ASSUME delta # NoDelta PROVE Append(delta.text, emitted + 1) \in Seq(Token)
    BY <1>1, <2>1, <2>2, AppendProperties
  <2>3. QED
    BY <2>1, <2>2
<1> HIDE DEF payload, more
<1>5. /\ pending' \in Seq(Payload)
      /\ delta' \in [kind : DeltaKind, text : Seq(Token)] \cup {NoDelta}
      /\ flushTimer' \in BOOLEAN /\ retryTimer' \in BOOLEAN
  <2>1. CASE kind \in DeltaKind /\ delta.kind = kind /\ delta' = more
               /\ UNCHANGED <<pending, timers>>
    <3>1. delta # NoDelta
      BY <2>1 DEF NoDelta, DeltaKind
    <3>2. QED
      BY <1>4, <2>1, <3>1 DEF TypeOK, timers
  <2>2. CASE kind \in DeltaKind /\ delta = NoDelta /\ delta' = payload
               /\ UNCHANGED <<pending, timers>>
    BY <1>2, <2>2 DEF TypeOK, timers
  <2>3. CASE /\ kind \in DeltaKind /\ delta.kind \notin {kind, NoDelta.kind}
             /\ pending' = Taken /\ delta' = payload /\ ScheduleFlush
    BY <1>2, <1>3, <2>3, ScheduleFlushTyped
  <2>4. CASE /\ kind \notin DeltaKind /\ pending' = Append(Taken, payload)
             /\ delta' = NoDelta /\ ScheduleFlush
    BY <1>3, <2>4, ScheduleFlushTyped
  <2>5. QED
    BY <2>1, <2>2, <2>3, <2>4 DEF Emit, payload, more
<1>6. UNCHANGED <<segs, headFile, up, head, seq, unclean, closed, calls, w, failures, restarts, intact>>
  BY DEF Emit, disk
<1>7. QED
  BY <1>1, <1>5, <1>6 DEF TypeOK

LEMMA TypesQueue ==
  ASSUME TypeOK, TimerSteps \/ Flush \/ Close
  PROVE  TypeOK'
<1>1. Taken \in Seq(Payload) /\ <<>> \in Seq(Payload) /\ calls + 1 \in Nat
  BY QueueTyped DEF TypeOK
<1>2. CASE DeltaTimerFires
  <2>1. flushTimer' \in BOOLEAN /\ retryTimer' \in BOOLEAN
    BY <1>2, ScheduleFlushTyped DEF DeltaTimerFires
  <2>2. QED
    BY <1>1, <1>2, <2>1 DEF TypeOK, DeltaTimerFires, disk
<1>3. CASE FlushTimerFires
  BY <1>1, <1>3 DEF TypeOK, FlushTimerFires, disk
<1>4. CASE RetryTimerFires
  BY <1>1, <1>4 DEF TypeOK, RetryTimerFires, disk
<1>5. CASE Flush
  BY <1>1, <1>5 DEF TypeOK, Flush, disk
<1>6. CASE Close
  BY <1>1, <1>6 DEF TypeOK, Close, disk
<1>7. QED
  BY <1>2, <1>3, <1>4, <1>5, <1>6 DEF TimerSteps

LEMMA TypesBegin ==
  ASSUME TypeOK, BeginWrite
  PROVE  TypeOK'
<1>1. Numbered(pending) \in Seq(Line) /\ calls - 1 \in Nat
  BY NumberedLines DEF TypeOK, BeginWrite
<1>2. pending' \in Seq(Payload) /\ w' \in Write \cup {Idle}
  <2> DEFINE n == [step |-> IF unclean THEN "truncate" ELSE "append",
                   batch |-> pending, lines |-> Numbered(pending), head |-> head]
  <2>1. n \in Write
    BY <1>1 DEF TypeOK, Write, Step
  <2>2. <<>> \in Seq(Payload)
    OBVIOUS
  <2> HIDE DEF n
  <2>3. CASE UNCHANGED <<pending, w>>
    BY <2>3 DEF TypeOK
  <2>4. CASE w' = n /\ pending' = <<>>
    BY <2>1, <2>2, <2>4
  <2>5. QED
    BY <2>3, <2>4 DEF BeginWrite, n
<1>3. QED
  BY <1>1, <1>2 DEF TypeOK, BeginWrite, disk, timers

LEMMA TypesTruncate ==
  ASSUME TypeOK, TruncateSegment
  PROVE  TypeOK'
<1>1. w # Idle /\ head.segment \in Segment /\ head.length \in Nat /\ segs \in Files
  BY SegmentIs DEF TypeOK, TruncateSegment, Idle, HeadFile, Files, Lines, AnyLine
<1>2. segs' \in [Segment -> Seq(Line \cup {Torn})]
  <2>1. segs[head.segment] \in Lines
    BY <1>1 DEF Files
  <2>2. SubSeq(segs[head.segment], 1, Min({Len(segs[head.segment]), head.length})) \in Lines
    BY <1>1, <2>1, CutTyped
  <2>3. segs' \in Files
    BY <1>1, <2>2, FilesTyped DEF TruncateSegment
  <2>4. QED
    BY <2>3 DEF Files, Lines, AnyLine
<1>3. w' \in Write
  BY <1>1, WriteTyped DEF TruncateSegment, Write, Step
<1>4. QED
  BY <1>2, <1>3 DEF TypeOK, TruncateSegment, timers

LEMMA TypesAppend ==
  ASSUME TypeOK, AppendLines
  PROVE  TypeOK'
<1>1. w # Idle /\ segs \in Files
  BY DEF TypeOK, AppendLines, Idle, Files, Lines, AnyLine
<1>2. /\ w \in Write /\ w.head.segment \in Segment /\ w.head.length \in Nat /\ w.lines \in Seq(Line)
  BY <1>1, WriteTyped, SegmentIs
<1>3. /\ Fitting \in Nat /\ w.head.length + Fitting \in 0..SegmentMax
      /\ Fit \in Seq(Line) /\ Rest \in Seq(Line)
  BY <1>1, <1>2, FittingLines, SegmentIs
<1>4. segs' \in [Segment -> Seq(Line \cup {Torn})]
  <2>1. segs[w.head.segment] \in Seq(AnyLine) /\ Fit \in Seq(AnyLine)
    BY <1>1, <1>2, <1>3, LinesAreLines DEF Files, Lines
  <2>2. segs[w.head.segment] \o Fit \in Lines
    BY <2>1, ConcatProperties DEF Lines
  <2>3. segs' = [segs EXCEPT ![w.head.segment] = segs[w.head.segment] \o Fit]
    BY DEF AppendLines, Fit
  <2>4. segs' \in Files
    BY <1>1, <1>2, <2>2, <2>3, FilesTyped
  <2>5. QED
    BY <2>4 DEF Files, Lines, AnyLine
<1>5. w' \in Write
  <2> DEFINE place == [segment |-> w.head.segment, length |-> w.head.length + Fitting]
             step  == IF Fitting = Len(w.lines) THEN "head" ELSE "roll"
  <2>1. place \in HeadFile /\ step \in Step
    BY <1>2, <1>3 DEF HeadFile, Step
  <2>2. w' = [w EXCEPT !.step = step, !.lines = Rest, !.head = place]
    BY DEF AppendLines, Rest
  <2> HIDE DEF place, step
  <2>3. QED
    BY <1>2, <1>3, <2>1, <2>2 DEF Write
<1>6. QED
  BY <1>4, <1>5 DEF TypeOK, AppendLines, timers

LEMMA TypesRollOver ==
  ASSUME TypeOK, RollOver
  PROVE  TypeOK'
<1>1. w # Idle /\ segs \in Files
  BY DEF TypeOK, RollOver, Idle, Files, Lines, AnyLine
<1>2. w \in Write /\ w.head.segment \in Segment /\ w.head.segment + 1 \in Segment /\ <<>> \in Lines
  BY <1>1, WriteTyped, SegmentIs, SMTT(40) DEF RollOver, Lines
<1>3. segs' \in [Segment -> Seq(Line \cup {Torn})]
  <2>1. segs' \in Files
    BY <1>1, <1>2, FilesTyped DEF RollOver
  <2>2. QED
    BY <2>1 DEF Files, Lines, AnyLine
<1>4. w' \in Write
  <2>1. [segment |-> w.head.segment + 1, length |-> 0] \in HeadFile
    BY <1>2, SegmentIs DEF HeadFile
  <2>2. QED
    BY <1>2, <2>1 DEF RollOver, Write, Step
<1>5. QED
  BY <1>3, <1>4 DEF TypeOK, RollOver, timers

LEMMA TypesSettle ==
  ASSUME TypeOK, SkipWrite \/ PublishHead
  PROVE  TypeOK'
<1>1. CASE SkipWrite
  BY <1>1 DEF TypeOK, SkipWrite, Settle, disk
<1>2. CASE PublishHead
  <2>1. w # Idle
    BY <1>2 DEF PublishHead, Idle
  <2>2. w.head \in HeadFile /\ w.batch \in Seq(Payload)
    BY <2>1, WriteTyped
  <2>3. Len(Valid(w.batch)) \in Nat
    BY <2>2, ValidEvents, LenProperties
  <2>4. seq + Len(Valid(w.batch)) \in Nat
    BY <2>3 DEF TypeOK
  <2>5. QED
    BY <1>2, <2>2, <2>4 DEF TypeOK, PublishHead, Settle
<1>3. QED
  BY <1>1, <1>2

LEMMA PartialTyped ==
  ASSUME NEW s \in Seq(Line), NEW part \in Partial(s)
  PROVE  part \in Lines
<1>1. CASE part = s
  BY <1>1, LinesAreLines
<1>2. ASSUME NEW k \in 0..(Len(s) - 1),
             part = SubSeq(s, 1, k) \/ part = Append(SubSeq(s, 1, k), Torn)
      PROVE  part \in Lines
  <2>1. Len(s) \in Nat
    BY LenProperties
  <2>2. \A i \in 1..k : s[i] \in Line
    BY <2>1, ElementOfSeq
  <2>3. SubSeq(s, 1, k) \in Seq(Line)
    BY <2>1, <2>2, SubSeqProperties
  <2>4. SubSeq(s, 1, k) \in Seq(AnyLine) /\ Torn \in AnyLine
    BY <2>3, LinesAreLines DEF Lines, AnyLine
  <2>5. QED
    BY <1>2, <2>4, AppendProperties DEF Lines
<1>3. part = s \/ \E k \in 0..(Len(s) - 1) : part \in {SubSeq(s, 1, k), Append(SubSeq(s, 1, k), Torn)}
  <2> DEFINE V == {{SubSeq(s, 1, k), Append(SubSeq(s, 1, k), Torn)} : k \in 0..(Len(s) - 1)}
  <2>1. part \in {s} \cup (UNION V)
    BY DEF Partial
  <2>2. \A X \in V : \E k \in 0..(Len(s) - 1) : X = {SubSeq(s, 1, k), Append(SubSeq(s, 1, k), Torn)}
    OBVIOUS
  <2> HIDE DEF V
  <2>3. part = s \/ \E X \in V : part \in X
    BY <2>1
  <2>4. QED
    BY <2>2, <2>3
<1>4. QED
  BY <1>1, <1>2, <1>3

LEMMA TypesFail ==
  ASSUME TypeOK, FailWrite
  PROVE  TypeOK'
<1>1. w # Idle /\ segs \in Files
  BY DEF TypeOK, FailWrite, Files, Lines, AnyLine
<1>2. w.head \in HeadFile /\ w.head.segment \in Segment
  BY <1>1, WriteTyped
<1>3. segs' \in [Segment -> Seq(Line \cup {Torn})]
  <2>1. CASE UNCHANGED segs
    BY <2>1 DEF TypeOK
  <2>2. CASE \E part \in Partial(SubSeq(w.lines, 1, Fitting)) :
               segs' = [segs EXCEPT ![w.head.segment] = @ \o part]
    <3>1. Fit \in Seq(Line)
      BY <1>1, FittingLines
    <3>2. PICK part \in Partial(Fit) : segs' = [segs EXCEPT ![w.head.segment] = segs[w.head.segment] \o part]
      BY <2>2 DEF Fit
    <3>3. part \in Seq(AnyLine) /\ segs[w.head.segment] \in Seq(AnyLine)
      BY <1>1, <1>2, <3>1, PartialTyped DEF Lines, Files
    <3>4. segs[w.head.segment] \o part \in Lines
      BY <3>3, ConcatProperties DEF Lines
    <3>5. segs' \in Files
      BY <1>1, <1>2, <3>2, <3>4, FilesTyped
    <3>6. QED
      BY <3>5 DEF Files, Lines, AnyLine
  <2>3. QED
    BY <2>1, <2>2 DEF FailWrite, FailedEffect, disk
<1>4. headFile' \in HeadFile \cup {NoHead} /\ intact' \in BOOLEAN
  BY <1>2 DEF TypeOK, FailWrite, FailedEffect, disk
<1>5. pending' \in Seq(Payload)
  BY QueueTyped, ConcatProperties DEF FailWrite
<1>6. failures' \in 0..MaxFailures
  BY EventLogAssumption DEF TypeOK, FailWrite
<1>7. QED
  BY <1>3, <1>4, <1>5, <1>6 DEF TypeOK, FailWrite

LEMMA HeadTyped ==
  ASSUME TypeOK, headFile # NoHead
  PROVE  /\ headFile \in HeadFile /\ headFile.segment \in Segment /\ headFile.segment \in Nat
         /\ headFile.length \in 0..SegmentMax /\ headFile.length \in Nat
<1>1. headFile \in HeadFile
  BY DEF TypeOK
<1>2. headFile.segment \in Segment /\ headFile.length \in 0..SegmentMax
  BY <1>1 DEF HeadFile
<1>3. QED
  BY <1>1, <1>2, SegmentIs

LEMMA TypesCrash ==
  ASSUME TypeOK, Crash
  PROVE  TypeOK'
<1>1. segs \in Files /\ (headFile # NoHead => headFile.segment \in Segment)
  BY HeadTyped DEF TypeOK, Files, Lines, AnyLine
<1>2. segs' \in [Segment -> Seq(Line \cup {Torn})]
  <2>1. CASE UNCHANGED segs
    BY <2>1 DEF TypeOK
  <2>2. CASE /\ headFile # NoHead
             /\ \E k \in 0..(Min({Len(segs[headFile.segment]), headFile.length}) - 1) :
                  segs' = [segs EXCEPT ![headFile.segment] = SubSeq(@, 1, k)]
    <3> DEFINE s == segs[headFile.segment]
               m == Min({Len(s), headFile.length})
    <3>1. PICK k \in 0..(m - 1) : segs' = [segs EXCEPT ![headFile.segment] = SubSeq(s, 1, k)]
      BY <2>2
    <3>2. s \in Seq(AnyLine) /\ Len(s) \in Nat /\ headFile.length \in Nat
      BY <1>1, <2>2, HeadTyped, LenProperties DEF Files, Lines
    <3>3. m <= Len(s) /\ m \in Nat
      BY <3>2, MinOfTwo
    <3> HIDE DEF s, m
    <3>4. k \in Int /\ \A i \in 1..k : s[i] \in AnyLine
      BY <3>1, <3>2, <3>3, ElementOfSeq
    <3>5. SubSeq(s, 1, k) \in Lines
      BY <3>4, SubSeqProperties DEF Lines
    <3>6. segs' \in Files
      BY <1>1, <2>2, <3>1, <3>5, FilesTyped
    <3>7. QED
      BY <3>6 DEF Files, Lines, AnyLine
  <2>3. QED
    BY <2>1, <2>2 DEF Crash
<1>3. /\ head' \in HeadFile /\ seq' \in Nat
      /\ flushTimer' \in BOOLEAN /\ retryTimer' \in BOOLEAN
      /\ unclean' \in BOOLEAN /\ closed' \in BOOLEAN /\ calls' \in Nat
  <2>1. FirstHead \in HeadFile
    BY SegmentIs DEF FirstHead, HeadFile
  <2>2. QED
    BY <2>1 DEF Crash, NoMemory
<1>4. pending' \in Seq(Payload)
  BY EmptySeq DEF Crash, NoMemory
<1>5. w' \in Write \cup {Idle} /\ delta' \in [kind : DeltaKind, text : Seq(Token)] \cup {NoDelta}
  BY DEF Crash, NoMemory
<1>6. restarts' \in 0..MaxRestarts /\ up' \in BOOLEAN /\ intact' \in BOOLEAN
  <2>1. restarts' = restarts + 1 /\ restarts < MaxRestarts /\ restarts \in 0..MaxRestarts /\ MaxRestarts \in Nat
    BY EventLogAssumption DEF TypeOK, Crash
  <2>2. up' \in BOOLEAN /\ intact' \in BOOLEAN
    BY DEF TypeOK, Crash
  <2>3. QED
    BY <2>1, <2>2
<1>7. UNCHANGED <<headFile, emitted, failures>>
  BY DEF Crash
<1>8. QED
  BY <1>2, <1>3, <1>4, <1>5, <1>6, <1>7 DEF TypeOK

LEMMA RecoveredTyped ==
  ASSUME TypeOK, headFile # NoHead, NEW s \in Lines
  PROVE  RecoveredSeq(s) \in Nat
<1> DEFINE at == headFile.segment
           found == {n \in Segment : at - 3 <= n /\ n < at /\ LastSeqIn(segs[n]) > 0}
<1>1. at \in Segment /\ at \in Nat
  BY HeadTyped
<1>2. LastSeqBefore(at) = IF found = {} THEN 0 ELSE LastSeqIn(segs[Max(found)])
  BY DEF LastSeqBefore
<1>3. \A n \in Segment : segs[n] \in Lines
  BY DEF TypeOK, Lines, AnyLine
<1>4. found \subseteq Segment /\ found \in SUBSET (0..at)
  <2>1. \A n \in found : n \in Segment /\ n < at
    OBVIOUS
  <2> HIDE DEF found
  <2>2. QED
    BY <1>1, <2>1, SegmentIs
<1>5. found # {} => Max(found) \in Segment
  <2> HIDE DEF found
  <2>1. QED
    BY <1>1, <1>4, GreatestOf
<1>6. LastSeqBefore(at) \in Nat
  <2>1. found # {} => LastSeqIn(segs[Max(found)]) \in Nat
    BY <1>3, <1>5, LastSeqTyped
  <2> HIDE DEF found
  <2>2. QED
    BY <1>2, <2>1
<1>7. LastSeqIn(s) \in Nat
  BY LastSeqTyped
<1>8. QED
  BY <1>6, <1>7 DEF RecoveredSeq

LEMMA TypesOpen ==
  ASSUME TypeOK, OpenEmpty \/ OpenPublished \/ OpenTorn
  PROVE  TypeOK'
<1>1. segs \in Files /\ <<>> \in Lines
  BY DEF TypeOK, Files, Lines, AnyLine
<1>2. /\ UNCHANGED <<pending, delta, flushTimer, retryTimer, unclean, closed, calls, w,
                     emitted, failures, restarts, intact>>
      /\ up' \in BOOLEAN
  BY DEF OpenEmpty, OpenPublished, OpenTorn, Opened, timers
<1>3. CASE OpenEmpty
  <2>1. 1 \in Segment
    BY SegmentIs
  <2>2. segs' \in Files
    BY <1>1, <1>3, <2>1, FilesTyped DEF OpenEmpty
  <2>3. segs' \in [Segment -> Seq(Line \cup {Torn})] /\ UNCHANGED <<headFile, head, seq>>
    BY <1>3, <2>2 DEF OpenEmpty, Files, Lines, AnyLine
  <2>4. QED
    BY <1>2, <2>3 DEF TypeOK
<1>4. CASE OpenPublished
  <2> DEFINE s == segs[headFile.segment]
             l == headFile.length
  <2>1. /\ headFile # NoHead /\ headFile \in HeadFile /\ headFile.segment \in Segment
        /\ s \in Seq(AnyLine) /\ l \in Nat /\ Len(s) >= l
    BY <1>1, <1>4, HeadTyped DEF OpenPublished, Files, Lines
  <2>2. SubSeq(s, 1, l) \in Lines
    <3>1. \A i \in 1..l : s[i] \in AnyLine
      <4>1. Len(s) \in Nat
        BY <2>1, LenProperties
      <4>2. QED
        BY <2>1, <4>1, ElementOfSeq
    <3>2. QED
      BY <2>1, <3>1, SubSeqProperties DEF Lines
  <2>3. segs' \in Files
    BY <1>1, <1>4, <2>1, <2>2, FilesTyped DEF OpenPublished
  <2>4. seq' \in Nat
    BY <1>4, <2>1, <2>2, RecoveredTyped DEF OpenPublished
  <2>5. segs' \in [Segment -> Seq(Line \cup {Torn})] /\ head' \in HeadFile /\ UNCHANGED headFile
    BY <1>4, <2>1, <2>3 DEF OpenPublished, Files, Lines, AnyLine
  <2>6. QED
    BY <1>2, <2>4, <2>5 DEF TypeOK
<1>5. CASE OpenTorn
  <2> DEFINE next == [segment |-> headFile.segment + 1, length |-> 0]
  <2>1. headFile # NoHead /\ headFile.segment \in Segment /\ headFile.segment + 1 \in Segment
    <3>1. headFile # NoHead /\ headFile.segment < MaxSegment
      BY <1>5 DEF OpenTorn
    <3>2. QED
      BY <3>1, HeadTyped, SegmentIs
  <2>2. segs[headFile.segment] \in Lines
    BY <1>1, <2>1 DEF Files
  <2>3. segs' \in Files
    BY <1>1, <1>5, <2>1, FilesTyped DEF OpenTorn
  <2>4. seq' \in Nat
    BY <1>5, <2>1, <2>2, RecoveredTyped DEF OpenTorn
  <2>5. next \in HeadFile /\ head' = next /\ headFile' = next
    BY <1>5, <2>1, SegmentIs DEF OpenTorn, HeadFile
  <2>6. segs' \in [Segment -> Seq(Line \cup {Torn})]
    BY <2>3 DEF Files, Lines, AnyLine
  <2>7. QED
    BY <1>2, <2>4, <2>5, <2>6 DEF TypeOK
<1>6. QED
  BY <1>3, <1>4, <1>5

LEMMA TypesKept ==
  ASSUME TypeOK, [Next]_vars
  PROVE  TypeOK'
<1>1. CASE \E kind \in Kind : Emit(kind)
  BY <1>1, TypesEmit
<1>2. CASE TimerSteps \/ Flush \/ Close
  BY <1>2, TypesQueue
<1>3. CASE WriteSteps
  BY <1>3, TypesBegin, TypesTruncate, TypesAppend, TypesRollOver, TypesSettle DEF WriteSteps
<1>4. CASE FailWrite
  BY <1>4, TypesFail
<1>5. CASE Crash
  BY <1>5, TypesCrash
<1>6. CASE OpenEmpty \/ OpenPublished \/ OpenTorn
  BY <1>6, TypesOpen
<1>7. CASE UNCHANGED vars
  BY <1>7 DEF TypeOK, vars, disk, memory, timers
<1>8. QED
  BY <1>1, <1>2, <1>3, <1>4, <1>5, <1>6, <1>7 DEF Next

\* The log's state keeps its types (the fields of EventLog in event-log.ts,
\* the segment files and head.json): through every write and every recovery
\* the log's place stays within the segments.
THEOREM LogTypeCorrect == Spec => []TypeOK
<1>1. TypeOK /\ [Next]_vars => TypeOK'
  BY TypesKept
<1>2. QED
  BY <1>1, TypesInit, PTL DEF Spec

-----------------------------------------------------------------------------
(***************************************************************************)
(* The memory of a process, and of none.                                   *)
(***************************************************************************)
Worded(queue) == \A i \in DOMAIN queue : queue[i].text # <<>>

\* A process that is not there remembers nothing; every event has a text.
MemoryOK ==
  /\ ~up => /\ head = FirstHead /\ seq = 0 /\ pending = <<>> /\ delta = NoDelta
            /\ ~unclean /\ ~closed /\ w = Idle
            /\ ~flushTimer /\ ~retryTimer /\ calls = 0
  /\ Worded(pending) /\ Worded(w.batch)
  /\ delta # NoDelta => delta.text # <<>>
  /\ ~up /\ headFile # NoHead => restarts > 0

LEMMA WordedBoth ==
  ASSUME NEW q \in Seq(Payload), NEW r \in Seq(Payload), Worded(q), Worded(r)
  PROVE  Worded(q \o r)
<1>1. Len(q) \in Nat /\ Len(r) \in Nat /\ DOMAIN q = 1..Len(q) /\ DOMAIN r = 1..Len(r)
  BY LenProperties
<1>2. /\ DOMAIN (q \o r) = 1..(Len(q) + Len(r))
      /\ \A i \in 1..(Len(q) + Len(r)) : (q \o r)[i] = IF i <= Len(q) THEN q[i] ELSE r[i - Len(q)]
  BY ConcatProperties, LenProperties
<1>3. ASSUME NEW i \in 1..(Len(q) + Len(r)) PROVE (q \o r)[i].text # <<>>
  <2>1. CASE i <= Len(q)
    <3>1. i \in 1..Len(q)
      BY <1>1, <2>1
    <3>2. q[i].text # <<>>
      BY <1>1, <3>1 DEF Worded
    <3>3. QED
      BY <1>2, <2>1, <3>2
  <2>2. CASE ~(i <= Len(q))
    <3>1. i - Len(q) \in 1..Len(r)
      BY <1>1, <2>2
    <3>2. r[i - Len(q)].text # <<>>
      BY <1>1, <3>1 DEF Worded
    <3>3. QED
      BY <1>2, <2>2, <3>2
  <2>3. QED
    BY <2>1, <2>2
<1>4. QED
  BY <1>2, <1>3 DEF Worded

LEMMA WordedFew ==
  /\ Worded(<<>>)
  /\ \A p : p.text # <<>> => Worded(<<p>>)
BY DEF Worded

LEMMA WordedTaken ==
  ASSUME TypeOK, MemoryOK
  PROVE  Worded(Taken)
<1> DEFINE tail == IF delta = NoDelta THEN <<>> ELSE <<delta>>
<1>1. tail \in Seq(Payload) /\ Worded(tail) /\ pending \in Seq(Payload)
  <2>1. CASE delta = NoDelta
    BY <2>1, WordedFew, QueueTyped, EmptySeq
  <2>2. CASE delta # NoDelta
    <3>1. delta \in Payload /\ delta.text # <<>> /\ tail = <<delta>>
      BY <2>2, QueueTyped DEF MemoryOK
    <3>2. QED
      BY <3>1, WordedFew, QueueTyped
  <2>3. QED
    BY <2>1, <2>2
<1>2. Taken = pending \o tail
  BY DEF Taken
<1> HIDE DEF tail
<1>3. QED
  BY <1>1, <1>2, WordedBoth DEF MemoryOK

LEMMA MemoryInit ==
  Init => MemoryOK
BY WordedFew DEF Init, MemoryOK, Idle

LEMMA MemoryEmit ==
  ASSUME TypeOK, MemoryOK, NEW kind \in Kind, Emit(kind)
  PROVE  MemoryOK'
<1> DEFINE payload == [kind |-> kind, text |-> <<emitted + 1>>]
           more == [delta EXCEPT !.text = Append(@, emitted + 1)]
<1>1. /\ up /\ up' = up /\ UNCHANGED <<w, headFile, restarts>>
  BY DEF Emit, disk
<1>2. payload.text # <<>> /\ payload \in Payload
  BY SegmentIs DEF TypeOK, Emit, Payload, Token
<1>3. delta # NoDelta => more.text # <<>>
  <2>1. ASSUME delta # NoDelta
        PROVE  /\ delta.text \in Seq(Token) /\ more.text = Append(delta.text, emitted + 1)
               /\ emitted + 1 \in Token
    BY <2>1, SegmentIs, SMTT(40) DEF TypeOK, Emit, Token
  <2>2. QED
    BY <2>1, AppendProperties
<1>4. Worded(Taken) /\ Worded(Append(Taken, payload))
  <2>1. Append(Taken, payload) = Taken \o <<payload>> /\ Taken \in Seq(Payload) /\ <<payload>> \in Seq(Payload)
    <3> HIDE DEF payload
    <3>1. QED
      BY <1>2, QueueTyped, AppendIsConcat
  <2>2. Worded(<<payload>>)
    BY <1>2, WordedFew
  <2>3. Worded(Taken \o <<payload>>)
    <3> HIDE DEF payload
    <3>1. QED
      BY <2>1, <2>2, WordedTaken, WordedBoth
  <2>4. QED
    BY <2>1, <2>3, WordedTaken
<1>5. Worded(pending') /\ (delta' # NoDelta => delta'.text # <<>>)
  <2> HIDE DEF payload, more
  <2>1. CASE kind \in DeltaKind /\ delta.kind = kind /\ delta' = more
               /\ UNCHANGED <<pending, timers>>
    <3>1. delta # NoDelta
      BY <2>1 DEF NoDelta, DeltaKind
    <3>2. QED
      BY <1>3, <2>1, <3>1 DEF MemoryOK
  <2>2. CASE delta' = payload /\ UNCHANGED <<pending, timers>>
    BY <1>2, <2>2 DEF MemoryOK
  <2>3. CASE pending' = Taken /\ delta' = payload
    BY <1>2, <1>4, <2>3
  <2>4. CASE pending' = Append(Taken, payload) /\ delta' = NoDelta
    BY <1>4, <2>4
  <2>5. QED
    BY <2>1, <2>2, <2>3, <2>4 DEF Emit, payload, more
<1>6. QED
  BY <1>1, <1>5 DEF MemoryOK

LEMMA MemoryQueue ==
  ASSUME TypeOK, MemoryOK, TimerSteps \/ Flush \/ Close
  PROVE  MemoryOK'
<1>1. UNCHANGED <<headFile, restarts, w, up>> /\ up
  BY DEF MemoryOK, TimerSteps, DeltaTimerFires, FlushTimerFires, RetryTimerFires, Flush, Close, disk
<1>2. Worded(pending') /\ (delta' # NoDelta => delta'.text # <<>>)
  <2>1. pending' \in {pending, Taken, <<>>} /\ delta' \in {delta, NoDelta}
    BY DEF TimerSteps, DeltaTimerFires, FlushTimerFires, RetryTimerFires, Flush, Close
  <2>2. Worded(pending) /\ Worded(Taken) /\ Worded(<<>>)
    BY WordedTaken, WordedFew DEF MemoryOK
  <2>3. QED
    BY <2>1, <2>2 DEF MemoryOK
<1>3. QED
  BY <1>1, <1>2 DEF MemoryOK

LEMMA MemoryWrite ==
  ASSUME TypeOK, MemoryOK, WriteSteps \/ FailWrite
  PROVE  MemoryOK'
<1>1. up /\ up' = up
  <2>1. up \/ (w = Idle /\ calls = 0)
    BY DEF MemoryOK
  <2>2. CASE BeginWrite
    BY <2>1, <2>2 DEF BeginWrite, TypeOK
  <2>3. CASE ~BeginWrite
    BY <2>1, <2>3 DEF WriteSteps, TruncateSegment, AppendLines, RollOver, SkipWrite, PublishHead,
                      Settle, FailWrite, Idle
  <2>4. QED
    BY <2>2, <2>3
<1>2. delta' = delta
  BY DEF WriteSteps, BeginWrite, TruncateSegment, AppendLines, RollOver, SkipWrite, PublishHead,
         Settle, FailWrite
<1>3. Worded(pending') /\ Worded(w'.batch)
  <2>1. CASE BeginWrite
    BY <2>1, WordedFew DEF BeginWrite, MemoryOK
  <2>2. CASE TruncateSegment \/ AppendLines \/ RollOver
    <3>1. w # Idle /\ pending' = pending
      BY <2>2 DEF TruncateSegment, AppendLines, RollOver, Idle
    <3>2. w \in Write
      BY <3>1, WriteTyped
    <3>3. w'.batch = w.batch
      <4>1. CASE TruncateSegment
        BY <3>2, <4>1 DEF TruncateSegment, Write
      <4>2. CASE AppendLines
        BY <3>2, <4>2 DEF AppendLines, Write
      <4>3. CASE RollOver
        BY <3>2, <4>3 DEF RollOver, Write
      <4>4. QED
        BY <2>2, <4>1, <4>2, <4>3
    <3>4. QED
      BY <3>1, <3>3 DEF MemoryOK
  <2>3. CASE SkipWrite \/ PublishHead
    <3>1. w' = Idle /\ pending' = pending
      BY <2>3 DEF SkipWrite, PublishHead, Settle
    <3>2. QED
      BY <3>1, WordedFew DEF MemoryOK, Idle
  <2>4. CASE FailWrite
    <3>1. w' = Idle /\ pending' = w.batch \o pending
      BY <2>4 DEF FailWrite
    <3>2. Worded(w.batch \o pending)
      BY QueueTyped, WordedBoth DEF MemoryOK
    <3>3. QED
      BY <3>1, <3>2, WordedFew DEF Idle
  <2>5. QED
    BY <2>1, <2>2, <2>3, <2>4 DEF WriteSteps
<1>4. QED
  BY <1>1, <1>2, <1>3 DEF MemoryOK

LEMMA MemoryProcess ==
  ASSUME TypeOK, MemoryOK, Crash \/ OpenEmpty \/ OpenPublished \/ OpenTorn
  PROVE  MemoryOK'
<1>1. CASE Crash
  <2>1. restarts' > 0
    BY <1>1 DEF Crash, TypeOK
  <2>2. QED
    BY <1>1, <2>1, WordedFew DEF Crash, NoMemory, MemoryOK, Idle
<1>2. CASE OpenEmpty \/ OpenPublished \/ OpenTorn
  BY <1>2 DEF MemoryOK, OpenEmpty, OpenPublished, OpenTorn, Opened
<1>3. QED
  BY <1>1, <1>2

LEMMA MemoryKept ==
  ASSUME TypeOK, MemoryOK, [Next]_vars
  PROVE  MemoryOK'
<1>1. CASE UNCHANGED vars
  BY <1>1 DEF MemoryOK, vars, disk, memory, timers
<1>2. CASE \E kind \in Kind : Emit(kind)
  BY <1>2, MemoryEmit
<1>3. QED
  BY <1>1, <1>2, MemoryQueue, MemoryWrite, MemoryProcess DEF Next

-----------------------------------------------------------------------------
(***************************************************************************)
(* The files, the numbers and the write under way.                         *)
(***************************************************************************)

\* The mount has been honest, or dishonest only in what recovery copes with:
\* it hid no rename, and cannot have emptied three segments in a row.
RecoveryReaches == "lyingHead" \notin Faults /\ MaxRestarts <= 3
Reliable == intact \/ RecoveryReaches

\* What the files have of what head.json says.
FilesOK ==
  /\ headFile = NoHead => head = FirstHead
  /\ up => headFile \in {NoHead, head}
  /\ up => Len(segs[head.segment]) >= head.length
  /\ intact /\ headFile # NoHead => Len(segs[headFile.segment]) >= headFile.length
  /\ up /\ ~unclean /\ w = Idle => Len(segs[head.segment]) = head.length

\* The lines published are numbered from 1, and memory knows the last number.
NumbersOK ==
  /\ \A i \in DOMAIN PublishedLines : PublishedLines[i].seq = i
  /\ up => seq = Len(PublishedLines)

\* The write under way has brought some of its batch to the files, behind
\* what is published.
WriteOK ==
  w # Idle =>
    /\ w.head.segment >= head.segment
    /\ w.head.segment = head.segment => w.head.length >= head.length
    /\ w.step = "truncate" => unclean /\ w.head = head
    /\ w.step # "truncate" => ~unclean /\ Len(segs[w.head.segment]) = w.head.length
    /\ w.step = "append" /\ w.lines = <<>> => w.head = head
    /\ w.step = "roll" => w.lines # <<>> /\ w.head.length > 0
    /\ w.step = "head" => w.lines = <<>> /\ w.head.length > 0
    /\ (w.lines # <<>> \/ w.step = "head") => Valid(w.batch) # <<>>
    /\ \A n \in head.segment .. (w.head.segment - 1) : segs[n] # <<>>
    /\ LinesTo(segs, w.head.segment, w.head.length) \o w.lines
         = PublishedLines \o Numbered(w.batch)

\* A segment behind head.json's is empty only if a crash lost what it had:
\* every one of a row of them took a crash of its own.
GapsOK ==
  \A n \in Segment, j \in 0..MaxSegment :
    (n + j < headFile.segment /\ \A m \in n .. (n + j) : segs[m] = <<>>)
      => ~intact /\ restarts > j + (IF up THEN 0 ELSE 1)

Good == FilesOK /\ NumbersOK /\ WriteOK /\ GapsOK

LogInv == TypeOK /\ MemoryOK /\ (Reliable => Good)

-----------------------------------------------------------------------------

\* Numbered, for the number it goes on from.
NumberedFrom(n, batch) ==
  [i \in DOMAIN Valid(batch) |-> [seq |-> n + i, text |-> Valid(batch)[i].text]]

LEMMA NumberedIs ==
  \A b : Numbered(b) = NumberedFrom(seq, b)
BY DEF Numbered, NumberedFrom

LEMMA NumberedNext ==
  Numbered(w.batch)' = NumberedFrom(seq', w'.batch)
BY DEF Numbered, NumberedFrom

LEMMA SegsTyped ==
  ASSUME TypeOK
  PROVE  /\ segs \in Files /\ \A n \in Segment : segs[n] \in Seq(AnyLine) /\ Len(segs[n]) \in Nat
         /\ head \in HeadFile /\ head.segment \in Segment /\ head.segment \in Nat /\ head.segment >= 1
         /\ head.length \in Nat /\ head.length <= SegmentMax /\ headFile.length \in Nat
         /\ headFile.segment \in 0..MaxSegment /\ headFile.segment \in Nat
         /\ headFile # NoHead => headFile.segment \in Segment
         /\ seq \in Nat /\ restarts \in Nat /\ restarts <= MaxRestarts
         /\ head = [segment |-> head.segment, length |-> head.length]
<1>1. segs \in Files
  BY DEF TypeOK, Files, Lines, AnyLine
<1>2. \A n \in Segment : segs[n] \in Seq(AnyLine) /\ Len(segs[n]) \in Nat
  BY <1>1, LenProperties DEF Files, Lines
<1>3. head \in HeadFile /\ head.segment \in Segment /\ head.length \in 0..SegmentMax
      /\ head = [segment |-> head.segment, length |-> head.length]
  BY DEF TypeOK, HeadFile
<1>4. headFile.segment \in 0..MaxSegment /\ headFile.length \in Nat
      /\ (headFile # NoHead => headFile.segment \in Segment)
  <2>1. CASE headFile = NoHead
    BY <2>1, SegmentIs DEF NoHead
  <2>2. CASE headFile # NoHead
    BY <2>2, HeadTyped, SegmentIs
  <2>3. QED
    BY <2>1, <2>2
<1>5. seq \in Nat /\ restarts \in Nat /\ restarts <= MaxRestarts
  BY EventLogAssumption DEF TypeOK
<1>6. QED
  BY <1>1, <1>2, <1>3, <1>4, <1>5, SegmentIs

LEMMA NothingYet ==
  ASSUME NEW g \in Files, NEW l \in Nat
  PROVE  LinesTo(g, 1, 0) = <<>> /\ LinesTo(g, 0, l) = <<>>
<1>1. 1 \in Segment /\ g[1] \in Seq(AnyLine)
  BY SegmentIs DEF Files, Lines
<1>2. Cut(g[1], 0) \in Seq(AnyLine) /\ Len(Cut(g[1], 0)) = 0
  <2>1. Len(g[1]) \in Nat
    BY <1>1, LenProperties
  <2>2. QED
    BY <1>1, <2>1, CutOfLines
<1>3. Cut(g[1], 0) = <<>>
  BY <1>2, EmptySeq
<1>4. LinesTo(g, 1, 0) = Before(g, 0) \o Cut(g[1], 0)
  <2>1. \A k \in Segment : LinesTo(g, k, 0) = Before(g, k - 1) \o Cut(g[k], 0)
    BY LinesToIs
  <2>2. LinesTo(g, 1, 0) = Before(g, 1 - 1) \o Cut(g[1], 0)
    BY <1>1, <2>1
  <2>3. 1 - 1 = 0
    OBVIOUS
  <2>4. QED
    BY <2>2, <2>3
<1>5. QED
  BY <1>3, <1>4, BeforeEmpty, LinesToIs, ConcatEmptySeq, EmptySeq

\* What is published reaches up to the head memory has.
LEMMA PublishedIs ==
  ASSUME TypeOK, FilesOK, up
  PROVE  PublishedLines = LinesTo(segs, head.segment, head.length)
<1>1. CASE headFile = NoHead
  <2>1. head.segment = 1 /\ head.length = 0 /\ headFile.segment = 0 /\ headFile.length = 0
    BY <1>1 DEF FilesOK, FirstHead, NoHead
  <2>2. QED
    BY <2>1, NothingYet, SegsTyped DEF PublishedLines
<1>2. CASE headFile # NoHead
  BY <1>2 DEF FilesOK, PublishedLines
<1>3. QED
  BY <1>1, <1>2

LEMMA PublishedTyped ==
  ASSUME TypeOK
  PROVE  PublishedLines \in Seq(AnyLine)
BY SegsTyped, LinesToTyped DEF PublishedLines, Lines

\* Lines up to the head stay when what is behind them changes.
LEMMA HeadLinesKept ==
  ASSUME TypeOK, TypeOK', FilesOK, up, UNCHANGED <<head, headFile, up, restarts, intact>>,
         \A n \in 1..(head.segment - 1) : segs'[n] = segs[n],
         Len(segs'[head.segment]) >= head.length,
         \A i \in 1..head.length : segs'[head.segment][i] = segs[head.segment][i]
  PROVE  /\ LinesTo(segs', head.segment, head.length) = LinesTo(segs, head.segment, head.length)
         /\ PublishedLines' = PublishedLines
         /\ GapsOK => GapsOK'
<1>1. segs' \in Files /\ segs \in Files
  BY SegsTyped DEF TypeOK, Files, Lines, AnyLine
<1>2. LinesTo(segs', head.segment, head.length) = LinesTo(segs, head.segment, head.length)
  <2>1. segs'[head.segment] \in Seq(AnyLine) /\ segs[head.segment] \in Seq(AnyLine)
    BY <1>1, SegsTyped DEF Files, Lines
  <2>2. Len(segs[head.segment]) >= head.length /\ Len(segs[head.segment]) \in Nat
        /\ Len(segs'[head.segment]) \in Nat
    BY <2>1, LenProperties DEF FilesOK
  <2>3. Cut(segs'[head.segment], head.length) = Cut(segs[head.segment], head.length)
    <3> DEFINE s == segs'[head.segment]
               t == segs[head.segment]
               l == head.length
    <3>1. l \in Nat /\ l <= Len(s) /\ l <= Len(t) /\ \A i \in 1..l : s[i] = t[i]
      BY <2>2, SegsTyped
    <3>2. s \in Seq(AnyLine) /\ t \in Seq(AnyLine)
      BY <2>1
    <3> HIDE DEF s, t, l
    <3>3. Cut(s, l) = Cut(t, l)
      BY <3>1, <3>2, CutOfMore
    <3>4. QED
      BY <3>3 DEF s, t, l
  <2>4. head.segment \in 0..MaxSegment /\ head.length \in Nat
    BY SegsTyped, SegmentIs
  <2>5. QED
    BY <1>1, <2>3, <2>4, LinesToSame
<1>3. PublishedLines' = PublishedLines
  <2>1. CASE headFile = NoHead
    <3>1. headFile'.segment = 0 /\ headFile.segment = 0 /\ headFile.length \in Nat /\ headFile'.length \in Nat
      BY <2>1 DEF NoHead
    <3>2. QED
      BY <1>1, <3>1, LinesToIs DEF PublishedLines
  <2>2. CASE headFile # NoHead
    BY <1>2, <2>2 DEF FilesOK, PublishedLines
  <2>3. QED
    BY <2>1, <2>2
<1>4. ASSUME GapsOK PROVE GapsOK'
  <2>1. SUFFICES ASSUME NEW n \in Segment, NEW j \in 0..MaxSegment, n + j < headFile'.segment,
                        \A m \in n .. (n + j) : segs'[m] = <<>>
                 PROVE  ~intact' /\ restarts' > j + (IF up' THEN 0 ELSE 1)
    BY DEF GapsOK
  <2>2. n \in Nat /\ j \in Nat /\ n >= 1
    BY SegmentIs
  <2>3. headFile = head
    <3>1. headFile # NoHead
      BY <2>1, <2>2 DEF NoHead
    <3>2. QED
      BY <3>1 DEF FilesOK
  <2>4. ASSUME NEW m \in n .. (n + j) PROVE segs[m] = <<>>
    <3>1. m \in 1..(head.segment - 1)
      BY <2>1, <2>2, <2>3, SegsTyped
    <3>2. QED
      BY <2>1, <3>1
  <2>5. ~intact /\ restarts > j + (IF up THEN 0 ELSE 1)
    BY <1>4, <2>1, <2>4 DEF GapsOK
  <2>6. QED
    BY <2>5
<1>5. QED
  BY <1>2, <1>3, <1>4

\* Nothing changes that the files, the numbers and the write are about.
LEMMA GoodQuiet ==
  ASSUME Good, UNCHANGED <<segs, headFile, head, seq, w, up, unclean, restarts, intact>>
  PROVE  Good'
<1>1. PublishedLines' = PublishedLines
  BY DEF PublishedLines
<1>2. Numbered(w.batch)' = Numbered(w.batch)
  BY NumberedIs, NumberedNext
<1>3. FilesOK' /\ GapsOK'
  BY DEF Good, FilesOK, GapsOK
<1>4. NumbersOK'
  BY <1>1 DEF Good, NumbersOK
<1>5. WriteOK'
  BY <1>1, <1>2 DEF Good, WriteOK
<1>6. QED
  BY <1>3, <1>4, <1>5 DEF Good

LEMMA GoodInit ==
  ASSUME Init
  PROVE  Good
<1>1. TypeOK
  BY TypesInit
<1>2. PublishedLines = <<>>
  <2>1. headFile.segment = 0 /\ headFile.length = 0
    BY DEF Init, NoHead
  <2>2. QED
    BY <1>1, <2>1, SegsTyped, NothingYet DEF PublishedLines
<1>3. FilesOK
  BY DEF FilesOK, Init
<1>4. NumbersOK
  BY <1>2 DEF NumbersOK, Init
<1>5. WriteOK
  BY DEF WriteOK, Init
<1>6. GapsOK
  <2>1. SUFFICES ASSUME NEW n \in Segment, NEW j \in 0..MaxSegment, n + j < headFile.segment PROVE FALSE
    BY DEF GapsOK
  <2>2. headFile.segment = 0 /\ n \in Nat /\ n >= 1 /\ j \in Nat
    BY SegmentIs DEF Init, NoHead
  <2>3. QED
    BY <2>1, <2>2
<1>7. QED
  BY <1>3, <1>4, <1>5, <1>6 DEF Good

LEMMA GoodQueue ==
  ASSUME Good, (\E kind \in Kind : Emit(kind)) \/ TimerSteps \/ Flush \/ Close
  PROVE  Good'
<1>1. UNCHANGED <<segs, headFile, head, seq, w, up, unclean, restarts, intact>>
  BY DEF TimerSteps, DeltaTimerFires, FlushTimerFires, RetryTimerFires, Flush, Close, Emit, disk
<1>2. QED
  BY <1>1, GoodQuiet

LEMMA GoodBegin ==
  ASSUME TypeOK, MemoryOK, Good, BeginWrite
  PROVE  Good'
<1>1. UNCHANGED <<segs, headFile, head, seq, up, unclean, restarts, intact>> /\ w = Idle /\ up
  BY DEF BeginWrite, disk, TypeOK, MemoryOK
<1>2. PublishedLines' = PublishedLines
  BY <1>1 DEF PublishedLines
<1>3. CASE w' = w
  BY <1>1, <1>3, GoodQuiet
<1>4. CASE w' = [step |-> IF unclean THEN "truncate" ELSE "append",
                 batch |-> pending, lines |-> Numbered(pending), head |-> head]
  <2>1. /\ w'.head = head /\ w'.lines = Numbered(pending) /\ w'.batch = pending
        /\ w'.step = IF unclean THEN "truncate" ELSE "append"
    BY <1>4
  <2>2. w' # Idle
    BY <2>1 DEF Idle
  <2>3. FilesOK' /\ GapsOK'
    BY <1>1, <2>2 DEF Good, FilesOK, GapsOK
  <2>4. NumbersOK'
    BY <1>1, <1>2 DEF Good, NumbersOK
  <2>5. Numbered(w.batch)' = Numbered(pending)
    BY <1>1, <2>1, NumberedIs, NumberedNext
  <2>6. w'.lines # <<>> => Valid(w'.batch) # <<>>
    <3>1. Len(Numbered(pending)) = Len(Valid(pending)) /\ Numbered(pending) \in Seq(Line)
      BY NumberedLines, QueueTyped DEF TypeOK
    <3>2. Valid(pending) = <<>> => Numbered(pending) = <<>>
      BY <3>1, EmptySeq
    <3>3. QED
      BY <2>1, <3>2
  <2>7. LinesTo(segs', w'.head.segment, w'.head.length) = PublishedLines'
    BY <1>1, <1>2, <2>1, PublishedIs DEF Good
  <2>8. ~unclean => Len(segs[head.segment]) = head.length
    BY <1>1 DEF Good, FilesOK
  <2>9. \A n \in head.segment .. (head.segment - 1) : FALSE
    BY SegsTyped
  <2>10. WriteOK'
    <3> DEFINE p == w'
    <3>1. p.step \in {"truncate", "append"} /\ p.head = head' /\ (p.step = "truncate" <=> unclean')
      BY <1>1, <2>1
    <3>2. p.step # "truncate" => Len(segs'[p.head.segment]) = p.head.length
      BY <1>1, <2>1, <2>8
    <3>3. LinesTo(segs', p.head.segment, p.head.length) \o p.lines = PublishedLines' \o Numbered(w.batch)'
      BY <2>1, <2>5, <2>7
    <3>4. p.head.segment >= head'.segment /\ p.head.length >= head'.length
      BY <1>1, <2>1, SegsTyped
    <3>5. \A n \in head'.segment .. (p.head.segment - 1) : FALSE
      BY <1>1, <2>1, <2>9
    <3>6. QED
      BY <2>6, <3>1, <3>2, <3>3, <3>4, <3>5 DEF WriteOK
  <2>11. QED
    BY <2>3, <2>4, <2>10 DEF Good
<1>5. QED
  BY <1>3, <1>4 DEF BeginWrite

LEMMA GoodTruncate ==
  ASSUME TypeOK, TypeOK', MemoryOK, Good, TruncateSegment
  PROVE  Good' /\ PublishedLines' = PublishedLines
<1> DEFINE s == segs[head.segment]
           t == segs'[head.segment]
           l == head.length
<1>1. /\ UNCHANGED <<headFile, head, seq, up, restarts, intact>> /\ up /\ w # Idle
      /\ w.step = "truncate" /\ unclean' = FALSE
  BY DEF TruncateSegment, MemoryOK, Idle
<1>2. w' = [w EXCEPT !.step = "append"] /\ w \in Write
  BY <1>1, WriteTyped DEF TruncateSegment
<1>3. w'.step = "append" /\ w'.lines = w.lines /\ w'.head = w.head /\ w'.batch = w.batch /\ w' # Idle
  BY <1>2 DEF Write, Idle
<1>4. w.head = head
  BY <1>1 DEF Good, WriteOK
<1>5. /\ s \in Seq(AnyLine) /\ l \in Nat /\ Len(s) >= l /\ t = Cut(s, l)
      /\ \A n \in Segment : n # head.segment => segs'[n] = segs[n]
  BY <1>1, SegsTyped DEF Good, FilesOK, TruncateSegment, Cut, TypeOK
<1>6. Len(t) = l /\ \A i \in 1..l : t[i] = s[i]
  <2> HIDE DEF s, t, l
  <2>1. Len(s) \in Nat
    BY <1>5, LenProperties
  <2>2. QED
    BY <1>5, <2>1, CutOfLines
<1>7. \A n \in 1..(head.segment - 1) : segs'[n] = segs[n]
  BY <1>5, SegsTyped, SegmentIs
<1>8. /\ LinesTo(segs', head.segment, head.length) = LinesTo(segs, head.segment, head.length)
      /\ PublishedLines' = PublishedLines /\ GapsOK'
  BY <1>1, <1>5, <1>6, <1>7, HeadLinesKept DEF Good
<1>9. FilesOK'
  BY <1>1, <1>3, <1>5, <1>6 DEF Good, FilesOK
<1>10. NumbersOK'
  BY <1>1, <1>8 DEF Good, NumbersOK
<1>11. Numbered(w.batch)' = Numbered(w.batch)
  BY <1>1, <1>3, NumberedIs, NumberedNext
<1>12. WriteOK'
  <2> DEFINE p == w'
  <2>1. LinesTo(segs', p.head.segment, p.head.length) \o p.lines = PublishedLines' \o Numbered(w.batch)'
    <3>1. LinesTo(segs, head.segment, head.length) \o w.lines = PublishedLines \o Numbered(w.batch)
      BY <1>1, <1>4 DEF Good, WriteOK
    <3>2. QED
      BY <1>3, <1>4, <1>8, <1>11, <3>1
  <2>2. p.head.segment >= head'.segment /\ p.head.length >= head'.length
    BY <1>1, <1>3, <1>4, SegsTyped
  <2>3. \A n \in head'.segment .. (p.head.segment - 1) : FALSE
    BY <1>1, <1>3, <1>4, SegsTyped
  <2>4. Len(segs'[p.head.segment]) = p.head.length
    BY <1>3, <1>4, <1>6
  <2>5. p.lines # <<>> => Valid(p.batch) # <<>>
    BY <1>1, <1>3 DEF Good, WriteOK
  <2>6. p.step = "append" /\ ~unclean' /\ p.head = head'
    BY <1>1, <1>3, <1>4
  <2>7. QED
    BY <2>1, <2>2, <2>3, <2>4, <2>5, <2>6 DEF WriteOK
<1>13. QED
  BY <1>8, <1>9, <1>10, <1>12 DEF Good

LEMMA GoodSkip ==
  ASSUME TypeOK, MemoryOK, Good, SkipWrite
  PROVE  Good'
<1>1. UNCHANGED <<segs, headFile, head, seq, up, unclean, restarts, intact>> /\ w' = Idle
  BY DEF SkipWrite, Settle, disk
<1>2. PublishedLines' = PublishedLines
  BY <1>1 DEF PublishedLines
<1>3. w # Idle /\ w.step = "append" /\ w.lines = <<>>
  BY DEF SkipWrite, Idle
<1>4. ~unclean /\ Len(segs[head.segment]) = head.length
  BY <1>3 DEF Good, WriteOK
<1>5. FilesOK' /\ GapsOK'
  BY <1>1, <1>4 DEF Good, FilesOK, GapsOK
<1>6. NumbersOK'
  BY <1>1, <1>2 DEF Good, NumbersOK
<1>7. WriteOK'
  BY <1>1 DEF WriteOK
<1>8. QED
  BY <1>5, <1>6, <1>7 DEF Good

\* What is in the files of the write under way.
LEMMA WriteFacts ==
  ASSUME TypeOK, MemoryOK, Good, w # Idle
  PROVE  /\ up /\ w.head.segment \in Segment /\ w.head.segment \in Nat /\ w.head.length \in Nat
         /\ w.head.segment >= head.segment
         /\ w.head.segment = head.segment => w.head.length >= head.length
         /\ segs[w.head.segment] \in Seq(AnyLine) /\ Len(segs[w.head.segment]) \in Nat
         /\ w.lines \in Seq(AnyLine) /\ w.lines \in Seq(Line)
         /\ Before(segs, w.head.segment - 1) \in Seq(AnyLine)
         /\ w.step # "truncate" =>
              /\ LinesTo(segs, w.head.segment, w.head.length)
                   = Before(segs, w.head.segment - 1) \o segs[w.head.segment]
              /\ Len(segs[w.head.segment]) = w.head.length
<1>1. up
  BY DEF MemoryOK
<1>2. w.head.segment \in Segment /\ w.head.segment \in Nat /\ w.head.length \in Nat /\ w.lines \in Seq(Line)
  BY WriteTyped, SegmentIs
<1>3. segs[w.head.segment] \in Seq(AnyLine) /\ Len(segs[w.head.segment]) \in Nat /\ segs \in Files
  BY <1>2, SegsTyped
<1>4. w.lines \in Seq(AnyLine)
  BY <1>2, LinesAreLines DEF Lines
<1>5. Before(segs, w.head.segment - 1) \in Seq(AnyLine)
  BY <1>2, <1>3, BeforeNext DEF Lines
<1>6. ASSUME w.step # "truncate"
      PROVE  /\ LinesTo(segs, w.head.segment, w.head.length)
                  = Before(segs, w.head.segment - 1) \o segs[w.head.segment]
             /\ Len(segs[w.head.segment]) = w.head.length
  <2>1. Len(segs[w.head.segment]) = w.head.length
    BY <1>6 DEF Good, WriteOK
  <2>2. Cut(segs[w.head.segment], w.head.length) = segs[w.head.segment]
    <3> DEFINE s == segs[w.head.segment]
               l == w.head.length
    <3>1. s \in Seq(AnyLine) /\ l \in Nat /\ Len(s) <= l
      BY <1>2, <1>3, <2>1
    <3> HIDE DEF s, l
    <3>2. Cut(s, l) = s
      BY <3>1, CutOfLines
    <3>3. QED
      BY <3>2 DEF s, l
  <2>3. LinesTo(segs, w.head.segment, w.head.length)
          = Before(segs, w.head.segment - 1) \o Cut(segs[w.head.segment], w.head.length)
    BY <1>2, <1>3, LinesToIs
  <2>4. QED
    BY <2>1, <2>2, <2>3
<1>7. w.head.segment >= head.segment /\ (w.head.segment = head.segment => w.head.length >= head.length)
  BY DEF Good, WriteOK
<1>8. QED
  BY <1>1, <1>2, <1>3, <1>4, <1>5, <1>6, <1>7

\* Lines appended where the write is do not disturb what is published.
LEMMA AppendKeeps ==
  ASSUME TypeOK, TypeOK', MemoryOK, Good, w # Idle, w.step # "truncate", NEW part \in Seq(AnyLine),
         segs' = [segs EXCEPT ![w.head.segment] = @ \o part],
         UNCHANGED <<head, headFile, up, restarts, intact>>
  PROVE  /\ PublishedLines' = PublishedLines /\ GapsOK'
         /\ Len(segs'[head.segment]) >= head.length
         /\ \A n \in 1..(head.segment - 1) : segs'[n] = segs[n]
         /\ \A i \in 1..head.length : segs'[head.segment][i] = segs[head.segment][i]
         /\ segs'[w.head.segment] = segs[w.head.segment] \o part
         /\ \A n \in Segment : n # w.head.segment => segs'[n] = segs[n]
<1> DEFINE at == w.head.segment
           s == segs[w.head.segment]
           l == head.length
<1>1. /\ at \in Segment /\ at >= head.segment /\ at \in Nat /\ s \in Seq(AnyLine) /\ Len(s) \in Nat
      /\ Len(s) = w.head.length /\ (at = head.segment => w.head.length >= l)
  BY WriteFacts
<1>2. segs'[at] = s \o part /\ \A n \in Segment : n # at => segs'[n] = segs[n]
  BY <1>1, SegsTyped DEF Files
<1>3. Len(s \o part) = Len(s) + Len(part) /\ Len(part) \in Nat /\ \A i \in 1..Len(s) : (s \o part)[i] = s[i]
  <2> HIDE DEF s
  <2>1. Len(part) \in Nat
    BY LenProperties
  <2>2. QED
    BY <1>1, <2>1, ConcatProperties
<1>4. /\ Len(segs'[head.segment]) >= l
      /\ \A i \in 1..l : segs'[head.segment][i] = segs[head.segment][i]
  <2>1. CASE at = head.segment
    <3>1. Len(s) >= l /\ l \in Nat
      BY <1>1, <2>1, SegsTyped
    <3>2. Len(s \o part) >= l /\ \A i \in 1..l : (s \o part)[i] = s[i]
      <4> HIDE DEF s, l
      <4>1. QED
        BY <1>1, <1>3, <3>1
    <3>3. QED
      BY <1>2, <2>1, <3>2
  <2>2. CASE at # head.segment
    <3>1. segs'[head.segment] = segs[head.segment]
      BY <1>2, <2>2, SegsTyped
    <3>2. Len(segs[head.segment]) >= l
      BY WriteFacts DEF Good, FilesOK
    <3>3. QED
      BY <3>1, <3>2
  <2>3. QED
    BY <2>1, <2>2
<1>5. \A n \in 1..(head.segment - 1) : segs'[n] = segs[n]
  BY <1>1, <1>2, SegsTyped, SegmentIs
<1>6. PublishedLines' = PublishedLines /\ GapsOK'
  BY <1>4, <1>5, WriteFacts, HeadLinesKept DEF Good
<1>7. QED
  BY <1>2, <1>4, <1>5, <1>6

LEMMA GoodAppend ==
  ASSUME TypeOK, TypeOK', MemoryOK, Good, AppendLines
  PROVE  Good' /\ PublishedLines' = PublishedLines
<1> DEFINE at == w.head.segment
           l == w.head.length
           s == segs[w.head.segment]
           p == w'
           b == Before(segs, at - 1)
<1>1. /\ w # Idle /\ w.step = "append" /\ w.step # "truncate" /\ w.lines # <<>>
      /\ UNCHANGED <<headFile, head, seq, up, unclean, restarts, intact>>
  BY DEF AppendLines, Idle
<1>2. /\ up /\ at \in Segment /\ at \in Nat /\ l \in Nat /\ at >= head.segment
      /\ (at = head.segment => l >= head.length)
      /\ s \in Seq(AnyLine) /\ Len(s) \in Nat /\ Len(s) = l /\ b \in Seq(AnyLine)
      /\ w.lines \in Seq(AnyLine)
      /\ LinesTo(segs, at, l) = b \o s
  BY <1>1, WriteFacts
<1>3. /\ Fitting \in Nat /\ Fitting <= Len(w.lines) /\ l + Fitting <= SegmentMax
      /\ Fitting # Len(w.lines) => l + Fitting = SegmentMax
      /\ Fit \in Seq(Line) /\ Len(Fit) = Fitting
      /\ Rest \in Seq(Line) /\ Len(Rest) = Len(w.lines) - Fitting
      /\ Fit \o Rest = w.lines
  BY <1>1, FittingLines
<1>4. Fit \in Seq(AnyLine) /\ Rest \in Seq(AnyLine) /\ Len(w.lines) \in Nat
  BY <1>2, <1>3, LinesAreLines, LenProperties DEF Lines
<1>5. Len(w.lines) > 0
  BY <1>1, <1>2, <1>4, EmptySeq
<1>6. segs' = [segs EXCEPT ![w.head.segment] = @ \o Fit]
  BY DEF AppendLines, Fit
<1>7. /\ p.step = (IF Fitting = Len(w.lines) THEN "head" ELSE "roll")
      /\ p.lines = Rest /\ p.batch = w.batch
      /\ p.head.segment = at /\ p.head.length = l + Fitting /\ p # Idle
  <2>1. w \in Write
    BY <1>1, WriteTyped
  <2>2. p = [w EXCEPT !.step = IF Fitting = Len(w.lines) THEN "head" ELSE "roll",
                      !.lines = Rest,
                      !.head = [segment |-> w.head.segment, length |-> w.head.length + Fitting]]
    BY <2>1 DEF AppendLines, Rest, Write
  <2>3. QED
    BY <2>1, <2>2 DEF Write, Idle
<1>8. /\ PublishedLines' = PublishedLines /\ GapsOK' /\ Len(segs'[head.segment]) >= head.length
      /\ segs'[at] = s \o Fit /\ \A n \in Segment : n # at => segs'[n] = segs[n]
  BY <1>1, <1>4, <1>6, AppendKeeps
<1>9. Len(s \o Fit) = l + Fitting /\ s \o Fit \in Seq(AnyLine)
  <2> HIDE DEF s
  <2>1. Len(s \o Fit) = Len(s) + Len(Fit) /\ s \o Fit \in Seq(AnyLine)
    BY <1>2, <1>4, ConcatProperties
  <2>2. QED
    BY <1>2, <1>3, <2>1
<1>10. LinesTo(segs', at, l + Fitting) = (b \o s) \o Fit
  <2>1. segs' \in Files /\ l + Fitting \in Nat
    <3>1. segs' \in Files
      BY DEF TypeOK, Files, Lines, AnyLine
    <3>2. QED
      BY <1>2, <1>3, <3>1, SMTT(40)
  <2>2. LinesTo(segs', at, l + Fitting) = Before(segs', at - 1) \o Cut(segs'[at], l + Fitting)
    BY <1>2, <2>1, LinesToIs
  <2>3. Cut(s \o Fit, l + Fitting) = s \o Fit
    <3> DEFINE t == s \o Fit
               m == l + Fitting
    <3>1. t \in Seq(AnyLine) /\ Len(t) = m /\ m \in Nat /\ Len(t) <= m
      BY <1>9, <2>1
    <3> HIDE DEF t, m
    <3>2. Cut(t, m) = t
      BY <3>1, CutOfLines
    <3>3. QED
      BY <3>2 DEF t, m
  <2>4. \A n \in 1..(at - 1) : segs[n] = segs'[n]
    BY <1>2, <1>8, SegmentIs
  <2>5. Before(segs, at - 1) = Before(segs', at - 1)
    BY <2>4, BeforeSame
  <2>6. b \o (s \o Fit) = (b \o s) \o Fit
    <3>1. b \in Seq(AnyLine) /\ s \in Seq(AnyLine)
      BY <1>2
    <3> HIDE DEF s, b
    <3>2. QED
      <4>1. Fit \in Seq(AnyLine)
        BY <1>4
      <4>2. (b \o s) \o Fit = b \o (s \o Fit)
        BY <3>1, <4>1, ConcatAssociative
      <4>3. QED
        BY <4>2
  <2>7. QED
    BY <1>8, <2>2, <2>3, <2>5, <2>6
<1>11. FilesOK'
  BY <1>1, <1>2, <1>7, <1>8 DEF Good, FilesOK
<1>12. NumbersOK'
  BY <1>1, <1>8 DEF Good, NumbersOK
<1>13. Numbered(w.batch)' = Numbered(w.batch)
  BY <1>1, <1>7, NumberedIs, NumberedNext
<1>14. WriteOK'
  <2>1. ((b \o s) \o Fit) \o Rest = PublishedLines \o Numbered(w.batch)
    <3>1. b \o s \in Seq(AnyLine)
      <4> HIDE DEF s, b
      <4>1. QED
        BY <1>2, ConcatProperties
    <3>2. ((b \o s) \o Fit) \o Rest = (b \o s) \o (Fit \o Rest)
      <4> HIDE DEF s, b
      <4> DEFINE c == b \o s
      <4>1. c \in Seq(AnyLine) /\ Fit \in Seq(AnyLine) /\ Rest \in Seq(AnyLine)
        BY <1>4, <3>1
      <4> HIDE DEF c
      <4>2. (c \o Fit) \o Rest = c \o (Fit \o Rest)
        BY <4>1, ConcatAssociative
      <4>3. QED
        BY <4>2 DEF c
    <3>3. LinesTo(segs, at, l) \o w.lines = PublishedLines \o Numbered(w.batch)
      BY <1>1 DEF Good, WriteOK
    <3>4. QED
      BY <1>2, <1>3, <3>2, <3>3
  <2>2. LinesTo(segs', p.head.segment, p.head.length) \o p.lines = PublishedLines' \o Numbered(w.batch)'
    BY <1>7, <1>8, <1>10, <1>13, <2>1
  <2>3. p.head.segment >= head'.segment /\ (p.head.segment = head'.segment => p.head.length >= head'.length)
    BY <1>1, <1>2, <1>3, <1>7, SegsTyped
  <2>4. Len(segs'[p.head.segment]) = p.head.length
    BY <1>7, <1>8, <1>9
  <2>5. Valid(p.batch) # <<>>
    BY <1>1, <1>7 DEF Good, WriteOK
  <2>6. ASSUME NEW n \in head'.segment .. (p.head.segment - 1) PROVE segs'[n] # <<>>
    <3>1. n \in head.segment .. (at - 1) /\ n \in Segment /\ n # at
      <4>1. n \in head.segment .. (at - 1)
        BY <1>1, <1>7
      <4>2. head.segment \in Nat /\ head.segment >= 1
        BY SegsTyped
      <4>3. QED
        BY <1>2, <4>1, <4>2, SegmentIs
    <3>2. segs[n] # <<>>
      BY <1>1, <3>1 DEF Good, WriteOK
    <3>3. QED
      BY <1>8, <3>1, <3>2
  <2>7. (p.step = "head" => p.lines = <<>>) /\ (p.step = "roll" => p.lines # <<>>) /\ p.head.length > 0
    <3>1. CASE Fitting = Len(w.lines)
      <4>1. Len(Rest) = 0 /\ p.step = "head"
        BY <1>3, <1>4, <1>7, <3>1
      <4>2. Rest = <<>>
        BY <1>4, <4>1, EmptySeq
      <4>3. QED
        BY <1>2, <1>3, <1>5, <1>7, <3>1, <4>1, <4>2
    <3>2. CASE Fitting # Len(w.lines)
      <4>1. Len(Rest) # 0 /\ p.step = "roll"
        BY <1>3, <1>4, <1>7, <3>2
      <4>2. Rest # <<>>
        BY <4>1, EmptySeq
      <4>3. p.head.length > 0
        BY <1>3, <1>7, <3>2, SegmentIs
      <4>4. QED
        BY <1>7, <4>1, <4>2, <4>3
    <3>3. QED
      BY <3>1, <3>2
  <2>8. ~unclean' /\ p.step \in {"head", "roll"}
    BY <1>1, <1>7 DEF Good, WriteOK
  <2>9. QED
    BY <2>2, <2>3, <2>4, <2>5, <2>6, <2>7, <2>8 DEF WriteOK
<1>15. QED
  BY <1>8, <1>11, <1>12, <1>14 DEF Good

LEMMA GoodRollOver ==
  ASSUME TypeOK, TypeOK', MemoryOK, Good, RollOver
  PROVE  Good' /\ PublishedLines' = PublishedLines
<1> DEFINE at == w.head.segment
           next == w.head.segment + 1
           s == segs[w.head.segment]
           p == w'
           b == Before(segs, at - 1)
<1>1. /\ w # Idle /\ w.step = "roll" /\ w.step # "truncate"
      /\ UNCHANGED <<headFile, head, seq, up, unclean, restarts, intact>>
  BY DEF RollOver, Idle
<1>2. /\ up /\ at \in Segment /\ at \in Nat /\ at >= head.segment
      /\ s \in Seq(AnyLine) /\ Len(s) \in Nat /\ Len(s) = w.head.length
      /\ LinesTo(segs, at, w.head.length) = b \o s
  BY <1>1, WriteFacts
<1>3. w.lines # <<>> /\ w.head.length > 0 /\ s # <<>>
  <2>1. w.lines # <<>> /\ w.head.length > 0
    BY <1>1 DEF Good, WriteOK
  <2>2. QED
    BY <1>2, <2>1, EmptySeq
<1>4. next \in Segment /\ next \in Nat /\ next - 1 = at
  <2>1. at < MaxSegment
    BY DEF RollOver
  <2> HIDE DEF at
  <2>2. at + 1 \in Segment /\ at + 1 \in Nat /\ at + 1 - 1 = at
    BY <1>2, <2>1, SegmentIs
  <2>3. QED
    BY <1>2, <2>2 DEF at
<1>5. segs' \in Files /\ segs'[next] = <<>> /\ \A n \in Segment : n # next => segs'[n] = segs[n]
  <2>1. segs' \in Files
    BY DEF TypeOK, Files, Lines, AnyLine
  <2>2. segs \in Files /\ segs' = [segs EXCEPT ![next] = <<>>]
    BY SegsTyped DEF RollOver
  <2> HIDE DEF next
  <2>3. QED
    BY <1>4, <2>1, <2>2 DEF Files
<1>6. p.step = "append" /\ p.lines = w.lines /\ p.batch = w.batch /\ p # Idle
      /\ p.head = [segment |-> next, length |-> 0]
  <2>1. w \in Write
    BY <1>1, WriteTyped
  <2>2. QED
    BY <2>1 DEF RollOver, Write, Idle
<1>7. head.segment # next /\ segs'[head.segment] = segs[head.segment]
      /\ \A n \in 1..(head.segment - 1) : segs'[n] = segs[n]
  <2>1. head.segment # next /\ head.segment < next
    BY <1>2, <1>4, SegsTyped
  <2>2. \A n \in 1..(head.segment - 1) : n \in Segment /\ n # next
    BY <1>4, <2>1, SegsTyped, SegmentIs
  <2> HIDE DEF next
  <2>3. QED
    BY <1>5, <2>1, <2>2, SegsTyped
<1>8. PublishedLines' = PublishedLines /\ GapsOK' /\ Len(segs'[head.segment]) >= head.length
  <2>1. Len(segs[head.segment]) >= head.length
    BY <1>2 DEF Good, FilesOK
  <2>2. QED
    BY <1>1, <1>2, <1>7, <2>1, HeadLinesKept DEF Good
<1>9. LinesTo(segs', next, 0) = LinesTo(segs, at, w.head.length)
  <2>1. LinesTo(segs', next, 0) = Before(segs', next - 1) \o Cut(segs'[next], 0)
    <3>1. \A k \in Segment : LinesTo(segs', k, 0) = Before(segs', k - 1) \o Cut(segs'[k], 0)
      BY <1>5, LinesToIs
    <3> HIDE DEF next
    <3>2. QED
      BY <1>4, <3>1
  <2>2. Cut(<<>>, 0) = <<>>
    <3>1. <<>> \in Seq(AnyLine) /\ Len(<<>>) <= 0
      BY EmptySeq
    <3>2. QED
      BY <3>1, CutOfLines
  <2>3. Before(segs', at) = Before(segs, at)
    <3>1. \A n \in 1..at : segs'[n] = segs[n]
      <4>1. \A n \in 1..at : n \in Segment /\ n # next
        BY <1>2, SegmentIs
      <4> HIDE DEF next
      <4>2. QED
        BY <1>5, <4>1
    <3>2. QED
      BY <3>1, BeforeSame
  <2>4. Before(segs, at) = b \o s /\ Before(segs, at) \in Seq(AnyLine)
    BY <1>2, SegsTyped, BeforeNext DEF Lines
  <2>5. Before(segs, at) \o <<>> = Before(segs, at)
    BY <2>4, ConcatEmptySeq
  <2>6. LinesTo(segs', next, 0) = Before(segs', at) \o <<>>
    BY <1>4, <1>5, <2>1, <2>2
  <2>7. QED
    BY <1>2, <2>3, <2>4, <2>5, <2>6
<1>10. FilesOK'
  BY <1>1, <1>2, <1>6, <1>8 DEF Good, FilesOK
<1>11. NumbersOK'
  BY <1>1, <1>8 DEF Good, NumbersOK
<1>12. WriteOK'
  <2>1. p.head.segment = next /\ p.head.length = 0
    BY <1>6
  <2>2. LinesTo(segs', p.head.segment, p.head.length) \o p.lines = PublishedLines' \o Numbered(w.batch)'
    <3>1. LinesTo(segs, at, w.head.length) \o w.lines = PublishedLines \o Numbered(w.batch)
      BY <1>1 DEF Good, WriteOK
    <3>2. Numbered(w.batch)' = Numbered(w.batch)
      BY <1>1, <1>6, NumberedIs, NumberedNext
    <3>3. QED
      BY <1>6, <1>8, <1>9, <2>1, <3>1, <3>2
  <2>3. p.head.segment > head'.segment
    BY <1>1, <1>2, <1>4, <2>1, SegsTyped
  <2>4. Len(segs'[p.head.segment]) = p.head.length
    BY <1>5, <2>1
  <2>5. Valid(p.batch) # <<>>
    BY <1>1, <1>3, <1>6 DEF Good, WriteOK
  <2>6. ASSUME NEW n \in head'.segment .. (p.head.segment - 1) PROVE segs'[n] # <<>>
    <3>1. n \in head.segment .. at
      BY <1>1, <1>4, <2>1
    <3>2. n \in Segment /\ n # next
      BY <1>2, <3>1, SegsTyped, SegmentIs, SMTT(40)
    <3>3. segs[n] # <<>>
      <4>1. CASE n = at
        BY <1>3, <4>1
      <4>2. CASE n # at
        <5>1. n \in head.segment .. (at - 1)
          BY <1>2, <3>1, <4>2, SegsTyped
        <5>2. QED
          BY <1>1, <5>1 DEF Good, WriteOK
      <4>3. QED
        BY <4>1, <4>2
    <3>4. QED
      BY <1>5, <3>2, <3>3
  <2>7. ~unclean' /\ p.step = "append" /\ p.lines # <<>>
    BY <1>1, <1>3, <1>6 DEF Good, WriteOK
  <2>8. p.head.segment >= head'.segment /\ p.head.segment # head'.segment
    BY <1>1, <2>1, <2>3, <1>4, SegsTyped
  <2>9. QED
    BY <2>2, <2>4, <2>5, <2>6, <2>7, <2>8 DEF WriteOK
<1>13. QED
  BY <1>8, <1>10, <1>11, <1>12 DEF Good

\* The batch's lines are numbered on from what is published.
LEMMA NumberedOn ==
  ASSUME NEW s \in Seq(AnyLine), NEW t \in Seq(AnyLine), \A i \in 1..Len(s) : s[i].seq = i,
         \A i \in 1..Len(t) : t[i].seq = Len(s) + i
  PROVE  \A i \in DOMAIN (s \o t) : (s \o t)[i].seq = i
<1>1. Len(s) \in Nat /\ Len(t) \in Nat
  BY LenProperties
<1>2. /\ DOMAIN (s \o t) = 1..(Len(s) + Len(t))
      /\ \A i \in 1..(Len(s) + Len(t)) : (s \o t)[i] = IF i <= Len(s) THEN s[i] ELSE t[i - Len(s)]
  BY ConcatProperties, LenProperties
<1>3. ASSUME NEW i \in 1..(Len(s) + Len(t)) PROVE (s \o t)[i].seq = i
  <2>1. CASE i <= Len(s)
    <3>1. i \in 1..Len(s)
      BY <1>1, <2>1
    <3>2. QED
      BY <1>2, <2>1, <3>1
  <2>2. CASE ~(i <= Len(s))
    <3>1. i - Len(s) \in 1..Len(t) /\ Len(s) + (i - Len(s)) = i
      BY <1>1, <2>2
    <3>2. t[i - Len(s)].seq = Len(s) + (i - Len(s))
      BY <3>1
    <3>3. QED
      BY <1>2, <2>2, <3>1, <3>2
  <2>3. QED
    BY <2>1, <2>2
<1>4. QED
  BY <1>2, <1>3

LEMMA GoodPublish ==
  ASSUME TypeOK, TypeOK', MemoryOK, Good, PublishHead
  PROVE  Good' /\ PublishedLines' = PublishedLines \o Numbered(w.batch)
<1> DEFINE q == Numbered(w.batch)
<1>1. /\ w # Idle /\ w.step = "head" /\ w.step # "truncate"
      /\ UNCHANGED <<segs, up, unclean, restarts, intact>>
      /\ headFile' = w.head /\ head' = w.head /\ w' = Idle /\ seq' = seq + Len(Valid(w.batch))
  BY DEF PublishHead, Settle, Idle
<1>2. /\ up /\ w.head.segment \in Segment /\ w.head.segment \in Nat /\ w.head.segment >= head.segment
      /\ w.head.length \in Nat
      /\ Len(segs[w.head.segment]) = w.head.length
  BY <1>1, WriteFacts
<1>3. w.lines = <<>> /\ LinesTo(segs, w.head.segment, w.head.length) \o w.lines = PublishedLines \o q
  BY <1>1 DEF Good, WriteOK
<1>4. PublishedLines' = PublishedLines \o q
  <2>1. LinesTo(segs, w.head.segment, w.head.length) \in Seq(AnyLine)
    <3>1. w.head.segment \in 0..MaxSegment
      BY <1>2, SegmentIs
    <3>2. QED
      BY <1>2, <3>1, SegsTyped, LinesToTyped DEF Lines
  <2>2. LinesTo(segs, w.head.segment, w.head.length) = PublishedLines \o q
    BY <1>3, <2>1, ConcatEmptySeq
  <2>3. PublishedLines' = LinesTo(segs, w.head.segment, w.head.length)
    BY <1>1 DEF PublishedLines
  <2>4. QED
    BY <2>2, <2>3
<1>5. /\ q \in Seq(AnyLine) /\ Len(q) = Len(Valid(w.batch)) /\ Len(q) \in Nat
      /\ \A i \in 1..Len(q) : q[i].seq = seq + i
  <2>1. seq \in Nat /\ w.batch \in Seq(Payload)
    BY SegsTyped, QueueTyped
  <2>2. q \in Seq(Line) /\ Len(q) = Len(Valid(w.batch)) /\ \A i \in 1..Len(q) : q[i].seq = seq + i
    BY <2>1, NumberedLines
  <2> HIDE DEF q
  <2>3. q \in Seq(AnyLine) /\ Len(q) \in Nat
    BY <2>2, LinesAreLines, LenProperties DEF Lines
  <2>4. QED
    BY <2>2, <2>3
<1>6. PublishedLines \in Seq(AnyLine) /\ seq = Len(PublishedLines)
      /\ \A i \in 1..Len(PublishedLines) : PublishedLines[i].seq = i
  <2>1. PublishedLines \in Seq(AnyLine)
    BY PublishedTyped
  <2>2. DOMAIN PublishedLines = 1..Len(PublishedLines)
    BY <2>1, LenProperties
  <2>3. QED
    BY <1>2, <2>1, <2>2 DEF Good, NumbersOK
<1> HIDE DEF q
<1>7. NumbersOK'
  <2>1. \A i \in DOMAIN (PublishedLines \o q) : (PublishedLines \o q)[i].seq = i
    BY <1>5, <1>6, NumberedOn
  <2>2. Len(PublishedLines \o q) = Len(PublishedLines) + Len(q)
    BY <1>5, <1>6, ConcatProperties
  <2>3. seq' = Len(PublishedLines')
    BY <1>1, <1>4, <1>5, <1>6, <2>2
  <2>4. QED
    BY <1>4, <2>1, <2>3 DEF NumbersOK
<1>8. FilesOK'
  <2>1. headFile' # NoHead
    BY <1>1, <1>2, SegmentIs DEF NoHead
  <2>2. QED
    BY <1>1, <1>2, <2>1 DEF FilesOK
<1>9. WriteOK'
  BY <1>1 DEF WriteOK
<1>10. GapsOK'
  <2>1. SUFFICES ASSUME NEW n \in Segment, NEW j \in 0..MaxSegment, n + j < w.head.segment,
                        \A m \in n .. (n + j) : segs[m] = <<>>
                 PROVE  ~intact /\ restarts > j + (IF up THEN 0 ELSE 1)
    BY <1>1 DEF GapsOK
  <2>2. n \in Nat /\ j \in Nat /\ n >= 1 /\ n + j \in n .. (n + j)
    BY SegmentIs
  <2>3. n + j < head.segment
    <3>1. \A m \in head.segment .. (w.head.segment - 1) : segs[m] # <<>>
      BY <1>1 DEF Good, WriteOK
    <3>2. n + j \notin head.segment .. (w.head.segment - 1)
      BY <2>1, <2>2, <3>1
    <3>3. QED
      BY <1>2, <2>1, <2>2, <3>2, SegsTyped
  <2>4. headFile = head
    <3>1. headFile # NoHead
      <4>1. SUFFICES ASSUME headFile = NoHead PROVE FALSE
        OBVIOUS
      <4>2. head.segment = 1
        BY <4>1 DEF Good, FilesOK, FirstHead
      <4>3. QED
        BY <2>2, <2>3, <4>2
    <3>2. QED
      BY <1>2, <3>1 DEF Good, FilesOK
  <2>5. QED
    BY <2>1, <2>3, <2>4 DEF Good, GapsOK
<1>11. QED
  BY <1>4, <1>7, <1>8, <1>9, <1>10 DEF Good, q

LEMMA GoodFail ==
  ASSUME TypeOK, TypeOK', MemoryOK, Good, FailWrite, Reliable'
  PROVE  Good' /\ PublishedLines' = PublishedLines
<1>1. /\ w # Idle /\ w' = Idle /\ unclean' = TRUE
      /\ UNCHANGED <<up, head, seq, restarts>> /\ FailedEffect
  BY DEF FailWrite
<1>2. up /\ Len(segs[head.segment]) >= head.length
  BY <1>1, WriteFacts DEF Good, FilesOK
<1>3. UNCHANGED <<headFile, intact>> /\ PublishedLines' = PublishedLines /\ GapsOK'
      /\ Len(segs'[head.segment]) >= head.length
  <2>1. CASE UNCHANGED <<disk, intact>>
    <3>1. UNCHANGED <<headFile, intact, segs>>
      BY <2>1 DEF disk
    <3>2. PublishedLines' = PublishedLines
      BY <3>1 DEF PublishedLines
    <3>3. GapsOK'
      BY <1>1, <3>1 DEF Good, GapsOK
    <3>4. QED
      BY <1>2, <3>1, <3>2, <3>3
  <2>2. CASE /\ w.step = "append"
             /\ \E part \in Partial(SubSeq(w.lines, 1, Fitting)) :
                  segs' = [segs EXCEPT ![w.head.segment] = @ \o part]
             /\ UNCHANGED <<headFile, intact>>
    <3>1. PICK part \in Partial(Fit) : segs' = [segs EXCEPT ![w.head.segment] = @ \o part]
      BY <2>2 DEF Fit
    <3>2. part \in Seq(AnyLine)
      BY <1>1, <3>1, FittingLines, PartialTyped DEF Lines
    <3>3. QED
      BY <1>1, <2>2, <3>1, <3>2, AppendKeeps
  <2>3. CASE "lyingHead" \in Faults /\ intact' = FALSE
    BY <2>3 DEF Reliable, RecoveryReaches
  <2>4. QED
    BY <1>1, <2>1, <2>2, <2>3 DEF FailedEffect
<1>4. FilesOK'
  BY <1>1, <1>2, <1>3 DEF Good, FilesOK
<1>5. NumbersOK'
  BY <1>1, <1>3 DEF Good, NumbersOK
<1>6. WriteOK'
  BY <1>1 DEF WriteOK
<1>7. QED
  BY <1>3, <1>4, <1>5, <1>6 DEF Good

-----------------------------------------------------------------------------
(***************************************************************************)
(* What a process that opens the log finds out about the last number.      *)
(***************************************************************************)

LEMMA EmptyBefore ==
  ASSUME NEW g \in Files, NEW k \in 0..MaxSegment, NEW p \in k..MaxSegment,
         \A m \in (k + 1) .. p : g[m] = <<>>
  PROVE  Before(g, p) = Before(g, k)
<1> DEFINE n == p - k
           T == {m \in Nat : m <= n => Before(g, k + m) = Before(g, k)}
<1>1. k \in Nat /\ p \in Nat /\ n \in Nat /\ MaxSegment \in Nat /\ k + n = p
  BY SegmentIs
<1>2. 0 \in T
  <2>1. k + 0 = k
    BY <1>1
  <2>2. QED
    BY <2>1
<1>3. ASSUME NEW m \in Nat, m < n /\ m \in T PROVE m + 1 \in T
  <2> DEFINE q == k + (m + 1)
  <2>1. q \in Segment /\ q - 1 = k + m /\ q \in (k + 1) .. p
    BY <1>1, <1>3, SegmentIs
  <2>2. Before(g, k + m) = Before(g, k)
    BY <1>1, <1>3
  <2>3. g[q] = <<>>
    <3> HIDE DEF q
    <3>1. QED
      BY <2>1
  <2>4. Before(g, q) = Before(g, k + m) \o g[q] /\ Before(g, k + m) \in Seq(AnyLine)
    <3> HIDE DEF q
    <3>1. QED
      BY <2>1, BeforeNext DEF Lines
  <2>5. Before(g, q) = Before(g, k)
    <3> HIDE DEF q
    <3>1. QED
      BY <2>2, <2>3, <2>4, ConcatEmptySeq
  <2>6. QED
    BY <2>5
<1>4. \A m \in 0..n : m \in T
  <2> HIDE DEF T, n
  <2>1. QED
    BY <1>1, <1>2, <1>3, UpTo
<1>5. n \in 0..n /\ n \in T
  BY <1>1, <1>4
<1>6. QED
  BY <1>1, <1>5

\* In lines that are numbered, the last one of any rest of them has their number.
LEMMA LastNumbered ==
  ASSUME NEW b \in Seq(AnyLine), NEW s \in Seq(AnyLine),
         \A i \in 1..Len(b \o s) : (b \o s)[i].seq = i
  PROVE  /\ s = <<>> => LastSeqIn(s) = 0
         /\ s # <<>> => LastSeqIn(s) = Len(b \o s) /\ LastSeqIn(s) > 0
<1>1. /\ Len(b) \in Nat /\ Len(s) \in Nat
      /\ Len(b \o s) = Len(b) + Len(s)
      /\ \A i \in 1..(Len(b) + Len(s)) : (b \o s)[i] = IF i <= Len(b) THEN b[i] ELSE s[i - Len(b)]
  BY ConcatProperties, LenProperties
<1>2. ASSUME NEW i \in 1..Len(s) PROVE s[i].seq = Len(b) + i /\ s[i].seq > 0
  <2> DEFINE j == Len(b) + i
  <2>1. j \in 1..(Len(b) + Len(s)) /\ ~(j <= Len(b)) /\ j - Len(b) = i /\ j > 0
    BY <1>1
  <2> HIDE DEF j
  <2>2. (b \o s)[j] = s[j - Len(b)] /\ (b \o s)[j].seq = j
    BY <1>1, <2>1
  <2>3. QED
    BY <2>1, <2>2 DEF j
<1>3. s \in Lines
  BY DEF Lines
<1>4. CASE s = <<>>
  <2>1. Len(s) = 0
    BY <1>4
  <2>2. ~(LastSeqIn(s) > 0)
    BY <1>1, <1>3, <2>1, LastSeqTyped
  <2>3. LastSeqIn(s) \in Nat
    BY <1>3, LastSeqTyped
  <2>4. QED
    BY <1>4, <2>2, <2>3
<1>5. CASE s # <<>>
  <2> DEFINE n == Len(s)
  <2>1. n \in 1..Len(s)
    BY <1>1, <1>5, EmptySeq
  <2>2. LastSeqIn(s) > 0
    BY <1>2, <1>3, <2>1, LastSeqTyped
  <2>3. PICK k \in 1..Len(s) : LastSeqIn(s) = s[k].seq /\ \A i \in 1..Len(s) : s[i].seq > 0 => i <= k
    BY <1>3, <2>2, LastSeqTyped
  <2>4. n <= k
    BY <1>2, <2>1, <2>3
  <2>5. k = Len(s)
    BY <1>1, <2>3, <2>4
  <2>6. QED
    BY <1>1, <1>2, <1>5, <2>1, <2>2, <2>3, <2>5
<1>6. QED
  BY <1>4, <1>5

\* The same of lines in whole segments.
LEMMA LastOfSegment ==
  ASSUME NEW g \in Files, NEW k \in Segment,
         \A i \in 1..Len(Before(g, k)) : Before(g, k)[i].seq = i
  PROVE  /\ g[k] = <<>> => LastSeqIn(g[k]) = 0
         /\ g[k] # <<>> => LastSeqIn(g[k]) = Len(Before(g, k)) /\ LastSeqIn(g[k]) > 0
<1> DEFINE b == Before(g, k - 1)
           s == g[k]
           c == Before(g, k)
<1>1. c = b \o s /\ b \in Seq(AnyLine) /\ s \in Seq(AnyLine)
  BY BeforeNext DEF Lines
<1>2. \A i \in 1..Len(c) : c[i].seq = i
  OBVIOUS
<1> HIDE DEF b, s, c
<1>3. /\ s = <<>> => LastSeqIn(s) = 0
      /\ s # <<>> => LastSeqIn(s) = Len(c) /\ LastSeqIn(s) > 0
  BY <1>1, <1>2, LastNumbered
<1>4. QED
  BY <1>3 DEF s, c

\* The number recovered is the last one published.
LEMMA RecoveredIs ==
  ASSUME TypeOK, MemoryOK, Good, Reliable, ~up, headFile # NoHead
  PROVE  RecoveredSeq(Cut(segs[headFile.segment], headFile.length)) = Len(PublishedLines)
<1> DEFINE at == headFile.segment
           s == Cut(segs[headFile.segment], headFile.length)
           b == Before(segs, headFile.segment - 1)
           P == PublishedLines
<1>1. /\ at \in Segment /\ at \in Nat /\ at >= 1 /\ segs \in Files
      /\ s \in Seq(AnyLine) /\ b \in Seq(AnyLine)
  <2>1. at \in Segment /\ headFile.length \in Nat /\ segs \in Files
    BY SegsTyped
  <2>2. segs[at] \in Seq(AnyLine)
    BY <2>1 DEF Files, Lines
  <2>3. s \in Seq(AnyLine)
    BY <2>1, <2>2, CutOfLines
  <2>4. b \in Seq(AnyLine)
    BY <2>1, BeforeNext DEF Lines
  <2>5. QED
    BY <2>1, <2>3, <2>4, SegmentIs
<1>2. P = b \o s
  BY <1>1, SegsTyped, LinesToIs DEF PublishedLines
<1>3. \A i \in 1..Len(P) : P[i].seq = i
  <2>1. P \in Seq(AnyLine)
    BY PublishedTyped
  <2>2. DOMAIN P = 1..Len(P)
    BY <2>1, LenProperties
  <2>3. QED
    BY <2>2 DEF Good, NumbersOK
<1>4. CASE s # <<>>
  <2> HIDE DEF s, b, P
  <2>1. LastSeqIn(s) = Len(P) /\ LastSeqIn(s) > 0
    BY <1>1, <1>2, <1>3, <1>4, LastNumbered
  <2>2. RecoveredSeq(s) = Len(P)
    BY <2>1 DEF RecoveredSeq
  <2>3. QED
    BY <2>2 DEF s, P
<1>5. CASE s = <<>>
  <2>1. P = b
    <3> HIDE DEF s, b, P
    <3>1. QED
      BY <1>1, <1>2, <1>5, ConcatEmptySeq
  <2>2. RecoveredSeq(s) = LastSeqBefore(at)
    <3> HIDE DEF s, b, P
    <3>1. LastSeqIn(s) = 0
      BY <1>1, <1>2, <1>3, <1>5, LastNumbered
    <3>2. QED
      BY <3>1 DEF RecoveredSeq, at
  <2> DEFINE found == {n \in Segment : at - 3 <= n /\ n < at /\ LastSeqIn(segs[n]) > 0}
  <2>3. LastSeqBefore(at) = IF found = {} THEN 0 ELSE LastSeqIn(segs[Max(found)])
    BY DEF LastSeqBefore
  <2>4. ASSUME NEW k \in Segment, k < at
        PROVE  \A i \in 1..Len(Before(segs, k)) : Before(segs, k)[i].seq = i
    <3>1. at - 1 \in k..MaxSegment
      BY <1>1, <2>4, SegmentIs
    <3> DEFINE c == Before(segs, k)
    <3>2. Len(c) <= Len(b) /\ \A i \in 1..Len(c) : b[i] = c[i]
      BY <1>1, <3>1, BeforeHas
    <3>3. Len(c) \in Nat /\ Len(b) \in Nat
      <4>1. c \in Seq(AnyLine)
        BY <1>1, <2>4, BeforeNext DEF Lines
      <4>2. QED
        BY <1>1, <4>1, LenProperties
    <3>4. \A i \in 1..Len(b) : b[i].seq = i
      BY <1>3, <2>1
    <3> HIDE DEF c, b
    <3>5. \A i \in 1..Len(c) : c[i].seq = i
      BY <3>2, <3>3, <3>4
    <3>6. QED
      BY <3>5 DEF c
  <2>5. ASSUME NEW k \in Segment, k < at, ~(LastSeqIn(segs[k]) > 0) PROVE segs[k] = <<>>
    BY <1>1, <2>4, <2>5, LastOfSegment
  <2>6. CASE found # {}
    <3> DEFINE k == Max(found)
    <3>1. k \in found /\ \A y \in found : y <= k
      <4>1. found \in SUBSET (0..at)
        BY <1>1, SegmentIs
      <4> HIDE DEF found
      <4>2. QED
        BY <1>1, <2>6, <4>1, GreatestOf
    <3> HIDE DEF k
    <3>2. k \in Segment /\ k \in Nat /\ at - 3 <= k /\ k < at /\ LastSeqIn(segs[k]) > 0
      BY <3>1, SegmentIs
    <3>3. segs[k] # <<>> /\ LastSeqIn(segs[k]) = Len(Before(segs, k))
      <4>1. \A i \in 1..Len(Before(segs, k)) : Before(segs, k)[i].seq = i
        BY <2>4, <3>2
      <4>2. LastSeqIn(segs[k]) # 0
        BY <3>2
      <4>3. QED
        BY <1>1, <3>2, <4>1, <4>2, LastOfSegment
    <3>4. \A m \in (k + 1) .. (at - 1) : segs[m] = <<>>
      <4>1. TAKE m \in (k + 1) .. (at - 1)
      <4>2. m \in Segment /\ m < at /\ at - 3 <= m /\ ~(m <= k)
        BY <1>1, <3>2, SegmentIs
      <4>3. m \notin found
        BY <3>1, <4>2
      <4>4. ~(LastSeqIn(segs[m]) > 0)
        BY <4>2, <4>3
      <4>5. QED
        BY <2>5, <4>2, <4>4
    <3>5. Before(segs, at - 1) = Before(segs, k)
      <4>1. k \in 0..MaxSegment /\ at - 1 \in k..MaxSegment
        BY <1>1, <3>2, SegmentIs
      <4>2. QED
        BY <1>1, <3>4, <4>1, EmptyBefore
    <3>6. LastSeqBefore(at) = LastSeqIn(segs[k])
      BY <2>3, <2>6 DEF k
    <3>7. QED
      BY <2>1, <2>2, <3>3, <3>5, <3>6
  <2>7. CASE found = {}
    <3>1. \A m \in Segment : at - 3 <= m /\ m < at => segs[m] = <<>>
      <4>1. TAKE m \in Segment
      <4>2. HAVE at - 3 <= m /\ m < at
      <4>3. ~(LastSeqIn(segs[m]) > 0)
        BY <2>7, <4>2
      <4>4. QED
        BY <2>5, <4>2, <4>3
    <3>2. CASE at > 3
      <4> DEFINE n == at - 3
      <4>1. n \in Segment /\ n \in Nat /\ 2 \in 0..MaxSegment /\ n + 2 < at
        BY <1>1, <3>2, SegmentIs
      <4>2. \A m \in n .. (n + 2) : segs[m] = <<>>
        <5>1. \A m \in n .. (n + 2) : m \in Segment /\ at - 3 <= m /\ m < at
          BY <1>1, <3>2, SegmentIs
        <5>2. QED
          BY <3>1, <5>1
      <4> HIDE DEF n
      <4>3. ~intact /\ restarts > 2 + (IF up THEN 0 ELSE 1)
        BY <4>1, <4>2 DEF Good, GapsOK
      <4>4. restarts > 3
        BY <4>3
      <4>5. MaxRestarts <= 3
        BY <4>3 DEF Reliable, RecoveryReaches
      <4>6. FALSE
        BY <4>4, <4>5, SegsTyped, EventLogAssumption
      <4>7. QED
        BY <4>6
    <3>3. CASE ~(at > 3)
      <4>1. \A m \in (0 + 1) .. (at - 1) : segs[m] = <<>>
        <5>1. \A m \in (0 + 1) .. (at - 1) : m \in Segment /\ at - 3 <= m /\ m < at
          BY <1>1, <3>3, SegmentIs
        <5>2. QED
          BY <3>1, <5>1
      <4>2. 0 \in 0..MaxSegment /\ at - 1 \in 0..MaxSegment
        BY <1>1, SegmentIs
      <4>3. Before(segs, at - 1) = Before(segs, 0)
        BY <1>1, <4>1, <4>2, EmptyBefore
      <4>4. P = <<>>
        BY <2>1, <4>3, BeforeEmpty
      <4>5. LastSeqBefore(at) = 0
        BY <2>3, <2>7
      <4>6. QED
        BY <2>2, <4>4, <4>5, EmptySeq
    <3>4. QED
      BY <3>2, <3>3
  <2>8. QED
    BY <2>6, <2>7
<1>6. QED
  BY <1>4, <1>5

LEMMA GoodCrash ==
  ASSUME TypeOK, TypeOK', MemoryOK, Good, Crash
  PROVE  Good'
<1> DEFINE at == headFile.segment
           l == headFile.length
           s == segs[headFile.segment]
           t == segs'[headFile.segment]
<1>1. /\ up /\ ~up' /\ head' = FirstHead /\ w' = Idle /\ restarts' = restarts + 1 /\ headFile' = headFile
  BY DEF Crash, NoMemory
<1>2. \/ UNCHANGED <<segs, intact>>
      \/ /\ headFile # NoHead /\ intact' = FALSE
         /\ \E k \in 0..(Min({Len(s), l}) - 1) : segs' = [segs EXCEPT ![at] = SubSeq(s, 1, k)]
  BY DEF Crash
<1>3. (intact' => intact) /\ \A n \in Segment : n # at => segs'[n] = segs[n]
  BY <1>2, SegsTyped DEF Files
<1>4. WriteOK'
  BY <1>1 DEF WriteOK
<1>5. FilesOK'
  <2>1. CASE UNCHANGED <<segs, intact>>
    BY <1>1, <2>1 DEF Good, FilesOK
  <2>2. CASE intact' = FALSE
    BY <1>1, <2>2 DEF Good, FilesOK
  <2>3. QED
    BY <1>2, <2>1, <2>2
<1>6. GapsOK'
  <2>1. SUFFICES ASSUME NEW n \in Segment, NEW j \in 0..MaxSegment, n + j < at,
                        \A m \in n .. (n + j) : segs'[m] = <<>>
                 PROVE  ~intact' /\ restarts + 1 > j + 1
    BY <1>1 DEF GapsOK
  <2>2. n \in Nat /\ j \in Nat /\ n >= 1
    BY SegmentIs
  <2>3. \A m \in n .. (n + j) : segs[m] = <<>>
    <3>1. \A m \in n .. (n + j) : m \in Segment /\ m # at
      BY <2>1, <2>2, SegsTyped, SegmentIs, SMTT(40)
    <3> HIDE DEF at
    <3>2. QED
      BY <1>3, <2>1, <3>1
  <2>4. ~intact /\ restarts > j + 0
    BY <1>1, <2>1, <2>3 DEF Good, GapsOK
  <2>5. QED
    BY <1>3, <2>2, <2>4, SegsTyped
<1>7. NumbersOK'
  <2>1. CASE UNCHANGED <<segs, intact>>
    <3>1. PublishedLines' = PublishedLines
      BY <1>1, <2>1 DEF PublishedLines
    <3>2. QED
      BY <1>1, <3>1 DEF Good, NumbersOK
  <2>2. CASE /\ headFile # NoHead
             /\ \E k \in 0..(Min({Len(s), l}) - 1) : segs' = [segs EXCEPT ![at] = SubSeq(s, 1, k)]
    <3>1. PICK k \in 0..(Min({Len(s), l}) - 1) : segs' = [segs EXCEPT ![at] = SubSeq(s, 1, k)]
      BY <2>2
    <3>2. at \in Segment /\ at \in Nat /\ l \in Nat /\ s \in Seq(AnyLine) /\ Len(s) \in Nat /\ segs \in Files
      BY <2>2, SegsTyped
    <3>3. k \in Nat /\ k <= Len(s) /\ k <= l /\ k < Len(s) /\ k < l
      <4> HIDE DEF s, l
      <4>1. Min({Len(s), l}) = IF Len(s) <= l THEN Len(s) ELSE l
        BY <3>2, MinOfTwo
      <4>2. QED
        BY <3>1, <3>2, <4>1
    <3>4. t = SubSeq(s, 1, k) /\ Len(t) = k /\ t \in Seq(AnyLine) /\ \A i \in 1..k : t[i] = s[i]
      <4>1. t = SubSeq(s, 1, k)
        <5> HIDE DEF s
        <5>1. QED
          BY <3>1, <3>2 DEF Files
      <4> HIDE DEF s, t
      <4>2. \A i \in 1..k : s[i] \in AnyLine
        BY <3>2, <3>3, ElementOfSeq
      <4>3. SubSeq(s, 1, k) = Cut(s, k)
        <5>1. Min({Len(s), k}) = k
          BY <3>2, <3>3, MinOfTwo
        <5>2. QED
          BY <5>1 DEF Cut
      <4>4. Cut(s, k) \in Seq(AnyLine) /\ Len(Cut(s, k)) = k /\ \A i \in 1..k : Cut(s, k)[i] = s[i]
        BY <3>2, <3>3, CutOfLines
      <4>5. QED
        BY <4>1, <4>3, <4>4
    <3> DEFINE b == Before(segs, at - 1)
               c == Cut(s, l)
    <3>5. b \in Seq(AnyLine) /\ c \in Seq(AnyLine) /\ PublishedLines = b \o c
      <4>1. c \in Seq(AnyLine)
        <5> HIDE DEF s, l
        <5>1. QED
          BY <3>2, CutOfLines
      <4>2. b \in Seq(AnyLine)
        BY <3>2, BeforeNext DEF Lines
      <4>3. QED
        BY <3>2, <4>1, <4>2, LinesToIs DEF PublishedLines
    <3>6. k <= Len(c) /\ \A i \in 1..k : c[i] = s[i]
      <4> HIDE DEF s, l
      <4>1. Len(c) = (IF Len(s) <= l THEN Len(s) ELSE l) /\ \A i \in 1..Len(c) : c[i] = s[i]
        BY <3>2, CutOfLines
      <4> HIDE DEF c
      <4>2. QED
        BY <3>2, <3>3, <4>1
    <3>7. PublishedLines' = b \o t
      <4>1. segs' \in Files
        BY DEF TypeOK, Files, Lines, AnyLine
      <4>2. LinesTo(segs', at, l) = Before(segs', at - 1) \o Cut(t, l)
        BY <3>2, <4>1, LinesToIs
      <4>3. Cut(t, l) = t
        <5> HIDE DEF t, l
        <5>1. Len(t) <= l /\ t \in Seq(AnyLine) /\ l \in Nat
          BY <3>2, <3>3, <3>4
        <5>2. QED
          BY <5>1, CutOfLines
      <4>4. \A n \in 1..(at - 1) : segs'[n] = segs[n]
        <5>1. \A n \in 1..(at - 1) : n \in Segment /\ n # at
          BY <3>2, SegmentIs
        <5> HIDE DEF at
        <5>2. QED
          BY <1>3, <5>1
      <4>5. Before(segs', at - 1) = b
        BY <4>4, BeforeSame
      <4>6. PublishedLines' = LinesTo(segs', at, l)
        BY <1>1 DEF PublishedLines
      <4>7. QED
        BY <4>2, <4>3, <4>5, <4>6
    <3>8. \A i \in 1..Len(b \o c) : (b \o c)[i].seq = i
      <4> HIDE DEF b, c
      <4>1. b \o c \in Seq(AnyLine)
        BY <3>5, ConcatProperties
      <4>2. DOMAIN (b \o c) = 1..Len(b \o c)
        BY <4>1, LenProperties
      <4>3. QED
        BY <3>5, <4>2 DEF Good, NumbersOK
    <3> HIDE DEF b, c, t, s
    <3>9. /\ Len(b) \in Nat /\ Len(c) \in Nat
          /\ Len(b \o c) = Len(b) + Len(c)
          /\ \A i \in 1..(Len(b) + Len(c)) : (b \o c)[i] = IF i <= Len(b) THEN b[i] ELSE c[i - Len(b)]
      BY <3>5, ConcatProperties, LenProperties
    <3>10. \A i \in 1..Len(b) : b[i].seq = i
      <4>1. TAKE i \in 1..Len(b)
      <4>2. i \in 1..(Len(b) + Len(c)) /\ i <= Len(b)
        BY <3>9
      <4>3. QED
        BY <3>8, <3>9, <4>2
    <3>11. \A i \in 1..Len(t) : t[i].seq = Len(b) + i
      <4>1. TAKE i \in 1..Len(t)
      <4>2. i \in 1..k /\ t[i] = c[i]
        BY <3>4, <3>6
      <4> DEFINE j == Len(b) + i
      <4>3. j \in 1..(Len(b) + Len(c)) /\ ~(j <= Len(b)) /\ j - Len(b) = i
        BY <3>3, <3>6, <3>9, <4>2
      <4> HIDE DEF j
      <4>4. (b \o c)[j] = c[j - Len(b)] /\ (b \o c)[j].seq = j
        BY <3>8, <3>9, <4>3
      <4>5. QED
        BY <4>2, <4>3, <4>4 DEF j
    <3>12. \A i \in DOMAIN (b \o t) : (b \o t)[i].seq = i
      BY <3>4, <3>5, <3>10, <3>11, NumberedOn
    <3>13. QED
      BY <1>1, <3>7, <3>12 DEF NumbersOK
  <2>3. QED
    BY <1>2, <2>1, <2>2
<1>8. QED
  BY <1>4, <1>5, <1>6, <1>7 DEF Good

LEMMA GoodOpenEmpty ==
  ASSUME TypeOK, TypeOK', MemoryOK, Good, OpenEmpty
  PROVE  Good' /\ PublishedLines' = PublishedLines
<1>1. /\ headFile = NoHead /\ ~up /\ up' /\ headFile' = headFile /\ head' = head /\ seq' = seq
      /\ w = Idle /\ w' = w /\ head = FirstHead /\ seq = 0 /\ UNCHANGED <<restarts, intact>>
  BY DEF OpenEmpty, Opened, MemoryOK
<1>2. segs \in Files /\ segs' \in Files /\ segs'[1] = <<>>
  <2>1. segs \in Files /\ 1 \in Segment
    BY SegsTyped, SegmentIs
  <2>2. segs' \in Files
    BY DEF TypeOK, Files, Lines, AnyLine
  <2>3. QED
    BY <2>1, <2>2 DEF OpenEmpty, Files
<1>3. PublishedLines = <<>> /\ PublishedLines' = <<>>
  <2>1. headFile.segment = 0 /\ headFile.length = 0 /\ headFile'.segment = 0 /\ headFile'.length = 0
    BY <1>1 DEF NoHead
  <2>2. QED
    BY <1>2, <2>1, NothingYet DEF PublishedLines
<1>4. FilesOK'
  <2>1. Len(segs'[head'.segment]) = head'.length
    BY <1>1, <1>2 DEF FirstHead
  <2>2. head'.length \in Nat /\ Len(segs'[head'.segment]) \in Nat
    BY <2>1, <1>1 DEF FirstHead
  <2>3. QED
    BY <1>1, <2>1, <2>2 DEF FilesOK
<1>5. NumbersOK'
  BY <1>1, <1>3, EmptySeq DEF NumbersOK
<1>6. WriteOK'
  BY <1>1 DEF WriteOK
<1>7. GapsOK'
  <2>1. SUFFICES ASSUME NEW n \in Segment, NEW j \in 0..MaxSegment, n + j < headFile'.segment PROVE FALSE
    BY DEF GapsOK
  <2>2. headFile'.segment = 0 /\ n \in Nat /\ n >= 1 /\ j \in Nat
    BY <1>1, SegmentIs DEF NoHead
  <2>3. QED
    BY <2>1, <2>2
<1>8. QED
  BY <1>3, <1>4, <1>5, <1>6, <1>7 DEF Good

LEMMA GoodOpenPublished ==
  ASSUME TypeOK, TypeOK', MemoryOK, Good, Reliable, OpenPublished
  PROVE  Good' /\ PublishedLines' = PublishedLines
<1> DEFINE at == headFile.segment
           l == headFile.length
           s == segs[headFile.segment]
           t == segs'[headFile.segment]
<1>1. /\ headFile # NoHead /\ ~up /\ up' /\ headFile' = headFile /\ head' = headFile
      /\ w = Idle /\ w' = w /\ UNCHANGED <<restarts, intact>> /\ Len(s) >= l
  BY DEF OpenPublished, Opened, MemoryOK
<1>2. at \in Segment /\ at \in Nat /\ l \in Nat /\ s \in Seq(AnyLine) /\ Len(s) \in Nat /\ segs \in Files
  BY <1>1, SegsTyped
<1>3. SubSeq(s, 1, l) = Cut(s, l)
  <2> HIDE DEF s, l
  <2>1. Min({Len(s), l}) = l
    BY <1>1, <1>2, MinOfTwo
  <2>2. QED
    BY <2>1 DEF Cut
<1>4. segs' \in Files /\ t = Cut(s, l) /\ \A n \in Segment : n # at => segs'[n] = segs[n]
  <2>1. segs' \in Files
    BY DEF TypeOK, Files, Lines, AnyLine
  <2>2. segs' = [segs EXCEPT ![at] = Cut(s, l)]
    BY <1>3 DEF OpenPublished
  <2> HIDE DEF s, l
  <2>3. QED
    BY <1>2, <2>1, <2>2 DEF Files
<1>5. Len(t) = l /\ t \in Seq(AnyLine) /\ \A i \in 1..l : t[i] = s[i]
  <2> HIDE DEF s, l, t
  <2>1. QED
    BY <1>1, <1>2, <1>4, CutOfLines
<1>6. PublishedLines' = PublishedLines
  <2>1. Cut(s, l) = Cut(t, l)
    <3> HIDE DEF s, l, t
    <3>1. l <= Len(s) /\ l <= Len(t)
      BY <1>1, <1>2, <1>5
    <3>2. QED
      BY <1>2, <1>5, <3>1, CutOfMore
  <2>2. \A n \in 1..(at - 1) : segs[n] = segs'[n]
    <3>1. \A n \in 1..(at - 1) : n \in Segment /\ n # at
      BY <1>2, SegmentIs
    <3> HIDE DEF at
    <3>2. QED
      BY <1>4, <3>1
  <2>3. at \in 0..MaxSegment
    BY <1>2, SegmentIs
  <2>4. LinesTo(segs, at, l) = LinesTo(segs', at, l)
    BY <1>2, <1>4, <2>1, <2>2, <2>3, LinesToSame
  <2>5. QED
    BY <1>1, <2>4 DEF PublishedLines
<1>7. seq' = Len(PublishedLines')
  <2>1. seq' = RecoveredSeq(Cut(s, l))
    BY <1>3 DEF OpenPublished
  <2>2. QED
    BY <1>1, <1>6, <2>1, RecoveredIs
<1>8. NumbersOK'
  BY <1>6, <1>7 DEF Good, NumbersOK
<1>9. FilesOK'
  <2>1. Len(segs'[head'.segment]) = head'.length /\ head'.length \in Nat
    BY <1>1, <1>2, <1>5
  <2>2. QED
    BY <1>1, <2>1 DEF FilesOK
<1>10. WriteOK'
  BY <1>1 DEF WriteOK
<1>11. GapsOK'
  <2>1. SUFFICES ASSUME NEW n \in Segment, NEW j \in 0..MaxSegment, n + j < at,
                        \A m \in n .. (n + j) : segs'[m] = <<>>
                 PROVE  ~intact /\ restarts > j + 0
    BY <1>1 DEF GapsOK
  <2>2. n \in Nat /\ j \in Nat /\ n >= 1
    BY SegmentIs
  <2>3. \A m \in n .. (n + j) : segs[m] = <<>>
    <3>1. \A m \in n .. (n + j) : m \in Segment /\ m # at
      BY <1>2, <2>1, <2>2, SegmentIs
    <3> HIDE DEF at
    <3>2. QED
      BY <1>4, <2>1, <3>1
  <2>4. ~intact /\ restarts > j + 1
    BY <1>1, <2>1, <2>3 DEF Good, GapsOK
  <2>5. QED
    BY <2>2, <2>4, SegsTyped
<1>12. QED
  BY <1>6, <1>8, <1>9, <1>10, <1>11 DEF Good

LEMMA GoodOpenTorn ==
  ASSUME TypeOK, TypeOK', MemoryOK, Good, Reliable, OpenTorn
  PROVE  Good' /\ PublishedLines' = PublishedLines /\ ~intact
<1> DEFINE at == headFile.segment
           l == headFile.length
           s == segs[headFile.segment]
           next == headFile.segment + 1
<1>1. /\ headFile # NoHead /\ ~up /\ up' /\ head' = [segment |-> next, length |-> 0] /\ headFile' = head'
      /\ w = Idle /\ w' = w /\ UNCHANGED <<restarts, intact>> /\ Len(s) < l /\ at < MaxSegment
      /\ segs' = [segs EXCEPT ![next] = <<>>]
  BY DEF OpenTorn, Opened, MemoryOK
<1>2. /\ at \in Segment /\ at \in Nat /\ at >= 1 /\ l \in Nat /\ s \in Seq(AnyLine) /\ Len(s) \in Nat
      /\ segs \in Files
  BY <1>1, SegsTyped, SegmentIs
<1>3. next \in Segment /\ next \in Nat /\ next - 1 = at /\ next > at
  <2>1. next \in Nat /\ next <= MaxSegment /\ next >= 1 /\ next - 1 = at /\ next > at
    BY <1>1, <1>2, SegmentIs
  <2> HIDE DEF next
  <2>2. QED
    BY <2>1, SegmentIs
<1>4. segs' \in Files /\ segs'[next] = <<>> /\ \A n \in Segment : n # next => segs'[n] = segs[n]
  <2>1. segs' \in Files
    BY DEF TypeOK, Files, Lines, AnyLine
  <2> HIDE DEF next
  <2>2. QED
    BY <1>1, <1>2, <1>3, <2>1 DEF Files
<1>5. ~intact
  BY <1>1, <1>2 DEF Good, FilesOK
<1>6. Cut(s, l) = s
  <2> HIDE DEF s, l
  <2>1. QED
    BY <1>1, <1>2, CutOfLines
<1>7. PublishedLines = Before(segs, at) /\ Before(segs, at) \in Seq(AnyLine)
  BY <1>2, <1>6, LinesToIs, BeforeNext DEF PublishedLines, Lines
<1>8. PublishedLines' = Before(segs, at)
  <2>1. PublishedLines' = LinesTo(segs', next, 0)
    BY <1>1 DEF PublishedLines
  <2>2. LinesTo(segs', next, 0) = Before(segs', at) \o Cut(<<>>, 0)
    <3>1. \A k \in Segment : LinesTo(segs', k, 0) = Before(segs', k - 1) \o Cut(segs'[k], 0)
      BY <1>4, LinesToIs
    <3> HIDE DEF next, at
    <3>2. QED
      BY <1>3, <1>4, <3>1
  <2>3. Cut(<<>>, 0) = <<>>
    <3>1. <<>> \in Seq(AnyLine) /\ Len(<<>>) <= 0
      BY EmptySeq
    <3>2. QED
      BY <3>1, CutOfLines
  <2>4. \A n \in 1..at : segs'[n] = segs[n]
    <3>1. \A n \in 1..at : n \in Segment /\ n # next
      BY <1>2, SegmentIs
    <3> HIDE DEF next, at
    <3>2. QED
      BY <1>4, <3>1
  <2>5. Before(segs', at) = Before(segs, at)
    BY <2>4, BeforeSame
  <2>6. QED
    BY <1>7, <2>1, <2>2, <2>3, <2>5, ConcatEmptySeq
<1>9. seq' = Len(PublishedLines')
  <2>1. seq' = RecoveredSeq(Cut(s, l))
    BY <1>6 DEF OpenTorn
  <2>2. QED
    BY <1>1, <1>7, <1>8, <2>1, RecoveredIs
<1>10. NumbersOK'
  BY <1>7, <1>8, <1>9 DEF Good, NumbersOK
<1>11. FilesOK'
  <2>1. Len(segs'[head'.segment]) = head'.length /\ head'.length = 0
    BY <1>1, <1>4
  <2>2. headFile' # NoHead
    BY <1>1, <1>2 DEF NoHead
  <2>3. QED
    BY <1>1, <2>1, <2>2 DEF FilesOK
<1>12. WriteOK'
  BY <1>1 DEF WriteOK
<1>13. GapsOK'
  <2>1. SUFFICES ASSUME NEW n \in Segment, NEW j \in 0..MaxSegment, n + j < next,
                        \A m \in n .. (n + j) : segs'[m] = <<>>
                 PROVE  restarts > j + 0
    BY <1>1, <1>5 DEF GapsOK
  <2>2. n \in Nat /\ j \in Nat /\ n >= 1
    BY SegmentIs
  <2>3. \A m \in n .. (n + j) : segs[m] = <<>>
    <3>1. \A m \in n .. (n + j) : m \in Segment /\ m # next
      BY <1>3, <2>1, <2>2, SegmentIs
    <3> HIDE DEF next
    <3>2. QED
      BY <1>4, <2>1, <3>1
  <2>4. CASE n + j < at
    <3>1. restarts > j + 1
      BY <1>1, <2>3, <2>4 DEF Good, GapsOK
    <3>2. QED
      BY <2>2, <3>1, SegsTyped
  <2>5. CASE ~(n + j < at) /\ j = 0
    <3>1. restarts > 0
      BY <1>1 DEF MemoryOK
    <3>2. QED
      BY <2>5, <3>1
  <2>6. CASE ~(n + j < at) /\ j # 0
    <3> DEFINE i == j - 1
    <3>1. i \in 0..MaxSegment /\ i \in Nat /\ i + 1 = j /\ n + i < at
      <4>1. i \in Nat /\ i <= MaxSegment /\ i + 1 = j
        BY <2>2, <2>6, SegmentIs
      <4>2. n + j < at + 1
        BY <2>1
      <4>3. n + i < at
        BY <1>2, <2>2, <4>1, <4>2
      <4> HIDE DEF i
      <4>4. QED
        BY <4>1, <4>3
    <3>2. \A m \in n .. (n + i) : segs[m] = <<>>
      BY <2>2, <2>3, <3>1
    <3> HIDE DEF i
    <3>3. restarts > i + 1
      BY <1>1, <3>1, <3>2 DEF Good, GapsOK
    <3>4. QED
      BY <3>1, <3>3
  <2>7. QED
    BY <2>4, <2>5, <2>6
<1>14. QED
  BY <1>5, <1>7, <1>8, <1>10, <1>11, <1>12, <1>13 DEF Good

\* A mount that has broken its word stays so.
LEMMA IntactBefore ==
  ASSUME TypeOK, [Next]_vars, intact'
  PROVE  intact
<1>1. CASE UNCHANGED intact
  BY <1>1
<1>2. CASE intact' = FALSE
  BY <1>2
<1>3. UNCHANGED intact \/ intact' = FALSE
  BY DEF Next, vars, Emit, TimerSteps, DeltaTimerFires, FlushTimerFires, RetryTimerFires, Flush, Close,
         WriteSteps, BeginWrite, TruncateSegment, AppendLines, RollOver, SkipWrite, PublishHead, Settle,
         FailWrite, FailedEffect, Crash, OpenEmpty, OpenPublished, OpenTorn, Opened
<1>4. QED
  BY <1>1, <1>2, <1>3

LEMMA ReliableBefore ==
  ASSUME TypeOK, [Next]_vars, Reliable'
  PROVE  Reliable
BY IntactBefore DEF Reliable, RecoveryReaches

\* Every step keeps the files in order, and only PublishHead publishes.
LEMMA GoodKept ==
  ASSUME TypeOK, TypeOK', MemoryOK, Good, Reliable, Reliable', [Next]_vars
  PROVE  Good' /\ (PublishedLines' = PublishedLines \/ PublishHead \/ ~intact')
<1>1. CASE UNCHANGED vars
  <2>1. UNCHANGED <<segs, headFile, head, seq, w, up, unclean, restarts, intact>>
    BY <1>1 DEF vars, disk, memory
  <2>2. PublishedLines' = PublishedLines
    BY <2>1 DEF PublishedLines
  <2>3. QED
    BY <2>1, <2>2, GoodQuiet
<1>2. CASE (\E kind \in Kind : Emit(kind)) \/ TimerSteps \/ Flush \/ Close
  <2>1. UNCHANGED <<segs, headFile>>
    BY <1>2 DEF TimerSteps, DeltaTimerFires, FlushTimerFires, RetryTimerFires, Flush, Close, Emit, disk
  <2>2. PublishedLines' = PublishedLines
    BY <2>1 DEF PublishedLines
  <2>3. QED
    BY <1>2, <2>2, GoodQueue
<1>3. CASE BeginWrite \/ SkipWrite
  <2>1. UNCHANGED <<segs, headFile>>
    BY <1>3 DEF BeginWrite, SkipWrite, disk
  <2>2. PublishedLines' = PublishedLines
    BY <2>1 DEF PublishedLines
  <2>3. QED
    BY <1>3, <2>2, GoodBegin, GoodSkip
<1>4. CASE TruncateSegment \/ AppendLines \/ RollOver
  BY <1>4, GoodTruncate, GoodAppend, GoodRollOver
<1>5. CASE PublishHead
  BY <1>5, GoodPublish
<1>6. CASE FailWrite
  BY <1>6, GoodFail
<1>7. CASE Crash
  <2>1. intact' => UNCHANGED <<segs, headFile>>
    BY <1>7 DEF Crash
  <2>2. intact' => PublishedLines' = PublishedLines
    BY <2>1 DEF PublishedLines
  <2>3. QED
    BY <1>7, <2>2, GoodCrash
<1>8. CASE OpenEmpty
  BY <1>8, GoodOpenEmpty
<1>9. CASE OpenPublished
  BY <1>9, GoodOpenPublished
<1>10. CASE OpenTorn
  BY <1>10, GoodOpenTorn
<1>11. QED
  BY <1>1, <1>2, <1>3, <1>4, <1>5, <1>6, <1>7, <1>8, <1>9, <1>10 DEF Next, WriteSteps

LEMMA LogInvKept ==
  ASSUME LogInv, [Next]_vars
  PROVE  LogInv'
<1>1. TypeOK'
  BY TypesKept DEF LogInv
<1>2. MemoryOK'
  BY MemoryKept DEF LogInv
<1>3. Reliable' => Good'
  BY <1>1, ReliableBefore, GoodKept DEF LogInv
<1>4. QED
  BY <1>1, <1>2, <1>3 DEF LogInv

LEMMA LogInvInit ==
  Init => LogInv
BY TypesInit, MemoryInit, GoodInit DEF LogInv

\* The inductive invariant: a process's memory, the segments and head.json
\* stay in step (flush and its writes, open and recovery in event-log.ts).
THEOREM LogInvariant == Spec => []LogInv
<1>1. LogInv /\ [Next]_vars => LogInv'
  BY LogInvKept
<1>2. QED
  BY <1>1, LogInvInit, PTL DEF Spec

\* Published lines are numbered 1, 2, 3, ... (event-log.ts: "`seq` only moves
\* once a batch is published").  On a mount that loses ends of segments this
\* needs that lastSeqBefore, which looks at three segments, meets a line: a
\* lost end empties one segment, so it does after up to three restarts; and a
\* mount that hides a rename of head.json can have any number given out twice.
THEOREM LogIsOK ==
  ASSUME RecoveryReaches
  PROVE  Spec => []LogOK
<1>1. LogInv => LogOK
  BY DEF LogInv, LogOK, Reliable, Good, NumbersOK, SeqIsContiguous
<1>2. QED
  BY <1>1, LogInvariant, PTL

\* On a mount that has kept its word published lines are numbered 1, 2, 3, ...
\* after any number of failed writes, crashes and restarts.
THEOREM IntactNumbers == Spec => [](intact => SeqIsContiguous)
<1>1. LogInv => (intact => SeqIsContiguous)
  BY DEF LogInv, Reliable, Good, NumbersOK, SeqIsContiguous
<1>2. QED
  BY <1>1, LogInvariant, PTL

-----------------------------------------------------------------------------
(***************************************************************************)
(* What waits to be published, step by step.                               *)
(***************************************************************************)
Delta == [kind : DeltaKind, text : Seq(Token)] \cup {NoDelta}

TextHeld(batch, queue, d) == Writable(batch) \o (Writable(queue) \o d.text)

Collecting(d) == IF d = NoDelta THEN <<>> ELSE <<d>>

LEMMA DeltaTyped ==
  ASSUME NEW d \in Delta
  PROVE  /\ d.text \in Seq(Token) /\ Collecting(d) \in Seq(Payload)
         /\ Writable(Collecting(d)) = d.text
<1>1. CASE d = NoDelta
  <2>1. d.text = <<>> /\ Collecting(d) = <<>>
    BY <1>1 DEF NoDelta, Collecting
  <2>2. Writable(<<>>) = <<>>
    <3>1. <<>> \in Seq(Payload)
      BY EmptySeq
    <3>2. QED
      BY <3>1, WritableTexts
  <2>3. QED
    BY <2>1, <2>2, EmptySeq
<1>2. CASE d # NoDelta
  <2>1. d \in Payload /\ d.kind # "invalid" /\ d.text \in Seq(Token)
    BY <1>2 DEF Delta, Payload, Kind, DeltaKind
  <2>2. Collecting(d) = <<d>> /\ <<d>> \in Seq(Payload)
    BY <1>2, <2>1 DEF Collecting
  <2>3. QED
    BY <2>1, <2>2, WritableOne
<1>3. QED
  BY <1>1, <1>2

LEMMA HeldTyped ==
  ASSUME NEW b \in Seq(Payload), NEW q \in Seq(Payload), NEW d \in Delta
  PROVE  /\ Writable(b) \in Seq(Token) /\ Writable(q) \in Seq(Token) /\ d.text \in Seq(Token)
         /\ Writable(q) \o d.text \in Seq(Token) /\ TextHeld(b, q, d) \in Seq(Token)
         /\ q \o Collecting(d) \in Seq(Payload)
         /\ Writable(q \o Collecting(d)) = Writable(q) \o d.text
         /\ Writable(b \o (q \o Collecting(d))) = TextHeld(b, q, d)
<1>1. d.text \in Seq(Token) /\ Collecting(d) \in Seq(Payload) /\ Writable(Collecting(d)) = d.text
  BY DeltaTyped
<1>2. Writable(b) \in Seq(Token) /\ Writable(q) \in Seq(Token)
  BY WritableTexts
<1>3. Writable(q) \o d.text \in Seq(Token)
  BY <1>1, <1>2, ConcatProperties
<1>4. TextHeld(b, q, d) \in Seq(Token)
  BY <1>2, <1>3, ConcatProperties DEF TextHeld
<1>5. q \o Collecting(d) \in Seq(Payload)
  BY <1>1, ConcatProperties
<1>6. Writable(q \o Collecting(d)) = Writable(q) \o d.text
  BY <1>1, WritableTexts
<1>7. Writable(b \o (q \o Collecting(d))) = Writable(b) \o Writable(q \o Collecting(d))
  BY <1>5, WritableTexts
<1>8. QED
  BY <1>1, <1>2, <1>3, <1>4, <1>5, <1>6, <1>7 DEF TextHeld

LEMMA MemoryTyped ==
  ASSUME TypeOK
  PROVE  w.batch \in Seq(Payload) /\ pending \in Seq(Payload) /\ delta \in Delta
BY QueueTyped DEF TypeOK, Delta

LEMMA MemoryTypedNext ==
  ASSUME TypeOK'
  PROVE  w'.batch \in Seq(Payload) /\ pending' \in Seq(Payload) /\ delta' \in Delta
<1>1. pending' \in Seq(Payload) /\ delta' \in Delta /\ w' \in Write \cup {Idle}
  BY DEF TypeOK, Delta
<1>2. CASE w' = Idle
  BY <1>1, <1>2, EmptySeq DEF Idle
<1>3. CASE w' \in Write
  BY <1>1, <1>3 DEF Write
<1>4. QED
  BY <1>1, <1>2, <1>3

LEMMA WaitingIs ==
  ASSUME TypeOK
  PROVE  /\ Waiting = TextHeld(w.batch, pending, delta) /\ Waiting \in Seq(Token)
         /\ Taken = pending \o Collecting(delta)
<1>1. Taken = pending \o Collecting(delta)
  BY DEF Taken, Collecting
<1>2. QED
  BY <1>1, MemoryTyped, HeldTyped, SMTT(40) DEF Waiting

LEMMA WaitingNext ==
  ASSUME TypeOK'
  PROVE  Waiting' = TextHeld(w'.batch, pending', delta')
<1>1. Waiting' = Writable(w'.batch \o (pending' \o Collecting(delta')))
  BY DEF Waiting, Taken, Collecting
<1>2. QED
  BY <1>1, MemoryTypedNext, HeldTyped

LEMMA Nothing ==
  /\ <<>> \in Seq(Payload) /\ NoDelta \in Delta /\ NoDelta.text = <<>> /\ Writable(<<>>) = <<>>
  /\ <<>> \in Seq(Token) /\ Idle.batch = <<>>
  /\ \A s \in Seq(Token) : s \o <<>> = s /\ <<>> \o s = s
<1>1. <<>> \in Seq(Payload) /\ <<>> \in Seq(Token)
  BY EmptySeq
<1>2. Writable(<<>>) = <<>>
  BY <1>1, WritableTexts
<1>3. \A s \in Seq(Token) : s \o <<>> = s /\ <<>> \o s = s
  BY ConcatEmptySeq
<1>4. QED
  BY <1>1, <1>2, <1>3 DEF NoDelta, Delta, Idle

\* The first part of a sequence, and the rest.
LEMMA PartsOf ==
  ASSUME NEW S, NEW a \in Seq(S), NEW b \in Seq(S)
  PROVE  /\ Len(a) \in 0..Len(a \o b)
         /\ SubSeq(a \o b, 1, Len(a)) = a
         /\ SubSeq(a \o b, Len(a) + 1, Len(a \o b)) = b
<1> DEFINE c == a \o b
           n == Len(a)
           m == Len(b)
           x == SubSeq(c, 1, n)
           y == SubSeq(c, n + 1, n + m)
<1>1. /\ n \in Nat /\ m \in Nat /\ c \in Seq(S) /\ Len(c) = n + m
      /\ \A i \in 1..(n + m) : c[i] = IF i <= n THEN a[i] ELSE b[i - n]
  BY ConcatProperties, LenProperties
<1>2. \A i \in 1..(n + m) : c[i] \in S
  <2> HIDE DEF c, n, m
  <2>1. QED
    BY <1>1, ElementOfSeq
<1>3. x \in Seq(S) /\ Len(x) = n /\ \A i \in 1..n : x[i] = a[i]
  <2> HIDE DEF c, n, m
  <2>1. \A i \in 1..n : c[i] \in S
    BY <1>1, <1>2
  <2>2. /\ x \in Seq(S) /\ Len(x) = IF 1 <= n THEN n - 1 + 1 ELSE 0
        /\ \A i \in 1 .. n - 1 + 1 : x[i] = c[1 + i - 1]
    BY <1>1, <2>1, SubSeqProperties
  <2> HIDE DEF x
  <2>3. QED
    BY <1>1, <2>2
<1>4. y \in Seq(S) /\ Len(y) = m /\ \A i \in 1..m : y[i] = b[i]
  <2> DEFINE k == n + 1
             p == n + m
  <2>1. k \in Nat /\ p \in Nat /\ k = n + 1 /\ p = n + m
    BY <1>1
  <2> HIDE DEF c, n, m, k, p
  <2>2. \A i \in k..p : c[i] \in S
    BY <1>1, <1>2, <2>1
  <2>3. /\ SubSeq(c, k, p) \in Seq(S) /\ Len(SubSeq(c, k, p)) = IF k <= p THEN p - k + 1 ELSE 0
        /\ \A i \in 1 .. p - k + 1 : SubSeq(c, k, p)[i] = c[k + i - 1]
    BY <1>1, <2>1, <2>2, SubSeqProperties
  <2>4. y = SubSeq(c, k, p)
    BY DEF k, p
  <2> HIDE DEF y
  <2>5. ASSUME NEW i \in 1..m PROVE y[i] = b[i]
    <3> DEFINE h == k + i - 1
    <3>1. i \in 1 .. p - k + 1 /\ h \in 1..(n + m) /\ ~(h <= n) /\ h - n = i
      BY <1>1, <2>1
    <3>2. SubSeq(c, k, p)[i] = c[h]
      BY <2>3, <3>1
    <3> HIDE DEF h
    <3>3. c[h] = b[h - n]
      BY <1>1, <3>1
    <3>4. QED
      BY <2>4, <3>1, <3>2, <3>3
  <2>6. Len(y) = m
    BY <1>1, <2>1, <2>3, <2>4
  <2>7. QED
    BY <2>3, <2>4, <2>5, <2>6
<1>5. x = a
  <2> HIDE DEF x
  <2>1. QED
    BY <1>3, SeqEqual
<1>6. y = b
  <2> HIDE DEF y
  <2>1. QED
    BY <1>4, SeqEqual
<1>7. SubSeq(c, n + 1, Len(c)) = y
  BY <1>1
<1>8. n \in 0..Len(c)
  BY <1>1
<1>9. QED
  BY <1>5, <1>6, <1>7, <1>8

-----------------------------------------------------------------------------
(***************************************************************************)
(* What a step does to what waits.                                         *)
(***************************************************************************)

LEMMA WaitingEmit ==
  ASSUME TypeOK, TypeOK', NEW kind \in Kind, Emit(kind)
  PROVE  Waiting' \in {Waiting, Append(Waiting, emitted + 1)}
<1> DEFINE e == emitted + 1
           payload == [kind |-> kind, text |-> <<emitted + 1>>]
           more == [delta EXCEPT !.text = Append(@, emitted + 1)]
           b == Writable(w.batch)
           q == Writable(pending)
           d == delta.text
           one == <<emitted + 1>>
<1>1. e \in Token /\ one \in Seq(Token) /\ payload \in Payload /\ w' = w
  BY SegmentIs DEF TypeOK, Emit, Payload, Token
<1>2. /\ b \in Seq(Token) /\ q \in Seq(Token) /\ d \in Seq(Token) /\ q \o d \in Seq(Token)
      /\ Waiting = b \o (q \o d) /\ Waiting \in Seq(Token)
      /\ Taken \in Seq(Payload) /\ Writable(Taken) = q \o d
  <2>1. b \in Seq(Token) /\ q \in Seq(Token) /\ d \in Seq(Token) /\ q \o d \in Seq(Token)
    BY MemoryTyped, HeldTyped
  <2>2. Waiting = b \o (q \o d) /\ Waiting \in Seq(Token)
    BY WaitingIs DEF TextHeld
  <2>3. Taken \in Seq(Payload)
    BY QueueTyped
  <2>4. Writable(Taken) = q \o d
    BY MemoryTyped, HeldTyped, WaitingIs
  <2>5. QED
    BY <2>1, <2>2, <2>3, <2>4
<1>3. Append(Waiting, e) = Waiting \o one
  BY <1>1, <1>2, AppendIsConcat
<1>4. Waiting \o one = b \o ((q \o d) \o one)
  <2> DEFINE x == q \o d
  <2>1. b \in Seq(Token) /\ x \in Seq(Token) /\ one \in Seq(Token) /\ Waiting = b \o x
    BY <1>1, <1>2
  <2> HIDE DEF x, b, one
  <2>2. (b \o x) \o one = b \o (x \o one)
    <3>1. b \in Seq(Token) /\ x \in Seq(Token) /\ one \in Seq(Token)
      BY <2>1
    <3>2. QED
      BY <3>1, ConcatAssociative
  <2>3. QED
    BY <2>1, <2>2 DEF x
<1>5. Waiting' = TextHeld(w.batch, pending', delta')
  BY <1>1, WaitingNext
<1>6. CASE kind \in DeltaKind /\ delta.kind = kind /\ delta' = more /\ UNCHANGED <<pending, timers>>
  <2>1. delta # NoDelta
    BY <1>6 DEF NoDelta, DeltaKind
  <2>2. delta'.text = Append(d, e)
    BY <1>6, <2>1 DEF TypeOK
  <2>3. Append(d, e) = d \o one
    <3> HIDE DEF d
    <3>1. QED
      BY <1>1, <1>2, AppendIsConcat
  <2>4. Waiting' = b \o (q \o (d \o one))
    BY <1>5, <1>6, <2>2, <2>3 DEF TextHeld
  <2>5. q \o (d \o one) = (q \o d) \o one
    <3>1. q \in Seq(Token) /\ d \in Seq(Token) /\ one \in Seq(Token)
      BY <1>1, <1>2
    <3> HIDE DEF q, d, one
    <3>2. (q \o d) \o one = q \o (d \o one)
      BY <3>1, ConcatAssociative
    <3>3. QED
      BY <3>2
  <2>6. QED
    BY <1>3, <1>4, <2>4, <2>5
<1>7. CASE delta = NoDelta /\ delta' = payload /\ UNCHANGED <<pending, timers>>
  <2>1. d = <<>> /\ q \o d = q
    BY <1>2, <1>7, Nothing
  <2>2. Waiting' = b \o (q \o one)
    BY <1>5, <1>7 DEF TextHeld
  <2>3. QED
    BY <1>3, <1>4, <2>1, <2>2
<1>8. CASE pending' = Taken /\ delta' = payload
  <2>1. Waiting' = b \o (Writable(Taken) \o one)
    BY <1>5, <1>8 DEF TextHeld
  <2>2. QED
    BY <1>2, <1>3, <1>4, <2>1
<1>9. CASE pending' = Append(Taken, payload) /\ delta' = NoDelta
  <2> DEFINE u == Writable(<<payload>>)
  <2>1. pending' = Taken \o <<payload>> /\ <<payload>> \in Seq(Payload)
    <3> HIDE DEF payload
    <3>1. QED
      BY <1>1, <1>2, <1>9, AppendIsConcat
  <2>2. u \in {<<>>, one}
    <3>1. payload.kind = kind /\ payload.text = one
      OBVIOUS
    <3> HIDE DEF payload
    <3>2. u = IF payload.kind = "invalid" THEN <<>> ELSE payload.text
      BY <1>1, WritableOne
    <3>3. QED
      BY <3>1, <3>2
  <2> HIDE DEF payload, u
  <2>3. Writable(pending') = (q \o d) \o u
    BY <1>2, <2>1, WritableTexts DEF u
  <2>4. u \in Seq(Token) /\ (q \o d) \o u \in Seq(Token)
    <3>1. u \in Seq(Token)
      BY <2>1, WritableTexts DEF u
    <3> HIDE DEF q, d
    <3>2. QED
      BY <1>2, <3>1, ConcatProperties
  <2>5. Waiting' = b \o ((q \o d) \o u)
    <3>1. Waiting' = b \o (Writable(pending') \o <<>>)
      BY <1>5, <1>9, Nothing DEF TextHeld
    <3>2. QED
      BY <2>3, <2>4, <3>1, Nothing
  <2>6. CASE u = <<>>
    <3>1. (q \o d) \o u = q \o d
      BY <1>2, <2>6, Nothing
    <3>2. QED
      BY <1>2, <2>5, <3>1
  <2>7. CASE u = one
    BY <1>3, <1>4, <2>5, <2>7
  <2>8. QED
    BY <2>2, <2>6, <2>7
<1>10. QED
  BY <1>6, <1>7, <1>8, <1>9 DEF Emit

LEMMA WaitingQueue ==
  ASSUME TypeOK, TypeOK', TimerSteps \/ Flush
  PROVE  Waiting' = Waiting
<1>1. w' = w
  BY DEF TimerSteps, DeltaTimerFires, FlushTimerFires, RetryTimerFires, Flush
<1>2. CASE UNCHANGED <<pending, delta>>
  BY <1>1, <1>2, WaitingIs, WaitingNext
<1>3. CASE pending' = Taken /\ delta' = NoDelta
  <2>1. Waiting' = Writable(w.batch) \o (Writable(Taken) \o <<>>)
    BY <1>1, <1>3, WaitingNext, Nothing DEF TextHeld
  <2>2. Writable(Taken) = Writable(pending) \o delta.text /\ Writable(Taken) \in Seq(Token)
    BY WaitingIs, MemoryTyped, HeldTyped
  <2>3. Waiting' = TextHeld(w.batch, pending, delta)
    BY <2>1, <2>2, Nothing DEF TextHeld
  <2>4. QED
    BY <2>3, WaitingIs
<1>4. QED
  BY <1>2, <1>3 DEF TimerSteps, DeltaTimerFires, FlushTimerFires, RetryTimerFires, Flush

\* The batch moves from the queue to the write and, when that fails, back.
LEMMA WaitingWrite ==
  ASSUME TypeOK, TypeOK', BeginWrite \/ TruncateSegment \/ AppendLines \/ RollOver \/ FailWrite
  PROVE  Waiting' = Waiting
<1> DEFINE q == Writable(pending)
           d == delta.text
           b == Writable(w.batch)
<1>1. q \in Seq(Token) /\ d \in Seq(Token) /\ b \in Seq(Token) /\ q \o d \in Seq(Token) /\ b \o q \in Seq(Token)
  <2>1. q \in Seq(Token) /\ d \in Seq(Token) /\ b \in Seq(Token)
    BY MemoryTyped, HeldTyped
  <2> HIDE DEF q, d, b
  <2>2. QED
    BY <2>1, ConcatProperties
<1>2. Waiting = b \o (q \o d) /\ delta' = delta
  BY WaitingIs DEF TextHeld, BeginWrite, TruncateSegment, AppendLines, RollOver, FailWrite
<1>3. CASE BeginWrite
  <2>1. CASE UNCHANGED <<pending, w>>
    BY <1>2, <2>1, WaitingNext DEF TextHeld
  <2>2. CASE pending' = <<>> /\ w'.batch = pending
    <3>1. b = <<>>
      BY <1>3, Nothing DEF BeginWrite
    <3>2. Waiting' = q \o (<<>> \o d)
      BY <1>2, <2>2, WaitingNext, Nothing DEF TextHeld
    <3>3. QED
      BY <1>1, <1>2, <3>1, <3>2, Nothing
  <2>3. QED
    BY <1>3, <2>1, <2>2 DEF BeginWrite
<1>4. CASE TruncateSegment \/ AppendLines \/ RollOver
  <2>1. w # Idle /\ pending' = pending
    <3> HIDE DEF q, d, b
    <3>1. w.step # Idle.step
      BY <1>4 DEF TruncateSegment, AppendLines, RollOver, Idle
    <3>2. pending' = pending
      BY <1>4 DEF TruncateSegment, AppendLines, RollOver
    <3>3. QED
      BY <3>1, <3>2
  <2>2. w \in Write
    BY <2>1, WriteTyped
  <2>3. w'.batch = w.batch
    <3>1. CASE TruncateSegment
      BY <2>2, <3>1 DEF TruncateSegment, Write
    <3>2. CASE AppendLines
      BY <2>2, <3>2 DEF AppendLines, Write
    <3>3. CASE RollOver
      BY <2>2, <3>3 DEF RollOver, Write
    <3>4. QED
      BY <1>4, <3>1, <3>2, <3>3
  <2>4. QED
    BY <1>2, <2>1, <2>3, WaitingNext DEF TextHeld
<1>5. CASE FailWrite
  <2>1. w' = Idle /\ pending' = w.batch \o pending
    BY <1>5 DEF FailWrite
  <2>2. Writable(pending') = b \o q
    BY <2>1, MemoryTyped, WritableTexts
  <2>3. Waiting' = <<>> \o ((b \o q) \o d)
    BY <1>2, <2>1, <2>2, WaitingNext, Nothing DEF TextHeld
  <2> HIDE DEF b, q, d
  <2>4. (b \o q) \o d = b \o (q \o d)
    BY <1>1, ConcatAssociative
  <2>5. b \o (q \o d) \in Seq(Token)
    BY <1>1, ConcatProperties
  <2>6. QED
    BY <1>2, <2>3, <2>4, <2>5, Nothing
<1>6. QED
  BY <1>3, <1>4, <1>5

\* Closing the log or dying loses what waits, from the young end.
LEMMA WaitingLost ==
  ASSUME TypeOK, TypeOK', Close \/ Crash
  PROVE  \E k \in 0..Len(Waiting) : Waiting' = SubSeq(Waiting, 1, k)
<1>1. CASE Close
  <2> DEFINE b == Writable(w.batch)
             r == Writable(pending) \o delta.text
  <2>1. b \in Seq(Token) /\ r \in Seq(Token) /\ Waiting = b \o r
    BY MemoryTyped, HeldTyped, WaitingIs DEF TextHeld
  <2>2. Waiting' = b \o (<<>> \o <<>>)
    BY <1>1, WaitingNext, Nothing DEF Close, TextHeld
  <2>3. Waiting' = b
    BY <2>1, <2>2, Nothing
  <2> HIDE DEF b, r
  <2>4. Len(b) \in 0..Len(b \o r) /\ SubSeq(b \o r, 1, Len(b)) = b
    BY <2>1, PartsOf
  <2>5. QED
    BY <2>1, <2>3, <2>4
<1>2. CASE Crash
  <2>1. Waiting' = <<>> \o (<<>> \o <<>>)
    BY <1>2, WaitingNext, Nothing DEF Crash, NoMemory, TextHeld
  <2>2. Waiting' = <<>>
    BY <2>1, Nothing
  <2>3. Waiting \in Seq(Token)
    BY WaitingIs
  <2>4. <<>> \o Waiting = Waiting /\ Len(<<>>) = 0
    BY <2>3, Nothing
  <2>5. Len(<<>>) \in 0..Len(<<>> \o Waiting) /\ SubSeq(<<>> \o Waiting, 1, Len(<<>>)) = <<>>
    BY <2>3, Nothing, PartsOf
  <2>6. 0 \in 0..Len(Waiting) /\ SubSeq(Waiting, 1, 0) = <<>>
    BY <2>4, <2>5
  <2>7. QED
    BY <2>2, <2>6
<1>3. QED
  BY <1>1, <1>2

\* A write of nothing but invalid events had no text.
LEMMA WaitingSkipped ==
  ASSUME TypeOK, TypeOK', MemoryOK, Good, SkipWrite
  PROVE  Waiting' = Waiting
<1> DEFINE q == Numbered(w.batch)
           P == PublishedLines
<1>1. /\ w # Idle /\ w.step = "append" /\ w.lines = <<>> /\ w' = Idle
      /\ UNCHANGED <<pending, delta>>
  BY DEF SkipWrite, Settle, Idle
<1>2. LinesTo(segs, head.segment, head.length) \o <<>> = P \o q
  BY <1>1 DEF Good, WriteOK
<1>3. P = LinesTo(segs, head.segment, head.length) /\ P \in Seq(AnyLine) /\ q \in Seq(Line)
  BY <1>1, WriteFacts, PublishedIs, PublishedTyped, SegsTyped, MemoryTyped, NumberedLines DEF Good
<1>4. TextOf(q) = Writable(w.batch)
  BY SegsTyped, MemoryTyped, NumberedText
<1> HIDE DEF q, P
<1>5. q = <<>>
  <2>1. P \o <<>> = P /\ q \in Seq(AnyLine)
    BY <1>3, ConcatEmptySeq, LinesAreLines DEF Lines
  <2>2. P = P \o q
    BY <1>2, <1>3, <2>1
  <2>3. Len(P \o q) = Len(P) + Len(q) /\ Len(P) \in Nat /\ Len(q) \in Nat
    BY <1>3, <2>1, ConcatProperties, LenProperties
  <2>4. Len(P) = Len(P \o q)
    BY <2>2
  <2>5. Len(q) = 0
    BY <2>3, <2>4
  <2>6. QED
    BY <1>3, <2>5, EmptySeq
<1>6. TextOf(<<>>) = <<>>
  BY TextOfLines, EmptySeq
<1>7. Writable(w.batch) = <<>>
  BY <1>4, <1>5, <1>6
<1>8. Waiting = TextHeld(w.batch, pending, delta) /\ Waiting' = TextHeld(<<>>, pending, delta)
  BY <1>1, WaitingIs, WaitingNext, Nothing
<1>9. QED
  BY <1>7, <1>8, Nothing DEF TextHeld

\* The batch is the oldest of what waits, and all of it is published.
LEMMA WaitingPublished ==
  ASSUME TypeOK, TypeOK', MemoryOK, Good, PublishHead
  PROVE  \E k \in 1..Len(Waiting) :
           /\ TextOf(PublishedLines)' = TextOf(PublishedLines) \o SubSeq(Waiting, 1, k)
           /\ Waiting' = SubSeq(Waiting, k + 1, Len(Waiting))
<1> DEFINE b == Writable(w.batch)
           r == Writable(pending) \o delta.text
           q == Numbered(w.batch)
           P == PublishedLines
<1>1. /\ w # Idle /\ w.step = "head" /\ w' = Idle /\ UNCHANGED <<pending, delta>>
      /\ Valid(w.batch) # <<>> /\ w.batch \in Seq(Payload)
  <2>1. w.step = "head" /\ w' = Idle /\ UNCHANGED <<pending, delta>>
    BY DEF PublishHead, Settle
  <2>2. w # Idle
    BY <2>1 DEF Idle
  <2>3. Valid(w.batch) # <<>>
    BY <2>1, <2>2 DEF Good, WriteOK
  <2>4. QED
    BY <2>1, <2>2, <2>3, MemoryTyped
<1>2. b \in Seq(Token) /\ r \in Seq(Token) /\ Waiting = b \o r
  BY MemoryTyped, HeldTyped, WaitingIs DEF TextHeld
<1>3. Waiting' = r
  <2>1. Waiting' = <<>> \o r
    BY <1>1, WaitingNext, Nothing DEF TextHeld
  <2>2. QED
    BY <1>2, <2>1, Nothing
<1>4. TextOf(PublishedLines)' = TextOf(P) \o b
  <2>1. PublishedLines' = P \o q
    BY GoodPublish
  <2>2. P \in Seq(AnyLine) /\ q \in Seq(AnyLine) /\ TextOf(q) = b
    <3>1. P \in Seq(AnyLine) /\ q \in Seq(Line)
      BY <1>1, PublishedTyped, SegsTyped, NumberedLines
    <3>2. TextOf(q) = b
      BY <1>1, SegsTyped, NumberedText
    <3> HIDE DEF q
    <3>3. QED
      BY <3>1, <3>2, LinesAreLines DEF Lines
  <2>3. TextOf(PublishedLines') = TextOf(P) \o TextOf(q)
    <3> HIDE DEF q, P
    <3>1. QED
      BY <2>1, <2>2, TextOfLines
  <2>4. TextOf(PublishedLines)' = TextOf(PublishedLines')
    BY DEF TextOf
  <2>5. QED
    BY <2>2, <2>3, <2>4
<1>5. Len(b) \in Nat \ {0}
  BY <1>1, WorthWriting DEF MemoryOK, Worded
<1> HIDE DEF b, r
<1>6. /\ Len(b) \in 0..Len(b \o r) /\ SubSeq(b \o r, 1, Len(b)) = b
      /\ SubSeq(b \o r, Len(b) + 1, Len(b \o r)) = r
  BY <1>2, PartsOf
<1>7. Len(b) \in 1..Len(Waiting)
  BY <1>2, <1>5, <1>6
<1>8. QED
  BY <1>2, <1>3, <1>4, <1>6, <1>7

\* A step of the log is a step of the abstract one, or does not show in it.
LEMMA LogStep ==
  ASSUME LogInv, [Next]_vars
  PROVE  [Log!Next]_<<TextOf(PublishedLines), Waiting, emitted, intact>>
<1>1. LogInv' /\ TypeOK /\ TypeOK' /\ MemoryOK
  BY LogInvKept DEF LogInv
<1>2. CASE ~intact'
  BY <1>2 DEF Log!Next, Log!Broken
<1>3. CASE intact'
  <2>1. Reliable /\ Reliable'
    BY <1>1, <1>3, ReliableBefore DEF Reliable
  <2>2. Good /\ Good' /\ (PublishedLines' = PublishedLines \/ PublishHead)
    BY <1>1, <1>3, <2>1, GoodKept DEF LogInv
  <2>3. ASSUME PublishedLines' = PublishedLines
        PROVE  TextOf(PublishedLines)' = TextOf(PublishedLines)
    BY <2>3 DEF TextOf
  <2>4. intact \in BOOLEAN /\ intact' \in BOOLEAN
    BY <1>1 DEF TypeOK
  <2>5. ASSUME PublishedLines' = PublishedLines, Waiting' = Waiting, emitted' = emitted, intact' = intact
        PROVE  UNCHANGED <<TextOf(PublishedLines), Waiting, emitted, intact>>
    BY <2>3, <2>5
  <2>6. CASE UNCHANGED vars
    <3>1. UNCHANGED <<segs, headFile, w, pending, delta, emitted, intact>>
      BY <2>6 DEF vars, disk, memory
    <3>2. PublishedLines' = PublishedLines
      BY <3>1 DEF PublishedLines
    <3>3. Waiting' = Waiting
      BY <1>1, <3>1, WaitingIs, WaitingNext
    <3>4. QED
      BY <2>5, <3>1, <3>2, <3>3
  <2>7. ASSUME NEW kind \in Kind, Emit(kind) PROVE Log!Emit
    <3>1. /\ emitted < MaxTokens /\ emitted' = emitted + 1 /\ intact' = intact
          /\ UNCHANGED <<segs, headFile>>
      BY <2>7 DEF Emit, disk
    <3>2. PublishedLines' = PublishedLines
      BY <3>1 DEF PublishedLines
    <3>3. Waiting' \in {Waiting, Append(Waiting, emitted + 1)}
      BY <1>1, <2>7, WaitingEmit
    <3>4. TextOf(PublishedLines)' = TextOf(PublishedLines)
      BY <2>3, <3>2
    <3>5. QED
      BY <3>1, <3>3, <3>4 DEF Log!Emit
  <2>8. CASE TimerSteps \/ Flush
    <3>1. UNCHANGED <<segs, headFile, emitted, intact>>
      BY <2>8 DEF TimerSteps, DeltaTimerFires, FlushTimerFires, RetryTimerFires, Flush, disk
    <3>2. PublishedLines' = PublishedLines
      BY <3>1 DEF PublishedLines
    <3>3. QED
      BY <1>1, <2>5, <2>8, <3>1, <3>2, WaitingQueue
  <2>9. CASE Close \/ Crash
    <3>1. PublishedLines' = PublishedLines
      <4>1. UNCHANGED <<segs, headFile>>
        BY <1>3, <2>9 DEF Close, Crash, disk
      <4>2. QED
        BY <4>1 DEF PublishedLines
    <3>2. emitted' = emitted /\ intact' = intact
      BY <1>3, <2>4, <2>9 DEF Close, Crash
    <3>3. \E k \in 0..Len(Waiting) : Waiting' = SubSeq(Waiting, 1, k)
      BY <1>1, <2>9, WaitingLost
    <3>4. TextOf(PublishedLines)' = TextOf(PublishedLines)
      BY <2>3, <3>1
    <3>5. Log!Lose
      BY <3>2, <3>3, <3>4 DEF Log!Lose
    <3>6. QED
      BY <3>5 DEF Log!Next
  <2>10. CASE BeginWrite \/ TruncateSegment \/ AppendLines \/ RollOver \/ SkipWrite \/ FailWrite
    <3>1. Waiting' = Waiting
      BY <1>1, <2>2, <2>10, WaitingWrite, WaitingSkipped
    <3>2. emitted' = emitted /\ intact' = intact
      BY <1>3, <2>4, <2>10 DEF BeginWrite, TruncateSegment, AppendLines, RollOver, SkipWrite, Settle,
                          FailWrite, FailedEffect
    <3>3. ~PublishHead \/ PublishedLines' = PublishedLines
      <4>1. CASE FailWrite
        BY <1>1, <2>1, <2>2, <4>1, GoodFail
      <4>2. CASE ~FailWrite
        BY <2>10, <4>2 DEF PublishHead, BeginWrite, TruncateSegment, AppendLines, RollOver, SkipWrite, Idle
      <4>3. QED
        BY <4>1, <4>2
    <3>4. QED
      BY <2>2, <2>5, <3>1, <3>2, <3>3
  <2>11. CASE PublishHead
    <3>1. \E k \in 1..Len(Waiting) :
            /\ TextOf(PublishedLines)' = TextOf(PublishedLines) \o SubSeq(Waiting, 1, k)
            /\ Waiting' = SubSeq(Waiting, k + 1, Len(Waiting))
      BY <1>1, <2>2, <2>11, WaitingPublished
    <3>2. emitted' = emitted /\ intact' = intact
      BY <2>11 DEF PublishHead, Settle
    <3>3. Log!Publish
      BY <3>1, <3>2 DEF Log!Publish
    <3>4. QED
      BY <3>3 DEF Log!Next
  <2>12. CASE OpenEmpty \/ OpenPublished \/ OpenTorn
    <3>1. UNCHANGED <<w, pending, delta, emitted, intact>>
      BY <2>12 DEF OpenEmpty, OpenPublished, OpenTorn, Opened
    <3>2. PublishedLines' = PublishedLines
      BY <1>1, <2>1, <2>2, <2>12, GoodOpenEmpty, GoodOpenPublished, GoodOpenTorn
    <3>3. Waiting' = Waiting
      BY <1>1, <3>1, WaitingIs, WaitingNext
    <3>4. QED
      BY <2>5, <3>1, <3>2, <3>3
  <2>13. (\E kind \in Kind : Emit(kind)) => Log!Next
    BY <2>7 DEF Log!Next
  <2>14. QED
    BY <2>6, <2>8, <2>9, <2>10, <2>11, <2>12, <2>13 DEF Next, WriteSteps
<1>4. QED
  BY <1>1, <1>2, <1>3 DEF TypeOK

LEMMA LogStart ==
  ASSUME Init
  PROVE  Log!Init
<1>1. TypeOK
  BY TypesInit
<1>2. PublishedLines = <<>>
  <2>1. headFile.segment = 0 /\ headFile.length = 0
    BY DEF Init, NoHead
  <2>2. QED
    BY <1>1, <2>1, SegsTyped, NothingYet DEF PublishedLines
<1>3. TextOf(<<>>) = <<>>
  BY TextOfLines, EmptySeq
<1>4. Waiting = <<>> \o (<<>> \o <<>>)
  BY <1>1, WaitingIs, Nothing DEF TextHeld, Init
<1>5. Waiting = <<>>
  BY <1>4, Nothing
<1>6. QED
  BY <1>2, <1>3, <1>5 DEF Log!Init, Init

\* The log implements AppendOnlyLog: what is published only grows, by whole
\* batches, oldest event first, and an event that is lost takes every younger
\* one of its process with it (flush, rollOver, close and open in event-log.ts).
THEOREM LogImplements == Spec => ImplementsAppendOnlyLog
<1>1. Init => Log!Init
  BY LogStart
<1>2. LogInv /\ [Next]_vars => [Log!Next]_<<TextOf(PublishedLines), Waiting, emitted, intact>>
  BY LogStep
<1>3. QED
  BY <1>1, <1>2, LogInvariant, PTL DEF Spec, ImplementsAppendOnlyLog, Log!Spec

-----------------------------------------------------------------------------
(***************************************************************************)
(* What a reader relies on: published lines stay.                          *)
(***************************************************************************)
HeadLinesStay ==
  /\ \A n \in 1..(head.segment - 1) : segs'[n] = segs[n]
  /\ Len(segs'[head.segment]) >= head.length
  /\ \A i \in 1..head.length : segs'[head.segment][i] = segs[head.segment][i]

\* What publishing goes on with is not behind what was published.
Onward ==
  /\ headFile' # NoHead /\ headFile'.segment >= headFile.segment
  /\ headFile'.segment = headFile.segment => headFile'.length >= headFile.length

PublishedStay ==
  /\ \A n \in 1..(headFile.segment - 1) : segs'[n] = segs[n]
  /\ Len(segs'[headFile.segment]) >= headFile.length
  /\ \A i \in 1..headFile.length : segs'[headFile.segment][i] = segs[headFile.segment][i]

LEMMA StayTruncate ==
  ASSUME TypeOK, MemoryOK, Good, TruncateSegment
  PROVE  HeadLinesStay
<1> DEFINE s == segs[head.segment]
           t == segs'[head.segment]
           l == head.length
<1>1. up /\ w # Idle
  BY DEF TruncateSegment, MemoryOK, Idle
<1>2. /\ s \in Seq(AnyLine) /\ l \in Nat /\ Len(s) >= l /\ t = Cut(s, l)
      /\ \A n \in Segment : n # head.segment => segs'[n] = segs[n]
  BY <1>1, SegsTyped DEF Good, FilesOK, TruncateSegment, Cut, TypeOK
<1>3. Len(t) = l /\ \A i \in 1..l : t[i] = s[i]
  <2> HIDE DEF s, t, l
  <2>1. Len(s) \in Nat
    BY <1>2, LenProperties
  <2>2. QED
    BY <1>2, <2>1, CutOfLines
<1>4. \A n \in 1..(head.segment - 1) : segs'[n] = segs[n]
  BY <1>2, SegsTyped, SegmentIs
<1>5. QED
  BY <1>2, <1>3, <1>4 DEF HeadLinesStay

LEMMA StayAppend ==
  ASSUME TypeOK, TypeOK', MemoryOK, Good, w # Idle, w.step = "append", NEW part \in Seq(AnyLine),
         segs' = [segs EXCEPT ![w.head.segment] = @ \o part],
         UNCHANGED <<head, headFile, up, restarts, intact>>
  PROVE  HeadLinesStay
BY AppendKeeps DEF HeadLinesStay

LEMMA StayRollOver ==
  ASSUME TypeOK, MemoryOK, Good, RollOver
  PROVE  HeadLinesStay
<1> DEFINE next == w.head.segment + 1
<1>1. w # Idle /\ w.step # "truncate"
  BY DEF RollOver, Idle
<1>2. w.head.segment \in Nat /\ w.head.segment >= head.segment /\ up
  BY <1>1, WriteFacts
<1>3. segs \in Files /\ segs' = [segs EXCEPT ![next] = <<>>]
  BY SegsTyped DEF RollOver
<1>4. head.segment < next /\ \A n \in 1..(head.segment - 1) : n \in Segment /\ n # next
  BY <1>2, SegsTyped, SegmentIs, SMTT(40)
<1>5. head.segment \in Segment /\ head.segment # next
  BY <1>4, SegsTyped
<1> HIDE DEF next
<1>6. segs'[head.segment] = segs[head.segment] /\ \A n \in 1..(head.segment - 1) : segs'[n] = segs[n]
  BY <1>3, <1>4, <1>5 DEF Files
<1>7. Len(segs[head.segment]) >= head.length
  BY <1>2 DEF Good, FilesOK
<1>8. QED
  BY <1>6, <1>7 DEF HeadLinesStay

LEMMA StayFail ==
  ASSUME TypeOK, TypeOK', MemoryOK, Good, FailWrite, intact'
  PROVE  HeadLinesStay /\ UNCHANGED <<headFile, intact>>
<1>1. w # Idle /\ UNCHANGED <<up, head, restarts>> /\ FailedEffect
  BY DEF FailWrite
<1>2. Len(segs[head.segment]) >= head.length
  BY <1>1, WriteFacts DEF Good, FilesOK
<1>3. CASE UNCHANGED <<disk, intact>>
  BY <1>2, <1>3 DEF disk, HeadLinesStay
<1>4. CASE /\ w.step = "append"
           /\ \E part \in Partial(SubSeq(w.lines, 1, Fitting)) :
                segs' = [segs EXCEPT ![w.head.segment] = @ \o part]
           /\ UNCHANGED <<headFile, intact>>
  <2>1. PICK part \in Partial(Fit) : segs' = [segs EXCEPT ![w.head.segment] = @ \o part]
    BY <1>4 DEF Fit
  <2>2. part \in Seq(AnyLine)
    BY <1>1, <2>1, FittingLines, PartialTyped DEF Lines
  <2>3. QED
    BY <1>1, <1>4, <2>1, <2>2, StayAppend
<1>5. QED
  BY <1>1, <1>3, <1>4 DEF FailedEffect

LEMMA StayOpen ==
  ASSUME TypeOK, TypeOK', MemoryOK, Good, OpenPublished
  PROVE  PublishedStay /\ headFile' = headFile
<1> DEFINE at == headFile.segment
           l == headFile.length
           s == segs[headFile.segment]
           t == segs'[headFile.segment]
<1>1. headFile # NoHead /\ headFile' = headFile /\ Len(s) >= l
  BY DEF OpenPublished
<1>2. at \in Segment /\ at \in Nat /\ l \in Nat /\ s \in Seq(AnyLine) /\ Len(s) \in Nat /\ segs \in Files
  BY <1>1, SegsTyped
<1>3. SubSeq(s, 1, l) = Cut(s, l)
  <2> HIDE DEF s, l
  <2>1. Min({Len(s), l}) = l
    BY <1>1, <1>2, MinOfTwo
  <2>2. QED
    BY <2>1 DEF Cut
<1>4. t = Cut(s, l) /\ \A n \in Segment : n # at => segs'[n] = segs[n]
  <2>1. segs' = [segs EXCEPT ![at] = Cut(s, l)]
    BY <1>3 DEF OpenPublished
  <2> HIDE DEF s, l
  <2>2. QED
    BY <1>2, <2>1 DEF Files
<1>5. Len(t) = l /\ \A i \in 1..l : t[i] = s[i]
  <2> HIDE DEF s, l, t
  <2>1. QED
    BY <1>1, <1>2, <1>4, CutOfLines
<1>6. \A n \in 1..(at - 1) : segs'[n] = segs[n]
  <2>1. \A n \in 1..(at - 1) : n \in Segment /\ n # at
    BY <1>2, SegmentIs
  <2> HIDE DEF at
  <2>2. QED
    BY <1>4, <2>1
<1>7. QED
  BY <1>1, <1>2, <1>5, <1>6 DEF PublishedStay

\* While the mount is intact no step changes a line that is published.
LEMMA PublishedLinesStay ==
  ASSUME TypeOK, TypeOK', MemoryOK, Good, intact, intact', headFile # NoHead, [Next]_vars
  PROVE  PublishedStay /\ Onward
<1>1. Len(segs[headFile.segment]) >= headFile.length
  BY DEF Good, FilesOK
<1>2. ASSUME segs' = segs PROVE PublishedStay
  BY <1>1, <1>2 DEF PublishedStay
<1>3. ASSUME headFile' = headFile PROVE Onward
  BY <1>3, SegsTyped DEF Onward
<1>4. ASSUME up, HeadLinesStay PROVE PublishedStay
  BY <1>4 DEF Good, FilesOK, HeadLinesStay, PublishedStay
<1>5. CASE UNCHANGED vars
  BY <1>2, <1>3, <1>5 DEF vars, disk
<1>6. CASE (\E kind \in Kind : Emit(kind)) \/ TimerSteps \/ Flush \/ Close \/ BeginWrite \/ SkipWrite
  BY <1>2, <1>3, <1>6 DEF TimerSteps, DeltaTimerFires, FlushTimerFires, RetryTimerFires, Flush, Close, Emit,
                          BeginWrite, SkipWrite, disk
<1>7. CASE TruncateSegment
  <2>1. up /\ headFile' = headFile
    BY <1>7 DEF TruncateSegment, MemoryOK, Idle
  <2>2. QED
    BY <1>3, <1>4, <1>7, <2>1, StayTruncate
<1>8. CASE AppendLines
  <2>1. /\ w # Idle /\ w.step = "append" /\ up /\ UNCHANGED <<head, headFile, up, restarts, intact>>
        /\ segs' = [segs EXCEPT ![w.head.segment] = @ \o Fit]
    BY <1>8 DEF AppendLines, Fit, Idle, MemoryOK
  <2>2. Fit \in Seq(AnyLine)
    BY <2>1, FittingLines, LinesAreLines DEF Lines
  <2>3. QED
    BY <1>3, <1>4, <2>1, <2>2, StayAppend
<1>9. CASE RollOver
  <2>1. up /\ headFile' = headFile
    BY <1>9 DEF RollOver, MemoryOK, Idle
  <2>2. QED
    BY <1>3, <1>4, <1>9, <2>1, StayRollOver
<1>10. CASE PublishHead
  <2>1. /\ w # Idle /\ segs' = segs /\ headFile' = w.head
    BY <1>10 DEF PublishHead, Idle
  <2>2. /\ up /\ w.head.segment \in Segment /\ w.head.segment >= head.segment
        /\ w.head.segment = head.segment => w.head.length >= head.length
    BY <2>1, WriteFacts
  <2>3. head = headFile
    BY <2>2 DEF Good, FilesOK
  <2>4. w.head # NoHead
    BY <2>2, SegmentIs DEF NoHead
  <2>5. Onward
    BY <2>1, <2>2, <2>3, <2>4 DEF Onward
  <2>6. QED
    BY <1>2, <2>1, <2>5
<1>11. CASE FailWrite
  <2>1. up
    BY <1>11 DEF FailWrite, MemoryOK
  <2>2. QED
    BY <1>3, <1>4, <1>11, <2>1, StayFail
<1>12. CASE Crash
  BY <1>2, <1>3, <1>12 DEF Crash
<1>13. CASE OpenEmpty \/ OpenTorn
  BY <1>13, GoodOpenTorn DEF OpenEmpty, Reliable
<1>14. CASE OpenPublished
  BY <1>3, <1>14, StayOpen
<1>15. QED
  BY <1>5, <1>6, <1>7, <1>8, <1>9, <1>10, <1>11, <1>12, <1>13, <1>14 DEF Next, WriteSteps

-----------------------------------------------------------------------------
(***************************************************************************)
(* The reader.                                                             *)
(***************************************************************************)

\* A cursor is within what is published, of the segment it is in.
CursorOK ==
  /\ cursor.segment \in 0..MaxSegment /\ cursor.offset \in Nat
  /\ cursor.segment = 0 => cursor.offset = 0
  /\ cursor.segment # 0 =>
       /\ headFile # NoHead /\ cursor.segment <= headFile.segment
       /\ cursor.segment = headFile.segment => cursor.offset <= headFile.length
       /\ cursor.offset <= Len(segs[cursor.segment])

\* The reader has handled what its cursor is past, and knows the last number.
ReaderOK ==
  intact => CursorOK /\ lastSeq = Len(Passed) /\ seen = TextOf(Passed)

LEMMA ReaderInit ==
  ASSUME StreamInit
  PROVE  ReaderOK
<1>1. TypeOK
  BY TypesInit DEF StreamInit
<1>2. cursor.segment = 0 /\ cursor.offset = 0 /\ lastSeq = 0 /\ seen = <<>>
  BY DEF StreamInit
<1>3. Passed = <<>>
  BY <1>1, <1>2, SegsTyped, NothingYet DEF Passed
<1>4. TextOf(<<>>) = <<>>
  BY TextOfLines, EmptySeq
<1>5. CursorOK
  BY <1>2, SegmentIs DEF CursorOK
<1>6. QED
  BY <1>2, <1>3, <1>4, <1>5, EmptySeq DEF ReaderOK

\* What the log does leaves a reader where it is.
LEMMA ReaderKept ==
  ASSUME LogInv, LogInv', ReaderOK, [Next]_vars, UNCHANGED streamVars
  PROVE  ReaderOK'
<1> DEFINE at == cursor.segment
           o == cursor.offset
<1>1. SUFFICES ASSUME intact' PROVE ReaderOK'
  BY DEF ReaderOK
<1>2. TypeOK /\ TypeOK' /\ MemoryOK
  BY DEF LogInv
<1>3. intact /\ Good
  <2>1. Reliable
    BY <1>1, <1>2, ReliableBefore DEF Reliable
  <2>2. intact
    BY <1>1, <1>2, IntactBefore
  <2>3. QED
    BY <2>1, <2>2 DEF LogInv
<1>4. CursorOK /\ lastSeq = Len(Passed) /\ seen = TextOf(Passed)
  BY <1>3 DEF ReaderOK
<1>5. cursor' = cursor /\ lastSeq' = lastSeq /\ seen' = seen
  BY DEF streamVars
<1>6. at \in 0..MaxSegment /\ o \in Nat /\ segs \in Files /\ segs' \in Files
  <2>1. segs' \in Files
    BY <1>2 DEF TypeOK, Files, Lines, AnyLine
  <2>2. QED
    BY <1>2, <1>4, <2>1, SegsTyped DEF CursorOK
<1>7. CursorOK' /\ LinesTo(segs', at, o) = LinesTo(segs, at, o)
  <2>1. CASE at = 0
    <3>1. LinesTo(segs', at, o) = LinesTo(segs, at, o)
      BY <1>6, <2>1, NothingYet
    <3>2. QED
      BY <1>4, <1>5, <2>1, <3>1 DEF CursorOK
  <2>2. CASE at # 0
    <3> DEFINE hs == headFile.segment
               hl == headFile.length
               s == segs[cursor.segment]
               t == segs'[cursor.segment]
    <3>1. /\ headFile # NoHead /\ at <= hs /\ (at = hs => o <= hl) /\ o <= Len(s)
          /\ at \in Segment /\ at \in Nat /\ hs \in Nat /\ hl \in Nat
      BY <1>2, <1>4, <1>6, <2>2, SegsTyped, SegmentIs DEF CursorOK
    <3>2. PublishedStay /\ Onward
      BY <1>1, <1>2, <1>3, <3>1, PublishedLinesStay
    <3>3. s \in Seq(AnyLine) /\ t \in Seq(AnyLine) /\ Len(s) \in Nat /\ Len(t) \in Nat
      <4>1. s \in Seq(AnyLine) /\ t \in Seq(AnyLine)
        BY <1>6, <3>1 DEF Files, Lines
      <4> HIDE DEF s, t
      <4>2. QED
        BY <4>1, LenProperties
    <3>4. \A n \in 1..(at - 1) : segs'[n] = segs[n]
      BY <3>1, <3>2 DEF PublishedStay
    <3>5. o <= Len(t) /\ \A i \in 1..o : t[i] = s[i]
      <4>1. CASE at = hs
        <5>1. Len(t) >= hl /\ \A i \in 1..hl : t[i] = s[i]
          BY <3>2, <4>1 DEF PublishedStay
        <5> HIDE DEF s, t, hl, o
        <5>2. QED
          BY <1>6, <3>1, <3>3, <4>1, <5>1
      <4>2. CASE at # hs
        <5>1. t = s
          BY <3>1, <3>2, <4>2, SegmentIs DEF PublishedStay
        <5>2. QED
          BY <3>1, <5>1
      <4>3. QED
        BY <4>1, <4>2
    <3>6. Cut(t, o) = Cut(s, o)
      <4> HIDE DEF s, t, o
      <4>1. QED
        BY <1>6, <3>1, <3>3, <3>5, CutOfMore
    <3>7. LinesTo(segs', at, o) = LinesTo(segs, at, o)
      BY <1>6, <3>4, <3>6, LinesToSame
    <3>8. CursorOK'
      <4> DEFINE gs == headFile'.segment
                 gl == headFile'.length
      <4>1. headFile' # NoHead /\ gs \in Nat /\ gl \in Nat /\ gs >= hs /\ (gs = hs => gl >= hl)
        <5>1. headFile' # NoHead /\ gs >= hs /\ (gs = hs => gl >= hl)
          BY <3>2 DEF Onward
        <5>2. gs \in Nat /\ gl \in Nat
          <6>1. headFile' \in HeadFile
            BY <1>2, <5>1 DEF TypeOK
          <6>2. gs \in Segment /\ gl \in 0..SegmentMax
            BY <6>1 DEF HeadFile
          <6>3. QED
            BY <6>2, SegmentIs
        <5>3. QED
          BY <5>1, <5>2
      <4>2. at <= gs /\ (at = gs => o <= gl)
        <5> HIDE DEF gs, gl, hs, hl, at, o
        <5>1. QED
          BY <1>6, <3>1, <4>1
      <4>3. QED
        BY <1>5, <1>6, <2>2, <3>5, <4>1, <4>2 DEF CursorOK
    <3>9. QED
      BY <3>7, <3>8
  <2>3. QED
    BY <2>1, <2>2
<1>8. Passed' = Passed
  BY <1>5, <1>7 DEF Passed
<1>9. QED
  BY <1>4, <1>5, <1>7, <1>8 DEF ReaderOK

LEMMA GreatestIs ==
  ASSUME NEW T, NEW m \in T, \A y \in T : y \in Int /\ y <= m
  PROVE  Max(T) = m
<1>1. \A y \in T : m >= y
  OBVIOUS
<1>2. \A x \in T : (\A y \in T : x >= y) => x = m
  OBVIOUS
<1>3. QED
  BY <1>1, <1>2 DEF Max

LEMMA MaxOfTwo ==
  ASSUME NEW a \in Nat, NEW b \in Nat
  PROVE  Max({a, b}) = IF a >= b THEN a ELSE b
<1> DEFINE m == IF a >= b THEN a ELSE b
<1>1. m \in {a, b} /\ \A y \in {a, b} : y \in Int /\ y <= m
  OBVIOUS
<1> HIDE DEF m
<1>2. Max({a, b}) = m
  BY <1>1, GreatestIs
<1>3. QED
  BY <1>2 DEF m

\* Lines numbered above the last one seen are all fresh.
LEMMA AllFresh ==
  ASSUME NEW s \in Seq(AnyLine), \A i \in 1..Len(s) : s[i].seq > lastSeq
  PROVE  Fresh(s) = s
<1> DEFINE m == [i \in DOMAIN s |-> IF s[i].seq > lastSeq THEN <<s[i]>> ELSE <<>>]
           n == Len(s)
<1>1. n \in Nat /\ DOMAIN s = 1..n /\ \A i \in 1..n : s[i] \in AnyLine
  BY ElementOfSeq, LenProperties
<1>2. \A i \in 1..n : m[i] = <<s[i]>>
  BY <1>1
<1>3. \A i \in 1..n : <<s[i]>> \in Seq(AnyLine)
  BY <1>1
<1>4. m \in Seq(Seq(AnyLine)) /\ Len(m) = n
  <2>1. m = [i \in 1..n |-> IF s[i].seq > lastSeq THEN <<s[i]>> ELSE <<>>]
    BY <1>1
  <2>2. \A i \in 1..n : (IF s[i].seq > lastSeq THEN <<s[i]>> ELSE <<>>) \in Seq(AnyLine)
    BY <1>3
  <2> HIDE DEF n
  <2>3. QED
    BY <1>1, <2>1, <2>2
<1>5. Fresh(s) = FlattenSeq(m)
  BY DEF Fresh
<1> HIDE DEF m
<1>6. QED
  BY <1>2, <1>4, <1>5, FlattenUnits

\* A segment's lines up to one place and on to another.
LEMMA CutFurther ==
  ASSUME NEW S, NEW s \in Seq(S), NEW o \in Nat, NEW e \in Nat, o <= e, e <= Len(s)
  PROVE  /\ Cut(s, e) = Cut(s, o) \o SubSeq(s, o + 1, e)
         /\ Cut(s, o) \in Seq(S) /\ SubSeq(s, o + 1, e) \in Seq(S) /\ Cut(s, e) \in Seq(S)
<1>1. Len(s) \in Nat /\ o <= Len(s)
  BY LenProperties
<1>2. Cut(s, o) = SubSeq(s, 1, o) /\ Cut(s, e) = SubSeq(s, 1, e)
  <2>1. Min({Len(s), o}) = o /\ Min({Len(s), e}) = e
    BY <1>1, MinOfTwo
  <2>2. QED
    BY <2>1 DEF Cut
<1>3. SubSeq(s, 1, o) \o SubSeq(s, o + 1, e) = SubSeq(s, 1, e)
  <2>1. 1 \in 1..Len(s) + 1 /\ o \in (1 - 1)..Len(s) /\ e \in o..Len(s)
    BY <1>1
  <2>2. QED
    BY <2>1, ConcatAdjacentSubSeq
<1>4. Cut(s, o) \in Seq(S) /\ Cut(s, e) \in Seq(S)
  BY CutOfLines
<1>5. SubSeq(s, o + 1, e) \in Seq(S)
  <2>1. \A i \in (o + 1)..e : s[i] \in S
    BY <1>1, ElementOfSeq
  <2>2. o + 1 \in Nat
    OBVIOUS
  <2>3. QED
    BY <2>1, <2>2, SubSeqProperties
<1>6. QED
  BY <1>2, <1>3, <1>4, <1>5

\* What the lines read next are: the published lines behind the cursor.
Chunk == SubSeq(segs[Reading], cursor.offset + 1, ReadableEnd)

LEMMA ReadingIs ==
  ASSUME TypeOK, Good, intact, CursorOK, headFile # NoHead, Reading <= headFile.segment
  PROVE  /\ Reading \in Segment /\ Reading \in Nat
         /\ segs[Reading] \in Seq(AnyLine) /\ Len(segs[Reading]) \in Nat
         /\ ReadableEnd \in Nat /\ cursor.offset <= ReadableEnd /\ ReadableEnd <= Len(segs[Reading])
         /\ Reading < headFile.segment => ReadableEnd = Len(segs[Reading])
         /\ ~(Reading < headFile.segment) =>
              Reading = headFile.segment /\ ReadableEnd = headFile.length
         /\ Passed = LinesTo(segs, Reading, cursor.offset)
<1> DEFINE at == cursor.segment
           o == cursor.offset
           r == Reading
           e == ReadableEnd
           hs == headFile.segment
           hl == headFile.length
<1>1. at \in Nat /\ o \in Nat /\ hs \in Segment /\ hs \in Nat /\ hl \in Nat /\ segs \in Files /\ at \in 0..MaxSegment
  BY SegsTyped, SegmentIs DEF CursorOK
<1>2. r = IF at >= 1 THEN at ELSE 1
  BY <1>1, MaxOfTwo DEF Reading
<1>3. r \in Segment /\ r \in Nat /\ r <= hs
  BY <1>1, <1>2, SegmentIs
<1>4. segs[r] \in Seq(AnyLine) /\ Len(segs[r]) \in Nat
  <2> HIDE DEF r
  <2>1. segs[r] \in Seq(AnyLine)
    BY <1>1, <1>3 DEF Files, Lines
  <2>2. QED
    BY <2>1, LenProperties
<1>5. o <= Len(segs[r]) /\ (r = hs => o <= hl)
  <2>1. CASE at = 0
    <3>1. o = 0
      BY <2>1 DEF CursorOK
    <3> HIDE DEF r, o, hl
    <3>2. QED
      BY <1>1, <1>4, <3>1
  <2>2. CASE at # 0
    <3>1. r = at
      BY <1>1, <1>2, <2>2
    <3>2. o <= Len(segs[at]) /\ (at = hs => o <= hl)
      BY <2>2 DEF CursorOK
    <3>3. QED
      BY <3>1, <3>2
  <2>3. QED
    BY <2>1, <2>2
<1>6. Len(segs[hs]) >= hl
  BY DEF Good, FilesOK
<1>7. e = IF r < hs THEN Len(segs[r]) ELSE Min({Len(segs[r]), hl})
  BY DEF ReadableEnd
<1>8. Passed = LinesTo(segs, r, o)
  <2>1. CASE at = 0
    <3>1. r = 1 /\ o = 0
      BY <1>1, <1>2, <2>1 DEF CursorOK
    <3>2. QED
      BY <1>1, <2>1, <3>1, NothingYet DEF Passed
  <2>2. CASE at # 0
    <3>1. r = at
      BY <1>1, <1>2, <2>2
    <3>2. QED
      BY <3>1 DEF Passed
  <2>3. QED
    BY <2>1, <2>2
<1>9. /\ e \in Nat /\ o <= e /\ e <= Len(segs[r])
      /\ r < hs => e = Len(segs[r])
      /\ ~(r < hs) => r = hs /\ e = hl
  <2> HIDE DEF r, e, o, hs, hl
  <2>1. CASE r < hs
    BY <1>1, <1>3, <1>4, <1>5, <1>7, <2>1
  <2>2. CASE ~(r < hs)
    <3>1. r = hs
      BY <1>1, <1>3, <2>2
    <3>2. Min({Len(segs[r]), hl}) = hl
      <4>1. Len(segs[r]) >= hl
        BY <1>6, <3>1
      <4> DEFINE n == Len(segs[r])
      <4> HIDE DEF n
      <4>2. n \in Nat /\ n >= hl
        BY <1>4, <4>1 DEF n
      <4>3. Min({n, hl}) = hl
        BY <1>1, <4>2, MinOfTwo
      <4>4. QED
        BY <4>3 DEF n
    <3>3. QED
      BY <1>1, <1>4, <1>5, <1>6, <1>7, <2>2, <3>1, <3>2
  <2>3. QED
    BY <2>1, <2>2
<1>10. QED
  BY <1>1, <1>3, <1>4, <1>8, <1>9

\* The lines up to a place within what is published are numbered from 1.
LEMMA PublishedUpTo ==
  ASSUME TypeOK, Good, headFile # NoHead, NEW r \in Segment, NEW e \in Nat, e <= Len(segs[r]),
         \/ r < headFile.segment /\ e = Len(segs[r])
         \/ r = headFile.segment /\ e = headFile.length
  PROVE  /\ \A i \in 1..Len(LinesTo(segs, r, e)) : LinesTo(segs, r, e)[i].seq = i
         /\ LinesTo(segs, r, e) = Before(segs, r - 1) \o Cut(segs[r], e)
         /\ r < headFile.segment => LinesTo(segs, r, e) = Before(segs, r)
<1> DEFINE P == PublishedLines
           n == LinesTo(segs, r, e)
           s == segs[r]
<1>1. segs \in Files /\ s \in Seq(AnyLine) /\ r \in Nat /\ headFile.segment \in Segment /\ headFile.segment \in Nat
  BY SegsTyped, SegmentIs
<1>2. n = Before(segs, r - 1) \o Cut(s, e)
  BY <1>1, LinesToIs
<1>3. P \in Seq(AnyLine) /\ \A i \in 1..Len(P) : P[i].seq = i
  <2>1. P \in Seq(AnyLine)
    BY PublishedTyped
  <2>2. DOMAIN P = 1..Len(P)
    BY <2>1, LenProperties
  <2>3. QED
    BY <2>1, <2>2 DEF Good, NumbersOK
<1>4. CASE r = headFile.segment /\ e = headFile.length
  <2>1. n = P
    BY <1>4 DEF PublishedLines
  <2> HIDE DEF P, n
  <2>2. QED
    BY <1>1, <1>2, <1>3, <1>4, <2>1, SMTT(40) DEF n
<1>5. CASE r < headFile.segment /\ e = Len(s)
  <2> DEFINE h == headFile.segment - 1
             b == Before(segs, headFile.segment - 1)
             c == Cut(segs[headFile.segment], headFile.length)
  <2>1. n = Before(segs, r)
    <3>1. Cut(s, e) = s
      <4> HIDE DEF s
      <4>1. Len(s) <= e
        BY <1>1, <1>5
      <4>2. QED
        BY <1>1, <4>1, CutOfLines
    <3>2. QED
      BY <1>1, <1>2, <3>1, BeforeNext
  <2>2. P = b \o c /\ b \in Seq(AnyLine) /\ c \in Seq(AnyLine)
    <3>1. P = b \o c
      BY <1>1, SegsTyped, LinesToIs DEF PublishedLines
    <3>2. b \in Seq(AnyLine)
      BY <1>1, BeforeNext DEF Lines
    <3>3. segs[headFile.segment] \in Seq(AnyLine) /\ headFile.length \in Nat
      BY <1>1, SegsTyped
    <3>4. c \in Seq(AnyLine)
      BY <3>3, CutOfLines
    <3>5. QED
      BY <3>1, <3>2, <3>4
  <2>3. h \in r..MaxSegment
    BY <1>1, <1>5, SegmentIs
  <2>4. Len(Before(segs, r)) <= Len(b) /\ \A i \in 1..Len(Before(segs, r)) : b[i] = Before(segs, r)[i]
    BY <1>1, <2>3, BeforeHas
  <2>5. n \in Seq(AnyLine)
    <3>1. Before(segs, r) \in Seq(AnyLine)
      BY <1>1, BeforeNext DEF Lines
    <3>2. QED
      BY <2>1, <3>1
  <2> HIDE DEF P, n, b, c
  <2>6. Len(n) \in Nat /\ Len(n) <= Len(b) /\ \A i \in 1..Len(n) : b[i] = n[i]
    BY <2>1, <2>4, <2>5, LenProperties
  <2>7. /\ Len(b) \in Nat /\ Len(c) \in Nat /\ Len(P) = Len(b) + Len(c)
        /\ \A i \in 1..(Len(b) + Len(c)) : i <= Len(b) => P[i] = b[i]
    BY <2>2, ConcatProperties, LenProperties
  <2>8. ASSUME NEW i \in 1..Len(n) PROVE n[i].seq = i
    <3>1. i \in 1..(Len(b) + Len(c)) /\ i <= Len(b) /\ i \in 1..Len(P)
      BY <2>6, <2>7
    <3>2. P[i] = n[i]
      BY <2>6, <2>7, <3>1
    <3>3. QED
      BY <1>3, <3>1, <3>2
  <2>9. QED
    BY <1>2, <2>1, <2>8 DEF n
<1>6. QED
  BY <1>4, <1>5

\* A response brings lines the reader has not seen, and all of them.
LEMMA ReaderPolls ==
  ASSUME LogInv, ReaderOK, Poll
  PROVE  ReaderOK'
<1> DEFINE o == cursor.offset
           r == Reading
           e == ReadableEnd
           hs == headFile.segment
           P == Passed
           c == Chunk
           n == LinesTo(segs, Reading, ReadableEnd)
<1>1. SUFFICES ASSUME intact' PROVE ReaderOK'
  BY DEF ReaderOK
<1>2. /\ intact /\ UNCHANGED <<segs, headFile, intact>> /\ headFile # NoHead /\ r <= hs
  BY <1>1 DEF Poll, vars, disk
<1>3. TypeOK /\ Good
  BY <1>2 DEF LogInv, Reliable
<1>4. CursorOK /\ lastSeq = Len(P) /\ seen = TextOf(P)
  BY <1>2 DEF ReaderOK
<1>5. /\ r \in Segment /\ r \in Nat /\ segs[r] \in Seq(AnyLine) /\ Len(segs[r]) \in Nat
      /\ e \in Nat /\ o <= e /\ e <= Len(segs[r]) /\ o \in Nat /\ segs \in Files
      /\ hs \in Nat /\ hs <= MaxSegment
      /\ r < hs => e = Len(segs[r])
      /\ ~(r < hs) => r = hs /\ e = headFile.length
      /\ P = LinesTo(segs, r, o)
  <2>1. o \in Nat /\ segs \in Files /\ hs \in Nat /\ hs <= MaxSegment
    BY <1>3, <1>4, SegsTyped, SegmentIs DEF CursorOK
  <2>2. QED
    BY <1>2, <1>3, <1>4, <2>1, ReadingIs
<1>6. /\ \A i \in 1..Len(n) : n[i].seq = i
      /\ n = Before(segs, r - 1) \o Cut(segs[r], e)
      /\ r < hs => n = Before(segs, r)
  BY <1>2, <1>3, <1>5, PublishedUpTo
<1>7. n = P \o c /\ P \in Seq(AnyLine) /\ c \in Seq(AnyLine)
  <2> DEFINE b == Before(segs, r - 1)
             s == segs[r]
             x == Cut(s, o)
  <2>1. b \in Seq(AnyLine)
    BY <1>5, BeforeNext DEF Lines
  <2>2. Cut(s, e) = x \o c /\ x \in Seq(AnyLine) /\ c \in Seq(AnyLine)
    BY <1>5, CutFurther DEF Chunk
  <2>3. P = b \o x
    BY <1>5, LinesToIs
  <2>4. n = b \o Cut(s, e)
    BY <1>6
  <2> HIDE DEF b, x, c, P, n, s
  <2>5. (b \o x) \o c = b \o (x \o c)
    <3>1. b \in Seq(AnyLine) /\ x \in Seq(AnyLine) /\ c \in Seq(AnyLine)
      BY <2>1, <2>2
    <3>2. QED
      BY <3>1, ConcatAssociative
  <2>6. b \o x \in Seq(AnyLine)
    BY <2>1, <2>2, ConcatProperties
  <2>7. QED
    BY <2>2, <2>3, <2>4, <2>5, <2>6
<1> HIDE DEF P, n, c
<1>8. /\ Len(P) \in Nat /\ Len(c) \in Nat /\ Len(n) = Len(P) + Len(c)
      /\ \A i \in 1..(Len(P) + Len(c)) : n[i] = IF i <= Len(P) THEN P[i] ELSE c[i - Len(P)]
  BY <1>7, ConcatProperties, LenProperties
<1>9. \A i \in 1..Len(c) : c[i].seq = Len(P) + i
  <2>1. TAKE i \in 1..Len(c)
  <2> DEFINE j == Len(P) + i
  <2>2. j \in 1..(Len(P) + Len(c)) /\ ~(j <= Len(P)) /\ j - Len(P) = i /\ j \in 1..Len(n)
    BY <1>8
  <2> HIDE DEF j
  <2>3. n[j] = c[j - Len(P)] /\ n[j].seq = j
    BY <1>6, <1>8, <2>2
  <2>4. QED
    BY <2>2, <2>3 DEF j
<1>10. Fresh(c) = c
  <2>1. \A i \in 1..Len(c) : c[i].seq > lastSeq
    BY <1>4, <1>8, <1>9
  <2>2. QED
    BY <1>7, <2>1, AllFresh
<1>11. /\ seen' = seen \o TextOf(c)
       /\ lastSeq' = Max({lastSeq} \cup {c[i].seq : i \in DOMAIN c})
       /\ cursor' = IF r < hs THEN [segment |-> r + 1, offset |-> 0]
                    ELSE [segment |-> r, offset |-> Max({o, e})]
  <2>1. /\ seen' = seen \o TextOf(Fresh(c))
        /\ lastSeq' = Max({lastSeq} \cup {Fresh(c)[i].seq : i \in DOMAIN Fresh(c)})
        /\ cursor' = IF r < hs THEN [segment |-> r + 1, offset |-> 0]
                     ELSE [segment |-> r, offset |-> Max({o, e})]
    BY DEF Poll, c, Chunk
  <2>2. QED
    BY <1>10, <2>1
<1>12. lastSeq' = Len(n)
  <2> DEFINE T == {lastSeq} \cup {c[i].seq : i \in DOMAIN c}
  <2>1. DOMAIN c = 1..Len(c)
    BY <1>7, LenProperties
  <2>2. Len(n) \in T
    <3>1. CASE Len(c) = 0
      BY <1>4, <1>8, <3>1
    <3>2. CASE Len(c) # 0
      <4> DEFINE l == Len(c)
      <4>1. l \in 1..Len(c) /\ c[l].seq = Len(P) + l
        BY <1>8, <1>9, <3>2
      <4>2. c[l].seq = Len(n)
        BY <1>8, <4>1
      <4> HIDE DEF l
      <4>3. QED
        BY <2>1, <4>1, <4>2
    <3>3. QED
      BY <3>1, <3>2
  <2>3. ASSUME NEW y \in T PROVE y \in Int /\ y <= Len(n)
    <3>1. CASE y = lastSeq
      BY <1>4, <1>8, <3>1
    <3>2. CASE \E i \in DOMAIN c : y = c[i].seq
      <4>1. PICK i \in 1..Len(c) : y = c[i].seq
        BY <2>1, <3>2
      <4>2. y = Len(P) + i
        BY <1>9, <4>1
      <4>3. QED
        BY <1>8, <4>2
    <3>3. QED
      BY <3>1, <3>2
  <2> HIDE DEF T
  <2>4. Max(T) = Len(n)
    BY <2>2, <2>3, GreatestIs
  <2>5. QED
    BY <1>11, <2>4 DEF T
<1>13. seen' = TextOf(n)
  BY <1>4, <1>7, <1>11, TextOfLines
<1>14. Passed' = n /\ CursorOK'
  <2>1. CASE r < hs
    <3> DEFINE next == r + 1
    <3>1. next \in Segment /\ next \in Nat /\ next - 1 = r /\ next <= hs /\ next # 0
      BY <1>5, <2>1, SegmentIs
    <3> HIDE DEF next
    <3>2. cursor'.segment = next /\ cursor'.offset = 0
      BY <1>11, <2>1 DEF next
    <3>3. LinesTo(segs, next, 0) = Before(segs, r) \o Cut(segs[next], 0)
      <4>1. \A k \in Segment : LinesTo(segs, k, 0) = Before(segs, k - 1) \o Cut(segs[k], 0)
        BY <1>5, LinesToIs
      <4>2. QED
        BY <3>1, <4>1
    <3>4. segs[next] \in Seq(AnyLine) /\ Len(segs[next]) \in Nat
      BY <1>3, <3>1, SegsTyped
    <3>5. Cut(segs[next], 0) = <<>>
      <4>1. Cut(segs[next], 0) \in Seq(AnyLine) /\ Len(Cut(segs[next], 0)) = 0
        BY <3>4, CutOfLines
      <4>2. QED
        BY <4>1, EmptySeq
    <3>6. Before(segs, r) \in Seq(AnyLine)
      BY <1>5, BeforeNext DEF Lines
    <3>7. LinesTo(segs, next, 0) = n
      BY <1>6, <2>1, <3>3, <3>5, <3>6, ConcatEmptySeq
    <3>8. Passed' = n
      BY <1>2, <3>2, <3>7 DEF Passed
    <3>9. CursorOK'
      <4>1. headFile.length \in Nat /\ next \in 0..MaxSegment
        BY <1>3, <3>1, SegsTyped, SegmentIs
      <4>2. QED
        BY <1>2, <3>1, <3>2, <3>4, <4>1 DEF CursorOK
    <3>10. QED
      BY <3>8, <3>9
  <2>2. CASE ~(r < hs)
    <3>1. Max({o, e}) = e
      <4> HIDE DEF o, e
      <4>1. Max({o, e}) = IF o >= e THEN o ELSE e
        BY <1>5, MaxOfTwo
      <4>2. QED
        BY <1>5, <4>1
    <3>2. cursor'.segment = r /\ cursor'.offset = e
      BY <1>11, <2>2, <3>1
    <3>3. Passed' = n
      BY <1>2, <3>2 DEF Passed, n
    <3>4. CursorOK'
      <4>1. r \in 0..MaxSegment /\ r # 0 /\ r = hs /\ e = headFile.length
        BY <1>5, <2>2, SegmentIs
      <4> HIDE DEF r, e
      <4>2. QED
        BY <1>2, <1>5, <3>2, <4>1 DEF CursorOK
    <3>5. QED
      BY <3>3, <3>4
  <2>3. QED
    BY <2>1, <2>2
<1>15. QED
  BY <1>12, <1>13, <1>14 DEF ReaderOK

LEMMA StreamStart ==
  ASSUME StreamInit
  PROVE  LogInv /\ ReaderOK
BY LogInvInit, ReaderInit DEF StreamInit

LEMMA StreamKept ==
  ASSUME LogInv, ReaderOK, [StreamNext]_<<vars, streamVars>>
  PROVE  LogInv' /\ ReaderOK'
<1>1. [Next]_vars
  BY DEF StreamNext, Poll
<1>2. LogInv'
  BY <1>1, LogInvKept
<1>3. CASE Poll
  BY <1>2, <1>3, ReaderPolls
<1>4. CASE ~Poll
  <2>1. UNCHANGED streamVars
    BY <1>4 DEF StreamNext
  <2>2. QED
    BY <1>1, <1>2, <2>1, ReaderKept
<1>5. QED
  BY <1>2, <1>3, <1>4

\* The reader has handled exactly the lines its cursor is past, each once and
\* in order, as long as the mount is intact: no line behind its cursor is
\* rewritten and no number is given out twice, by whatever process (event-log.ts:
\* "no reader's offset into this one is ever reused"; cloud-session-manager.ts
\* skips what it has the number of).
THEOREM ReaderSees == StreamSpec => []ReaderSeesTheLog
<1>1. ReaderOK => ReaderSeesTheLog
  BY DEF ReaderOK, ReaderSeesTheLog
<1>2. QED
  BY <1>1, StreamStart, StreamKept, PTL DEF StreamSpec

-----------------------------------------------------------------------------
(***************************************************************************)
(* The order of what is published and read: tokens are numbered in the     *)
(* order they were emitted.                                                *)
(***************************************************************************)
InOrder(s) == \A i, j \in 1..Len(s) : i < j => s[i] < s[j]
UpToNumber(s, n) == \A i \in 1..Len(s) : s[i] <= n

\* Part of a sequence in order, from its start, is in order.
LEMMA InOrderPart ==
  ASSUME NEW s \in Seq(Token), NEW t \in Seq(Token), NEW n, InOrder(s \o t), UpToNumber(s \o t, n)
  PROVE  InOrder(s) /\ UpToNumber(s, n)
<1> DEFINE c == s \o t
<1>1. /\ Len(s) \in Nat /\ Len(t) \in Nat /\ Len(c) = Len(s) + Len(t)
      /\ \A i \in 1..(Len(s) + Len(t)) : i <= Len(s) => c[i] = s[i]
  BY ConcatProperties, LenProperties
<1>2. InOrder(c) /\ UpToNumber(c, n)
  OBVIOUS
<1> HIDE DEF c
<1>3. \A i \in 1..Len(s) : i \in 1..Len(c) /\ c[i] = s[i]
  BY <1>1
<1>4. QED
  BY <1>2, <1>3 DEF InOrder, UpToNumber

\* A sequence in order stays so when the next number joins it.
LEMMA InOrderNext ==
  ASSUME NEW s \in Seq(Token), NEW n \in Nat, InOrder(s), UpToNumber(s, n), n + 1 \in Token
  PROVE  InOrder(s \o <<n + 1>>) /\ UpToNumber(s \o <<n + 1>>, n + 1) /\ UpToNumber(s, n + 1)
<1> DEFINE p == n + 1
           l == Len(s)
           c == s \o <<n + 1>>
<1>1. l \in Nat /\ \A i \in 1..l : s[i] \in Nat
  <2>1. \A i \in 1..l : s[i] \in Token
    BY ElementOfSeq
  <2>2. QED
    BY <2>1, LenProperties DEF Token
<1>2. p \in Token /\ <<p>> \in Seq(Token) /\ Len(<<p>>) = 1 /\ <<p>>[1] = p
  OBVIOUS
<1>3. /\ Len(c) = l + 1 /\ c[l + 1] = p
      /\ \A i \in 1..l : c[i] = s[i]
  <2> DEFINE t == <<n + 1>>
  <2>1. t \in Seq(Token) /\ Len(t) = 1 /\ t[1] = p
    BY <1>2
  <2> HIDE DEF t, p
  <2>2. /\ Len(s \o t) = Len(s) + Len(t)
        /\ \A i \in 1..(Len(s) + Len(t)) : (s \o t)[i] = IF i <= Len(s) THEN s[i] ELSE t[i - Len(s)]
    BY <2>1, ConcatProperties, LenProperties
  <2>3. c = s \o t
    BY DEF t
  <2> HIDE DEF c
  <2>4. \A i \in 1..(l + 1) : c[i] = IF i <= l THEN s[i] ELSE t[i - l]
    BY <2>1, <2>2, <2>3
  <2> DEFINE m == l + 1
  <2>5. m \in 1..(l + 1) /\ ~(m <= l) /\ m - l = 1
    BY <1>1
  <2> HIDE DEF m
  <2>6. c[m] = p
    BY <2>1, <2>4, <2>5
  <2>7. \A i \in 1..l : c[i] = s[i]
    BY <1>1, <2>4
  <2>8. QED
    BY <2>1, <2>2, <2>3, <2>6, <2>7 DEF m
<1> HIDE DEF c
<1>4. \A i \in 1..l : s[i] <= n
  BY DEF UpToNumber
<1>5. InOrder(c)
  <2>1. SUFFICES ASSUME NEW i \in 1..Len(c), NEW j \in 1..Len(c), i < j PROVE c[i] < c[j]
    BY DEF InOrder
  <2>2. i \in 1..l /\ c[i] = s[i]
    BY <1>1, <1>3, <2>1
  <2>3. CASE j = l + 1
    BY <1>1, <1>3, <1>4, <2>2, <2>3
  <2>4. CASE j # l + 1
    <3>1. j \in 1..l /\ c[j] = s[j]
      BY <1>1, <1>3, <2>1, <2>4
    <3>2. s[i] < s[j]
      BY <2>1, <2>2, <3>1 DEF InOrder
    <3>3. QED
      BY <2>2, <3>1, <3>2
  <2>5. QED
    BY <2>3, <2>4
<1>6. UpToNumber(c, p)
  <2>1. SUFFICES ASSUME NEW i \in 1..Len(c) PROVE c[i] <= p
    BY DEF UpToNumber
  <2>2. CASE i = l + 1
    BY <1>1, <1>3, <2>2
  <2>3. CASE i # l + 1
    <3>1. i \in 1..l /\ c[i] = s[i]
      BY <1>1, <1>3, <2>1, <2>3
    <3>2. QED
      BY <1>1, <1>4, <3>1
  <2>4. QED
    BY <2>2, <2>3
<1>7. UpToNumber(s, p)
  BY <1>1, <1>4 DEF UpToNumber
<1>8. QED
  BY <1>5, <1>6, <1>7 DEF c

\* Four sequences put together, in two groupings.
Joined(s, t) == s \o t

LEMMA JoinedAssociative ==
  ASSUME NEW S, NEW s \in Seq(S), NEW t \in Seq(S), NEW u \in Seq(S)
  PROVE  Joined(Joined(s, t), u) = Joined(s, Joined(t, u))
BY ConcatAssociative DEF Joined

LEMMA Regrouped ==
  ASSUME NEW S, NEW b \in Seq(S), NEW x \in Seq(S), NEW y \in Seq(S), NEW z \in Seq(S)
  PROVE  Joined(Joined(b, Joined(x, y)), z) = Joined(Joined(b, x), Joined(y, z))
<1>1. Joined(b, x) \in Seq(S)
  BY ConcatProperties DEF Joined
<1>2. Joined(Joined(b, x), y) = Joined(b, Joined(x, y))
  BY JoinedAssociative
<1>3. Joined(Joined(Joined(b, x), y), z) = Joined(Joined(b, x), Joined(y, z))
  BY <1>1, JoinedAssociative
<1>4. QED
  BY <1>2, <1>3

\* A sequence that begins with another is that one and a rest.
LEMMA BeginsWith ==
  ASSUME NEW S, NEW s \in Seq(S), NEW t \in Seq(S), Len(s) <= Len(t), \A i \in 1..Len(s) : t[i] = s[i]
  PROVE  \E r \in Seq(S) : t = s \o r
<1> DEFINE o == Len(s)
           e == Len(t)
<1>1. o \in Nat /\ e \in Nat /\ o <= e
  BY LenProperties
<1>2. Cut(t, o) = Cut(s, o) /\ Cut(s, o) = s /\ Cut(t, e) = t
  <2>1. Cut(t, o) = Cut(s, o)
    BY <1>1, CutOfMore
  <2>2. Cut(s, o) = s
    BY <1>1, CutOfLines
  <2>3. Cut(t, e) = t
    BY <1>1, CutOfLines
  <2>4. QED
    BY <2>1, <2>2, <2>3
<1>3. e <= Len(t)
  BY <1>1
<1> HIDE DEF o, e
<1>4. Cut(t, e) = Cut(t, o) \o SubSeq(t, o + 1, e) /\ SubSeq(t, o + 1, e) \in Seq(S)
  BY <1>1, <1>3, CutFurther
<1>5. QED
  BY <1>2, <1>4

-----------------------------------------------------------------------------
\* What is published, and then what waits, is in the order of emission.
OrderOK ==
  intact => InOrder(TextOf(PublishedLines) \o Waiting) /\ UpToNumber(TextOf(PublishedLines) \o Waiting, emitted)

LEMMA TextsTyped ==
  ASSUME TypeOK
  PROVE  /\ TextOf(PublishedLines) \in Seq(Token) /\ Waiting \in Seq(Token)
         /\ TextOf(PublishedLines) \o Waiting \in Seq(Token) /\ emitted \in Nat
<1>1. TextOf(PublishedLines) \in Seq(Token) /\ Waiting \in Seq(Token)
  BY PublishedTyped, TextOfLines, WaitingIs
<1>2. TextOf(PublishedLines) \o Waiting \in Seq(Token)
  BY <1>1, ConcatProperties
<1>3. QED
  BY <1>1, <1>2 DEF TypeOK

LEMMA OrderKept ==
  ASSUME LogInv, OrderOK, [Next]_vars
  PROVE  OrderOK'
<1> DEFINE a == TextOf(PublishedLines)
           b == Waiting
           c == TextOf(PublishedLines)'
           d == Waiting'
<1>1. SUFFICES ASSUME intact'
               PROVE  InOrder(c \o d) /\ UpToNumber(c \o d, emitted')
  <2>1. OrderOK' = (intact' => InOrder(c \o d) /\ UpToNumber(c \o d, emitted'))
    BY DEF OrderOK, InOrder, UpToNumber
  <2>2. QED
    BY <2>1
<1>2. intact /\ TypeOK
  BY <1>1, IntactBefore DEF LogInv
<1>3. /\ a \in Seq(Token) /\ b \in Seq(Token) /\ a \o b \in Seq(Token) /\ emitted \in Nat
      /\ InOrder(a \o b) /\ UpToNumber(a \o b, emitted)
  BY <1>2, TextsTyped DEF OrderOK
<1>4. [Log!Next]_<<TextOf(PublishedLines), Waiting, emitted, intact>>
  BY LogStep
<1>5. CASE UNCHANGED <<TextOf(PublishedLines), Waiting, emitted, intact>>
  BY <1>3, <1>5
<1>6. CASE Log!Emit
  <2>1. /\ c = a /\ emitted' = emitted + 1 /\ emitted < MaxTokens
        /\ d = b \/ d = Append(b, emitted + 1)
    BY <1>6 DEF Log!Emit
  <2>2. emitted + 1 \in Token
    BY <1>3, <2>1, SegmentIs DEF Token
  <2> DEFINE one == <<emitted + 1>>
             ab == a \o b
  <2>3. /\ InOrder(ab \o one) /\ UpToNumber(ab \o one, emitted + 1) /\ UpToNumber(ab, emitted + 1)
    <3>1. ab \in Seq(Token) /\ InOrder(ab) /\ UpToNumber(ab, emitted)
      BY <1>3
    <3> HIDE DEF ab
    <3>2. QED
      BY <1>3, <2>2, <3>1, InOrderNext
  <2>4. CASE d = b
    BY <1>3, <2>1, <2>3, <2>4
  <2>5. CASE d = Append(b, emitted + 1)
    <3>1. one \in Seq(Token) /\ b \in Seq(Token) /\ a \in Seq(Token)
      BY <1>3, <2>2
    <3>2. d = b \o one
      BY <1>3, <2>2, <2>5, AppendIsConcat
    <3> HIDE DEF a, b, c, d, one, ab
    <3>3. (a \o b) \o one = a \o (b \o one)
      BY <3>1, ConcatAssociative, SMTT(40)
    <3>4. c \o d = ab \o one
      BY <2>1, <3>2, <3>3 DEF ab
    <3>5. QED
      BY <2>1, <2>3, <3>4
  <2>6. QED
    BY <2>1, <2>4, <2>5
<1>7. CASE Log!Publish
  <2>1. PICK k \in 1..Len(b) : c = a \o SubSeq(b, 1, k) /\ d = SubSeq(b, k + 1, Len(b))
    BY <1>7 DEF Log!Publish
  <2>2. emitted' = emitted
    BY <1>7 DEF Log!Publish
  <2> DEFINE x == SubSeq(b, 1, k)
             y == SubSeq(b, k + 1, Len(b))
  <2>3. x \in Seq(Token) /\ y \in Seq(Token) /\ b = x \o y
    <3> HIDE DEF b
    <3>1. Len(b) \in Nat /\ k \in Nat /\ k <= Len(b)
      BY <1>3, <2>1, LenProperties
    <3>2. Cut(b, Len(b)) = b
      BY <1>3, <3>1, CutOfLines
    <3>3. Cut(b, k) = x /\ Cut(b, k) \in Seq(Token)
      <4>1. Min({Len(b), k}) = k
        BY <3>1, MinOfTwo
      <4>2. QED
        BY <1>3, <3>1, <4>1, CutOfLines DEF Cut
    <3> DEFINE l == Len(b)
    <3>4. l \in Nat /\ k \in Nat /\ k <= l /\ l <= Len(b) /\ b \in Seq(Token)
      BY <1>3, <3>1
    <3> HIDE DEF l
    <3>5. Cut(b, l) = Cut(b, k) \o SubSeq(b, k + 1, l) /\ SubSeq(b, k + 1, l) \in Seq(Token)
      BY <3>4, CutFurther
    <3>6. QED
      BY <3>2, <3>3, <3>5 DEF l
  <2>4. c = a \o x /\ d = y
    BY <2>1
  <2>5. a \in Seq(Token)
    BY <1>3
  <2> HIDE DEF a, b, c, d, x, y
  <2>6. (a \o x) \o y = a \o (x \o y)
    <3>1. a \in Seq(Token) /\ x \in Seq(Token) /\ y \in Seq(Token)
      BY <2>3, <2>5
    <3>2. QED
      BY <3>1, ConcatAssociative, SMTT(40)
  <2>7. c \o d = a \o b
    BY <2>3, <2>4, <2>6
  <2>8. QED
    BY <1>3, <2>2, <2>7
<1>8. CASE Log!Lose
  <2>1. PICK k \in 0..Len(b) : d = SubSeq(b, 1, k)
    BY <1>8 DEF Log!Lose
  <2>2. c = a /\ emitted' = emitted
    BY <1>8 DEF Log!Lose
  <2>3. PICK y \in Seq(Token) : b = d \o y /\ d \in Seq(Token)
    <3> HIDE DEF b, d
    <3>1. Len(b) \in Nat /\ k \in Nat /\ k <= Len(b)
      BY <1>3, <2>1, LenProperties
    <3>2. Cut(b, Len(b)) = b
      BY <1>3, <3>1, CutOfLines
    <3>3. Cut(b, k) = d /\ Cut(b, k) \in Seq(Token)
      <4>1. Min({Len(b), k}) = k
        BY <3>1, MinOfTwo
      <4>2. QED
        BY <1>3, <2>1, <3>1, <4>1, CutOfLines DEF Cut
    <3> DEFINE l == Len(b)
    <3>4. l \in Nat /\ k \in Nat /\ k <= l /\ l <= Len(b) /\ b \in Seq(Token)
      BY <1>3, <3>1
    <3> HIDE DEF l
    <3>5. Cut(b, l) = Cut(b, k) \o SubSeq(b, k + 1, l) /\ SubSeq(b, k + 1, l) \in Seq(Token)
      BY <3>4, CutFurther
    <3>6. QED
      BY <3>2, <3>3, <3>5 DEF l
  <2>4. a \in Seq(Token)
    BY <1>3
  <2> HIDE DEF a, b, c, d
  <2>5. a \o b = (a \o d) \o y /\ a \o d \in Seq(Token)
    <3>1. (a \o d) \o y = a \o (d \o y)
      <4>1. a \in Seq(Token) /\ d \in Seq(Token) /\ y \in Seq(Token)
        BY <2>3, <2>4
      <4>2. QED
        BY <4>1, ConcatAssociative, SMTT(40)
    <3>2. a \o d \in Seq(Token)
      BY <2>3, <2>4, ConcatProperties
    <3>3. QED
      BY <2>3, <3>1, <3>2
  <2> DEFINE z == a \o d
  <2>6. z \in Seq(Token) /\ InOrder(z \o y) /\ UpToNumber(z \o y, emitted)
    BY <1>3, <2>5
  <2> HIDE DEF z
  <2>7. InOrder(z) /\ UpToNumber(z, emitted)
    BY <2>3, <2>6, InOrderPart
  <2>8. QED
    BY <2>2, <2>7 DEF z
<1>9. QED
  BY <1>1, <1>4, <1>5, <1>6, <1>7, <1>8 DEF Log!Next, Log!Broken

LEMMA OrderInit ==
  ASSUME Init
  PROVE  OrderOK
<1>1. TextOf(PublishedLines) = <<>> /\ Waiting = <<>>
  BY LogStart DEF Log!Init
<1>2. <<>> \o <<>> = <<>>
  BY EmptySeq, ConcatEmptySeq
<1>3. Len(<<>>) = 0
  OBVIOUS
<1>4. QED
  BY <1>1, <1>2, <1>3 DEF OrderOK, InOrder, UpToNumber

\* Events are published in the order they were emitted, across segments,
\* failed batches that are written again, coalesced deltas and restarts (flush
\* and scheduleRetry in event-log.ts).
THEOREM PublishedInOrder == Spec => [](intact => InOrder(TextOf(PublishedLines)))
<1>1. LogInv /\ OrderOK => (intact => InOrder(TextOf(PublishedLines)))
  BY TextsTyped, InOrderPart DEF OrderOK, LogInv
<1>2. LogInv /\ OrderOK /\ [Next]_vars => (LogInv /\ OrderOK)'
  BY OrderKept, LogInvKept
<1>3. Init => LogInv /\ OrderOK
  BY LogInvInit, OrderInit
<1>4. QED
  BY <1>1, <1>2, <1>3, PTL DEF Spec

\* What the cursor is past is the beginning of what is published.
LEMMA PassedIsPublished ==
  ASSUME TypeOK, Good, intact, CursorOK
  PROVE  \E r \in Seq(AnyLine) : PublishedLines = Passed \o r /\ Passed \in Seq(AnyLine)
<1> DEFINE at == cursor.segment
           o == cursor.offset
           hs == headFile.segment
           hl == headFile.length
           P == PublishedLines
<1>1. at \in 0..MaxSegment /\ o \in Nat /\ segs \in Files /\ P \in Seq(AnyLine)
  BY SegsTyped, PublishedTyped DEF CursorOK
<1>2. CASE at = 0
  <2>1. Passed = <<>>
    BY <1>1, <1>2, NothingYet DEF Passed
  <2>2. <<>> \o P = P /\ <<>> \in Seq(AnyLine)
    BY <1>1, ConcatEmptySeq, EmptySeq
  <2>3. QED
    BY <1>1, <2>1, <2>2
<1>3. CASE at # 0
  <2>1. /\ headFile # NoHead /\ at <= hs /\ (at = hs => o <= hl) /\ o <= Len(segs[at])
        /\ at \in Segment /\ at \in Nat /\ hs \in Nat /\ hl \in Nat /\ hs \in Segment
    BY <1>1, <1>3, SegsTyped, SegmentIs DEF CursorOK
  <2> DEFINE s == segs[cursor.segment]
             b == Before(segs, at - 1)
  <2>2. s \in Seq(AnyLine) /\ Len(s) \in Nat /\ b \in Seq(AnyLine)
    BY <1>1, <2>1, SegsTyped, BeforeNext DEF Lines
  <2>3. Passed = b \o Cut(s, o)
    BY <1>1, <2>1, LinesToIs DEF Passed
  <2> DEFINE e == IF at = hs THEN hl ELSE Len(s)
  <2>4. e \in Nat /\ o <= e /\ e <= Len(s)
    <3>1. Len(segs[hs]) >= hl
      BY <2>1 DEF Good, FilesOK
    <3>2. CASE at = hs
      BY <2>1, <2>2, <3>1, <3>2
    <3>3. CASE at # hs
      BY <2>1, <2>2, <3>3
    <3>4. QED
      BY <3>2, <3>3
  <2>5. \E t \in Seq(AnyLine) : P = (b \o Cut(s, e)) \o t
    <3>1. CASE at = hs
      <4>1. P = b \o Cut(s, e)
        BY <1>1, <2>1, <3>1, LinesToIs DEF PublishedLines
      <4>2. P \o <<>> = P /\ <<>> \in Seq(AnyLine)
        BY <1>1, ConcatEmptySeq, EmptySeq
      <4>3. QED
        BY <4>1, <4>2
    <3>2. CASE at # hs
      <4> DEFINE m == Before(segs, at)
                 n == Before(segs, hs - 1)
                 v == Cut(segs[hs], hl)
      <4>1. b \o Cut(s, e) = m /\ m \in Seq(AnyLine)
        <5>1. Cut(s, e) = s
          <6> HIDE DEF s
          <6>1. Len(s) <= e
            BY <2>2, <3>2
          <6>2. QED
            BY <2>2, <2>4, <6>1, CutOfLines
        <5>2. QED
          BY <1>1, <2>1, <5>1, BeforeNext DEF Lines
      <4>2. P = n \o v /\ n \in Seq(AnyLine) /\ v \in Seq(AnyLine)
        <5>1. segs[hs] \in Seq(AnyLine)
          BY <2>1, SegsTyped
        <5>2. v \in Seq(AnyLine)
          BY <2>1, <5>1, CutOfLines
        <5>3. n \in Seq(AnyLine)
          BY <1>1, <2>1, BeforeNext DEF Lines
        <5>4. QED
          BY <1>1, <2>1, <5>2, <5>3, LinesToIs DEF PublishedLines
      <4>3. hs - 1 \in at..MaxSegment
        BY <2>1, <3>2, SegmentIs
      <4>4. Len(m) <= Len(n) /\ \A i \in 1..Len(m) : n[i] = m[i]
        BY <1>1, <2>1, <4>3, BeforeHas
      <4>5. m \in Seq(AnyLine) /\ n \in Seq(AnyLine) /\ v \in Seq(AnyLine)
        BY <4>1, <4>2
      <4> HIDE DEF m, n, v, P, b, s
      <4>6. \E u \in Seq(AnyLine) : n = m \o u
        BY <4>4, <4>5, BeginsWith
      <4>7. PICK u \in Seq(AnyLine) : n = m \o u
        BY <4>6
      <4>8. u \o v \in Seq(AnyLine)
        BY <4>5, ConcatProperties
      <4>9. (m \o u) \o v = m \o (u \o v)
        BY <4>5, ConcatAssociative, SMTT(40)
      <4>10. P = m \o (u \o v)
        BY <4>2, <4>7, <4>9
      <4>11. QED
        BY <4>1, <4>8, <4>10
    <3>3. QED
      BY <3>1, <3>2
  <2>6. PICK t \in Seq(AnyLine) : P = (b \o Cut(s, e)) \o t
    BY <2>5
  <2> DEFINE x == Cut(s, o)
             y == SubSeq(s, o + 1, e)
  <2>7. Cut(s, e) = x \o y /\ x \in Seq(AnyLine) /\ y \in Seq(AnyLine)
    <3>1. o \in Nat /\ e \in Nat /\ o <= e /\ e <= Len(s) /\ s \in Seq(AnyLine)
      BY <1>1, <2>2, <2>4
    <3> HIDE DEF s, e, o
    <3>2. QED
      BY <3>1, CutFurther
  <2> HIDE DEF b, s, e, x, y, P
  <2>8. b \o x \in Seq(AnyLine) /\ y \o t \in Seq(AnyLine)
    BY <2>2, <2>7, ConcatProperties
  <2>9. (b \o (x \o y)) \o t = (b \o x) \o (y \o t)
    <3>1. b \in Seq(AnyLine) /\ x \in Seq(AnyLine) /\ y \in Seq(AnyLine) /\ t \in Seq(AnyLine)
      BY <2>2, <2>7
    <3>2. Joined(Joined(b, Joined(x, y)), t) = Joined(Joined(b, x), Joined(y, t))
      BY <3>1, Regrouped
    <3>3. QED
      BY <3>2 DEF Joined
  <2>10. QED
    BY <2>3, <2>6, <2>7, <2>8, <2>9 DEF P, x
<1>4. QED
  BY <1>2, <1>3

\* The reader passes events on in the order they were emitted, and none twice
\* (handleStream in cloud-session-manager.ts over the log of event-log.ts).
THEOREM SeenInOrder == StreamSpec => [](intact => InOrder(seen))
<1>1. LogInv /\ ReaderOK /\ OrderOK => (intact => InOrder(seen))
  <2> SUFFICES ASSUME LogInv, ReaderOK, OrderOK, intact PROVE InOrder(seen)
    OBVIOUS
  <2>1. TypeOK /\ Good /\ CursorOK /\ seen = TextOf(Passed)
    BY DEF LogInv, Reliable, ReaderOK
  <2>2. PICK r \in Seq(AnyLine) : PublishedLines = Passed \o r /\ Passed \in Seq(AnyLine)
    BY <2>1, PassedIsPublished
  <2> DEFINE a == TextOf(Passed)
             b == TextOf(r)
  <2>3. TextOf(PublishedLines) = a \o b /\ a \in Seq(Token) /\ b \in Seq(Token)
    BY <2>2, TextOfLines
  <2>4. InOrder(a \o b) /\ UpToNumber(a \o b, emitted)
    BY <2>1, <2>3, TextsTyped, InOrderPart DEF OrderOK
  <2> HIDE DEF a, b
  <2>5. InOrder(a)
    BY <2>3, <2>4, InOrderPart
  <2>6. QED
    BY <2>1, <2>5 DEF a
<1>2. LogInv /\ ReaderOK /\ OrderOK /\ [StreamNext]_<<vars, streamVars>> => (LogInv /\ ReaderOK /\ OrderOK)'
  <2> SUFFICES ASSUME LogInv, ReaderOK, OrderOK, [StreamNext]_<<vars, streamVars>>
               PROVE  (LogInv /\ ReaderOK /\ OrderOK)'
    OBVIOUS
  <2>1. [Next]_vars
    BY DEF StreamNext, Poll
  <2>2. LogInv' /\ ReaderOK'
    BY StreamKept
  <2>3. OrderOK'
    BY <2>1, OrderKept
  <2>4. QED
    BY <2>2, <2>3
<1>3. StreamInit => LogInv /\ ReaderOK /\ OrderOK
  BY StreamStart, OrderInit DEF StreamInit
<1>4. QED
  BY <1>1, <1>2, <1>3, PTL DEF StreamSpec
==============================================================================
