----------------------------- MODULE FindProofs -----------------------------
(***************************************************************************)
(* Proofs about the two word indexes: no record is lost, repeated or cut   *)
(* between a child of findlwp and its parent, whatever fails; and both     *)
(* programs write the index of their files, for any number of files, any   *)
(* files, any chunk size and any capacity of the pipes.                    *)
(***************************************************************************)
EXTENDS MCFind, IterationProofs, FiniteSetTheorems

-----------------------------------------------------------------------------
(* Sequences: how often an entry occurs, and sequences put end to end.     *)

Count(s, x) == Cardinality({n \in DOMAIN s : s[n] = x})

LEMMA CountAppend ==
  ASSUME NEW T, NEW s \in Seq(T), NEW c \in T, NEW x
  PROVE  /\ Count(s, x) \in Nat
         /\ Count(Append(s, c), x) = Count(s, x) + (IF c = x THEN 1 ELSE 0)
         /\ Count(<<>>, x) = 0
<1> DEFINE C == {n \in DOMAIN s : s[n] = x}
           e == Append(s, c)
           D == {n \in DOMAIN e : e[n] = x}
<1>1. /\ Len(s) \in Nat /\ DOMAIN s = 1 .. Len(s)
      /\ Len(e) = Len(s) + 1 /\ DOMAIN e = 1 .. Len(s) + 1
      /\ e[Len(s) + 1] = c /\ \A n \in 1 .. Len(s) : e[n] = s[n]
  OBVIOUS
<1> HIDE DEF e
<1>2. IsFiniteSet(C) /\ Cardinality(C) \in Nat
  <2>1. IsFiniteSet(1 .. Len(s)) /\ C \subseteq 1 .. Len(s)
    BY <1>1, FS_Interval
  <2> QED  BY <2>1, FS_Subset, FS_CardinalityType
<1>3. D = IF c = x THEN C \cup {Len(s) + 1} ELSE C
  BY <1>1
<1>4. Len(s) + 1 \notin C
  BY <1>1
<1>5. Cardinality(D) = Cardinality(C) + (IF c = x THEN 1 ELSE 0)
  <2> HIDE DEF C, D
  <2>1. CASE c = x
    BY <1>2, <1>3, <1>4, <2>1, FS_AddElement
  <2>2. CASE c # x
    BY <1>2, <1>3, <2>2
  <2> QED  BY <2>1, <2>2
<1>6. Count(<<>>, x) = 0
  <2>1. {n \in DOMAIN <<>> : <<>>[n] = x} = {}
    OBVIOUS
  <2> QED  BY <2>1, FS_EmptySet DEF Count
<1> QED  BY <1>2, <1>5, <1>6 DEF Count, e

LEMMA CountConcat ==
  ASSUME NEW T, NEW s \in Seq(T), NEW t \in Seq(T), NEW x
  PROVE  Count(s \o t, x) = Count(s, x) + Count(t, x)
<1> DEFINE V == {u \in Seq(T) : Count(s \o u, x) = Count(s, x) + Count(u, x)}
<1>1. <<>> \in V
  <2>1. s \o <<>> = s /\ <<>> \in Seq(T)
    OBVIOUS
  <2>2. Count(<<>>, x) = 0 /\ Count(s, x) \in Nat
    <3>1. CASE T = {}
      <4>1. s = <<>>
        BY <3>1, EmptySeq
      <4>2. {n \in DOMAIN <<>> : <<>>[n] = x} = {}
        OBVIOUS
      <4> QED  BY <4>1, <4>2, FS_EmptySet DEF Count
    <3>2. CASE T # {}
      BY <3>2, CountAppend
    <3> QED  BY <3>1, <3>2
  <2> QED  BY <2>1, <2>2
<1>2. ASSUME NEW u \in Seq(T), NEW c \in T, u \in V PROVE Append(u, c) \in V
  <2>1. s \o Append(u, c) = Append(s \o u, c) /\ s \o u \in Seq(T) /\ Append(u, c) \in Seq(T)
    OBVIOUS
  <2>2. /\ Count(Append(u, c), x) = Count(u, x) + (IF c = x THEN 1 ELSE 0)
        /\ Count(u, x) \in Nat /\ Count(s, x) \in Nat
    BY CountAppend
  <2>3. Count(Append(s \o u, c), x) = Count(s \o u, x) + (IF c = x THEN 1 ELSE 0)
    <3>1. \A v \in Seq(T) : Count(Append(v, c), x) = Count(v, x) + (IF c = x THEN 1 ELSE 0)
      BY CountAppend
    <3> QED  BY <2>1, <3>1, Zenon
  <2>4. Count(s \o u, x) = Count(s, x) + Count(u, x)
    BY <1>2
  <2>5. Count(s \o Append(u, c), x) = Count(s, x) + Count(Append(u, c), x)
    <3> DEFINE v == s \o u
               w == Append(u, c)
    <3> HIDE DEF v, w
    <3>1. Count(s \o w, x) = Count(v, x) + (IF c = x THEN 1 ELSE 0)
      BY <2>1, <2>3, Zenon DEF v, w
    <3>2. Count(v, x) = Count(s, x) + Count(u, x)
      BY <2>4, Zenon DEF v
    <3>3. Count(w, x) = Count(u, x) + (IF c = x THEN 1 ELSE 0)
      BY <2>2, Zenon DEF w
    <3>4. Count(u, x) \in Nat /\ Count(s, x) \in Nat
      BY <2>2
    <3>5. Count(s \o w, x) = Count(s, x) + Count(w, x)
      BY <3>1, <3>2, <3>3, <3>4
    <3> QED  BY <3>5, Zenon DEF w
  <2> QED  BY <2>1, <2>5, Zenon
<1>3. Seq(T) \subseteq V
  <2> HIDE DEF V
  <2> QED  BY <1>1, <1>2, AppendInduction
<1> QED  BY <1>3

LEMMA CountPositive ==
  ASSUME NEW T, NEW s \in Seq(T), NEW n \in DOMAIN s
  PROVE  Count(s, s[n]) \in Nat /\ Count(s, s[n]) > 0
<1> DEFINE C == {k \in DOMAIN s : s[k] = s[n]}
<1>1. IsFiniteSet(1 .. Len(s)) /\ C \subseteq 1 .. Len(s) /\ n \in C
  BY FS_Interval
<1>2. IsFiniteSet(C) /\ Cardinality(C) \in Nat /\ Cardinality(C) # 0
  <2> HIDE DEF C
  <2> QED  BY <1>1, FS_Subset, FS_CardinalityType, FS_EmptySet
<1> QED  BY <1>2 DEF Count

\* The first n sequences of f.
Flat(f, n) == FlattenSeq([k \in 1 .. n |-> f[k]])

Parts(T, f, n) == n \in Nat /\ \A k \in 1 .. n + 1 : f[k] \in Seq(T)

\* FlattenSeq puts the sequences one behind the other.
LEMMA FlattenSteps ==
  ASSUME NEW T, NEW f, NEW n, Parts(T, f, n)
  PROVE  /\ Flat(f, 0) = <<>>
         /\ Flat(f, n) \in Seq(T)
         /\ Flat(f, n + 1) = Flat(f, n) \o f[n + 1]
<1> n \in Nat /\ \A k \in 1 .. n + 1 : f[k] \in Seq(T)
  BY DEF Parts
<1> DEFINE first(m) == [k \in 1 .. m |-> f[k]]
           turn == [k \in Nat |-> [y \in Seq(T) |-> IF k <= n THEN y \o f[k + 1] ELSE y]]
<1>1. \A m \in Nat : Len(first(m)) = m /\ DOMAIN first(m) = 1 .. m
  OBVIOUS
<1>2. first(0) = <<>>
  OBVIOUS
<1>3. turn \in [Nat -> [Seq(T) -> Seq(T)]]
  <2>1. ASSUME NEW k \in Nat, NEW y \in Seq(T), k <= n PROVE y \o f[k + 1] \in Seq(T)
    <3>1. f[k + 1] \in Seq(T)
      BY <2>1
    <3> QED  BY <3>1
  <2> QED  BY <2>1
<1>4. PICK h : Run(h, Seq(T), <<>>, turn)
  <2> HIDE DEF turn
  <2> QED  BY <1>3, RunExists, <<>> \in Seq(T)
<1>5. h \in [Nat -> Seq(T)] /\ h[0] = <<>> /\ \A k \in 0 .. n : h[k + 1] = h[k] \o f[k + 1]
  <2>1. h \in [Nat -> Seq(T)] /\ h[0] = <<>> /\ \A k \in Nat : h[k + 1] = turn[k][h[k]]
    BY <1>4, Zenon DEF Run
  <2>2. ASSUME NEW k \in 0 .. n PROVE h[k + 1] = h[k] \o f[k + 1]
    <3>1. k \in Nat /\ k <= n /\ h[k] \in Seq(T)
      BY <2>1
    <3>2. \A y \in Seq(T) : turn[k][y] = y \o f[k + 1]
      BY <3>1
    <3> HIDE DEF turn
    <3> QED  BY <2>1, <3>1, <3>2, Zenon
  <2> QED  BY <2>1, <2>2
<1>51. h[1] = f[1]
  <2>1. 0 \in 0 .. n /\ 0 + 1 = 1 /\ 1 \in 1 .. n + 1
    OBVIOUS
  <2>2. h[1] = h[0] \o f[1] /\ f[1] \in Seq(T)
    BY <1>5, <2>1, Zenon
  <2> QED  BY <1>5, <2>2
<1>6. ASSUME NEW m \in 1 .. n + 1 PROVE FlattenSeq(first(m)) = h[m]
  <2> DEFINE s == first(m)
             body(F) == [i \in 1 .. Len(s) |-> IF i = 1 THEN s[i] ELSE F[i - 1] \o s[i]]
             flat == CHOOSE F : F = body(F)
             e == [i \in 1 .. Len(s) |-> h[i]]
  <2>1. FlattenSeq(s) = flat[Len(s)]
    <3>1. Len(s) # 0
      BY <1>1
    <3> HIDE DEF s
    <3> QED  BY <3>1, Zenon DEF FlattenSeq
  <2>2. Len(s) = m /\ \A i \in 1 .. m : s[i] = f[i]
    BY <1>1
  <2> HIDE DEF s
  <2>3. e = body(e)
    <3>1. ASSUME NEW i \in 1 .. m PROVE h[i] = IF i = 1 THEN s[i] ELSE e[i - 1] \o s[i]
      <4>1. CASE i = 1
        BY <1>51, <2>2, <4>1
      <4>2. CASE i # 1
        <5>1. i - 1 \in 0 .. n /\ (i - 1) + 1 = i /\ i - 1 \in 1 .. m
          BY <4>2
        <5>2. h[(i - 1) + 1] = h[i - 1] \o f[(i - 1) + 1]
          BY <1>5, <5>1
        <5> QED  BY <2>2, <4>2, <5>1, <5>2
      <4> QED  BY <4>1, <4>2
    <3> QED  BY <2>2, <3>1
  <2>4. flat = body(flat)
    <3> HIDE DEF body, e
    <3> QED  BY <2>3
  <2> HIDE DEF flat
  <2> DEFINE U == {k \in Nat : k + 1 <= m => flat[k + 1] = h[k + 1]}
  <2>5. 0 \in U
    <3>1. body(flat)[1] = s[1]
      BY <2>2
    <3> QED  BY <1>51, <2>2, <2>4, <3>1
  <2>6. ASSUME NEW k \in U PROVE k + 1 \in U
    <3>1. CASE (k + 1) + 1 <= m
      <4>1. k + 1 \in 0 .. n /\ (k + 1) + 1 \in 1 .. m /\ (k + 1) + 1 # 1 /\ ((k + 1) + 1) - 1 = k + 1
        BY <3>1
      <4>2. body(flat)[(k + 1) + 1] = flat[((k + 1) + 1) - 1] \o s[(k + 1) + 1]
        BY <2>2, <4>1
      <4>3. flat[(k + 1) + 1] = flat[k + 1] \o f[(k + 1) + 1]
        BY <2>2, <2>4, <4>1, <4>2
      <4>4. flat[k + 1] = h[k + 1]
        BY <3>1
      <4>5. h[(k + 1) + 1] = h[k + 1] \o f[(k + 1) + 1]
        BY <1>5, <4>1
      <4>6. flat[(k + 1) + 1] = h[(k + 1) + 1]
        BY <4>3, <4>4, <4>5, Zenon
      <4> QED  BY <4>6
    <3>2. CASE ~ ((k + 1) + 1 <= m)
      BY <3>2
    <3> QED  BY <3>1, <3>2
  <2>7. U = Nat
    <3>1. U \in SUBSET Nat
      OBVIOUS
    <3> HIDE DEF U
    <3> QED  BY <2>5, <2>6, <3>1, SetInduction
  <2>8. m - 1 \in Nat /\ (m - 1) + 1 = m
    OBVIOUS
  <2>9. m - 1 \in U
    <3> HIDE DEF U
    <3> QED  BY <2>7, <2>8
  <2>10. flat[m] = h[m]
    BY <2>8, <2>9
  <2> QED  BY <2>1, <2>2, <2>10 DEF s
<1>7. FlattenSeq(first(0)) = <<>>
  <2>1. Len(first(0)) = 0
    BY <1>1
  <2> HIDE DEF first
  <2> QED  BY <1>2, <2>1 DEF FlattenSeq
<1>8. FlattenSeq(first(n)) = h[n] /\ FlattenSeq(first(n + 1)) = h[n + 1]
  <2> HIDE DEF first
  <2> QED  BY <1>5, <1>6, <1>7
<1>9. /\ FlattenSeq(first(0)) = <<>>
      /\ FlattenSeq(first(n)) \in Seq(T)
      /\ FlattenSeq(first(n + 1)) = FlattenSeq(first(n)) \o f[n + 1]
  <2> HIDE DEF first
  <2>1. n \in 0 .. n
    OBVIOUS
  <2>2. h[n + 1] = h[n] \o f[n + 1] /\ h[n] \in Seq(T)
    BY <1>5, <2>1, Zenon
  <2> QED  BY <1>7, <1>8, <2>2, Zenon
<1> QED  BY <1>9, Zenon DEF Flat

-----------------------------------------------------------------------------
(* The order of the entries, and the sorted array.                         *)

LEMMA EntryType ==
  ASSUME NEW x \in Occurrence
  PROVE  /\ x.word \in Word /\ x.word \in Nat /\ x.fileIndex \in Nat /\ x.lineNo \in Nat
         /\ x = [word |-> x.word, fileIndex |-> x.fileIndex, lineNo |-> x.lineNo]
BY WordIndexAssumption DEF Occurrence

LEMMA OrderIsTotal ==
  ASSUME NEW x \in Occurrence, NEW y \in Occurrence, NEW z \in Occurrence
  PROVE  /\ ~ cmp_occurrence(x, x)
         /\ cmp_occurrence(x, y) => ~ cmp_occurrence(y, x)
         /\ ~ cmp_occurrence(y, x) /\ ~ cmp_occurrence(z, y) => ~ cmp_occurrence(z, x)
         /\ ~ cmp_occurrence(y, x) => x.word <= y.word
         /\ ~ cmp_occurrence(y, x) /\ x.word = y.word =>
              InOrder(<<x.fileIndex, x.lineNo>>, <<y.fileIndex, y.lineNo>>)
BY EntryType DEF cmp_occurrence, InOrder

Sorted(s) == \A a, b \in DOMAIN s : a < b => ~ cmp_occurrence(s[b], s[a])

\* Max is the greatest element of a set of naturals with a bound.
LEMMA MaxOfBounded ==
  ASSUME NEW S \in SUBSET Nat, NEW b \in Nat, \A m \in S : m <= b, S # {}
  PROVE  Max(S) \in S /\ \A m \in S : m <= Max(S)
<1> DEFINE T == {b - m : m \in S}
<1>1. T \in SUBSET Nat /\ T # {}
  <2>1. \A m \in S : m \in Nat /\ m <= b /\ b - m \in Nat
    OBVIOUS
  <2> QED  BY <2>1
<1>2. PICK t \in T : \A k \in T : t <= k
  <2> HIDE DEF T
  <2> QED  BY <1>1, LeastNatural
<1>3. PICK g \in S : t = b - g
  OBVIOUS
<1>4. \A m \in S : g >= m
  <2>1. ASSUME NEW m \in S PROVE g >= m
    <3>1. t <= b - m
      BY <1>2
    <3> QED  BY <1>3, <3>1
  <2> QED  BY <2>1
<1>5. Max(S) \in S /\ \A m \in S : Max(S) >= m
  BY <1>4, Zenon DEF Max
<1>6. \A m \in S : m \in Nat
  OBVIOUS
<1> QED  BY <1>5, <1>6

\* Placed puts an entry at its place in a sorted array.
LEMMA PlacedSorted ==
  ASSUME NEW s \in Seq(Occurrence), NEW x \in Occurrence
  PROVE  /\ Placed[s][x] \in Seq(Occurrence)
         /\ \A y : Count(Placed[s][x], y) = Count(s, y) + (IF x = y THEN 1 ELSE 0)
         /\ Sorted(s) => Sorted(Placed[s][x])
<1> DEFINE B == {n \in DOMAIN s : ~ cmp_occurrence(x, s[n])}
           S == {0} \cup B
           k == Max(S)
           l == SubSeq(s, 1, k)
           r == SubSeq(s, k + 1, Len(s))
           e == l \o <<x>> \o r
<1>1. Placed[s][x] = e
  BY DEF Placed
<1>2. Len(s) \in Nat /\ DOMAIN s = 1 .. Len(s) /\ \A n \in 1 .. Len(s) : s[n] \in Occurrence
  OBVIOUS
<1>3. S \in SUBSET Nat /\ S # {} /\ \A m \in S : m <= Len(s)
  BY <1>2
<1>4. k \in S /\ \A m \in S : m <= k
  <2> HIDE DEF S
  <2> QED  BY <1>2, <1>3, MaxOfBounded
<1>5. k \in 0 .. Len(s) /\ \A n \in 1 .. Len(s) : n > k => cmp_occurrence(x, s[n])
  <2>1. k \in Nat /\ k <= Len(s)
    <3> HIDE DEF k, S
    <3> QED  BY <1>3, <1>4
  <2>2. ASSUME NEW n \in 1 .. Len(s), n > k PROVE cmp_occurrence(x, s[n])
    <3>1. n \notin S
      <4> HIDE DEF k, S
      <4> QED  BY <1>2, <1>4, <2>1, <2>2
    <3> QED  BY <1>2, <3>1
  <2> HIDE DEF k
  <2> QED  BY <1>2, <2>1, <2>2
<1>6. k > 0 => ~ cmp_occurrence(x, s[k])
  BY <1>4
<1> HIDE DEF k, S
<1>7. /\ l \in Seq(Occurrence) /\ Len(l) = k /\ \A n \in 1 .. k : l[n] = s[n]
      /\ r \in Seq(Occurrence) /\ Len(r) = Len(s) - k /\ \A n \in 1 .. Len(s) - k : r[n] = s[k + n]
      /\ l \o r = s
  <2>1. k \in Int /\ k + 1 \in Int /\ 1 \in Int /\ Len(s) \in Int
    BY <1>2, <1>5
  <2>2. /\ l \in Seq(Occurrence) /\ Len(l) = (IF 1 <= k THEN k - 1 + 1 ELSE 0)
        /\ \A n \in 1 .. k - 1 + 1 : l[n] = s[1 + n - 1]
    <3>1. \A i \in 1 .. k : s[i] \in Occurrence
      BY <1>2, <1>5
    <3> QED  BY <2>1, <3>1, SubSeqProperties
  <2>3. /\ r \in Seq(Occurrence)
        /\ Len(r) = (IF k + 1 <= Len(s) THEN Len(s) - (k + 1) + 1 ELSE 0)
        /\ \A n \in 1 .. Len(s) - (k + 1) + 1 : r[n] = s[k + 1 + n - 1]
    <3>1. \A i \in k + 1 .. Len(s) : s[i] \in Occurrence
      BY <1>2, <1>5
    <3> QED  BY <2>1, <3>1, SubSeqProperties
  <2>4. l \o r = s
    <3>1. 1 \in 1 .. Len(s) + 1 /\ k \in 1 - 1 .. Len(s) /\ Len(s) \in k .. Len(s)
      BY <1>2, <1>5
    <3> QED  BY <3>1, ConcatAdjacentSubSeq, SubSeqFull
  <2> HIDE DEF l, r
  <2>5. ASSUME NEW n \in 1 .. k PROVE l[n] = s[n]
    <3>1. n \in 1 .. k - 1 + 1 /\ 1 + n - 1 = n
      BY <1>5
    <3> QED  BY <2>2, <3>1
  <2>6. ASSUME NEW n \in 1 .. Len(s) - k PROVE r[n] = s[k + n]
    <3>1. n \in 1 .. Len(s) - (k + 1) + 1 /\ k + 1 + n - 1 = k + n
      BY <1>2, <1>5
    <3> QED  BY <2>3, <3>1
  <2>7. Len(l) = k /\ Len(r) = Len(s) - k
    <3>1. k \in Nat /\ Len(s) \in Nat /\ k <= Len(s)
      BY <1>2, <1>5
    <3>2. Len(l) = (IF 1 <= k THEN k - 1 + 1 ELSE 0)
      BY <2>2
    <3>3. Len(r) = (IF k + 1 <= Len(s) THEN Len(s) - (k + 1) + 1 ELSE 0)
      BY <2>3
    <3> QED  BY <3>1, <3>2, <3>3
  <2> QED  BY <2>2, <2>3, <2>4, <2>5, <2>6, <2>7
<1> HIDE DEF l, r
<1>8. e \in Seq(Occurrence)
  BY <1>7
<1>9. ASSUME NEW y PROVE Count(e, y) = Count(s, y) + (IF x = y THEN 1 ELSE 0)
  <2>1. Append(l, x) \in Seq(Occurrence) /\ e = Append(l, x) \o r
    <3>1. Append(l, x) \in Seq(Occurrence) /\ Append(l, x) = l \o <<x>>
      BY <1>7, AppendProperties, AppendIsConcat
    <3> QED  BY <3>1, Zenon
  <2>2. Count(e, y) = Count(Append(l, x), y) + Count(r, y)
    <3> DEFINE a == Append(l, x)
    <3> HIDE DEF a, e
    <3>1. a \in Seq(Occurrence) /\ r \in Seq(Occurrence) /\ e = a \o r
      BY <1>7, <2>1, Zenon DEF a
    <3>2. Count(e, y) = Count(a, y) + Count(r, y)
      BY <3>1, CountConcat, Zenon
    <3> QED  BY <3>2, Zenon DEF a
  <2>3. Count(Append(l, x), y) = Count(l, y) + (IF x = y THEN 1 ELSE 0)
    BY <1>7, CountAppend
  <2>4. Count(s, y) = Count(l, y) + Count(r, y)
    BY <1>7, CountConcat
  <2>5. Count(l, y) \in Nat /\ Count(r, y) \in Nat
    BY <1>7, CountAppend
  <2> HIDE DEF e
  <2> QED  BY <2>2, <2>3, <2>4, <2>5
<1>10. ASSUME Sorted(s) PROVE Sorted(e)
  <2>1. Len(e) = Len(s) + 1 /\ DOMAIN e = 1 .. Len(s) + 1
    BY <1>2, <1>5, <1>7
  <2>2. /\ \A n \in 1 .. k : e[n] = s[n]
        /\ e[k + 1] = x
        /\ \A n \in k + 2 .. Len(s) + 1 : e[n] = r[n - (k + 1)]
    BY <1>2, <1>5, <1>7
  <2>3. ASSUME NEW n \in k + 2 .. Len(s) + 1 PROVE e[n] = s[n - 1]
    <3>1. n - (k + 1) \in 1 .. Len(s) - k /\ k + (n - (k + 1)) = n - 1
      BY <1>2, <1>5
    <3> QED  BY <1>7, <2>2, <3>1
  <2> HIDE DEF e
  <2>4. ASSUME NEW a \in 1 .. Len(s), a <= k PROVE ~ cmp_occurrence(x, s[a])
    <3>1. k > 0 /\ k \in 1 .. Len(s)
      BY <1>5, <2>4
    <3>2. a = k \/ ~ cmp_occurrence(s[k], s[a])
      BY <1>2, <1>10, <2>4, <3>1 DEF Sorted
    <3> QED  BY <1>2, <1>6, <3>1, <3>2, OrderIsTotal
  <2>5. ASSUME NEW b \in 1 .. Len(s), b > k PROVE ~ cmp_occurrence(s[b], x)
    <3>1. cmp_occurrence(x, s[b]) /\ s[b] \in Occurrence
      BY <1>2, <1>5, <2>5
    <3> QED  BY <3>1, OrderIsTotal
  <2>6. ASSUME NEW a \in 1 .. Len(s) + 1, NEW b \in 1 .. Len(s) + 1, a < b
        PROVE  ~ cmp_occurrence(e[b], e[a])
    <3>1. CASE b <= k
      <4>1. a \in 1 .. k /\ b \in 1 .. k /\ a \in 1 .. Len(s) /\ b \in 1 .. Len(s)
        BY <1>2, <1>5, <2>6, <3>1
      <4> QED  BY <1>2, <1>10, <2>2, <2>6, <4>1 DEF Sorted
    <3>2. CASE b = k + 1
      <4>1. a \in 1 .. k /\ a \in 1 .. Len(s) /\ a <= k
        BY <1>2, <1>5, <2>6, <3>2
      <4> QED  BY <2>2, <2>4, <3>2, <4>1
    <3>3. CASE b > k + 1
      <4>1. b \in k + 2 .. Len(s) + 1 /\ b - 1 \in 1 .. Len(s) /\ b - 1 > k
        BY <1>2, <1>5, <3>3
      <4>2. e[b] = s[b - 1]
        BY <2>3, <4>1
      <4>3. CASE a <= k
        <5>1. a \in 1 .. k /\ a \in 1 .. Len(s) /\ a < b - 1
          BY <1>2, <1>5, <4>1, <4>3
        <5> QED  BY <1>2, <1>10, <2>2, <4>1, <4>2, <5>1 DEF Sorted
      <4>4. CASE a = k + 1
        BY <2>2, <2>5, <4>1, <4>2, <4>4
      <4>5. CASE a > k + 1
        <5>1. a \in k + 2 .. Len(s) + 1 /\ a - 1 \in 1 .. Len(s) /\ a - 1 < b - 1
          BY <1>2, <1>5, <2>6, <4>5
        <5>2. e[a] = s[a - 1]
          BY <2>3, <5>1
        <5> QED  BY <1>2, <1>10, <4>1, <4>2, <5>1, <5>2 DEF Sorted
      <4> QED  BY <1>5, <4>3, <4>4, <4>5
    <3> QED  BY <1>5, <3>1, <3>2, <3>3
  <2> QED  BY <2>1, <2>6 DEF Sorted
<1> HIDE DEF e
<1> QED  BY <1>1, <1>8, <1>9, <1>10

\* qsort sorts: the array it returns is in order and has the same entries as often.
LEMMA qsortSorts ==
  ASSUME NEW all \in Seq(Occurrence)
  PROVE  /\ qsort(all) \in Seq(Occurrence)
         /\ Sorted(qsort(all))
         /\ \A y : Count(qsort(all), y) = Count(all, y)
<1> DEFINE Good(s) == /\ qsort(s) \in Seq(Occurrence)
                      /\ Sorted(qsort(s))
                      /\ \A y : Count(qsort(s), y) = Count(s, y)
           V == {s \in Seq(Occurrence) : Good(s)}
<1>1. /\ qsort(<<>>) = <<>>
      /\ \A s \in Seq(Occurrence), c \in Occurrence : qsort(Append(s, c)) = Placed[qsort(s)][c]
  <2>1. \A y \in Seq(Occurrence), c \in Occurrence : Placed[y][c] \in Seq(Occurrence)
    BY PlacedSorted
  <2>2. <<>> \in Seq(Occurrence)
    OBVIOUS
  <2>3. Loop(Seq(Occurrence), Occurrence, Placed, <<>>)
    BY <2>1, <2>2 DEF Loop
  <2> QED  BY <2>3, AccumulateSteps DEF qsort
<1>2. <<>> \in V
  <2>1. Sorted(<<>>) /\ <<>> \in Seq(Occurrence)
    BY DEF Sorted
  <2> QED  BY <1>1, <2>1, Zenon
<1>3. ASSUME NEW s \in Seq(Occurrence), NEW c \in Occurrence, s \in V PROVE Append(s, c) \in V
  <2> DEFINE e == Append(s, c)
             q == qsort(s)
  <2>1. q \in Seq(Occurrence) /\ Sorted(q) /\ \A y : Count(q, y) = Count(s, y)
    BY <1>3
  <2>2. qsort(e) = Placed[q][c] /\ e \in Seq(Occurrence)
    BY <1>1
  <2>3. \A y : Count(e, y) = Count(s, y) + (IF c = y THEN 1 ELSE 0)
    BY CountAppend
  <2> HIDE DEF e, q
  <2>4. /\ qsort(e) \in Seq(Occurrence) /\ Sorted(qsort(e))
        /\ \A y : Count(qsort(e), y) = Count(q, y) + (IF c = y THEN 1 ELSE 0)
    BY <2>1, <2>2, PlacedSorted
  <2>5. Good(e)
    BY <2>1, <2>3, <2>4
  <2> QED  BY <2>2, <2>5, Zenon DEF e
<1>4. Seq(Occurrence) \subseteq V
  <2> HIDE DEF V
  <2> QED  BY <1>2, <1>3, AppendInduction
<1> QED  BY <1>4

-----------------------------------------------------------------------------
(* The lines of the output.                                                *)

PlaceOf(x) == <<x.fileIndex, x.lineNo>>

LEMMA LineType ==
  /\ \A r \in Line : r.word \in Word /\ r.count \in Nat /\ r.places \in Seq(Nat \X Nat)
  /\ \A w \in Word, c \in Nat, q \in Seq(Nat \X Nat) : [word |-> w, count |-> c, places |-> q] \in Line
<1> DEFINE Q == Seq(Nat \X Nat)
<1>1. Line = [word : Word, count : Nat, places : Q]
  BY DEF Line
<1> HIDE DEF Q
<1>3. \A r \in Line : r.word \in Word /\ r.count \in Nat /\ r.places \in Q
  BY <1>1
<1>4. \A w \in Word, c \in Nat, q \in Q : [word |-> w, count |-> c, places |-> q] \in Line
  BY <1>1
<1> QED  BY <1>3, <1>4, Zenon DEF Q

PrintedIs(lines, x, n, P) ==
  lines \in Seq(Line) /\ x \in Occurrence /\ n = Len(lines) /\ P = Printed[lines][x]

\* Printed changes the last line only: it gets the place of x, or is new and has no other.
LastPrinted(lines, x, n, P) ==
  /\ P \in Seq(Line)
  /\ \/ /\ n > 0 /\ lines[n].word = x.word
        /\ Len(P) = n /\ P[n].word = x.word /\ P[n].count = lines[n].count + 1
        /\ P[n].places = Append(lines[n].places, PlaceOf(x))
        /\ \A k \in 1 .. n - 1 : P[k] = lines[k]
     \/ /\ n > 0 => lines[n].word # x.word
        /\ Len(P) = n + 1 /\ P[n + 1].word = x.word /\ P[n + 1].count = 1
        /\ P[n + 1].places = <<PlaceOf(x)>>
        /\ \A k \in 1 .. n : P[k] = lines[k]

LEMMA PrintedLast ==
  ASSUME NEW lines, NEW x, NEW n, NEW P, PrintedIs(lines, x, n, P)
  PROVE  LastPrinted(lines, x, n, P)
<1> DEFINE place == PlaceOf(x)
           last == [lines[n] EXCEPT !.count = @ + 1, !.places = Append(@, place)]
           new == [word |-> x.word, count |-> 1, places |-> <<place>>]
<1>1. lines \in Seq(Line) /\ x \in Occurrence /\ n = Len(lines) /\ P = Printed[lines][x]
  BY DEF PrintedIs
<1>2. n \in Nat /\ DOMAIN lines = 1 .. n /\ \A m \in 1 .. n : lines[m] \in Line
  BY <1>1
<1>3. place \in Nat \X Nat /\ x.word \in Word
  BY <1>1, EntryType DEF PlaceOf
<1>4. CASE n > 0 /\ lines[n].word = x.word
  <2>1. n \in 1 .. n /\ lines[n] \in Line
    BY <1>2, <1>4
  <2>2. P = [lines EXCEPT ![n].count = @ + 1, ![n].places = Append(@, <<x.fileIndex, x.lineNo>>)]
    BY <1>1, <1>4 DEF Printed
  <2>3. P = [lines EXCEPT ![n] = last]
    BY <1>2, <2>1, <2>2 DEF Line, PlaceOf
  <2>4. /\ last \in Line /\ last.word = lines[n].word /\ last.count = lines[n].count + 1
        /\ last.places = Append(lines[n].places, place)
    <3> DEFINE q == Append(lines[n].places, place)
               c == lines[n].count + 1
    <3> HIDE DEF place
    <3>1. q \in Seq(Nat \X Nat) /\ c \in Nat
      <4>1. lines[n].places \in Seq(Nat \X Nat) /\ lines[n].count \in Nat
        BY <2>1, LineType, Zenon
      <4> QED  BY <1>3, <4>1, AppendProperties
    <3> HIDE DEF q, c
    <3>2. last = [lines[n] EXCEPT !.count = c, !.places = q]
      BY DEF q, c
    <3>3. last \in Line /\ last.word = lines[n].word /\ last.count = c /\ last.places = q
      <4> DEFINE l == lines[n]
      <4> HIDE DEF l, last
      <4>1. l \in Line /\ last = [l EXCEPT !.count = c, !.places = q]
        BY <2>1, <3>2, Zenon DEF l
      <4>2. last \in Line /\ last.word = l.word /\ last.count = c /\ last.places = q
        <5>1. last = [word |-> l.word, count |-> c, places |-> q]
          BY <4>1 DEF Line
        <5>2. last.word = l.word /\ last.count = c /\ last.places = q
          BY <5>1
        <5>3. l.word \in Word
          BY <4>1, LineType
        <5>4. [word |-> l.word, count |-> c, places |-> q] \in Line
          BY <3>1, <5>3, LineType
        <5> QED  BY <5>1, <5>2, <5>4, Zenon
      <4> QED  BY <4>2, Zenon DEF l
    <3> QED  BY <3>3, Zenon DEF c, q
  <2> HIDE DEF last, place
  <2>5. /\ P \in Seq(Line) /\ Len(P) = n
        /\ \A j \in 1 .. n : P[j] = IF j = n THEN last ELSE lines[j]
    <3>1. n \in 1 .. Len(lines)
      BY <1>1, <2>1
    <3> QED  BY <1>1, <2>3, <2>4, <3>1, ExceptSeq
  <2>6. P[n] = last
    BY <2>1, <2>5
  <2>7. \A k \in 1 .. n - 1 : P[k] = lines[k]
    <3>1. \A k \in 1 .. n - 1 : k \in 1 .. n /\ k # n
      BY <1>2
    <3> QED  BY <2>5, <3>1
  <2> QED  BY <1>4, <2>4, <2>5, <2>6, <2>7 DEF place, LastPrinted
<1>5. CASE ~ (n > 0 /\ lines[n].word = x.word)
  <2>1. P = Append(lines, new)
    BY <1>1, <1>5 DEF Printed, PlaceOf
  <2>2. new \in Line /\ new.word = x.word /\ new.count = 1 /\ new.places = <<place>>
    <3> HIDE DEF place
    <3>1. new.word = x.word /\ new.count = 1 /\ new.places = <<place>>
      OBVIOUS
    <3>2. <<place>> \in Seq(Nat \X Nat)
      BY <1>3
    <3> DEFINE q == <<place>>
    <3> HIDE DEF q
    <3>3. [word |-> x.word, count |-> 1, places |-> q] \in Line
      BY <1>3, <3>2 DEF Line, q
    <3> QED  BY <3>1, <3>3 DEF q
  <2> HIDE DEF new, place
  <2>3. /\ P \in Seq(Line) /\ Len(P) = n + 1 /\ P[n + 1] = new
        /\ \A k \in 1 .. n : P[k] = lines[k]
    BY <1>1, <2>1, <2>2, AppendProperties
  <2> QED  BY <1>5, <2>2, <2>3 DEF place, LastPrinted
<1> QED  BY <1>4, <1>5

\* Where x stands in the lines.
Spots(lines, x) ==
  {mn \in UNION {{m} \X DOMAIN lines[m].places : m \in DOMAIN lines} :
     lines[mn[1]].word = x.word /\ lines[mn[1]].places[mn[2]] = <<x.fileIndex, x.lineNo>>}

\* The lines L of n entries with one more place, number b + 1 of line m.
OneMore(L, P, c, n, m, b) ==
  /\ n \in Nat /\ m \in Nat /\ b \in Nat /\ m > 0 /\ c \in Occurrence
  /\ DOMAIN L = 1 .. n /\ DOMAIN P = 1 .. m /\ DOMAIN P[m].places = 1 .. b + 1
  /\ \/ m = n /\ L[m].word = c.word /\ DOMAIN L[m].places = 1 .. b
     \/ m = n + 1 /\ b = 0 /\ (n > 0 => L[n].word # c.word)
  /\ \A k \in 1 .. m - 1 : P[k] = L[k]
  /\ \A k \in 1 .. b : P[m].places[k] = L[m].places[k]
  /\ P[m].word = c.word /\ P[m].places[b + 1] = PlaceOf(c)

\* One more entry is one more spot, for that entry alone.
LEMMA PrintedSpot ==
  ASSUME NEW lines, NEW lines2, NEW c, NEW n, NEW m, NEW b, OneMore(lines, lines2, c, n, m, b),
         NEW x \in Occurrence
  PROVE  /\ Spots(lines2, x) = Spots(lines, x) \cup (IF c = x THEN {<<m, b + 1>>} ELSE {})
         /\ <<m, b + 1>> \notin Spots(lines, x)
<1>1. /\ n \in Nat /\ m \in Nat /\ b \in Nat /\ m > 0 /\ c \in Occurrence
      /\ DOMAIN lines = 1 .. n /\ DOMAIN lines2 = 1 .. m /\ DOMAIN lines2[m].places = 1 .. b + 1
      /\ \/ m = n /\ lines[m].word = c.word /\ DOMAIN lines[m].places = 1 .. b
         \/ m = n + 1 /\ b = 0
      /\ \A k \in 1 .. m - 1 : lines2[k] = lines[k]
      /\ \A k \in 1 .. b : lines2[m].places[k] = lines[m].places[k]
      /\ lines2[m].word = c.word /\ lines2[m].places[b + 1] = PlaceOf(c)
  BY Zenon DEF OneMore
<1>4. (c = x) <=> (c.word = x.word /\ PlaceOf(c) = <<x.fileIndex, x.lineNo>>)
  BY <1>1, EntryType DEF PlaceOf
<1> DEFINE At_(ls, k, i) == /\ k \in DOMAIN ls /\ i \in DOMAIN ls[k].places
                            /\ ls[k].word = x.word /\ ls[k].places[i] = <<x.fileIndex, x.lineNo>>
<1>5. \A ls : \A p : p \in Spots(ls, x) <=> \E k, i : p = <<k, i>> /\ At_(ls, k, i)
  <2>1. ASSUME NEW ls, NEW p, p \in Spots(ls, x)
        PROVE  \E k, i : p = <<k, i>> /\ At_(ls, k, i)
    <3>1. PICK k \in DOMAIN ls : p \in {k} \X DOMAIN ls[k].places
      BY <2>1 DEF Spots
    <3>2. p = <<k, p[2]>> /\ p[1] = k /\ p[2] \in DOMAIN ls[k].places
      BY <3>1
    <3> QED  BY <2>1, <3>2 DEF Spots
  <2>2. ASSUME NEW ls, NEW k, NEW i, At_(ls, k, i) PROVE <<k, i>> \in Spots(ls, x)
    <3>1. <<k, i>> \in {k} \X DOMAIN ls[k].places /\ <<k, i>>[1] = k /\ <<k, i>>[2] = i
      BY <2>2
    <3> QED  BY <2>2, <3>1 DEF Spots
  <2> HIDE DEF At_
  <2> QED  BY <2>1, <2>2
<1>6. ASSUME NEW k, NEW i, At_(lines, k, i) PROVE At_(lines2, k, i) /\ <<k, i>> # <<m, b + 1>>
  <2>1. CASE k = m
    <3>1. m = n /\ i \in 1 .. b
      BY <1>1, <1>6, <2>1
    <3>2. i \in 1 .. b + 1 /\ i # b + 1
      BY <1>1, <3>1
    <3> QED  BY <1>1, <1>6, <2>1, <3>1, <3>2
  <2>2. CASE k # m
    <3>1. k \in 1 .. m - 1 /\ k \in 1 .. m
      BY <1>1, <1>6, <2>2
    <3> QED  BY <1>1, <1>6, <2>2, <3>1
  <2> QED  BY <1>1, <2>1, <2>2
<1>7. ASSUME NEW k, NEW i, At_(lines2, k, i) PROVE At_(lines, k, i) \/ (c = x /\ k = m /\ i = b + 1)
  <2>1. CASE k = m /\ i = b + 1
    BY <1>1, <1>4, <1>7, <2>1
  <2>2. CASE k = m /\ i # b + 1
    <3>1. i \in 1 .. b /\ b # 0
      BY <1>1, <1>7, <2>2
    <3>2. m = n /\ m \in 1 .. n
      BY <1>1, <3>1
    <3> QED  BY <1>1, <1>7, <2>2, <3>1, <3>2
  <2>3. CASE k # m
    <3>1. k \in 1 .. m - 1 /\ k \in 1 .. n
      BY <1>1, <1>7, <2>3
    <3> QED  BY <1>1, <1>7, <3>1
  <2> QED  BY <1>1, <2>1, <2>2, <2>3
<1>8. ASSUME c = x PROVE At_(lines2, m, b + 1)
  BY <1>1, <1>4, <1>8
<1> HIDE DEF At_
<1>9. ASSUME NEW p, p \in Spots(lines, x) PROVE p \in Spots(lines2, x) /\ p # <<m, b + 1>>
  BY <1>5, <1>6, <1>9
<1>10. ASSUME NEW p, p \in Spots(lines2, x)
       PROVE  p \in Spots(lines, x) \cup (IF c = x THEN {<<m, b + 1>>} ELSE {})
  <2>1. PICK k, i : p = <<k, i>> /\ At_(lines2, k, i)
    BY <1>5, <1>10
  <2>2. CASE At_(lines, k, i)
    BY <1>5, <2>1, <2>2
  <2>3. CASE c = x /\ k = m /\ i = b + 1
    BY <2>1, <2>3
  <2> QED  BY <1>7, <2>1, <2>2, <2>3
<1>11. c = x => <<m, b + 1>> \in Spots(lines2, x)
  BY <1>5, <1>8
<1> QED  BY <1>9, <1>10, <1>11

LEMMA InOrderTransitive ==
  \A p, q, r \in Nat \X Nat : InOrder(p, q) /\ InOrder(q, r) => InOrder(p, r)
BY DEF InOrder

\* A line of the entries in s: its places are in order, and each of them is in s.
Grouped(s, l) ==
  /\ l.count = Len(l.places) /\ l.count > 0
  /\ \A a, b \in DOMAIN l.places : a < b => InOrder(l.places[a], l.places[b])
  /\ \A k \in DOMAIN l.places :
       \E y \in Occurrence : Count(s, y) > 0 /\ y.word = l.word /\ PlaceOf(y) = l.places[k]

LEMMA GroupedLonger ==
  ASSUME NEW s \in Seq(Occurrence), NEW c \in Occurrence, NEW l, Grouped(s, l)
  PROVE  Grouped(Append(s, c), l)
<1>1. \A y \in Occurrence : Count(s, y) > 0 => Count(Append(s, c), y) > 0
  <2>1. ASSUME NEW y \in Occurrence, Count(s, y) > 0 PROVE Count(Append(s, c), y) > 0
    <3>1. Count(s, y) \in Nat /\ Count(Append(s, c), y) = Count(s, y) + (IF c = y THEN 1 ELSE 0)
      BY CountAppend
    <3> DEFINE n == Count(s, y)
    <3> HIDE DEF n
    <3>2. n \in Nat /\ n > 0 /\ Count(Append(s, c), y) = n + (IF c = y THEN 1 ELSE 0)
      BY <2>1, <3>1, Zenon DEF n
    <3> QED  BY <3>2
  <2> QED  BY <2>1
<1> DEFINE e == Append(s, c)
<1> HIDE DEF e
<1>2. \A y \in Occurrence : Count(s, y) > 0 => Count(e, y) > 0
  BY <1>1, Zenon DEF e
<1>3. Grouped(e, l)
  BY <1>2, Zenon DEF Grouped
<1> QED  BY <1>3, Zenon DEF e

\* The last entry counts.
LEMMA LastCounts ==
  ASSUME NEW s \in Seq(Occurrence), NEW c \in Occurrence
  PROVE  Count(Append(s, c), c) > 0
<1>1. Count(s, c) \in Nat /\ Count(Append(s, c), c) = Count(s, c) + 1
  BY CountAppend
<1> DEFINE n == Count(s, c)
<1> HIDE DEF n
<1>2. n \in Nat /\ Count(Append(s, c), c) = n + 1
  BY <1>1, Zenon DEF n
<1> QED  BY <1>2

\* A line that is one place longer.
LEMMA GroupedExtended ==
  ASSUME NEW s \in Seq(Occurrence), NEW c \in Occurrence, NEW l \in Line, NEW l2 \in Line,
         Grouped(s, l), l.word = c.word,
         InOrder(l.places[Len(l.places)], PlaceOf(c)),
         l2.word = c.word, l2.count = l.count + 1, l2.places = Append(l.places, PlaceOf(c))
  PROVE  Grouped(Append(s, c), l2)
<1> DEFINE e == Append(s, c)
           q == l.places
           q2 == l2.places
           b == Len(q)
           p == PlaceOf(c)
<1>1. Grouped(e, l)
  BY GroupedLonger
<1>2. q \in Seq(Nat \X Nat) /\ p \in Nat \X Nat /\ l.count \in Nat
  <2>1. p \in Nat \X Nat
    BY EntryType DEF PlaceOf
  <2> QED  BY <2>1, LineType
<1>3. b \in Nat /\ DOMAIN q = 1 .. b /\ \A k \in 1 .. b : q[k] \in Nat \X Nat
  BY <1>2, LenProperties, ElementOfSeq
<1>4. /\ Len(q2) = b + 1 /\ DOMAIN q2 = 1 .. b + 1
      /\ q2[b + 1] = p /\ \A k \in 1 .. b : q2[k] = q[k]
  <2> HIDE DEF q, p
  <2>1. q2 = Append(q, p)
    BY DEF q, p
  <2>2. q2 \in Seq(Nat \X Nat) /\ Len(q2) = b + 1 /\ q2[b + 1] = p /\ \A k \in 1 .. b : q2[k] = q[k]
    BY <1>2, <2>1, AppendProperties
  <2> QED  BY <2>2, LenProperties
<1>5. /\ l.count = b /\ l.count > 0
      /\ \A i, j \in 1 .. b : i < j => InOrder(q[i], q[j])
      /\ \A k \in 1 .. b : \E y \in Occurrence : Count(e, y) > 0 /\ y.word = l.word /\ PlaceOf(y) = q[k]
  <2> HIDE DEF e
  <2> QED  BY <1>1, <1>3, Zenon DEF Grouped
<1>6. Count(e, c) > 0
  BY LastCounts
<1>7. InOrder(q[b], p) /\ l2.count = l.count + 1 /\ l2.word = c.word /\ l.word = c.word
  OBVIOUS
<1> HIDE DEF e, q, q2, b, p
<1>8. l2.count = Len(q2) /\ l2.count > 0
  BY <1>2, <1>4, <1>5, <1>7
<1>9. ASSUME NEW i \in 1 .. b + 1, NEW j \in 1 .. b + 1, i < j PROVE InOrder(q2[i], q2[j])
  <2>1. i \in 1 .. b /\ q2[i] = q[i]
    BY <1>3, <1>4, <1>9
  <2>2. CASE j = b + 1
    <3>1. b \in 1 .. b
      BY <1>3, <1>5
    <3>2. i = b \/ InOrder(q[i], q[b])
      BY <1>3, <1>5, <2>1, <3>1
    <3> QED  BY <1>2, <1>3, <1>4, <1>7, <2>1, <2>2, <3>1, <3>2, InOrderTransitive
  <2>3. CASE j # b + 1
    <3>1. j \in 1 .. b /\ q2[j] = q[j]
      BY <1>3, <1>4, <2>3
    <3> QED  BY <1>5, <1>9, <2>1, <3>1
  <2> QED  BY <2>2, <2>3
<1>10. ASSUME NEW k \in 1 .. b + 1
       PROVE  \E y \in Occurrence : Count(e, y) > 0 /\ y.word = l2.word /\ PlaceOf(y) = q2[k]
  <2>1. CASE k = b + 1
    BY <1>4, <1>6, <1>7, <2>1 DEF p
  <2>2. CASE k # b + 1
    <3>1. k \in 1 .. b
      BY <1>3, <2>2
    <3>2. q2[k] = q[k]
      BY <1>4, <3>1
    <3> QED  BY <1>5, <1>7, <3>1, <3>2
  <2> QED  BY <2>1, <2>2
<1>11. DOMAIN q2 = 1 .. b + 1
  BY <1>4
<1>12. Grouped(e, l2)
  BY <1>8, <1>9, <1>10, <1>11, Zenon DEF Grouped, q2
<1> QED  BY <1>12, Zenon DEF e

\* A line with one place.
LEMMA GroupedNew ==
  ASSUME NEW s \in Seq(Occurrence), NEW c \in Occurrence, NEW l,
         l.word = c.word, l.count = 1, l.places = <<PlaceOf(c)>>
  PROVE  Grouped(Append(s, c), l)
<1> DEFINE e == Append(s, c)
<1>1. Len(l.places) = 1 /\ DOMAIN l.places = 1 .. 1 /\ l.places[1] = PlaceOf(c)
  OBVIOUS
<1>2. Count(e, c) > 0
  BY LastCounts
<1> HIDE DEF e
<1>3. \A a, b \in DOMAIN l.places : ~ (a < b)
  BY <1>1
<1>4. \A k \in DOMAIN l.places : k = 1
  BY <1>1
<1>5. l.count = Len(l.places) /\ l.count > 0
  BY <1>1
<1>6. \A k \in DOMAIN l.places :
        \E y \in Occurrence : Count(e, y) > 0 /\ y.word = l.word /\ PlaceOf(y) = l.places[k]
  BY <1>1, <1>2, <1>4
<1>7. Grouped(e, l)
  BY <1>3, <1>5, <1>6, Zenon DEF Grouped
<1> QED  BY <1>7, Zenon DEF e

\* The lines of a sorted array s.
LinesOf(s, L) ==
  /\ L \in Seq(Line)
  /\ Len(L) > 0 <=> Len(s) > 0
  /\ Len(s) > 0 => /\ L[Len(L)].word = s[Len(s)].word
                   /\ L[Len(L)].places[Len(L[Len(L)].places)] = PlaceOf(s[Len(s)])
  /\ \A m, n \in 1 .. Len(L) : m < n => L[m].word < L[n].word
  /\ \A m \in 1 .. Len(L) : Grouped(s, L[m])
  /\ \A x \in Occurrence : IsFiniteSet(Spots(L, x)) /\ Cardinality(Spots(L, x)) = Count(s, x)

\* The entry before the last one of a sorted array.
LEMMA SortedLonger ==
  ASSUME NEW s \in Seq(Occurrence), NEW c \in Occurrence, Sorted(Append(s, c))
  PROVE  /\ Sorted(s)
         /\ Len(s) > 0 => /\ s[Len(s)] \in Occurrence /\ s[Len(s)].word <= c.word
                          /\ s[Len(s)].word = c.word => InOrder(PlaceOf(s[Len(s)]), PlaceOf(c))
<1> DEFINE e == Append(s, c)
           n == Len(s)
<1>1. /\ n \in Nat /\ DOMAIN s = 1 .. n /\ DOMAIN e = 1 .. n + 1
      /\ e[n + 1] = c /\ \A k \in 1 .. n : e[k] = s[k] /\ s[k] \in Occurrence
  OBVIOUS
<1>2. \A a, b \in DOMAIN e : a < b => ~ cmp_occurrence(e[b], e[a])
  BY DEF Sorted
<1> HIDE DEF e, n
<1>3. Sorted(s)
  <2>1. \A k \in 1 .. n : k \in 1 .. n + 1
    BY <1>1
  <2> QED  BY <1>1, <1>2, <2>1 DEF Sorted
<1>4. ASSUME n > 0
      PROVE  /\ s[n] \in Occurrence /\ s[n].word <= c.word
             /\ s[n].word = c.word => InOrder(PlaceOf(s[n]), PlaceOf(c))
  <2>1. n \in 1 .. n /\ n \in 1 .. n + 1 /\ n + 1 \in 1 .. n + 1 /\ n < n + 1
    BY <1>1, <1>4
  <2>2. s[n] \in Occurrence /\ ~ cmp_occurrence(c, s[n])
    BY <1>1, <1>2, <2>1
  <2> QED  BY <2>2, OrderIsTotal DEF PlaceOf
<1> QED  BY <1>3, <1>4 DEF n

LEMMA WordsAscend ==
  ASSUME NEW L, NEW P, NEW c, NEW n, NEW m, NEW b, OneMore(L, P, c, n, m, b),
         \A k \in 1 .. n : L[k].word \in Nat,
         \A i, j \in 1 .. n : i < j => L[i].word < L[j].word,
         n > 0 => L[n].word <= c.word
  PROVE  \A i, j \in 1 .. m : i < j => P[i].word < P[j].word
<1>0. /\ n \in Nat /\ m \in Nat /\ m > 0 /\ (m = n \/ m = n + 1)
      /\ c \in Occurrence /\ P[m].word = c.word
      /\ m = n => L[n].word = c.word
      /\ m = n + 1 /\ n > 0 => L[n].word # c.word
      /\ \A k \in 1 .. m - 1 : P[k] = L[k]
  BY DEF OneMore
<1>01. c.word \in Nat
  BY <1>0, EntryType
<1> SUFFICES ASSUME NEW i \in 1 .. m, NEW j \in 1 .. m, i < j PROVE P[i].word < P[j].word
  OBVIOUS
<1>1. i \in 1 .. m - 1 /\ P[i] = L[i] /\ i \in 1 .. n
  BY <1>0
<1>2. CASE j # m
  <2>1. j \in 1 .. m - 1 /\ P[j] = L[j] /\ j \in 1 .. n
    BY <1>0, <1>2
  <2> QED  BY <1>1, <2>1
<1>3. CASE j = m /\ m = n
  BY <1>0, <1>1, <1>3
<1>4. CASE j = m /\ m = n + 1
  <2>1. n \in 1 .. n /\ L[n].word < P[m].word
    <3>1. n \in 1 .. n /\ n > 0
      BY <1>0, <1>1, <1>4
    <3> QED  BY <1>0, <1>01, <1>4, <3>1
  <2>2. i = n \/ L[i].word < L[n].word
    BY <1>0, <1>1, <2>1
  <2>3. L[i].word \in Nat /\ L[n].word \in Nat /\ P[m].word \in Nat
    BY <1>0, <1>01, <1>1, <2>1
  <2>4. L[i].word < P[m].word
    BY <2>1, <2>2, <2>3
  <2> QED  BY <1>1, <1>4, <2>4
<1> QED  BY <1>0, <1>2, <1>3, <1>4

\* One more entry, in either of the two ways.
LEMMA LinesOfStep ==
  ASSUME NEW s \in Seq(Occurrence), NEW c \in Occurrence, NEW L, NEW P,
         LinesOf(s, L), Sorted(Append(s, c)), P = Printed[L][c]
  PROVE  LinesOf(Append(s, c), P)
<1> DEFINE e == Append(s, c)
           n == Len(L)
           z == s[Len(s)]
<1>1. /\ L \in Seq(Line)
      /\ Len(L) > 0 <=> Len(s) > 0
      /\ Len(s) > 0 => L[n].word = z.word /\ L[n].places[Len(L[n].places)] = PlaceOf(z)
      /\ \A i, j \in 1 .. n : i < j => L[i].word < L[j].word
      /\ \A m \in 1 .. n : Grouped(s, L[m])
      /\ \A x \in Occurrence : IsFiniteSet(Spots(L, x)) /\ Cardinality(Spots(L, x)) = Count(s, x)
  BY Zenon DEF LinesOf
<1>2. /\ e \in Seq(Occurrence) /\ Len(e) = Len(s) + 1 /\ e[Len(e)] = c /\ Len(s) \in Nat
  BY AppendProperties, LenProperties
<1>3. n \in Nat /\ DOMAIN L = 1 .. n /\ \A k \in 1 .. n : L[k] \in Line /\ L[k].word \in Nat
  <2>1. n \in Nat /\ DOMAIN L = 1 .. n /\ \A k \in 1 .. n : L[k] \in Line
    BY <1>1, LenProperties, ElementOfSeq
  <2>2. \A l \in Line : l.word \in Nat
    BY LineType, WordIndexAssumption
  <2> HIDE DEF n
  <2> QED  BY <2>1, <2>2
<1>4. n > 0 => /\ L[n].word <= c.word
               /\ L[n].word = c.word => InOrder(L[n].places[Len(L[n].places)], PlaceOf(c))
  <2>1. Len(s) > 0 => z.word <= c.word /\ (z.word = c.word => InOrder(PlaceOf(z), PlaceOf(c)))
    BY SortedLonger
  <2> HIDE DEF n, z
  <2> QED  BY <1>1, <2>1 DEF n
<1>5. /\ P \in Seq(Line)
      /\ \/ /\ n > 0 /\ L[n].word = c.word
            /\ Len(P) = n /\ P[n].word = c.word /\ P[n].count = L[n].count + 1
            /\ P[n].places = Append(L[n].places, PlaceOf(c))
            /\ \A k \in 1 .. n - 1 : P[k] = L[k]
         \/ /\ n > 0 => L[n].word # c.word
            /\ Len(P) = n + 1 /\ P[n + 1].word = c.word /\ P[n + 1].count = 1
            /\ P[n + 1].places = <<PlaceOf(c)>>
            /\ \A k \in 1 .. n : P[k] = L[k]
  <2>1. L \in Seq(Line) /\ n = Len(L)
    BY <1>1
  <2> HIDE DEF n
  <2>2. PrintedIs(L, c, n, P)
    BY <2>1 DEF PrintedIs
  <2>3. LastPrinted(L, c, n, P)
    BY <2>2, PrintedLast, Zenon
  <2> QED  BY <2>3, Zenon DEF LastPrinted
<1>6. /\ c.word \in Nat /\ PlaceOf(c) \in Nat \X Nat
      /\ \A x \in Occurrence : Count(e, x) = Count(s, x) + (IF c = x THEN 1 ELSE 0) /\ Count(s, x) \in Nat
  <2>1. c.word \in Nat /\ PlaceOf(c) \in Nat \X Nat
    BY EntryType DEF PlaceOf
  <2> QED  BY <2>1, CountAppend
<1>7. \A l : Grouped(s, l) => Grouped(e, l)
  BY GroupedLonger
<1> DEFINE m == Len(P)
<1>8. m \in Nat /\ DOMAIN P = 1 .. m /\ \A k \in 1 .. m : P[k] \in Line
  BY <1>5, LenProperties, ElementOfSeq
<1> DEFINE b == Len(P[m].places) - 1
<1>9. ASSUME OneMore(L, P, c, n, m, b), Grouped(e, P[m]) PROVE LinesOf(e, P)
  <2> HIDE DEF e, n, z, m, b
  <2>0. /\ m > 0 /\ (m = n \/ m = n + 1) /\ P[m].word = c.word /\ P[m].places[b + 1] = PlaceOf(c)
        /\ DOMAIN P[m].places = 1 .. b + 1 /\ b \in Nat
        /\ \A k \in 1 .. m - 1 : P[k] = L[k]
    BY <1>9 DEF OneMore
  <2>1. \A i, j \in 1 .. m : i < j => P[i].word < P[j].word
    <3>1. \A k \in 1 .. n : L[k].word \in Nat
      BY <1>3
    <3> QED  BY <1>1, <1>4, <1>9, <3>1, WordsAscend
  <2>2. \A k \in 1 .. m : Grouped(e, P[k])
    <3>1. \A k \in 1 .. m - 1 : k \in 1 .. n
      BY <1>3, <1>8, <2>0
    <3>2. \A k \in 1 .. m : k = m \/ k \in 1 .. m - 1
      BY <1>8
    <3> QED  BY <1>1, <1>7, <1>9, <2>0, <3>1, <3>2
  <2>3. ASSUME NEW x \in Occurrence
        PROVE  IsFiniteSet(Spots(P, x)) /\ Cardinality(Spots(P, x)) = Count(e, x)
    <3>1. /\ Spots(P, x) = Spots(L, x) \cup (IF c = x THEN {<<m, b + 1>>} ELSE {})
          /\ <<m, b + 1>> \notin Spots(L, x)
      BY <1>9, PrintedSpot
    <3>2. IsFiniteSet(Spots(L, x)) /\ Cardinality(Spots(L, x)) = Count(s, x) /\ Count(s, x) \in Nat
      BY <1>1, <1>6
    <3>3. CASE c = x
      <4>1. Spots(P, x) = Spots(L, x) \cup {<<m, b + 1>>}
        BY <3>1, <3>3
      <4>2. IsFiniteSet(Spots(P, x)) /\ Cardinality(Spots(P, x)) = Cardinality(Spots(L, x)) + 1
        BY <3>1, <3>2, <4>1, FS_AddElement
      <4> QED  BY <1>6, <3>2, <3>3, <4>2
    <3>4. CASE c # x
      BY <1>6, <3>1, <3>2, <3>4
    <3> QED  BY <3>3, <3>4
  <2>4. P[m].word = e[Len(e)].word /\ P[m].places[Len(P[m].places)] = PlaceOf(e[Len(e)])
    <3>1. Len(P[m].places) = b + 1
      <4>1. P[m] \in Line
        BY <1>8, <2>0
      <4>2. P[m].places \in Seq(Nat \X Nat)
        BY <4>1, LineType
      <4>3. DOMAIN P[m].places = 1 .. Len(P[m].places) /\ Len(P[m].places) \in Nat
        BY <4>2, LenProperties
      <4> QED  BY <4>3 DEF b
    <3> QED  BY <1>2, <2>0, <3>1
  <2>5. Len(e) > 0
    BY <1>2
  <2> QED  BY <1>5, <1>8, <2>0, <2>1, <2>2, <2>3, <2>4, <2>5 DEF LinesOf, m
<1>10. CASE n > 0 /\ L[n].word = c.word /\ Len(P) = n
  <2>1. /\ P[n].word = c.word /\ P[n].count = L[n].count + 1
        /\ P[n].places = Append(L[n].places, PlaceOf(c))
        /\ \A k \in 1 .. n - 1 : P[k] = L[k]
    BY <1>3, <1>5, <1>10
  <2>2. n \in 1 .. n /\ L[n] \in Line /\ P[n] \in Line /\ Grouped(s, L[n])
    BY <1>1, <1>3, <1>8, <1>10
  <2>3. Grouped(e, P[n])
    BY <1>4, <1>10, <2>1, <2>2, GroupedExtended
  <2>4. L[n].places \in Seq(Nat \X Nat) /\ P[n].places \in Seq(Nat \X Nat)
    BY <2>2, LineType
  <2>5. /\ Len(P[n].places) = Len(L[n].places) + 1 /\ Len(L[n].places) \in Nat
        /\ DOMAIN L[n].places = 1 .. Len(L[n].places) /\ DOMAIN P[n].places = 1 .. Len(P[n].places)
        /\ P[n].places[Len(L[n].places) + 1] = PlaceOf(c)
        /\ \A k \in 1 .. Len(L[n].places) : P[n].places[k] = L[n].places[k]
    <3> DEFINE old == L[n].places
               now == P[n].places
               x == PlaceOf(c)
    <3>1. old \in Seq(Nat \X Nat) /\ now \in Seq(Nat \X Nat) /\ x \in Nat \X Nat /\ now = Append(old, x)
      BY <1>6, <2>1, <2>4
    <3> HIDE DEF old, now, x
    <3>2. /\ Len(now) = Len(old) + 1 /\ now[Len(old) + 1] = x
          /\ \A k \in 1 .. Len(old) : now[k] = old[k]
      BY <3>1, AppendProperties
    <3>3. Len(old) \in Nat /\ DOMAIN old = 1 .. Len(old) /\ DOMAIN now = 1 .. Len(now)
      BY <3>1, LenProperties
    <3> QED  BY <3>2, <3>3, Zenon DEF old, now, x
  <2>6. m = n
    BY <1>10
  <2> HIDE DEF e, n, z, m
  <2>7. b = Len(L[n].places)
    BY <2>5, <2>6
  <2> HIDE DEF b
  <2>8. OneMore(L, P, c, n, m, b)
    BY <1>3, <1>8, <1>10, <2>1, <2>5, <2>6, <2>7 DEF OneMore
  <2> QED  BY <1>9, <2>3, <2>6, <2>8 DEF e
<1>11. CASE Len(P) = n + 1
  <2>1. /\ n > 0 => L[n].word # c.word
        /\ P[n + 1].word = c.word /\ P[n + 1].count = 1
        /\ P[n + 1].places = <<PlaceOf(c)>>
        /\ \A k \in 1 .. n : P[k] = L[k]
    <3> HIDE DEF n
    <3>1. n # n + 1
      BY <1>3
    <3> QED  BY <1>5, <1>11, <3>1
  <2>2. Grouped(e, P[n + 1])
    BY <2>1, GroupedNew
  <2>3. Len(P[n + 1].places) = 1 /\ DOMAIN P[n + 1].places = 1 .. 1 /\ P[n + 1].places[1] = PlaceOf(c)
    BY <2>1
  <2>4. m = n + 1
    BY <1>11
  <2> HIDE DEF e, n, z, m
  <2>5. b = 0 /\ m - 1 = n
    BY <1>3, <2>3, <2>4
  <2> HIDE DEF b
  <2>6. OneMore(L, P, c, n, m, b)
    BY <1>3, <1>8, <2>1, <2>3, <2>4, <2>5 DEF OneMore
  <2> QED  BY <1>9, <2>2, <2>4, <2>6 DEF e
<1> QED  BY <1>5, <1>10, <1>11

\* Lines groups a sorted array.
LEMMA LinesGroup ==
  ASSUME NEW all \in Seq(Occurrence), Sorted(all)
  PROVE  LinesOf(all, Lines(all))
<1> DEFINE V == {s \in Seq(Occurrence) : Sorted(s) => LinesOf(s, Lines(s))}
<1>1. /\ Lines(<<>>) = <<>>
      /\ \A s \in Seq(Occurrence), c \in Occurrence : Lines(Append(s, c)) = Printed[Lines(s)][c]
  <2>1. ASSUME NEW y \in Seq(Line), NEW c \in Occurrence PROVE Printed[y][c] \in Seq(Line)
    <3> DEFINE n == Len(y)
               P == Printed[y][c]
    <3>1. PrintedIs(y, c, n, P)
      BY DEF PrintedIs
    <3> HIDE DEF n, P
    <3>2. P \in Seq(Line)
      <4>1. LastPrinted(y, c, n, P)
        BY <3>1, PrintedLast, Zenon
      <4> QED  BY <4>1, Zenon DEF LastPrinted
    <3> QED  BY <3>2 DEF P
  <2>2. <<>> \in Seq(Line)
    OBVIOUS
  <2>3. Loop(Seq(Line), Occurrence, Printed, <<>>)
    BY <2>1, <2>2 DEF Loop
  <2> QED  BY <2>3, AccumulateSteps DEF Lines
<1>2. <<>> \in V
  <2>1. LinesOf(<<>>, <<>>)
    <3>1. \A x : Spots(<<>>, x) = {} /\ Count(<<>>, x) = 0
      <4>1. \A x : {n \in DOMAIN <<>> : <<>>[n] = x} = {}
        OBVIOUS
      <4>2. \A x : Count(<<>>, x) = 0
        BY <4>1, FS_EmptySet DEF Count
      <4>3. DOMAIN <<>> = {}
        OBVIOUS
      <4> QED  BY <4>2, <4>3 DEF Spots
    <3>2. Len(<<>>) = 0 /\ <<>> \in Seq(Line)
      OBVIOUS
    <3>3. \A x : IsFiniteSet(Spots(<<>>, x)) /\ Cardinality(Spots(<<>>, x)) = Count(<<>>, x)
      BY <3>1, FS_EmptySet
    <3> DEFINE e == <<>>
    <3> HIDE DEF e
    <3>4. Len(e) = 0 /\ e \in Seq(Line) /\ \A x : IsFiniteSet(Spots(e, x)) /\ Cardinality(Spots(e, x)) = Count(e, x)
      BY <3>2, <3>3, Zenon DEF e
    <3>5. LinesOf(e, e)
      BY <3>4 DEF LinesOf
    <3> QED  BY <3>5, Zenon DEF e
  <2>2. <<>> \in Seq(Occurrence)
    OBVIOUS
  <2> QED  BY <1>1, <2>1, <2>2, Zenon
<1>3. ASSUME NEW s \in Seq(Occurrence), NEW c \in Occurrence, s \in V PROVE Append(s, c) \in V
  <2> DEFINE e == Append(s, c)
  <2>1. e \in Seq(Occurrence)
    OBVIOUS
  <2>2. ASSUME Sorted(e) PROVE LinesOf(e, Lines(e))
    <3>1. Sorted(s)
      BY <2>2, SortedLonger
    <3>2. LinesOf(s, Lines(s)) /\ Lines(e) = Printed[Lines(s)][c]
      BY <1>1, <1>3, <3>1
    <3> QED  BY <2>2, <3>2, LinesOfStep
  <2> HIDE DEF e
  <2> QED  BY <2>1, <2>2, Zenon DEF e
<1>4. Seq(Occurrence) \subseteq V
  <2> HIDE DEF V
  <2> QED  BY <1>2, <1>3, AppendInduction
<1> QED  BY <1>4

-----------------------------------------------------------------------------
(* From the files to the entries.                                          *)

\* Reading one more word.
LEMMA OccurrencesSteps ==
  ASSUME NEW i \in Nat
  PROVE  /\ Occurrences(i, <<>>) = <<>>
         /\ \A s \in Seq(Token) : Occurrences(i, s) \in Seq(Occurrence)
         /\ \A s \in Seq(Token), t \in Token :
              Occurrences(i, Append(s, t)) =
                IF Strlen[t.word] < K THEN Occurrences(i, s)
                ELSE Append(Occurrences(i, s), [word |-> t.word, fileIndex |-> i, lineNo |-> t.lineNo])
<1> DEFINE new(t) == [word |-> t.word, fileIndex |-> i, lineNo |-> t.lineNo]
<1>1. \A t \in Token : new(t) \in Occurrence
  BY DEF Token, Occurrence
<1>2. \A y \in Seq(Occurrence), t \in Token :
        PushWord(i)[y][t] = IF Strlen[t.word] < K THEN y ELSE Append(y, new(t))
  BY DEF PushWord
<1> HIDE DEF new
<1>3. \A y \in Seq(Occurrence), t \in Token : PushWord(i)[y][t] \in Seq(Occurrence)
  <2>1. \A y \in Seq(Occurrence), t \in Token : Append(y, new(t)) \in Seq(Occurrence)
    BY <1>1, AppendProperties
  <2> QED  BY <1>2, <2>1
<1>4. <<>> \in Seq(Occurrence)
  OBVIOUS
<1>5. /\ Occurrences(i, <<>>) = <<>>
      /\ \A s \in Seq(Token) : Occurrences(i, s) \in Seq(Occurrence)
      /\ \A s \in Seq(Token), t \in Token :
           Occurrences(i, Append(s, t)) = PushWord(i)[Occurrences(i, s)][t]
  <2>1. Loop(Seq(Occurrence), Token, PushWord(i), <<>>)
    BY <1>3, <1>4 DEF Loop
  <2> QED  BY <2>1, AccumulateSteps DEF Occurrences
<1>6. \A s \in Seq(Token), t \in Token :
        Occurrences(i, Append(s, t)) = IF Strlen[t.word] < K THEN Occurrences(i, s)
                                       ELSE Append(Occurrences(i, s), new(t))
  BY <1>2, <1>5, Zenon
<1> QED  BY <1>5, <1>6, Zenon DEF new

\* How often an entry is in the array of a file.
LEMMA OccurrencesCount ==
  ASSUME NEW i \in Nat, NEW tokens \in Seq(Token), NEW x \in Occurrence
  PROVE  Count(Occurrences(i, tokens), x) =
           IF x.fileIndex = i /\ ~ (Strlen[x.word] < K)
           THEN Count(tokens, [word |-> x.word, lineNo |-> x.lineNo]) ELSE 0
<1> DEFINE y == [word |-> x.word, lineNo |-> x.lineNo]
           right(s) == IF x.fileIndex = i /\ ~ (Strlen[x.word] < K) THEN Count(s, y) ELSE 0
           V == {s \in Seq(Token) : Count(Occurrences(i, s), x) = right(s)}
<1>1. \A z : Count(<<>>, z) = 0
  <2>1. \A z : {n \in DOMAIN <<>> : <<>>[n] = z} = {}
    OBVIOUS
  <2> QED  BY <2>1, FS_EmptySet DEF Count
<1>2. <<>> \in V
  <2>1. <<>> \in Seq(Token)
    OBVIOUS
  <2>2. Occurrences(i, <<>>) = <<>>
    BY OccurrencesSteps
  <2>3. right(<<>>) = 0 /\ Count(<<>>, x) = 0
    BY <1>1
  <2> QED  BY <2>1, <2>2, <2>3, Zenon
<1>3. ASSUME NEW s \in Seq(Token), NEW t \in Token, s \in V PROVE Append(s, t) \in V
  <2> DEFINE new == [word |-> t.word, fileIndex |-> i, lineNo |-> t.lineNo]
             O == Occurrences(i, s)
             O2 == Occurrences(i, Append(s, t))
  <2>1. Append(s, t) \in Seq(Token) /\ O \in Seq(Occurrence) /\ new \in Occurrence
    <3>1. t.word \in Word /\ t.lineNo \in Nat
      BY DEF Token
    <3>2. new \in Occurrence
      BY <3>1 DEF Occurrence
    <3> QED  BY <3>2, OccurrencesSteps
  <2>2. O2 = IF Strlen[t.word] < K THEN O ELSE Append(O, new)
    BY OccurrencesSteps
  <2>3. Count(Append(s, t), y) = Count(s, y) + (IF t = y THEN 1 ELSE 0) /\ Count(s, y) \in Nat
    BY CountAppend
  <2>4. Count(Append(O, new), x) = Count(O, x) + (IF new = x THEN 1 ELSE 0)
    BY <2>1, CountAppend
  <2>5. Count(O, x) = right(s)
    BY <1>3
  <2>6. (new = x) <=> (x.fileIndex = i /\ t = y)
    BY EntryType DEF Token
  <2>7. t = y => t.word = x.word
    BY DEF Token
  <2> DEFINE cs == Count(s, y)
             ct == Count(Append(s, t), y)
             same == t = y
             isNew == new = x
             mine == x.fileIndex = i
             short == Strlen[x.word] < K
  <2>8. Count(O2, x) = right(Append(s, t))
    <3>1. right(s) = (IF mine /\ ~ short THEN cs ELSE 0) /\ right(Append(s, t)) = (IF mine /\ ~ short THEN ct ELSE 0)
      OBVIOUS
    <3>2. cs \in Nat /\ ct = cs + (IF same THEN 1 ELSE 0)
      BY <2>3
    <3>3. CASE Strlen[t.word] < K
      <4>1. O2 = O /\ (same => short)
        BY <2>2, <2>7, <3>3
      <4> HIDE DEF O2, O, right, cs, ct, same, mine, short
      <4> QED  BY <2>5, <3>1, <3>2, <4>1
    <3>4. CASE ~ (Strlen[t.word] < K)
      <4>1. Count(O2, x) = Count(O, x) + (IF isNew THEN 1 ELSE 0) /\ (same => ~ short)
        BY <2>2, <2>4, <2>7, <3>4
      <4>2. isNew <=> (mine /\ same)
        BY <2>6
      <4> HIDE DEF O2, O, right, cs, ct, same, mine, short, isNew
      <4> QED  BY <2>5, <3>1, <3>2, <4>1, <4>2
    <3> QED  BY <3>3, <3>4
  <2> HIDE DEF right
  <2> QED  BY <2>1, <2>8
<1>4. Seq(Token) \subseteq V
  <2> HIDE DEF V
  <2> QED  BY <1>2, <1>3, AppendInduction
<1> QED  BY <1>4

\* The arrays of all files, one behind the other: how often an entry is in them.
LEMMA AllCount ==
  ASSUME NEW fs \in [File -> Content], NEW arr, arr = [i \in File |-> Occurrences(i, fs[i].tokens)]
  PROVE  /\ FlattenSeq(arr) \in Seq(Occurrence)
         /\ \A x \in Occurrence :
              Count(FlattenSeq(arr), x) =
                IF x.fileIndex \in File THEN Times(fs, x.word, x.fileIndex, x.lineNo) ELSE 0
<1> DEFINE G(n) == Flat(arr, n)
<1>1. N \in Nat /\ File = 1 .. N
  BY WordIndexAssumption DEF File
<1>2. \A i \in File : fs[i].tokens \in Seq(Token) /\ arr[i] = Occurrences(i, fs[i].tokens) /\ arr[i] \in Seq(Occurrence)
  <2>1. \A c \in Content : c.tokens \in Seq(Token)
    <3>1. \A c \in [found : BOOLEAN, tokens : Seq(Token)] : c.tokens \in Seq(Token)
      OBVIOUS
    <3> QED  BY <3>1 DEF Content
  <2>2. ASSUME NEW i \in File PROVE Occurrences(i, fs[i].tokens) \in Seq(Occurrence)
    <3>1. i \in Nat /\ fs[i].tokens \in Seq(Token)
      BY <1>1, <2>1
    <3> QED  BY <3>1, OccurrencesSteps
  <2> QED  BY <2>1, <2>2
<1>3. arr = [k \in 1 .. N |-> arr[k]]
  BY <1>1
<1> HIDE DEF G
<1>4. ASSUME NEW n \in Nat, n + 1 <= N
      PROVE  G(n) \in Seq(Occurrence) /\ G(n + 1) = G(n) \o arr[n + 1]
  <2>1. \A k \in 1 .. n + 1 : arr[k] \in Seq(Occurrence)
    BY <1>1, <1>2, <1>4
  <2>2. Parts(Occurrence, arr, n)
    BY <2>1 DEF Parts
  <2> QED  BY <2>2, FlattenSteps DEF G
<1>5. G(0) = <<>>
  <2>1. \A k \in 1 .. 0 + 1 : arr[k] \in Seq(Occurrence)
    BY <1>1, <1>2, WordIndexAssumption
  <2>2. Parts(Occurrence, arr, 0)
    BY <2>1 DEF Parts
  <2> QED  BY <2>2, FlattenSteps DEF G
<1>6. G(N) \in Seq(Occurrence)
  <2>1. N - 1 \in Nat /\ (N - 1) + 1 = N /\ N \in File
    BY <1>1, WordIndexAssumption
  <2>2. G(N - 1) \in Seq(Occurrence) /\ G(N) = G(N - 1) \o arr[N] /\ arr[N] \in Seq(Occurrence)
    <3> DEFINE m == N - 1
    <3> HIDE DEF m
    <3>1. m \in Nat /\ m + 1 = N /\ m + 1 <= N
      BY <1>1, <2>1 DEF m
    <3>2. G(m) \in Seq(Occurrence) /\ G(m + 1) = G(m) \o arr[m + 1]
      BY <1>4, <3>1
    <3> QED  BY <1>2, <2>1, <3>1, <3>2 DEF m
  <2> QED  BY <2>2
<1>7. ASSUME NEW x \in Occurrence
      PROVE  Count(G(N), x) = IF x.fileIndex \in File THEN Times(fs, x.word, x.fileIndex, x.lineNo) ELSE 0
  <2> DEFINE times == Times(fs, x.word, x.fileIndex, x.lineNo)
             U == {n \in Nat : n <= N => Count(G(n), x) = IF x.fileIndex \in 1 .. n THEN times ELSE 0}
  <2>1. 0 \in U
    <3>1. Count(<<>>, x) = 0
      BY CountAppend, <<>> \in Seq(Occurrence)
    <3>2. ~ (x.fileIndex \in 1 .. 0)
      OBVIOUS
    <3> HIDE DEF times
    <3> QED  BY <1>5, <3>1, <3>2
  <2>2. ASSUME NEW n \in U PROVE n + 1 \in U
    <3>1. CASE n + 1 <= N
      <4>1. n \in Nat /\ n + 1 \in File /\ n + 1 \in Nat
        BY <1>1, <3>1
      <4>2. G(n) \in Seq(Occurrence) /\ G(n + 1) = G(n) \o arr[n + 1] /\ arr[n + 1] \in Seq(Occurrence)
        BY <1>2, <1>4, <3>1, <4>1
      <4>3. Count(G(n + 1), x) = Count(G(n), x) + Count(arr[n + 1], x)
        <5> DEFINE l == G(n)
                   a == arr[n + 1]
                   e == G(n + 1)
        <5> HIDE DEF l, a, e
        <5>1. l \in Seq(Occurrence) /\ e = l \o a /\ a \in Seq(Occurrence)
          BY <4>2 DEF l, a, e
        <5>2. Count(l \o a, x) = Count(l, x) + Count(a, x)
          BY <5>1, CountConcat
        <5> QED  BY <5>1, <5>2, Zenon DEF l, a, e
      <4>4. Count(arr[n + 1], x) =
              IF x.fileIndex = n + 1 /\ ~ (Strlen[x.word] < K)
              THEN Count(fs[n + 1].tokens, [word |-> x.word, lineNo |-> x.lineNo]) ELSE 0
        BY <1>2, <4>1, OccurrencesCount
      <4>5. x.fileIndex = n + 1 =>
              times = IF Strlen[x.word] < K THEN 0
                      ELSE Count(fs[n + 1].tokens, [word |-> x.word, lineNo |-> x.lineNo])
        BY Zenon DEF Times, Count
      <4>6. Count(arr[n + 1], x) = IF x.fileIndex = n + 1 THEN times ELSE 0
        <5> HIDE DEF times
        <5> QED  BY <4>4, <4>5
      <4>7. n <= N /\ Count(G(n), x) \in Nat
        <5>1. Count(G(n), x) \in Nat
          BY <4>2, CountAppend
        <5> QED  BY <1>1, <3>1, <4>1, <5>1
      <4>8. Count(arr[n + 1], x) \in Nat
        BY <4>2, CountAppend
      <4>9. Count(G(n), x) = IF x.fileIndex \in 1 .. n THEN times ELSE 0
        BY <4>7
      <4>10. x.fileIndex \in 1 .. n + 1 <=> (x.fileIndex \in 1 .. n \/ x.fileIndex = n + 1)
        BY <4>1, EntryType
      <4>11. ~ (x.fileIndex \in 1 .. n /\ x.fileIndex = n + 1)
        BY <4>1
      <4> DEFINE a == Count(G(n), x)
                 b == Count(arr[n + 1], x)
                 inA == x.fileIndex \in 1 .. n
                 inB == x.fileIndex = n + 1
                 inC == x.fileIndex \in 1 .. n + 1
      <4>12. Count(G(n + 1), x) = IF inC THEN times ELSE 0
        <5>1. /\ Count(G(n + 1), x) = a + b /\ a \in Nat /\ b \in Nat
              /\ a = (IF inA THEN times ELSE 0) /\ b = (IF inB THEN times ELSE 0)
              /\ (inC <=> inA \/ inB) /\ ~ (inA /\ inB)
          BY <4>3, <4>6, <4>7, <4>8, <4>9, <4>10, <4>11, Zenon
        <5> HIDE DEF a, b, inA, inB, inC, times
        <5> QED  BY <5>1
      <4> QED  BY <4>1, <4>12
    <3>2. CASE ~ (n + 1 <= N)
      BY <3>2
    <3> QED  BY <3>1, <3>2
  <2>3. U = Nat
    <3>1. U \in SUBSET Nat
      OBVIOUS
    <3> HIDE DEF U
    <3> QED  BY <2>1, <2>2, <3>1, SetInduction
  <2>4. N \in U /\ N <= N
    <3> HIDE DEF U
    <3> QED  BY <1>1, <2>3
  <2>5. Count(G(N), x) = IF x.fileIndex \in 1 .. N THEN times ELSE 0
    BY <2>4
  <2> QED  BY <1>1, <2>5
<1>8. FlattenSeq(arr) = G(N)
  BY <1>3, Zenon DEF G, Flat
<1> QED  BY <1>6, <1>7, <1>8

\* The output of the arrays is the index of the files.
LEMMA OutputIsIndex ==
  ASSUME NEW fs \in [File -> Content], NEW arr, arr = [i \in File |-> Occurrences(i, fs[i].tokens)]
  PROVE  IsIndex(Output(FlattenSeq(arr)), fs)
<1> DEFINE all == FlattenSeq(arr)
           q == qsort(all)
           L == Lines(q)
<1>1. /\ all \in Seq(Occurrence)
      /\ \A x \in Occurrence :
           Count(all, x) = IF x.fileIndex \in File THEN Times(fs, x.word, x.fileIndex, x.lineNo) ELSE 0
  BY AllCount
<1> HIDE DEF all
<1>2. q \in Seq(Occurrence) /\ Sorted(q) /\ \A x : Count(q, x) = Count(all, x)
  BY <1>1, qsortSorts
<1>3. LinesOf(q, L)
  BY <1>2, LinesGroup
<1> HIDE DEF q, L
<1>4. /\ L \in Seq(Line)
      /\ \A m, n \in 1 .. Len(L) : m < n => L[m].word < L[n].word
      /\ \A m \in 1 .. Len(L) : Grouped(q, L[m])
      /\ \A x \in Occurrence : Cardinality(Spots(L, x)) = Count(q, x)
  BY <1>3 DEF LinesOf
<1>5. DOMAIN L = 1 .. Len(L)
  BY <1>4, LenProperties
<1>6. ASSUME NEW m \in DOMAIN L
      PROVE  /\ L[m].count = Len(L[m].places) /\ L[m].count > 0
             /\ \A a, b \in DOMAIN L[m].places : a < b => InOrder(L[m].places[a], L[m].places[b])
             /\ \A k \in DOMAIN L[m].places :
                  Times(fs, L[m].word, L[m].places[k][1], L[m].places[k][2]) > 0
  <2>1. Grouped(q, L[m])
    BY <1>4, <1>5
  <2>2. ASSUME NEW k \in DOMAIN L[m].places
        PROVE  Times(fs, L[m].word, L[m].places[k][1], L[m].places[k][2]) > 0
    <3>1. PICK y \in Occurrence : Count(q, y) > 0 /\ y.word = L[m].word /\ PlaceOf(y) = L[m].places[k]
      BY <2>1 DEF Grouped
    <3>2. Count(all, y) > 0
      BY <1>2, <3>1
    <3>3. Times(fs, y.word, y.fileIndex, y.lineNo) > 0
      <4>1. CASE y.fileIndex \in File
        BY <1>1, <3>2, <4>1
      <4>2. CASE y.fileIndex \notin File
        BY <1>1, <3>2, <4>2
      <4> QED  BY <4>1, <4>2
    <3>4. L[m].places[k][1] = y.fileIndex /\ L[m].places[k][2] = y.lineNo
      BY <3>1 DEF PlaceOf
    <3> QED  BY <3>1, <3>3, <3>4
  <2> QED  BY <2>1, <2>2 DEF Grouped
<1>7. ASSUME NEW f \in File, NEW n \in DOMAIN fs[f].tokens, NEW t, t = fs[f].tokens[n]
      PROVE  Listed(L, t.word, f, t.lineNo) = Times(fs, t.word, f, t.lineNo)
  <2> DEFINE x == [word |-> t.word, fileIndex |-> f, lineNo |-> t.lineNo]
  <2>1. f \in Nat /\ t.word \in Word /\ t.lineNo \in Nat
    <3>1. f \in Nat
      BY WordIndexAssumption DEF File
    <3>2. fs[f].tokens \in Seq(Token)
      <4>1. \A c \in [found : BOOLEAN, tokens : Seq(Token)] : c.tokens \in Seq(Token)
        OBVIOUS
      <4> QED  BY <4>1 DEF Content
    <3>3. t \in Token
      BY <1>7, <3>2, LenProperties, ElementOfSeq
    <3> QED  BY <3>1, <3>3 DEF Token
  <2>2. x \in Occurrence /\ x.word = t.word /\ x.fileIndex = f /\ x.lineNo = t.lineNo
    BY <2>1 DEF Occurrence
  <2> HIDE DEF x
  <2>3. Count(q, x) = Times(fs, x.word, x.fileIndex, x.lineNo)
    BY <1>1, <1>2, <2>2
  <2>4. Cardinality(Spots(L, x)) = Listed(L, x.word, x.fileIndex, x.lineNo)
    BY Zenon DEF Spots, Listed
  <2> QED  BY <1>4, <2>2, <2>3, <2>4
<1>8. IsIndex(L, fs)
  BY <1>4, <1>5, <1>6, <1>7, Zenon DEF IsIndex
<1> QED  BY <1>8 DEF Output, L, q, all

-----------------------------------------------------------------------------
(* Records on their way.                                                   *)

LEMMA SymbolTypes ==
  /\ Newline \in Symbol
  /\ \A n \in Nat : Number(n) \in Symbol /\ Number(n) # Newline
  /\ \A p \in [kind : {"text", "number"}, val : Nat] : p \in Symbol /\ p # Newline
BY DEF Symbol, Newline, Number

\* A record is ended by its only newline.
LEMMA EncodeShape ==
  ASSUME NEW x \in Occurrence
  PROVE  /\ Encode(x) \in Seq(Symbol) /\ Len(Encode(x)) >= 3
         /\ Front(Encode(x)) \in Seq(Symbol)
         /\ \A k \in DOMAIN Front(Encode(x)) : Front(Encode(x))[k] # Newline
         /\ Encode(x) = Append(Front(Encode(x)), Newline)
         /\ Front(Encode(x)) = Pieces[x.word] \o <<Number(x.fileIndex), Number(x.lineNo)>>
         /\ Pieces[x.word] \in Seq(Symbol)
<1> DEFINE p == Pieces[x.word]
           a == Number(x.fileIndex)
           b == Number(x.lineNo)
           f == p \o <<a, b>>
           Piece == [kind : {"text", "number"}, val : Nat]
<1>1. p \in Seq(Piece)
  BY FindLwpAssumption, EntryType
<1>2. /\ a \in Symbol /\ b \in Symbol /\ Newline \in Symbol /\ a # Newline /\ b # Newline
      /\ \A c \in Piece : c \in Symbol /\ c # Newline
  <2>1. x.fileIndex \in Nat /\ x.lineNo \in Nat
    BY EntryType
  <2> QED  BY <2>1, SymbolTypes
<1> HIDE DEF p, a, b, Piece
<1>3. p \in Seq(Symbol) /\ \A k \in DOMAIN p : p[k] # Newline
  <2>1. /\ Len(p) \in Nat /\ DOMAIN p = 1 .. Len(p) /\ \A k \in 1 .. Len(p) : p[k] \in Piece
    BY <1>1, LenProperties, ElementOfSeq
  <2>2. p \in Seq(Symbol)
    <3>1. Piece \subseteq Symbol
      BY <1>2
    <3> QED  BY <1>1, <3>1, SeqMonotonic
  <2> QED  BY <1>2, <2>1, <2>2
<1>4. <<a, b>> \in Seq(Symbol) /\ <<Newline>> \in Seq(Symbol) /\ <<a, b, Newline>> = <<a, b>> \o <<Newline>>
  BY <1>2
<1>5. f \in Seq(Symbol) /\ Encode(x) = Append(f, Newline)
  <2>1. f \in Seq(Symbol)
    BY <1>3, <1>4
  <2>2. p \o (<<a, b>> \o <<Newline>>) = (p \o <<a, b>>) \o <<Newline>>
    BY <1>3, <1>4, ConcatAssociative
  <2>3. Append(f, Newline) = f \o <<Newline>>
    BY <1>2, <2>1, AppendIsConcat
  <2>4. Encode(x) = p \o <<a, b, Newline>>
    BY DEF Encode, p, a, b
  <2> QED  BY <1>4, <2>1, <2>2, <2>3, <2>4, Zenon
<1>6. Len(f) = Len(p) + 2 /\ \A k \in 1 .. Len(f) : f[k] # Newline
  <2>1. Len(f) = Len(p) + 2 /\ Len(p) \in Nat /\ DOMAIN p = 1 .. Len(p)
    BY <1>3
  <2>2. \A k \in 1 .. Len(p) + 2 : f[k] = IF k <= Len(p) THEN p[k] ELSE <<a, b>>[k - Len(p)]
    BY <1>3, <1>4, ConcatProperties
  <2>3. ASSUME NEW k \in 1 .. Len(p) + 2 PROVE f[k] # Newline
    <3>1. CASE k <= Len(p)
      BY <1>3, <2>1, <2>2, <3>1
    <3>2. CASE ~ (k <= Len(p))
      <4>1. k - Len(p) = 1 \/ k - Len(p) = 2
        BY <2>1, <3>2
      <4>2. <<a, b>>[1] = a /\ <<a, b>>[2] = b
        OBVIOUS
      <4> QED  BY <1>2, <2>2, <3>2, <4>1, <4>2
    <3> QED  BY <3>1, <3>2
  <2> QED  BY <2>1, <2>3
<1> HIDE DEF f
<1>7. /\ Encode(x) \in Seq(Symbol) /\ Len(Encode(x)) = Len(f) + 1 /\ Len(f) \in Nat
      /\ \A k \in 1 .. Len(f) : Encode(x)[k] = f[k]
  BY <1>2, <1>5, AppendProperties, LenProperties
<1>8. Front(Encode(x)) = f
  <2>1. Front(Encode(x)) = SubSeq(Encode(x), 1, Len(f))
    BY <1>7 DEF Front
  <2>2. SubSeq(Encode(x), 1, Len(f)) \in Seq(Symbol) /\ Len(SubSeq(Encode(x), 1, Len(f))) = Len(f)
        /\ \A k \in 1 .. Len(f) : SubSeq(Encode(x), 1, Len(f))[k] = f[k]
    BY <1>7
  <2> QED  BY <1>5, <2>1, <2>2, SeqEqual
<1>9. DOMAIN f = 1 .. Len(f) /\ Len(p) \in Nat
  BY <1>3, <1>5, LenProperties
<1>10. Len(Encode(x)) >= 3
  BY <1>6, <1>7, <1>9
<1>11. f = Pieces[x.word] \o <<Number(x.fileIndex), Number(x.lineNo)>> /\ Pieces[x.word] \in Seq(Symbol)
  BY <1>3 DEF f, p, a, b
<1> QED  BY <1>5, <1>6, <1>7, <1>8, <1>9, <1>10, <1>11

\* What the parent understands of a record is an entry of the index.
LEMMA ParsedEntry ==
  ASSUME NEW x \in Occurrence
  PROVE  Parsed(Front(Encode(x))) \in Seq(Occurrence)
<1> DEFINE p == Pieces[x.word]
           f == Front(Encode(x))
<1>1. x.word \in Word /\ p \in Seq([kind : {"text", "number"}, val : Nat])
  BY FindLwpAssumption, EntryType
<1>2. f \in Seq(Symbol) /\ Encode(x) = Append(f, Newline)
  BY EncodeShape
<1>3. ASSUME Readable(f) PROVE Record(f) \in Occurrence
  <2>1. Len(f) >= 3 /\ f[1] \in Symbol /\ f[2] \in Symbol /\ f[3] \in Symbol
    BY <1>2, <1>3 DEF Readable
  <2>2. Len(f) = Len(p) + 2 /\ Len(p) >= 1 /\ f[1] = p[1]
    <3> DEFINE t == <<Number(x.fileIndex), Number(x.lineNo)>>
    <3>1. f = p \o t /\ p \in Seq(Symbol)
      BY EncodeShape
    <3>2. t \in Seq(Symbol) /\ Len(t) = 2
      BY SymbolTypes, EntryType
    <3> HIDE DEF t, f, p
    <3>3. Len(p) \in Nat /\ Len(f) = Len(p) + 2
      <4>1. Len(p) \in Nat
        BY <3>1, LenProperties
      <4>2. Len(p \o t) = Len(p) + Len(t)
        BY <3>1, <3>2, ConcatProperties
      <4> QED  BY <3>1, <3>2, <4>1, <4>2
    <3>4. \A k \in 1 .. Len(p) + Len(t) : (p \o t)[k] = IF k <= Len(p) THEN p[k] ELSE t[k - Len(p)]
      BY <3>1, <3>2, ConcatProperties
    <3>5. Len(p) >= 1 /\ 1 \in 1 .. Len(p) + Len(t) /\ 1 <= Len(p)
      BY <2>1, <3>2, <3>3
    <3> QED  BY <3>1, <3>3, <3>4, <3>5
  <2>3. f[1].val \in Word
    <3>1. p # <<>>
      BY <2>2
    <3> QED  BY <1>1, <2>2, <3>1, FindLwpAssumption
  <2>4. f[2].val \in Nat /\ f[3].val \in Nat
    BY <2>1 DEF Symbol
  <2> HIDE DEF f
  <2> QED  BY <2>3, <2>4 DEF Record, Occurrence
<1>4. CASE Readable(f)
  <2>1. <<Record(f)>> \in Seq(Occurrence)
    BY <1>3, <1>4
  <2> QED  BY <1>4, <2>1, Zenon DEF Parsed
<1>5. CASE ~ Readable(f)
  <2>1. <<>> \in Seq(Occurrence)
    OBVIOUS
  <2> QED  BY <1>5, <2>1, Zenon DEF Parsed
<1> QED  BY <1>4, <1>5

\* A record of a plain word comes out as it went in.
LEMMA ParsedPlain ==
  ASSUME NEW x \in Occurrence, Pieces[x.word] = <<Text(x.word)>>
  PROVE  Parsed(Front(Encode(x))) = <<x>>
<1> DEFINE t == Text(x.word)
           a == Number(x.fileIndex)
           b == Number(x.lineNo)
           f == Front(Encode(x))
<1>1. f = <<t>> \o <<a, b>>
  BY EncodeShape
<1>2. t \in Symbol /\ a \in Symbol /\ b \in Symbol
  BY SymbolTypes, EntryType DEF Symbol, Text
<1>3. t.val = x.word /\ a.val = x.fileIndex /\ b.val = x.lineNo /\ a.kind = "number" /\ b.kind = "number"
  BY DEF Text, Number
<1> HIDE DEF t, a, b, f
<1>6. Len(f) = 3 /\ f[1] = t /\ f[2] = a /\ f[3] = b
  <2>1. <<t>> \in Seq(Symbol) /\ <<a, b>> \in Seq(Symbol) /\ Len(<<t>>) = 1 /\ Len(<<a, b>>) = 2
    BY <1>2
  <2>2. /\ Len(<<t>> \o <<a, b>>) = 1 + 2
        /\ \A k \in 1 .. 1 + 2 : (<<t>> \o <<a, b>>)[k] = IF k <= 1 THEN <<t>>[k] ELSE <<a, b>>[k - 1]
    BY <2>1, ConcatProperties
  <2> QED  BY <1>1, <2>2
<1>7. Readable(f)
  BY <1>3, <1>6 DEF Readable
<1>8. Record(f) = x
  BY <1>3, <1>6, EntryType DEF Record
<1>9. Parsed(f) = <<x>>
  BY <1>7, <1>8, Zenon DEF Parsed
<1> QED  BY <1>9 DEF f
-----------------------------------------------------------------------------
(* The stream of records.                                                  *)

\* What the parent makes of the first n records.
Understood(os, n) == FlattenSeq([k \in 1 .. n |-> Parsed(Front(Encode(os[k])))])

\* FlattenSeq of a function of the records of os, one record at a time.
LEMMA StreamSteps ==
  ASSUME NEW os \in Seq(Occurrence)
  PROVE  /\ Stream(os, 0) = <<>> /\ Understood(os, 0) = <<>>
         /\ \A n \in 0 .. Len(os) : Stream(os, n) \in Seq(Symbol) /\ Understood(os, n) \in Seq(Occurrence)
         /\ \A n \in 0 .. Len(os) - 1 :
              /\ os[n + 1] \in Occurrence
              /\ Stream(os, n + 1) = Stream(os, n) \o Encode(os[n + 1])
              /\ Understood(os, n + 1) = Understood(os, n) \o Parsed(Front(Encode(os[n + 1])))
<1> DEFINE e == [k \in Nat |-> IF k \in 1 .. Len(os) THEN Encode(os[k]) ELSE <<>>]
           p == [k \in Nat |-> IF k \in 1 .. Len(os) THEN Parsed(Front(Encode(os[k]))) ELSE <<>>]
<1>1. Len(os) \in Nat /\ \A k \in 1 .. Len(os) : os[k] \in Occurrence
  BY LenProperties, ElementOfSeq
<1>2. \A k \in 1 .. Len(os) : Encode(os[k]) \in Seq(Symbol) /\ Parsed(Front(Encode(os[k]))) \in Seq(Occurrence)
  BY <1>1, EncodeShape, ParsedEntry
<1>3. \A k \in 1 .. Len(os) : e[k] = Encode(os[k]) /\ p[k] = Parsed(Front(Encode(os[k])))
  BY <1>1
<1>4. \A n \in Nat : Parts(Symbol, e, n) /\ Parts(Occurrence, p, n)
  <2>1. <<>> \in Seq(Symbol) /\ <<>> \in Seq(Occurrence)
    OBVIOUS
  <2>2. \A k \in Nat : e[k] \in Seq(Symbol) /\ p[k] \in Seq(Occurrence)
    BY <1>2, <2>1
  <2> HIDE DEF e, p
  <2> QED  BY <2>2 DEF Parts
<1>5. \A n \in 0 .. Len(os) : Stream(os, n) = Flat(e, n) /\ Understood(os, n) = Flat(p, n)
  <2>1. ASSUME NEW n \in 0 .. Len(os)
        PROVE  /\ [k \in 1 .. n |-> Encode(os[k])] = [k \in 1 .. n |-> e[k]]
               /\ [k \in 1 .. n |-> Parsed(Front(Encode(os[k])))] = [k \in 1 .. n |-> p[k]]
    BY <1>1, <1>3
  <2> HIDE DEF e, p
  <2> QED  BY <2>1 DEF Stream, Understood, Flat
<1> HIDE DEF e, p
<1>6. \A n \in Nat : /\ Flat(e, 0) = <<>> /\ Flat(e, n) \in Seq(Symbol) /\ Flat(e, n + 1) = Flat(e, n) \o e[n + 1]
                     /\ Flat(p, 0) = <<>> /\ Flat(p, n) \in Seq(Occurrence) /\ Flat(p, n + 1) = Flat(p, n) \o p[n + 1]
  BY <1>4, FlattenSteps
<1>7. /\ Stream(os, 0) = <<>> /\ Understood(os, 0) = <<>>
      /\ \A n \in 0 .. Len(os) : Stream(os, n) \in Seq(Symbol) /\ Understood(os, n) \in Seq(Occurrence)
  <2>1. 0 \in 0 .. Len(os) /\ \A n \in 0 .. Len(os) : n \in Nat
    BY <1>1
  <2> QED  BY <1>5, <1>6, <2>1
<1>8. ASSUME NEW n \in 0 .. Len(os) - 1
      PROVE  /\ os[n + 1] \in Occurrence
             /\ Stream(os, n + 1) = Stream(os, n) \o Encode(os[n + 1])
             /\ Understood(os, n + 1) = Understood(os, n) \o Parsed(Front(Encode(os[n + 1])))
  <2>1. n \in Nat /\ n \in 0 .. Len(os) /\ n + 1 \in 0 .. Len(os) /\ n + 1 \in 1 .. Len(os)
    BY <1>1
  <2> QED  BY <1>1, <1>3, <1>5, <1>6, <2>1
<1> QED  BY <1>7, <1>8

\* The first n records are the beginning of the whole stream.
LEMMA StreamPrefix ==
  ASSUME NEW os \in Seq(Occurrence), NEW n \in 0 .. Len(os)
  PROVE  \E d \in Seq(Symbol) : Stream(os, n) \o d = Stream(os, Len(os))
<1> DEFINE L == Len(os)
           T == {j \in Nat : j <= L => \E d \in Seq(Symbol) : Stream(os, L - j) \o d = Stream(os, L)}
<1>1. L \in Nat
  BY LenProperties
<1> HIDE DEF L
<1>2. 0 \in T
  <2>1. L - 0 = L /\ Stream(os, L) \in Seq(Symbol) /\ <<>> \in Seq(Symbol)
    BY <1>1, StreamSteps DEF L
  <2>2. Stream(os, L - 0) \o <<>> = Stream(os, L)
    BY <2>1, ConcatEmptySeq
  <2> QED  BY <2>1, <2>2
<1>3. ASSUME NEW j \in T PROVE j + 1 \in T
  <2>1. SUFFICES ASSUME j + 1 <= L
                 PROVE  \E d \in Seq(Symbol) : Stream(os, L - (j + 1)) \o d = Stream(os, L)
    OBVIOUS
  <2> DEFINE k == L - (j + 1)
  <2>2. k \in 0 .. L - 1 /\ k \in 0 .. L /\ k + 1 = L - j /\ j \in Nat /\ j <= L
    BY <1>1, <2>1
  <2>3. PICK d \in Seq(Symbol) : Stream(os, k + 1) \o d = Stream(os, L)
    BY <1>3, <2>2
  <2> HIDE DEF k
  <2>4. /\ Stream(os, k + 1) = Stream(os, k) \o Encode(os[k + 1])
        /\ Stream(os, k) \in Seq(Symbol) /\ Encode(os[k + 1]) \in Seq(Symbol)
    BY <2>2, StreamSteps, EncodeShape DEF L
  <2>5. (Stream(os, k) \o Encode(os[k + 1])) \o d = Stream(os, k) \o (Encode(os[k + 1]) \o d)
    BY <2>4, ConcatAssociative, SMTT(30)
  <2>6. Encode(os[k + 1]) \o d \in Seq(Symbol)
    BY <2>4, ConcatProperties
  <2>7. Stream(os, k) \o (Encode(os[k + 1]) \o d) = Stream(os, L)
    BY <2>3, <2>4, <2>5, Zenon
  <2> QED  BY <2>6, <2>7 DEF k
<1>4. T = Nat
  <2>1. T \in SUBSET Nat
    OBVIOUS
  <2> HIDE DEF T
  <2> QED  BY <1>2, <1>3, <2>1, SetInduction
<1>5. L - n \in Nat /\ L - n <= L /\ L - (L - n) = n
  BY <1>1 DEF L
<1>6. L - n \in T
  BY <1>4, <1>5
<1> QED  BY <1>5, <1>6 DEF L

\* What Take does with one more symbol.
LEMMA TakenSteps ==
  /\ Taken(<<>>) = [records |-> <<>>, rest |-> <<>>]
  /\ \A c \in Seq(Symbol) : Taken(c) \in Buffer
  /\ \A c \in Seq(Symbol), x \in Symbol :
       /\ x = Newline => /\ Taken(Append(c, x)).records = Taken(c).records \o Parsed(Taken(c).rest)
                         /\ Taken(Append(c, x)).rest = <<>>
       /\ x # Newline => /\ Taken(Append(c, x)).records = Taken(c).records
                         /\ Taken(Append(c, x)).rest = Append(Taken(c).rest, x)
<1> DEFINE Entry == [word : Nat, fileIndex : Nat, lineNo : Nat]
           start == [records |-> <<>>, rest |-> <<>>]
<1>1. start \in Buffer
  <2>1. <<>> \in Seq(Entry) /\ <<>> \in Seq(Symbol)
    OBVIOUS
  <2> QED  BY <2>1 DEF Buffer
<1>2. \A b \in Buffer : b = [records |-> b.records, rest |-> b.rest] /\ b.records \in Seq(Entry) /\ b.rest \in Seq(Symbol)
  BY DEF Buffer
<1>3. \A b \in Buffer, x \in Symbol :
         Take[b][x] = IF x = Newline THEN [records |-> b.records \o Parsed(b.rest), rest |-> <<>>]
                                     ELSE [b EXCEPT !.rest = Append(@, x)]
  BY DEF Take
<1>4. \A line \in Seq(Symbol) : Parsed(line) \in Seq(Entry)
  <2>1. ASSUME NEW line \in Seq(Symbol), Readable(line) PROVE Record(line) \in Entry
    <3>1. Len(line) >= 3 /\ line[1] \in Symbol /\ line[2] \in Symbol /\ line[3] \in Symbol
      BY <2>1, ElementOfSeq, LenProperties DEF Readable
    <3> QED  BY <3>1 DEF Record, Symbol
  <2>2. ASSUME NEW line \in Seq(Symbol), Readable(line) PROVE <<Record(line)>> \in Seq(Entry)
    BY <2>1, <2>2
  <2>3. <<>> \in Seq(Entry)
    OBVIOUS
  <2> QED  BY <2>2, <2>3, Zenon DEF Parsed
<1>5. \A b \in Buffer, x \in Symbol :
        /\ x = Newline => Take[b][x] = [records |-> b.records \o Parsed(b.rest), rest |-> <<>>]
        /\ x # Newline => Take[b][x] = [records |-> b.records, rest |-> Append(b.rest, x)]
  <2>1. ASSUME NEW b \in Buffer, NEW x \in Symbol
        PROVE  [b EXCEPT !.rest = Append(@, x)] = [records |-> b.records, rest |-> Append(b.rest, x)]
    <3> DEFINE u == b.records
               v == b.rest
               w == Append(b.rest, x)
    <3>1. b = [records |-> u, rest |-> v]
      BY <1>2
    <3> HIDE DEF u, v, w
    <3>2. [b EXCEPT !.rest = w] = [records |-> u, rest |-> w]
      BY <3>1
    <3> QED  BY <3>2, Zenon DEF u, v, w
  <2> QED  BY <1>3, <2>1, Zenon
<1> HIDE DEF start
<1>6. ASSUME NEW b \in Buffer, NEW x \in Symbol PROVE Take[b][x] \in Buffer
  <2>1. CASE x = Newline
    <3>1. b.records \o Parsed(b.rest) \in Seq(Entry) /\ <<>> \in Seq(Symbol)
      BY <1>2, <1>4, ConcatProperties
    <3>2. [records |-> b.records \o Parsed(b.rest), rest |-> <<>>] \in Buffer
      BY <3>1 DEF Buffer
    <3> QED  BY <1>5, <2>1, <3>2, Zenon
  <2>2. CASE x # Newline
    <3>1. b.records \in Seq(Entry) /\ Append(b.rest, x) \in Seq(Symbol)
      BY <1>2, AppendProperties
    <3>2. [records |-> b.records, rest |-> Append(b.rest, x)] \in Buffer
      BY <3>1 DEF Buffer
    <3> QED  BY <1>5, <2>2, <3>2, Zenon
  <2> QED  BY <2>1, <2>2
<1>7. /\ Accumulate(Take, start, <<>>) = start
      /\ \A c \in Seq(Symbol) : Accumulate(Take, start, c) \in Buffer
      /\ \A c \in Seq(Symbol), x \in Symbol :
           Accumulate(Take, start, Append(c, x)) = Take[Accumulate(Take, start, c)][x]
  <2>1. Loop(Buffer, Symbol, Take, start)
    BY <1>1, <1>6 DEF Loop
  <2> QED  BY <2>1, AccumulateSteps
<1>8. \A c : Taken(c) = Accumulate(Take, start, c)
  BY Zenon DEF Taken, start
<1>9. /\ Taken(<<>>) = start
      /\ \A c \in Seq(Symbol) : Taken(c) \in Buffer
      /\ \A c \in Seq(Symbol), x \in Symbol : Taken(Append(c, x)) = Take[Taken(c)][x]
  BY <1>7, <1>8, Zenon
<1>10. ASSUME NEW c \in Seq(Symbol), NEW x \in Symbol
       PROVE  /\ x = Newline => /\ Taken(Append(c, x)).records = Taken(c).records \o Parsed(Taken(c).rest)
                                /\ Taken(Append(c, x)).rest = <<>>
              /\ x # Newline => /\ Taken(Append(c, x)).records = Taken(c).records
                                /\ Taken(Append(c, x)).rest = Append(Taken(c).rest, x)
  <2> DEFINE b == Taken(c)
             a == Taken(Append(c, x))
  <2>1. b \in Buffer /\ a = Take[b][x]
    BY <1>9
  <2> HIDE DEF a, b
  <2>2. /\ x = Newline => a = [records |-> b.records \o Parsed(b.rest), rest |-> <<>>]
        /\ x # Newline => a = [records |-> b.records, rest |-> Append(b.rest, x)]
    BY <1>5, <2>1, Zenon
  <2>3. /\ x = Newline => a.records = b.records \o Parsed(b.rest) /\ a.rest = <<>>
        /\ x # Newline => a.records = b.records /\ a.rest = Append(b.rest, x)
    <3>1. \A u, v : [records |-> u, rest |-> v].records = u /\ [records |-> u, rest |-> v].rest = v
      OBVIOUS
    <3> QED  BY <2>2, <3>1, ZenonT(60)
  <2> QED  BY <2>3, Zenon DEF a, b
<1> QED  BY <1>9, <1>10, Zenon DEF start

\* Symbols put end to end.
LEMMA Longer ==
  \A s, t \in Seq(Symbol) : s \o t \in Seq(Symbol) /\ Len(s \o t) = Len(s) + Len(t)
BY ConcatProperties

LEMMA Associative ==
  \A s, t, u \in Seq(Symbol) : (s \o t) \o u = s \o (t \o u)
BY ConcatAssociative

Entries == [word : Nat, fileIndex : Nat, lineNo : Nat]

LEMMA AssociativeEntries ==
  \A s, t, u \in Seq(Entries) : (s \o t) \o u = s \o (t \o u)
BY ConcatAssociative

LEMMA CancelLeft ==
  \A s, t, u \in Seq(Symbol) : s \o t = s \o u => t = u
BY ConcatSimplifications

\* A part of a sequence of symbols.
LEMMA CutLength ==
  ASSUME NEW w \in Seq(Symbol), NEW a \in Nat \ {0}, NEW b \in Nat, b <= Len(w)
  PROVE  /\ SubSeq(w, a, b) \in Seq(Symbol)
         /\ Len(SubSeq(w, a, b)) = IF a <= b THEN b - a + 1 ELSE 0
<1>1. \A n \in a .. b : w[n] \in Symbol
  BY LenProperties, ElementOfSeq
<1>2. a \in Int /\ b \in Int
  OBVIOUS
<1> QED  BY <1>1, <1>2, SubSeqProperties

NoNewline(line) == \A k \in DOMAIN line : line[k] # Newline

SameText(r, d, f, e) == Append(r, Newline) \o d = Append(f, Newline) \o e

\* Two lines that are continued by a newline to the same sequence are equal.
LEMMA FirstNewline ==
  ASSUME NEW r \in Seq(Symbol), NEW f \in Seq(Symbol), NEW d \in Seq(Symbol), NEW e \in Seq(Symbol),
         NoNewline(r), NoNewline(f),
         SameText(r, d, f, e)
  PROVE  r = f
<1> DEFINE R == Append(r, Newline)
           F == Append(f, Newline)
<1>0. Len(r) \in Nat /\ Len(f) \in Nat
  BY LenProperties
<1>1. /\ Newline \in Symbol /\ Len(r) \in Nat /\ Len(f) \in Nat /\ Len(d) \in Nat /\ Len(e) \in Nat
      /\ DOMAIN r = 1 .. Len(r) /\ DOMAIN f = 1 .. Len(f)
  BY SymbolTypes, LenProperties
<1>2. /\ R \in Seq(Symbol) /\ Len(R) = Len(r) + 1 /\ R[Len(r) + 1] = Newline
      /\ \A k \in 1 .. Len(r) : R[k] = r[k]
  BY <1>1, AppendProperties
<1>3. /\ F \in Seq(Symbol) /\ Len(F) = Len(f) + 1 /\ F[Len(f) + 1] = Newline
      /\ \A k \in 1 .. Len(f) : F[k] = f[k]
  BY <1>1, AppendProperties
<1> HIDE DEF R, F
<1>4. \A k \in 1 .. Len(r) + 1 + Len(d) : (R \o d)[k] = IF k <= Len(r) + 1 THEN R[k] ELSE d[k - (Len(r) + 1)]
  BY <1>2, ConcatProperties
<1>5. \A k \in 1 .. Len(f) + 1 + Len(e) : (F \o e)[k] = IF k <= Len(f) + 1 THEN F[k] ELSE e[k - (Len(f) + 1)]
  BY <1>3, ConcatProperties
<1>6. R \o d = F \o e
  BY Zenon DEF R, F, SameText
<1>7. Len(r) + 1 + Len(d) = Len(f) + 1 + Len(e)
  <2>1. Len(R \o d) = Len(r) + 1 + Len(d)
    <3>1. Len(R \o d) = Len(R) + Len(d)
      BY <1>2, Longer, Zenon
    <3> QED  BY <1>2, <3>1, Zenon
  <2>2. Len(F \o e) = Len(f) + 1 + Len(e)
    <3>1. Len(F \o e) = Len(F) + Len(e)
      BY <1>3, Longer, Zenon
    <3> QED  BY <1>3, <3>1, Zenon
  <2> QED  BY <1>6, <2>1, <2>2
<1>8. \A k \in Nat \ {0} : k <= Len(r) + 1 /\ k <= Len(f) + 1 => R[k] = F[k]
  <2>1. SUFFICES ASSUME NEW k \in Nat \ {0}, k <= Len(r) + 1, k <= Len(f) + 1 PROVE R[k] = F[k]
    OBVIOUS
  <2>2. k \in 1 .. Len(r) + 1 + Len(d) /\ k \in 1 .. Len(f) + 1 + Len(e)
    BY <1>1, <2>1
  <2>3. (R \o d)[k] = R[k] /\ (F \o e)[k] = F[k]
    BY <1>4, <1>5, <2>1, <2>2
  <2> QED  BY <1>6, <2>3
<1>9. Len(r) = Len(f)
  <2>1. CASE Len(r) < Len(f)
    <3>1. R[Len(r) + 1] = F[Len(r) + 1] /\ Len(r) + 1 \in 1 .. Len(f)
      BY <1>1, <1>8, <2>1
    <3> QED  BY <1>1, <1>2, <1>3, <3>1 DEF NoNewline
  <2>2. CASE Len(f) < Len(r)
    <3>0. Len(f) + 1 \in 1 .. Len(r) /\ Len(f) + 1 \in Nat \ {0} /\ Len(f) + 1 <= Len(r) + 1 /\ Len(f) + 1 <= Len(f) + 1
      BY <1>0, <2>2
    <3>1. R[Len(f) + 1] = F[Len(f) + 1]
      BY <1>8, <3>0
    <3> QED  BY <1>1, <1>2, <1>3, <3>0, <3>1 DEF NoNewline
  <2>3. Len(r) < Len(f) \/ Len(f) < Len(r) \/ Len(r) = Len(f)
    BY <1>0
  <2> QED  BY <2>1, <2>2, <2>3
<1>10. \A k \in 1 .. Len(r) : r[k] = f[k]
  BY <1>1, <1>2, <1>3, <1>8, <1>9
<1> QED  BY <1>9, <1>10, SeqEqual

\* c stands in the stream behind record m.
Behind(os, m, c) ==
  \E d \in Seq(Symbol) : (Stream(os, m) \o c) \o d = Stream(os, Len(os))

\* What the parent has made of c, which stands behind record m.
Reassembled(os, m, c) ==
  \E k \in m .. Len(os) :
    /\ Stream(os, k) \o Taken(c).rest = Stream(os, m) \o c
    /\ Understood(os, m) \o Taken(c).records = Understood(os, k)

\* One more symbol.
LEMMA ReassembleStep ==
  ASSUME NEW os \in Seq(Occurrence), NEW m \in 0 .. Len(os), NEW c \in Seq(Symbol), NEW x \in Symbol,
         Behind(os, m, Append(c, x)), Reassembled(os, m, c), NoNewline(Taken(c).rest)
  PROVE  Reassembled(os, m, Append(c, x)) /\ NoNewline(Taken(Append(c, x)).rest)
<1> DEFINE L == Len(os)
           r == Taken(c).rest
           a == Taken(c).records
<1>1. L \in Nat /\ m \in 0 .. L
  BY LenProperties
<1>2. /\ r \in Seq(Symbol)
      /\ a \in Seq([word : Nat, fileIndex : Nat, lineNo : Nat])
  BY TakenSteps DEF Buffer
<1>3. PICK k \in m .. L : /\ Stream(os, k) \o r = Stream(os, m) \o c
                          /\ Understood(os, m) \o a = Understood(os, k)
  BY DEF Reassembled
<1>4. PICK d \in Seq(Symbol) : (Stream(os, m) \o Append(c, x)) \o d = Stream(os, L)
  BY DEF Behind
<1>5. k \in 0 .. L /\ Stream(os, k) \in Seq(Symbol) /\ Stream(os, m) \in Seq(Symbol)
  BY <1>1, StreamSteps
<1>6. Stream(os, m) \o Append(c, x) = Stream(os, k) \o Append(r, x)
  <2>1. Append(c, x) = c \o <<x>> /\ Append(r, x) = r \o <<x>> /\ <<x>> \in Seq(Symbol)
    BY <1>2, AppendIsConcat
  <2>2. Stream(os, m) \o (c \o <<x>>) = (Stream(os, m) \o c) \o <<x>>
    BY <1>5, <2>1, ConcatAssociative, SMTT(30)
  <2>3. Stream(os, k) \o (r \o <<x>>) = (Stream(os, k) \o r) \o <<x>>
    BY <1>2, <1>5, <2>1, Associative, ZenonT(60)
  <2> QED  BY <1>3, <2>1, <2>2, <2>3, Zenon
<1>7. Append(r, x) \in Seq(Symbol)
  BY <1>2, AppendProperties
<1>8. CASE x # Newline
  <2>1. Taken(Append(c, x)).rest = Append(r, x) /\ Taken(Append(c, x)).records = a
    BY <1>8, TakenSteps
  <2>2. NoNewline(Append(r, x))
    <3>1. NoNewline(r) /\ Len(r) \in Nat /\ DOMAIN r = 1 .. Len(r)
      BY <1>2, LenProperties
    <3>2. /\ Len(Append(r, x)) = Len(r) + 1 /\ Append(r, x)[Len(r) + 1] = x
          /\ \A j \in 1 .. Len(r) : Append(r, x)[j] = r[j]
          /\ DOMAIN Append(r, x) = 1 .. Len(r) + 1
      BY <1>2, AppendProperties
    <3> HIDE DEF r
    <3> QED  BY <1>8, <3>1, <3>2 DEF NoNewline
  <2> HIDE DEF r, a
  <2>3. Reassembled(os, m, Append(c, x))
    BY <1>3, <1>6, <2>1 DEF Reassembled, L
  <2> QED  BY <2>1, <2>2, <2>3, Zenon
<1>9. CASE x = Newline
  <2>1. Taken(Append(c, x)).rest = <<>> /\ Taken(Append(c, x)).records = a \o Parsed(r)
    BY <1>9, TakenSteps
  <2>2. NoNewline(r)
    OBVIOUS
  <2> HIDE DEF r, a
  <2>3. Stream(os, k) \o (Append(r, x) \o d) = Stream(os, L) /\ Append(r, x) \o d \in Seq(Symbol)
    <3>1. (Stream(os, k) \o Append(r, x)) \o d = Stream(os, k) \o (Append(r, x) \o d)
      BY <1>5, <1>7, Associative, ZenonT(60)
    <3>2. Append(r, x) \o d \in Seq(Symbol)
      BY <1>7, ConcatProperties
    <3> QED  BY <1>4, <1>6, <3>1, <3>2, Zenon
  <2>4. k # L
    <3>1. SUFFICES ASSUME k = L PROVE FALSE
      OBVIOUS
    <3>2. Append(r, x) \o d = <<>>
      BY <1>5, <2>3, <3>1, ConcatEqualIffEmpty
    <3>3. Len(Append(r, x) \o d) = Len(Append(r, x)) + Len(d) /\ Len(d) \in Nat
      BY <1>7, ConcatProperties, LenProperties
    <3>4. Len(Append(r, x)) = Len(r) + 1 /\ Len(r) \in Nat
      BY <1>2, AppendProperties, LenProperties
    <3>5. Len(<<>>) = 0
      OBVIOUS
    <3> QED  BY <3>2, <3>3, <3>4, <3>5
  <2>5. k \in 0 .. L - 1 /\ k + 1 \in 0 .. L /\ k + 1 \in m .. L
    BY <1>1, <1>5, <2>4
  <2> DEFINE z == os[k + 1]
             f == Front(Encode(z))
  <2>6. /\ z \in Occurrence
        /\ Stream(os, k + 1) = Stream(os, k) \o Encode(z)
        /\ Understood(os, k + 1) = Understood(os, k) \o Parsed(f)
    BY <2>5, StreamSteps DEF L
  <2>7. f \in Seq(Symbol) /\ NoNewline(f) /\ Encode(z) = Append(f, Newline) /\ Encode(z) \in Seq(Symbol)
    BY <2>6, EncodeShape DEF NoNewline
  <2> HIDE DEF f
  <2>8. PICK e \in Seq(Symbol) : Stream(os, k + 1) \o e = Stream(os, L)
    BY <2>5, StreamPrefix DEF L
  <2> HIDE DEF z
  <2>9. Append(r, x) \o d = Append(f, x) \o e
    <3>0. Encode(z) \in Seq(Symbol) /\ Stream(os, k) \in Seq(Symbol) /\ e \in Seq(Symbol)
      BY <1>5, <2>7
    <3>1. (Stream(os, k) \o Encode(z)) \o e = Stream(os, k) \o (Encode(z) \o e)
      BY <3>0, Associative, ZenonT(60)
    <3>2. Encode(z) \o e \in Seq(Symbol)
      BY <2>7, ConcatProperties
    <3>3. Stream(os, k) \o (Encode(z) \o e) = Stream(os, k) \o (Append(r, x) \o d)
      BY <2>3, <2>6, <2>8, <3>1, Zenon
    <3>4. Encode(z) \o e = Append(r, x) \o d
      <4> DEFINE u == Encode(z) \o e
                 v == Append(r, x) \o d
                 w == Stream(os, k)
      <4>1. u \in Seq(Symbol) /\ v \in Seq(Symbol) /\ w \in Seq(Symbol) /\ w \o u = w \o v
        BY <1>5, <2>3, <3>2, <3>3
      <4> HIDE DEF u, v, w
      <4>2. u = v
        BY <4>1, CancelLeft, Zenon
      <4> QED  BY <4>2 DEF u, v
    <3> QED  BY <1>9, <2>7, <3>4, Zenon
  <2>10. r = f
    BY <1>2, <1>9, <2>2, <2>7, <2>9, FirstNewline DEF SameText
  <2>11. Stream(os, k + 1) \o <<>> = Stream(os, m) \o Append(c, x)
    <3>1. Stream(os, k + 1) = Stream(os, m) \o Append(c, x)
      BY <1>6, <1>9, <2>6, <2>7, <2>10, Zenon
    <3>2. Stream(os, k + 1) \in Seq(Symbol)
      BY <2>5, StreamSteps DEF L
    <3> QED  BY <3>1, <3>2, ConcatEmptySeq
  <2>12. Understood(os, m) \o (a \o Parsed(r)) = Understood(os, k + 1)
    <3>1. Understood(os, m) \in Seq(Entries) /\ Parsed(r) \in Seq(Entries)
      <4>1. Occurrence \subseteq Entries
        BY WordIndexAssumption DEF Occurrence, Entries
      <4>2. Understood(os, m) \in Seq(Occurrence) /\ Parsed(r) \in Seq(Occurrence)
        BY <1>1, <2>6, <2>10, StreamSteps, ParsedEntry DEF f, L
      <4> QED  BY <4>1, <4>2, SeqMonotonic
    <3>2. a \in Seq(Entries)
      BY <1>2 DEF Entries
    <3>3. (Understood(os, m) \o a) \o Parsed(r) = Understood(os, m) \o (a \o Parsed(r))
      BY <3>1, <3>2, AssociativeEntries, Zenon
    <3> QED  BY <1>3, <2>6, <2>10, <3>3, Zenon
  <2>13. Reassembled(os, m, Append(c, x))
    BY <2>1, <2>5, <2>11, <2>12 DEF Reassembled, L
  <2>14. NoNewline(<<>>)
    BY DEF NoNewline
  <2> QED  BY <2>1, <2>13, <2>14, Zenon
<1> QED  BY <1>8, <1>9

\* Wherever the parent cuts the stream, it understands exactly the records that are
\* complete and keeps the beginning of the next one.
LEMMA Reassembly ==
  ASSUME NEW os \in Seq(Occurrence), NEW m \in 0 .. Len(os), NEW c \in Seq(Symbol), Behind(os, m, c)
  PROVE  Reassembled(os, m, c) /\ NoNewline(Taken(c).rest)
<1> DEFINE Good(b) == Reassembled(os, m, b) /\ NoNewline(Taken(b).rest)
           V == {b \in Seq(Symbol) : Behind(os, m, b) => Good(b)}
<1>1. <<>> \in V
  <2>1. Taken(<<>>).records = <<>> /\ Taken(<<>>).rest = <<>>
    BY TakenSteps
  <2>2. m \in m .. Len(os) /\ Stream(os, m) \in Seq(Symbol) /\ Understood(os, m) \in Seq(Occurrence)
    BY LenProperties, StreamSteps
  <2>3. Understood(os, m) \o <<>> = Understood(os, m)
    BY <2>2, ConcatEmptySeq
  <2>4. Reassembled(os, m, <<>>)
    <3>1. /\ Stream(os, m) \o Taken(<<>>).rest = Stream(os, m) \o <<>>
          /\ Understood(os, m) \o Taken(<<>>).records = Understood(os, m)
      BY <2>1, <2>3, Zenon
    <3> QED  BY <2>2, <3>1, Zenon DEF Reassembled
  <2>5. NoNewline(Taken(<<>>).rest)
    BY <2>1 DEF NoNewline
  <2>6. <<>> \in Seq(Symbol)
    OBVIOUS
  <2> QED  BY <2>4, <2>5, <2>6, Zenon
<1>2. ASSUME NEW b \in Seq(Symbol), NEW x \in Symbol, b \in V PROVE Append(b, x) \in V
  <2>1. Append(b, x) \in Seq(Symbol)
    BY AppendProperties
  <2>2. ASSUME Behind(os, m, Append(b, x)) PROVE Good(Append(b, x))
    <3>1. PICK d \in Seq(Symbol) : (Stream(os, m) \o Append(b, x)) \o d = Stream(os, Len(os))
      BY <2>2 DEF Behind
    <3>2. (Stream(os, m) \o b) \o (<<x>> \o d) = Stream(os, Len(os)) /\ <<x>> \o d \in Seq(Symbol)
      <4>1. /\ Append(b, x) = b \o <<x>> /\ <<x>> \in Seq(Symbol) /\ Stream(os, m) \in Seq(Symbol)
        BY AppendIsConcat, StreamSteps
      <4>2. Stream(os, m) \o (b \o <<x>>) = (Stream(os, m) \o b) \o <<x>> /\ Stream(os, m) \o b \in Seq(Symbol)
        <5>1. Stream(os, m) \o (b \o <<x>>) = (Stream(os, m) \o b) \o <<x>>
          BY <4>1, Associative, Zenon
        <5>2. Stream(os, m) \o b \in Seq(Symbol)
          BY <4>1, Longer, Zenon
        <5> QED  BY <5>1, <5>2
      <4>3. ((Stream(os, m) \o b) \o <<x>>) \o d = (Stream(os, m) \o b) \o (<<x>> \o d)
        BY <4>1, <4>2, Associative, Zenon
      <4>4. <<x>> \o d \in Seq(Symbol)
        BY <4>1, Longer, Zenon
      <4> QED  BY <3>1, <4>1, <4>2, <4>3, <4>4, Zenon
    <3>3. Behind(os, m, b)
      BY <3>2, Zenon DEF Behind
    <3>4. Good(b)
      BY <1>2, <3>3
    <3> QED  BY <2>2, <3>4, ReassembleStep
  <2> QED  BY <2>1, <2>2
<1>3. Seq(Symbol) \subseteq V
  <2> HIDE DEF V
  <2> QED  BY <1>1, <1>2, AppendInduction
<1> QED  BY <1>3

-----------------------------------------------------------------------------
(* One pipe, from the child to what the parent has understood.             *)

\* What a child has written when it is at symbol f of record r.
Sent(os, r, f) == SubSeq(Stream(os, Len(os)), 1, Len(Stream(os, r - 1)) + f)

Place(os, r, f) ==
  /\ os \in Seq(Occurrence)
  /\ r \in 1 .. Len(os) + 1
  /\ f \in 0 .. IF r <= Len(os) THEN Len(Encode(os[r])) - 1 ELSE 0

\* The parent has understood h, keeps b, and p is in the pipe.
Intact(os, r, f, p, b, h) ==
  \E m \in 0 .. Len(os) :
    /\ Stream(os, m) \o b \o p = Sent(os, r, f)
    /\ h = Understood(os, m)

\* The records up to r.
LEMMA RecordOfStream ==
  ASSUME NEW os, NEW r, NEW f, Place(os, r, f)
  PROVE  /\ os \in Seq(Occurrence) /\ Len(os) \in Nat /\ r \in Nat
         /\ Stream(os, r - 1) \in Seq(Symbol) /\ Len(Stream(os, r - 1)) \in Nat
         /\ Stream(os, Len(os)) \in Seq(Symbol) /\ Len(Stream(os, Len(os))) \in Nat
         /\ f \in Nat
         /\ r <= Len(os) => /\ Encode(os[r]) \in Seq(Symbol) /\ Len(Encode(os[r])) \in Nat
                            /\ f < Len(Encode(os[r]))
                            /\ Stream(os, r) = Stream(os, r - 1) \o Encode(os[r])
                            /\ Len(Stream(os, r)) = Len(Stream(os, r - 1)) + Len(Encode(os[r]))
                            /\ \E d \in Seq(Symbol) :
                                 (Stream(os, r - 1) \o Encode(os[r])) \o d = Stream(os, Len(os))
         /\ ~ (r <= Len(os)) => r = Len(os) + 1 /\ f = 0
<1>1. /\ os \in Seq(Occurrence) /\ r \in 1 .. Len(os) + 1
      /\ f \in 0 .. IF r <= Len(os) THEN Len(Encode(os[r])) - 1 ELSE 0
  BY DEF Place
<1>2. Len(os) \in Nat /\ r \in Nat /\ r - 1 \in 0 .. Len(os) /\ Len(os) \in 0 .. Len(os)
  BY <1>1, LenProperties
<1>3. /\ Stream(os, r - 1) \in Seq(Symbol) /\ Stream(os, Len(os)) \in Seq(Symbol)
      /\ Len(Stream(os, r - 1)) \in Nat /\ Len(Stream(os, Len(os))) \in Nat
  <2>1. Stream(os, r - 1) \in Seq(Symbol) /\ Stream(os, Len(os)) \in Seq(Symbol)
    BY <1>1, <1>2, StreamSteps
  <2> QED  BY <2>1, LenProperties
<1>4. CASE r <= Len(os)
  <2>1. r - 1 \in 0 .. Len(os) - 1 /\ r \in 0 .. Len(os) /\ (r - 1) + 1 = r
    BY <1>2, <1>4
  <2>2. os[r] \in Occurrence /\ Stream(os, r) = Stream(os, r - 1) \o Encode(os[r])
    BY <1>1, <2>1, StreamSteps
  <2>3. Encode(os[r]) \in Seq(Symbol) /\ Len(Encode(os[r])) \in Nat
    BY <2>2, EncodeShape, LenProperties
  <2>4. \E d \in Seq(Symbol) : Stream(os, r) \o d = Stream(os, Len(os))
    BY <1>1, <2>1, StreamPrefix
  <2>5. Len(Stream(os, r)) = Len(Stream(os, r - 1)) + Len(Encode(os[r]))
    BY <1>3, <2>2, <2>3, Longer, Zenon
  <2>6. f \in 0 .. Len(Encode(os[r])) - 1
    BY <1>1, <1>4
  <2>7. f \in Nat /\ f < Len(Encode(os[r]))
    BY <2>3, <2>6
  <2> QED  BY <1>1, <1>2, <1>3, <1>4, <2>2, <2>3, <2>4, <2>5, <2>7
<1>5. CASE ~ (r <= Len(os))
  <2>1. r = Len(os) + 1 /\ f = 0 /\ f \in Nat
    BY <1>1, <1>2, <1>5
  <2> QED  BY <1>1, <1>2, <1>3, <1>5, <2>1
<1> QED  BY <1>4, <1>5

\* What is sent is the beginning of the stream.
LEMMA SentPrefix ==
  ASSUME NEW os, NEW r, NEW f, Place(os, r, f)
  PROVE  /\ Sent(os, r, f) \in Seq(Symbol)
         /\ \E d \in Seq(Symbol) : Sent(os, r, f) \o d = Stream(os, Len(os))
<1> DEFINE w == Stream(os, Len(os))
           k == Len(Stream(os, r - 1)) + f
<1>1. w \in Seq(Symbol) /\ Len(w) \in Nat
  BY RecordOfStream
<1>2. k \in 0 .. Len(w)
  <2>1. CASE r <= Len(os)
    <3> DEFINE s == Stream(os, r - 1)
               e == Encode(os[r])
    <3>1. PICK d \in Seq(Symbol) : (s \o e) \o d = w
      BY <2>1, RecordOfStream
    <3>2. s \in Seq(Symbol) /\ e \in Seq(Symbol) /\ f \in Nat /\ f < Len(e) /\ Len(s) \in Nat /\ Len(e) \in Nat
      BY <2>1, RecordOfStream
    <3> HIDE DEF s, e, w
    <3>3. Len(s \o e) = Len(s) + Len(e) /\ s \o e \in Seq(Symbol)
      BY <3>2, Longer, Zenon
    <3>4. Len((s \o e) \o d) = Len(s \o e) + Len(d)
      BY <3>3, Longer, Zenon
    <3>5. Len(d) \in Nat
      BY LenProperties
    <3>6. Len(s) + f \in 0 .. Len(w)
      BY <3>1, <3>2, <3>3, <3>4, <3>5
    <3> QED  BY <3>6 DEF s
  <2>2. CASE ~ (r <= Len(os))
    <3>1. r = Len(os) + 1 /\ f = 0 /\ Len(os) \in Nat
      BY <2>2, RecordOfStream
    <3>2. r - 1 = Len(os)
      BY <3>1
    <3>3. k = Len(w) + 0
      BY <3>1, <3>2, Zenon
    <3> HIDE DEF k, w
    <3> QED  BY <1>1, <3>3
  <2> QED  BY <2>1, <2>2
<1> HIDE DEF w, k
<1>3. \A n \in 1 .. Len(w) : w[n] \in Symbol
  BY <1>1, ElementOfSeq
<1>4. SubSeq(w, 1, k) \in Seq(Symbol) /\ SubSeq(w, k + 1, Len(w)) \in Seq(Symbol)
  <2>1. 1 \in Nat \ {0} /\ k \in Nat /\ k <= Len(w) /\ k + 1 \in Nat \ {0} /\ Len(w) \in Nat /\ Len(w) <= Len(w)
    BY <1>1, <1>2
  <2> QED  BY <1>1, <2>1, CutLength
<1>5. SubSeq(w, 1, k) \o SubSeq(w, k + 1, Len(w)) = SubSeq(w, 1, Len(w))
  <2>1. 1 \in 1 .. Len(w) + 1 /\ k \in 1 - 1 .. Len(w) /\ Len(w) \in k .. Len(w)
    BY <1>1, <1>2
  <2> QED  BY <1>1, <2>1, ConcatAdjacentSubSeq
<1>6. SubSeq(w, 1, Len(w)) = w
  BY <1>1, SubSeqFull
<1>7. Sent(os, r, f) = SubSeq(w, 1, k)
  BY Zenon DEF Sent, w, k
<1> QED  BY <1>4, <1>5, <1>6, <1>7, Zenon DEF w

\* Where a child is after n symbols of record r.
LEMMA NextPlace ==
  ASSUME NEW os, NEW r, NEW f, Place(os, r, f), r <= Len(os), NEW n \in f + 1 .. Len(Encode(os[r])), NEW next,
         next = AfterChunk(r, n, Len(Encode(os[r])))
  PROVE  /\ Place(os, next.rec, next.off)
         /\ Sent(os, next.rec, next.off) = Sent(os, r, f) \o SubSeq(Encode(os[r]), f + 1, n)
<1> DEFINE w == Stream(os, Len(os))
           s == Stream(os, r - 1)
           e == Encode(os[r])
<1>1. /\ os \in Seq(Occurrence) /\ Len(os) \in Nat /\ r \in Nat /\ f \in Nat
      /\ s \in Seq(Symbol) /\ Len(s) \in Nat /\ e \in Seq(Symbol) /\ Len(e) \in Nat
      /\ w \in Seq(Symbol) /\ Len(w) \in Nat
      /\ Stream(os, r) = s \o e /\ Len(Stream(os, r)) = Len(s) + Len(e)
      /\ \E d \in Seq(Symbol) : (s \o e) \o d = w
  BY RecordOfStream
<1>2. r \in 1 .. Len(os) + 1
  BY DEF Place
<1>3. PICK d \in Seq(Symbol) : (s \o e) \o d = w
  BY <1>1
<1>4. n \in Nat /\ f + 1 <= n /\ n <= Len(e)
  BY <1>1
<1> HIDE DEF w, s, e
<1>5. ASSUME n = Len(e)
      PROVE  Place(os, next.rec, next.off) /\ Sent(os, next.rec, next.off) = SubSeq(w, 1, Len(s) + n)
  <2>1. next = [rec |-> r + 1, off |-> 0]
    BY <1>5, Zenon DEF AfterChunk, e
  <2>2. next.rec = r + 1 /\ next.off = 0
    BY <2>1
  <2>3. Place(os, r + 1, 0)
    <3>1. r + 1 \in 1 .. Len(os) + 1
      BY <1>1
    <3>2. ASSUME r + 1 <= Len(os) PROVE 0 \in 0 .. Len(Encode(os[r + 1])) - 1
      <4>1. os[r + 1] \in Occurrence
        BY <1>1, <3>1, <3>2, ElementOfSeq
      <4>2. Encode(os[r + 1]) \in Seq(Symbol) /\ Len(Encode(os[r + 1])) >= 3
        BY <4>1, EncodeShape
      <4> QED  BY <4>2, LenProperties
    <3>3. 0 \in 0 .. IF r + 1 <= Len(os) THEN Len(Encode(os[r + 1])) - 1 ELSE 0
      BY <3>2
    <3> QED  BY <1>1, <3>1, <3>3 DEF Place
  <2>4. Sent(os, r + 1, 0) = SubSeq(w, 1, Len(s) + n)
    <3>1. (r + 1) - 1 = r
      BY <1>1
    <3>2. Len(Stream(os, r)) + 0 = Len(s) + n
      BY <1>1, <1>5
    <3> QED  BY <3>1, <3>2, Zenon DEF Sent, w
  <2> QED  BY <2>2, <2>3, <2>4, Zenon
<1>6. ASSUME n # Len(e)
      PROVE  Place(os, next.rec, next.off) /\ Sent(os, next.rec, next.off) = SubSeq(w, 1, Len(s) + n)
  <2>1. next = [rec |-> r, off |-> n]
    BY <1>6, Zenon DEF AfterChunk, e
  <2>2. next.rec = r /\ next.off = n
    BY <2>1
  <2>3. Place(os, r, n)
    <3>1. n \in 0 .. Len(e) - 1
      BY <1>1, <1>4, <1>6
    <3>2. n \in 0 .. IF r <= Len(os) THEN Len(e) - 1 ELSE 0
      BY <3>1
    <3> QED  BY <1>1, <1>2, <3>2 DEF Place, e
  <2>4. Sent(os, r, n) = SubSeq(w, 1, Len(s) + n)
    BY Zenon DEF Sent, w, s
  <2> QED  BY <2>2, <2>3, <2>4, Zenon
<1>7. Place(os, next.rec, next.off) /\ Sent(os, next.rec, next.off) = SubSeq(w, 1, Len(s) + n)
  BY <1>5, <1>6
<1>8. Len(s) + Len(e) <= Len(w)
  <2>1. Len(s \o e) = Len(s) + Len(e) /\ s \o e \in Seq(Symbol)
    BY <1>1, Longer, Zenon
  <2>2. Len((s \o e) \o d) = Len(s \o e) + Len(d)
    BY <2>1, Longer, Zenon
  <2>3. Len(d) \in Nat
    BY LenProperties
  <2> QED  BY <1>1, <1>3, <2>1, <2>2, <2>3
<1>9. SubSeq(w, 1, Len(s) + f) \o SubSeq(w, Len(s) + f + 1, Len(s) + n) = SubSeq(w, 1, Len(s) + n)
  <2> DEFINE a == Len(s) + f
             b == Len(s) + n
  <2>1. 1 \in 1 .. Len(w) + 1 /\ a \in 1 - 1 .. Len(w) /\ b \in a .. Len(w)
    BY <1>1, <1>4, <1>8
  <2> HIDE DEF a, b
  <2>2. SubSeq(w, 1, a) \o SubSeq(w, a + 1, b) = SubSeq(w, 1, b)
    BY <1>1, <2>1, ConcatAdjacentSubSeq
  <2> QED  BY <2>2 DEF a, b
<1>10. SubSeq(w, Len(s) + f + 1, Len(s) + n) = SubSeq(e, f + 1, n)
  <2> DEFINE a == Len(s) + f + 1
             b == Len(s) + n
  <2>1. /\ s \o e \in Seq(Symbol) /\ Len(s \o e) = Len(s) + Len(e)
    BY <1>1, Longer, Zenon
  <2>2. /\ a \in 1 .. Len(s \o e) /\ b \in 1 .. Len(s \o e)
        /\ a \in Len(s) + 1 .. Len(s) + Len(e) /\ b \in Len(s) + 1 .. Len(s) + Len(e)
        /\ a - Len(s) = f + 1 /\ b - Len(s) = n
    BY <1>1, <1>4, <2>1
  <2> HIDE DEF a, b
  <2>3. SubSeq((s \o e) \o d, a, b) = SubSeq(s \o e, a, b)
    BY <2>1, <2>2, SubSeqOfConcat1
  <2>4. SubSeq(s \o e, a, b) = SubSeq(e, a - Len(s), b - Len(s))
    BY <1>1, <2>2, SubSeqOfConcat2
  <2>5. SubSeq(w, a, b) = SubSeq(e, f + 1, n)
    BY <1>3, <2>2, <2>3, <2>4, Zenon
  <2> QED  BY <2>5 DEF a, b
<1>11. Sent(os, r, f) = SubSeq(w, 1, Len(s) + f)
  BY Zenon DEF Sent, w, s
<1> QED  BY <1>7, <1>9, <1>10, <1>11, Zenon DEF e

\* A write puts the next piece of the record behind what is in the pipe.
LEMMA WriteKeeps ==
  ASSUME NEW os, NEW r, NEW f, Place(os, r, f), r <= Len(os), NEW n \in f + 1 .. Len(Encode(os[r])), NEW next,
         next = AfterChunk(r, n, Len(Encode(os[r]))),
         NEW p \in Seq(Symbol), NEW b \in Seq(Symbol), NEW h, Intact(os, r, f, p, b, h)
  PROVE  Intact(os, next.rec, next.off, p \o SubSeq(Encode(os[r]), f + 1, n), b, h)
<1> DEFINE c == SubSeq(Encode(os[r]), f + 1, n)
<1>1. Sent(os, next.rec, next.off) = Sent(os, r, f) \o c
  BY NextPlace
<1>2. c \in Seq(Symbol)
  <2>1. Encode(os[r]) \in Seq(Symbol) /\ f \in Nat /\ Len(Encode(os[r])) \in Nat
    BY RecordOfStream
  <2>2. f + 1 \in Nat \ {0} /\ n \in Nat /\ n <= Len(Encode(os[r]))
    BY <2>1
  <2> QED  BY <2>1, <2>2, CutLength
<1> HIDE DEF c
<1>3. PICK m \in 0 .. Len(os) : (Stream(os, m) \o b) \o p = Sent(os, r, f) /\ h = Understood(os, m)
  BY DEF Intact
<1>4. Stream(os, m) \o b \in Seq(Symbol)
  <2>1. Stream(os, m) \in Seq(Symbol)
    BY StreamSteps, RecordOfStream
  <2> QED  BY <2>1, Longer, Zenon
<1>5. ((Stream(os, m) \o b) \o p) \o c = (Stream(os, m) \o b) \o (p \o c)
  BY <1>2, <1>4, Associative, Zenon
<1>6. (Stream(os, m) \o b) \o (p \o c) = Sent(os, next.rec, next.off)
  BY <1>1, <1>3, <1>5, Zenon
<1> QED  BY <1>3, <1>6, Zenon DEF Intact, c

\* A read of k symbols takes every record that is complete now, and keeps the rest.
LEMMA ReadKeeps ==
  ASSUME NEW os, NEW r, NEW f, Place(os, r, f),
         NEW p \in Seq(Symbol), NEW b \in Seq(Symbol), NEW h, Intact(os, r, f, p, b, h),
         NEW k \in 0 .. Len(p), NEW taken, taken = Taken(b \o SubSeq(p, 1, k))
  PROVE  /\ Intact(os, r, f, SubSeq(p, k + 1, Len(p)), taken.rest, h \o taken.records)
         /\ taken.rest \in Seq(Symbol) /\ NoNewline(taken.rest)
         /\ h \o taken.records \in Seq(Occurrence)
<1> DEFINE x == SubSeq(p, 1, k)
           y == SubSeq(p, k + 1, Len(p))
           c == b \o x
<1>1. /\ x \in Seq(Symbol) /\ y \in Seq(Symbol) /\ x \o y = p
  <2>1. Len(p) \in Nat /\ k \in Nat /\ k <= Len(p) /\ Len(p) <= Len(p) /\ k + 1 \in Nat \ {0} /\ 1 \in Nat \ {0}
    BY LenProperties
  <2>2. x \in Seq(Symbol) /\ y \in Seq(Symbol)
    BY <2>1, CutLength
  <2>3. x \o y = SubSeq(p, 1, Len(p))
    <3>1. 1 \in 1 .. Len(p) + 1 /\ k \in 1 - 1 .. Len(p) /\ Len(p) \in k .. Len(p)
      BY <2>1
    <3> QED  BY <3>1, ConcatAdjacentSubSeq
  <2>4. SubSeq(p, 1, Len(p)) = p
    BY SubSeqFull
  <2> QED  BY <2>2, <2>3, <2>4, Zenon
<1> HIDE DEF x, y
<1>2. c \in Seq(Symbol)
  BY <1>1, Longer, Zenon
<1>3. PICK m \in 0 .. Len(os) : (Stream(os, m) \o b) \o p = Sent(os, r, f) /\ h = Understood(os, m)
  BY DEF Intact
<1>4. os \in Seq(Occurrence) /\ Len(os) \in Nat /\ Stream(os, m) \in Seq(Symbol)
  BY RecordOfStream, StreamSteps
<1>5. (Stream(os, m) \o c) \o y = Sent(os, r, f)
  <2>0. Stream(os, m) \in Seq(Symbol) /\ x \in Seq(Symbol)
    BY <1>1, <1>4
  <2>1. Stream(os, m) \o (b \o x) = (Stream(os, m) \o b) \o x
    BY <2>0, Associative, Zenon
  <2>2. Stream(os, m) \o b \in Seq(Symbol)
    BY <1>4, Longer, Zenon
  <2>3. ((Stream(os, m) \o b) \o x) \o y = (Stream(os, m) \o b) \o (x \o y)
    BY <1>1, <2>2, Associative, Zenon
  <2> QED  BY <1>1, <1>3, <2>1, <2>3, Zenon
<1> HIDE DEF c
<1>6. Behind(os, m, c)
  <2>1. PICK d \in Seq(Symbol) : Sent(os, r, f) \o d = Stream(os, Len(os))
    BY SentPrefix
  <2>2. Stream(os, m) \o c \in Seq(Symbol)
    BY <1>2, <1>4, Longer, Zenon
  <2>3. ((Stream(os, m) \o c) \o y) \o d = (Stream(os, m) \o c) \o (y \o d)
    BY <1>1, <2>2, Associative, ZenonT(60)
  <2>4. y \o d \in Seq(Symbol)
    BY <1>1, Longer, Zenon
  <2> QED  BY <1>5, <2>1, <2>3, <2>4, Zenon DEF Behind
<1>7. taken = Taken(c)
  BY Zenon DEF c, x
<1>8. Reassembled(os, m, c) /\ NoNewline(taken.rest)
  BY <1>2, <1>4, <1>6, <1>7, Reassembly
<1>9. PICK j \in m .. Len(os) : /\ Stream(os, j) \o taken.rest = Stream(os, m) \o c
                                /\ Understood(os, m) \o taken.records = Understood(os, j)
  BY <1>7, <1>8 DEF Reassembled
<1>10. j \in 0 .. Len(os)
  BY <1>4
<1>11. taken.rest \in Seq(Symbol)
  <2>1. Taken(c) \in Buffer
    BY <1>2, TakenSteps
  <2> QED  BY <1>7, <2>1 DEF Buffer
<1>12. (Stream(os, j) \o taken.rest) \o y = Sent(os, r, f) /\ h \o taken.records = Understood(os, j)
  BY <1>3, <1>5, <1>9, Zenon
<1>13. Intact(os, r, f, y, taken.rest, h \o taken.records)
  BY <1>10, <1>12, Zenon DEF Intact
<1>14. h \o taken.records \in Seq(Occurrence)
  BY <1>4, <1>10, <1>12, StreamSteps
<1> QED  BY <1>8, <1>11, <1>13, <1>14, Zenon DEF y

\* Before the first record the pipe is empty.
LEMMA NothingSent ==
  /\ \A os \in Seq(Occurrence) : Place(os, 1, 0) /\ Intact(os, 1, 0, <<>>, <<>>, <<>>)
  /\ \A r, f, h : \A p, b \in Seq(Symbol) :
       Place(<<>>, r, f) /\ Intact(<<>>, r, f, p, b, h) => r = 1 /\ f = 0 /\ p = <<>> /\ b = <<>> /\ h = <<>>
<1>1. ASSUME NEW os \in Seq(Occurrence) PROVE Place(os, 1, 0) /\ Intact(os, 1, 0, <<>>, <<>>, <<>>)
  <2>1. Len(os) \in Nat /\ 1 \in 1 .. Len(os) + 1 /\ 0 \in 0 .. Len(os) /\ 1 - 1 = 0
    BY LenProperties
  <2>2. 0 \in 0 .. IF 1 <= Len(os) THEN Len(Encode(os[1])) - 1 ELSE 0
    <3>1. ASSUME 1 <= Len(os) PROVE 0 \in 0 .. Len(Encode(os[1])) - 1
      <4>1. os[1] \in Occurrence
        BY <2>1, <3>1, ElementOfSeq
      <4>2. Encode(os[1]) \in Seq(Symbol) /\ Len(Encode(os[1])) >= 3
        BY <4>1, EncodeShape
      <4> QED  BY <4>2, LenProperties
    <3> QED  BY <3>1
  <2>3. Place(os, 1, 0)
    BY <2>1, <2>2 DEF Place
  <2>4. Stream(os, 0) = <<>> /\ Understood(os, 0) = <<>>
    BY StreamSteps
  <2>5. Sent(os, 1, 0) = <<>>
    <3>1. Len(<<>>) + 0 = 0 /\ 0 \in Int /\ 1 \in Int /\ 0 < 1
      OBVIOUS
    <3>2. SubSeq(Stream(os, Len(os)), 1, 0) = <<>>
      BY <3>1, SubSeqEmpty
    <3> QED  BY <2>1, <2>4, <3>1, <3>2, Zenon DEF Sent
  <2>6. (<<>> \o <<>>) \o <<>> = <<>>
    OBVIOUS
  <2> QED  BY <2>1, <2>3, <2>4, <2>5, <2>6, Zenon DEF Intact
<1>2. ASSUME NEW r, NEW f, NEW h, NEW p \in Seq(Symbol), NEW b \in Seq(Symbol),
             Place(<<>>, r, f), Intact(<<>>, r, f, p, b, h)
      PROVE  r = 1 /\ f = 0 /\ p = <<>> /\ b = <<>> /\ h = <<>>
  <2>1. <<>> \in Seq(Occurrence) /\ Len(<<>>) = 0
    OBVIOUS
  <2>2. r = 1 /\ f = 0
    <3>1. r \in 1 .. 0 + 1 /\ f \in 0 .. IF r <= 0 THEN Len(Encode(<<>>[r])) - 1 ELSE 0
      <4>1. r \in 1 .. Len(<<>>) + 1 /\ f \in 0 .. IF r <= Len(<<>>) THEN Len(Encode(<<>>[r])) - 1 ELSE 0
        BY <1>2, Zenon DEF Place
      <4> QED  BY <2>1, <4>1
    <3>2. r = 1 /\ ~ (r <= 0)
      BY <3>1
    <3> QED  BY <3>1, <3>2
  <2>3. Stream(<<>>, 0) = <<>> /\ Understood(<<>>, 0) = <<>>
    BY <2>1, StreamSteps
  <2>4. PICK m \in 0 .. Len(<<>>) : (Stream(<<>>, m) \o b) \o p = Sent(<<>>, r, f) /\ h = Understood(<<>>, m)
    BY <1>2 DEF Intact
  <2>5. m = 0
    BY <2>1, <2>4
  <2>6. Sent(<<>>, 1, 0) = <<>>
    <3>1. Sent(<<>>, 1, 0) \in Seq(Symbol) /\ \E d \in Seq(Symbol) : Sent(<<>>, 1, 0) \o d = <<>>
      BY <1>2, <2>1, <2>2, <2>3, SentPrefix
    <3> QED  BY <3>1, ConcatEqualIffEmpty
  <2>7. (<<>> \o b) \o p = <<>>
    BY <2>2, <2>3, <2>4, <2>5, <2>6, Zenon
  <2>8. <<>> \o b = b
    BY ConcatEmptySeq
  <2>9. b \o p = <<>>
    BY <2>7, <2>8, Zenon
  <2> QED  BY <2>2, <2>3, <2>4, <2>5, <2>9, ConcatEqualIffEmpty
<1> QED  BY <1>1, <1>2

\* When everything is written and read, the parent has understood every record.
LEMMA EverythingRead ==
  ASSUME NEW os \in Seq(Occurrence), NEW b \in Seq(Symbol), NoNewline(b), NEW h,
         Intact(os, Len(os) + 1, 0, <<>>, b, h)
  PROVE  h = Understood(os, Len(os))
<1> DEFINE L == Len(os)
<1>1. PICK m \in 0 .. L : (Stream(os, m) \o b) \o <<>> = Sent(os, L + 1, 0) /\ h = Understood(os, m)
  BY DEF Intact
<1>2. L \in Nat /\ L \in 0 .. L /\ (L + 1) - 1 = L
  BY LenProperties
<1>3. Stream(os, m) \in Seq(Symbol) /\ Stream(os, L) \in Seq(Symbol)
  BY <1>2, StreamSteps
<1>4. Stream(os, m) \o b = Stream(os, L)
  <2>1. Stream(os, m) \o b \in Seq(Symbol)
    BY <1>3, Longer, Zenon
  <2>2. (Stream(os, m) \o b) \o <<>> = Stream(os, m) \o b
    BY <2>1, ConcatEmptySeq
  <2>3. Len(Stream(os, L)) + 0 = Len(Stream(os, L))
    BY <1>3, LenProperties
  <2>4. SubSeq(Stream(os, L), 1, Len(Stream(os, L))) = Stream(os, L)
    BY <1>3, SubSeqFull
  <2>5. Sent(os, L + 1, 0) = Stream(os, L)
    BY <1>2, <2>3, <2>4, Zenon DEF Sent
  <2> QED  BY <1>1, <2>2, <2>5, Zenon
<1>5. m = L
  <2>1. SUFFICES ASSUME m # L PROVE FALSE
    OBVIOUS
  <2>2. m \in 0 .. L - 1 /\ m + 1 \in 0 .. L
    <3> HIDE DEF L
    <3> QED  BY <1>2, <2>1
  <2> DEFINE e == Encode(os[m + 1])
             g == Front(e)
             s == Stream(os, m)
  <2>3. os[m + 1] \in Occurrence /\ Stream(os, m + 1) = s \o e
    BY <2>2, StreamSteps
  <2>4. e \in Seq(Symbol) /\ g \in Seq(Symbol) /\ e = Append(g, Newline)
    BY <2>3, EncodeShape
  <2>5. PICK d \in Seq(Symbol) : Stream(os, m + 1) \o d = Stream(os, L)
    BY <2>2, StreamPrefix
  <2> HIDE DEF g, L
  <2>6. s \o b = s \o (e \o d)
    <3>1. (s \o e) \o d = s \o (e \o d)
      BY <1>3, <2>4, Associative, ZenonT(60)
    <3> QED  BY <1>4, <2>3, <2>5, <3>1, Zenon
  <2>7. b = e \o d
    <3>1. e \o d \in Seq(Symbol)
      BY <2>4, Longer, Zenon
    <3> QED  BY <1>3, <2>6, <3>1, CancelLeft, Zenon
  <2>8. Len(g) \in Nat /\ Len(e) = Len(g) + 1 /\ e[Len(g) + 1] = Newline
    BY <2>4, SymbolTypes, AppendProperties, LenProperties
  <2> HIDE DEF e, s
  <2>9. /\ Len(d) \in Nat /\ DOMAIN b = 1 .. Len(b)
        /\ Len(e \o d) = Len(e) + Len(d)
        /\ \A k \in 1 .. Len(e) + Len(d) : (e \o d)[k] = IF k <= Len(e) THEN e[k] ELSE d[k - Len(e)]
    BY <2>4, LenProperties, ConcatProperties
  <2>10. Len(g) + 1 \in 1 .. Len(e) + Len(d) /\ Len(g) + 1 <= Len(e)
    BY <2>8, <2>9
  <2>11. b[Len(g) + 1] = Newline /\ Len(g) + 1 \in DOMAIN b
    BY <2>7, <2>8, <2>9, <2>10
  <2> QED  BY <2>11 DEF NoNewline
<1> QED  BY <1>1, <1>5

\* Plain words come out as they went in.
LEMMA UnderstoodPlain ==
  ASSUME NEW os \in Seq(Occurrence), \A k \in 1 .. Len(os) : Pieces[os[k].word] = <<Text(os[k].word)>>
  PROVE  Understood(os, Len(os)) = os
<1> DEFINE L == Len(os)
           T == {n \in Nat : n <= L => Understood(os, n) = SubSeq(os, 1, n)}
<1>1. L \in Nat
  BY LenProperties
<1>2. 0 \in T
  <2>1. SubSeq(os, 1, 0) = <<>>
    BY SubSeqEmpty
  <2>2. Understood(os, 0) = <<>>
    BY StreamSteps
  <2> QED  BY <2>1, <2>2
<1>3. ASSUME NEW n \in T PROVE n + 1 \in T
  <2>1. SUFFICES ASSUME n + 1 <= L PROVE Understood(os, n + 1) = SubSeq(os, 1, n + 1)
    OBVIOUS
  <2>2. n \in Nat /\ n \in 0 .. L - 1 /\ n + 1 \in 1 .. L /\ n <= L
    BY <1>1, <2>1
  <2>3. /\ os[n + 1] \in Occurrence
        /\ Understood(os, n + 1) = Understood(os, n) \o Parsed(Front(Encode(os[n + 1])))
    BY <2>2, StreamSteps
  <2>4. Parsed(Front(Encode(os[n + 1]))) = <<os[n + 1]>>
    BY <2>2, <2>3, ParsedPlain
  <2>5. Understood(os, n) = SubSeq(os, 1, n)
    BY <1>3, <2>2
  <2>6. SubSeq(os, 1, n + 1) = SubSeq(os, 1, n) \o <<os[n + 1]>>
    <3>1. 1 \in 1 .. L /\ n + 1 \in 1 .. L /\ n + 1 \in 1 .. L /\ (n + 1) - 1 = n
      BY <1>1, <2>2
    <3>2. SubSeq(os, 1, n + 1) = SubSeq(os, 1, (n + 1) - 1) \o <<os[n + 1]>>
      BY <3>1, SubSeqRecursiveSecond
    <3> QED  BY <3>1, <3>2, Zenon
  <2> QED  BY <2>3, <2>4, <2>5, <2>6, Zenon
<1>4. T = Nat
  <2>1. T \in SUBSET Nat
    OBVIOUS
  <2> HIDE DEF T
  <2> QED  BY <1>2, <1>3, <2>1, SetInduction
<1>5. Understood(os, L) = SubSeq(os, 1, L)
  BY <1>1, <1>4
<1>6. SubSeq(os, 1, L) = os
  BY SubSeqFull
<1> QED  BY <1>5, <1>6

-----------------------------------------------------------------------------
(* The inductive invariant of findlwp.                                     *)

Types ==
  /\ files \in Inputs /\ dataLength \in DataLengths
  /\ child \in [File -> {"unborn", "close", "read", "write", "exited"}]
  /\ o \in [File -> Seq(Occurrence)] /\ heard \in [File -> Seq(Occurrence)]
  /\ rec \in [File -> Nat] /\ off \in [File -> Nat]
  /\ pipe \in [File -> Seq(Symbol)] /\ buffers \in [File -> Seq(Symbol)]
  /\ writers \in [File -> SUBSET (File \cup {0})]
  /\ parent \in [ pc : {"fork", "close", "select", "broken", "wait", "done", "failed"},
                  i : File ]
  /\ closed \subseteq File /\ ready \subseteq File \ closed
  /\ faults \in 0 .. MaxFaults

\* The records of every child are on their way.
Channel(i) ==
  /\ Place(o[i], rec[i], off[i])
  /\ Len(pipe[i]) <= Capacity
  /\ NoNewline(buffers[i])
  /\ Intact(o[i], rec[i], off[i], pipe[i], buffers[i], heard[i])

Channels == \A i \in File : Channel(i)

\* A child that has not read its file has found nothing.
Unwritten == \A i \in File : child[i] \in {"unborn", "close", "read"} => o[i] = <<>>

\* The parent makes the children one after the other, and reads no pipe before.
Forked ==
  /\ At("fork") => \A j \in File : j >= parent.i => child[j] = "unborn" /\ 0 \in writers[j]
  /\ At("close") => \A j \in File : j > parent.i => child[j] = "unborn" /\ 0 \in writers[j]
  /\ At("fork") => \A j \in File : j < parent.i => child[j] # "unborn"
  /\ At("close") => \A j \in File : j <= parent.i => child[j] # "unborn"
  /\ parent.pc \in {"select", "broken", "wait", "done"} => \A j \in File : child[j] # "unborn"
  /\ parent.pc \in {"fork", "close"} => closed = {} /\ ready = {}

\* A child that runs holds the write end of its pipe, and a pipe is closed at its end.
Held ==
  /\ \A i \in File : i \in writers[i] <=> child[i] \in {"close", "read", "write"}
  /\ \A i \in closed : AtEnd(i)

\* As long as nothing has failed, a child has found what is in its file, ends when all
\* of it is written, and the parent sorts when it has been at the end of every pipe.
Complete ==
  faults = 0 =>
    /\ parent.pc \notin {"failed", "broken"}
    /\ parent.pc \in {"wait", "done"} => closed = File /\ (Plain => IsIndex(out, files))
    /\ \A i \in File :
         /\ child[i] \in {"write", "exited"} => o[i] = Occurrences(i, files[i].tokens)
         /\ child[i] = "exited" => rec[i] = Len(o[i]) + 1

ProcessInv == Types /\ Channels /\ Unwritten /\ Forked /\ Held /\ Complete

-----------------------------------------------------------------------------
(* The inductive invariant of findlwt.                                     *)

\* What worker j has put into its result.
Filled(j) ==
  LET tokens == files[j].tokens
      w == worker[j]
      r == results[j]
  IN  /\ w.pc = "unborn" => w.t = 0
      /\ w.pc = "open" => w.t = 0 /\ r.arr = <<>>
      /\ w.pc = "read" => /\ files[j].found /\ r.ok /\ w.t <= Len(tokens)
                          /\ r.arr = Occurrences(j, SubSeq(tokens, 1, w.t))
      /\ w.pc = "returned" => /\ r.ok = files[j].found
                              /\ files[j].found => r.arr = Occurrences(j, tokens)

ThreadInv ==
  /\ worker \in [File -> [pc : {"unborn", "open", "read", "returned"}, t : Nat]]
  /\ results \in [File -> [arr : Seq(Occurrence), ok : BOOLEAN]]
  /\ main \in [pc : {"create", "join", "merge", "done", "failed"}, i : File]
  /\ \A j \in File : Filled(j)
  /\ main.pc = "create" => \A j \in File : j >= main.i => worker[j].pc = "unborn"
  /\ main.pc = "join" => \A j \in File : j < main.i => worker[j].pc = "returned"
  /\ main.pc = "merge" => \A j \in File : worker[j].pc = "returned"
  /\ main.pc = "done" => IsIndex(threadsOut, files)

-----------------------------------------------------------------------------
(* Every step of findlwp preserves its invariant.                          *)

chanVars == <<o, rec, off, pipe, buffers, heard>>

\* A step that leaves the records alone.
LEMMA ChannelsStay ==
  ASSUME Channels, UNCHANGED chanVars
  PROVE  Channels'
BY DEF Channels, Channel, chanVars

LEMMA Numbers ==
  /\ N \in Nat /\ N > 0 /\ 1 \in File /\ File \subseteq Nat /\ 0 \notin File
  /\ \A i \in File : i < N => i + 1 \in File
  /\ Capacity \in Nat /\ MaxFaults \in Nat
  /\ DataLengths \subseteq Nat \ {0}
  /\ Inputs \subseteq [File -> Content]
BY WordIndexAssumption, FindLwpAssumption DEF File

LEMMA ProcessInit == Init => ProcessInv
<1> SUFFICES ASSUME Init PROVE ProcessInv
  OBVIOUS
<1> USE DEF Init
<1>1. <<>> \in Seq(Occurrence) /\ <<>> \in Seq(Symbol)
  OBVIOUS
<1>2. Types
  BY <1>1, Numbers DEF Types
<1>3. Channels
  <2>1. Place(<<>>, 1, 0) /\ Intact(<<>>, 1, 0, <<>>, <<>>, <<>>)
    BY <1>1, NothingSent
  <2>2. Len(<<>>) <= Capacity
    BY Numbers
  <2>3. NoNewline(<<>>)
    BY DEF NoNewline
  <2>4. ASSUME NEW i \in File
        PROVE  o[i] = <<>> /\ rec[i] = 1 /\ off[i] = 0 /\ pipe[i] = <<>> /\ buffers[i] = <<>> /\ heard[i] = <<>>
    OBVIOUS
  <2> QED  BY <2>1, <2>2, <2>3, <2>4, Zenon DEF Channels, Channel
<1>4. Unwritten
  BY DEF Unwritten
<1>5. Forked
  BY Numbers DEF Forked, At
<1>6. Held
  BY Numbers DEF Held
<1>7. Complete
  BY DEF Complete
<1> QED  BY <1>2, <1>3, <1>4, <1>5, <1>6, <1>7 DEF ProcessInv

LEMMA CloseInheritedKeeps ==
  ASSUME ProcessInv, NEW i \in File, CloseInherited(i)
  PROVE  ProcessInv'
<1> USE DEF ProcessInv, CloseInherited, readVars
<1>1. Types'
  BY Numbers DEF Types
<1>2. Channels'
  BY ChannelsStay DEF chanVars
<1>3. Unwritten'
  BY DEF Unwritten, Types
<1>4. Forked'
  BY Numbers, ZenonT(60) DEF Forked, At, Types
<1>5. Held'
  BY Numbers DEF Held, Types, AtEnd
<1>6. Complete'
  BY DEF Complete, Types, Plain
<1> QED  BY <1>1, <1>2, <1>3, <1>4, <1>5, <1>6

LEMMA ForkChildKeeps ==
  ASSUME ProcessInv, ForkChild
  PROVE  ProcessInv'
<1> USE DEF ProcessInv, ForkChild, readVars, ParentAt
<1>1. Types'
  BY Numbers DEF Types
<1>2. Channels'
  BY ChannelsStay DEF chanVars
<1>3. /\ parent.i \in File /\ parent.i \in Nat /\ parent.pc = "fork"
      /\ parent'.pc = "close" /\ parent'.i = parent.i
      /\ \A j \in File : j \in Nat
  BY Numbers DEF Types, At
<1>4. child[parent.i] = "unborn"
  BY <1>3 DEF Forked, At
<1>5. Unwritten'
  BY <1>3, <1>4 DEF Unwritten, Types
<1>6. Forked'
  <2>1. \A j \in File : child'[j] = IF j = parent.i THEN "close" ELSE child[j]
    BY <1>3 DEF Types
  <2>2. \A j \in File : 0 \in writers[j] => 0 \in writers'[j]
    BY DEF Types
  <2>3. closed' = closed /\ ready' = ready
    OBVIOUS
  <2>4. \A j \in File : (j > parent.i => j >= parent.i) /\ (j <= parent.i /\ j # parent.i => j < parent.i)
                       /\ (j > parent.i => j # parent.i)
    BY <1>3
  <2>5. \A j \in File : j >= parent.i => child[j] = "unborn" /\ 0 \in writers[j]
    BY <1>3 DEF Forked, At
  <2>6. (\A j \in File : j < parent.i => child[j] # "unborn") /\ closed = {} /\ ready = {}
    BY <1>3 DEF Forked, At
  <2> QED  BY <1>3, <2>1, <2>2, <2>3, <2>4, <2>5, <2>6 DEF Forked, At
<1>7. Held'
  BY Numbers DEF Held, Types, AtEnd, Forked, At
<1>8. Complete'
  BY DEF Complete, Types, Plain, At
<1> QED  BY <1>1, <1>2, <1>5, <1>6, <1>7, <1>8

LEMMA CloseWriteKeeps ==
  ASSUME ProcessInv, CloseWrite
  PROVE  ProcessInv'
<1> USE DEF ProcessInv, CloseWrite, readVars, childVars, ParentAt
<1>0. /\ parent.i \in File /\ parent.i \in Nat /\ parent.i <= N /\ parent.pc = "close"
      /\ \A j \in File : j \in Nat /\ j <= N
      /\ \/ parent.i < N /\ parent' = [pc |-> "fork", i |-> parent.i + 1] /\ parent.i + 1 \in File
         \/ parent.i = N /\ parent' = [pc |-> "select", i |-> 1]
  <2>1. parent.i \in File /\ parent.pc = "close"
    BY DEF Types, At
  <2>2. N \in Nat /\ \A j \in File : j \in Nat /\ j <= N
    BY Numbers DEF File
  <2>3. parent.i < N \/ parent.i = N
    BY <2>1, <2>2
  <2> QED  BY <2>1, <2>2, <2>3, Numbers
<1>1. Types'
  <2>1. parent' \in [ pc : {"fork", "close", "select", "broken", "wait", "done", "failed"}, i : File ]
    BY <1>0, Numbers
  <2>2. writers' \in [File -> SUBSET (File \cup {0})]
    BY DEF Types
  <2> QED  BY <2>1, <2>2 DEF Types
<1>2. Channels'
  BY ChannelsStay DEF chanVars
<1>3. Unwritten'
  BY DEF Unwritten
<1>4. Forked'
  <2>1. \A j \in File : j # parent.i => writers'[j] = writers[j]
    BY DEF Types
  <2>2. child' = child /\ closed' = closed /\ ready' = ready
    OBVIOUS
  <2>3. /\ \A j \in File : j > parent.i => child[j] = "unborn" /\ 0 \in writers[j]
        /\ \A j \in File : j <= parent.i => child[j] # "unborn"
        /\ closed = {} /\ ready = {}
    BY <1>0 DEF Forked, At
  <2>4. CASE parent' = [pc |-> "fork", i |-> parent.i + 1]
    <3>1. parent'.pc = "fork" /\ parent'.i = parent.i + 1
      BY <2>4
    <3>2. \A j \in File : /\ j >= parent.i + 1 => j > parent.i /\ j # parent.i
                         /\ j < parent.i + 1 => j <= parent.i
      BY <1>0
    <3> HIDE DEF ProcessInv, CloseWrite, readVars, childVars, ParentAt
    <3>3. \A j \in File : j >= parent'.i => child'[j] = "unborn" /\ 0 \in writers'[j]
      BY <1>0, <2>1, <2>2, <2>3, <3>1, <3>2
    <3>4. \A j \in File : j < parent'.i => child'[j] # "unborn"
      BY <1>0, <2>2, <2>3, <3>1, <3>2
    <3> QED  BY <2>2, <2>3, <3>1, <3>3, <3>4 DEF Forked, At
  <2>5. CASE parent.i = N /\ parent' = [pc |-> "select", i |-> 1]
    <3>1. parent'.pc = "select" /\ \A j \in File : j <= parent.i
      BY <1>0, <2>5
    <3> QED  BY <2>1, <2>2, <2>3, <3>1 DEF Forked, At
  <2> QED  BY <1>0, <2>4, <2>5
<1>5. Held'
  BY Numbers DEF Held, Types, AtEnd, Forked, At
<1>6. Complete'
  BY DEF Complete, Types, Plain, At
<1> QED  BY <1>1, <1>2, <1>3, <1>4, <1>5, <1>6

LEMMA SelectKeeps ==
  ASSUME ProcessInv, Select
  PROVE  ProcessInv'
<1> USE DEF ProcessInv, Select, readVars, childVars
<1>1. Types'
  BY DEF Types
<1>2. Channels'
  BY ChannelsStay DEF chanVars
<1>3. Unwritten'
  BY DEF Unwritten
<1>4. Forked'
  BY DEF Forked, At
<1>5. Held'
  BY DEF Held, AtEnd
<1>6. Complete'
  BY DEF Complete, Plain
<1> QED  BY <1>1, <1>2, <1>3, <1>4, <1>5, <1>6

LEMMA WaitChildKeeps ==
  ASSUME ProcessInv, WaitChild
  PROVE  ProcessInv'
<1> USE DEF ProcessInv, WaitChild, readVars, childVars, ParentAt
<1>1. Types'
  <2>1. parent.i < N => parent.i + 1 \in File
    BY Numbers DEF Types
  <2>2. parent' \in [ pc : {"fork", "close", "select", "broken", "wait", "done", "failed"}, i : File ]
    BY <2>1, Numbers
  <2> QED  BY <2>2 DEF Types
<1>2. Channels'
  BY ChannelsStay DEF chanVars
<1>3. Unwritten'
  BY DEF Unwritten
<1>4. Forked'
  BY DEF Forked, At
<1>5. Held'
  BY DEF Held, AtEnd
<1>6. Complete'
  BY DEF Complete, Plain, At
<1> QED  BY <1>1, <1>2, <1>3, <1>4, <1>5, <1>6

LEMMA KilledKeeps ==
  ASSUME ProcessInv, NEW i \in File, Killed(i)
  PROVE  ProcessInv'
<1> USE DEF ProcessInv, Killed, Fault, Gone, readVars
<1>0. faults' # 0
  BY DEF Types
<1>1. Types'
  <2>1. writers' \in [File -> SUBSET (File \cup {0})]
    BY DEF Types
  <2>2. faults' \in 0 .. MaxFaults
    BY Numbers DEF Types
  <2>3. child' \in [File -> {"unborn", "close", "read", "write", "exited"}]
    BY DEF Types
  <2> QED  BY <2>1, <2>2, <2>3 DEF Types
<1>2. Channels'
  BY ChannelsStay DEF chanVars
<1>3. Unwritten'
  BY DEF Unwritten, Types
<1>4. Forked'
  BY Numbers, ZenonT(60) DEF Forked, At, Types
<1>5. Held'
  BY Numbers DEF Held, Types, AtEnd
<1>6. Complete'
  BY <1>0 DEF Complete
<1> QED  BY <1>1, <1>2, <1>3, <1>4, <1>5, <1>6

LEMMA ParentFailsKeeps ==
  ASSUME ProcessInv, ParentFails
  PROVE  ProcessInv'
<1> USE DEF ProcessInv, ParentFails, LoopOver, Fault, ParentAt, readVars, childVars
<1>0. faults' # 0
  BY DEF Types
<1>1. Types'
  <2>1. writers' \in [File -> SUBSET (File \cup {0})]
    BY DEF Types
  <2>2. faults' \in 0 .. MaxFaults
    BY Numbers DEF Types
  <2>3. parent' \in [ pc : {"fork", "close", "select", "broken", "wait", "done", "failed"}, i : File ]
    BY Numbers
  <2> QED  BY <2>1, <2>2, <2>3 DEF Types
<1>2. Channels'
  BY ChannelsStay DEF chanVars
<1>3. Unwritten'
  BY DEF Unwritten
<1>4. Forked'
  BY DEF Forked, At
<1>5. Held'
  BY Numbers DEF Held, Types, AtEnd
<1>6. Complete'
  BY <1>0 DEF Complete
<1> QED  BY <1>1, <1>2, <1>3, <1>4, <1>5, <1>6

LEMMA SelectFailsKeeps ==
  ASSUME ProcessInv, SelectFails
  PROVE  ProcessInv'
<1> USE DEF ProcessInv, SelectFails, Fault, ParentAt, readVars, childVars
<1>0. faults' # 0
  BY DEF Types
<1>1. Types'
  BY Numbers, SMTT(30) DEF Types
<1>2. Channels'
  BY ChannelsStay DEF chanVars
<1>3. Unwritten'
  BY DEF Unwritten
<1>4. Forked'
  BY DEF Forked, At
<1>5. Held'
  BY DEF Held, AtEnd
<1>6. Complete'
  BY <1>0 DEF Complete
<1> QED  BY <1>1, <1>2, <1>3, <1>4, <1>5, <1>6

\* A step that changes the records of one child only.
LEMMA OneChannel ==
  ASSUME Channels, NEW i \in File, Channel(i)',
         \A j \in File : j # i => /\ o'[j] = o[j] /\ rec'[j] = rec[j] /\ off'[j] = off[j]
                                  /\ pipe'[j] = pipe[j] /\ buffers'[j] = buffers[j] /\ heard'[j] = heard[j]
  PROVE  Channels'
<1>1. ASSUME NEW j \in File, j # i PROVE Channel(j)'
  BY <1>1 DEF Channels, Channel
<1> QED  BY <1>1 DEF Channels

LEMMA ChannelTypes ==
  ASSUME Types, NEW i \in File
  PROVE  /\ o[i] \in Seq(Occurrence) /\ heard[i] \in Seq(Occurrence)
         /\ rec[i] \in Nat /\ off[i] \in Nat
         /\ pipe[i] \in Seq(Symbol) /\ buffers[i] \in Seq(Symbol)
         /\ files[i] \in Content /\ files[i].tokens \in Seq(Token) /\ files[i].found \in BOOLEAN
         /\ ~ files[i].found => files[i].tokens = <<>>
         /\ dataLength \in Nat /\ dataLength > 0
<1>1. files[i] \in Content
  BY Numbers DEF Types
<1>2. files[i].tokens \in Seq(Token) /\ files[i].found \in BOOLEAN /\ (~ files[i].found => files[i].tokens = <<>>)
  BY <1>1 DEF Content
<1> QED  BY <1>1, <1>2, Numbers DEF Types

LEMMA MinOfTwo ==
  ASSUME NEW a \in Nat, NEW b \in Nat
  PROVE  Min({a, b}) \in {a, b} /\ Min({a, b}) <= a /\ Min({a, b}) <= b
<1>1. \E x \in {a, b} : \A y \in {a, b} : x <= y
  OBVIOUS
<1>2. Min({a, b}) = CHOOSE x \in {a, b} : \A y \in {a, b} : x <= y
  BY DEF Min
<1> QED  BY <1>1, <1>2

LEMMA ReadFileKeeps ==
  ASSUME ProcessInv, NEW i \in File, ReadFile(i)
  PROVE  ProcessInv'
<1> DEFINE os == Occurrences(i, files[i].tokens)
<1>0. /\ Types /\ Channels /\ Unwritten /\ Forked /\ Held /\ Complete
  BY DEF ProcessInv
<1>1. /\ child[i] = "read" /\ o[i] = <<>>
      /\ files' = files /\ dataLength' = dataLength /\ rec' = rec /\ off' = off /\ pipe' = pipe
      /\ parent' = parent /\ closed' = closed /\ ready' = ready /\ buffers' = buffers /\ heard' = heard
      /\ out' = out /\ faults' = faults
  BY <1>0 DEF ReadFile, Unwritten, readVars
<1>2. Place(o[i], rec[i], off[i]) /\ Intact(o[i], rec[i], off[i], pipe[i], buffers[i], heard[i])
  BY <1>0 DEF Channels, Channel
<1>3. rec[i] = 1 /\ off[i] = 0 /\ pipe[i] = <<>> /\ buffers[i] = <<>> /\ heard[i] = <<>>
  <2>1. pipe[i] \in Seq(Symbol) /\ buffers[i] \in Seq(Symbol)
    BY <1>0, ChannelTypes
  <2>2. \A r, f, h : \A p, b \in Seq(Symbol) :
          Place(<<>>, r, f) /\ Intact(<<>>, r, f, p, b, h) => r = 1 /\ f = 0 /\ p = <<>> /\ b = <<>> /\ h = <<>>
    BY NothingSent
  <2> QED  BY <1>1, <1>2, <2>1, <2>2, ZenonT(60)
<1>4. CASE /\ files[i].found
           /\ o' = [o EXCEPT ![i] = os]
           /\ child' = [child EXCEPT ![i] = "write"]
           /\ UNCHANGED writers
  <2>1. os \in Seq(Occurrence)
    <3>1. i \in Nat /\ files[i].tokens \in Seq(Token)
      BY <1>0, Numbers, ChannelTypes
    <3> QED  BY <3>1, OccurrencesSteps
  <2> HIDE DEF os
  <2>2. Types'
    BY <1>0, <1>1, <1>4, <2>1 DEF Types
  <2>3. Channels'
    <3>1. Place(os, 1, 0) /\ Intact(os, 1, 0, <<>>, <<>>, <<>>)
      BY <2>1, NothingSent
    <3>2. o'[i] = os /\ \A j \in File : j # i => o'[j] = o[j]
      BY <1>0, <1>4 DEF Types
    <3>3. Len(pipe[i]) <= Capacity /\ NoNewline(buffers[i])
      BY <1>0 DEF Channels, Channel
    <3>4. Channel(i)'
      BY <1>1, <1>3, <3>1, <3>2, <3>3 DEF Channel
    <3> QED  BY <1>0, <1>1, <3>2, <3>4, OneChannel
  <2>4. Unwritten'
    BY <1>0, <1>4 DEF Unwritten, Types
  <2>5. Forked'
    BY <1>0, <1>1, <1>4 DEF Forked, At, Types
  <2>6. Held'
    BY <1>0, <1>1, <1>4 DEF Held, AtEnd, Types
  <2>7. Complete'
    BY <1>0, <1>1, <1>4 DEF Complete, Plain, Types, os
  <2> QED  BY <2>2, <2>3, <2>4, <2>5, <2>6, <2>7 DEF ProcessInv
<1>5. CASE /\ ~ files[i].found
           /\ child' = [child EXCEPT ![i] = "exited"]
           /\ Gone(i)
           /\ UNCHANGED o
  <2>1. os = <<>>
    <3>1. i \in Nat /\ files[i].tokens = <<>>
      BY <1>0, <1>5, Numbers, ChannelTypes
    <3> QED  BY <3>1, OccurrencesSteps
  <2> HIDE DEF os
  <2>2. Types'
    <3>1. writers' \in [File -> SUBSET (File \cup {0})]
      BY <1>0, <1>5 DEF Types, Gone
    <3> QED  BY <1>0, <1>1, <1>5, <3>1 DEF Types
  <2>3. Channels'
    BY <1>0, <1>1, <1>5, ChannelsStay DEF chanVars
  <2>4. Unwritten'
    BY <1>0, <1>5 DEF Unwritten, Types
  <2>5. Forked'
    BY <1>0, <1>1, <1>5, Numbers, ZenonT(60) DEF Forked, At, Types, Gone
  <2>6. Held'
    BY <1>0, <1>1, <1>5, Numbers DEF Held, AtEnd, Types, Gone
  <2>7. Complete'
    <3>1. o[i] = os /\ rec[i] = Len(o[i]) + 1
      BY <1>1, <1>3, <2>1
    <3> QED  BY <1>0, <1>1, <1>5, <3>1 DEF Complete, Plain, Types, os
  <2> QED  BY <2>2, <2>3, <2>4, <2>5, <2>6, <2>7 DEF ProcessInv
<1> QED  BY <1>4, <1>5 DEF ReadFile

LEMMA ChildExitKeeps ==
  ASSUME ProcessInv, NEW i \in File, ChildExit(i)
  PROVE  ProcessInv'
<1>0. /\ Types /\ Channels /\ Unwritten /\ Forked /\ Held /\ Complete
  BY DEF ProcessInv
<1>1. /\ child[i] = "write" /\ ~ (rec[i] <= Len(o[i])) /\ child' = [child EXCEPT ![i] = "exited"] /\ Gone(i)
      /\ files' = files /\ dataLength' = dataLength /\ o' = o /\ rec' = rec /\ off' = off /\ pipe' = pipe
      /\ parent' = parent /\ closed' = closed /\ ready' = ready /\ buffers' = buffers /\ heard' = heard
      /\ out' = out /\ faults' = faults
  <2>1. rec[i] \in Nat /\ Len(o[i]) \in Nat
    BY <1>0, ChannelTypes, LenProperties
  <2> QED  BY <2>1 DEF ChildExit, readVars
<1>2. rec[i] = Len(o[i]) + 1
  <2>1. Place(o[i], rec[i], off[i])
    BY <1>0 DEF Channels, Channel
  <2> QED  BY <1>1, <2>1, RecordOfStream
<1>3. Types'
  <2>1. writers' \in [File -> SUBSET (File \cup {0})]
    BY <1>0, <1>1 DEF Types, Gone
  <2> QED  BY <1>0, <1>1, <2>1 DEF Types
<1>4. Channels'
  BY <1>0, <1>1, ChannelsStay DEF chanVars
<1>5. Unwritten'
  BY <1>0, <1>1 DEF Unwritten, Types
<1>6. Forked'
  BY <1>0, <1>1, Numbers, ZenonT(60) DEF Forked, At, Types, Gone
<1>7. Held'
  BY <1>0, <1>1, Numbers DEF Held, AtEnd, Types, Gone
<1>8. Complete'
  BY <1>0, <1>1, <1>2, ZenonT(60) DEF Complete, Plain, Types
<1> QED  BY <1>3, <1>4, <1>5, <1>6, <1>7, <1>8 DEF ProcessInv

LEMMA WriteChunkKeeps ==
  ASSUME ProcessInv, NEW i \in File, WriteChunk(i)
  PROVE  ProcessInv'
<1> DEFINE bytes == Encode(o[i][rec[i]])
           n == Min({off[i] + dataLength, Len(bytes)})
           chunk == SubSeq(bytes, off[i] + 1, n)
           next == AfterChunk(rec[i], n, Len(bytes))
<1>0. /\ Types /\ Channels /\ Unwritten /\ Forked /\ Held /\ Complete
  BY DEF ProcessInv
<1>1. /\ child[i] = "write" /\ rec[i] <= Len(o[i])
      /\ files' = files /\ dataLength' = dataLength /\ o' = o
      /\ parent' = parent /\ closed' = closed /\ ready' = ready /\ buffers' = buffers /\ heard' = heard
      /\ out' = out /\ faults' = faults
  BY DEF WriteChunk, readVars
<1>2. /\ Place(o[i], rec[i], off[i]) /\ Intact(o[i], rec[i], off[i], pipe[i], buffers[i], heard[i])
      /\ NoNewline(buffers[i]) /\ Len(pipe[i]) <= Capacity
  BY <1>0 DEF Channels, Channel
<1>3. /\ rec[i] \in Nat /\ off[i] \in Nat /\ pipe[i] \in Seq(Symbol) /\ buffers[i] \in Seq(Symbol)
      /\ dataLength \in Nat /\ dataLength > 0
  BY <1>0, ChannelTypes
<1>4. bytes \in Seq(Symbol) /\ Len(bytes) \in Nat /\ off[i] < Len(bytes)
  BY <1>1, <1>2, RecordOfStream
<1>5. n \in off[i] + 1 .. Len(bytes)
  <2> DEFINE a == off[i] + dataLength
             b == Len(bytes)
  <2>1. a \in Nat /\ b \in Nat /\ off[i] + 1 <= a /\ off[i] + 1 <= b
    BY <1>3, <1>4
  <2> HIDE DEF a, b
  <2>2. Min({a, b}) \in {a, b} /\ Min({a, b}) <= a /\ Min({a, b}) <= b
    BY <2>1, MinOfTwo
  <2>3. n = Min({a, b})
    BY Zenon DEF a, b
  <2> HIDE DEF n
  <2>4. n \in off[i] + 1 .. b
    BY <1>3, <2>1, <2>2, <2>3
  <2> QED  BY <2>4 DEF b
<1>6. /\ Place(o[i], next.rec, next.off)
      /\ Intact(o[i], next.rec, next.off, pipe[i] \o chunk, buffers[i], heard[i])
  <2> DEFINE os == o[i]
             r == rec[i]
             f == off[i]
             p == pipe[i]
             b == buffers[i]
             h == heard[i]
  <2> HIDE DEF n, next
  <2>1. next = AfterChunk(r, n, Len(Encode(os[r]))) /\ n \in f + 1 .. Len(Encode(os[r]))
    BY <1>5 DEF next
  <2>2. /\ Place(os, r, f) /\ r <= Len(os) /\ p \in Seq(Symbol) /\ b \in Seq(Symbol)
        /\ Intact(os, r, f, p, b, h)
    BY <1>1, <1>2, <1>3
  <2> HIDE DEF os, r, f, p, b, h
  <2>3. Place(os, next.rec, next.off)
    BY <2>1, <2>2, NextPlace
  <2>4. Intact(os, next.rec, next.off, p \o SubSeq(Encode(os[r]), f + 1, n), b, h)
    BY <2>1, <2>2, WriteKeeps
  <2> QED  BY <2>3, <2>4, Zenon DEF os, r, f, p, b, h
<1>7. chunk \in Seq(Symbol)
  <2> HIDE DEF n, bytes
  <2>1. off[i] + 1 \in Nat \ {0} /\ n \in Nat /\ n <= Len(bytes)
    BY <1>3, <1>4, <1>5
  <2> QED  BY <1>4, <2>1, CutLength
<1>8. pipe[i] \o chunk \in Seq(Symbol) /\ Len(pipe[i] \o chunk) = Len(pipe[i]) + Len(chunk)
  <2> HIDE DEF chunk
  <2> QED  BY <1>3, <1>7, Longer, Zenon
<1>9. i \notin closed
  BY <1>0, <1>1 DEF Held, AtEnd
<1>10. \/ /\ HasReader(i)
          /\ Len(pipe[i]) + Len(chunk) <= Capacity
          /\ pipe' = [pipe EXCEPT ![i] = @ \o chunk]
          /\ rec' = [rec EXCEPT ![i] = next.rec]
          /\ off' = [off EXCEPT ![i] = next.off]
          /\ UNCHANGED <<child, writers>>
       \/ /\ ~ HasReader(i)
          /\ child' = [child EXCEPT ![i] = "exited"]
          /\ Gone(i)
          /\ UNCHANGED <<pipe, rec, off>>
  BY Zenon DEF WriteChunk
<1>11. next.rec \in Nat /\ next.off \in Nat
  <2> DEFINE nr == next.rec
             nf == next.off
             os == o[i]
  <2>1. Place(os, nr, nf)
    BY <1>6
  <2> HIDE DEF nr, nf, os
  <2>2. nr \in Nat /\ nf \in Nat
    BY <2>1, RecordOfStream
  <2> QED  BY <2>2 DEF nr, nf
<1> HIDE DEF bytes, n, chunk, next
<1>12. CASE /\ Len(pipe[i]) + Len(chunk) <= Capacity
            /\ pipe' = [pipe EXCEPT ![i] = @ \o chunk]
            /\ rec' = [rec EXCEPT ![i] = next.rec]
            /\ off' = [off EXCEPT ![i] = next.off]
            /\ UNCHANGED <<child, writers>>
  <2>1. /\ pipe'[i] = pipe[i] \o chunk /\ rec'[i] = next.rec /\ off'[i] = next.off
        /\ \A j \in File : j # i => pipe'[j] = pipe[j] /\ rec'[j] = rec[j] /\ off'[j] = off[j]
    BY <1>0, <1>12 DEF Types
  <2>2. Types'
    <3>1. pipe' \in [File -> Seq(Symbol)]
      BY <1>0, <1>8, <1>12 DEF Types
    <3>2. rec' \in [File -> Nat] /\ off' \in [File -> Nat]
      BY <1>0, <1>11, <1>12 DEF Types
    <3> QED  BY <1>0, <1>1, <1>12, <3>1, <3>2 DEF Types
  <2>3. Channels'
    <3>1. Channel(i)'
      <4>1. Len(pipe'[i]) <= Capacity
        BY <1>8, <1>12, <2>1
      <4>2. Place(o'[i], rec'[i], off'[i]) /\ Intact(o'[i], rec'[i], off'[i], pipe'[i], buffers'[i], heard'[i])
            /\ NoNewline(buffers'[i])
        BY <1>1, <1>2, <1>6, <2>1
      <4> QED  BY <4>1, <4>2 DEF Channel
    <3> QED  BY <1>0, <1>1, <2>1, <3>1, OneChannel
  <2>4. Unwritten'
    BY <1>0, <1>1, <1>12 DEF Unwritten
  <2>5. Forked'
    BY <1>0, <1>1, <1>12 DEF Forked, At
  <2>6. Held'
    <3>1. \A j \in closed : j \in File /\ pipe'[j] = pipe[j]
      BY <1>0, <1>9, <2>1 DEF Types
    <3> QED  BY <1>0, <1>1, <1>12, <3>1 DEF Held, AtEnd
  <2>7. Complete'
    BY <1>0, <1>1, <1>12, <2>1 DEF Complete, Plain
  <2> QED  BY <2>2, <2>3, <2>4, <2>5, <2>6, <2>7 DEF ProcessInv
<1>13. CASE /\ ~ HasReader(i)
            /\ child' = [child EXCEPT ![i] = "exited"]
            /\ Gone(i)
            /\ UNCHANGED <<pipe, rec, off>>
  <2>1. faults # 0
    <3>1. parent.pc = "failed" \/ parent.pc = "done"
      BY <1>9, <1>13 DEF HasReader
    <3> QED  BY <1>0, <1>9, <3>1 DEF Complete
  <2>2. Types'
    <3>1. writers' \in [File -> SUBSET (File \cup {0})]
      BY <1>0, <1>13 DEF Types, Gone
    <3> QED  BY <1>0, <1>1, <1>13, <3>1 DEF Types
  <2>3. Channels'
    BY <1>0, <1>1, <1>13, ChannelsStay DEF chanVars
  <2>4. Unwritten'
    BY <1>0, <1>1, <1>13 DEF Unwritten, Types
  <2>5. Forked'
    BY <1>0, <1>1, <1>13, Numbers, ZenonT(60) DEF Forked, At, Types, Gone
  <2>6. Held'
    BY <1>0, <1>1, <1>13, Numbers DEF Held, AtEnd, Types, Gone
  <2>7. Complete'
    BY <1>1, <2>1 DEF Complete
  <2> QED  BY <2>2, <2>3, <2>4, <2>5, <2>6, <2>7 DEF ProcessInv
<1> QED  BY <1>10, <1>12, <1>13

LEMMA ReadPipeKeeps ==
  ASSUME ProcessInv, NEW i \in ready, ReadPipe(i)
  PROVE  ProcessInv'
<1> DEFINE r == Min({dataLength, Len(pipe[i])})
           taken == Taken(buffers[i] \o SubSeq(pipe[i], 1, r))
           left == SubSeq(pipe[i], r + 1, Len(pipe[i]))
<1>0. /\ Types /\ Channels /\ Unwritten /\ Forked /\ Held /\ Complete
  BY DEF ProcessInv
<1>1. /\ i \in File /\ i \notin closed /\ parent.pc = "select" /\ ready' = ready \ {i}
      /\ files' = files /\ dataLength' = dataLength /\ child' = child /\ o' = o /\ rec' = rec /\ off' = off
      /\ writers' = writers /\ parent' = parent /\ out' = out /\ faults' = faults
  BY <1>0 DEF ReadPipe, childVars, At, Types
<1>2. /\ Place(o[i], rec[i], off[i]) /\ Intact(o[i], rec[i], off[i], pipe[i], buffers[i], heard[i])
      /\ Len(pipe[i]) <= Capacity
  BY <1>0, <1>1 DEF Channels, Channel
<1>3. pipe[i] \in Seq(Symbol) /\ buffers[i] \in Seq(Symbol) /\ dataLength \in Nat /\ Len(pipe[i]) \in Nat
  BY <1>0, <1>1, ChannelTypes, LenProperties
<1>4. r \in 0 .. Len(pipe[i])
  <2> DEFINE b == Len(pipe[i])
  <2>1. b \in Nat
    BY <1>3
  <2> HIDE DEF b
  <2>2. Min({dataLength, b}) \in {dataLength, b} /\ Min({dataLength, b}) <= b
    BY <1>3, <2>1, MinOfTwo
  <2>3. r = Min({dataLength, b})
    BY Zenon DEF b
  <2> HIDE DEF r
  <2>4. r \in 0 .. b
    BY <1>3, <2>1, <2>2, <2>3
  <2> QED  BY <2>4 DEF b
<1>5. \/ /\ AtEnd(i)
         /\ closed' = closed \cup {i}
         /\ UNCHANGED <<pipe, buffers, heard>>
      \/ /\ pipe' = [pipe EXCEPT ![i] = left]
         /\ heard' = [heard EXCEPT ![i] = @ \o taken.records]
         /\ buffers' = [buffers EXCEPT ![i] = taken.rest]
         /\ UNCHANGED closed
  BY Zenon DEF ReadPipe
<1>6. /\ Intact(o[i], rec[i], off[i], left, taken.rest, heard[i] \o taken.records)
      /\ taken.rest \in Seq(Symbol) /\ NoNewline(taken.rest)
      /\ heard[i] \o taken.records \in Seq(Occurrence)
  <2> DEFINE os == o[i]
             q == rec[i]
             f == off[i]
             p == pipe[i]
             b == buffers[i]
             h == heard[i]
  <2>1. taken = Taken(b \o SubSeq(p, 1, r))
    BY Zenon DEF taken
  <2>2. r \in 0 .. Len(p)
    BY <1>4
  <2> HIDE DEF taken, r
  <2>3. /\ Place(os, q, f) /\ p \in Seq(Symbol) /\ b \in Seq(Symbol) /\ Intact(os, q, f, p, b, h)
    BY <1>2, <1>3
  <2> HIDE DEF os, q, f, p, b, h
  <2>4. /\ Intact(os, q, f, SubSeq(p, r + 1, Len(p)), taken.rest, h \o taken.records)
        /\ taken.rest \in Seq(Symbol) /\ NoNewline(taken.rest)
        /\ h \o taken.records \in Seq(Occurrence)
    BY <2>1, <2>2, <2>3, ReadKeeps
  <2> QED  BY <2>4, Zenon DEF os, q, f, p, b, h, left
<1>7. left \in Seq(Symbol) /\ Len(left) <= Capacity
  <2> HIDE DEF r
  <2>1. r + 1 \in Nat \ {0} /\ Len(pipe[i]) <= Len(pipe[i])
    BY <1>3, <1>4
  <2>2. /\ left \in Seq(Symbol)
        /\ Len(left) = IF r + 1 <= Len(pipe[i]) THEN Len(pipe[i]) - (r + 1) + 1 ELSE 0
    BY <1>3, <2>1, CutLength
  <2> HIDE DEF left
  <2> QED  BY <1>2, <1>3, <1>4, <2>2, Numbers
<1> HIDE DEF r, taken, left
<1>8. CASE /\ AtEnd(i)
           /\ closed' = closed \cup {i}
           /\ UNCHANGED <<pipe, buffers, heard>>
  <2>1. Types'
    BY <1>0, <1>1, <1>8 DEF Types
  <2>2. Channels'
    BY <1>0, <1>1, <1>8, ChannelsStay DEF chanVars
  <2>3. Unwritten'
    BY <1>0, <1>1 DEF Unwritten
  <2>4. Forked'
    BY <1>0, <1>1 DEF Forked, At
  <2>5. Held'
    BY <1>0, <1>1, <1>8 DEF Held, AtEnd
  <2>6. Complete'
    BY <1>0, <1>1 DEF Complete
  <2> QED  BY <2>1, <2>2, <2>3, <2>4, <2>5, <2>6 DEF ProcessInv
<1>9. CASE /\ pipe' = [pipe EXCEPT ![i] = left]
           /\ heard' = [heard EXCEPT ![i] = @ \o taken.records]
           /\ buffers' = [buffers EXCEPT ![i] = taken.rest]
           /\ UNCHANGED closed
  <2>0. /\ pipe'[i] = left /\ heard'[i] = heard[i] \o taken.records /\ buffers'[i] = taken.rest
        /\ \A j \in File : j # i => pipe'[j] = pipe[j] /\ heard'[j] = heard[j] /\ buffers'[j] = buffers[j]
    BY <1>0, <1>1, <1>9 DEF Types
  <2>1. Types'
    <3>1. pipe' \in [File -> Seq(Symbol)]
      BY <1>0, <1>7, <1>9 DEF Types
    <3>2. buffers' \in [File -> Seq(Symbol)]
      BY <1>0, <1>6, <1>9 DEF Types
    <3>3. heard' \in [File -> Seq(Occurrence)]
      BY <1>0, <1>6, <1>9 DEF Types
    <3> QED  BY <1>0, <1>1, <1>9, <3>1, <3>2, <3>3 DEF Types
  <2>2. Channels'
    <3>1. Channel(i)'
      BY <1>1, <1>2, <1>6, <1>7, <2>0 DEF Channel
    <3> QED  BY <1>0, <1>1, <2>0, <3>1, OneChannel
  <2>3. Unwritten'
    BY <1>0, <1>1 DEF Unwritten
  <2>4. Forked'
    BY <1>0, <1>1 DEF Forked, At
  <2>5. Held'
    <3>1. \A j \in closed : j \in File /\ pipe'[j] = pipe[j]
      BY <1>0, <1>1, <2>0 DEF Types
    <3> QED  BY <1>0, <1>1, <1>9, <3>1 DEF Held, AtEnd
  <2>6. Complete'
    BY <1>0, <1>1 DEF Complete
  <2> QED  BY <2>1, <2>2, <2>3, <2>4, <2>5, <2>6 DEF ProcessInv
<1> QED  BY <1>5, <1>8, <1>9

\* The words of the entries of a file are words of the file.
LEMMA OccurrencesWords ==
  ASSUME NEW i \in Nat, NEW tokens \in Seq(Token), NEW k \in DOMAIN Occurrences(i, tokens)
  PROVE  \E n \in DOMAIN tokens : tokens[n].word = Occurrences(i, tokens)[k].word
<1> DEFINE os == Occurrences(i, tokens)
           x == os[k]
           y == [word |-> x.word, lineNo |-> x.lineNo]
<1>1. os \in Seq(Occurrence) /\ x \in Occurrence
  <2>1. os \in Seq(Occurrence)
    BY OccurrencesSteps
  <2> QED  BY <2>1, LenProperties, ElementOfSeq
<1>2. Count(os, x) \in Nat /\ Count(os, x) > 0
  <2> HIDE DEF os
  <2> QED  BY <1>1, CountPositive DEF os
<1>3. Count(os, x) = IF x.fileIndex = i /\ ~ (Strlen[x.word] < K) THEN Count(tokens, y) ELSE 0
  <2> HIDE DEF x
  <2>1. Count(Occurrences(i, tokens), x) =
           IF x.fileIndex = i /\ ~ (Strlen[x.word] < K)
           THEN Count(tokens, [word |-> x.word, lineNo |-> x.lineNo]) ELSE 0
    BY <1>1, OccurrencesCount
  <2> QED  BY <2>1, Zenon
<1>4. Count(tokens, y) # 0
  <2> DEFINE a == Count(os, x)
             b == Count(tokens, y)
             c == x.fileIndex = i /\ ~ (Strlen[x.word] < K)
  <2>1. a > 0 /\ a = IF c THEN b ELSE 0
    BY <1>2, <1>3, Zenon
  <2> HIDE DEF a, b, c
  <2>2. b # 0
    BY <2>1
  <2> QED  BY <2>2, Zenon DEF b
<1> HIDE DEF os, x
<1>5. {n \in DOMAIN tokens : tokens[n] = y} # {}
  <2>1. Cardinality({}) = 0
    BY FS_EmptySet
  <2> HIDE DEF y
  <2> QED  BY <1>4, <2>1 DEF Count
<1>6. PICK n \in DOMAIN tokens : tokens[n] = y
  BY <1>5
<1>7. tokens[n].word = x.word
  BY <1>6
<1> QED  BY <1>7 DEF x, os

LEMMA WriteOutputKeeps ==
  ASSUME ProcessInv, WriteOutput
  PROVE  ProcessInv'
<1>0. /\ Types /\ Channels /\ Unwritten /\ Forked /\ Held /\ Complete
  BY DEF ProcessInv
<1>1. /\ (parent.pc = "select" /\ closed = File) \/ parent.pc = "broken"
      /\ parent' = [pc |-> "wait", i |-> 1]
      /\ files' = files /\ dataLength' = dataLength /\ child' = child /\ o' = o /\ rec' = rec /\ off' = off
      /\ pipe' = pipe /\ writers' = writers /\ closed' = closed /\ ready' = ready /\ buffers' = buffers
      /\ heard' = heard /\ faults' = faults
  BY DEF WriteOutput, LoopOver, childVars, readVars, At, ParentAt
<1>2. out' = Output(FlattenSeq([i \in File |-> heard[i]]))
  BY DEF WriteOutput
<1>3. Types'
  BY <1>0, <1>1, Numbers DEF Types
<1>4. Channels'
  BY <1>0, <1>1, ChannelsStay DEF chanVars
<1>5. Unwritten'
  BY <1>0, <1>1 DEF Unwritten
<1>6. Forked'
  BY <1>0, <1>1 DEF Forked, At
<1>7. Held'
  BY <1>0, <1>1 DEF Held, AtEnd
<1>8. ASSUME faults = 0, Plain, NEW i \in File PROVE heard[i] = Occurrences(i, files[i].tokens)
  <2>1. closed = File /\ parent.pc = "select"
    BY <1>0, <1>1, <1>8 DEF Complete
  <2>2. pipe[i] = <<>> /\ writers[i] = {}
    BY <1>0, <2>1 DEF Held, AtEnd
  <2>3. child[i] = "exited"
    BY <1>0, <2>1, <2>2 DEF Held, Forked, Types
  <2>4. o[i] = Occurrences(i, files[i].tokens) /\ rec[i] = Len(o[i]) + 1
    BY <1>0, <1>8, <2>3 DEF Complete
  <2> DEFINE os == o[i]
  <2>5. /\ Place(os, Len(os) + 1, off[i]) /\ NoNewline(buffers[i])
        /\ Intact(os, Len(os) + 1, off[i], <<>>, buffers[i], heard[i])
    BY <1>0, <2>2, <2>4 DEF Channels, Channel
  <2>6. os \in Seq(Occurrence) /\ buffers[i] \in Seq(Symbol) /\ files[i].tokens \in Seq(Token) /\ i \in Nat
    BY <1>0, ChannelTypes, Numbers
  <2>7. ASSUME NEW k \in 1 .. Len(os) PROVE Pieces[os[k].word] = <<Text(os[k].word)>>
    <3>1. k \in DOMAIN Occurrences(i, files[i].tokens)
      BY <2>4, <2>6, <2>7, LenProperties
    <3>2. PICK n \in DOMAIN files[i].tokens : files[i].tokens[n].word = Occurrences(i, files[i].tokens)[k].word
      BY <2>6, <3>1, OccurrencesWords
    <3>3. Pieces[files[i].tokens[n].word] = <<Text(files[i].tokens[n].word)>>
      BY <1>8, Zenon DEF Plain
    <3> QED  BY <2>4, <3>2, <3>3, Zenon
  <2> HIDE DEF os
  <2>8. off[i] = 0
    <3>1. Len(os) \in Nat
      BY <2>6, LenProperties
    <3>2. ~ (Len(os) + 1 <= Len(os))
      BY <3>1
    <3> QED  BY <2>5, <3>2, RecordOfStream
  <2>9. heard[i] = Understood(os, Len(os))
    BY <2>5, <2>6, <2>8, EverythingRead
  <2>10. Understood(os, Len(os)) = os
    BY <2>6, <2>7, UnderstoodPlain
  <2> QED  BY <2>4, <2>9, <2>10, Zenon DEF os
<1>9. ASSUME faults = 0, Plain PROVE IsIndex(out', files)
  <2> DEFINE arr == [i \in File |-> heard[i]]
  <2>1. arr = [i \in File |-> Occurrences(i, files[i].tokens)]
    BY <1>8, <1>9
  <2>2. files \in [File -> Content]
    BY <1>0, Numbers DEF Types
  <2>3. out' = Output(FlattenSeq(arr))
    BY <1>2
  <2> HIDE DEF arr
  <2>4. IsIndex(Output(FlattenSeq(arr)), files)
    BY <2>1, <2>2, OutputIsIndex
  <2> QED  BY <2>3, <2>4, Zenon
<1>10. Complete'
  <2>1. faults = 0 => closed = File
    BY <1>0, <1>1 DEF Complete
  <2>2. Plain' = Plain
    BY <1>1 DEF Plain
  <2> QED  BY <1>0, <1>1, <1>9, <2>1, <2>2 DEF Complete
<1> QED  BY <1>3, <1>4, <1>5, <1>6, <1>7, <1>10 DEF ProcessInv

\* Every step of either program.
LEMMA ProcessStep ==
  ASSUME ProcessInv, [AllNext]_<<vars, threadVars>>
  PROVE  ProcessInv'
<1>1. CASE UNCHANGED vars
  <2>1. Types'
    BY <1>1 DEF ProcessInv, Types, vars, childVars, readVars
  <2>2. Channels'
    BY <1>1, ChannelsStay DEF ProcessInv, chanVars, vars, childVars, readVars
  <2>3. Unwritten' /\ Forked'
    BY <1>1 DEF ProcessInv, Unwritten, Forked, At, vars, childVars, readVars
  <2>4. Held'
    BY <1>1 DEF ProcessInv, Held, AtEnd, vars, childVars, readVars
  <2>5. Complete'
    BY <1>1 DEF ProcessInv, Complete, Plain, vars, childVars, readVars
  <2> QED  BY <2>1, <2>2, <2>3, <2>4, <2>5 DEF ProcessInv
<1>2. CASE \/ ForkChild \/ CloseWrite \/ Select \/ (\E i \in ready : ReadPipe(i))
           \/ WriteOutput \/ WaitChild \/ ParentFails \/ SelectFails
  BY <1>2, ForkChildKeeps, CloseWriteKeeps, SelectKeeps, ReadPipeKeeps, WriteOutputKeeps, WaitChildKeeps,
     ParentFailsKeeps, SelectFailsKeeps
<1>3. CASE \E i \in File : \/ CloseInherited(i) \/ ReadFile(i) \/ WriteChunk(i)
                           \/ ChildExit(i) \/ Killed(i)
  BY <1>3, CloseInheritedKeeps, ReadFileKeeps, WriteChunkKeeps, ChildExitKeeps, KilledKeeps
<1>4. \/ UNCHANGED vars
      \/ ForkChild \/ CloseWrite \/ Select \/ (\E i \in ready : ReadPipe(i))
      \/ WriteOutput \/ WaitChild \/ ParentFails \/ SelectFails
      \/ \E i \in File : \/ CloseInherited(i) \/ ReadFile(i) \/ WriteChunk(i)
                         \/ ChildExit(i) \/ Killed(i)
  BY Zenon DEF AllNext, Lwp, Lwt, Turn
<1> QED  BY <1>1, <1>2, <1>3, <1>4

LEMMA ProcessInvProperties ==
  ASSUME ProcessInv
  PROVE  TypeOK /\ StreamIntact /\ ImplementsIndex
<1>1. TypeOK
  BY DEF ProcessInv, Types, Channels, Channel, Place, NoNewline, TypeOK
<1>2. StreamIntact
  BY DEF ProcessInv, Channels, Channel, Intact, Sent, Understood, StreamIntact
<1>3. ImplementsIndex
  BY DEF ProcessInv, Complete, ImplementsIndex, At
<1> QED  BY <1>1, <1>2, <1>3

LEMMA ProcessesKeepInv == AllSpec => []ProcessInv
<1>1. AllInit => ProcessInv
  BY ProcessInit DEF AllInit
<1>2. ProcessInv /\ [AllNext]_<<vars, threadVars>> => ProcessInv'
  BY ProcessStep
<1> QED  BY <1>1, <1>2, PTL DEF AllSpec

\* The state of findlwp has its types in every step of the run: no child writes past a
\* record, no pipe holds more than it can, the parent keeps no complete record and reads
\* no pipe it has closed.
THEOREM FindTypes == AllSpec => []TypeOK
BY ProcessesKeepInv, ProcessInvProperties, PTL

\* In every state, whatever fails and wherever the writes and reads cut the records:
\* what the parent has understood, keeps and has not read is what the child has written.
THEOREM FindStream == AllSpec => []StreamIntact
BY ProcessesKeepInv, ProcessInvProperties, PTL

\* A run of findlwp in which nothing fails writes the index of its files, if every word
\* is one word for isspace too.
THEOREM FindIndex == AllSpec => []ImplementsIndex
BY ProcessesKeepInv, ProcessInvProperties, PTL

-----------------------------------------------------------------------------
(* Every step of findlwt preserves its invariant.                          *)

\* The instance of the thread program speaks of the same index.
LEMMA SameIndex ==
  /\ \A i, s : Threads!Occurrences(i, s) = Occurrences(i, s)
  /\ \A s : Threads!Output(s) = Output(s)
  /\ \A x, fs : Threads!IsIndex(x, fs) <=> IsIndex(x, fs)
<1>1. \A i, s : Threads!Occurrences(i, s) = Occurrences(i, s)
  BY DEF Threads!Occurrences, Occurrences, Threads!Accumulate, Accumulate, Threads!PushWord, PushWord,
         Threads!Occurrence, Occurrence, Threads!Token, Token
<1>2. \A s : Threads!Output(s) = Output(s)
  BY DEF Threads!Output, Output, Threads!Lines, Lines, Threads!qsort, qsort, Threads!Placed, Placed,
         Threads!cmp_occurrence, cmp_occurrence, Threads!Printed, Printed, Threads!Line, Line,
         Threads!Occurrence, Occurrence, Threads!Accumulate, Accumulate, Threads!Max, Max
<1>3. \A x, fs : Threads!IsIndex(x, fs) <=> IsIndex(x, fs)
  BY DEF Threads!IsIndex, IsIndex, Threads!InOrder, InOrder, Threads!Times, Times, Threads!Listed, Listed,
         Threads!File, File, Threads!Cardinality, Cardinality
<1> QED  BY <1>1, <1>2, <1>3

LEMMA OccurrencesOfNext ==
  ASSUME NEW i \in Nat, NEW tokens \in Seq(Token), NEW t \in Nat, t + 1 <= Len(tokens)
  PROVE  Occurrences(i, SubSeq(tokens, 1, t + 1)) =
           Occurrences(i, SubSeq(tokens, 1, t)) \o Occurrences(i, <<tokens[t + 1]>>)
<1> DEFINE s == SubSeq(tokens, 1, t)
           c == tokens[t + 1]
           x == [word |-> c.word, fileIndex |-> i, lineNo |-> c.lineNo]
<1>1. s \in Seq(Token) /\ c \in Token /\ Len(tokens) \in Nat
  <2>1. Len(tokens) \in Nat /\ t + 1 \in 1 .. Len(tokens)
    BY LenProperties
  <2>2. \A k \in 1 .. t : tokens[k] \in Token
    BY <2>1, ElementOfSeq
  <2>3. s \in Seq(Token)
    BY <2>2, SubSeqProperties
  <2> QED  BY <2>1, <2>3, ElementOfSeq
<1>2. SubSeq(tokens, 1, t + 1) = Append(s, c)
  <2>1. 1 \in 1 .. Len(tokens) /\ t + 1 \in 1 .. Len(tokens) /\ (t + 1) - 1 = t
    BY <1>1
  <2>2. SubSeq(tokens, 1, t + 1) = SubSeq(tokens, 1, (t + 1) - 1) \o <<c>>
    BY <2>1, SubSeqRecursiveSecond
  <2>3. Append(s, c) = s \o <<c>>
    BY <1>1, AppendIsConcat
  <2> QED  BY <2>1, <2>2, <2>3, Zenon
<1>3. <<c>> = Append(<<>>, c) /\ <<>> \in Seq(Token)
  OBVIOUS
<1> HIDE DEF s, c
<1>4. /\ Occurrences(i, <<>>) = <<>> /\ Occurrences(i, s) \in Seq(Occurrence)
      /\ Occurrences(i, Append(s, c)) = IF Strlen[c.word] < K THEN Occurrences(i, s) ELSE Append(Occurrences(i, s), x)
      /\ Occurrences(i, Append(<<>>, c)) = IF Strlen[c.word] < K THEN Occurrences(i, <<>>) ELSE Append(Occurrences(i, <<>>), x)
  BY <1>1, <1>3, OccurrencesSteps, Zenon
<1>5. x \in Occurrence
  BY <1>1 DEF Token, Occurrence
<1> HIDE DEF x
<1>6. Occurrences(i, Append(s, c)) = Occurrences(i, s) \o Occurrences(i, <<c>>)
  <2>1. CASE Strlen[c.word] < K
    <3>1. Occurrences(i, <<c>>) = <<>> /\ Occurrences(i, Append(s, c)) = Occurrences(i, s)
      BY <1>3, <1>4, <2>1, Zenon
    <3>2. Occurrences(i, s) \o <<>> = Occurrences(i, s)
      BY <1>4, ConcatEmptySeq
    <3> QED  BY <3>1, <3>2, Zenon
  <2>2. CASE ~ (Strlen[c.word] < K)
    <3>1. /\ Occurrences(i, <<c>>) = Append(<<>>, x)
          /\ Occurrences(i, Append(s, c)) = Append(Occurrences(i, s), x)
      BY <1>3, <1>4, <2>2, Zenon
    <3>2. Append(<<>>, x) = <<x>>
      OBVIOUS
    <3>3. Append(Occurrences(i, s), x) = Occurrences(i, s) \o <<x>>
      BY <1>4, <1>5, AppendIsConcat
    <3> QED  BY <3>1, <3>2, <3>3, Zenon
  <2> QED  BY <2>1, <2>2
<1> QED  BY <1>2, <1>6, Zenon DEF s, c

LEMMA FileTypes ==
  ASSUME files \in Inputs, NEW i \in File
  PROVE  /\ i \in Nat /\ files[i].tokens \in Seq(Token) /\ Len(files[i].tokens) \in Nat
         /\ files[i].found \in BOOLEAN
         /\ ~ files[i].found => files[i].tokens = <<>>
         /\ Occurrences(i, files[i].tokens) \in Seq(Occurrence)
<1>1. files[i] \in Content /\ i \in Nat
  BY Numbers
<1>2. files[i].tokens \in Seq(Token) /\ files[i].found \in BOOLEAN /\ (~ files[i].found => files[i].tokens = <<>>)
  BY <1>1 DEF Content
<1> QED  BY <1>1, <1>2, LenProperties, OccurrencesSteps

LEMMA ThreadInit == Threads!Start => ThreadInv
<1> SUFFICES ASSUME Threads!Start PROVE ThreadInv
  OBVIOUS
<1>1. /\ worker = [i \in File |-> [pc |-> "unborn", t |-> 0]]
      /\ results = [i \in File |-> [arr |-> <<>>, ok |-> FALSE]]
      /\ main = [pc |-> "create", i |-> 1]
  BY DEF Threads!Start, Threads!File, File
<1>2. <<>> \in Seq(Occurrence)
  OBVIOUS
<1>3. /\ worker \in [File -> [pc : {"unborn", "open", "read", "returned"}, t : Nat]]
      /\ results \in [File -> [arr : Seq(Occurrence), ok : BOOLEAN]]
      /\ main \in [pc : {"create", "join", "merge", "done", "failed"}, i : File]
  BY <1>1, <1>2, Numbers
<1>4. \A j \in File : Filled(j)
  BY <1>1 DEF Filled
<1> QED  BY <1>1, <1>3, <1>4 DEF ThreadInv

\* The types of the next state, and what they need.
ThreadTypes ==
  /\ worker \in [File -> [pc : {"unborn", "open", "read", "returned"}, t : Nat]]
  /\ results \in [File -> [arr : Seq(Occurrence), ok : BOOLEAN]]
  /\ main \in [pc : {"create", "join", "merge", "done", "failed"}, i : File]

\* What main knows of the workers.
MainKnows ==
  /\ main.pc = "create" => \A j \in File : j >= main.i => worker[j].pc = "unborn"
  /\ main.pc = "join" => \A j \in File : j < main.i => worker[j].pc = "returned"
  /\ main.pc = "merge" => \A j \in File : worker[j].pc = "returned"
  /\ main.pc = "done" => IsIndex(threadsOut, files)

LEMMA ThreadParts ==
  /\ ThreadInv <=> ThreadTypes /\ MainKnows /\ \A j \in File : Filled(j)
  /\ ThreadInv' <=> ThreadTypes' /\ MainKnows' /\ \A j \in File : Filled(j)'
BY DEF ThreadInv, ThreadTypes, MainKnows

\* A step of one worker.
LEMMA OneWorker ==
  ASSUME ThreadInv, NEW i \in File, ThreadTypes', Filled(i)',
         files' = files, main' = main, threadsOut' = threadsOut, worker[i].pc \in {"open", "read"},
         \A j \in File : j # i => worker'[j] = worker[j] /\ results'[j] = results[j]
  PROVE  ThreadInv'
<1>1. ThreadTypes /\ MainKnows /\ \A j \in File : Filled(j)
  BY ThreadParts
<1>2. ASSUME NEW j \in File PROVE Filled(j)'
  <2>1. CASE j # i
    BY <1>1, <2>1 DEF Filled
  <2> QED  BY <2>1
<1>3. MainKnows'
  BY <1>1 DEF MainKnows
<1> QED  BY <1>2, <1>3, ThreadParts

LEMMA OpenFileKeeps ==
  ASSUME files \in Inputs, ThreadInv, NEW i \in File, Threads!OpenFile(i)
  PROVE  ThreadInv'
<1>0. ThreadTypes /\ Filled(i)
  BY ThreadParts
<1>1. /\ worker[i].pc = "open"
      /\ results' = [results EXCEPT ![i].ok = files[i].found]
      /\ worker' = [worker EXCEPT ![i].pc = IF files[i].found THEN "read" ELSE "returned"]
      /\ files' = files /\ main' = main /\ threadsOut' = threadsOut
  BY DEF Threads!OpenFile, Threads!WorkerAt
<1>2. /\ worker'[i].pc = (IF files[i].found THEN "read" ELSE "returned") /\ worker'[i].t = worker[i].t
      /\ results'[i].ok = files[i].found /\ results'[i].arr = results[i].arr
      /\ \A j \in File : j # i => worker'[j] = worker[j] /\ results'[j] = results[j]
  BY <1>0, <1>1 DEF ThreadTypes
<1>3. ThreadTypes'
  <2>1. files[i].found \in BOOLEAN
    BY FileTypes
  <2>2. (IF files[i].found THEN "read" ELSE "returned") \in {"unborn", "open", "read", "returned"}
    OBVIOUS
  <2>3. worker' \in [File -> [pc : {"unborn", "open", "read", "returned"}, t : Nat]]
    <3> DEFINE next == IF files[i].found THEN "read" ELSE "returned"
    <3>1. next \in {"unborn", "open", "read", "returned"} /\ worker' = [worker EXCEPT ![i].pc = next]
      BY <1>1, <2>2
    <3> HIDE DEF next
    <3> QED  BY <1>0, <3>1 DEF ThreadTypes
  <2>4. results' \in [File -> [arr : Seq(Occurrence), ok : BOOLEAN]]
    BY <1>0, <1>1, <2>1 DEF ThreadTypes
  <2> QED  BY <1>0, <1>1, <2>3, <2>4 DEF ThreadTypes
<1>4. worker[i].t = 0 /\ results[i].arr = <<>>
  BY <1>0, <1>1 DEF Filled
<1>5. /\ SubSeq(files[i].tokens, 1, 0) = <<>> /\ Occurrences(i, <<>>) = <<>> /\ 0 <= Len(files[i].tokens)
      /\ files[i].found \in BOOLEAN
  <2>1. SubSeq(files[i].tokens, 1, 0) = <<>>
    BY SubSeqEmpty
  <2>2. Occurrences(i, <<>>) = <<>>
    BY FileTypes, OccurrencesSteps
  <2> QED  BY <2>1, <2>2, FileTypes
<1>6. Filled(i)'
  <2>1. CASE files[i].found
    <3>1. worker'[i].pc = "read" /\ worker'[i].t = 0 /\ results'[i].ok /\ files' = files
      BY <1>1, <1>2, <1>4, <2>1
    <3>2. results'[i].arr = Occurrences(i, SubSeq(files[i].tokens, 1, 0))
      BY <1>2, <1>4, <1>5, Zenon
    <3> QED  BY <1>5, <2>1, <3>1, <3>2 DEF Filled
  <2>2. CASE ~ files[i].found
    BY <1>1, <1>2, <1>4, <1>5, <2>2 DEF Filled
  <2> QED  BY <2>1, <2>2
<1> QED  BY <1>1, <1>2, <1>3, <1>6, OneWorker

LEMMA ReadTokenKeeps ==
  ASSUME files \in Inputs, ThreadInv, NEW i \in File, Threads!ReadToken(i)
  PROVE  ThreadInv'
<1> DEFINE t == worker[i].t
           tokens == files[i].tokens
           new == Occurrences(i, <<tokens[t + 1]>>)
<1>0. ThreadTypes /\ Filled(i)
  BY ThreadParts
<1>1. /\ worker[i].pc = "read" /\ t + 1 <= Len(tokens)
      /\ results' = [results EXCEPT ![i].arr = @ \o new]
      /\ worker' = [worker EXCEPT ![i].t = t + 1]
      /\ files' = files /\ main' = main /\ threadsOut' = threadsOut
  BY SameIndex DEF Threads!ReadToken, Threads!WorkerAt
<1>2. /\ worker'[i].pc = "read" /\ worker'[i].t = t + 1
      /\ results'[i].ok = results[i].ok /\ results'[i].arr = results[i].arr \o new
      /\ \A j \in File : j # i => worker'[j] = worker[j] /\ results'[j] = results[j]
  BY <1>0, <1>1 DEF ThreadTypes
<1>3. /\ files[i].found /\ results[i].ok /\ t \in Nat
      /\ results[i].arr = Occurrences(i, SubSeq(tokens, 1, t))
  BY <1>0, <1>1 DEF Filled, ThreadTypes
<1>4. Occurrences(i, SubSeq(tokens, 1, t + 1)) = Occurrences(i, SubSeq(tokens, 1, t)) \o new
  <2>1. i \in Nat /\ tokens \in Seq(Token) /\ t \in Nat /\ t + 1 <= Len(tokens)
    BY <1>1, <1>3, FileTypes
  <2> HIDE DEF tokens, t
  <2> QED  BY <2>1, OccurrencesOfNext DEF new
<1>5. results[i].arr \o new = Occurrences(i, SubSeq(tokens, 1, t + 1))
  BY <1>3, <1>4
<1>6. Occurrences(i, SubSeq(tokens, 1, t + 1)) \in Seq(Occurrence)
  <2>1. tokens \in Seq(Token) /\ Len(tokens) \in Nat /\ i \in Nat
    BY FileTypes
  <2>2. \A k \in 1 .. t + 1 : tokens[k] \in Token
    BY <1>1, <1>3, <2>1, ElementOfSeq
  <2>3. SubSeq(tokens, 1, t + 1) \in Seq(Token)
    BY <1>3, <2>2, SubSeqProperties
  <2> QED  BY <2>1, <2>3, OccurrencesSteps
<1> HIDE DEF t, tokens, new
<1>7. ThreadTypes'
  <2>1. worker' \in [File -> [pc : {"unborn", "open", "read", "returned"}, t : Nat]]
    BY <1>0, <1>1, <1>3 DEF ThreadTypes
  <2>2. results[i].arr \o new \in Seq(Occurrence)
    BY <1>5, <1>6
  <2>3. results' \in [File -> [arr : Seq(Occurrence), ok : BOOLEAN]]
    BY <1>0, <1>1, <2>2 DEF ThreadTypes
  <2> QED  BY <1>0, <1>1, <2>1, <2>3 DEF ThreadTypes
<1>8. Filled(i)'
  BY <1>1, <1>2, <1>3, <1>5 DEF Filled, tokens
<1> QED  BY <1>1, <1>2, <1>7, <1>8, OneWorker

LEMMA WorkerReturnKeeps ==
  ASSUME files \in Inputs, ThreadInv, NEW i \in File, Threads!WorkerReturn(i)
  PROVE  ThreadInv'
<1>0. ThreadTypes /\ Filled(i)
  BY ThreadParts
<1>1. /\ worker[i].pc = "read" /\ worker[i].t = Len(files[i].tokens)
      /\ worker' = [worker EXCEPT ![i].pc = "returned"]
      /\ results' = results /\ files' = files /\ main' = main /\ threadsOut' = threadsOut
  BY DEF Threads!WorkerReturn, Threads!WorkerAt
<1>2. /\ worker'[i].pc = "returned"
      /\ \A j \in File : j # i => worker'[j] = worker[j]
  BY <1>0, <1>1 DEF ThreadTypes
<1>3. ThreadTypes'
  BY <1>0, <1>1 DEF ThreadTypes
<1>4. SubSeq(files[i].tokens, 1, Len(files[i].tokens)) = files[i].tokens
  BY FileTypes, SubSeqFull
<1>5. Filled(i)'
  BY <1>0, <1>1, <1>2, <1>4 DEF Filled
<1> QED  BY <1>1, <1>2, <1>3, <1>5, OneWorker

\* Where main is after the turn of its loop for one worker.
LEMMA NextOfFile ==
  ASSUME ThreadTypes, NEW pc, NEW then, Threads!NextOf(pc, then)
  PROVE  /\ main.i \in File /\ main.i \in Nat /\ N \in Nat /\ \A j \in File : j \in Nat /\ j <= N
         /\ \/ main.i < N /\ main'.pc = pc /\ main'.i = main.i + 1 /\ main'.i \in File /\ main' = [pc |-> pc, i |-> main'.i]
            \/ main.i = N /\ main'.pc = then /\ main'.i = 1 /\ main' = [pc |-> then, i |-> 1]
<1>1. main.i \in File
  BY DEF ThreadTypes
<1>2. N \in Nat /\ main.i \in Nat /\ main.i <= N /\ \A j \in File : j \in Nat /\ j <= N
  BY <1>1, WordIndexAssumption DEF File
<1>3. main' = IF main.i < N THEN [pc |-> pc, i |-> main.i + 1] ELSE [pc |-> then, i |-> 1]
  BY DEF Threads!NextOf
<1>4. CASE main.i < N
  BY <1>1, <1>2, <1>3, <1>4, Numbers
<1>5. CASE ~ (main.i < N)
  BY <1>1, <1>2, <1>3, <1>5
<1> QED  BY <1>4, <1>5

LEMMA CreateWorkerKeeps ==
  ASSUME files \in Inputs, ThreadInv, Threads!CreateWorker
  PROVE  ThreadInv'
<1> DEFINE i == main.i
<1>0. ThreadTypes /\ MainKnows /\ \A j \in File : Filled(j)
  BY ThreadParts
<1>1. /\ main.pc = "create" /\ Threads!NextOf("create", "join")
      /\ results' = [results EXCEPT ![i] = [arr |-> <<>>, ok |-> FALSE]]
      /\ worker' = [worker EXCEPT ![i].pc = "open"]
      /\ files' = files /\ threadsOut' = threadsOut
  BY DEF Threads!CreateWorker, Threads!At
<1>2. /\ i \in File /\ i \in Nat /\ N \in Nat /\ \A j \in File : j \in Nat /\ j <= N
      /\ \/ i < N /\ main'.pc = "create" /\ main'.i = i + 1 /\ main'.i \in File /\ main' = [pc |-> "create", i |-> main'.i]
         \/ i = N /\ main'.pc = "join" /\ main'.i = 1 /\ main' = [pc |-> "join", i |-> 1]
  BY <1>0, <1>1, NextOfFile
<1>3. worker[i].pc = "unborn" /\ worker[i].t = 0
  <2>1. worker[i].pc = "unborn"
    BY <1>0, <1>1, <1>2 DEF MainKnows
  <2> QED  BY <1>0, <1>2, <2>1 DEF Filled
<1> HIDE DEF i
<1>4. /\ worker'[i].pc = "open" /\ worker'[i].t = 0 /\ results'[i].arr = <<>>
      /\ \A j \in File : j # i => worker'[j] = worker[j] /\ results'[j] = results[j]
  BY <1>0, <1>1, <1>2, <1>3 DEF ThreadTypes
<1>5. ThreadTypes'
  <2>1. worker' \in [File -> [pc : {"unborn", "open", "read", "returned"}, t : Nat]]
    BY <1>0, <1>1, <1>2 DEF ThreadTypes
  <2>2. results' \in [File -> [arr : Seq(Occurrence), ok : BOOLEAN]]
    <3>1. [arr |-> <<>>, ok |-> FALSE] \in [arr : Seq(Occurrence), ok : BOOLEAN]
      OBVIOUS
    <3> QED  BY <1>0, <1>1, <1>2, <3>1 DEF ThreadTypes
  <2>3. main' \in [pc : {"create", "join", "merge", "done", "failed"}, i : File]
    BY <1>2, Numbers
  <2> QED  BY <2>1, <2>2, <2>3 DEF ThreadTypes
<1>6. ASSUME NEW j \in File PROVE Filled(j)'
  <2>1. CASE j = i
    BY <1>4, <2>1 DEF Filled
  <2>2. CASE j # i
    BY <1>0, <1>1, <1>4, <2>2 DEF Filled
  <2> QED  BY <2>1, <2>2
<1>7. MainKnows'
  <2>1. CASE main'.pc = "create" /\ main'.i = i + 1
    <3>1. \A j \in File : j >= i + 1 => worker'[j].pc = "unborn"
      <4>1. \A j \in File : j >= i + 1 => j >= i /\ j # i
        BY <1>2
      <4>2. \A j \in File : j >= i => worker[j].pc = "unborn"
        BY <1>0, <1>1 DEF MainKnows, i
      <4> QED  BY <1>4, <4>1, <4>2
    <3> QED  BY <2>1, <3>1 DEF MainKnows
  <2>2. CASE main'.pc = "join" /\ main'.i = 1
    <3>1. \A j \in File : ~ (j < 1)
      BY Numbers DEF File
    <3> QED  BY <2>2, <3>1 DEF MainKnows
  <2> QED  BY <1>2, <2>1, <2>2
<1> QED  BY <1>5, <1>6, <1>7, ThreadParts

LEMMA JoinWorkerKeeps ==
  ASSUME files \in Inputs, ThreadInv, Threads!JoinWorker
  PROVE  ThreadInv'
<1> DEFINE i == main.i
<1>0. ThreadTypes /\ MainKnows /\ \A j \in File : Filled(j)
  BY ThreadParts
<1>1. /\ main.pc = "join" /\ worker[i].pc = "returned" /\ Threads!NextOf("join", "merge")
      /\ files' = files /\ worker' = worker /\ results' = results /\ threadsOut' = threadsOut
  BY DEF Threads!JoinWorker, Threads!Joinable, Threads!At
<1>2. /\ i \in File /\ i \in Nat /\ N \in Nat /\ \A j \in File : j \in Nat /\ j <= N
      /\ \/ i < N /\ main'.pc = "join" /\ main'.i = i + 1 /\ main'.i \in File /\ main' = [pc |-> "join", i |-> main'.i]
         \/ i = N /\ main'.pc = "merge" /\ main'.i = 1 /\ main' = [pc |-> "merge", i |-> 1]
  BY <1>0, <1>1, NextOfFile
<1>3. \A j \in File : j < i \/ j = i => worker[j].pc = "returned"
  BY <1>0, <1>1 DEF MainKnows
<1> HIDE DEF i
<1>4. ThreadTypes'
  <2>1. main' \in [pc : {"create", "join", "merge", "done", "failed"}, i : File]
    BY <1>2, Numbers
  <2> QED  BY <1>0, <1>1, <2>1 DEF ThreadTypes
<1>5. \A j \in File : Filled(j)'
  BY <1>0, <1>1 DEF Filled
<1>6. MainKnows'
  <2>1. CASE main'.pc = "join" /\ main'.i = i + 1
    <3>1. \A j \in File : j < i + 1 => worker'[j].pc = "returned"
      <4>1. \A j \in File : j < i + 1 => j < i \/ j = i
        BY <1>2
      <4> QED  BY <1>1, <1>3, <4>1
    <3> QED  BY <2>1, <3>1 DEF MainKnows
  <2>2. CASE i = N /\ main'.pc = "merge"
    <3>1. \A j \in File : j < i \/ j = i
      BY <1>2, <2>2
    <3> QED  BY <1>1, <1>3, <2>2, <3>1 DEF MainKnows
  <2> QED  BY <1>2, <2>1, <2>2
<1> QED  BY <1>4, <1>5, <1>6, ThreadParts

LEMMA WriteMergedKeeps ==
  ASSUME files \in Inputs, ThreadInv, Threads!WriteOutput
  PROVE  ThreadInv'
<1>0. ThreadTypes /\ MainKnows /\ \A j \in File : Filled(j)
  BY ThreadParts
<1> DEFINE arr == [i \in File |-> IF results[i].ok THEN results[i].arr ELSE <<>>]
<1>1. /\ main.pc = "merge" /\ main' = [pc |-> "done", i |-> 1]
      /\ threadsOut' = Output(FlattenSeq(arr))
      /\ files' = files /\ worker' = worker /\ results' = results
  BY SameIndex DEF Threads!WriteOutput, Threads!At, Threads!Merged, Threads!File, File,
     Threads!FlattenSeq, FlattenSeq
<1>2. arr = [i \in File |-> Occurrences(i, files[i].tokens)]
  <2>1. ASSUME NEW i \in File PROVE arr[i] = Occurrences(i, files[i].tokens)
    <3>1. worker[i].pc = "returned"
      BY <1>0, <1>1 DEF MainKnows
    <3>2. results[i].ok = files[i].found /\ (files[i].found => results[i].arr = Occurrences(i, files[i].tokens))
      BY <1>0, <3>1 DEF Filled
    <3>3. ~ files[i].found => Occurrences(i, files[i].tokens) = <<>>
      BY FileTypes, OccurrencesSteps
    <3>4. arr[i] = IF results[i].ok THEN results[i].arr ELSE <<>>
      OBVIOUS
    <3> HIDE DEF arr
    <3>5. CASE files[i].found
      BY <3>2, <3>4, <3>5, Zenon
    <3>6. CASE ~ files[i].found
      BY <3>2, <3>3, <3>4, <3>6, Zenon
    <3> QED  BY <3>5, <3>6
  <2> QED  BY <2>1
<1> HIDE DEF arr
<1>3. IsIndex(Output(FlattenSeq(arr)), files)
  BY <1>2, Numbers, OutputIsIndex
<1>4. ThreadTypes'
  BY <1>0, <1>1, Numbers DEF ThreadTypes
<1>5. \A j \in File : Filled(j)'
  BY <1>0, <1>1 DEF Filled
<1>6. MainKnows'
  BY <1>1, <1>3 DEF MainKnows
<1> QED  BY <1>4, <1>5, <1>6, ThreadParts

LEMMA MainFailsKeeps ==
  ASSUME ThreadInv, Threads!MainFails
  PROVE  ThreadInv'
<1>0. ThreadTypes /\ MainKnows /\ \A j \in File : Filled(j)
  BY ThreadParts
<1>1. /\ main' = [pc |-> "failed", i |-> 1]
      /\ files' = files /\ worker' = worker /\ results' = results
  BY DEF Threads!MainFails
<1>2. ThreadTypes'
  BY <1>0, <1>1, Numbers DEF ThreadTypes
<1>3. \A j \in File : Filled(j)'
  BY <1>0, <1>1 DEF Filled
<1>4. MainKnows'
  BY <1>1 DEF MainKnows
<1> QED  BY <1>2, <1>3, <1>4, ThreadParts

\* No step of findlwp changes the files.
LEMMA FilesStay ==
  ASSUME [AllNext]_<<vars, threadVars>>
  PROVE  files' = files
BY DEF AllNext, Lwp, Lwt, Turn, vars, threadVars, ForkChild, CloseWrite, Select, ReadPipe, WriteOutput,
       WaitChild, ParentFails, SelectFails, CloseInherited, ReadFile, WriteChunk, ChildExit, Killed

\* Every step of either program.
LEMMA ThreadStep ==
  ASSUME files \in Inputs, ThreadInv, [AllNext]_<<vars, threadVars>>
  PROVE  ThreadInv'
<1>1. CASE UNCHANGED threadVars
  <2>1. /\ worker' = worker /\ results' = results /\ main' = main /\ threadsOut' = threadsOut
        /\ files' = files
    BY <1>1, FilesStay DEF threadVars
  <2>2. \A j \in File : Filled(j)' <=> Filled(j)
    BY <2>1 DEF Filled
  <2> QED  BY <2>1, <2>2, ThreadParts DEF ThreadTypes, MainKnows
<1>2. CASE Threads!CreateWorker \/ Threads!JoinWorker \/ Threads!WriteOutput \/ Threads!MainFails
  BY <1>2, CreateWorkerKeeps, JoinWorkerKeeps, WriteMergedKeeps, MainFailsKeeps
<1>3. CASE \E i \in File : Threads!OpenFile(i) \/ Threads!ReadToken(i) \/ Threads!WorkerReturn(i)
  BY <1>3, OpenFileKeeps, ReadTokenKeeps, WorkerReturnKeeps
<1>4. \/ UNCHANGED threadVars
      \/ Threads!CreateWorker \/ Threads!JoinWorker \/ Threads!WriteOutput \/ Threads!MainFails
      \/ \E i \in File : Threads!OpenFile(i) \/ Threads!ReadToken(i) \/ Threads!WorkerReturn(i)
  BY Zenon DEF AllNext, Lwp, Lwt
<1> QED  BY <1>1, <1>2, <1>3, <1>4

\* Whatever order the workers of findlwt run in, the output of a run that does not fail
\* is the index of the files, of odd words too, and a missing file counts as an empty one.
THEOREM FindThreadsIndex == AllSpec => []ThreadsIndex
<1>1. AllInit => ThreadInv
  BY ThreadInit DEF AllInit
<1>2. ProcessInv => files \in Inputs
  BY DEF ProcessInv, Types
<1>3. ProcessInv /\ ThreadInv /\ [AllNext]_<<vars, threadVars>> => ThreadInv'
  BY <1>2, ThreadStep
<1>4. ThreadInv => ThreadsIndex
  BY SameIndex DEF ThreadInv, ThreadsIndex, Threads!ThreadsIndex, Threads!At
<1> QED  BY <1>1, <1>3, <1>4, ProcessesKeepInv, PTL DEF AllSpec
=============================================================================
