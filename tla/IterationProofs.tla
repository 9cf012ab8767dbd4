-------------------------- MODULE IterationProofs --------------------------
(***************************************************************************)
(* Induction over the naturals in a first-order form, and the facts about  *)
(* Iterate and Total that the proofs about the loops of the source rest on. *)
(***************************************************************************)
EXTENDS Iteration, Integers, SequenceTheorems, WellFoundedInduction, TLAPS

\* Every non-empty set of naturals has a least element.
LEMMA LeastNatural ==
  ASSUME NEW T \in SUBSET Nat, T # {}
  PROVE  \E m \in T : \A k \in T : m <= k
<1> DEFINE less == OpToRel(<, Nat)
<1>1. IsWellFoundedOn(less, Nat)
  BY NatLessThanWellFounded
<1>2. PICK m \in T : \A k \in T : ~ (<<k, m>> \in less)
  <2> HIDE DEF less
  <2> QED  BY <1>1, WFMin
<1>3. ASSUME NEW k \in T PROVE m <= k
  <2>1. ~ (<<k, m>> \in less)
    BY <1>2
  <2>2. k \in Nat /\ m \in Nat
    OBVIOUS
  <2>3. ~ (k < m)
    <3> SUFFICES ASSUME k < m PROVE FALSE
      OBVIOUS
    <3>1. <<k, m>> \in less
      BY <2>2, Zenon DEF OpToRel
    <3> QED  BY <2>1, <3>1
  <2> QED  BY <2>2, <2>3
<1> QED  BY <1>3

\* Induction: a set of naturals that holds 0 and the successor of each of its
\* members holds every natural.
LEMMA SetInduction ==
  ASSUME NEW T \in SUBSET Nat, 0 \in T, \A n \in T : n + 1 \in T
  PROVE  T = Nat
<1>1. SUFFICES ASSUME Nat \ T # {} PROVE FALSE
  OBVIOUS
<1>2. PICK m \in Nat \ T : \A k \in Nat \ T : m <= k
  BY <1>1, LeastNatural
<1>3. m # 0 /\ m - 1 \in Nat
  BY <1>2
<1>4. m - 1 \in T
  BY <1>2, <1>3
<1>5. (m - 1) + 1 = m
  BY <1>2
<1> QED  BY <1>2, <1>4, <1>5

\* h is the run of a step function on S from x.
Run(h, S, x, step) ==
  h \in [Nat -> S] /\ h[0] = x /\ \A k \in Nat : h[k + 1] = step[k][h[k]]

\* Recursion: a step function on S has, from every start in S, an infinite run.
LEMMA RunExists ==
  ASSUME NEW S, NEW x \in S, NEW step \in [Nat -> [S -> S]]
  PROVE  \E h : Run(h, S, x, step)
<1> DEFINE Prefix(n) == {h \in [0 .. n -> S] :
                           h[0] = x /\ \A k \in 0 .. n - 1 : h[k + 1] = step[k][h[k]]}
           T == {n \in Nat : Prefix(n) # {}}
           P(n) == CHOOSE h \in Prefix(n) : TRUE
           H == [n \in Nat |-> P(n)[n]]
<1>1. 0 \in T
  <2>1. [k \in 0 .. 0 |-> x] \in Prefix(0)
    OBVIOUS
  <2> QED  BY <2>1
<1>2. ASSUME NEW n \in T PROVE n + 1 \in T
  <2>1. PICK h \in Prefix(n) : TRUE
    OBVIOUS
  <2> DEFINE e == [k \in 0 .. n + 1 |-> IF k = n + 1 THEN step[n][h[n]] ELSE h[k]]
  <2>2. n \in Nat /\ h[n] \in S
    OBVIOUS
  <2>3. step[n][h[n]] \in S
    BY <2>2
  <2>4. e \in [0 .. n + 1 -> S]
    BY <2>2, <2>3
  <2>5. e[0] = x
    BY <2>2
  <2>6. ASSUME NEW k \in 0 .. (n + 1) - 1 PROVE e[k + 1] = step[k][e[k]]
    <3>1. CASE k = n
      BY <3>1, <2>2
    <3>2. CASE k # n
      <4>1. k \in 0 .. n - 1 /\ k + 1 \in 0 .. n + 1 /\ k + 1 # n + 1 /\ k # n + 1 /\ k \in 0 .. n + 1
        BY <3>2, <2>2
      <4>2. h[k + 1] = step[k][h[k]]
        BY <4>1
      <4> QED  BY <4>1, <4>2
    <3> QED  BY <3>1, <3>2
  <2>7. e \in Prefix(n + 1)
    <3> HIDE DEF e
    <3> QED  BY <2>4, <2>5, <2>6
  <2> HIDE DEF Prefix, e
  <2> QED  BY <2>2, <2>7
<1>3. T = Nat
  <2> HIDE DEF T
  <2>1. T \in SUBSET Nat
    BY DEF T
  <2> QED  BY <1>1, <1>2, <2>1, SetInduction
<1>4. \A n \in Nat : P(n) \in Prefix(n)
  <2>1. \A n \in Nat : Prefix(n) # {}
    <3> HIDE DEF Prefix
    <3> QED  BY <1>3
  <2> HIDE DEF Prefix
  <2> QED  BY <2>1
<1> HIDE DEF P
<1>5. \A n \in Nat : P(n)[0] = x
  BY <1>4
<1>6. \A n \in Nat, k \in Nat : k < n => P(n)[k + 1] = step[k][P(n)[k]]
  <2>1. ASSUME NEW n \in Nat, NEW k \in Nat, k < n PROVE P(n)[k + 1] = step[k][P(n)[k]]
    <3>1. k \in 0 .. n - 1
      BY <2>1
    <3> QED  BY <1>4, <3>1
  <2> QED  BY <2>1
<1>7. ASSUME NEW n \in Nat PROVE P(n)[n] \in S
  BY <1>4
<1> HIDE DEF Prefix
<1>8. ASSUME NEW n \in Nat PROVE P(n + 1)[n] = P(n)[n]
  <2> DEFINE U == {k \in Nat : k <= n => P(n + 1)[k] = P(n)[k]}
  <2>1. 0 \in U
    BY <1>5, n + 1 \in Nat
  <2>2. ASSUME NEW k \in U PROVE k + 1 \in U
    <3>1. CASE k + 1 <= n
      <4>1. k \in Nat /\ n + 1 \in Nat /\ k < n /\ k < n + 1
        BY <3>1
      <4>2. P(n)[k + 1] = step[k][P(n)[k]]
        BY <1>6, <4>1
      <4>3. P(n + 1)[k + 1] = step[k][P(n + 1)[k]]
        BY <1>6, <4>1
      <4>4. P(n + 1)[k] = P(n)[k]
        BY <4>1
      <4> QED  BY <4>1, <4>2, <4>3, <4>4
    <3>2. CASE ~ (k + 1 <= n)
      BY <3>2
    <3> QED  BY <3>1, <3>2
  <2>3. U = Nat
    <3> HIDE DEF U
    <3>1. U \in SUBSET Nat
      BY DEF U
    <3> QED  BY <2>1, <2>2, <3>1, SetInduction
  <2> QED  BY <2>3
<1>9. H \in [Nat -> S]
  BY <1>7
<1>10. H[0] = x
  BY <1>5
<1>11. ASSUME NEW n \in Nat PROVE H[n + 1] = step[n][H[n]]
  <2>1. n \in Nat /\ n + 1 \in Nat /\ n < n + 1
    OBVIOUS
  <2>2. P(n + 1)[n + 1] = step[n][P(n + 1)[n]]
    BY <1>6, <2>1
  <2>3. P(n + 1)[n] = P(n)[n]
    BY <1>8
  <2> QED  BY <2>1, <2>2, <2>3
<1> HIDE DEF H
<1> QED  BY <1>9, <1>10, <1>11 DEF Run

\* What Iterate computes, for a function that maps S into itself.
LEMMA IterateSteps ==
  ASSUME NEW S, NEW f, NEW x \in S, \A y \in S : f[y] \in S
  PROVE  /\ Iterate(f, x, 0) = x
         /\ \A n \in Nat : Iterate(f, x, n) \in S
         /\ \A n \in Nat : Iterate(f, x, n + 1) = f[Iterate(f, x, n)]
<1> DEFINE step == [n \in Nat |-> [y \in S |-> f[y]]]
           body(it) == [k \in Nat |-> IF k = 0 THEN x ELSE f[it[k - 1]]]
           it == CHOOSE it : it = body(it)
<1>0. PICK h : Run(h, S, x, step)
  <2>1. step \in [Nat -> [S -> S]]
    OBVIOUS
  <2> HIDE DEF step
  <2> QED  BY <2>1, RunExists
<1>1. h \in [Nat -> S] /\ h[0] = x /\ \A k \in Nat : h[k + 1] = step[k][h[k]]
  BY <1>0, Zenon DEF Run
<1>2. h = body(h)
  <2>1. ASSUME NEW k \in Nat PROVE h[k] = IF k = 0 THEN x ELSE f[h[k - 1]]
    <3>1. CASE k = 0
      BY <3>1, <1>1
    <3>2. CASE k # 0
      <4>1. k - 1 \in Nat /\ (k - 1) + 1 = k
        BY <3>2
      <4>2. h[k - 1] \in S
        BY <1>1, <4>1
      <4> QED  BY <1>1, <3>2, <4>1, <4>2
    <3> QED  BY <3>1, <3>2
  <2> QED  BY <1>1, <2>1
<1>3. it = body(it)
  <2> HIDE DEF body
  <2> QED  BY <1>2
<1>4. \A n \in Nat : Iterate(f, x, n) = it[n]
  BY Zenon DEF Iterate
<1> HIDE DEF it
<1>5. it[0] = x
  BY <1>3
<1>6. \A n \in Nat : it[n + 1] = f[it[n]]
  BY <1>3
<1> DEFINE U == {n \in Nat : it[n] \in S}
<1>7. U = Nat
  <2>1. 0 \in U
    BY <1>5
  <2>2. \A n \in U : n + 1 \in U
    BY <1>6
  <2>3. U \in SUBSET Nat
    OBVIOUS
  <2> HIDE DEF U
  <2> QED  BY <2>1, <2>2, <2>3, SetInduction
<1> QED  BY <1>4, <1>5, <1>6, <1>7

\* A loop invariant: what the body preserves, the loop preserves.
LEMMA IterateInvariant ==
  ASSUME NEW S, NEW f, NEW x \in S, \A y \in S : f[y] \in S, NEW n \in Nat
  PROVE  Iterate(f, x, n) \in S
BY IterateSteps

\* What Total computes, for a function with integer values below N.
LEMMA TotalSteps ==
  ASSUME NEW N \in Nat, NEW f, \A k \in 0 .. N - 1 : f[k] \in Int
  PROVE  /\ Total(f, 0) = 0
         /\ \A n \in 0 .. N : Total(f, n) \in Int
         /\ \A n \in 0 .. N - 1 : Total(f, n + 1) = Total(f, n) + f[n]
<1> DEFINE step == [n \in Nat |-> [y \in Int |-> IF n < N THEN y + f[n] ELSE y]]
           body(sum, n) == [k \in 0 .. n |-> IF k = 0 THEN 0 ELSE sum[k - 1] + f[k - 1]]
           part(n) == CHOOSE sum : sum = body(sum, n)
<1>0. PICK h : Run(h, Int, 0, step)
  <2>1. step \in [Nat -> [Int -> Int]]
    <3>1. \A n \in Nat : n < N => f[n] \in Int
      OBVIOUS
    <3> QED  BY <3>1
  <2>2. 0 \in Int
    OBVIOUS
  <2> HIDE DEF step
  <2> QED  BY <2>1, <2>2, RunExists
<1>1. h \in [Nat -> Int] /\ h[0] = 0 /\ \A k \in Nat : h[k + 1] = step[k][h[k]]
  BY <1>0, Zenon DEF Run
<1>2. ASSUME NEW k \in 0 .. N - 1 PROVE h[k + 1] = h[k] + f[k]
  <2>1. k \in Nat /\ k < N /\ h[k] \in Int
    BY <1>1
  <2>2. step[k][h[k]] = h[k] + f[k]
    BY <2>1
  <2> HIDE DEF step
  <2> QED  BY <1>1, <2>1, <2>2
<1>3. ASSUME NEW n \in 0 .. N PROVE Total(f, n) = h[n]
  <2> DEFINE e == [k \in 0 .. n |-> h[k]]
  <2>1. e = body(e, n)
    <3>1. ASSUME NEW k \in 0 .. n PROVE h[k] = IF k = 0 THEN 0 ELSE e[k - 1] + f[k - 1]
      <4>1. CASE k = 0
        BY <4>1, <1>1
      <4>2. CASE k # 0
        <5>1. k - 1 \in 0 .. n /\ k - 1 \in 0 .. N - 1 /\ (k - 1) + 1 = k
          BY <4>2
        <5>2. h[k] = h[k - 1] + f[k - 1]
          BY <1>2, <5>1
        <5> QED  BY <4>2, <5>1, <5>2
      <4> QED  BY <4>1, <4>2
    <3> QED  BY <3>1
  <2>2. part(n) = body(part(n), n)
    <3> HIDE DEF body, e
    <3> QED  BY <2>1
  <2>3. Total(f, n) = part(n)[n]
    BY Zenon DEF Total
  <2> HIDE DEF part
  <2>4. part(n)[0] = 0
    BY <2>2
  <2>5. \A k \in 0 .. n - 1 : part(n)[k + 1] = part(n)[k] + f[k]
    BY <2>2
  <2> DEFINE U == {k \in Nat : k <= n => part(n)[k] = h[k]}
  <2>6. 0 \in U
    BY <2>4, <1>1
  <2>7. ASSUME NEW k \in U PROVE k + 1 \in U
    <3>1. CASE k + 1 <= n
      <4>1. k \in 0 .. n - 1 /\ k \in 0 .. N - 1
        BY <3>1
      <4> QED  BY <4>1, <2>5, <1>2
    <3>2. CASE ~ (k + 1 <= n)
      BY <3>2
    <3> QED  BY <3>1, <3>2
  <2>8. U = Nat
    <3>1. U \in SUBSET Nat
      OBVIOUS
    <3> HIDE DEF U
    <3> QED  BY <2>6, <2>7, <3>1, SetInduction
  <2>9. n \in U /\ n <= n
    BY <2>8
  <2> QED  BY <2>3, <2>9
<1>4. 0 \in 0 .. N
  OBVIOUS
<1>5. \A n \in 0 .. N : h[n] \in Int
  BY <1>1
<1>6. \A n \in 0 .. N - 1 : n \in 0 .. N /\ n + 1 \in 0 .. N
  OBVIOUS
<1> QED  BY <1>1, <1>2, <1>3, <1>4, <1>5, <1>6

\* A sum changes by what one of its terms changes.
LEMMA TotalUpdate ==
  ASSUME NEW N \in Nat, NEW f, NEW e, NEW i \in 0 .. N - 1,
         \A k \in 0 .. N - 1 : f[k] \in Int /\ e[k] \in Int,
         \A k \in 0 .. N - 1 : k # i => e[k] = f[k]
  PROVE  Total(e, N) = Total(f, N) + (e[i] - f[i])
<1> DEFINE U == {n \in Nat : n <= N =>
                   Total(e, n) = Total(f, n) + IF i < n THEN e[i] - f[i] ELSE 0}
<1>1. /\ Total(f, 0) = 0 /\ Total(e, 0) = 0
      /\ \A n \in 0 .. N : Total(f, n) \in Int /\ Total(e, n) \in Int
      /\ \A n \in 0 .. N - 1 : Total(f, n + 1) = Total(f, n) + f[n]
      /\ \A n \in 0 .. N - 1 : Total(e, n + 1) = Total(e, n) + e[n]
  BY TotalSteps
<1>2. 0 \in U
  BY <1>1
<1>3. ASSUME NEW n \in U PROVE n + 1 \in U
  <2>1. CASE n + 1 <= N
    <3>1. n \in 0 .. N - 1 /\ n \in 0 .. N
      BY <2>1
    <3>2. Total(e, n) = Total(f, n) + IF i < n THEN e[i] - f[i] ELSE 0
      BY <3>1
    <3>3. Total(f, n) \in Int /\ f[n] \in Int /\ e[n] \in Int /\ e[i] \in Int /\ f[i] \in Int
      BY <1>1, <3>1
    <3>4. Total(f, n + 1) = Total(f, n) + f[n] /\ Total(e, n + 1) = Total(e, n) + e[n]
      BY <1>1, <3>1
    <3>5. n # i => e[n] = f[n]
      BY <3>1
    <3> QED  BY <3>1, <3>2, <3>3, <3>4, <3>5
  <2>2. CASE ~ (n + 1 <= N)
    BY <2>2
  <2> QED  BY <2>1, <2>2
<1>4. U = Nat
  <2>1. U \in SUBSET Nat
    OBVIOUS
  <2> HIDE DEF U
  <2> QED  BY <1>2, <1>3, <2>1, SetInduction
<1>5. N \in U /\ i < N
  BY <1>4
<1> QED  BY <1>5

\* A sum is at most another whose terms are.
LEMMA TotalMonotone ==
  ASSUME NEW N \in Nat, NEW f, NEW e,
         \A k \in 0 .. N - 1 : f[k] \in Int /\ e[k] \in Int /\ e[k] <= f[k]
  PROVE  Total(e, N) <= Total(f, N)
<1> DEFINE U == {n \in Nat : n <= N => Total(e, n) <= Total(f, n)}
<1>1. /\ Total(f, 0) = 0 /\ Total(e, 0) = 0
      /\ \A n \in 0 .. N : Total(f, n) \in Int /\ Total(e, n) \in Int
      /\ \A n \in 0 .. N - 1 : Total(f, n + 1) = Total(f, n) + f[n]
      /\ \A n \in 0 .. N - 1 : Total(e, n + 1) = Total(e, n) + e[n]
  BY TotalSteps
<1>2. 0 \in U
  BY <1>1
<1>3. ASSUME NEW n \in U PROVE n + 1 \in U
  <2>1. CASE n + 1 <= N
    <3>1. n \in 0 .. N - 1 /\ n \in 0 .. N
      BY <2>1
    <3>2. Total(f, n) \in Int /\ Total(e, n) \in Int /\ f[n] \in Int /\ e[n] \in Int
      BY <1>1, <3>1
    <3>3. Total(f, n + 1) = Total(f, n) + f[n] /\ Total(e, n + 1) = Total(e, n) + e[n]
      BY <1>1, <3>1
    <3>4. e[n] <= f[n] /\ Total(e, n) <= Total(f, n)
      BY <3>1
    <3> QED  BY <3>2, <3>3, <3>4
  <2>2. CASE ~ (n + 1 <= N)
    BY <2>2
  <2> QED  BY <2>1, <2>2
<1>4. U = Nat
  <2>1. U \in SUBSET Nat
    OBVIOUS
  <2> HIDE DEF U
  <2> QED  BY <1>2, <1>3, <2>1, SetInduction
<1> QED  BY <1>4

\* A sum of zeros.
LEMMA TotalOfZeros ==
  ASSUME NEW N \in Nat, NEW f, \A k \in 0 .. N - 1 : f[k] = 0
  PROVE  Total(f, N) = 0
<1> DEFINE U == {n \in Nat : n <= N => Total(f, n) = 0}
<1>1. /\ Total(f, 0) = 0
      /\ \A n \in 0 .. N - 1 : Total(f, n + 1) = Total(f, n) + f[n]
  <2>1. \A k \in 0 .. N - 1 : f[k] \in Int
    OBVIOUS
  <2> QED  BY <2>1, TotalSteps
<1>2. 0 \in U
  BY <1>1
<1>3. \A n \in U : n + 1 \in U
  BY <1>1
<1>4. U = Nat
  <2>1. U \in SUBSET Nat
    OBVIOUS
  <2> HIDE DEF U
  <2> QED  BY <1>2, <1>3, <2>1, SetInduction
<1> QED  BY <1>4

-----------------------------------------------------------------------------
(* Loops that visit the positions 0 .. n - 1 in a circle.  Turn k is at     *)
(* position pos[k] with the body of the state d[k].  If there is work at    *)
(* the position (d[k] is in Q[pos[k]]) the turn lowers the measure m[k],    *)
(* and otherwise it does nothing.                                           *)

Turns(n, B, pos, d, Q, m) ==
  /\ pos \in [Nat -> 0 .. n - 1]
  /\ d \in [Nat -> B]
  /\ m \in [Nat -> Nat]
  /\ \A k \in Nat : pos[k + 1] = IF pos[k] = n - 1 THEN 0 ELSE pos[k] + 1
  /\ \A k \in Nat : d[k] \notin Q[pos[k]] => d[k + 1] = d[k] /\ m[k + 1] = m[k]
  /\ \A k \in Nat : d[k] \in Q[pos[k]] => m[k + 1] < m[k]

LEMMA OneTurn ==
  ASSUME NEW n \in Nat \ {0}, NEW B, NEW pos, NEW d, NEW Q, NEW m,
         Turns(n, B, pos, d, Q, m), NEW k \in Nat
  PROVE  /\ pos[k] \in 0 .. n - 1 /\ m[k] \in Nat /\ m[k + 1] \in Nat
         /\ pos[k + 1] = IF pos[k] = n - 1 THEN 0 ELSE pos[k] + 1
         /\ d[k] \notin Q[pos[k]] => d[k + 1] = d[k] /\ m[k + 1] = m[k]
         /\ d[k] \in Q[pos[k]] => m[k + 1] < m[k]
<1>1. k + 1 \in Nat
  OBVIOUS
<1> QED  BY <1>1 DEF Turns

\* No position has work in body b.
Settled(n, Q, b) == \A i \in 0 .. n - 1 : b \notin Q[i]

\* One pass: it finds no work at all, or it lowers the measure.
LEMMA OnePass ==
  ASSUME NEW n \in Nat \ {0}, NEW B, NEW pos, NEW d, NEW Q, NEW m,
         Turns(n, B, pos, d, Q, m), NEW k \in Nat, pos[k] = 0
  PROVE  /\ pos[k + n] = 0
         /\ \/ d[k + n] = d[k] /\ Settled(n, Q, d[k])
            \/ m[k + n] < m[k] /\ ~ Settled(n, Q, d[k])
<1> DEFINE At(j) == pos[k + j] = IF j = n THEN 0 ELSE j
           Quiet(j) == /\ d[k + j] = d[k] /\ m[k + j] = m[k]
                       /\ \A i \in 0 .. j - 1 : d[k] \notin Q[i]
           Less(j) == m[k + j] < m[k] /\ ~ Settled(n, Q, d[k])
           U == {j \in Nat : j <= n => At(j) /\ (Quiet(j) \/ Less(j))}
<1>1. At(0) /\ Quiet(0)
  <2>1. k + 0 = k
    OBVIOUS
  <2> QED  BY <2>1
<1>2. ASSUME NEW j \in Nat, j + 1 <= n, At(j), Quiet(j) \/ Less(j)
      PROVE  At(j + 1) /\ (Quiet(j + 1) \/ Less(j + 1))
  <2>1. j # n /\ j \in 0 .. n - 1 /\ k + j \in Nat /\ (k + j) + 1 = k + (j + 1)
    BY <1>2
  <2>2. pos[k + j] = j
    BY <1>2, <2>1
  <2>3. /\ m[k + j] \in Nat /\ m[k + (j + 1)] \in Nat /\ m[k] \in Nat
        /\ pos[k + (j + 1)] = IF j = n - 1 THEN 0 ELSE j + 1
        /\ d[k + j] \notin Q[j] => d[k + (j + 1)] = d[k + j] /\ m[k + (j + 1)] = m[k + j]
        /\ d[k + j] \in Q[j] => m[k + (j + 1)] < m[k + j]
    BY <2>1, <2>2, OneTurn
  <2>4. At(j + 1)
    BY <1>2, <2>1, <2>3
  <2>5. CASE Quiet(j) /\ d[k] \in Q[j]
    <3>1. ~ Settled(n, Q, d[k])
      BY <2>1, <2>5 DEF Settled
    <3> QED  BY <2>3, <2>4, <2>5, <3>1
  <2>6. CASE Quiet(j) /\ d[k] \notin Q[j]
    <3>1. d[k + (j + 1)] = d[k] /\ m[k + (j + 1)] = m[k]
      BY <2>3, <2>6
    <3>2. ASSUME NEW i \in 0 .. (j + 1) - 1 PROVE d[k] \notin Q[i]
      <4>1. i \in 0 .. j - 1 \/ i = j
        OBVIOUS
      <4> QED  BY <2>6, <4>1
    <3>3. Quiet(j + 1)
      BY <3>1, <3>2
    <3> QED  BY <2>4, <3>3
  <2>7. CASE Less(j)
    <3>1. m[k + (j + 1)] <= m[k + j]
      BY <2>3
    <3> QED  BY <2>3, <2>4, <2>7, <3>1
  <2> QED  BY <1>2, <2>5, <2>6, <2>7
<1> HIDE DEF At, Quiet, Less
<1>3. U = Nat
  <2>1. 0 \in U
    BY <1>1
  <2>2. \A j \in U : j + 1 \in U
    BY <1>2
  <2>3. U \in SUBSET Nat
    OBVIOUS
  <2> HIDE DEF U
  <2> QED  BY <2>1, <2>2, <2>3, SetInduction
<1>4. At(n) /\ (Quiet(n) \/ Less(n))
  <2>1. n \in U /\ n <= n
    BY <1>3
  <2> QED  BY <2>1
<1> QED  BY <1>4 DEF At, Quiet, Less, Settled

\* After n passes no position has work, if the measure began at n or less.
LEMMA PassesSettle ==
  ASSUME NEW n \in Nat \ {0}, NEW B, NEW pos, NEW d, NEW Q, NEW m,
         Turns(n, B, pos, d, Q, m), pos[0] = 0, m[0] <= n
  PROVE  Settled(n, Q, d[n * n])
<1> DEFINE Good(p) == /\ pos[p * n] = 0
                      /\ Settled(n, Q, d[p * n]) \/ m[p * n] <= n - p
           V == {p \in Nat : Good(p)}
<1>1. Good(0)
  <2>1. 0 * n = 0 /\ n - 0 = n
    OBVIOUS
  <2> QED  BY <2>1
<1>2. ASSUME NEW p \in Nat, Good(p) PROVE Good(p + 1)
  <2> DEFINE k == p * n
  <2>1. k \in Nat /\ (p + 1) * n = k + n
    OBVIOUS
  <2>2. pos[k] = 0 /\ (Settled(n, Q, d[k]) \/ m[k] <= n - p)
    BY <1>2
  <2> HIDE DEF k
  <2>3. /\ pos[k + n] = 0
        /\ \/ d[k + n] = d[k] /\ Settled(n, Q, d[k])
           \/ m[k + n] < m[k] /\ ~ Settled(n, Q, d[k])
    BY <2>1, <2>2, OnePass
  <2>4. m[k] \in Nat /\ m[k + n] \in Nat
    <3>1. k + n \in Nat
      BY <2>1
    <3> QED  BY <2>1, <3>1, OneTurn
  <2>5. Settled(n, Q, d[k + n]) \/ m[k + n] <= n - (p + 1)
    <3>1. CASE Settled(n, Q, d[k])
      <4>1. d[k + n] = d[k]
        BY <2>3, <3>1
      <4> QED  BY <3>1, <4>1
    <3>2. CASE ~ Settled(n, Q, d[k])
      <4>1. m[k + n] < m[k] /\ m[k] <= n - p
        BY <2>2, <2>3, <3>2
      <4> QED  BY <2>4, <4>1
    <3> QED  BY <3>1, <3>2
  <2> QED  BY <2>1, <2>3, <2>5
<1> HIDE DEF Good
<1>3. V = Nat
  <2>1. 0 \in V /\ V \in SUBSET Nat
    BY <1>1
  <2>2. \A p \in V : p + 1 \in V
    BY <1>2
  <2> HIDE DEF V
  <2> QED  BY <2>1, <2>2, SetInduction
<1>4. pos[n * n] = 0 /\ (Settled(n, Q, d[n * n]) \/ m[n * n] <= 0)
  <2>1. n \in V
    BY <1>3
  <2> QED  BY <2>1 DEF Good
<1>5. n * n \in Nat /\ n * n + n \in Nat
  OBVIOUS
<1>6. CASE m[n * n] <= 0
  <2>1. m[n * n] \in Nat /\ m[n * n + n] \in Nat
    BY <1>5, OneTurn
  <2>2. ~ (m[n * n + n] < m[n * n])
    BY <1>6, <2>1
  <2> QED  BY <1>4, <1>5, <2>2, OnePass
<1> QED  BY <1>4, <1>6

-----------------------------------------------------------------------------
(* Loops over a sequence.                                                  *)

\* h follows a loop over s.
Follows(h, S, step, x, s) ==
  h \in [Nat -> S] /\ h[0] = x /\ \A k \in 0 .. Len(s) - 1 : h[k + 1] = step[h[k]][s[k + 1]]

LEMMA AccumulateFollowed ==
  ASSUME NEW S, NEW T, NEW step, NEW x \in S, NEW s \in Seq(T), NEW h,
         Follows(h, S, step, x, s)
  PROVE  Accumulate(step, x, s) = h[Len(s)]
<1> DEFINE n == Len(s)
           body(acc) == [k \in 0 .. n |-> IF k = 0 THEN x ELSE step[acc[k - 1]][s[k]]]
           part == CHOOSE acc : acc = body(acc)
           e == [k \in 0 .. n |-> h[k]]
<1>1. n \in Nat /\ h \in [Nat -> S] /\ h[0] = x
      /\ \A k \in 0 .. n - 1 : h[k + 1] = step[h[k]][s[k + 1]]
  <2>1. h \in [Nat -> S] /\ h[0] = x /\ \A k \in 0 .. n - 1 : h[k + 1] = step[h[k]][s[k + 1]]
    BY Zenon DEF Follows
  <2>2. n \in Nat
    OBVIOUS
  <2> QED  BY <2>1, <2>2, Zenon
<1>2. Accumulate(step, x, s) = part[n]
  BY Zenon DEF Accumulate
<1> HIDE DEF n
<1>3. e = body(e)
  <2>1. ASSUME NEW k \in 0 .. n PROVE h[k] = IF k = 0 THEN x ELSE step[e[k - 1]][s[k]]
    <3>1. CASE k = 0
      BY <3>1, <1>1
    <3>2. CASE k # 0
      <4>1. k - 1 \in 0 .. n /\ k - 1 \in 0 .. n - 1 /\ (k - 1) + 1 = k
        BY <1>1, <3>2
      <4>2. h[(k - 1) + 1] = step[h[k - 1]][s[(k - 1) + 1]]
        BY <1>1, <4>1
      <4> QED  BY <3>2, <4>1, <4>2
    <3> QED  BY <3>1, <3>2
  <2> QED  BY <2>1
<1>4. part = body(part)
  <2> HIDE DEF body, e
  <2> QED  BY <1>3
<1> HIDE DEF part
<1>5. part[0] = x
  BY <1>1, <1>4
<1>6. \A k \in 0 .. n - 1 : part[k + 1] = step[part[k]][s[k + 1]]
  <2>1. ASSUME NEW k \in 0 .. n - 1 PROVE part[k + 1] = step[part[k]][s[k + 1]]
    <3>1. k + 1 \in 0 .. n /\ k + 1 # 0 /\ (k + 1) - 1 = k
      BY <1>1
    <3>2. body(part)[k + 1] = step[part[(k + 1) - 1]][s[k + 1]]
      BY <3>1
    <3> QED  BY <1>4, <3>1, <3>2
  <2> QED  BY <2>1
<1> DEFINE U == {k \in Nat : k <= n => part[k] = h[k]}
<1>7. 0 \in U
  BY <1>1, <1>5
<1>8. ASSUME NEW k \in U PROVE k + 1 \in U
  <2>1. CASE k + 1 <= n
    <3>1. k \in 0 .. n - 1
      BY <1>1, <2>1
    <3> QED  BY <1>1, <1>6, <2>1, <3>1
  <2>2. CASE ~ (k + 1 <= n)
    BY <2>2
  <2> QED  BY <2>1, <2>2
<1>9. U = Nat
  <2>1. U \in SUBSET Nat
    OBVIOUS
  <2> HIDE DEF U
  <2> QED  BY <1>7, <1>8, <2>1, SetInduction
<1>10. n \in U /\ n <= n
  BY <1>1, <1>9
<1> QED  BY <1>2, <1>10 DEF n

LEMMA AccumulateExists ==
  ASSUME NEW S, NEW T, NEW step, NEW x \in S, \A y \in S, c \in T : step[y][c] \in S,
         NEW s \in Seq(T)
  PROVE  \E h : Follows(h, S, step, x, s)
<1> DEFINE turn == [k \in Nat |-> [y \in S |-> IF k < Len(s) THEN step[y][s[k + 1]] ELSE y]]
<1>1. turn \in [Nat -> [S -> S]]
  <2>1. ASSUME NEW k \in Nat, NEW y \in S, k < Len(s) PROVE step[y][s[k + 1]] \in S
    <3>1. k + 1 \in 1 .. Len(s)
      BY <2>1
    <3>2. s[k + 1] \in T
      BY <3>1
    <3> QED  BY <3>2
  <2> QED  BY <2>1
<1>2. PICK h : Run(h, S, x, turn)
  <2> HIDE DEF turn
  <2> QED  BY <1>1, RunExists
<1>3. h \in [Nat -> S] /\ h[0] = x /\ \A k \in Nat : h[k + 1] = turn[k][h[k]]
  BY <1>2, Zenon DEF Run
<1>4. ASSUME NEW k \in 0 .. Len(s) - 1 PROVE h[k + 1] = step[h[k]][s[k + 1]]
  <2>1. k \in Nat /\ k < Len(s) /\ h[k] \in S
    BY <1>3
  <2>2. turn[k][h[k]] = step[h[k]][s[k + 1]]
    BY <2>1
  <2> HIDE DEF turn
  <2> QED  BY <1>3, <2>1, <2>2
<1> QED  BY <1>3, <1>4, Zenon DEF Follows

\* A loop over entries from T that starts at x and stays in S.
Loop(S, T, step, x) == x \in S /\ \A y \in S, c \in T : step[y][c] \in S

\* What Accumulate computes.
LEMMA AccumulateSteps ==
  ASSUME NEW S, NEW T, NEW step, NEW x, Loop(S, T, step, x)
  PROVE  /\ Accumulate(step, x, <<>>) = x
         /\ \A s \in Seq(T) : Accumulate(step, x, s) \in S
         /\ \A s \in Seq(T), c \in T :
              Accumulate(step, x, Append(s, c)) = step[Accumulate(step, x, s)][c]
<1> x \in S /\ \A y \in S, c \in T : step[y][c] \in S
  BY DEF Loop
<1>0. ASSUME NEW s \in Seq(T), Len(s) = 0 PROVE Accumulate(step, x, s) = x
  <2>1. PICK h : Follows(h, S, step, x, s)
    BY AccumulateExists
  <2>2. Accumulate(step, x, s) = h[Len(s)]
    BY <2>1, AccumulateFollowed
  <2>3. h[0] = x
    BY <2>1, Zenon DEF Follows
  <2> QED  BY <1>0, <2>2, <2>3
<1>1. Accumulate(step, x, <<>>) = x
  <2>1. <<>> \in Seq(T) /\ Len(<<>>) = 0
    OBVIOUS
  <2> QED  BY <1>0, <2>1, Zenon
<1>2. ASSUME NEW s \in Seq(T) PROVE Accumulate(step, x, s) \in S
  <2>1. PICK h : Follows(h, S, step, x, s)
    BY AccumulateExists
  <2>2. Accumulate(step, x, s) = h[Len(s)]
    BY <2>1, AccumulateFollowed
  <2> QED  BY <2>1, <2>2 DEF Follows
<1>3. ASSUME NEW s \in Seq(T), NEW c \in T
      PROVE  Accumulate(step, x, Append(s, c)) = step[Accumulate(step, x, s)][c]
  <2>1. /\ Append(s, c) \in Seq(T) /\ Len(Append(s, c)) = Len(s) + 1 /\ Len(s) \in Nat
        /\ Append(s, c)[Len(s) + 1] = c /\ \A k \in 1 .. Len(s) : Append(s, c)[k] = s[k]
    OBVIOUS
  <2> DEFINE a == Append(s, c)
  <2> HIDE DEF a
  <2>2. PICK h : Follows(h, S, step, x, a)
    BY <2>1, AccumulateExists DEF a
  <2>3. h \in [Nat -> S] /\ h[0] = x /\ \A k \in 0 .. Len(a) - 1 : h[k + 1] = step[h[k]][a[k + 1]]
    BY <2>2, Zenon DEF Follows
  <2>4. \A k \in 0 .. Len(s) - 1 : h[k + 1] = step[h[k]][s[k + 1]]
    <3>1. ASSUME NEW k \in 0 .. Len(s) - 1 PROVE h[k + 1] = step[h[k]][s[k + 1]]
      <4>1. k \in 0 .. Len(a) - 1 /\ k + 1 \in 1 .. Len(s)
        BY <2>1 DEF a
      <4>2. a[k + 1] = s[k + 1]
        BY <2>1, <4>1 DEF a
      <4> QED  BY <2>3, <4>1, <4>2
    <3> QED  BY <3>1
  <2>5. Follows(h, S, step, x, s)
    BY <2>3, <2>4, Zenon DEF Follows
  <2>6. Accumulate(step, x, s) = h[Len(s)] /\ Accumulate(step, x, a) = h[Len(a)]
    <3>1. a \in Seq(T)
      BY <2>1 DEF a
    <3> QED  BY <2>2, <2>5, <3>1, AccumulateFollowed
  <2>7. h[Len(s) + 1] = step[h[Len(s)]][a[Len(s) + 1]]
    BY <2>1, <2>3 DEF a
  <2> QED  BY <2>1, <2>6, <2>7 DEF a
<1> QED  BY <1>1, <1>2, <1>3

\* Induction over the sequences: a set of sequences that holds the empty one and each
\* of its members with one more entry holds all.
LEMMA AppendInduction ==
  ASSUME NEW T, NEW V, <<>> \in V, \A s \in Seq(T), c \in T : s \in V => Append(s, c) \in V
  PROVE  Seq(T) \subseteq V
<1> DEFINE U == {n \in Nat : \A s \in Seq(T) : Len(s) = n => s \in V}
<1>1. 0 \in U
  <2>1. \A s \in Seq(T) : Len(s) = 0 => s = <<>>
    BY EmptySeq
  <2> QED  BY <2>1
<1>2. ASSUME NEW n \in U PROVE n + 1 \in U
  <2>1. ASSUME NEW s \in Seq(T), Len(s) = n + 1 PROVE s \in V
    <3>1. s # <<>>
      BY <2>1, EmptySeq
    <3> DEFINE f == SubSeq(s, 1, n)
    <3>2. f \in Seq(T) /\ Len(f) = n /\ s[n + 1] \in T /\ s = Append(f, s[n + 1])
      <4>1. n \in Nat
        OBVIOUS
      <4>2. f \in Seq(T) /\ Len(f) = n /\ \A k \in 1 .. n : f[k] = s[k]
        BY <2>1, <4>1
      <4>3. s[n + 1] \in T
        BY <2>1, <4>1
      <4> HIDE DEF f
      <4>4. /\ Append(f, s[n + 1]) \in Seq(T) /\ Len(Append(f, s[n + 1])) = n + 1
            /\ \A k \in 1 .. n + 1 : Append(f, s[n + 1])[k] = s[k]
        BY <4>1, <4>2, <4>3
      <4>5. s = Append(f, s[n + 1])
        BY <2>1, <4>4, SeqEqual
      <4> QED  BY <4>2, <4>3, <4>5
    <3>3. f \in V
      BY <3>2
    <3> QED  BY <3>2, <3>3
  <2> QED  BY <2>1
<1>3. U = Nat
  <2>1. U \in SUBSET Nat
    OBVIOUS
  <2> HIDE DEF U
  <2> QED  BY <1>1, <1>2, <2>1, SetInduction
<1> QED  BY <1>3

=============================================================================
