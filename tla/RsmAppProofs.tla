---------------------------- MODULE RsmAppProofs ----------------------------
(***************************************************************************)
(* Proofs about the two programs over the resource manager: whatever the   *)
(* order of their steps, the calls whose results the children ignore do    *)
(* what the children print, and the parent kills only for a deadlock that  *)
(* is there.  Line stands for any one of the command lines; nothing else   *)
(* is assumed of it.                                                       *)
(***************************************************************************)
EXTENDS RsmApp, IterationProofs, TLAPS

CONSTANT Line

\* The manager of that command line, with what is proved about it.
M == INSTANCE RsmProofs WITH
  N <- NUMP, Res <- 0 .. Line.numr - 1, Exist <- [j \in 0 .. Line.numr - 1 |-> 1],
  Avoid <- Line.avoid, Cap <- 1, Deaths <- NUMP, Pid <- Pids, NoPid <- -1

-----------------------------------------------------------------------------
(* The manager the programs call is that manager.                          *)

LEMMA SameHandlers ==
  /\ \A s, i : Rsm(Line)!Active(s, i) <=> M!Active(s, i)
  /\ \A s, i, p : Rsm(Line)!Started(s, i, p) = M!Started(s, i, p)
  /\ \A s, i : Rsm(Line)!Ended(s, i) = M!Ended(s, i)
  /\ \A s, i, v : Rsm(Line)!Claimed(s, i, v) = M!Claimed(s, i, v)
  /\ \A s, i, v : Rsm(Line)!Requested(s, i, v) = M!Requested(s, i, v)
  /\ \A s, i, v : Rsm(Line)!Released(s, i, v) = M!Released(s, i, v)
  /\ \A s, i, v : Rsm(Line)!Granted(s, i, v) = M!Granted(s, i, v)
<1>1. /\ \A s, i : Rsm(Line)!Active(s, i) <=> M!Active(s, i)
      /\ \A s, i, v : Rsm(Line)!Claimed(s, i, v) = M!Claimed(s, i, v)
      /\ \A s, i, v : Rsm(Line)!Requested(s, i, v) = M!Requested(s, i, v)
  BY DEF Rsm!Active, M!Active, Rsm!Claimed, M!Claimed, Rsm!Requested, M!Requested
<1>2. \A s, i : Rsm(Line)!Ended(s, i) = M!Ended(s, i)
  BY DEF Rsm!Ended, M!Ended, Rsm!Zero, M!Zero, Rsm!\oplus, M!\oplus
<1>3. \A s, i, v : Rsm(Line)!Released(s, i, v) = M!Released(s, i, v)
  BY DEF Rsm!Released, M!Released, Rsm!\oplus, M!\oplus, Rsm!\ominus, M!\ominus
<1>4. \A s, i, v : Rsm(Line)!Granted(s, i, v) = M!Granted(s, i, v)
  BY DEF Rsm!Granted, M!Granted, Rsm!Zero, M!Zero, Rsm!\oplus, M!\oplus,
               Rsm!\ominus, M!\ominus
<1>5. \A s, i, p : Rsm(Line)!Started(s, i, p) = M!Started(s, i, p)
  BY DEF Rsm!Started, M!Started, Rsm!Zero, M!Zero
<1> QED  BY <1>1, <1>2, <1>3, <1>4, <1>5, Zenon

LEMMA SameRefusals ==
  /\ \A s, i, v : Rsm(Line)!ClaimRefused(s, i, v) <=> M!ClaimRefused(s, i, v)
  /\ \A s, i, v : Rsm(Line)!RequestRefused(s, i, v) <=> M!RequestRefused(s, i, v)
  /\ \A s, i, v : Rsm(Line)!ReleaseRefused(s, i, v) <=> M!ReleaseRefused(s, i, v)
BY Zenon DEF Rsm!ClaimRefused, M!ClaimRefused, Rsm!RequestRefused, M!RequestRefused,
             Rsm!ReleaseRefused, M!ReleaseRefused, Rsm!\preceq, M!\preceq

LEMMA SameLoops ==
  /\ \A s : Rsm(Line)!Deadlocked(s) = M!Deadlocked(s)
  /\ \A s, D, want : Rsm(Line)!Stuck(s, D, want) <=> M!Stuck(s, D, want)
  /\ \A s, i, v : Rsm(Line)!Grantable(s, i, v) <=> M!Grantable(s, i, v)
  /\ \A s : Rsm(Line)!TrySatisfy(s) = M!TrySatisfy(s)
BY Zenon DEF Rsm!Deadlocked, M!Deadlocked, Rsm!Stuck, M!Stuck, Rsm!Free, M!Free, Rsm!Total,
       M!Total, Rsm!Grantable, M!Grantable, Rsm!TrySatisfy, M!TrySatisfy,
       Rsm!Scan, M!Scan, Rsm!CanSatisfy, M!CanSatisfy, Rsm!Satisfied,
       M!Satisfied, Rsm!Granted, M!Granted, Rsm!Reduce, M!Reduce, Rsm!Iterate,
       M!Iterate, Rsm!Visit, M!Visit, Rsm!Sweep, M!Sweep, Rsm!NextProc,
       M!NextProc, Rsm!is_safe, M!is_safe, Rsm!State, M!State, Rsm!Active,
       M!Active, Rsm!Proc, M!Proc, Rsm!Zero, M!Zero, Rsm!Matrix, M!Matrix,
       Rsm!\oplus, M!\oplus, Rsm!\ominus, M!\ominus, Rsm!\preceq, M!\preceq

LEMMA SameCalls ==
  ASSUME NEW p, NEW i, NEW v
  PROVE  /\ Rsm(Line)!rsm_process_started(p, i) <=> M!rsm_process_started(p, i)
         /\ Rsm(Line)!rsm_claim(p, i, v) <=> M!rsm_claim(p, i, v)
         /\ Rsm(Line)!RequestGranted(p, i, v) <=> M!RequestGranted(p, i, v)
         /\ Rsm(Line)!RequestWaits(p, i, v) <=> M!RequestWaits(p, i, v)
         /\ Rsm(Line)!rsm_release(p, i, v) <=> M!rsm_release(p, i, v)
         /\ Rsm(Line)!rsm_process_ended(p, i) <=> M!rsm_process_ended(p, i)
         /\ Rsm(Line)!RefusedCall(p, i, v) <=> M!RefusedCall(p, i, v)
         /\ Rsm(Line)!Wake(p, i) <=> M!Wake(p, i)
         /\ Rsm(Line)!Fork(p, i) <=> M!Fork(p, i)
         /\ Rsm(Line)!Die(p) <=> M!Die(p)
<1>1. /\ Rsm(Line)!Running(p) <=> M!Running(p)
      /\ Rsm(Line)!CurrentApid(p) = M!CurrentApid(p)
      /\ Rsm(Line)!NoApid = M!NoApid
  BY Zenon DEF Rsm!Running, M!Running, Rsm!CurrentApid, M!CurrentApid, Rsm!Mine, M!Mine,
               Rsm!Proc, M!Proc, Rsm!NoApid, M!NoApid
<1>2. Rsm(Line)!Calls(p, i) <=> M!Calls(p, i)
  BY <1>1, Zenon DEF Rsm!Calls, M!Calls
<1>3. Rsm(Line)!rsm_process_started(p, i) <=> M!rsm_process_started(p, i)
  BY <1>1, SameHandlers, Zenon DEF Rsm!rsm_process_started, M!rsm_process_started
<1>4. Rsm(Line)!rsm_claim(p, i, v) <=> M!rsm_claim(p, i, v)
  BY <1>2, SameHandlers, SameRefusals, Zenon DEF Rsm!rsm_claim, M!rsm_claim
<1>5. Rsm(Line)!RequestGranted(p, i, v) <=> M!RequestGranted(p, i, v)
  BY <1>2, SameHandlers, SameRefusals, SameLoops, Zenon
     DEF Rsm!RequestGranted, M!RequestGranted
<1>6. Rsm(Line)!RequestWaits(p, i, v) <=> M!RequestWaits(p, i, v)
  BY <1>2, SameHandlers, SameRefusals, SameLoops, Zenon DEF Rsm!RequestWaits, M!RequestWaits
<1>7. Rsm(Line)!rsm_release(p, i, v) <=> M!rsm_release(p, i, v)
  BY <1>2, SameHandlers, SameRefusals, SameLoops, Zenon DEF Rsm!rsm_release, M!rsm_release
<1>8. Rsm(Line)!rsm_process_ended(p, i) <=> M!rsm_process_ended(p, i)
  BY <1>1, SameHandlers, SameLoops, Zenon DEF Rsm!rsm_process_ended, M!rsm_process_ended
<1>9. Rsm(Line)!RefusedCall(p, i, v) <=> M!RefusedCall(p, i, v)
  BY <1>2, SameRefusals, Zenon DEF Rsm!RefusedCall, M!RefusedCall
<1>10. /\ Rsm(Line)!Wake(p, i) <=> M!Wake(p, i)
       /\ Rsm(Line)!Fork(p, i) <=> M!Fork(p, i)
       /\ Rsm(Line)!Die(p) <=> M!Die(p)
  BY <1>1, Zenon DEF Rsm!Wake, M!Wake, Rsm!Fork, M!Fork, Rsm!Die, M!Die,
                        Rsm!Cardinality, M!Cardinality, Rsm!IsFiniteSet, M!IsFiniteSet
<1> QED  BY <1>3, <1>4, <1>5, <1>6, <1>7, <1>8, <1>9, <1>10

LEMMA SameState ==
  /\ Rsm(Line)!Init <=> M!Init
  /\ Rsm(Line)!TypeOK <=> M!TypeOK
BY Zenon DEF Rsm!Init, M!Init, Rsm!TypeOK, M!TypeOK, Rsm!Fresh, M!Fresh, Rsm!State, M!State,
       Rsm!Matrix, M!Matrix, Rsm!Proc, M!Proc, Rsm!NoApid, M!NoApid, Rsm!Zero,
       M!Zero

-----------------------------------------------------------------------------
(* The manager under these callers.                                        *)

Manager == M!IInv /\ M!Books

LEMMA ManagerAssumption ==
  ASSUME Line \in Programs
  PROVE  /\ NUMP \in Nat \ {0}
         /\ [j \in 0 .. Line.numr - 1 |-> 1] \in [0 .. Line.numr - 1 -> Nat]
         /\ Line.avoid \in BOOLEAN
         /\ 1 \in Nat
         /\ NUMP \in Nat
         /\ -1 \notin Pids
<1>1. -1 \notin Pids
  BY DEF Pids, Child, Parent, NUMP
<1> QED  BY <1>1, RsmAppAssumption DEF NUMP

LEMMA ManagerStep ==
  ASSUME Line \in Programs, Manager, [M!Next]_(M!vars)
  PROVE  Manager'
<1>1. M!IInv'
  BY ManagerAssumption, M!StepIInv DEF Manager
<1>2. M!Books'
  BY ManagerAssumption, M!StepBooks DEF Manager
<1> QED  BY <1>1, <1>2 DEF Manager

-----------------------------------------------------------------------------
(* The types a child asks for.                                             *)

Distinct(s) == \A m, n \in DOMAIN s : s[m] = s[n] => m = n

\* The loop of build_order_from_claim visits every type once.
LEMMA OrderOfClaim ==
  ASSUME NEW claim, NEW numr \in Nat
  PROVE  /\ build_order_from_claim(claim, numr) \in Seq(0 .. numr - 1)
         /\ Distinct(build_order_from_claim(claim, numr))
<1> DEFINE L == [i : Nat, order : Seq(Nat)]
           S == {l \in L : Distinct(l.order) /\ Range(l.order) \subseteq 0 .. l.i - 1}
           f == NextType(claim)
           x == [i |-> 0, order |-> <<>>]
           it(n) == Iterate(f, x, n)
<1>1. x \in S
  BY DEF Distinct, Range
<1>2. ASSUME NEW l \in S PROVE f[l] \in S /\ f[l].i = l.i + 1
  <2>1. l.i \in Nat /\ l.order \in Seq(Nat) /\ l \in L
    OBVIOUS
  <2>2. f[l] = [ i |-> l.i + 1, order |-> IF l.i \in claim THEN Append(l.order, l.i) ELSE l.order ]
    BY <2>1 DEF NextType
  <2>3. CASE l.i \notin claim
    BY <2>1, <2>2, <2>3
  <2>4. CASE l.i \in claim
    <3> DEFINE o == l.order
               e == Append(o, l.i)
    <3>1. /\ Len(o) \in Nat /\ DOMAIN o = 1 .. Len(o) /\ e \in Seq(Nat)
          /\ DOMAIN e = 1 .. Len(o) + 1 /\ e[Len(o) + 1] = l.i
          /\ \A n \in 1 .. Len(o) : e[n] = o[n]
      BY <2>1
    <3>2. \A n \in 1 .. Len(o) : o[n] \in 0 .. l.i - 1
      BY <3>1 DEF Range
    <3>3. Distinct(o)
      OBVIOUS
    <3> HIDE DEF o, e
    <3>4. Distinct(e)
      BY <2>1, <3>1, <3>2, <3>3 DEF Distinct
    <3>5. ASSUME NEW n \in DOMAIN e PROVE e[n] \in 0 .. (l.i + 1) - 1
      <4>1. CASE n = Len(o) + 1
        BY <2>1, <3>1, <4>1
      <4>2. CASE n # Len(o) + 1
        <5>1. n \in 1 .. Len(o)
          BY <3>1, <4>2
        <5> QED  BY <2>1, <3>1, <3>2, <5>1
      <4> QED  BY <4>1, <4>2
    <3>6. Range(e) \subseteq 0 .. (l.i + 1) - 1
      BY <3>5 DEF Range
    <3>7. f[l] = [i |-> l.i + 1, order |-> e]
      BY <2>2, <2>4 DEF e, o
    <3> QED  BY <2>1, <3>1, <3>4, <3>6, <3>7
  <2> QED  BY <2>3, <2>4
<1> HIDE DEF S, f, x
<1>3. /\ it(0) = x
      /\ \A n \in Nat : it(n) \in S
      /\ \A n \in Nat : it(n + 1) = f[it(n)]
  BY <1>1, <1>2, IterateSteps
<1>4. {n \in Nat : it(n).i = n} = Nat
  <2> DEFINE V == {n \in Nat : it(n).i = n}
  <2>1. 0 \in V
    BY <1>3 DEF x
  <2>2. ASSUME NEW n \in V PROVE n + 1 \in V
    BY <1>2, <1>3
  <2> HIDE DEF V
  <2>3. V \in SUBSET Nat
    BY DEF V
  <2>4. V = Nat
    BY <2>1, <2>2, <2>3, SetInduction
  <2> QED  BY <2>4 DEF V
<1>5. it(numr) \in S /\ it(numr).i = numr
  BY <1>3, <1>4
<1> DEFINE b == it(numr).order
<1>6. b \in Seq(Nat) /\ Distinct(b) /\ \A n \in DOMAIN b : b[n] \in 0 .. numr - 1
  BY <1>5 DEF S, Range
<1>7. b \in Seq(0 .. numr - 1)
  <2> HIDE DEF b
  <2>1. Len(b) \in Nat /\ DOMAIN b = 1 .. Len(b) /\ b = [n \in 1 .. Len(b) |-> b[n]]
    BY <1>6
  <2>2. b \in [1 .. Len(b) -> 0 .. numr - 1]
    BY <1>6, <2>1
  <2> QED  BY <2>1, <2>2
<1> QED  BY <1>6, <1>7 DEF build_order_from_claim, f, x

LEMMA OrderReversed ==
  ASSUME NEW T, NEW s \in Seq(T), Distinct(s)
  PROVE  reverse_order(s) \in Seq(T) /\ Distinct(reverse_order(s))
<1> DEFINE r == [n \in 1 .. Len(s) |-> s[Len(s) - n + 1]]
<1>1. Len(s) \in Nat /\ DOMAIN s = 1 .. Len(s) /\ \A n \in 1 .. Len(s) : s[n] \in T
  BY LenProperties, ElementOfSeq
<1>2. \A n \in 1 .. Len(s) : Len(s) - n + 1 \in 1 .. Len(s)
  BY <1>1
<1>3. r \in [1 .. Len(s) -> T]
  BY <1>1, <1>2
<1>4. r \in Seq(T)
  BY <1>1, <1>3
<1>5. Distinct(r)
  BY <1>1, <1>2 DEF Distinct
<1>6. reverse_order(s) = r
  BY DEF reverse_order, Reverse
<1> QED  BY <1>4, <1>5, <1>6

LEMMA OrderRotated ==
  ASSUME NEW T, NEW s \in Seq(T), Distinct(s), NEW k \in 0 .. Len(s)
  PROVE  rotate_left(s, k) \in Seq(T) /\ Distinct(rotate_left(s, k))
<1> DEFINE n == Len(s)
           from(j) == ((j - 1 + k) % n) + 1
           r == [j \in 1 .. n |-> s[from(j)]]
<1>1. n \in Nat /\ DOMAIN s = 1 .. n /\ \A j \in 1 .. n : s[j] \in T
  BY LenProperties, ElementOfSeq
<1>2. k \in Nat /\ k <= n
  BY <1>1
<1> HIDE DEF n
<1>3. ASSUME NEW j \in 1 .. n
      PROVE  from(j) = IF j + k <= n THEN j + k ELSE j + k - n
  BY <1>1, <1>2
<1> HIDE DEF from
<1>4. \A j \in 1 .. n : from(j) \in 1 .. n
  BY <1>1, <1>2, <1>3
<1>5. \A i, j \in 1 .. n : from(i) = from(j) => i = j
  BY <1>1, <1>2, <1>3
<1>6. r \in [1 .. n -> T]
  BY <1>1, <1>4
<1>7. r \in Seq(T)
  BY <1>1, <1>6
<1>8. Distinct(r)
  BY <1>1, <1>4, <1>5 DEF Distinct
<1>9. rotate_left(s, k) = r
  BY <1>1 DEF rotate_left, from, n
<1> QED  BY <1>7, <1>8, <1>9

Wanted(i) == IF Line.demo THEN DemoOrder(i) ELSE ScaledOrder(i, Line.numr)

LEMMA WantedDistinct ==
  ASSUME Line \in Programs, NEW i \in Child
  PROVE  Wanted(i) \in Seq(0 .. Line.numr - 1) /\ Distinct(Wanted(i))
<1>1. Line.numr \in Nat /\ Line.numr > 3 /\ i \in 0 .. 2
  BY RsmAppAssumption DEF Child, NUMP
<1>2. CASE Line.demo
  <2>1. DemoOrder(i) \in {<<0, 1>>, <<1, 0>>, <<2, 3>>}
    BY <1>1 DEF DemoOrder
  <2>2. \A a, b \in 0 .. Line.numr - 1 :
          a # b => <<a, b>> \in Seq(0 .. Line.numr - 1) /\ Distinct(<<a, b>>)
    BY DEF Distinct
  <2>3. {0, 1, 2, 3} \subseteq 0 .. Line.numr - 1
    BY <1>1
  <2>4. \A s \in {<<0, 1>>, <<1, 0>>, <<2, 3>>} : s \in Seq(0 .. Line.numr - 1) /\ Distinct(s)
    <3>1. \A a, b \in {0, 1, 2, 3} :
            a # b => <<a, b>> \in Seq(0 .. Line.numr - 1) /\ Distinct(<<a, b>>)
      BY <2>2, <2>3, Zenon
    <3>2. /\ <<0, 1>> \in Seq(0 .. Line.numr - 1) /\ Distinct(<<0, 1>>)
          /\ <<1, 0>> \in Seq(0 .. Line.numr - 1) /\ Distinct(<<1, 0>>)
          /\ <<2, 3>> \in Seq(0 .. Line.numr - 1) /\ Distinct(<<2, 3>>)
      <4>1. 0 # 1 /\ 1 # 0 /\ 2 # 3
        OBVIOUS
      <4> QED  BY <3>1, <4>1, Zenon
    <3> QED  BY <3>2, Zenon
  <2> QED  BY <1>2, <2>1, <2>4 DEF Wanted
<1>3. CASE ~ Line.demo
  <2> DEFINE T == 0 .. Line.numr - 1
             From(start) == build_order_from_claim(
                              build_claim_range(start, Span(Line.numr), Line.numr), Line.numr)
  <2>1. \A start : From(start) \in Seq(T) /\ Distinct(From(start))
    BY <1>1, OrderOfClaim
  <2> DEFINE first == From(0)
             middle == From(Line.numr \div 4)
             upper == From(Line.numr \div 2)
  <2>2. /\ first \in Seq(T) /\ middle \in Seq(T) /\ upper \in Seq(T)
        /\ Distinct(first) /\ Distinct(middle) /\ Distinct(upper)
    BY <2>1
  <2>3. /\ i = 0 => Wanted(i) = first
        /\ i = 1 => Wanted(i) = reverse_order(middle)
        /\ i = 2 => Wanted(i) = rotate_left(upper, Len(upper) \div 2)
    BY <1>3 DEF Wanted, ScaledOrder
  <2> HIDE DEF first, middle, upper, From, T
  <2>4. Len(upper) \div 2 \in 0 .. Len(upper)
    <3>1. Len(upper) \in Nat
      BY <2>2, LenProperties
    <3> QED  BY <3>1
  <2>5. reverse_order(middle) \in Seq(T) /\ Distinct(reverse_order(middle))
    BY <2>2, OrderReversed
  <2>6. /\ rotate_left(upper, Len(upper) \div 2) \in Seq(T)
        /\ Distinct(rotate_left(upper, Len(upper) \div 2))
    BY <2>2, <2>4, OrderRotated
  <2>7. Wanted(i) \in Seq(T) /\ Distinct(Wanted(i))
    BY <1>1, <2>2, <2>3, <2>5, <2>6
  <2> QED  BY <2>7 DEF T
<1> QED  BY <1>2, <1>3

-----------------------------------------------------------------------------
(* The script of a child.                                                  *)

Plan(i) == Scripts[Line][i]

Started == IF Line.avoid THEN 2 ELSE 1   \* the calls before the first request

Together(i) == Line.demo /\ i = 2   \* the child releases all its types in one call

Releases(i) == IF Together(i) THEN 1 ELSE Len(Wanted(i))

Returned(w, i, k) == IF Together(i) THEN Range(w) ELSE {w[k]}   \* by its k-th release

Shape(S, w, i) ==
  /\ Len(w) \in Nat /\ Started \in {1, 2} /\ Releases(i) \in Nat
  /\ Len(S) = Started + Len(w) + Releases(i) + 1
  /\ S[1] = Call("start", {})
  /\ Line.avoid => S[2] = Call("claim", Range(w))
  /\ \A k \in 1 .. Len(w) : S[Started + k] = Call("request", {w[k]})
  /\ \A k \in 1 .. Releases(i) :
       S[Started + Len(w) + k] = Call("release", Returned(w, i, k))
  /\ S[Len(S)] = Call("ended", {})

Step == [call : {"start", "claim", "request", "release", "ended"}, types : SUBSET Nat]

LEMMA Joined ==
  \A s, t \in Seq(Step) :
    /\ s \o t \in Seq(Step) /\ Len(s \o t) = Len(s) + Len(t)
    /\ \A k \in 1 .. Len(s) : (s \o t)[k] = s[k]
    /\ \A k \in 1 .. Len(t) : (s \o t)[Len(s) + k] = t[k]
OBVIOUS

\* S is a, b, c, d and e one behind the other.
Parts(S, a, b, c, d, e) ==
  LET m == Len(a) + Len(b)
      n == m + Len(c) + Len(d)
  IN  /\ Len(S) = n + Len(e)
      /\ \A k \in 1 .. Len(a) : S[k] = a[k]
      /\ \A k \in 1 .. Len(b) : S[Len(a) + k] = b[k]
      /\ \A k \in 1 .. Len(c) : S[m + k] = c[k]
      /\ \A k \in 1 .. Len(d) : S[m + Len(c) + k] = d[k]
      /\ \A k \in 1 .. Len(e) : S[n + k] = e[k]

LEMMA FiveParts ==
  ASSUME NEW a \in Seq(Step), NEW b \in Seq(Step), NEW c \in Seq(Step), NEW d \in Seq(Step),
         NEW e \in Seq(Step)
  PROVE  Parts(a \o b \o c \o d \o e, a, b, c, d, e)
<1>1. PICK ab \in Seq(Step) : ab = a \o b
  BY Joined
<1>2. PICK abc \in Seq(Step) : abc = ab \o c
  BY Joined
<1>3. PICK abcd \in Seq(Step) : abcd = abc \o d
  BY Joined
<1>4. PICK S \in Seq(Step) : S = abcd \o e
  BY Joined
<1>5. /\ Len(a) \in Nat /\ Len(b) \in Nat /\ Len(c) \in Nat /\ Len(d) \in Nat
      /\ Len(ab) = Len(a) + Len(b) /\ Len(abc) = Len(ab) + Len(c)
      /\ Len(abcd) = Len(abc) + Len(d) /\ Len(S) = Len(abcd) + Len(e)
  BY <1>1, <1>2, <1>3, <1>4, Joined, LenProperties
<1>6. \A k \in 1 .. Len(abcd) : S[k] = abcd[k]
  BY <1>4, Joined
<1>7. \A k \in 1 .. Len(abc) : S[k] = abc[k]
  <2>1. \A k \in 1 .. Len(abc) : abcd[k] = abc[k] /\ k \in 1 .. Len(abcd)
    BY <1>3, <1>5, Joined
  <2> QED  BY <1>6, <2>1
<1>8. \A k \in 1 .. Len(ab) : S[k] = ab[k]
  <2>1. \A k \in 1 .. Len(ab) : abc[k] = ab[k] /\ k \in 1 .. Len(abc)
    BY <1>2, <1>5, Joined
  <2> QED  BY <1>7, <2>1
<1>9. \A k \in 1 .. Len(a) : S[k] = a[k]
  <2>1. \A k \in 1 .. Len(a) : ab[k] = a[k] /\ k \in 1 .. Len(ab)
    BY <1>1, <1>5, Joined
  <2> QED  BY <1>8, <2>1
<1>10. \A k \in 1 .. Len(b) : S[Len(a) + k] = b[k]
  <2>1. \A k \in 1 .. Len(b) : ab[Len(a) + k] = b[k] /\ Len(a) + k \in 1 .. Len(ab)
    BY <1>1, <1>5, Joined
  <2> QED  BY <1>8, <2>1
<1>11. \A k \in 1 .. Len(c) : S[Len(a) + Len(b) + k] = c[k]
  <2>1. \A k \in 1 .. Len(c) : abc[Len(ab) + k] = c[k]
    BY <1>2, Joined
  <2>2. \A k \in 1 .. Len(c) : Len(ab) + k \in 1 .. Len(abc)
    BY <1>5
  <2> QED  BY <1>5, <1>7, <2>1, <2>2
<1>12. \A k \in 1 .. Len(d) : S[Len(abc) + k] = d[k]
  <2>1. \A k \in 1 .. Len(d) : abcd[Len(abc) + k] = d[k]
    BY <1>3, Joined
  <2>2. \A k \in 1 .. Len(d) : Len(abc) + k \in 1 .. Len(abcd)
    BY <1>5
  <2> QED  BY <1>6, <2>1, <2>2
<1>13. \A k \in 1 .. Len(e) : S[Len(abcd) + k] = e[k]
  BY <1>4, Joined
<1>14. S = a \o b \o c \o d \o e
  BY <1>1, <1>2, <1>3, <1>4
<1>15. /\ Len(ab) = Len(a) + Len(b) /\ Len(abc) = Len(a) + Len(b) + Len(c)
       /\ Len(abcd) = Len(a) + Len(b) + Len(c) + Len(d)
       /\ Len(S) = Len(a) + Len(b) + Len(c) + Len(d) + Len(e)
  BY <1>5
<1>16. Parts(S, a, b, c, d, e)
  BY <1>9, <1>10, <1>11, <1>12, <1>13, <1>15, Zenon DEF Parts
<1> QED  BY <1>14, <1>16, Zenon

LEMMA PlanShape ==
  ASSUME Line \in Programs, NEW i \in Child
  PROVE  Shape(Plan(i), Wanted(i), i)
<1> DEFINE w == Wanted(i)
           a == <<Call("start", {})>>
           b == IF Line.avoid THEN <<Call("claim", Range(w))>> ELSE <<>>
           c == OneByOne("request", w)
           d == IF Together(i) THEN <<Call("release", Range(w))>> ELSE OneByOne("release", w)
           e == <<Call("ended", {})>>
<1>1. w \in Seq(0 .. Line.numr - 1) /\ Line.numr \in Nat
  BY WantedDistinct, RsmAppAssumption
<1>2. Plan(i) = a \o b \o c \o d \o e
  <2>1. Line.demo => Range(<<<<0, 1>>, <<0, 1>>, <<2, 3>>>>[i + 1]) = Range(w)
    <3>1. i \in {0, 1, 2}
      BY DEF Child, NUMP
    <3>2. CASE Line.demo /\ i = 0
      BY <3>2 DEF Wanted, DemoOrder
    <3>3. CASE Line.demo /\ i = 1
      <4>1. w = <<1, 0>>
        BY <3>3 DEF Wanted, DemoOrder
      <4>2. Range(<<0, 1>>) = {0, 1} /\ Range(<<1, 0>>) = {0, 1}
        BY DEF Range
      <4> QED  BY <3>3, <4>1, <4>2
    <3>4. CASE Line.demo /\ i = 2
      BY <3>4 DEF Wanted, DemoOrder
    <3> QED  BY <3>1, <3>2, <3>3, <3>4
  <2>2. Plan(i) = Script(Line, i)
    BY DEF Plan, Scripts
  <2> QED  BY <2>1, <2>2 DEF Script, Together, Wanted
<1>3. Len(w) \in Nat /\ DOMAIN w = 1 .. Len(w) /\ \A k \in 1 .. Len(w) : w[k] \in Nat
  BY <1>1, LenProperties, ElementOfSeq
<1>4. Range(w) \subseteq Nat
  BY <1>3 DEF Range
<1> HIDE DEF w
<1>5. /\ a \in Seq(Step) /\ Len(a) = 1 /\ a[1] = Call("start", {})
      /\ e \in Seq(Step) /\ Len(e) = 1 /\ e[1] = Call("ended", {})
  BY DEF Call, Step
<1>6. /\ b \in Seq(Step) /\ Len(b) = Started - 1
      /\ Line.avoid => b[1] = Call("claim", Range(w))
  <2>1. Call("claim", Range(w)) \in Step
    BY <1>4 DEF Call, Step
  <2>2. CASE Line.avoid
    BY <2>1, <2>2 DEF Started
  <2>3. CASE ~ Line.avoid
    BY <2>3 DEF Started
  <2> QED  BY <2>2, <2>3
<1>7. /\ c \in Seq(Step) /\ Len(c) = Len(w)
      /\ \A k \in 1 .. Len(w) : c[k] = Call("request", {w[k]})
  BY <1>3 DEF Call, Step, OneByOne
<1>8. /\ d \in Seq(Step) /\ Len(d) = Releases(i)
      /\ \A k \in 1 .. Releases(i) :
           d[k] = Call("release", Returned(w, i, k))
  <2>1. CASE Together(i)
    BY <1>4, <2>1 DEF Call, Step, Releases, Returned
  <2>2. CASE ~ Together(i)
    BY <1>3, <2>2 DEF Call, Step, OneByOne, Releases, w, Returned
  <2> QED  BY <2>1, <2>2
<1> HIDE DEF a, b, c, d, e
<1>9. Started \in {1, 2} /\ Releases(i) \in Nat
  BY <1>3 DEF Started, Releases, w
<1> DEFINE S == a \o b \o c \o d \o e
<1>10. /\ Len(S) = Started + Len(w) + Releases(i) + 1
       /\ S[1] = a[1]
       /\ Line.avoid => S[2] = b[1]
       /\ \A k \in 1 .. Len(w) : S[Started + k] = c[k]
       /\ \A k \in 1 .. Releases(i) : S[Started + Len(w) + k] = d[k]
       /\ S[Len(S)] = e[1]
  <2> DEFINE m == Len(a) + Len(b)
             n == m + Len(c) + Len(d)
  <2>0. Parts(S, a, b, c, d, e)
    BY <1>5, <1>6, <1>7, <1>8, FiveParts, Zenon
  <2> HIDE DEF S
  <2>1. /\ Len(S) = n + Len(e)
        /\ \A k \in 1 .. Len(a) : S[k] = a[k]
        /\ \A k \in 1 .. Len(b) : S[Len(a) + k] = b[k]
        /\ \A k \in 1 .. Len(c) : S[m + k] = c[k]
        /\ \A k \in 1 .. Len(d) : S[m + Len(c) + k] = d[k]
        /\ \A k \in 1 .. Len(e) : S[n + k] = e[k]
    BY <2>0, Zenon DEF Parts
  <2>2. m = Started /\ n = Started + Len(w) + Releases(i)
    BY <1>5, <1>6, <1>7, <1>8, <1>9
  <2> HIDE DEF m, n
  <2>3. Len(S) = Started + Len(w) + Releases(i) + 1 /\ S[Len(S)] = e[1]
    BY <1>3, <1>5, <1>9, <2>1, <2>2
  <2>4. S[1] = a[1] /\ (Line.avoid => S[2] = b[1])
    BY <1>5, <1>6, <2>1 DEF Started
  <2>5. \A k \in 1 .. Len(w) : S[Started + k] = c[k]
    BY <1>7, <2>1, <2>2
  <2>6. \A k \in 1 .. Releases(i) : S[Started + Len(w) + k] = d[k]
    BY <1>7, <1>8, <2>1, <2>2
  <2> QED  BY <2>3, <2>4, <2>5, <2>6
<1> HIDE DEF S
<1>11. Shape(S, w, i)
  BY <1>3, <1>5, <1>6, <1>7, <1>8, <1>9, <1>10 DEF Shape
<1> QED  BY <1>2, <1>11 DEF S, w

LEMMA CallFields == \A n, t : Call(n, t).call = n /\ Call(n, t).types = t
BY DEF Call

\* Which call stands at place k of the script.
Kind(S, w, i, k) ==
  \/ k = 1 /\ S[k] = Call("start", {})
  \/ Line.avoid /\ k = 2 /\ S[k] = Call("claim", Range(w))
  \/ k - Started \in 1 .. Len(w) /\ S[k] = Call("request", {w[k - Started]})
  \/ /\ k - Started - Len(w) \in 1 .. Releases(i)
     /\ S[k] = Call("release", Returned(w, i, k - Started - Len(w)))
  \/ k = Len(S) /\ S[k] = Call("ended", {})

LEMMA PlanKinds ==
  ASSUME NEW S, NEW w, NEW i, Shape(S, w, i), NEW k \in 1 .. Len(S)
  PROVE  Kind(S, w, i, k)
<1>1. /\ Len(w) \in Nat /\ Releases(i) \in Nat /\ Started \in {1, 2}
      /\ Len(S) = Started + Len(w) + Releases(i) + 1 /\ k \in Nat
  BY DEF Shape
<1>2. CASE k = 1
  BY <1>2 DEF Shape, Kind
<1>3. CASE k = 2 /\ Line.avoid
  BY <1>3 DEF Shape, Kind
<1>4. CASE k = Len(S)
  BY <1>4 DEF Shape, Kind
<1>5. CASE k - Started \in 1 .. Len(w)
  <2>1. Started + (k - Started) = k
    BY <1>1
  <2>2. S[Started + (k - Started)] = Call("request", {w[k - Started]})
    BY <1>5 DEF Shape
  <2> QED  BY <1>5, <2>1, <2>2 DEF Kind
<1>6. CASE k - Started - Len(w) \in 1 .. Releases(i)
  <2>1. Started + Len(w) + (k - Started - Len(w)) = k
    BY <1>1
  <2>2. S[Started + Len(w) + (k - Started - Len(w))] =
          Call("release", Returned(w, i, k - Started - Len(w)))
    BY <1>6 DEF Shape
  <2> QED  BY <1>6, <2>1, <2>2 DEF Kind
<1>7. \/ k = 1
      \/ k = 2 /\ Line.avoid
      \/ k = Len(S)
      \/ k - Started \in 1 .. Len(w)
      \/ k - Started - Len(w) \in 1 .. Releases(i)
  <2>1. CASE Line.avoid
    BY <1>1, <2>1 DEF Started
  <2>2. CASE ~ Line.avoid
    <3>1. Started = 1
      BY <2>2 DEF Started
    <3> QED  BY <1>1, <3>1
  <2> QED  BY <2>1, <2>2
<1> QED  BY <1>2, <1>3, <1>4, <1>5, <1>6, <1>7

\* The types asked for, and given back, by the first n calls.
LEMMA AskedTypes ==
  ASSUME Line \in Programs, NEW i \in Child, NEW n \in 0 .. Len(Plan(i))
  PROVE  Types(Line, i, n, "request") =
           {Wanted(i)[k] : k \in {k \in 1 .. Len(Wanted(i)) : Started + k <= n}}
<1> DEFINE S == Plan(i)
           w == Wanted(i)
<1>1. Shape(S, w, i)
  BY PlanShape
<1> HIDE DEF S, w
<1>2. /\ Len(w) \in Nat /\ Releases(i) \in Nat /\ Started \in Nat
      /\ Len(S) = Started + Len(w) + Releases(i) + 1
  BY <1>1 DEF Shape
<1>3. ASSUME NEW k \in 1 .. n
      PROVE  S[k].call = "request" => k - Started \in 1 .. Len(w) /\ S[k].types = {w[k - Started]}
  <2>1. k \in 1 .. Len(S)
    BY <1>2 DEF S
  <2>2. Kind(S, w, i, k)
    BY <1>1, <2>1, PlanKinds
  <2> QED  BY <2>2 DEF Kind, Call
<1>4. ASSUME NEW k \in 1 .. Len(w), Started + k <= n
      PROVE  /\ Started + k \in 1 .. n
             /\ S[Started + k].call = "request" /\ S[Started + k].types = {w[k]}
  <2>1. S[Started + k] = Call("request", {w[k]})
    BY <1>1 DEF Shape
  <2> QED  BY <1>2, <1>4, <2>1 DEF Call
<1>5. Types(Line, i, n, "request") = UNION {S[k].types : k \in {k \in 1 .. n : S[k].call = "request"}}
  BY DEF Types, Plan, S
<1>6. ASSUME NEW k \in 1 .. n, S[k].call = "request"
      PROVE  /\ k - Started \in {j \in 1 .. Len(w) : Started + j <= n}
             /\ S[k].types = {w[k - Started]}
  BY <1>2, <1>3, <1>6
<1> DEFINE R == {w[k] : k \in {k \in 1 .. Len(w) : Started + k <= n}}
<1>7. Types(Line, i, n, "request") \subseteq R
  BY <1>5, <1>6
<1>8. R \subseteq Types(Line, i, n, "request")
  BY <1>4, <1>5
<1> QED  BY <1>7, <1>8 DEF w

LEMMA ReturnedTypes ==
  ASSUME Line \in Programs, NEW i \in Child, NEW n \in 0 .. Len(Plan(i))
  PROVE  Types(Line, i, n, "release") =
           IF Together(i) THEN IF Started + Len(Wanted(i)) < n THEN Range(Wanted(i)) ELSE {}
           ELSE {Wanted(i)[k] : k \in {k \in 1 .. Len(Wanted(i)) :
                                         Started + Len(Wanted(i)) + k <= n}}
<1> DEFINE S == Plan(i)
           w == Wanted(i)
<1>1. Shape(S, w, i)
  BY PlanShape
<1>2. Releases(i) = IF Together(i) THEN 1 ELSE Len(w)
  BY DEF Releases
<1> HIDE DEF S, w
<1>3. /\ Len(w) \in Nat /\ Releases(i) \in Nat /\ Started \in Nat
      /\ Len(S) = Started + Len(w) + Releases(i) + 1
  BY <1>1 DEF Shape
<1>4. ASSUME NEW k \in 1 .. n, S[k].call = "release"
      PROVE  /\ k - Started - Len(w) \in {j \in 1 .. Releases(i) : Started + Len(w) + j <= n}
             /\ S[k].types = Returned(w, i, k - Started - Len(w))
  <2>1. k \in 1 .. Len(S)
    BY <1>3 DEF S
  <2>2. Kind(S, w, i, k)
    BY <1>1, <2>1, PlanKinds
  <2>3. /\ k - Started - Len(w) \in 1 .. Releases(i)
        /\ S[k] = Call("release", Returned(w, i, k - Started - Len(w)))
    <3>1. Call("start", {}).call # "release" /\ Call("ended", {}).call # "release"
      BY DEF Call
    <3>2. Call("claim", Range(w)).call # "release"
      BY DEF Call
    <3>3. Call("request", {w[k - Started]}).call # "release"
      BY DEF Call
    <3> QED  BY <1>4, <2>2, <3>1, <3>2, <3>3, Zenon DEF Kind
  <2>4. S[k].types = Returned(w, i, k - Started - Len(w))
    BY <2>3, CallFields
  <2> QED  BY <1>3, <2>3, <2>4
<1>5. ASSUME NEW k \in 1 .. Releases(i), Started + Len(w) + k <= n
      PROVE  /\ Started + Len(w) + k \in 1 .. n
             /\ S[Started + Len(w) + k].call = "release"
             /\ S[Started + Len(w) + k].types = Returned(w, i, k)
  <2>1. S[Started + Len(w) + k] = Call("release", Returned(w, i, k))
    BY <1>1 DEF Shape
  <2> QED  BY <1>3, <1>5, <2>1 DEF Call
<1>6. Types(Line, i, n, "release") = UNION {S[k].types : k \in {k \in 1 .. n : S[k].call = "release"}}
  BY DEF Types, Plan, S
<1> DEFINE R == UNION {Returned(w, i, k) : k \in {k \in 1 .. Releases(i) : Started + Len(w) + k <= n}}
<1>7. Types(Line, i, n, "release") \subseteq R
  BY <1>4, <1>6
<1>8. R \subseteq Types(Line, i, n, "release")
  BY <1>5, <1>6
<1>9. Types(Line, i, n, "release") = R
  BY <1>7, <1>8
<1> HIDE DEF R
<1>10. CASE Together(i)
  <2>1. {k \in 1 .. Releases(i) : Started + Len(w) + k <= n}
          = IF Started + Len(w) < n THEN {1} ELSE {}
    BY <1>2, <1>3, <1>10
  <2>2. R = IF Started + Len(w) < n THEN Returned(w, i, 1) ELSE {}
    BY <2>1 DEF R
  <2> QED  BY <1>9, <1>10, <2>2 DEF Returned, w
<1>11. CASE ~ Together(i)
  <2>1. R = {w[k] : k \in {k \in 1 .. Len(w) : Started + Len(w) + k <= n}}
    BY <1>2, <1>11 DEF R, Returned
  <2> QED  BY <1>9, <1>11, <2>1 DEF w
<1> QED  BY <1>10, <1>11

Held(i, n) == Types(Line, i, n, "request") \ Types(Line, i, n, "release")

\* What one call of the script changes in what the child holds.
CallEffect(i, n) ==
  LET c == Plan(i)[n + 1]
  IN  /\ c.call \in {"start", "claim", "request", "release", "ended"}
      /\ c.types \subseteq 0 .. Line.numr - 1
      /\ c.call = "start" <=> n = 0
      /\ c.call = "ended" <=> n = Len(Plan(i)) - 1
      /\ c.call = "claim" => Line.avoid /\ n = 1 /\ c.types = Range(Wanted(i))
      /\ Line.avoid /\ n = 1 => c.call = "claim"
      /\ c.call \in {"start", "claim"} => Held(i, n + 1) = Held(i, n)
      /\ c.call = "request" =>
           /\ c.types \cap Held(i, n) = {} /\ Held(i, n + 1) = Held(i, n) \cup c.types
           /\ c.types \subseteq Range(Wanted(i))
      /\ c.call = "release" =>
           c.types \subseteq Held(i, n) /\ Held(i, n + 1) = Held(i, n) \ c.types
      /\ c.call = "ended" => Held(i, n + 1) = {}

LEMMA HeldSteps ==
  ASSUME Line \in Programs, NEW i \in Child, NEW n \in 0 .. Len(Plan(i)) - 1
  PROVE  CallEffect(i, n)
<1> DEFINE S == Plan(i)
           w == Wanted(i)
           L == Len(w)
           c == S[n + 1]
           Q(m) == {k \in 1 .. L : Started + k <= m}
           R(m) == {k \in 1 .. L : Started + L + k <= m}
           asked(m) == {w[k] : k \in Q(m)}
           back(m) == IF Together(i) THEN IF Started + L < m THEN Range(w) ELSE {}
                      ELSE {w[k] : k \in R(m)}
<1>1. /\ Shape(S, w, i) /\ Distinct(w) /\ w \in Seq(0 .. Line.numr - 1)
      /\ n \in 0 .. Len(S) - 1
  BY PlanShape, WantedDistinct
<1>2. \A m \in 0 .. Len(S) : Held(i, m) = asked(m) \ back(m)
  BY AskedTypes, ReturnedTypes DEF Held
<1>3. Releases(i) = IF Together(i) THEN 1 ELSE L
  BY DEF Releases
<1> HIDE DEF S, w
<1>4. /\ L \in Nat /\ Releases(i) \in Nat /\ Started \in {1, 2}
      /\ Len(S) = Started + L + Releases(i) + 1 /\ n \in Nat
      /\ n + 1 \in 1 .. Len(S) /\ n + 1 \in 0 .. Len(S) /\ n \in 0 .. Len(S)
  BY <1>1 DEF Shape
<1>5. DOMAIN w = 1 .. L /\ \A k \in 1 .. L : w[k] \in 0 .. Line.numr - 1
  BY <1>1, LenProperties, ElementOfSeq
<1>6. Range(w) = {w[k] : k \in 1 .. L}
  BY <1>5 DEF Range
<1>7. Kind(S, w, i, n + 1)
  BY <1>1, <1>4, PlanKinds
<1>8. Held(i, n) = asked(n) \ back(n) /\ Held(i, n + 1) = asked(n + 1) \ back(n + 1)
  BY <1>2, <1>4
<1>9. \A j, k \in 1 .. L : w[j] = w[k] => j = k
  BY <1>1, <1>5 DEF Distinct
<1> HIDE DEF L
<1>10. ASSUME n + 1 <= Started
       PROVE  /\ asked(n) = {} /\ asked(n + 1) = {}
              /\ Held(i, n) = {} /\ Held(i, n + 1) = {}
  <2>1. Q(n) = {} /\ Q(n + 1) = {}
    BY <1>4, <1>10
  <2> HIDE DEF Q
  <2>2. asked(n) = {} /\ asked(n + 1) = {}
    BY <2>1
  <2> HIDE DEF asked, back
  <2> QED  BY <1>8, <2>2
<1>k. PICK k : k = n + 1 - Started
  OBVIOUS
<1>j. PICK j : j = n + 1 - Started - L
  OBVIOUS
<1>11. ASSUME k \in 1 .. L
       PROVE  /\ {w[k]} \cap Held(i, n) = {} /\ Held(i, n + 1) = Held(i, n) \cup {w[k]}
              /\ w[k] \in Range(w)
  <2>1. Q(n + 1) = Q(n) \cup {k} /\ k \notin Q(n)
    BY <1>k, <1>4, <1>11
  <2>2. R(n) = {} /\ R(n + 1) = {} /\ ~ (Started + L < n) /\ ~ (Started + L < n + 1)
    BY <1>k, <1>4, <1>11
  <2>3. Q(n) \subseteq 1 .. L
    OBVIOUS
  <2> HIDE DEF Q, R
  <2>4. asked(n + 1) = asked(n) \cup {w[k]}
    BY <2>1
  <2>5. w[k] \notin asked(n)
    BY <1>9, <1>11, <2>1, <2>3
  <2>6. back(n) = {} /\ back(n + 1) = {}
    BY <2>2
  <2> HIDE DEF asked, back
  <2> QED  BY <1>6, <1>8, <1>11, <2>4, <2>5, <2>6
<1>12. ASSUME j \in 1 .. Releases(i)
       PROVE  LET types == Returned(w, i, j)
              IN  types \subseteq Held(i, n) /\ Held(i, n + 1) = Held(i, n) \ types
  <2>1. Q(n) = 1 .. L /\ Q(n + 1) = 1 .. L
    BY <1>j, <1>4, <1>12
  <2>2. asked(n) = Range(w) /\ asked(n + 1) = Range(w)
    BY <1>6, <2>1
  <2>3. CASE Together(i)
    <3>1. ~ (Started + L < n) /\ Started + L < n + 1
      BY <1>j, <1>3, <1>4, <1>12, <2>3
    <3>2. back(n) = {} /\ back(n + 1) = Range(w)
      BY <2>3, <3>1
    <3> HIDE DEF asked, back
    <3> QED  BY <1>8, <2>2, <2>3, <3>2 DEF Returned
  <2>4. CASE ~ Together(i)
    <3>1. R(n + 1) = R(n) \cup {j} /\ j \notin R(n) /\ R(n) \subseteq 1 .. L /\ j \in 1 .. L
      BY <1>j, <1>3, <1>4, <1>12, <2>4
    <3> HIDE DEF R
    <3>2. back(n + 1) = back(n) \cup {w[j]}
      BY <2>4, <3>1
    <3>3. w[j] \notin back(n)
      BY <1>9, <2>4, <3>1
    <3>4. w[j] \in Range(w)
      BY <1>6, <3>1
    <3> HIDE DEF asked, back
    <3> QED  BY <1>8, <2>2, <2>4, <3>2, <3>3, <3>4 DEF Returned
  <2> QED  BY <2>3, <2>4
<1>13. ASSUME n + 1 = Len(S) PROVE Held(i, n + 1) = {}
  <2>1. Q(n + 1) = 1 .. L
    BY <1>4, <1>13
  <2>2. CASE Together(i)
    <3>1. Started + L < n + 1
      BY <1>3, <1>4, <1>13, <2>2
    <3> QED  BY <1>6, <1>8, <2>1, <2>2, <3>1
  <2>3. CASE ~ Together(i)
    <3>1. R(n + 1) = 1 .. L
      BY <1>3, <1>4, <1>13, <2>3
    <3> QED  BY <1>6, <1>8, <2>1, <2>3, <3>1
  <2> QED  BY <2>2, <2>3
<1> HIDE DEF asked, back, Q, R
<1>14. /\ Line.avoid => Started = 2
       /\ Range(w) \subseteq 0 .. Line.numr - 1
  BY <1>5, <1>6 DEF Started
<1>15. \/ n + 1 = 1 /\ S[n + 1] = Call("start", {})
       \/ Line.avoid /\ n + 1 = 2 /\ S[n + 1] = Call("claim", Range(w))
       \/ k \in 1 .. L /\ S[n + 1] = Call("request", {w[k]})
       \/ /\ j \in 1 .. Releases(i)
          /\ S[n + 1] = Call("release", Returned(w, i, j))
       \/ n + 1 = Len(S) /\ S[n + 1] = Call("ended", {})
  <2>1. PICK m : m = n + 1
    OBVIOUS
  <2>2. Kind(S, w, i, m)
    BY <1>7, <2>1
  <2>3. \/ m = 1 /\ S[m] = Call("start", {})
        \/ Line.avoid /\ m = 2 /\ S[m] = Call("claim", Range(w))
        \/ m - Started \in 1 .. Len(w) /\ S[m] = Call("request", {w[m - Started]})
        \/ /\ m - Started - Len(w) \in 1 .. Releases(i)
           /\ S[m] = Call("release", Returned(w, i, m - Started - Len(w)))
        \/ m = Len(S) /\ S[m] = Call("ended", {})
    BY <2>2, Zenon DEF Kind
  <2>4. m - Started = k /\ m - Started - Len(w) = j
    BY <1>k, <1>j, <1>4, <2>1 DEF L
  <2> QED  BY <2>1, <2>3, <2>4, Zenon DEF L
<1>16. PICK a, b : a = S[n + 1].call /\ b = S[n + 1].types
  OBVIOUS
<1>17. PICK u, v : u = w[k] /\ v = (Returned(w, i, j))
  OBVIOUS
<1>18. \/ n + 1 = 1 /\ a = "start" /\ b = {}
       \/ Line.avoid /\ n + 1 = 2 /\ a = "claim" /\ b = Range(w)
       \/ k \in 1 .. L /\ a = "request" /\ b = {u}
       \/ j \in 1 .. Releases(i) /\ a = "release" /\ b = v
       \/ n + 1 = Len(S) /\ a = "ended" /\ b = {}
  BY <1>15, <1>16, <1>17, CallFields
<1>19. n + 1 <= Started => Held(i, n) = {} /\ Held(i, n + 1) = {}
  BY <1>10
<1>20. k \in 1 .. L => /\ {u} \cap Held(i, n) = {} /\ Held(i, n + 1) = Held(i, n) \cup {u}
                       /\ {u} \subseteq Range(w)
  BY <1>11, <1>17
<1>21. j \in 1 .. Releases(i) => v \subseteq Held(i, n) /\ Held(i, n + 1) = Held(i, n) \ v
  BY <1>12, <1>17
<1>22. j \in 1 .. Releases(i) => v \subseteq 0 .. Line.numr - 1
  <2>1. CASE Together(i)
    BY <1>14, <1>17, <2>1 DEF Returned
  <2>2. CASE ~ Together(i)
    BY <1>3, <1>5, <1>17, <2>2 DEF Returned
  <2> QED  BY <2>1, <2>2
<1>23. /\ a = "start" => n = 0 /\ b = {}
       /\ a = "claim" => Line.avoid /\ n = 1 /\ b = Range(w)
       /\ a = "request" => k \in 1 .. L /\ b = {u} /\ Started <= n /\ n < Len(S) - 1
       /\ a = "release" => j \in 1 .. Releases(i) /\ b = v /\ Started <= n /\ n < Len(S) - 1
       /\ a = "ended" => n = Len(S) - 1 /\ b = {}
       /\ a \in {"start", "claim", "request", "release", "ended"}
  BY <1>k, <1>j, <1>4, <1>18
<1>24. /\ a = "start" <=> n = 0
       /\ a = "ended" <=> n = Len(S) - 1
       /\ Line.avoid /\ n = 1 => a = "claim"
       /\ a \in {"start", "claim"} => n + 1 <= Started
  <2>1. Started <= n => n # 0 /\ ~ (Line.avoid /\ n = 1)
    BY <1>4, <1>14
  <2>2. Line.avoid /\ n = 1 => n < Len(S) - 1
    BY <1>4, <1>14
  <2>3. n = 0 => n < Len(S) - 1
    BY <1>4
  <2>4. a = "start" <=> n = 0
    BY <1>4, <1>14, <1>23, <2>1, <2>3
  <2>5. a = "ended" <=> n = Len(S) - 1
    BY <1>4, <1>14, <1>18, <1>23, <2>1, <2>2, <2>3
  <2>6. Line.avoid /\ n = 1 => a = "claim"
    BY <1>4, <1>14, <1>23, <2>1, <2>2, <2>3
  <2>7. a \in {"start", "claim"} => n + 1 <= Started
    BY <1>4, <1>14, <1>23
  <2> QED  BY <2>4, <2>5, <2>6, <2>7
<1>25. b \subseteq 0 .. Line.numr - 1
  BY <1>14, <1>20, <1>22, <1>23
<1>26. /\ a \in {"start", "claim", "request", "release", "ended"}
       /\ b \subseteq 0 .. Line.numr - 1
       /\ a = "start" <=> n = 0
       /\ a = "ended" <=> n = Len(S) - 1
       /\ a = "claim" => Line.avoid /\ n = 1 /\ b = Range(w)
       /\ Line.avoid /\ n = 1 => a = "claim"
       /\ a \in {"start", "claim"} => Held(i, n + 1) = Held(i, n)
       /\ a = "request" =>
            /\ b \cap Held(i, n) = {} /\ Held(i, n + 1) = Held(i, n) \cup b
            /\ b \subseteq Range(w)
       /\ a = "release" =>
            b \subseteq Held(i, n) /\ Held(i, n + 1) = Held(i, n) \ b
       /\ a = "ended" => Held(i, n + 1) = {}
  <2>1. a \in {"start", "claim"} => Held(i, n + 1) = Held(i, n)
    BY <1>19, <1>24
  <2>2. a = "ended" => Held(i, n + 1) = {}
    BY <1>4, <1>13, <1>23
  <2> QED  BY <1>20, <1>21, <1>23, <1>24, <1>25, <2>1, <2>2, Zenon
<1> QED  BY <1>16, <1>26, Zenon DEF CallEffect, S, w

-----------------------------------------------------------------------------
(* What a call changes.                                                    *)

LEMMA UnitsFacts ==
  ASSUME Line \in Programs, NEW T
  PROVE  /\ Units(Line, T) \in M!Vector /\ Units(Line, T) \in M!Vectors
         /\ M!Zero = Units(Line, {})
         /\ \A j \in 0 .. Line.numr - 1 : Units(Line, T)[j] = IF j \in T THEN 1 ELSE 0
BY DEF Units, M!Vector, M!Vectors, M!Zero

LEMMA UnitsMove ==
  ASSUME Line \in Programs, NEW T, NEW U
  PROVE  /\ T \cap U = {} => [j \in 0 .. Line.numr - 1 |-> Units(Line, T)[j] + Units(Line, U)[j]]
                               = Units(Line, T \cup U)
         /\ U \subseteq T => [j \in 0 .. Line.numr - 1 |-> Units(Line, T)[j] - Units(Line, U)[j]]
                               = Units(Line, T \ U)
BY DEF Units

\* What an id has claimed, and whether it has asked for anything.
Claims(s, k) ==
  [claimed |-> s.claimed[k], once |-> s.requested_once[k], demand |-> s.max_demand[k]]

LEMMA ClaimsKept ==
  ASSUME NEW s \in M!State, NEW i \in Child, NEW v, NEW k \in Child
  PROVE  /\ Claims(M!Granted(s, i, v), k) = Claims(s, k)
         /\ Claims(M!Released(s, i, v), k) = Claims(s, k)
         /\ Claims(M!Satisfied(s, i), k) = Claims(s, k)
         /\ k # i => /\ Claims(M!Requested(s, i, v), k) = Claims(s, k)
                     /\ Claims(M!Started(s, i, v), k) = Claims(s, k)
                     /\ Claims(M!Claimed(s, i, v), k) = Claims(s, k)
                     /\ Claims(M!Ended(s, i), k) = Claims(s, k)
<1>1. i \in M!Proc /\ k \in M!Proc
  BY DEF Child, M!Proc
<1>2. Claims(M!Granted(s, i, v), k) = Claims(s, k)
  BY <1>1 DEF M!Granted, M!State, M!Matrix, Claims
<1>3. Claims(M!Released(s, i, v), k) = Claims(s, k)
  BY <1>1 DEF M!Released, M!State, M!Matrix, Claims
<1>4. Claims(M!Satisfied(s, i), k) = Claims(s, k)
  BY <1>1 DEF M!Satisfied, M!Granted, M!State, M!Matrix, Claims
<1>5. k # i => Claims(M!Requested(s, i, v), k) = Claims(s, k)
  BY <1>1 DEF M!Requested, M!State, M!Matrix, Claims
<1>6. k # i => Claims(M!Started(s, i, v), k) = Claims(s, k)
  BY <1>1 DEF M!Started, M!State, M!Matrix, Claims
<1>7. k # i => Claims(M!Claimed(s, i, v), k) = Claims(s, k)
  BY <1>1 DEF M!Claimed, M!State, M!Matrix, Claims
<1>8. k # i => Claims(M!Ended(s, i), k) = Claims(s, k)
  BY <1>1 DEF M!Ended, M!State, M!Matrix, Claims
<1> QED  BY <1>2, <1>3, <1>4, <1>5, <1>6, <1>7, <1>8

LEMMA ClaimsChange ==
  ASSUME NEW s \in M!State, NEW i \in Child, NEW v
  PROVE  /\ Claims(M!Requested(s, i, v), i) =
              [claimed |-> s.claimed[i], once |-> TRUE, demand |-> s.max_demand[i]]
         /\ Claims(M!Started(s, i, v), i) =
              [claimed |-> FALSE, once |-> FALSE, demand |-> s.max_demand[i]]
         /\ Claims(M!Claimed(s, i, v), i) =
              [claimed |-> TRUE, once |-> s.requested_once[i], demand |-> v]
<1>1. i \in M!Proc
  BY DEF Child, M!Proc
<1> QED  BY <1>1 DEF M!Requested, M!Started, M!Claimed, M!State, M!Matrix, Claims

LEMMA TrySatisfyClaims ==
  ASSUME Line \in Programs, NEW s, M!Sound(s), NEW k \in Child
  PROVE  Claims(M!TrySatisfy(s), k) = Claims(s, k)
<1> DEFINE T == {u \in M!State : M!Sound(u) /\ Claims(u, k) = Claims(s, k)}
<1>1. s \in T
  BY DEF M!Sound
<1>2. \A u \in T : M!Sound(u)
  OBVIOUS
<1>3. ASSUME NEW u \in T, NEW i \in M!Proc, M!CanSatisfy(u, i) PROVE M!Satisfied(u, i) \in T
  <2>1. M!Sound(M!Satisfied(u, i))
    BY <1>2, <1>3, ManagerAssumption, M!SatisfiedSound
  <2>2. Claims(M!Satisfied(u, i), k) = Claims(u, k)
    BY ClaimsKept DEF M!Proc, Child
  <2>3. M!Satisfied(u, i) \in M!State
    BY <2>1 DEF M!Sound
  <2> QED  BY <2>1, <2>2, <2>3
<1> HIDE DEF T
<1>4. M!TrySatisfy(s) \in T
  BY <1>1, <1>2, <1>3, ManagerAssumption, M!TrySatisfyInvariant
<1> QED  BY <1>4 DEF T

\* The id k is left as it was, or its waiter is served.
Bystander(s, t, k) ==
  /\ \/ M!Entry(t, k) = M!Entry(s, k)
     \/ s.waiting[k] /\ M!Entry(t, k) = M!Served(M!Entry(s, k))
  /\ Claims(t, k) = Claims(s, k)

\* The call enters e for the id i, and every other id stands by.
Enters(s, i, e, t) ==
  /\ M!Entry(t, i) = e
  /\ \A k \in Child \ {i} : Bystander(s, t, k)

LEMMA EntersServed ==
  ASSUME Line \in Programs, NEW s \in M!State, NEW i \in Child, NEW e, NEW t,
         M!Enters(s, i, e, t), M!Sound(t), ~ e.waiting,
         \A k \in Child \ {i} : Claims(t, k) = Claims(s, k)
  PROVE  Enters(s, i, e, M!TrySatisfy(t))
<1>1. \A k \in Child : k \in M!Proc
  BY DEF Child, M!Proc
<1>2. M!ServedFrom(t, M!TrySatisfy(t))
  BY ManagerAssumption, M!TrySatisfyServes
<1>3. \A k \in Child : Claims(M!TrySatisfy(t), k) = Claims(t, k)
  BY TrySatisfyClaims
<1>4. M!Entry(t, i) = e /\ \A k \in Child \ {i} : M!Entry(t, k) = M!Entry(s, k)
  BY <1>1 DEF M!Enters
<1>5. \A k \in Child : t.waiting[k] = M!Entry(t, k).waiting /\ s.waiting[k] = M!Entry(s, k).waiting
  BY DEF M!Entry
<1>6. M!Entry(M!TrySatisfy(t), i) = e
  BY <1>1, <1>2, <1>4, <1>5 DEF M!ServedFrom
<1>7. ASSUME NEW k \in Child \ {i} PROVE Bystander(s, M!TrySatisfy(t), k)
  <2>1. \/ M!Entry(M!TrySatisfy(t), k) = M!Entry(t, k)
        \/ t.waiting[k] /\ M!Entry(M!TrySatisfy(t), k) = M!Served(M!Entry(t, k))
    BY <1>1, <1>2 DEF M!ServedFrom
  <2>2. t.waiting[k] = s.waiting[k] /\ M!Entry(t, k) = M!Entry(s, k)
    BY <1>4, <1>5
  <2>3. Claims(M!TrySatisfy(t), k) = Claims(s, k)
    BY <1>3
  <2> QED  BY <2>1, <2>2, <2>3 DEF Bystander
<1> QED  BY <1>6, <1>7 DEF Enters

LEMMA EntersAlone ==
  ASSUME NEW s, NEW i \in Child, NEW e, NEW t, M!Enters(s, i, e, t),
         \A k \in Child \ {i} : Claims(t, k) = Claims(s, k)
  PROVE  Enters(s, i, e, t)
BY DEF M!Enters, Enters, Bystander, Child, M!Proc

LEMMA StartCall ==
  ASSUME Line \in Programs, Manager, NEW i \in Child, M!rsm_process_started(i, i)
  PROVE  /\ Enters(g, i, [ allocation |-> g.allocation[i], request |-> M!Zero, waiting |-> FALSE,
                           sem |-> g.process_sem[i], pid |-> i ], g')
         /\ Claims(g', i) = [claimed |-> FALSE, once |-> FALSE, demand |-> g.max_demand[i]]
<1>1. g \in M!State /\ g' = M!Started(g, i, i) /\ i \in M!Proc /\ i \in Pids
  BY DEF Manager, M!IInv, M!Sound, M!rsm_process_started, M!Proc, Child, Pids
<1>2. M!Enters(g, i, [ allocation |-> g.allocation[i], request |-> M!Zero, waiting |-> FALSE,
                       sem |-> g.process_sem[i], pid |-> i ], g')
  BY <1>1, ManagerAssumption, M!StartedEntry
<1>3. ASSUME NEW k \in Child, k # i PROVE Claims(g', k) = Claims(g, k)
  BY <1>1, <1>3, ClaimsKept
<1>4. Claims(g', i) = [claimed |-> FALSE, once |-> FALSE, demand |-> g.max_demand[i]]
  BY <1>1, ClaimsChange, Zenon
<1> QED  BY <1>2, <1>3, <1>4, EntersAlone, Zenon

LEMMA ClaimCall ==
  ASSUME Line \in Programs, Manager, NEW i \in Child, NEW T,
         M!rsm_claim(i, i, Units(Line, T)), Line.avoid
  PROVE  /\ Enters(g, i, M!Entry(g, i), g')
         /\ Claims(g', i) = [claimed |-> TRUE, once |-> g.requested_once[i], demand |-> Units(Line, T)]
<1> DEFINE v == Units(Line, T)
<1>1. g \in M!State /\ g' = M!Claimed(g, i, v) /\ i \in M!Proc /\ v \in M!Vectors
  BY UnitsFacts DEF Manager, M!IInv, M!Sound, M!rsm_claim, M!Proc, Child
<1> HIDE DEF v
<1>2. M!Enters(g, i, M!Entry(g, i), g')
  BY <1>1, ManagerAssumption, M!ClaimedEntry
<1>3. ASSUME NEW k \in Child, k # i PROVE Claims(g', k) = Claims(g, k)
  BY <1>1, <1>3, ClaimsKept
<1>4. Claims(g', i) = [claimed |-> TRUE, once |-> g.requested_once[i], demand |-> v]
  BY <1>1, ClaimsChange, Zenon
<1> QED  BY <1>2, <1>3, <1>4, EntersAlone, Zenon DEF v

LEMMA CallerFacts ==
  ASSUME Line \in Programs, Manager, NEW i \in Child, NEW v, M!Calls(i, i)
  PROVE  /\ M!Sound(g) /\ g \in M!State /\ i \in M!Proc /\ M!Active(g, i)
         /\ g.apid_to_pid[i] = i /\ ~ g.waiting[i] /\ status[i] = "live" /\ blocked[i] = -1
<1>1. i \in M!Proc /\ i \in Pids
  BY DEF M!Proc, Child, Pids
<1>2. M!Running(i) /\ M!CurrentApid(i) = i
  BY DEF M!Calls
<1>3. /\ M!Sound(g) /\ g \in M!State /\ M!Active(g, i) /\ g.apid_to_pid[i] = i
      /\ ~ g.waiting[i] /\ status[i] = "live"
  BY <1>1, <1>2, ManagerAssumption, M!Caller DEF Manager
<1> QED  BY <1>1, <1>2, <1>3 DEF M!Running, M!NoApid

LEMMA GrantCall ==
  ASSUME Line \in Programs, Manager, NEW i \in Child, NEW T,
         M!RequestGranted(i, i, Units(Line, T))
  PROVE  /\ Enters(g, i, [ allocation |-> [j \in 0 .. Line.numr - 1 |->
                                             g.allocation[i][j] + Units(Line, T)[j]],
                           request |-> M!Zero, waiting |-> FALSE,
                           sem |-> g.process_sem[i], pid |-> g.apid_to_pid[i] ], g')
         /\ Claims(g', i) = [claimed |-> g.claimed[i], once |-> TRUE, demand |-> g.max_demand[i]]
<1> DEFINE v == Units(Line, T)
           s == M!Requested(g, i, v)
<1>1. /\ M!Sound(g) /\ g \in M!State /\ i \in M!Proc /\ M!Active(g, i) /\ ~ g.waiting[i]
      /\ v \in M!Vectors /\ i \in Pids
  <2>1. M!Calls(i, i)
    BY DEF M!RequestGranted
  <2> QED  BY <2>1, CallerFacts, UnitsFacts DEF Child, Pids
<1> HIDE DEF v
<1>2. ~ M!RequestRefused(g, i, v) /\ M!Grantable(g, i, v) /\ g' = M!Granted(s, i, v)
  BY DEF M!RequestGranted, v
<1>3. g' \in M!State
  BY <1>1, ManagerAssumption, M!GrantStep DEF v, Manager, M!IInv, M!Sound
<1>4. M!Enters(g, i, [ allocation |-> g.allocation[i], request |-> v, waiting |-> g.waiting[i],
                       sem |-> g.process_sem[i], pid |-> g.apid_to_pid[i] ], s)
  BY <1>1, ManagerAssumption, M!RequestedEntry
<1>5. s \in M!State
  BY <1>4 DEF M!Enters
<1> HIDE DEF s
<1>6. M!Enters(s, i, [ allocation |-> M!\oplus(s.allocation[i], v), request |-> M!Zero,
                       waiting |-> s.waiting[i], sem |-> s.process_sem[i],
                       pid |-> s.apid_to_pid[i] ], g')
  BY <1>1, <1>2, <1>3, <1>5, ManagerAssumption, M!GrantedEntry
<1>7. /\ s.allocation[i] = g.allocation[i] /\ s.process_sem[i] = g.process_sem[i]
      /\ s.apid_to_pid[i] = g.apid_to_pid[i] /\ s.waiting[i] = FALSE
  BY <1>1, <1>4 DEF M!Enters, M!Entry, M!State
<1>8. M!\oplus(g.allocation[i], v) =
        [j \in 0 .. Line.numr - 1 |-> g.allocation[i][j] + v[j]]
  BY DEF M!\oplus
<1>9. M!Entry(g', i) = [ allocation |-> [j \in 0 .. Line.numr - 1 |-> g.allocation[i][j] + v[j]],
                         request |-> M!Zero, waiting |-> FALSE,
                         sem |-> g.process_sem[i], pid |-> g.apid_to_pid[i] ]
  BY <1>1, <1>6, <1>7, <1>8 DEF M!Enters
<1>10. ASSUME NEW k \in Child \ {i} PROVE Bystander(g, g', k)
  <2>1. k \in M!Proc /\ k # i /\ k \in Child
    BY DEF M!Proc, Child
  <2>2. M!Entry(g', k) = M!Entry(g, k)
    BY <1>4, <1>6, <2>1 DEF M!Enters
  <2>3. Claims(s, k) = Claims(g, k)
    BY <1>1, <2>1, ClaimsKept DEF s
  <2>4. Claims(g', k) = Claims(s, k)
    BY <1>2, <1>5, <2>1, ClaimsKept
  <2> QED  BY <2>2, <2>3, <2>4 DEF Bystander
<1>11. Claims(g', i) = [claimed |-> g.claimed[i], once |-> TRUE, demand |-> g.max_demand[i]]
  <2>1. Claims(s, i) = [claimed |-> g.claimed[i], once |-> TRUE, demand |-> g.max_demand[i]]
    BY <1>1, ClaimsChange, Zenon DEF s
  <2>2. Claims(g', i) = Claims(s, i)
    BY <1>2, <1>5, ClaimsKept, Zenon
  <2> QED  BY <2>1, <2>2
<1> QED  BY <1>9, <1>10, <1>11 DEF Enters, v

LEMMA WaitCall ==
  ASSUME Line \in Programs, Manager, NEW i \in Child, NEW T,
         M!RequestWaits(i, i, Units(Line, T))
  PROVE  /\ Enters(g, i, [ allocation |-> g.allocation[i], request |-> Units(Line, T),
                           waiting |-> TRUE, sem |-> g.process_sem[i],
                           pid |-> g.apid_to_pid[i] ], g')
         /\ Claims(g', i) = [claimed |-> g.claimed[i], once |-> TRUE, demand |-> g.max_demand[i]]
<1> DEFINE v == Units(Line, T)
           s == M!Requested(g, i, v)
<1>1. /\ g \in M!State /\ i \in M!Proc /\ v \in M!Vectors
  <2>1. M!Calls(i, i)
    BY DEF M!RequestWaits
  <2> QED  BY <2>1, CallerFacts, UnitsFacts DEF Child, Pids
<1>2. g' = [s EXCEPT !.waiting[i] = TRUE]
  BY DEF M!RequestWaits
<1> HIDE DEF v
<1>4. M!Enters(g, i, [ allocation |-> g.allocation[i], request |-> v, waiting |-> g.waiting[i],
                       sem |-> g.process_sem[i], pid |-> g.apid_to_pid[i] ], s)
  BY <1>1, ManagerAssumption, M!RequestedEntry
<1>5. s \in M!State
  BY <1>4 DEF M!Enters
<1>6. ASSUME NEW k \in Child, k # i PROVE Claims(s, k) = Claims(g, k)
  BY <1>1, <1>6, ClaimsKept
<1>7. Claims(s, i) = [claimed |-> g.claimed[i], once |-> TRUE, demand |-> g.max_demand[i]]
  BY <1>1, ClaimsChange, Zenon
<1> HIDE DEF s
<1>8. /\ \A k : Claims(g', k) = Claims(s, k)
      /\ g'.waiting = [s.waiting EXCEPT ![i] = TRUE]
      /\ g'.allocation = s.allocation /\ g'.request = s.request
      /\ g'.process_sem = s.process_sem /\ g'.apid_to_pid = s.apid_to_pid
  BY <1>2, <1>5 DEF M!State, Claims
<1>9. \A k \in Child : g'.waiting[k] = IF k = i THEN TRUE ELSE s.waiting[k]
  BY <1>5, <1>8 DEF M!State, M!Proc, Child
<1>10. \A k \in Child \ {i} : M!Entry(g', k) = M!Entry(s, k)
  BY <1>8, <1>9 DEF M!Entry
<1>11. \A k \in Child \ {i} : M!Entry(s, k) = M!Entry(g, k)
  BY <1>4 DEF M!Enters, M!Proc, Child
<1>12. M!Entry(g', i) = [ allocation |-> g.allocation[i], request |-> v,
                           waiting |-> TRUE, sem |-> g.process_sem[i],
                           pid |-> g.apid_to_pid[i] ]
  <2>1. /\ s.allocation[i] = g.allocation[i] /\ s.process_sem[i] = g.process_sem[i]
        /\ s.apid_to_pid[i] = g.apid_to_pid[i] /\ s.request[i] = v
    BY <1>1, <1>4 DEF M!Enters, M!Entry
  <2> QED  BY <2>1, <1>8, <1>9 DEF M!Entry
<1>13. \A k \in Child \ {i} : Bystander(g, g', k)
  BY <1>6, <1>8, <1>10, <1>11 DEF Bystander
<1> QED  BY <1>7, <1>8, <1>12, <1>13 DEF Enters, v

LEMMA ReleaseCall ==
  ASSUME Line \in Programs, Manager, NEW i \in Child, NEW T,
         M!rsm_release(i, i, Units(Line, T))
  PROVE  /\ Enters(g, i, [ allocation |-> [j \in 0 .. Line.numr - 1 |->
                                             g.allocation[i][j] - Units(Line, T)[j]],
                           request |-> g.request[i], waiting |-> FALSE,
                           sem |-> g.process_sem[i], pid |-> g.apid_to_pid[i] ], g')
         /\ Claims(g', i) = Claims(g, i)
<1> DEFINE v == Units(Line, T)
           s == M!Released(g, i, v)
           e == [ allocation |-> M!\ominus(g.allocation[i], v), request |-> g.request[i],
                  waiting |-> g.waiting[i], sem |-> g.process_sem[i],
                  pid |-> g.apid_to_pid[i] ]
<1>1. /\ M!Sound(g) /\ g \in M!State /\ i \in M!Proc /\ ~ g.waiting[i] /\ v \in M!Vectors
  <2>1. M!Calls(i, i)
    BY DEF M!rsm_release
  <2> QED  BY <2>1, CallerFacts, UnitsFacts
<1>2. ~ M!ReleaseRefused(g, i, v) /\ g' = M!TrySatisfy(s)
  BY DEF M!rsm_release
<1> HIDE DEF v
<1>3. M!Sound(s)
  BY <1>1, <1>2, ManagerAssumption, M!ReleasedSound DEF M!ReleaseRefused
<1>4. M!Enters(g, i, e, s)
  BY <1>1, <1>3, ManagerAssumption, M!ReleasedEntry DEF M!Sound
<1>5. ASSUME NEW k \in Child PROVE Claims(s, k) = Claims(g, k)
  BY <1>1, ClaimsKept
<1> HIDE DEF s
<1>6. ~ e.waiting
  BY <1>1
<1>7. e = [ allocation |-> [j \in 0 .. Line.numr - 1 |-> g.allocation[i][j] - v[j]],
            request |-> g.request[i], waiting |-> FALSE,
            sem |-> g.process_sem[i], pid |-> g.apid_to_pid[i] ]
  BY <1>1 DEF M!\ominus, M!State
<1> HIDE DEF e
<1>8. Enters(g, i, e, g')
  BY <1>1, <1>2, <1>3, <1>4, <1>5, <1>6, EntersServed
<1>9. Claims(g', i) = Claims(g, i)
  BY <1>2, <1>3, <1>5, TrySatisfyClaims
<1> QED  BY <1>7, <1>8, <1>9 DEF v

LEMMA EndCall ==
  ASSUME Line \in Programs, Manager, NEW i \in Child, M!rsm_process_ended(i, i)
  PROVE  Enters(g, i, [ allocation |-> M!Zero, request |-> M!Zero, waiting |-> FALSE,
                        sem |-> g.process_sem[i], pid |-> -1 ], g')
<1> DEFINE s == M!Ended(g, i)
           e == [ allocation |-> M!Zero, request |-> M!Zero, waiting |-> FALSE,
                  sem |-> g.process_sem[i], pid |-> -1 ]
<1>1. M!Sound(g) /\ g \in M!State /\ i \in M!Proc
  BY DEF Manager, M!IInv, M!Sound, M!Proc, Child
<1>2. g' = M!TrySatisfy(s)
  BY DEF M!rsm_process_ended
<1>3. M!Sound(s)
  BY <1>1, ManagerAssumption, M!EndedSound
<1>4. M!Enters(g, i, e, s)
  BY <1>1, ManagerAssumption, M!EndedEntry
<1>5. ASSUME NEW k \in Child, k # i PROVE Claims(s, k) = Claims(g, k)
  BY <1>1, <1>5, ClaimsKept
<1>6. ~ e.waiting
  OBVIOUS
<1> HIDE DEF s, e
<1>7. Enters(g, i, e, g')
  BY <1>1, <1>2, <1>3, <1>4, <1>5, <1>6, EntersServed
<1> QED  BY <1>7 DEF e

LEMMA WakeCall ==
  ASSUME Line \in Programs, Manager, NEW i \in Child, M!Wake(i, i)
  PROVE  /\ Enters(g, i, [ allocation |-> g.allocation[i], request |-> g.request[i],
                           waiting |-> FALSE, sem |-> g.process_sem[i] - 1,
                           pid |-> g.apid_to_pid[i] ], g')
         /\ Claims(g', i) = Claims(g, i)
<1>1. /\ g \in M!State /\ i \in M!Proc /\ g.process_sem[i] > 0
      /\ g.process_sem[i] <= IF g.waiting[i] THEN 0 ELSE 1
      /\ g' = [g EXCEPT !.process_sem[i] = @ - 1]
  BY DEF Manager, M!IInv, M!Sound, M!Proc, Child, M!Books, M!Awaited, M!Wake
<1>2. /\ \A k : Claims(g', k) = Claims(g, k)
      /\ g'.process_sem = [g.process_sem EXCEPT ![i] = @ - 1]
      /\ g'.allocation = g.allocation /\ g'.request = g.request
      /\ g'.waiting = g.waiting /\ g'.apid_to_pid = g.apid_to_pid
  BY <1>1 DEF M!State, Claims
<1>3. g.waiting[i] = FALSE
  BY <1>1 DEF M!State
<1>4. \A k \in Child : g'.process_sem[k] = IF k = i THEN g.process_sem[i] - 1 ELSE g.process_sem[k]
  BY <1>1, <1>2 DEF M!State, M!Proc, Child
<1>5. \A k \in Child \ {i} : Bystander(g, g', k)
  BY <1>2, <1>4 DEF Bystander, M!Entry
<1>6. M!Entry(g', i) = [ allocation |-> g.allocation[i], request |-> g.request[i],
                         waiting |-> FALSE, sem |-> g.process_sem[i] - 1,
                         pid |-> g.apid_to_pid[i] ]
  BY <1>2, <1>3, <1>4 DEF M!Entry
<1> QED  BY <1>2, <1>5, <1>6 DEF Enters

-----------------------------------------------------------------------------
(* Every child is where its script says, and holds what it has asked for.  *)

Placed(i) ==
  /\ at[i] \in 1 .. Len(Plan(i)) + 1
  /\ g.apid_to_pid[i] \in {-1, i}
  /\ blocked[i] = i => at[i] <= Len(Plan(i)) /\ Plan(i)[at[i]].call = "request"
  /\ g.waiting[i] /\ status[i] = "live" => g.request[i] = Units(Line, Plan(i)[at[i]].types)

\* With avoidance a child has claimed, before its first request, all it ever asks
\* for: this is why none of its calls is refused.
Owns(i, n) ==
  /\ g.allocation[i] = Units(Line, Held(i, n))
  /\ Line.avoid => /\ n = 1 => ~ g.claimed[i] /\ ~ g.requested_once[i]
                   /\ n \in 2 .. Len(Plan(i)) - 1 =>
                        g.claimed[i] /\ g.max_demand[i] = Units(Line, Range(Wanted(i)))

InStep(i) == Placed(i) /\ (status[i] # "dead" => Owns(i, Answered(i)))

LEMMA WaiterBlocked ==
  ASSUME Line \in Programs, Manager, NEW i \in Child, Placed(i), g.waiting[i]
  PROVE  g.apid_to_pid[i] = i /\ status[i] # "unborn" /\ (status[i] = "live" => blocked[i] = i)
<1>1. M!Recorded(g) /\ M!Awaited(g, status, blocked) /\ i \in M!Proc
  BY DEF Manager, M!Books, M!Proc, Child
<1>2. M!Active(g, i) /\ M!Pending(g, i)
  BY <1>1 DEF M!Recorded, M!Pending
<1>3. g.apid_to_pid[i] = i
  BY <1>2 DEF M!Active, Placed
<1> QED  BY <1>1, <1>2, <1>3 DEF M!Awaited

LEMMA Requests ==
  ASSUME Line \in Programs, NEW i \in Child, NEW n \in 0 .. Len(Plan(i)) - 1,
         Plan(i)[n + 1].call = "request"
  PROVE  /\ n # 0 /\ (Line.avoid => n # 1) /\ n # Len(Plan(i)) - 1
         /\ Held(i, n + 1) = Held(i, n) \cup Plan(i)[n + 1].types
         /\ Plan(i)[n + 1].types \cap Held(i, n) = {}
         /\ Plan(i)[n + 1].types \subseteq Range(Wanted(i))
<1>1. CallEffect(i, n)
  BY HeldSteps
<1> QED  BY <1>1 DEF CallEffect

LEMMA EntryFields ==
  ASSUME NEW s, NEW t, NEW k, NEW e, M!Entry(t, k) = e
  PROVE  /\ t.allocation[k] = e.allocation /\ t.request[k] = e.request
         /\ t.waiting[k] = e.waiting /\ t.apid_to_pid[k] = e.pid
BY DEF M!Entry

LEMMA ClaimsFields ==
  ASSUME NEW t, NEW k, NEW e, Claims(t, k) = e
  PROVE  t.claimed[k] = e.claimed /\ t.requested_once[k] = e.once /\ t.max_demand[k] = e.demand
BY DEF Claims

\* The steps of others leave a child on its way: at most its waiting call is served.
LEMMA StandsBy ==
  ASSUME Line \in Programs, Manager, NEW i \in Child, InStep(i), Bystander(g, g', i),
         at'[i] = at[i], blocked'[i] = blocked[i],
         \/ status'[i] = status[i]
         \/ status[i] = "unborn" /\ status'[i] = "live"
  PROVE  InStep(i)'
<1>1. /\ at[i] \in 1 .. Len(Plan(i)) + 1 /\ g.apid_to_pid[i] \in {-1, i}
      /\ blocked[i] = i => at[i] <= Len(Plan(i)) /\ Plan(i)[at[i]].call = "request"
      /\ g.waiting[i] /\ status[i] = "live" => g.request[i] = Units(Line, Plan(i)[at[i]].types)
  BY DEF InStep, Placed
<1>2. g.waiting[i] => /\ g.apid_to_pid[i] = i /\ status[i] # "unborn"
                      /\ status[i] = "live" => blocked[i] = i
  BY WaiterBlocked DEF InStep
<1>3. /\ g'.claimed[i] = g.claimed[i] /\ g'.requested_once[i] = g.requested_once[i]
      /\ g'.max_demand[i] = g.max_demand[i]
  BY DEF Bystander, Claims
<1>4. status[i] # "dead" => Owns(i, Answered(i))
  BY DEF InStep
<1>5. CASE M!Entry(g', i) = M!Entry(g, i)
  <2>1. /\ g'.allocation[i] = g.allocation[i] /\ g'.request[i] = g.request[i]
        /\ g'.waiting[i] = g.waiting[i] /\ g'.apid_to_pid[i] = g.apid_to_pid[i]
    BY <1>5 DEF M!Entry
  <2>2. Placed(i)'
    BY <1>1, <1>2, <2>1 DEF Placed
  <2>3. Answered(i)' = Answered(i)
    BY <2>1 DEF Answered
  <2>4. status'[i] # "dead" => status[i] # "dead"
    OBVIOUS
  <2>5. ASSUME Owns(i, Answered(i)) PROVE Owns(i, Answered(i))'
    BY <1>3, <2>1, <2>3, <2>5 DEF Owns
  <2> QED  BY <1>4, <2>2, <2>4, <2>5 DEF InStep
<1>6. CASE g.waiting[i] /\ M!Entry(g', i) = M!Served(M!Entry(g, i))
  <2>1. /\ g'.allocation[i] = M!\oplus(g.allocation[i], g.request[i])
        /\ g'.waiting[i] = FALSE /\ g'.apid_to_pid[i] = g.apid_to_pid[i]
    BY <1>6 DEF M!Entry, M!Served
  <2>2. status'[i] = status[i]
    BY <1>2, <1>6
  <2>3. Placed(i)'
    BY <1>1, <2>1, <2>2 DEF Placed
  <2>4. ASSUME status[i] # "dead" PROVE Owns(i, Answered(i))'
    <3>1. status[i] = "live"
      <4>1. status[i] \in {"unborn", "live", "dead"}
        BY DEF Manager, M!IInv, M!ProcessTypes, Pids, Child
      <4> QED  BY <1>2, <1>6, <2>4, <4>1
    <3>2. /\ blocked[i] = i /\ at[i] <= Len(Plan(i)) /\ Plan(i)[at[i]].call = "request"
          /\ g.request[i] = Units(Line, Plan(i)[at[i]].types)
      BY <1>1, <1>2, <1>6, <3>1
    <3>3. Answered(i)' = at[i] /\ Answered(i) = at[i] - 1
      BY <1>6, <2>1, <3>2 DEF Answered
    <3>4. PICK n : n = at[i] - 1
      OBVIOUS
    <3>5. Len(Plan(i)) \in Nat
      BY PlanShape DEF Shape
    <3>6. n \in 0 .. Len(Plan(i)) - 1 /\ n + 1 = at[i] /\ n \in Nat
      BY <1>1, <3>2, <3>4, <3>5
    <3>7. PICK T : T = Plan(i)[n + 1].types
      OBVIOUS
    <3>8. /\ n # 0 /\ (Line.avoid => n # 1) /\ n # Len(Plan(i)) - 1
          /\ Held(i, n + 1) = Held(i, n) \cup T
          /\ T \cap Held(i, n) = {}
      BY <3>2, <3>6, <3>7, Requests
    <3>9. Owns(i, n)
      BY <1>4, <2>4, <3>3, <3>4
    <3>10. g'.allocation[i] = Units(Line, Held(i, n + 1))
      <4>1. g.allocation[i] = Units(Line, Held(i, n)) /\ g.request[i] = Units(Line, T)
        BY <3>2, <3>6, <3>7, <3>9 DEF Owns
      <4>2. g'.allocation[i] = [j \in 0 .. Line.numr - 1 |->
                                  Units(Line, Held(i, n))[j] + Units(Line, T)[j]]
        BY <2>1, <4>1 DEF M!\oplus
      <4>3. Held(i, n) \cap T = {}
        BY <3>8
      <4>4. [j \in 0 .. Line.numr - 1 |-> Units(Line, Held(i, n))[j] + Units(Line, T)[j]]
              = Units(Line, Held(i, n) \cup T)
        BY <4>3, UnitsMove, Zenon
      <4> QED  BY <3>8, <4>2, <4>4
    <3>11. ASSUME Line.avoid
           PROVE  /\ n + 1 # 1
                  /\ n + 1 \in 2 .. Len(Plan(i)) - 1 =>
                       g.claimed[i] /\ g.max_demand[i] = Units(Line, Range(Wanted(i)))
      <4>1. n + 1 # 1 /\ n \in 2 .. Len(Plan(i)) - 1
        BY <3>5, <3>6, <3>8, <3>11
      <4> QED  BY <3>9, <3>11, <4>1 DEF Owns
    <3>12. Owns(i, n + 1)'
      BY <1>3, <3>10, <3>11 DEF Owns
    <3>13. Answered(i)' = n + 1
      BY <3>3, <3>6
    <3> QED  BY <3>12, <3>13 DEF Owns
  <2> QED  BY <2>2, <2>3, <2>4 DEF InStep
<1> QED  BY <1>5, <1>6 DEF Bystander

\* The child that exits or is killed.
LEMMA Leaves ==
  ASSUME NEW i \in Child, InStep(i), g' = g, at' = at, status'[i] = "dead", blocked'[i] = -1
  PROVE  InStep(i)'
<1>1. blocked'[i] # i
  BY DEF Child
<1> QED  BY <1>1 DEF InStep, Placed, Plan

-----------------------------------------------------------------------------
(* The calls of a child.                                                   *)

\* What is known of a child that makes a call, and of the call.
LEMMA Calling ==
  ASSUME Line \in Programs, Manager, NEW i \in Child, InStep(i),
         at[i] <= Len(Plan(i)), status[i] = "live", blocked[i] = -1,
         NEW n, n = at[i] - 1
  PROVE  /\ n \in 0 .. Len(Plan(i)) - 1 /\ n \in Nat /\ at[i] = n + 1
         /\ Len(Plan(i)) \in Nat
         /\ Placed(i) /\ Owns(i, n) /\ CallEffect(i, n)
<1>1. blocked[i] # i
  BY DEF Child
<1>2. at[i] \in 1 .. Len(Plan(i)) + 1
  BY DEF InStep, Placed
<1>3. Len(Plan(i)) \in Nat
  BY PlanShape DEF Shape
<1>4. n \in 0 .. Len(Plan(i)) - 1 /\ n \in Nat /\ at[i] = n + 1
  BY <1>2, <1>3
<1>5. CallEffect(i, n)
  BY <1>4, HeldSteps
<1>6. Answered(i) = n
  BY <1>1 DEF Answered
<1> QED  BY <1>3, <1>4, <1>5, <1>6 DEF InStep

\* The child has been answered and goes on to its next call.
LEMMA GoesOn ==
  ASSUME Line \in Programs, NEW i \in Child, NEW n \in 0 .. Len(Plan(i)) - 1,
         at[i] = n + 1, at'[i] = n + 2, blocked'[i] = -1,
         g'.apid_to_pid[i] \in {-1, i}, g'.waiting[i] = FALSE,
         Owns(i, n + 1)'
  PROVE  InStep(i)'
<1>1. blocked'[i] # i
  BY DEF Child
<1>2. Len(Plan(i)) \in Nat
  BY PlanShape DEF Shape
<1>3. at'[i] \in 1 .. Len(Plan(i)) + 1 /\ at'[i] - 1 = n + 1
  BY <1>2
<1>4. Placed(i)'
  BY <1>1, <1>3 DEF Placed, Plan
<1>5. Answered(i)' = n + 1
  BY <1>1, <1>3 DEF Answered
<1> QED  BY <1>4, <1>5 DEF InStep, Owns

LEMMA AfterStart ==
  ASSUME Line \in Programs, Manager, NEW i \in Child, InStep(i), at[i] <= Len(Plan(i)),
         Plan(i)[at[i]].call = "start", M!rsm_process_started(i, i), at'[i] = at[i] + 1
  PROVE  InStep(i)'
<1>1. status[i] = "live" /\ blocked[i] = -1 /\ blocked' = blocked
  BY DEF M!rsm_process_started, M!Running, M!NoApid
<1>2. PICK n : n = at[i] - 1
  OBVIOUS
<1>3. /\ n \in 0 .. Len(Plan(i)) - 1 /\ n \in Nat /\ at[i] = n + 1
      /\ Len(Plan(i)) \in Nat
      /\ Placed(i) /\ Owns(i, n) /\ CallEffect(i, n)
  BY <1>1, <1>2, Calling
<1>4. n = 0 /\ Held(i, n + 1) = Held(i, n)
  BY <1>3 DEF CallEffect
<1>5. /\ g'.allocation[i] = g.allocation[i] /\ g'.waiting[i] = FALSE /\ g'.apid_to_pid[i] = i
      /\ g'.claimed[i] = FALSE /\ g'.requested_once[i] = FALSE
  BY StartCall, EntryFields, ClaimsFields DEF Enters
<1>6. Owns(i, n + 1)'
  BY <1>3, <1>4, <1>5 DEF Owns
<1>7. at'[i] = n + 2 /\ blocked'[i] = -1 /\ g'.apid_to_pid[i] \in {-1, i}
  BY <1>1, <1>3, <1>5
<1> QED  BY <1>3, <1>5, <1>6, <1>7, GoesOn

LEMMA AfterClaim ==
  ASSUME Line \in Programs, Manager, NEW i \in Child, InStep(i), at[i] <= Len(Plan(i)),
         NEW c, c = Plan(i)[at[i]], c.call = "claim", M!rsm_claim(i, i, Units(Line, c.types)),
         at'[i] = at[i] + 1
  PROVE  InStep(i)'
<1>1. /\ status[i] = "live" /\ blocked[i] = -1 /\ blocked' = blocked
      /\ g.apid_to_pid[i] = i /\ ~ g.waiting[i] /\ g \in M!State /\ i \in M!Proc
  BY CallerFacts DEF M!rsm_claim
<1>2. PICK n : n = at[i] - 1
  OBVIOUS
<1>3. /\ n \in 0 .. Len(Plan(i)) - 1 /\ n \in Nat /\ at[i] = n + 1
      /\ Len(Plan(i)) \in Nat
      /\ Placed(i) /\ Owns(i, n) /\ CallEffect(i, n)
  BY <1>1, <1>2, Calling
<1>4. n = 1 /\ Line.avoid /\ c.types = Range(Wanted(i)) /\ Held(i, n + 1) = Held(i, n)
  BY <1>3 DEF CallEffect
<1>5. PICK T : T = c.types
  OBVIOUS
<1>6. /\ Enters(g, i, M!Entry(g, i), g')
      /\ Claims(g', i) = [claimed |-> TRUE, once |-> g.requested_once[i], demand |-> Units(Line, T)]
  BY <1>4, <1>5, ClaimCall
<1>7. /\ g'.allocation[i] = g.allocation[i] /\ g'.waiting[i] = g.waiting[i]
      /\ g'.apid_to_pid[i] = g.apid_to_pid[i]
  BY <1>6 DEF Enters, M!Entry
<1>8. g'.claimed[i] = TRUE /\ g'.max_demand[i] = Units(Line, T)
  BY <1>6 DEF Claims
<1>9. g'.waiting[i] = FALSE
  BY <1>1, <1>7 DEF M!State
<1>10. Owns(i, n + 1)'
  BY <1>3, <1>4, <1>5, <1>7, <1>8 DEF Owns
<1>11. at'[i] = n + 2 /\ blocked'[i] = -1 /\ g'.apid_to_pid[i] \in {-1, i}
  BY <1>1, <1>3, <1>7
<1> QED  BY <1>3, <1>9, <1>10, <1>11, GoesOn

LEMMA AfterGrant ==
  ASSUME Line \in Programs, Manager, NEW i \in Child, InStep(i), at[i] <= Len(Plan(i)),
         NEW c, c = Plan(i)[at[i]], c.call = "request",
         M!RequestGranted(i, i, Units(Line, c.types)), at'[i] = at[i] + 1
  PROVE  InStep(i)'
<1>1. /\ status[i] = "live" /\ blocked[i] = -1 /\ blocked' = blocked
      /\ g.apid_to_pid[i] = i
  BY CallerFacts DEF M!RequestGranted
<1>2. PICK n : n = at[i] - 1
  OBVIOUS
<1>3. /\ n \in 0 .. Len(Plan(i)) - 1 /\ n \in Nat /\ at[i] = n + 1
      /\ Len(Plan(i)) \in Nat
      /\ Placed(i) /\ Owns(i, n)
  BY <1>1, <1>2, Calling
<1>4. PICK T : T = c.types
  OBVIOUS
<1>5. /\ n # 0 /\ (Line.avoid => n # 1) /\ n # Len(Plan(i)) - 1
      /\ Held(i, n + 1) = Held(i, n) \cup T
      /\ T \cap Held(i, n) = {}
  <2>1. Plan(i)[n + 1] = c
    BY <1>3
  <2>2. Plan(i)[n + 1].call = "request" /\ Plan(i)[n + 1].types = T
    BY <1>4, <2>1
  <2> QED  BY <1>3, <2>2, Requests
<1>6. /\ Enters(g, i, [ allocation |-> [j \in 0 .. Line.numr - 1 |->
                                          g.allocation[i][j] + Units(Line, T)[j]],
                        request |-> M!Zero, waiting |-> FALSE,
                        sem |-> g.process_sem[i], pid |-> g.apid_to_pid[i] ], g')
      /\ Claims(g', i) = [claimed |-> g.claimed[i], once |-> TRUE, demand |-> g.max_demand[i]]
  BY <1>4, GrantCall
<1>7. /\ g'.allocation[i] = [j \in 0 .. Line.numr - 1 |-> g.allocation[i][j] + Units(Line, T)[j]]
      /\ g'.waiting[i] = FALSE /\ g'.apid_to_pid[i] = g.apid_to_pid[i]
  BY <1>6 DEF Enters, M!Entry
<1>8. g'.claimed[i] = g.claimed[i] /\ g'.max_demand[i] = g.max_demand[i]
  BY <1>6 DEF Claims
<1>9. g'.allocation[i] = Units(Line, Held(i, n + 1))
  <2>1. g.allocation[i] = Units(Line, Held(i, n)) /\ Held(i, n) \cap T = {}
    BY <1>3, <1>5 DEF Owns
  <2>2. [j \in 0 .. Line.numr - 1 |-> Units(Line, Held(i, n))[j] + Units(Line, T)[j]]
          = Units(Line, Held(i, n) \cup T)
    BY <2>1, UnitsMove, Zenon
  <2> QED  BY <1>5, <1>7, <2>1, <2>2
<1>10. Line.avoid =>
         /\ n + 1 # 1
         /\ n + 1 \in 2 .. Len(Plan(i)) - 1 =>
              g.claimed[i] /\ g.max_demand[i] = Units(Line, Range(Wanted(i)))
  <2>1. Line.avoid => n + 1 # 1 /\ n \in 2 .. Len(Plan(i)) - 1
    BY <1>3, <1>5
  <2> QED  BY <1>3, <2>1 DEF Owns
<1>11. Owns(i, n + 1)'
  BY <1>8, <1>9, <1>10 DEF Owns
<1>12. at'[i] = n + 2 /\ blocked'[i] = -1 /\ g'.apid_to_pid[i] \in {-1, i}
  BY <1>1, <1>3, <1>7
<1> QED  BY <1>3, <1>7, <1>11, <1>12, GoesOn

LEMMA AfterWait ==
  ASSUME Line \in Programs, Manager, NEW i \in Child, InStep(i), at[i] <= Len(Plan(i)),
         NEW c, c = Plan(i)[at[i]], c.call = "request",
         M!RequestWaits(i, i, Units(Line, c.types)), at'[i] = at[i]
  PROVE  InStep(i)'
<1>1. /\ status[i] = "live" /\ blocked[i] = -1 /\ blocked' = [blocked EXCEPT ![i] = i]
      /\ g.apid_to_pid[i] = i /\ status' = status
  BY CallerFacts DEF M!RequestWaits
<1>2. PICK n : n = at[i] - 1
  OBVIOUS
<1>3. /\ n \in 0 .. Len(Plan(i)) - 1 /\ n \in Nat /\ at[i] = n + 1
      /\ Len(Plan(i)) \in Nat
      /\ Placed(i) /\ Owns(i, n)
  BY <1>1, <1>2, Calling
<1>4. PICK T : T = c.types
  OBVIOUS
<1>5. n # 0 /\ (Line.avoid => n # 1)
  BY <1>3, <1>4, Requests
<1>6. /\ Enters(g, i, [ allocation |-> g.allocation[i], request |-> Units(Line, T),
                        waiting |-> TRUE, sem |-> g.process_sem[i],
                        pid |-> g.apid_to_pid[i] ], g')
      /\ Claims(g', i) = [claimed |-> g.claimed[i], once |-> TRUE, demand |-> g.max_demand[i]]
  BY <1>4, WaitCall
<1>7. /\ g'.allocation[i] = g.allocation[i] /\ g'.request[i] = Units(Line, T)
      /\ g'.waiting[i] = TRUE /\ g'.apid_to_pid[i] = g.apid_to_pid[i]
  BY <1>6 DEF Enters, M!Entry
<1>8. g'.claimed[i] = g.claimed[i] /\ g'.max_demand[i] = g.max_demand[i]
  BY <1>6 DEF Claims
<1>9. Placed(i)'
  BY <1>1, <1>3, <1>4, <1>7 DEF Placed, Plan
<1>10. Answered(i)' = n
  BY <1>3, <1>7, <1>2 DEF Answered
<1>11. Line.avoid =>
         /\ n # 1
         /\ n \in 2 .. Len(Plan(i)) - 1 =>
              g.claimed[i] /\ g.max_demand[i] = Units(Line, Range(Wanted(i)))
  BY <1>3, <1>5 DEF Owns
<1>12. Owns(i, n)'
  BY <1>3, <1>7, <1>8, <1>11 DEF Owns
<1> QED  BY <1>9, <1>10, <1>12 DEF InStep, Owns

LEMMA AfterRelease ==
  ASSUME Line \in Programs, Manager, NEW i \in Child, InStep(i), at[i] <= Len(Plan(i)),
         NEW c, c = Plan(i)[at[i]], c.call = "release",
         M!rsm_release(i, i, Units(Line, c.types)), at'[i] = at[i] + 1
  PROVE  InStep(i)'
<1>1. /\ status[i] = "live" /\ blocked[i] = -1 /\ blocked' = blocked
      /\ g.apid_to_pid[i] = i
  BY CallerFacts DEF M!rsm_release
<1>2. PICK n : n = at[i] - 1
  OBVIOUS
<1>3. /\ n \in 0 .. Len(Plan(i)) - 1 /\ n \in Nat /\ at[i] = n + 1
      /\ Len(Plan(i)) \in Nat
      /\ Placed(i) /\ Owns(i, n) /\ CallEffect(i, n)
  BY <1>1, <1>2, Calling
<1>4. PICK T : T = c.types
  OBVIOUS
<1>5. /\ n # 0 /\ (Line.avoid => n # 1) /\ n # Len(Plan(i)) - 1
      /\ T \subseteq Held(i, n) /\ Held(i, n + 1) = Held(i, n) \ T
  <2>1. /\ c.call = "start" <=> n = 0
        /\ c.call = "ended" <=> n = Len(Plan(i)) - 1
        /\ Line.avoid /\ n = 1 => c.call = "claim"
        /\ c.call = "release" => T \subseteq Held(i, n) /\ Held(i, n + 1) = Held(i, n) \ T
    BY <1>3, <1>4 DEF CallEffect
  <2> QED  BY <2>1
<1>6. /\ Enters(g, i, [ allocation |-> [j \in 0 .. Line.numr - 1 |->
                                          g.allocation[i][j] - Units(Line, T)[j]],
                        request |-> g.request[i], waiting |-> FALSE,
                        sem |-> g.process_sem[i], pid |-> g.apid_to_pid[i] ], g')
      /\ Claims(g', i) = Claims(g, i)
  BY <1>4, ReleaseCall
<1>7. /\ g'.allocation[i] = [j \in 0 .. Line.numr - 1 |-> g.allocation[i][j] - Units(Line, T)[j]]
      /\ g'.waiting[i] = FALSE /\ g'.apid_to_pid[i] = g.apid_to_pid[i]
  BY <1>6 DEF Enters, M!Entry
<1>8. g'.claimed[i] = g.claimed[i] /\ g'.max_demand[i] = g.max_demand[i]
  BY <1>6 DEF Claims
<1>9. g'.allocation[i] = Units(Line, Held(i, n + 1))
  <2>1. g.allocation[i] = Units(Line, Held(i, n))
    BY <1>3 DEF Owns
  <2>2. [j \in 0 .. Line.numr - 1 |-> Units(Line, Held(i, n))[j] - Units(Line, T)[j]]
          = Units(Line, Held(i, n) \ T)
    BY <1>5, UnitsMove, Zenon
  <2> QED  BY <1>5, <1>7, <2>1, <2>2
<1>10. Line.avoid =>
         /\ n + 1 # 1
         /\ n + 1 \in 2 .. Len(Plan(i)) - 1 =>
              g.claimed[i] /\ g.max_demand[i] = Units(Line, Range(Wanted(i)))
  <2>1. Line.avoid => n + 1 # 1 /\ n \in 2 .. Len(Plan(i)) - 1
    BY <1>3, <1>5
  <2> QED  BY <1>3, <2>1 DEF Owns
<1>11. Owns(i, n + 1)'
  BY <1>8, <1>9, <1>10 DEF Owns
<1>12. at'[i] = n + 2 /\ blocked'[i] = -1 /\ g'.apid_to_pid[i] \in {-1, i}
  BY <1>1, <1>3, <1>7
<1> QED  BY <1>3, <1>7, <1>11, <1>12, GoesOn

LEMMA AfterEnd ==
  ASSUME Line \in Programs, Manager, NEW i \in Child, InStep(i), at[i] <= Len(Plan(i)),
         Plan(i)[at[i]].call = "ended", M!rsm_process_ended(i, i), at'[i] = at[i] + 1
  PROVE  InStep(i)'
<1>1. status[i] = "live" /\ blocked[i] = -1 /\ blocked' = blocked
  BY DEF M!rsm_process_ended, M!Running, M!NoApid
<1>2. PICK n : n = at[i] - 1
  OBVIOUS
<1>3. /\ n \in 0 .. Len(Plan(i)) - 1 /\ n \in Nat /\ at[i] = n + 1
      /\ Len(Plan(i)) \in Nat
      /\ Placed(i) /\ Owns(i, n) /\ CallEffect(i, n)
  BY <1>1, <1>2, Calling
<1>4. n = Len(Plan(i)) - 1 /\ n # 0 /\ Held(i, n + 1) = {}
  <2>1. Plan(i)[n + 1].call = "ended"
    BY <1>3
  <2>2. /\ Plan(i)[n + 1].call = "ended" <=> n = Len(Plan(i)) - 1
        /\ Plan(i)[n + 1].call = "start" <=> n = 0
        /\ Plan(i)[n + 1].call = "ended" => Held(i, n + 1) = {}
    BY <1>3 DEF CallEffect
  <2> QED  BY <2>1, <2>2
<1>5. g'.allocation[i] = M!Zero /\ g'.waiting[i] = FALSE /\ g'.apid_to_pid[i] = -1
  BY EndCall DEF Enters, M!Entry
<1>6. g'.allocation[i] = Units(Line, Held(i, n + 1))
  BY <1>4, <1>5, UnitsFacts
<1>7. n + 1 # 1 /\ n + 1 \notin 2 .. Len(Plan(i)) - 1
  BY <1>3, <1>4
<1>8. Owns(i, n + 1)'
  BY <1>6, <1>7 DEF Owns
<1>9. at'[i] = n + 2 /\ blocked'[i] = -1 /\ g'.apid_to_pid[i] \in {-1, i}
  BY <1>1, <1>3, <1>5
<1> QED  BY <1>3, <1>5, <1>8, <1>9, GoesOn

LEMMA AfterWake ==
  ASSUME Line \in Programs, Manager, NEW i \in Child, InStep(i),
         M!Wake(i, i), at'[i] = at[i] + 1
  PROVE  InStep(i)'
<1>1. /\ status[i] = "live" /\ blocked[i] = i /\ blocked' = [blocked EXCEPT ![i] = -1]
      /\ blocked \in [Pids -> M!Proc \cup {-1}] /\ status' = status /\ i \in Pids
      /\ g.process_sem[i] > 0
  BY DEF M!Wake, M!NoApid, Manager, M!IInv, M!ProcessTypes, Pids, Child
<1>2. blocked'[i] = -1 /\ -1 # i
  BY <1>1 DEF Child
<1>3. /\ at[i] \in 1 .. Len(Plan(i)) + 1 /\ at[i] <= Len(Plan(i))
      /\ g.apid_to_pid[i] \in {-1, i}
  BY <1>1 DEF InStep, Placed
<1>4. /\ Enters(g, i, [ allocation |-> g.allocation[i], request |-> g.request[i],
                        waiting |-> FALSE, sem |-> g.process_sem[i] - 1,
                        pid |-> g.apid_to_pid[i] ], g')
      /\ Claims(g', i) = Claims(g, i)
  BY WakeCall
<1>5. /\ g'.allocation[i] = g.allocation[i] /\ g'.waiting[i] = FALSE
      /\ g'.apid_to_pid[i] = g.apid_to_pid[i]
  BY <1>4 DEF Enters, M!Entry
<1>6. /\ g'.claimed[i] = g.claimed[i] /\ g'.requested_once[i] = g.requested_once[i]
      /\ g'.max_demand[i] = g.max_demand[i]
  BY <1>4 DEF Claims
<1>7. g.waiting[i] = FALSE
  <2>1. g \in M!State /\ i \in M!Proc /\ M!Awaited(g, status, blocked)
    BY DEF Manager, M!IInv, M!Sound, M!Books, M!Proc, Child
  <2>2. g.process_sem[i] <= IF g.waiting[i] THEN 0 ELSE 1
    BY <2>1 DEF M!Awaited
  <2>3. g.process_sem[i] \in Nat /\ g.waiting[i] \in BOOLEAN
    BY <2>1 DEF M!State
  <2> QED  BY <1>1, <2>2, <2>3
<1>8. PICK m : m = at[i]
  OBVIOUS
<1>9. Owns(i, m) /\ Answered(i)' = m
  <2>1. Answered(i) = m
    BY <1>1, <1>7, <1>8 DEF Answered
  <2>2. Answered(i)' = m
    BY <1>2, <1>3, <1>8 DEF Answered
  <2> QED  BY <1>1, <2>1, <2>2 DEF InStep
<1>10. Owns(i, m)'
  BY <1>5, <1>6, <1>9 DEF Owns
<1>11. Len(Plan(i)) \in Nat
  BY PlanShape DEF Shape
<1>12. Placed(i)'
  BY <1>1, <1>2, <1>3, <1>5, <1>11 DEF Placed, Plan
<1> QED  BY <1>9, <1>10, <1>12 DEF InStep, Owns

\* None of the calls is refused.
LEMMA NotRefused ==
  ASSUME Line \in Programs, Manager, NEW i \in Child, InStep(i), at[i] <= Len(Plan(i)),
         NEW c, c = Plan(i)[at[i]], M!Calls(i, i)
  PROVE  /\ c.call = "claim" => ~ M!ClaimRefused(g, i, Units(Line, c.types))
         /\ c.call = "request" => ~ M!RequestRefused(g, i, Units(Line, c.types))
         /\ c.call = "release" => ~ M!ReleaseRefused(g, i, Units(Line, c.types))
<1>1. /\ status[i] = "live" /\ blocked[i] = -1 /\ M!Sound(g) /\ g \in M!State /\ i \in M!Proc
  BY CallerFacts
<1>2. PICK n : n = at[i] - 1
  OBVIOUS
<1>3. /\ n \in 0 .. Len(Plan(i)) - 1 /\ n \in Nat /\ at[i] = n + 1
      /\ Len(Plan(i)) \in Nat
      /\ Placed(i) /\ Owns(i, n) /\ CallEffect(i, n)
  BY <1>1, <1>2, Calling
<1>4. PICK T : T = c.types
  OBVIOUS
<1> DEFINE v == Units(Line, T)
           a == Units(Line, Held(i, n))
           most == Units(Line, Range(Wanted(i)))
<1>5. \A j \in 0 .. Line.numr - 1 :
        /\ v[j] = IF j \in T THEN 1 ELSE 0
        /\ a[j] = IF j \in Held(i, n) THEN 1 ELSE 0
        /\ most[j] = IF j \in Range(Wanted(i)) THEN 1 ELSE 0
  BY DEF Units
<1>6. g.allocation[i] = a
  BY <1>3 DEF Owns
<1> HIDE DEF v, a, most
<1>7. c.call = "claim" => ~ M!ClaimRefused(g, i, v)
  <2>1. c.call = "claim" /\ Line.avoid => ~ g.claimed[i] /\ ~ g.requested_once[i]
    BY <1>3 DEF CallEffect, Owns
  <2>2. \A j \in 0 .. Line.numr - 1 : v[j] <= 1
    BY <1>5
  <2> QED  BY <2>1, <2>2 DEF M!ClaimRefused, M!\preceq
<1>8. c.call = "request" => ~ M!RequestRefused(g, i, v)
  <2> SUFFICES ASSUME c.call = "request" PROVE ~ M!RequestRefused(g, i, v)
    OBVIOUS
  <2>1. Plan(i)[n + 1] = c
    BY <1>3
  <2>2. Plan(i)[n + 1].call = "request" /\ Plan(i)[n + 1].types = T
    BY <1>4, <2>1
  <2>3. /\ n # 0 /\ (Line.avoid => n # 1) /\ n # Len(Plan(i)) - 1
        /\ T \cap Held(i, n) = {} /\ T \subseteq Range(Wanted(i))
    BY <1>3, <2>2, Requests
  <2>4. \A j \in 0 .. Line.numr - 1 : v[j] <= 1
    BY <1>5
  <2>5. CASE Line.avoid
    <3>1. n \in 2 .. Len(Plan(i)) - 1
      BY <1>3, <2>3, <2>5
    <3>2. g.claimed[i] /\ g.max_demand[i] = most
      BY <1>3, <2>5, <3>1 DEF Owns, most
    <3>3. M!\oplus(g.allocation[i], g.need[i]) = g.max_demand[i]
      BY <1>1, <2>5 DEF M!Sound, M!Ledger
    <3>4. \A j \in 0 .. Line.numr - 1 : a[j] + g.need[i][j] = most[j]
      BY <1>6, <3>2, <3>3 DEF M!\oplus
    <3>5. \A j \in 0 .. Line.numr - 1 : g.need[i][j] \in Nat
      BY <1>1 DEF M!State, M!Matrix
    <3>6. \A j \in 0 .. Line.numr - 1 : v[j] <= g.need[i][j]
      BY <1>5, <2>3, <3>4, <3>5
    <3> QED  BY <2>4, <3>2, <3>6 DEF M!RequestRefused, M!\preceq
  <2>6. CASE ~ Line.avoid
    BY <2>4, <2>6 DEF M!RequestRefused, M!\preceq
  <2> QED  BY <2>5, <2>6
<1>9. c.call = "release" => ~ M!ReleaseRefused(g, i, v)
  <2>1. c.call = "release" => T \subseteq Held(i, n)
    BY <1>3, <1>4 DEF CallEffect
  <2>2. c.call = "release" => \A j \in 0 .. Line.numr - 1 : v[j] <= a[j]
    BY <1>5, <2>1
  <2> QED  BY <1>6, <2>2 DEF M!ReleaseRefused, M!\preceq
<1> QED  BY <1>4, <1>7, <1>8, <1>9 DEF v

LEMMA SameBystander ==
  ASSUME NEW k, g' = g
  PROVE  Bystander(g, g', k)
BY DEF Bystander

\* A child dies, by itself or by the parent's signal.
LEMMA ChildDies ==
  ASSUME Line \in Programs, Manager, at \in [Child -> Nat], \A k \in Child : InStep(k),
         NEW i \in Child, M!Die(i), at' = at
  PROVE  /\ [M!Next]_(M!vars)
         /\ at' \in [Child -> Nat]
         /\ \A k \in Child : InStep(k)'
<1>1. \A k \in Child : k \in Pids
  BY DEF Pids
<1>2. M!Next
  BY <1>1 DEF M!Next
<1>3. /\ status \in [Pids -> {"unborn", "live", "dead"}]
      /\ blocked \in [Pids -> M!Proc \cup {M!NoApid}]
  BY DEF Manager, M!IInv, M!ProcessTypes
<1>4. /\ g' = g /\ status'[i] = "dead" /\ blocked'[i] = -1
      /\ \A k \in Child \ {i} : status'[k] = status[k] /\ blocked'[k] = blocked[k]
  BY <1>1, <1>3 DEF M!Die, M!NoApid
<1>5. InStep(i)'
  BY <1>4, Leaves
<1>6. ASSUME NEW k \in Child \ {i} PROVE InStep(k)'
  <2>1. Bystander(g, g', k)
    BY <1>4, SameBystander
  <2> QED  BY <1>4, <2>1, StandsBy
<1> QED  BY <1>2, <1>5, <1>6

\* Every step of a child is a step of the manager, and brings the child on its way.
LEMMA ChildMoves ==
  ASSUME Line \in Programs, Manager, at \in [Child -> Nat], \A k \in Child : InStep(k),
         NEW i \in Child, ChildStep(Line, i)
  PROVE  /\ [M!Next]_(M!vars)
         /\ at' \in [Child -> Nat]
         /\ \A k \in Child : InStep(k)'
<1> DEFINE c == Plan(i)[at[i]]
           v == Units(Line, c.types)
<1>1. i \in Pids /\ i \in M!Proc /\ v \in M!Vector /\ g \in M!State
  BY UnitsFacts DEF Pids, Child, M!Proc, Manager, M!IInv, M!Sound
<1>2. CASE ChildCalls(Line, i)
  <2>1. /\ at[i] <= Len(Plan(i))
        /\ Handled(Line, i, c) \/ Refused(Line, i, c)
        /\ at' = [at EXCEPT ![i] = IF blocked'[i] = i THEN at[i] ELSE at[i] + 1]
    BY <1>2 DEF ChildCalls, Plan
  <2>2. /\ at' \in [Child -> Nat]
        /\ \A k \in Child \ {i} : at'[k] = at[k]
        /\ at'[i] = IF blocked'[i] = i THEN at[i] ELSE at[i] + 1
    BY <2>1
  <2>3. ~ Refused(Line, i, c)
    <3>1. SUFFICES ASSUME Refused(Line, i, c) PROVE FALSE
      OBVIOUS
    <3>2. /\ \/ c.call = "claim" /\ M!ClaimRefused(g, i, v)
             \/ c.call = "request" /\ M!RequestRefused(g, i, v)
             \/ c.call = "release" /\ M!ReleaseRefused(g, i, v)
          /\ M!RefusedCall(i, i, v)
      BY <3>1, SameRefusals, SameCalls DEF Refused
    <3>3. M!Calls(i, i)
      BY <3>2 DEF M!RefusedCall
    <3> QED  BY <2>1, <3>2, <3>3, NotRefused
  <2>4. \/ c.call = "start" /\ M!rsm_process_started(i, i)
        \/ c.call = "claim" /\ M!rsm_claim(i, i, v)
        \/ c.call = "request" /\ M!RequestGranted(i, i, v)
        \/ c.call = "request" /\ M!RequestWaits(i, i, v)
        \/ c.call = "release" /\ M!rsm_release(i, i, v)
        \/ c.call = "ended" /\ M!rsm_process_ended(i, i)
    BY <2>1, <2>3, SameCalls DEF Handled
  <2>5. M!Next
    BY <1>1, <2>4 DEF M!Next
  <2>6. status' = status /\ (\A k \in Child \ {i} : blocked'[k] = blocked[k])
    <3>1. \A k \in Child : k \in Pids
      BY DEF Pids
    <3>2. blocked \in [Pids -> M!Proc \cup {M!NoApid}]
      BY DEF Manager, M!IInv, M!ProcessTypes
    <3> QED  BY <2>4, <3>1, <3>2 DEF M!rsm_process_started, M!rsm_claim, M!RequestGranted,
               M!RequestWaits, M!rsm_release, M!rsm_process_ended
  <2>7. (\A k \in Child \ {i} : Bystander(g, g', k)) /\ InStep(i)'
    <3>0. PICK d : d = c
      OBVIOUS
    <3>1. /\ d = Plan(i)[at[i]]
          /\ \/ d.call = "start" /\ M!rsm_process_started(i, i)
             \/ d.call = "claim" /\ M!rsm_claim(i, i, Units(Line, d.types))
             \/ d.call = "request" /\ M!RequestGranted(i, i, Units(Line, d.types))
             \/ d.call = "request" /\ M!RequestWaits(i, i, Units(Line, d.types))
             \/ d.call = "release" /\ M!rsm_release(i, i, Units(Line, d.types))
             \/ d.call = "ended" /\ M!rsm_process_ended(i, i)
      BY <2>4, <3>0
    <3> HIDE DEF c, v
    <3>2. blocked[i] = -1 /\ i # -1
      BY <3>1 DEF M!rsm_process_started, M!rsm_claim, M!RequestGranted, M!RequestWaits,
           M!rsm_release, M!rsm_process_ended, M!Calls, M!Running, M!NoApid, Child
    <3>3. blocked' = blocked => at'[i] = at[i] + 1
      BY <2>2, <3>2
    <3>4. CASE d.call = "start" /\ M!rsm_process_started(i, i)
      <4>1. blocked' = blocked
        BY <3>4 DEF M!rsm_process_started
      <4> QED  BY <2>1, <3>1, <3>3, <3>4, <4>1, StartCall, AfterStart DEF Enters
    <3>5. CASE d.call = "claim" /\ M!rsm_claim(i, i, Units(Line, d.types))
      <4>1. blocked' = blocked /\ status[i] = "live"
        BY <3>5 DEF M!rsm_claim, M!Calls, M!Running
      <4>2. PICK n : n = at[i] - 1
        OBVIOUS
      <4>3. CallEffect(i, n) /\ at[i] = n + 1
        BY <2>1, <3>2, <4>1, <4>2, Calling
      <4>4. Line.avoid
        BY <3>1, <3>5, <4>3 DEF CallEffect
      <4>5. \A k \in Child \ {i} : Bystander(g, g', k)
        BY <3>5, <4>4, ClaimCall DEF Enters
      <4>6. InStep(i)'
        BY <2>1, <3>1, <3>3, <3>5, <4>1, AfterClaim
      <4> QED  BY <4>5, <4>6
    <3>6. CASE d.call = "request" /\ M!RequestGranted(i, i, Units(Line, d.types))
      <4>1. blocked' = blocked
        BY <3>6 DEF M!RequestGranted
      <4>2. \A k \in Child \ {i} : Bystander(g, g', k)
        BY <3>6, GrantCall DEF Enters
      <4>3. InStep(i)'
        BY <2>1, <3>1, <3>3, <3>6, <4>1, AfterGrant
      <4> QED  BY <4>2, <4>3
    <3>7. CASE d.call = "request" /\ M!RequestWaits(i, i, Units(Line, d.types))
      <4>1. blocked' = [blocked EXCEPT ![i] = i]
        BY <3>7 DEF M!RequestWaits
      <4>2. blocked'[i] = i
        BY <1>1, <4>1 DEF Manager, M!IInv, M!ProcessTypes
      <4>3. at'[i] = at[i]
        BY <2>2, <4>2
      <4>4. \A k \in Child \ {i} : Bystander(g, g', k)
        BY <3>7, WaitCall DEF Enters
      <4>5. InStep(i)'
        BY <2>1, <3>1, <3>7, <4>3, AfterWait
      <4> QED  BY <4>4, <4>5
    <3>8. CASE d.call = "release" /\ M!rsm_release(i, i, Units(Line, d.types))
      <4>1. blocked' = blocked
        BY <3>8 DEF M!rsm_release
      <4>2. \A k \in Child \ {i} : Bystander(g, g', k)
        BY <3>8, ReleaseCall DEF Enters
      <4>3. InStep(i)'
        BY <2>1, <3>1, <3>3, <3>8, <4>1, AfterRelease
      <4> QED  BY <4>2, <4>3
    <3>9. CASE d.call = "ended" /\ M!rsm_process_ended(i, i)
      <4>1. blocked' = blocked
        BY <3>9 DEF M!rsm_process_ended
      <4> QED  BY <2>1, <3>1, <3>3, <3>9, <4>1, EndCall, AfterEnd DEF Enters
    <3> QED  BY <3>1, <3>4, <3>5, <3>6, <3>7, <3>8, <3>9
  <2>8. \A k \in Child \ {i} : InStep(k)'
    BY <2>2, <2>6, <2>7, StandsBy
  <2> QED  BY <2>2, <2>5, <2>7, <2>8
<1>3. CASE ChildWakes(Line, i)
  <2>1. M!Wake(i, i) /\ at' = [at EXCEPT ![i] = at[i] + 1]
    BY <1>3, SameCalls DEF ChildWakes
  <2>2. at' \in [Child -> Nat] /\ at'[i] = at[i] + 1 /\ \A k \in Child \ {i} : at'[k] = at[k]
    BY <2>1
  <2>3. M!Next
    BY <1>1, <2>1 DEF M!Next
  <2>4. status' = status /\ \A k \in Child \ {i} : blocked'[k] = blocked[k]
    <3>1. \A k \in Child : k \in Pids
      BY DEF Pids
    <3>2. blocked \in [Pids -> M!Proc \cup {M!NoApid}]
      BY DEF Manager, M!IInv, M!ProcessTypes
    <3> QED  BY <2>1, <3>1, <3>2 DEF M!Wake
  <2>5. \A k \in Child \ {i} : Bystander(g, g', k)
    BY <2>1, WakeCall DEF Enters
  <2>6. \A k \in Child \ {i} : InStep(k)'
    BY <2>2, <2>4, <2>5, StandsBy
  <2>7. InStep(i)'
    BY <2>1, <2>2, AfterWake
  <2> QED  BY <2>2, <2>3, <2>6, <2>7
<1>4. CASE ChildExits(Line, i)
  <2>1. M!Die(i) /\ at' = at
    BY <1>4, SameCalls DEF ChildExits
  <2> QED  BY <1>1, <2>1, ChildDies
<1> QED  BY <1>2, <1>3, <1>4 DEF ChildStep

-----------------------------------------------------------------------------
(* The parent.                                                             *)

Mains ==
  [ pc : {"init", "refused", "fork", "look", "check", "kill", "reap", "destroy", "done"},
    i : Child, look : 0 .. Looks - 1, reported : BOOLEAN, all_done : BOOLEAN ]

Reaped == reaped \subseteq {i \in Child : status[i] = "dead"}

\* The parent is about to kill only for a deadlock that is still there, and where it
\* may kill it has not waited for anyone before.
Watches(m, s, done) ==
  /\ m.pc = "kill" => ~ Line.avoid /\ M!Deadlocked(s) # {}
  /\ m.pc = "check" => ~ Line.demo \/ Line.avoid
  /\ Line.demo /\ ~ Line.avoid /\ m.pc \notin {"reap", "destroy", "done"} => done = {}

Orderly ==
  /\ run = Line
  /\ Manager
  /\ at \in [Child -> Nat]
  /\ \A i \in Child : InStep(i)
  /\ main \in Mains /\ shm \in BOOLEAN /\ Reaped
  /\ Watches(main, g, reaped)

LEMMA StartOrderly ==
  ASSUME Line \in Programs, Init, run = Line
  PROVE  Orderly
<1>1. M!Init
  BY SameState DEF Init
<1>2. Manager
  BY <1>1, ManagerAssumption, M!InitIInv, M!InitBooks DEF Manager
<1>3. ASSUME NEW i \in Child PROVE InStep(i)
  <2>1. i \in M!Proc /\ i \in Pids /\ i # -1
    BY DEF M!Proc, Child, Pids
  <2>2. /\ g.allocation[i] = M!Zero /\ g.waiting[i] = FALSE /\ g.apid_to_pid[i] = -1
        /\ blocked[i] = -1 /\ at[i] = 1
    BY <1>1, <2>1 DEF M!Init, M!Fresh, M!NoApid, Init
  <2>3. Len(Plan(i)) \in Nat
    BY PlanShape DEF Shape
  <2>4. Held(i, 0) = {}
    BY DEF Held, Types
  <2>5. Answered(i) = 0
    BY <2>1, <2>2 DEF Answered
  <2>6. Owns(i, 0)
    BY <2>2, <2>4, UnitsFacts DEF Owns
  <2>7. Placed(i)
    BY <2>1, <2>2, <2>3 DEF Placed
  <2> QED  BY <2>5, <2>6, <2>7 DEF InStep
<1>4. main \in Mains /\ shm \in BOOLEAN /\ Reaped /\ at \in [Child -> Nat]
  BY RsmAppAssumption DEF Init, Mains, Reaped, Child, NUMP
<1>5. Watches(main, g, reaped)
  BY DEF Init, Watches
<1> QED  BY <1>2, <1>3, <1>4, <1>5 DEF Orderly

LEMMA DeadStay ==
  ASSUME Manager, [M!Next]_(M!vars), NEW i \in Child, status[i] = "dead"
  PROVE  status'[i] = "dead"
<1>1. i \in Pids /\ status \in [Pids -> {"unborn", "live", "dead"}]
  BY DEF Manager, M!IInv, M!ProcessTypes, Pids
<1>2. CASE UNCHANGED M!vars
  BY <1>2 DEF M!vars
<1>3. CASE M!Next
  <2>1. PICK p \in Pids :
          \/ \E child \in Pids : M!Fork(p, child)
          \/ M!Die(p)
          \/ UNCHANGED status
    BY <1>3 DEF M!Next, M!rsm_process_started, M!rsm_claim, M!RequestGranted, M!RequestWaits,
         M!rsm_release, M!rsm_process_ended, M!RefusedCall, M!Wake
  <2>2. CASE \E child \in Pids : M!Fork(p, child)
    BY <1>1, <2>2 DEF M!Fork
  <2>3. CASE M!Die(p)
    BY <1>1, <2>3 DEF M!Die
  <2> QED  BY <2>1, <2>2, <2>3
<1> QED  BY <1>2, <1>3

LEMMA DeadlockStays ==
  ASSUME Line \in Programs, Manager, [M!Next]_(M!vars), M!Deadlocked(g) # {}
  PROVE  M!Deadlocked(g') # {}
<1>1. Manager'
  BY ManagerStep
<1>2. g \in M!State /\ M!IdleHoldNothing(g)
  BY ManagerAssumption, M!BooksIdle DEF Manager, M!IInv, M!Sound
<1>3. g' \in M!State /\ M!IdleHoldNothing(g')
  BY <1>1 DEF Manager, M!IInv, M!Sound, M!Books, M!Recorded, M!IdleHoldNothing
<1>4. M!Deadlocked(g) \in M!Knots(g)
  BY <1>2, ManagerAssumption, M!DetectionFinds
<1>5. M!Deadlocked(g) \in M!Knots(g')
  BY <1>4, ManagerAssumption, M!StepKnot DEF Manager
<1>6. M!Deadlocked(g') = UNION M!Knots(g')
  BY <1>3, ManagerAssumption, M!DetectionFinds
<1> QED  BY <1>5, <1>6

\* While the manager makes a step and the parent none, the parent's knowledge holds.
LEMMA WatchesStay ==
  ASSUME Line \in Programs, Manager, [M!Next]_(M!vars), Reaped, NEW m, NEW d,
         Watches(m, g, d)
  PROVE  Watches(m, g', d) /\ (reaped' = reaped => Reaped')
<1>1. M!Deadlocked(g) # {} => M!Deadlocked(g') # {}
  BY DeadlockStays
<1>2. \A i \in Child : status[i] = "dead" => status'[i] = "dead"
  BY DeadStay
<1> QED  BY <1>1, <1>2 DEF Watches, Reaped

LEMMA ChildOrderly ==
  ASSUME Line \in Programs, Orderly, NEW i \in Child, ChildStep(Line, i)
  PROVE  Orderly'
<1>1. /\ run' = run /\ main' = main /\ reaped' = reaped /\ shm' = shm
  BY DEF ChildStep, ChildCalls, ChildWakes, ChildExits
<1>2. /\ [M!Next]_(M!vars) /\ at' \in [Child -> Nat] /\ \A k \in Child : InStep(k)'
  BY ChildMoves DEF Orderly
<1>3. Manager'
  BY <1>2, ManagerStep DEF Orderly
<1>4. Watches(main, g', reaped) /\ Reaped'
  BY <1>1, <1>2, WatchesStay DEF Orderly
<1> QED  BY <1>1, <1>2, <1>3, <1>4 DEF Orderly

\* The steps of the parent that do not call the manager.
LEMMA ParentAlone ==
  ASSUME Line \in Programs, Orderly, UNCHANGED <<run, manager, at>>,
         main' \in Mains, shm' \in BOOLEAN, Reaped', Watches(main', g, reaped')
  PROVE  Orderly'
<1>1. /\ g' = g /\ status' = status /\ local' = local /\ blocked' = blocked
      /\ at' = at /\ run' = run
  BY DEF manager
<1>2. [M!Next]_(M!vars)
  BY <1>1 DEF M!vars
<1>3. Manager'
  BY <1>2, ManagerStep DEF Orderly
<1>4. \A k \in Child : InStep(k)'
  BY <1>1, SameBystander, StandsBy DEF Orderly
<1> QED  BY <1>1, <1>3, <1>4 DEF Orderly

LEMMA NextChild ==
  ASSUME NEW i \in Child
  PROVE  0 \in Child /\ (i + 1 < NUMP => i + 1 \in Child)
BY DEF Child, NUMP

LEMMA NextLookMain ==
  ASSUME Line \in Programs, NEW m \in Mains
  PROVE  /\ NextLook(Line, m) \in Mains
         /\ NextLook(Line, m).pc \in {"look", "reap"}
<1>1. CASE ~ Line.demo
  BY <1>1 DEF NextLook, Mains
<1>2. CASE Line.demo /\ m.look + 1 < Looks
  <2>1. m.look + 1 \in 0 .. Looks - 1
    BY <1>2, RsmAppAssumption DEF Mains
  <2> QED  BY <1>2, <2>1 DEF NextLook, Mains
<1>3. CASE Line.demo /\ ~ (m.look + 1 < Looks)
  BY <1>3 DEF NextLook, Mains
<1> QED  BY <1>1, <1>2, <1>3

LEMMA InitOrderly ==
  ASSUME Line \in Programs, Orderly, rsm_init(Line)
  PROVE  Orderly'
<1>1. main' \in Mains /\ main'.pc \in {"refused", "fork"} /\ main.pc = "init" /\ reaped' = reaped
  BY DEF rsm_init, At, Orderly, Mains
<1>2. Watches(main', g, reaped')
  BY <1>1 DEF Orderly, Watches
<1> QED  BY <1>1, <1>2, ParentAlone DEF rsm_init, Orderly, Reaped, manager

LEMMA ForkOrderly ==
  ASSUME Line \in Programs, Orderly, ForkChild(Line)
  PROVE  Orderly'
<1>1. /\ M!Fork(Parent, main.i) /\ at' = at /\ reaped' = reaped /\ run' = run /\ shm' = shm
      /\ main.pc = "fork" /\ main \in Mains /\ main.i \in Child
  BY SameCalls DEF ForkChild, At, Orderly, Mains
<1>2. /\ Parent \in Pids /\ \A k \in Child : k \in Pids
      /\ status \in [Pids -> {"unborn", "live", "dead"}]
  BY DEF Pids, Orderly, Manager, M!IInv, M!ProcessTypes
<1>3. M!Next
  BY <1>1, <1>2 DEF M!Next
<1>4. Manager'
  BY <1>3, ManagerStep DEF Orderly
<1>5. ASSUME NEW k \in Child PROVE InStep(k)'
  <2>1. /\ g' = g /\ blocked' = blocked
        /\ \/ status'[k] = status[k]
           \/ status[k] = "unborn" /\ status'[k] = "live"
    BY <1>1, <1>2 DEF M!Fork
  <2> QED  BY <1>1, <2>1, SameBystander, StandsBy DEF Orderly
<1>6. main' \in Mains /\ main'.pc \in {"fork", "look"}
  BY <1>1, NextChild DEF ForkChild, Mains
<1>7. Watches(main', g, reaped)
  BY <1>1, <1>6 DEF Orderly, Watches
<1>8. Watches(main', g', reaped) /\ Reaped'
  BY <1>1, <1>3, <1>7, WatchesStay DEF Orderly
<1> QED  BY <1>1, <1>4, <1>5, <1>6, <1>8 DEF Orderly

LEMMA LookOrderly ==
  ASSUME Line \in Programs, Orderly, Look(Line)
  PROVE  Orderly'
<1> DEFINE found == M!Deadlocked(g) # {}
           told == [main EXCEPT !.reported = TRUE]
<1>1. /\ main \in Mains /\ main.pc = "look" /\ reaped' = reaped /\ told \in Mains
      /\ shm' \in BOOLEAN /\ Reaped' /\ UNCHANGED <<run, manager, at>>
  BY DEF Look, At, Orderly, Mains, Reaped, manager
<1>2. main' = IF found /\ ~ main.reported THEN
                IF ~ Line.avoid THEN [told EXCEPT !.pc = "kill"]
                ELSE IF Line.demo THEN NextLook(Line, told)
                ELSE Check(told)
              ELSE IF ~ Line.demo \/ (Line.avoid /\ ~ found) THEN Check(main)
              ELSE NextLook(Line, main)
  BY SameLoops DEF Look
<1> HIDE DEF found, told
<1>3. \A m \in Mains : Check(m) \in Mains /\ Check(m).pc = "check"
  BY DEF Check, Mains
<1>4. [told EXCEPT !.pc = "kill"] \in Mains /\ [told EXCEPT !.pc = "kill"].pc = "kill"
  BY <1>1 DEF Mains
<1>5. /\ NextLook(Line, told) \in Mains /\ NextLook(Line, told).pc \in {"look", "reap"}
      /\ NextLook(Line, main) \in Mains /\ NextLook(Line, main).pc \in {"look", "reap"}
  BY <1>1, NextLookMain
<1>6. /\ main' \in Mains
      /\ \/ main'.pc = "kill" /\ found /\ ~ Line.avoid
         \/ main'.pc = "check" /\ (~ Line.demo \/ Line.avoid)
         \/ main'.pc \in {"look", "reap"}
  <2>1. CASE found /\ ~ main.reported /\ ~ Line.avoid
    BY <1>2, <1>4, <2>1
  <2>2. CASE found /\ ~ main.reported /\ Line.avoid /\ Line.demo
    BY <1>2, <1>5, <2>2
  <2>3. CASE found /\ ~ main.reported /\ Line.avoid /\ ~ Line.demo
    BY <1>1, <1>2, <1>3, <2>3
  <2>4. CASE ~ (found /\ ~ main.reported) /\ (~ Line.demo \/ (Line.avoid /\ ~ found))
    BY <1>1, <1>2, <1>3, <2>4
  <2>5. CASE ~ (found /\ ~ main.reported) /\ ~ (~ Line.demo \/ (Line.avoid /\ ~ found))
    BY <1>2, <1>5, <2>5
  <2> QED  BY <2>1, <2>2, <2>3, <2>4, <2>5
<1>7. Watches(main', g, reaped')
  BY <1>1, <1>6 DEF Orderly, Watches, found
<1> QED  BY <1>1, <1>6, <1>7, ParentAlone

LEMMA CheckOrderly ==
  ASSUME Line \in Programs, Orderly, CheckChild(Line)
  PROVE  Orderly'
<1> DEFINE alive == status[main.i] # "dead"
           m == [main EXCEPT !.all_done = main.all_done /\ ~ alive]
<1>1. /\ main \in Mains /\ main.pc = "check" /\ main.i \in Child
      /\ shm' \in BOOLEAN /\ UNCHANGED <<run, manager, at>>
      /\ reaped' = IF alive THEN reaped ELSE reaped \cup {main.i}
      /\ main' = IF main.i + 1 < NUMP THEN [m EXCEPT !.i = m.i + 1]
                 ELSE IF m.all_done THEN [m EXCEPT !.i = 0, !.pc = "reap"]
                 ELSE NextLook(Line, [m EXCEPT !.i = 0])
  BY DEF CheckChild, At, Orderly, Mains, manager
<1>2. m \in Mains /\ m.i = main.i /\ m.pc = "check"
  BY <1>1 DEF Mains
<1>3. Reaped'
  BY <1>1 DEF Orderly, Reaped, manager
<1> HIDE DEF m
<1>4. [m EXCEPT !.i = 0] \in Mains /\ [m EXCEPT !.i = 0, !.pc = "reap"] \in Mains
  BY <1>2, NextChild DEF Mains
<1>5. main' \in Mains /\ main'.pc \in {"check", "look", "reap"}
  <2>1. CASE main.i + 1 < NUMP
    BY <1>1, <1>2, <2>1, NextChild DEF Mains
  <2>2. CASE ~ (main.i + 1 < NUMP) /\ m.all_done
    BY <1>1, <1>2, <1>4, <2>2 DEF Mains
  <2>3. CASE ~ (main.i + 1 < NUMP) /\ ~ m.all_done
    BY <1>1, <1>4, <2>3, NextLookMain
  <2> QED  BY <2>1, <2>2, <2>3
<1>6. ~ Line.demo \/ Line.avoid
  BY <1>1 DEF Orderly, Watches
<1>7. Watches(main', g, reaped')
  BY <1>5, <1>6 DEF Watches
<1> QED  BY <1>1, <1>3, <1>5, <1>7, ParentAlone

LEMMA KillOrderly ==
  ASSUME Line \in Programs, Orderly, KillChild(Line)
  PROVE  Orderly'
<1>1. /\ main \in Mains /\ main.pc = "kill" /\ main.i \in Child
      /\ \/ M!Die(main.i)
         \/ UNCHANGED manager
      /\ at' = at /\ reaped' = reaped /\ run' = run /\ shm' = shm
      /\ main' = IF main.i + 1 < NUMP THEN [main EXCEPT !.i = main.i + 1]
                                      ELSE [main EXCEPT !.i = 0, !.pc = "reap"]
  BY SameCalls DEF KillChild, At, Orderly, Mains
<1>2. main' \in Mains /\ main'.pc \in {"kill", "reap"}
  BY <1>1, NextChild DEF Mains
<1>3. Watches(main', g, reaped)
  BY <1>1, <1>2 DEF Orderly, Watches
<1>4. CASE M!Die(main.i)
  <2>1. [M!Next]_(M!vars) /\ at' \in [Child -> Nat] /\ \A k \in Child : InStep(k)'
    BY <1>1, <1>4, ChildDies DEF Orderly
  <2>2. Manager'
    BY <2>1, ManagerStep DEF Orderly
  <2>3. Watches(main', g', reaped) /\ Reaped'
    BY <1>1, <1>3, <2>1, WatchesStay DEF Orderly
  <2> QED  BY <1>1, <1>2, <2>1, <2>2, <2>3 DEF Orderly
<1>5. CASE UNCHANGED manager
  BY <1>1, <1>2, <1>3, <1>5, ParentAlone DEF Orderly, Reaped, manager
<1> QED  BY <1>1, <1>4, <1>5

LEMMA ReapOrderly ==
  ASSUME Line \in Programs, Orderly, ReapChild(Line)
  PROVE  Orderly'
<1>1. /\ main \in Mains /\ main.pc = "reap" /\ main.i \in Child /\ status[main.i] = "dead"
      /\ shm' \in BOOLEAN /\ UNCHANGED <<run, manager, at>>
      /\ reaped' = reaped \cup {main.i}
      /\ main' = IF main.i + 1 < NUMP THEN [main EXCEPT !.i = main.i + 1]
                                      ELSE [main EXCEPT !.i = 0, !.pc = "destroy"]
  BY DEF ReapChild, At, Orderly, Mains, manager
<1>2. Reaped'
  BY <1>1 DEF Orderly, Reaped, manager
<1>3. main' \in Mains /\ main'.pc \in {"reap", "destroy"}
  BY <1>1, NextChild DEF Mains
<1>4. Watches(main', g, reaped')
  BY <1>3 DEF Watches
<1> QED  BY <1>1, <1>2, <1>3, <1>4, ParentAlone

LEMMA DestroyOrderly ==
  ASSUME Line \in Programs, Orderly, rsm_destroy(Line)
  PROVE  Orderly'
<1>1. main' \in Mains /\ main'.pc = "done" /\ reaped' = reaped
  BY DEF rsm_destroy, Orderly, Mains
<1>2. Watches(main', g, reaped')
  BY <1>1 DEF Watches
<1> QED  BY <1>1, <1>2, ParentAlone DEF rsm_destroy, Orderly, Reaped, manager

LEMMA StepOrderly ==
  ASSUME Line \in Programs, Orderly, [Next]_vars
  PROVE  Orderly'
<1>1. CASE UNCHANGED vars
  BY <1>1, ParentAlone DEF vars, Orderly, Reaped, manager
<1>2. CASE Next
  <2>1. PICK p \in Programs : ParentStep(p) \/ \E i \in Child : ChildStep(p, i)
    BY <1>2 DEF Next
  <2>2. p = Line
    BY <2>1 DEF Orderly, ParentStep, rsm_init, ForkChild, Look, CheckChild, KillChild, ReapChild,
         rsm_destroy, At, ChildStep, ChildCalls, ChildWakes, ChildExits
  <2>3. ParentStep(Line) \/ \E i \in Child : ChildStep(Line, i)
    BY <2>1, <2>2
  <2> QED  BY <2>3, ChildOrderly, InitOrderly, ForkOrderly, LookOrderly, CheckOrderly,
              KillOrderly, ReapOrderly, DestroyOrderly DEF ParentStep
<1> QED  BY <1>1, <1>2

LEMMA StaysOrderly ==
  ASSUME Line \in Programs
  PROVE  Spec /\ run = Line => []Orderly
<1>1. Init /\ run = Line => Orderly
  BY StartOrderly
<1>2. Orderly /\ [Next]_vars => Orderly'
  BY StepOrderly
<1> QED  BY <1>1, <1>2, PTL DEF Spec

-----------------------------------------------------------------------------
(* What follows of it.                                                     *)

\* The children's places, the parent's fields and the manager stay in their types:
\* no quantity of the manager goes below zero under these callers, and the index of
\* no script is passed.
THEOREM AppTypes ==
  ASSUME Line \in Programs
  PROVE  Spec /\ run = Line => []TypeOK
<1>1. ASSUME Orderly PROVE TypeOK
  <2>1. Rsm(Line)!TypeOK
    BY <1>1, SameState DEF Orderly, Manager, M!IInv, M!Sound, M!ProcessTypes, M!TypeOK
  <2>2. \A i \in Child : at[i] \in 1 .. Len(Scripts[Line][i]) + 1
    BY <1>1 DEF Orderly, InStep, Placed, Plan
  <2>3. \A p \in Programs :
          run = p => Rsm(p)!TypeOK /\ \A i \in Child : at[i] \in 1 .. Len(Scripts[p][i]) + 1
    BY <1>1, <2>1, <2>2 DEF Orderly
  <2> QED  BY <1>1, <2>3 DEF TypeOK, Orderly, Mains, Reaped
<1>2. Orderly => TypeOK
  BY <1>1
<1> QED  BY <1>2, StaysOrderly, PTL

\* What a child prints is true although it never looks at what a call returned: in
\* every order of the steps, and for every number of types, a living child holds
\* what the calls it has been answered have acquired and not released.
THEOREM AcquiredHeld ==
  ASSUME Line \in Programs
  PROVE  Spec /\ run = Line => []AcquiredIsHeld
<1>1. ASSUME Orderly PROVE AcquiredIsHeld
  <2>1. ASSUME NEW i \in Child, status[i] = "live"
        PROVE  g.allocation[i] = Units(Line, Types(Line, i, Answered(i), "request")
                                             \ Types(Line, i, Answered(i), "release"))
    BY <1>1, <2>1 DEF Orderly, InStep, Owns, Held
  <2> QED  BY <1>1, <2>1 DEF AcquiredIsHeld, Orderly
<1>2. Orderly => AcquiredIsHeld
  BY <1>1
<1> QED  BY <1>2, StaysOrderly, PTL

\* The parent's signals: although the children went on after it looked, the deadlock
\* it kills for is still there at every signal; with avoidance it sends none; and
\* the demo sends none to a child it has waited for.
THEOREM KilledForDeadlock ==
  ASSUME Line \in Programs
  PROVE  Spec /\ run = Line => []KilledOnlyWhenStuck
<1>1. ASSUME Orderly PROVE KilledOnlyWhenStuck
  <2>1. SUFFICES ASSUME main.pc = "kill"
                 PROVE  /\ ~ Line.avoid
                        /\ \E D \in SUBSET Child : Rsm(Line)!Stuck(g, D, g.request)
                        /\ Line.demo => main.i \notin reaped
    BY <1>1 DEF KilledOnlyWhenStuck, At, Orderly
  <2>2. /\ ~ Line.avoid /\ M!Deadlocked(g) # {}
        /\ Line.demo => reaped = {}
    BY <1>1, <2>1 DEF Orderly, Watches
  <2>3. g \in M!State /\ M!IdleHoldNothing(g)
    BY <1>1, ManagerAssumption, M!BooksIdle DEF Orderly, Manager, M!IInv, M!Sound
  <2>4. M!Deadlocked(g) \in M!Knots(g)
    BY <2>2, <2>3, ManagerAssumption, M!DetectionFinds
  <2>5. M!Deadlocked(g) \in SUBSET Child /\ Rsm(Line)!Stuck(g, M!Deadlocked(g), g.request)
    BY <2>4, SameLoops DEF M!Knots, M!Proc, Child
  <2> QED  BY <2>2, <2>5
<1>2. Orderly => KilledOnlyWhenStuck
  BY <1>1
<1> QED  BY <1>2, StaysOrderly, PTL
=============================================================================
