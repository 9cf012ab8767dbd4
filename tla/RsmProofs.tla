----------------------------- MODULE RsmProofs -----------------------------
(***************************************************************************)
(* The resource manager keeps its types, conserves the instances, keeps    *)
(* the ledger of claims and, under avoidance, never leaves the safe        *)
(* states: for any number of processes, any resource types and any vectors.*)
(* And it serves its waiters: its loops find all that they look for, no    *)
(* waiter is missed, no wakeup lost, a deadlock is reported exactly and    *)
(* stays, and under avoidance somebody can always go on.                   *)
(***************************************************************************)
EXTENDS Rsm, IterationProofs, FiniteSetTheorems

Vectors == [Res -> Nat]

-----------------------------------------------------------------------------
(* Vectors.                                                                *)

LEMMA ZeroVector == Zero \in Vectors
BY DEF Zero, Vectors

LEMMA SumVector ==
  ASSUME NEW a \in Vectors, NEW b \in Vectors
  PROVE  a \oplus b \in Vectors
BY DEF Vectors, \oplus

LEMMA DifferenceVector ==
  ASSUME NEW a \in Vectors, NEW b \in Vectors, b \preceq a
  PROVE  a \ominus b \in Vectors
BY DEF Vectors, \ominus, \preceq

LEMMA InputVector == Vector \subseteq Vectors
BY RsmAssumption DEF Vector, Vectors

-----------------------------------------------------------------------------
(* The next process of a circular scan.                                    *)

LEMMA ProcFacts ==
  /\ N \in Nat /\ N * N \in Nat
  /\ 0 \in Proc
  /\ \A i \in Proc : NextProc(i) \in Proc
BY RsmAssumption DEF Proc, NextProc

-----------------------------------------------------------------------------
(* What the handlers do to each field of the shared structure.             *)

GrantedEffect(s, i, req, t) ==
  /\ t.available = s.available \ominus req
  /\ t.allocation = [s.allocation EXCEPT ![i] = @ \oplus req]
  /\ t.request = [s.request EXCEPT ![i] = Zero]
  /\ t.max_demand = s.max_demand
  /\ t.need = IF Avoid THEN [s.need EXCEPT ![i] = @ \ominus req] ELSE s.need
  /\ t.apid_to_pid = s.apid_to_pid
  /\ t.claimed = s.claimed
  /\ t.requested_once = s.requested_once
  /\ t.waiting = s.waiting
  /\ t.process_sem = s.process_sem

LEMMA GrantedFields ==
  ASSUME NEW s \in State, NEW i \in Proc, NEW req
  PROVE  GrantedEffect(s, i, req, Granted(s, i, req))
BY DEF GrantedEffect, Granted, State, Matrix

LEMMA GrantedType ==
  ASSUME NEW s \in State, NEW i \in Proc, NEW req \in Vectors,
         req \preceq s.available, Avoid => req \preceq s.need[i]
  PROVE  Granted(s, i, req) \in State
<1>1. /\ s.available \in Vectors /\ s.allocation[i] \in Vectors /\ s.need[i] \in Vectors
  BY DEF State, Matrix, Vectors
<1>2. s.available \ominus req \in [Res -> Nat]
  BY <1>1, DifferenceVector DEF Vectors
<1>3. s.allocation[i] \oplus req \in [Res -> Nat]
  BY <1>1, SumVector DEF Vectors
<1>4. Avoid => s.need[i] \ominus req \in [Res -> Nat]
  BY <1>1, DifferenceVector DEF Vectors
<1>5. Zero \in [Res -> Nat]
  BY ZeroVector DEF Vectors
<1> QED  BY <1>2, <1>3, <1>4, <1>5 DEF Granted, State, Matrix

RequestedEffect(s, i, req, t) ==
  /\ t \in State
  /\ t.available = s.available /\ t.allocation = s.allocation
  /\ t.request = [s.request EXCEPT ![i] = req]
  /\ t.max_demand = s.max_demand /\ t.need = s.need
  /\ t.apid_to_pid = s.apid_to_pid /\ t.claimed = s.claimed

LEMMA RequestedFields ==
  ASSUME NEW s \in State, NEW i \in Proc, NEW req \in Vectors
  PROVE  RequestedEffect(s, i, req, Requested(s, i, req))
BY DEF RequestedEffect, Requested, State, Matrix, Vectors

ReleasedEffect(s, i, rel, t) ==
  /\ t.available = s.available \oplus rel
  /\ t.allocation = [s.allocation EXCEPT ![i] = @ \ominus rel]
  /\ t.request = s.request /\ t.max_demand = s.max_demand
  /\ t.need = IF Avoid THEN [s.need EXCEPT ![i] = @ \oplus rel] ELSE s.need
  /\ t.apid_to_pid = s.apid_to_pid /\ t.claimed = s.claimed

LEMMA ReleasedFields ==
  ASSUME NEW s \in State, NEW i \in Proc, NEW rel
  PROVE  ReleasedEffect(s, i, rel, Released(s, i, rel))
BY DEF ReleasedEffect, Released, State, Matrix

LEMMA ReleasedType ==
  ASSUME NEW s \in State, NEW i \in Proc, NEW rel \in Vectors,
         rel \preceq s.allocation[i]
  PROVE  Released(s, i, rel) \in State
<1>1. s.available \in Vectors /\ s.allocation[i] \in Vectors /\ s.need[i] \in Vectors
  BY DEF State, Matrix, Vectors
<1>2. s.available \oplus rel \in [Res -> Nat] /\ s.need[i] \oplus rel \in [Res -> Nat]
  BY <1>1, SumVector DEF Vectors
<1>3. s.allocation[i] \ominus rel \in [Res -> Nat]
  BY <1>1, DifferenceVector DEF Vectors
<1> QED  BY <1>2, <1>3 DEF Released, State, Matrix

EndedEffect(s, i, t) ==
  /\ t \in State
  /\ t.available = s.available \oplus s.allocation[i]
  /\ t.allocation = [s.allocation EXCEPT ![i] = Zero]
  /\ t.request = [s.request EXCEPT ![i] = Zero]
  /\ t.max_demand = [s.max_demand EXCEPT ![i] = Zero]
  /\ t.need = [s.need EXCEPT ![i] = Zero]
  /\ t.apid_to_pid = [s.apid_to_pid EXCEPT ![i] = NoPid]
  /\ t.claimed = [s.claimed EXCEPT ![i] = FALSE]

LEMMA EndedFields ==
  ASSUME NEW s \in State, NEW i \in Proc
  PROVE  EndedEffect(s, i, Ended(s, i))
<1>1. s.available \in Vectors /\ s.allocation[i] \in Vectors
  BY DEF State, Matrix, Vectors
<1>2. s.available \oplus s.allocation[i] \in [Res -> Nat]
  BY <1>1, SumVector DEF Vectors
<1>3. Zero \in [Res -> Nat]
  BY ZeroVector DEF Vectors
<1> DEFINE m == [s EXCEPT !.available     = @ \oplus s.allocation[i],
                          !.allocation[i] = Zero,
                          !.request[i]    = Zero,
                          !.max_demand[i] = Zero,
                          !.need[i]       = Zero]
<1>4. m \in State
  BY <1>2, <1>3 DEF State, Matrix
<1>5. Ended(s, i) = [m EXCEPT !.waiting[i]        = FALSE,
                              !.apid_to_pid[i]    = NoPid,
                              !.claimed[i]        = FALSE,
                              !.requested_once[i] = FALSE]
  BY DEF Ended, State, Matrix
<1>6. Ended(s, i) \in State
  <2>1. ASSUME NEW r \in State
        PROVE  [r EXCEPT !.waiting[i]        = FALSE,
                         !.apid_to_pid[i]    = NoPid,
                         !.claimed[i]        = FALSE,
                         !.requested_once[i] = FALSE] \in State
    BY DEF State, Matrix
  <2> HIDE DEF m
  <2> QED  BY <1>4, <1>5, <2>1, Zenon
<1>7. /\ m.available = s.available \oplus s.allocation[i]
      /\ m.allocation = [s.allocation EXCEPT ![i] = Zero]
      /\ m.request = [s.request EXCEPT ![i] = Zero]
      /\ m.max_demand = [s.max_demand EXCEPT ![i] = Zero]
      /\ m.need = [s.need EXCEPT ![i] = Zero]
      /\ m.apid_to_pid = s.apid_to_pid /\ m.claimed = s.claimed
  BY DEF State
<1> HIDE DEF m
<1>8. LET t == Ended(s, i)
      IN  /\ t.available = m.available /\ t.allocation = m.allocation
          /\ t.request = m.request /\ t.max_demand = m.max_demand /\ t.need = m.need
          /\ t.apid_to_pid = [m.apid_to_pid EXCEPT ![i] = NoPid]
          /\ t.claimed = [m.claimed EXCEPT ![i] = FALSE]
  BY <1>4, <1>5 DEF State
<1> QED  BY <1>6, <1>7, <1>8 DEF EndedEffect

StartedEffect(s, i, p, t) ==
  /\ t \in State
  /\ t.available = s.available /\ t.allocation = s.allocation
  /\ t.request = [s.request EXCEPT ![i] = Zero]
  /\ t.max_demand = s.max_demand /\ t.need = s.need
  /\ t.apid_to_pid = [s.apid_to_pid EXCEPT ![i] = p]
  /\ t.claimed = [s.claimed EXCEPT ![i] = FALSE]

LEMMA StartedFields ==
  ASSUME NEW s \in State, NEW i \in Proc, NEW p \in Pid
  PROVE  StartedEffect(s, i, p, Started(s, i, p))
<1>1. Zero \in [Res -> Nat]
  BY ZeroVector DEF Vectors
<1>2. Started(s, i, p) \in State
  BY <1>1 DEF Started, State, Matrix
<1> QED  BY <1>2 DEF StartedEffect, Started, State, Matrix

ClaimedEffect(s, i, claim, t) ==
  /\ t \in State
  /\ t.available = s.available /\ t.allocation = s.allocation
  /\ t.request = s.request
  /\ t.max_demand = [s.max_demand EXCEPT ![i] = claim]
  /\ t.need = [s.need EXCEPT ![i] = claim]
  /\ t.apid_to_pid = s.apid_to_pid
  /\ t.claimed = [s.claimed EXCEPT ![i] = TRUE]

LEMMA ClaimedFields ==
  ASSUME NEW s \in State, NEW i \in Proc, NEW claim \in Vectors
  PROVE  ClaimedEffect(s, i, claim, Claimed(s, i, claim))
<1>1. Claimed(s, i, claim) \in State
  BY DEF Claimed, State, Matrix, Vectors
<1> QED  BY <1>1 DEF ClaimedEffect, Claimed, State, Matrix

-----------------------------------------------------------------------------
(* How instances that move between the pool and one id change the sums.    *)

LEMMA Columns ==
  ASSUME NEW s \in State
  PROVE  /\ \A j \in Res : s.available[j] \in Nat
         /\ \A i \in Proc : \A j \in Res : s.allocation[i][j] \in Nat
BY DEF State, Matrix

LEMMA FreeVector ==
  ASSUME NEW s \in State, NEW D
  PROVE  Free(s, D) \in Vectors
<1>1. ASSUME NEW j \in Res PROVE Free(s, D)[j] \in Nat
  <2> DEFINE f == [i \in Proc |-> IF i \in D THEN 0 ELSE s.allocation[i][j]]
             z == [i \in Proc |-> 0]
  <2>1. \A k \in 0 .. N - 1 : f[k] \in Nat /\ z[k] = 0
    BY Columns DEF Proc
  <2>2. Total(f, N) \in Int
    <3> HIDE DEF f
    <3>1. N \in Nat /\ N \in 0 .. N /\ \A k \in 0 .. N - 1 : f[k] \in Int
      BY <2>1, ProcFacts
    <3> QED  BY <3>1, TotalSteps
  <2>3. Total(z, N) = 0 /\ Total(z, N) <= Total(f, N)
    <3> HIDE DEF f, z
    <3>1. \A k \in 0 .. N - 1 : f[k] \in Int /\ z[k] \in Int /\ z[k] <= f[k]
      BY <2>1
    <3> QED  BY <3>1, <2>1, ProcFacts, TotalMonotone, TotalOfZeros
  <2>4. Free(s, D)[j] = s.available[j] + Total(f, N)
    BY DEF Free
  <2> HIDE DEF f, z
  <2> QED  BY <2>2, <2>3, <2>4, Columns
<1> QED  BY <1>1 DEF Free, Vectors

LEMMA ConservesMove ==
  ASSUME NEW s \in State, NEW t \in State, NEW i \in Proc, Conserves(s),
         \A k \in Proc : k # i => t.allocation[k] = s.allocation[k],
         \A j \in Res : t.available[j] + t.allocation[i][j]
                          = s.available[j] + s.allocation[i][j]
  PROVE  Conserves(t)
<1> SUFFICES ASSUME NEW j \in Res
             PROVE  t.available[j] + Total([k \in Proc |-> t.allocation[k][j]], N) = Exist[j]
  BY DEF Conserves
<1> DEFINE f == [k \in Proc |-> s.allocation[k][j]]
           e == [k \in Proc |-> t.allocation[k][j]]
<1>1. \A k \in 0 .. N - 1 : f[k] \in Int /\ e[k] \in Int
  BY Columns DEF Proc
<1>2. \A k \in 0 .. N - 1 : k # i => e[k] = f[k]
  BY DEF Proc
<1>3. e[i] = t.allocation[i][j] /\ f[i] = s.allocation[i][j]
  OBVIOUS
<1>4. s.available[j] + Total(f, N) = Exist[j]
  BY DEF Conserves
<1>5. i \in 0 .. N - 1 /\ N \in Nat
  BY ProcFacts DEF Proc
<1> HIDE DEF e, f
<1>6. Total(e, N) = Total(f, N) + (e[i] - f[i])
  BY <1>1, <1>2, <1>5, TotalUpdate
<1>7. Total(f, N) \in Int
  <2>1. N \in 0 .. N
    BY <1>5
  <2> QED  BY <1>1, <1>5, <2>1, TotalSteps
<1>8. t.available[j] + e[i] = s.available[j] + f[i]
  BY <1>3
<1>9. t.available[j] \in Int /\ s.available[j] \in Int /\ e[i] \in Int /\ f[i] \in Int
  BY <1>1, <1>5, Columns
<1>10. t.available[j] + Total(e, N) = Exist[j]
  BY <1>4, <1>6, <1>7, <1>8, <1>9
<1> QED  BY <1>10 DEF e

LEMMA FreeMove ==
  ASSUME NEW s \in State, NEW t \in State, NEW i \in Proc, NEW D,
         \A k \in Proc : k # i => t.allocation[k] = s.allocation[k],
         \A j \in Res : t.available[j] + t.allocation[i][j]
                          = s.available[j] + s.allocation[i][j]
  PROVE  \A j \in Res :
           Free(t, D)[j] = IF i \in D THEN Free(s, D)[j] + (t.available[j] - s.available[j])
                           ELSE Free(s, D)[j]
<1> SUFFICES ASSUME NEW j \in Res
             PROVE  Free(t, D)[j] = IF i \in D THEN Free(s, D)[j] + (t.available[j] - s.available[j])
                                    ELSE Free(s, D)[j]
  OBVIOUS
<1> DEFINE f == [k \in Proc |-> IF k \in D THEN 0 ELSE s.allocation[k][j]]
           e == [k \in Proc |-> IF k \in D THEN 0 ELSE t.allocation[k][j]]
<1>1. \A k \in 0 .. N - 1 : f[k] \in Int /\ e[k] \in Int
  BY Columns DEF Proc
<1>2. \A k \in 0 .. N - 1 : k # i => e[k] = f[k]
  BY DEF Proc
<1>3. /\ e[i] = IF i \in D THEN 0 ELSE t.allocation[i][j]
      /\ f[i] = IF i \in D THEN 0 ELSE s.allocation[i][j]
  OBVIOUS
<1>4. Free(s, D)[j] = s.available[j] + Total(f, N) /\ Free(t, D)[j] = t.available[j] + Total(e, N)
  BY DEF Free
<1>5. i \in 0 .. N - 1 /\ N \in Nat
  BY ProcFacts DEF Proc
<1> HIDE DEF e, f
<1>6. Total(e, N) = Total(f, N) + (e[i] - f[i])
  BY <1>1, <1>2, <1>5, TotalUpdate
<1>7. Total(f, N) \in Int
  <2>1. N \in 0 .. N
    BY <1>5
  <2> QED  BY <1>1, <1>5, <2>1, TotalSteps
<1>8. /\ t.available[j] \in Int /\ s.available[j] \in Int
      /\ t.allocation[i][j] \in Int /\ s.allocation[i][j] \in Int
  BY Columns
<1>9. t.available[j] + t.allocation[i][j] = s.available[j] + s.allocation[i][j]
  OBVIOUS
<1> QED  BY <1>3, <1>4, <1>6, <1>7, <1>8, <1>9

\* Taking i out of D frees what i holds.
LEMMA FreeWithout ==
  ASSUME NEW s \in State, NEW D, NEW i \in Proc, i \in D
  PROVE  \A j \in Res : Free(s, D \ {i})[j] = Free(s, D)[j] + s.allocation[i][j]
<1> SUFFICES ASSUME NEW j \in Res
             PROVE  Free(s, D \ {i})[j] = Free(s, D)[j] + s.allocation[i][j]
  OBVIOUS
<1> DEFINE f == [k \in Proc |-> IF k \in D THEN 0 ELSE s.allocation[k][j]]
           e == [k \in Proc |-> IF k \in D \ {i} THEN 0 ELSE s.allocation[k][j]]
<1>1. \A k \in 0 .. N - 1 : f[k] \in Int /\ e[k] \in Int
  BY Columns DEF Proc
<1>2. \A k \in 0 .. N - 1 : k # i => e[k] = f[k]
  BY DEF Proc
<1>3. e[i] = s.allocation[i][j] /\ f[i] = 0
  OBVIOUS
<1>4. Free(s, D)[j] = s.available[j] + Total(f, N)
  BY DEF Free
<1>5. Free(s, D \ {i})[j] = s.available[j] + Total(e, N)
  BY DEF Free
<1>6. i \in 0 .. N - 1 /\ N \in Nat /\ N \in 0 .. N
  BY ProcFacts DEF Proc
<1> HIDE DEF e, f
<1>7. Total(e, N) = Total(f, N) + (e[i] - f[i])
  BY <1>1, <1>2, <1>6, TotalUpdate
<1>8. Total(f, N) \in Int
  BY <1>1, <1>6, TotalSteps
<1>9. s.available[j] \in Int /\ s.allocation[i][j] \in Int
  BY Columns
<1> QED  BY <1>3, <1>4, <1>5, <1>7, <1>8, <1>9

\* Everything that exists is free once nobody is left out.
LEMMA FreeOfNone ==
  ASSUME NEW s \in State, Conserves(s)
  PROVE  \A j \in Res : Free(s, {})[j] = Exist[j]
<1> SUFFICES ASSUME NEW j \in Res PROVE Free(s, {})[j] = Exist[j]
  OBVIOUS
<1>1. [k \in Proc |-> IF k \in {} THEN 0 ELSE s.allocation[k][j]]
        = [k \in Proc |-> s.allocation[k][j]]
  OBVIOUS
<1>2. Free(s, {})[j]
        = s.available[j] + Total([k \in Proc |-> IF k \in {} THEN 0 ELSE s.allocation[k][j]], N)
  BY DEF Free
<1> QED  BY <1>1, <1>2, Zenon DEF Conserves

-----------------------------------------------------------------------------
(* The loop of is_safe and rsm_detection.  What it adds to work is what    *)
(* the processes it has finished hold.                                     *)

Done(l, finish, held, j) ==
  [k \in Proc |-> IF l.finish[k] /\ ~ finish[k] THEN held[k][j] ELSE 0]

Swept(l, work, finish, held) ==
  /\ l \in Sweep
  /\ \A i \in Proc : finish[i] => l.finish[i]
  /\ \A j \in Res : l.work[j] = work[j] + Total(Done(l, finish, held, j), N)

LEMMA DoneTotal ==
  ASSUME NEW finish \in [Proc -> BOOLEAN], NEW held \in Matrix, NEW l \in Sweep, NEW j \in Res
  PROVE  /\ \A k \in 0 .. N - 1 : Done(l, finish, held, j)[k] \in Nat
         /\ Total(Done(l, finish, held, j), N) \in Int
<1>1. \A k \in 0 .. N - 1 : Done(l, finish, held, j)[k] \in Nat
  BY DEF Done, Matrix, Proc
<1>2. N \in Nat /\ N \in 0 .. N
  BY ProcFacts
<1>3. \A k \in 0 .. N - 1 : Done(l, finish, held, j)[k] \in Int
  BY <1>1
<1> QED  BY <1>1, <1>2, <1>3, TotalSteps

LEMMA StartSwept ==
  ASSUME NEW work \in Vectors, NEW finish \in [Proc -> BOOLEAN], NEW held \in Matrix
  PROVE  Swept([i |-> 0, work |-> work, finish |-> finish], work, finish, held)
<1> DEFINE start == [i |-> 0, work |-> work, finish |-> finish]
<1>1. start \in Sweep /\ start.work = work /\ start.finish = finish
  BY ProcFacts DEF Sweep, Vectors
<1>2. ASSUME NEW j \in Res PROVE start.work[j] = work[j] + Total(Done(start, finish, held, j), N)
  <2>1. \A k \in 0 .. N - 1 : Done(start, finish, held, j)[k] = 0
    BY <1>1 DEF Done, Proc
  <2>2. Total(Done(start, finish, held, j), N) = 0
    BY <2>1, ProcFacts, TotalOfZeros
  <2>3. work[j] \in Nat
    BY DEF Vectors
  <2> QED  BY <1>1, <2>2, <2>3
<1> HIDE DEF start
<1>3. Swept(start, work, finish, held)
  BY <1>1, <1>2 DEF Swept
<1> QED  BY <1>3 DEF start

\* A visit: it finishes the process it looks at when that one's want fits.
Fits(l, want) == ~ l.finish[l.i] /\ want[l.i] \preceq l.work

VisitEffect(l, want, held, v) ==
  /\ v \in Sweep
  /\ v.i = NextProc(l.i)
  /\ Fits(l, want) => /\ v.work = l.work \oplus held[l.i]
                      /\ v.finish = [l.finish EXCEPT ![l.i] = TRUE]
  /\ ~ Fits(l, want) => v.work = l.work /\ v.finish = l.finish

LEMMA VisitFields ==
  ASSUME NEW want, NEW held \in Matrix, NEW l \in Sweep
  PROVE  VisitEffect(l, want, held, Visit(want, held)[l])
<1> DEFINE v == Visit(want, held)[l]
           w == [ i      |-> NextProc(l.i),
                  work   |-> l.work \oplus held[l.i],
                  finish |-> [l.finish EXCEPT ![l.i] = TRUE] ]
           u == [l EXCEPT !.i = NextProc(l.i)]
<1>1. l.i \in Proc /\ l.work \in [Res -> Int] /\ l.finish \in [Proc -> BOOLEAN]
  BY DEF Sweep
<1>2. v = IF Fits(l, want) THEN w ELSE u
  BY Zenon DEF Visit, Fits
<1>3. u \in Sweep /\ u.i = NextProc(l.i) /\ u.work = l.work /\ u.finish = l.finish
  BY <1>1, ProcFacts DEF Sweep
<1>4. w \in Sweep
  <2>1. l.work \oplus held[l.i] \in [Res -> Int]
    BY <1>1 DEF \oplus, Matrix
  <2>2. [l.finish EXCEPT ![l.i] = TRUE] \in [Proc -> BOOLEAN]
    BY <1>1
  <2> QED  BY <1>1, <2>1, <2>2, ProcFacts DEF Sweep
<1>5. /\ w.i = NextProc(l.i) /\ w.work = l.work \oplus held[l.i]
      /\ w.finish = [l.finish EXCEPT ![l.i] = TRUE]
  OBVIOUS
<1> HIDE DEF u, w, v
<1>6. VisitEffect(l, want, held, v)
  BY <1>2, <1>3, <1>4, <1>5 DEF VisitEffect
<1> QED  BY <1>6 DEF v

LEMMA VisitSwept ==
  ASSUME NEW work \in Vectors, NEW finish \in [Proc -> BOOLEAN], NEW want, NEW held \in Matrix,
         NEW l, Swept(l, work, finish, held)
  PROVE  Swept(Visit(want, held)[l], work, finish, held)
<1> DEFINE v == Visit(want, held)[l]
           c == l.i
<1>1. l \in Sweep /\ c \in Proc /\ l.finish \in [Proc -> BOOLEAN]
  BY DEF Swept, Sweep
<1>2. VisitEffect(l, want, held, v)
  BY <1>1, VisitFields
<1> HIDE DEF v
<1>3. CASE ~ Fits(l, want)
  <2>1. v \in Sweep /\ v.work = l.work /\ v.finish = l.finish
    BY <1>2, <1>3 DEF VisitEffect
  <2>2. \A j \in Res : Done(v, finish, held, j) = Done(l, finish, held, j)
    BY <2>1 DEF Done
  <2>3. Swept(v, work, finish, held)
    BY <2>1, <2>2 DEF Swept
  <2> QED  BY <2>3 DEF v
<1>4. CASE Fits(l, want)
  <2>1. /\ v \in Sweep /\ v.work = l.work \oplus held[c]
        /\ v.finish = [l.finish EXCEPT ![c] = TRUE]
    BY <1>2, <1>4 DEF VisitEffect
  <2>2. ~ l.finish[c] /\ ~ finish[c]
    BY <1>1, <1>4 DEF Fits, Swept
  <2>3. ASSUME NEW j \in Res PROVE v.work[j] = work[j] + Total(Done(v, finish, held, j), N)
    <3> DEFINE e == Done(v, finish, held, j)
               f == Done(l, finish, held, j)
    <3>1. \A k \in Proc : k # c => e[k] = f[k]
      BY <1>1, <2>1 DEF Done
    <3>2. e[c] = held[c][j] /\ f[c] = 0
      BY <1>1, <2>1, <2>2 DEF Done
    <3>3. v.work[j] = l.work[j] + held[c][j] /\ l.work[j] = work[j] + Total(f, N)
      BY <2>1 DEF Swept, \oplus
    <3>4. work[j] \in Int /\ held[c][j] \in Int
      BY <1>1 DEF Vectors, Matrix
    <3>5. /\ \A k \in 0 .. N - 1 : e[k] \in Nat /\ f[k] \in Nat
          /\ Total(f, N) \in Int
      BY <1>1, <2>1, DoneTotal
    <3> HIDE DEF e, f, c
    <3>6. c \in 0 .. N - 1 /\ N \in Nat /\ \A k \in 0 .. N - 1 : k # c => e[k] = f[k]
      BY <1>1, <3>1, ProcFacts DEF Proc
    <3>7. \A k \in 0 .. N - 1 : f[k] \in Int /\ e[k] \in Int
      BY <3>5
    <3>8. Total(e, N) = Total(f, N) + (e[c] - f[c])
      BY <3>6, <3>7, TotalUpdate, Zenon
    <3>9. v.work[j] = work[j] + Total(e, N)
      BY <3>2, <3>3, <3>4, <3>5, <3>8
    <3> QED  BY <3>9 DEF e
  <2>4. \A i \in Proc : finish[i] => v.finish[i]
    BY <1>1, <2>1 DEF Swept
  <2>5. Swept(v, work, finish, held)
    BY <2>1, <2>3, <2>4 DEF Swept
  <2> QED  BY <2>5 DEF v
<1> QED  BY <1>3, <1>4

-----------------------------------------------------------------------------
(* The loop never finishes a member of a set whose members wait for each   *)
(* other.                                                                  *)

LEMMA ReduceSound ==
  ASSUME NEW work \in Vectors, NEW finish \in [Proc -> BOOLEAN],
         NEW want \in [Proc -> [Res -> Int]], NEW held \in Matrix,
         NEW D \in SUBSET Proc,
         \A i \in D : ~ finish[i],
         \A i \in D : \E j \in Res :
           ~ (want[i][j] <= work[j] + Total([k \in Proc |-> IF k \in D THEN 0 ELSE held[k][j]], N))
  PROVE  \A i \in D : ~ Reduce(work, finish, want, held)[i]
<1> DEFINE others(j) == [k \in Proc |-> IF k \in D THEN 0 ELSE held[k][j]]
           S == {l \in Sweep : Swept(l, work, finish, held) /\ \A i \in D : ~ l.finish[i]}
           start == [i |-> 0, work |-> work, finish |-> finish]
<1>1. start \in S
  <2>1. Swept(start, work, finish, held)
    BY StartSwept
  <2>2. start.finish = finish
    OBVIOUS
  <2> HIDE DEF start
  <2> QED  BY <2>1, <2>2 DEF Swept
<1>2. ASSUME NEW l \in S PROVE Visit(want, held)[l] \in S
  <2> DEFINE v == Visit(want, held)[l]
             c == l.i
  <2>1. l \in Sweep /\ c \in Proc /\ l.finish \in [Proc -> BOOLEAN] /\ Swept(l, work, finish, held)
    BY DEF Sweep
  <2>2. VisitEffect(l, want, held, v) /\ Swept(v, work, finish, held)
    BY <2>1, VisitFields, VisitSwept
  <2>3. c \notin D \/ ~ Fits(l, want)
    <3>1. SUFFICES ASSUME c \in D, Fits(l, want) PROVE FALSE
      OBVIOUS
    <3>2. PICK j \in Res : ~ (want[c][j] <= work[j] + Total(others(j), N))
      BY <3>1
    <3>3. want[c][j] <= l.work[j] /\ l.work[j] = work[j] + Total(Done(l, finish, held, j), N)
      BY <2>1, <3>1 DEF Fits, Swept, \preceq
    <3>4. \A k \in 0 .. N - 1 : others(j)[k] \in Int /\ Done(l, finish, held, j)[k] <= others(j)[k]
      <4> SUFFICES ASSUME NEW k \in 0 .. N - 1
                   PROVE  others(j)[k] \in Int /\ Done(l, finish, held, j)[k] <= others(j)[k]
        OBVIOUS
      <4>1. k \in Proc /\ held[k][j] \in Nat
        BY DEF Matrix, Proc
      <4>2. Done(l, finish, held, j)[k] = IF l.finish[k] /\ ~ finish[k] THEN held[k][j] ELSE 0
        BY <4>1 DEF Done
      <4>3. others(j)[k] = IF k \in D THEN 0 ELSE held[k][j]
        BY <4>1
      <4>4. k \in D => ~ l.finish[k]
        OBVIOUS
      <4> HIDE DEF others, c, v, S
      <4> QED  BY <4>1, <4>2, <4>3, <4>4
    <3>5. Total(Done(l, finish, held, j), N) \in Int /\ N \in Nat /\ N \in 0 .. N
          /\ \A k \in 0 .. N - 1 : Done(l, finish, held, j)[k] \in Int
      BY <2>1, DoneTotal, ProcFacts
    <3> HIDE DEF others
    <3>6. Total(Done(l, finish, held, j), N) <= Total(others(j), N) /\ Total(others(j), N) \in Int
      BY <3>4, <3>5, TotalMonotone, TotalSteps
    <3>7. work[j] \in Int /\ want[c][j] \in Int
      BY <2>1 DEF Vectors
    <3> HIDE DEF c
    <3> QED  BY <3>2, <3>3, <3>5, <3>6, <3>7
  <2>4. \A i \in D : ~ v.finish[i]
    BY <2>1, <2>2, <2>3 DEF VisitEffect
  <2>5. v \in Sweep
    BY <2>2 DEF Swept
  <2> HIDE DEF v
  <2>6. v \in S
    BY <2>2, <2>4, <2>5
  <2> QED  BY <2>6 DEF v
<1> HIDE DEF start, S
<1>3. Iterate(Visit(want, held), start, N * N) \in S
  BY <1>1, <1>2, ProcFacts, IterateInvariant
<1> QED  BY <1>3 DEF Reduce, S, start

\* A grant is_safe accepts leaves no set of processes that wait for each other.
LEMMA IsSafeSound ==
  ASSUME NEW s \in State, NEW i \in Proc, NEW req \in Vectors,
         req \preceq s.need[i], is_safe(s, i, req)
  PROVE  Avoid => Safe(Granted(s, i, req))
<1> DEFINE t == Granted(s, i, req)
           idle == [k \in Proc |-> ~ Active(s, k)]
<1>1. req \preceq s.available
  BY DEF is_safe
<1>2. t \in State
  BY <1>1, GrantedType
<1>3. GrantedEffect(s, i, req, t)
  BY GrantedFields
<1> SUFFICES ASSUME Avoid PROVE Safe(t)
  OBVIOUS
<1> HIDE DEF t
<1>4. \A k \in Proc : Reduce(t.available, idle, t.need, t.allocation)[k]
  <2>1. /\ t.available = s.available \ominus req
        /\ t.allocation = [s.allocation EXCEPT ![i] = @ \oplus req]
        /\ t.need = [s.need EXCEPT ![i] = @ \ominus req]
    BY <1>3 DEF GrantedEffect
  <2> QED  BY <2>1, Zenon DEF is_safe
<1>5. t.available \in Vectors /\ t.allocation \in Matrix /\ t.need \in [Proc -> [Res -> Int]]
  BY <1>2 DEF State, Matrix, Vectors
<1>6. idle \in [Proc -> BOOLEAN] /\ t.apid_to_pid = s.apid_to_pid
  BY <1>3 DEF GrantedEffect, Active
<1>7. SUFFICES ASSUME NEW D \in SUBSET Proc, Stuck(t, D, t.need) PROVE FALSE
  BY DEF Safe
<1>8. PICK d \in D : TRUE
  BY <1>7 DEF Stuck
<1>9. \A k \in D : ~ idle[k]
  BY <1>6, <1>7 DEF Stuck, Active
<1>10. \A k \in D : \E j \in Res :
         ~ (t.need[k][j] <= t.available[j]
              + Total([m \in Proc |-> IF m \in D THEN 0 ELSE t.allocation[m][j]], N))
  BY <1>7 DEF Stuck, \preceq, Free
<1> HIDE DEF idle
<1>11. \A k \in D : ~ Reduce(t.available, idle, t.need, t.allocation)[k]
  BY <1>5, <1>6, <1>9, <1>10, ReduceSound
<1> QED  BY <1>4, <1>8, <1>11

-----------------------------------------------------------------------------
(* The inductive invariant of the shared structure, and the handlers that  *)
(* keep it.                                                                *)

\* An id nobody is registered under has no claim.
IdleUnclaimed(s) == \A i \in Proc : ~ Active(s, i) => ~ s.claimed[i]

Sound(s) ==
  /\ s \in State
  /\ Conserves(s)
  /\ IdleUnclaimed(s)
  /\ Avoid => Ledger(s) /\ Safe(s)

\* Safety looks at four fields only.
LEMMA SafeSame ==
  ASSUME NEW s, NEW t, Safe(s),
         t.available = s.available, t.allocation = s.allocation,
         t.need = s.need, t.apid_to_pid = s.apid_to_pid
  PROVE  Safe(t)
BY DEF Safe, Stuck, Free, Active

LEMMA ConservesSame ==
  ASSUME NEW s, NEW t, Conserves(s),
         t.available = s.available, t.allocation = s.allocation
  PROVE  Conserves(t)
BY DEF Conserves

LEMMA FreshSound == Sound(Fresh)
<1>1. Zero \in [Res -> Nat] /\ Exist \in [Res -> Nat]
  BY ZeroVector, RsmAssumption DEF Vectors
<1>2. Fresh \in State
  BY <1>1 DEF Fresh, State, Matrix
<1>3. Conserves(Fresh)
  <2> SUFFICES ASSUME NEW j \in Res
               PROVE  Fresh.available[j] + Total([k \in Proc |-> Fresh.allocation[k][j]], N) = Exist[j]
    BY DEF Conserves
  <2> DEFINE f == [k \in Proc |-> Fresh.allocation[k][j]]
  <2>1. \A k \in 0 .. N - 1 : f[k] = 0
    BY DEF Fresh, Proc, Zero
  <2>2. Total(f, N) = 0
    <3> HIDE DEF f
    <3> QED  BY <2>1, ProcFacts, TotalOfZeros
  <2>3. Fresh.available[j] = Exist[j] /\ Exist[j] \in Nat
    BY <1>1 DEF Fresh
  <2> HIDE DEF f
  <2>4. Fresh.available[j] + Total(f, N) = Exist[j]
    BY <2>2, <2>3
  <2> QED  BY <2>4 DEF f
<1>4. \A k \in Proc : ~ Active(Fresh, k)
  BY DEF Active, Fresh
<1>5. IdleUnclaimed(Fresh)
  BY DEF IdleUnclaimed, Fresh
<1>6. Ledger(Fresh)
  BY DEF Ledger, Fresh, Zero, \oplus, \preceq
<1>7. Safe(Fresh)
  BY <1>4 DEF Safe, Stuck
<1> QED  BY <1>2, <1>3, <1>5, <1>6, <1>7 DEF Sound

LEMMA GrantedSound ==
  ASSUME NEW s, Sound(s), NEW i \in Proc, NEW req \in Vectors,
         Active(s, i), Grantable(s, i, req), Avoid => req \preceq s.need[i]
  PROVE  Sound(Granted(s, i, req))
<1> DEFINE t == Granted(s, i, req)
<1>1. s \in State /\ req \preceq s.available
  BY DEF Sound, Grantable
<1>2. t \in State
  BY <1>1, GrantedType
<1>3. GrantedEffect(s, i, req, t)
  BY <1>1, GrantedFields
<1> HIDE DEF t
<1>4. Conserves(t)
  <2>1. \A k \in Proc : k # i => t.allocation[k] = s.allocation[k]
    BY <1>1, <1>3 DEF GrantedEffect, State, Matrix
  <2>2. ASSUME NEW j \in Res
        PROVE  t.available[j] + t.allocation[i][j] = s.available[j] + s.allocation[i][j]
    <3>1. t.available[j] = s.available[j] - req[j]
      BY <1>3 DEF GrantedEffect, \ominus
    <3>2. t.allocation[i][j] = s.allocation[i][j] + req[j]
      BY <1>1, <1>3 DEF GrantedEffect, State, Matrix, \oplus
    <3>3. req[j] \in Nat /\ s.available[j] \in Nat /\ s.allocation[i][j] \in Nat
      BY <1>1, Columns DEF Vectors
    <3> QED  BY <3>1, <3>2, <3>3
  <2> QED  BY <1>1, <1>2, <2>1, <2>2, ConservesMove DEF Sound
<1>5. IdleUnclaimed(t)
  BY <1>3 DEF GrantedEffect, Sound, IdleUnclaimed, Active
<1>6. ASSUME Avoid PROVE Ledger(t)
  <2> SUFFICES ASSUME NEW k \in Proc
               PROVE  /\ t.allocation[k] \oplus t.need[k] = t.max_demand[k]
                      /\ ~ t.claimed[k] => t.max_demand[k] = Zero
                      /\ t.request[k] \preceq t.need[k]
    BY DEF Ledger
  <2>1. /\ s.allocation[k] \oplus s.need[k] = s.max_demand[k]
        /\ ~ s.claimed[k] => s.max_demand[k] = Zero
        /\ s.request[k] \preceq s.need[k]
    BY <1>6 DEF Sound, Ledger
  <2>2. CASE k # i
    BY <1>1, <1>3, <1>6, <2>1, <2>2 DEF GrantedEffect, State, Matrix
  <2>3. CASE k = i
    <3>1. /\ t.allocation[k] = s.allocation[k] \oplus req
          /\ t.need[k] = s.need[k] \ominus req
          /\ t.request[k] = Zero
      BY <1>1, <1>3, <1>6, <2>3 DEF GrantedEffect, State, Matrix
    <3>2. \A j \in Res : /\ s.allocation[k][j] \in Nat /\ s.need[k][j] \in Nat
                         /\ req[j] \in Nat /\ req[j] <= s.need[k][j]
      BY <1>1, <1>6, <2>3 DEF State, Matrix, Vectors, \preceq
    <3>3. t.allocation[k] \oplus t.need[k] = s.allocation[k] \oplus s.need[k]
      BY <3>1, <3>2 DEF \oplus, \ominus
    <3>4. t.request[k] \preceq t.need[k]
      BY <3>1, <3>2 DEF \preceq, \ominus, Zero
    <3> QED  BY <1>3, <2>1, <3>3, <3>4 DEF GrantedEffect
  <2> QED  BY <2>2, <2>3
<1>7. ASSUME Avoid PROVE Safe(t)
  BY <1>1, <1>7, IsSafeSound DEF Grantable, t
<1>8. Sound(t)
  BY <1>2, <1>4, <1>5, <1>6, <1>7 DEF Sound
<1> QED  BY <1>8 DEF t

LEMMA RequestedSound ==
  ASSUME NEW s, Sound(s), NEW i \in Proc, NEW req \in Vectors,
         Active(s, i), Avoid => req \preceq s.need[i]
  PROVE  Sound(Requested(s, i, req))
<1> DEFINE t == Requested(s, i, req)
<1>1. s \in State
  BY DEF Sound
<1>2. RequestedEffect(s, i, req, t)
  BY <1>1, RequestedFields
<1> HIDE DEF t
<1>3. t \in State /\ t.available = s.available /\ t.allocation = s.allocation
      /\ t.need = s.need /\ t.apid_to_pid = s.apid_to_pid /\ t.claimed = s.claimed
      /\ t.max_demand = s.max_demand /\ t.request = [s.request EXCEPT ![i] = req]
  BY <1>2 DEF RequestedEffect
<1>4. Conserves(t)
  BY <1>3, ConservesSame DEF Sound
<1>5. IdleUnclaimed(t)
  BY <1>3 DEF Sound, IdleUnclaimed, Active
<1>6. ASSUME Avoid PROVE Ledger(t)
  <2>1. s.request \in Matrix
    BY <1>1 DEF State
  <2>2. \A k \in Proc : t.request[k] \preceq t.need[k]
    <3>1. \A k \in Proc : k # i => t.request[k] = s.request[k]
      BY <1>3, <2>1 DEF Matrix
    <3>2. t.request[i] = req
      BY <1>3, <2>1 DEF Matrix
    <3> QED  BY <1>3, <1>6, <3>1, <3>2 DEF Sound, Ledger
  <2> QED  BY <1>3, <1>6, <2>2 DEF Sound, Ledger
<1>7. ASSUME Avoid PROVE Safe(t)
  BY <1>3, <1>7, SafeSame DEF Sound
<1> QED  BY <1>3, <1>4, <1>5, <1>6, <1>7 DEF Sound, t

LEMMA ReleasedSound ==
  ASSUME NEW s, Sound(s), NEW i \in Proc, NEW rel \in Vectors,
         rel \preceq s.allocation[i]
  PROVE  Sound(Released(s, i, rel))
<1> DEFINE t == Released(s, i, rel)
<1>1. s \in State
  BY DEF Sound
<1>2. t \in State
  BY <1>1, ReleasedType
<1>3. ReleasedEffect(s, i, rel, t)
  BY <1>1, ReleasedFields
<1> HIDE DEF t
<1>4. \A k \in Proc : k # i => t.allocation[k] = s.allocation[k]
  BY <1>1, <1>3 DEF ReleasedEffect, State, Matrix
<1>5. ASSUME NEW j \in Res
      PROVE  /\ rel[j] \in Nat /\ s.available[j] \in Nat /\ s.allocation[i][j] \in Nat
             /\ t.available[j] = s.available[j] + rel[j]
             /\ t.allocation[i][j] = s.allocation[i][j] - rel[j]
  <2>1. t.available[j] = s.available[j] + rel[j]
    BY <1>3 DEF ReleasedEffect, \oplus
  <2>2. t.allocation[i][j] = s.allocation[i][j] - rel[j]
    BY <1>1, <1>3 DEF ReleasedEffect, State, Matrix, \ominus
  <2>3. rel[j] \in Nat /\ s.available[j] \in Nat /\ s.allocation[i][j] \in Nat
    BY <1>1, Columns DEF Vectors
  <2> QED  BY <2>1, <2>2, <2>3
<1>6. \A j \in Res : t.available[j] + t.allocation[i][j] = s.available[j] + s.allocation[i][j]
  BY <1>5
<1>7. Conserves(t)
  BY <1>1, <1>2, <1>4, <1>6, ConservesMove DEF Sound
<1>8. IdleUnclaimed(t)
  BY <1>3 DEF ReleasedEffect, Sound, IdleUnclaimed, Active
<1>9. ASSUME Avoid
      PROVE  /\ \A k \in Proc : k # i => t.need[k] = s.need[k]
             /\ \A k \in Proc : \A j \in Res : s.need[k][j] \in Nat
             /\ \A j \in Res : t.need[i][j] = s.need[i][j] + rel[j]
  <2>1. t.need = [s.need EXCEPT ![i] = @ \oplus rel]
    BY <1>3, <1>9 DEF ReleasedEffect
  <2>2. s.need \in Matrix
    BY <1>1 DEF State
  <2> QED  BY <2>1, <2>2 DEF Matrix, \oplus
<1>10. ASSUME Avoid PROVE Ledger(t)
  <2> SUFFICES ASSUME NEW k \in Proc
               PROVE  /\ t.allocation[k] \oplus t.need[k] = t.max_demand[k]
                      /\ ~ t.claimed[k] => t.max_demand[k] = Zero
                      /\ t.request[k] \preceq t.need[k]
    BY DEF Ledger
  <2>1. /\ s.allocation[k] \oplus s.need[k] = s.max_demand[k]
        /\ ~ s.claimed[k] => s.max_demand[k] = Zero
        /\ s.request[k] \preceq s.need[k]
    BY <1>10 DEF Sound, Ledger
  <2>2. t.max_demand = s.max_demand /\ t.claimed = s.claimed /\ t.request = s.request
    BY <1>3 DEF ReleasedEffect
  <2>3. CASE k # i
    BY <1>4, <1>9, <1>10, <2>1, <2>2, <2>3
  <2>4. CASE k = i
    <3>1. t.allocation[k] \oplus t.need[k] = s.allocation[k] \oplus s.need[k]
      BY <1>5, <1>9, <1>10, <2>4 DEF \oplus
    <3>2. \A j \in Res : s.request[k][j] \in Nat /\ s.need[k][j] \in Nat
      BY <1>1 DEF State, Matrix
    <3>3. t.request[k] \preceq t.need[k]
      BY <1>5, <1>9, <1>10, <2>1, <2>2, <2>4, <3>2 DEF \preceq
    <3> QED  BY <2>1, <2>2, <3>1, <3>3
  <2> QED  BY <2>3, <2>4
<1>11. ASSUME Avoid PROVE Safe(t)
  <2>1. SUFFICES ASSUME NEW D \in SUBSET Proc, Stuck(t, D, t.need) PROVE FALSE
    BY DEF Safe
  <2>2. \A j \in Res : Free(t, D)[j] = IF i \in D THEN Free(s, D)[j] + rel[j] ELSE Free(s, D)[j]
    <3>1. \A j \in Res : Free(t, D)[j] = IF i \in D
                                        THEN Free(s, D)[j] + (t.available[j] - s.available[j])
                                        ELSE Free(s, D)[j]
      BY <1>1, <1>2, <1>4, <1>6, FreeMove
    <3> QED  BY <1>5, <3>1
  <2>3. \A j \in Res : Free(s, D)[j] \in Nat
    BY <1>1, FreeVector DEF Vectors
  <2>4. ASSUME NEW k \in D PROVE Active(s, k) /\ ~ (s.need[k] \preceq Free(s, D))
    <3>1. Active(t, k) /\ ~ (t.need[k] \preceq Free(t, D))
      BY <2>1 DEF Stuck
    <3>2. Active(s, k)
      BY <1>3, <3>1 DEF ReleasedEffect, Active
    <3>3. PICK j \in Res : ~ (t.need[k][j] <= Free(t, D)[j])
      BY <3>1 DEF \preceq
    <3>4. s.need[k][j] \in Nat /\ rel[j] \in Nat /\ Free(s, D)[j] \in Nat
      BY <1>5, <1>9, <1>11, <2>3
    <3>5. ~ (s.need[k][j] <= Free(s, D)[j])
      <4>1. CASE k = i
        BY <1>9, <1>11, <2>2, <3>3, <3>4, <4>1
      <4>2. CASE k # i
        <5>1. t.need[k][j] = s.need[k][j]
          BY <1>9, <1>11, <4>2
        <5> QED  BY <2>2, <3>3, <3>4, <5>1
      <4> QED  BY <4>1, <4>2
    <3> QED  BY <3>2, <3>5 DEF \preceq
  <2>5. Stuck(s, D, s.need)
    BY <2>1, <2>4 DEF Stuck
  <2> QED  BY <1>11, <2>5 DEF Sound, Safe
<1> QED  BY <1>2, <1>7, <1>8, <1>10, <1>11 DEF Sound, t

LEMMA EndedSound ==
  ASSUME NEW s, Sound(s), NEW i \in Proc
  PROVE  Sound(Ended(s, i))
<1> DEFINE t == Ended(s, i)
<1>1. s \in State
  BY DEF Sound
<1>2. EndedEffect(s, i, t)
  BY <1>1, EndedFields
<1> HIDE DEF t
<1>3. t \in State
  BY <1>2 DEF EndedEffect
<1>4. /\ s.allocation \in Matrix /\ s.need \in Matrix /\ s.max_demand \in Matrix
      /\ s.request \in Matrix /\ s.claimed \in [Proc -> BOOLEAN]
      /\ s.apid_to_pid \in [Proc -> Pid \cup {NoPid}]
  BY <1>1 DEF State
<1>5. ASSUME NEW k \in Proc, k # i
      PROVE  /\ t.allocation[k] = s.allocation[k] /\ t.need[k] = s.need[k]
             /\ t.max_demand[k] = s.max_demand[k] /\ t.request[k] = s.request[k]
             /\ t.claimed[k] = s.claimed[k] /\ (Active(t, k) <=> Active(s, k))
  BY <1>2, <1>4, <1>5 DEF EndedEffect, Matrix, Active
<1>6. /\ t.allocation[i] = Zero /\ t.need[i] = Zero /\ t.max_demand[i] = Zero
      /\ t.request[i] = Zero /\ ~ t.claimed[i] /\ ~ Active(t, i)
  BY <1>2, <1>4 DEF EndedEffect, Matrix, Active
<1>7. \A j \in Res : t.available[j] + t.allocation[i][j] = s.available[j] + s.allocation[i][j]
  <2> SUFFICES ASSUME NEW j \in Res
               PROVE  t.available[j] + t.allocation[i][j] = s.available[j] + s.allocation[i][j]
    OBVIOUS
  <2>1. t.available[j] = s.available[j] + s.allocation[i][j]
    BY <1>2 DEF EndedEffect, \oplus
  <2>2. t.allocation[i][j] = 0
    BY <1>6 DEF Zero
  <2>3. s.available[j] \in Nat /\ s.allocation[i][j] \in Nat
    BY <1>1, Columns
  <2> QED  BY <2>1, <2>2, <2>3
<1>8. Conserves(t)
  BY <1>1, <1>3, <1>5, <1>7, ConservesMove DEF Sound
<1>9. IdleUnclaimed(t)
  BY <1>5, <1>6 DEF Sound, IdleUnclaimed
<1>10. ASSUME Avoid PROVE Ledger(t)
  <2> SUFFICES ASSUME NEW k \in Proc
               PROVE  /\ t.allocation[k] \oplus t.need[k] = t.max_demand[k]
                      /\ ~ t.claimed[k] => t.max_demand[k] = Zero
                      /\ t.request[k] \preceq t.need[k]
    BY DEF Ledger
  <2>1. CASE k # i
    BY <1>5, <1>10, <2>1 DEF Sound, Ledger
  <2>2. CASE k = i
    <3>1. Zero \oplus Zero = Zero /\ Zero \preceq Zero
      BY DEF Zero, \oplus, \preceq
    <3> QED  BY <1>6, <2>2, <3>1
  <2> QED  BY <2>1, <2>2
<1>11. ASSUME Avoid PROVE Safe(t)
  <2>1. SUFFICES ASSUME NEW D \in SUBSET Proc, Stuck(t, D, t.need) PROVE FALSE
    BY DEF Safe
  <2>2. i \notin D
    BY <1>6, <2>1 DEF Stuck
  <2>3. \A j \in Res : Free(t, D)[j] = Free(s, D)[j]
    BY <1>1, <1>3, <1>5, <1>7, <2>2, FreeMove
  <2>4. ASSUME NEW k \in D PROVE Active(s, k) /\ ~ (s.need[k] \preceq Free(s, D))
    <3>1. Active(t, k) /\ ~ (t.need[k] \preceq Free(t, D))
      BY <2>1 DEF Stuck
    <3>2. k \in Proc /\ k # i
      BY <2>2
    <3> QED  BY <1>5, <2>3, <3>1, <3>2 DEF \preceq
  <2>5. Stuck(s, D, s.need)
    BY <2>1, <2>4 DEF Stuck
  <2> QED  BY <1>11, <2>5 DEF Sound, Safe
<1> QED  BY <1>3, <1>8, <1>9, <1>10, <1>11 DEF Sound, t

\* Under avoidance an id without a claim holds nothing and needs nothing.
LEMMA Unclaimed ==
  ASSUME NEW s, Sound(s), Avoid, NEW i \in Proc, ~ s.claimed[i]
  PROVE  s.allocation[i] = Zero /\ s.need[i] = Zero /\ s.request[i] = Zero
<1>1. /\ s.allocation[i] \in [Res -> Nat] /\ s.need[i] \in [Res -> Nat]
      /\ s.request[i] \in [Res -> Nat]
  BY DEF Sound, State, Matrix
<1>2. s.allocation[i] \oplus s.need[i] = Zero /\ s.request[i] \preceq s.need[i]
  BY DEF Sound, Ledger
<1>3. \A j \in Res : s.allocation[i][j] + s.need[i][j] = 0 /\ s.request[i][j] <= s.need[i][j]
  BY <1>2 DEF Zero, \oplus, \preceq
<1>4. \A j \in Res : s.allocation[i][j] = 0 /\ s.need[i][j] = 0 /\ s.request[i][j] = 0
  BY <1>1, <1>3
<1> QED  BY <1>1, <1>4 DEF Zero

LEMMA StartedSound ==
  ASSUME NEW s, Sound(s), NEW i \in Proc, NEW p \in Pid, ~ Active(s, i)
  PROVE  Sound(Started(s, i, p))
<1> DEFINE t == Started(s, i, p)
<1>1. s \in State /\ ~ s.claimed[i]
  BY DEF Sound, IdleUnclaimed
<1>2. StartedEffect(s, i, p, t)
  BY <1>1, StartedFields
<1> HIDE DEF t
<1>3. /\ t \in State /\ t.available = s.available /\ t.allocation = s.allocation
      /\ t.need = s.need /\ t.max_demand = s.max_demand
  BY <1>2 DEF StartedEffect
<1>4. /\ s.request \in Matrix /\ s.claimed \in [Proc -> BOOLEAN]
      /\ s.apid_to_pid \in [Proc -> Pid \cup {NoPid}]
  BY <1>1 DEF State
<1>5. ASSUME NEW k \in Proc, k # i
      PROVE  /\ t.request[k] = s.request[k] /\ t.claimed[k] = s.claimed[k]
             /\ (Active(t, k) <=> Active(s, k))
  BY <1>2, <1>4, <1>5 DEF StartedEffect, Matrix, Active
<1>6. t.request[i] = Zero /\ ~ t.claimed[i]
  BY <1>2, <1>4 DEF StartedEffect, Matrix
<1>7. Conserves(t)
  BY <1>3, ConservesSame DEF Sound
<1>8. IdleUnclaimed(t)
  BY <1>5, <1>6 DEF Sound, IdleUnclaimed
<1>9. ASSUME Avoid PROVE Ledger(t)
  <2> SUFFICES ASSUME NEW k \in Proc
               PROVE  /\ t.allocation[k] \oplus t.need[k] = t.max_demand[k]
                      /\ ~ t.claimed[k] => t.max_demand[k] = Zero
                      /\ t.request[k] \preceq t.need[k]
    BY DEF Ledger
  <2>1. /\ s.allocation[k] \oplus s.need[k] = s.max_demand[k]
        /\ ~ s.claimed[k] => s.max_demand[k] = Zero
        /\ s.request[k] \preceq s.need[k]
    BY <1>9 DEF Sound, Ledger
  <2>2. CASE k # i
    BY <1>3, <1>5, <2>1, <2>2
  <2>3. CASE k = i
    <3>1. s.request[i] = Zero
      BY <1>1, <1>9, Unclaimed
    <3> QED  BY <1>1, <1>3, <1>6, <2>1, <2>3, <3>1
  <2> QED  BY <2>2, <2>3
<1>10. ASSUME Avoid PROVE Safe(t)
  <2>1. SUFFICES ASSUME NEW D \in SUBSET Proc, Stuck(t, D, t.need) PROVE FALSE
    BY DEF Safe
  <2>2. \A E : Free(t, E) = Free(s, E)
    BY <1>3 DEF Free
  <2>3. i \notin D
    <3>1. SUFFICES ASSUME i \in D PROVE FALSE
      OBVIOUS
    <3>2. ~ (s.need[i] \preceq Free(s, D))
      BY <1>3, <2>1, <2>2, <3>1 DEF Stuck
    <3>3. s.need[i] = Zero
      BY <1>1, <1>10, Unclaimed
    <3>4. \A j \in Res : Free(s, D)[j] \in Nat
      BY <1>1, FreeVector DEF Vectors
    <3> QED  BY <3>2, <3>3, <3>4 DEF \preceq, Zero
  <2>4. \A k \in D : Active(s, k) /\ ~ (s.need[k] \preceq Free(s, D))
    BY <1>3, <1>5, <2>1, <2>2, <2>3 DEF Stuck
  <2>5. Stuck(s, D, s.need)
    BY <2>1, <2>4 DEF Stuck
  <2> QED  BY <1>10, <2>5 DEF Sound, Safe
<1> QED  BY <1>3, <1>7, <1>8, <1>9, <1>10 DEF Sound, t

LEMMA ClaimedSound ==
  ASSUME NEW s, Sound(s), NEW i \in Proc, NEW claim \in Vectors,
         Avoid, Active(s, i), ~ s.claimed[i], claim \preceq Exist
  PROVE  Sound(Claimed(s, i, claim))
<1> DEFINE t == Claimed(s, i, claim)
<1>1. s \in State
  BY DEF Sound
<1>2. ClaimedEffect(s, i, claim, t)
  BY <1>1, ClaimedFields
<1> HIDE DEF t
<1>3. /\ t \in State /\ t.available = s.available /\ t.allocation = s.allocation
      /\ t.request = s.request /\ t.apid_to_pid = s.apid_to_pid
  BY <1>2 DEF ClaimedEffect
<1>4. s.need \in Matrix /\ s.max_demand \in Matrix /\ s.claimed \in [Proc -> BOOLEAN]
  BY <1>1 DEF State
<1>5. ASSUME NEW k \in Proc, k # i
      PROVE  /\ t.need[k] = s.need[k] /\ t.max_demand[k] = s.max_demand[k]
             /\ t.claimed[k] = s.claimed[k]
  BY <1>2, <1>4, <1>5 DEF ClaimedEffect, Matrix
<1>6. t.need[i] = claim /\ t.max_demand[i] = claim /\ t.claimed[i]
  BY <1>2, <1>4 DEF ClaimedEffect, Matrix
<1>7. s.allocation[i] = Zero /\ s.request[i] = Zero
  BY Unclaimed
<1>8. Conserves(t)
  BY <1>3, ConservesSame DEF Sound
<1>9. IdleUnclaimed(t)
  BY <1>3, <1>5 DEF Sound, IdleUnclaimed, Active
<1>10. Ledger(t)
  <2> SUFFICES ASSUME NEW k \in Proc
               PROVE  /\ t.allocation[k] \oplus t.need[k] = t.max_demand[k]
                      /\ ~ t.claimed[k] => t.max_demand[k] = Zero
                      /\ t.request[k] \preceq t.need[k]
    BY DEF Ledger
  <2>1. CASE k # i
    BY <1>3, <1>5, <2>1 DEF Sound, Ledger
  <2>2. CASE k = i
    <3>1. Zero \oplus claim = claim
      BY DEF Zero, \oplus, Vectors
    <3>2. Zero \preceq claim
      BY DEF Zero, \preceq, Vectors
    <3> QED  BY <1>3, <1>6, <1>7, <2>2, <3>1, <3>2
  <2> QED  BY <2>1, <2>2
<1>11. Safe(t)
  <2>1. SUFFICES ASSUME NEW D \in SUBSET Proc, Stuck(t, D, t.need) PROVE FALSE
    BY DEF Safe
  <2>2. \A E : Free(t, E) = Free(s, E)
    BY <1>3 DEF Free
  <2>3. \A k \in D : Active(s, k) /\ ~ (t.need[k] \preceq Free(s, D))
    BY <1>3, <2>1, <2>2 DEF Stuck, Active
  <2>4. CASE i \notin D
    <3>1. \A k \in D : ~ (s.need[k] \preceq Free(s, D))
      BY <1>5, <2>3, <2>4
    <3>2. Stuck(s, D, s.need)
      BY <2>1, <2>3, <3>1 DEF Stuck
    <3> QED  BY <3>2 DEF Sound, Safe
  <2>5. CASE i \in D
    <3> DEFINE E == D \ {i}
    <3>1. \A j \in Res : Free(s, E)[j] = Free(s, D)[j]
      <4>1. \A j \in Res : Free(s, E)[j] = Free(s, D)[j] + s.allocation[i][j]
        BY <1>1, <2>5, FreeWithout
      <4>2. \A j \in Res : s.allocation[i][j] = 0
        BY <1>7 DEF Zero
      <4>3. \A j \in Res : Free(s, D)[j] \in Nat
        BY <1>1, FreeVector DEF Vectors
      <4> HIDE DEF E
      <4> QED  BY <4>1, <4>2, <4>3
    <3>2. CASE E # {}
      <4>1. \A k \in E : Active(s, k) /\ ~ (s.need[k] \preceq Free(s, E))
        BY <1>5, <2>3, <3>1 DEF \preceq
      <4>2. Stuck(s, E, s.need) /\ E \in SUBSET Proc
        BY <3>2, <4>1 DEF Stuck
      <4> QED  BY <4>2 DEF Sound, Safe
    <3>3. CASE E = {}
      <4>1. \A j \in Res : Free(s, {})[j] = Exist[j]
        BY <1>1, FreeOfNone DEF Sound
      <4>2. \A j \in Res : Free(s, D)[j] = Exist[j]
        BY <3>1, <3>3, <4>1
      <4>3. claim \preceq Free(s, D)
        BY <4>2 DEF \preceq
      <4> QED  BY <1>6, <2>3, <2>5, <4>3
    <3> QED  BY <3>2, <3>3
  <2> QED  BY <2>4, <2>5
<1> QED  BY <1>3, <1>8, <1>9, <1>10, <1>11 DEF Sound, t

\* Flags and semaphores the invariant does not look at.
LEMMA SoundFlags ==
  ASSUME NEW s, Sound(s), NEW w \in [Proc -> BOOLEAN], NEW m \in [Proc -> Nat]
  PROVE  Sound([s EXCEPT !.waiting = w, !.process_sem = m])
<1> DEFINE t == [s EXCEPT !.waiting = w, !.process_sem = m]
<1>1. /\ t \in State /\ t.available = s.available /\ t.allocation = s.allocation
      /\ t.request = s.request /\ t.need = s.need /\ t.max_demand = s.max_demand
      /\ t.claimed = s.claimed /\ t.apid_to_pid = s.apid_to_pid
  BY DEF Sound, State
<1> HIDE DEF t
<1>2. Conserves(t)
  BY <1>1, ConservesSame DEF Sound
<1>3. IdleUnclaimed(t)
  BY <1>1 DEF Sound, IdleUnclaimed, Active
<1>4. Avoid => Ledger(t)
  BY <1>1 DEF Sound, Ledger
<1>5. Avoid => Safe(t)
  BY <1>1, SafeSame DEF Sound
<1>6. Sound(t)
  BY <1>1, <1>2, <1>3, <1>4, <1>5 DEF Sound
<1> QED  BY <1>6 DEF t

LEMMA SatisfiedSound ==
  ASSUME NEW s, Sound(s), NEW i \in Proc, CanSatisfy(s, i)
  PROVE  Sound(Satisfied(s, i))
<1> DEFINE t == Granted(s, i, s.request[i])
<1>1. s.request[i] \in Vectors
  BY DEF Sound, State, Matrix, Vectors
<1>2. Avoid => s.request[i] \preceq s.need[i]
  BY DEF Sound, Ledger
<1>3. Sound(t)
  BY <1>1, <1>2, GrantedSound DEF CanSatisfy
<1>4. t.waiting \in [Proc -> BOOLEAN] /\ t.process_sem \in [Proc -> Nat] /\ t \in State
  BY <1>3 DEF Sound, State
<1> HIDE DEF t
<1> DEFINE w == [t.waiting EXCEPT ![i] = FALSE]
           m == [t.process_sem EXCEPT ![i] = @ + 1]
<1>5. w \in [Proc -> BOOLEAN] /\ m \in [Proc -> Nat]
  BY <1>4
<1>6. Satisfied(s, i) = [t EXCEPT !.waiting = w, !.process_sem = m]
  BY <1>4 DEF Satisfied, State, t
<1> HIDE DEF w, m
<1>7. Sound([t EXCEPT !.waiting = w, !.process_sem = m])
  BY <1>3, <1>5, SoundFlags, Zenon
<1> QED  BY <1>6, <1>7, Zenon

\* The scan of the waiters keeps the invariant, by the loop invariant that it
\* holds of the structure after every visit.
LEMMA TrySatisfySound ==
  ASSUME NEW s, Sound(s)
  PROVE  Sound(TrySatisfy(s))
<1> DEFINE S == {l \in [s : State, i : Proc] : Sound(l.s)}
           start == [s |-> s, i |-> 0]
<1>1. start \in S
  BY ProcFacts DEF Sound
<1>2. ASSUME NEW l \in S PROVE Scan[l] \in S
  <2>1. l \in [s : State, i : Proc] /\ l.i \in Proc /\ Sound(l.s)
    OBVIOUS
  <2> DEFINE r == IF CanSatisfy(l.s, l.i) THEN Satisfied(l.s, l.i) ELSE l.s
  <2>2. Scan[l] = [s |-> r, i |-> NextProc(l.i)]
    BY <2>1, Zenon DEF Scan
  <2>3. Sound(r)
    BY <2>1, SatisfiedSound
  <2> HIDE DEF r
  <2>4. r \in State /\ NextProc(l.i) \in Proc
    BY <2>1, <2>3, ProcFacts DEF Sound
  <2> QED  BY <2>2, <2>3, <2>4
<1> HIDE DEF S, start
<1>3. Iterate(Scan, start, N * N) \in S
  BY <1>1, <1>2, ProcFacts, IterateInvariant
<1> QED  BY <1>3 DEF S, start, TrySatisfy

-----------------------------------------------------------------------------
(* The specification.                                                      *)

\* current_apid_locked returns an id its caller is registered under, or none.
LEMMA CurrentApidMine ==
  ASSUME NEW p \in Pid, NEW i \in Proc, CurrentApid(p) = i
  PROVE  g.apid_to_pid[i] = p /\ Active(g, i)
<1>1. i \in Mine(p)
  <2>1. CASE local[p] \in Mine(p)
    BY <2>1 DEF CurrentApid
  <2>2. CASE local[p] \notin Mine(p) /\ Mine(p) = {}
    BY <2>2 DEF CurrentApid, NoApid, Proc
  <2>3. CASE local[p] \notin Mine(p) /\ Mine(p) # {}
    <3>1. Mine(p) \in SUBSET Nat
      BY DEF Mine, Proc
    <3>2. \E k \in Mine(p) : \A m \in Mine(p) : k <= m
      BY <2>3, <3>1, LeastNatural
    <3>3. i = CHOOSE k \in Mine(p) : \A m \in Mine(p) : k <= m
      BY <2>3 DEF CurrentApid
    <3> QED  BY <3>2, <3>3
  <2> QED  BY <2>1, <2>2, <2>3
<1> QED  BY <1>1, RsmAssumption DEF Mine, Active

\* Whether a request can be granted does not depend on its being recorded.
LEMMA GrantableRecorded ==
  ASSUME NEW s \in State, NEW i \in Proc, NEW req \in Vectors, Grantable(s, i, req)
  PROVE  Grantable(Requested(s, i, req), i, req)
<1> DEFINE t == Requested(s, i, req)
<1>1. /\ t.available = s.available /\ t.allocation = s.allocation
      /\ t.need = s.need /\ t.apid_to_pid = s.apid_to_pid
  BY RequestedFields DEF RequestedEffect
<1> HIDE DEF t
<1>2. Grantable(t, i, req)
  BY <1>1 DEF Grantable, is_safe, Active
<1> QED  BY <1>2 DEF t

\* The part of the invariant that is about the processes.
ProcessTypes ==
  /\ status \in [Pid -> {"unborn", "live", "dead"}]
  /\ local \in [Pid -> Proc \cup {NoApid}]
  /\ blocked \in [Pid -> Proc \cup {NoApid}]

IInv == Sound(g) /\ ProcessTypes

LEMMA InitIInv ==
  ASSUME Init
  PROVE  IInv
<1>1. Sound(g)
  BY FreshSound DEF Init
<1>2. ProcessTypes
  BY DEF Init, ProcessTypes
<1> QED  BY <1>1, <1>2 DEF IInv

\* A call refused or accepted leaves the caller's id in its cache.
LEMMA CallsTypes ==
  ASSUME ProcessTypes, NEW p \in Pid, NEW i \in Proc, Calls(p, i)
  PROVE  local' \in [Pid -> Proc \cup {NoApid}]
BY DEF ProcessTypes, Calls

LEMMA StartedStep ==
  ASSUME IInv, NEW p \in Pid, NEW i \in Proc, rsm_process_started(p, i)
  PROVE  IInv'
<1>1. Sound(g')
  BY StartedSound DEF IInv, rsm_process_started
<1>2. ProcessTypes'
  BY DEF IInv, ProcessTypes, rsm_process_started
<1> QED  BY <1>1, <1>2 DEF IInv

LEMMA EndedStep ==
  ASSUME IInv, NEW p \in Pid, NEW i \in Proc, rsm_process_ended(p, i)
  PROVE  IInv'
<1>1. Sound(Ended(g, i))
  BY EndedSound DEF IInv
<1>2. Sound(g')
  BY <1>1, TrySatisfySound DEF rsm_process_ended
<1>3. ProcessTypes'
  BY DEF IInv, ProcessTypes, rsm_process_ended
<1> QED  BY <1>2, <1>3 DEF IInv

LEMMA ClaimStep ==
  ASSUME IInv, NEW p \in Pid, NEW i \in Proc, NEW v \in Vectors, rsm_claim(p, i, v)
  PROVE  IInv'
<1>1. Active(g, i)
  BY CurrentApidMine DEF rsm_claim, Calls
<1>2. Sound(g')
  BY <1>1, ClaimedSound DEF IInv, rsm_claim, ClaimRefused
<1>3. ProcessTypes'
  BY CallsTypes DEF IInv, ProcessTypes, rsm_claim
<1> QED  BY <1>2, <1>3 DEF IInv

LEMMA GrantStep ==
  ASSUME IInv, NEW p \in Pid, NEW i \in Proc, NEW v \in Vectors, RequestGranted(p, i, v)
  PROVE  IInv'
<1>1. Active(g, i)
  BY CurrentApidMine DEF RequestGranted, Calls
<1>2. Sound(g) /\ g \in State /\ (Avoid => v \preceq g.need[i])
  BY DEF IInv, Sound, RequestGranted, RequestRefused
<1> DEFINE t == Requested(g, i, v)
<1>3. Sound(t) /\ RequestedEffect(g, i, v, t)
  BY <1>1, <1>2, RequestedSound, RequestedFields
<1>4. Active(t, i) /\ (Avoid => v \preceq t.need[i])
  BY <1>1, <1>2, <1>3 DEF RequestedEffect, Active
<1>5. Grantable(t, i, v) /\ g' = Granted(t, i, v)
  BY <1>2, GrantableRecorded DEF RequestGranted
<1> HIDE DEF t
<1>6. Sound(g')
  BY <1>3, <1>4, <1>5, GrantedSound
<1>7. ProcessTypes'
  BY CallsTypes DEF IInv, ProcessTypes, RequestGranted
<1> QED  BY <1>6, <1>7 DEF IInv

LEMMA WaitStep ==
  ASSUME IInv, NEW p \in Pid, NEW i \in Proc, NEW v \in Vectors, RequestWaits(p, i, v)
  PROVE  IInv'
<1>1. Active(g, i)
  BY CurrentApidMine DEF RequestWaits, Calls
<1>2. Sound(g) /\ (Avoid => v \preceq g.need[i])
  BY DEF IInv, RequestWaits, RequestRefused
<1> DEFINE t == Requested(g, i, v)
           w == [t.waiting EXCEPT ![i] = TRUE]
<1>3. Sound(t)
  BY <1>1, <1>2, RequestedSound
<1>4. g' = [t EXCEPT !.waiting[i] = TRUE]
  BY DEF RequestWaits
<1> HIDE DEF t
<1>5. t \in State /\ w \in [Proc -> BOOLEAN] /\ t.process_sem \in [Proc -> Nat]
  BY <1>3 DEF Sound, State
<1>6. g' = [t EXCEPT !.waiting = w, !.process_sem = t.process_sem]
  BY <1>4, <1>5 DEF State
<1> HIDE DEF w
<1>7. Sound([t EXCEPT !.waiting = w, !.process_sem = t.process_sem])
  BY <1>3, <1>5, SoundFlags, Zenon
<1>8. Sound(g')
  BY <1>6, <1>7, Zenon
<1>9. ProcessTypes'
  BY CallsTypes DEF IInv, ProcessTypes, RequestWaits
<1> QED  BY <1>8, <1>9 DEF IInv

LEMMA WakeStep ==
  ASSUME IInv, NEW p \in Pid, NEW i \in Proc, Wake(p, i)
  PROVE  IInv'
<1> DEFINE m == [g.process_sem EXCEPT ![i] = @ - 1]
<1>1. Sound(g) /\ g \in State
  BY DEF IInv, Sound
<1>2. m \in [Proc -> Nat] /\ g.waiting \in [Proc -> BOOLEAN]
  BY <1>1 DEF Wake, State
<1>3. g' = [g EXCEPT !.waiting = g.waiting, !.process_sem = m]
  BY <1>1 DEF Wake, State
<1> HIDE DEF m
<1>4. Sound([g EXCEPT !.waiting = g.waiting, !.process_sem = m])
  BY <1>1, <1>2, SoundFlags, Zenon
<1>5. Sound(g')
  BY <1>3, <1>4, Zenon
<1>6. ProcessTypes'
  BY DEF IInv, ProcessTypes, Wake
<1> QED  BY <1>5, <1>6 DEF IInv

LEMMA ReleaseStep ==
  ASSUME IInv, NEW p \in Pid, NEW i \in Proc, NEW v \in Vectors, rsm_release(p, i, v)
  PROVE  IInv'
<1>1. Sound(Released(g, i, v))
  BY ReleasedSound DEF IInv, rsm_release, ReleaseRefused
<1>2. Sound(g')
  BY <1>1, TrySatisfySound DEF rsm_release
<1>3. ProcessTypes'
  BY CallsTypes DEF IInv, ProcessTypes, rsm_release
<1> QED  BY <1>2, <1>3 DEF IInv

LEMMA StepIInv ==
  ASSUME IInv, [Next]_vars
  PROVE  IInv'
<1>1. CASE UNCHANGED vars
  BY <1>1 DEF IInv, ProcessTypes, vars
<1>2. ASSUME NEW p \in Pid, NEW child \in Pid, Fork(p, child) PROVE IInv'
  BY <1>2 DEF IInv, ProcessTypes, Fork
<1>3. ASSUME NEW p \in Pid, Die(p) PROVE IInv'
  BY <1>3 DEF IInv, ProcessTypes, Die
<1>4. ASSUME NEW p \in Pid, NEW i \in Proc, NEW v \in Vector, RefusedCall(p, i, v) PROVE IInv'
  BY <1>4, CallsTypes DEF IInv, ProcessTypes, RefusedCall
<1>5. \A v \in Vector : v \in Vectors
  BY InputVector
<1> QED  BY <1>1, <1>2, <1>3, <1>4, <1>5, StartedStep, EndedStep, ClaimStep, GrantStep,
            WaitStep, WakeStep, ReleaseStep DEF Next

LEMMA Invariance == Spec => []IInv
<1>1. Init => IInv
  BY InitIInv
<1>2. IInv /\ [Next]_vars => IInv'
  BY StepIInv
<1> QED  BY <1>1, <1>2, PTL DEF Spec

\* rsm.c: no quantity of the shared structure leaves its type, whatever the
\* processes call and whoever dies; in particular no subtraction goes below zero.
THEOREM TypeCorrect == Spec => []TypeOK
<1>1. IInv => TypeOK
  BY DEF IInv, Sound, ProcessTypes, TypeOK
<1> QED  BY <1>1, Invariance, PTL

\* rsm.c: grants, releases, ends and deaths neither lose nor make an instance.
THEOREM InstancesConserved == Spec => []Conserved
<1>1. IInv => Conserved
  BY DEF IInv, Sound, Conserved
<1> QED  BY <1>1, Invariance, PTL

\* rsm.c under avoidance: allocation and need always add up to the claim, and a
\* recorded request never exceeds the need.
THEOREM NeedKept == Spec => []NeedLedger
<1>1. IInv => NeedLedger
  BY DEF IInv, Sound, NeedLedger
<1> QED  BY <1>1, Invariance, PTL

\* rsm.c under avoidance: no sequence of calls reaches a state in which a set of
\* processes could come to wait for each other for ever.
THEOREM StaysSafe == Spec => []SafeState
<1>1. IInv => SafeState
  BY DEF IInv, Sound, SafeState
<1> QED  BY <1>1, Invariance, PTL

-----------------------------------------------------------------------------
(* How many ids have a property: the measure of the loops.                 *)

LEMMA ProcFinite == IsFiniteSet(Proc) /\ Cardinality(Proc) = N
<1>1. 0 \in Int /\ N - 1 \in Int
  BY ProcFacts
<1>2. IsFiniteSet(0 .. N - 1) /\ Cardinality(0 .. N - 1) = IF 0 > N - 1 THEN 0 ELSE (N - 1) - 0 + 1
  BY <1>1, FS_Interval
<1>3. ~ (0 > N - 1) /\ (N - 1) - 0 + 1 = N
  BY RsmAssumption
<1> QED  BY <1>2, <1>3 DEF Proc

LEMMA CountBound ==
  ASSUME NEW T \in SUBSET Proc
  PROVE  IsFiniteSet(T) /\ Cardinality(T) \in Nat /\ Cardinality(T) <= N
<1>1. IsFiniteSet(T) /\ Cardinality(T) <= Cardinality(Proc)
  BY ProcFinite, FS_Subset
<1>2. Cardinality(T) \in Nat
  BY <1>1, FS_CardinalityType
<1> QED  BY <1>1, <1>2, ProcFinite

LEMMA CountLess ==
  ASSUME NEW T \in SUBSET Proc, NEW i \in T
  PROVE  Cardinality(T \ {i}) < Cardinality(T)
<1>1. IsFiniteSet(T) /\ Cardinality(T) \in Nat
  BY CountBound
<1>2. Cardinality(T \ {i}) = Cardinality(T) - 1
  BY <1>1, FS_RemoveElement
<1> QED  BY <1>1, <1>2

-----------------------------------------------------------------------------
(* What is served when a waiter gets what it asked for.                    *)

SatisfiedEffect(s, i, t) ==
  /\ t \in State
  /\ t.available = s.available \ominus s.request[i]
  /\ t.allocation = [s.allocation EXCEPT ![i] = @ \oplus s.request[i]]
  /\ t.request = [s.request EXCEPT ![i] = Zero]
  /\ t.apid_to_pid = s.apid_to_pid
  /\ t.waiting = [s.waiting EXCEPT ![i] = FALSE]
  /\ t.process_sem = [s.process_sem EXCEPT ![i] = @ + 1]

LEMMA SatisfiedFields ==
  ASSUME NEW s, Sound(s), NEW i \in Proc, CanSatisfy(s, i)
  PROVE  SatisfiedEffect(s, i, Satisfied(s, i))
<1> DEFINE t == Granted(s, i, s.request[i])
<1>1. Satisfied(s, i) \in State
  BY SatisfiedSound DEF Sound
<1>2. s \in State
  BY DEF Sound
<1>3. GrantedEffect(s, i, s.request[i], t)
  BY <1>2, GrantedFields
<1>4. s.request[i] \in Vectors /\ s.request[i] \preceq s.available
  BY <1>2 DEF State, Matrix, Vectors, CanSatisfy, Grantable
<1>5. Avoid => s.request[i] \preceq s.need[i]
  BY DEF Sound, Ledger
<1>6. t \in State
  BY <1>2, <1>4, <1>5, GrantedType
<1>7. LET u == Satisfied(s, i)
      IN  /\ u.available = t.available /\ u.allocation = t.allocation
          /\ u.request = t.request /\ u.apid_to_pid = t.apid_to_pid
          /\ u.waiting = [t.waiting EXCEPT ![i] = FALSE]
          /\ u.process_sem = [t.process_sem EXCEPT ![i] = @ + 1]
  <2>1. Satisfied(s, i) = [t EXCEPT !.waiting[i] = FALSE, !.process_sem[i] = @ + 1]
    BY DEF Satisfied
  <2> HIDE DEF t
  <2> QED  BY <1>6, <2>1 DEF State
<1> HIDE DEF t
<1> QED  BY <1>1, <1>3, <1>7 DEF SatisfiedEffect, GrantedEffect

-----------------------------------------------------------------------------
(* try_satisfy_waiting leaves no waiter that could be served.              *)

\* A visit: the position and the structure after it.
LEMMA ScanTurn ==
  ASSUME NEW s, Sound(s), NEW i \in Proc
  PROVE  LET r == Scan[[s |-> s, i |-> i]]
         IN  /\ r \in [s : State, i : Proc] /\ Sound(r.s) /\ r.i = NextProc(i)
             /\ CanSatisfy(s, i) => r.s = Satisfied(s, i)
             /\ ~ CanSatisfy(s, i) => r.s = s
<1> DEFINE l == [s |-> s, i |-> i]
           t == IF CanSatisfy(s, i) THEN Satisfied(s, i) ELSE s
<1>1. l \in [s : State, i : Proc] /\ l.s = s /\ l.i = i
  BY DEF Sound
<1>2. Scan[l] = [s |-> t, i |-> NextProc(i)]
  BY <1>1, Zenon DEF Scan
<1>3. Sound(t)
  BY SatisfiedSound
<1>4. t \in State /\ NextProc(i) \in Proc
  BY <1>3, ProcFacts DEF Sound
<1> QED  BY <1>2, <1>3, <1>4

Waiting(s) == {i \in Proc : s.waiting[i]}

LEMMA ServedCount ==
  ASSUME NEW s, Sound(s), NEW i \in Proc, CanSatisfy(s, i)
  PROVE  Cardinality(Waiting(Satisfied(s, i))) < Cardinality(Waiting(s))
<1> DEFINE t == Satisfied(s, i)
<1>1. t.waiting = [s.waiting EXCEPT ![i] = FALSE] /\ s.waiting \in [Proc -> BOOLEAN]
  BY SatisfiedFields DEF SatisfiedEffect, Sound, State
<1> HIDE DEF t
<1>2. Waiting(t) = Waiting(s) \ {i}
  BY <1>1 DEF Waiting
<1>3. i \in Waiting(s) /\ Waiting(s) \in SUBSET Proc
  BY DEF Waiting, CanSatisfy
<1>4. Cardinality(Waiting(t)) < Cardinality(Waiting(s))
  BY <1>2, <1>3, CountLess
<1> QED  BY <1>4 DEF t

LEMMA TrySatisfySettles ==
  ASSUME NEW s, Sound(s)
  PROVE  \A i \in Proc : ~ CanSatisfy(TrySatisfy(s), i)
<1> DEFINE S == {l \in [s : State, i : Proc] : Sound(l.s)}
           start == [s |-> s, i |-> 0]
           h == [k \in Nat |-> Iterate(Scan, start, k)]
           pos == [k \in Nat |-> h[k].i]
           d == [k \in Nat |-> h[k].s]
           Q == [i \in Proc |-> {t \in State : CanSatisfy(t, i)}]
           m == [k \in Nat |-> Cardinality(Waiting(d[k]))]
<1>1. start \in S
  BY ProcFacts DEF Sound
<1>2. ASSUME NEW l \in S
      PROVE  /\ Scan[l] \in S /\ Scan[l].i = NextProc(l.i)
             /\ CanSatisfy(l.s, l.i) => Scan[l].s = Satisfied(l.s, l.i)
             /\ ~ CanSatisfy(l.s, l.i) => Scan[l].s = l.s
  <2>1. l = [s |-> l.s, i |-> l.i] /\ Sound(l.s) /\ l.i \in Proc
    OBVIOUS
  <2>2. LET r == Scan[[s |-> l.s, i |-> l.i]]
        IN  /\ r \in [s : State, i : Proc] /\ Sound(r.s) /\ r.i = NextProc(l.i)
            /\ CanSatisfy(l.s, l.i) => r.s = Satisfied(l.s, l.i)
            /\ ~ CanSatisfy(l.s, l.i) => r.s = l.s
    BY <2>1, ScanTurn
  <2>3. Scan[l] = Scan[[s |-> l.s, i |-> l.i]]
    BY <2>1, Zenon
  <2> QED  BY <2>2, <2>3
<1>3. /\ \A k \in Nat : h[k] \in S
      /\ \A k \in Nat : h[k + 1] = Scan[h[k]]
      /\ h[0] = start
  <2>1. \A l \in S : Scan[l] \in S
    BY <1>2
  <2> DEFINE it(k) == Iterate(Scan, start, k)
  <2>2. /\ it(0) = start
        /\ \A k \in Nat : it(k) \in S
        /\ \A k \in Nat : it(k + 1) = Scan[it(k)]
    <3> HIDE DEF S, start
    <3> QED  BY <1>1, <2>1, IterateSteps
  <2>3. \A k \in Nat : h[k] = it(k) /\ k + 1 \in Nat
    OBVIOUS
  <2> HIDE DEF it, S, start, h
  <2> QED  BY <2>2, <2>3
<1>4. h[N * N] = Iterate(Scan, start, N * N)
  BY ProcFacts
<1>5. \A k \in Nat : pos[k] = h[k].i /\ d[k] = h[k].s /\ m[k] = Cardinality(Waiting(d[k]))
  OBVIOUS
<1> HIDE DEF h
<1>6. Turns(N, State, pos, d, Q, m)
  <2>1. pos \in [Nat -> 0 .. N - 1]
    BY <1>3 DEF Proc
  <2>2. d \in [Nat -> State]
    BY <1>3
  <2>3. m \in [Nat -> Nat]
    <3>1. ASSUME NEW t PROVE Cardinality(Waiting(t)) \in Nat
      <4>1. Waiting(t) \in SUBSET Proc
        BY DEF Waiting
      <4> QED  BY <4>1, CountBound
    <3> HIDE DEF d
    <3> QED  BY <3>1
  <2>4. ASSUME NEW k \in Nat
        PROVE  /\ pos[k + 1] = IF pos[k] = N - 1 THEN 0 ELSE pos[k] + 1
               /\ d[k] \notin Q[pos[k]] => d[k + 1] = d[k] /\ m[k + 1] = m[k]
               /\ d[k] \in Q[pos[k]] => m[k + 1] < m[k]
    <3>1. k + 1 \in Nat /\ h[k] \in S /\ h[k + 1] = Scan[h[k]]
      BY <1>3
    <3>2. Sound(d[k]) /\ d[k] \in State /\ pos[k] \in Proc
      BY <3>1
    <3>3. /\ pos[k + 1] = NextProc(pos[k])
          /\ CanSatisfy(d[k], pos[k]) => d[k + 1] = Satisfied(d[k], pos[k])
          /\ ~ CanSatisfy(d[k], pos[k]) => d[k + 1] = d[k]
      <4> HIDE DEF S
      <4> QED  BY <1>2, <1>5, <3>1
    <3>4. d[k] \in Q[pos[k]] <=> CanSatisfy(d[k], pos[k])
      <4> HIDE DEF d, pos
      <4> QED  BY <3>2
    <3>5. m[k] = Cardinality(Waiting(d[k])) /\ m[k + 1] = Cardinality(Waiting(d[k + 1]))
      BY <3>1
    <3> HIDE DEF pos, d, m, Q, S
    <3> QED  BY <3>2, <3>3, <3>4, <3>5, ServedCount DEF NextProc
  <2> HIDE DEF pos, d, m, Q
  <2> QED  BY <2>1, <2>2, <2>3, <2>4 DEF Turns
<1>7. pos[0] = 0 /\ m[0] <= N
  <2>1. Waiting(d[0]) \in SUBSET Proc
    BY DEF Waiting
  <2> QED  BY <1>3, <1>5, <2>1, CountBound
<1>8. Settled(N, Q, d[N * N])
  <2> HIDE DEF pos, d, m, Q
  <2> QED  BY <1>6, <1>7, RsmAssumption, PassesSettle
<1>9. d[N * N] = TrySatisfy(s) /\ d[N * N] \in State
  BY <1>3, <1>4, <1>5, ProcFacts DEF TrySatisfy
<1> HIDE DEF d
<1> QED  BY <1>8, <1>9 DEF Settled, Proc

-----------------------------------------------------------------------------
(* The loop of is_safe and rsm_detection leaves unfinished only processes  *)
(* that wait for each other.                                               *)

Unfinished(b) == {i \in Proc : ~ b.finish[i]}

LEMMA FinishCount ==
  ASSUME NEW b, b.finish \in [Proc -> BOOLEAN], NEW i \in Proc, ~ b.finish[i],
         NEW e, e.finish = [b.finish EXCEPT ![i] = TRUE]
  PROVE  Cardinality(Unfinished(e)) < Cardinality(Unfinished(b))
<1>1. Unfinished(e) = Unfinished(b) \ {i}
  BY DEF Unfinished
<1>2. i \in Unfinished(b) /\ Unfinished(b) \in SUBSET Proc
  BY DEF Unfinished
<1> QED  BY <1>1, <1>2, CountLess

LEMMA SweepSettles ==
  ASSUME NEW work \in Vectors, NEW finish \in [Proc -> BOOLEAN], NEW want, NEW held \in Matrix
  PROVE  LET l == Iterate(Visit(want, held), [i |-> 0, work |-> work, finish |-> finish], N * N)
         IN  /\ Swept(l, work, finish, held)
             /\ \A i \in Proc : l.finish[i] \/ ~ (want[i] \preceq l.work)
<1> DEFINE S == {l \in Sweep : Swept(l, work, finish, held)}
           start == [i |-> 0, work |-> work, finish |-> finish]
           B == [work : [Res -> Int], finish : [Proc -> BOOLEAN]]
           it(k) == Iterate(Visit(want, held), start, k)
           h == [k \in Nat |-> it(k)]
           pos == [k \in Nat |-> h[k].i]
           d == [k \in Nat |-> [work |-> h[k].work, finish |-> h[k].finish]]
           Q == [i \in Proc |-> {b \in B : ~ b.finish[i] /\ want[i] \preceq b.work}]
           m == [k \in Nat |-> Cardinality(Unfinished(d[k]))]
<1>1. start \in S
  BY StartSwept DEF Swept
<1>2. ASSUME NEW l \in S
      PROVE  Visit(want, held)[l] \in S /\ VisitEffect(l, want, held, Visit(want, held)[l])
  <2>1. l \in Sweep /\ Swept(l, work, finish, held)
    OBVIOUS
  <2>2. VisitEffect(l, want, held, Visit(want, held)[l])
    BY <2>1, VisitFields
  <2>3. Swept(Visit(want, held)[l], work, finish, held)
    BY <2>1, VisitSwept
  <2> QED  BY <2>2, <2>3 DEF Swept
<1>3. /\ \A k \in Nat : h[k] \in S
      /\ \A k \in Nat : h[k + 1] = Visit(want, held)[h[k]]
      /\ h[0] = start
  <2>1. \A l \in S : Visit(want, held)[l] \in S
    BY <1>2
  <2>2. /\ it(0) = start
        /\ \A k \in Nat : it(k) \in S
        /\ \A k \in Nat : it(k + 1) = Visit(want, held)[it(k)]
    <3> HIDE DEF S, start
    <3> QED  BY <1>1, <2>1, IterateSteps
  <2>3. \A k \in Nat : h[k] = it(k) /\ k + 1 \in Nat
    OBVIOUS
  <2> HIDE DEF it, S, start, h
  <2> QED  BY <2>2, <2>3
<1>4. h[N * N] = Iterate(Visit(want, held), start, N * N)
  BY ProcFacts
<1> HIDE DEF h
<1>5. \A k \in Nat : /\ pos[k] = h[k].i /\ d[k].work = h[k].work /\ d[k].finish = h[k].finish
                     /\ d[k] = [work |-> h[k].work, finish |-> h[k].finish]
                     /\ m[k] = Cardinality(Unfinished(d[k]))
  OBVIOUS
<1>6. ASSUME NEW k \in Nat
      PROVE  /\ h[k] \in Sweep /\ Swept(h[k], work, finish, held) /\ k + 1 \in Nat
             /\ h[k].i \in Proc /\ h[k].work \in [Res -> Int] /\ h[k].finish \in [Proc -> BOOLEAN]
             /\ VisitEffect(h[k], want, held, h[k + 1])
  <2>1. h[k] \in S /\ h[k + 1] = Visit(want, held)[h[k]] /\ k + 1 \in Nat
    BY <1>3
  <2>2. VisitEffect(h[k], want, held, h[k + 1])
    <3> HIDE DEF S
    <3> QED  BY <1>2, <2>1
  <2> QED  BY <2>1, <2>2 DEF Sweep
<1>7. Turns(N, B, pos, d, Q, m)
  <2>1. pos \in [Nat -> 0 .. N - 1]
    BY <1>6 DEF Proc
  <2>2. d \in [Nat -> B]
    BY <1>6
  <2>3. m \in [Nat -> Nat]
    <3>1. ASSUME NEW b PROVE Cardinality(Unfinished(b)) \in Nat
      <4>1. Unfinished(b) \in SUBSET Proc
        BY DEF Unfinished
      <4> QED  BY <4>1, CountBound
    <3> HIDE DEF d
    <3> QED  BY <3>1
  <2>4. ASSUME NEW k \in Nat
        PROVE  /\ pos[k + 1] = IF pos[k] = N - 1 THEN 0 ELSE pos[k] + 1
               /\ d[k] \notin Q[pos[k]] => d[k + 1] = d[k] /\ m[k + 1] = m[k]
               /\ d[k] \in Q[pos[k]] => m[k + 1] < m[k]
    <3>1. /\ pos[k] \in Proc /\ d[k] \in B /\ k + 1 \in Nat
          /\ d[k].finish \in [Proc -> BOOLEAN]
      BY <1>6
    <3>2. d[k] \in Q[pos[k]] <=> Fits(h[k], want)
      <4>1. Fits(h[k], want) <=> ~ d[k].finish[pos[k]] /\ want[pos[k]] \preceq d[k].work
        BY <1>5 DEF Fits
      <4> HIDE DEF d, pos, B
      <4> QED  BY <3>1, <4>1
    <3>3. VisitEffect(h[k], want, held, h[k + 1])
      BY <1>6
    <3>4. pos[k + 1] = NextProc(pos[k])
      BY <1>5, <3>1, <3>3 DEF VisitEffect
    <3>5. CASE ~ Fits(h[k], want)
      <4>1. h[k + 1].work = h[k].work /\ h[k + 1].finish = h[k].finish
        BY <3>3, <3>5 DEF VisitEffect
      <4>2. d[k + 1] = d[k]
        BY <1>5, <3>1, <4>1
      <4>3. m[k + 1] = m[k]
        <5> HIDE DEF d
        <5> QED  BY <3>1, <4>2
      <4> HIDE DEF d, m, pos, Q
      <4> QED  BY <3>2, <3>4, <3>5, <4>2, <4>3 DEF NextProc
    <3>6. CASE Fits(h[k], want)
      <4>1. d[k + 1].finish = [d[k].finish EXCEPT ![pos[k]] = TRUE] /\ ~ d[k].finish[pos[k]]
        BY <1>5, <3>1, <3>3, <3>6 DEF VisitEffect, Fits
      <4>2. m[k] = Cardinality(Unfinished(d[k])) /\ m[k + 1] = Cardinality(Unfinished(d[k + 1]))
        BY <1>5, <3>1
      <4> HIDE DEF d, m, pos, Q, B
      <4>3. m[k + 1] < m[k]
        BY <3>1, <4>1, <4>2, FinishCount
      <4> QED  BY <3>2, <3>4, <3>6, <4>3 DEF NextProc
    <3> QED  BY <3>5, <3>6
  <2> HIDE DEF pos, d, m, Q, B
  <2> QED  BY <2>1, <2>2, <2>3, <2>4 DEF Turns
<1>8. pos[0] = 0 /\ m[0] <= N
  <2>1. Unfinished(d[0]) \in SUBSET Proc
    BY DEF Unfinished
  <2>2. pos[0] = 0
    BY <1>3, <1>5
  <2> HIDE DEF d
  <2> QED  BY <2>1, <2>2, CountBound
<1>9. Settled(N, Q, d[N * N])
  <2> HIDE DEF pos, d, m, Q, B
  <2> QED  BY <1>7, <1>8, RsmAssumption, PassesSettle
<1>10. /\ d[N * N] \in B
       /\ d[N * N].work = h[N * N].work /\ d[N * N].finish = h[N * N].finish
       /\ Swept(h[N * N], work, finish, held)
  BY <1>6, ProcFacts
<1>11. \A i \in Proc : d[N * N].finish[i] \/ ~ (want[i] \preceq d[N * N].work)
  <2> HIDE DEF d, B
  <2> QED  BY <1>9, <1>10 DEF Settled, Proc
<1> HIDE DEF d, start
<1>12. \A i \in Proc : h[N * N].finish[i] \/ ~ (want[i] \preceq h[N * N].work)
  BY <1>10, <1>11
<1> QED  BY <1>4, <1>10, <1>12 DEF start

\* The processes Reduce leaves: none had finished before, and none could have
\* what it wants if all the others gave back what they hold.
Left(work, finish, want, held) == {i \in Proc : ~ Reduce(work, finish, want, held)[i]}

LeftWait(U, work, finish, want, held) ==
  \A i \in U :
    /\ i \in Proc /\ ~ finish[i]
    /\ \E j \in Res :
         ~ (want[i][j] <= work[j] + Total([k \in Proc |-> IF k \in U THEN 0 ELSE held[k][j]], N))

LEMMA ReduceComplete ==
  ASSUME NEW work \in Vectors, NEW finish \in [Proc -> BOOLEAN], NEW want, NEW held \in Matrix,
         \A k \in Proc : finish[k] => held[k] = Zero
  PROVE  LeftWait(Left(work, finish, want, held), work, finish, want, held)
<1> DEFINE U == Left(work, finish, want, held)
           l == Iterate(Visit(want, held), [i |-> 0, work |-> work, finish |-> finish], N * N)
<1>1. /\ Swept(l, work, finish, held)
      /\ \A i \in Proc : l.finish[i] \/ ~ (want[i] \preceq l.work)
  BY SweepSettles
<1>2. U = {i \in Proc : ~ l.finish[i]}
  BY DEF Reduce, Left
<1> HIDE DEF l, U
<1>3. ASSUME NEW j \in Res
      PROVE  l.work[j] = work[j] + Total([k \in Proc |-> IF k \in U THEN 0 ELSE held[k][j]], N)
  <2>1. ASSUME NEW k \in Proc
        PROVE  (IF l.finish[k] /\ ~ finish[k] THEN held[k][j] ELSE 0)
                 = IF k \in U THEN 0 ELSE held[k][j]
    <3>1. finish[k] => held[k][j] = 0
      BY DEF Zero
    <3> QED  BY <1>2, <3>1
  <2>2. Done(l, finish, held, j) = [k \in Proc |-> IF k \in U THEN 0 ELSE held[k][j]]
    BY <2>1 DEF Done
  <2> QED  BY <1>1, <2>2, Zenon DEF Swept
<1>4. ASSUME NEW i \in U
      PROVE  i \in Proc /\ ~ finish[i] /\ \E j \in Res : ~ (want[i][j] <= l.work[j])
  BY <1>1, <1>2 DEF Swept, \preceq
<1>5. LeftWait(U, work, finish, want, held)
  BY <1>3, <1>4 DEF LeftWait
<1> QED  BY <1>5 DEF U

-----------------------------------------------------------------------------
(* is_safe and rsm_detection decide what they are meant to decide.         *)

\* An id nobody is registered under holds nothing.
IdleHoldNothing(s) == \A i \in Proc : ~ Active(s, i) => s.allocation[i] = Zero

\* is_safe accepts every grant that leaves no set of processes waiting for each
\* other.
LEMMA IsSafeComplete ==
  ASSUME NEW s \in State, NEW i \in Proc, Active(s, i), IdleHoldNothing(s),
         NEW req \in Vectors, req \preceq s.available, req \preceq s.need[i],
         Avoid, Safe(Granted(s, i, req))
  PROVE  is_safe(s, i, req)
<1> DEFINE t == Granted(s, i, req)
           idle == [k \in Proc |-> ~ Active(s, k)]
           U == Left(t.available, idle, t.need, t.allocation)
<1>1. t \in State /\ GrantedEffect(s, i, req, t)
  BY GrantedType, GrantedFields
<1> HIDE DEF t
<1>2. t.available \in Vectors /\ t.allocation \in Matrix
  BY <1>1 DEF State, Vectors
<1>3. idle \in [Proc -> BOOLEAN] /\ \A k \in Proc : idle[k] = ~ Active(s, k)
  BY DEF Active
<1>4. ASSUME NEW k \in Proc, idle[k] PROVE t.allocation[k] = Zero
  <2>1. k # i /\ s.allocation[k] = Zero
    BY <1>3, <1>4 DEF IdleHoldNothing
  <2>2. s.allocation \in Matrix
    BY DEF State
  <2> QED  BY <1>1, <2>1, <2>2 DEF GrantedEffect, Matrix
<1> HIDE DEF idle
<1>5. \A k \in U : /\ k \in Proc /\ ~ idle[k]
                   /\ \E j \in Res :
                        ~ (t.need[k][j] <= t.available[j]
                             + Total([m \in Proc |-> IF m \in U THEN 0 ELSE t.allocation[m][j]], N))
  <2>1. LeftWait(U, t.available, idle, t.need, t.allocation)
    BY <1>2, <1>3, <1>4, ReduceComplete
  <2> HIDE DEF U
  <2> QED  BY <2>1 DEF LeftWait
<1> HIDE DEF U
<1>6. U = {}
  <2>1. SUFFICES ASSUME U # {} PROVE FALSE
    OBVIOUS
  <2>2. \A k \in U : Active(t, k) /\ ~ (t.need[k] \preceq Free(t, U))
    BY <1>1, <1>3, <1>5 DEF GrantedEffect, Active, Free, \preceq
  <2>3. Stuck(t, U, t.need) /\ U \in SUBSET Proc
    BY <1>5, <2>1, <2>2 DEF Stuck
  <2> QED  BY <2>3 DEF Safe, t
<1>7. \A k \in Proc : Reduce(t.available, idle, t.need, t.allocation)[k]
  BY <1>6 DEF U, Left
<1>8. /\ t.available = s.available \ominus req
      /\ t.allocation = [s.allocation EXCEPT ![i] = @ \oplus req]
      /\ t.need = [s.need EXCEPT ![i] = @ \ominus req]
  BY <1>1 DEF GrantedEffect
<1>9. \A k \in Proc :
        Reduce(s.available \ominus req, idle, [s.need EXCEPT ![i] = @ \ominus req],
               [s.allocation EXCEPT ![i] = @ \oplus req])[k]
  BY <1>7, <1>8, Zenon
<1> QED  BY <1>9, Zenon DEF is_safe, idle

\* The sets of processes that hold something and wait for each other.
Knots(s) == {D \in SUBSET {i \in Proc : s.allocation[i] # Zero} : Stuck(s, D, s.request)}

LEMMA DetectionFinds ==
  ASSUME NEW s \in State, IdleHoldNothing(s)
  PROVE  Deadlocked(s) = UNION Knots(s) /\ (Deadlocked(s) # {} => Deadlocked(s) \in Knots(s))
<1> DEFINE aside == [k \in Proc |-> ~ Active(s, k) \/ s.allocation[k] = Zero]
           U == Left(s.available, aside, s.request, s.allocation)
<1>1. Deadlocked(s) = U
  BY DEF Deadlocked, Left
<1>2. /\ s.available \in Vectors /\ s.allocation \in Matrix
      /\ s.request \in [Proc -> [Res -> Int]]
  BY DEF State, Vectors, Matrix
<1>3. /\ aside \in [Proc -> BOOLEAN]
      /\ \A k \in Proc : aside[k] <=> ~ Active(s, k) \/ s.allocation[k] = Zero
  BY DEF Active
<1>4. \A k \in Proc : aside[k] => s.allocation[k] = Zero
  BY <1>3 DEF IdleHoldNothing
<1> HIDE DEF aside
<1>5. \A k \in U : /\ k \in Proc /\ ~ aside[k]
                   /\ \E j \in Res :
                        ~ (s.request[k][j] <= s.available[j]
                             + Total([m \in Proc |-> IF m \in U THEN 0 ELSE s.allocation[m][j]], N))
  <2>1. LeftWait(U, s.available, aside, s.request, s.allocation)
    BY <1>2, <1>3, <1>4, ReduceComplete
  <2> HIDE DEF U
  <2> QED  BY <2>1 DEF LeftWait
<1>6. ASSUME NEW D \in Knots(s) PROVE D \subseteq U
  <2>1. D \in SUBSET Proc /\ \A k \in D : s.allocation[k] # Zero /\ Active(s, k)
    BY DEF Knots, Stuck
  <2>2. \A k \in D : \E j \in Res :
          ~ (s.request[k][j] <= s.available[j]
               + Total([m \in Proc |-> IF m \in D THEN 0 ELSE s.allocation[m][j]], N))
    BY DEF Knots, Stuck, \preceq, Free
  <2>3. \A k \in D : ~ aside[k]
    BY <1>3, <2>1
  <2>4. \A k \in D : ~ Reduce(s.available, aside, s.request, s.allocation)[k]
    BY <1>2, <1>3, <2>1, <2>2, <2>3, ReduceSound
  <2> QED  BY <2>1, <2>4 DEF Left
<1> HIDE DEF U
<1>7. U # {} => U \in Knots(s)
  <2>1. \A k \in U : Active(s, k) /\ ~ (s.request[k] \preceq Free(s, U))
    BY <1>3, <1>5 DEF Free, \preceq
  <2>2. \A k \in U : k \in Proc /\ s.allocation[k] # Zero
    BY <1>3, <1>5
  <2> QED  BY <2>1, <2>2 DEF Knots, Stuck
<1>8. UNION Knots(s) = U
  <2>1. UNION Knots(s) \subseteq U
    BY <1>6
  <2>2. U \subseteq UNION Knots(s)
    BY <1>7
  <2> QED  BY <2>1, <2>2
<1> QED  BY <1>1, <1>7, <1>8

-----------------------------------------------------------------------------
(* What a handler leaves in the entries of one id, and of the others.      *)

Entry(s, i) ==
  [ allocation  |-> s.allocation[i],  request |-> s.request[i],
    waiting     |-> s.waiting[i],     sem     |-> s.process_sem[i],
    pid         |-> s.apid_to_pid[i] ]

Enters(s, i, e, t) ==
  t \in State /\ \A k \in Proc : Entry(t, k) = IF k = i THEN e ELSE Entry(s, k)

LEMMA StartedEntry ==
  ASSUME NEW s \in State, NEW i \in Proc, NEW p \in Pid
  PROVE  Enters(s, i, [ allocation |-> s.allocation[i], request |-> Zero, waiting |-> FALSE,
                        sem |-> s.process_sem[i], pid |-> p ], Started(s, i, p))
<1>1. StartedEffect(s, i, p, Started(s, i, p))
  BY StartedFields
<1>2. /\ Started(s, i, p).waiting = [s.waiting EXCEPT ![i] = FALSE]
      /\ Started(s, i, p).process_sem = s.process_sem
  BY DEF Started, State
<1> QED  BY <1>1, <1>2, ZenonT(60) DEF StartedEffect, Enters, Entry, State, Matrix

LEMMA EndedEntry ==
  ASSUME NEW s \in State, NEW i \in Proc
  PROVE  Enters(s, i, [ allocation |-> Zero, request |-> Zero, waiting |-> FALSE,
                        sem |-> s.process_sem[i], pid |-> NoPid ], Ended(s, i))
<1>1. EndedEffect(s, i, Ended(s, i))
  BY EndedFields
<1>2. /\ Ended(s, i).waiting = [s.waiting EXCEPT ![i] = FALSE]
      /\ Ended(s, i).process_sem = s.process_sem
  BY DEF Ended, State
<1> DEFINE t == Ended(s, i)
<1>3. /\ t.allocation = [s.allocation EXCEPT ![i] = Zero] /\ s.allocation \in Matrix
      /\ t.request = [s.request EXCEPT ![i] = Zero] /\ s.request \in Matrix
      /\ t.apid_to_pid = [s.apid_to_pid EXCEPT ![i] = NoPid]
      /\ s.apid_to_pid \in [Proc -> Pid \cup {NoPid}]
      /\ s.waiting \in [Proc -> BOOLEAN]
      /\ t \in State
  BY <1>1 DEF EndedEffect, State
<1> HIDE DEF t
<1>4. ASSUME NEW k \in Proc
      PROVE  Entry(t, k) = IF k = i THEN [ allocation |-> Zero, request |-> Zero, waiting |-> FALSE,
                                           sem |-> s.process_sem[i], pid |-> NoPid ]
                           ELSE Entry(s, k)
  BY <1>2, <1>3 DEF Entry, Matrix, t
<1> QED  BY <1>3, <1>4 DEF Enters, t

LEMMA ClaimedEntry ==
  ASSUME NEW s \in State, NEW i \in Proc, NEW claim \in Vectors
  PROVE  Enters(s, i, Entry(s, i), Claimed(s, i, claim))
<1>1. ClaimedEffect(s, i, claim, Claimed(s, i, claim))
  BY ClaimedFields
<1>2. /\ Claimed(s, i, claim).waiting = s.waiting
      /\ Claimed(s, i, claim).process_sem = s.process_sem
  BY DEF Claimed, State
<1> QED  BY <1>1, <1>2 DEF ClaimedEffect, Enters, Entry

LEMMA RequestedEntry ==
  ASSUME NEW s \in State, NEW i \in Proc, NEW req \in Vectors
  PROVE  Enters(s, i, [ allocation |-> s.allocation[i], request |-> req, waiting |-> s.waiting[i],
                        sem |-> s.process_sem[i], pid |-> s.apid_to_pid[i] ], Requested(s, i, req))
<1>1. RequestedEffect(s, i, req, Requested(s, i, req))
  BY RequestedFields
<1>2. /\ Requested(s, i, req).waiting = s.waiting
      /\ Requested(s, i, req).process_sem = s.process_sem
  BY DEF Requested, State
<1> QED  BY <1>1, <1>2 DEF RequestedEffect, Enters, Entry, State, Matrix

LEMMA GrantedEntry ==
  ASSUME NEW s \in State, NEW i \in Proc, NEW req, Granted(s, i, req) \in State
  PROVE  Enters(s, i, [ allocation |-> s.allocation[i] \oplus req, request |-> Zero,
                        waiting |-> s.waiting[i], sem |-> s.process_sem[i],
                        pid |-> s.apid_to_pid[i] ], Granted(s, i, req))
<1>1. GrantedEffect(s, i, req, Granted(s, i, req))
  BY GrantedFields
<1> QED  BY <1>1 DEF GrantedEffect, Enters, Entry, State, Matrix

LEMMA ReleasedEntry ==
  ASSUME NEW s \in State, NEW i \in Proc, NEW rel, Released(s, i, rel) \in State
  PROVE  Enters(s, i, [ allocation |-> s.allocation[i] \ominus rel, request |-> s.request[i],
                        waiting |-> s.waiting[i], sem |-> s.process_sem[i],
                        pid |-> s.apid_to_pid[i] ], Released(s, i, rel))
<1>1. ReleasedEffect(s, i, rel, Released(s, i, rel))
  BY ReleasedFields
<1>2. /\ Released(s, i, rel).waiting = s.waiting
      /\ Released(s, i, rel).process_sem = s.process_sem
  BY DEF Released, State
<1> QED  BY <1>1, <1>2 DEF ReleasedEffect, Enters, Entry, State, Matrix

\* The entry of a waiter that was given what it asked for.
Served(e) ==
  [ allocation |-> e.allocation \oplus e.request, request |-> Zero, waiting |-> FALSE,
    sem |-> e.sem + 1, pid |-> e.pid ]

LEMMA SatisfiedEntry ==
  ASSUME NEW s, Sound(s), NEW i \in Proc, CanSatisfy(s, i)
  PROVE  Enters(s, i, Served(Entry(s, i)), Satisfied(s, i))
<1>1. SatisfiedEffect(s, i, Satisfied(s, i)) /\ s \in State
  BY SatisfiedFields DEF Sound
<1> QED  BY <1>1 DEF SatisfiedEffect, Enters, Entry, Served, State, Matrix

\* What every grant of try_satisfy_waiting keeps, the whole scan keeps.
LEMMA TrySatisfyInvariant ==
  ASSUME NEW T, \A u \in T : Sound(u),
         \A u \in T : \A i \in Proc : CanSatisfy(u, i) => Satisfied(u, i) \in T,
         NEW s \in T
  PROVE  TrySatisfy(s) \in T
<1> DEFINE S == {l \in [s : State, i : Proc] : l.s \in T}
           start == [s |-> s, i |-> 0]
<1>1. start \in S
  BY ProcFacts DEF Sound
<1>2. ASSUME NEW l \in S PROVE Scan[l] \in S
  <2>1. l = [s |-> l.s, i |-> l.i] /\ Sound(l.s) /\ l.s \in T /\ l.i \in Proc
    OBVIOUS
  <2>2. LET r == Scan[[s |-> l.s, i |-> l.i]]
        IN  /\ r \in [s : State, i : Proc] /\ Sound(r.s) /\ r.i = NextProc(l.i)
            /\ CanSatisfy(l.s, l.i) => r.s = Satisfied(l.s, l.i)
            /\ ~ CanSatisfy(l.s, l.i) => r.s = l.s
    BY <2>1, ScanTurn
  <2>3. Scan[l] = Scan[[s |-> l.s, i |-> l.i]]
    BY <2>1, Zenon
  <2> QED  BY <2>1, <2>2, <2>3
<1> HIDE DEF S, start
<1>3. Iterate(Scan, start, N * N) \in S
  BY <1>1, <1>2, ProcFacts, IterateInvariant
<1> QED  BY <1>3 DEF S, start, TrySatisfy

\* Every id is left as it was, or it waited and was served once.
ServedFrom(s, t) ==
  \A k \in Proc :
    \/ Entry(t, k) = Entry(s, k)
    \/ s.waiting[k] /\ Entry(t, k) = Served(Entry(s, k))

LEMMA TrySatisfyServes ==
  ASSUME NEW s, Sound(s)
  PROVE  ServedFrom(s, TrySatisfy(s))
<1> DEFINE T == {u \in State : Sound(u) /\ ServedFrom(s, u)}
<1>1. s \in T
  BY DEF Sound, ServedFrom
<1>2. ASSUME NEW u \in T, NEW i \in Proc, CanSatisfy(u, i) PROVE Satisfied(u, i) \in T
  <2>1. Sound(u) /\ ServedFrom(s, u)
    OBVIOUS
  <2>2. Enters(u, i, Served(Entry(u, i)), Satisfied(u, i)) /\ Sound(Satisfied(u, i))
    BY <1>2, <2>1, SatisfiedEntry, SatisfiedSound
  <2>3. ASSUME NEW k \in Proc
        PROVE  \/ Entry(Satisfied(u, i), k) = Entry(s, k)
               \/ s.waiting[k] /\ Entry(Satisfied(u, i), k) = Served(Entry(s, k))
    <3>1. CASE k # i
      BY <2>1, <2>2, <3>1 DEF Enters, ServedFrom
    <3>2. CASE k = i
      <4>1. u.waiting[i]
        BY <1>2 DEF CanSatisfy
      <4>2. Entry(u, i).waiting = u.waiting[i] /\ Entry(s, i).waiting = s.waiting[i]
        BY DEF Entry
      <4>3. Served(Entry(s, i)).waiting = FALSE
        BY DEF Served
      <4>4. Entry(u, i) = Entry(s, i)
        BY <2>1, <4>1, <4>2, <4>3 DEF ServedFrom
      <4> QED  BY <2>2, <3>2, <4>1, <4>2, <4>4 DEF Enters
    <3> QED  BY <3>1, <3>2
  <2> QED  BY <2>2, <2>3 DEF ServedFrom, Sound
<1>3. \A u \in T : Sound(u)
  OBVIOUS
<1> HIDE DEF T
<1>4. TrySatisfy(s) \in T
  BY <1>1, <1>2, <1>3, TrySatisfyInvariant
<1> QED  BY <1>4 DEF T

-----------------------------------------------------------------------------
(* What the entries of an id say: who holds, who has a request recorded,   *)
(* and who waits for a post.                                               *)

Pending(s, i) == s.waiting[i] \/ s.process_sem[i] > 0

\* An id holds something only while it is registered, and has a request
\* recorded between calls only while that request waits.
Recorded(s) ==
  \A i \in Proc :
    /\ ~ Active(s, i) => s.allocation[i] = Zero
    /\ s.waiting[i] => Active(s, i) /\ s.request[i] \preceq Exist
    /\ ~ s.waiting[i] => s.request[i] = Zero

\* A live owner is blocked on its id exactly while the id waits or its one post
\* has not been taken.
Awaited(s, st, bl) ==
  /\ \A i \in Proc :
       /\ s.process_sem[i] <= IF s.waiting[i] THEN 0 ELSE 1
       /\ ~ Active(s, i) => ~ Pending(s, i)
       /\ Active(s, i) =>
            /\ st[s.apid_to_pid[i]] # "unborn"
            /\ Pending(s, i) /\ st[s.apid_to_pid[i]] = "live" => bl[s.apid_to_pid[i]] = i
  /\ \A p \in Pid : bl[p] # NoApid =>
       st[p] = "live" /\ s.apid_to_pid[bl[p]] = p /\ Pending(s, bl[p])

LEMMA RecordedEnters ==
  ASSUME NEW s, Recorded(s), NEW i \in Proc, NEW e, NEW t, Enters(s, i, e, t),
         e.pid = NoPid => e.allocation = Zero,
         e.waiting => e.pid # NoPid /\ e.request \preceq Exist,
         ~ e.waiting => e.request = Zero
  PROVE  Recorded(t)
<1> SUFFICES ASSUME NEW k \in Proc
             PROVE  /\ ~ Active(t, k) => t.allocation[k] = Zero
                    /\ t.waiting[k] => Active(t, k) /\ t.request[k] \preceq Exist
                    /\ ~ t.waiting[k] => t.request[k] = Zero
  BY DEF Recorded
<1>1. Entry(t, k) = IF k = i THEN e ELSE Entry(s, k)
  BY DEF Enters
<1>2. /\ Entry(t, k).allocation = t.allocation[k] /\ Entry(s, k).allocation = s.allocation[k]
      /\ Entry(t, k).request = t.request[k] /\ Entry(s, k).request = s.request[k]
      /\ Entry(t, k).waiting = t.waiting[k] /\ Entry(s, k).waiting = s.waiting[k]
      /\ Entry(t, k).pid = t.apid_to_pid[k] /\ Entry(s, k).pid = s.apid_to_pid[k]
  BY DEF Entry
<1> QED  BY <1>1, <1>2 DEF Recorded, Active

LEMMA RecordedServed ==
  ASSUME NEW s, Recorded(s), NEW t, ServedFrom(s, t)
  PROVE  Recorded(t)
<1> SUFFICES ASSUME NEW k \in Proc
             PROVE  /\ ~ Active(t, k) => t.allocation[k] = Zero
                    /\ t.waiting[k] => Active(t, k) /\ t.request[k] \preceq Exist
                    /\ ~ t.waiting[k] => t.request[k] = Zero
  BY DEF Recorded
<1>1. Entry(t, k) = Entry(s, k) \/ (s.waiting[k] /\ Entry(t, k) = Served(Entry(s, k)))
  BY DEF ServedFrom
<1>2. /\ Entry(t, k).allocation = t.allocation[k] /\ Entry(s, k).allocation = s.allocation[k]
      /\ Entry(t, k).request = t.request[k] /\ Entry(s, k).request = s.request[k]
      /\ Entry(t, k).waiting = t.waiting[k] /\ Entry(s, k).waiting = s.waiting[k]
      /\ Entry(t, k).pid = t.apid_to_pid[k] /\ Entry(s, k).pid = s.apid_to_pid[k]
  BY DEF Entry
<1>3. /\ Served(Entry(s, k)).request = Zero /\ Served(Entry(s, k)).waiting = FALSE
      /\ Served(Entry(s, k)).pid = Entry(s, k).pid
  BY DEF Served
<1> QED  BY <1>1, <1>2, <1>3 DEF Recorded, Active

\* A process that can make a call has no request waiting and no post left over.
LEMMA CallerCalm ==
  ASSUME NEW s \in State, NEW st, NEW bl, Awaited(s, st, bl), NEW i \in Proc,
         Active(s, i), st[s.apid_to_pid[i]] = "live", bl[s.apid_to_pid[i]] = NoApid
  PROVE  ~ Pending(s, i) /\ ~ s.waiting[i] /\ s.process_sem[i] = 0
<1>1. i # NoApid
  BY DEF Proc, NoApid
<1>2. ~ Pending(s, i)
  BY <1>1 DEF Awaited
<1>3. s.process_sem[i] \in Nat
  BY DEF State
<1> QED  BY <1>2, <1>3 DEF Pending

\* An entry with nothing pending is replaced by another with nothing pending.
LEMMA AwaitedCalm ==
  ASSUME NEW s \in State, NEW st, NEW bl \in [Pid -> Proc \cup {NoApid}], Awaited(s, st, bl),
         NEW i \in Proc, ~ Pending(s, i), NEW e, NEW t, Enters(s, i, e, t),
         ~ e.waiting, e.sem = 0, e.pid # NoPid => st[e.pid] # "unborn"
  PROVE  Awaited(t, st, bl)
<1>1. ASSUME NEW k \in Proc
      PROVE  /\ k = i => ~ t.waiting[k] /\ t.process_sem[k] = 0 /\ t.apid_to_pid[k] = e.pid
             /\ k # i => /\ t.waiting[k] = s.waiting[k] /\ t.process_sem[k] = s.process_sem[k]
                         /\ t.apid_to_pid[k] = s.apid_to_pid[k]
  <2>1. Entry(t, k) = IF k = i THEN e ELSE Entry(s, k)
    BY DEF Enters
  <2> QED  BY <2>1 DEF Entry
<1>2. ASSUME NEW k \in Proc
      PROVE  /\ t.process_sem[k] <= IF t.waiting[k] THEN 0 ELSE 1
             /\ ~ Active(t, k) => ~ Pending(t, k)
             /\ Active(t, k) =>
                  /\ st[t.apid_to_pid[k]] # "unborn"
                  /\ Pending(t, k) /\ st[t.apid_to_pid[k]] = "live" => bl[t.apid_to_pid[k]] = k
  <2>1. CASE k = i
    BY <1>1, <2>1 DEF Active, Pending
  <2>2. CASE k # i
    BY <1>1, <2>2 DEF Awaited, Active, Pending
  <2> QED  BY <2>1, <2>2
<1>3. ASSUME NEW p \in Pid, bl[p] # NoApid
      PROVE  st[p] = "live" /\ t.apid_to_pid[bl[p]] = p /\ Pending(t, bl[p])
  <2>1. st[p] = "live" /\ s.apid_to_pid[bl[p]] = p /\ Pending(s, bl[p]) /\ bl[p] \in Proc
    BY <1>3 DEF Awaited
  <2>2. bl[p] # i
    BY <2>1
  <2> QED  BY <1>1, <2>1, <2>2 DEF Pending
<1> QED  BY <1>2, <1>3 DEF Awaited

\* try_satisfy_waiting turns a waiting request into a post.
LEMMA AwaitedServed ==
  ASSUME NEW s \in State, NEW st, NEW bl \in [Pid -> Proc \cup {NoApid}], Awaited(s, st, bl),
         NEW t, ServedFrom(s, t)
  PROVE  Awaited(t, st, bl)
<1>1. ASSUME NEW k \in Proc
      PROVE  /\ t.process_sem[k] <= IF t.waiting[k] THEN 0 ELSE 1
             /\ Pending(t, k) <=> Pending(s, k)
             /\ t.apid_to_pid[k] = s.apid_to_pid[k]
  <2>1. Entry(t, k) = Entry(s, k) \/ (s.waiting[k] /\ Entry(t, k) = Served(Entry(s, k)))
    BY DEF ServedFrom
  <2>2. /\ Entry(t, k).waiting = t.waiting[k] /\ Entry(s, k).waiting = s.waiting[k]
        /\ Entry(t, k).sem = t.process_sem[k] /\ Entry(s, k).sem = s.process_sem[k]
        /\ Entry(t, k).pid = t.apid_to_pid[k] /\ Entry(s, k).pid = s.apid_to_pid[k]
    BY DEF Entry
  <2>3. /\ Served(Entry(s, k)).waiting = FALSE /\ Served(Entry(s, k)).sem = s.process_sem[k] + 1
        /\ Served(Entry(s, k)).pid = s.apid_to_pid[k]
    BY <2>2 DEF Served
  <2>4. s.process_sem[k] \in Nat /\ s.process_sem[k] <= IF s.waiting[k] THEN 0 ELSE 1
    BY DEF Awaited, State
  <2> QED  BY <2>1, <2>2, <2>3, <2>4 DEF Pending
<1>2. ASSUME NEW p \in Pid, bl[p] # NoApid
      PROVE  st[p] = "live" /\ t.apid_to_pid[bl[p]] = p /\ Pending(t, bl[p])
  <2>1. bl[p] \in Proc
    BY <1>2
  <2> QED  BY <1>1, <1>2, <2>1 DEF Awaited
<1>3. ASSUME NEW k \in Proc
      PROVE  /\ ~ Active(t, k) => ~ Pending(t, k)
             /\ Active(t, k) =>
                  /\ st[t.apid_to_pid[k]] # "unborn"
                  /\ Pending(t, k) /\ st[t.apid_to_pid[k]] = "live" => bl[t.apid_to_pid[k]] = k
  BY <1>1 DEF Awaited, Active
<1> QED  BY <1>1, <1>2, <1>3 DEF Awaited

\* A change that leaves the flags, the semaphores and the owners alone.
LEMMA AwaitedSame ==
  ASSUME NEW s, NEW st, NEW bl \in [Pid -> Proc \cup {NoApid}], Awaited(s, st, bl), NEW t,
         \A k \in Proc : /\ t.waiting[k] = s.waiting[k] /\ t.process_sem[k] = s.process_sem[k]
                         /\ t.apid_to_pid[k] = s.apid_to_pid[k]
  PROVE  Awaited(t, st, bl)
<1>1. \A k \in Proc : (Pending(t, k) <=> Pending(s, k)) /\ (Active(t, k) <=> Active(s, k))
  BY DEF Pending, Active
<1>2. \A p \in Pid : bl[p] # NoApid => bl[p] \in Proc
  OBVIOUS
<1> QED  BY <1>1, <1>2 DEF Awaited

-----------------------------------------------------------------------------
(* The handlers keep it.                                                   *)

Books == Recorded(g) /\ Awaited(g, status, blocked)

\* What is known of the caller of a library call and of its id.
LEMMA Caller ==
  ASSUME IInv, Books, NEW p \in Pid, NEW i \in Proc, Running(p), CurrentApid(p) = i
  PROVE  /\ Sound(g) /\ g \in State /\ Active(g, i) /\ g.apid_to_pid[i] = p
         /\ ~ Pending(g, i) /\ ~ g.waiting[i] /\ g.process_sem[i] = 0
         /\ blocked \in [Pid -> Proc \cup {NoApid}] /\ status[p] = "live"
         /\ g.request[i] = Zero
<1>1. Sound(g) /\ g \in State /\ blocked \in [Pid -> Proc \cup {NoApid}]
  BY DEF IInv, Sound, ProcessTypes
<1>2. Active(g, i) /\ g.apid_to_pid[i] = p
  BY CurrentApidMine
<1>3. status[p] = "live" /\ blocked[p] = NoApid
  BY DEF Running
<1>4. ~ Pending(g, i) /\ ~ g.waiting[i] /\ g.process_sem[i] = 0
  BY <1>1, <1>2, <1>3, CallerCalm DEF Books
<1>5. g.request[i] = Zero
  BY <1>4 DEF Books, Recorded
<1> QED  BY <1>1, <1>2, <1>3, <1>4, <1>5

LEMMA StartedBooks ==
  ASSUME IInv, Books, NEW p \in Pid, NEW i \in Proc, rsm_process_started(p, i)
  PROVE  Books'
<1> DEFINE e == [ allocation |-> g.allocation[i], request |-> Zero, waiting |-> FALSE,
                  sem |-> g.process_sem[i], pid |-> p ]
<1>1. /\ g \in State /\ g' = Started(g, i, p) /\ ~ Active(g, i)
      /\ status[p] = "live" /\ status' = status /\ blocked' = blocked
      /\ blocked \in [Pid -> Proc \cup {NoApid}] /\ p # NoPid
  BY RsmAssumption DEF IInv, Sound, ProcessTypes, rsm_process_started, Running
<1>2. Enters(g, i, e, g')
  BY <1>1, StartedEntry
<1>3. ~ Pending(g, i) /\ g.process_sem[i] = 0
  BY <1>1 DEF Books, Awaited, Pending, State
<1>4. ~ e.waiting /\ e.request = Zero /\ e.sem = 0 /\ e.pid = p
  BY <1>3
<1> HIDE DEF e
<1>5. Recorded(g')
  BY <1>1, <1>2, <1>4, RecordedEnters DEF Books
<1>6. Awaited(g', status, blocked)
  BY <1>1, <1>2, <1>3, <1>4, AwaitedCalm DEF Books
<1> QED  BY <1>1, <1>5, <1>6 DEF Books

LEMMA EndedBooks ==
  ASSUME IInv, Books, NEW p \in Pid, NEW i \in Proc, rsm_process_ended(p, i)
  PROVE  Books'
<1> DEFINE e == [ allocation |-> Zero, request |-> Zero, waiting |-> FALSE,
                  sem |-> g.process_sem[i], pid |-> NoPid ]
           t == Ended(g, i)
<1>1. /\ g' = TrySatisfy(t) /\ status' = status /\ blocked' = blocked
      /\ Running(p) /\ CurrentApid(p) = i
  BY DEF rsm_process_ended
<1>2. /\ Sound(g) /\ g \in State /\ ~ Pending(g, i) /\ g.process_sem[i] = 0
      /\ blocked \in [Pid -> Proc \cup {NoApid}]
  BY <1>1, Caller
<1>3. Enters(g, i, e, t) /\ Sound(t)
  BY <1>2, EndedEntry, EndedSound
<1>4. ~ e.waiting /\ e.request = Zero /\ e.sem = 0 /\ e.pid = NoPid /\ e.allocation = Zero
  BY <1>2
<1> HIDE DEF e, t
<1>5. Recorded(t) /\ Awaited(t, status, blocked)
  BY <1>2, <1>3, <1>4, RecordedEnters, AwaitedCalm DEF Books
<1>6. ServedFrom(t, g') /\ t \in State
  BY <1>1, <1>3, TrySatisfyServes DEF Sound
<1>7. Recorded(g') /\ Awaited(g', status, blocked)
  BY <1>2, <1>5, <1>6, RecordedServed, AwaitedServed
<1> QED  BY <1>1, <1>7 DEF Books

LEMMA ClaimBooks ==
  ASSUME IInv, Books, NEW p \in Pid, NEW i \in Proc, NEW v \in Vectors, rsm_claim(p, i, v)
  PROVE  Books'
<1>1. /\ g \in State /\ status' = status /\ blocked' = blocked
      /\ g' = Claimed(g, i, v) \/ g' = g
      /\ blocked \in [Pid -> Proc \cup {NoApid}]
  BY DEF IInv, Sound, ProcessTypes, rsm_claim
<1>2. CASE g' = g
  BY <1>1, <1>2 DEF Books, Recorded, Awaited, Active, Pending
<1>3. CASE g' = Claimed(g, i, v)
  <2>1. Enters(g, i, Entry(g, i), g')
    BY <1>1, <1>3, ClaimedEntry
  <2>2. ASSUME NEW k \in Proc
        PROVE  /\ g'.allocation[k] = g.allocation[k] /\ g'.request[k] = g.request[k]
               /\ g'.waiting[k] = g.waiting[k] /\ g'.process_sem[k] = g.process_sem[k]
               /\ g'.apid_to_pid[k] = g.apid_to_pid[k]
    <3>1. Entry(g', k) = Entry(g, k)
      BY <2>1 DEF Enters
    <3> QED  BY <3>1 DEF Entry
  <2>3. Recorded(g')
    BY <2>2 DEF Books, Recorded, Active
  <2>4. Awaited(g', status, blocked)
    BY <1>1, <2>2, AwaitedSame DEF Books
  <2> QED  BY <1>1, <2>3, <2>4 DEF Books
<1> QED  BY <1>1, <1>2, <1>3

LEMMA GrantBooks ==
  ASSUME IInv, Books, NEW p \in Pid, NEW i \in Proc, NEW v \in Vectors, RequestGranted(p, i, v)
  PROVE  Books'
<1> DEFINE t == Requested(g, i, v)
           d == [ allocation |-> g.allocation[i], request |-> v, waiting |-> g.waiting[i],
                  sem |-> g.process_sem[i], pid |-> g.apid_to_pid[i] ]
           e == [ allocation |-> t.allocation[i] \oplus v, request |-> Zero,
                  waiting |-> t.waiting[i], sem |-> t.process_sem[i], pid |-> t.apid_to_pid[i] ]
<1>1. /\ g' = Granted(t, i, v) /\ status' = status /\ blocked' = blocked
      /\ Running(p) /\ CurrentApid(p) = i
  BY DEF RequestGranted, Calls
<1>2. /\ Sound(g) /\ g \in State /\ ~ Pending(g, i) /\ ~ g.waiting[i] /\ g.process_sem[i] = 0
      /\ g.apid_to_pid[i] = p /\ status[p] = "live" /\ p # NoPid
      /\ blocked \in [Pid -> Proc \cup {NoApid}]
  BY <1>1, Caller, RsmAssumption
<1>3. g' \in State
  BY GrantStep DEF IInv, Sound
<1>4. Enters(g, i, d, t)
  BY <1>2, RequestedEntry
<1>5. Enters(t, i, e, g')
  BY <1>1, <1>3, <1>4, GrantedEntry DEF Enters
<1>6. Enters(g, i, e, g')
  BY <1>4, <1>5 DEF Enters
<1>7. ~ t.waiting[i] /\ t.process_sem[i] = 0 /\ t.apid_to_pid[i] = p
  <2>1. Entry(t, i) = d
    BY <1>4 DEF Enters
  <2> HIDE DEF t
  <2> QED  BY <1>2, <2>1 DEF Entry
<1>8. ~ e.waiting /\ e.request = Zero /\ e.sem = 0 /\ e.pid = p
  BY <1>7
<1> HIDE DEF e, t, d
<1>9. Recorded(g')
  BY <1>2, <1>6, <1>8, RecordedEnters DEF Books
<1>10. Awaited(g', status, blocked)
  BY <1>2, <1>6, <1>8, AwaitedCalm DEF Books
<1> QED  BY <1>1, <1>9, <1>10 DEF Books

LEMMA WaitBooks ==
  ASSUME IInv, Books, NEW p \in Pid, NEW i \in Proc, NEW v \in Vectors, RequestWaits(p, i, v)
  PROVE  Books'
<1> DEFINE t == Requested(g, i, v)
           e == [ allocation |-> g.allocation[i], request |-> v, waiting |-> TRUE,
                  sem |-> 0, pid |-> p ]
<1>1. /\ g' = [t EXCEPT !.waiting[i] = TRUE]
      /\ status' = status /\ blocked' = [blocked EXCEPT ![p] = i]
      /\ Running(p) /\ CurrentApid(p) = i /\ v \preceq Exist
  BY DEF RequestWaits, Calls, RequestRefused
<1>2. /\ Sound(g) /\ g \in State /\ ~ Pending(g, i) /\ ~ g.waiting[i] /\ g.process_sem[i] = 0
      /\ g.apid_to_pid[i] = p /\ status[p] = "live" /\ p # NoPid
      /\ blocked \in [Pid -> Proc \cup {NoApid}]
  BY <1>1, Caller, RsmAssumption
<1>3. Enters(g, i, [ allocation |-> g.allocation[i], request |-> v, waiting |-> g.waiting[i],
                     sem |-> g.process_sem[i], pid |-> g.apid_to_pid[i] ], t)
  BY <1>2, RequestedEntry
<1> HIDE DEF t
<1>4. g' \in State
  BY WaitStep DEF IInv, Sound
<1>5. t \in State
  BY <1>3 DEF Enters
<1>6. /\ g'.allocation = t.allocation /\ g'.request = t.request
      /\ g'.process_sem = t.process_sem /\ g'.apid_to_pid = t.apid_to_pid
      /\ g'.waiting = [t.waiting EXCEPT ![i] = TRUE] /\ t.waiting \in [Proc -> BOOLEAN]
  BY <1>1, <1>5 DEF State
<1>7. ASSUME NEW k \in Proc PROVE Entry(g', k) = IF k = i THEN e ELSE Entry(g, k)
  <2>1. Entry(t, k) = IF k = i THEN [ allocation |-> g.allocation[i], request |-> v,
                                      waiting |-> g.waiting[i], sem |-> g.process_sem[i],
                                      pid |-> g.apid_to_pid[i] ]
                      ELSE Entry(g, k)
    BY <1>3 DEF Enters
  <2> QED  BY <1>2, <1>6, <2>1 DEF Entry
<1>8. Enters(g, i, e, g')
  BY <1>4, <1>7 DEF Enters
<1>9. e.waiting /\ e.request = v /\ e.sem = 0 /\ e.pid = p
  OBVIOUS
<1> HIDE DEF e
<1>10. Recorded(g')
  BY <1>1, <1>2, <1>8, <1>9, RecordedEnters DEF Books
<1>11. ASSUME NEW k \in Proc
       PROVE  /\ k = i => g'.waiting[k] /\ g'.process_sem[k] = 0 /\ g'.apid_to_pid[k] = p
              /\ k # i => /\ g'.waiting[k] = g.waiting[k] /\ g'.process_sem[k] = g.process_sem[k]
                          /\ g'.apid_to_pid[k] = g.apid_to_pid[k]
  <2>1. Entry(g', k) = IF k = i THEN e ELSE Entry(g, k)
    BY <1>7
  <2>2. \A s : /\ Entry(s, k).waiting = s.waiting[k] /\ Entry(s, k).sem = s.process_sem[k]
               /\ Entry(s, k).pid = s.apid_to_pid[k]
    BY DEF Entry
  <2> QED  BY <1>9, <2>1, <2>2
<1>12. ASSUME NEW k \in Proc
       PROVE  /\ g'.process_sem[k] <= IF g'.waiting[k] THEN 0 ELSE 1
              /\ ~ Active(g', k) => ~ Pending(g', k)
              /\ Active(g', k) =>
                   /\ status'[g'.apid_to_pid[k]] # "unborn"
                   /\ Pending(g', k) /\ status'[g'.apid_to_pid[k]] = "live"
                        => blocked'[g'.apid_to_pid[k]] = k
  <2>1. CASE k = i
    <3>1. g'.waiting[k] /\ g'.process_sem[k] = 0 /\ g'.apid_to_pid[k] = p
      BY <1>11, <2>1
    <3>2. status'[p] = "live" /\ blocked'[p] = i
      BY <1>1, <1>2
    <3>3. Active(g', k)
      BY <1>2, <3>1 DEF Active
    <3> QED  BY <2>1, <3>1, <3>2, <3>3
  <2>2. CASE k # i
    <3>1. /\ g.process_sem[k] <= IF g.waiting[k] THEN 0 ELSE 1
          /\ ~ Active(g, k) => ~ Pending(g, k)
          /\ Active(g, k) =>
               /\ status[g.apid_to_pid[k]] # "unborn"
               /\ Pending(g, k) /\ status[g.apid_to_pid[k]] = "live"
                    => blocked[g.apid_to_pid[k]] = k
      BY DEF Books, Awaited
    <3>2. blocked[p] = NoApid /\ k # NoApid /\ status[p] = "live"
      <4>1. k # NoApid
        BY DEF Proc, NoApid
      <4> QED  BY <1>1, <4>1 DEF Running
    <3>3. g.apid_to_pid[k] = p => ~ (Pending(g, k) /\ Active(g, k))
      BY <1>2, <3>1, <3>2
    <3>4. (Pending(g', k) <=> Pending(g, k)) /\ (Active(g', k) <=> Active(g, k))
      BY <1>11, <2>2 DEF Pending, Active
    <3>5. g.apid_to_pid[k] \in Pid \/ ~ Active(g, k)
      BY <1>2 DEF State, Active
    <3> QED  BY <1>1, <1>2, <1>11, <2>2, <3>1, <3>3, <3>4, <3>5
  <2> QED  BY <2>1, <2>2
<1>13. ASSUME NEW q \in Pid, blocked'[q] # NoApid
       PROVE  /\ status'[q] = "live" /\ g'.apid_to_pid[blocked'[q]] = q
              /\ Pending(g', blocked'[q])
  <2>1. CASE q = p
    BY <1>1, <1>2, <1>11, <2>1 DEF Pending
  <2>2. CASE q # p
    <3>1. blocked'[q] = blocked[q] /\ blocked[q] \in Proc
      BY <1>1, <1>2, <1>13, <2>2
    <3>2. status[q] = "live" /\ g.apid_to_pid[blocked[q]] = q /\ Pending(g, blocked[q])
      BY <1>13, <3>1 DEF Books, Awaited
    <3>3. blocked[q] # i
      BY <1>2, <2>2, <3>2
    <3> QED  BY <1>1, <1>11, <3>1, <3>2, <3>3 DEF Pending
  <2> QED  BY <2>1, <2>2
<1>14. Awaited(g', status', blocked')
  BY <1>12, <1>13 DEF Awaited
<1> QED  BY <1>10, <1>14 DEF Books

LEMMA WakeBooks ==
  ASSUME IInv, Books, NEW p \in Pid, NEW i \in Proc, Wake(p, i)
  PROVE  Books'
<1>1. /\ g \in State /\ status' = status /\ status[p] = "live" /\ blocked[p] = i
      /\ blocked \in [Pid -> Proc \cup {NoApid}] /\ blocked' = [blocked EXCEPT ![p] = NoApid]
      /\ g' = [g EXCEPT !.process_sem[i] = @ - 1] /\ g.process_sem[i] > 0
      /\ g.process_sem \in [Proc -> Nat] /\ p # NoPid
  BY RsmAssumption DEF IInv, Sound, ProcessTypes, Wake, State
<1>2. /\ g'.allocation = g.allocation /\ g'.request = g.request /\ g'.waiting = g.waiting
      /\ g'.apid_to_pid = g.apid_to_pid
      /\ g'.process_sem = [g.process_sem EXCEPT ![i] = @ - 1]
  BY <1>1 DEF State
<1>3. Recorded(g')
  BY <1>2 DEF Books, Recorded, Active
<1>4. i # NoApid
  BY DEF Proc, NoApid
<1>5. /\ g.process_sem[i] <= IF g.waiting[i] THEN 0 ELSE 1
      /\ g.process_sem[i] \in Nat /\ g.apid_to_pid[i] = p
  BY <1>1, <1>4 DEF Books, Awaited
<1>6. ~ g.waiting[i] /\ g'.process_sem[i] = 0
  BY <1>1, <1>2, <1>5
<1>7. ASSUME NEW k \in Proc
      PROVE  /\ g'.process_sem[k] <= IF g'.waiting[k] THEN 0 ELSE 1
             /\ ~ Active(g', k) => ~ Pending(g', k)
             /\ Active(g', k) =>
                  /\ status'[g'.apid_to_pid[k]] # "unborn"
                  /\ Pending(g', k) /\ status'[g'.apid_to_pid[k]] = "live"
                       => blocked'[g'.apid_to_pid[k]] = k
  <2>1. /\ g.process_sem[k] <= IF g.waiting[k] THEN 0 ELSE 1
        /\ ~ Active(g, k) => ~ Pending(g, k)
        /\ Active(g, k) =>
             /\ status[g.apid_to_pid[k]] # "unborn"
             /\ Pending(g, k) /\ status[g.apid_to_pid[k]] = "live"
                  => blocked[g.apid_to_pid[k]] = k
    BY DEF Books, Awaited
  <2>2. Active(g', k) <=> Active(g, k)
    BY <1>2 DEF Active
  <2>3. CASE k = i
    <3>1. ~ Pending(g', k)
      BY <1>2, <1>6, <2>3 DEF Pending
    <3> QED  BY <1>1, <1>2, <1>6, <2>1, <2>2, <2>3, <3>1
  <2>4. CASE k # i
    <3>1. g'.process_sem[k] = g.process_sem[k]
      BY <1>1, <1>2, <2>4
    <3>2. Pending(g', k) <=> Pending(g, k)
      BY <1>2, <3>1 DEF Pending
    <3>3. g.apid_to_pid[k] = p => blocked[g.apid_to_pid[k]] # k
      BY <1>1, <2>4
    <3>4. Active(g, k) => g.apid_to_pid[k] \in Pid
      BY <1>1 DEF State, Active
    <3> QED  BY <1>1, <1>2, <2>1, <2>2, <3>1, <3>2, <3>3, <3>4
  <2> QED  BY <2>3, <2>4
<1>8. ASSUME NEW q \in Pid, blocked'[q] # NoApid
      PROVE  /\ status'[q] = "live" /\ g'.apid_to_pid[blocked'[q]] = q
             /\ Pending(g', blocked'[q])
  <2>1. q # p /\ blocked'[q] = blocked[q] /\ blocked[q] \in Proc
    BY <1>1, <1>8
  <2>2. status[q] = "live" /\ g.apid_to_pid[blocked[q]] = q /\ Pending(g, blocked[q])
    BY <1>8, <2>1 DEF Books, Awaited
  <2>3. blocked[q] # i
    BY <1>5, <2>1, <2>2
  <2>4. g'.process_sem[blocked[q]] = g.process_sem[blocked[q]]
    BY <1>1, <1>2, <2>1, <2>3
  <2> QED  BY <1>1, <1>2, <2>1, <2>2, <2>4 DEF Pending
<1>9. Awaited(g', status', blocked')
  BY <1>7, <1>8 DEF Awaited
<1> QED  BY <1>3, <1>9 DEF Books

LEMMA ReleaseBooks ==
  ASSUME IInv, Books, NEW p \in Pid, NEW i \in Proc, NEW v \in Vectors, rsm_release(p, i, v)
  PROVE  Books'
<1> DEFINE t == Released(g, i, v)
           e == [ allocation |-> g.allocation[i] \ominus v, request |-> g.request[i],
                  waiting |-> g.waiting[i], sem |-> g.process_sem[i], pid |-> g.apid_to_pid[i] ]
<1>1. /\ g' = TrySatisfy(t) /\ status' = status /\ blocked' = blocked
      /\ Running(p) /\ CurrentApid(p) = i /\ v \preceq g.allocation[i]
  BY DEF rsm_release, Calls, ReleaseRefused
<1>2. /\ Sound(g) /\ g \in State /\ ~ Pending(g, i) /\ ~ g.waiting[i] /\ g.process_sem[i] = 0
      /\ g.apid_to_pid[i] = p /\ status[p] = "live" /\ p # NoPid
      /\ blocked \in [Pid -> Proc \cup {NoApid}] /\ g.request[i] = Zero
  BY <1>1, Caller, RsmAssumption
<1>3. Sound(t) /\ t \in State
  BY <1>1, <1>2, ReleasedSound DEF Sound
<1>4. Enters(g, i, e, t)
  BY <1>2, <1>3, ReleasedEntry
<1>5. ~ e.waiting /\ e.request = Zero /\ e.sem = 0 /\ e.pid = p
  BY <1>2
<1> HIDE DEF e, t
<1>6. Recorded(t)
  BY <1>2, <1>4, <1>5, RecordedEnters DEF Books
<1>7. Awaited(t, status, blocked)
  BY <1>2, <1>4, <1>5, AwaitedCalm DEF Books
<1>8. ServedFrom(t, g')
  BY <1>1, <1>3, TrySatisfyServes
<1>9. Recorded(g') /\ Awaited(g', status, blocked)
  BY <1>2, <1>3, <1>6, <1>7, <1>8, RecordedServed, AwaitedServed
<1> QED  BY <1>1, <1>9 DEF Books

LEMMA ForkBooks ==
  ASSUME IInv, Books, NEW p \in Pid, NEW child \in Pid, Fork(p, child)
  PROVE  Books'
<1>1. /\ g' = g /\ blocked' = blocked /\ status' = [status EXCEPT ![child] = "live"]
      /\ status[child] = "unborn" /\ status \in [Pid -> {"unborn", "live", "dead"}]
      /\ g \in State
  BY DEF IInv, Sound, ProcessTypes, Fork
<1>2. ASSUME NEW k \in Proc, Active(g, k)
      PROVE  status'[g.apid_to_pid[k]] = status[g.apid_to_pid[k]]
  <2>1. status[g.apid_to_pid[k]] # "unborn"
    BY <1>2 DEF Books, Awaited
  <2>2. g.apid_to_pid[k] \in Pid
    BY <1>1, <1>2 DEF State, Active
  <2> QED  BY <1>1, <2>1, <2>2
<1>3. ASSUME NEW q \in Pid, status[q] = "live"
      PROVE  status'[q] = "live"
  BY <1>1, <1>3
<1>4. Awaited(g', status', blocked')
  BY <1>1, <1>2, <1>3 DEF Books, Awaited
<1> QED  BY <1>1, <1>4 DEF Books

LEMMA DieBooks ==
  ASSUME IInv, Books, NEW p \in Pid, Die(p)
  PROVE  Books'
<1>1. /\ g' = g /\ blocked' = [blocked EXCEPT ![p] = NoApid]
      /\ status' = [status EXCEPT ![p] = "dead"]
      /\ status \in [Pid -> {"unborn", "live", "dead"}] /\ g \in State
      /\ blocked \in [Pid -> Proc \cup {NoApid}]
  BY DEF IInv, Sound, ProcessTypes, Die
<1>2. ASSUME NEW k \in Proc, Active(g, k)
      PROVE  /\ status'[g.apid_to_pid[k]] # "unborn"
             /\ Pending(g, k) /\ status'[g.apid_to_pid[k]] = "live"
                  => blocked'[g.apid_to_pid[k]] = k
  <2>1. g.apid_to_pid[k] \in Pid
    BY <1>1, <1>2 DEF State, Active
  <2>2. CASE g.apid_to_pid[k] = p
    BY <1>1, <2>2
  <2>3. CASE g.apid_to_pid[k] # p
    BY <1>1, <1>2, <2>1, <2>3 DEF Books, Awaited
  <2> QED  BY <2>2, <2>3
<1>3. ASSUME NEW q \in Pid, blocked'[q] # NoApid
      PROVE  status'[q] = "live" /\ blocked'[q] = blocked[q]
  <2>1. q # p /\ blocked'[q] = blocked[q]
    BY <1>1, <1>3
  <2>2. status[q] = "live"
    BY <1>3, <2>1 DEF Books, Awaited
  <2> QED  BY <1>1, <2>1, <2>2
<1>4. Awaited(g', status', blocked')
  BY <1>1, <1>2, <1>3 DEF Books, Awaited
<1> QED  BY <1>1, <1>4 DEF Books

LEMMA InitBooks ==
  ASSUME Init
  PROVE  Books
<1>1. g = Fresh /\ \A p \in Pid : blocked[p] = NoApid
  BY DEF Init
<1>2. \A i \in Proc : /\ ~ Active(g, i) /\ ~ g.waiting[i] /\ g.process_sem[i] = 0
                      /\ g.allocation[i] = Zero /\ g.request[i] = Zero
  BY <1>1 DEF Fresh, Active
<1>3. Recorded(g)
  BY <1>2 DEF Recorded
<1>4. Awaited(g, status, blocked)
  BY <1>1, <1>2 DEF Awaited, Pending
<1> QED  BY <1>3, <1>4 DEF Books

LEMMA StepBooks ==
  ASSUME IInv, Books, [Next]_vars
  PROVE  Books'
<1>1. CASE g' = g /\ status' = status /\ blocked' = blocked
  BY <1>1 DEF Books
<1>2. CASE UNCHANGED vars
  BY <1>1, <1>2 DEF vars
<1>3. ASSUME NEW p \in Pid, NEW i \in Proc, NEW v \in Vector, RefusedCall(p, i, v)
      PROVE  Books'
  BY <1>1, <1>3 DEF RefusedCall
<1>4. \A v \in Vector : v \in Vectors
  BY InputVector
<1> QED  BY <1>2, <1>3, <1>4, StartedBooks, EndedBooks, ClaimBooks, GrantBooks, WaitBooks,
            WakeBooks, ReleaseBooks, ForkBooks, DieBooks DEF Next

LEMMA BooksKept == Spec => [](IInv /\ Books)
<1>1. Init => IInv /\ Books
  BY InitIInv, InitBooks
<1>2. IInv /\ Books /\ [Next]_vars => IInv' /\ Books'
  BY StepIInv, StepBooks
<1> QED  BY <1>1, <1>2, PTL DEF Spec

\* rsm.c: rsm_request blocks on process_sem[apid] outside the lock, and whoever
\* serves the request posts it under the lock.  No post is lost or doubled, however
\* the two interleave and whoever dies in between.
THEOREM WakeupsKept == Spec => []NoLostWakeup
<1>1. ASSUME IInv, Books, NEW i \in Proc
      PROVE  LET p == g.apid_to_pid[i]
                 pending == g.waiting[i] \/ g.process_sem[i] > 0
             IN  /\ g.process_sem[i] <= IF g.waiting[i] THEN 0 ELSE 1
                 /\ ~ Active(g, i) => ~ pending
                 /\ Active(g, i) => (status[p] = "live" => (blocked[p] = i <=> pending))
  <2>1. /\ g.process_sem[i] <= IF g.waiting[i] THEN 0 ELSE 1
        /\ ~ Active(g, i) => ~ Pending(g, i)
        /\ Active(g, i) =>
             (Pending(g, i) /\ status[g.apid_to_pid[i]] = "live" => blocked[g.apid_to_pid[i]] = i)
    BY <1>1 DEF Books, Awaited
  <2>2. Active(g, i) => g.apid_to_pid[i] \in Pid
    BY <1>1 DEF IInv, Sound, State, Active
  <2>3. i # NoApid
    BY DEF Proc, NoApid
  <2>4. Active(g, i) /\ blocked[g.apid_to_pid[i]] = i => Pending(g, i)
    BY <1>1, <2>2, <2>3 DEF Books, Awaited
  <2> QED  BY <2>1, <2>4 DEF Pending
<1>2. IInv /\ Books => NoLostWakeup
  BY <1>1 DEF NoLostWakeup
<1> QED  BY <1>2, BooksKept, PTL

-----------------------------------------------------------------------------
(* What is_safe and rsm_detection answer in the states the manager reaches. *)

LEMMA BooksIdle ==
  ASSUME Books
  PROVE  IdleHoldNothing(g)
BY DEF Books, Recorded, IdleHoldNothing

\* rsm.c is_safe: the loop with its restarts after every process that can finish
\* answers exactly whether the state after the grant is safe.
THEOREM SafetyDecided == Spec => []IsSafeExact
<1>1. ASSUME IInv, Books, Avoid, NEW i \in Proc, NEW v \in Vector,
             Active(g, i), v \preceq g.need[i], v \preceq g.available
      PROVE  is_safe(g, i, v) <=> Safe(Granted(g, i, v))
  <2>1. g \in State /\ v \in Vectors /\ IdleHoldNothing(g)
    BY <1>1, InputVector, BooksIdle DEF IInv, Sound
  <2>2. is_safe(g, i, v) => Safe(Granted(g, i, v))
    BY <1>1, <2>1, IsSafeSound
  <2>3. Safe(Granted(g, i, v)) => is_safe(g, i, v)
    BY <1>1, <2>1, IsSafeComplete
  <2> QED  BY <2>2, <2>3
<1>2. IInv /\ Books => IsSafeExact
  BY <1>1 DEF IsSafeExact
<1> QED  BY <1>2, BooksKept, PTL

\* rsm.c rsm_detection: it counts all the processes that hold something and wait
\* for each other, and no others.
THEOREM DetectionDecided == Spec => []DetectionExact
<1>1. IInv /\ Books => DetectionExact
  <2> SUFFICES ASSUME IInv, Books PROVE DetectionExact
    OBVIOUS
  <2>1. g \in State /\ IdleHoldNothing(g)
    BY BooksIdle DEF IInv, Sound
  <2> QED  BY <2>1, DetectionFinds DEF DetectionExact, Knots
<1> QED  BY <1>1, BooksKept, PTL

\* rsm.c: rsm_request compares a request with what exists but not with what the
\* caller already holds; the wait this allows, which nobody can end, is counted by
\* rsm_detection.
THEOREM HopelessWaitsReported == Spec => []HopelessIsReported
<1>1. ASSUME IInv, Books, NEW i \in Proc, g.waiting[i],
             ~ (g.request[i] \oplus g.allocation[i] \preceq Exist)
      PROVE  i \in Deadlocked(g)
  <2>1. Sound(g) /\ g \in State /\ IdleHoldNothing(g) /\ Conserves(g)
    BY <1>1, BooksIdle DEF IInv, Sound
  <2>2. Active(g, i) /\ g.request[i] \preceq Exist
    BY <1>1 DEF Books, Recorded
  <2>3. /\ \A j \in Res : /\ g.request[i][j] \in Nat /\ g.allocation[i][j] \in Nat
                          /\ Exist[j] \in Nat
    BY <2>1, RsmAssumption DEF State, Matrix
  <2>4. PICK j \in Res : ~ (g.request[i][j] + g.allocation[i][j] <= Exist[j])
    BY <1>1 DEF \preceq, \oplus
  <2>5. g.allocation[i] # Zero
    <3>1. g.allocation[i][j] # 0
      BY <2>2, <2>3, <2>4 DEF \preceq
    <3> QED  BY <3>1 DEF Zero
  <2>6. Exist[j] = Free(g, {i})[j] + g.allocation[i][j]
    <3>1. Free(g, {i} \ {i})[j] = Free(g, {i})[j] + g.allocation[i][j]
      BY <2>1, FreeWithout
    <3>2. {i} \ {i} = {}
      OBVIOUS
    <3> QED  BY <2>1, <3>1, <3>2, FreeOfNone
  <2>7. Free(g, {i})[j] \in Nat
    BY <2>1, FreeVector DEF Vectors
  <2>8. ~ (g.request[i] \preceq Free(g, {i}))
    BY <2>3, <2>4, <2>6, <2>7 DEF \preceq
  <2>9. {i} \in Knots(g)
    BY <2>2, <2>5, <2>8 DEF Knots, Stuck
  <2> QED  BY <2>1, <2>9, DetectionFinds
<1>2. IInv /\ Books => HopelessIsReported
  BY <1>1 DEF HopelessIsReported
<1> QED  BY <1>2, BooksKept, PTL

-----------------------------------------------------------------------------
(* No waiter that could be served is left between calls.                   *)

\* From s to t the id i has taken v from the pool, or asked for more, and nobody
\* else has gained.
Worse(s, t, i, v) ==
  /\ \A m \in Proc : Active(s, m) => Active(t, m)
  /\ \A j \in Res : t.available[j] = s.available[j] - v[j]
  /\ \A m \in Proc : m # i => t.allocation[m] = s.allocation[m] /\ t.need[m] = s.need[m]
  /\ \A j \in Res : /\ t.allocation[i][j] = s.allocation[i][j] + v[j]
                    /\ t.need[i][j] >= s.need[i][j] - v[j]

LEMMA WorseGranted ==
  ASSUME NEW s \in State, NEW t \in State, NEW i \in Proc, NEW v \in Vectors, Worse(s, t, i, v),
         NEW k \in Proc, k # i, NEW r \in Vectors
  PROVE  Worse(Granted(s, k, r), Granted(t, k, r), i, v)
<1> DEFINE a == Granted(s, k, r)
           b == Granted(t, k, r)
<1>1. GrantedEffect(s, k, r, a) /\ GrantedEffect(t, k, r, b)
  BY GrantedFields
<1> HIDE DEF a, b
<1>2. /\ s.allocation \in Matrix /\ t.allocation \in Matrix
      /\ s.need \in Matrix /\ t.need \in Matrix
      /\ s.available \in Vectors /\ t.available \in Vectors
  BY DEF State, Vectors
<1>3. \A m \in Proc : Active(a, m) => Active(b, m)
  BY <1>1 DEF GrantedEffect, Active, Worse
<1>4. ASSUME NEW j \in Res PROVE b.available[j] = a.available[j] - v[j]
  <2>1. a.available[j] = s.available[j] - r[j] /\ b.available[j] = t.available[j] - r[j]
    BY <1>1 DEF GrantedEffect, \ominus
  <2>2. t.available[j] = s.available[j] - v[j]
    BY DEF Worse
  <2>3. s.available[j] \in Int /\ r[j] \in Int /\ v[j] \in Int
    BY <1>2 DEF Vectors
  <2> QED  BY <2>1, <2>2, <2>3
<1>5. ASSUME NEW m \in Proc, m # i
      PROVE  b.allocation[m] = a.allocation[m] /\ b.need[m] = a.need[m]
  <2>1. t.allocation[m] = s.allocation[m] /\ t.need[m] = s.need[m]
    BY <1>5 DEF Worse
  <2> QED  BY <1>1, <1>2, <2>1 DEF GrantedEffect, Matrix
<1>6. /\ a.allocation[i] = s.allocation[i] /\ a.need[i] = s.need[i]
      /\ b.allocation[i] = t.allocation[i] /\ b.need[i] = t.need[i]
  BY <1>1, <1>2 DEF GrantedEffect, Matrix
<1>7. \A j \in Res : /\ b.allocation[i][j] = a.allocation[i][j] + v[j]
                     /\ b.need[i][j] >= a.need[i][j] - v[j]
  BY <1>6 DEF Worse
<1>8. Worse(a, b, i, v)
  BY <1>3, <1>4, <1>5, <1>7 DEF Worse
<1> QED  BY <1>8 DEF a, b

\* Processes that wait for each other still do when somebody else has taken more.
LEMMA WorseStuck ==
  ASSUME NEW s \in State, NEW t \in State, NEW i \in Proc, NEW v \in Vectors, Worse(s, t, i, v),
         NEW D \in SUBSET Proc, Stuck(s, D, s.need)
  PROVE  Stuck(t, D, t.need)
<1>1. \A k \in Proc : k # i => t.allocation[k] = s.allocation[k]
  BY DEF Worse
<1>2. ASSUME NEW j \in Res
      PROVE  /\ t.available[j] = s.available[j] - v[j] /\ v[j] \in Nat
             /\ s.available[j] \in Nat /\ t.available[j] \in Nat
             /\ t.available[j] + t.allocation[i][j] = s.available[j] + s.allocation[i][j]
  <2>1. /\ t.available[j] = s.available[j] - v[j]
        /\ t.allocation[i][j] = s.allocation[i][j] + v[j]
    BY DEF Worse
  <2>2. v[j] \in Nat /\ s.available[j] \in Nat /\ t.available[j] \in Nat
        /\ s.allocation[i][j] \in Nat
    BY Columns DEF Vectors
  <2> QED  BY <2>1, <2>2
<1>3. \A j \in Res :
        Free(t, D)[j] = IF i \in D THEN Free(s, D)[j] + (t.available[j] - s.available[j])
                        ELSE Free(s, D)[j]
  BY <1>1, <1>2, FreeMove
<1>4. ASSUME NEW m \in D PROVE Active(t, m) /\ ~ (t.need[m] \preceq Free(t, D))
  <2>1. Active(s, m) /\ ~ (s.need[m] \preceq Free(s, D)) /\ m \in Proc
    BY DEF Stuck
  <2>2. PICK j \in Res : ~ (s.need[m][j] <= Free(s, D)[j])
    BY <2>1 DEF \preceq
  <2>3. /\ s.need[m][j] \in Nat /\ t.need[m][j] \in Nat /\ Free(s, D)[j] \in Nat
    BY <2>1, FreeVector DEF State, Matrix, Vectors
  <2>4. m # i => t.need[m][j] = s.need[m][j]
    BY <2>1 DEF Worse
  <2>5. m = i => t.need[m][j] >= s.need[m][j] - v[j]
    BY DEF Worse
  <2>6. ~ (t.need[m][j] <= Free(t, D)[j])
    <3>1. Free(t, D)[j] = IF i \in D THEN Free(s, D)[j] - v[j] ELSE Free(s, D)[j]
      BY <1>2, <1>3, <2>3
    <3>2. v[j] \in Nat
      BY <1>2
    <3> QED  BY <2>2, <2>3, <2>4, <2>5, <3>1, <3>2
  <2> QED  BY <2>1, <2>6 DEF Worse, \preceq
<1> QED  BY <1>4 DEF Stuck

\* Whoever could not be served before cannot be served after.
LEMMA WorseUnserved ==
  ASSUME NEW s, NEW t, Sound(s), Sound(t), IdleHoldNothing(s),
         NEW i \in Proc, NEW v \in Vectors, Worse(s, t, i, v),
         NEW k \in Proc, k # i,
         t.waiting[k] = s.waiting[k], t.request[k] = s.request[k],
         t.apid_to_pid[k] = s.apid_to_pid[k],
         ~ CanSatisfy(s, k)
  PROVE  ~ CanSatisfy(t, k)
<1> DEFINE r == s.request[k]
<1> SUFFICES ASSUME CanSatisfy(t, k) PROVE FALSE
  OBVIOUS
<1>1. s \in State /\ t \in State /\ r \in Vectors
  BY DEF Sound, State, Matrix, Vectors
<1>2. s.waiting[k] /\ Active(s, k) /\ Grantable(t, k, r)
  BY DEF CanSatisfy, Active
<1> HIDE DEF r
<1>3. r \preceq s.available
  <2> SUFFICES ASSUME NEW j \in Res PROVE r[j] <= s.available[j]
    BY DEF \preceq
  <2>1. r[j] <= t.available[j] /\ t.available[j] = s.available[j] - v[j]
    BY <1>2 DEF Grantable, \preceq, Worse
  <2>2. r[j] \in Nat /\ v[j] \in Nat /\ s.available[j] \in Nat
    BY <1>1, Columns DEF Vectors
  <2> QED  BY <2>1, <2>2
<1>4. ASSUME Avoid PROVE is_safe(s, k, r)
  <2>1. r \preceq s.need[k] /\ r \preceq t.need[k]
    BY <1>4 DEF Sound, Ledger, r
  <2>2. is_safe(t, k, r) /\ r \preceq t.available
    BY <1>2, <1>4 DEF Grantable
  <2>3. Safe(Granted(t, k, r))
    BY <1>1, <1>4, <2>1, <2>2, IsSafeSound
  <2>4. Granted(s, k, r) \in State /\ Granted(t, k, r) \in State
    BY <1>1, <1>3, <2>1, <2>2, GrantedType
  <2>5. Worse(Granted(s, k, r), Granted(t, k, r), i, v)
    BY <1>1, WorseGranted
  <2>6. Safe(Granted(s, k, r))
    <3> SUFFICES ASSUME NEW D \in SUBSET Proc,
                        Stuck(Granted(s, k, r), D, Granted(s, k, r).need)
                 PROVE  FALSE
      BY DEF Safe
    <3>1. Stuck(Granted(t, k, r), D, Granted(t, k, r).need)
      BY <2>4, <2>5, WorseStuck
    <3> QED  BY <2>3, <3>1 DEF Safe
  <2> QED  BY <1>1, <1>2, <1>3, <1>4, <2>1, <2>6, IsSafeComplete
<1>5. CanSatisfy(s, k)
  BY <1>2, <1>3, <1>4 DEF CanSatisfy, Grantable, r
<1> QED  BY <1>5

\* Whether somebody can be served depends on these fields only.
LEMMA GrantableSame ==
  ASSUME NEW s, NEW t, NEW k, NEW r, t.available = s.available, t.allocation = s.allocation,
         t.need = s.need, t.apid_to_pid = s.apid_to_pid
  PROVE  Grantable(t, k, r) <=> Grantable(s, k, r)
BY DEF Grantable, is_safe, Active

LEMMA SameEntry ==
  ASSUME NEW s, NEW t, NEW k, Entry(t, k) = Entry(s, k)
  PROVE  /\ t.waiting[k] = s.waiting[k] /\ t.request[k] = s.request[k]
         /\ t.apid_to_pid[k] = s.apid_to_pid[k] /\ t.allocation[k] = s.allocation[k]
<1>1. \A u : /\ Entry(u, k).waiting = u.waiting[k] /\ Entry(u, k).request = u.request[k]
             /\ Entry(u, k).pid = u.apid_to_pid[k] /\ Entry(u, k).allocation = u.allocation[k]
  BY DEF Entry
<1> QED  BY <1>1

\* An entry that is not waiting, and nobody else better off.
LEMMA WorseMissesNone ==
  ASSUME NEW s, NEW t, Sound(s), Sound(t), IdleHoldNothing(s),
         \A k \in Proc : ~ CanSatisfy(s, k),
         NEW i \in Proc, NEW v \in Vectors, Worse(s, t, i, v), ~ t.waiting[i],
         \A k \in Proc : k # i => Entry(t, k) = Entry(s, k)
  PROVE  \A k \in Proc : ~ CanSatisfy(t, k)
<1> SUFFICES ASSUME NEW k \in Proc PROVE ~ CanSatisfy(t, k)
  OBVIOUS
<1>1. CASE k = i
  BY <1>1 DEF CanSatisfy
<1>2. CASE k # i
  <2>1. /\ t.waiting[k] = s.waiting[k] /\ t.request[k] = s.request[k]
        /\ t.apid_to_pid[k] = s.apid_to_pid[k]
    BY <1>2, SameEntry
  <2> QED  BY <1>2, <2>1, WorseUnserved
<1> QED  BY <1>1, <1>2

LEMMA StartedMisses ==
  ASSUME IInv, Books, NoMissedGrant, NEW p \in Pid, NEW i \in Proc, rsm_process_started(p, i)
  PROVE  NoMissedGrant'
<1>1. Sound(g) /\ Sound(g') /\ g \in State /\ IdleHoldNothing(g) /\ g' = Started(g, i, p)
  BY StartedStep, BooksIdle DEF IInv, Sound, rsm_process_started
<1>2. StartedEffect(g, i, p, g') /\ p # NoPid
  BY <1>1, StartedFields, RsmAssumption
<1>3. Enters(g, i, [ allocation |-> g.allocation[i], request |-> Zero, waiting |-> FALSE,
                     sem |-> g.process_sem[i], pid |-> p ], g')
  BY <1>1, StartedEntry
<1>4. ~ g'.waiting[i] /\ \A k \in Proc : k # i => Entry(g', k) = Entry(g, k)
  <2>1. Entry(g', i).waiting = FALSE
    BY <1>3 DEF Enters
  <2> QED  BY <1>3, <2>1 DEF Enters, Entry
<1>5. Worse(g, g', i, Zero)
  <2>1. \A m \in Proc : Active(g, m) => Active(g', m)
    BY <1>1, <1>2 DEF StartedEffect, Active, State
  <2>2. \A j \in Res : g.available[j] \in Nat /\ g.allocation[i][j] \in Nat /\ g.need[i][j] \in Nat
    BY <1>1 DEF State, Matrix
  <2>3. \A j \in Res : Zero[j] = 0
    BY DEF Zero
  <2>4. g'.available = g.available /\ g'.allocation = g.allocation /\ g'.need = g.need
    BY <1>2 DEF StartedEffect
  <2> QED  BY <2>1, <2>2, <2>3, <2>4 DEF Worse
<1>6. \A k \in Proc : ~ CanSatisfy(g', k)
  BY <1>1, <1>4, <1>5, ZeroVector, WorseMissesNone DEF NoMissedGrant
<1> QED  BY <1>6 DEF NoMissedGrant

LEMMA ClaimMisses ==
  ASSUME IInv, Books, NoMissedGrant, NEW p \in Pid, NEW i \in Proc, NEW v \in Vectors,
         rsm_claim(p, i, v)
  PROVE  NoMissedGrant'
<1>1. Running(p) /\ CurrentApid(p) = i
  BY DEF rsm_claim, Calls
<1>2. /\ Sound(g) /\ Sound(g') /\ g \in State /\ IdleHoldNothing(g)
      /\ ~ g.waiting[i]
  BY <1>1, ClaimStep, Caller, BooksIdle DEF IInv
<1>3. CASE ~ Avoid
  BY <1>3 DEF rsm_claim, NoMissedGrant
<1>4. CASE Avoid
  <2>1. g' = Claimed(g, i, v) /\ ~ g.claimed[i]
    BY <1>4 DEF rsm_claim, ClaimRefused
  <2>2. ClaimedEffect(g, i, v, g') /\ Enters(g, i, Entry(g, i), g')
    BY <1>2, <2>1, ClaimedFields, ClaimedEntry
  <2>3. \A k \in Proc : Entry(g', k) = Entry(g, k)
    BY <2>2 DEF Enters
  <2>4. ~ g'.waiting[i]
    BY <1>2, <2>3, SameEntry
  <2>5. g.need[i] = Zero
    BY <1>2, <1>4, <2>1, Unclaimed
  <2>6. Worse(g, g', i, Zero)
    <3>1. \A m \in Proc : Active(g, m) => Active(g', m)
      BY <2>2 DEF ClaimedEffect, Active
    <3>2. \A j \in Res : g.available[j] \in Nat /\ g.allocation[i][j] \in Nat /\ v[j] \in Nat
      BY <1>2, Columns DEF Vectors
    <3>3. \A j \in Res : Zero[j] = 0
      BY DEF Zero
    <3>4. /\ g'.available = g.available /\ g'.allocation = g.allocation
          /\ g'.need = [g.need EXCEPT ![i] = v] /\ g.need \in Matrix
      BY <1>2, <2>2 DEF ClaimedEffect, State
    <3>5. g'.need[i] = v /\ \A m \in Proc : m # i => g'.need[m] = g.need[m]
      BY <3>4 DEF Matrix
    <3> QED  BY <2>5, <3>1, <3>2, <3>3, <3>4, <3>5 DEF Worse
  <2>7. \A k \in Proc : ~ CanSatisfy(g', k)
    BY <1>2, <2>3, <2>4, <2>6, ZeroVector, WorseMissesNone DEF NoMissedGrant
  <2> QED  BY <2>7 DEF NoMissedGrant
<1> QED  BY <1>3, <1>4

LEMMA GrantMisses ==
  ASSUME IInv, Books, NoMissedGrant, NEW p \in Pid, NEW i \in Proc, NEW v \in Vectors,
         RequestGranted(p, i, v)
  PROVE  NoMissedGrant'
<1> DEFINE t == Requested(g, i, v)
<1>1. Running(p) /\ CurrentApid(p) = i /\ g' = Granted(t, i, v)
  BY DEF RequestGranted, Calls
<1>2. /\ Sound(g) /\ Sound(g') /\ g \in State /\ g' \in State /\ IdleHoldNothing(g)
      /\ ~ g.waiting[i]
  BY <1>1, GrantStep, Caller, BooksIdle DEF IInv, Sound
<1>3. RequestedEffect(g, i, v, t) /\ t \in State
  BY <1>2, RequestedFields DEF RequestedEffect
<1>4. Enters(g, i, [ allocation |-> g.allocation[i], request |-> v, waiting |-> g.waiting[i],
                     sem |-> g.process_sem[i], pid |-> g.apid_to_pid[i] ], t)
  BY <1>2, RequestedEntry
<1> HIDE DEF t
<1>5. GrantedEffect(t, i, v, g')
  BY <1>1, <1>3, GrantedFields
<1>6. Enters(t, i, [ allocation |-> t.allocation[i] \oplus v, request |-> Zero,
                     waiting |-> t.waiting[i], sem |-> t.process_sem[i],
                     pid |-> t.apid_to_pid[i] ], g')
  BY <1>1, <1>2, <1>3, GrantedEntry
<1>7. \A k \in Proc : k # i => Entry(g', k) = Entry(g, k)
  BY <1>4, <1>6 DEF Enters
<1>8. ~ g'.waiting[i]
  <2>1. Entry(t, i).waiting = g.waiting[i]
    BY <1>4 DEF Enters
  <2>2. Entry(g', i).waiting = t.waiting[i]
    BY <1>6 DEF Enters
  <2>3. \A u : Entry(u, i).waiting = u.waiting[i]
    BY DEF Entry
  <2> QED  BY <1>2, <2>1, <2>2, <2>3
<1>9. Worse(g, g', i, v)
  <2>1. /\ g'.available = g.available \ominus v
        /\ g'.allocation = [g.allocation EXCEPT ![i] = @ \oplus v]
        /\ g'.need = IF Avoid THEN [g.need EXCEPT ![i] = @ \ominus v] ELSE g.need
        /\ g'.apid_to_pid = g.apid_to_pid
        /\ g.allocation \in Matrix /\ g.need \in Matrix
    BY <1>2, <1>3, <1>5 DEF GrantedEffect, RequestedEffect, State
  <2>2. \A m \in Proc : Active(g, m) => Active(g', m)
    BY <2>1 DEF Active
  <2>3. \A j \in Res : g'.available[j] = g.available[j] - v[j]
    BY <2>1 DEF \ominus
  <2>4. \A m \in Proc : m # i => g'.allocation[m] = g.allocation[m] /\ g'.need[m] = g.need[m]
    BY <2>1 DEF Matrix
  <2>5. ASSUME NEW j \in Res
        PROVE  /\ g'.allocation[i][j] = g.allocation[i][j] + v[j]
               /\ g'.need[i][j] >= g.need[i][j] - v[j]
    <3>1. g.need[i][j] \in Nat /\ v[j] \in Nat
      BY <2>1 DEF Matrix, Vectors
    <3>2. g'.allocation[i] = g.allocation[i] \oplus v
      BY <2>1 DEF Matrix
    <3>3. g'.need[i] = IF Avoid THEN g.need[i] \ominus v ELSE g.need[i]
      BY <2>1 DEF Matrix
    <3> QED  BY <3>1, <3>2, <3>3 DEF \oplus, \ominus
  <2> QED  BY <2>2, <2>3, <2>4, <2>5 DEF Worse
<1>10. \A k \in Proc : ~ CanSatisfy(g', k)
  BY <1>2, <1>7, <1>8, <1>9, WorseMissesNone DEF NoMissedGrant
<1> QED  BY <1>10 DEF NoMissedGrant

LEMMA WaitMisses ==
  ASSUME IInv, NoMissedGrant, NEW p \in Pid, NEW i \in Proc, NEW v \in Vectors,
         RequestWaits(p, i, v)
  PROVE  NoMissedGrant'
<1> DEFINE t == Requested(g, i, v)
<1>1. /\ g \in State /\ ~ Grantable(g, i, v) /\ g' = [t EXCEPT !.waiting[i] = TRUE]
  BY DEF RequestWaits, IInv, Sound
<1>2. RequestedEffect(g, i, v, t)
  BY <1>1, RequestedFields
<1>3. t.waiting = g.waiting
  BY <1>1 DEF Requested, State
<1> HIDE DEF t
<1>4. /\ g'.available = g.available /\ g'.allocation = g.allocation
      /\ g'.need = g.need /\ g'.apid_to_pid = g.apid_to_pid
      /\ g'.request = [g.request EXCEPT ![i] = v] /\ g.request \in Matrix
      /\ g'.waiting = [g.waiting EXCEPT ![i] = TRUE] /\ g.waiting \in [Proc -> BOOLEAN]
  BY <1>1, <1>2, <1>3 DEF RequestedEffect, State
<1>5. \A k, r : Grantable(g', k, r) <=> Grantable(g, k, r)
  BY <1>4, GrantableSame
<1>6. ASSUME NEW k \in Proc PROVE ~ CanSatisfy(g', k)
  <2>1. CASE k = i
    <3>1. g'.request[k] = v
      BY <1>4, <2>1 DEF Matrix
    <3> QED  BY <1>1, <1>5, <2>1, <3>1 DEF CanSatisfy
  <2>2. CASE k # i
    <3>1. g'.request[k] = g.request[k] /\ g'.waiting[k] = g.waiting[k]
      BY <1>4, <2>2 DEF Matrix
    <3> QED  BY <1>4, <1>5, <3>1 DEF CanSatisfy, Active, NoMissedGrant
  <2> QED  BY <2>1, <2>2
<1> QED  BY <1>6 DEF NoMissedGrant

LEMMA WakeMisses ==
  ASSUME IInv, NoMissedGrant, NEW p \in Pid, NEW i \in Proc, Wake(p, i)
  PROVE  NoMissedGrant'
<1>1. /\ g'.available = g.available /\ g'.allocation = g.allocation
      /\ g'.need = g.need /\ g'.apid_to_pid = g.apid_to_pid
      /\ g'.request = g.request /\ g'.waiting = g.waiting
  BY DEF IInv, Sound, State, Wake
<1>2. \A k, r : Grantable(g', k, r) <=> Grantable(g, k, r)
  BY <1>1, GrantableSame
<1> QED  BY <1>1, <1>2 DEF NoMissedGrant, CanSatisfy, Active

LEMMA EndedMisses ==
  ASSUME IInv, NEW p \in Pid, NEW i \in Proc, rsm_process_ended(p, i)
  PROVE  NoMissedGrant'
<1>1. Sound(Ended(g, i)) /\ g' = TrySatisfy(Ended(g, i))
  BY EndedSound DEF IInv, rsm_process_ended
<1> QED  BY <1>1, TrySatisfySettles DEF NoMissedGrant

LEMMA ReleaseMisses ==
  ASSUME IInv, NEW p \in Pid, NEW i \in Proc, NEW v \in Vectors, rsm_release(p, i, v)
  PROVE  NoMissedGrant'
<1>1. Sound(Released(g, i, v)) /\ g' = TrySatisfy(Released(g, i, v))
  BY ReleasedSound DEF IInv, rsm_release, ReleaseRefused
<1> QED  BY <1>1, TrySatisfySettles DEF NoMissedGrant

LEMMA StepMisses ==
  ASSUME IInv, Books, NoMissedGrant, [Next]_vars
  PROVE  NoMissedGrant'
<1>1. CASE g' = g
  BY <1>1 DEF NoMissedGrant
<1>2. CASE UNCHANGED vars
  BY <1>1, <1>2 DEF vars
<1>3. ASSUME NEW p \in Pid, NEW child \in Pid, Fork(p, child) PROVE NoMissedGrant'
  BY <1>1, <1>3 DEF Fork
<1>4. ASSUME NEW p \in Pid, Die(p) PROVE NoMissedGrant'
  BY <1>1, <1>4 DEF Die
<1>5. ASSUME NEW p \in Pid, NEW i \in Proc, NEW v \in Vector, RefusedCall(p, i, v)
      PROVE  NoMissedGrant'
  BY <1>1, <1>5 DEF RefusedCall
<1>6. \A v \in Vector : v \in Vectors
  BY InputVector
<1> QED  BY <1>2, <1>3, <1>4, <1>5, <1>6, StartedMisses, EndedMisses, ClaimMisses, GrantMisses,
            WaitMisses, WakeMisses, ReleaseMisses DEF Next

\* rsm.c try_satisfy_waiting: after every call no waiter could be given what it
\* asked for, although the calls that only take, claim or register do not look at
\* the waiters at all.
THEOREM GrantsNotMissed == Spec => []NoMissedGrant
<1>1. Init => NoMissedGrant
  BY DEF Init, NoMissedGrant, CanSatisfy, Fresh
<1>2. IInv /\ Books /\ NoMissedGrant /\ [Next]_vars => NoMissedGrant'
  BY StepMisses
<1> QED  BY <1>1, <1>2, BooksKept, PTL DEF Spec

-----------------------------------------------------------------------------
(* Under avoidance somebody can always go on.                              *)

LEMMA FreeAtLeast ==
  ASSUME NEW s \in State, NEW D
  PROVE  \A j \in Res : s.available[j] <= Free(s, D)[j]
<1> SUFFICES ASSUME NEW j \in Res PROVE s.available[j] <= Free(s, D)[j]
  OBVIOUS
<1> DEFINE f == [k \in Proc |-> IF k \in D THEN 0 ELSE s.allocation[k][j]]
           z == [k \in Proc |-> 0]
<1>1. /\ \A k \in 0 .. N - 1 : f[k] \in Int /\ z[k] \in Int /\ z[k] <= f[k] /\ z[k] = 0
      /\ Free(s, D)[j] = s.available[j] + Total(f, N)
      /\ s.available[j] \in Nat /\ N \in Nat /\ N \in 0 .. N
  <2>1. \A k \in Proc : f[k] \in Nat /\ z[k] = 0
    BY Columns
  <2>2. Free(s, D)[j] = s.available[j] + Total(f, N)
    BY DEF Free
  <2> HIDE DEF f, z
  <2> QED  BY <2>1, <2>2, Columns, ProcFacts DEF Proc
<1> HIDE DEF f, z
<1>2. Total(z, N) = 0 /\ Total(z, N) <= Total(f, N) /\ Total(f, N) \in Int
  BY <1>1, TotalMonotone, TotalOfZeros, TotalSteps
<1> QED  BY <1>1, <1>2

LEMMA FreeOfHolders ==
  ASSUME NEW s \in State, IdleHoldNothing(s)
  PROVE  \A j \in Res : Free(s, {k \in Proc : Active(s, k)})[j] = s.available[j]
<1> SUFFICES ASSUME NEW j \in Res
             PROVE  Free(s, {k \in Proc : Active(s, k)})[j] = s.available[j]
  OBVIOUS
<1> DEFINE D == {k \in Proc : Active(s, k)}
           f == [k \in Proc |-> IF k \in D THEN 0 ELSE s.allocation[k][j]]
<1>1. \A k \in 0 .. N - 1 : f[k] = 0
  BY DEF IdleHoldNothing, Zero, Proc
<1>2. Free(s, D)[j] = s.available[j] + Total(f, N)
  BY DEF Free
<1> HIDE DEF f, D
<1>3. Total(f, N) = 0
  BY <1>1, ProcFacts, TotalOfZeros
<1>4. Free(s, D)[j] = s.available[j]
  BY <1>2, <1>3, Columns
<1> QED  BY <1>4 DEF D

\* Whoever could finish with what is available can be given a part of it safely.
LEMMA FirstToFinish ==
  ASSUME NEW s, Sound(s), Avoid, NEW i \in Proc, Active(s, i), NEW r \in Vectors,
         r \preceq s.need[i], s.need[i] \preceq s.available
  PROVE  r \preceq s.available /\ Safe(Granted(s, i, r))
<1> DEFINE t == Granted(s, i, r)
<1>1. s \in State /\ s.need \in Matrix /\ s.allocation \in Matrix /\ s.available \in Vectors
  BY DEF Sound, State, Vectors
<1>2. r \preceq s.available
  <2>1. ASSUME NEW j \in Res PROVE r[j] <= s.available[j]
    <3>1. r[j] <= s.need[i][j] /\ s.need[i][j] <= s.available[j]
      BY DEF \preceq
    <3>2. r[j] \in Nat /\ s.need[i][j] \in Nat /\ s.available[j] \in Nat
      BY <1>1 DEF Matrix, Vectors
    <3> QED  BY <3>1, <3>2
  <2> QED  BY <2>1 DEF \preceq
<1>3. t \in State /\ GrantedEffect(s, i, r, t)
  BY <1>1, <1>2, GrantedType, GrantedFields
<1> HIDE DEF t
<1>4. /\ \A k \in Proc : k # i => t.allocation[k] = s.allocation[k] /\ t.need[k] = s.need[k]
      /\ t.need[i] = s.need[i] \ominus r
      /\ \A k \in Proc : Active(t, k) <=> Active(s, k)
  BY <1>1, <1>3 DEF GrantedEffect, Matrix, Active
<1>5. ASSUME NEW j \in Res
      PROVE  /\ t.available[j] = s.available[j] - r[j]
             /\ t.available[j] + t.allocation[i][j] = s.available[j] + s.allocation[i][j]
             /\ r[j] \in Nat /\ s.available[j] \in Nat /\ s.need[i][j] \in Nat
  <2>1. t.available[j] = s.available[j] - r[j]
    BY <1>3 DEF GrantedEffect, \ominus
  <2>2. t.allocation[i][j] = s.allocation[i][j] + r[j]
    BY <1>1, <1>3 DEF GrantedEffect, Matrix, \oplus
  <2>3. r[j] \in Nat /\ s.available[j] \in Nat /\ s.allocation[i][j] \in Nat /\ s.need[i][j] \in Nat
    BY <1>1 DEF Vectors, Matrix
  <2> QED  BY <2>1, <2>2, <2>3
<1>6. ASSUME NEW D \in SUBSET Proc, Stuck(t, D, t.need) PROVE FALSE
  <2>1. \A j \in Res :
          Free(t, D)[j] = IF i \in D THEN Free(s, D)[j] + (t.available[j] - s.available[j])
                          ELSE Free(s, D)[j]
    BY <1>1, <1>3, <1>4, <1>5, FreeMove
  <2>2. CASE i \in D
    <3>1. PICK j \in Res : ~ (t.need[i][j] <= Free(t, D)[j])
      BY <1>6, <2>2 DEF Stuck, \preceq
    <3>2. s.available[j] <= Free(s, D)[j] /\ Free(s, D)[j] \in Nat
      BY <1>1, FreeAtLeast, FreeVector DEF Vectors
    <3>3. s.need[i][j] <= s.available[j] /\ t.need[i][j] = s.need[i][j] - r[j]
      BY <1>4 DEF \preceq, \ominus
    <3>4. Free(t, D)[j] = Free(s, D)[j] + (t.available[j] - s.available[j])
      BY <2>1, <2>2
    <3> QED  BY <1>5, <3>1, <3>2, <3>3, <3>4
  <2>3. CASE i \notin D
    <3>1. \A k \in D : Active(s, k) /\ ~ (s.need[k] \preceq Free(s, D))
      <4>1. ASSUME NEW k \in D PROVE Active(s, k) /\ ~ (s.need[k] \preceq Free(s, D))
        <5>1. k \in Proc /\ k # i /\ Active(t, k) /\ ~ (t.need[k] \preceq Free(t, D))
          BY <1>6, <2>3 DEF Stuck
        <5> QED  BY <1>4, <2>1, <2>3, <5>1 DEF \preceq
      <4> QED  BY <4>1
    <3>2. Stuck(s, D, s.need)
      BY <1>6, <3>1 DEF Stuck
    <3> QED  BY <3>2 DEF Sound, Safe
  <2> QED  BY <2>2, <2>3
<1>7. Safe(t)
  BY <1>6 DEF Safe
<1> QED  BY <1>2, <1>7 DEF t

\* rsm.c with avoidance: if all registered processes waited, one of them could
\* finish with what is available, its request would be safe, and the last scan of
\* the waiters would have granted it.
THEOREM SomeoneGoesOn == Spec => []SomeoneRuns
<1>1. ASSUME IInv, Books, NoMissedGrant, Avoid, NEW a \in Proc, Active(g, a),
             \A i \in Proc : Active(g, i) => g.waiting[i]
      PROVE  FALSE
  <2> DEFINE D == {k \in Proc : Active(g, k)}
  <2>1. Sound(g) /\ g \in State /\ IdleHoldNothing(g)
    BY <1>1, BooksIdle DEF IInv, Sound
  <2>2. D # {} /\ D \in SUBSET Proc
    BY <1>1
  <2>3. PICK i \in D : g.need[i] \preceq Free(g, D)
    <3>1. ~ Stuck(g, D, g.need)
      BY <1>1, <2>1, <2>2 DEF Sound, Safe
    <3> QED  BY <2>2, <3>1 DEF Stuck
  <2>4. g.need[i] \preceq g.available
    <3>1. \A j \in Res : Free(g, D)[j] = g.available[j]
      BY <2>1, FreeOfHolders
    <3> HIDE DEF D
    <3> QED  BY <2>3, <3>1 DEF \preceq
  <2>5. i \in Proc /\ Active(g, i) /\ g.waiting[i]
    BY <1>1
  <2>6. g.request[i] \in Vectors /\ g.request[i] \preceq g.need[i]
    BY <1>1, <2>1, <2>5 DEF Sound, Ledger, State, Matrix, Vectors
  <2> HIDE DEF D
  <2>7. g.request[i] \preceq g.available /\ Safe(Granted(g, i, g.request[i]))
    BY <1>1, <2>1, <2>4, <2>5, <2>6, FirstToFinish
  <2>8. is_safe(g, i, g.request[i])
    BY <1>1, <2>1, <2>5, <2>6, <2>7, IsSafeComplete
  <2>9. CanSatisfy(g, i)
    BY <2>5, <2>7, <2>8 DEF CanSatisfy, Grantable
  <2> QED  BY <1>1, <2>5, <2>9 DEF NoMissedGrant
<1>2. IInv /\ Books /\ NoMissedGrant => SomeoneRuns
  BY <1>1 DEF SomeoneRuns
<1> QED  BY <1>2, BooksKept, GrantsNotMissed, PTL

-----------------------------------------------------------------------------
(* What a blocked process keeps, and the deadlocks that stay.              *)

\* From s to t the id i keeps what it holds, or gains, and its owner.
Keeps(s, t, i) ==
  s.allocation[i] \preceq t.allocation[i] /\ t.apid_to_pid[i] = s.apid_to_pid[i]

LEMMA KeepsSame ==
  ASSUME NEW s \in State, NEW t, NEW i \in Proc,
         t.allocation[i] = s.allocation[i], t.apid_to_pid[i] = s.apid_to_pid[i]
  PROVE  Keeps(s, t, i)
BY Columns DEF Keeps, \preceq

LEMMA KeepsServed ==
  ASSUME NEW s \in State, NEW t, ServedFrom(s, t), NEW i \in Proc
  PROVE  Keeps(s, t, i)
<1>1. \A u : /\ Entry(u, i).allocation = u.allocation[i] /\ Entry(u, i).pid = u.apid_to_pid[i]
             /\ Entry(u, i).request = u.request[i]
  BY DEF Entry
<1>2. CASE Entry(t, i) = Entry(s, i)
  BY <1>1, <1>2, KeepsSame
<1>3. CASE Entry(t, i) = Served(Entry(s, i))
  <2>1. /\ t.allocation[i] = s.allocation[i] \oplus s.request[i]
        /\ t.apid_to_pid[i] = s.apid_to_pid[i]
    BY <1>1, <1>3 DEF Served
  <2>2. \A j \in Res : s.allocation[i][j] \in Nat /\ s.request[i][j] \in Nat
    BY DEF State, Matrix
  <2> QED  BY <2>1, <2>2 DEF Keeps, \preceq, \oplus
<1> QED  BY <1>2, <1>3 DEF ServedFrom

\* A handler that changes the entry of one id keeps the others'.
LEMMA KeepsEnters ==
  ASSUME NEW s \in State, NEW k \in Proc, NEW e, NEW t, Enters(s, k, e, t),
         NEW i \in Proc, i # k
  PROVE  Keeps(s, t, i)
<1>1. Entry(t, i) = Entry(s, i)
  BY DEF Enters
<1> QED  BY <1>1, SameEntry, KeepsSame

LEMMA KeepsThenServed ==
  ASSUME NEW s \in State, NEW k \in Proc, NEW e, NEW t, Enters(s, k, e, t),
         NEW u, ServedFrom(t, u), NEW i \in Proc, i # k
  PROVE  Keeps(s, u, i)
<1>1. Entry(t, i) = Entry(s, i) /\ t \in State
  BY DEF Enters
<1>2. t.allocation[i] = s.allocation[i] /\ t.apid_to_pid[i] = s.apid_to_pid[i]
  BY <1>1, SameEntry
<1>3. Keeps(t, u, i)
  BY <1>1, KeepsServed
<1> QED  BY <1>2, <1>3 DEF Keeps

LEMMA StepKeeps ==
  ASSUME IInv, Books, [Next]_vars, NEW p \in Pid, NEW i \in Proc, blocked[p] = i
  PROVE  Keeps(g, g', i)
<1>1. /\ Sound(g) /\ g \in State /\ i # NoApid
      /\ blocked \in [Pid -> Proc \cup {NoApid}]
  BY DEF IInv, Sound, ProcessTypes, Proc, NoApid
<1>2. g.apid_to_pid[i] = p /\ Pending(g, i) /\ Active(g, i)
  <2>1. g.apid_to_pid[i] = p /\ Pending(g, i)
    BY <1>1 DEF Books, Awaited
  <2> QED  BY <2>1 DEF Books, Awaited
<1>3. CASE g' = g
  BY <1>1, <1>3, KeepsSame
<1>4. CASE UNCHANGED vars
  BY <1>3, <1>4 DEF vars
<1>5. ASSUME NEW q \in Pid, NEW child \in Pid, Fork(q, child) PROVE g' = g
  BY <1>5 DEF Fork
<1>6. ASSUME NEW q \in Pid, Die(q) PROVE g' = g
  BY <1>6 DEF Die
<1>7. ASSUME NEW q \in Pid, NEW k \in Proc, NEW v \in Vector, RefusedCall(q, k, v) PROVE g' = g
  BY <1>7 DEF RefusedCall
<1>8. ASSUME NEW q \in Pid, NEW k \in Proc, Running(q), CurrentApid(q) = k PROVE k # i
  <2>1. ~ Pending(g, k)
    BY <1>8, Caller
  <2> QED  BY <1>2, <2>1
<1>9. ASSUME NEW q \in Pid, NEW k \in Proc, rsm_process_started(q, k) PROVE Keeps(g, g', i)
  <2>1. k # i /\ g' = Started(g, k, q)
    BY <1>2, <1>9 DEF rsm_process_started
  <2> QED  BY <1>1, <2>1, StartedEntry, KeepsEnters
<1>10. ASSUME NEW q \in Pid, NEW k \in Proc, rsm_process_ended(q, k) PROVE Keeps(g, g', i)
  <2>1. k # i /\ g' = TrySatisfy(Ended(g, k))
    BY <1>8, <1>10 DEF rsm_process_ended
  <2>2. ServedFrom(Ended(g, k), g')
    BY <1>1, <2>1, EndedSound, TrySatisfyServes
  <2> QED  BY <1>1, <2>1, <2>2, EndedEntry, KeepsThenServed
<1>11. ASSUME NEW q \in Pid, NEW k \in Proc, NEW v \in Vectors, rsm_claim(q, k, v)
       PROVE  Keeps(g, g', i)
  <2>1. k # i /\ (g' = g \/ g' = Claimed(g, k, v))
    BY <1>8, <1>11 DEF rsm_claim, Calls
  <2> QED  BY <1>1, <1>3, <2>1, ClaimedEntry, KeepsEnters
<1>12. ASSUME NEW q \in Pid, NEW k \in Proc, NEW v \in Vectors, RequestGranted(q, k, v)
       PROVE  Keeps(g, g', i)
  <2> DEFINE t == Requested(g, k, v)
  <2>1. k # i /\ g' = Granted(t, k, v)
    BY <1>8, <1>12 DEF RequestGranted, Calls
  <2>2. g' \in State
    BY <1>12, GrantStep DEF IInv, Sound
  <2>3. RequestedEffect(g, k, v, t)
    BY <1>1, RequestedFields
  <2> HIDE DEF t
  <2>4. /\ t \in State
        /\ t.allocation[i] = g.allocation[i] /\ t.apid_to_pid[i] = g.apid_to_pid[i]
    BY <2>3 DEF RequestedEffect
  <2>5. Keeps(t, g', i)
    BY <2>1, <2>2, <2>4, GrantedEntry, KeepsEnters
  <2> QED  BY <2>4, <2>5 DEF Keeps
<1>13. ASSUME NEW q \in Pid, NEW k \in Proc, NEW v \in Vectors, RequestWaits(q, k, v)
       PROVE  Keeps(g, g', i)
  <2>1. g' = [Requested(g, k, v) EXCEPT !.waiting[k] = TRUE]
    BY <1>13 DEF RequestWaits
  <2>2. RequestedEffect(g, k, v, Requested(g, k, v))
    BY <1>1, RequestedFields
  <2>3. g'.allocation = g.allocation /\ g'.apid_to_pid = g.apid_to_pid
    BY <2>1, <2>2 DEF RequestedEffect, State
  <2> QED  BY <1>1, <2>3, KeepsSame
<1>14. ASSUME NEW q \in Pid, NEW k \in Proc, Wake(q, k) PROVE Keeps(g, g', i)
  <2>1. g'.allocation = g.allocation /\ g'.apid_to_pid = g.apid_to_pid
    BY <1>1, <1>14 DEF Wake, State
  <2> QED  BY <1>1, <2>1, KeepsSame
<1>15. ASSUME NEW q \in Pid, NEW k \in Proc, NEW v \in Vectors, rsm_release(q, k, v)
       PROVE  Keeps(g, g', i)
  <2>1. k # i /\ g' = TrySatisfy(Released(g, k, v)) /\ v \preceq g.allocation[k]
    BY <1>8, <1>15 DEF rsm_release, Calls, ReleaseRefused
  <2>2. Sound(Released(g, k, v)) /\ Released(g, k, v) \in State
    BY <1>1, <2>1, ReleasedSound DEF Sound
  <2>3. ServedFrom(Released(g, k, v), g')
    BY <2>1, <2>2, TrySatisfyServes
  <2> QED  BY <1>1, <2>1, <2>2, <2>3, ReleasedEntry, KeepsThenServed
<1>16. \A v \in Vector : v \in Vectors
  BY InputVector
<1> QED  BY <1>3, <1>4, <1>5, <1>6, <1>7, <1>9, <1>10, <1>11, <1>12, <1>13, <1>14, <1>15,
            <1>16 DEF Next

\* rsm.c: as long as a process is blocked in rsm_request, no call of another one
\* takes what it holds or hands its id to somebody else.
THEOREM NothingTaken == Spec => BlockedKeeps
<1>1. IInv /\ Books /\ [Next]_vars =>
        [ \A p \in Pid : \A i \in Proc :
            blocked[p] = i /\ blocked'[p] = i =>
              g.allocation[i] \preceq g'.allocation[i] /\ g'.apid_to_pid[i] = p ]_vars
  <2> SUFFICES ASSUME IInv, Books, [Next]_vars, NEW p \in Pid, NEW i \in Proc, blocked[p] = i
               PROVE  g.allocation[i] \preceq g'.allocation[i] /\ g'.apid_to_pid[i] = p
    OBVIOUS
  <2>1. Keeps(g, g', i)
    BY StepKeeps
  <2>2. i # NoApid
    BY DEF Proc, NoApid
  <2>3. g.apid_to_pid[i] = p
    BY <2>2 DEF Books, Awaited
  <2> QED  BY <2>1, <2>3 DEF Keeps
<1> QED  BY <1>1, BooksKept, PTL DEF Spec, BlockedKeeps

\* Processes that wait for each other still do when instances move between the
\* pool and somebody else.
LEMMA KnotMove ==
  ASSUME NEW s \in State, NEW t \in State, NEW D \in Knots(s), NEW i \in Proc, i \notin D,
         \A k \in Proc : k # i => /\ t.allocation[k] = s.allocation[k]
                                  /\ t.request[k] = s.request[k]
                                  /\ t.apid_to_pid[k] = s.apid_to_pid[k],
         \A j \in Res : t.available[j] + t.allocation[i][j]
                          = s.available[j] + s.allocation[i][j]
  PROVE  D \in Knots(t)
<1>1. D \in SUBSET Proc /\ Stuck(s, D, s.request) /\ \A k \in D : s.allocation[k] # Zero
  BY DEF Knots
<1>2. \A j \in Res : Free(t, D)[j] = Free(s, D)[j]
  <2>1. \A k \in Proc : k # i => t.allocation[k] = s.allocation[k]
    OBVIOUS
  <2> QED  BY <2>1, FreeMove
<1>3. ASSUME NEW k \in D
      PROVE  /\ Active(t, k) /\ ~ (t.request[k] \preceq Free(t, D))
             /\ t.allocation[k] # Zero
  <2>1. k \in Proc /\ k # i
    BY <1>1
  <2>2. Active(s, k) /\ ~ (s.request[k] \preceq Free(s, D)) /\ s.allocation[k] # Zero
    BY <1>1 DEF Stuck
  <2> QED  BY <1>2, <2>1, <2>2 DEF Active, \preceq
<1> QED  BY <1>1, <1>3 DEF Knots, Stuck

LEMMA KnotEnters ==
  ASSUME NEW s \in State, NEW D \in Knots(s), NEW i \in Proc, i \notin D,
         NEW e, NEW t, Enters(s, i, e, t),
         \A j \in Res : t.available[j] + t.allocation[i][j]
                          = s.available[j] + s.allocation[i][j]
  PROVE  D \in Knots(t)
<1>1. \A k \in Proc : k # i => Entry(t, k) = Entry(s, k)
  BY DEF Enters
<1>2. \A k \in Proc : k # i => /\ t.allocation[k] = s.allocation[k]
                               /\ t.request[k] = s.request[k]
                               /\ t.apid_to_pid[k] = s.apid_to_pid[k]
  BY <1>1, SameEntry
<1>3. t \in State
  BY DEF Enters
<1> QED  BY <1>2, <1>3, KnotMove

\* try_satisfy_waiting cannot serve a member of such a set.
LEMMA KnotServed ==
  ASSUME NEW s, Sound(s), NEW D \in Knots(s)
  PROVE  D \in Knots(TrySatisfy(s))
<1> DEFINE T == {u \in State : Sound(u) /\ D \in Knots(u)}
<1>1. ASSUME NEW u \in T, NEW i \in Proc, CanSatisfy(u, i) PROVE Satisfied(u, i) \in T
  <2>1. Sound(u) /\ u \in State /\ D \in Knots(u)
    OBVIOUS
  <2>2. u.request[i] \preceq u.available
    BY <1>1 DEF CanSatisfy, Grantable
  <2>3. i \notin D
    <3>1. \A j \in Res : u.request[i][j] <= Free(u, D)[j]
      <4>1. ASSUME NEW j \in Res PROVE u.request[i][j] <= Free(u, D)[j]
        <5>1. u.request[i][j] <= u.available[j] /\ u.available[j] <= Free(u, D)[j]
          BY <2>1, <2>2, FreeAtLeast DEF \preceq
        <5>2. u.request[i][j] \in Nat /\ u.available[j] \in Nat /\ Free(u, D)[j] \in Nat
          BY <2>1, FreeVector DEF State, Matrix, Vectors
        <5> QED  BY <5>1, <5>2
      <4> QED  BY <4>1
    <3> QED  BY <2>1, <3>1 DEF Knots, Stuck, \preceq
  <2>4. SatisfiedEffect(u, i, Satisfied(u, i)) /\ Sound(Satisfied(u, i))
        /\ Enters(u, i, Served(Entry(u, i)), Satisfied(u, i))
    BY <1>1, <2>1, SatisfiedFields, SatisfiedSound, SatisfiedEntry
  <2> DEFINE t == Satisfied(u, i)
  <2> HIDE DEF t
  <2>5. ASSUME NEW j \in Res
        PROVE  t.available[j] + t.allocation[i][j] = u.available[j] + u.allocation[i][j]
    <3>1. /\ t.available = u.available \ominus u.request[i]
          /\ t.allocation = [u.allocation EXCEPT ![i] = @ \oplus u.request[i]]
          /\ u.allocation \in Matrix
      BY <2>1, <2>4 DEF SatisfiedEffect, State, t
    <3>2. /\ t.available[j] = u.available[j] - u.request[i][j]
          /\ t.allocation[i][j] = u.allocation[i][j] + u.request[i][j]
      BY <3>1 DEF Matrix, \oplus, \ominus
    <3>3. u.available[j] \in Nat /\ u.request[i][j] \in Nat /\ u.allocation[i][j] \in Nat
      BY <2>1 DEF State, Matrix
    <3> QED  BY <3>2, <3>3
  <2>6. Enters(u, i, Served(Entry(u, i)), t)
    BY <2>4 DEF t
  <2>7. D \in Knots(t)
    BY <2>1, <2>3, <2>5, <2>6, KnotEnters
  <2>8. Sound(t) /\ t \in State
    BY <2>4 DEF Sound, t
  <2>9. t \in T
    BY <2>7, <2>8
  <2> QED  BY <2>9 DEF t
<1>2. s \in T /\ \A u \in T : Sound(u)
  BY DEF Sound
<1> HIDE DEF T
<1>3. TrySatisfy(s) \in T
  BY <1>1, <1>2, TrySatisfyInvariant
<1> QED  BY <1>3 DEF T

\* The members of such a set all have a request waiting.
LEMMA KnotWaits ==
  ASSUME IInv, Books, NEW D \in Knots(g), NEW i \in D
  PROVE  i \in Proc /\ g.waiting[i] /\ Active(g, i)
<1>1. i \in Proc /\ Active(g, i) /\ ~ (g.request[i] \preceq Free(g, D)) /\ g \in State
  BY DEF Knots, Stuck, IInv, Sound
<1>2. g.request[i] # Zero
  <2>1. \A j \in Res : Free(g, D)[j] \in Nat
    BY <1>1, FreeVector DEF Vectors
  <2> QED  BY <1>1, <2>1 DEF Zero, \preceq
<1> QED  BY <1>1, <1>2 DEF Books, Recorded

LEMMA StepKnot ==
  ASSUME IInv, Books, [Next]_vars, NEW D \in Knots(g)
  PROVE  D \in Knots(g')
<1>1. Sound(g) /\ g \in State
  BY DEF IInv, Sound
<1>2. ASSUME NEW q \in Pid, NEW k \in Proc, Running(q), CurrentApid(q) = k PROVE k \notin D
  <2>1. ~ g.waiting[k]
    BY <1>2, Caller
  <2> QED  BY <2>1, KnotWaits
<1>3. CASE UNCHANGED vars
  BY <1>3 DEF vars
<1>4. ASSUME NEW q \in Pid, NEW child \in Pid, Fork(q, child) PROVE g' = g
  BY <1>4 DEF Fork
<1>5. ASSUME NEW q \in Pid, Die(q) PROVE g' = g
  BY <1>5 DEF Die
<1>6. ASSUME NEW q \in Pid, NEW k \in Proc, NEW v \in Vector, RefusedCall(q, k, v) PROVE g' = g
  BY <1>6 DEF RefusedCall
<1>7. ASSUME NEW q \in Pid, NEW k \in Proc, rsm_process_started(q, k) PROVE D \in Knots(g')
  <2>1. g' = Started(g, k, q) /\ ~ Active(g, k)
    BY <1>7 DEF rsm_process_started
  <2>2. k \notin D
    BY <2>1, KnotWaits
  <2>3. g'.available = g.available /\ g'.allocation = g.allocation
    BY <1>1, <2>1, StartedFields, ZenonT(60) DEF StartedEffect
  <2> QED  BY <1>1, <2>1, <2>2, <2>3, StartedEntry, KnotEnters
<1>8. ASSUME NEW q \in Pid, NEW k \in Proc, rsm_process_ended(q, k) PROVE D \in Knots(g')
  <2> DEFINE t == Ended(g, k)
  <2>1. k \notin D /\ g' = TrySatisfy(t)
    BY <1>2, <1>8 DEF rsm_process_ended
  <2>2. EndedEffect(g, k, t) /\ Sound(t)
    BY <1>1, EndedFields, EndedSound
  <2>3. Enters(g, k, [ allocation |-> Zero, request |-> Zero, waiting |-> FALSE,
                       sem |-> g.process_sem[k], pid |-> NoPid ], t)
    BY <1>1, EndedEntry
  <2> HIDE DEF t
  <2>4. ASSUME NEW j \in Res
        PROVE  t.available[j] + t.allocation[k][j] = g.available[j] + g.allocation[k][j]
    <3>1. t.available[j] = g.available[j] + g.allocation[k][j]
      BY <2>2 DEF EndedEffect, \oplus
    <3>2. t.allocation[k][j] = 0
      BY <1>1, <2>2 DEF EndedEffect, State, Matrix, Zero
    <3>3. g.available[j] \in Nat /\ g.allocation[k][j] \in Nat
      BY <1>1, Columns
    <3> QED  BY <3>1, <3>2, <3>3
  <2>5. D \in Knots(t)
    BY <1>1, <2>1, <2>3, <2>4, KnotEnters
  <2> QED  BY <2>1, <2>2, <2>5, KnotServed
<1>9. ASSUME NEW q \in Pid, NEW k \in Proc, NEW v \in Vectors, rsm_claim(q, k, v)
      PROVE  D \in Knots(g')
  <2>1. k \notin D /\ (g' = g \/ g' = Claimed(g, k, v))
    BY <1>2, <1>9 DEF rsm_claim, Calls
  <2>2. CASE g' = g
    BY <2>2
  <2>3. CASE g' = Claimed(g, k, v)
    <3>1. g'.available = g.available /\ g'.allocation = g.allocation
      BY <1>1, <2>3, ClaimedFields, ZenonT(60) DEF ClaimedEffect
    <3>2. Enters(g, k, Entry(g, k), g')
      BY <1>1, <2>3, ClaimedEntry
    <3> QED  BY <1>1, <2>1, <3>1, <3>2, KnotEnters
  <2> QED  BY <2>1, <2>2, <2>3
<1>10. ASSUME NEW q \in Pid, NEW k \in Proc, NEW v \in Vectors, RequestGranted(q, k, v)
       PROVE  D \in Knots(g')
  <2> DEFINE t == Requested(g, k, v)
  <2>1. k \notin D /\ g' = Granted(t, k, v)
    BY <1>2, <1>10 DEF RequestGranted, Calls
  <2>2. g' \in State
    BY <1>10, GrantStep DEF IInv, Sound
  <2>3. /\ RequestedEffect(g, k, v, t)
        /\ Enters(g, k, [ allocation |-> g.allocation[k], request |-> v,
                          waiting |-> g.waiting[k], sem |-> g.process_sem[k],
                          pid |-> g.apid_to_pid[k] ], t)
    BY <1>1, RequestedFields, RequestedEntry
  <2> HIDE DEF t
  <2>4. t \in State /\ t.available = g.available /\ t.allocation = g.allocation
    BY <2>3 DEF RequestedEffect
  <2>5. D \in Knots(t)
    BY <1>1, <2>1, <2>3, <2>4, KnotEnters
  <2>6. /\ GrantedEffect(t, k, v, g')
        /\ Enters(t, k, [ allocation |-> t.allocation[k] \oplus v, request |-> Zero,
                          waiting |-> t.waiting[k], sem |-> t.process_sem[k],
                          pid |-> t.apid_to_pid[k] ], g')
    BY <2>1, <2>2, <2>4, GrantedFields, GrantedEntry
  <2>7. ASSUME NEW j \in Res
        PROVE  g'.available[j] + g'.allocation[k][j] = t.available[j] + t.allocation[k][j]
    <3>1. g'.available[j] = t.available[j] - v[j]
      BY <2>6 DEF GrantedEffect, \ominus
    <3>2. g'.allocation[k][j] = t.allocation[k][j] + v[j]
      BY <2>4, <2>6 DEF GrantedEffect, State, Matrix, \oplus
    <3>3. t.available[j] \in Nat /\ t.allocation[k][j] \in Nat /\ v[j] \in Nat
      BY <2>4, Columns DEF Vectors
    <3> QED  BY <3>1, <3>2, <3>3
  <2> QED  BY <2>1, <2>4, <2>5, <2>6, <2>7, KnotEnters
<1>11. ASSUME NEW q \in Pid, NEW k \in Proc, NEW v \in Vectors, RequestWaits(q, k, v)
       PROVE  D \in Knots(g')
  <2>1. k \notin D /\ g' = [Requested(g, k, v) EXCEPT !.waiting[k] = TRUE]
    BY <1>2, <1>11 DEF RequestWaits, Calls
  <2>2. RequestedEffect(g, k, v, Requested(g, k, v))
    BY <1>1, RequestedFields
  <2>3. /\ g'.allocation = g.allocation /\ g'.apid_to_pid = g.apid_to_pid
        /\ g'.available = g.available /\ g'.request = [g.request EXCEPT ![k] = v]
        /\ g.request \in Matrix
    BY <1>1, <2>1, <2>2 DEF RequestedEffect, State
  <2>4. \A m \in Proc : m # k => g'.request[m] = g.request[m]
    BY <2>3 DEF Matrix
  <2>5. g' \in State
    BY <1>11, WaitStep DEF IInv, Sound
  <2> QED  BY <1>1, <2>1, <2>3, <2>4, <2>5, KnotMove
<1>12. ASSUME NEW q \in Pid, NEW k \in Proc, Wake(q, k) PROVE D \in Knots(g')
  <2>1. /\ g'.allocation = g.allocation /\ g'.apid_to_pid = g.apid_to_pid
        /\ g'.available = g.available /\ g'.request = g.request
    BY <1>1, <1>12 DEF Wake, State
  <2> QED  BY <2>1 DEF Knots, Stuck, Active, Free
<1>13. ASSUME NEW q \in Pid, NEW k \in Proc, NEW v \in Vectors, rsm_release(q, k, v)
       PROVE  D \in Knots(g')
  <2> DEFINE t == Released(g, k, v)
             e == [ allocation |-> g.allocation[k] \ominus v, request |-> g.request[k],
                    waiting |-> g.waiting[k], sem |-> g.process_sem[k],
                    pid |-> g.apid_to_pid[k] ]
  <2>1. k \notin D /\ g' = TrySatisfy(t) /\ v \preceq g.allocation[k]
    BY <1>2, <1>13 DEF rsm_release, Calls, ReleaseRefused
  <2>2. Sound(t) /\ t \in State
    BY <1>1, <2>1, ReleasedSound DEF Sound
  <2>3. ReleasedEffect(g, k, v, t) /\ Enters(g, k, e, t)
    BY <1>1, <2>2, ReleasedFields, ReleasedEntry
  <2> HIDE DEF t, e
  <2>4. ASSUME NEW j \in Res
        PROVE  t.available[j] + t.allocation[k][j] = g.available[j] + g.allocation[k][j]
    <3>1. t.available[j] = g.available[j] + v[j]
      BY <2>3 DEF ReleasedEffect, \oplus
    <3>2. t.allocation[k][j] = g.allocation[k][j] - v[j]
      BY <1>1, <2>3 DEF ReleasedEffect, State, Matrix, \ominus
    <3>3. g.available[j] \in Nat /\ g.allocation[k][j] \in Nat /\ v[j] \in Nat
      BY <1>1, Columns DEF Vectors
    <3> QED  BY <3>1, <3>2, <3>3
  <2>5. D \in Knots(t)
    BY <1>1, <2>1, <2>3, <2>4, KnotEnters
  <2> QED  BY <2>1, <2>2, <2>5, KnotServed
<1>14. \A v \in Vector : v \in Vectors
  BY InputVector
<1> QED  BY <1>3, <1>4, <1>5, <1>6, <1>7, <1>8, <1>9, <1>10, <1>11, <1>12, <1>13, <1>14 DEF Next

\* rsm.c: whom rsm_detection once counts as deadlocked it counts for ever; a monitor
\* that polls it cannot look at the wrong moment.
THEOREM DeadlocksStay == Spec => DeadlockStable
<1>1. ASSUME IInv, Books, IInv', Books', [Next]_vars
      PROVE  Deadlocked(g) \subseteq Deadlocked(g')
  <2>1. g \in State /\ IdleHoldNothing(g)
    BY <1>1, BooksIdle DEF IInv, Sound
  <2>2. g' \in State /\ IdleHoldNothing(g')
    BY <1>1 DEF IInv, Sound, Books, Recorded, IdleHoldNothing
  <2>3. CASE Deadlocked(g) = {}
    BY <2>3
  <2>4. CASE Deadlocked(g) # {}
    <3>1. Deadlocked(g) \in Knots(g)
      BY <2>1, <2>4, DetectionFinds
    <3>2. Deadlocked(g) \in Knots(g')
      BY <1>1, <3>1, StepKnot
    <3>3. Deadlocked(g') = UNION Knots(g')
      BY <2>2, DetectionFinds
    <3> QED  BY <3>2, <3>3
  <2> QED  BY <2>3, <2>4
<1>2. (IInv /\ Books) /\ (IInv /\ Books)' /\ [Next]_vars => [Deadlocked(g) \subseteq Deadlocked(g')]_vars
  BY <1>1
<1> QED  BY <1>2, BooksKept, PTL DEF Spec, DeadlockStable
=============================================================================
