------------------------------ MODULE TusProofs ------------------------------
(***************************************************************************)
(* For any number of threads, either scheduler and any sequence of calls:  *)
(* the thread library keeps its types, the ready queue agrees with the     *)
(* states of the threads and never overflows, the resume flags tell the    *)
(* two returns of getcontext apart, and every step is a step of the        *)
(* abstract scheduler Cooperative.                                         *)
(***************************************************************************)
EXTENDS Tus, FiniteSetTheorems, SequenceTheorems, TLAPS

-----------------------------------------------------------------------------
(* The ready queue as a sequence without repetitions of the set S.         *)

Holds(q, t) == \E k \in 1 .. Len(q) : q[k] = t

Exact(q, S) ==
  /\ q \in Seq(Tid)
  /\ \A t \in Tid : t \in S <=> Holds(q, t)
  /\ \A j, k \in 1 .. Len(q) : q[j] = q[k] => j = k

\* RemoveAt closes the gap.
LEMMA RemoveAtAt ==
  ASSUME NEW q \in Seq(Tid), NEW k \in 1 .. Len(q)
  PROVE  /\ RemoveAt(q, k) \in Seq(Tid)
         /\ Len(RemoveAt(q, k)) = Len(q) - 1
         /\ \A j \in 1 .. Len(q) - 1 :
              RemoveAt(q, k)[j] = IF j < k THEN q[j] ELSE q[j + 1]
<1> DEFINE a == SubSeq(q, 1, k - 1)
           b == SubSeq(q, k + 1, Len(q))
<1>1. a \in Seq(Tid) /\ Len(a) = k - 1 /\ \A j \in 1 .. k - 1 : a[j] = q[j]
  OBVIOUS
<1>2. b \in Seq(Tid) /\ Len(b) = Len(q) - k /\ \A j \in 1 .. Len(q) - k : b[j] = q[j + k]
  OBVIOUS
<1>3. RemoveAt(q, k) = a \o b
  BY DEF RemoveAt
<1> HIDE DEF a, b
<1>4. /\ a \o b \in Seq(Tid)
      /\ Len(a \o b) = Len(a) + Len(b)
      /\ \A j \in 1 .. Len(a) + Len(b) :
           (a \o b)[j] = IF j <= Len(a) THEN a[j] ELSE b[j - Len(a)]
  BY <1>1, <1>2, ConcatProperties
<1>5. Len(q) \in Nat /\ Len(a) + Len(b) = Len(q) - 1
  BY <1>1, <1>2
<1>6. ASSUME NEW j \in 1 .. Len(q) - 1
      PROVE  (a \o b)[j] = IF j < k THEN q[j] ELSE q[j + 1]
  <2>1. CASE j < k
    BY <1>1, <1>4, <1>5, <2>1
  <2>2. CASE ~ (j < k)
    <3>1. (a \o b)[j] = b[j - (k - 1)]
      BY <1>1, <1>4, <1>5, <2>2
    <3>2. j - (k - 1) \in 1 .. Len(q) - k /\ (j - (k - 1)) + k = j + 1
      BY <1>5, <2>2
    <3> QED  BY <1>2, <2>2, <3>1, <3>2
  <2> QED  BY <2>1, <2>2
<1> QED  BY <1>3, <1>4, <1>5, <1>6

LEMMA AppendExact ==
  ASSUME NEW q, NEW S \in SUBSET Tid, Exact(q, S), NEW t \in Tid, t \notin S
  PROVE  Exact(Append(q, t), S \cup {t})
<1>1. q \in Seq(Tid) /\ Append(q, t) \in Seq(Tid)
  BY DEF Exact
<1>2. /\ Len(Append(q, t)) = Len(q) + 1
      /\ \A k \in 1 .. Len(q) : Append(q, t)[k] = q[k]
      /\ Append(q, t)[Len(q) + 1] = t
  BY <1>1
<1>3. Len(q) \in Nat
  BY <1>1
<1>4. ASSUME NEW u \in Tid
      PROVE  u \in S \cup {t} <=> Holds(Append(q, t), u)
  BY <1>2, <1>3 DEF Exact, Holds
<1>5. ASSUME NEW j \in 1 .. Len(q) + 1, NEW k \in 1 .. Len(q) + 1,
             Append(q, t)[j] = Append(q, t)[k]
      PROVE  j = k
  BY <1>2, <1>3, <1>5 DEF Exact, Holds
<1> QED  BY <1>1, <1>2, <1>4, <1>5 DEF Exact

LEMMA RemoveExact ==
  ASSUME NEW q, NEW S \in SUBSET Tid, Exact(q, S), NEW k \in 1 .. Len(q)
  PROVE  /\ q[k] \in S
         /\ Exact(RemoveAt(q, k), S \ {q[k]})
<1> DEFINE r == RemoveAt(q, k)
<1>1. q \in Seq(Tid) /\ Len(q) \in Nat /\ q[k] \in Tid
  BY DEF Exact
<1>2. q[k] \in S
  BY <1>1 DEF Exact, Holds
<1>3. /\ r \in Seq(Tid)
      /\ Len(r) = Len(q) - 1
      /\ \A j \in 1 .. Len(q) - 1 : r[j] = IF j < k THEN q[j] ELSE q[j + 1]
  BY <1>1, RemoveAtAt
<1> HIDE DEF r
<1>4. \A j \in 1 .. Len(q), m \in 1 .. Len(q) : q[j] = q[m] => j = m
  BY DEF Exact
<1>5. ASSUME NEW u \in Tid
      PROVE  u \in S \ {q[k]} <=> Holds(r, u)
  <2>1. ASSUME u \in S, u # q[k]
        PROVE  Holds(r, u)
    <3>1. PICK j \in 1 .. Len(q) : q[j] = u
      BY <2>1 DEF Exact, Holds
    <3>2. j # k
      BY <3>1, <2>1
    <3>3. CASE j < k
      BY <3>1, <3>3, <1>1, <1>3 DEF Holds
    <3>4. CASE j > k
      <4>1. j - 1 \in 1 .. Len(q) - 1 /\ r[j - 1] = q[j]
        BY <3>4, <1>1, <1>3
      <4> QED  BY <4>1, <3>1, <1>3 DEF Holds
    <3> QED  BY <3>2, <3>3, <3>4
  <2>2. ASSUME Holds(r, u)
        PROVE  u \in S /\ u # q[k]
    <3>1. PICK j \in 1 .. Len(q) - 1 : r[j] = u
      BY <2>2, <1>3 DEF Holds
    <3>2. PICK m \in 1 .. Len(q) : m # k /\ q[m] = u
      BY <3>1, <1>1, <1>3
    <3> QED  BY <3>2, <1>4 DEF Exact, Holds
  <2> QED  BY <2>1, <2>2
<1>6. ASSUME NEW j \in 1 .. Len(r), NEW m \in 1 .. Len(r), r[j] = r[m]
      PROVE  j = m
  BY <1>1, <1>3, <1>4, <1>6
<1> QED  BY <1>2, <1>3, <1>5, <1>6 DEF Exact, r

\* PlaceOf finds the entry of a member, and only of a member.
LEMMA PlaceExact ==
  ASSUME NEW q, NEW S \in SUBSET Tid, Exact(q, S), NEW t \in Tid
  PROVE  /\ t \in S => PlaceOf(q, t) \in 1 .. Len(q) /\ q[PlaceOf(q, t)] = t
         /\ t \notin S => PlaceOf(q, t) = 0
         /\ \A k \in 1 .. Len(q) : q[k] = t => PlaceOf(q, t) = k
<1>1. q \in Seq(Tid) /\ Len(q) \in Nat
  BY DEF Exact
<1>2. ASSUME NEW k \in 1 .. Len(q), q[k] = t
      PROVE  PlaceOf(q, t) = k
  <2>1. \A j \in 1 .. Len(q) : q[j] = t => j = k
    BY <1>2 DEF Exact
  <2>2. \A j \in 1 .. k - 1 : q[j] # t
    BY <2>1, <1>1
  <2> QED  BY <1>2, <2>1, <2>2 DEF PlaceOf
<1>3. t \in S => \E k \in 1 .. Len(q) : q[k] = t
  BY DEF Exact, Holds
<1>4. t \notin S => ~ \E k \in 1 .. Len(q) : q[k] = t
  BY DEF Exact, Holds
<1>5. t \notin S => PlaceOf(q, t) = 0
  BY <1>4 DEF PlaceOf
<1> QED  BY <1>2, <1>3, <1>5

LEMMA PicksInRange ==
  ASSUME NEW q \in Seq(Tid), q # <<>>
  PROVE  Picks(q) \subseteq 1 .. Len(q)
BY DEF Picks

-----------------------------------------------------------------------------
(* The threads.  The current thread is in the state its pc calls for, all  *)
(* the others are suspended in a context they can be resumed from.         *)

Ready(th) == {t \in Tid : th[t].state = "READY"}
Done(th) == {t \in Tid : th[t].state = "ENDED"}

Suspended(tcb) ==
  /\ tcb.state # "RUNNING"
  /\ tcb.resume_flag <=> tcb.saved # Stub /\ tcb.state = "READY"
  /\ tcb.state = "READY" /\ tcb.saved = Stub => tcb.joining = 0

Executing(tcb, p) ==
  /\ p = "exited" => tcb.state = "ENDED" /\ ~ tcb.resume_flag
  /\ p # "exited" => tcb.state = "RUNNING"
  /\ p = "app" => ~ tcb.resume_flag /\ tcb.joining = 0
  /\ p = "join" => ~ tcb.resume_flag /\ tcb.joining # 0
  /\ p = "context" => /\ tcb.resume_flag <=> tcb.saved # Stub
                      /\ tcb.saved = Stub => tcb.joining = 0

OthersSuspended(th, c) == \A u \in Tid \ {c} : Suspended(th[u])

AllSuspended(th) == th \in [Tid -> TCB] /\ \A u \in Tid : Suspended(th[u])

Threads(th, c, p) ==
  /\ th \in [Tid -> TCB] /\ c \in Tid /\ p \in Pc
  /\ Executing(th[c], p)
  /\ OthersSuspended(th, c)

Good(th, q, c, p) ==
  /\ Threads(th, c, p)
  /\ Exact(q, Ready(th))
  /\ p = "exited" => q = <<>>

IInv == Good(threads, ready_q, current_tid, pc)

\* The same threads are ready, and the same have ended.
Alike(th, th2) == Ready(th) = Ready(th2) /\ Done(th) = Done(th2)

LEMMA TcbFacts ==
  /\ Stub # TUS_ANY /\ Stub \notin Tid /\ TUS_ANY \notin Tid
  /\ NoTcb \in TCB /\ EndedTcb \in TCB /\ NewTcb("READY") \in TCB
BY TusAssumption DEF Stub, TUS_ANY, Tid, TCB, NoTcb, EndedTcb, NewTcb

\* setcontext makes a ready thread the current one.
LEMMA Switching ==
  ASSUME NEW th, AllSuspended(th), NEW next \in Ready(th),
         NEW q, Exact(q, Ready(th) \ {next})
  PROVE  LET th2 == [th EXCEPT ![next].state = "RUNNING"]
         IN  Good(th2, q, next, "context") /\ Done(th2) = Done(th)
<1> DEFINE th2 == [th EXCEPT ![next].state = "RUNNING"]
<1>1. next \in Tid /\ th \in [Tid -> TCB]
  BY DEF Ready, AllSuspended
<1>2. th2 \in [Tid -> TCB]
  BY <1>1 DEF TCB
<1>3. /\ th2[next].state = "RUNNING"
      /\ th2[next].resume_flag = th[next].resume_flag
      /\ th2[next].saved = th[next].saved
      /\ th2[next].joining = th[next].joining
      /\ \A u \in Tid \ {next} : th2[u] = th[u]
  BY <1>1 DEF TCB
<1> HIDE DEF th2
<1>4. th[next].state = "READY" /\ Suspended(th[next])
  BY <1>1 DEF Ready, AllSuspended
<1>5. Executing(th2[next], "context")
  BY <1>3, <1>4 DEF Suspended, Executing
<1>6. OthersSuspended(th2, next)
  BY <1>3 DEF OthersSuspended, AllSuspended
<1>7. Ready(th2) = Ready(th) \ {next} /\ Done(th2) = Done(th)
  BY <1>1, <1>3, <1>4 DEF Ready, Done
<1>8. "context" \in Pc /\ "context" # "exited"
  BY DEF Pc
<1>9. Good(th2, q, next, "context")
  BY <1>1, <1>2, <1>5, <1>6, <1>7, <1>8 DEF Good, Threads
<1> QED  BY <1>7, <1>9 DEF th2

\* The state of the threads once tus_yield has set resume_flag.
Flagged(th, c) ==
  /\ th \in [Tid -> TCB] /\ c \in Tid
  /\ th[c].state = "RUNNING" /\ th[c].resume_flag /\ th[c].saved # Stub
  /\ OthersSuspended(th, c)

LEMMA Queueing ==
  ASSUME NEW c, NEW th, Flagged(th, c)
  PROVE  /\ AllSuspended(Waiting(c, th))
         /\ Ready(Waiting(c, th)) = Ready(th) \cup {c}
         /\ Done(Waiting(c, th)) = Done(th)
         /\ c \notin Ready(th)
<1> DEFINE th2 == Waiting(c, th)
<1>1. th \in [Tid -> TCB] /\ c \in Tid
  BY DEF Flagged
<1>2. th2 \in [Tid -> TCB]
  BY <1>1 DEF Waiting, TCB
<1>3. /\ th2[c].state = "READY"
      /\ th2[c].resume_flag = th[c].resume_flag
      /\ th2[c].saved = th[c].saved
      /\ \A u \in Tid \ {c} : th2[u] = th[u]
  BY <1>1 DEF Waiting, TCB
<1> HIDE DEF th2
<1>4. th[c].state = "RUNNING" /\ th[c].resume_flag /\ th[c].saved # Stub
  BY DEF Flagged
<1>5. Suspended(th2[c])
  BY <1>3, <1>4 DEF Suspended
<1>6. AllSuspended(th2)
  BY <1>1, <1>2, <1>3, <1>5 DEF AllSuspended, Flagged, OthersSuspended
<1>7. Ready(th2) = Ready(th) \cup {c} /\ Done(th2) = Done(th) /\ c \notin Ready(th)
  BY <1>1, <1>3, <1>4 DEF Ready, Done
<1> QED  BY <1>6, <1>7 DEF th2

\* tus_yield returns to its caller.
LEMMA Returning ==
  ASSUME NEW th \in [Tid -> TCB], current_tid \in Tid,
         th[current_tid].state = "RUNNING", ~ th[current_tid].resume_flag,
         OthersSuspended(th, current_tid),
         NEW ok \in BOOLEAN, Return(current_tid, th, ok)
  PROVE  Threads(threads', current_tid', pc') /\ Alike(threads', th) /\ pc' # "exited"
<1> DEFINE c == current_tid
<1>1. current_tid' = c /\ threads' \in [Tid -> TCB]
  BY TusAssumption DEF Return, TCB
<1>2. /\ threads'[c].state = "RUNNING" /\ ~ threads'[c].resume_flag
      /\ threads'[c].joining = IF ok THEN th[c].joining ELSE 0
      /\ \A u \in Tid \ {c} : threads'[u] = th[u]
  BY DEF Return, TCB
<1>3. pc' = IF th[c].joining # 0 /\ ok THEN "join" ELSE "app"
  BY DEF Return
<1>4. Executing(threads'[c], pc') /\ pc' \in Pc /\ pc' # "exited"
  BY <1>2, <1>3 DEF Executing, Pc
<1>5. OthersSuspended(threads', c)
  BY <1>2 DEF OthersSuspended
<1>6. Alike(threads', th)
  BY <1>2 DEF Alike, Ready, Done
<1> QED  BY <1>1, <1>4, <1>5, <1>6 DEF Threads

-----------------------------------------------------------------------------
(* Each step keeps the invariant and is a step of Cooperative, or none.    *)

Stepped == IInv' /\ (Abstract!Next \/ UNCHANGED Abstract!vars)

\* The steps Cooperative does not see.
LEMMA Unseen ==
  ASSUME IInv, pc # "exited", pc' # "exited",
         Threads(threads', current_tid', pc'), Alike(threads', threads),
         UNCHANGED <<ready_q, current_tid>>
  PROVE  Stepped
<1>1. IInv'
  BY DEF IInv, Good, Alike
<1>2. Done(threads)' = Done(threads)
  BY DEF Alike
<1>3. UNCHANGED Abstract!vars
  BY <1>2 DEF Abstract!vars, Done, Is
<1> QED  BY <1>1, <1>3 DEF Stepped

\* What holds inside tus_yield once resume_flag is set.
Yielding(th) ==
  /\ IInv /\ pc # "exited"
  /\ Flagged(th, current_tid)
  /\ Alike(th, threads)

LEMMA YieldFailsStep ==
  ASSUME NEW th, Yielding(th), YieldFails(current_tid, th)
  PROVE  Stepped
<1> DEFINE th2 == [th EXCEPT ![current_tid].resume_flag = FALSE]
<1>1. th \in [Tid -> TCB] /\ current_tid \in Tid /\ th[current_tid].state = "RUNNING"
  BY DEF Yielding, Flagged
<1>2. th2 \in [Tid -> TCB]
  BY <1>1 DEF TCB
<1>3. /\ th2[current_tid].state = "RUNNING" /\ ~ th2[current_tid].resume_flag
      /\ \A u \in Tid \ {current_tid} : th2[u] = th[u]
  BY <1>1 DEF TCB
<1>4. Return(current_tid, th2, FALSE) /\ UNCHANGED ready_q
  BY DEF YieldFails
<1> HIDE DEF th2
<1>5. OthersSuspended(th2, current_tid)
  BY <1>3 DEF Yielding, Flagged, OthersSuspended
<1>6. Threads(threads', current_tid', pc') /\ Alike(threads', th2) /\ pc' # "exited"
  BY <1>1, <1>2, <1>3, <1>4, <1>5, Returning
<1>7. Alike(th2, th)
  BY <1>1, <1>3 DEF Alike, Ready, Done
<1>8. Alike(threads', threads)
  BY <1>6, <1>7 DEF Alike, Yielding
<1>9. UNCHANGED <<ready_q, current_tid>>
  BY <1>4 DEF Return
<1> QED  BY <1>6, <1>8, <1>9, Unseen DEF Yielding

LEMMA YieldToAnyStep ==
  ASSUME NEW th, Yielding(th), YieldToAny(current_tid, th)
  PROVE  Stepped
<1> DEFINE q == Append(ready_q, current_tid)
           w == Waiting(current_tid, th)
<1>1. CASE Len(ready_q) >= MaxThreads
  BY <1>1, YieldFailsStep DEF YieldToAny
<1>2. CASE ~ (Len(ready_q) >= MaxThreads)
  <2>1. PICK k \in Picks(q) : ready_q' = RemoveAt(q, k) /\ SwitchTo(q[k], w)
    BY <1>2 DEF YieldToAny
  <2>2. Exact(ready_q, Ready(th)) /\ current_tid \in Tid
    BY DEF Yielding, IInv, Good, Alike, Flagged
  <2>3. /\ AllSuspended(w)
        /\ Ready(w) = Ready(th) \cup {current_tid}
        /\ Done(w) = Done(threads)
        /\ current_tid \notin Ready(th)
    BY Queueing DEF Yielding, Alike
  <2>4. Ready(th) \in SUBSET Tid /\ Ready(w) \in SUBSET Tid
    BY DEF Ready
  <2>5. Exact(q, Ready(w))
    BY <2>2, <2>3, <2>4, AppendExact
  <2>6. q \in Seq(Tid) /\ q # <<>>
    BY <2>2 DEF Exact
  <2>7. k \in 1 .. Len(q)
    BY <2>1, <2>6, PicksInRange
  <2>8. q[k] \in Ready(w) /\ Exact(ready_q', Ready(w) \ {q[k]})
    BY <2>1, <2>4, <2>5, <2>7, RemoveExact
  <2>9. /\ threads' = [w EXCEPT ![q[k]].state = "RUNNING"]
        /\ current_tid' = q[k] /\ pc' = "context"
    BY <2>1 DEF SwitchTo
  <2>10. Good(threads', ready_q', current_tid', pc') /\ Done(threads') = Done(w)
    BY <2>3, <2>8, <2>9, Switching
  <2>11. Abstract!Yield
    <3>1. pc # "exited" /\ pc' # "exited" /\ current_tid # 0
      BY <2>2, <2>9 DEF Yielding, Tid
    <3>2. k \in Abstract!Candidates(q)
      BY <2>1 DEF Picks, Abstract!Candidates
    <3>3. ready_q' = Abstract!RemoveAt(q, k)
      BY <2>1 DEF RemoveAt, Abstract!RemoveAt
    <3>4. Done(threads') = Done(threads)
      BY <2>3, <2>10
    <3> QED  BY <2>9, <3>1, <3>2, <3>3, <3>4 DEF Abstract!Yield, Done, Is
  <2> QED  BY <2>10, <2>11 DEF Stepped, IInv, Abstract!Next
<1> QED  BY <1>1, <1>2

LEMMA YieldToThreadStep ==
  ASSUME NEW th, Yielding(th), NEW target \in Tid, YieldToThread(current_tid, target, th)
  PROVE  Stepped
<1> DEFINE c == current_tid
           k == PlaceOf(ready_q, target)
           w == Waiting(c, th)
<1>1. /\ th \in [Tid -> TCB] /\ c \in Tid /\ th[c].state = "RUNNING"
      /\ OthersSuspended(th, c)
  BY DEF Yielding, Flagged
<1>2. CASE target = c
  <2> DEFINE th2 == [th EXCEPT ![c].yielded = TRUE, ![c].resume_flag = FALSE]
  <2>1. th2 \in [Tid -> TCB]
    BY <1>1 DEF TCB
  <2>2. /\ th2[c].state = "RUNNING" /\ ~ th2[c].resume_flag
        /\ \A u \in Tid \ {c} : th2[u] = th[u]
    BY <1>1 DEF TCB
  <2>3. Return(c, th2, TRUE) /\ UNCHANGED ready_q
    BY <1>2 DEF YieldToThread
  <2> HIDE DEF th2
  <2>4. OthersSuspended(th2, c)
    BY <1>1, <2>2 DEF OthersSuspended
  <2>5. Threads(threads', current_tid', pc') /\ Alike(threads', th2) /\ pc' # "exited"
    BY <1>1, <2>1, <2>2, <2>3, <2>4, Returning
  <2>6. Alike(threads', threads)
    BY <1>1, <2>2, <2>5 DEF Alike, Ready, Done, Yielding
  <2>7. UNCHANGED <<ready_q, current_tid>>
    BY <2>3 DEF Return
  <2> QED  BY <2>5, <2>6, <2>7, Unseen DEF Yielding
<1>3. CASE target # c /\ (th[target].state # "READY" \/ k = 0)
  BY <1>3, YieldFailsStep DEF YieldToThread
<1>4. CASE target # c /\ th[target].state = "READY" /\ k # 0
  <2>1. ready_q' = Append(RemoveAt(ready_q, k), c) /\ SwitchTo(target, w)
    BY <1>4 DEF YieldToThread
  <2>2. Exact(ready_q, Ready(th)) /\ target \in Ready(th)
    BY <1>4 DEF Yielding, IInv, Good, Alike, Ready
  <2>3. /\ AllSuspended(w)
        /\ Ready(w) = Ready(th) \cup {c}
        /\ Done(w) = Done(threads)
        /\ c \notin Ready(th)
    BY Queueing DEF Yielding, Alike
  <2>4. Ready(th) \in SUBSET Tid
    BY DEF Ready
  <2>5. k \in 1 .. Len(ready_q) /\ ready_q[k] = target
    BY <2>2, <2>4, PlaceExact
  <2>6. Exact(RemoveAt(ready_q, k), Ready(th) \ {target})
    BY <2>2, <2>4, <2>5, RemoveExact
  <2>7. (Ready(th) \ {target}) \cup {c} = Ready(w) \ {target} /\ target \in Ready(w)
    BY <1>4, <2>2, <2>3
  <2>8. Exact(ready_q', Ready(w) \ {target})
    <3>1. Exact(ready_q', (Ready(th) \ {target}) \cup {c})
      BY <1>1, <2>1, <2>3, <2>4, <2>6, AppendExact
    <3> QED  BY <3>1, <2>7
  <2>9. /\ threads' = [w EXCEPT ![target].state = "RUNNING"]
        /\ current_tid' = target /\ pc' = "context"
    BY <2>1 DEF SwitchTo
  <2>10. Good(threads', ready_q', current_tid', pc') /\ Done(threads') = Done(w)
    BY <2>3, <2>7, <2>8, <2>9, Switching
  <2>11. Abstract!YieldTo
    <3>1. pc # "exited" /\ pc' # "exited" /\ c # 0
      BY <1>1, <2>9 DEF Yielding, Tid
    <3>2. ready_q' = Append(Abstract!RemoveAt(ready_q, k), c)
      BY <2>1 DEF RemoveAt, Abstract!RemoveAt
    <3>3. Done(threads') = Done(threads)
      BY <2>3, <2>10
    <3> QED  BY <2>5, <2>9, <3>1, <3>2, <3>3 DEF Abstract!YieldTo, Done, Is
  <2> QED  BY <2>10, <2>11 DEF Stepped, IInv, Abstract!Next
<1> QED  BY <1>2, <1>3, <1>4

LEMMA FirstReturnStep ==
  ASSUME IInv, pc \in {"app", "join"}, NEW arg \in {TUS_ANY} \cup Tid,
         Yield(current_tid, arg)
  PROVE  Stepped
<1> DEFINE c == current_tid
           called == [threads EXCEPT ![c].saved = arg]
           flagged == [called EXCEPT ![c].resume_flag = TRUE]
<1>1. /\ threads \in [Tid -> TCB] /\ c \in Tid /\ threads[c].state = "RUNNING"
      /\ ~ threads[c].resume_flag
      /\ OthersSuspended(threads, c)
  BY DEF IInv, Good, Threads, Executing
<1>2. arg # Stub /\ arg \in {Stub, TUS_ANY} \cup Tid
  BY TcbFacts
<1>3. ~ called[c].resume_flag
  BY <1>1 DEF TCB
<1>4. flagged \in [Tid -> TCB]
  BY <1>1, <1>2 DEF TCB
<1>5. /\ flagged[c].state = "RUNNING" /\ flagged[c].resume_flag /\ flagged[c].saved = arg
      /\ \A u \in Tid \ {c} : flagged[u] = threads[u]
  BY <1>1, <1>2 DEF TCB
<1>6. IF arg = TUS_ANY THEN YieldToAny(c, flagged) ELSE YieldToThread(c, arg, flagged)
  BY <1>3 DEF Yield, AfterGetcontext
<1> HIDE DEF flagged
<1>7. Alike(flagged, threads)
  BY <1>1, <1>5 DEF Alike, Ready, Done
<1>8. Flagged(flagged, c)
  BY <1>1, <1>2, <1>4, <1>5 DEF Flagged, OthersSuspended
<1>9. Yielding(flagged)
  BY <1>7, <1>8 DEF Yielding
<1>10. CASE arg = TUS_ANY
  BY <1>6, <1>9, <1>10, YieldToAnyStep
<1>11. CASE arg # TUS_ANY
  BY <1>6, <1>9, <1>11, YieldToThreadStep
<1> QED  BY <1>10, <1>11

LEMMA ResumeStep ==
  ASSUME IInv, NEW t \in Tid, Resume(t)
  PROVE  Stepped
<1>1. /\ threads \in [Tid -> TCB] /\ t = current_tid /\ pc = "context"
      /\ threads[t].state = "RUNNING"
      /\ threads[t].resume_flag <=> threads[t].saved # Stub
      /\ threads[t].saved = Stub => threads[t].joining = 0
      /\ OthersSuspended(threads, t)
  BY DEF IInv, Good, Threads, Executing, Resume, At
<1>2. CASE threads[t].saved = Stub
  <2>1. pc' = "app" /\ UNCHANGED <<threads, ready_q, current_tid>>
    BY <1>2 DEF Resume
  <2>2. Executing(threads'[t], pc') /\ pc' \in Pc /\ pc' # "exited"
    BY <1>1, <1>2, <2>1 DEF Executing, Pc
  <2>3. Threads(threads', current_tid', pc') /\ Alike(threads', threads)
    BY <1>1, <2>1, <2>2 DEF Threads, Alike
  <2> QED  BY <1>1, <2>1, <2>2, <2>3, Unseen
<1>3. CASE threads[t].saved # Stub
  <2> DEFINE th == [threads EXCEPT ![t].resume_flag = FALSE, ![t].state = "RUNNING"]
  <2>1. Return(t, th, threads[t].yielded) /\ UNCHANGED ready_q
    <3>1. AfterGetcontext(t, threads[t].saved, threads)
      BY <1>3 DEF Resume
    <3>2. th[t].yielded = threads[t].yielded
      BY <1>1 DEF TCB
    <3> QED  BY <1>1, <1>3, <3>1, <3>2 DEF AfterGetcontext
  <2>2. th \in [Tid -> TCB]
    <3>1. [threads[t] EXCEPT !.resume_flag = FALSE, !.state = "RUNNING"] \in TCB
      BY <1>1 DEF TCB
    <3>2. th = [threads EXCEPT
                  ![t] = [threads[t] EXCEPT !.resume_flag = FALSE, !.state = "RUNNING"]]
      BY <1>1
    <3> QED  BY <1>1, <3>1, <3>2
  <2>3. /\ th[t].state = "RUNNING" /\ ~ th[t].resume_flag
        /\ \A u \in Tid \ {t} : th[u] = threads[u]
    BY <1>1 DEF TCB
  <2>4. threads[t].yielded \in BOOLEAN
    BY <1>1 DEF TCB
  <2> HIDE DEF th
  <2>5. OthersSuspended(th, t)
    BY <1>1, <2>3 DEF OthersSuspended
  <2>6. Threads(threads', current_tid', pc') /\ Alike(threads', th) /\ pc' # "exited"
    BY <1>1, <2>1, <2>2, <2>3, <2>4, <2>5, Returning
  <2>7. Alike(threads', threads)
    BY <1>1, <2>3, <2>6 DEF Alike, Ready, Done
  <2>8. UNCHANGED <<ready_q, current_tid>>
    BY <2>1 DEF Return
  <2> QED  BY <1>1, <2>6, <2>7, <2>8, Unseen
<1> QED  BY <1>2, <1>3

LEMMA CreateStep ==
  ASSUME IInv, NEW t \in Tid, tus_create_thread(t)
  PROVE  Stepped
<1>1. /\ threads \in [Tid -> TCB] /\ t = current_tid /\ pc = "app"
      /\ Executing(threads[t], pc)
      /\ OthersSuspended(threads, t)
      /\ Exact(ready_q, Ready(threads))
      /\ UNCHANGED <<current_tid, pc>>
  BY DEF IInv, Good, Threads, tus_create_thread, At
<1>2. PICK new \in Tid :
        /\ Is(new, "NONE")
        /\ IF Len(ready_q) >= MaxThreads
           THEN UNCHANGED <<threads, ready_q>>
           ELSE /\ threads' = [threads EXCEPT ![new] = NewTcb("READY")]
                /\ ready_q' = Append(ready_q, new)
  BY DEF tus_create_thread
<1>3. CASE UNCHANGED <<threads, ready_q>>
  BY <1>1, <1>3 DEF Stepped, IInv, Good, Threads, Exact, Abstract!vars, Is
<1>4. CASE /\ threads' = [threads EXCEPT ![new] = NewTcb("READY")]
           /\ ready_q' = Append(ready_q, new)
  <2>1. new # t
    BY <1>1, <1>2 DEF Is, Executing
  <2>2. threads' \in [Tid -> TCB]
    BY <1>1, <1>4, TcbFacts
  <2>3. /\ threads'[new] = NewTcb("READY")
        /\ \A u \in Tid \ {new} : threads'[u] = threads[u]
    BY <1>1, <1>4
  <2>4. NewTcb("READY").state = "READY" /\ Suspended(NewTcb("READY"))
    BY DEF NewTcb, Suspended
  <2>5. OthersSuspended(threads', t) /\ Executing(threads'[t], pc)
    BY <1>1, <2>1, <2>3, <2>4 DEF OthersSuspended
  <2>6. /\ Ready(threads') = Ready(threads) \cup {new}
        /\ Done(threads') = Done(threads)
        /\ new \notin Ready(threads) /\ new \notin Done(threads)
    BY <1>2, <2>3, <2>4 DEF Ready, Done, Is
  <2>7. Exact(ready_q', Ready(threads'))
    BY <1>1, <1>4, <2>6, AppendExact DEF Ready
  <2>8. Good(threads', ready_q', current_tid', pc')
    BY <1>1, <2>2, <2>5, <2>7 DEF Good, Threads, Pc
  <2>9. Abstract!Create
    <3>1. ~ Abstract!InLine(new)
      BY <1>1, <2>6 DEF Exact, Holds, Abstract!InLine
    <3>2. new # current_tid /\ current_tid # 0 /\ pc' = pc /\ pc # "exited"
      BY <1>1, <2>1 DEF Tid
    <3> QED  BY <1>1, <1>4, <2>6, <3>1, <3>2 DEF Abstract!Create, Done, Is
  <2> QED  BY <2>8, <2>9 DEF Stepped, IInv, Abstract!Next
<1> QED  BY <1>2, <1>3, <1>4

LEMMA ExitStep ==
  ASSUME IInv, NEW t \in Tid, tus_exit(t)
  PROVE  Stepped
<1> DEFINE ended == [threads EXCEPT ![t] = EndedTcb]
<1>1. /\ threads \in [Tid -> TCB] /\ t = current_tid /\ pc = "app"
      /\ threads[t].state = "RUNNING"
      /\ OthersSuspended(threads, t)
      /\ Exact(ready_q, Ready(threads))
  BY DEF IInv, Good, Threads, Executing, tus_exit, At
<1>2. EndedTcb.state = "ENDED" /\ ~ EndedTcb.resume_flag /\ Suspended(EndedTcb)
  BY DEF EndedTcb, NewTcb, Suspended
<1>3. ended \in [Tid -> TCB]
  BY <1>1, TcbFacts
<1>4. ended[t] = EndedTcb /\ \A u \in Tid \ {t} : ended[u] = threads[u]
  BY <1>1
<1>5. \/ ready_q = <<>> /\ threads' = ended /\ pc' = "exited" /\ UNCHANGED <<ready_q, current_tid>>
      \/ /\ ready_q # <<>>
         /\ \E k \in Picks(ready_q) :
              ready_q' = RemoveAt(ready_q, k) /\ SwitchTo(ready_q[k], ended)
  BY DEF tus_exit
<1> HIDE DEF ended
<1>6. AllSuspended(ended)
  BY <1>1, <1>2, <1>3, <1>4 DEF AllSuspended, OthersSuspended
<1>7. Ready(ended) = Ready(threads) /\ Done(ended) = Done(threads) \cup {t}
  BY <1>1, <1>2, <1>4 DEF Ready, Done
<1>8. t # 0 /\ pc # "exited"
  BY <1>1 DEF Tid
<1>9. CASE /\ ready_q = <<>> /\ threads' = ended /\ pc' = "exited"
           /\ UNCHANGED <<ready_q, current_tid>>
  <2>1. Threads(threads', current_tid', pc')
    BY <1>1, <1>2, <1>3, <1>4, <1>6, <1>9
    DEF Threads, Executing, AllSuspended, OthersSuspended, Pc
  <2>2. Good(threads', ready_q', current_tid', pc')
    BY <1>1, <1>7, <1>9, <2>1 DEF Good
  <2>3. Abstract!Exit
    BY <1>1, <1>7, <1>8, <1>9 DEF Abstract!Exit, Done, Is
  <2> QED  BY <2>2, <2>3 DEF Stepped, IInv, Abstract!Next
<1>10. CASE /\ ready_q # <<>>
            /\ \E k \in Picks(ready_q) :
                 ready_q' = RemoveAt(ready_q, k) /\ SwitchTo(ready_q[k], ended)
  <2>1. PICK k \in Picks(ready_q) :
          ready_q' = RemoveAt(ready_q, k) /\ SwitchTo(ready_q[k], ended)
    BY <1>10
  <2>2. k \in 1 .. Len(ready_q)
    BY <1>1, <1>10, PicksInRange DEF Exact
  <2>3. ready_q[k] \in Ready(ended) /\ Exact(ready_q', Ready(ended) \ {ready_q[k]})
    BY <1>1, <1>7, <2>1, <2>2, RemoveExact DEF Ready
  <2>4. /\ threads' = [ended EXCEPT ![ready_q[k]].state = "RUNNING"]
        /\ current_tid' = ready_q[k] /\ pc' = "context"
    BY <2>1 DEF SwitchTo
  <2>5. Good(threads', ready_q', current_tid', pc') /\ Done(threads') = Done(ended)
    BY <1>6, <2>3, <2>4, Switching
  <2>6. Abstract!Exit
    <3>1. k \in Abstract!Candidates(ready_q)
      BY <2>1 DEF Picks, Abstract!Candidates
    <3>2. ready_q' = Abstract!RemoveAt(ready_q, k)
      BY <2>1 DEF RemoveAt, Abstract!RemoveAt
    <3> QED
      BY <1>1, <1>7, <1>8, <1>10, <2>4, <2>5, <3>1, <3>2 DEF Abstract!Exit, Done, Is
  <2> QED  BY <2>5, <2>6 DEF Stepped, IInv, Abstract!Next
<1> QED  BY <1>5, <1>9, <1>10

\* tus_join only writes down its target.
LEMMA JoinStep ==
  ASSUME IInv, NEW t \in Tid, NEW target \in Tid, tus_join(t, target)
  PROVE  Stepped
<1>1. /\ threads \in [Tid -> TCB] /\ t = current_tid /\ pc = "app"
      /\ threads[t].state = "RUNNING" /\ ~ threads[t].resume_flag
      /\ OthersSuspended(threads, t)
      /\ threads' = [threads EXCEPT ![t].joining = target] /\ pc' = "join"
      /\ UNCHANGED <<ready_q, current_tid>>
  BY DEF IInv, Good, Threads, Executing, tus_join, At
<1>2. target # 0 /\ target \in 0 .. MaxThreads
  BY TusAssumption DEF Tid
<1>3. threads' \in [Tid -> TCB]
  BY <1>1, <1>2 DEF TCB
<1>4. /\ threads'[t].state = "RUNNING" /\ ~ threads'[t].resume_flag
      /\ threads'[t].joining = target
      /\ \A u \in Tid \ {t} : threads'[u] = threads[u]
  BY <1>1 DEF TCB
<1>5. Threads(threads', current_tid', pc')
  BY <1>1, <1>2, <1>3, <1>4 DEF Threads, Executing, OthersSuspended, Pc
<1>6. Alike(threads', threads)
  BY <1>1, <1>4 DEF Alike, Ready, Done
<1> QED  BY <1>1, <1>5, <1>6, Unseen

LEMMA JoinLoopStep ==
  ASSUME IInv, NEW t \in Tid, JoinLoop(t)
  PROVE  Stepped
<1> DEFINE target == threads[t].joining
<1>1. /\ threads \in [Tid -> TCB] /\ t = current_tid /\ pc = "join"
      /\ threads[t].state = "RUNNING" /\ ~ threads[t].resume_flag
      /\ target # 0
      /\ OthersSuspended(threads, t)
      /\ Exact(ready_q, Ready(threads))
  BY DEF IInv, Good, Threads, Executing, JoinLoop, At
<1>2. target \in Tid
  BY <1>1, TusAssumption DEF TCB, Tid
<1>3. CASE Is(target, "NONE")
  <2>1. /\ threads' = [threads EXCEPT ![t].joining = 0] /\ pc' = "app"
        /\ UNCHANGED <<ready_q, current_tid>>
    BY <1>3 DEF JoinLoop, Is
  <2>2. threads' \in [Tid -> TCB]
    BY <1>1, <2>1, TusAssumption DEF TCB
  <2>3. /\ threads'[t].state = "RUNNING" /\ ~ threads'[t].resume_flag
        /\ threads'[t].joining = 0
        /\ \A u \in Tid \ {t} : threads'[u] = threads[u]
    BY <1>1, <2>1 DEF TCB
  <2>4. Threads(threads', current_tid', pc')
    BY <1>1, <2>1, <2>2, <2>3 DEF Threads, Executing, OthersSuspended, Pc
  <2>5. Alike(threads', threads)
    BY <1>1, <2>3 DEF Alike, Ready, Done
  <2> QED  BY <1>1, <2>1, <2>4, <2>5, Unseen
<1>4. CASE Is(target, "ENDED")
  <2>1. /\ threads' = [threads EXCEPT ![t].joining = 0, ![target] = NoTcb] /\ pc' = "app"
        /\ UNCHANGED <<ready_q, current_tid>>
    BY <1>4 DEF JoinLoop, Is
  <2>2. target # t
    BY <1>1, <1>4 DEF Is
  <2> HIDE DEF target
  <2>3. threads' \in [Tid -> TCB]
    <3>1. [threads EXCEPT ![t].joining = 0] \in [Tid -> TCB]
      BY <1>1, TusAssumption DEF TCB
    <3> QED  BY <2>1, <3>1, TcbFacts
  <2>4. /\ threads'[t].state = "RUNNING" /\ ~ threads'[t].resume_flag
        /\ threads'[t].joining = 0
        /\ threads'[target] = NoTcb
        /\ \A u \in Tid \ {t, target} : threads'[u] = threads[u]
    BY <1>1, <1>2, <2>1, <2>2 DEF TCB
  <2>5. NoTcb.state = "NONE" /\ Suspended(NoTcb)
    BY DEF NoTcb, NewTcb, Suspended
  <2>6. Threads(threads', current_tid', pc')
    BY <1>1, <2>1, <2>3, <2>4, <2>5 DEF Threads, Executing, OthersSuspended, Pc
  <2>7. Ready(threads') = Ready(threads)
    BY <1>1, <1>4, <2>4, <2>5 DEF Ready, Is
  <2>8. Done(threads') = Done(threads) \ {target} /\ target \in Done(threads)
    BY <1>1, <1>2, <1>4, <2>4, <2>5 DEF Done, Is
  <2>9. Good(threads', ready_q', current_tid', pc')
    BY <1>1, <2>1, <2>6, <2>7 DEF Good
  <2>10. Abstract!Reap
    <3>1. t # 0 /\ pc # "exited" /\ pc' # "exited"
      BY <1>1, <2>1 DEF Tid
    <3> QED  BY <1>1, <2>1, <2>8, <3>1 DEF Abstract!Reap, Done, Is
  <2> QED  BY <2>9, <2>10 DEF Stepped, IInv, Abstract!Next
<1>5. CASE ~ Is(target, "NONE") /\ ~ Is(target, "ENDED")
  <2>1. Yield(t, TUS_ANY)
    BY <1>5 DEF JoinLoop
  <2> QED  BY <1>1, <2>1, FirstReturnStep
<1> QED  BY <1>3, <1>4, <1>5

LEMMA CancelStep ==
  ASSUME IInv, NEW t \in Tid, NEW target \in Tid, tus_cancel(t, target)
  PROVE  Stepped
<1> DEFINE k == PlaceOf(ready_q, target)
<1>1. /\ threads \in [Tid -> TCB] /\ t = current_tid /\ pc = "app"
      /\ Executing(threads[t], pc)
      /\ OthersSuspended(threads, t)
      /\ Exact(ready_q, Ready(threads))
      /\ target # t /\ ~ Is(target, "NONE") /\ ~ Is(target, "ENDED")
      /\ threads' = [threads EXCEPT ![target] = EndedTcb]
      /\ UNCHANGED <<current_tid, pc>>
  BY DEF IInv, Good, Threads, tus_cancel, At
<1>2. threads[target].state = "READY" /\ target \in Ready(threads)
  BY <1>1 DEF OthersSuspended, Suspended, TCB, Is, Ready
<1>3. ready_q' = RemoveAt(ready_q, k)
  BY <1>2 DEF tus_cancel, Is
<1>4. k \in 1 .. Len(ready_q) /\ ready_q[k] = target
  BY <1>1, <1>2, PlaceExact DEF Ready
<1>5. Exact(ready_q', Ready(threads) \ {target})
  BY <1>1, <1>3, <1>4, RemoveExact DEF Ready
<1>6. EndedTcb.state = "ENDED" /\ Suspended(EndedTcb)
  BY DEF EndedTcb, NewTcb, Suspended
<1>7. /\ threads' \in [Tid -> TCB]
      /\ threads'[target] = EndedTcb
      /\ \A u \in Tid \ {target} : threads'[u] = threads[u]
  BY <1>1, TcbFacts
<1>8. Threads(threads', current_tid', pc')
  BY <1>1, <1>6, <1>7 DEF Threads, OthersSuspended, Pc
<1>9. /\ Ready(threads') = Ready(threads) \ {target}
      /\ Done(threads') = Done(threads) \cup {target}
  BY <1>1, <1>6, <1>7 DEF Ready, Done
<1>10. Good(threads', ready_q', current_tid', pc')
  BY <1>1, <1>5, <1>8, <1>9 DEF Good
<1>11. Abstract!Cancel
  <2>1. t # 0 /\ pc # "exited" /\ pc' # "exited"
    BY <1>1 DEF Tid
  <2>2. ready_q' = Abstract!RemoveAt(ready_q, k)
    BY <1>3 DEF RemoveAt, Abstract!RemoveAt
  <2> HIDE DEF k
  <2> QED  BY <1>1, <1>4, <1>9, <2>1, <2>2 DEF Abstract!Cancel, Done, Is
<1> QED  BY <1>10, <1>11 DEF Stepped, IInv, Abstract!Next

LEMMA YieldStep ==
  ASSUME IInv, NEW t \in Tid, NEW arg \in {TUS_ANY} \cup Tid, tus_yield(t, arg)
  PROVE  Stepped
BY FirstReturnStep DEF tus_yield, At

LEMMA EveryStep ==
  ASSUME IInv, Next
  PROVE  Stepped
<1>1. PICK t \in Tid :
        \/ tus_create_thread(t)
        \/ tus_yield(t, TUS_ANY)
        \/ \E target \in Tid : Directed /\ tus_yield(t, target)
        \/ Resume(t)
        \/ tus_exit(t)
        \/ \E target \in Tid : tus_join(t, target)
        \/ JoinLoop(t)
        \/ \E target \in Tid : tus_cancel(t, target)
  BY DEF Next
<1>2. CASE tus_create_thread(t)
  BY <1>2, CreateStep
<1>3. CASE tus_yield(t, TUS_ANY)
  BY <1>3, YieldStep
<1>4. CASE \E target \in Tid : Directed /\ tus_yield(t, target)
  BY <1>4, YieldStep
<1>5. CASE Resume(t)
  BY <1>5, ResumeStep
<1>6. CASE tus_exit(t)
  BY <1>6, ExitStep
<1>7. CASE \E target \in Tid : tus_join(t, target)
  BY <1>7, JoinStep
<1>8. CASE JoinLoop(t)
  BY <1>8, JoinLoopStep
<1>9. CASE \E target \in Tid : tus_cancel(t, target)
  BY <1>9, CancelStep
<1> QED  BY <1>1, <1>2, <1>3, <1>4, <1>5, <1>6, <1>7, <1>8, <1>9

LEMMA Idle ==
  ASSUME IInv, UNCHANGED vars
  PROVE  Stepped
<1>1. UNCHANGED <<threads, ready_q, current_tid, pc>>
  BY DEF vars
<1>2. IInv'
  BY <1>1 DEF IInv, Good, Threads, Executing, OthersSuspended, Exact, Ready, Holds
<1>3. UNCHANGED Abstract!vars
  BY <1>1 DEF Abstract!vars, Is
<1> QED  BY <1>2, <1>3 DEF Stepped

LEMMA Start ==
  ASSUME Init
  PROVE  IInv /\ Abstract!Init
<1>1. 1 \in Tid
  BY TusAssumption DEF Tid
<1>2. /\ NewTcb("RUNNING") \in TCB /\ NoTcb \in TCB
      /\ Suspended(NoTcb) /\ NoTcb.state = "NONE"
      /\ NewTcb("RUNNING").state = "RUNNING"
      /\ ~ NewTcb("RUNNING").resume_flag /\ NewTcb("RUNNING").joining = 0
  BY TusAssumption DEF NewTcb, NoTcb, TCB, Suspended
<1>3. Threads(threads, current_tid, pc)
  BY <1>1, <1>2 DEF Init, Threads, Executing, OthersSuspended, Pc
<1>4. Ready(threads) = {} /\ Done(threads) = {}
  BY <1>1, <1>2 DEF Init, Ready, Done
<1>5. Exact(<<>>, {})
  BY DEF Exact, Holds
<1>6. IInv
  BY <1>3, <1>4, <1>5 DEF IInv, Good, Init
<1>7. Abstract!Init
  BY <1>1, <1>4 DEF Init, Abstract!Init, Done, Is
<1> QED  BY <1>6, <1>7

-----------------------------------------------------------------------------
(* The theorems.                                                           *)

THEOREM Invariance == Spec => []IInv
<1>1. Init => IInv
  BY Start
<1>2. IInv /\ [Next]_vars => IInv'
  BY EveryStep, Idle DEF Stepped
<1> QED  BY <1>1, <1>2, PTL DEF Spec

\* The library keeps the types of its state, and the current thread's and the waiting
\* threads' contexts are ones they can continue from.
THEOREM TypeCorrect == Spec => []TypeOK
<1>1. IInv => TypeOK
  <2> SUFFICES ASSUME IInv PROVE TypeOK
    OBVIOUS
  <2>1. /\ threads \in [Tid -> TCB] /\ current_tid \in Tid /\ pc \in Pc
        /\ Executing(threads[current_tid], pc)
        /\ OthersSuspended(threads, current_tid)
        /\ ready_q \in Seq(Tid)
    BY DEF IInv, Good, Threads, Exact
  <2>2. /\ pc = "join" => threads[current_tid].joining # 0
        /\ pc = "app" => threads[current_tid].joining = 0
    BY <2>1 DEF Executing
  <2>3. ASSUME NEW t \in Tid, Is(t, "READY") \/ At(t, "context"), threads[t].saved = Stub
        PROVE  threads[t].joining = 0
    <3>1. CASE t = current_tid
      <4>1. pc = "context"
        BY <2>1, <2>3, <3>1 DEF Executing, Is, At, Pc
      <4> QED  BY <2>1, <2>3, <3>1, <4>1 DEF Executing
    <3>2. CASE t # current_tid
      BY <2>1, <2>3, <3>2 DEF OthersSuspended, Suspended, Is, At
    <3> QED  BY <3>1, <3>2
  <2> QED  BY <2>1, <2>2, <2>3 DEF TypeOK
<1> QED  BY <1>1, Invariance, PTL

\* However create, yield, cancel, join and exit are mixed, the ready queue holds each
\* ready thread exactly once and nothing else.
THEOREM QueueStaysExact == Spec => []QueueExact
<1>1. IInv => QueueExact
  BY DEF IInv, Good, Exact, Ready, Holds, QueueExact, Queued, Is
<1> QED  BY <1>1, Invariance, PTL

\* The thread the library takes for the current one is the one that runs.
THEOREM OneThreadRuns == Spec => []OneRunning
<1>1. IInv => OneRunning
  BY DEF IInv, Good, Threads, Executing, OthersSuspended, Suspended, OneRunning, Is
<1> QED  BY <1>1, Invariance, PTL

\* resume_flag always tells the second return of getcontext from the first.
THEOREM FlagsStayExact == Spec => []FlagExact
<1>1. IInv => FlagExact
  <2> SUFFICES ASSUME IInv, NEW t \in Tid
               PROVE  threads[t].resume_flag <=>
                        threads[t].saved # Stub /\ (Is(t, "READY") \/ At(t, "context"))
    BY DEF FlagExact
  <2>1. /\ pc \in Pc
        /\ Executing(threads[current_tid], pc)
        /\ OthersSuspended(threads, current_tid)
    BY DEF IInv, Good, Threads
  <2>2. CASE t = current_tid
    BY <2>1, <2>2 DEF Executing, Is, At, Pc
  <2>3. CASE t # current_tid
    BY <2>1, <2>3 DEF OthersSuspended, Suspended, Is, At
  <2> QED  BY <2>2, <2>3
<1> QED  BY <1>1, Invariance, PTL

\* The process ends with its last thread, and with no other.
THEOREM ProcessEndsWithLastThread == Spec => []LastThreadExits
<1>1. IInv => LastThreadExits
  <2> SUFFICES ASSUME IInv PROVE LastThreadExits
    OBVIOUS
  <2>1. /\ threads \in [Tid -> TCB] /\ current_tid \in Tid
        /\ Executing(threads[current_tid], pc)
        /\ OthersSuspended(threads, current_tid)
        /\ Exact(ready_q, Ready(threads))
        /\ pc = "exited" => ready_q = <<>>
    BY DEF IInv, Good, Threads
  <2>2. CASE pc = "exited"
    <3>1. Ready(threads) = {}
      BY <2>1, <2>2 DEF Exact, Holds, Ready
    <3>2. \A t \in Tid : threads[t].state # "READY" /\ threads[t].state # "RUNNING"
      BY <2>1, <2>2, <3>1 DEF Ready, Executing, OthersSuspended, Suspended
    <3>3. \A t \in Tid : threads[t].state \in {"NONE", "READY", "RUNNING", "ENDED"}
      BY <2>1 DEF TCB
    <3> QED  BY <2>2, <3>2, <3>3 DEF LastThreadExits, Is
  <2>3. CASE pc # "exited"
    BY <2>1, <2>3 DEF Executing, LastThreadExits, Is
  <2> QED  BY <2>2, <2>3
<1> QED  BY <1>1, Invariance, PTL

\* There is always a place left in the queue: it holds different threads, and
\* the current thread is none of them.
THEOREM QueueHasRoom == Spec => []Room
<1>1. IInv => Room
  <2> SUFFICES ASSUME IInv, pc # "exited" PROVE Len(ready_q) < MaxThreads
    BY DEF Room
  <2>1. /\ current_tid \in Tid /\ threads[current_tid].state = "RUNNING"
        /\ Exact(ready_q, Ready(threads))
    BY DEF IInv, Good, Threads, Executing
  <2> DEFINE Rest == Tid \ {current_tid}
             n == Len(ready_q)
  <2>2. n \in Nat /\ ready_q \in [1 .. n -> Tid]
    BY <2>1 DEF Exact
  <2>3. \A k \in 1 .. n : ready_q[k] # current_tid
    BY <2>1, <2>2 DEF Exact, Holds, Ready
  <2>4. ready_q \in [1 .. n -> Rest]
    BY <2>2, <2>3
  <2>5. IsFiniteSet(Tid) /\ Cardinality(Tid) = MaxThreads
    BY FS_Interval, TusAssumption DEF Tid
  <2>6. IsFiniteSet(Rest) /\ Cardinality(Rest) = MaxThreads - 1
    BY <2>1, <2>5, FS_RemoveElement
  <2>7. IsFiniteSet(1 .. n) /\ Cardinality(1 .. n) = n
    BY <2>2, FS_Interval
  <2> HIDE DEF Rest
  <2>8. ASSUME Cardinality(Rest) < Cardinality(1 .. n)
        PROVE  FALSE
    <3>1. \E j, k \in 1 .. n : j # k /\ ready_q[j] = ready_q[k]
      BY <2>4, <2>6, <2>7, <2>8, FS_PigeonHole
    <3> QED  BY <2>1, <3>1 DEF Exact
  <2>9. ~ (MaxThreads - 1 < n)
    BY <2>6, <2>7, <2>8
  <2> QED  BY <2>2, <2>9, TusAssumption
<1> QED  BY <1>1, Invariance, PTL

\* Every behaviour of the library is one of the abstract scheduler.
THEOREM Refinement == Spec => ImplementsCooperative
<1>1. Init => Abstract!Init
  BY Start
<1>2. IInv /\ [Next]_vars => [Abstract!Next]_(Abstract!vars)
  BY EveryStep, Idle DEF Stepped
<1> QED  BY <1>1, <1>2, Invariance, PTL DEF Spec, Abstract!Spec, ImplementsCooperative

-----------------------------------------------------------------------------
(* The order of the queue, from what the steps of Cooperative do to it.    *)

Keeps(q, r) ==
  \A t, u \in Tid :
    Before(q, t, u) /\ PlaceOf(r, t) # 0 /\ PlaceOf(r, u) # 0 => Before(r, t, u)

LEMMA AppendKeeps ==
  ASSUME NEW q, NEW S \in SUBSET Tid, Exact(q, S), NEW x \in Tid, x \notin S
  PROVE  Keeps(q, Append(q, x))
<1> DEFINE r == Append(q, x)
<1>1. Exact(r, S \cup {x}) /\ S \cup {x} \in SUBSET Tid
  BY AppendExact
<1>2. ASSUME NEW t \in Tid, PlaceOf(q, t) # 0
      PROVE  PlaceOf(r, t) = PlaceOf(q, t)
  <2>1. PlaceOf(q, t) \in 1 .. Len(q) /\ q[PlaceOf(q, t)] = t
    BY <1>2, PlaceExact
  <2>2. /\ Len(r) = Len(q) + 1 /\ Len(q) \in Nat
        /\ \A k \in 1 .. Len(q) : r[k] = q[k]
    BY DEF Exact
  <2>3. PlaceOf(q, t) \in 1 .. Len(r) /\ r[PlaceOf(q, t)] = t
    BY <2>1, <2>2
  <2> HIDE DEF r
  <2> QED  BY <1>1, <2>3, PlaceExact
<1>3. ASSUME NEW t \in Tid, NEW u \in Tid, Before(q, t, u)
      PROVE  PlaceOf(q, u) # 0
  <2>1. PlaceOf(q, t) # 0 /\ PlaceOf(q, t) < PlaceOf(q, u)
    BY <1>3 DEF Before
  <2>2. PlaceOf(q, t) \in Nat
    BY <2>1, PlaceExact
  <2> QED  BY <2>1, <2>2
<1> QED  BY <1>2, <1>3 DEF Keeps, Before

LEMMA RemoveKeeps ==
  ASSUME NEW q, NEW S \in SUBSET Tid, Exact(q, S), NEW k \in 1 .. Len(q)
  PROVE  Keeps(q, RemoveAt(q, k))
<1> DEFINE r == RemoveAt(q, k)
<1>1. Exact(r, S \ {q[k]}) /\ q[k] \in S
  BY RemoveExact
<1>2. q \in Seq(Tid) /\ Len(q) \in Nat
  BY DEF Exact
<1>3. /\ Len(r) = Len(q) - 1
      /\ \A j \in 1 .. Len(q) - 1 : r[j] = IF j < k THEN q[j] ELSE q[j + 1]
  BY <1>2, RemoveAtAt
<1>4. ASSUME NEW t \in Tid, PlaceOf(r, t) # 0
      PROVE  /\ PlaceOf(q, t) \in 1 .. Len(q) /\ PlaceOf(q, t) # k
             /\ PlaceOf(r, t) = IF PlaceOf(q, t) < k THEN PlaceOf(q, t) ELSE PlaceOf(q, t) - 1
  <2> DEFINE m == PlaceOf(q, t)
  <2>1. t \in S /\ t # q[k]
    BY <1>1, <1>4, PlaceExact
  <2>2. m \in 1 .. Len(q) /\ q[m] = t
    BY <2>1, PlaceExact
  <2>3. m # k
    BY <2>1, <2>2
  <2> HIDE DEF m, r
  <2>4. CASE m < k
    <3>1. m \in 1 .. Len(r) /\ r[m] = t
      BY <1>2, <1>3, <2>2, <2>4
    <3>2. PlaceOf(r, t) = m
      BY <1>1, <3>1, PlaceExact
    <3> QED  BY <2>2, <2>3, <2>4, <3>2 DEF m, r
  <2>5. CASE m > k
    <3>1. m - 1 \in 1 .. Len(r) /\ r[m - 1] = q[(m - 1) + 1] /\ (m - 1) + 1 = m
      BY <1>2, <1>3, <2>2, <2>5
    <3>2. PlaceOf(r, t) = m - 1
      BY <1>1, <2>2, <3>1, PlaceExact
    <3> QED  BY <2>2, <2>3, <2>5, <3>2 DEF m, r
  <2> QED  BY <1>2, <2>2, <2>3, <2>4, <2>5
<1> HIDE DEF r
<1>5. ASSUME NEW t \in Tid, NEW u \in Tid, Before(q, t, u),
             PlaceOf(r, t) # 0, PlaceOf(r, u) # 0
      PROVE  Before(r, t, u)
  BY <1>2, <1>4, <1>5 DEF Before
<1> QED  BY <1>5 DEF Keeps, r

LEMMA OrderOfStep ==
  ASSUME IInv, Abstract!Next
  PROVE  Keeps(ready_q, ready_q')
<1> DEFINE S == Ready(threads)
           q == ready_q
           c == current_tid
<1>1. Exact(q, S) /\ S \in SUBSET Tid /\ c \in Tid
  BY DEF IInv, Good, Threads, Ready
<1>2. pc # "exited" => c \notin S
  BY DEF IInv, Good, Threads, Executing, Ready
<1>3. \A r, k : Abstract!RemoveAt(r, k) = RemoveAt(r, k)
  BY DEF RemoveAt, Abstract!RemoveAt
<1>4. \A t, u \in Tid : Before(q, t, u) => t \in S /\ u \in S
  <2> SUFFICES ASSUME NEW t \in Tid, NEW u \in Tid, Before(q, t, u)
               PROVE  t \in S /\ u \in S
    OBVIOUS
  <2>1. PlaceOf(q, t) # 0 /\ PlaceOf(q, t) < PlaceOf(q, u)
    BY DEF Before
  <2>2. t \in S /\ PlaceOf(q, t) \in 1 .. Len(q)
    BY <1>1, <2>1, PlaceExact
  <2>3. PlaceOf(q, u) # 0
    BY <2>1, <2>2
  <2> QED  BY <1>1, <2>2, <2>3, PlaceExact
<1>5. ASSUME UNCHANGED ready_q
      PROVE  Keeps(q, ready_q')
  BY <1>5 DEF Keeps, Before, PlaceOf
<1>6. ASSUME NEW k \in 1 .. Len(q), ready_q' = RemoveAt(q, k)
      PROVE  Keeps(q, ready_q')
  BY <1>1, <1>6, RemoveKeeps
<1>7. CASE Abstract!Create
  <2>1. PICK t \in Tid : ~ Abstract!InLine(t) /\ ready_q' = Append(q, t)
    BY <1>7 DEF Abstract!Create
  <2>2. t \notin S
    BY <1>1, <2>1 DEF Exact, Holds, Abstract!InLine
  <2> QED  BY <1>1, <2>1, <2>2, AppendKeeps
<1>8. CASE Abstract!Yield
  <2> DEFINE a == Append(q, c)
  <2>1. pc # "exited" /\ \E k \in Abstract!Candidates(a) : ready_q' = RemoveAt(a, k)
    BY <1>3, <1>8 DEF Abstract!Yield
  <2>2. Exact(a, S \cup {c}) /\ Keeps(q, a) /\ (S \cup {c}) \in SUBSET Tid
    BY <1>1, <1>2, <2>1, AppendExact, AppendKeeps
  <2>3. a \in Seq(Tid) /\ a # <<>>
    BY <1>1 DEF Exact
  <2>4. PICK k \in 1 .. Len(a) : ready_q' = RemoveAt(a, k)
    BY <2>1, <2>3, PicksInRange DEF Picks, Abstract!Candidates
  <2>5. Keeps(a, ready_q')
    BY <2>2, <2>4, RemoveKeeps
  <2> HIDE DEF a
  <2>6. ASSUME NEW t \in Tid, NEW u \in Tid, Before(q, t, u),
               PlaceOf(ready_q', t) # 0, PlaceOf(ready_q', u) # 0
        PROVE  Before(ready_q', t, u)
    <3>1. \A x \in S : PlaceOf(a, x) \in 1 .. Len(a)
      BY <1>1, <2>2, PlaceExact
    <3>2. PlaceOf(a, t) # 0 /\ PlaceOf(a, u) # 0
      BY <1>4, <2>6, <3>1
    <3>3. Before(a, t, u)
      BY <2>2, <2>6, <3>2 DEF Keeps
    <3> QED  BY <2>5, <2>6, <3>3 DEF Keeps
  <2> QED  BY <2>6 DEF Keeps
<1>9. CASE Abstract!YieldTo
  <2>1. PICK k \in 1 .. Len(q) : pc # "exited" /\ ready_q' = Append(RemoveAt(q, k), c)
    BY <1>3, <1>9 DEF Abstract!YieldTo
  <2> DEFINE r == RemoveAt(q, k)
             R == S \ {q[k]}
  <2>2. Exact(r, R) /\ Keeps(q, r) /\ R \in SUBSET Tid
    BY <1>1, RemoveExact, RemoveKeeps
  <2>3. c \notin R /\ c \notin S
    BY <1>2, <2>1
  <2>4. Keeps(r, ready_q') /\ Exact(ready_q', R \cup {c}) /\ (R \cup {c}) \in SUBSET Tid
    BY <1>1, <2>1, <2>2, <2>3, AppendKeeps, AppendExact
  <2> HIDE DEF r, R
  <2>5. ASSUME NEW t \in Tid, NEW u \in Tid, Before(q, t, u),
               PlaceOf(ready_q', t) # 0, PlaceOf(ready_q', u) # 0
        PROVE  Before(ready_q', t, u)
    <3>1. t \in R \cup {c} /\ u \in R \cup {c}
      BY <2>4, <2>5, PlaceExact
    <3>2. t \in R /\ u \in R
      BY <1>4, <2>3, <2>5, <3>1
    <3>3. PlaceOf(r, t) # 0 /\ PlaceOf(r, u) # 0
      BY <2>2, <3>2, PlaceExact
    <3>4. Before(r, t, u)
      BY <2>2, <2>5, <3>3 DEF Keeps
    <3> QED  BY <2>4, <2>5, <3>4 DEF Keeps
  <2> QED  BY <2>5 DEF Keeps
<1>10. CASE Abstract!Exit
  <2>1. CASE UNCHANGED ready_q
    BY <1>5, <2>1
  <2>2. CASE q # <<>> /\ \E k \in Abstract!Candidates(q) : ready_q' = RemoveAt(q, k)
    <3>1. q \in Seq(Tid)
      BY <1>1 DEF Exact
    <3>2. PICK k \in 1 .. Len(q) : ready_q' = RemoveAt(q, k)
      BY <2>2, <3>1, PicksInRange DEF Picks, Abstract!Candidates
    <3> QED  BY <1>6, <3>2
  <2> QED  BY <1>3, <1>10, <2>1, <2>2 DEF Abstract!Exit
<1>11. CASE Abstract!Cancel
  <2>1. \E k \in 1 .. Len(q) : ready_q' = RemoveAt(q, k)
    BY <1>3, <1>11 DEF Abstract!Cancel
  <2> QED  BY <1>6, <2>1
<1>12. CASE Abstract!Reap
  BY <1>5, <1>12 DEF Abstract!Reap
<1> QED  BY <1>7, <1>8, <1>9, <1>10, <1>11, <1>12 DEF Abstract!Next

\* A waiting thread never overtakes another: whatever leaves the queue in front of,
\* behind or between two threads, they stay in their order.
THEOREM NobodyOvertakes == Spec => OrderKept
<1> DEFINE Kept == \A t, u \in Tid :
             Before(ready_q, t, u) /\ PlaceOf(ready_q', t) # 0 /\ PlaceOf(ready_q', u) # 0
               => Before(ready_q', t, u)
<1>1. IInv /\ [Next]_vars => [Kept]_vars
  <2> SUFFICES ASSUME IInv, Next PROVE Kept
    OBVIOUS
  <2>1. CASE Abstract!Next
    BY <2>1, OrderOfStep DEF Keeps
  <2>2. CASE UNCHANGED Abstract!vars
    BY <2>2 DEF Abstract!vars, Before, PlaceOf
  <2> QED  BY <2>1, <2>2, EveryStep DEF Stepped
<1> QED  BY <1>1, Invariance, PTL DEF Spec, OrderKept

=============================================================================
