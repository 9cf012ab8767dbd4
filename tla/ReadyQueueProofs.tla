-------------------------- MODULE ReadyQueueProofs --------------------------
(***************************************************************************)
(* The ring of ready threads is a queue, for any number of cells: what the *)
(* operations do to head, tail and size is what they should do to a line   *)
(* of threads, wherever in the array the line lies.                        *)
(***************************************************************************)
EXTENDS ReadyQueue, IterationProofs, FiniteSetTheorems, SequenceTheorems

Entry == Tid \cup {0}

\* A ring whose indices agree.
Whole(r) == r \in Ring /\ r.tail = (r.head + r.size) % MaxThreads

-----------------------------------------------------------------------------
(* Positions in the ring.                                                  *)

LEMMA WrapOnce ==
  ASSUME NEW x \in 0 .. 2 * MaxThreads - 1
  PROVE  x % MaxThreads = IF x < MaxThreads THEN x ELSE x - MaxThreads
<1>1. MaxThreads \in Int /\ MaxThreads > 0 /\ x \in Int
  BY ReadyQueueAssumption
<1>2. /\ x % MaxThreads \in 0 .. MaxThreads - 1 /\ x \div MaxThreads \in Int
      /\ x = MaxThreads * (x \div MaxThreads) + (x % MaxThreads)
  BY <1>1, SMT
<1>3. x \div MaxThreads = 0 \/ x \div MaxThreads = 1
  BY <1>1, <1>2, SMT
<1> QED  BY <1>1, <1>2, <1>3

LEMMA RingFields ==
  ASSUME NEW r, Whole(r)
  PROVE  /\ r = [ready_q |-> r.ready_q, head |-> r.head, tail |-> r.tail, size |-> r.size]
         /\ r.ready_q \in [Cell -> Entry]
         /\ r.head \in Nat /\ r.head < MaxThreads
         /\ r.tail \in Nat /\ r.tail < MaxThreads
         /\ r.size \in Nat /\ r.size <= MaxThreads
         /\ r.tail = IF r.head + r.size < MaxThreads THEN r.head + r.size
                     ELSE r.head + r.size - MaxThreads
<1>1. /\ r \in Ring /\ r.tail = (r.head + r.size) % MaxThreads
      /\ MaxThreads \in Nat /\ MaxThreads > 0
  BY ReadyQueueAssumption DEF Whole
<1>2. /\ r = [ready_q |-> r.ready_q, head |-> r.head, tail |-> r.tail, size |-> r.size]
      /\ r.ready_q \in [Cell -> Entry] /\ r.head \in Cell /\ r.tail \in Cell
      /\ r.size \in 0 .. MaxThreads
  BY <1>1 DEF Ring, Entry
<1>3. /\ r.head \in Nat /\ r.head < MaxThreads /\ r.tail \in Nat /\ r.tail < MaxThreads
      /\ r.size \in Nat /\ r.size <= MaxThreads
  BY <1>1, <1>2 DEF Cell
<1> DEFINE x == r.head + r.size
<1>4. x \in 0 .. 2 * MaxThreads - 1
  BY <1>1, <1>3
<1>5. x % MaxThreads = IF x < MaxThreads THEN x ELSE x - MaxThreads
  <2> HIDE DEF x
  <2> QED  BY <1>4, WrapOnce
<1> QED  BY <1>1, <1>2, <1>3, <1>5

\* The cell of the k-th entry.
Place(r, k) == IF r.head + k - 1 < MaxThreads THEN r.head + k - 1 ELSE r.head + k - 1 - MaxThreads

LEMMA EntryPlaces ==
  ASSUME NEW r, Whole(r)
  PROVE  /\ Entries(r) \in Seq(Entry) /\ Len(Entries(r)) = r.size
         /\ \A k \in 1 .. r.size : /\ Place(r, k) \in Cell
                                   /\ Entries(r)[k] = r.ready_q[Place(r, k)]
<1>1. MaxThreads \in Nat /\ MaxThreads > 0
  BY ReadyQueueAssumption
<1>2. ASSUME NEW k \in 1 .. r.size
      PROVE  /\ Place(r, k) \in Cell /\ (r.head + k - 1) % MaxThreads = Place(r, k)
  <2> DEFINE x == r.head + k - 1
  <2>1. x \in 0 .. 2 * MaxThreads - 1
    BY <1>1, RingFields
  <2>2. x % MaxThreads = IF x < MaxThreads THEN x ELSE x - MaxThreads
    <3> HIDE DEF x
    <3> QED  BY <2>1, WrapOnce
  <2>3. Place(r, k) \in Cell
    BY <1>1, RingFields DEF Place, Cell
  <2>4. x % MaxThreads = Place(r, k)
    BY <1>1, <2>2, RingFields DEF Place
  <2> QED  BY <2>3, <2>4
<1>3. \A k \in 1 .. r.size : Entries(r)[k] = r.ready_q[Place(r, k)]
  BY <1>2 DEF Entries
<1>4. \A k \in 1 .. r.size : Entries(r)[k] \in Entry
  BY <1>2, <1>3, RingFields
<1>5. Entries(r) \in [1 .. r.size -> Entry]
  BY <1>4 DEF Entries
<1>6. Entries(r) \in Seq(Entry) /\ Len(Entries(r)) = r.size
  BY <1>5, RingFields
<1> QED  BY <1>2, <1>3, <1>6

LEMMA MakeWhole ==
  ASSUME NEW q \in [Cell -> Entry], NEW h \in Nat, h < MaxThreads, NEW n \in Nat, n <= MaxThreads,
         NEW e, e = IF h + n < MaxThreads THEN h + n ELSE h + n - MaxThreads
  PROVE  Whole([ready_q |-> q, head |-> h, tail |-> e, size |-> n])
<1> DEFINE x == h + n
<1>1. MaxThreads \in Nat /\ MaxThreads > 0
  BY ReadyQueueAssumption
<1>2. x \in 0 .. 2 * MaxThreads - 1
  BY <1>1
<1>3. x % MaxThreads = IF x < MaxThreads THEN x ELSE x - MaxThreads
  <2> HIDE DEF x
  <2> QED  BY <1>2, WrapOnce
<1>4. e \in Cell /\ h \in Cell /\ n \in 0 .. MaxThreads /\ e = x % MaxThreads
  BY <1>1, <1>3 DEF Cell
<1> DEFINE r == [ready_q |-> q, head |-> h, tail |-> e, size |-> n]
<1>5. r \in Ring
  BY <1>4 DEF Ring, Entry
<1>6. r.tail = (r.head + r.size) % MaxThreads
  BY <1>4
<1> QED  BY <1>5, <1>6 DEF Whole

LEMMA SameSequence ==
  ASSUME NEW S, NEW s \in Seq(S), NEW z \in Seq(S), Len(s) = Len(z),
         \A k \in 1 .. Len(s) : s[k] = z[k]
  PROVE  s = z
BY SMT

-----------------------------------------------------------------------------
(* What the operations do to the entries.                                  *)

\* One more cell.
Succ(c) == IF c + 1 < MaxThreads THEN c + 1 ELSE 0

LEMMA WrapSucc ==
  ASSUME NEW c \in Nat, c < MaxThreads
  PROVE  (c + 1) % MaxThreads = Succ(c)
<1> DEFINE x == c + 1
<1>1. MaxThreads \in Nat /\ MaxThreads > 0
  BY ReadyQueueAssumption
<1>2. x \in 0 .. 2 * MaxThreads - 1
  BY <1>1
<1>3. x % MaxThreads = IF x < MaxThreads THEN x ELSE x - MaxThreads
  <2> HIDE DEF x
  <2> QED  BY <1>2, WrapOnce
<1> QED  BY <1>1, <1>3 DEF Succ

LEMMA PushFields ==
  ASSUME NEW r, Whole(r), NEW t \in Entry, r.size < MaxThreads
  PROVE  rq_push(r, t) = [ready_q |-> [r.ready_q EXCEPT ![r.tail] = t], head |-> r.head,
                          tail |-> Succ(r.tail), size |-> r.size + 1]
<1>1. ~ (r.size >= MaxThreads)
  BY RingFields, ReadyQueueAssumption
<1>2. rq_push(r, t) = [r EXCEPT !.ready_q = [r.ready_q EXCEPT ![r.tail] = t],
                                !.tail = (r.tail + 1) % MaxThreads, !.size = r.size + 1]
  BY <1>1 DEF rq_push
<1>3. (r.tail + 1) % MaxThreads = Succ(r.tail)
  BY RingFields, WrapSucc
<1>4. r = [ready_q |-> r.ready_q, head |-> r.head, tail |-> r.tail, size |-> r.size]
  BY RingFields
<1> QED  BY <1>2, <1>3, <1>4

LEMMA PushEffect ==
  ASSUME NEW r, Whole(r), NEW t \in Entry, r.size < MaxThreads
  PROVE  /\ Whole(rq_push(r, t)) /\ rq_push(r, t).size = r.size + 1
         /\ Entries(rq_push(r, t)) = Append(Entries(r), t)
<1> DEFINE p == rq_push(r, t)
           q == [r.ready_q EXCEPT ![r.tail] = t]
<1>1. MaxThreads \in Nat /\ MaxThreads > 0
  BY ReadyQueueAssumption
<1>2. p = [ready_q |-> q, head |-> r.head, tail |-> Succ(r.tail), size |-> r.size + 1]
  BY PushFields
<1>3. Whole(p)
  <2>1. q \in [Cell -> Entry]
    BY RingFields
  <2>2. Succ(r.tail) = IF r.head + (r.size + 1) < MaxThreads THEN r.head + (r.size + 1)
                       ELSE r.head + (r.size + 1) - MaxThreads
    BY <1>1, RingFields DEF Succ
  <2>3. r.size + 1 \in Nat /\ r.size + 1 <= MaxThreads /\ r.head \in Nat /\ r.head < MaxThreads
    BY <1>1, RingFields
  <2> HIDE DEF q, p
  <2> QED  BY <1>2, <2>1, <2>2, <2>3, MakeWhole
<1>4. p.size = r.size + 1 /\ p.head = r.head /\ p.ready_q = q
  BY <1>2
<1>5. /\ Entries(p) \in Seq(Entry) /\ Len(Entries(p)) = r.size + 1
      /\ \A k \in 1 .. r.size + 1 : Entries(p)[k] = q[Place(p, k)]
  <2> HIDE DEF q, p
  <2> QED  BY <1>3, <1>4, EntryPlaces
<1>6. /\ Entries(r) \in Seq(Entry) /\ Len(Entries(r)) = r.size
      /\ \A k \in 1 .. r.size : Place(r, k) \in Cell /\ Entries(r)[k] = r.ready_q[Place(r, k)]
  BY EntryPlaces
<1>7. ASSUME NEW k \in 1 .. r.size PROVE Entries(p)[k] = Entries(r)[k]
  <2>1. Place(p, k) = Place(r, k) /\ Place(r, k) # r.tail
    BY <1>1, <1>4, RingFields DEF Place
  <2>2. q[Place(r, k)] = r.ready_q[Place(r, k)]
    BY <1>6, <2>1, RingFields
  <2>3. k \in 1 .. r.size + 1
    BY RingFields
  <2> QED  BY <1>5, <1>6, <2>1, <2>2, <2>3
<1>8. Entries(p)[r.size + 1] = t
  <2>1. Place(p, r.size + 1) = r.tail /\ r.tail \in Cell /\ r.size + 1 \in 1 .. r.size + 1
    BY <1>1, <1>4, RingFields DEF Place, Cell
  <2>2. q[r.tail] = t
    BY <2>1, RingFields
  <2> QED  BY <1>5, <2>1, <2>2
<1>9. Entries(p) = Append(Entries(r), t)
  <2>1. /\ Append(Entries(r), t) \in Seq(Entry) /\ Len(Append(Entries(r), t)) = r.size + 1
        /\ \A k \in 1 .. r.size : Append(Entries(r), t)[k] = Entries(r)[k]
        /\ Append(Entries(r), t)[r.size + 1] = t
    BY <1>6
  <2>2. \A k \in 1 .. r.size + 1 : Entries(p)[k] = Append(Entries(r), t)[k]
    BY <1>7, <1>8, <2>1, RingFields
  <2> HIDE DEF p, q
  <2> QED  BY <1>5, <2>1, <2>2, SameSequence
<1> QED  BY <1>3, <1>4, <1>9

LEMMA PopFields ==
  ASSUME NEW r, Whole(r), r.size # 0
  PROVE  rq_pop(r) = [ready_q |-> r.ready_q, head |-> Succ(r.head), tail |-> r.tail,
                      size |-> r.size - 1]
<1>1. rq_pop(r) = [r EXCEPT !.head = (r.head + 1) % MaxThreads, !.size = r.size - 1]
  BY DEF rq_pop
<1>2. (r.head + 1) % MaxThreads = Succ(r.head)
  BY RingFields, WrapSucc
<1>3. r = [ready_q |-> r.ready_q, head |-> r.head, tail |-> r.tail, size |-> r.size]
  BY RingFields
<1> QED  BY <1>1, <1>2, <1>3

LEMMA PopEffect ==
  ASSUME NEW r, Whole(r), r.size # 0
  PROVE  /\ Whole(rq_pop(r)) /\ rq_pop(r).size = r.size - 1
         /\ Entries(r) # <<>> /\ Entries(rq_pop(r)) = Tail(Entries(r))
         /\ r.ready_q[r.head] = Head(Entries(r))
<1> DEFINE p == rq_pop(r)
<1>1. MaxThreads \in Nat /\ MaxThreads > 0
  BY ReadyQueueAssumption
<1>2. p = [ready_q |-> r.ready_q, head |-> Succ(r.head), tail |-> r.tail, size |-> r.size - 1]
  BY PopFields
<1>3. Whole(p)
  <2>1. r.ready_q \in [Cell -> Entry]
    BY RingFields
  <2>2. r.tail = IF Succ(r.head) + (r.size - 1) < MaxThreads THEN Succ(r.head) + (r.size - 1)
                 ELSE Succ(r.head) + (r.size - 1) - MaxThreads
    BY <1>1, RingFields DEF Succ
  <2>3. /\ r.size - 1 \in Nat /\ r.size - 1 <= MaxThreads
        /\ Succ(r.head) \in Nat /\ Succ(r.head) < MaxThreads
    BY <1>1, RingFields DEF Succ
  <2> HIDE DEF p
  <2> QED  BY <1>2, <2>1, <2>2, <2>3, MakeWhole
<1>4. p.size = r.size - 1 /\ p.head = Succ(r.head) /\ p.ready_q = r.ready_q
  BY <1>2
<1>5. /\ Entries(p) \in Seq(Entry) /\ Len(Entries(p)) = r.size - 1
      /\ \A k \in 1 .. r.size - 1 : Entries(p)[k] = r.ready_q[Place(p, k)]
  <2> HIDE DEF p
  <2> QED  BY <1>3, <1>4, EntryPlaces
<1>6. /\ Entries(r) \in Seq(Entry) /\ Len(Entries(r)) = r.size
      /\ \A k \in 1 .. r.size : Place(r, k) \in Cell /\ Entries(r)[k] = r.ready_q[Place(r, k)]
  BY EntryPlaces
<1>7. Entries(r) # <<>> /\ Head(Entries(r)) = Entries(r)[1]
  BY <1>6, RingFields
<1>8. r.ready_q[r.head] = Head(Entries(r))
  <2>1. Place(r, 1) = r.head /\ 1 \in 1 .. r.size
    BY <1>1, RingFields DEF Place
  <2> QED  BY <1>6, <1>7, <2>1
<1>9. Entries(p) = Tail(Entries(r))
  <2>1. /\ Tail(Entries(r)) \in Seq(Entry) /\ Len(Tail(Entries(r))) = r.size - 1
        /\ \A k \in 1 .. r.size - 1 : Tail(Entries(r))[k] = Entries(r)[k + 1]
    BY <1>6, <1>7
  <2>2. ASSUME NEW k \in 1 .. r.size - 1 PROVE Entries(p)[k] = Tail(Entries(r))[k]
    <3>1. Place(p, k) = Place(r, k + 1) /\ k + 1 \in 1 .. r.size
      BY <1>1, <1>4, RingFields DEF Place, Succ
    <3> QED  BY <1>5, <1>6, <2>1, <3>1
  <2> HIDE DEF p
  <2> QED  BY <1>5, <2>1, <2>2, SameSequence
<1> QED  BY <1>3, <1>4, <1>7, <1>8, <1>9

\* One cell back.
Pred(c) == IF c = 0 THEN MaxThreads - 1 ELSE c - 1

LEMMA WrapPred ==
  ASSUME NEW c \in Nat, c < MaxThreads
  PROVE  (c - 1 + MaxThreads) % MaxThreads = Pred(c)
<1> DEFINE x == c - 1 + MaxThreads
<1>1. MaxThreads \in Nat /\ MaxThreads > 0
  BY ReadyQueueAssumption
<1>2. x \in 0 .. 2 * MaxThreads - 1
  BY <1>1
<1>3. x % MaxThreads = IF x < MaxThreads THEN x ELSE x - MaxThreads
  <2> HIDE DEF x
  <2> QED  BY <1>2, WrapOnce
<1> QED  BY <1>1, <1>3 DEF Pred

LEMMA PushFrontFields ==
  ASSUME NEW r, Whole(r), NEW t \in Entry, r.size < MaxThreads
  PROVE  rq_push_front(r, t) = [ready_q |-> [r.ready_q EXCEPT ![Pred(r.head)] = t],
                                head |-> Pred(r.head), tail |-> r.tail, size |-> r.size + 1]
<1>1. ~ (r.size >= MaxThreads)
  BY RingFields, ReadyQueueAssumption
<1>2. (r.head - 1 + MaxThreads) % MaxThreads = Pred(r.head)
  BY RingFields, WrapPred
<1>3. rq_push_front(r, t) =
        [r EXCEPT !.head = Pred(r.head), !.ready_q = [r.ready_q EXCEPT ![Pred(r.head)] = t],
                  !.size = r.size + 1]
  BY <1>1, <1>2 DEF rq_push_front
<1>4. r = [ready_q |-> r.ready_q, head |-> r.head, tail |-> r.tail, size |-> r.size]
  BY RingFields
<1> QED  BY <1>3, <1>4

LEMMA PushFrontEffect ==
  ASSUME NEW r, Whole(r), NEW t \in Entry, r.size < MaxThreads
  PROVE  /\ Whole(rq_push_front(r, t))
         /\ Entries(rq_push_front(r, t)) = <<t>> \o Entries(r)
<1> DEFINE p == rq_push_front(r, t)
           h == Pred(r.head)
           q == [r.ready_q EXCEPT ![h] = t]
<1>1. MaxThreads \in Nat /\ MaxThreads > 0
  BY ReadyQueueAssumption
<1>2. p = [ready_q |-> q, head |-> h, tail |-> r.tail, size |-> r.size + 1]
  BY PushFrontFields
<1>3. Whole(p)
  <2>1. q \in [Cell -> Entry]
    BY RingFields
  <2>2. r.tail = IF h + (r.size + 1) < MaxThreads THEN h + (r.size + 1)
                 ELSE h + (r.size + 1) - MaxThreads
    BY <1>1, RingFields DEF Pred
  <2>3. r.size + 1 \in Nat /\ r.size + 1 <= MaxThreads /\ h \in Nat /\ h < MaxThreads
    BY <1>1, RingFields DEF Pred
  <2> HIDE DEF q, p, h
  <2> QED  BY <1>2, <2>1, <2>2, <2>3, MakeWhole
<1>4. p.size = r.size + 1 /\ p.head = h /\ p.ready_q = q
  BY <1>2
<1>5. /\ Entries(p) \in Seq(Entry) /\ Len(Entries(p)) = r.size + 1
      /\ \A k \in 1 .. r.size + 1 : Entries(p)[k] = q[Place(p, k)]
  <2> HIDE DEF q, p
  <2> QED  BY <1>3, <1>4, EntryPlaces
<1>6. /\ Entries(r) \in Seq(Entry) /\ Len(Entries(r)) = r.size
      /\ \A k \in 1 .. r.size : Place(r, k) \in Cell /\ Entries(r)[k] = r.ready_q[Place(r, k)]
  BY EntryPlaces
<1>7. ASSUME NEW k \in 1 .. r.size PROVE Entries(p)[k + 1] = Entries(r)[k]
  <2>1. Place(p, k + 1) = Place(r, k) /\ Place(r, k) # h
    BY <1>1, <1>4, RingFields DEF Place, Pred
  <2>2. q[Place(r, k)] = r.ready_q[Place(r, k)]
    BY <1>6, <2>1, RingFields
  <2>3. k + 1 \in 1 .. r.size + 1
    BY RingFields
  <2> QED  BY <1>5, <1>6, <2>1, <2>2, <2>3
<1>8. Entries(p)[1] = t
  <2>1. Place(p, 1) = h /\ h \in Cell /\ 1 \in 1 .. r.size + 1
    BY <1>1, <1>4, RingFields DEF Place, Cell, Pred
  <2>2. q[h] = t
    BY <2>1, RingFields
  <2> QED  BY <1>5, <2>1, <2>2
<1>9. Entries(p) = <<t>> \o Entries(r)
  <2>1. /\ <<t>> \o Entries(r) \in Seq(Entry) /\ Len(<<t>> \o Entries(r)) = r.size + 1
        /\ (<<t>> \o Entries(r))[1] = t
        /\ \A k \in 1 .. r.size : (<<t>> \o Entries(r))[k + 1] = Entries(r)[k]
    BY <1>6
  <2>2. ASSUME NEW k \in 1 .. r.size + 1 PROVE Entries(p)[k] = (<<t>> \o Entries(r))[k]
    <3>1. k = 1 \/ (k - 1 \in 1 .. r.size /\ (k - 1) + 1 = k)
      BY RingFields
    <3> QED  BY <1>7, <1>8, <2>1, <3>1
  <2> HIDE DEF p, q, h
  <2> QED  BY <1>5, <2>1, <2>2, SameSequence
<1> QED  BY <1>3, <1>9

-----------------------------------------------------------------------------
(* The loops: popping everything, and pushing what was kept.               *)

LEMMA NoEntries ==
  ASSUME NEW r, Whole(r), r.size = 0
  PROVE  Entries(r) = <<>>
BY EntryPlaces

LEMMA DrainedEffect ==
  ASSUME NEW r, Whole(r)
  PROVE  Whole(Drained(r)) /\ Drained(r).size = 0 /\ Entries(Drained(r)) = <<>>
<1> DEFINE S == {l \in Ring : Whole(l)}
           f == [l \in Ring |-> rq_pop(l)]
           U == {n \in Nat : n <= r.size => Iterate(f, r, n).size = r.size - n}
<1>1. r \in S /\ r.size \in Nat
  BY RingFields DEF Whole
<1>2. \A y \in S : f[y] = rq_pop(y)
  OBVIOUS
<1>3. ASSUME NEW y \in S PROVE f[y] \in S
  <2>1. CASE y.size = 0
    BY <1>2, <2>1 DEF rq_pop
  <2>2. CASE y.size # 0
    BY <1>2, <2>2, PopEffect DEF Whole
  <2> QED  BY <2>1, <2>2
<1>4. /\ Iterate(f, r, 0) = r
      /\ \A n \in Nat : Iterate(f, r, n) \in S
      /\ \A n \in Nat : Iterate(f, r, n + 1) = f[Iterate(f, r, n)]
  <2> HIDE DEF S, f
  <2> QED  BY <1>1, <1>3, IterateSteps
<1>5. 0 \in U
  BY <1>1, <1>4
<1>6. ASSUME NEW n \in U PROVE n + 1 \in U
  <2>1. n \in Nat /\ n + 1 \in Nat
    OBVIOUS
  <2>2. CASE n + 1 <= r.size
    <3>1. Iterate(f, r, n) \in S /\ Iterate(f, r, n).size = r.size - n
      BY <1>1, <1>4, <2>1, <2>2
    <3>2. Iterate(f, r, n).size # 0
      BY <1>1, <2>1, <2>2, <3>1
    <3>3. rq_pop(Iterate(f, r, n)).size = (r.size - n) - 1
      <4> HIDE DEF f
      <4> QED  BY <3>1, <3>2, PopEffect
    <3>4. Iterate(f, r, n + 1) = rq_pop(Iterate(f, r, n))
      BY <1>2, <1>4, <2>1, <3>1
    <3>5. (r.size - n) - 1 = r.size - (n + 1)
      BY <1>1, <2>1
    <3> QED  BY <2>1, <3>3, <3>4, <3>5
  <2>3. CASE ~ (n + 1 <= r.size)
    BY <2>1, <2>3
  <2> QED  BY <2>2, <2>3
<1>7. U = Nat
  <2> HIDE DEF U
  <2>1. U \in SUBSET Nat
    BY DEF U
  <2> QED  BY <1>5, <1>6, <2>1, SetInduction
<1>8. Drained(r) \in S /\ Drained(r).size = 0
  <2>1. Iterate(f, r, r.size) \in S /\ Iterate(f, r, r.size).size = r.size - r.size
    BY <1>1, <1>4, <1>7
  <2> QED  BY <1>1, <2>1 DEF Drained
<1>9. Whole(Drained(r)) /\ Drained(r).size = 0
  BY <1>8
<1> QED  BY <1>9, NoEntries

\* The states of the second loop: what is in the ring and in temp[] makes e.
Carrying(e) ==
  {l \in [ring : Ring, temp : Seq(Entry)] :
     /\ Whole(l.ring) /\ l.ring.size + Len(l.temp) <= MaxThreads
     /\ Entries(l.ring) \o l.temp = e}

\* One turn moves an entry from the head of temp[] to the end of the ring.
LEMMA PushFirstEffect ==
  ASSUME NEW e, NEW l \in Carrying(e)
  PROVE  /\ PushFirst(l) \in Carrying(e)
         /\ Len(l.temp) # 0 => Len(PushFirst(l).temp) = Len(l.temp) - 1
<1>1. CASE l.temp = <<>>
  <2>1. Len(l.temp) = 0
    BY <1>1
  <2> QED  BY <1>1, <2>1 DEF PushFirst
<1>2. CASE l.temp # <<>>
  <2> DEFINE r == l.ring
             temp == l.temp
  <2>0. /\ Whole(r) /\ temp \in Seq(Entry) /\ r.size + Len(temp) <= MaxThreads
        /\ Entries(r) \o temp = e
    BY DEF Carrying
  <2>9. PushFirst(l) = [ring |-> rq_push(r, Head(temp)), temp |-> Tail(temp)]
    BY <1>2 DEF PushFirst
  <2>a. temp # <<>>
    BY <1>2
  <2> HIDE DEF r, temp
  <2>1. /\ Head(temp) \in Entry /\ Tail(temp) \in Seq(Entry)
        /\ Len(temp) \in Nat /\ Len(temp) > 0 /\ Len(Tail(temp)) = Len(temp) - 1
    BY <2>0, <2>a
  <2>2. r.size < MaxThreads /\ r.size \in Nat
    BY <2>0, <2>1, RingFields, ReadyQueueAssumption
  <2>4. /\ Whole(rq_push(r, Head(temp))) /\ rq_push(r, Head(temp)).size = r.size + 1
        /\ Entries(rq_push(r, Head(temp))) = Append(Entries(r), Head(temp))
    BY <2>0, <2>1, <2>2, PushEffect
  <2>5. Entries(r) \in Seq(Entry)
    BY <2>0, EntryPlaces
  <2>6. Append(Entries(r), Head(temp)) \o Tail(temp) = Entries(r) \o temp
    BY <2>0, <2>a, <2>5, SMT
  <2>7. (r.size + 1) + (Len(temp) - 1) = r.size + Len(temp)
    BY <2>1, <2>2
  <2>8. PushFirst(l) \in Carrying(e)
    <3> DEFINE q == rq_push(r, Head(temp))
               z == Tail(temp)
    <3>1. /\ Whole(q) /\ q \in Ring /\ z \in Seq(Entry) /\ q.size + Len(z) <= MaxThreads
          /\ Entries(q) \o z = e
      BY <2>0, <2>1, <2>4, <2>6, <2>7 DEF Whole
    <3> HIDE DEF q, z
    <3>2. [ring |-> q, temp |-> z] \in Carrying(e)
      BY <3>1 DEF Carrying
    <3> QED  BY <2>9, <3>2 DEF q, z
  <2>b. Len(PushFirst(l).temp) = Len(temp) - 1
    BY <2>1, <2>9
  <2> QED  BY <2>8, <2>b DEF temp
<1> QED  BY <1>1, <1>2

\* As many turns as there are entries in temp[].
LEMMA PushedAll ==
  ASSUME NEW e, NEW x \in Carrying(e), NEW f, \A l \in Carrying(e) : f[l] = PushFirst(l)
  PROVE  /\ Iterate(f, x, Len(x.temp)) \in Carrying(e)
         /\ Len(Iterate(f, x, Len(x.temp)).temp) = 0
<1> DEFINE m == Len(x.temp)
           U == {n \in Nat : n <= m => Len(Iterate(f, x, n).temp) = m - n}
<1>1. m \in Nat
  BY DEF Carrying
<1>2. \A l \in Carrying(e) : f[l] \in Carrying(e)
  BY PushFirstEffect
<1>3. /\ Iterate(f, x, 0) = x
      /\ \A n \in Nat : Iterate(f, x, n) \in Carrying(e)
      /\ \A n \in Nat : Iterate(f, x, n + 1) = f[Iterate(f, x, n)]
  BY <1>2, IterateSteps
<1>4. 0 \in U
  BY <1>1, <1>3
<1> HIDE DEF m
<1>5. ASSUME NEW n \in U PROVE n + 1 \in U
  <2>1. n \in Nat /\ n + 1 \in Nat
    OBVIOUS
  <2>2. CASE n + 1 <= m
    <3> DEFINE l == Iterate(f, x, n)
    <3>1. Len(l.temp) = m - n /\ m - n # 0
      BY <1>1, <2>1, <2>2
    <3>2. l \in Carrying(e) /\ Iterate(f, x, n + 1) = PushFirst(l)
      BY <1>3, <2>1
    <3>3. Len(PushFirst(l).temp) = (m - n) - 1
      <4> HIDE DEF l
      <4> QED  BY <3>1, <3>2, PushFirstEffect
    <3>4. (m - n) - 1 = m - (n + 1)
      BY <1>1, <2>1
    <3> QED  BY <2>1, <3>2, <3>3, <3>4
  <2>3. CASE ~ (n + 1 <= m)
    BY <2>1, <2>3
  <2> QED  BY <2>2, <2>3
<1>6. U = Nat
  <2> HIDE DEF U
  <2>1. U \in SUBSET Nat
    BY DEF U
  <2> QED  BY <1>4, <1>5, <2>1, SetInduction
<1>7. Len(Iterate(f, x, m).temp) = 0
  BY <1>1, <1>6
<1> QED  BY <1>1, <1>3, <1>7 DEF m

LEMMA RefilledEffect ==
  ASSUME NEW r, Whole(r), NEW temp \in Seq(Entry), r.size + Len(temp) <= MaxThreads
  PROVE  /\ Whole(Refilled(r, temp)) /\ Entries(Refilled(r, temp)) = Entries(r) \o temp
<1> DEFINE e == Entries(r) \o temp
           x == [ring |-> r, temp |-> temp]
           f == [l \in [ring : Ring, temp : Seq(Tid \cup {0})] |-> PushFirst(l)]
           z == Iterate(f, x, Len(x.temp))
<1>1. x \in Carrying(e) /\ x.temp = temp
  BY DEF Carrying, Whole
<1>2. \A l \in Carrying(e) : f[l] = PushFirst(l)
  BY DEF Carrying, Entry
<1>3. Refilled(r, temp) = z.ring
  BY <1>1 DEF Refilled
<1>4. z \in Carrying(e) /\ Len(z.temp) = 0
  <2> HIDE DEF e, f, x
  <2> QED  BY <1>1, <1>2, PushedAll
<1> HIDE DEF z
<1>5. Whole(z.ring) /\ z.temp = <<>> /\ Entries(z.ring) \o z.temp = e
  BY <1>4 DEF Carrying
<1>6. Entries(z.ring) \o <<>> = Entries(z.ring)
  BY <1>5, EntryPlaces
<1> QED  BY <1>3, <1>5, <1>6

LEMMA WithoutEffect ==
  ASSUME NEW r, Whole(r), NEW k \in 1 .. r.size
  PROVE  Whole(Without(r, k)) /\ Entries(Without(r, k)) = RemoveAt(Entries(r), k)
<1> DEFINE e == Entries(r)
           kept == RemoveAt(e, k)
<1>1. e \in Seq(Entry) /\ Len(e) = r.size /\ r.size \in Nat /\ r.size <= MaxThreads
  BY EntryPlaces, RingFields
<1>2. kept \in Seq(Entry) /\ Len(kept) = r.size - 1
  <2> HIDE DEF e
  <2> QED  BY <1>1 DEF RemoveAt
<1>3. Whole(Drained(r)) /\ Drained(r).size = 0 /\ Entries(Drained(r)) = <<>>
  BY DrainedEffect
<1>4. 0 + Len(kept) <= MaxThreads
  BY <1>1, <1>2, ReadyQueueAssumption
<1>5. Whole(Refilled(Drained(r), kept)) /\ Entries(Refilled(Drained(r), kept)) = <<>> \o kept
  <2> HIDE DEF kept
  <2> QED  BY <1>2, <1>3, <1>4, RefilledEffect
<1>6. <<>> \o kept = kept
  <2> HIDE DEF kept
  <2> QED  BY <1>2
<1> QED  BY <1>5, <1>6 DEF Without

LEMMA ReplacedEffect ==
  ASSUME NEW r, Whole(r)
  PROVE  /\ Whole(Refilled(Drained(r), Entries(r)))
         /\ Entries(Refilled(Drained(r), Entries(r))) = Entries(r)
<1>1. Entries(r) \in Seq(Entry) /\ Len(Entries(r)) = r.size /\ r.size \in Nat /\ r.size <= MaxThreads
  BY EntryPlaces, RingFields
<1>2. Whole(Drained(r)) /\ Drained(r).size = 0 /\ Entries(Drained(r)) = <<>>
  BY DrainedEffect
<1>3. 0 + Len(Entries(r)) <= MaxThreads
  BY <1>1, ReadyQueueAssumption
<1>4. /\ Whole(Refilled(Drained(r), Entries(r)))
      /\ Entries(Refilled(Drained(r), Entries(r))) = <<>> \o Entries(r)
  BY <1>1, <1>2, <1>3, RefilledEffect
<1>5. <<>> \o Entries(r) = Entries(r)
  BY <1>1
<1> QED  BY <1>4, <1>5

-----------------------------------------------------------------------------
(* A line of different threads stays one.                                  *)

Line(s) == s \in Seq(Tid) /\ \A k, m \in 1 .. Len(s) : s[k] = s[m] => k = m

LEMMA LineAppend ==
  ASSUME NEW s, Line(s), NEW t \in Tid, \A k \in 1 .. Len(s) : s[k] # t
  PROVE  Line(Append(s, t))
<1>1. /\ Append(s, t) \in Seq(Tid) /\ Len(Append(s, t)) = Len(s) + 1 /\ Len(s) \in Nat
      /\ \A k \in 1 .. Len(s) : Append(s, t)[k] = s[k]
      /\ Append(s, t)[Len(s) + 1] = t
  BY DEF Line
<1>2. ASSUME NEW k \in 1 .. Len(s) + 1, NEW m \in 1 .. Len(s) + 1,
             Append(s, t)[k] = Append(s, t)[m]
      PROVE  k = m
  <2>1. (k = Len(s) + 1 \/ k \in 1 .. Len(s)) /\ (m = Len(s) + 1 \/ m \in 1 .. Len(s))
    BY <1>1
  <2> QED  BY <1>1, <1>2, <2>1 DEF Line
<1> QED  BY <1>1, <1>2 DEF Line

LEMMA LinePrepend ==
  ASSUME NEW s, Line(s), NEW t \in Tid, \A k \in 1 .. Len(s) : s[k] # t
  PROVE  Line(<<t>> \o s)
<1> DEFINE z == <<t>> \o s
<1>1. /\ z \in Seq(Tid) /\ Len(z) = Len(s) + 1 /\ Len(s) \in Nat
      /\ z[1] = t /\ \A k \in 1 .. Len(s) : z[k + 1] = s[k]
  BY DEF Line
<1> HIDE DEF z
<1>2. ASSUME NEW k \in 1 .. Len(s) + 1, NEW m \in 1 .. Len(s) + 1, z[k] = z[m]
      PROVE  k = m
  <2>1. /\ k = 1 \/ (k - 1 \in 1 .. Len(s) /\ z[k] = s[k - 1])
        /\ m = 1 \/ (m - 1 \in 1 .. Len(s) /\ z[m] = s[m - 1])
    <3>1. \A j \in 1 .. Len(s) + 1 : j = 1 \/ (j - 1 \in 1 .. Len(s) /\ (j - 1) + 1 = j)
      BY <1>1
    <3> QED  BY <1>1, <3>1
  <2> QED  BY <1>1, <1>2, <2>1 DEF Line
<1>3. Line(z)
  BY <1>1, <1>2 DEF Line
<1> QED  BY <1>3 DEF z

LEMMA RemoveParts ==
  ASSUME NEW S, NEW s \in Seq(S), NEW k \in 1 .. Len(s)
  PROVE  /\ RemoveAt(s, k) \in Seq(S) /\ Len(RemoveAt(s, k)) = Len(s) - 1
         /\ \A j \in 1 .. Len(s) - 1 : RemoveAt(s, k)[j] = IF j < k THEN s[j] ELSE s[j + 1]
<1> DEFINE p == SubSeq(s, 1, k - 1)
           q == SubSeq(s, k + 1, Len(s))
<1>1. Len(s) \in Nat /\ k \in Nat /\ k >= 1 /\ k <= Len(s)
  OBVIOUS
<1>2. p \in Seq(S) /\ Len(p) = k - 1 /\ \A j \in 1 .. k - 1 : p[j] = s[j]
  BY <1>1, SubSeqProperties
<1>3. q \in Seq(S) /\ Len(q) = Len(s) - k /\ \A j \in 1 .. Len(s) - k : q[j] = s[k + j]
  <2>1. /\ q \in Seq(S) /\ Len(q) = IF k + 1 <= Len(s) THEN Len(s) - (k + 1) + 1 ELSE 0
        /\ \A j \in 1 .. Len(s) - (k + 1) + 1 : q[j] = s[(k + 1) + j - 1]
    BY <1>1, SubSeqProperties
  <2> HIDE DEF q
  <2> QED  BY <1>1, <2>1
<1>4. RemoveAt(s, k) = p \o q
  BY DEF RemoveAt
<1> HIDE DEF p, q
<1>5. /\ p \o q \in Seq(S) /\ Len(p \o q) = (k - 1) + (Len(s) - k)
      /\ \A j \in 1 .. (k - 1) + (Len(s) - k) :
           (p \o q)[j] = IF j <= k - 1 THEN p[j] ELSE q[j - (k - 1)]
  <2>1. /\ p \o q \in Seq(S) /\ Len(p \o q) = Len(p) + Len(q)
        /\ \A j \in 1 .. Len(p) + Len(q) :
             (p \o q)[j] = IF j <= Len(p) THEN p[j] ELSE q[j - Len(p)]
    BY <1>2, <1>3, ConcatProperties
  <2> QED  BY <1>2, <1>3, <2>1
<1>6. ASSUME NEW j \in 1 .. Len(s) - 1
      PROVE  (p \o q)[j] = IF j < k THEN s[j] ELSE s[j + 1]
  <2>1. CASE j < k
    BY <1>1, <1>2, <1>5, <2>1
  <2>2. CASE ~ (j < k)
    <3>1. /\ j - (k - 1) \in 1 .. Len(s) - k /\ k + (j - (k - 1)) = j + 1
          /\ ~ (j <= k - 1) /\ j \in 1 .. (k - 1) + (Len(s) - k)
      BY <1>1, <2>2
    <3>2. (p \o q)[j] = q[j - (k - 1)]
      BY <1>5, <3>1
    <3>3. q[j - (k - 1)] = s[k + (j - (k - 1))]
      BY <1>3, <3>1
    <3> QED  BY <2>2, <3>1, <3>2, <3>3
  <2> QED  BY <2>1, <2>2
<1> QED  BY <1>1, <1>4, <1>5, <1>6

LEMMA LineRemove ==
  ASSUME NEW s, Line(s), NEW k \in 1 .. Len(s)
  PROVE  Line(RemoveAt(s, k))
<1> DEFINE z == RemoveAt(s, k)
           Old(j) == IF j < k THEN j ELSE j + 1
<1>1. s \in Seq(Tid) /\ Len(s) \in Nat
  BY DEF Line
<1>2. /\ z \in Seq(Tid) /\ Len(z) = Len(s) - 1
      /\ \A j \in 1 .. Len(s) - 1 : z[j] = s[Old(j)]
  BY <1>1, RemoveParts
<1>3. \A j \in 1 .. Len(s) - 1 : Old(j) \in 1 .. Len(s)
  BY <1>1
<1>4. \A j, m \in 1 .. Len(s) - 1 : Old(j) = Old(m) => j = m
  BY <1>1
<1> HIDE DEF z, Old
<1>5. Line(z)
  BY <1>2, <1>3, <1>4 DEF Line
<1> QED  BY <1>5 DEF z

LEMMA TailRemoves ==
  ASSUME NEW s, Line(s), s # <<>>
  PROVE  Tail(s) = RemoveAt(s, 1) /\ 1 \in 1 .. Len(s)
<1>1. s \in Seq(Tid) /\ Len(s) \in Nat /\ Len(s) > 0
  BY DEF Line
<1>2. /\ RemoveAt(s, 1) \in Seq(Tid) /\ Len(RemoveAt(s, 1)) = Len(s) - 1
      /\ \A j \in 1 .. Len(s) - 1 : RemoveAt(s, 1)[j] = s[j + 1]
  BY <1>1, RemoveParts
<1>3. /\ Tail(s) \in Seq(Tid) /\ Len(Tail(s)) = Len(s) - 1
      /\ \A j \in 1 .. Len(s) - 1 : Tail(s)[j] = s[j + 1]
  BY <1>1
<1>4. Tail(s) = RemoveAt(s, 1)
  BY <1>2, <1>3, SameSequence
<1> QED  BY <1>1, <1>4

LEMMA TidCount == IsFiniteSet(Tid) /\ Cardinality(Tid) = MaxThreads
<1>1. 1 \in Int /\ MaxThreads \in Int /\ MaxThreads >= 1
  BY ReadyQueueAssumption
<1>2. IsFiniteSet(1 .. MaxThreads)
      /\ Cardinality(1 .. MaxThreads) = IF 1 > MaxThreads THEN 0 ELSE MaxThreads - 1 + 1
  BY <1>1, FS_Interval
<1> QED  BY <1>1, <1>2 DEF Tid

-----------------------------------------------------------------------------
(* The ring implements the queue.                                          *)

\* The ring is whole and holds different threads.
IInv == Whole(rq) /\ Line(Entries(rq))

LEMMA QueueEntries ==
  ASSUME IInv
  PROVE  /\ Whole(rq) /\ Line(Entries(rq)) /\ Len(Entries(rq)) = rq.size
         /\ Entries(rq) \in Seq(Tid) /\ rq.size \in Nat /\ rq.size <= MaxThreads
         /\ rq.size = 0 <=> Entries(rq) = <<>>
BY EntryPlaces, RingFields DEF IInv, Line

\* A thread that is not in the queue leaves a place for itself.
LEMMA RoomForOne ==
  ASSUME IInv, NEW t \in Tid, Absent(t)
  PROVE  rq.size < MaxThreads
<1> DEFINE Rest == Tid \ {t}
           n == rq.size
           e == Entries(rq)
<1>1. n \in Nat /\ n <= MaxThreads /\ e \in [1 .. n -> Tid]
  BY QueueEntries
<1>2. \A k \in 1 .. n : e[k] # t
  BY DEF Absent
<1>3. e \in [1 .. n -> Rest]
  BY <1>1, <1>2
<1>4. IsFiniteSet(Rest) /\ Cardinality(Rest) = MaxThreads - 1
  BY TidCount, FS_RemoveElement
<1>5. IsFiniteSet(1 .. n) /\ Cardinality(1 .. n) = n
  BY <1>1, FS_Interval
<1>6. \A j, k \in 1 .. n : e[j] = e[k] => j = k
  BY QueueEntries DEF Line
<1> HIDE DEF Rest, e, n
<1>7. ASSUME Cardinality(Rest) < Cardinality(1 .. n) PROVE FALSE
  <2>1. \E j, k \in 1 .. n : j # k /\ e[j] = e[k]
    BY <1>3, <1>4, <1>5, <1>7, FS_PigeonHole
  <2> QED  BY <1>6, <2>1
<1>8. ~ (MaxThreads - 1 < n)
  BY <1>4, <1>5, <1>7
<1>9. n < MaxThreads
  BY <1>1, <1>8, ReadyQueueAssumption
<1> QED  BY <1>9 DEF n

LEMMA PushMaps ==
  ASSUME IInv, NEW t \in Tid, Push(t)
  PROVE  IInv' /\ Queue!Put(t)
<1>1. rq.size < MaxThreads /\ ~ Full /\ t \in Entry
  BY RoomForOne, QueueEntries, ReadyQueueAssumption DEF Push, Full, Entry
<1>2. rq' = rq_push(rq, t) /\ ret' = TUS_SUCCESS
  BY <1>1 DEF Push
<1>3. Whole(rq') /\ Entries(rq') = Append(Entries(rq), t)
  BY <1>1, <1>2, PushEffect, QueueEntries
<1>4. \A k \in 1 .. Len(Entries(rq)) : Entries(rq)[k] # t
  BY QueueEntries DEF Push, Absent
<1>5. Line(Entries(rq'))
  BY <1>3, <1>4, LineAppend, QueueEntries
<1> QED  BY <1>2, <1>3, <1>4, <1>5 DEF IInv, Queue!Put, Queue!Waits, Queue!SUCCESS, TUS_SUCCESS

LEMMA PushFrontMaps ==
  ASSUME IInv, NEW t \in Tid, PushFront(t)
  PROVE  IInv' /\ Queue!PutFirst(t)
<1>1. rq.size < MaxThreads /\ ~ Full /\ t \in Entry
  BY RoomForOne, QueueEntries, ReadyQueueAssumption DEF PushFront, Full, Entry
<1>2. rq' = rq_push_front(rq, t) /\ ret' = TUS_SUCCESS
  BY <1>1 DEF PushFront
<1>3. Whole(rq') /\ Entries(rq') = <<t>> \o Entries(rq)
  BY <1>1, <1>2, PushFrontEffect, QueueEntries
<1>4. \A k \in 1 .. Len(Entries(rq)) : Entries(rq)[k] # t
  BY QueueEntries DEF PushFront, Absent
<1>5. Line(Entries(rq'))
  BY <1>3, <1>4, LinePrepend, QueueEntries
<1> QED  BY <1>2, <1>3, <1>4, <1>5
         DEF IInv, Queue!PutFirst, Queue!Waits, Queue!SUCCESS, TUS_SUCCESS

LEMMA PopMaps ==
  ASSUME IInv, Pop
  PROVE  IInv' /\ (Queue!Fail \/ Queue!TakeFirst)
<1>1. CASE rq.size = 0
  <2>1. rq' = rq /\ ret' = TUS_ERROR /\ Entries(rq) = <<>>
    BY <1>1, QueueEntries DEF Pop, rq_pop
  <2> QED  BY <2>1 DEF IInv, Queue!Fail, Queue!ERROR, TUS_ERROR
<1>2. CASE rq.size # 0
  <2>1. rq' = rq_pop(rq) /\ ret' = rq.ready_q[rq.head]
    BY <1>2 DEF Pop
  <2>2. /\ Whole(rq') /\ Entries(rq) # <<>> /\ Entries(rq') = Tail(Entries(rq))
        /\ ret' = Head(Entries(rq))
    BY <1>2, <2>1, PopEffect, QueueEntries
  <2>3. Line(Entries(rq'))
    BY <2>2, TailRemoves, LineRemove, QueueEntries
  <2> QED  BY <2>2, <2>3 DEF IInv, Queue!TakeFirst
<1> QED  BY <1>1, <1>2

LEMMA WithoutMaps ==
  ASSUME IInv, NEW k \in 1 .. rq.size, rq' = Without(rq, k)
  PROVE  /\ IInv' /\ k \in 1 .. Len(Entries(rq))
         /\ Entries(rq') = Queue!RemoveAt(Entries(rq), k)
<1>1. Whole(rq') /\ Entries(rq') = RemoveAt(Entries(rq), k)
  BY WithoutEffect, QueueEntries
<1>2. k \in 1 .. Len(Entries(rq))
  BY QueueEntries
<1>3. Line(Entries(rq'))
  BY <1>1, <1>2, LineRemove, QueueEntries
<1>4. Queue!RemoveAt(Entries(rq), k) = RemoveAt(Entries(rq), k)
  BY DEF RemoveAt, Queue!RemoveAt
<1> QED  BY <1>1, <1>2, <1>3, <1>4 DEF IInv

LEMMA RemoveMaps ==
  ASSUME IInv, NEW t \in Tid, rq_remove_tid(t)
  PROVE  IInv' /\ (Queue!Drop(t) \/ Queue!FailToDrop(t))
<1>1. CASE Absent(t)
  <2>1. rq' = Refilled(Drained(rq), Entries(rq)) /\ ret' = TUS_ERROR
    BY <1>1 DEF rq_remove_tid
  <2>2. Whole(rq') /\ Entries(rq') = Entries(rq)
    BY <2>1, ReplacedEffect, QueueEntries
  <2>3. \A k \in 1 .. Len(Entries(rq)) : Entries(rq)[k] # t
    BY <1>1, QueueEntries DEF Absent
  <2>4. Line(Entries(rq'))
    BY <2>2, QueueEntries
  <2> QED  BY <2>1, <2>2, <2>3, <2>4
           DEF IInv, Queue!FailToDrop, Queue!Waits, Queue!ERROR, TUS_ERROR
<1>2. CASE ~ Absent(t)
  <2>1. PICK k \in 1 .. rq.size : Entries(rq)[k] = t /\ rq' = Without(rq, k)
    BY <1>2 DEF rq_remove_tid
  <2>2. ret' = TUS_SUCCESS
    BY <1>2 DEF rq_remove_tid
  <2>3. /\ IInv' /\ k \in 1 .. Len(Entries(rq))
        /\ Entries(rq') = Queue!RemoveAt(Entries(rq), k)
    BY <2>1, WithoutMaps
  <2> QED  BY <2>1, <2>2, <2>3 DEF Queue!Drop, Queue!SUCCESS, TUS_SUCCESS
<1> QED  BY <1>1, <1>2

LEMMA PickMaps ==
  ASSUME IInv, PickRandom
  PROVE  IInv' /\ Queue!TakeAny
<1>1. PICK k \in 1 .. rq.size : rq' = Without(rq, k) /\ ret' = Entries(rq)[k]
  BY DEF PickRandom
<1>2. /\ IInv' /\ k \in 1 .. Len(Entries(rq))
      /\ Entries(rq') = Queue!RemoveAt(Entries(rq), k)
  BY <1>1, WithoutMaps
<1> QED  BY <1>1, <1>2 DEF Queue!TakeAny

\* Each operation keeps the invariant and is a step of the queue.
LEMMA StepMaps ==
  ASSUME IInv, [Next]_vars
  PROVE  IInv' /\ [Queue!Next]_(Queue!vars)
<1>1. CASE Pop
  BY <1>1, PopMaps DEF Queue!Next
<1>2. CASE PickRandom
  BY <1>2, PickMaps DEF Queue!Next
<1>3. ASSUME NEW t \in Tid, Push(t) PROVE IInv' /\ Queue!Next
  BY <1>3, PushMaps DEF Queue!Next
<1>4. ASSUME NEW t \in Tid, PushFront(t) PROVE IInv' /\ Queue!Next
  BY <1>4, PushFrontMaps DEF Queue!Next
<1>5. ASSUME NEW t \in Tid, rq_remove_tid(t) PROVE IInv' /\ Queue!Next
  BY <1>5, RemoveMaps DEF Queue!Next
<1>6. CASE UNCHANGED vars
  BY <1>6 DEF vars, IInv, Queue!vars
<1> QED  BY <1>1, <1>2, <1>3, <1>4, <1>5, <1>6 DEF Next

LEMMA EmptyRing == Whole(Empty) /\ Entries(Empty) = <<>>
<1>1. MaxThreads \in Nat /\ MaxThreads > 0
  BY ReadyQueueAssumption
<1> DEFINE q == [c \in Cell |-> 0]
<1>2. q \in [Cell -> Entry]
  BY DEF Entry
<1>3. Whole([ready_q |-> q, head |-> 0, tail |-> 0, size |-> 0])
  <2> HIDE DEF q
  <2> QED  BY <1>1, <1>2, MakeWhole
<1>4. Whole(Empty) /\ Empty.size = 0
  BY <1>3 DEF Empty
<1> QED  BY <1>4, NoEntries

LEMMA InitMaps ==
  ASSUME Init
  PROVE  IInv /\ Queue!Init
<1>1. Whole(rq) /\ Entries(rq) = <<>>
  BY EmptyRing DEF Init
<1>2. Line(<<>>)
  BY DEF Line
<1> QED  BY <1>1, <1>2 DEF Init, IInv, Queue!Init, Queue!SUCCESS, TUS_SUCCESS

LEMMA Kept == Spec => []IInv
<1>1. Init => IInv
  BY InitMaps
<1>2. IInv /\ [Next]_vars => IInv'
  BY StepMaps
<1> QED  BY <1>1, <1>2, PTL DEF Spec

\* tus.c ready_q: head, tail and size stay in the ring and agree with each other, for
\* every number of cells and however often the queue has gone round.
THEOREM TypeCorrect == Spec => []TypeOK
<1>1. IInv => TypeOK
  BY DEF IInv, Whole, TypeOK
<1> QED  BY <1>1, Kept, PTL

\* tus.c rq_push: a thread that is not in the queue always finds a free cell in it, as
\* there are as many cells as thread ids.
THEOREM NeverRefused == Spec => [](\A t \in Tid : Absent(t) => ~ Full)
<1>1. IInv => \A t \in Tid : Absent(t) => ~ Full
  BY RoomForOne, QueueEntries, ReadyQueueAssumption DEF Full
<1> QED  BY <1>1, Kept, PTL

\* tus.c rq_push, rq_push_front, rq_pop, rq_remove_tid and the random choice: on the
\* ring each does, and returns, what it should do to a line of different threads.
THEOREM Refinement == Spec => ImplementsFifo
<1>1. Init => Queue!Init
  BY InitMaps
<1>2. IInv /\ [Next]_vars => [Queue!Next]_(Queue!vars)
  BY StepMaps
<1> QED  BY <1>1, <1>2, Kept, PTL DEF Spec, ImplementsFifo, Queue!Spec
=============================================================================
