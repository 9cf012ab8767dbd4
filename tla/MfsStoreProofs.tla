--------------------------- MODULE MfsStoreProofs ---------------------------
(***************************************************************************)
(* With one FUSE thread the file system is a store of named files (Files): *)
(* every access of a handler is a step of the store or changes nothing of  *)
(* what its user sees, and a kill changes no file.                         *)
(***************************************************************************)
EXTENDS MfsProofs

-----------------------------------------------------------------------------
(* The store that a disk holds.                                            *)

\* The unit at position p, from 0, of the blocks that idx lists.
UnitAt(d, idx, p) == d.block[idx[p \div BlockSize + 1]][(p % BlockSize) + 1]

IndexIn(d, s) ==
  IF Node(d, s).index_block = 0 THEN Zeros(IndexSize) ELSE d.block[Node(d, s).index_block]

Text(d, s) == [k \in 1 .. Node(d, s).size |-> UnitAt(d, IndexIn(d, s), k - 1)]

Names(d) == {d.root[s].name : s \in FilesOf(d)}
SlotOf(d, n) == CHOOSE s \in FilesOf(d) : d.root[s].name = n
StoreOf(d) == [n \in Names(d) |-> Text(d, SlotOf(d, n))]

LEMMA StoredIs == Stored = StoreOf(disk)
BY DEF Stored, StoreOf, Names, SlotOf, EntryOf, Listed, FilesOf, Text, Contents, UnitAt, IndexIn,
       IndexOf, InodeOf, Node

LEMMA StoredNext == Stored' = StoreOf(disk')
BY DEF Stored, StoreOf, Names, SlotOf, EntryOf, Listed, FilesOf, Text, Contents, UnitAt, IndexIn,
       IndexOf, InodeOf, Node

LEMMA InStore ==
  ASSUME NEW d, Named(d), NEW s \in FilesOf(d)
  PROVE  /\ d.root[s].name \in DOMAIN StoreOf(d)
         /\ StoreOf(d)[d.root[s].name] = Text(d, s)
<1> DEFINE n == d.root[s].name
<1>1. n \in Names(d)
  BY DEF Names
<1>2. SlotOf(d, n) \in FilesOf(d) /\ d.root[SlotOf(d, n)].name = n
  BY DEF SlotOf
<1>3. SlotOf(d, n) = s
  BY <1>2 DEF Named
<1> QED  BY <1>1, <1>3 DEF StoreOf

LEMMA StoreDomain ==
  ASSUME NEW d
  PROVE  DOMAIN StoreOf(d) = Names(d)
BY DEF StoreOf

LEMMA SameStore ==
  ASSUME NEW d, NEW e, FilesOf(e) = FilesOf(d), e.root = d.root,
         \A s \in FilesOf(d) : Text(e, s) = Text(d, s)
  PROVE  StoreOf(e) = StoreOf(d)
<1>1. Names(e) = Names(d) /\ \A n : SlotOf(e, n) = SlotOf(d, n)
  BY DEF Names, SlotOf
<1>2. ASSUME NEW n \in Names(d) PROVE SlotOf(d, n) \in FilesOf(d)
  BY DEF Names, SlotOf
<1>3. \A n \in Names(d) : Text(e, SlotOf(e, n)) = Text(d, SlotOf(d, n))
  BY <1>1, <1>2
<1> HIDE DEF Names, SlotOf
<1> QED  BY <1>1, <1>3 DEF StoreOf

\* Where a unit of a file is.
LEMMA UnitOfFile ==
  ASSUME NEW d, NEW x, Sound(d, x), NEW s \in FilesOf(d), NEW k \in 1 .. Node(d, s).size
  PROVE  LET p == (k - 1) \div BlockSize + 1
         IN  /\ p \in 1 .. IndexSize /\ p \in Place \ {0}
             /\ Blk(d, s, p) # 0 /\ IndexIn(d, s)[p] = Blk(d, s, p)
             /\ d.block[Blk(d, s, p)] \in DataBlock
             /\ ((k - 1) % BlockSize) + 1 \in 1 .. BlockSize
<1> DEFINE p == (k - 1) \div BlockSize + 1
           idx == [l \in 1 .. IndexSize |-> Blk(d, s, l)]
<1>1. Node(d, s).size \in Nat /\ Node(d, s) \in mfs_inode
  BY DiskFields, NodeFields DEF Sound
<1>2. k - 1 \in Nat /\ k - 1 < Node(d, s).size
  BY <1>1
<1>3. Mapped(IndexSize, idx, Node(d, s).size)
  BY DEF Sound, Sized
<1>4. p \in 1 .. IndexSize /\ idx[p] # 0
  <2> HIDE DEF idx
  <2> QED  BY <1>1, <1>2, <1>3, BlockOfPosition, SizesNat
<1>5. (k - 1) % BlockSize \in Nat /\ (k - 1) % BlockSize < BlockSize
  BY <1>2, InBlock
<1> HIDE DEF p
<1>6. p \in Place \ {0} /\ Blk(d, s, p) # 0
  BY <1>4, SizesNat DEF Place
<1>7. IndexIn(d, s)[p] = Blk(d, s, p)
  BY <1>4, <1>6 DEF Blk, IndexIn, Place
<1>8. d.block[Blk(d, s, p)] \in DataBlock
  BY <1>6 DEF Sound, Filled
<1>9. ((k - 1) % BlockSize) + 1 \in 1 .. BlockSize
  BY <1>5, SizesNat
<1> QED  BY <1>4, <1>6, <1>7, <1>8, <1>9 DEF p

LEMMA TextIsSeq ==
  ASSUME NEW d, NEW x, Sound(d, x), NEW s \in FilesOf(d)
  PROVE  /\ Text(d, s) \in Seq(Unit \cup {0}) /\ Len(Text(d, s)) = Node(d, s).size
         /\ Node(d, s).size \in Nat
<1>1. Node(d, s).size \in Nat
  BY DiskFields, NodeFields DEF Sound
<1>2. ASSUME NEW k \in 1 .. Node(d, s).size PROVE UnitAt(d, IndexIn(d, s), k - 1) \in Unit \cup {0}
  <2> DEFINE p == (k - 1) \div BlockSize + 1
             q == ((k - 1) % BlockSize) + 1
  <2>1. d.block[IndexIn(d, s)[p]] \in DataBlock /\ q \in 1 .. BlockSize
    BY UnitOfFile
  <2> HIDE DEF p, q
  <2>2. d.block[IndexIn(d, s)[p]][q] \in Unit \cup {0}
    BY <2>1 DEF DataBlock
  <2> QED  BY <2>2 DEF UnitAt, p, q
<1> QED  BY <1>1, <1>2 DEF Text

\* A file whose blocks stay has the same contents.
LEMMA SameText ==
  ASSUME NEW d, NEW x, Sound(d, x), NEW e, NEW s \in FilesOf(d), Node(e, s).size = Node(d, s).size,
         \A k \in Place \ {0} : Blk(d, s, k) # 0 =>
           IndexIn(e, s)[k] = Blk(d, s, k) /\ e.block[Blk(d, s, k)] = d.block[Blk(d, s, k)]
  PROVE  Text(e, s) = Text(d, s)
<1>1. ASSUME NEW k \in 1 .. Node(d, s).size
      PROVE  UnitAt(e, IndexIn(e, s), k - 1) = UnitAt(d, IndexIn(d, s), k - 1)
  BY UnitOfFile DEF UnitAt
<1> QED  BY <1>1 DEF Text

-----------------------------------------------------------------------------
(* The handlers: what each has done of its request.                        *)

\* The file found is the one asked for.
Asked(d, c) == d.root[c.slot].name = c.request.name

UnlinkServes(d, c) ==
  /\ c.at \in {"root_get", "inode_get", "index_get", "free_get", "free_put", "root_put"} => Asked(d, c)
  /\ c.at \in {"table_get", "table_put", "imap_get", "imap_put"} => c.request.name \notin Names(d)

\* What mfs_read has fetched.
Fetched(d, c) ==
  /\ Len(c.out) = c.bytes
  /\ \A k \in 1 .. c.bytes : c.out[k] = UnitAt(d, c.idx_data, c.request.offset + k - 1)

ReadServes(d, c) ==
  /\ c.at # "find" => Asked(d, c)
  /\ c.at = "data_get" => Fetched(d, c)
  /\ c.at # "data_get" => c.out = <<>>

\* What mfs_write has copied to its blocks, behind the old end of the file.
Copied(d, c) ==
  /\ Node(d, c.slot).size = c.request.offset
  /\ \A k \in 1 .. c.bytes : UnitAt(d, c.idx_data, c.request.offset + k - 1) = c.request.buf[k]

\* Why nothing was written.
Excused(c) == c.bytes = 0 => c.rc \in {"ENOSPC", "EFBIG"}

WriteServes(d, c) ==
  /\ c.at # "find" => Asked(d, c)
  /\ Midway(c) => Copied(d, c)
  /\ c.at = "data_put" /\ ~ c.newly_allocated => c.blk_buf = d.block[c.data_blk]
  /\ c.at \in {"index_put", "table_get", "table_put"} => Excused(c)

Serves(d, c) ==
  CASE c.request.op = "unlink" -> UnlinkServes(d, c)
    [] c.request.op = "read" -> ReadServes(d, c)
    [] c.request.op = "write" -> WriteServes(d, c)
    [] c.request.op = "getattr" -> c.at # "find" => Asked(d, c)
    [] OTHER -> TRUE

Serving(t) == call[t] # Idle => Serves(disk, call[t])

-----------------------------------------------------------------------------
(* Steps.                                                                  *)

Requests == {call[t].request : t \in Busy}
StoreStep == [Store!Next]_(Store!vars)

\* What an access must do: the handler has served what it should have, and the store has made a step.
Served(t) == Serving(t)' /\ StoreStep

LEMMA Unseen ==
  ASSUME StoreOf(disk') = StoreOf(disk), Requests' = Requests, UNCHANGED last
  PROVE  StoreStep
BY StoredIs, StoredNext DEF StoreStep, Store!vars, Requests

\* A thread that is alone: what is asked for.
LEMMA AtWork ==
  ASSUME NEW t, Thread = {t}, IInv
  PROVE  /\ call[t] # Idle => Requests = {call[t].request} /\ Busy = {t}
         /\ call[t] = Idle => Requests = {} /\ Busy = {}
<1>1. call[t] \in CallType \cup {Idle}
  BY DEF IInv
<1>2. call[t] = Idle <=> At(t, "idle")
  BY <1>1 DEF CallType, NextAccess, Idle, At
<1> QED  BY <1>2 DEF Requests, Busy

LEMMA NextAtWork ==
  ASSUME NEW t, Thread = {t}, IInv'
  PROVE  /\ call'[t] # Idle => Requests' = {call'[t].request}
         /\ call'[t] = Idle => Requests' = {}
<1>1. call'[t] \in CallType \cup {Idle}
  BY DEF IInv
<1>2. call'[t] = Idle <=> At(t, "idle")'
  BY <1>1 DEF CallType, NextAccess, Idle, At
<1> QED  BY <1>2 DEF Requests, Busy

\* A handler that goes on, as c, with the files as they are.
LEMMA GoesOnUnseen ==
  ASSUME NEW t, Thread = {t}, IInv, IInv', call[t] # Idle, NEW c, Goto(t, c),
         c.at \in NextAccess, c.request = call[t].request, Serves(disk', c),
         StoreOf(disk') = StoreOf(disk)
  PROVE  Served(t)
<1>1. c.at # "return" /\ c # Idle
  BY DEF NextAccess, Idle
<1>2. call' = [call EXCEPT ![t] = c] /\ last' = last
  BY <1>1 DEF Goto
<1>3. call'[t] = c
  BY <1>2 DEF IInv
<1>4. Requests' = {c.request} /\ Requests = {call[t].request}
  BY <1>1, <1>3, AtWork, NextAtWork
<1>5. StoreStep
  BY <1>2, <1>4, Unseen
<1>6. Serving(t)'
  BY <1>3 DEF Serving
<1> QED  BY <1>5, <1>6 DEF Served

\* A handler that returns, as c.
Answered(r, a) ==
  r \in Requests /\ Requests' = Requests \ {r} /\ last' = [request |-> r, answer |-> a]

LEMMA ReturnsAnswer ==
  ASSUME NEW t, Thread = {t}, IInv, IInv', call[t] # Idle, NEW c, Goto(t, c),
         c.at = "return", c.request = call[t].request
  PROVE  Serving(t)' /\ Answered(call[t].request, c.rc)
<1>1. call' = [call EXCEPT ![t] = Idle] /\ last' = [request |-> c.request, answer |-> c.rc]
  BY DEF Goto
<1>2. call'[t] = Idle
  BY <1>1 DEF IInv
<1>3. Requests' = {} /\ Requests = {call[t].request}
  BY <1>2, AtWork, NextAtWork
<1> QED  BY <1>1, <1>2, <1>3 DEF Serving, Answered

LEMMA ReturnFields ==
  ASSUME NEW c \in CallType, NEW a
  PROVE  /\ Return(c, a).at = "return" /\ Return(c, a).rc = a
         /\ Return(c, a).request = c.request
BY DEF Return, CallType

LEMMA AccessFields ==
  ASSUME NEW c \in CallType
  PROVE  /\ c.at \in NextAccess /\ c.at # "return" /\ c.at # "idle" /\ c # Idle
         /\ c.request \in Request
         /\ c.request.op \in {"readdir", "create", "unlink", "getattr", "read", "write"}
BY CallFields, RequestFields DEF NextAccess, Idle

\* The steps of the store, for its states as the disk and the calls give them.
LEMMA StepReaddir ==
  ASSUME NEW r, r.op = "readdir", StoreOf(disk') = StoreOf(disk), Answered(r, Names(disk))
  PROVE  StoreStep
<1>1. Stored' = Stored /\ DOMAIN Stored = Names(disk)
  BY StoredIs, StoredNext, StoreDomain
<1>2. Store!Readdir(r) /\ r \in {call[t].request : t \in Busy}
  BY <1>1 DEF Store!Readdir, Store!Answer, Answered, Requests
<1> QED  BY <1>2 DEF StoreStep, Store!Next

LEMMA StepAbsent ==
  ASSUME NEW r, r.op \notin {"readdir", "create"}, r.name \notin Names(disk),
         StoreOf(disk') = StoreOf(disk), Answered(r, "ENOENT")
  PROVE  StoreStep
<1>1. Stored' = Stored /\ DOMAIN Stored = Names(disk)
  BY StoredIs, StoredNext, StoreDomain
<1>2. Store!Absent(r) /\ r \in {call[t].request : t \in Busy}
  BY <1>1 DEF Store!Absent, Store!Answer, Answered, Requests
<1> QED  BY <1>2 DEF StoreStep, Store!Next

LEMMA StepNotCreated ==
  ASSUME NEW r, r.op = "create", StoreOf(disk') = StoreOf(disk),
         NEW a, Answered(r, a),
         IF r.name \in Names(disk) THEN a = "EEXIST" ELSE a = "ENOSPC"
  PROVE  StoreStep
<1>1. Stored' = Stored /\ DOMAIN Stored = Names(disk)
  BY StoredIs, StoredNext, StoreDomain
<1>2. Store!Create(r) /\ r \in {call[t].request : t \in Busy}
  BY <1>1 DEF Store!Create, Store!Answer, Answered, Requests
<1> QED  BY <1>2 DEF StoreStep, Store!Next

LEMMA StepCreated ==
  ASSUME NEW r, r.op = "create", r.name \notin Names(disk),
         StoreOf(disk') = [m \in Names(disk) \cup {r.name} |->
                             IF m = r.name THEN <<>> ELSE StoreOf(disk)[m]],
         Answered(r, "OK")
  PROVE  StoreStep
<1>1. /\ DOMAIN Stored = Names(disk)
      /\ Stored' = [m \in DOMAIN Stored \cup {r.name} |-> IF m = r.name THEN <<>> ELSE Stored[m]]
  BY StoredIs, StoredNext, StoreDomain
<1>2. Store!Create(r) /\ r \in {call[t].request : t \in Busy}
  BY <1>1 DEF Store!Create, Store!Answer, Answered, Requests
<1> QED  BY <1>2 DEF StoreStep, Store!Next

LEMMA StepRemoved ==
  ASSUME NEW r \in Requests, r.op = "unlink", r.name \in Names(disk),
         StoreOf(disk') = [m \in Names(disk) \ {r.name} |-> StoreOf(disk)[m]],
         Requests' = Requests, UNCHANGED last
  PROVE  StoreStep
<1>1. /\ DOMAIN Stored = Names(disk)
      /\ Stored' = [m \in DOMAIN Stored \ {r.name} |-> Stored[m]]
  BY StoredIs, StoredNext, StoreDomain
<1>2. Store!Remove(r) /\ r \in {call[t].request : t \in Busy}
  BY <1>1 DEF Store!Remove, Requests
<1> QED  BY <1>2 DEF StoreStep, Store!Next

LEMMA StepUnlinked ==
  ASSUME NEW r, r.op = "unlink", r.name \notin Names(disk), StoreOf(disk') = StoreOf(disk),
         Answered(r, "OK")
  PROVE  StoreStep
<1>1. Stored' = Stored /\ DOMAIN Stored = Names(disk)
  BY StoredIs, StoredNext, StoreDomain
<1>2. Store!Unlink(r) /\ r \in {call[t].request : t \in Busy}
  BY <1>1 DEF Store!Unlink, Store!Answer, Answered, Requests
<1> QED  BY <1>2 DEF StoreStep, Store!Next

\* The requests about a file that was found.
LEMMA StepGetattr ==
  ASSUME NEW r, r.op = "getattr", NEW s \in FilesOf(disk), disk.root[s].name = r.name,
         NEW x, Sound(disk, x), StoreOf(disk') = StoreOf(disk),
         Answered(r, Node(disk, s).size)
  PROVE  StoreStep
<1>1. /\ Stored' = Stored /\ r.name \in DOMAIN Stored /\ Stored[r.name] = Text(disk, s)
      /\ Len(Text(disk, s)) = Node(disk, s).size
  BY StoredIs, StoredNext, InStore, TextIsSeq DEF Sound
<1>2. Store!Getattr(r) /\ r \in {call[t].request : t \in Busy}
  BY <1>1 DEF Store!Getattr, Store!Answer, Answered, Requests
<1> QED  BY <1>1, <1>2 DEF StoreStep, Store!Next

LEMMA StepRead ==
  ASSUME NEW r, r.op = "read", NEW s \in FilesOf(disk), disk.root[s].name = r.name,
         NEW x, Sound(disk, x), StoreOf(disk') = StoreOf(disk),
         NEW a, a = SubSeq(Text(disk, s), r.offset + 1,
                           Min({r.offset + r.size, Node(disk, s).size})),
         Answered(r, a)
  PROVE  StoreStep
<1>1. /\ Stored' = Stored /\ r.name \in DOMAIN Stored /\ Stored[r.name] = Text(disk, s)
      /\ Len(Text(disk, s)) = Node(disk, s).size
  BY StoredIs, StoredNext, InStore, TextIsSeq DEF Sound
<1>2. a = Store!Extract(Stored[r.name], r.offset, r.size)
  BY <1>1 DEF Store!Extract, Min, Store!Min
<1>3. Store!Read(r) /\ r \in {call[t].request : t \in Busy}
  BY <1>1, <1>2 DEF Store!Read, Store!Answer, Answered, Requests
<1> QED  BY <1>1, <1>3 DEF StoreStep, Store!Next

LEMMA StepNotWritten ==
  ASSUME NEW r, r.op = "write", NEW s \in FilesOf(disk), disk.root[s].name = r.name,
         NEW x, Sound(disk, x), StoreOf(disk') = StoreOf(disk), NEW a, Answered(r, a),
         IF r.offset = Node(disk, s).size THEN a \in {"ENOSPC", "EFBIG"} ELSE a = "EOPNOTSUPP"
  PROVE  StoreStep
<1>1. /\ Stored' = Stored /\ r.name \in DOMAIN Stored /\ Stored[r.name] = Text(disk, s)
      /\ Len(Text(disk, s)) = Node(disk, s).size
  BY StoredIs, StoredNext, InStore, TextIsSeq DEF Sound
<1>2. Store!Write(r) /\ r \in {call[t].request : t \in Busy}
  BY <1>1 DEF Store!Write, Store!Answer, Answered, Requests
<1> QED  BY <1>1, <1>2 DEF StoreStep, Store!Next

LEMMA StepWritten ==
  ASSUME NEW r, r.op = "write", NEW s \in FilesOf(disk), disk.root[s].name = r.name,
         NEW x, Sound(disk, x), r.offset = Node(disk, s).size, NEW k \in 1 .. Len(r.buf),
         StoreOf(disk') = [StoreOf(disk) EXCEPT ![r.name] = Text(disk, s) \o SubSeq(r.buf, 1, k)],
         Answered(r, k)
  PROVE  StoreStep
<1>3. /\ r.name \in DOMAIN Stored /\ Stored[r.name] = Text(disk, s)
      /\ Len(Text(disk, s)) = Node(disk, s).size
  BY StoredIs, InStore, TextIsSeq DEF Sound
<1>4. Stored' = [Stored EXCEPT ![r.name] = Text(disk, s) \o SubSeq(r.buf, 1, k)]
  BY StoredIs, StoredNext
<1>1. /\ r.name \in DOMAIN Stored /\ Stored[r.name] = Text(disk, s)
      /\ Len(Text(disk, s)) = Node(disk, s).size
      /\ Stored' = [Stored EXCEPT ![r.name] = Stored[r.name] \o SubSeq(r.buf, 1, k)]
  BY <1>3, <1>4
<1>2. Store!Write(r) /\ r \in {call[t].request : t \in Busy}
  BY <1>1 DEF Store!Write, Store!Answer, Answered, Requests
<1> QED  BY <1>1, <1>2 DEF StoreStep, Store!Next

-----------------------------------------------------------------------------
(* Access by access: requests come, and what is found.                     *)

LEMMA EnterServes ==
  ASSUME NEW t, Thread = {t}, IInv, IInv', Enter(t)
  PROVE  Served(t)
<1>1. call[t] = Idle
  BY DEF Enter, At, IInv, CallType, NextAccess
<1>2. PICK r \in Request : call' = [call EXCEPT ![t] = Locals(r)]
  BY DEF Enter
<1>3. disk' = disk /\ last' = None
  BY DEF Enter
<1>4. call'[t] = Locals(r)
  BY <1>2 DEF IInv
<1>5. /\ Locals(r).request = r /\ Locals(r).at \in {"list", "find"} /\ Locals(r).out = <<>>
      /\ r.op # "readdir" => Locals(r).at = "find"
  BY DEF Locals
<1>6. Serves(disk, Locals(r))
  BY <1>5 DEF Serves, UnlinkServes, ReadServes, WriteServes, Midway
<1>7. Serving(t)'
  BY <1>3, <1>4, <1>6 DEF Serving
<1>8. Locals(r) # Idle
  BY <1>5 DEF Idle
<1>9. Requests = {} /\ Requests' = {r}
  BY <1>1, <1>4, <1>5, <1>8, AtWork, NextAtWork
<1>10. Stored' = Stored
  BY <1>3, StoredIs, StoredNext
<1>11. Store!Ask(r)
  BY <1>3, <1>9, <1>10 DEF Store!Ask, Requests
<1> QED  BY <1>7, <1>11 DEF Served, StoreStep, Store!Next

LEMMA CrashServes ==
  ASSUME NEW t, Thread = {t}, IInv', Crash
  PROVE  Served(t)
<1>1. call'[t] = Idle /\ disk' = disk /\ last' = None
  BY DEF Crash
<1>2. Requests' = {}
  BY <1>1, NextAtWork
<1>3. Stored' = Stored
  BY <1>1, StoredIs, StoredNext
<1>4. Store!Crash
  BY <1>1, <1>2, <1>3 DEF Store!Crash, Requests
<1> QED  BY <1>1, <1>4 DEF Served, StoreStep, Store!Next, Serving

LEMMA ListRootServes ==
  ASSUME NEW t, Thread = {t}, IInv, IInv', ListRoot(t)
  PROVE  Served(t)
<1> DEFINE c == call[t]
           a == {disk.root[s].name : s \in {z \in Slot : disk.root[z] # None}}
           e == Return(c, a)
<1>1. At(t, "list") /\ Goto(t, e) /\ disk' = disk
  BY DEF ListRoot, Get
<1>2. /\ c \in CallType /\ c.at = "list" /\ Knows(disk, c) /\ c # Idle
      /\ c.request.op \in {"readdir", "create", "unlink", "getattr", "read", "write"}
  BY <1>1, DueWhole, AccessFields
<1>3. c.request.op = "readdir"
  BY <1>2 DEF Knows, CreateKnows, UnlinkKnows, ReadKnows, WriteKnows
<1>4. e.at = "return" /\ e.rc = a /\ e.request = c.request
  BY <1>2, ReturnFields
<1>5. a = Names(disk)
  BY DEF Names, FilesOf
<1> HIDE DEF e, a
<1>6. Serving(t)' /\ Answered(c.request, e.rc)
  BY <1>1, <1>2, <1>4, ReturnsAnswer
<1>7. StoreStep
  BY <1>1, <1>3, <1>4, <1>5, <1>6, StepReaddir
<1> QED  BY <1>6, <1>7 DEF Served

LEMMA FindEntryServes ==
  ASSUME NEW t, Thread = {t}, IInv, IInv', Serving(t), FindEntry(t)
  PROVE  Served(t)
<1> DEFINE c == call[t]
           hits == {s \in Slot : disk.root[s] # None /\ disk.root[s].name = c.request.name}
           s == Min(hits)
           f == [c EXCEPT !.at = "root_get"]
           e == [c EXCEPT !.slot = s, !.inode_no = disk.root[s].inode_no,
                          !.at = IF Op(t) = "unlink" THEN "root_get" ELSE "inode_get"]
<1>1. At(t, "find") /\ disk' = disk
  BY DEF FindEntry, Get
<1>2. /\ c \in CallType /\ c.at = "find" /\ Knows(disk, c) /\ c # Idle
      /\ c.request.op \in {"readdir", "create", "unlink", "getattr", "read", "write"}
  BY <1>1, DueWhole, AccessFields
<1>3. /\ c.request.op # "readdir" /\ Serves(disk, c)
  BY <1>2 DEF Knows, Serving
<1>4. hits = {} <=> c.request.name \notin Names(disk)
  BY DEF Names, FilesOf
<1>5. CASE Op(t) = "create" /\ hits = {} /\ Get(t, f)
  <2>1. f.at = "root_get" /\ f.request = c.request
    BY <1>2 DEF CallType
  <2> HIDE DEF f
  <2>2. Goto(t, f) /\ f.at \in NextAccess /\ Serves(disk', f)
    BY <1>5, <2>1 DEF Get, NextAccess, Serves, Op
  <2> QED  BY <1>1, <1>2, <2>1, <2>2, GoesOnUnseen
<1>6. CASE Op(t) = "create" /\ hits # {} /\ Get(t, Return(c, "EEXIST"))
  <2>1. Serving(t)' /\ Answered(c.request, "EEXIST")
    BY <1>2, <1>6, ReturnFields, ReturnsAnswer DEF Get
  <2>2. StoreStep
    BY <1>1, <1>4, <1>6, <2>1, StepNotCreated DEF Op
  <2> QED  BY <2>1, <2>2 DEF Served
<1>7. CASE Op(t) # "create" /\ hits = {} /\ Get(t, Return(c, "ENOENT"))
  <2>1. Serving(t)' /\ Answered(c.request, "ENOENT")
    BY <1>2, <1>7, ReturnFields, ReturnsAnswer DEF Get
  <2>2. StoreStep
    BY <1>1, <1>3, <1>4, <1>7, <2>1, StepAbsent DEF Op
  <2> QED  BY <2>1, <2>2 DEF Served
<1>8. CASE Op(t) # "create" /\ hits # {} /\ Get(t, e)
  <2>1. s \in hits
    <3>1. hits \in SUBSET Nat
      BY SizesNat DEF Slot
    <3> HIDE DEF hits
    <3> QED  BY <1>8, <3>1, MinIn
  <2>2. disk.root[s].name = c.request.name
    BY <2>1
  <2> HIDE DEF s, hits
  <2>3. /\ e.at = (IF Op(t) = "unlink" THEN "root_get" ELSE "inode_get")
        /\ e.request = c.request /\ e.slot = s /\ e.out = c.out
    BY <1>2 DEF CallType
  <2> HIDE DEF e
  <2>4. Asked(disk, e)
    BY <2>2, <2>3 DEF Asked
  <2>5. Serves(disk, e)
    BY <1>2, <1>3, <1>8, <2>3, <2>4
       DEF Serves, UnlinkServes, ReadServes, WriteServes, Midway, Op
  <2>6. Goto(t, e) /\ e.at \in NextAccess
    BY <1>8, <2>3 DEF Get, NextAccess
  <2> QED  BY <1>1, <1>2, <2>3, <2>5, <2>6, GoesOnUnseen
<1> QED  BY <1>5, <1>6, <1>7, <1>8 DEF FindEntry

LEMMA ReadRootServes ==
  ASSUME NEW t, Thread = {t}, IInv, IInv', Serving(t), ReadRoot(t)
  PROVE  Served(t)
<1> DEFINE c == [call[t] EXCEPT !.entries = disk.root]
           free == {s \in Slot : disk.root[s] = None}
           e == [c EXCEPT !.slot = Min(free), !.at = "imap_get"]
           f == [c EXCEPT !.inode_no = disk.root[c.slot].inode_no, !.at = "inode_get"]
<1>1. At(t, "root_get") /\ disk' = disk
  BY DEF ReadRoot, Get
<1>2. /\ call[t] \in CallType /\ call[t].at = "root_get" /\ Knows(disk, call[t]) /\ call[t] # Idle
      /\ disk \in Disk
  BY <1>1, DueWhole, AccessFields
<1>3. c \in CallType /\ c.at = "root_get" /\ c.request = call[t].request /\ c.slot = call[t].slot
  BY <1>2 DEF CallType, Disk, Unread
<1>4. Serves(disk, call[t])
  BY <1>2 DEF Serving
<1> HIDE DEF c
<1>5. CASE Op(t) = "create" /\ Get(t, Return(c, "ENOSPC"))
  <2>1. Serving(t)' /\ Answered(call[t].request, "ENOSPC")
    BY <1>2, <1>3, <1>5, ReturnFields, ReturnsAnswer DEF Get
  <2>2. call[t].request.name \notin Names(disk)
    BY <1>2, <1>5 DEF Op, Knows, CreateKnows, Names
  <2>3. StoreStep
    BY <1>1, <1>5, <2>1, <2>2, StepNotCreated DEF Op
  <2> QED  BY <2>1, <2>3 DEF Served
<1>6. CASE Op(t) = "create" /\ Get(t, e)
  <2> HIDE DEF free
  <2>1. e.at = "imap_get" /\ e.request = call[t].request
    BY <1>3 DEF CallType
  <2> HIDE DEF e
  <2>2. Goto(t, e) /\ e.at \in NextAccess /\ Serves(disk', e)
    BY <1>6, <2>1 DEF Get, NextAccess, Serves, Op
  <2> QED  BY <1>1, <1>2, <2>1, <2>2, GoesOnUnseen
<1>7. CASE Op(t) = "unlink" /\ Get(t, f)
  <2>1. f.at = "inode_get" /\ f.request = call[t].request /\ f.slot = call[t].slot
    BY <1>3 DEF CallType
  <2> HIDE DEF f
  <2>2. Serves(disk, f)
    BY <1>2, <1>4, <1>7, <2>1 DEF Serves, UnlinkServes, Asked, Op
  <2>3. Goto(t, f) /\ f.at \in NextAccess
    BY <1>7, <2>1 DEF Get, NextAccess
  <2> QED  BY <1>1, <1>2, <2>1, <2>2, <2>3, GoesOnUnseen
<1> QED  BY <1>5, <1>6, <1>7 DEF ReadRoot, c

-----------------------------------------------------------------------------
(* Access by access: bitmaps, which no file is made of.                    *)

LEMMA SameFilesStored ==
  ASSUME NEW d, NEW e, e.root = d.root, e.table = d.table, e.block = d.block
  PROVE  /\ StoreOf(e) = StoreOf(d) /\ Names(e) = Names(d)
         /\ \A c : Serves(d, c) => Serves(e, c)
<1>1. FilesOf(e) = FilesOf(d) /\ \A s : Node(e, s) = Node(d, s)
  BY SameView
<1>2. /\ \A s : IndexIn(e, s) = IndexIn(d, s)
      /\ \A idx, p : UnitAt(e, idx, p) = UnitAt(d, idx, p)
  BY <1>1 DEF IndexIn, UnitAt
<1>3. \A s : Text(e, s) = Text(d, s)
  BY <1>1, <1>2 DEF Text
<1>4. StoreOf(e) = StoreOf(d) /\ Names(e) = Names(d)
  BY <1>1, <1>3, SameStore DEF Names
<1>5. ASSUME NEW c PROVE Asked(e, c) <=> Asked(d, c)
  BY DEF Asked
<1>6. ASSUME NEW c
      PROVE  /\ UnlinkServes(d, c) => UnlinkServes(e, c)
             /\ ReadServes(d, c) => ReadServes(e, c)
             /\ WriteServes(d, c) => WriteServes(e, c)
  <2>1. UnlinkServes(d, c) => UnlinkServes(e, c)
    BY <1>4, <1>5 DEF UnlinkServes
  <2>2. ReadServes(d, c) => ReadServes(e, c)
    BY <1>2, <1>5 DEF ReadServes, Fetched
  <2>3. WriteServes(d, c) => WriteServes(e, c)
    BY <1>1, <1>2, <1>5 DEF WriteServes, Copied
  <2> QED  BY <2>1, <2>2, <2>3
<1>7. ASSUME NEW c, Serves(d, c) PROVE Serves(e, c)
  BY <1>5, <1>6, <1>7 DEF Serves
<1> QED  BY <1>4, <1>7

LEMMA ReadInodeBitmapServes ==
  ASSUME NEW t, Thread = {t}, IInv, IInv', Serving(t), ReadInodeBitmap(t)
  PROVE  Served(t)
<1> DEFINE c == call[t]
           free == Inode \ (disk.imap \cup {MFS_ROOT_INODE})
           i == Min(free)
           e == [c EXCEPT !.bitmap = disk.imap \cup {i}, !.inode_no = i, !.inode = NewInode(i),
                          !.at = "imap_put"]
           f == [c EXCEPT !.bitmap = disk.imap \ {c.inode_no}, !.at = "imap_put"]
<1>1. At(t, "imap_get") /\ disk' = disk
  BY DEF ReadInodeBitmap, Get
<1>2. c \in CallType /\ c.at = "imap_get" /\ Knows(disk, c) /\ c # Idle
  BY <1>1, DueWhole, AccessFields
<1>3. Serves(disk, c)
  BY <1>2 DEF Serving
<1>4. CASE Op(t) = "create" /\ Get(t, Return(c, "ENOSPC"))
  <2>1. Serving(t)' /\ Answered(c.request, "ENOSPC")
    BY <1>2, <1>4, ReturnFields, ReturnsAnswer DEF Get
  <2>2. c.request.name \notin Names(disk)
    BY <1>2, <1>4 DEF Op, Knows, CreateKnows, Names
  <2>3. StoreStep
    BY <1>1, <1>4, <2>1, <2>2, StepNotCreated DEF Op
  <2> QED  BY <2>1, <2>3 DEF Served
<1>5. CASE Op(t) = "create" /\ Get(t, e)
  <2> HIDE DEF i
  <2>1. e.at = "imap_put" /\ e.request = c.request
    BY <1>2 DEF CallType
  <2> HIDE DEF e
  <2>2. Goto(t, e) /\ e.at \in NextAccess /\ Serves(disk', e)
    BY <1>5, <2>1 DEF Get, NextAccess, Serves, Op
  <2> QED  BY <1>1, <1>2, <2>1, <2>2, GoesOnUnseen
<1>6. CASE Op(t) = "unlink" /\ Get(t, f)
  <2>1. f.at = "imap_put" /\ f.request = c.request
    BY <1>2 DEF CallType
  <2> HIDE DEF f
  <2>2. Serves(disk, f)
    BY <1>2, <1>3, <1>6, <2>1 DEF Serves, UnlinkServes, Op
  <2>3. Goto(t, f) /\ f.at \in NextAccess
    BY <1>6, <2>1 DEF Get, NextAccess
  <2> QED  BY <1>1, <1>2, <2>1, <2>2, <2>3, GoesOnUnseen
<1> QED  BY <1>4, <1>5, <1>6 DEF ReadInodeBitmap

LEMMA WriteInodeBitmapServes ==
  ASSUME NEW t, Thread = {t}, IInv, IInv', Serving(t), WriteInodeBitmap(t)
  PROVE  Served(t)
<1> DEFINE c == call[t]
           e == [c EXCEPT !.at = "table_get"]
<1>1. At(t, "imap_put") /\ disk' = [disk EXCEPT !["imap"] = c.bitmap]
  BY DEF WriteInodeBitmap, Put
<1>2. /\ c \in CallType /\ c.at = "imap_put" /\ Knows(disk, c) /\ c # Idle /\ disk \in Disk
      /\ c.request.op \in {"readdir", "create", "unlink", "getattr", "read", "write"}
  BY <1>1, DueWhole, AccessFields
<1>3. Serves(disk, c)
  BY <1>2 DEF Serving
<1>4. StoreOf(disk') = StoreOf(disk)
  <2>1. disk'.root = disk.root /\ disk'.table = disk.table /\ disk'.block = disk.block
    BY <1>1, <1>2, PartWritten
  <2> QED  BY <2>1, SameFilesStored
<1>5. CASE Op(t) = "create"
  <2>1. e.at = "table_get" /\ e.request = c.request
    BY <1>2 DEF CallType
  <2>2. Goto(t, e)
    BY <1>5 DEF WriteInodeBitmap, Put
  <2> HIDE DEF e
  <2>3. e.at \in NextAccess /\ Serves(disk', e)
    BY <1>5, <2>1 DEF NextAccess, Serves, Op
  <2> QED  BY <1>2, <1>4, <2>1, <2>2, <2>3, GoesOnUnseen
<1>6. CASE Op(t) # "create"
  <2>1. Op(t) = "unlink"
    BY <1>2, <1>6 DEF Op, Knows, ReadKnows, WriteKnows
  <2>2. Goto(t, Return(c, "OK"))
    BY <1>6 DEF WriteInodeBitmap, Put
  <2>3. Serving(t)' /\ Answered(c.request, "OK")
    BY <1>2, <2>2, ReturnFields, ReturnsAnswer
  <2>4. c.request.name \notin Names(disk)
    BY <1>2, <1>3, <2>1 DEF Op, Serves, UnlinkServes
  <2>5. StoreStep
    BY <1>4, <2>1, <2>3, <2>4, StepUnlinked DEF Op
  <2> QED  BY <2>3, <2>5 DEF Served
<1> QED  BY <1>5, <1>6

LEMMA ReadBitmapToFreeServes ==
  ASSUME NEW t, Thread = {t}, IInv, IInv', Serving(t), ReadBitmapToFree(t)
  PROVE  Served(t)
<1> DEFINE c == call[t]
           e == [c EXCEPT !.bitmap = disk.bmap \ {NextToFree(c)}, !.at = "free_put"]
<1>1. At(t, "free_get") /\ disk' = disk /\ Goto(t, e)
  BY DEF ReadBitmapToFree, Get
<1>2. /\ c \in CallType /\ c.at = "free_get" /\ Knows(disk, c) /\ c # Idle
      /\ c.request.op \in {"readdir", "create", "unlink", "getattr", "read", "write"}
  BY <1>1, Due
<1>3. Serves(disk, c)
  BY <1>2 DEF Serving
<1>4. c.request.op = "unlink"
  BY <1>2 DEF Knows, CreateKnows, ReadKnows, WriteKnows
<1>5. e.at = "free_put" /\ e.request = c.request /\ e.slot = c.slot
  BY <1>2 DEF CallType
<1> HIDE DEF e
<1>6. e.at \in NextAccess /\ Serves(disk, e)
  BY <1>2, <1>3, <1>4, <1>5 DEF Serves, UnlinkServes, Asked, NextAccess
<1> QED  BY <1>1, <1>2, <1>5, <1>6, GoesOnUnseen

LEMMA WriteBitmapFreedServes ==
  ASSUME NEW t, Thread = {t}, IInv, IInv', Serving(t), WriteBitmapFreed(t)
  PROVE  Served(t)
<1> DEFINE c == call[t]
           b == [c EXCEPT !.to_free = c.to_free \ {Min(c.to_free)}]
           e == FreeLoop(b)
<1>1. At(t, "free_put") /\ disk' = [disk EXCEPT !["bmap"] = c.bitmap] /\ Goto(t, e)
  BY DEF WriteBitmapFreed, Put
<1>2. /\ c \in CallType /\ c.at = "free_put" /\ Knows(disk, c) /\ c # Idle /\ disk \in Disk
      /\ c.request.op \in {"readdir", "create", "unlink", "getattr", "read", "write"}
  BY <1>1, Due
<1>3. Serves(disk, c)
  BY <1>2 DEF Serving
<1>4. c.request.op = "unlink"
  BY <1>2 DEF Knows, CreateKnows, ReadKnows, WriteKnows
<1>5. e.at \in {"root_put", "free_get"} /\ e.request = c.request /\ e.slot = c.slot
  BY <1>2 DEF CallType, FreeLoop
<1> HIDE DEF e
<1>6. StoreOf(disk') = StoreOf(disk) /\ Serves(disk', c) /\ disk'.root = disk.root
  <2>1. disk'.root = disk.root /\ disk'.table = disk.table /\ disk'.block = disk.block
    BY <1>1, <1>2, PartWritten
  <2> QED  BY <1>3, <2>1, SameFilesStored
<1>7. e.at \in NextAccess /\ Serves(disk', e)
  BY <1>2, <1>4, <1>5, <1>6 DEF Serves, UnlinkServes, Asked, NextAccess
<1> QED  BY <1>1, <1>2, <1>5, <1>6, <1>7, GoesOnUnseen

-----------------------------------------------------------------------------
(* Access by access: an inode is read.                                     *)

LEMMA ReadInodeServes ==
  ASSUME NEW t, Thread = {t}, IInv, IInv', Serving(t), ReadInode(t)
  PROVE  Served(t)
<1> DEFINE n == disk.table[call[t].inode_no]
           c == [call[t] EXCEPT !.inode = n]
           r == call[t].request
<1>1. At(t, "inode_get") /\ disk' = disk
  BY DEF ReadInode, Get
<1>2. /\ call[t] \in CallType /\ call[t].at = "inode_get" /\ Knows(disk, call[t]) /\ Sound(disk, 0)
      /\ disk \in Disk /\ call[t] # Idle /\ r \in Request
      /\ r.op \in {"readdir", "create", "unlink", "getattr", "read", "write"}
  BY <1>1, DueWhole, AccessFields
<1>3. OwnFile(disk, call[t]) /\ Serves(disk, call[t])
  BY <1>2 DEF Knows, CreateKnows, UnlinkKnows, ReadKnows, WriteKnows, Serving
<1>4. n = Node(disk, call[t].slot) /\ n \in mfs_inode /\ n.inode_no # 0
  <2>1. n = Node(disk, call[t].slot) /\ n \in mfs_inode
    BY <1>2, <1>3, DiskFields DEF OwnFile, Node
  <2>2. n.inode_no \in Inode
    BY <1>2, <1>3, <2>1, DiskFields DEF OwnFile, Sound, Named
  <2> QED  BY <2>1, <2>2, Nonzero
<1> HIDE DEF n
<1>5. c \in CallType
  BY <1>2, <1>4 DEF CallType
<1>6. /\ c.at = "inode_get" /\ c.request = r /\ c.slot = call[t].slot /\ c.inode = n
      /\ c.out = call[t].out /\ c.bytes = call[t].bytes
  BY <1>2 DEF CallType
<1>7. \A a : LET e == [c EXCEPT !.at = a]
             IN  /\ e.at = a /\ e.request = r /\ e.slot = c.slot /\ e.inode = n
                 /\ e.out = c.out /\ e.bytes = c.bytes
  BY <1>5, <1>6 DEF CallType
<1> HIDE DEF c
<1>8. Found(c) /\ (Indexed(c) <=> n.index_block # 0)
  BY <1>4, <1>6 DEF Found, Indexed
<1>9. /\ call[t].slot \in FilesOf(disk)
      /\ r.op \in {"getattr", "read", "write", "unlink"} => disk.root[call[t].slot].name = r.name
  BY <1>2, <1>3
     DEF Serves, UnlinkServes, ReadServes, WriteServes, Asked, OwnFile
<1>10. ASSUME NEW a, Goto(t, Return(c, a)) PROVE Serving(t)' /\ Answered(r, a)
  BY <1>2, <1>5, <1>6, <1>10, ReturnFields, ReturnsAnswer
<1>11. ASSUME NEW a \in NextAccess, Goto(t, [c EXCEPT !.at = a]), Serves(disk, [c EXCEPT !.at = a])
       PROVE  Served(t)
  <2> DEFINE e == [c EXCEPT !.at = a]
  <2>1. e.at = a /\ e.request = r
    BY <1>7
  <2> HIDE DEF e
  <2>2. Goto(t, e) /\ Serves(disk, e)
    BY <1>11 DEF e
  <2> QED  BY <1>1, <1>2, <2>1, <2>2, GoesOnUnseen
<1>12. CASE Op(t) = "getattr" /\ Get(t, GetattrInode(c))
  <2>1. Serving(t)' /\ Answered(r, n.size)
    BY <1>6, <1>8, <1>10, <1>12 DEF Get, GetattrInode
  <2>2. StoreStep
    BY <1>1, <1>2, <1>4, <1>9, <1>12, <2>1, StepGetattr DEF Op
  <2> QED  BY <2>1, <2>2 DEF Served
<1>13. CASE Op(t) = "read" /\ Get(t, ReadChecks(c))
  <2>1. ASSUME r.offset >= n.size \/ n.index_block = 0, Get(t, Return(c, <<>>)) PROVE Served(t)
    <3>1. Serving(t)' /\ Answered(r, <<>>)
      BY <1>10, <2>1 DEF Get
    <3>2. r.offset \in Nat /\ r.size \in Nat /\ n.size \in Nat
      BY <1>2, <1>4, <1>13, RequestFields, NodeFields DEF Op
    <3>3. r.offset >= n.size
      <4> SUFFICES ASSUME n.index_block = 0 PROVE n.size = 0
        BY <2>1, <3>2
      <4>1. ASSUME n.size # 0 PROVE FALSE
        <5>1. 1 \in 1 .. Node(disk, call[t].slot).size
          BY <1>4, <3>2, <4>1
        <5>2. \E p \in Place \ {0} : Blk(disk, call[t].slot, p) # 0
          BY <1>2, <1>9, <5>1, UnitOfFile
        <5> QED  BY <1>4, <5>2 DEF Blk
      <4> QED  BY <4>1
    <3> DEFINE m == Min({r.offset + r.size, n.size})
    <3>4. m \in Int /\ m < r.offset + 1 /\ r.offset + 1 \in Int
      BY <3>2, <3>3, MinOfTwo
    <3> HIDE DEF m
    <3>5. SubSeq(Text(disk, call[t].slot), r.offset + 1, m) = <<>>
      BY <3>4, SubSeqEmpty
    <3>6. StoreStep
      BY <1>1, <1>2, <1>4, <1>9, <1>13, <3>1, <3>5, StepRead DEF Op, m
    <3> QED  BY <3>1, <3>6 DEF Served
  <2>2. ASSUME Get(t, [c EXCEPT !.at = "index_get"]) PROVE Served(t)
    <3> DEFINE e == [c EXCEPT !.at = "index_get"]
    <3>1. e.at = "index_get" /\ e.request = r /\ e.slot = c.slot /\ e.out = c.out
      BY <1>7
    <3> HIDE DEF e
    <3>2. Serves(disk, e)
      BY <1>2, <1>3, <1>6, <1>13, <3>1 DEF Serves, ReadServes, Asked, Op
    <3> QED  BY <1>11, <2>2, <3>2 DEF e, NextAccess, Get
  <2> QED  BY <1>6, <1>8, <1>13, <2>1, <2>2 DEF ReadChecks
<1>14. CASE Op(t) = "write" /\ Get(t, WriteChecks(c))
  <2>1. ASSUME r.offset # n.size, Get(t, Return(c, "EOPNOTSUPP")) PROVE Served(t)
    <3>1. Serving(t)' /\ Answered(r, "EOPNOTSUPP")
      BY <1>10, <2>1 DEF Get
    <3>2. StoreStep
      BY <1>1, <1>2, <1>4, <1>9, <1>14, <2>1, <3>1, StepNotWritten DEF Op
    <3> QED  BY <3>1, <3>2 DEF Served
  <2>2. ASSUME NEW a, a = (IF Indexed(c) THEN "index_get" ELSE "alloc_get"),
               Get(t, [c EXCEPT !.at = a])
        PROVE  Served(t)
    <3> DEFINE e == [c EXCEPT !.at = a]
    <3>1. e.at = a /\ e.request = r /\ e.slot = c.slot /\ e.inode = n
      BY <1>7
    <3> HIDE DEF e
    <3>2. ~ Midway(e) /\ Asked(disk, e)
      BY <1>6, <1>8, <1>9, <1>14, <2>2, <3>1 DEF Midway, Asked, Op
    <3>3. Serves(disk, e)
      BY <1>14, <2>2, <3>1, <3>2 DEF Serves, WriteServes, Op
    <3>4. a \in NextAccess
      BY <2>2 DEF NextAccess
    <3> QED  BY <1>11, <2>2, <3>3, <3>4 DEF e, Get
  <2> QED  BY <1>6, <1>8, <1>14, <2>1, <2>2 DEF WriteChecks
<1>15. CASE Op(t) = "unlink" /\ Get(t, UnlinkInode(c))
  <2> DEFINE a == IF Indexed(c) THEN "index_get" ELSE "root_put"
             e == [c EXCEPT !.at = a]
  <2>1. e.at = a /\ e.request = r /\ e.slot = c.slot
    BY <1>7
  <2>2. a \in NextAccess /\ a \in {"index_get", "root_put"}
    BY DEF NextAccess
  <2>3. Get(t, e)
    BY <1>15 DEF UnlinkInode
  <2> HIDE DEF a, e
  <2>4. Serves(disk, e)
    BY <1>6, <1>9, <1>15, <2>1, <2>2 DEF Serves, UnlinkServes, Asked, Op
  <2> QED  BY <1>1, <1>2, <2>1, <2>2, <2>3, <2>4, GoesOnUnseen DEF Get
<1> QED  BY <1>12, <1>13, <1>14, <1>15 DEF ReadInode, c, n

-----------------------------------------------------------------------------
(* Access by access: the table of inodes and the root directory.           *)

LEMMA SameNodesStored ==
  ASSUME NEW d, NEW e, e.root = d.root, e.block = d.block,
         \A s \in FilesOf(d) : Node(e, s) = Node(d, s)
  PROVE  StoreOf(e) = StoreOf(d) /\ Names(e) = Names(d)
<1>1. FilesOf(e) = FilesOf(d)
  BY DEF FilesOf
<1>2. ASSUME NEW s \in FilesOf(d) PROVE Text(e, s) = Text(d, s)
  BY DEF Text, IndexIn, UnitAt
<1> QED  BY <1>1, <1>2, SameStore DEF Names

\* A function that gives every name of the directory the contents of its file is the store.
LEMMA StoreIs ==
  ASSUME NEW d, Named(d), NEW g, g = [n \in Names(d) |-> g[n]],
         \A s \in FilesOf(d) : g[d.root[s].name] = Text(d, s)
  PROVE  StoreOf(d) = g
<1>1. ASSUME NEW n \in Names(d) PROVE StoreOf(d)[n] = g[n]
  <2>1. PICK s \in FilesOf(d) : n = d.root[s].name
    BY DEF Names
  <2> QED  BY <2>1, InStore
<1> QED  BY <1>1 DEF StoreOf

LEMMA WriteRootServes ==
  ASSUME NEW t, Thread = {t}, IInv, IInv', Serving(t), WriteRoot(t)
  PROVE  Served(t)
<1> DEFINE c == call[t]
           r == c.request
           new == [name |-> r.name, inode_no |-> c.inode_no]
           m == [c.entries EXCEPT ![c.slot] = IF Op(t) = "create" THEN new ELSE None]
           f == [c EXCEPT !.inode = NewInode(c.inode_no), !.at = "table_get"]
<1>1. At(t, "root_put") /\ disk' = [disk EXCEPT !["root"] = m]
  BY DEF WriteRoot, Put
<1>2. /\ c \in CallType /\ c.at = "root_put" /\ Knows(disk, c) /\ c # Idle
      /\ Sound(disk, Torn(c)) /\ disk \in Disk /\ r \in Request
      /\ r.op \in {"readdir", "create", "unlink", "getattr", "read", "write"}
  BY <1>1, Due
<1>3. Serves(disk, c) /\ (r.op = "create" \/ r.op = "unlink")
  BY <1>2 DEF Knows, ReadKnows, WriteKnows, Serving
<1>4. disk'.root = m /\ disk'.table = disk.table /\ disk'.block = disk.block
  BY <1>1, <1>2, PartWritten
<1>5. Named(disk) /\ disk.root \in [Slot -> mfs_dir_entry \cup {None}]
  BY <1>2, DiskFields DEF Sound
<1>6. Sound(disk', Torn(call'[t])) /\ Named(disk')
  BY DEF IInv, Fine, Sound
<1>7. \A s : Node(disk', s) = disk.table[m[s].inode_no]
  BY <1>4 DEF Node
<1>8. CASE r.op = "create"
  <2>1. /\ c.entries = disk.root /\ c.slot \in Slot /\ disk.root[c.slot] = None
        /\ disk.table[c.inode_no] = NewInode(c.inode_no) /\ r.name \notin Names(disk)
    BY <1>2, <1>8 DEF Knows, CreateKnows, Fresh, Names
  <2>2. new \in mfs_dir_entry
    BY <1>2, <1>8, RequestFields DEF mfs_dir_entry, Knows, CreateKnows, Fresh
  <2>3. /\ m[c.slot] = new /\ \A s \in Slot : s # c.slot => m[s] = disk.root[s]
        /\ new.name = r.name /\ new.inode_no = c.inode_no /\ new # None
    BY <1>5, <1>8, <2>1, <2>2, MfsAssumption DEF Op, mfs_dir_entry
  <2> HIDE DEF m, new
  <2>4. FilesOf(disk') = FilesOf(disk) \cup {c.slot} /\ c.slot \notin FilesOf(disk)
    BY <1>4, <2>1, <2>3 DEF FilesOf
  <2>5. ASSUME NEW s \in FilesOf(disk)
        PROVE  disk'.root[s] = disk.root[s] /\ Text(disk', s) = Text(disk, s)
    <3>1. s \in Slot /\ s # c.slot
      BY <2>4 DEF FilesOf
    <3>2. m[s] = disk.root[s] /\ Node(disk', s) = Node(disk, s)
      BY <1>7, <2>3, <3>1 DEF Node
    <3> QED  BY <1>4, <3>2 DEF Text, IndexIn, UnitAt
  <2>6. Names(disk') = Names(disk) \cup {r.name}
    BY <1>4, <2>3, <2>4, <2>5 DEF Names
  <2>7. Text(disk', c.slot) = <<>>
    <3>1. Node(disk', c.slot).size = 0
      BY <1>7, <2>1, <2>3 DEF NewInode
    <3>2. Text(disk', c.slot) \in Seq(Unit \cup {0}) /\ Len(Text(disk', c.slot)) = 0
      BY <1>6, <2>4, <3>1, TextIsSeq
    <3> QED  BY <3>2
  <2> DEFINE g == [n \in Names(disk) \cup {r.name} |-> IF n = r.name THEN <<>> ELSE StoreOf(disk)[n]]
  <2>8. StoreOf(disk') = g
    <3>1. g = [n \in Names(disk') |-> g[n]]
      BY <2>6
    <3>2. ASSUME NEW s \in FilesOf(disk') PROVE g[disk'.root[s].name] = Text(disk', s)
      <4>1. CASE s = c.slot
        BY <1>4, <2>3, <2>7, <4>1
      <4>2. CASE s \in FilesOf(disk)
        <5>1. disk.root[s].name \in Names(disk) /\ disk.root[s].name # r.name
          BY <2>1, <4>2 DEF Names
        <5> QED  BY <1>5, <2>5, <4>2, <5>1, InStore
      <4> QED  BY <2>4, <4>1, <4>2
    <3> HIDE DEF g
    <3> QED  BY <1>6, <3>1, <3>2, StoreIs
  <2>9. Goto(t, Return(c, "OK"))
    BY <1>8 DEF WriteRoot, Put, Op
  <2>10. Serving(t)' /\ Answered(r, "OK")
    BY <1>2, <2>9, ReturnFields, ReturnsAnswer
  <2>11. StoreStep
    BY <1>8, <2>1, <2>8, <2>10, StepCreated
  <2> QED  BY <2>10, <2>11 DEF Served
<1>9. CASE r.op = "unlink"
  <2>1. /\ c.entries = disk.root /\ c.slot \in Slot /\ c.slot \in FilesOf(disk)
        /\ disk.root[c.slot].name = r.name
    BY <1>2, <1>3, <1>9
       DEF Knows, UnlinkKnows, OwnFile, FilesOf, Serves, UnlinkServes, Asked
  <2>2. m[c.slot] = None /\ \A s \in Slot : s # c.slot => m[s] = disk.root[s]
    BY <1>5, <1>9, <2>1 DEF Op
  <2> HIDE DEF m
  <2>3. FilesOf(disk') = FilesOf(disk) \ {c.slot}
    BY <1>4, <2>1, <2>2 DEF FilesOf
  <2>4. ASSUME NEW s \in FilesOf(disk')
        PROVE  /\ disk'.root[s] = disk.root[s] /\ Text(disk', s) = Text(disk, s)
               /\ s \in FilesOf(disk) /\ disk.root[s].name # r.name
    <3>1. s \in Slot /\ s # c.slot /\ s \in FilesOf(disk)
      BY <2>3 DEF FilesOf
    <3>2. m[s] = disk.root[s] /\ Node(disk', s) = Node(disk, s)
      BY <1>7, <2>2, <3>1 DEF Node
    <3>3. disk.root[s].name # r.name
      BY <1>5, <2>1, <3>1 DEF Named
    <3> QED  BY <1>4, <3>1, <3>2, <3>3 DEF Text, IndexIn, UnitAt
  <2>5. Names(disk') = Names(disk) \ {r.name} /\ r.name \in Names(disk)
    <3>1. ASSUME NEW s \in FilesOf(disk), disk.root[s].name # r.name PROVE s \in FilesOf(disk')
      BY <2>1, <2>3, <3>1
    <3> QED  BY <2>1, <2>4, <3>1 DEF Names
  <2> DEFINE g == [n \in Names(disk) \ {r.name} |-> StoreOf(disk)[n]]
  <2>6. StoreOf(disk') = g
    <3>1. g = [n \in Names(disk') |-> g[n]]
      BY <2>5
    <3>2. ASSUME NEW s \in FilesOf(disk') PROVE g[disk'.root[s].name] = Text(disk', s)
      <4>1. disk.root[s].name \in Names(disk)
        BY <2>4 DEF Names
      <4> QED  BY <1>5, <2>4, <4>1, InStore
    <3> HIDE DEF g
    <3> QED  BY <1>6, <3>1, <3>2, StoreIs
  <2>7. f.at = "table_get" /\ f.request = r
    BY <1>2 DEF CallType
  <2>8. call' = [call EXCEPT ![t] = f] /\ last' = last
    BY <1>9, <2>7 DEF WriteRoot, Put, Op, Goto
  <2> HIDE DEF f
  <2>9. call'[t] = f /\ f # Idle
    BY <2>7, <2>8 DEF IInv, Idle
  <2>10. Requests = {r} /\ Requests' = {r}
    BY <1>2, <2>7, <2>9, AtWork, NextAtWork
  <2>11. Serves(disk', f)
    BY <1>9, <2>5, <2>7 DEF Serves, UnlinkServes
  <2>12. StoreStep
    BY <1>9, <2>5, <2>6, <2>8, <2>10, StepRemoved
  <2> QED  BY <2>9, <2>11, <2>12 DEF Served, Serving
<1> QED  BY <1>3, <1>8, <1>9

-----------------------------------------------------------------------------
(* Access by access: the table of inodes.                                  *)

\* mfs_write goes on with what it has in hand.
LEMMA WriteServesOn ==
  ASSUME NEW d, NEW c, NEW e, SameWork(c, e), e.rc = c.rc, WriteServes(d, c), c.at # "find",
         Midway(e) => Midway(c), e.at # "data_put",
         e.at \in {"index_put", "table_get", "table_put"} =>
           c.at \in {"index_put", "table_get", "table_put"}
  PROVE  WriteServes(d, e)
<1>1. Copied(d, c) => Copied(d, e)
  BY DEF Copied, SameWork
<1>2. Asked(d, c) => Asked(d, e)
  BY DEF Asked, SameWork
<1>3. Excused(c) => Excused(e)
  BY DEF Excused, SameWork
<1> QED  BY <1>1, <1>2, <1>3 DEF WriteServes

LEMMA ReadInodeTableServes ==
  ASSUME NEW t, Thread = {t}, IInv, IInv', Serving(t), ReadInodeTable(t)
  PROVE  Served(t)
<1> DEFINE c == call[t]
           m == [disk.table EXCEPT ![c.inode.inode_no] = c.inode]
           e == [c EXCEPT !.table = m, !.at = "table_put"]
<1>1. At(t, "table_get") /\ disk' = disk /\ Goto(t, e)
  BY DEF ReadInodeTable, Get
<1>2. /\ c \in CallType /\ c.at = "table_get" /\ Knows(disk, c) /\ c # Idle
      /\ c.request.op \in {"readdir", "create", "unlink", "getattr", "read", "write"}
  BY <1>1, DueWhole, AccessFields
<1>3. Serves(disk, c) /\ c.request.op \in {"create", "unlink", "write"}
  BY <1>2, TableOps DEF Serving
<1> HIDE DEF m
<1>4. e.at = "table_put" /\ e.request = c.request /\ e.rc = c.rc /\ SameWork(c, e)
  BY <1>2 DEF CallType, SameWork
<1> HIDE DEF e
<1>5. Midway(e) => Midway(c)
  BY <1>2, <1>4 DEF Midway, SameWork
<1>6. Serves(disk, e)
  <2>1. CASE c.request.op = "write"
    BY <1>2, <1>3, <1>4, <1>5, <2>1, WriteServesOn DEF Serves
  <2>2. CASE c.request.op # "write"
    BY <1>2, <1>3, <1>4, <2>2 DEF Serves, UnlinkServes
  <2> QED  BY <2>1, <2>2
<1> QED  BY <1>1, <1>2, <1>4, <1>6, GoesOnUnseen DEF NextAccess

LEMMA Joined ==
  ASSUME NEW S, NEW u \in Seq(S), NEW w \in Seq(S), NEW m \in Nat, NEW n \in Nat,
         Len(u) = m, Len(w) = n
  PROVE  /\ u \o w \in Seq(S) /\ Len(u \o w) = m + n
         /\ \A k \in 1 .. m : (u \o w)[k] = u[k]
         /\ \A k \in 1 .. n : (u \o w)[m + k] = w[k]
OBVIOUS

\* The file has grown by what was copied.
LEMMA TextRecorded ==
  ASSUME NEW d \in Disk, Sound(d, 0), NEW c \in CallType, c.request.op = "write", Writing(d, c),
         Copied(d, c), d.block[c.inode.index_block] = c.idx_data, c.inode.size = Position(c),
         NEW e, Sound(e, 0), e.root = d.root, e.block = d.block,
         e.table = [d.table EXCEPT ![c.inode_no] = c.inode]
  PROVE  Text(e, c.slot) = Text(d, c.slot) \o SubSeq(c.request.buf, 1, c.bytes)
<1> DEFINE T == Text(d, c.slot)
           P == SubSeq(c.request.buf, 1, c.bytes)
           o == c.request.offset
           S == Unit \cup {0}
<1>1. /\ c.inode \in mfs_inode /\ c.bytes \in Nat /\ o \in Nat /\ c.request.buf \in Seq(Unit)
      /\ c.bytes <= Len(c.request.buf) /\ c.slot \in FilesOf(d)
  BY CallFields, RequestFields DEF Writing, OwnFile
<1>2. /\ FilesOf(e) = FilesOf(d) /\ Node(e, c.slot) = c.inode /\ c.inode.index_block # 0
  BY <1>1, RecordedView
<1>3. IndexIn(e, c.slot) = c.idx_data
  BY <1>2 DEF IndexIn
<1>4. T \in Seq(S) /\ Len(T) = o
  BY <1>1, TextIsSeq DEF Copied
<1>5. P \in Seq(S) /\ Len(P) = c.bytes /\ \A k \in 1 .. c.bytes : P[k] = c.request.buf[k]
  BY <1>1
<1>6. /\ Text(e, c.slot) \in Seq(S) /\ Len(Text(e, c.slot)) = o + c.bytes
      /\ \A k \in 1 .. o + c.bytes : Text(e, c.slot)[k] = UnitAt(d, c.idx_data, k - 1)
  <2>1. Node(e, c.slot).size = o + c.bytes
    BY <1>2 DEF Position
  <2>2. \A p : UnitAt(e, c.idx_data, p) = UnitAt(d, c.idx_data, p)
    BY DEF UnitAt
  <2>3. Text(e, c.slot) \in Seq(S) /\ Len(Text(e, c.slot)) = Node(e, c.slot).size
    BY <1>1, <1>2, TextIsSeq
  <2>4. \A k \in 1 .. Node(e, c.slot).size :
          Text(e, c.slot)[k] = UnitAt(e, IndexIn(e, c.slot), k - 1)
    BY DEF Text
  <2> HIDE DEF o, S
  <2> QED  BY <1>3, <2>1, <2>2, <2>3, <2>4
<1>7. ASSUME NEW k \in 1 .. o PROVE T[k] = UnitAt(d, c.idx_data, k - 1)
  <2> DEFINE p == (k - 1) \div BlockSize + 1
  <2>1. k \in 1 .. Node(d, c.slot).size
    BY DEF Copied
  <2>2. p \in 1 .. IndexSize /\ Blk(d, c.slot, p) # 0 /\ IndexIn(d, c.slot)[p] = Blk(d, c.slot, p)
    BY <1>1, <2>1, UnitOfFile
  <2>3. T[k] = UnitAt(d, IndexIn(d, c.slot), k - 1)
    BY <2>1 DEF Text
  <2> HIDE DEF p
  <2>4. c.idx_data[p] = IndexIn(d, c.slot)[p]
    BY <2>2 DEF Writing
  <2> QED  BY <2>3, <2>4 DEF UnitAt, p
<1>8. ASSUME NEW k \in 1 .. c.bytes PROVE P[k] = UnitAt(d, c.idx_data, (o + k) - 1)
  <2>1. UnitAt(d, c.idx_data, c.request.offset + k - 1) = c.request.buf[k]
    BY Zenon DEF Copied
  <2>2. P[k] = c.request.buf[k]
    BY <1>5
  <2>3. c.request.offset + k - 1 = (o + k) - 1
    BY <1>1
  <2> HIDE DEF o
  <2> QED  BY <2>1, <2>2, <2>3
<1>12. o \in Nat /\ c.bytes \in Nat
  BY <1>1
<1> HIDE DEF T, P, S, o
<1>9. /\ T \o P \in Seq(S) /\ Len(T \o P) = o + c.bytes
      /\ \A k \in 1 .. o : (T \o P)[k] = T[k]
      /\ \A k \in 1 .. c.bytes : (T \o P)[o + k] = P[k]
  <2>1. T \in Seq(S) /\ P \in Seq(S) /\ Len(T) = o /\ Len(P) = c.bytes
    BY <1>4, <1>5
  <2> QED  BY <1>12, <2>1, Joined
<1>10. ASSUME NEW k \in 1 .. o + c.bytes PROVE (T \o P)[k] = Text(e, c.slot)[k]
  <2>1. CASE k <= o
    BY <1>6, <1>7, <1>9, <1>12, <2>1
  <2>2. CASE ~ k <= o
    <3>1. k - o \in 1 .. c.bytes /\ (o + (k - o)) - 1 = k - 1 /\ o + (k - o) = k
      BY <1>12, <2>2
    <3>2. P[k - o] = UnitAt(d, c.idx_data, k - 1)
      BY <1>8, <3>1
    <3>3. (T \o P)[o + (k - o)] = P[k - o]
      BY <1>9, <3>1
    <3>4. (T \o P)[k] = P[k - o]
      BY <3>1, <3>3
    <3> QED  BY <1>6, <3>2, <3>4
  <2> QED  BY <2>1, <2>2
<1>11. T \o P = Text(e, c.slot)
  BY <1>6, <1>9, <1>10, SeqEqual
<1> QED  BY <1>11 DEF T, P

LEMMA WriteInodeTableServes ==
  ASSUME NEW t, Thread = {t}, IInv, IInv', Serving(t), WriteInodeTable(t)
  PROVE  Served(t)
<1> DEFINE c == call[t]
           r == c.request
           e == [c EXCEPT !.at = "root_put"]
           f == [c EXCEPT !.at = "imap_get"]
<1>1. At(t, "table_put") /\ disk' = [disk EXCEPT !["table"] = c.table]
  BY DEF WriteInodeTable, Put
<1>2. /\ c \in CallType /\ c.at = "table_put" /\ Knows(disk, c) /\ c # Idle /\ Sound(disk, 0)
      /\ disk \in Disk /\ r \in Request
      /\ r.op \in {"readdir", "create", "unlink", "getattr", "read", "write"}
  BY <1>1, DueWhole, AccessFields
<1>3. Serves(disk, c)
  BY <1>2 DEF Serving
<1>4. disk'.root = disk.root /\ disk'.table = c.table /\ disk'.block = disk.block
  BY <1>1, <1>2, PartWritten
<1>5. ASSUME Fresh(disk, c), c.table = [disk.table EXCEPT ![c.inode_no] = c.inode]
      PROVE  StoreOf(disk') = StoreOf(disk) /\ Names(disk') = Names(disk)
  <2>1. \A s \in FilesOf(disk) : Node(disk', s) = Node(disk, s)
    BY <1>2, <1>4, <1>5, DiskFields DEF Fresh, Node
  <2> QED  BY <1>4, <2>1, SameNodesStored
<1>6. CASE r.op = "create"
  <2>1. StoreOf(disk') = StoreOf(disk)
    BY <1>2, <1>5, <1>6 DEF Knows, CreateKnows
  <2>2. Goto(t, e)
    BY <1>6 DEF WriteInodeTable, Put, Op
  <2>3. e.at = "root_put" /\ e.request = r
    BY <1>2 DEF CallType
  <2> HIDE DEF e
  <2>4. e.at \in NextAccess /\ Serves(disk', e)
    BY <1>6, <2>3 DEF NextAccess, Serves
  <2> QED  BY <1>2, <2>1, <2>2, <2>3, <2>4, GoesOnUnseen
<1>7. CASE r.op = "unlink"
  <2>1. StoreOf(disk') = StoreOf(disk) /\ Names(disk') = Names(disk)
    BY <1>2, <1>5, <1>7 DEF Knows, UnlinkKnows
  <2>2. Goto(t, f)
    BY <1>7 DEF WriteInodeTable, Put, Op
  <2>3. f.at = "imap_get" /\ f.request = r
    BY <1>2 DEF CallType
  <2> HIDE DEF f
  <2>4. r.name \notin Names(disk)
    BY <1>2, <1>3, <1>7 DEF Serves, UnlinkServes
  <2>5. f.at \in NextAccess /\ Serves(disk', f)
    BY <1>7, <2>1, <2>3, <2>4 DEF NextAccess, Serves, UnlinkServes
  <2> QED  BY <1>2, <2>1, <2>2, <2>3, <2>5, GoesOnUnseen
<1>8. CASE r.op = "write"
  <2> DEFINE a == IF c.bytes > 0 THEN c.bytes ELSE c.rc
             T == Text(disk, c.slot)
             P == SubSeq(r.buf, 1, c.bytes)
  <2>1. Goto(t, Return(c, a))
    BY <1>8 DEF WriteInodeTable, Put, Op
  <2>2. /\ Writing(disk, c) /\ disk.block[c.inode.index_block] = c.idx_data
        /\ c.inode.size = Position(c) /\ c.table = [disk.table EXCEPT ![c.inode_no] = c.inode]
        /\ c.inode.index_block # 0
    BY <1>2, <1>8 DEF Knows, WriteKnows
  <2>3. Midway(c)
    BY <1>2, <1>8, <2>2 DEF Midway
  <2>4. Asked(disk, c) /\ Copied(disk, c) /\ Excused(c)
    BY <1>2, <1>3, <1>8, <2>3 DEF Serves, WriteServes
  <2>5. Serving(t)' /\ Answered(r, a)
    <3> HIDE DEF a
    <3> QED  BY <1>2, <2>1, ReturnFields, ReturnsAnswer
  <2>6. Sound(disk', 0) /\ Named(disk')
    BY <1>1, <1>2, <2>2, CallFields, InodeRecorded DEF Sound
  <2>14. /\ disk'.table = [disk.table EXCEPT ![c.inode_no] = c.inode] /\ c.inode \in mfs_inode
    BY <1>2, <1>4, <2>2, CallFields
  <2>7. Text(disk', c.slot) = T \o P
    <3> HIDE DEF c
    <3> QED  BY <1>2, <1>4, <1>8, <2>2, <2>4, <2>6, <2>14, TextRecorded
  <2>8. /\ FilesOf(disk') = FilesOf(disk) /\ c.slot \in FilesOf(disk) /\ Named(disk)
        /\ disk.root[c.slot].name = r.name /\ Node(disk, c.slot).size = r.offset
    BY <1>2, <1>4, <2>2, <2>4 DEF FilesOf, Writing, OwnFile, Sound, Asked, Copied
  <2>9. ASSUME NEW s \in FilesOf(disk), s # c.slot PROVE Text(disk', s) = Text(disk, s)
    <3>1. Node(disk', s) = Node(disk, s)
      <4> HIDE DEF c
      <4> QED  BY <1>2, <1>4, <2>2, <2>9, <2>14, RecordedView
    <3> QED  BY <1>4, <3>1 DEF Text, IndexIn, UnitAt
  <2>10. c.bytes \in Nat /\ c.bytes <= Len(r.buf) /\ r.buf \in Seq(Unit) /\ Len(r.buf) \in Nat
    BY <1>2, <1>8, <2>2, CallFields, RequestFields DEF Writing
  <2>11. Names(disk') = Names(disk)
    BY <1>4, <2>8 DEF Names
  <2> HIDE DEF T, P
  <2>12. CASE c.bytes > 0
    <3> DEFINE g == [StoreOf(disk) EXCEPT ![r.name] = T \o P]
    <3>1. StoreOf(disk') = g
      <4>1. DOMAIN StoreOf(disk) = Names(disk)
        BY StoreDomain
      <4>2. g = [n \in Names(disk') |-> g[n]]
        BY <2>11, <4>1
      <4>3. ASSUME NEW s \in FilesOf(disk') PROVE g[disk'.root[s].name] = Text(disk', s)
        <5>1. s \in FilesOf(disk) /\ disk'.root[s].name = disk.root[s].name
          BY <1>4, <2>8
        <5>2. disk.root[s].name \in Names(disk)
          BY <5>1 DEF Names
        <5>3. CASE s = c.slot
          BY <2>7, <2>8, <4>1, <5>1, <5>2, <5>3
        <5>4. CASE s # c.slot
          <6>1. disk.root[s].name # r.name
            BY <2>8, <5>1, <5>4 DEF Named
          <6>2. StoreOf(disk)[disk.root[s].name] = Text(disk, s)
            BY <2>8, <5>1, InStore
          <6> QED  BY <2>9, <4>1, <5>1, <5>2, <5>4, <6>1, <6>2
        <5> QED  BY <5>3, <5>4
      <4> HIDE DEF g
      <4> QED  BY <2>6, <4>2, <4>3, StoreIs
    <3>2. c.bytes \in 1 .. Len(r.buf) /\ a = c.bytes
      BY <2>10, <2>12
    <3>3. StoreStep
      BY <1>2, <1>8, <2>5, <2>8, <3>1, <3>2, StepWritten DEF T, P
    <3> QED  BY <2>5, <3>3 DEF Served
  <2>13. CASE ~ c.bytes > 0
    <3>1. c.bytes = 0 /\ a = c.rc /\ c.rc \in {"ENOSPC", "EFBIG"}
      BY <2>4, <2>10, <2>13 DEF Excused
    <3>2. P = <<>>
      BY <3>1, SubSeqEmpty DEF P
    <3>3. Text(disk', c.slot) = Text(disk, c.slot)
      <4>1. T \in Seq(Unit \cup {0})
        BY <1>2, <2>8, TextIsSeq DEF T
      <4>2. T \o <<>> = T
        BY <4>1, ConcatEmptySeq
      <4> QED  BY <2>7, <3>2, <4>2 DEF T
    <3>4. StoreOf(disk') = StoreOf(disk)
      BY <1>4, <2>8, <2>9, <3>3, SameStore
    <3>5. StoreStep
      BY <1>2, <1>8, <2>5, <2>8, <3>1, <3>4, StepNotWritten
    <3> QED  BY <2>5, <3>5 DEF Served
  <2> QED  BY <2>12, <2>13
<1> QED  BY <1>2, <1>6, <1>7, <1>8, TableOps

-----------------------------------------------------------------------------
(* The loop of mfs_write.                                                  *)

LoopServes(d, c) == Asked(d, c) /\ Copied(d, c)

\* Where the loop leads: the write goes on with what it has copied, or says why it copied nothing.
LoopLeads(d, c, e) ==
  /\ e.request = c.request
  /\ \/ e.at \in NextAccess /\ WriteServes(d, e)
     \/ e.at = "return" /\ e.rc \in {"ENOSPC", "EFBIG"}

LEMMA FinishServes ==
  ASSUME NEW d, NEW c, AtLoop(d, c), LoopServes(d, c), Excused(c)
  PROVE  LoopLeads(d, c, Finish(c))
<1> DEFINE e == [c EXCEPT !.at = "index_put", !.inode.size = @ + c.bytes]
<1>1. c \in CallType /\ c.inode \in mfs_inode /\ c.inode.size \in Nat /\ c.bytes \in Nat
  BY CallFields, NodeFields DEF AtLoop
<1>2. CASE Finish(c) = Return(c, c.rc) /\ ~ (c.bytes > 0 \/ c.allocated_index)
  <2>1. c.bytes = 0 /\ c.rc \in {"ENOSPC", "EFBIG"}
    BY <1>1, <1>2 DEF Excused
  <2>2. Return(c, c.rc).at = "return" /\ Return(c, c.rc).rc = c.rc /\ Return(c, c.rc).request = c.request
    BY <1>1, ReturnFields
  <2> QED  BY <1>2, <2>1, <2>2 DEF LoopLeads
<1>3. CASE Finish(c) = e
  <2>1. /\ e.at = "index_put" /\ e.request = c.request /\ e.slot = c.slot /\ e.idx_data = c.idx_data
        /\ e.bytes = c.bytes /\ e.rc = c.rc
    BY <1>1 DEF CallType, mfs_inode
  <2> HIDE DEF e
  <2>2. Asked(d, e) /\ Copied(d, e) /\ Excused(e)
    BY <2>1 DEF LoopServes, Asked, Copied, Excused
  <2>3. WriteServes(d, e) /\ e.at \in NextAccess
    BY <2>1, <2>2 DEF WriteServes, NextAccess
  <2> QED  BY <1>3, <2>1, <2>3 DEF LoopLeads
<1> QED  BY <1>2, <1>3 DEF Finish

LEMMA FinishServesWith ==
  ASSUME NEW d, NEW c, AtLoop(d, c), LoopServes(d, c), NEW a \in {"ENOSPC", "EFBIG"}
  PROVE  LoopLeads(d, c, Finish([c EXCEPT !.rc = a]))
<1> DEFINE e == [c EXCEPT !.rc = a]
<1>1. e \in CallType
  BY DEF AtLoop, CallType
<1>2. SameWork(c, e) /\ e.rc = a
  BY DEF AtLoop, CallType, SameWork
<1> HIDE DEF e
<1>3. AtLoop(d, e)
  BY <1>1, <1>2, WorkGoesOn DEF AtLoop, SameWork
<1>4. LoopServes(d, e) /\ Excused(e)
  BY <1>2 DEF LoopServes, Asked, Copied, Excused, SameWork
<1>5. LoopLeads(d, e, Finish(e))
  BY <1>3, <1>4, FinishServes
<1>6. LoopLeads(d, c, Finish(e))
  BY <1>2, <1>5 DEF LoopLeads, SameWork
<1> QED  BY <1>6 DEF e

LEMMA WriteLoopServes ==
  ASSUME NEW d, NEW c, AtLoop(d, c), LoopServes(d, c)
  PROVE  LoopLeads(d, c, WriteLoop(c))
<1> DEFINE b == c.idx_data[BlockIdx(c) + 1]
           new == (b = 0)
           a == IF b = 0 THEN "alloc_get" ELSE "data_get"
           e == [c EXCEPT !.data_blk = b, !.newly_allocated = new, !.at = a]
<1>1. CASE WriteLoop(c) = Finish(c) /\ c.bytes = Len(c.request.buf)
  <2>1. Len(c.request.buf) # 0
    BY CallFields, RequestFields DEF AtLoop
  <2>2. Excused(c)
    BY <1>1, <2>1 DEF Excused
  <2> QED  BY <1>1, <2>2, FinishServes
<1>2. CASE WriteLoop(c) = Finish([c EXCEPT !.rc = "EFBIG"])
  BY <1>2, FinishServesWith
<1>3. CASE WriteLoop(c) = e
  <2>1. c \in CallType
    BY DEF AtLoop
  <2>2. a \in {"alloc_get", "data_get"}
    OBVIOUS
  <2> HIDE DEF a, b, new
  <2>3. /\ e.at = a /\ e.request = c.request /\ e.slot = c.slot /\ e.idx_data = c.idx_data
        /\ e.bytes = c.bytes
    BY <2>1 DEF CallType
  <2> HIDE DEF e
  <2>4. Asked(d, e) /\ Copied(d, e)
    BY <2>3 DEF LoopServes, Asked, Copied
  <2>5. WriteServes(d, e) /\ e.at \in NextAccess
    BY <2>2, <2>3, <2>4 DEF WriteServes, NextAccess
  <2> QED  BY <1>3, <2>3, <2>5 DEF LoopLeads
<1> QED  BY <1>1, <1>2, <1>3 DEF WriteLoop

\* A step of mfs_write that leads to the head of its loop, or out of it.
LEMMA LoopStep ==
  ASSUME NEW t, Thread = {t}, IInv, IInv', call[t] # Idle, call[t].request.op = "write",
         Sound(disk, 0), StoreOf(disk') = StoreOf(disk),
         NEW s \in FilesOf(disk), disk.root[s].name = call[t].request.name,
         Node(disk, s).size = call[t].request.offset,
         NEW c, c.request = call[t].request, NEW e, LoopLeads(disk', c, e), Goto(t, e)
  PROVE  Served(t)
<1>1. e.request = call[t].request
  BY DEF LoopLeads
<1>2. CASE e.at \in NextAccess /\ WriteServes(disk', e)
  <2>1. Serves(disk', e)
    BY <1>1, <1>2 DEF Serves
  <2> QED  BY <1>1, <1>2, <2>1, GoesOnUnseen
<1>3. CASE e.at = "return" /\ e.rc \in {"ENOSPC", "EFBIG"}
  <2>1. Serving(t)' /\ Answered(call[t].request, e.rc)
    BY <1>1, <1>3, ReturnsAnswer
  <2>2. StoreStep
    BY <1>3, <2>1, StepNotWritten
  <2> QED  BY <2>1, <2>2 DEF Served
<1> QED  BY <1>2, <1>3 DEF LoopLeads

-----------------------------------------------------------------------------
(* Access by access: blocks are allocated, and the index is read.          *)

\* What mfs_write knows of its file before it has touched it.
LEMMA WritesOwnFile ==
  ASSUME NEW d, NEW c, OwnFile(d, c), Asked(d, c), Node(d, c.slot).size = c.request.offset
  PROVE  /\ c.slot \in FilesOf(d) /\ d.root[c.slot].name = c.request.name
         /\ Node(d, c.slot).size = c.request.offset
BY DEF OwnFile, Asked

LEMMA ReadBlockBitmapServes ==
  ASSUME NEW t, Thread = {t}, IInv, IInv', Serving(t), ReadBlockBitmap(t)
  PROVE  Served(t)
<1> DEFINE c == call[t]
           free == Block \ disk.bmap
           b == Min(free)
           e == [c EXCEPT !.bitmap = disk.bmap \cup {b}, !.data_blk = b, !.at = "alloc_put"]
           f == Finish([c EXCEPT !.rc = "ENOSPC"])
<1>1. At(t, "alloc_get") /\ disk' = disk
  BY DEF ReadBlockBitmap, Get
<1>2. /\ c \in CallType /\ c.at = "alloc_get" /\ Knows(disk, c) /\ Sound(disk, 0) /\ c # Idle
      /\ c.request.op \in {"readdir", "create", "unlink", "getattr", "read", "write"}
  BY <1>1, DueWhole, AccessFields
<1>3. c.request.op = "write" /\ WriteKnows(disk, c)
  BY <1>2 DEF Knows, CreateKnows, UnlinkKnows, ReadKnows
<1>4. WriteServes(disk, c) /\ Asked(disk, c) /\ OwnFile(disk, c)
  BY <1>2, <1>3 DEF Serving, Serves, WriteServes, WriteKnows
<1>5. \/ Get(t, e)
      \/ c.inode.index_block = 0 /\ Get(t, Return(c, "ENOSPC"))
      \/ c.inode.index_block # 0 /\ Get(t, f)
  BY DEF ReadBlockBitmap
<1>6. CASE Get(t, e)
  <2>1. e.at = "alloc_put" /\ e.request = c.request /\ e.rc = c.rc /\ SameWork(c, e)
    BY <1>2 DEF CallType, SameWork
  <2> HIDE DEF e
  <2>2. Midway(e) => Midway(c)
    BY <1>2, <2>1 DEF Midway, SameWork
  <2>3. WriteServes(disk, e)
    BY <1>2, <1>4, <2>1, <2>2, WriteServesOn
  <2>4. Serves(disk, e) /\ e.at \in NextAccess /\ Goto(t, e)
    BY <1>3, <1>6, <2>1, <2>3 DEF Serves, NextAccess, Get
  <2> QED  BY <1>1, <1>2, <2>1, <2>4, GoesOnUnseen
<1>7. CASE c.inode.index_block = 0 /\ Get(t, Return(c, "ENOSPC"))
  <2>1. Serving(t)' /\ Answered(c.request, "ENOSPC")
    BY <1>2, <1>7, ReturnFields, ReturnsAnswer DEF Get
  <2>2. Node(disk, c.slot).size = c.request.offset
    BY <1>2, <1>3, <1>7 DEF WriteKnows
  <2>3. StoreStep
    BY <1>1, <1>2, <1>3, <1>4, <2>1, <2>2, WritesOwnFile, StepNotWritten
  <2> QED  BY <2>1, <2>3 DEF Served
<1>8. CASE c.inode.index_block # 0 /\ Get(t, f)
  <2>1. AtLoop(disk, c)
    BY <1>2, <1>3, <1>8 DEF AtLoop, WriteKnows
  <2>2. Midway(c)
    BY <1>2, <1>3, <1>8 DEF Midway
  <2>3. LoopServes(disk, c) /\ Node(disk, c.slot).size = c.request.offset
    BY <1>4, <2>2 DEF LoopServes, WriteServes, Copied
  <2>4. LoopLeads(disk, c, f)
    BY <2>1, <2>3, FinishServesWith
  <2>5. Goto(t, f)
    BY <1>8 DEF Get
  <2> HIDE DEF f
  <2> QED  BY <1>1, <1>2, <1>3, <1>4, <2>3, <2>4, <2>5, WritesOwnFile, LoopStep
<1> QED  BY <1>5, <1>6, <1>7, <1>8

LEMMA WriteBlockBitmapServes ==
  ASSUME NEW t, Thread = {t}, IInv, IInv', Serving(t), WriteBlockBitmap(t)
  PROVE  Served(t)
<1> DEFINE c == call[t]
           a == IF c.inode.index_block = 0 THEN "zero_put" ELSE "data_put"
           e == [c EXCEPT !.at = a]
<1>1. At(t, "alloc_put") /\ disk' = [disk EXCEPT !["bmap"] = c.bitmap] /\ Goto(t, e)
  BY DEF WriteBlockBitmap, Put
<1>2. /\ c \in CallType /\ c.at = "alloc_put" /\ Knows(disk, c) /\ disk \in Disk /\ c # Idle
      /\ c.request.op \in {"readdir", "create", "unlink", "getattr", "read", "write"}
  BY <1>1, DueWhole, AccessFields
<1>3. c.request.op = "write" /\ WriteKnows(disk, c)
  BY <1>2 DEF Knows, CreateKnows, UnlinkKnows, ReadKnows
<1>4. StoreOf(disk') = StoreOf(disk) /\ Serves(disk', c)
  <2>1. disk'.root = disk.root /\ disk'.table = disk.table /\ disk'.block = disk.block
    BY <1>1, <1>2, PartWritten
  <2>2. Serves(disk, c)
    BY <1>2 DEF Serving
  <2> QED  BY <2>1, <2>2, SameFilesStored
<1>5. WriteServes(disk', c)
  BY <1>3, <1>4 DEF Serves
<1>6. /\ e.at = a /\ e.request = c.request /\ e.slot = c.slot /\ e.inode = c.inode
      /\ e.idx_data = c.idx_data /\ e.bytes = c.bytes /\ e.newly_allocated = c.newly_allocated
  BY <1>2 DEF CallType
<1> HIDE DEF e
<1>7. c.inode.index_block # 0 => c.newly_allocated /\ Midway(c)
  BY <1>2, <1>3 DEF WriteKnows, Midway
<1>8. Asked(disk', e) /\ (Midway(e) => Copied(disk', e))
  BY <1>2, <1>5, <1>6, <1>7 DEF WriteServes, Asked, Copied, Midway
<1>9. WriteServes(disk', e)
  BY <1>6, <1>7, <1>8 DEF WriteServes
<1>10. Serves(disk', e) /\ e.at \in NextAccess
  BY <1>3, <1>6, <1>9 DEF Serves, NextAccess
<1> QED  BY <1>1, <1>2, <1>4, <1>6, <1>10, GoesOnUnseen

LEMMA ReadIndexBlockServes ==
  ASSUME NEW t, Thread = {t}, IInv, IInv', Serving(t), ReadIndexBlock(t)
  PROVE  Served(t)
<1> DEFINE c == IndexRead(disk, call[t])
           r == call[t].request
           mapped == {k \in 1 .. IndexSize : k <= c.inode.block_count /\ c.idx_data[k] # 0}
<1>1. At(t, "index_get") /\ disk' = disk
  BY DEF ReadIndexBlock, Get
<1>2. /\ call[t] \in CallType /\ call[t].at = "index_get" /\ Knows(disk, call[t])
      /\ Sound(disk, 0) /\ call[t] # Idle /\ Serves(disk, call[t])
  BY <1>1, DueWhole, AccessFields DEF Serving
<1>3. /\ c \in CallType /\ c.at = "index_get" /\ c.request = r
      /\ c.bytes = call[t].bytes /\ c.slot = call[t].slot
      /\ OwnFile(disk, c) /\ c.inode = Node(disk, c.slot)
      /\ c.request.op = "write" => AtLoop(disk, c)
  BY <1>1, IndexIsRead
<1>4. c.out = call[t].out
  BY <1>2 DEF IndexRead, CallType
<1>5. \/ Op(t) = "write" /\ Get(t, WriteLoop(c))
      \/ Op(t) = "read" /\ Get(t, [c EXCEPT !.at = "data_get"])
      \/ Op(t) = "unlink" /\ Get(t, FreeLoop([c EXCEPT !.to_free = mapped \cup {IndexSize + 1}]))
  BY <1>2 DEF ReadIndexBlock, IndexRead, CallType
<1> HIDE DEF c
<1>6. CASE Op(t) = "write" /\ Get(t, WriteLoop(c))
  <2>1. AtLoop(disk, c) /\ WriteKnows(disk, call[t]) /\ WriteServes(disk, call[t])
    BY <1>2, <1>3, <1>6 DEF Knows, Serves, Op
  <2>2. Asked(disk, c) /\ c.bytes = 0
    BY <1>2, <1>3, <2>1 DEF WriteKnows, WriteServes, Asked
  <2>3. Node(disk, c.slot).size = c.request.offset
    BY <1>3, <2>1 DEF AtLoop
  <2>4. LoopServes(disk, c)
    BY <2>2, <2>3 DEF LoopServes, Copied
  <2> DEFINE e == WriteLoop(c)
  <2>5. LoopLeads(disk, c, e)
    BY <2>1, <2>4, WriteLoopServes
  <2>6. Goto(t, e)
    BY <1>6 DEF Get
  <2> HIDE DEF e
  <2>7. r.op = "write" /\ c.slot \in FilesOf(disk) /\ disk.root[c.slot].name = r.name
        /\ Node(disk, c.slot).size = r.offset
    BY <1>3, <1>6, <2>2, <2>3, WritesOwnFile DEF Op
  <2> QED  BY <1>1, <1>2, <1>3, <2>5, <2>6, <2>7, LoopStep
<1>7. CASE Op(t) = "read" /\ Get(t, [c EXCEPT !.at = "data_get"])
  <2> DEFINE e == [c EXCEPT !.at = "data_get"]
  <2>1. /\ e.at = "data_get" /\ e.request = r /\ e.slot = c.slot /\ e.out = c.out
        /\ e.bytes = c.bytes
    BY <1>3 DEF CallType
  <2>2. Goto(t, e)
    BY <1>7 DEF Get
  <2> HIDE DEF e
  <2>3. ReadServes(disk, call[t]) /\ ReadKnows(disk, call[t])
    BY <1>2, <1>7 DEF Serves, Knows, Op
  <2>4. Asked(disk, e) /\ e.out = <<>> /\ e.bytes = 0
    BY <1>2, <1>3, <1>4, <2>1, <2>3 DEF ReadServes, ReadKnows, Asked
  <2>5. ReadServes(disk, e)
    BY <2>1, <2>4 DEF ReadServes, Fetched
  <2>6. Serves(disk, e) /\ e.at \in NextAccess
    BY <1>7, <2>1, <2>5 DEF Serves, NextAccess, Op
  <2> QED  BY <1>1, <1>2, <2>1, <2>2, <2>6, GoesOnUnseen
<1>8. CASE Op(t) = "unlink" /\ Get(t, FreeLoop([c EXCEPT !.to_free = mapped \cup {IndexSize + 1}]))
  <2> DEFINE T == mapped \cup {IndexSize + 1}
             e == FreeLoop([c EXCEPT !.to_free = T])
  <2> HIDE DEF T
  <2>1. e.at \in {"root_put", "free_get"} /\ e.request = r /\ e.slot = c.slot
    BY <1>3 DEF CallType, FreeLoop
  <2>2. Goto(t, e)
    BY <1>8 DEF Get, T
  <2> HIDE DEF e
  <2>3. Asked(disk, e)
    BY <1>2, <1>3, <1>8, <2>1 DEF Serves, UnlinkServes, Asked, Op
  <2>4. Serves(disk, e) /\ e.at \in NextAccess
    BY <1>8, <2>1, <2>3 DEF Serves, UnlinkServes, NextAccess, Op
  <2> QED  BY <1>1, <1>2, <2>1, <2>2, <2>4, GoesOnUnseen
<1> QED  BY <1>5, <1>6, <1>7, <1>8

-----------------------------------------------------------------------------
(* Access by access: the index is written.                                 *)

\* A file that has the same blocks, with the same in them, has the same contents.
LEMMA TextApart ==
  ASSUME NEW d, Sound(d, 0), NEW e, NEW s \in FilesOf(d), Node(e, s) = Node(d, s),
         \A k \in Place \ {0} : Blk(d, s, k) # 0 =>
           Blk(e, s, k) = Blk(d, s, k) /\ e.block[Blk(d, s, k)] = d.block[Blk(d, s, k)]
  PROVE  Text(e, s) = Text(d, s)
<1>1. ASSUME NEW k \in Place \ {0}, Blk(d, s, k) # 0
      PROVE  IndexIn(e, s)[k] = Blk(d, s, k) /\ e.block[Blk(d, s, k)] = d.block[Blk(d, s, k)]
  <2>1. Blk(e, s, k) = Blk(d, s, k)
    BY <1>1
  <2>2. IndexIn(e, s)[k] = Blk(e, s, k)
    BY <1>1, <2>1 DEF IndexIn, Blk
  <2> QED  BY <1>1, <2>1, <2>2
<1>2. Node(e, s).size = Node(d, s).size
  OBVIOUS
<1> QED  BY <1>1, <1>2, SameText

LEMMA BlkInBlock ==
  ASSUME NEW d, Sound(d, 0), NEW s \in FilesOf(d), NEW k \in Place, Blk(d, s, k) # 0
  PROVE  Blk(d, s, k) \in Block
<1>1. s \in FilesOf(d) \ {0} /\ d \in Disk /\ Marked(d, 0)
  BY Nonzero DEF FilesOf, Sound
<1>2. Blk(d, s, k) \in d.bmap
  BY <1>1 DEF Marked
<1> QED  BY <1>1, <1>2, DiskFields

\* Where mfs_write has its units.
LEMMA WrittenUnit ==
  ASSUME NEW d \in Disk, NEW c \in CallType, c.request.op = "write", Writing(d, c),
         NEW p \in Nat, p < Position(c)
  PROVE  LET q == p \div BlockSize + 1
         IN  /\ q \in 1 .. IndexSize /\ c.idx_data[q] \in Block /\ c.idx_data[q] # 0
             /\ c.idx_data[q] # c.inode.index_block
             /\ \A l \in 1 .. IndexSize : c.idx_data[l] = c.idx_data[q] => l = q
             /\ (p % BlockSize) + 1 \in 1 .. BlockSize
<1> DEFINE q == p \div BlockSize + 1
<1>1. Position(c) \in Nat /\ Mapped(IndexSize, c.idx_data, Position(c))
  BY PositionNat DEF Writing
<1>2. q \in 1 .. IndexSize /\ c.idx_data[q] # 0
  BY <1>1, BlockOfPosition, SizesNat
<1>3. (p % BlockSize) + 1 \in 1 .. BlockSize
  BY InBlock, SizesNat
<1> HIDE DEF q
<1>4. /\ c.idx_data[q] \in d.bmap /\ c.idx_data[q] # c.inode.index_block
      /\ \A l \in 1 .. IndexSize : c.idx_data[l] = c.idx_data[q] => l = q
  BY <1>2 DEF Writing
<1>5. c.idx_data[q] \in Block
  BY <1>4, DiskFields
<1> QED  BY <1>2, <1>3, <1>4, <1>5 DEF q

LEMMA WriteEmptyIndexServes ==
  ASSUME NEW t, Thread = {t}, IInv, IInv', Serving(t), WriteEmptyIndex(t)
  PROVE  Served(t)
<1> DEFINE c == call[t]
           b == c.data_blk
           e == IndexMade(c)
           f == WriteLoop(e)
<1>1. /\ Put(t, "block", [disk.block EXCEPT ![b] = Zeros(IndexSize)], f)
      /\ SameDisk(disk, WithIndex(disk, c)) /\ AtLoop(WithIndex(disk, c), e)
  BY EmptyIndexWritten
<1>2. At(t, "zero_put") /\ disk' = WithIndex(disk, c) /\ Goto(t, f)
  BY <1>1 DEF WriteEmptyIndex, Put, WithIndex, WithBlock
<1>3. /\ c \in CallType /\ c.at = "zero_put" /\ Knows(disk, c) /\ Sound(disk, 0) /\ c # Idle
      /\ disk \in Disk /\ c.request.op \in {"readdir", "create", "unlink", "getattr", "read", "write"}
  BY <1>2, DueWhole, AccessFields
<1>4. c.request.op = "write" /\ WriteKnows(disk, c) /\ Asked(disk, c)
  BY <1>3 DEF Knows, CreateKnows, UnlinkKnows, ReadKnows, Serving, Serves, WriteServes
<1>5. /\ OwnFile(disk, c) /\ Node(disk, c.slot).size = c.request.offset /\ c.bytes = 0
      /\ Unused(disk, b)
  BY <1>3, <1>4 DEF WriteKnows
<1>6. e.request = c.request /\ e.slot = c.slot /\ e.bytes = c.bytes
  BY <1>3 DEF IndexMade, CallType
<1>7. /\ disk'.root = disk.root /\ disk'.table = disk.table
      /\ disk'.block = [disk.block EXCEPT ![b] = Zeros(IndexSize)]
  BY <1>2, <1>3, PartWritten DEF WithIndex, WithBlock
<1> HIDE DEF e, f
<1>8. SameDisk(disk, disk') /\ AtLoop(disk', e)
  BY <1>1, <1>2
<1>9. StoreOf(disk') = StoreOf(disk)
  <2>1. ASSUME NEW s \in FilesOf(disk) PROVE Text(disk', s) = Text(disk, s)
    <3>1. ASSUME NEW k \in Place \ {0}, Blk(disk, s, k) # 0
          PROVE  /\ Blk(disk', s, k) = Blk(disk, s, k)
                 /\ disk'.block[Blk(disk, s, k)] = disk.block[Blk(disk, s, k)]
      <4>1. Blk(disk', s, k) = Blk(disk, s, k) /\ Blk(disk, s, k) # b
        BY <1>5, <1>8 DEF SameDisk, Unused
      <4>2. Blk(disk, s, k) \in Block
        BY <1>3, <3>1, BlkInBlock
      <4> QED  BY <1>3, <1>7, <4>1, <4>2, DiskFields
    <3>2. Node(disk', s) = Node(disk, s)
      BY <1>8 DEF SameDisk
    <3> QED  BY <1>3, <3>1, <3>2, TextApart
  <2> QED  BY <1>7, <1>8, <2>1, SameStore DEF SameDisk
<1>10. LoopServes(disk', e)
  <2>1. Asked(disk', e) /\ Node(disk', e.slot).size = e.request.offset
    BY <1>4, <1>5, <1>6, <1>7, <1>8 DEF Asked, SameDisk
  <2> QED  BY <1>5, <1>6, <2>1 DEF LoopServes, Copied
<1>11. LoopLeads(disk', e, f)
  BY <1>8, <1>10, WriteLoopServes DEF f
<1> QED  BY <1>2, <1>3, <1>4, <1>5, <1>6, <1>9, <1>11, WritesOwnFile, LoopStep

LEMMA WriteIndexBlockServes ==
  ASSUME NEW t, Thread = {t}, IInv, IInv', Serving(t), WriteIndexBlock(t)
  PROVE  Served(t)
<1> DEFINE c == call[t]
           x == c.inode.index_block
           e == [c EXCEPT !.at = "table_get"]
<1>1. /\ At(t, "index_put") /\ disk' = [disk EXCEPT !["block"] = [disk.block EXCEPT ![x] = c.idx_data]]
      /\ Goto(t, e)
  BY DEF WriteIndexBlock, Put
<1>2. /\ c \in CallType /\ c.at = "index_put" /\ Knows(disk, c) /\ Sound(disk, 0) /\ c # Idle
      /\ disk \in Disk /\ c.request.op \in {"readdir", "create", "unlink", "getattr", "read", "write"}
  BY <1>1, DueWhole, AccessFields
<1>3. c.request.op = "write" /\ WriteKnows(disk, c) /\ WriteServes(disk, c)
  BY <1>2 DEF Knows, CreateKnows, UnlinkKnows, ReadKnows, Serving, Serves
<1>4. x # 0 /\ Writing(disk, c) /\ OwnFile(disk, c) /\ Excused(c) /\ Midway(c)
  BY <1>2, <1>3 DEF WriteKnows, WriteServes, Midway
<1>5. Asked(disk, c) /\ Copied(disk, c) /\ x \in Block /\ c.slot \in FilesOf(disk)
  BY <1>2, <1>3, <1>4, DiskFields DEF WriteServes, Writing, OwnFile
<1>6. /\ e.at = "table_get" /\ e.request = c.request /\ e.slot = c.slot /\ e.bytes = c.bytes
      /\ e.idx_data = c.idx_data /\ e.rc = c.rc
  BY <1>2 DEF CallType
<1>7. /\ disk'.root = disk.root /\ disk'.table = disk.table
      /\ disk'.block = [disk.block EXCEPT ![x] = c.idx_data]
  BY <1>1, <1>2, PartWritten
<1> HIDE DEF e
<1>8. FilesOf(disk') = FilesOf(disk) /\ \A s : Node(disk', s) = Node(disk, s)
  BY <1>7, SameView
<1>9. disk'.block[x] = c.idx_data /\ \A a \in Block : a # x => disk'.block[a] = disk.block[a]
  BY <1>2, <1>5, <1>7, DiskFields
<1>10. ASSUME NEW s \in FilesOf(disk), NEW k \in Place \ {0}, Blk(disk, s, k) # 0
       PROVE  Blk(disk', s, k) = Blk(disk, s, k) /\ Blk(disk, s, k) # x
  <2>1. k \in 1 .. IndexSize /\ 0 \in Place
    BY SizesNat DEF Place
  <2>2. CASE s = c.slot
    <3>1. Node(disk, s).index_block = x /\ c.idx_data[k] = Blk(disk, s, k)
      BY <1>4, <1>10, <2>1, <2>2 DEF Writing, Blk
    <3>2. Blk(disk', s, k) = c.idx_data[k]
      BY <1>4, <1>8, <1>9, <3>1 DEF Blk
    <3> QED  BY <1>4, <1>10, <2>1, <3>1, <3>2 DEF Writing
  <2>3. CASE s # c.slot
    <3>1. Blk(disk, s, k) # x /\ Blk(disk, s, 0) # x
      <4> HIDE DEF c
      <4> QED  BY <1>2, <1>4, <2>1, <2>3, WritingApart DEF x
    <3>2. Node(disk, s).index_block # x /\ Node(disk, s).index_block \in Block \cup {0}
      BY <1>2, <3>1, DiskFields, NodeFields DEF Blk
    <3> QED  BY <1>8, <1>9, <3>1, <3>2 DEF Blk
  <2> QED  BY <2>2, <2>3
<1>11. StoreOf(disk') = StoreOf(disk)
  <2>1. ASSUME NEW s \in FilesOf(disk) PROVE Text(disk', s) = Text(disk, s)
    <3>1. ASSUME NEW k \in Place \ {0}, Blk(disk, s, k) # 0
          PROVE  /\ Blk(disk', s, k) = Blk(disk, s, k)
                 /\ disk'.block[Blk(disk, s, k)] = disk.block[Blk(disk, s, k)]
      BY <1>2, <1>9, <1>10, <3>1, BlkInBlock
    <3>2. Node(disk', s) = Node(disk, s)
      BY <1>8
    <3> QED  BY <1>2, <3>1, <3>2, TextApart
  <2> QED  BY <1>7, <1>8, <2>1, SameStore
<1>12. Copied(disk', e)
  <2>1. ASSUME NEW k \in 1 .. c.bytes
        PROVE  UnitAt(disk', c.idx_data, c.request.offset + k - 1)
                 = UnitAt(disk, c.idx_data, c.request.offset + k - 1)
    <3> DEFINE p == c.request.offset + k - 1
               q == p \div BlockSize + 1
    <3>1. p \in Nat /\ p < Position(c)
      BY <1>2, <1>3, CallFields, RequestFields DEF Position
    <3> HIDE DEF p
    <3>2. c.idx_data[q] \in Block /\ c.idx_data[q] # x
      BY <1>2, <1>3, <1>4, <3>1, WrittenUnit
    <3>3. UnitAt(disk', c.idx_data, p) = UnitAt(disk, c.idx_data, p)
      BY <1>9, <3>2 DEF UnitAt
    <3> QED  BY <3>3 DEF p
  <2>2. Node(disk', e.slot).size = e.request.offset
    BY <1>5, <1>6, <1>8 DEF Copied
  <2> QED  BY <1>5, <1>6, <2>1, <2>2 DEF Copied
<1>13. WriteServes(disk', e)
  BY <1>4, <1>5, <1>6, <1>7, <1>12 DEF WriteServes, Asked, Excused
<1>14. Serves(disk', e) /\ e.at \in NextAccess
  BY <1>3, <1>6, <1>13 DEF Serves, NextAccess
<1> QED  BY <1>1, <1>2, <1>6, <1>11, <1>14, GoesOnUnseen

-----------------------------------------------------------------------------
(* Access by access: data is written.                                      *)

LEMMA InSameBlock ==
  ASSUME NEW p \in Nat, NEW j \in Nat, (p % BlockSize) + j < BlockSize
  PROVE  /\ (p + j) \div BlockSize = p \div BlockSize
         /\ (p + j) % BlockSize = (p % BlockSize) + j
<1> DEFINE q == p \div BlockSize
           u == p % BlockSize
           w == (p + j) \div BlockSize
           v == (p + j) % BlockSize
<1>1. q \in Nat /\ u \in Nat /\ u < BlockSize /\ p = q * BlockSize + u
  BY InBlock
<1>2. w \in Nat /\ v \in Nat /\ v < BlockSize /\ p + j = w * BlockSize + v
  <2>1. p + j \in Nat
    OBVIOUS
  <2> QED  BY <2>1, InBlock
<1>3. BlockSize \in Nat /\ u + j < BlockSize
  BY SizesNat
<1> HIDE DEF q, u, w, v
<1>4. /\ q * BlockSize \in Nat /\ w * BlockSize \in Nat
      /\ (q + 1) * BlockSize = q * BlockSize + BlockSize
      /\ (w + 1) * BlockSize = w * BlockSize + BlockSize
  BY <1>1, <1>2, <1>3
<1>5. q * BlockSize < (w + 1) * BlockSize /\ w * BlockSize < (q + 1) * BlockSize
  BY <1>1, <1>2, <1>3, <1>4
<1>6. q <= w /\ w <= q
  BY <1>1, <1>2, <1>5, Quotients
<1>7. q = w
  BY <1>1, <1>2, <1>6
<1>8. v = u + j
  BY <1>1, <1>2, <1>3, <1>4, <1>7
<1> QED  BY <1>7, <1>8 DEF q, u, w, v

\* A position before another, in the same block, is before it in the block.
LEMMA BeforeInBlock ==
  ASSUME NEW p \in Nat, NEW n \in Nat, p < n, p \div BlockSize = n \div BlockSize
  PROVE  p % BlockSize < n % BlockSize
<1> DEFINE q == n \div BlockSize
           u == p % BlockSize
           v == n % BlockSize
<1>1. q \in Nat /\ u \in Nat /\ v \in Nat /\ p = q * BlockSize + u /\ n = q * BlockSize + v
  BY InBlock
<1>2. q * BlockSize \in Nat
  BY <1>1, SizesNat
<1> HIDE DEF q, u, v
<1>3. u < v
  BY <1>1, <1>2
<1> QED  BY <1>3 DEF u, v

LEMMA PieceRequest ==
  ASSUME NEW c \in CallType
  PROVE  PieceCounted(c).request = c.request
BY DEF PieceCounted, BlockEntered, CallType

\* Unit k of a request, of which n units go to offset off of a block after done have gone before.
LEMMA PieceNumbers ==
  ASSUME NEW k \in Nat, NEW done \in Nat, NEW n \in Nat, NEW off \in Nat, NEW size \in Nat,
         NEW o \in Nat, NEW p \in Nat, p = o + done, off + n <= size, k > done, k <= done + n
  PROVE  \E j \in Nat : /\ off + j < size /\ p + j = o + k - 1 /\ (off + j) + 1 \in 1 .. size
                        /\ (off + j) + 1 \in off + 1 .. off + n /\ done + ((off + j) + 1) - off = k
                        /\ j < n /\ j + 1 = k - done
<1> DEFINE j == (k - done) - 1
<1>1. j \in Nat /\ j < n /\ j + 1 = k - done
  OBVIOUS
<1>2. off + j < size /\ p + j = o + k - 1 /\ done + ((off + j) + 1) - off = k
  BY <1>1
<1>3. (off + j) + 1 \in 1 .. size /\ (off + j) + 1 \in off + 1 .. off + n
  BY <1>1
<1> HIDE DEF j
<1> QED  BY <1>1, <1>2, <1>3

\* What a piece of data that mfs_write copies to a block leaves alone, and what it changes.
LEMMA PieceStored ==
  ASSUME NEW d \in Disk, Sound(d, 0), NEW c \in CallType, c.at = "data_put",
         c.request.op = "write", WriteKnows(d, c), WriteServes(d, c),
         NEW e, e = PieceCounted(c), NEW f, f.block = [d.block EXCEPT ![c.data_blk] = PieceWritten(c)]
  PROVE  /\ c.data_blk \in Block
         /\ e.bytes = c.bytes + PieceLength(c) /\ e.slot = c.slot /\ PieceLength(c) \in Nat
         /\ \A p \in Nat : p < Position(c) =>
              UnitAt(f, c.idx_data, p) = UnitAt(d, c.idx_data, p)
         /\ \A p \in Nat : p < Position(c) =>
              UnitAt(f, e.idx_data, p) = UnitAt(d, c.idx_data, p)
         /\ \A k \in 1 .. e.bytes : k > c.bytes =>
              UnitAt(f, e.idx_data, c.request.offset + k - 1) = c.request.buf[k]
<1> DEFINE b == c.data_blk
           i == BlockIdx(c)
           q == i + 1
           off == BlockOff(c)
           n == PieceLength(c)
           o == c.request.offset
           old == OldBlock(c)
           new == PieceWritten(c)
<1>1. /\ c.inode.index_block # 0 /\ Writing(d, c) /\ c.bytes < Len(c.request.buf) /\ i < IndexSize
      /\ c.newly_allocated = (c.idx_data[q] = 0) /\ b \in d.bmap
      /\ c.newly_allocated => Pending(d, c)
      /\ ~ c.newly_allocated => b = c.idx_data[q] /\ c.blk_buf = d.block[b]
  BY DEF WriteKnows, WriteServes
<1>2. /\ c.bytes \in Nat /\ o \in Nat /\ Len(c.request.buf) \in Nat /\ c.idx_data \in IndexArray
      /\ c.newly_allocated \in BOOLEAN
  BY <1>1, CallFields, RequestFields DEF Writing
<1>3. /\ i \in Nat /\ off \in Nat /\ off < BlockSize /\ Position(c) \in Nat
      /\ Position(c) = o + c.bytes /\ q \in 1 .. IndexSize
  BY <1>1, PositionNat, SizesNat
<1>4. b \in Block /\ d.block \in [Block -> IndexArray \cup DataBlock]
  BY <1>1, DiskFields
<1>5. n \in Nat /\ off + n <= BlockSize /\ c.bytes + n <= Len(c.request.buf)
  <2>1. BlockSize \in Nat /\ Len(c.request.buf) \in Int
    BY <1>2, SizesNat
  <2> HIDE DEF off
  <2> QED  BY <1>1, <1>2, <1>3, <2>1, Chunk DEF PieceLength, off
<1>6. /\ e.bytes = c.bytes + n /\ e.slot = c.slot
      /\ c.newly_allocated => e.idx_data = [c.idx_data EXCEPT ![q] = b]
      /\ ~ c.newly_allocated => e.idx_data = c.idx_data
  BY <1>2, <1>3, <1>4, PieceFields
<1>7. e.idx_data[q] = b /\ \A l \in 1 .. IndexSize : l # q => e.idx_data[l] = c.idx_data[l]
  BY <1>1, <1>2, <1>3, <1>6 DEF IndexArray
<1>8. f.block[b] = new /\ \A a \in Block : a # b => f.block[a] = d.block[a]
  BY <1>4
<1>9. ASSUME NEW p \in Nat, p < Position(c)
      PROVE  /\ UnitAt(f, c.idx_data, p) = UnitAt(d, c.idx_data, p)
             /\ e.idx_data[p \div BlockSize + 1] = c.idx_data[p \div BlockSize + 1]
  <2> DEFINE z == p \div BlockSize + 1
             u == (p % BlockSize) + 1
             a == c.idx_data[z]
  <2>1. /\ z \in 1 .. IndexSize /\ a \in Block /\ a # 0 /\ u \in 1 .. BlockSize
        /\ \A l \in 1 .. IndexSize : c.idx_data[l] = a => l = z
    BY <1>1, <1>9, WrittenUnit
  <2>2. f.block[a][u] = d.block[a][u]
    <3>1. CASE a # b
      BY <1>8, <2>1, <3>1
    <3>2. CASE a = b
      <4>1. ~ c.newly_allocated
        BY <1>1, <2>1, <3>2 DEF Pending
      <4>2. z = q
        BY <1>1, <1>3, <2>1, <3>2, <4>1
      <4>3. p % BlockSize < off /\ p % BlockSize \in Nat
        <5>1. p \div BlockSize = i
          BY <1>3, <4>2, InBlock
        <5> QED  BY <1>3, <1>9, <5>1, BeforeInBlock, InBlock DEF BlockIdx, BlockOff
      <4>4. u \notin off + 1 .. off + n
        BY <1>3, <1>5, <4>3
      <4>5. new[u] = old[u]
        BY <2>1, <4>4 DEF PieceWritten
      <4>6. old = d.block[b]
        BY <1>1, <4>1 DEF OldBlock
      <4> HIDE DEF new, old, u, a
      <4> QED  BY <1>8, <3>2, <4>5, <4>6
    <3> QED  BY <3>1, <3>2
  <2>3. e.idx_data[z] = c.idx_data[z]
    <3>1. CASE z = q
      BY <1>1, <1>2, <1>6, <2>1, <3>1
    <3>2. CASE z # q
      BY <1>7, <2>1, <3>2
    <3> QED  BY <3>1, <3>2
  <2> QED  BY <2>2, <2>3 DEF UnitAt
<1>10. ASSUME NEW p \in Nat, p < Position(c)
       PROVE  UnitAt(f, e.idx_data, p) = UnitAt(d, c.idx_data, p)
  <2>1. UnitAt(f, c.idx_data, p) = UnitAt(d, c.idx_data, p)
    BY <1>9, <1>10
  <2>2. e.idx_data[p \div BlockSize + 1] = c.idx_data[p \div BlockSize + 1]
    BY <1>9, <1>10
  <2> QED  BY <2>1, <2>2 DEF UnitAt
<1>11. ASSUME NEW k \in 1 .. e.bytes, k > c.bytes
       PROVE  UnitAt(f, e.idx_data, o + k - 1) = c.request.buf[k]
  <2>0. k \in Nat /\ k <= c.bytes + n
    BY <1>2, <1>5, <1>6
  <2>1. PICK j \in Nat : /\ off + j < BlockSize /\ Position(c) + j = o + k - 1
                         /\ (off + j) + 1 \in 1 .. BlockSize
                         /\ (off + j) + 1 \in off + 1 .. off + n
                         /\ c.bytes + ((off + j) + 1) - off = k
    <3> DEFINE done == c.bytes
               p == Position(c)
    <3>1. /\ BlockSize \in Nat /\ done \in Nat /\ n \in Nat /\ off \in Nat /\ o \in Nat /\ p \in Nat
          /\ p = o + done /\ off + n <= BlockSize /\ k > done /\ k <= done + n /\ k \in Nat
      BY <1>2, <1>3, <1>5, <1>11, <2>0, SizesNat
    <3> HIDE DEF o, off, n, done, p
    <3>2. \E j \in Nat : /\ off + j < BlockSize /\ p + j = o + k - 1 /\ (off + j) + 1 \in 1 .. BlockSize
                         /\ (off + j) + 1 \in off + 1 .. off + n /\ done + ((off + j) + 1) - off = k
                         /\ j < n /\ j + 1 = k - done
      BY <3>1, PieceNumbers
    <3> QED  BY <3>2 DEF done, p
  <2> DEFINE u == (off + j) + 1
  <2>2. (o + k - 1) \div BlockSize = i /\ (o + k - 1) % BlockSize = off + j
    BY <1>3, <2>1, InSameBlock DEF BlockIdx, BlockOff
  <2>4. new[u] = c.request.buf[k]
    BY <2>1 DEF PieceWritten
  <2> HIDE DEF new
  <2>5. UnitAt(f, e.idx_data, o + k - 1) = new[u]
    BY <1>7, <1>8, <2>2 DEF UnitAt
  <2> QED  BY <2>4, <2>5
<1> HIDE DEF o
<1> QED  BY <1>4, <1>5, <1>6, <1>9, <1>10, <1>11 DEF o

LEMMA WriteDataServes ==
  ASSUME NEW t, Thread = {t}, IInv, IInv', Serving(t), WriteData(t)
  PROVE  Served(t)
<1> DEFINE c == call[t]
           b == c.data_blk
           e == PieceCounted(c)
           f == WriteLoop(e)
           o == c.request.offset
<1>1. /\ Put(t, "block", [disk.block EXCEPT ![b] = PieceWritten(c)], f)
      /\ SameDisk(disk, WithPiece(disk, c)) /\ AtLoop(WithPiece(disk, c), e)
  BY PieceIsWritten
<1>2. At(t, "data_put") /\ disk' = WithPiece(disk, c) /\ Goto(t, f)
  BY <1>1 DEF WriteData, Put, WithPiece, WithBlock
<1>3. /\ c \in CallType /\ c.at = "data_put" /\ Knows(disk, c) /\ Sound(disk, 0) /\ c # Idle
      /\ disk \in Disk /\ c.request.op \in {"readdir", "create", "unlink", "getattr", "read", "write"}
  BY <1>2, DueWhole, AccessFields
<1>4. c.request.op = "write" /\ WriteKnows(disk, c) /\ WriteServes(disk, c)
  BY <1>3 DEF Knows, CreateKnows, UnlinkKnows, ReadKnows, Serving, Serves
<1>5. Writing(disk, c) /\ OwnFile(disk, c) /\ Midway(c)
  BY <1>3, <1>4 DEF WriteKnows, Midway
<1>6. Asked(disk, c) /\ Copied(disk, c) /\ c.slot \in FilesOf(disk)
  BY <1>3, <1>4, <1>5 DEF WriteServes, OwnFile
<1>7. /\ disk'.root = disk.root /\ disk'.table = disk.table
      /\ disk'.block = [disk.block EXCEPT ![b] = PieceWritten(c)]
  BY <1>2, <1>3, PartWritten DEF WithPiece, WithBlock
<1>8. e.request = c.request
  BY <1>3, PieceRequest
<1> HIDE DEF f
<1>9. SameDisk(disk, disk') /\ AtLoop(disk', e)
  BY <1>1, <1>2
<1>10. /\ b \in Block /\ e.bytes = c.bytes + PieceLength(c) /\ e.slot = c.slot
       /\ PieceLength(c) \in Nat
       /\ \A p \in Nat : p < Position(c) =>
            UnitAt(disk', c.idx_data, p) = UnitAt(disk, c.idx_data, p)
       /\ \A p \in Nat : p < Position(c) =>
            UnitAt(disk', e.idx_data, p) = UnitAt(disk, c.idx_data, p)
       /\ \A k \in 1 .. e.bytes : k > c.bytes =>
            UnitAt(disk', e.idx_data, c.request.offset + k - 1) = c.request.buf[k]
  <2> DEFINE g == disk'
  <2>1. e = PieceCounted(c) /\ g.block = [disk.block EXCEPT ![c.data_blk] = PieceWritten(c)]
    BY <1>7
  <2> HIDE DEF c, e, g
  <2>2. /\ c.data_blk \in Block /\ e.bytes = c.bytes + PieceLength(c) /\ e.slot = c.slot
        /\ PieceLength(c) \in Nat
        /\ \A p \in Nat : p < Position(c) => UnitAt(g, c.idx_data, p) = UnitAt(disk, c.idx_data, p)
        /\ \A p \in Nat : p < Position(c) => UnitAt(g, e.idx_data, p) = UnitAt(disk, c.idx_data, p)
        /\ \A k \in 1 .. e.bytes : k > c.bytes =>
             UnitAt(g, e.idx_data, c.request.offset + k - 1) = c.request.buf[k]
    BY <1>3, <1>4, <2>1, PieceStored
  <2> QED  BY <2>2 DEF g
<1>11. o \in Nat /\ c.bytes \in Nat /\ Position(c) = o + c.bytes
  BY <1>3, <1>4, CallFields, RequestFields DEF Position
<1> HIDE DEF e
<1>12. LoopServes(disk', e)
  <2>1. Asked(disk', e)
    BY <1>6, <1>7, <1>8, <1>10 DEF Asked
  <2>2. Node(disk', e.slot).size = e.request.offset
    BY <1>6, <1>8, <1>9, <1>10 DEF Copied, SameDisk
  <2>3. ASSUME NEW k \in 1 .. e.bytes
        PROVE  UnitAt(disk', e.idx_data, e.request.offset + k - 1) = e.request.buf[k]
    <3>0. k \in Nat \ {0}
      BY <1>10, <1>11
    <3>1. CASE k <= c.bytes
      <4> DEFINE p == o + k - 1
      <4>1. p \in Nat /\ p < Position(c) /\ k \in 1 .. c.bytes
        BY <1>11, <3>0, <3>1
      <4>2. UnitAt(disk, c.idx_data, p) = c.request.buf[k]
        BY <1>6, <4>1 DEF Copied
      <4> HIDE DEF p
      <4>3. UnitAt(disk', e.idx_data, p) = c.request.buf[k]
        BY <1>10, <4>1, <4>2
      <4> QED  BY <1>8, <4>3 DEF p
    <3>2. CASE ~ k <= c.bytes
      <4>1. k > c.bytes
        BY <1>11, <3>0, <3>2
      <4> QED  BY <1>8, <1>10, <4>1
    <3> QED  BY <3>1, <3>2
  <2> QED  BY <2>1, <2>2, <2>3 DEF LoopServes, Copied
<1>13. StoreOf(disk') = StoreOf(disk)
  <2>1. ASSUME NEW s \in FilesOf(disk), s # c.slot PROVE Text(disk', s) = Text(disk, s)
    <3>1. ASSUME NEW k \in Place \ {0}, Blk(disk, s, k) # 0
          PROVE  /\ Blk(disk', s, k) = Blk(disk, s, k)
                 /\ disk'.block[Blk(disk, s, k)] = disk.block[Blk(disk, s, k)]
      <4>1. Blk(disk', s, k) = Blk(disk, s, k) /\ Blk(disk, s, k) \in Block
        BY <1>3, <1>9, <3>1, BlkInBlock DEF SameDisk
      <4>2. Blk(disk, s, k) # b
        <5>1. CASE c.newly_allocated
          BY <1>3, <1>4, <5>1 DEF WriteKnows, Pending, Unused
        <5>2. CASE ~ c.newly_allocated
          <6> DEFINE q == BlockIdx(c) + 1
          <6>1. BlockIdx(c) < IndexSize /\ c.idx_data[q] = b /\ c.inode.index_block # 0
            BY <1>3, <1>4, <5>2 DEF WriteKnows
          <6>2. q \in Place \ {0}
            BY <1>3, <1>4, <6>1, PositionNat, SizesNat DEF Place
          <6>3. b # 0
            BY <1>10, Nonzero
          <6> HIDE DEF c, q, b
          <6> QED  BY <1>3, <1>5, <2>1, <6>1, <6>2, <6>3, WritingApart
        <5> QED  BY <5>1, <5>2
      <4> QED  BY <1>3, <1>7, <4>1, <4>2, DiskFields
    <3>2. Node(disk', s) = Node(disk, s)
      BY <1>9 DEF SameDisk
    <3> QED  BY <1>3, <3>1, <3>2, TextApart
  <2>2. Text(disk', c.slot) = Text(disk, c.slot)
    <3>1. Node(disk', c.slot).size = o /\ Node(disk, c.slot).size = o
          /\ Node(disk', c.slot) = Node(disk, c.slot)
      BY <1>6, <1>9 DEF Copied, SameDisk
    <3>2. ASSUME NEW k \in 1 .. o
          PROVE  UnitAt(disk', IndexIn(disk', c.slot), k - 1) = UnitAt(disk, IndexIn(disk, c.slot), k - 1)
      <4> DEFINE q == (k - 1) \div BlockSize + 1
      <4>1. k \in 1 .. Node(disk, c.slot).size /\ k - 1 \in Nat /\ k - 1 < Position(c)
        BY <1>11, <3>1
      <4>2. /\ q \in 1 .. IndexSize /\ q \in Place /\ q # 0
            /\ Blk(disk, c.slot, q) # 0 /\ IndexIn(disk, c.slot)[q] = Blk(disk, c.slot, q)
        BY <1>3, <1>6, <4>1, UnitOfFile
      <4> HIDE DEF q
      <4>3. c.idx_data[q] = Blk(disk, c.slot, q)
        BY <1>5, <4>2 DEF Writing
      <4>4. Blk(disk', c.slot, q) = Blk(disk, c.slot, q)
        BY <1>6, <1>9, <4>2 DEF SameDisk
      <4>5. IndexIn(disk', c.slot)[q] = Blk(disk', c.slot, q)
        BY <4>2, <4>4 DEF IndexIn, Blk
      <4>6. UnitAt(disk', c.idx_data, k - 1) = UnitAt(disk, c.idx_data, k - 1)
        BY <1>10, <4>1
      <4> HIDE DEF c
      <4> QED  BY <4>2, <4>3, <4>4, <4>5, <4>6 DEF UnitAt, q
    <3> QED  BY <3>1, <3>2 DEF Text
  <2> QED  BY <1>7, <1>9, <2>1, <2>2, SameStore DEF SameDisk
<1>14. LoopLeads(disk', e, f)
  BY <1>9, <1>12, WriteLoopServes DEF f
<1>15. Node(disk, c.slot).size = c.request.offset
  BY <1>6 DEF Copied
<1> QED  BY <1>2, <1>3, <1>4, <1>5, <1>6, <1>8, <1>13, <1>14, <1>15, WritesOwnFile, LoopStep

-----------------------------------------------------------------------------
(* Access by access: data is read.                                         *)

\* mfs_write has the old contents of the block it will change.
LEMMA BlockForWriteServes ==
  ASSUME NEW t, Thread = {t}, IInv, IInv', Serving(t), ReadData(t), call[t].request.op = "write"
  PROVE  Served(t)
<1> DEFINE c == call[t]
           b == c.data_blk
           blk == IF b = 0 THEN Zeros(BlockSize) ELSE disk.block[b]
           e == [c EXCEPT !.blk_buf = blk, !.at = "data_put"]
<1>1. At(t, "data_get") /\ Goto(t, e) /\ disk' = disk
  BY DEF ReadData, Get, Op
<1>2. c \in CallType /\ c.at = "data_get" /\ Knows(disk, c) /\ c # Idle
  BY <1>1, DueWhole, AccessFields
<1>3. WriteKnows(disk, c) /\ WriteServes(disk, c)
  BY <1>2 DEF Knows, Serving, Serves
<1>4. Midway(c) /\ Writing(disk, c) /\ b \in disk.bmap /\ disk \in Disk
  BY <1>1, <1>2, <1>3, DueWhole DEF WriteKnows, Midway
<1>5. b # 0 /\ blk = disk.block[b]
  BY <1>4, DiskFields, Nonzero
<1> HIDE DEF blk
<1>6. /\ e.at = "data_put" /\ e.request = c.request /\ e.blk_buf = blk /\ e.data_blk = b
      /\ e.slot = c.slot /\ e.idx_data = c.idx_data /\ e.bytes = c.bytes
  BY <1>2 DEF CallType
<1> HIDE DEF e
<1>7. Asked(disk, e) /\ Copied(disk, e)
  BY <1>2, <1>3, <1>4, <1>6 DEF WriteServes, Asked, Copied
<1>8. WriteServes(disk, e)
  BY <1>5, <1>6, <1>7 DEF WriteServes
<1>9. Serves(disk, e) /\ e.at \in NextAccess
  BY <1>6, <1>8 DEF Serves, NextAccess
<1> QED  BY <1>1, <1>2, <1>6, <1>9, GoesOnUnseen

LEMMA Piece ==
  ASSUME NEW S, NEW u \in Seq(S), NEW off \in Nat, NEW n \in Nat, off + n <= Len(u)
  PROVE  /\ SubSeq(u, off + 1, off + n) \in Seq(S) /\ Len(SubSeq(u, off + 1, off + n)) = n
         /\ \A k \in 1 .. n : SubSeq(u, off + 1, off + n)[k] = u[off + k]
<1> DEFINE a == off + 1
           z == off + n
<1>1. a \in Int /\ z \in Int /\ z - a + 1 = n /\ \A i \in a .. z : u[i] \in S
  OBVIOUS
<1>2. (IF a <= z THEN z - a + 1 ELSE 0) = n
  OBVIOUS
<1>3. \A k \in 1 .. n : a + k - 1 = off + k
  OBVIOUS
<1> HIDE DEF a, z
<1>4. /\ SubSeq(u, a, z) \in Seq(S)
      /\ Len(SubSeq(u, a, z)) = IF a <= z THEN z - a + 1 ELSE 0
      /\ \A k \in 1 .. z - a + 1 : SubSeq(u, a, z)[k] = u[a + k - 1]
  BY <1>1, SubSeqProperties
<1> QED  BY <1>1, <1>2, <1>3, <1>4 DEF a, z

\* What has been fetched, u, grown by a piece, p.
LEMMA FetchedMore ==
  ASSUME NEW S, NEW u \in Seq(S), NEW p \in Seq(S), NEW F,
         \A k \in 1 .. Len(u) : u[k] = F[k], \A k \in 1 .. Len(p) : p[k] = F[Len(u) + k]
  PROVE  /\ u \o p \in Seq(S) /\ Len(u \o p) = Len(u) + Len(p)
         /\ \A k \in 1 .. Len(u) + Len(p) : (u \o p)[k] = F[k]
<1> DEFINE m == Len(u)
           n == Len(p)
<1>0. m \in Nat /\ n \in Nat
  OBVIOUS
<1>1. u \o p \in Seq(S) /\ Len(u \o p) = m + n
  OBVIOUS
<1>2. ASSUME NEW k \in 1 .. m + n PROVE (u \o p)[k] = F[k]
  <2>1. CASE k <= m
    <3>1. (u \o p)[k] = u[k] /\ k \in 1 .. m
      BY <2>1
    <3> QED  BY <3>1
  <2>2. CASE ~ k <= m
    <3>1. k - m \in 1 .. n /\ m + (k - m) = k
      BY <2>2
    <3>2. (u \o p)[k] = p[k - m]
      BY <2>2
    <3> QED  BY <3>1, <3>2
  <2> QED  BY <2>1, <2>2
<1> QED  BY <1>1, <1>2
\* The block that mfs_read has fetched, and the piece of it that it takes.
BlockFetched(d, c) ==
  LET b == c.idx_data[BlockIdx(c) + 1] IN IF b = 0 THEN Zeros(BlockSize) ELSE d.block[b]
FetchLength(c) == Min({BlockSize - BlockOff(c), ToReadTotal(c) - c.bytes})
PieceFetched(d, c) == SubSeq(BlockFetched(d, c), BlockOff(c) + 1, BlockOff(c) + FetchLength(c))

LEMMA ReadPlace ==
  ASSUME NEW d \in Disk, Sound(d, 0), NEW c \in CallType, c.at = "data_get",
         c.request.op = "read", ReadKnows(d, c)
  PROVE  /\ FetchLength(c) \in Nat /\ BlockOff(c) + FetchLength(c) <= BlockSize
         /\ c.bytes + FetchLength(c) <= ToReadTotal(c) /\ ToReadTotal(c) \in Int
         /\ BlockFetched(d, c) = d.block[c.idx_data[BlockIdx(c) + 1]]
         /\ BlockFetched(d, c) \in Seq(Unit \cup {0}) /\ Len(BlockFetched(d, c)) = BlockSize
<1> DEFINE off == BlockOff(c)
           total == ToReadTotal(c)
           o == c.request.offset
           b == c.idx_data[BlockIdx(c) + 1]
<1>1. /\ OwnFile(d, c) /\ c.inode = Node(d, c.slot) /\ c.inode.index_block # 0
      /\ o < c.inode.size /\ c.idx_data = d.block[c.inode.index_block] /\ c.bytes < total
  BY DEF ReadKnows
<1>2. /\ o \in Nat /\ c.request.size \in Nat /\ c.inode.size \in Nat /\ c.bytes \in Nat
  BY CallFields, NodeFields, RequestFields
<1>3. total \in Int /\ total <= c.inode.size - o
  <2> DEFINE l == c.inode.size - o
             r == c.request.size
  <2>1. l \in Int /\ r \in Int
    BY <1>2
  <2>2. total = IF r <= l THEN r ELSE l
    BY <2>1, MinOfTwo DEF ToReadTotal
  <2> HIDE DEF l, r, total
  <2>3. total \in Int /\ total <= l
    BY <2>1, <2>2
  <2> QED  BY <2>3 DEF l
<1>4. /\ off \in Nat /\ off < BlockSize /\ Position(c) \in Nat /\ Position(c) = o + c.bytes
      /\ Position(c) < c.inode.size
  <2>1. off \in Nat /\ off < BlockSize /\ Position(c) \in Nat /\ Position(c) = o + c.bytes
    BY PositionNat
  <2> HIDE DEF total, o
  <2> QED  BY <1>1, <1>2, <1>3, <2>1
<1>5. b # 0 /\ d.block[b] \in DataBlock
  <2>1. c.slot \in FilesOf(d) /\ Node(d, c.slot).index_block # 0
    BY <1>1 DEF OwnFile
  <2>2. /\ Mapped(IndexSize, c.idx_data, c.inode.size)
        /\ \A k \in 1 .. IndexSize : c.idx_data[k] # 0 => d.block[c.idx_data[k]] \in DataBlock
    <3> DEFINE x == Node(d, c.slot)
    <3>1. /\ Mapped(IndexSize, d.block[x.index_block], x.size)
          /\ \A k \in 1 .. IndexSize : d.block[x.index_block][k] # 0 =>
               d.block[d.block[x.index_block][k]] \in DataBlock
      BY <2>1, IndexOfFile, SMTT(60)
    <3> HIDE DEF x
    <3>2. c.inode = x /\ c.idx_data = d.block[x.index_block]
      BY <1>1 DEF x
    <3> QED  BY <3>1, <3>2
  <2>3. BlockIdx(c) + 1 \in 1 .. IndexSize /\ c.idx_data[BlockIdx(c) + 1] # 0
    BY <1>2, <1>4, <2>2, BlockOfPosition, SizesNat DEF BlockIdx
  <2> QED  BY <2>2, <2>3
<1>6. FetchLength(c) \in Nat /\ off + FetchLength(c) <= BlockSize /\ c.bytes + FetchLength(c) <= total
  <2> HIDE DEF off, total
  <2> QED  BY <1>1, <1>2, <1>3, <1>4, SizesNat, Chunk DEF FetchLength, off, total
<1> HIDE DEF off, total, o, b
<1>7. BlockFetched(d, c) = d.block[b]
  BY <1>5 DEF BlockFetched, b
<1>8. BlockFetched(d, c) \in Seq(Unit \cup {0}) /\ Len(BlockFetched(d, c)) = BlockSize
  BY <1>5, <1>7, SizesNat DEF DataBlock
<1> QED  BY <1>3, <1>6, <1>7, <1>8 DEF off, total, b

\* mfs_read has fetched a piece more.
LEMMA MoreFetched ==
  ASSUME NEW d \in Disk, Sound(d, 0), NEW c \in CallType, c.at = "data_get",
         c.request.op = "read", ReadKnows(d, c), Fetched(d, c)
  PROVE  LET w == c.out \o PieceFetched(d, c)
             m == c.bytes + FetchLength(c)
         IN  /\ w \in Seq(Unit \cup {0}) /\ m \in Nat /\ Len(w) = m /\ m <= ToReadTotal(c)
             /\ \A k \in 1 .. m : w[k] = UnitAt(d, c.idx_data, c.request.offset + k - 1)
<1> DEFINE off == BlockOff(c)
           n == FetchLength(c)
           o == c.request.offset
           S == Unit \cup {0}
           done == c.bytes
           blk == BlockFetched(d, c)
           piece == PieceFetched(d, c)
           u == c.out
           pos == Position(c)
           w == c.out \o PieceFetched(d, c)
           m == c.bytes + FetchLength(c)
           F == [k \in 1 .. done + n |-> UnitAt(d, c.idx_data, o + k - 1)]
<1>1. done \in Nat /\ u \in Seq(S) /\ Len(u) = done /\ o \in Nat
  BY CallFields, RequestFields DEF Fetched
<1>2. /\ n \in Nat /\ off + n <= BlockSize /\ done + n <= ToReadTotal(c)
      /\ blk = d.block[c.idx_data[BlockIdx(c) + 1]] /\ blk \in Seq(S) /\ Len(blk) = BlockSize
  BY ReadPlace
<1>3. off \in Nat /\ pos \in Nat /\ pos = o + done /\ BlockSize \in Nat
  BY PositionNat, SizesNat
<1>4. \A k \in 1 .. done : u[k] = UnitAt(d, c.idx_data, o + k - 1)
  BY DEF Fetched
<1>5. /\ piece \in Seq(S) /\ Len(piece) = n
      /\ \A k \in 1 .. n : piece[k] = blk[off + k]
  <2>1. off + n <= Len(blk)
    BY <1>2
  <2>2. piece = SubSeq(blk, off + 1, off + n)
    BY DEF PieceFetched
  <2> HIDE DEF off, n, S, blk, piece
  <2>3. /\ SubSeq(blk, off + 1, off + n) \in Seq(S) /\ Len(SubSeq(blk, off + 1, off + n)) = n
        /\ \A k \in 1 .. n : SubSeq(blk, off + 1, off + n)[k] = blk[off + k]
    BY <1>2, <1>3, <2>1, Piece
  <2> QED  BY <2>2, <2>3
<1>6. ASSUME NEW k \in 1 .. n PROVE UnitAt(d, c.idx_data, o + (done + k) - 1) = blk[off + k]
  <2> DEFINE p == o + (done + k) - 1
             j == k - 1
  <2>1. j \in Nat /\ off + j < BlockSize /\ p = pos + j /\ off + j + 1 = off + k
    <3> HIDE DEF off, n, o, done, pos
    <3> QED  BY <1>1, <1>2, <1>3
  <2> HIDE DEF j, p
  <2>2. p \div BlockSize = BlockIdx(c) /\ p % BlockSize = off + j
    BY <1>3, <2>1, InSameBlock DEF BlockIdx, BlockOff
  <2> HIDE DEF off, blk
  <2>3. UnitAt(d, c.idx_data, p) = blk[off + k]
    BY <1>2, <2>1, <2>2 DEF UnitAt
  <2> QED  BY <2>3 DEF p
<1> HIDE DEF off, n, o, S, done, blk, piece, u, pos
<1>7. /\ \A k \in 1 .. done : u[k] = F[k]
      /\ \A k \in 1 .. n : piece[k] = F[done + k]
  <2>1. ASSUME NEW k \in 1 .. done PROVE u[k] = F[k]
    <3>1. k \in 1 .. done + n
      BY <1>1, <1>2
    <3> QED  BY <1>4, <3>1
  <2>2. ASSUME NEW k \in 1 .. n PROVE piece[k] = F[done + k]
    <3>1. done + k \in 1 .. done + n
      BY <1>1, <1>2
    <3> QED  BY <1>5, <1>6, <3>1
  <2> QED  BY <2>1, <2>2
<1> HIDE DEF F
<1>8. w = u \o piece /\ m = done + n
  BY DEF u, piece, done, n
<1> HIDE DEF w, m
<1>9. /\ u \o piece \in Seq(S) /\ Len(u \o piece) = done + n
      /\ \A k \in 1 .. done + n : (u \o piece)[k] = F[k]
  <2>1. u \in Seq(S) /\ piece \in Seq(S)
    BY <1>1, <1>5
  <2>2. /\ \A k \in 1 .. Len(u) : u[k] = F[k]
        /\ \A k \in 1 .. Len(piece) : piece[k] = F[Len(u) + k]
    BY <1>1, <1>5, <1>7
  <2>3. /\ u \o piece \in Seq(S) /\ Len(u \o piece) = Len(u) + Len(piece)
        /\ \A k \in 1 .. Len(u) + Len(piece) : (u \o piece)[k] = F[k]
    BY ONLY <2>1, <2>2, FetchedMore
  <2> QED  BY <1>1, <1>5, <2>3
<1>10. m \in Nat
  BY <1>1, <1>2, <1>8
<1>11. w \in Seq(S) /\ Len(w) = m /\ m <= ToReadTotal(c) /\ \A k \in 1 .. m : w[k] = F[k]
  BY <1>2, <1>8, <1>9
<1>12. \A k \in 1 .. m : F[k] = UnitAt(d, c.idx_data, c.request.offset + k - 1)
  BY <1>8 DEF F, o
<1> QED  BY <1>10, <1>11, <1>12 DEF S, w, m

\* All that mfs_read fetches is what was asked of the file.
LEMMA AllFetched ==
  ASSUME NEW d \in Disk, Sound(d, 0), NEW s \in FilesOf(d), Node(d, s).index_block # 0,
         NEW o \in Nat, NEW size \in Nat, o < Node(d, s).size,
         NEW w \in Seq(Unit \cup {0}), Len(w) = Min({size, Node(d, s).size - o}),
         \A k \in 1 .. Len(w) : w[k] = UnitAt(d, d.block[Node(d, s).index_block], o + k - 1)
  PROVE  w = SubSeq(Text(d, s), o + 1, Min({o + size, Node(d, s).size}))
<1> DEFINE T == Text(d, s)
           z == Node(d, s).size
           n == Len(w)
           idx == d.block[Node(d, s).index_block]
<1>1. T \in Seq(Unit \cup {0}) /\ Len(T) = z /\ z \in Nat
  BY TextIsSeq
<1>2. n \in Nat /\ n <= z - o /\ Min({o + size, z}) = o + n
  <2>1. z - o \in Int /\ size \in Int /\ o + size \in Int /\ z \in Int
    BY <1>1
  <2>2. /\ Min({size, z - o}) = IF size <= z - o THEN size ELSE z - o
        /\ Min({o + size, z}) = IF o + size <= z THEN o + size ELSE z
    BY <2>1, MinOfTwo
  <2>3. n = IF size <= z - o THEN size ELSE z - o
    BY <2>2
  <2>4. o < z
    OBVIOUS
  <2> HIDE DEF n, z
  <2> QED  BY <1>1, <2>2, <2>3, <2>4
<1>3. \A k \in 1 .. z : T[k] = UnitAt(d, idx, k - 1)
  BY DEF Text, IndexIn
<1> HIDE DEF T, z, n, idx
<1>4. o + n <= Len(T)
  BY <1>1, <1>2
<1>5. /\ SubSeq(T, o + 1, o + n) \in Seq(Unit \cup {0}) /\ Len(SubSeq(T, o + 1, o + n)) = n
      /\ \A k \in 1 .. n : SubSeq(T, o + 1, o + n)[k] = T[o + k]
  BY <1>1, <1>2, <1>4, Piece
<1>6. ASSUME NEW k \in 1 .. n PROVE w[k] = T[o + k]
  <2>1. o + k \in 1 .. z /\ (o + k) - 1 = o + k - 1
    BY <1>1, <1>2
  <2>2. T[o + k] = UnitAt(d, idx, (o + k) - 1)
    BY <1>3, <2>1
  <2>3. w[k] = UnitAt(d, idx, o + k - 1)
    BY DEF n, idx
  <2> QED  BY <2>1, <2>2, <2>3
<1>7. w = SubSeq(T, o + 1, o + n)
  <2> DEFINE v == SubSeq(T, o + 1, o + n)
  <2>1. v \in Seq(Unit \cup {0}) /\ Len(v) = n /\ \A k \in 1 .. n : w[k] = v[k]
    BY <1>5, <1>6
  <2> HIDE DEF v
  <2> QED  BY <2>1, SeqEqual DEF n, v
<1> QED  BY <1>2, <1>7 DEF T, z

LEMMA ReadDataServes ==
  ASSUME NEW t, Thread = {t}, IInv, IInv', Serving(t), ReadData(t)
  PROVE  Served(t)
<1> DEFINE c == call[t]
<1>1. At(t, "data_get") /\ disk' = disk
  BY DEF ReadData, Get
<1>2. /\ c \in CallType /\ c.at = "data_get" /\ Knows(disk, c) /\ c # Idle /\ Sound(disk, 0)
      /\ disk \in Disk /\ c.request \in Request
  BY <1>1, DueWhole, AccessFields
<1>3. CASE c.request.op = "write"
  BY <1>3, BlockForWriteServes
<1>4. CASE c.request.op = "read"
  <2> DEFINE w == c.out \o PieceFetched(disk, c)
             m == c.bytes + FetchLength(c)
             e == [c EXCEPT !.out = w, !.bytes = m]
             r == c.request
             s == c.slot
  <2>1. Get(t, IF e.bytes < ToReadTotal(e) THEN e ELSE Return(e, e.out))
    BY <1>4 DEF ReadData, Op, PieceFetched, FetchLength, BlockFetched
  <2>2. ReadKnows(disk, c) /\ ReadServes(disk, c)
    BY <1>2, <1>4 DEF Knows, Serving, Serves
  <2>3. /\ c.inode = Node(disk, s) /\ c.inode.index_block # 0 /\ s \in FilesOf(disk)
        /\ r.offset < c.inode.size /\ c.idx_data = disk.block[c.inode.index_block]
        /\ Asked(disk, c) /\ Fetched(disk, c)
    BY <1>2, <2>2 DEF ReadKnows, OwnFile, ReadServes
  <2>4. r.offset \in Nat /\ r.size \in Nat
    BY <1>2, <1>4, RequestFields
  <2>5. /\ w \in Seq(Unit \cup {0}) /\ m \in Nat /\ Len(w) = m /\ m <= ToReadTotal(c)
        /\ \A k \in 1 .. m : w[k] = UnitAt(disk, c.idx_data, r.offset + k - 1)
    <3>1. /\ c \in CallType /\ c.at = "data_get" /\ c.request.op = "read" /\ ReadKnows(disk, c)
          /\ Fetched(disk, c) /\ disk \in Disk /\ Sound(disk, 0)
      BY <1>2, <1>4, <2>2, <2>3
    <3> HIDE DEF c
    <3> QED  BY <3>1, MoreFetched
  <2>6. ToReadTotal(c) \in Int
    BY <1>2, <1>4, <2>2, ReadPlace
  <2> HIDE DEF w, m
  <2>7. /\ e \in CallType /\ e.at = "data_get" /\ e.request = r /\ e.slot = s /\ e.inode = c.inode
        /\ e.idx_data = c.idx_data /\ e.bytes = m /\ e.out = w
    BY <1>2, <2>5 DEF CallType
  <2> HIDE DEF e
  <2>8. ToReadTotal(e) = ToReadTotal(c)
    BY <2>7 DEF ToReadTotal
  <2>9. Asked(disk, e)
    BY <2>3, <2>7 DEF Asked
  <2>10. CASE m < ToReadTotal(c)
    <3>1. Fetched(disk, e)
      BY <2>5, <2>7 DEF Fetched
    <3>2. Serves(disk, e)
      BY <1>4, <2>7, <2>9, <3>1 DEF Serves, ReadServes
    <3>3. Goto(t, e) /\ e.at \in NextAccess
      BY <2>1, <2>7, <2>8, <2>10 DEF Get, NextAccess
    <3> QED  BY <1>1, <1>2, <2>7, <3>2, <3>3, GoesOnUnseen
  <2>11. CASE ~ m < ToReadTotal(c)
    <3>1. m = ToReadTotal(c)
      BY <2>5, <2>6, <2>11
    <3>2. Len(w) = Min({r.size, Node(disk, s).size - r.offset})
      BY <2>3, <2>5, <3>1 DEF ToReadTotal
    <3>3. \A k \in 1 .. Len(w) :
            w[k] = UnitAt(disk, disk.block[Node(disk, s).index_block], r.offset + k - 1)
      BY <2>3, <2>5
    <3>4. w = SubSeq(Text(disk, s), r.offset + 1, Min({r.offset + r.size, Node(disk, s).size}))
      BY <1>2, <2>3, <2>4, <2>5, <3>2, <3>3, AllFetched
    <3>5. Goto(t, Return(e, w))
      BY <2>1, <2>7, <2>8, <2>11 DEF Get
    <3>6. Serving(t)' /\ Answered(r, w)
      BY <1>2, <2>7, <3>5, ReturnFields, ReturnsAnswer
    <3>7. StoreStep
      BY <1>1, <1>2, <1>4, <2>3, <3>4, <3>6, StepRead DEF Asked
    <3> QED  BY <3>6, <3>7 DEF Served
  <2> QED  BY <2>10, <2>11
<1> QED  BY <1>3, <1>4 DEF ReadData, Op

-----------------------------------------------------------------------------
(* The file system implements the store.                                   *)

LEMMA AccessServes ==
  ASSUME NEW t, Thread = {t}, IInv, IInv', Serving(t), Access(t)
  PROVE  Served(t)
<1>1. CASE FindEntry(t)          BY <1>1, FindEntryServes
<1>2. CASE ListRoot(t)           BY <1>2, ListRootServes
<1>3. CASE ReadRoot(t)           BY <1>3, ReadRootServes
<1>4. CASE WriteRoot(t)          BY <1>4, WriteRootServes
<1>5. CASE ReadInodeBitmap(t)    BY <1>5, ReadInodeBitmapServes
<1>6. CASE WriteInodeBitmap(t)   BY <1>6, WriteInodeBitmapServes
<1>7. CASE ReadInode(t)          BY <1>7, ReadInodeServes
<1>8. CASE ReadInodeTable(t)     BY <1>8, ReadInodeTableServes
<1>9. CASE WriteInodeTable(t)    BY <1>9, WriteInodeTableServes
<1>10. CASE ReadIndexBlock(t)    BY <1>10, ReadIndexBlockServes
<1>11. CASE WriteEmptyIndex(t)   BY <1>11, WriteEmptyIndexServes
<1>12. CASE WriteIndexBlock(t)   BY <1>12, WriteIndexBlockServes
<1>13. CASE ReadBlockBitmap(t)   BY <1>13, ReadBlockBitmapServes
<1>14. CASE WriteBlockBitmap(t)  BY <1>14, WriteBlockBitmapServes
<1>15. CASE ReadBitmapToFree(t)  BY <1>15, ReadBitmapToFreeServes
<1>16. CASE WriteBitmapFreed(t)  BY <1>16, WriteBitmapFreedServes
<1>17. CASE ReadData(t)          BY <1>17, ReadDataServes
<1>18. CASE WriteData(t)         BY <1>18, WriteDataServes
<1> QED  BY <1>1, <1>2, <1>3, <1>4, <1>5, <1>6, <1>7, <1>8, <1>9, <1>10, <1>11, <1>12, <1>13, <1>14,
            <1>15, <1>16, <1>17, <1>18 DEF Access

AllServe == Inv /\ \A t \in Thread : Serving(t)

LEMMA InitServes ==
  ASSUME Init
  PROVE  AllServe /\ Store!Init
<1>1. Inv
  BY InitInv
<1>2. \A t \in Thread : call[t] = Idle
  BY DEF Init
<1>3. \A t \in Thread : Serving(t)
  BY <1>2 DEF Serving
<1>4. FilesOf(disk) = {}
  BY DEF Init, FilesOf
<1>5. Names(disk) = {}
  BY <1>4 DEF Names
<1>6. Stored = [n \in {} |-> <<>>]
  BY <1>5, StoredIs DEF StoreOf
<1>7. {call[t].request : t \in Busy} = {}
  BY <1>2 DEF Busy, At, Idle
<1> QED  BY <1>1, <1>3, <1>6, <1>7 DEF AllServe, Store!Init, Init

LEMMA NextServes ==
  ASSUME OneThread, ~ TornUnlink, AllServe, [Next]_vars
  PROVE  AllServe' /\ StoreStep
<1>1. PICK t : Thread = {t}
  BY DEF OneThread
<1>2. Inv /\ Inv' /\ IInv /\ IInv' /\ Serving(t)
  BY <1>1, NextInv DEF AllServe, Inv
<1>3. CASE UNCHANGED vars
  <2>1. Serving(t)'
    BY <1>2, <1>3 DEF Serving, vars
  <2>2. StoreOf(disk') = StoreOf(disk) /\ Requests' = Requests /\ UNCHANGED last
    BY <1>3 DEF vars, Requests, Busy, At
  <2> QED  BY <1>1, <1>2, <2>1, <2>2, Unseen DEF AllServe
<1>4. CASE Next
  <2>1. Served(t)
    <3>1. CASE Enter(t)   BY <1>1, <1>2, <3>1, EnterServes
    <3>2. CASE Access(t)  BY <1>1, <1>2, <3>2, AccessServes
    <3>3. CASE Crash      BY <1>1, <1>2, <3>3, CrashServes
    <3> QED  BY <1>1, <1>4, <3>1, <3>2, <3>3 DEF Next
  <2> QED  BY <1>1, <1>2, <2>1 DEF Served, AllServe
<1> QED  BY <1>3, <1>4

\* For the user of a mounted disk of any size mfs is a store of named files: a request takes effect at
\* one of the accesses of its handler (create and unlink where they write the root directory, write
\* where it writes the inode table) and every other access, wherever the program is killed, changes
\* nothing that a later request can see; the answer is the one of the store.  For one FUSE thread and
\* no kill within the accesses of unlink that free blocks.
THEOREM StoresFiles ==
  ASSUME OneThread, ~ TornUnlink
  PROVE  Spec => ImplementsFiles
<1>1. Init => AllServe /\ Store!Init
  BY InitServes
<1>2. AllServe /\ [Next]_vars => AllServe' /\ [Store!Next]_(Store!vars)
  BY NextServes DEF StoreStep
<1> QED  BY <1>1, <1>2, PTL DEF Spec, ImplementsFiles, Store!Spec

-----------------------------------------------------------------------------
(* What a file holds stays its beginning.                                  *)

LEMMA StoredSeq ==
  ASSUME NEW t, Thread = {t}, IInv, NEW n \in DOMAIN Stored
  PROVE  Stored[n] \in Seq(Unit \cup {0})
<1>1. Sound(disk, Torn(call[t]))
  BY DEF IInv, Fine
<1>2. n \in Names(disk)
  BY StoredIs, StoreDomain
<1>3. PICK s \in FilesOf(disk) : n = disk.root[s].name
  BY <1>2 DEF Names
<1>4. Stored[n] = Text(disk, s)
  BY <1>1, <1>3, StoredIs, InStore DEF Sound
<1> QED  BY <1>1, <1>4, TextIsSeq

LEMMA PrefixOfLonger ==
  ASSUME NEW S, NEW u \in Seq(S), NEW w \in Seq(S)
  PROVE  IsPrefix(u, u \o w)
<1> DEFINE v == u \o w
           m == Len(u)
<1>1. v \in Seq(S) /\ Len(v) = m + Len(w) /\ m \in Nat /\ Len(w) \in Nat
  OBVIOUS
<1>2. \A k \in 1 .. m : v[k] = u[k]
  OBVIOUS
<1> HIDE DEF v, m
<1>3. m <= Len(v) /\ 0 + m <= Len(v)
  BY <1>1
<1>4. 0 + m <= Len(u)
  BY <1>1 DEF m
<1>5. /\ SubSeq(u, 0 + 1, 0 + m) \in Seq(S) /\ Len(SubSeq(u, 0 + 1, 0 + m)) = m
      /\ \A k \in 1 .. m : SubSeq(u, 0 + 1, 0 + m)[k] = u[0 + k]
  BY <1>1, <1>4, Piece
<1>6. /\ SubSeq(v, 0 + 1, 0 + m) \in Seq(S) /\ Len(SubSeq(v, 0 + 1, 0 + m)) = m
      /\ \A k \in 1 .. m : SubSeq(v, 0 + 1, 0 + m)[k] = v[0 + k]
  BY <1>1, <1>3, Piece
<1>7. ASSUME NEW k \in 1 .. m PROVE 0 + k = k
  BY <1>1
<1>8. 0 + 1 = 1 /\ 0 + m = m
  BY <1>1
<1>9. SubSeq(u, 1, m) = SubSeq(v, 1, m)
  <2> DEFINE a == SubSeq(u, 1, m)
             b == SubSeq(v, 1, m)
  <2>1. a \in Seq(S) /\ b \in Seq(S) /\ Len(a) = m /\ Len(b) = m /\ \A k \in 1 .. m : a[k] = b[k]
    BY <1>2, <1>5, <1>6, <1>7, <1>8
  <2> HIDE DEF a, b
  <2> QED  BY <2>1, SeqEqual DEF a, b
<1> QED  BY <1>3, <1>9 DEF IsPrefix, v, m

LEMMA PrefixOfSame ==
  ASSUME NEW S, NEW u \in Seq(S)
  PROVE  IsPrefix(u, u)
<1>1. Len(u) \in Nat /\ Len(u) <= Len(u)
  OBVIOUS
<1> QED  BY <1>1 DEF IsPrefix

LEMMA StepGrows ==
  ASSUME NEW t, Thread = {t}, IInv, StoreStep,
         NEW n \in DOMAIN Stored, n \in DOMAIN Stored'
  PROVE  IsPrefix(Stored[n], Stored'[n])
<1> DEFINE S == Unit \cup {0}
<1>1. Stored[n] \in Seq(S)
  BY StoredSeq
<1>2. CASE Stored'[n] = Stored[n]
  BY <1>1, <1>2, PrefixOfSame
<1>3. CASE \E r \in Requests : r.op = "write" /\ n = r.name /\ Store!Write(r)
  <2>1. PICK r \in Requests : r.op = "write" /\ n = r.name /\ Store!Write(r)
    BY <1>3
  <2>2. r \in Request
    BY DEF Requests, Busy, IInv, Fine, CallType, Idle, At
  <2>3. r.buf \in Seq(Unit)
    BY <2>1, <2>2, RequestFields
  <2>4. CASE Stored' = Stored
    BY <1>2, <2>4
  <2>5. CASE \E k \in 1 .. Len(r.buf) :
               Stored' = [Stored EXCEPT ![n] = Stored[n] \o SubSeq(r.buf, 1, k)]
    <3>1. PICK k \in 1 .. Len(r.buf) :
                 Stored' = [Stored EXCEPT ![n] = Stored[n] \o SubSeq(r.buf, 1, k)]
      BY <2>5
    <3>2. SubSeq(r.buf, 1, k) \in Seq(S)
      <4> DEFINE b == r.buf
      <4>0. b \in Seq(S) /\ k \in 1 .. Len(b)
        BY <2>3
      <4> HIDE DEF b, S
      <4>1. b \in Seq(S) /\ k \in Nat /\ 0 + k <= Len(b) /\ 0 + 1 = 1 /\ 0 + k = k
        BY <4>0
      <4>2. SubSeq(b, 0 + 1, 0 + k) \in Seq(S)
        BY <4>1, Piece
      <4> QED  BY <4>1, <4>2 DEF b
    <3>3. Stored'[n] = Stored[n] \o SubSeq(r.buf, 1, k)
      BY <3>1
    <3> QED  BY <1>1, <3>2, <3>3, PrefixOfLonger
  <2> QED  BY <2>1, <2>4, <2>5 DEF Store!Write
<1>4. CASE Stored' = Stored
  BY <1>2, <1>4
<1>5. CASE \E r \in Requests : Store!Create(r) \/ Store!Remove(r) \/ Store!Unlink(r)
  <2>1. PICK r \in Requests : Store!Create(r) \/ Store!Remove(r) \/ Store!Unlink(r)
    BY <1>5
  <2>2. Stored'[n] = Stored[n]
    BY <2>1 DEF Store!Create, Store!Remove, Store!Unlink
  <2> QED  BY <1>2, <2>2
<1>6. CASE \E r \in Requests : r.op = "write" /\ r.name # n /\ Store!Write(r)
  <2>1. Stored'[n] = Stored[n]
    BY <1>6 DEF Store!Write
  <2> QED  BY <1>2, <2>1
<1>7. CASE UNCHANGED Store!vars
  BY <1>4, <1>7 DEF Store!vars
<1>8. CASE Store!Next
  <2>1. CASE Store!Crash
    BY <1>4, <2>1 DEF Store!Crash
  <2>2. CASE \E r \in Request : Store!Ask(r)
    BY <1>4, <2>2 DEF Store!Ask
  <2>3. CASE \E r \in Requests : \/ Store!Readdir(r) \/ Store!Absent(r) \/ Store!Read(r) \/ Store!Getattr(r)
    BY <1>4, <2>3 DEF Store!Readdir, Store!Absent, Store!Read, Store!Getattr
  <2> QED  BY <1>3, <1>5, <1>6, <1>8, <2>1, <2>2, <2>3 DEF Store!Next, Requests
<1> QED  BY <1>7, <1>8 DEF StoreStep

\* The README of the file system: "overwriting existing bytes is not supported".  With one FUSE
\* thread what a file holds stays its beginning as long as it is listed, whatever is written to it
\* or to another file and wherever the program is killed; with several threads it does not.
THEOREM NothingOverwritten ==
  ASSUME OneThread, ~ TornUnlink
  PROVE  Spec => OverwritesNothing
<1>1. Init => AllServe
  BY InitServes
<1>2. AllServe /\ [Next]_vars => AllServe'
  BY NextServes
<1>3. AllServe /\ AllServe' /\ [Next]_vars =>
        [\A n \in DOMAIN Stored \cap DOMAIN Stored' : IsPrefix(Stored[n], Stored'[n])]_vars
  <2> SUFFICES ASSUME AllServe, [Next]_vars, NEW n \in DOMAIN Stored, n \in DOMAIN Stored'
               PROVE  IsPrefix(Stored[n], Stored'[n])
    OBVIOUS
  <2>1. PICK t : Thread = {t}
    BY DEF OneThread
  <2>2. IInv /\ StoreStep
    BY NextServes DEF AllServe, Inv
  <2> QED  BY <2>1, <2>2, StepGrows
<1> QED  BY <1>1, <1>2, <1>3, PTL DEF Spec, OverwritesNothing
=============================================================================
