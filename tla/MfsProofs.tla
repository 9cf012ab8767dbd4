------------------------------ MODULE MfsProofs ------------------------------
(***************************************************************************)
(* The file system keeps its blocks apart: with one FUSE thread, whatever  *)
(* the size of the disk, of its blocks and of its index, and wherever      *)
(* between two accesses the program is killed (an unlink that is freeing   *)
(* excepted), no block is in two places and what is mapped is allocated.   *)
(***************************************************************************)
EXTENDS Mfs, IterationProofs, FiniteSetTheorems, SequenceTheorems

Place == 0 .. IndexSize

-----------------------------------------------------------------------------
(* The disk.                                                               *)

Disk ==
  [bmap : SUBSET Block, imap : SUBSET Inode, table : InodeTable, root : RootDir,
   block : [Block -> IndexArray \cup DataBlock]]

FilesOf(d) == {s \in Slot : d.root[s] # None}
Node(d, s) == d.table[d.root[s].inode_no]

\* The block at place k of the file in slot s, or zero; place 0 is the index block.
Blk(d, s, k) ==
  IF k = 0 THEN Node(d, s).index_block
  ELSE IF Node(d, s).index_block = 0 THEN 0
  ELSE d.block[Node(d, s).index_block][k]

\* Files have names and inodes of their own.
Named(d) ==
  /\ \A s \in FilesOf(d) :
       /\ d.root[s].inode_no \in d.imap \ {MFS_ROOT_INODE}
       /\ Node(d, s).inode_no = d.root[s].inode_no
  /\ \A s, z \in FilesOf(d) : s # z => /\ d.root[s].inode_no # d.root[z].inode_no
                                      /\ d.root[s].name # d.root[z].name

\* A block holds what its place takes it for.
Filled(d) ==
  \A s \in FilesOf(d) :
    /\ Blk(d, s, 0) # 0 => d.block[Blk(d, s, 0)] \in IndexArray
    /\ \A k \in Place \ {0} : Blk(d, s, k) # 0 => d.block[Blk(d, s, k)] \in DataBlock

\* No block is in two places.
Separate(d) ==
  \A s, z \in FilesOf(d) : \A k, l \in Place :
    Blk(d, s, k) # 0 /\ Blk(d, s, k) = Blk(d, z, l) => s = z /\ k = l

\* A file has the blocks that its size says.
Mapped(n, idx, size) ==
  size <= n * BlockSize /\ \A k \in 1 .. n : (k - 1) * BlockSize < size => idx[k] # 0

Sized(d) ==
  \A s \in FilesOf(d) : Mapped(IndexSize, [k \in 1 .. IndexSize |-> Blk(d, s, k)], Node(d, s).size)

\* What is placed is allocated, but for the file in slot x.
Marked(d, x) ==
  \A s \in FilesOf(d) \ {x} : \A k \in Place : Blk(d, s, k) # 0 => Blk(d, s, k) \in d.bmap

Sound(d, x) == d \in Disk /\ Named(d) /\ Filled(d) /\ Separate(d) /\ Sized(d) /\ Marked(d, x)

Unused(d, b) == \A s \in FilesOf(d), k \in Place : Blk(d, s, k) # b

-----------------------------------------------------------------------------
(* The handlers: what each knows of the disk before its next access.       *)

OwnFile(d, c) == c.slot \in FilesOf(d) /\ c.inode_no = d.root[c.slot].inode_no

Fresh(d, c) ==
  /\ c.inode_no \in Inode \ {MFS_ROOT_INODE} /\ c.inode = NewInode(c.inode_no)
  /\ \A s \in FilesOf(d) : d.root[s].inode_no # c.inode_no

CreateKnows(d, c) ==
  /\ c.at \in {"find", "root_get", "imap_get", "imap_put", "table_get", "table_put", "root_put"}
  /\ c.at # "find" => \A s \in FilesOf(d) : d.root[s].name # c.request.name
  /\ c.at \notin {"find", "root_get"} =>
       c.entries = d.root /\ c.slot \in Slot /\ d.root[c.slot] = None
  /\ c.at \notin {"find", "root_get", "imap_get"} => Fresh(d, c)
  /\ c.at = "imap_put" => c.bitmap = d.imap \cup {c.inode_no}
  /\ c.at \in {"table_get", "table_put", "root_put"} => c.inode_no \in d.imap
  /\ c.at = "table_put" => c.table = [d.table EXCEPT ![c.inode_no] = c.inode]
  /\ c.at = "root_put" => d.table[c.inode_no] = c.inode

UnlinkKnows(d, c) ==
  /\ c.at \in {"find", "root_get", "inode_get", "index_get", "free_get", "free_put", "root_put",
               "table_get", "table_put", "imap_get", "imap_put"}
  /\ c.at = "root_get" => c.slot \in FilesOf(d)
  /\ c.at \in {"inode_get", "index_get", "free_get", "free_put", "root_put"} =>
       OwnFile(d, c) /\ c.entries = d.root
  /\ c.at \in {"index_get", "free_get", "free_put"} =>
       c.inode = Node(d, c.slot) /\ c.inode.index_block # 0
  /\ c.at \in {"free_get", "free_put"} =>
       /\ c.idx_data = d.block[c.inode.index_block] /\ c.to_free # {}
       /\ \A k \in c.to_free : k <= IndexSize => c.idx_data[k] # 0
  /\ c.at = "free_put" => c.bitmap = d.bmap \ {NextToFree(c)}
  /\ c.at \in {"table_get", "table_put", "imap_get", "imap_put"} => Fresh(d, c)
  /\ c.at = "table_put" => c.table = [d.table EXCEPT ![c.inode_no] = c.inode]
  /\ c.at = "imap_put" => c.bitmap = d.imap \ {c.inode_no}

ReadKnows(d, c) ==
  /\ c.at \in {"find", "inode_get", "index_get", "data_get"}
  /\ c.at # "find" => OwnFile(d, c)
  /\ c.at \in {"index_get", "data_get"} =>
       /\ c.inode = Node(d, c.slot) /\ c.inode.index_block # 0
       /\ c.request.offset < c.inode.size
  /\ c.at = "data_get" => /\ c.idx_data = d.block[c.inode.index_block]
                          /\ c.bytes < ToReadTotal(c)
  /\ c.at # "data_get" => c.bytes = 0

\* What mfs_write has in its locals, having allocated blocks that no file has yet.
Writing(d, c) ==
  LET x == c.inode.index_block
      old == Node(d, c.slot)
  IN  /\ OwnFile(d, c) /\ c.inode.inode_no = c.inode_no
      /\ x \in d.bmap /\ c.idx_data \in IndexArray
      /\ old.index_block = 0 => Unused(d, x)
      /\ old.index_block # 0 => old.index_block = x
      /\ \A k \in 1 .. IndexSize : c.idx_data[k] # 0 =>
           /\ c.idx_data[k] \in d.bmap /\ d.block[c.idx_data[k]] \in DataBlock
           /\ c.idx_data[k] # x
           /\ \A l \in 1 .. IndexSize : c.idx_data[l] = c.idx_data[k] => l = k
           /\ Blk(d, c.slot, k) = 0 => Unused(d, c.idx_data[k])
      /\ \A k \in 1 .. IndexSize : Blk(d, c.slot, k) # 0 => c.idx_data[k] = Blk(d, c.slot, k)
      /\ Mapped(IndexSize, c.idx_data, Position(c))
      /\ c.bytes <= Len(c.request.buf)

\* A block that is allocated but not yet entered.
Pending(d, c) ==
  /\ c.data_blk \in Block /\ Unused(d, c.data_blk) /\ c.data_blk # c.inode.index_block
  /\ \A k \in 1 .. IndexSize : c.idx_data[k] # c.data_blk

WriteKnows(d, c) ==
  /\ c.at \in {"find", "inode_get", "index_get", "alloc_get", "alloc_put", "zero_put", "data_get",
               "data_put", "index_put", "table_get", "table_put"}
  /\ c.at # "find" => OwnFile(d, c)
  /\ c.at \in {"find", "inode_get", "index_get", "zero_put"} => c.bytes = 0
  /\ c.at = "index_get" => c.inode.index_block # 0
  /\ c.at = "index_get" \/ (c.at \in {"alloc_get", "alloc_put", "zero_put"} /\ c.inode.index_block = 0) =>
       c.inode = Node(d, c.slot) /\ c.request.offset = c.inode.size /\ c.bytes = 0
  /\ c.at \in {"alloc_put"} => c.data_blk \in Block \ d.bmap /\ c.bitmap = d.bmap \cup {c.data_blk}
  /\ c.at = "zero_put" => c.data_blk \in d.bmap /\ c.inode.index_block = 0 /\ Unused(d, c.data_blk)
  /\ c.at \in {"data_get", "data_put", "index_put", "table_get", "table_put"} => c.inode.index_block # 0
  /\ c.at \in {"alloc_get", "alloc_put", "data_get", "data_put"} /\ c.inode.index_block # 0 =>
       /\ Writing(d, c) /\ c.inode.size = c.request.offset
       /\ c.bytes < Len(c.request.buf) /\ BlockIdx(c) < IndexSize
       /\ c.newly_allocated = (c.idx_data[BlockIdx(c) + 1] = 0)
       /\ c.at \in {"alloc_get", "alloc_put"} => c.newly_allocated
  /\ c.at \in {"data_get", "data_put"} =>
       /\ c.data_blk \in d.bmap
       /\ c.newly_allocated => Pending(d, c)
       /\ ~ c.newly_allocated => c.data_blk = c.idx_data[BlockIdx(c) + 1]
  /\ c.at = "data_get" => ~ c.newly_allocated
  /\ c.at = "data_put" /\ ~ c.newly_allocated => c.blk_buf \in DataBlock
  /\ c.at \in {"index_put", "table_get", "table_put"} =>
       Writing(d, c) /\ c.inode.size = Position(c)
  /\ c.at \in {"table_get", "table_put"} => d.block[c.inode.index_block] = c.idx_data
  /\ c.at = "table_put" => c.table = [d.table EXCEPT ![c.inode_no] = c.inode]

Knows(d, c) ==
  CASE c.request.op = "create" -> CreateKnows(d, c)
    [] c.request.op = "unlink" -> UnlinkKnows(d, c)
    [] c.request.op = "write" -> WriteKnows(d, c)
    [] c.request.op = "read" -> ReadKnows(d, c)
    [] c.request.op = "getattr" -> c.at \in {"find", "inode_get"} /\ (c.at # "find" => OwnFile(d, c))
    [] c.request.op = "readdir" -> c.at = "list"

\* The file whose blocks are being freed.
Torn(c) ==
  IF c # Idle /\ c.request.op = "unlink" /\ c.at \in {"free_get", "free_put", "root_put"}
  THEN c.slot ELSE 0

OneThread == \E t \in Thread : Thread = {t}

Fine(d, c) ==
  /\ Sound(d, Torn(c))
  /\ c = Idle \/ (c \in CallType /\ Knows(d, c))

IInv ==
  /\ call \in [Thread -> CallType \cup {Idle}]
  /\ \A t \in Thread : Fine(disk, call[t])

-----------------------------------------------------------------------------
(* Requests and locals.                                                    *)

LEMMA RequestFields ==
  ASSUME NEW r \in Request
  PROVE  /\ r.op \in {"readdir", "create", "unlink", "getattr", "read", "write"}
         /\ r.op # "readdir" => r.name \in Name
         /\ r.op = "read" => r.offset \in Nat /\ r.size \in Nat \ {0}
         /\ r.op = "write" => r.offset \in Nat /\ r.buf \in Seq(Unit) /\ Len(r.buf) \in Nat \ {0}
<1>1. r \in AnyRequest
  BY MfsAssumption
<1>2. CASE r \in [op : {"readdir"}]
  BY <1>2
<1>3. CASE r \in [op : {"create", "unlink", "getattr"}, name : Name]
  BY <1>3
<1>4. CASE r \in [op : {"read"}, name : Name, offset : Nat, size : Nat \ {0}]
  BY <1>4
<1>5. CASE r \in [op : {"write"}, name : Name, offset : Nat, buf : Seq(Unit) \ {<<>>}]
  <2>1. r.op = "write" /\ r.name \in Name /\ r.offset \in Nat /\ r.buf \in Seq(Unit) /\ r.buf # <<>>
    BY <1>5
  <2>2. Len(r.buf) \in Nat \ {0}
    BY <2>1
  <2> QED  BY <2>1, <2>2
<1> QED  BY <1>1, <1>2, <1>3, <1>4, <1>5 DEF AnyRequest

LEMMA CallFields ==
  ASSUME NEW c \in CallType
  PROVE  /\ c.request \in Request /\ c.at \in NextAccess
         /\ c.entries \in Unread(RootDir)
         /\ c.slot \in Slot \cup {0} /\ c.inode_no \in Inode \cup {0} /\ c.inode \in mfs_inode
         /\ c.table \in Unread(InodeTable) /\ c.bitmap \in SUBSET (Block \cup Inode)
         /\ c.idx_data \in Unread(IndexArray) /\ c.data_blk \in Block \cup {0}
         /\ c.newly_allocated \in BOOLEAN /\ c.allocated_index \in BOOLEAN
         /\ c.blk_buf \in Unread(DataBlock) /\ c.bytes \in Nat
         /\ c.out \in Seq(Unit \cup {0}) /\ c.to_free \in SUBSET (1 .. IndexSize + 1)
         /\ c.rc \in {"OK", "ENOSPC", "EFBIG"}
BY DEF CallType

LEMMA DiskFields ==
  ASSUME NEW d \in Disk
  PROVE  /\ d.bmap \in SUBSET Block /\ d.imap \in SUBSET Inode /\ d.table \in [Inode -> mfs_inode]
         /\ d.root \in [Slot -> mfs_dir_entry \cup {None}]
         /\ d.block \in [Block -> IndexArray \cup DataBlock]
         /\ \A s \in FilesOf(d) : /\ s \in Slot /\ d.root[s] \in mfs_dir_entry
                                  /\ d.root[s].inode_no \in Inode /\ d.root[s].name \in Name
                                  /\ Node(d, s) \in mfs_inode
<1>1. /\ d.bmap \in SUBSET Block /\ d.imap \in SUBSET Inode /\ d.table \in [Inode -> mfs_inode]
      /\ d.root \in [Slot -> mfs_dir_entry \cup {None}]
      /\ d.block \in [Block -> IndexArray \cup DataBlock]
  BY DEF Disk, RootDir, InodeTable
<1>2. ASSUME NEW s \in FilesOf(d)
      PROVE  /\ s \in Slot /\ d.root[s] \in mfs_dir_entry
             /\ d.root[s].inode_no \in Inode /\ d.root[s].name \in Name
             /\ Node(d, s) \in mfs_inode
  <2>1. s \in Slot /\ d.root[s] \in mfs_dir_entry
    BY <1>1 DEF FilesOf
  <2>2. d.root[s].inode_no \in Inode /\ d.root[s].name \in Name
    BY <2>1 DEF mfs_dir_entry
  <2> QED  BY <1>1, <2>1, <2>2 DEF Node
<1> QED  BY <1>1, <1>2

LEMMA NodeFields ==
  ASSUME NEW n \in mfs_inode
  PROVE  /\ n.inode_no \in Inode \cup {0} /\ n.size \in Nat /\ n.block_count \in Nat
         /\ n.index_block \in Block \cup {0}
         /\ n = [inode_no |-> n.inode_no, size |-> n.size, block_count |-> n.block_count,
                 index_block |-> n.index_block]
BY DEF mfs_inode

LEMMA NewInodeFields ==
  ASSUME NEW i \in Inode \cup {0}
  PROVE  /\ NewInode(i) \in mfs_inode /\ NewInode(i).inode_no = i /\ NewInode(i).size = 0
         /\ NewInode(i).block_count = 0 /\ NewInode(i).index_block = 0
BY DEF NewInode, mfs_inode

\* Zero is no block, no inode and no slot.
LEMMA Nonzero == 0 \notin Block /\ 0 \notin Inode /\ 0 \notin Slot
BY MfsAssumption DEF Block, Inode, Slot, MFS_ROOT_INODE

LEMMA ZeroArrays == Zeros(IndexSize) \in IndexArray /\ Zeros(BlockSize) \in DataBlock
BY DEF Zeros, IndexArray, DataBlock

-----------------------------------------------------------------------------
(* Steps.                                                                  *)

\* What becomes of the locals of a handler that goes on as c.
After(c) == IF c.at = "return" THEN Idle ELSE c

LEMMA IdleFine ==
  ASSUME NEW d, Sound(d, 0)
  PROVE  Fine(d, Idle)
BY DEF Fine, Torn

LEMMA SoundWhole ==
  ASSUME NEW d, NEW x, Sound(d, 0)
  PROVE  Sound(d, x)
<1>1. Marked(d, 0) => Marked(d, x)
  <2>1. \A s \in FilesOf(d) : s \in Slot
    BY DEF FilesOf
  <2> QED  BY <2>1, Nonzero DEF Marked
<1> QED  BY <1>1 DEF Sound

\* A handler that is not freeing has a sound disk.
LEMMA WholeDisk ==
  ASSUME NEW d, NEW c, Fine(d, c), c # Idle, Torn(c) = 0
  PROVE  Sound(d, 0) /\ c \in CallType /\ Knows(d, c)
BY DEF Fine

LEMMA GetStep ==
  ASSUME NEW t, Thread = {t}, IInv, NEW c, Get(t, c), Fine(disk, After(c))
  PROVE  IInv'
<1>1. call' = [call EXCEPT ![t] = After(c)] /\ disk' = disk
  BY DEF Get, Goto, After
<1>2. After(c) \in CallType \cup {Idle}
  BY DEF Fine
<1> QED  BY <1>1, <1>2 DEF IInv

LEMMA PutStep ==
  ASSUME NEW t, Thread = {t}, IInv, NEW c, NEW part, NEW contents,
         Put(t, part, contents, c), Fine([disk EXCEPT ![part] = contents], After(c))
  PROVE  IInv'
<1>1. call' = [call EXCEPT ![t] = After(c)] /\ disk' = [disk EXCEPT ![part] = contents]
  BY DEF Put, Goto, After
<1>2. After(c) \in CallType \cup {Idle}
  BY DEF Fine
<1> QED  BY <1>1, <1>2 DEF IInv

\* What is known of thread t when one of its accesses is due.
LEMMA Due ==
  ASSUME NEW t, Thread = {t}, IInv, NEW a, At(t, a), a # "idle"
  PROVE  /\ call[t] \in CallType /\ call[t].at = a /\ Knows(disk, call[t]) /\ call[t] # Idle
         /\ Sound(disk, Torn(call[t])) /\ disk \in Disk
         /\ call[t].request \in Request
         /\ call[t].request.op \in {"readdir", "create", "unlink", "getattr", "read", "write"}
<1>1. Fine(disk, call[t]) /\ call[t].at = a
  BY DEF IInv, At
<1>2. call[t] # Idle
  BY <1>1 DEF Idle
<1>3. call[t] \in CallType /\ Knows(disk, call[t]) /\ Sound(disk, Torn(call[t]))
  BY <1>1, <1>2 DEF Fine
<1>4. call[t].request \in Request
  BY <1>3, CallFields
<1> QED  BY <1>1, <1>2, <1>3, <1>4, RequestFields DEF Sound

\* A call whose list of places to free grows shorter stays a call.
LEMMA FreeingMoves ==
  ASSUME NEW c \in CallType, NEW a \in NextAccess, NEW T \in SUBSET (1 .. IndexSize + 1)
  PROVE  [c EXCEPT !.to_free = T, !.at = a] \in CallType
BY DEF CallType

\* A handler that goes on, on a disk it has not changed.
LEMMA GoesOn ==
  ASSUME NEW d, NEW c, NEW e, Sound(d, 0), e \in CallType, Knows(d, e)
  PROVE  Fine(d, e)
BY SoundWhole DEF Fine

LEMMA Returns ==
  ASSUME NEW d, NEW c, NEW a, Sound(d, 0)
  PROVE  Fine(d, After(Return(c, a)))
<1>1. After(Return(c, a)) = Idle
  BY DEF After, Return
<1> QED  BY <1>1, IdleFine

-----------------------------------------------------------------------------
(* Numbers.                                                                *)

LEMMA MinOfTwo ==
  ASSUME NEW a \in Int, NEW b \in Int
  PROVE  Min({a, b}) = IF a <= b THEN a ELSE b
BY DEF Min

\* What is moved in one block: it stays in the block, and within what is left.
LEMMA Chunk ==
  ASSUME NEW off \in Nat, NEW size \in Nat, off < size,
         NEW done \in Nat, NEW total \in Int, done < total
  PROVE  LET n == Min({size - off, total - done})
         IN  n \in Nat /\ n > 0 /\ off + n <= size /\ done + n <= total
<1>1. size - off \in Int /\ total - done \in Int /\ size - off > 0 /\ total - done > 0
  OBVIOUS
<1>2. Min({size - off, total - done}) = IF size - off <= total - done THEN size - off ELSE total - done
  BY <1>1, MinOfTwo
<1> QED  BY <1>1, <1>2

\* The units of a piece of n, copied to offset off of a block, are units done + 1 to done + n.
LEMMA InPiece ==
  ASSUME NEW done \in Nat, NEW n \in Nat, NEW off \in Nat, NEW total \in Nat, done + n <= total,
         NEW k \in off + 1 .. off + n
  PROVE  done + k - off \in 1 .. total
OBVIOUS

LEMMA SizesNat ==
  /\ BlockSize \in Nat /\ BlockSize > 0 /\ IndexSize \in Nat /\ IndexSize > 0
  /\ BlockCount \in Nat /\ InodeCount \in Nat /\ InodeCount > 0 /\ EntryCount \in Nat
BY MfsAssumption

\* A position lies in one block, at one place in it.
LEMMA InBlock ==
  ASSUME NEW p \in Nat
  PROVE  /\ p \div BlockSize \in Nat /\ p % BlockSize \in Nat /\ p % BlockSize < BlockSize
         /\ p = (p \div BlockSize) * BlockSize + (p % BlockSize)
<1>1. BlockSize \in Nat /\ BlockSize > 0
  BY SizesNat
<1>2. /\ p % BlockSize \in 0 .. BlockSize - 1 /\ p \div BlockSize \in Int
      /\ p = BlockSize * (p \div BlockSize) + (p % BlockSize)
  BY <1>1, SMT
<1>3. p \div BlockSize >= 0
  BY <1>1, <1>2, SMT
<1> QED  BY <1>1, <1>2, <1>3, SMT

LEMMA Quotients ==
  ASSUME NEW a \in Int, NEW b \in Int, a * BlockSize < (b + 1) * BlockSize
  PROVE  a <= b
<1>1. BlockSize \in Nat /\ BlockSize > 0
  BY SizesNat
<1>2. ASSUME a >= b + 1 PROVE a * BlockSize >= (b + 1) * BlockSize
  BY <1>1, <1>2, SMT
<1> QED  BY <1>1, <1>2, SMT

\* A position before the end of a file lies in a block of it.
LEMMA BlockOfPosition ==
  ASSUME NEW n \in Nat, NEW p \in Nat, NEW idx, NEW size \in Nat, Mapped(n, idx, size), p < size
  PROVE  p \div BlockSize + 1 \in 1 .. n /\ idx[p \div BlockSize + 1] # 0
<1> DEFINE q == p \div BlockSize
<1>1. /\ q \in Nat /\ p % BlockSize \in Nat /\ p = q * BlockSize + (p % BlockSize)
      /\ BlockSize \in Nat
  BY InBlock, SizesNat
<1> HIDE DEF q
<1>2. q * BlockSize \in Nat /\ q * BlockSize <= p
  BY <1>1
<1>3. size <= n * BlockSize /\ n * BlockSize \in Nat
  BY <1>1 DEF Mapped
<1>4. q * BlockSize < ((n - 1) + 1) * BlockSize
  BY <1>2, <1>3
<1>5. q <= n - 1
  BY <1>1, <1>4, Quotients
<1>6. q + 1 \in 1 .. n /\ (q + 1) - 1 = q
  BY <1>1, <1>5
<1>7. idx[q + 1] # 0
  BY <1>2, <1>6 DEF Mapped
<1> QED  BY <1>6, <1>7 DEF q

LEMMA MinIn ==
  ASSUME NEW T \in SUBSET Nat, T # {}
  PROVE  Min(T) \in T /\ \A k \in T : Min(T) <= k
<1>1. \E m \in T : \A k \in T : m <= k
  BY LeastNatural
<1> QED  BY <1>1 DEF Min

-----------------------------------------------------------------------------
(* Requests come, and the program is killed.                               *)

LEMMA LocalsFine ==
  ASSUME NEW d, Sound(d, 0), NEW r \in Request
  PROVE  Fine(d, Locals(r))
<1> DEFINE c == Locals(r)
<1>1. /\ c.request = r /\ c.bytes = 0
      /\ c.at = IF r.op = "readdir" THEN "list" ELSE "find"
  BY DEF Locals
<1>2. c \in CallType
  <2>1. NewInode(0) \in mfs_inode
    BY NewInodeFields
  <2> QED  BY <2>1 DEF Locals, CallType, Unread, NextAccess
<1>3. Knows(d, c)
  <2> HIDE DEF c
  <2>1. r.op \in {"readdir", "create", "unlink", "getattr", "read", "write"}
    BY RequestFields
  <2> QED  BY <1>1, <2>1 DEF Knows, CreateKnows, UnlinkKnows, ReadKnows, WriteKnows
<1> HIDE DEF c
<1>4. Fine(d, c)
  BY <1>2, <1>3, GoesOn
<1> QED  BY <1>4 DEF c

LEMMA EnterKeeps ==
  ASSUME NEW t, Thread = {t}, IInv, Enter(t)
  PROVE  IInv'
<1>1. Fine(disk, call[t]) /\ call[t].at = "idle"
  BY DEF IInv, Enter, At
<1>2. Torn(call[t]) = 0
  BY <1>1 DEF Torn
<1>3. Sound(disk, 0)
  BY <1>1, <1>2 DEF Fine
<1>4. PICK r \in Request : call' = [call EXCEPT ![t] = Locals(r)]
  BY DEF Enter
<1>5. disk' = disk
  BY DEF Enter
<1>6. Fine(disk, Locals(r)) /\ Locals(r) \in CallType \cup {Idle}
  BY <1>3, LocalsFine DEF Fine
<1> QED  BY <1>4, <1>5, <1>6 DEF IInv

LEMMA CrashKeeps ==
  ASSUME NEW t, Thread = {t}, IInv, Crash, ~ TornUnlink
  PROVE  IInv'
<1>1. ~ Freeing(t)
  BY DEF Crash, Freeing
<1>2. Torn(call[t]) = 0
  BY <1>1 DEF Torn, Freeing, Busy, At, Op
<1>3. Sound(disk, 0)
  BY <1>2 DEF IInv, Fine
<1>4. disk' = disk /\ call' = [u \in Thread |-> Idle]
  BY DEF Crash
<1> QED  BY <1>3, <1>4, IdleFine DEF IInv

-----------------------------------------------------------------------------
(* Reading: what every handler begins with.                                *)

LEMMA ListRootKeeps ==
  ASSUME NEW t, Thread = {t}, IInv, ListRoot(t)
  PROVE  IInv'
<1> DEFINE a == {disk.root[s].name : s \in {z \in Slot : disk.root[z] # None}}
<1>1. At(t, "list") /\ Get(t, Return(call[t], a))
  BY DEF ListRoot
<1>2. Torn(call[t]) = 0
  BY <1>1 DEF Torn, At
<1>3. Sound(disk, 0)
  BY <1>1, <1>2, Due
<1> HIDE DEF a
<1> QED  BY <1>1, <1>3, Returns, GetStep

LEMMA FindEntryKeeps ==
  ASSUME NEW t, Thread = {t}, IInv, FindEntry(t)
  PROVE  IInv'
<1> DEFINE c == call[t]
           hits == {s \in Slot : disk.root[s] # None /\ disk.root[s].name = c.request.name}
           s == Min(hits)
           e == [c EXCEPT !.slot = s, !.inode_no = disk.root[s].inode_no,
                          !.at = IF Op(t) = "unlink" THEN "root_get" ELSE "inode_get"]
<1>1. At(t, "find")
  BY DEF FindEntry
<1>2. /\ c \in CallType /\ c.at = "find" /\ Knows(disk, c) /\ Sound(disk, 0) /\ disk \in Disk
      /\ c.request.op \in {"readdir", "create", "unlink", "getattr", "read", "write"}
  <2>1. Torn(c) = 0
    BY <1>1 DEF Torn, At
  <2> QED  BY <1>1, <2>1, Due
<1>3. CASE Op(t) = "create" /\ hits = {} /\ Get(t, [c EXCEPT !.at = "root_get"])
  <2> DEFINE f == [c EXCEPT !.at = "root_get"]
  <2>1. f \in CallType
    BY <1>2 DEF CallType, NextAccess
  <2>2. f.at = "root_get" /\ f.request = c.request
    BY <1>2 DEF CallType
  <2>3. \A z \in FilesOf(disk) : disk.root[z].name # c.request.name
    BY <1>3 DEF FilesOf
  <2> HIDE DEF f
  <2>4. Knows(disk, f)
    BY <1>3, <2>2, <2>3 DEF Knows, CreateKnows, Op
  <2>5. Fine(disk, After(f))
    BY <1>2, <2>1, <2>2, <2>4, GoesOn DEF After
  <2> QED  BY <1>3, <2>5, GetStep DEF f
<1>4. ASSUME NEW a, Get(t, Return(c, a)) PROVE IInv'
  BY <1>2, <1>4, Returns, GetStep
<1>5. CASE Op(t) # "create" /\ hits # {} /\ Get(t, e)
  <2>1. s \in hits
    <3>1. hits \in SUBSET Nat
      BY SizesNat DEF Slot
    <3> HIDE DEF hits
    <3> QED  BY <1>5, <3>1, MinIn
  <2>2. s \in FilesOf(disk) /\ s \in Slot
    BY <2>1 DEF FilesOf
  <2> HIDE DEF hits, s
  <2>3. disk.root[s].inode_no \in Inode
    BY <1>2, <2>2, DiskFields
  <2>4. e \in CallType
    BY <1>2, <2>2, <2>3 DEF CallType, NextAccess
  <2>5. /\ e.at = (IF Op(t) = "unlink" THEN "root_get" ELSE "inode_get")
        /\ e.request = c.request /\ e.slot = s /\ e.inode_no = disk.root[s].inode_no
        /\ e.bytes = c.bytes
    BY <1>2 DEF CallType
  <2>6. c.request.op \in {"read", "write"} => c.bytes = 0
    BY <1>2 DEF Knows, ReadKnows, WriteKnows
  <2>7. c.request.op # "readdir"
    BY <1>2 DEF Knows
  <2> HIDE DEF e
  <2>8. OwnFile(disk, e)
    BY <2>2, <2>5 DEF OwnFile
  <2>9. Knows(disk, e)
    BY <1>2, <1>5, <2>2, <2>5, <2>6, <2>7, <2>8 DEF Knows, UnlinkKnows, ReadKnows, WriteKnows, Op
  <2>10. Fine(disk, After(e))
    BY <1>2, <2>4, <2>5, <2>9, GoesOn DEF After
  <2> QED  BY <1>5, <2>10, GetStep
<1> QED  BY <1>3, <1>4, <1>5 DEF FindEntry

LEMMA DueWhole ==
  ASSUME NEW t, Thread = {t}, IInv, NEW a, At(t, a),
         a \notin {"idle", "free_get", "free_put", "root_put"}
  PROVE  /\ call[t] \in CallType /\ call[t].at = a /\ Knows(disk, call[t])
         /\ Sound(disk, 0) /\ disk \in Disk
         /\ call[t].request \in Request
         /\ call[t].request.op \in {"readdir", "create", "unlink", "getattr", "read", "write"}
<1>1. Torn(call[t]) = 0
  BY DEF Torn, At
<1> QED  BY <1>1, Due

-----------------------------------------------------------------------------
(* Writing one part of the disk.                                           *)

LEMMA PartWritten ==
  ASSUME NEW d \in Disk, NEW v
  PROVE  /\ LET e == [d EXCEPT !["bmap"] = v]
            IN  e.bmap = v /\ e.imap = d.imap /\ e.table = d.table /\ e.root = d.root /\ e.block = d.block
         /\ LET e == [d EXCEPT !["imap"] = v]
            IN  e.bmap = d.bmap /\ e.imap = v /\ e.table = d.table /\ e.root = d.root /\ e.block = d.block
         /\ LET e == [d EXCEPT !["table"] = v]
            IN  e.bmap = d.bmap /\ e.imap = d.imap /\ e.table = v /\ e.root = d.root /\ e.block = d.block
         /\ LET e == [d EXCEPT !["root"] = v]
            IN  e.bmap = d.bmap /\ e.imap = d.imap /\ e.table = d.table /\ e.root = v /\ e.block = d.block
         /\ LET e == [d EXCEPT !["block"] = v]
            IN  e.bmap = d.bmap /\ e.imap = d.imap /\ e.table = d.table /\ e.root = d.root /\ e.block = v
BY DEF Disk

LEMMA StillDisk ==
  ASSUME NEW d \in Disk, NEW v
  PROVE  /\ v \in SUBSET Block => [d EXCEPT !["bmap"] = v] \in Disk
         /\ v \in SUBSET Inode => [d EXCEPT !["imap"] = v] \in Disk
         /\ v \in InodeTable => [d EXCEPT !["table"] = v] \in Disk
         /\ v \in RootDir => [d EXCEPT !["root"] = v] \in Disk
         /\ v \in [Block -> IndexArray \cup DataBlock] => [d EXCEPT !["block"] = v] \in Disk
BY DEF Disk

\* What the files of a disk depend on.
LEMMA SameView ==
  ASSUME NEW d, NEW e, e.root = d.root, e.table = d.table
  PROVE  /\ FilesOf(e) = FilesOf(d)
         /\ \A s : Node(e, s) = Node(d, s)
         /\ e.block = d.block => \A s, k : Blk(e, s, k) = Blk(d, s, k)
BY DEF FilesOf, Node, Blk

LEMMA ImapWritten ==
  ASSUME NEW d \in Disk, NEW x, Sound(d, x), NEW m \in SUBSET Inode,
         \A s \in FilesOf(d) : d.root[s].inode_no \in m
  PROVE  Sound([d EXCEPT !["imap"] = m], x)
<1> DEFINE e == [d EXCEPT !["imap"] = m]
<1>1. e.bmap = d.bmap /\ e.imap = m /\ e.table = d.table /\ e.root = d.root /\ e.block = d.block
  BY PartWritten
<1>2. e \in Disk
  BY StillDisk
<1> HIDE DEF e
<1>3. /\ FilesOf(e) = FilesOf(d) /\ \A s : Node(e, s) = Node(d, s)
      /\ \A s, k : Blk(e, s, k) = Blk(d, s, k)
  BY <1>1, SameView
<1>4. Named(e)
  BY <1>1, <1>3 DEF Named, Sound
<1>5. Filled(e) /\ Separate(e)
  BY <1>1, <1>3 DEF Filled, Separate, Sound
<1>6. Sized(e) /\ Marked(e, x)
  BY <1>1, <1>3 DEF Sized, Marked, Sound
<1>7. Sound(e, x)
  BY <1>2, <1>4, <1>5, <1>6 DEF Sound
<1> QED  BY <1>7 DEF e

LEMMA BmapWritten ==
  ASSUME NEW d \in Disk, NEW x, Sound(d, x), NEW m \in SUBSET Block,
         \A s \in FilesOf(d) \ {x} : \A k \in Place : Blk(d, s, k) # 0 => Blk(d, s, k) \in m
  PROVE  Sound([d EXCEPT !["bmap"] = m], x)
<1> DEFINE e == [d EXCEPT !["bmap"] = m]
<1>1. e.bmap = m /\ e.imap = d.imap /\ e.table = d.table /\ e.root = d.root /\ e.block = d.block
  BY PartWritten
<1>2. e \in Disk
  BY StillDisk
<1> HIDE DEF e
<1>3. /\ FilesOf(e) = FilesOf(d) /\ \A s : Node(e, s) = Node(d, s)
      /\ \A s, k : Blk(e, s, k) = Blk(d, s, k)
  BY <1>1, SameView
<1>4. Named(e)
  BY <1>1, <1>3 DEF Named, Sound
<1>5. Filled(e) /\ Separate(e)
  BY <1>1, <1>3 DEF Filled, Separate, Sound
<1>6. Sized(e)
  BY <1>1, <1>3 DEF Sized, Sound
<1>7. Marked(e, x)
  BY <1>1, <1>3 DEF Marked
<1>8. Sound(e, x)
  BY <1>2, <1>4, <1>5, <1>6, <1>7 DEF Sound
<1> QED  BY <1>8 DEF e

\* An inode that no file has may be written.
LEMMA TableWritten ==
  ASSUME NEW d \in Disk, NEW x, Sound(d, x), NEW i \in Inode, NEW n \in mfs_inode,
         \A s \in FilesOf(d) : d.root[s].inode_no # i
  PROVE  Sound([d EXCEPT !["table"] = [d.table EXCEPT ![i] = n]], x)
<1> DEFINE m == [d.table EXCEPT ![i] = n]
           e == [d EXCEPT !["table"] = m]
<1>1. m \in InodeTable
  BY DiskFields DEF InodeTable
<1>2. e.bmap = d.bmap /\ e.imap = d.imap /\ e.table = m /\ e.root = d.root /\ e.block = d.block
  BY PartWritten
<1>3. e \in Disk
  BY <1>1, StillDisk
<1> HIDE DEF e
<1>4. FilesOf(e) = FilesOf(d) /\ \A s \in FilesOf(d) : Node(e, s) = Node(d, s)
  <2>1. \A s \in FilesOf(d) : m[d.root[s].inode_no] = d.table[d.root[s].inode_no]
    BY DiskFields
  <2> QED  BY <1>2, <2>1 DEF FilesOf, Node
<1>5. \A s \in FilesOf(d) : \A k : Blk(e, s, k) = Blk(d, s, k)
  BY <1>2, <1>4 DEF Blk
<1>6. Named(e)
  BY <1>2, <1>4 DEF Named, Sound
<1>7. Filled(e) /\ Separate(e)
  BY <1>2, <1>4, <1>5 DEF Filled, Separate, Sound
<1>8. Sized(e)
  <2>1. ASSUME NEW s \in FilesOf(d)
        PROVE  Mapped(IndexSize, [k \in 1 .. IndexSize |-> Blk(e, s, k)], Node(e, s).size)
    <3>1. [k \in 1 .. IndexSize |-> Blk(e, s, k)] = [k \in 1 .. IndexSize |-> Blk(d, s, k)]
      BY <1>5
    <3> QED  BY <1>4, <3>1 DEF Sized, Sound
  <2> QED  BY <1>4, <2>1 DEF Sized
<1>9. Marked(e, x)
  BY <1>2, <1>4, <1>5 DEF Marked, Sound
<1>10. Sound(e, x)
  BY <1>3, <1>6, <1>7, <1>8, <1>9 DEF Sound
<1> QED  BY <1>10 DEF e

-----------------------------------------------------------------------------
(* The root directory, the bitmap of inodes and their table.               *)

LEMMA ReadRootKeeps ==
  ASSUME NEW t, Thread = {t}, IInv, ReadRoot(t)
  PROVE  IInv'
<1> DEFINE c == [call[t] EXCEPT !.entries = disk.root]
           free == {s \in Slot : disk.root[s] = None}
           e == [c EXCEPT !.slot = Min(free), !.at = "imap_get"]
           f == [c EXCEPT !.inode_no = disk.root[c.slot].inode_no, !.at = "inode_get"]
<1>1. At(t, "root_get")
  BY DEF ReadRoot
<1>2. /\ call[t] \in CallType /\ call[t].at = "root_get" /\ Knows(disk, call[t]) /\ Sound(disk, 0)
      /\ disk \in Disk /\ call[t].request \in Request
  BY <1>1, DueWhole
<1>3. disk.root \in Unread(RootDir)
  BY <1>2 DEF Disk, Unread
<1>4. c \in CallType
  BY <1>2, <1>3 DEF CallType
<1>5. /\ c.request = call[t].request /\ c.slot = call[t].slot /\ c.entries = disk.root
  BY <1>2 DEF CallType
<1>6. ASSUME NEW a, Get(t, Return(c, a)) PROVE IInv'
  BY <1>2, <1>6, Returns, GetStep
<1> HIDE DEF c
<1>7. CASE Op(t) = "create" /\ free # {} /\ Get(t, e)
  <2>1. Min(free) \in free
    <3>1. free \in SUBSET Nat
      BY SizesNat DEF Slot
    <3> HIDE DEF free
    <3> QED  BY <1>7, <3>1, MinIn
  <2>2. Min(free) \in Slot /\ disk.root[Min(free)] = None
    BY <2>1
  <2> HIDE DEF free
  <2>3. e \in CallType
    BY <1>4, <2>2 DEF CallType, NextAccess
  <2>4. /\ e.at = "imap_get" /\ e.request = call[t].request /\ e.slot = Min(free)
        /\ e.entries = disk.root
    BY <1>4, <1>5 DEF CallType
  <2> HIDE DEF e
  <2>5. \A s \in FilesOf(disk) : disk.root[s].name # call[t].request.name
    BY <1>2, <1>7 DEF Knows, CreateKnows, Op
  <2>6. Knows(disk, e)
    BY <1>7, <2>2, <2>4, <2>5 DEF Knows, CreateKnows, Op
  <2>7. Fine(disk, After(e))
    BY <1>2, <2>3, <2>4, <2>6, GoesOn DEF After
  <2> QED  BY <1>7, <2>7, GetStep
<1>8. CASE Op(t) = "unlink" /\ Get(t, f)
  <2>1. c.slot \in FilesOf(disk)
    BY <1>2, <1>5, <1>8 DEF Knows, UnlinkKnows, Op
  <2>2. disk.root[c.slot].inode_no \in Inode
    BY <1>2, <2>1, DiskFields
  <2>3. f \in CallType
    BY <1>4, <2>2 DEF CallType, NextAccess
  <2>4. /\ f.at = "inode_get" /\ f.request = call[t].request /\ f.slot = c.slot
        /\ f.entries = disk.root /\ f.inode_no = disk.root[c.slot].inode_no
    BY <1>4, <1>5 DEF CallType
  <2> HIDE DEF f
  <2>5. Knows(disk, f)
    BY <1>8, <2>1, <2>4 DEF Knows, UnlinkKnows, OwnFile, Op
  <2>6. Fine(disk, After(f))
    BY <1>2, <2>3, <2>4, <2>5, GoesOn DEF After
  <2> QED  BY <1>8, <2>6, GetStep
<1> QED  BY <1>6, <1>7, <1>8 DEF ReadRoot, c

LEMMA ReadInodeBitmapKeeps ==
  ASSUME NEW t, Thread = {t}, IInv, ReadInodeBitmap(t)
  PROVE  IInv'
<1> DEFINE c == call[t]
           free == Inode \ (disk.imap \cup {MFS_ROOT_INODE})
           i == Min(free)
           e == [c EXCEPT !.bitmap = disk.imap \cup {i}, !.inode_no = i, !.inode = NewInode(i),
                          !.at = "imap_put"]
           f == [c EXCEPT !.bitmap = disk.imap \ {c.inode_no}, !.at = "imap_put"]
<1>1. At(t, "imap_get")
  BY DEF ReadInodeBitmap
<1>2. /\ c \in CallType /\ c.at = "imap_get" /\ Knows(disk, c) /\ Sound(disk, 0)
      /\ disk \in Disk /\ c.request \in Request
  BY <1>1, DueWhole
<1>3. disk.imap \in SUBSET Inode
  BY <1>2, DiskFields
<1>4. ASSUME NEW a, Get(t, Return(c, a)) PROVE IInv'
  BY <1>2, <1>4, Returns, GetStep
<1>5. CASE Op(t) = "create" /\ free # {} /\ Get(t, e)
  <2>1. i \in free
    <3>1. free \in SUBSET Nat
      BY SizesNat DEF Inode, MFS_ROOT_INODE
    <3> HIDE DEF free
    <3> QED  BY <1>5, <3>1, MinIn
  <2>2. i \in Inode \ {MFS_ROOT_INODE} /\ i \notin disk.imap
    BY <2>1
  <2> HIDE DEF free, i
  <2>3. NewInode(i) \in mfs_inode /\ disk.imap \cup {i} \in SUBSET (Block \cup Inode)
    BY <1>3, <2>2, NewInodeFields
  <2>4. e \in CallType
    BY <1>2, <2>2, <2>3 DEF CallType, NextAccess
  <2>5. /\ e.at = "imap_put" /\ e.request = c.request /\ e.slot = c.slot /\ e.entries = c.entries
        /\ e.inode_no = i /\ e.inode = NewInode(i) /\ e.bitmap = disk.imap \cup {i}
    BY <1>2 DEF CallType
  <2> HIDE DEF e
  <2>6. Fresh(disk, e)
    BY <1>2, <2>2, <2>5 DEF Fresh, Sound, Named
  <2>7. Knows(disk, e)
    BY <1>2, <1>5, <2>5, <2>6 DEF Knows, CreateKnows, Op
  <2>8. Fine(disk, After(e))
    BY <1>2, <2>4, <2>5, <2>7, GoesOn DEF After
  <2> QED  BY <1>5, <2>8, GetStep
<1>6. CASE Op(t) = "unlink" /\ Get(t, f)
  <2>1. disk.imap \ {c.inode_no} \in SUBSET (Block \cup Inode)
    BY <1>3
  <2>2. f \in CallType
    BY <1>2, <2>1 DEF CallType, NextAccess
  <2>3. /\ f.at = "imap_put" /\ f.request = c.request /\ f.inode_no = c.inode_no
        /\ f.inode = c.inode /\ f.bitmap = disk.imap \ {c.inode_no}
    BY <1>2 DEF CallType
  <2> HIDE DEF f
  <2>4. Fresh(disk, f)
    BY <1>2, <1>6, <2>3 DEF Knows, UnlinkKnows, Fresh, Op
  <2>5. Knows(disk, f)
    BY <1>6, <2>3, <2>4 DEF Knows, UnlinkKnows, Op
  <2>6. Fine(disk, After(f))
    BY <1>2, <2>2, <2>3, <2>5, GoesOn DEF After
  <2> QED  BY <1>6, <2>6, GetStep
<1> QED  BY <1>4, <1>5, <1>6 DEF ReadInodeBitmap

LEMMA WriteInodeBitmapKeeps ==
  ASSUME NEW t, Thread = {t}, IInv, WriteInodeBitmap(t)
  PROVE  IInv'
<1> DEFINE c == call[t]
           d == [disk EXCEPT !["imap"] = c.bitmap]
           e == [c EXCEPT !.at = "table_get"]
<1>1. At(t, "imap_put")
  BY DEF WriteInodeBitmap
<1>2. /\ c \in CallType /\ c.at = "imap_put" /\ Knows(disk, c) /\ Sound(disk, 0)
      /\ disk \in Disk /\ c.request \in Request
      /\ c.request.op \in {"readdir", "create", "unlink", "getattr", "read", "write"}
  BY <1>1, DueWhole
<1>3. disk.imap \in SUBSET Inode
  BY <1>2, DiskFields
<1>4. c.request.op = "create" \/ c.request.op = "unlink"
  BY <1>2 DEF Knows, ReadKnows, WriteKnows
<1>5. CASE c.request.op = "create"
  <2>1. Put(t, "imap", c.bitmap, e)
    BY <1>5 DEF WriteInodeBitmap, Op
  <2>2. /\ Fresh(disk, c) /\ c.bitmap = disk.imap \cup {c.inode_no} /\ c.entries = disk.root
        /\ c.slot \in Slot /\ disk.root[c.slot] = None
        /\ \A s \in FilesOf(disk) : disk.root[s].name # c.request.name
    BY <1>2, <1>5 DEF Knows, CreateKnows
  <2>3. /\ c.bitmap \in SUBSET Inode
        /\ \A s \in FilesOf(disk) : disk.root[s].inode_no \in c.bitmap
    BY <1>2, <1>3, <2>2 DEF Fresh, Sound, Named
  <2>4. Sound(d, 0)
    BY <1>2, <2>3, ImapWritten
  <2>5. d.root = disk.root /\ d.imap = c.bitmap
    BY <1>2, PartWritten
  <2>6. FilesOf(d) = FilesOf(disk)
    BY <2>5 DEF FilesOf
  <2>7. e \in CallType
    BY <1>2 DEF CallType, NextAccess
  <2>8. /\ e.at = "table_get" /\ e.request = c.request /\ e.slot = c.slot /\ e.entries = c.entries
        /\ e.inode_no = c.inode_no /\ e.inode = c.inode
    BY <1>2 DEF CallType
  <2> HIDE DEF d, e
  <2>9. Fresh(d, e)
    BY <2>2, <2>5, <2>6, <2>8 DEF Fresh
  <2>10. Knows(d, e)
    BY <1>5, <2>2, <2>5, <2>6, <2>8, <2>9 DEF Knows, CreateKnows
  <2>11. Fine(d, After(e))
    BY <2>4, <2>7, <2>8, <2>10, GoesOn DEF After
  <2> QED  BY <2>1, <2>11, PutStep DEF d
<1>6. CASE c.request.op = "unlink"
  <2>1. Put(t, "imap", c.bitmap, Return(c, "OK"))
    BY <1>6 DEF WriteInodeBitmap, Op
  <2>2. Fresh(disk, c) /\ c.bitmap = disk.imap \ {c.inode_no}
    BY <1>2, <1>6 DEF Knows, UnlinkKnows
  <2>3. /\ c.bitmap \in SUBSET Inode
        /\ \A s \in FilesOf(disk) : disk.root[s].inode_no \in c.bitmap
    BY <1>2, <1>3, <2>2 DEF Fresh, Sound, Named
  <2>4. Sound(d, 0)
    BY <1>2, <2>3, ImapWritten
  <2> HIDE DEF d
  <2>5. Fine(d, After(Return(c, "OK")))
    BY <2>4, Returns
  <2> QED  BY <2>1, <2>5, PutStep DEF d
<1> QED  BY <1>4, <1>5, <1>6

\* The locals of mfs_write that tell what it has written so far.
SameWork(c, e) ==
  /\ e.request = c.request /\ e.slot = c.slot /\ e.inode_no = c.inode_no
  /\ e.inode = c.inode /\ e.idx_data = c.idx_data /\ e.bytes = c.bytes

LEMMA WorkGoesOn ==
  ASSUME NEW d, NEW c, NEW e, SameWork(c, e)
  PROVE  /\ Position(e) = Position(c) /\ BlockIdx(e) = BlockIdx(c) /\ BlockOff(e) = BlockOff(c)
         /\ Writing(d, c) => Writing(d, e)
         /\ OwnFile(d, c) => OwnFile(d, e)
BY DEF SameWork, Position, BlockIdx, BlockOff, Writing, OwnFile

\* The view of a file whose inode and index block are as mfs_write has them.
LEMMA RecordedView ==
  ASSUME NEW d \in Disk, Sound(d, 0), NEW c, Writing(d, c), c.inode \in mfs_inode,
         d.block[c.inode.index_block] = c.idx_data,
         NEW e, e.root = d.root, e.block = d.block,
         e.table = [d.table EXCEPT ![c.inode_no] = c.inode]
  PROVE  /\ FilesOf(e) = FilesOf(d) /\ Node(e, c.slot) = c.inode
         /\ \A s \in FilesOf(d) : s # c.slot => Node(e, s) = Node(d, s)
         /\ \A s \in FilesOf(d), k \in Place : s # c.slot => Blk(e, s, k) = Blk(d, s, k)
         /\ Blk(e, c.slot, 0) = c.inode.index_block
         /\ \A k \in Place \ {0} : Blk(e, c.slot, k) = c.idx_data[k]
         /\ c.inode.index_block # 0
<1>1. FilesOf(e) = FilesOf(d)
  BY DEF FilesOf
<1>2. c.slot \in FilesOf(d) /\ c.inode_no = d.root[c.slot].inode_no /\ c.inode.index_block \in d.bmap
  BY DEF Writing, OwnFile
<1>3. c.inode_no \in Inode /\ d.table \in [Inode -> mfs_inode]
  BY <1>2, DiskFields
<1>4. Node(e, c.slot) = c.inode
  BY <1>2, <1>3 DEF Node
<1>5. ASSUME NEW s \in FilesOf(d), s # c.slot PROVE Node(e, s) = Node(d, s)
  <2>1. d.root[s].inode_no # c.inode_no /\ d.root[s].inode_no \in Inode
    BY <1>2, <1>5, DiskFields DEF Sound, Named
  <2> QED  BY <1>3, <2>1 DEF Node
<1>6. ASSUME NEW s \in FilesOf(d), NEW k \in Place, s # c.slot PROVE Blk(e, s, k) = Blk(d, s, k)
  BY <1>5, <1>6 DEF Blk
<1>7. c.inode.index_block # 0
  BY <1>2, DiskFields, Nonzero
<1>8. Blk(e, c.slot, 0) = c.inode.index_block
  BY <1>4 DEF Blk
<1>9. \A k \in Place \ {0} : Blk(e, c.slot, k) = c.idx_data[k]
  BY <1>4, <1>7 DEF Blk
<1> QED  BY <1>1, <1>4, <1>5, <1>6, <1>7, <1>8, <1>9

\* No block of another file is one that mfs_write has for its own.
LEMMA WritingApart ==
  ASSUME NEW d \in Disk, Sound(d, 0), NEW c, Writing(d, c), c.inode.index_block # 0,
         NEW s \in FilesOf(d), s # c.slot, NEW k \in Place
  PROVE  /\ Blk(d, s, k) # c.inode.index_block
         /\ \A l \in Place \ {0} : c.idx_data[l] # 0 => Blk(d, s, k) # c.idx_data[l]
<1>1. c.slot \in FilesOf(d) /\ 0 \in Place
  BY SizesNat DEF Writing, OwnFile, Place
<1>2. Separate(d)
  BY DEF Sound
<1>3. Blk(d, s, k) # c.inode.index_block
  <2>1. CASE Node(d, c.slot).index_block = 0
    BY <2>1 DEF Writing, Unused
  <2>2. CASE Node(d, c.slot).index_block # 0
    <3>1. Blk(d, c.slot, 0) = c.inode.index_block
      BY <2>2 DEF Writing, Blk
    <3> QED  BY <1>1, <1>2, <3>1 DEF Separate
  <2> QED  BY <2>1, <2>2
<1>4. ASSUME NEW l \in Place \ {0}, c.idx_data[l] # 0 PROVE Blk(d, s, k) # c.idx_data[l]
  <2>0. l \in 1 .. IndexSize
    BY SizesNat DEF Place
  <2>1. CASE Blk(d, c.slot, l) = 0
    BY <1>4, <2>0, <2>1 DEF Writing, Unused
  <2>2. CASE Blk(d, c.slot, l) # 0
    <3>1. Blk(d, c.slot, l) = c.idx_data[l]
      BY <2>0, <2>2 DEF Writing
    <3> QED  BY <1>1, <1>2, <2>2, <3>1 DEF Separate
  <2> QED  BY <2>1, <2>2
<1> QED  BY <1>3, <1>4

\* A disk where the file of mfs_write has the blocks that mfs_write has in its locals.
LEMMA Recorded ==
  ASSUME NEW d \in Disk, Sound(d, 0), NEW c, Writing(d, c), c.inode.index_block # 0,
         NEW e \in Disk, e.bmap = d.bmap, e.imap = d.imap, e.root = d.root,
         \A s \in FilesOf(d) : s # c.slot => Node(e, s) = Node(d, s),
         \A s \in FilesOf(d), k \in Place : s # c.slot => Blk(e, s, k) = Blk(d, s, k),
         Node(e, c.slot).inode_no = c.inode_no,
         Blk(e, c.slot, 0) = c.inode.index_block,
         \A k \in Place \ {0} : Blk(e, c.slot, k) = c.idx_data[k],
         Mapped(IndexSize, c.idx_data, Node(e, c.slot).size),
         e.block[c.inode.index_block] \in IndexArray,
         \A b \in Block : b # c.inode.index_block => e.block[b] = d.block[b]
  PROVE  Sound(e, 0)
<1> DEFINE x == c.inode.index_block
<1>1. c.slot \in FilesOf(d) /\ c.inode_no = d.root[c.slot].inode_no
  BY DEF Writing, OwnFile
<1>2. FilesOf(e) = FilesOf(d)
  BY DEF FilesOf
<1>3. /\ x \in d.bmap /\ x \in Block /\ c.idx_data \in IndexArray
      /\ \A k \in Place \ {0} : c.idx_data[k] # 0 =>
           /\ c.idx_data[k] \in d.bmap /\ c.idx_data[k] \in Block
           /\ d.block[c.idx_data[k]] \in DataBlock
           /\ c.idx_data[k] # x
           /\ \A l \in Place \ {0} : c.idx_data[l] = c.idx_data[k] => l = k
  <2>1. Place \ {0} = 1 .. IndexSize
    BY SizesNat DEF Place
  <2> QED  BY <2>1, DiskFields DEF Writing
<1>4. ASSUME NEW z \in FilesOf(d), z # c.slot, NEW l \in Place
      PROVE  Blk(d, z, l) # x /\ \A k \in Place \ {0} : c.idx_data[k] # 0 => Blk(d, z, l) # c.idx_data[k]
  BY <1>4, WritingApart
<1> HIDE DEF x
<1>5. Named(e)
  BY <1>1, <1>2 DEF Named, Sound
<1>6. Filled(e)
  <2>1. ASSUME NEW s \in FilesOf(d), s # c.slot
        PROVE  /\ Blk(e, s, 0) # 0 => e.block[Blk(e, s, 0)] \in IndexArray
               /\ \A k \in Place \ {0} : Blk(e, s, k) # 0 => e.block[Blk(e, s, k)] \in DataBlock
    <3>1. 0 \in Place
      BY SizesNat DEF Place
    <3>2. \A k \in Place : Blk(e, s, k) = Blk(d, s, k) /\ Blk(d, s, k) # x
      BY <1>4, <2>1
    <3>3. \A k \in Place : Blk(d, s, k) # 0 => Blk(d, s, k) \in Block
      BY <2>1, DiskFields, Nonzero DEF Marked, Sound, FilesOf
    <3>4. \A k \in Place : Blk(e, s, k) # 0 => e.block[Blk(e, s, k)] = d.block[Blk(d, s, k)]
      BY <3>2, <3>3 DEF x
    <3> QED  BY <2>1, <3>1, <3>2, <3>4 DEF Filled, Sound
  <2>2. /\ e.block[Blk(e, c.slot, 0)] \in IndexArray
        /\ \A k \in Place \ {0} : Blk(e, c.slot, k) # 0 => e.block[Blk(e, c.slot, k)] \in DataBlock
    BY <1>3 DEF x
  <2> QED  BY <1>2, <2>1, <2>2 DEF Filled
<1>7. Separate(e)
  <2>1. ASSUME NEW z \in FilesOf(d), z # c.slot, NEW k \in Place, NEW l \in Place,
               Blk(e, c.slot, k) # 0
        PROVE  Blk(e, c.slot, k) # Blk(e, z, l)
    BY <1>4, <2>1 DEF x
  <2>2. ASSUME NEW k \in Place, NEW l \in Place, Blk(e, c.slot, k) # 0,
               Blk(e, c.slot, k) = Blk(e, c.slot, l)
        PROVE  k = l
    BY <1>3, <2>2 DEF x
  <2>3. ASSUME NEW s \in FilesOf(d), NEW z \in FilesOf(d), NEW k \in Place, NEW l \in Place,
               Blk(e, s, k) # 0, Blk(e, s, k) = Blk(e, z, l)
        PROVE  s = z /\ k = l
    <3>1. CASE s = c.slot \/ z = c.slot
      BY <2>1, <2>2, <2>3, <3>1
    <3>2. CASE s # c.slot /\ z # c.slot
      BY <2>3, <3>2 DEF Separate, Sound
    <3> QED  BY <3>1, <3>2
  <2> QED  BY <1>2, <2>3 DEF Separate
<1>8. Sized(e)
  <2>1. ASSUME NEW s \in FilesOf(d), s # c.slot
        PROVE  Mapped(IndexSize, [k \in 1 .. IndexSize |-> Blk(e, s, k)], Node(e, s).size)
    <3>1. [k \in 1 .. IndexSize |-> Blk(e, s, k)] = [k \in 1 .. IndexSize |-> Blk(d, s, k)]
      BY <2>1, SizesNat DEF Place
    <3> QED  BY <2>1, <3>1 DEF Sized, Sound
  <2>2. Mapped(IndexSize, [k \in 1 .. IndexSize |-> Blk(e, c.slot, k)], Node(e, c.slot).size)
    <3>1. \A k \in 1 .. IndexSize : Blk(e, c.slot, k) = c.idx_data[k]
      BY SizesNat DEF Place
    <3> QED  BY <3>1 DEF Mapped
  <2> QED  BY <1>2, <2>1, <2>2 DEF Sized
<1>9. Marked(e, 0)
  <2>1. ASSUME NEW s \in FilesOf(d), NEW k \in Place, Blk(e, s, k) # 0 PROVE Blk(e, s, k) \in d.bmap
    <3>1. CASE s = c.slot
      BY <1>3, <2>1, <3>1 DEF x
    <3>2. CASE s # c.slot
      <4>1. s # 0
        BY Nonzero DEF FilesOf
      <4> QED  BY <2>1, <3>2, <4>1 DEF Marked, Sound
    <3> QED  BY <3>1, <3>2
  <2> QED  BY <1>2, <2>1 DEF Marked
<1> QED  BY <1>5, <1>6, <1>7, <1>8, <1>9 DEF Sound

LEMMA InodeRecorded ==
  ASSUME NEW d \in Disk, Sound(d, 0), NEW c, Writing(d, c), c.inode \in mfs_inode,
         d.block[c.inode.index_block] = c.idx_data, c.inode.size = Position(c)
  PROVE  Sound([d EXCEPT !["table"] = [d.table EXCEPT ![c.inode_no] = c.inode]], 0)
<1> DEFINE m == [d.table EXCEPT ![c.inode_no] = c.inode]
           e == [d EXCEPT !["table"] = m]
<1>1. c.slot \in FilesOf(d) /\ c.inode_no = d.root[c.slot].inode_no /\ c.inode_no \in Inode
      /\ c.inode.inode_no = c.inode_no
  BY DiskFields DEF Writing, OwnFile
<1>2. m \in InodeTable
  BY <1>1, DiskFields DEF InodeTable
<1>3. e.bmap = d.bmap /\ e.imap = d.imap /\ e.table = m /\ e.root = d.root /\ e.block = d.block
  BY PartWritten
<1>4. e \in Disk
  BY <1>2, StillDisk
<1> HIDE DEF e
<1>5. /\ FilesOf(e) = FilesOf(d) /\ Node(e, c.slot) = c.inode
      /\ \A s \in FilesOf(d) : s # c.slot => Node(e, s) = Node(d, s)
      /\ \A s \in FilesOf(d), k \in Place : s # c.slot => Blk(e, s, k) = Blk(d, s, k)
      /\ Blk(e, c.slot, 0) = c.inode.index_block
      /\ \A k \in Place \ {0} : Blk(e, c.slot, k) = c.idx_data[k]
      /\ c.inode.index_block # 0
  BY <1>3, RecordedView
<1>6. e.block[c.inode.index_block] \in IndexArray
  BY <1>3 DEF Writing
<1>7. Mapped(IndexSize, c.idx_data, Node(e, c.slot).size)
  BY <1>5 DEF Writing
<1> HIDE DEF m
<1>8. Sound(e, 0)
  BY <1>1, <1>3, <1>4, <1>5, <1>6, <1>7, Recorded
<1> QED  BY <1>8 DEF e, m

LEMMA TableOps ==
  ASSUME NEW d, NEW c, Knows(d, c), c.at \in {"table_get", "table_put"},
         c.request.op \in {"readdir", "create", "unlink", "getattr", "read", "write"}
  PROVE  \/ c.request.op = "create" /\ CreateKnows(d, c)
         \/ c.request.op = "unlink" /\ UnlinkKnows(d, c)
         \/ c.request.op = "write" /\ WriteKnows(d, c)
BY DEF Knows, ReadKnows

LEMMA ReadInodeTableKeeps ==
  ASSUME NEW t, Thread = {t}, IInv, ReadInodeTable(t)
  PROVE  IInv'
<1> DEFINE c == call[t]
           table == [disk.table EXCEPT ![c.inode.inode_no] = c.inode]
           e == [c EXCEPT !.table = table, !.at = "table_put"]
<1>1. At(t, "table_get") /\ Get(t, e)
  BY DEF ReadInodeTable
<1>2. /\ c \in CallType /\ c.at = "table_get" /\ Knows(disk, c) /\ Sound(disk, 0)
      /\ disk \in Disk /\ c.request \in Request
      /\ c.request.op \in {"readdir", "create", "unlink", "getattr", "read", "write"}
  BY <1>1, DueWhole
<1>3. c.inode \in mfs_inode
  BY <1>2, CallFields
<1>4. c.inode.inode_no = c.inode_no /\ c.inode_no \in Inode
  <2>1. CASE c.request.op = "create" \/ c.request.op = "unlink"
    <3>1. Fresh(disk, c)
      BY <1>2, <2>1, TableOps DEF CreateKnows, UnlinkKnows
    <3> QED  BY <3>1, NewInodeFields DEF Fresh
  <2>2. CASE c.request.op = "write"
    <3>1. Writing(disk, c)
      BY <1>2, <2>2, TableOps DEF WriteKnows
    <3> QED  BY <1>2, <3>1, DiskFields DEF Writing, OwnFile
  <2> QED  BY <1>2, <2>1, <2>2, TableOps
<1>5. table \in Unread(InodeTable)
  BY <1>2, <1>3, <1>4, DiskFields DEF Unread, InodeTable
<1>6. table = [disk.table EXCEPT ![c.inode_no] = c.inode]
  BY <1>4
<1> HIDE DEF table
<1>7. e \in CallType
  BY <1>2, <1>5 DEF CallType, NextAccess
<1>8. /\ e.at = "table_put" /\ e.request = c.request /\ e.slot = c.slot /\ e.entries = c.entries
      /\ e.inode_no = c.inode_no /\ e.inode = c.inode /\ e.idx_data = c.idx_data
      /\ e.bytes = c.bytes /\ e.table = table
  BY <1>2 DEF CallType
<1> HIDE DEF e
<1>9. SameWork(c, e)
  BY <1>8 DEF SameWork
<1>10. Knows(disk, e)
  <2>1. CASE c.request.op = "create"
    BY <1>2, <1>6, <1>8, <2>1, TableOps DEF Knows, CreateKnows, Fresh
  <2>2. CASE c.request.op = "unlink"
    BY <1>2, <1>6, <1>8, <2>2, TableOps DEF Knows, UnlinkKnows, Fresh
  <2>3. CASE c.request.op = "write"
    <3>1. WriteKnows(disk, c)
      BY <1>2, <2>3, TableOps
    <3>2. /\ Writing(disk, e) /\ e.inode.size = Position(e) /\ OwnFile(disk, e)
          /\ disk.block[e.inode.index_block] = e.idx_data /\ e.inode.index_block # 0
      BY <1>2, <1>8, <1>9, <3>1, WorkGoesOn DEF WriteKnows
    <3>3. WriteKnows(disk, e)
      BY <1>6, <1>8, <3>2 DEF WriteKnows
    <3> QED  BY <1>8, <2>3, <3>3 DEF Knows
  <2> QED  BY <1>2, <2>1, <2>2, <2>3, TableOps
<1>11. Fine(disk, After(e))
  BY <1>2, <1>7, <1>8, <1>10, GoesOn DEF After
<1> QED  BY <1>1, <1>11, GetStep

LEMMA WriteInodeTableKeeps ==
  ASSUME NEW t, Thread = {t}, IInv, WriteInodeTable(t)
  PROVE  IInv'
<1> DEFINE c == call[t]
           d == [disk EXCEPT !["table"] = c.table]
           e == [c EXCEPT !.at = "root_put"]
           f == [c EXCEPT !.at = "imap_get"]
<1>1. At(t, "table_put")
  BY DEF WriteInodeTable
<1>2. /\ c \in CallType /\ c.at = "table_put" /\ Knows(disk, c) /\ Sound(disk, 0)
      /\ disk \in Disk /\ c.request \in Request
      /\ c.request.op \in {"readdir", "create", "unlink", "getattr", "read", "write"}
  BY <1>1, DueWhole
<1>3. c.inode \in mfs_inode
  BY <1>2, CallFields
<1>4. ASSUME Fresh(disk, c), c.table = [disk.table EXCEPT ![c.inode_no] = c.inode]
      PROVE  /\ Sound(d, 0) /\ Fresh(d, c) /\ d.imap = disk.imap /\ d.root = disk.root
             /\ FilesOf(d) = FilesOf(disk) /\ d.table[c.inode_no] = c.inode
  <2>1. Sound(d, 0)
    BY <1>2, <1>3, <1>4, TableWritten DEF Fresh
  <2>2. d.imap = disk.imap /\ d.root = disk.root /\ d.table = c.table
    BY <1>2, PartWritten
  <2>3. FilesOf(d) = FilesOf(disk)
    BY <2>2 DEF FilesOf
  <2>4. d.table[c.inode_no] = c.inode
    BY <1>2, <1>4, <2>2, DiskFields DEF Fresh
  <2>5. Fresh(d, c)
    BY <1>4, <2>2, <2>3 DEF Fresh
  <2> QED  BY <2>1, <2>2, <2>3, <2>4, <2>5
<1>5. CASE c.request.op = "create"
  <2>1. Put(t, "table", c.table, e)
    BY <1>5 DEF WriteInodeTable, Op
  <2>2. CreateKnows(disk, c)
    BY <1>2, <1>5 DEF Knows
  <2>3. /\ Sound(d, 0) /\ Fresh(d, c) /\ d.imap = disk.imap /\ d.root = disk.root
        /\ FilesOf(d) = FilesOf(disk) /\ d.table[c.inode_no] = c.inode
    BY <1>2, <1>4, <2>2 DEF CreateKnows
  <2>4. e \in CallType
    BY <1>2 DEF CallType, NextAccess
  <2>5. /\ e.at = "root_put" /\ e.request = c.request /\ e.slot = c.slot /\ e.entries = c.entries
        /\ e.inode_no = c.inode_no /\ e.inode = c.inode
    BY <1>2 DEF CallType
  <2> HIDE DEF d, e
  <2>6. Fresh(d, e)
    BY <2>3, <2>5 DEF Fresh
  <2>7. CreateKnows(d, e)
    BY <1>2, <2>2, <2>3, <2>5, <2>6 DEF CreateKnows
  <2>8. Fine(d, After(e))
    BY <1>5, <2>3, <2>4, <2>5, <2>7, GoesOn DEF After, Knows
  <2> QED  BY <2>1, <2>8, PutStep DEF d
<1>6. CASE c.request.op = "unlink"
  <2>1. Put(t, "table", c.table, f)
    BY <1>6 DEF WriteInodeTable, Op
  <2>2. UnlinkKnows(disk, c)
    BY <1>2, <1>6 DEF Knows
  <2>3. Sound(d, 0) /\ Fresh(d, c)
    BY <1>2, <1>4, <2>2 DEF UnlinkKnows
  <2>4. f \in CallType
    BY <1>2 DEF CallType, NextAccess
  <2>5. f.at = "imap_get" /\ f.request = c.request /\ f.inode_no = c.inode_no /\ f.inode = c.inode
    BY <1>2 DEF CallType
  <2> HIDE DEF d, f
  <2>6. Fresh(d, f)
    BY <2>3, <2>5 DEF Fresh
  <2>7. UnlinkKnows(d, f)
    BY <2>5, <2>6 DEF UnlinkKnows
  <2>8. Fine(d, After(f))
    BY <1>6, <2>3, <2>4, <2>5, <2>7, GoesOn DEF After, Knows
  <2> QED  BY <2>1, <2>8, PutStep DEF d
<1>7. CASE c.request.op = "write"
  <2> DEFINE a == IF c.bytes > 0 THEN c.bytes ELSE c.rc
  <2>1. Put(t, "table", c.table, Return(c, a))
    BY <1>7 DEF WriteInodeTable, Op
  <2>2. WriteKnows(disk, c)
    BY <1>2, <1>7 DEF Knows
  <2>3. /\ Writing(disk, c) /\ disk.block[c.inode.index_block] = c.idx_data
        /\ c.inode.size = Position(c) /\ c.table = [disk.table EXCEPT ![c.inode_no] = c.inode]
    BY <1>2, <2>2 DEF WriteKnows
  <2>4. Sound(d, 0)
    BY <1>2, <1>3, <2>3, InodeRecorded
  <2> HIDE DEF d, a
  <2>5. Fine(d, After(Return(c, a)))
    BY <2>4, Returns
  <2> QED  BY <2>1, <2>5, PutStep DEF d
<1> QED  BY <1>2, <1>5, <1>6, <1>7, TableOps

-----------------------------------------------------------------------------
(* Entries come and go.                                                    *)

\* A new entry for an inode that nobody has.
LEMMA EntryAdded ==
  ASSUME NEW d \in Disk, Sound(d, 0), NEW z \in Slot, d.root[z] = None,
         NEW n \in Name, NEW i \in Inode \ {MFS_ROOT_INODE}, i \in d.imap,
         d.table[i] = NewInode(i),
         \A s \in FilesOf(d) : d.root[s].inode_no # i /\ d.root[s].name # n
  PROVE  Sound([d EXCEPT !["root"] = [d.root EXCEPT ![z] = [name |-> n, inode_no |-> i]]], 0)
<1> DEFINE entry == [name |-> n, inode_no |-> i]
           m == [d.root EXCEPT ![z] = entry]
           e == [d EXCEPT !["root"] = m]
<1>0. entry \in mfs_dir_entry /\ entry.name = n /\ entry.inode_no = i
  BY DEF mfs_dir_entry
<1> HIDE DEF entry
<1>1. m \in RootDir /\ m[z] = entry /\ \A s \in Slot : s # z => m[s] = d.root[s]
  BY <1>0, DiskFields DEF RootDir
<1>2. e.bmap = d.bmap /\ e.imap = d.imap /\ e.table = d.table /\ e.root = m /\ e.block = d.block
  BY PartWritten
<1>3. e \in Disk
  BY <1>1, StillDisk
<1> HIDE DEF e, m
<1>4. \A s \in FilesOf(e) : s = z \/ s \in FilesOf(d)
  BY <1>1, <1>2 DEF FilesOf
<1>5. \A s \in FilesOf(d) : s # z /\ s \in Slot /\ e.root[s] = d.root[s] /\ Node(e, s) = Node(d, s)
  BY <1>1, <1>2 DEF FilesOf, Node
<1>6. e.root[z] = entry /\ Node(e, z) = NewInode(i)
  BY <1>0, <1>1, <1>2 DEF Node
<1>7. /\ Node(e, z).inode_no = i /\ Node(e, z).size = 0 /\ Node(e, z).index_block = 0
  BY <1>6, NewInodeFields
<1>8. \A k : Blk(e, z, k) = 0
  BY <1>7 DEF Blk
<1>9. \A s \in FilesOf(d) : \A k : Blk(e, s, k) = Blk(d, s, k)
  BY <1>2, <1>5 DEF Blk
<1>10. Named(e)
  <2>1. ASSUME NEW s \in FilesOf(e)
        PROVE  /\ e.root[s].inode_no \in e.imap \ {MFS_ROOT_INODE}
               /\ Node(e, s).inode_no = e.root[s].inode_no
    <3>1. CASE s = z
      BY <1>0, <1>2, <1>6, <1>7, <3>1
    <3>2. CASE s \in FilesOf(d)
      BY <1>2, <1>5, <3>2 DEF Sound, Named
    <3> QED  BY <1>4, <3>1, <3>2
  <2>2. ASSUME NEW s \in FilesOf(e), NEW y \in FilesOf(e), s # y
        PROVE  e.root[s].inode_no # e.root[y].inode_no /\ e.root[s].name # e.root[y].name
    <3>1. CASE s = z /\ y \in FilesOf(d)
      BY <1>0, <1>5, <1>6, <3>1
    <3>2. CASE y = z /\ s \in FilesOf(d)
      BY <1>0, <1>5, <1>6, <3>2
    <3>3. CASE s \in FilesOf(d) /\ y \in FilesOf(d)
      BY <1>5, <2>2, <3>3 DEF Sound, Named
    <3> QED  BY <1>4, <2>2, <3>1, <3>2, <3>3
  <2> QED  BY <2>1, <2>2 DEF Named
<1>11. Filled(e)
  BY <1>2, <1>4, <1>8, <1>9 DEF Filled, Sound
<1>12. Separate(e)
  <2>1. ASSUME NEW s \in FilesOf(e), NEW y \in FilesOf(e), NEW k \in Place, NEW l \in Place,
               Blk(e, s, k) # 0, Blk(e, s, k) = Blk(e, y, l)
        PROVE  s = y /\ k = l
    <3>1. s \in FilesOf(d) /\ y \in FilesOf(d)
      BY <1>4, <1>8, <2>1
    <3> QED  BY <1>9, <2>1, <3>1 DEF Separate, Sound
  <2> QED  BY <2>1 DEF Separate
<1>13. Sized(e)
  <2>1. ASSUME NEW s \in FilesOf(d)
        PROVE  Mapped(IndexSize, [k \in 1 .. IndexSize |-> Blk(e, s, k)], Node(e, s).size)
    <3>1. [k \in 1 .. IndexSize |-> Blk(e, s, k)] = [k \in 1 .. IndexSize |-> Blk(d, s, k)]
      BY <1>9
    <3> QED  BY <1>5, <3>1 DEF Sized, Sound
  <2>2. Mapped(IndexSize, [k \in 1 .. IndexSize |-> Blk(e, z, k)], Node(e, z).size)
    <3>1. 0 <= IndexSize * BlockSize /\ \A k \in 1 .. IndexSize : ~ ((k - 1) * BlockSize < 0)
      BY SizesNat, SMT
    <3> QED  BY <1>7, <3>1 DEF Mapped
  <2> QED  BY <1>4, <2>1, <2>2 DEF Sized
<1>14. Marked(e, 0)
  <2>1. \A s \in FilesOf(d) : s # 0
    BY Nonzero DEF FilesOf
  <2> QED  BY <1>2, <1>4, <1>8, <1>9, <2>1 DEF Marked, Sound
<1>15. Sound(e, 0)
  BY <1>3, <1>10, <1>11, <1>12, <1>13, <1>14 DEF Sound
<1> QED  BY <1>15 DEF e, m, entry

LEMMA EntryRemoved ==
  ASSUME NEW d \in Disk, NEW z \in Slot, Sound(d, z)
  PROVE  /\ Sound([d EXCEPT !["root"] = [d.root EXCEPT ![z] = None]], 0)
         /\ LET e == [d EXCEPT !["root"] = [d.root EXCEPT ![z] = None]]
            IN  \A s \in FilesOf(e) : s \in FilesOf(d) \ {z} /\ e.root[s] = d.root[s]
<1> DEFINE m == [d.root EXCEPT ![z] = None]
           e == [d EXCEPT !["root"] = m]
<1>1. m \in RootDir /\ m[z] = None /\ \A s \in Slot : s # z => m[s] = d.root[s]
  BY DiskFields DEF RootDir
<1>2. e.bmap = d.bmap /\ e.imap = d.imap /\ e.table = d.table /\ e.root = m /\ e.block = d.block
  BY PartWritten
<1>3. e \in Disk
  BY <1>1, StillDisk
<1> HIDE DEF e, m
<1>4. \A s \in FilesOf(e) : s \in FilesOf(d) \ {z} /\ e.root[s] = d.root[s] /\ Node(e, s) = Node(d, s)
  BY <1>1, <1>2 DEF FilesOf, Node
<1>5. \A s \in FilesOf(e) : \A k : Blk(e, s, k) = Blk(d, s, k)
  BY <1>2, <1>4 DEF Blk
<1>6. Named(e)
  BY <1>2, <1>4 DEF Named, Sound
<1>7. Filled(e)
  BY <1>2, <1>4, <1>5 DEF Filled, Sound
<1>8. Separate(e)
  BY <1>4, <1>5 DEF Separate, Sound
<1>9. Sized(e)
  <2>1. ASSUME NEW s \in FilesOf(e)
        PROVE  Mapped(IndexSize, [k \in 1 .. IndexSize |-> Blk(e, s, k)], Node(e, s).size)
    <3>1. [k \in 1 .. IndexSize |-> Blk(e, s, k)] = [k \in 1 .. IndexSize |-> Blk(d, s, k)]
      BY <1>5
    <3> QED  BY <1>4, <3>1 DEF Sized, Sound
  <2> QED  BY <2>1 DEF Sized
<1>10. Marked(e, 0)
  BY <1>2, <1>4, <1>5 DEF Marked, Sound
<1>11. Sound(e, 0)
  BY <1>3, <1>6, <1>7, <1>8, <1>9, <1>10 DEF Sound
<1> QED  BY <1>4, <1>11 DEF e, m

LEMMA WriteRootKeeps ==
  ASSUME NEW t, Thread = {t}, IInv, WriteRoot(t)
  PROVE  IInv'
<1> DEFINE c == call[t]
           new == [name |-> c.request.name, inode_no |-> c.inode_no]
           m == [c.entries EXCEPT ![c.slot] = IF Op(t) = "create" THEN new ELSE None]
           d == [disk EXCEPT !["root"] = m]
           f == [c EXCEPT !.inode = NewInode(c.inode_no), !.at = "table_get"]
<1>1. At(t, "root_put")
  BY DEF WriteRoot
<1>2. /\ c \in CallType /\ c.at = "root_put" /\ Knows(disk, c) /\ c # Idle
      /\ Sound(disk, Torn(c)) /\ disk \in Disk /\ c.request \in Request
      /\ c.request.op \in {"readdir", "create", "unlink", "getattr", "read", "write"}
  BY <1>1, Due
<1>3. c.request.op = "create" \/ c.request.op = "unlink"
  BY <1>2 DEF Knows, ReadKnows, WriteKnows
<1>4. CASE c.request.op = "create"
  <2>1. Put(t, "root", m, Return(c, "OK"))
    BY <1>4 DEF WriteRoot, Op
  <2>2. CreateKnows(disk, c) /\ Torn(c) = 0
    BY <1>2, <1>4 DEF Knows, Torn
  <2>3. /\ c.entries = disk.root /\ c.slot \in Slot /\ disk.root[c.slot] = None /\ Fresh(disk, c)
        /\ c.inode_no \in disk.imap /\ disk.table[c.inode_no] = c.inode
        /\ \A s \in FilesOf(disk) : disk.root[s].name # c.request.name
    BY <1>2, <2>2 DEF CreateKnows
  <2>4. c.request.name \in Name
    BY <1>2, <1>4, RequestFields
  <2>5. m = [disk.root EXCEPT ![c.slot] = new]
    BY <1>4, <2>3 DEF Op
  <2>6. Sound(disk, 0)
    BY <1>2, <2>2
  <2>7. Sound([disk EXCEPT !["root"] = [disk.root EXCEPT ![c.slot] = new]], 0)
    BY <1>2, <2>3, <2>4, <2>6, EntryAdded DEF Fresh
  <2>8. Sound(d, 0)
    BY <2>5, <2>7
  <2> HIDE DEF d, m
  <2>9. Fine(d, After(Return(c, "OK")))
    BY <2>8, Returns
  <2> QED  BY <2>1, <2>9, PutStep DEF d
<1>5. CASE c.request.op = "unlink"
  <2>1. Put(t, "root", m, f)
    BY <1>5 DEF WriteRoot, Op
  <2>2. UnlinkKnows(disk, c) /\ Torn(c) = c.slot
    BY <1>2, <1>5 DEF Knows, Torn
  <2>3. c.entries = disk.root /\ OwnFile(disk, c)
    BY <1>2, <2>2 DEF UnlinkKnows
  <2>4. c.slot \in Slot /\ c.slot \in FilesOf(disk) /\ c.inode_no = disk.root[c.slot].inode_no
    BY <2>3 DEF OwnFile, FilesOf
  <2>5. m = [disk.root EXCEPT ![c.slot] = None]
    BY <1>5, <2>3 DEF Op
  <2>6. Sound(disk, c.slot)
    BY <1>2, <2>2
  <2>7. Sound(d, 0) /\ \A s \in FilesOf(d) : s \in FilesOf(disk) \ {c.slot} /\ d.root[s] = disk.root[s]
    <3>1. d = [disk EXCEPT !["root"] = [disk.root EXCEPT ![c.slot] = None]]
      BY <2>5
    <3> HIDE DEF d, m
    <3> QED  BY <1>2, <2>4, <2>6, <3>1, EntryRemoved
  <2>8. c.inode_no \in Inode \ {MFS_ROOT_INODE}
    BY <1>2, <2>4, <2>6, DiskFields DEF Sound, Named
  <2>9. NewInode(c.inode_no) \in mfs_inode
    BY <2>8, NewInodeFields
  <2>10. f \in CallType
    BY <1>2, <2>9 DEF CallType, NextAccess
  <2>11. /\ f.at = "table_get" /\ f.request = c.request /\ f.inode_no = c.inode_no
         /\ f.inode = NewInode(c.inode_no)
    BY <1>2 DEF CallType
  <2> HIDE DEF d, f, m
  <2>12. \A s \in FilesOf(d) : d.root[s].inode_no # f.inode_no
    BY <2>4, <2>6, <2>7, <2>11 DEF Sound, Named
  <2>13. Fresh(d, f)
    BY <2>8, <2>11, <2>12 DEF Fresh
  <2>14. UnlinkKnows(d, f)
    BY <2>11, <2>13 DEF UnlinkKnows
  <2>15. Fine(d, After(f))
    <3>1. After(f) = f
      BY <2>11 DEF After
    <3>2. Knows(d, f)
      BY <1>5, <2>11, <2>14 DEF Knows
    <3> QED  BY <2>7, <2>10, <3>1, <3>2, GoesOn
  <2> QED  BY <2>1, <2>15, PutStep DEF d
<1> QED  BY <1>3, <1>4, <1>5

-----------------------------------------------------------------------------
(* A file is found by its inode.                                           *)

LEMMA ReadInodeKeeps ==
  ASSUME NEW t, Thread = {t}, IInv, ReadInode(t)
  PROVE  IInv'
<1> DEFINE n == disk.table[call[t].inode_no]
           c == [call[t] EXCEPT !.inode = n]
<1>1. At(t, "inode_get")
  BY DEF ReadInode
<1>2. /\ call[t] \in CallType /\ call[t].at = "inode_get" /\ Knows(disk, call[t]) /\ Sound(disk, 0)
      /\ disk \in Disk /\ call[t].request \in Request
      /\ call[t].request.op \in {"readdir", "create", "unlink", "getattr", "read", "write"}
  BY <1>1, DueWhole
<1>3. OwnFile(disk, call[t])
  BY <1>2 DEF Knows, CreateKnows, UnlinkKnows, ReadKnows, WriteKnows
<1>4. n = Node(disk, call[t].slot) /\ n \in mfs_inode
  BY <1>2, <1>3, DiskFields DEF OwnFile, Node
<1> HIDE DEF n
<1>5. c \in CallType
  BY <1>2, <1>4 DEF CallType
<1>6. /\ c.at = "inode_get" /\ c.request = call[t].request /\ c.slot = call[t].slot
      /\ c.entries = call[t].entries /\ c.inode_no = call[t].inode_no /\ c.bytes = call[t].bytes
      /\ c.inode = n
  BY <1>2 DEF CallType
<1>7. OwnFile(disk, c)
  BY <1>3, <1>6 DEF OwnFile
<1>8. ASSUME NEW a, Get(t, Return(c, a)) PROVE IInv'
  BY <1>2, <1>8, Returns, GetStep
<1>9. Node(disk, c.slot) = n /\ c.inode.index_block \in Block \cup {0} /\ c.inode.size \in Nat
  BY <1>4, <1>6, NodeFields
<1>10. ASSUME NEW a, Get(t, [c EXCEPT !.at = a]), a \in NextAccess, a # "return",
              \A e : e \in CallType /\ e = [c EXCEPT !.at = a] => Knows(disk, e)
       PROVE  IInv'
  <2> DEFINE e == [c EXCEPT !.at = a]
  <2>1. e \in CallType
    BY <1>5, <1>10 DEF CallType
  <2>2. e.at = a
    BY <1>5 DEF CallType
  <2>3. Knows(disk, e)
    BY <1>10, <2>1
  <2> HIDE DEF e
  <2>4. Fine(disk, After(e))
    BY <1>2, <1>10, <2>1, <2>2, <2>3, GoesOn DEF After
  <2> QED  BY <1>10, <2>4, GetStep DEF e
<1>11. ASSUME NEW a, NEW e, e = [c EXCEPT !.at = a]
       PROVE  /\ e.at = a /\ e.request = c.request /\ e.slot = c.slot /\ e.entries = c.entries
              /\ e.inode_no = c.inode_no /\ e.bytes = c.bytes /\ e.inode = c.inode
  BY <1>5, <1>11 DEF CallType
<1> HIDE DEF c
<1>12. CASE Op(t) = "getattr" /\ Get(t, GetattrInode(c))
  BY <1>8, <1>12 DEF GetattrInode
<1>13. CASE Op(t) = "read" /\ Get(t, ReadChecks(c))
  <2>1. CASE ReadChecks(c) = Return(c, "ENOENT") \/ ReadChecks(c) = Return(c, <<>>)
    BY <1>8, <1>13, <2>1
  <2>2. CASE /\ ReadChecks(c) = [c EXCEPT !.at = "index_get"]
             /\ ~ (c.request.offset >= c.inode.size) /\ Indexed(c)
    <3>1. c.bytes = 0 /\ c.request.offset \in Nat
      <4>1. ReadKnows(disk, call[t])
        BY <1>2, <1>13 DEF Knows, Op
      <4> QED  BY <1>2, <1>6, <1>13, <4>1, RequestFields DEF ReadKnows, Op
    <3>2. \A e : e = [c EXCEPT !.at = "index_get"] => Knows(disk, e)
      <4> SUFFICES ASSUME NEW e, e = [c EXCEPT !.at = "index_get"] PROVE Knows(disk, e)
        OBVIOUS
      <4>1. /\ e.at = "index_get" /\ e.request = c.request /\ e.slot = c.slot
            /\ e.inode_no = c.inode_no /\ e.bytes = c.bytes /\ e.inode = c.inode
        BY <1>11
      <4>2. OwnFile(disk, e)
        BY <1>7, <4>1 DEF OwnFile
      <4>3. ReadKnows(disk, e)
        BY <1>6, <1>9, <2>2, <3>1, <4>1, <4>2 DEF ReadKnows, Indexed
      <4> QED  BY <1>6, <1>13, <4>1, <4>3 DEF Knows, Op
    <3> QED  BY <1>10, <1>13, <2>2, <3>2 DEF NextAccess
  <2> QED  BY <2>1, <2>2 DEF ReadChecks
<1>14. CASE Op(t) = "write" /\ Get(t, WriteChecks(c))
  <2>1. CASE WriteChecks(c) = Return(c, "ENOENT") \/ WriteChecks(c) = Return(c, "EOPNOTSUPP")
    BY <1>8, <1>14, <2>1
  <2>2. CASE /\ WriteChecks(c) = [c EXCEPT !.at = IF Indexed(c) THEN "index_get" ELSE "alloc_get"]
             /\ c.request.offset = c.inode.size /\ Found(c)
    <3> DEFINE a == IF Indexed(c) THEN "index_get" ELSE "alloc_get"
    <3>1. c.bytes = 0
      BY <1>2, <1>6, <1>14 DEF Op, Knows, WriteKnows
    <3>2. Indexed(c) <=> c.inode.index_block # 0
      BY <2>2 DEF Indexed
    <3>3. \A e : e = [c EXCEPT !.at = a] => Knows(disk, e)
      <4> SUFFICES ASSUME NEW e, e = [c EXCEPT !.at = a] PROVE Knows(disk, e)
        OBVIOUS
      <4>1. /\ e.at = a /\ e.request = c.request /\ e.slot = c.slot
            /\ e.inode_no = c.inode_no /\ e.bytes = c.bytes /\ e.inode = c.inode
        BY <1>11
      <4>2. OwnFile(disk, e)
        BY <1>7, <4>1 DEF OwnFile
      <4>3. WriteKnows(disk, e)
        BY <1>6, <1>9, <2>2, <3>1, <3>2, <4>1, <4>2 DEF WriteKnows
      <4> QED  BY <1>6, <1>14, <4>1, <4>3 DEF Knows, Op
    <3>4. a \in NextAccess /\ a # "return"
      BY DEF NextAccess
    <3> HIDE DEF a
    <3> QED  BY <1>10, <1>14, <2>2, <3>3, <3>4 DEF a
  <2> QED  BY <2>1, <2>2 DEF WriteChecks
<1>15. CASE Op(t) = "unlink" /\ Get(t, UnlinkInode(c))
  <2> DEFINE a == IF Indexed(c) THEN "index_get" ELSE "root_put"
  <2>1. c.entries = disk.root
    BY <1>2, <1>6, <1>15 DEF Op, Knows, UnlinkKnows
  <2>2. \A e : e = [c EXCEPT !.at = a] => Knows(disk, e)
    <3> SUFFICES ASSUME NEW e, e = [c EXCEPT !.at = a] PROVE Knows(disk, e)
      OBVIOUS
    <3>1. /\ e.at = a /\ e.request = c.request /\ e.slot = c.slot /\ e.entries = c.entries
          /\ e.inode_no = c.inode_no /\ e.inode = c.inode
      BY <1>11
    <3>2. OwnFile(disk, e)
      BY <1>7, <3>1 DEF OwnFile
    <3>3. UnlinkKnows(disk, e)
      BY <1>6, <1>9, <2>1, <3>1, <3>2 DEF UnlinkKnows, Indexed
    <3> QED  BY <1>6, <1>15, <3>1, <3>3 DEF Knows, Op
  <2>3. a \in NextAccess /\ a # "return"
    BY DEF NextAccess
  <2> HIDE DEF a
  <2> QED  BY <1>10, <1>15, <2>2, <2>3 DEF a, UnlinkInode
<1> QED  BY <1>12, <1>13, <1>14, <1>15 DEF ReadInode, c, n

-----------------------------------------------------------------------------
(* Writing a block.                                                        *)

WithBlock(d, b, v) == [d EXCEPT !["block"] = [d.block EXCEPT ![b] = v]]

\* A block that no file has for its index may be written with data, one that no file has at all
\* with anything.
LEMMA BlockWritten ==
  ASSUME NEW d \in Disk, Sound(d, 0), NEW b \in Block, NEW v \in IndexArray \cup DataBlock,
         \A s \in FilesOf(d) : Blk(d, s, 0) # b,
         v \in DataBlock \/ Unused(d, b), NEW e, e = WithBlock(d, b, v)
  PROVE  /\ Sound(e, 0) /\ FilesOf(e) = FilesOf(d) /\ \A s : Node(e, s) = Node(d, s)
         /\ \A s \in FilesOf(d), k \in Place : Blk(e, s, k) = Blk(d, s, k)
         /\ e.bmap = d.bmap /\ e.imap = d.imap /\ e.table = d.table /\ e.root = d.root
         /\ e.block = [d.block EXCEPT ![b] = v] /\ e \in Disk
<1> DEFINE m == [d.block EXCEPT ![b] = v]
<1>1. m \in [Block -> IndexArray \cup DataBlock] /\ m[b] = v /\ \A a \in Block : a # b => m[a] = d.block[a]
  BY DiskFields
<1>2. e.bmap = d.bmap /\ e.imap = d.imap /\ e.table = d.table /\ e.root = d.root /\ e.block = m
  BY PartWritten DEF WithBlock
<1>3. e \in Disk
  BY <1>1, StillDisk DEF WithBlock
<1> HIDE DEF m
<1>4. FilesOf(e) = FilesOf(d) /\ \A s : Node(e, s) = Node(d, s)
  BY <1>2, SameView
<1>5. \A s \in FilesOf(d), k \in Place : Blk(e, s, k) = Blk(d, s, k)
  <2>1. ASSUME NEW s \in FilesOf(d) PROVE Node(d, s).index_block \in Block \cup {0} /\ Node(d, s).index_block # b
    BY DiskFields, NodeFields DEF Blk
  <2> QED  BY <1>1, <1>2, <1>4, <2>1 DEF Blk
<1>6. \A s \in FilesOf(d), k \in Place : Blk(d, s, k) # 0 => Blk(d, s, k) \in Block
  BY DiskFields, Nonzero DEF Marked, Sound, FilesOf
<1>7. Named(e)
  BY <1>2, <1>4 DEF Named, Sound
<1>8. Filled(e)
  <2>1. ASSUME NEW s \in FilesOf(d)
        PROVE  /\ Blk(d, s, 0) # 0 => m[Blk(d, s, 0)] \in IndexArray
               /\ \A k \in Place \ {0} : Blk(d, s, k) # 0 => m[Blk(d, s, k)] \in DataBlock
    <3>1. 0 \in Place
      BY SizesNat DEF Place
    <3>2. Blk(d, s, 0) # 0 => m[Blk(d, s, 0)] \in IndexArray
      BY <1>1, <1>6, <3>1 DEF Filled, Sound
    <3>3. ASSUME NEW k \in Place \ {0}, Blk(d, s, k) # 0 PROVE m[Blk(d, s, k)] \in DataBlock
      <4>1. CASE Blk(d, s, k) = b
        BY <1>1, <4>1 DEF Unused
      <4>2. CASE Blk(d, s, k) # b
        BY <1>1, <1>6, <3>3, <4>2 DEF Filled, Sound
      <4> QED  BY <4>1, <4>2
    <3> QED  BY <3>2, <3>3
  <2>2. 0 \in Place
    BY SizesNat DEF Place
  <2> QED  BY <1>2, <1>4, <1>5, <2>1, <2>2 DEF Filled
<1>9. Separate(e)
  BY <1>4, <1>5 DEF Separate, Sound
<1>10. Sized(e)
  <2>1. ASSUME NEW s \in FilesOf(d)
        PROVE  Mapped(IndexSize, [k \in 1 .. IndexSize |-> Blk(e, s, k)], Node(e, s).size)
    <3>1. [k \in 1 .. IndexSize |-> Blk(e, s, k)] = [k \in 1 .. IndexSize |-> Blk(d, s, k)]
      BY <1>5, SizesNat DEF Place
    <3> QED  BY <1>4, <3>1 DEF Sized, Sound
  <2> QED  BY <1>4, <2>1 DEF Sized
<1>11. Marked(e, 0)
  BY <1>2, <1>4, <1>5 DEF Marked, Sound
<1>12. Sound(e, 0)
  BY <1>3, <1>7, <1>8, <1>9, <1>10, <1>11 DEF Sound
<1> QED  BY <1>2, <1>3, <1>4, <1>5, <1>12 DEF m

-----------------------------------------------------------------------------
(* The loop of mfs_write.                                                  *)

\* What holds whenever mfs_write comes to the head of its loop.
AtLoop(d, c) ==
  /\ c \in CallType /\ c.request.op = "write" /\ c.inode.index_block # 0
  /\ Writing(d, c) /\ c.inode.size = c.request.offset

LEMMA PositionNat ==
  ASSUME NEW c \in CallType, c.request.op \in {"read", "write"}
  PROVE  /\ Position(c) \in Nat /\ BlockIdx(c) \in Nat /\ BlockOff(c) \in Nat
         /\ BlockOff(c) < BlockSize /\ Position(c) = BlockIdx(c) * BlockSize + BlockOff(c)
         /\ Position(c) = c.request.offset + c.bytes
<1>1. c.request.offset \in Nat /\ c.bytes \in Nat
  BY CallFields, RequestFields
<1>2. Position(c) \in Nat /\ Position(c) = c.request.offset + c.bytes
  BY <1>1 DEF Position
<1> QED  BY <1>2, InBlock DEF BlockIdx, BlockOff

LEMMA FinishFine ==
  ASSUME NEW d, Sound(d, 0), NEW c, AtLoop(d, c)
  PROVE  Fine(d, After(Finish(c)))
<1> DEFINE e == [c EXCEPT !.at = "index_put", !.inode.size = @ + c.bytes]
<1>1. CASE Finish(c) = Return(c, c.rc)
  BY <1>1, Returns
<1>2. CASE Finish(c) = e
  <2>1. c \in CallType /\ c.inode \in mfs_inode /\ c.inode.size \in Nat /\ c.bytes \in Nat
    BY CallFields, NodeFields DEF AtLoop
  <2>2. [c.inode EXCEPT !.size = @ + c.bytes] \in mfs_inode
    BY <2>1 DEF mfs_inode
  <2>3. e = [c EXCEPT !.at = "index_put", !.inode = [c.inode EXCEPT !.size = @ + c.bytes]]
    BY <2>1 DEF CallType
  <2>4. e \in CallType
    BY <2>1, <2>2, <2>3 DEF CallType, NextAccess
  <2>5. /\ e.at = "index_put" /\ e.request = c.request /\ e.slot = c.slot
        /\ e.inode_no = c.inode_no /\ e.idx_data = c.idx_data /\ e.bytes = c.bytes
        /\ e.inode.inode_no = c.inode.inode_no /\ e.inode.index_block = c.inode.index_block
        /\ e.inode.size = c.inode.size + c.bytes
    BY <2>1, <2>3 DEF CallType, mfs_inode
  <2> HIDE DEF e
  <2>6. OwnFile(d, e) /\ Writing(d, e) /\ e.inode.size = Position(e)
    BY <2>5 DEF AtLoop, Writing, OwnFile, Position
  <2>7. WriteKnows(d, e)
    BY <2>5, <2>6 DEF WriteKnows, AtLoop
  <2>8. Fine(d, After(e))
    BY <2>4, <2>5, <2>7, GoesOn DEF After, Knows, AtLoop
  <2> QED  BY <1>2, <2>8
<1> QED  BY <1>1, <1>2 DEF Finish

LEMMA FinishWith ==
  ASSUME NEW d, Sound(d, 0), NEW c, AtLoop(d, c), NEW a \in {"ENOSPC", "EFBIG"}
  PROVE  Fine(d, After(Finish([c EXCEPT !.rc = a])))
<1> DEFINE e == [c EXCEPT !.rc = a]
<1>1. e \in CallType
  BY DEF AtLoop, CallType
<1>2. SameWork(c, e)
  BY DEF AtLoop, CallType, SameWork
<1> HIDE DEF e
<1>3. AtLoop(d, e)
  BY <1>1, <1>2, WorkGoesOn DEF AtLoop, SameWork
<1>4. Fine(d, After(Finish(e)))
  BY <1>3, FinishFine
<1> QED  BY <1>4 DEF e

LEMMA WriteLoopFine ==
  ASSUME NEW d, Sound(d, 0), NEW c, AtLoop(d, c)
  PROVE  Fine(d, After(WriteLoop(c)))
<1> DEFINE q == BlockIdx(c) + 1
           b == c.idx_data[q]
           new == (b = 0)
           a == IF b = 0 THEN "alloc_get" ELSE "data_get"
           e == [c EXCEPT !.data_blk = b, !.newly_allocated = new, !.at = a]
<1>1. CASE WriteLoop(c) = Finish(c)
  BY <1>1, FinishFine
<1>2. CASE WriteLoop(c) = Finish([c EXCEPT !.rc = "EFBIG"])
  BY <1>2, FinishWith
<1>3. CASE WriteLoop(c) = e /\ c.bytes # Len(c.request.buf) /\ ~ (BlockIdx(c) >= IndexSize)
  <2>1. c \in CallType /\ c.request.op = "write" /\ c.inode.index_block # 0 /\ Writing(d, c)
    BY DEF AtLoop
  <2>2. BlockIdx(c) \in Nat /\ c.bytes \in Nat /\ Len(c.request.buf) \in Nat
    BY <2>1, PositionNat, CallFields, RequestFields
  <2>3. q \in 1 .. IndexSize /\ BlockIdx(c) < IndexSize
    BY <1>3, <2>2, SizesNat
  <2>4. c.bytes < Len(c.request.buf)
    BY <1>3, <2>1, <2>2 DEF Writing
  <2>5. b \in Block \cup {0} /\ (b # 0 => b \in d.bmap)
    BY <2>1, <2>3 DEF Writing, IndexArray
  <2> HIDE DEF b
  <2>9. new \in BOOLEAN /\ (new <=> b = 0) /\ a \in NextAccess
    BY DEF NextAccess
  <2> HIDE DEF new
  <2>6. e \in CallType
    BY <2>1, <2>5, <2>9 DEF CallType
  <2>7. /\ e.at = (IF b = 0 THEN "alloc_get" ELSE "data_get") /\ e.data_blk = b
        /\ e.newly_allocated = new
    BY <2>1 DEF CallType
  <2>8. SameWork(c, e)
    BY <2>1 DEF CallType, SameWork
  <2> HIDE DEF e
  <2>10. /\ Writing(d, e) /\ OwnFile(d, e) /\ BlockIdx(e) = BlockIdx(c)
         /\ e.inode = c.inode /\ e.request = c.request /\ e.bytes = c.bytes /\ e.idx_data = c.idx_data
    BY <2>1, <2>8, WorkGoesOn DEF SameWork, Writing
  <2>11. e.idx_data[BlockIdx(e) + 1] = b
    BY <2>10 DEF b
  <2>12. e.newly_allocated = (e.idx_data[BlockIdx(e) + 1] = 0)
    BY <2>7, <2>11 DEF new
  <2>13. e.inode.index_block # 0 /\ e.inode.size = e.request.offset /\ e.bytes < Len(e.request.buf)
         /\ BlockIdx(e) < IndexSize
    BY <2>1, <2>3, <2>4, <2>10 DEF AtLoop
  <2>14. WriteKnows(d, e)
    BY <2>5, <2>7, <2>10, <2>11, <2>12, <2>13 DEF WriteKnows
  <2>15. Fine(d, After(e))
    BY <2>1, <2>6, <2>7, <2>10, <2>14, GoesOn DEF After, Knows
  <2> QED  BY <1>3, <2>15
<1> QED  BY <1>1, <1>2, <1>3 DEF WriteLoop

-----------------------------------------------------------------------------
(* The index block is read, or made.                                       *)

\* A file that has an index block: what is in it.
LEMMA IndexOfFile ==
  ASSUME NEW d \in Disk, Sound(d, 0), NEW s \in FilesOf(d), Node(d, s).index_block # 0
  PROVE  LET x == Node(d, s).index_block
         IN  /\ x \in Block /\ x \in d.bmap /\ d.block[x] \in IndexArray
             /\ \A k \in 1 .. IndexSize : Blk(d, s, k) = d.block[x][k]
             /\ \A k \in 1 .. IndexSize : d.block[x][k] # 0 =>
                  /\ d.block[x][k] \in d.bmap /\ d.block[d.block[x][k]] \in DataBlock
                  /\ d.block[x][k] # x
                  /\ \A l \in 1 .. IndexSize : d.block[x][l] = d.block[x][k] => l = k
             /\ Mapped(IndexSize, d.block[x], Node(d, s).size)
<1> DEFINE x == Node(d, s).index_block
           idx == d.block[x]
<1>1. Blk(d, s, 0) = x
  BY DEF Blk
<1>2. \A k \in 1 .. IndexSize : k \in Place \ {0} /\ Blk(d, s, k) = idx[k]
  BY SizesNat DEF Place, Blk
<1>3. 0 \in Place /\ s # 0
  BY SizesNat, Nonzero DEF Place, FilesOf
<1> HIDE DEF x
<1>4. x # 0
  BY DEF x
<1>5. x \in d.bmap /\ x \in Block
  BY <1>1, <1>3, <1>4, DiskFields DEF Marked, Sound
<1>6. idx \in IndexArray
  BY <1>1, <1>4 DEF Filled, Sound
<1> HIDE DEF idx
<1>7. ASSUME NEW k \in 1 .. IndexSize, idx[k] # 0
      PROVE  /\ idx[k] \in d.bmap /\ d.block[idx[k]] \in DataBlock /\ idx[k] # x
             /\ \A l \in 1 .. IndexSize : idx[l] = idx[k] => l = k
  <2>1. k \in Place \ {0} /\ Blk(d, s, k) = idx[k]
    BY <1>2
  <2>2. idx[k] \in d.bmap /\ d.block[idx[k]] \in DataBlock
    BY <1>3, <1>7, <2>1 DEF Marked, Filled, Sound
  <2>3. idx[k] # x
    BY <1>1, <1>3, <1>7, <2>1 DEF Separate, Sound
  <2>4. \A l \in 1 .. IndexSize : idx[l] = idx[k] => l = k
    BY <1>2, <1>7, <2>1 DEF Separate, Sound
  <2> QED  BY <2>2, <2>3, <2>4
<1>8. Mapped(IndexSize, idx, Node(d, s).size)
  <2>1. Mapped(IndexSize, [k \in 1 .. IndexSize |-> Blk(d, s, k)], Node(d, s).size)
    BY DEF Sized, Sound
  <2> QED  BY <1>2, <2>1 DEF Mapped
<1>9. /\ x \in Block /\ x \in d.bmap /\ idx \in IndexArray
      /\ \A k \in 1 .. IndexSize : Blk(d, s, k) = idx[k]
      /\ \A k \in 1 .. IndexSize : idx[k] # 0 =>
           /\ idx[k] \in d.bmap /\ d.block[idx[k]] \in DataBlock
           /\ idx[k] # x
           /\ \A l \in 1 .. IndexSize : idx[l] = idx[k] => l = k
      /\ Mapped(IndexSize, idx, Node(d, s).size)
  BY <1>2, <1>5, <1>6, <1>7, <1>8
<1> QED  BY <1>9 DEF idx, x

IndexRead(d, c) == [c EXCEPT !.idx_data = d.block[c.inode.index_block]]

\* The index block of a file is in the locals of the handler.
LEMMA IndexIsRead ==
  ASSUME NEW t, Thread = {t}, IInv, At(t, "index_get")
  PROVE  LET c == IndexRead(disk, call[t]) IN
         /\ c \in CallType /\ c.at = "index_get" /\ c.request = call[t].request
         /\ c.entries = call[t].entries /\ c.bytes = call[t].bytes
         /\ c.slot = call[t].slot /\ c.inode_no = call[t].inode_no
         /\ c.allocated_index = call[t].allocated_index
         /\ OwnFile(disk, c) /\ c.inode = Node(disk, c.slot) /\ c.inode.index_block # 0
         /\ c.inode \in mfs_inode /\ c.inode = call[t].inode /\ c.idx_data = disk.block[c.inode.index_block]
         /\ \A k \in 1 .. IndexSize : Blk(disk, c.slot, k) = c.idx_data[k]
         /\ c.request.op = "write" => AtLoop(disk, c)
<1> DEFINE idx == disk.block[call[t].inode.index_block]
           c == IndexRead(disk, call[t])
<1>1. c = [call[t] EXCEPT !.idx_data = idx]
  BY DEF IndexRead
<1>2. /\ call[t] \in CallType /\ call[t].at = "index_get" /\ Knows(disk, call[t]) /\ Sound(disk, 0)
      /\ disk \in Disk /\ call[t].request \in Request
      /\ call[t].request.op \in {"readdir", "create", "unlink", "getattr", "read", "write"}
  BY DueWhole
<1>3. /\ OwnFile(disk, call[t]) /\ call[t].inode = Node(disk, call[t].slot)
      /\ call[t].inode.index_block # 0
  BY <1>2 DEF Knows, CreateKnows, UnlinkKnows, ReadKnows, WriteKnows
<1>4. call[t].slot \in FilesOf(disk) /\ call[t].slot \in Slot
  BY <1>3 DEF OwnFile, FilesOf
<1>5. idx \in IndexArray
  BY <1>2, <1>3, <1>4, IndexOfFile
<1>6. c \in CallType
  BY <1>1, <1>2, <1>5 DEF CallType, Unread
<1>7. /\ c.at = "index_get" /\ c.request = call[t].request /\ c.slot = call[t].slot
      /\ c.entries = call[t].entries /\ c.inode_no = call[t].inode_no /\ c.bytes = call[t].bytes
      /\ c.inode = call[t].inode /\ c.idx_data = idx /\ c.allocated_index = call[t].allocated_index
  BY <1>1, <1>2 DEF CallType
<1> HIDE DEF c
<1>8. /\ c.inode.index_block \in disk.bmap /\ idx = disk.block[c.inode.index_block]
      /\ \A k \in 1 .. IndexSize : Blk(disk, c.slot, k) = idx[k]
      /\ \A k \in 1 .. IndexSize : idx[k] # 0 =>
           /\ idx[k] \in disk.bmap /\ disk.block[idx[k]] \in DataBlock
           /\ idx[k] # c.inode.index_block
           /\ \A l \in 1 .. IndexSize : idx[l] = idx[k] => l = k
      /\ Mapped(IndexSize, idx, c.inode.size)
  <2>1. idx = disk.block[c.inode.index_block] /\ c.inode = Node(disk, c.slot)
        /\ c.inode.index_block # 0 /\ c.slot \in FilesOf(disk)
    BY <1>3, <1>4, <1>7
  <2>2. idx = disk.block[Node(disk, c.slot).index_block] /\ Node(disk, c.slot).index_block # 0
    BY <2>1
  <2> HIDE DEF idx
  <2>3. /\ Node(disk, c.slot).index_block \in disk.bmap
        /\ \A k \in 1 .. IndexSize : Blk(disk, c.slot, k) = idx[k]
        /\ \A k \in 1 .. IndexSize : idx[k] # 0 =>
             /\ idx[k] \in disk.bmap /\ disk.block[idx[k]] \in DataBlock
             /\ idx[k] # Node(disk, c.slot).index_block
             /\ \A l \in 1 .. IndexSize : idx[l] = idx[k] => l = k
        /\ Mapped(IndexSize, idx, Node(disk, c.slot).size)
    BY <1>2, <2>1, <2>2, IndexOfFile
  <2> QED  BY <2>1, <2>3
<1>9. OwnFile(disk, c)
  BY <1>3, <1>7 DEF OwnFile
<1>10. c.inode = Node(disk, c.slot) /\ c.inode.index_block # 0 /\ c.inode \in mfs_inode
  BY <1>2, <1>3, <1>7, CallFields
<1> HIDE DEF idx
<1>11. ASSUME c.request.op = "write" PROVE AtLoop(disk, c)
  <2>1. WriteKnows(disk, call[t])
    BY <1>2, <1>7, <1>11 DEF Knows
  <2>2. c.request.op = "write" /\ c.bytes = 0 /\ c.request.offset = c.inode.size
    BY <1>2, <1>7, <1>11, <2>1 DEF WriteKnows
  <2>3. Position(c) = c.inode.size /\ c.bytes <= Len(c.request.buf)
    BY <1>2, <1>7, <1>10, <2>2, NodeFields, RequestFields DEF Position
  <2>4. c.inode.inode_no = c.inode_no
    BY <1>2, <1>9, <1>10 DEF OwnFile, Sound, Named
  <2>5. Writing(disk, c)
    <3>0. c.idx_data = idx
      BY <1>7
    <3>1. \A k \in 1 .. IndexSize : c.idx_data[k] # 0 =>
            /\ c.idx_data[k] \in disk.bmap /\ disk.block[c.idx_data[k]] \in DataBlock
            /\ c.idx_data[k] # c.inode.index_block
            /\ \A l \in 1 .. IndexSize : c.idx_data[l] = c.idx_data[k] => l = k
            /\ Blk(disk, c.slot, k) # 0
      BY <1>8, <3>0
    <3>2. \A k \in 1 .. IndexSize : Blk(disk, c.slot, k) # 0 => c.idx_data[k] = Blk(disk, c.slot, k)
      BY <1>8, <3>0
    <3>3. Mapped(IndexSize, c.idx_data, Position(c))
      BY <1>8, <2>3, <3>0
    <3>4. Node(disk, c.slot).index_block = c.inode.index_block /\ c.idx_data \in IndexArray
      BY <1>5, <1>7, <1>10
    <3> QED  BY <1>8, <1>9, <1>10, <2>3, <2>4, <3>1, <3>2, <3>3, <3>4 DEF Writing
  <2> QED  BY <1>6, <1>10, <2>2, <2>5 DEF AtLoop
<1>12. /\ c.idx_data = disk.block[c.inode.index_block]
       /\ \A k \in 1 .. IndexSize : Blk(disk, c.slot, k) = c.idx_data[k]
  <2>1. c.idx_data = idx
    BY <1>7
  <2>2. /\ idx = disk.block[c.inode.index_block]
        /\ \A k \in 1 .. IndexSize : Blk(disk, c.slot, k) = idx[k]
    BY <1>8
  <2> QED  BY <2>1, <2>2
<1>13. c.inode = call[t].inode
  BY <1>7
<1>14. c.request.op = "write" => AtLoop(disk, c)
  BY <1>11
<1> QED  BY <1>6, <1>7, <1>9, <1>10, <1>12, <1>13, <1>14 DEF c

LEMMA ReadIndexBlockKeeps ==
  ASSUME NEW t, Thread = {t}, IInv, ReadIndexBlock(t)
  PROVE  IInv'
<1> DEFINE c == IndexRead(disk, call[t])
           mapped == {k \in 1 .. IndexSize : k <= c.inode.block_count /\ c.idx_data[k] # 0}
<1>1. At(t, "index_get")
  BY DEF ReadIndexBlock
<1>2. /\ call[t] \in CallType /\ call[t].at = "index_get" /\ Knows(disk, call[t]) /\ Sound(disk, 0)
      /\ disk \in Disk /\ call[t].request \in Request
      /\ call[t].request.op \in {"readdir", "create", "unlink", "getattr", "read", "write"}
  BY <1>1, DueWhole
<1>3. /\ c \in CallType /\ c.at = "index_get" /\ c.request = call[t].request
      /\ c.entries = call[t].entries /\ c.bytes = call[t].bytes
      /\ OwnFile(disk, c) /\ c.inode = Node(disk, c.slot) /\ c.inode.index_block # 0
      /\ c.inode \in mfs_inode /\ c.inode = call[t].inode
      /\ c.idx_data = disk.block[c.inode.index_block]
      /\ c.request.op = "write" => AtLoop(disk, c)
  BY <1>1, IndexIsRead
<1>4. \/ Op(t) = "write" /\ Get(t, WriteLoop(c))
      \/ Op(t) = "read" /\ Get(t, [c EXCEPT !.at = "data_get"])
      \/ Op(t) = "unlink" /\ Get(t, FreeLoop([c EXCEPT !.to_free = mapped \cup {IndexSize + 1}]))
  BY <1>2 DEF ReadIndexBlock, IndexRead, CallType
<1> HIDE DEF c
<1>5. CASE Op(t) = "write" /\ Get(t, WriteLoop(c))
  BY <1>2, <1>3, <1>5, WriteLoopFine, GetStep DEF Op
<1>6. CASE Op(t) = "read" /\ Get(t, [c EXCEPT !.at = "data_get"])
  <2> DEFINE e == [c EXCEPT !.at = "data_get"]
  <2>1. ReadKnows(disk, call[t])
    BY <1>2, <1>6 DEF Knows, Op
  <2>2. c.bytes = 0 /\ c.request.offset < c.inode.size
    BY <1>2, <1>3, <2>1 DEF ReadKnows
  <2>3. c.request.size \in Nat \ {0} /\ c.request.offset \in Nat /\ c.inode.size \in Nat
    BY <1>2, <1>3, <1>6, RequestFields, NodeFields DEF Op
  <2>4. c.bytes < ToReadTotal(c)
    <3>1. c.inode.size - c.request.offset \in Int /\ c.inode.size - c.request.offset > 0
      BY <2>2, <2>3
    <3> QED  BY <2>2, <2>3, <3>1, MinOfTwo DEF ToReadTotal
  <2>5. e \in CallType
    BY <1>3 DEF CallType, NextAccess
  <2>6. /\ e.at = "data_get" /\ e.request = c.request /\ e.slot = c.slot
        /\ e.inode_no = c.inode_no /\ e.bytes = c.bytes /\ e.inode = c.inode /\ e.idx_data = c.idx_data
    BY <1>3 DEF CallType
  <2> HIDE DEF e
  <2>7. ReadKnows(disk, e)
    BY <1>3, <2>2, <2>4, <2>6 DEF ReadKnows, OwnFile, ToReadTotal
  <2>8. Knows(disk, e)
    BY <1>3, <1>6, <2>6, <2>7 DEF Knows, Op
  <2>9. Fine(disk, After(e))
    BY <1>2, <2>5, <2>6, <2>8, GoesOn DEF After
  <2> QED  BY <1>6, <2>9, GetStep DEF e
<1>7. CASE Op(t) = "unlink" /\ Get(t, FreeLoop([c EXCEPT !.to_free = mapped \cup {IndexSize + 1}]))
  <2> DEFINE T == mapped \cup {IndexSize + 1}
             b == [c EXCEPT !.to_free = T]
             e == [c EXCEPT !.to_free = T, !.at = "free_get"]
  <2>1. T \in SUBSET (1 .. IndexSize + 1) /\ T # {} /\ \A k \in T : k <= IndexSize => c.idx_data[k] # 0
    BY SizesNat
  <2> HIDE DEF T, mapped
  <2>2. e \in CallType
    BY <1>3, <2>1 DEF CallType, NextAccess
  <2>3. FreeLoop(b) = e
    BY <1>3, <2>1 DEF FreeLoop, CallType
  <2>4. /\ e.at = "free_get" /\ e.request = c.request /\ e.slot = c.slot /\ e.entries = c.entries
        /\ e.inode_no = c.inode_no /\ e.inode = c.inode /\ e.idx_data = c.idx_data /\ e.to_free = T
    BY <1>3 DEF CallType
  <2>5. c.entries = disk.root
    BY <1>2, <1>3, <1>7 DEF Knows, UnlinkKnows, Op
  <2>6. Get(t, e)
    BY <1>7, <2>3 DEF T
  <2> HIDE DEF e
  <2>7. UnlinkKnows(disk, e)
    BY <1>3, <2>1, <2>4, <2>5 DEF UnlinkKnows, OwnFile
  <2>8. Knows(disk, e)
    BY <1>3, <1>7, <2>4, <2>7 DEF Knows, Op
  <2>9. Fine(disk, After(e))
    BY <1>2, <2>2, <2>4, <2>8, GoesOn DEF After
  <2> QED  BY <2>6, <2>9, GetStep
<1> QED  BY <1>4, <1>5, <1>6, <1>7 DEF c

\* A disk on which the files are where they were.
SameDisk(d, e) ==
  /\ FilesOf(e) = FilesOf(d) /\ \A s : Node(e, s) = Node(d, s)
  /\ \A s \in FilesOf(d), k \in Place : Blk(e, s, k) = Blk(d, s, k)
  /\ e.bmap = d.bmap /\ e.imap = d.imap /\ e.root = d.root

\* mfs_write has an empty index block.
IndexMade(c) ==
  [c EXCEPT !.inode.index_block = c.data_blk, !.allocated_index = TRUE, !.idx_data = Zeros(IndexSize)]
WithIndex(d, c) == WithBlock(d, c.data_blk, Zeros(IndexSize))

LEMMA EmptyIndexWritten ==
  ASSUME NEW t, Thread = {t}, IInv, WriteEmptyIndex(t)
  PROVE  /\ Put(t, "block", [disk.block EXCEPT ![call[t].data_blk] = Zeros(IndexSize)],
                WriteLoop(IndexMade(call[t])))
         /\ Sound(WithIndex(disk, call[t]), 0) /\ SameDisk(disk, WithIndex(disk, call[t]))
         /\ AtLoop(WithIndex(disk, call[t]), IndexMade(call[t]))
<1> DEFINE c == call[t]
           b == c.data_blk
           z == Zeros(IndexSize)
           d == WithBlock(disk, b, z)
           n == [c.inode EXCEPT !.index_block = b]
           e == [c EXCEPT !.inode = n, !.allocated_index = TRUE, !.idx_data = z]
<1>1. At(t, "zero_put")
  BY DEF WriteEmptyIndex
<1>2. /\ c \in CallType /\ c.at = "zero_put" /\ Knows(disk, c) /\ Sound(disk, 0)
      /\ disk \in Disk /\ c.request \in Request
      /\ c.request.op \in {"readdir", "create", "unlink", "getattr", "read", "write"}
  BY <1>1, DueWhole
<1>3. c.request.op = "write" /\ WriteKnows(disk, c)
  BY <1>2 DEF Knows, CreateKnows, UnlinkKnows, ReadKnows
<1>4. /\ OwnFile(disk, c) /\ c.inode = Node(disk, c.slot) /\ c.inode.index_block = 0
      /\ c.request.offset = c.inode.size /\ c.bytes = 0 /\ b \in disk.bmap /\ Unused(disk, b)
  BY <1>2, <1>3 DEF WriteKnows
<1>5. b \in Block /\ c.inode \in mfs_inode /\ z \in IndexArray /\ 0 \in Place
      /\ \A k \in 1 .. IndexSize : z[k] = 0
  BY <1>2, <1>4, CallFields, DiskFields, ZeroArrays, SizesNat DEF Place, Zeros
<1>6. n \in mfs_inode /\ n.index_block = b /\ n.inode_no = c.inode.inode_no /\ n.size = c.inode.size
  BY <1>5 DEF mfs_inode
<1>7. Put(t, "block", [disk.block EXCEPT ![b] = z], WriteLoop(e))
  <2>1. e = [c EXCEPT !.inode.index_block = c.data_blk, !.allocated_index = TRUE, !.idx_data = z]
    BY <1>2 DEF CallType
  <2> QED  BY <2>1 DEF WriteEmptyIndex
<1> HIDE DEF n, z
<1>8. e \in CallType
  BY <1>2, <1>5, <1>6 DEF CallType, Unread
<1>9. /\ e.request = c.request /\ e.slot = c.slot /\ e.inode_no = c.inode_no /\ e.bytes = c.bytes
      /\ e.inode = n /\ e.idx_data = z
  BY <1>2 DEF CallType
<1>10. \A s \in FilesOf(disk) : Blk(disk, s, 0) # b
  BY <1>4, <1>5 DEF Unused
<1>11. /\ Sound(d, 0) /\ FilesOf(d) = FilesOf(disk) /\ \A s : Node(d, s) = Node(disk, s)
       /\ \A s \in FilesOf(disk), k \in Place : Blk(d, s, k) = Blk(disk, s, k)
       /\ d.bmap = disk.bmap /\ d.imap = disk.imap /\ d.root = disk.root
  <2>1. disk \in Disk /\ Sound(disk, 0) /\ b \in Block /\ z \in IndexArray \cup DataBlock
        /\ (\A s \in FilesOf(disk) : Blk(disk, s, 0) # b) /\ Unused(disk, b)
    BY <1>2, <1>4, <1>5, <1>10
  <2>2. d = WithBlock(disk, b, z)
    OBVIOUS
  <2> HIDE DEF b, c, d, e
  <2>3. z \in DataBlock \/ Unused(disk, b)
    BY <2>1
  <2>4. /\ Sound(d, 0) /\ FilesOf(d) = FilesOf(disk) /\ \A s : Node(d, s) = Node(disk, s)
        /\ \A s \in FilesOf(disk), k \in Place : Blk(d, s, k) = Blk(disk, s, k)
        /\ d.bmap = disk.bmap /\ d.imap = disk.imap /\ d.table = disk.table /\ d.root = disk.root
        /\ d.block = [disk.block EXCEPT ![b] = z] /\ d \in Disk
    BY <2>1, <2>2, <2>3, BlockWritten
  <2> QED  BY <2>4
<1> HIDE DEF d, e
<1>12. c.slot \in FilesOf(disk)
  BY <1>4 DEF OwnFile
<1>13. \A k \in 1 .. IndexSize : Blk(disk, c.slot, k) = 0 /\ Blk(d, c.slot, k) = 0
  BY <1>4, <1>11, <1>12, SizesNat DEF Blk, Place
<1>14. Mapped(IndexSize, z, c.inode.size)
  <2>1. Mapped(IndexSize, [k \in 1 .. IndexSize |-> Blk(disk, c.slot, k)], c.inode.size)
    BY <1>2, <1>4, <1>12 DEF Sized, Sound
  <2> QED  BY <1>5, <1>13, <2>1 DEF Mapped
<1>15. Position(e) = c.inode.size /\ e.bytes <= Len(e.request.buf)
  BY <1>2, <1>3, <1>4, <1>5, <1>9, NodeFields, RequestFields DEF Position
<1>16. c.inode.inode_no = c.inode_no
  BY <1>2, <1>4 DEF OwnFile, Sound, Named
<1>17. Writing(d, e)
  <2>1. OwnFile(d, e) /\ Unused(d, b)
    BY <1>4, <1>9, <1>11 DEF OwnFile, Unused
  <2>2. Node(d, e.slot).index_block = 0
    BY <1>4, <1>9, <1>11
  <2> QED  BY <1>4, <1>5, <1>6, <1>9, <1>11, <1>13, <1>14, <1>15, <1>16, <2>1, <2>2 DEF Writing
<1>18. AtLoop(d, e)
  BY <1>3, <1>4, <1>5, <1>6, <1>8, <1>9, <1>17, Nonzero DEF AtLoop
<1>19. SameDisk(disk, d)
  BY <1>11 DEF SameDisk
<1>20. d = WithIndex(disk, call[t])
  BY DEF d, z, WithIndex
<1>21. e = IndexMade(call[t])
  BY <1>2 DEF e, n, z, IndexMade, CallType
<1> HIDE DEF b, c
<1> QED  BY <1>7, <1>11, <1>18, <1>19, <1>20, <1>21 DEF b, c, z

LEMMA WriteEmptyIndexKeeps ==
  ASSUME NEW t, Thread = {t}, IInv, WriteEmptyIndex(t)
  PROVE  IInv'
<1>1. /\ Put(t, "block", [disk.block EXCEPT ![call[t].data_blk] = Zeros(IndexSize)],
             WriteLoop(IndexMade(call[t])))
      /\ Sound(WithIndex(disk, call[t]), 0) /\ AtLoop(WithIndex(disk, call[t]), IndexMade(call[t]))
  BY EmptyIndexWritten
<1>2. Fine(WithIndex(disk, call[t]), After(WriteLoop(IndexMade(call[t]))))
  BY <1>1, WriteLoopFine
<1> QED  BY <1>1, <1>2, PutStep DEF WithIndex, WithBlock

-----------------------------------------------------------------------------
(* A block is allocated.                                                   *)

LEMMA ReadBlockBitmapKeeps ==
  ASSUME NEW t, Thread = {t}, IInv, ReadBlockBitmap(t)
  PROVE  IInv'
<1> DEFINE c == call[t]
           free == Block \ disk.bmap
           b == Min(free)
           e == [c EXCEPT !.bitmap = disk.bmap \cup {b}, !.data_blk = b, !.at = "alloc_put"]
<1>1. At(t, "alloc_get")
  BY DEF ReadBlockBitmap
<1>2. /\ c \in CallType /\ c.at = "alloc_get" /\ Knows(disk, c) /\ Sound(disk, 0)
      /\ disk \in Disk /\ c.request \in Request
      /\ c.request.op \in {"readdir", "create", "unlink", "getattr", "read", "write"}
  BY <1>1, DueWhole
<1>3. c.request.op = "write" /\ WriteKnows(disk, c)
  BY <1>2 DEF Knows, CreateKnows, UnlinkKnows, ReadKnows
<1>4. CASE free # {} /\ Get(t, e)
  <2>1. b \in free
    <3>1. free \in SUBSET Nat
      BY SizesNat DEF Block
    <3> HIDE DEF free
    <3> QED  BY <1>4, <3>1, MinIn
  <2>2. b \in Block \ disk.bmap
    BY <2>1
  <2> HIDE DEF free, b
  <2>3. disk.bmap \cup {b} \in SUBSET (Block \cup Inode)
    BY <1>2, <2>2, DiskFields
  <2>4. e \in CallType
    BY <1>2, <2>2, <2>3 DEF CallType, NextAccess
  <2>5. /\ e.at = "alloc_put" /\ e.data_blk = b /\ e.bitmap = disk.bmap \cup {b}
        /\ e.newly_allocated = c.newly_allocated
    BY <1>2 DEF CallType
  <2>6. SameWork(c, e)
    BY <1>2 DEF CallType, SameWork
  <2> HIDE DEF e
  <2>7. /\ e.request = c.request /\ e.slot = c.slot /\ e.inode = c.inode /\ e.bytes = c.bytes
        /\ e.idx_data = c.idx_data /\ BlockIdx(e) = BlockIdx(c)
        /\ OwnFile(disk, c) => OwnFile(disk, e)
        /\ Writing(disk, c) => Writing(disk, e)
    BY <2>6, WorkGoesOn DEF SameWork
  <2>8. WriteKnows(disk, e)
    BY <1>2, <1>3, <2>2, <2>5, <2>7 DEF WriteKnows
  <2>9. Fine(disk, After(e))
    BY <1>2, <1>3, <2>4, <2>5, <2>7, <2>8, GoesOn DEF After, Knows
  <2> QED  BY <1>4, <2>9, GetStep
<1>5. CASE free = {} /\ c.inode.index_block = 0 /\ Get(t, Return(c, "ENOSPC"))
  BY <1>2, <1>5, Returns, GetStep
<1>6. CASE free = {} /\ c.inode.index_block # 0 /\ Get(t, Finish([c EXCEPT !.rc = "ENOSPC"]))
  <2>1. AtLoop(disk, c)
    BY <1>2, <1>3, <1>6 DEF AtLoop, WriteKnows
  <2>2. Fine(disk, After(Finish([c EXCEPT !.rc = "ENOSPC"])))
    BY <1>2, <2>1, FinishWith
  <2> QED  BY <1>6, <2>2, GetStep
<1> QED  BY <1>4, <1>5, <1>6 DEF ReadBlockBitmap

LEMMA WriteBlockBitmapKeeps ==
  ASSUME NEW t, Thread = {t}, IInv, WriteBlockBitmap(t)
  PROVE  IInv'
<1> DEFINE c == call[t]
           b == c.data_blk
           d == [disk EXCEPT !["bmap"] = c.bitmap]
           a == IF c.inode.index_block = 0 THEN "zero_put" ELSE "data_put"
           e == [c EXCEPT !.at = a]
<1>1. At(t, "alloc_put") /\ Put(t, "bmap", c.bitmap, e)
  BY DEF WriteBlockBitmap
<1>2. /\ c \in CallType /\ c.at = "alloc_put" /\ Knows(disk, c) /\ Sound(disk, 0)
      /\ disk \in Disk /\ c.request \in Request
      /\ c.request.op \in {"readdir", "create", "unlink", "getattr", "read", "write"}
  BY <1>1, DueWhole
<1>3. c.request.op = "write" /\ WriteKnows(disk, c)
  BY <1>2 DEF Knows, CreateKnows, UnlinkKnows, ReadKnows
<1>4. /\ b \in Block \ disk.bmap /\ c.bitmap = disk.bmap \cup {b} /\ OwnFile(disk, c)
  BY <1>2, <1>3 DEF WriteKnows
<1>5. c.bitmap \in SUBSET Block
  BY <1>2, <1>4, DiskFields
<1>6. \A s \in FilesOf(disk), k \in Place : Blk(disk, s, k) # 0 => Blk(disk, s, k) \in disk.bmap
  BY <1>2, Nonzero DEF Sound, Marked, FilesOf
<1>7. Sound(d, 0)
  BY <1>2, <1>4, <1>5, <1>6, BmapWritten
<1>8. d.bmap = disk.bmap \cup {b} /\ d.root = disk.root /\ d.table = disk.table /\ d.block = disk.block
  BY <1>2, <1>4, PartWritten
<1>9. e \in CallType
  BY <1>2 DEF CallType, NextAccess
<1>10. e.at = a /\ e.data_blk = b /\ e.newly_allocated = c.newly_allocated
  BY <1>2 DEF CallType
<1>11. SameWork(c, e)
  BY <1>2 DEF CallType, SameWork
<1> HIDE DEF d, e
<1>12. /\ FilesOf(d) = FilesOf(disk) /\ \A s : Node(d, s) = Node(disk, s)
       /\ \A s, k : Blk(d, s, k) = Blk(disk, s, k)
  BY <1>8, SameView
<1>13. /\ e.request = c.request /\ e.slot = c.slot /\ e.inode_no = c.inode_no /\ e.inode = c.inode
       /\ e.bytes = c.bytes /\ e.idx_data = c.idx_data /\ BlockIdx(e) = BlockIdx(c)
       /\ Writing(disk, c) => Writing(disk, e)
  BY <1>11, WorkGoesOn DEF SameWork
<1>14. OwnFile(d, e)
  BY <1>4, <1>8, <1>12, <1>13 DEF OwnFile
<1>15. b # 0 /\ Unused(d, e.data_blk)
  BY <1>4, <1>6, <1>10, <1>12, Nonzero DEF Unused
<1>16. CASE c.inode.index_block = 0
  <2>1. WriteKnows(d, e)
    BY <1>2, <1>3, <1>8, <1>10, <1>12, <1>13, <1>14, <1>15, <1>16 DEF WriteKnows
  <2> QED  BY <1>1, <1>3, <1>7, <1>9, <1>10, <1>13, <2>1, GoesOn, PutStep DEF After, Knows, d
<1>17. CASE c.inode.index_block # 0
  <2>1. /\ Writing(disk, c) /\ c.inode.size = c.request.offset /\ c.newly_allocated
        /\ c.bytes < Len(c.request.buf) /\ BlockIdx(c) < IndexSize
        /\ c.newly_allocated = (c.idx_data[BlockIdx(c) + 1] = 0)
    BY <1>2, <1>3, <1>17 DEF WriteKnows
  <2>2. Writing(d, e)
    <3>1. Writing(disk, e)
      BY <1>13, <2>1
    <3>2. \A y : Unused(disk, y) => Unused(d, y)
      BY <1>12 DEF Unused
    <3> QED  BY <1>8, <1>12, <1>14, <3>1, <3>2 DEF Writing
  <2>3. Pending(d, e)
    <3>1. c.inode.index_block \in disk.bmap
          /\ \A k \in 1 .. IndexSize : c.idx_data[k] # 0 => c.idx_data[k] \in disk.bmap
      BY <2>1 DEF Writing
    <3> QED  BY <1>4, <1>10, <1>13, <1>15, <3>1 DEF Pending
  <2>4. WriteKnows(d, e)
    BY <1>4, <1>8, <1>10, <1>13, <1>14, <1>17, <2>1, <2>2, <2>3 DEF WriteKnows
  <2> QED  BY <1>1, <1>3, <1>7, <1>9, <1>10, <1>13, <2>4, GoesOn, PutStep DEF After, Knows, d
<1> QED  BY <1>16, <1>17

-----------------------------------------------------------------------------
(* Data is read and written.                                               *)

LEMMA ReadDataKeeps ==
  ASSUME NEW t, Thread = {t}, IInv, ReadData(t)
  PROVE  IInv'
<1> DEFINE c == call[t]
<1>1. At(t, "data_get")
  BY DEF ReadData
<1>2. /\ c \in CallType /\ c.at = "data_get" /\ Knows(disk, c) /\ Sound(disk, 0)
      /\ disk \in Disk /\ c.request \in Request
      /\ c.request.op \in {"readdir", "create", "unlink", "getattr", "read", "write"}
  BY <1>1, DueWhole
<1>3. CASE c.request.op = "write"
  <2> DEFINE b == c.data_blk
             blk == IF b = 0 THEN Zeros(BlockSize) ELSE disk.block[b]
             e == [c EXCEPT !.blk_buf = blk, !.at = "data_put"]
  <2>1. Get(t, e)
    BY <1>3 DEF ReadData, Op
  <2>2. WriteKnows(disk, c)
    BY <1>2, <1>3 DEF Knows
  <2>3. /\ c.inode.index_block # 0 /\ Writing(disk, c) /\ BlockIdx(c) < IndexSize
        /\ ~ c.newly_allocated /\ b = c.idx_data[BlockIdx(c) + 1]
        /\ c.newly_allocated = (c.idx_data[BlockIdx(c) + 1] = 0)
    BY <1>2, <2>2 DEF WriteKnows
  <2>4. BlockIdx(c) + 1 \in 1 .. IndexSize
    BY <1>2, <1>3, <2>3, PositionNat, SizesNat
  <2>5. blk \in DataBlock
    BY <2>3, <2>4 DEF Writing
  <2> HIDE DEF blk
  <2>6. e \in CallType
    BY <1>2, <2>5 DEF CallType, NextAccess, Unread
  <2>7. e.at = "data_put" /\ e.data_blk = b /\ e.newly_allocated = c.newly_allocated /\ e.blk_buf = blk
    BY <1>2 DEF CallType
  <2>8. SameWork(c, e)
    BY <1>2 DEF CallType, SameWork
  <2> HIDE DEF e
  <2>9. /\ e.request = c.request /\ e.slot = c.slot /\ e.inode = c.inode /\ e.bytes = c.bytes
        /\ e.idx_data = c.idx_data /\ BlockIdx(e) = BlockIdx(c)
        /\ OwnFile(disk, c) => OwnFile(disk, e)
        /\ Writing(disk, c) => Writing(disk, e)
    BY <2>8, WorkGoesOn DEF SameWork
  <2>10. WriteKnows(disk, e)
    BY <1>2, <2>2, <2>3, <2>5, <2>7, <2>9 DEF WriteKnows
  <2>11. Fine(disk, After(e))
    BY <1>2, <1>3, <2>6, <2>7, <2>9, <2>10, GoesOn DEF After, Knows
  <2> QED  BY <2>1, <2>11, GetStep
<1>4. CASE c.request.op = "read"
  <2> DEFINE b == c.idx_data[BlockIdx(c) + 1]
             blk == IF b = 0 THEN Zeros(BlockSize) ELSE disk.block[b]
             off == BlockOff(c)
             n == Min({BlockSize - off, ToReadTotal(c) - c.bytes})
             piece == SubSeq(blk, off + 1, off + n)
             e == [c EXCEPT !.out = @ \o piece, !.bytes = @ + n]
  <2>1. Get(t, IF e.bytes < ToReadTotal(e) THEN e ELSE Return(e, e.out))
    BY <1>4 DEF ReadData, Op
  <2>2. ReadKnows(disk, c)
    BY <1>2, <1>4 DEF Knows
  <2>3. /\ OwnFile(disk, c) /\ c.inode = Node(disk, c.slot) /\ c.inode.index_block # 0
        /\ c.request.offset < c.inode.size /\ c.idx_data = disk.block[c.inode.index_block]
        /\ c.bytes < ToReadTotal(c)
    BY <1>2, <2>2 DEF ReadKnows
  <2>4. /\ c.request.offset \in Nat /\ c.request.size \in Nat /\ c.inode.size \in Nat
        /\ c.bytes \in Nat /\ c.out \in Seq(Unit \cup {0})
    BY <1>2, <1>4, CallFields, NodeFields, RequestFields
  <2>5. ToReadTotal(c) \in Int /\ ToReadTotal(c) <= c.inode.size - c.request.offset
    <3>1. c.request.size \in Int /\ c.inode.size - c.request.offset \in Int
      BY <2>4
    <3> DEFINE l == c.inode.size - c.request.offset
               r == c.request.size
    <3>2. ToReadTotal(c) = IF r <= l THEN r ELSE l
      BY <3>1, MinOfTwo DEF ToReadTotal
    <3> HIDE DEF l, r
    <3>3. ToReadTotal(c) \in Int /\ ToReadTotal(c) <= l
      BY <3>1, <3>2 DEF l, r
    <3> QED  BY <3>3 DEF l
  <2>6. Position(c) < c.inode.size /\ Position(c) \in Nat /\ off \in Nat /\ off < BlockSize
    <3>1. /\ off \in Nat /\ off < BlockSize /\ Position(c) \in Nat
          /\ Position(c) = c.request.offset + c.bytes
      BY <1>2, <1>4, PositionNat
    <3> QED  BY <2>3, <2>4, <2>5, <3>1
  <2>7. BlockIdx(c) + 1 \in 1 .. IndexSize /\ b # 0 /\ disk.block[b] \in DataBlock
    <3>1. c.slot \in FilesOf(disk) /\ Node(disk, c.slot).index_block # 0
      BY <2>3 DEF OwnFile
    <3>2. /\ Mapped(IndexSize, c.idx_data, c.inode.size)
          /\ \A k \in 1 .. IndexSize : c.idx_data[k] # 0 => disk.block[c.idx_data[k]] \in DataBlock
      BY <1>2, <2>3, <3>1, IndexOfFile, SMTT(60)
    <3>3. BlockIdx(c) + 1 \in 1 .. IndexSize /\ c.idx_data[BlockIdx(c) + 1] # 0
      BY <2>4, <2>6, <3>2, BlockOfPosition, SizesNat DEF BlockIdx
    <3> QED  BY <3>2, <3>3
  <2>8. blk \in DataBlock
    BY <2>7
  <2> HIDE DEF blk, b
  <2>9. n \in Nat /\ off + n <= BlockSize
    <3> HIDE DEF off
    <3> QED  BY <2>3, <2>4, <2>5, <2>6, SizesNat, Chunk
  <2> HIDE DEF n, off
  <2>10. piece \in Seq(Unit \cup {0})
    <3>1. blk \in Seq(Unit \cup {0}) /\ Len(blk) = BlockSize
      BY <2>8, SizesNat DEF DataBlock
    <3> QED  BY <2>6, <2>9, <3>1, SizesNat
  <2> HIDE DEF piece
  <2>11. c.out \o piece \in Seq(Unit \cup {0}) /\ c.bytes + n \in Nat
    BY <2>4, <2>9, <2>10
  <2>12. e \in CallType
    BY <1>2, <2>11 DEF CallType
  <2>13. /\ e.at = "data_get" /\ e.request = c.request /\ e.slot = c.slot
         /\ e.inode_no = c.inode_no /\ e.inode = c.inode /\ e.idx_data = c.idx_data
    BY <1>2 DEF CallType
  <2> HIDE DEF e
  <2>14. CASE e.bytes < ToReadTotal(e) /\ Get(t, e)
    <3>1. ReadKnows(disk, e)
      BY <2>3, <2>13, <2>14 DEF ReadKnows, OwnFile
    <3>2. Fine(disk, After(e))
      BY <1>2, <1>4, <2>12, <2>13, <3>1, GoesOn DEF After, Knows
    <3> QED  BY <2>14, <3>2, GetStep
  <2>15. CASE Get(t, Return(e, e.out))
    BY <1>2, <2>15, Returns, GetStep
  <2> QED  BY <2>1, <2>14, <2>15
<1> QED  BY <1>3, <1>4 DEF ReadData, Op

\* Copying a piece of a block moves nothing in the call but the count of bytes.
LEMMA BytesCounted ==
  ASSUME NEW c \in CallType, NEW k \in Nat
  PROVE  /\ [c EXCEPT !.bytes = k] \in CallType
         /\ [c EXCEPT !.bytes = k].request = c.request
         /\ [c EXCEPT !.bytes = k].slot = c.slot
         /\ [c EXCEPT !.bytes = k].inode_no = c.inode_no
         /\ [c EXCEPT !.bytes = k].inode = c.inode
         /\ [c EXCEPT !.bytes = k].idx_data = c.idx_data
         /\ [c EXCEPT !.bytes = k].bytes = k
BY DEF CallType

\* What mfs_write copies into a block, and how it goes on.
PieceLength(c) == Min({BlockSize - BlockOff(c), Len(c.request.buf) - c.bytes})
PieceWritten(c) ==
  [k \in 1 .. BlockSize |->
     IF k \in BlockOff(c) + 1 .. BlockOff(c) + PieceLength(c)
     THEN c.request.buf[c.bytes + k - BlockOff(c)] ELSE OldBlock(c)[k]]
BlockEntered(c) ==
  IF c.newly_allocated
  THEN [c EXCEPT !.idx_data[BlockIdx(c) + 1] = c.data_blk, !.inode.block_count = @ + 1]
  ELSE c
PieceCounted(c) == [BlockEntered(c) EXCEPT !.bytes = @ + PieceLength(c)]
WithPiece(d, c) == WithBlock(d, c.data_blk, PieceWritten(c))

LEMMA PieceIsWritten ==
  ASSUME NEW t, Thread = {t}, IInv, WriteData(t)
  PROVE  /\ Put(t, "block", [disk.block EXCEPT ![call[t].data_blk] = PieceWritten(call[t])],
                WriteLoop(PieceCounted(call[t])))
         /\ Sound(WithPiece(disk, call[t]), 0) /\ SameDisk(disk, WithPiece(disk, call[t]))
         /\ AtLoop(WithPiece(disk, call[t]), PieceCounted(call[t]))
<1> DEFINE c == call[t]
           b == c.data_blk
           q == BlockIdx(c) + 1
           x == c.inode.index_block
           off == BlockOff(c)
           n == Min({BlockSize - off, Len(c.request.buf) - c.bytes})
           new == [k \in 1 .. BlockSize |->
                     IF k \in off + 1 .. off + n THEN c.request.buf[c.bytes + k - off] ELSE OldBlock(c)[k]]
           f == IF c.newly_allocated
                THEN [c EXCEPT !.idx_data[BlockIdx(c) + 1] = c.data_blk, !.inode.block_count = @ + 1]
                ELSE c
           e == [f EXCEPT !.bytes = @ + n]
           d == WithBlock(disk, b, new)
<1>1. At(t, "data_put") /\ Put(t, "block", [disk.block EXCEPT ![b] = new], WriteLoop(e))
  BY DEF WriteData
<1>2. /\ c \in CallType /\ c.at = "data_put" /\ Knows(disk, c) /\ Sound(disk, 0)
      /\ disk \in Disk /\ c.request \in Request
      /\ c.request.op \in {"readdir", "create", "unlink", "getattr", "read", "write"}
  BY <1>1, DueWhole
<1>3. c.request.op = "write" /\ WriteKnows(disk, c)
  BY <1>2 DEF Knows, CreateKnows, UnlinkKnows, ReadKnows
<1>4. /\ x # 0 /\ Writing(disk, c) /\ c.inode.size = c.request.offset
      /\ c.bytes < Len(c.request.buf) /\ BlockIdx(c) < IndexSize /\ b \in disk.bmap
      /\ c.newly_allocated = (c.idx_data[q] = 0)
      /\ c.newly_allocated => Pending(disk, c)
      /\ ~ c.newly_allocated => b = c.idx_data[q] /\ c.blk_buf \in DataBlock
  BY <1>2, <1>3 DEF WriteKnows
<1>5. /\ c.bytes \in Nat /\ c.request.buf \in Seq(Unit) /\ Len(c.request.buf) \in Nat
      /\ c.inode \in mfs_inode /\ c.newly_allocated \in BOOLEAN
  BY <1>2, <1>3, CallFields, RequestFields
<1>6. /\ off \in Nat /\ off < BlockSize /\ BlockIdx(c) \in Nat /\ q \in 1 .. IndexSize
      /\ Position(c) \in Nat /\ Position(c) = BlockIdx(c) * BlockSize + off
      /\ Position(c) = c.request.offset + c.bytes /\ c.request.offset \in Nat
  BY <1>2, <1>3, <1>4, PositionNat, RequestFields, SizesNat
<1>7. n \in Nat /\ off + n <= BlockSize /\ c.bytes + n <= Len(c.request.buf)
  <2>1. off \in Nat /\ off < BlockSize /\ BlockSize \in Nat
    BY <1>6, SizesNat
  <2>2. c.bytes \in Nat /\ Len(c.request.buf) \in Int /\ c.bytes < Len(c.request.buf)
    BY <1>4, <1>5
  <2> HIDE DEF off, c
  <2> QED  BY <2>1, <2>2, Chunk
<1> HIDE DEF n, off
<1>8. new \in DataBlock
  <2>1. ASSUME NEW k \in 1 .. BlockSize, k \in off + 1 .. off + n
        PROVE  c.request.buf[c.bytes + k - off] \in Unit
    <3>1. c.bytes + k - off \in 1 .. Len(c.request.buf)
      <4>1. c.bytes \in Nat /\ n \in Nat /\ off \in Nat /\ c.bytes + n <= Len(c.request.buf)
            /\ Len(c.request.buf) \in Nat
        BY <1>5, <1>6, <1>7
      <4> HIDE DEF c, new
      <4> QED  BY <2>1, <4>1, InPiece
    <3> QED  BY <1>5, <3>1
  <2>2. OldBlock(c) \in DataBlock
    BY <1>4, <1>5, ZeroArrays DEF OldBlock
  <2>3. \A k \in 1 .. BlockSize : OldBlock(c)[k] \in Unit \cup {0}
    BY <2>2 DEF DataBlock
  <2> QED  BY <2>1, <2>3 DEF DataBlock
<1> HIDE DEF new
<1>9. /\ c.idx_data \in IndexArray /\ x \in disk.bmap /\ b \in Block /\ b # 0 /\ b # x
      /\ c.idx_data[q] # 0 => c.idx_data[q] = b
      /\ c.idx_data[q] = 0 => Pending(disk, c)
  BY <1>2, <1>4, <1>5, <1>6, DiskFields, Nonzero DEF Writing, Pending
<1>10. \A s \in FilesOf(disk) : Blk(disk, s, 0) # b
  <2>1. CASE c.idx_data[q] = 0
    BY <1>9, <2>1, SizesNat DEF Pending, Unused, Place
  <2>2. ASSUME c.idx_data[q] # 0, NEW s \in FilesOf(disk), s # c.slot PROVE Blk(disk, s, 0) # b
    <3>1. 0 \in Place /\ q \in Place \ {0}
      BY <1>6, SizesNat DEF Place
    <3> HIDE DEF q
    <3> QED  BY <1>2, <1>4, <1>9, <2>2, <3>1, WritingApart
  <2>3. Blk(disk, c.slot, 0) = 0 \/ Blk(disk, c.slot, 0) = x
    BY <1>4 DEF Writing, Blk
  <2> QED  BY <1>9, <2>1, <2>2, <2>3
<1>11. /\ Sound(d, 0) /\ FilesOf(d) = FilesOf(disk) /\ \A s : Node(d, s) = Node(disk, s)
       /\ \A s \in FilesOf(disk), k \in Place : Blk(d, s, k) = Blk(disk, s, k)
       /\ d.bmap = disk.bmap /\ d.imap = disk.imap /\ d.root = disk.root
       /\ d.block = [disk.block EXCEPT ![b] = new]
  <2>1. disk \in Disk /\ Sound(disk, 0) /\ b \in Block /\ new \in IndexArray \cup DataBlock
        /\ (\A s \in FilesOf(disk) : Blk(disk, s, 0) # b) /\ new \in DataBlock
    BY <1>2, <1>8, <1>9, <1>10
  <2>2. d = WithBlock(disk, b, new)
    OBVIOUS
  <2> HIDE DEF b, c, d, e
  <2> QED  BY <2>1, <2>2, BlockWritten
<1>12. /\ e \in CallType /\ e.request = c.request /\ e.slot = c.slot /\ e.inode_no = c.inode_no
       /\ e.bytes = c.bytes + n /\ e.inode.inode_no = c.inode.inode_no
       /\ e.inode.index_block = x /\ e.inode.size = c.inode.size
       /\ e.idx_data = [c.idx_data EXCEPT ![q] = b]
  <2>1. CASE c.newly_allocated
    <3> DEFINE idx == [c.idx_data EXCEPT ![q] = b]
               i == [c.inode EXCEPT !.block_count = @ + 1]
    <3>1. idx \in IndexArray
      BY <1>6, <1>9 DEF IndexArray
    <3>2. i \in mfs_inode /\ i.inode_no = c.inode.inode_no /\ i.index_block = x /\ i.size = c.inode.size
      BY <1>5 DEF mfs_inode
    <3>3. e = [c EXCEPT !.idx_data = idx, !.inode = i, !.bytes = c.bytes + n]
      BY <1>2, <2>1 DEF CallType
    <3> HIDE DEF idx, i, e, d, f, q
    <3>6. c.bytes + n \in Nat /\ idx \in Unread(IndexArray)
      BY <1>5, <1>7, <3>1 DEF Unread
    <3>4. e \in CallType
      BY <1>2, <3>2, <3>3, <3>6 DEF CallType
    <3>5. /\ e.request = c.request /\ e.slot = c.slot /\ e.inode_no = c.inode_no
          /\ e.bytes = c.bytes + n /\ e.inode = i /\ e.idx_data = idx
      BY <1>2, <3>3 DEF CallType
    <3> QED  BY <3>2, <3>4, <3>5 DEF idx
  <2>2. CASE ~ c.newly_allocated
    <3>1. e = [c EXCEPT !.bytes = c.bytes + n]
      BY <1>2, <2>2 DEF CallType
    <3>2. c \in CallType /\ c.bytes + n \in Nat
      BY <1>2, <1>5, <1>7
    <3> HIDE DEF e, c
    <3>3. /\ e \in CallType
          /\ e.request = c.request /\ e.slot = c.slot /\ e.inode_no = c.inode_no
          /\ e.bytes = c.bytes + n /\ e.inode = c.inode /\ e.idx_data = c.idx_data
      BY <3>1, <3>2, BytesCounted
    <3>4. [c.idx_data EXCEPT ![q] = b] = c.idx_data
      BY <1>4, <1>6, <1>9, <2>2 DEF IndexArray
    <3> QED  BY <3>3, <3>4
  <2> QED  BY <1>5, <2>1, <2>2
<1> HIDE DEF d, e, f
<1>13. /\ e.idx_data \in IndexArray /\ e.idx_data[q] = b
       /\ \A k \in 1 .. IndexSize : k # q => e.idx_data[k] = c.idx_data[k]
  BY <1>6, <1>9, <1>12 DEF IndexArray
<1>14. Mapped(IndexSize, e.idx_data, Position(e))
  <2> DEFINE p == BlockIdx(c)
  <2>1. Position(e) = Position(c) + n
    BY <1>5, <1>6, <1>7, <1>12, SMTT(60) DEF Position
  <2>2. /\ p \in Nat /\ p + 1 = q /\ p < IndexSize /\ off \in Nat /\ n \in Nat /\ off + n <= BlockSize
        /\ Position(c) = p * BlockSize + off /\ BlockSize \in Nat /\ BlockSize > 0 /\ IndexSize \in Nat
    BY <1>4, <1>6, <1>7, SizesNat
  <2> HIDE DEF p
  <2>3. Position(e) <= (p + 1) * BlockSize
    BY <2>1, <2>2, SMT
  <2>4. (p + 1) * BlockSize <= IndexSize * BlockSize
    BY <2>2, SMT
  <2>5. Position(e) \in Nat
    BY <1>6, <1>7, <2>1
  <2>6. Position(e) <= IndexSize * BlockSize
    <3>1. (p + 1) * BlockSize \in Nat /\ IndexSize * BlockSize \in Nat
      BY <2>2
    <3> QED  BY <2>3, <2>4, <2>5, <3>1
  <2>7. ASSUME NEW k \in 1 .. IndexSize, (k - 1) * BlockSize < Position(e)
        PROVE  e.idx_data[k] # 0
    <3>1. CASE k = q
      BY <1>9, <1>13, <3>1
    <3>2. CASE k # q
      <4>1. (k - 1) * BlockSize < (p + 1) * BlockSize
        <5>1. (k - 1) * BlockSize \in Int /\ (p + 1) * BlockSize \in Int
          BY <2>2
        <5> QED  BY <2>3, <2>5, <2>7, <5>1
      <4>2. k - 1 <= p
        BY <2>2, <4>1, Quotients
      <4>3. k - 1 < p
        BY <2>2, <3>2, <4>2
      <4>4. (k - 1) * BlockSize < p * BlockSize
        BY <2>2, <4>3, SMT
      <4>5. (k - 1) * BlockSize < Position(c)
        <5>1. (k - 1) * BlockSize \in Int /\ p * BlockSize \in Int
          BY <2>2
        <5> QED  BY <2>2, <4>4, <5>1
      <4>6. c.idx_data[k] # 0
        BY <1>4, <4>5 DEF Writing, Mapped
      <4> QED  BY <1>13, <3>2, <4>6
    <3> QED  BY <3>1, <3>2
  <2> QED  BY <2>6, <2>7 DEF Mapped
<1>15. c.slot \in FilesOf(disk) /\ \A k \in 1 .. IndexSize : Blk(d, c.slot, k) = Blk(disk, c.slot, k)
  BY <1>4, <1>11, SizesNat DEF Writing, OwnFile, Place
<1>16. \A y : Unused(disk, y) => Unused(d, y)
  BY <1>11 DEF Unused
<1>17. ASSUME NEW k \in 1 .. IndexSize, e.idx_data[k] # 0
       PROVE  /\ e.idx_data[k] \in d.bmap /\ d.block[e.idx_data[k]] \in DataBlock
              /\ e.idx_data[k] # x
              /\ \A l \in 1 .. IndexSize : e.idx_data[l] = e.idx_data[k] => l = k
              /\ Blk(d, c.slot, k) = 0 => Unused(d, e.idx_data[k])
  <2>0. \A l \in 1 .. IndexSize : c.idx_data[l] = b => l = q
    <3>1. CASE c.idx_data[q] = 0
      BY <1>9, <3>1 DEF Pending
    <3>2. CASE c.idx_data[q] # 0
      BY <1>4, <1>6, <1>9, <3>2 DEF Writing
    <3> QED  BY <3>1, <3>2
  <2>1. CASE k = q
    <3>1. b \in d.bmap /\ d.block[b] \in DataBlock
      BY <1>2, <1>4, <1>8, <1>9, <1>11, DiskFields
    <3>2. \A l \in 1 .. IndexSize : e.idx_data[l] = b => l = q
      BY <1>13, <2>0
    <3>3. Blk(d, c.slot, q) = 0 => Unused(d, b)
      <4>1. CASE c.idx_data[q] = 0
        BY <1>9, <1>16, <4>1 DEF Pending
      <4>2. CASE c.idx_data[q] # 0
        BY <1>4, <1>6, <1>9, <1>15, <1>16, <4>2 DEF Writing
      <4> QED  BY <4>1, <4>2
    <3> HIDE DEF q
    <3> QED  BY <1>9, <1>13, <2>1, <3>1, <3>2, <3>3
  <2>2. CASE k # q
    <3>1. e.idx_data[k] = c.idx_data[k] /\ c.idx_data[k] # b /\ c.idx_data[k] # 0
      BY <1>13, <1>17, <2>0, <2>2
    <3>2. /\ c.idx_data[k] \in disk.bmap /\ disk.block[c.idx_data[k]] \in DataBlock
          /\ c.idx_data[k] # x
          /\ \A l \in 1 .. IndexSize : c.idx_data[l] = c.idx_data[k] => l = k
          /\ Blk(disk, c.slot, k) = 0 => Unused(disk, c.idx_data[k])
      BY <1>4, <3>1 DEF Writing
    <3>3. c.idx_data[k] \in Block
      BY <1>9, <3>1 DEF IndexArray
    <3>4. d.block[c.idx_data[k]] = disk.block[c.idx_data[k]]
      BY <1>2, <1>11, <3>1, <3>3, DiskFields
    <3>5. \A l \in 1 .. IndexSize : e.idx_data[l] = c.idx_data[k] => l = k
      BY <1>13, <3>1, <3>2
    <3> QED  BY <1>11, <1>15, <1>16, <3>1, <3>2, <3>4, <3>5
  <2> QED  BY <2>1, <2>2
<1>18. ASSUME NEW k \in 1 .. IndexSize, Blk(d, c.slot, k) # 0 PROVE e.idx_data[k] = Blk(d, c.slot, k)
  <2>1. c.idx_data[k] = Blk(d, c.slot, k) /\ c.idx_data[k] # 0
    BY <1>4, <1>15, <1>18 DEF Writing
  <2> QED  BY <1>9, <1>13, <2>1
<1>19. Writing(d, e)
  <2>1. OwnFile(d, e) /\ e.inode.inode_no = e.inode_no
    BY <1>4, <1>11, <1>12 DEF OwnFile, Writing
  <2>2. /\ Node(d, e.slot).index_block = 0 => Unused(d, x)
        /\ Node(d, e.slot).index_block # 0 => Node(d, e.slot).index_block = x
    BY <1>4, <1>11, <1>12, <1>16 DEF Writing
  <2>3. e.bytes <= Len(e.request.buf) /\ x \in d.bmap
    BY <1>7, <1>9, <1>11, <1>12
  <2> QED  BY <1>12, <1>13, <1>14, <1>17, <1>18, <2>1, <2>2, <2>3 DEF Writing
<1>20. AtLoop(d, e)
  BY <1>3, <1>4, <1>12, <1>19 DEF AtLoop
<1>21. SameDisk(disk, d)
  BY <1>11 DEF SameDisk
<1>22. n = PieceLength(call[t])
  BY DEF n, off, PieceLength
<1>23. new = PieceWritten(call[t])
  BY <1>22 DEF new, off, PieceWritten
<1>24. d = WithPiece(disk, call[t])
  BY <1>23 DEF d, WithPiece
<1>25. e = PieceCounted(call[t])
  BY <1>22 DEF e, f, PieceCounted, BlockEntered
<1> HIDE DEF b, c
<1> QED  BY <1>1, <1>11, <1>20, <1>21, <1>23, <1>24, <1>25 DEF b, c

LEMMA WriteDataKeeps ==
  ASSUME NEW t, Thread = {t}, IInv, WriteData(t)
  PROVE  IInv'
<1>1. /\ Put(t, "block", [disk.block EXCEPT ![call[t].data_blk] = PieceWritten(call[t])],
             WriteLoop(PieceCounted(call[t])))
      /\ Sound(WithPiece(disk, call[t]), 0) /\ AtLoop(WithPiece(disk, call[t]), PieceCounted(call[t]))
  BY PieceIsWritten
<1>2. Fine(WithPiece(disk, call[t]), After(WriteLoop(PieceCounted(call[t]))))
  BY <1>1, WriteLoopFine
<1> QED  BY <1>1, <1>2, PutStep DEF WithPiece, WithBlock

LEMMA WriteIndexBlockKeeps ==
  ASSUME NEW t, Thread = {t}, IInv, WriteIndexBlock(t)
  PROVE  IInv'
<1> DEFINE c == call[t]
           x == c.inode.index_block
           idx == c.idx_data
           d == WithBlock(disk, x, idx)
           e == [c EXCEPT !.at = "table_get"]
<1>1. At(t, "index_put") /\ Put(t, "block", [disk.block EXCEPT ![x] = idx], e)
  BY DEF WriteIndexBlock
<1>2. /\ c \in CallType /\ c.at = "index_put" /\ Knows(disk, c) /\ Sound(disk, 0)
      /\ disk \in Disk /\ c.request \in Request
      /\ c.request.op \in {"readdir", "create", "unlink", "getattr", "read", "write"}
  BY <1>1, DueWhole
<1>3. c.request.op = "write" /\ WriteKnows(disk, c)
  BY <1>2 DEF Knows, CreateKnows, UnlinkKnows, ReadKnows
<1>4. x # 0 /\ Writing(disk, c) /\ c.inode.size = Position(c) /\ OwnFile(disk, c)
  BY <1>2, <1>3 DEF WriteKnows
<1>5. x \in disk.bmap /\ x \in Block /\ idx \in IndexArray
  BY <1>2, <1>4, DiskFields DEF Writing
<1>6. e \in CallType
  BY <1>2 DEF CallType, NextAccess
<1>7. e.at = "table_get"
  BY <1>2 DEF CallType
<1>8. SameWork(c, e)
  BY <1>2 DEF CallType, SameWork
<1> HIDE DEF e, idx
<1>9. /\ d.bmap = disk.bmap /\ d.imap = disk.imap /\ d.table = disk.table /\ d.root = disk.root
      /\ d.block = [disk.block EXCEPT ![x] = idx]
  BY <1>2, PartWritten DEF WithBlock
<1>10. d \in Disk
  BY <1>2, <1>5, DiskFields, StillDisk DEF WithBlock
<1> HIDE DEF d
<1>11. FilesOf(d) = FilesOf(disk) /\ \A s : Node(d, s) = Node(disk, s)
  BY <1>9, SameView
<1>12. d.block[x] = idx /\ \A a \in Block : a # x => d.block[a] = disk.block[a]
  BY <1>2, <1>5, <1>9, DiskFields
<1>13. ASSUME NEW s \in FilesOf(disk), NEW k \in Place, s # c.slot PROVE Blk(d, s, k) = Blk(disk, s, k)
  <2>1. 0 \in Place
    BY SizesNat DEF Place
  <2>2. Blk(disk, s, 0) # x
    BY <1>2, <1>4, <1>13, <2>1, WritingApart
  <2>3. Node(disk, s).index_block # x /\ Node(disk, s).index_block \in Block \cup {0}
    BY <1>2, <2>2, DiskFields, NodeFields DEF Blk
  <2> QED  BY <1>11, <1>12, <2>3 DEF Blk
<1>14. c.slot \in FilesOf(disk) /\ \A k \in Place \ {0} : k \in 1 .. IndexSize
  BY <1>4, SizesNat DEF OwnFile, Place
<1>15. Sound(d, 0) /\ \A k \in 1 .. IndexSize : Blk(d, c.slot, k) # 0 => idx[k] = Blk(d, c.slot, k)
  <2>1. CASE Node(disk, c.slot).index_block = 0
    <3>1. Unused(disk, x)
      BY <1>4, <2>1 DEF Writing
    <3>2. \A s \in FilesOf(disk) : Blk(disk, s, 0) # x
      BY <3>1, SizesNat DEF Unused, Place
    <3>3. Sound(d, 0)
      <4>1. disk \in Disk /\ Sound(disk, 0) /\ x \in Block /\ idx \in IndexArray \cup DataBlock
        BY <1>2, <1>5
      <4>2. d = WithBlock(disk, x, idx)
        BY DEF d
      <4> HIDE DEF x, c
      <4> QED  BY <3>1, <3>2, <4>1, <4>2, BlockWritten
    <3>4. \A k \in 1 .. IndexSize : Blk(d, c.slot, k) = 0
      BY <1>11, <2>1 DEF Blk
    <3> QED  BY <3>3, <3>4
  <2>2. CASE Node(disk, c.slot).index_block # 0
    <3>1. Node(disk, c.slot).index_block = x
      BY <1>4, <2>2 DEF Writing
    <3>2. Blk(d, c.slot, 0) = x /\ \A k \in Place \ {0} : Blk(d, c.slot, k) = idx[k]
      BY <1>4, <1>11, <1>12, <3>1 DEF Blk
    <3>3. Mapped(IndexSize, idx, Node(d, c.slot).size)
      <4>1. Mapped(IndexSize, [k \in 1 .. IndexSize |-> Blk(disk, c.slot, k)], Node(disk, c.slot).size)
        BY <1>2, <1>14 DEF Sized, Sound
      <4>2. \A k \in 1 .. IndexSize : Blk(disk, c.slot, k) # 0 => idx[k] # 0
        BY <1>4 DEF Writing, idx
      <4> QED  BY <1>11, <4>1, <4>2 DEF Mapped
    <3>4. Node(d, c.slot).inode_no = c.inode_no
      BY <1>2, <1>4, <1>11, <1>14 DEF OwnFile, Sound, Named
    <3>5. d.block[x] \in IndexArray
      BY <1>5, <1>12
    <3>6. Sound(d, 0)
      <4>1. disk \in Disk /\ Sound(disk, 0) /\ Writing(disk, c) /\ c.inode.index_block # 0 /\ d \in Disk
        BY <1>2, <1>4, <1>10
      <4>2. d.bmap = disk.bmap /\ d.imap = disk.imap /\ d.root = disk.root
        BY <1>9
      <4>3. /\ \A s \in FilesOf(disk) : s # c.slot => Node(d, s) = Node(disk, s)
            /\ \A s \in FilesOf(disk), k \in Place : s # c.slot => Blk(d, s, k) = Blk(disk, s, k)
        BY <1>11, <1>13
      <4>4. /\ Blk(d, c.slot, 0) = c.inode.index_block
            /\ \A k \in Place \ {0} : Blk(d, c.slot, k) = c.idx_data[k]
            /\ Mapped(IndexSize, c.idx_data, Node(d, c.slot).size)
            /\ Node(d, c.slot).inode_no = c.inode_no
            /\ d.block[c.inode.index_block] \in IndexArray
        BY <3>2, <3>3, <3>4, <3>5 DEF idx
      <4>5. \A a \in Block : a # c.inode.index_block => d.block[a] = disk.block[a]
        BY <1>12
      <4> HIDE DEF c
      <4> QED  BY <4>1, <4>2, <4>3, <4>4, <4>5, Recorded
    <3>7. \A k \in 1 .. IndexSize : k \in Place \ {0}
      BY SizesNat DEF Place
    <3> QED  BY <3>2, <3>6, <3>7
  <2> QED  BY <2>1, <2>2
<1>16. /\ e.request = c.request /\ e.slot = c.slot /\ e.inode_no = c.inode_no /\ e.inode = c.inode
       /\ e.bytes = c.bytes /\ e.idx_data = idx /\ Position(e) = Position(c)
  BY <1>8, WorkGoesOn DEF SameWork, idx
<1>17. ASSUME NEW k \in 1 .. IndexSize, idx[k] # 0
       PROVE  /\ idx[k] \in d.bmap /\ d.block[idx[k]] \in DataBlock /\ idx[k] # x
              /\ \A l \in 1 .. IndexSize : idx[l] = idx[k] => l = k
              /\ Blk(d, c.slot, k) = 0 => Unused(d, idx[k])
  <2>1. /\ idx[k] \in disk.bmap /\ disk.block[idx[k]] \in DataBlock /\ idx[k] # x
        /\ \A l \in 1 .. IndexSize : idx[l] = idx[k] => l = k
        /\ Blk(disk, c.slot, k) = 0 => Unused(disk, idx[k])
    BY <1>4, <1>17 DEF Writing, idx
  <2>2. idx[k] \in Block
    BY <1>5, <1>17 DEF IndexArray
  <2>3. d.block[idx[k]] = disk.block[idx[k]]
    BY <1>12, <2>1, <2>2
  <2>4. ASSUME Blk(d, c.slot, k) = 0 PROVE Unused(d, idx[k])
    <3>1. Node(disk, c.slot).index_block = 0
      <4>1. CASE Node(disk, c.slot).index_block # 0
        <5>1. Node(d, c.slot).index_block = x /\ Blk(d, c.slot, k) = idx[k]
          <6>1. Node(d, c.slot).index_block = x
            BY <1>4, <1>11, <4>1 DEF Writing
          <6>2. k # 0
            OBVIOUS
          <6> QED  BY <1>4, <1>12, <6>1, <6>2 DEF Blk
        <5> QED  BY <1>17, <2>4, <5>1
      <4> QED  BY <4>1
    <3>2. \A l \in Place \ {0} : Blk(disk, c.slot, l) = 0 /\ Blk(d, c.slot, l) = 0
      BY <1>11, <3>1 DEF Blk
    <3>3. Blk(disk, c.slot, 0) = 0 /\ Blk(d, c.slot, 0) = 0
      BY <1>11, <3>1 DEF Blk
    <3>4. \A s \in FilesOf(disk), l \in Place : Blk(d, s, l) = Blk(disk, s, l)
      BY <1>13, <3>2, <3>3
    <3>5. Unused(disk, idx[k])
      <4>1. k \in Place \ {0}
        BY SizesNat DEF Place
      <4> QED  BY <2>1, <3>2, <4>1
    <3> QED  BY <1>11, <3>4, <3>5 DEF Unused
  <2> QED  BY <1>9, <2>1, <2>3, <2>4
<1>18. Writing(d, e)
  <2>1. OwnFile(d, e) /\ e.inode.inode_no = e.inode_no
    BY <1>4, <1>9, <1>11, <1>16 DEF OwnFile, Writing
  <2>2. /\ Node(d, e.slot).index_block = 0 => Unused(d, x)
        /\ Node(d, e.slot).index_block # 0 => Node(d, e.slot).index_block = x
    <3>1. ASSUME Node(disk, c.slot).index_block = 0 PROVE Unused(d, x)
      <4>1. \A s \in FilesOf(disk), l \in Place : Blk(d, s, l) = Blk(disk, s, l)
        BY <1>11, <1>13, <3>1 DEF Blk
      <4>2. Unused(disk, x)
        BY <1>4, <3>1 DEF Writing
      <4> QED  BY <1>11, <4>1, <4>2 DEF Unused
    <3> QED  BY <1>4, <1>11, <1>16, <3>1 DEF Writing
  <2>3. /\ e.bytes <= Len(e.request.buf) /\ x \in d.bmap
        /\ Mapped(IndexSize, idx, Position(e))
    BY <1>4, <1>5, <1>9, <1>16 DEF Writing, idx
  <2> QED  BY <1>5, <1>15, <1>16, <1>17, <2>1, <2>2, <2>3 DEF Writing
<1>19. WriteKnows(d, e)
  BY <1>4, <1>7, <1>12, <1>16, <1>18 DEF WriteKnows, Writing
<1>20. Fine(d, After(e))
  BY <1>3, <1>6, <1>7, <1>15, <1>16, <1>19, GoesOn DEF After, Knows
<1> QED  BY <1>1, <1>20, PutStep DEF d, WithBlock, idx

-----------------------------------------------------------------------------
(* The blocks of a file are freed.                                         *)

\* What unlink frees next is a block of the file, and of no other.
LEMMA FreedApart ==
  ASSUME NEW d \in Disk, NEW c \in CallType, Sound(d, c.slot), UnlinkKnows(d, c),
         c.at \in {"free_get", "free_put"}
  PROVE  \A s \in FilesOf(d) \ {c.slot} : \A k \in Place :
           Blk(d, s, k) # 0 => Blk(d, s, k) # NextToFree(c)
<1> DEFINE m == Min(c.to_free)
           p == IF m > IndexSize THEN 0 ELSE m
<1>1. /\ c.slot \in FilesOf(d) /\ c.inode = Node(d, c.slot) /\ c.inode.index_block # 0
      /\ c.idx_data = d.block[c.inode.index_block] /\ c.to_free # {}
  BY DEF UnlinkKnows, OwnFile
<1>2. c.to_free \in SUBSET (1 .. IndexSize + 1)
  BY CallFields
<1>3. m \in c.to_free
  <2>1. c.to_free \in SUBSET Nat
    BY <1>2, SizesNat
  <2> QED  BY <1>1, <2>1, MinIn
<1>4. m \in 1 .. IndexSize + 1
  BY <1>2, <1>3
<1> HIDE DEF m
<1>5. p \in Place /\ (p # 0 => p = m) /\ (p = 0 <=> m > IndexSize)
  BY <1>4, SizesNat DEF Place
<1> HIDE DEF p
<1>6. NextToFree(c) = Blk(d, c.slot, p)
  <2>1. NextToFree(c) = IF m > IndexSize THEN c.inode.index_block ELSE c.idx_data[m]
    BY DEF NextToFree, m
  <2> QED  BY <1>1, <1>5, <2>1 DEF Blk
<1> QED  BY <1>1, <1>5, <1>6 DEF Sound, Separate

LEMMA ReadBitmapToFreeKeeps ==
  ASSUME NEW t, Thread = {t}, IInv, ReadBitmapToFree(t)
  PROVE  IInv'
<1> DEFINE c == call[t]
           m == disk.bmap \ {NextToFree(c)}
           e == [c EXCEPT !.bitmap = m, !.at = "free_put"]
<1>1. At(t, "free_get") /\ Get(t, e)
  BY DEF ReadBitmapToFree
<1>2. /\ c \in CallType /\ c.at = "free_get" /\ Knows(disk, c) /\ c # Idle
      /\ Sound(disk, Torn(c)) /\ disk \in Disk
      /\ c.request.op \in {"readdir", "create", "unlink", "getattr", "read", "write"}
  BY <1>1, Due
<1>3. c.request.op = "unlink" /\ UnlinkKnows(disk, c)
  BY <1>2 DEF Knows, CreateKnows, ReadKnows, WriteKnows
<1>4. m \in SUBSET (Block \cup Inode)
  BY <1>2, DiskFields
<1> HIDE DEF m
<1>5. e \in CallType
  BY <1>2, <1>4 DEF CallType, NextAccess
<1>6. /\ e.at = "free_put" /\ e.request = c.request /\ e.slot = c.slot /\ e.entries = c.entries
      /\ e.inode_no = c.inode_no /\ e.inode = c.inode /\ e.idx_data = c.idx_data
      /\ e.to_free = c.to_free /\ e.bitmap = m
  BY <1>2 DEF CallType
<1> HIDE DEF e
<1>7. e # Idle /\ Torn(e) = c.slot /\ Torn(c) = c.slot /\ After(e) = e
  BY <1>2, <1>3, <1>6 DEF Torn, Idle, After
<1>8. NextToFree(e) = NextToFree(c)
  BY <1>6 DEF NextToFree
<1>9. UnlinkKnows(disk, e)
  BY <1>2, <1>3, <1>6, <1>8 DEF UnlinkKnows, OwnFile, m
<1>10. Fine(disk, After(e))
  BY <1>2, <1>3, <1>5, <1>6, <1>7, <1>9 DEF Fine, Knows
<1> QED  BY <1>1, <1>10, GetStep

LEMMA WriteBitmapFreedKeeps ==
  ASSUME NEW t, Thread = {t}, IInv, WriteBitmapFreed(t)
  PROVE  IInv'
<1> DEFINE c == call[t]
           d == [disk EXCEPT !["bmap"] = c.bitmap]
           T == c.to_free \ {Min(c.to_free)}
           b == [c EXCEPT !.to_free = T]
           a == IF T = {} THEN "root_put" ELSE "free_get"
           e == [c EXCEPT !.to_free = T, !.at = a]
<1>1. At(t, "free_put") /\ Put(t, "bmap", c.bitmap, FreeLoop(b))
  BY DEF WriteBitmapFreed
<1>2. /\ c \in CallType /\ c.at = "free_put" /\ Knows(disk, c) /\ c # Idle
      /\ Sound(disk, Torn(c)) /\ disk \in Disk
      /\ c.request.op \in {"readdir", "create", "unlink", "getattr", "read", "write"}
  BY <1>1, Due
<1>3. c.request.op = "unlink" /\ UnlinkKnows(disk, c)
  BY <1>2 DEF Knows, CreateKnows, ReadKnows, WriteKnows
<1>4. T \in SUBSET (1 .. IndexSize + 1) /\ T \subseteq c.to_free
  BY <1>2, CallFields
<1> HIDE DEF T
<1>5. FreeLoop(b) = e
  BY <1>2 DEF FreeLoop, CallType
<1>6. e \in CallType
  <2>1. a \in NextAccess
    BY DEF NextAccess
  <2> HIDE DEF a, c
  <2> QED  BY <1>2, <1>4, <2>1, FreeingMoves
<1>7. /\ e.at = a /\ e.request = c.request /\ e.slot = c.slot /\ e.entries = c.entries
      /\ e.inode_no = c.inode_no /\ e.inode = c.inode /\ e.idx_data = c.idx_data /\ e.to_free = T
  BY <1>2 DEF CallType
<1>8. Put(t, "bmap", c.bitmap, e)
  BY <1>1, <1>5
<1> HIDE DEF b, e
<1>9. e # Idle /\ Torn(e) = c.slot /\ Torn(c) = c.slot /\ After(e) = e
  BY <1>2, <1>3, <1>7 DEF Torn, Idle, After
<1>10. /\ OwnFile(disk, c) /\ c.entries = disk.root /\ c.inode = Node(disk, c.slot)
       /\ c.inode.index_block # 0 /\ c.idx_data = disk.block[c.inode.index_block]
       /\ c.bitmap = disk.bmap \ {NextToFree(c)}
       /\ \A k \in c.to_free : k <= IndexSize => c.idx_data[k] # 0
  BY <1>2, <1>3 DEF UnlinkKnows
<1>11. Sound(d, c.slot)
  <2>1. Sound(disk, c.slot)
    BY <1>2, <1>9
  <2>2. c.bitmap \in SUBSET Block
    BY <1>2, <1>10, DiskFields
  <2>3. \A s \in FilesOf(disk) \ {c.slot} : \A k \in Place :
          Blk(disk, s, k) # 0 => Blk(disk, s, k) \in disk.bmap /\ Blk(disk, s, k) # NextToFree(c)
    BY <1>2, <1>3, <2>1, FreedApart DEF Sound, Marked
  <2>4. \A s \in FilesOf(disk) \ {c.slot} : \A k \in Place :
          Blk(disk, s, k) # 0 => Blk(disk, s, k) \in c.bitmap
    BY <1>10, <2>3
  <2> QED  BY <1>2, <2>1, <2>2, <2>4, BmapWritten
<1>12. d.root = disk.root /\ d.table = disk.table /\ d.block = disk.block
  BY <1>2, PartWritten
<1> HIDE DEF d
<1>13. FilesOf(d) = FilesOf(disk) /\ \A s : Node(d, s) = Node(disk, s)
  BY <1>12, SameView
<1>14. OwnFile(d, e)
  BY <1>7, <1>10, <1>12, <1>13 DEF OwnFile
<1>15. UnlinkKnows(d, e)
  BY <1>4, <1>7, <1>10, <1>12, <1>13, <1>14 DEF UnlinkKnows
<1>16. Fine(d, After(e))
  BY <1>3, <1>6, <1>7, <1>9, <1>11, <1>15 DEF Fine, Knows
<1> QED  BY <1>8, <1>16, PutStep DEF d

-----------------------------------------------------------------------------
(* The invariant.                                                          *)

Inv == IInv /\ crashes \in 0 .. MaxCrashes

LEMMA InitInv ==
  ASSUME Init
  PROVE  Inv
<1>1. \A s \in Slot : disk.root[s] = None
  BY DEF Init
<1>2. FilesOf(disk) = {}
  BY <1>1 DEF FilesOf
<1>3. disk \in Disk
  <2>1. MFS_ROOT_INODE \in Inode
    BY SizesNat DEF Inode, MFS_ROOT_INODE
  <2>2. \A i \in Inode : NewInode(IF i = MFS_ROOT_INODE THEN i ELSE 0) \in mfs_inode
    BY NewInodeFields
  <2>3. [i \in Inode |-> NewInode(IF i = MFS_ROOT_INODE THEN i ELSE 0)] \in InodeTable
    BY <2>2 DEF InodeTable
  <2>4. [s \in Slot |-> None] \in RootDir /\ [b \in Block |-> Zeros(BlockSize)] \in [Block -> IndexArray \cup DataBlock]
    BY ZeroArrays DEF RootDir
  <2>5. {} \in SUBSET Block /\ {MFS_ROOT_INODE} \in SUBSET Inode
    BY <2>1
  <2> QED  BY <2>3, <2>4, <2>5 DEF Init, Disk
<1>4. Sound(disk, 0)
  BY <1>2, <1>3 DEF Sound, Named, Filled, Separate, Sized, Marked
<1>5. call = [t \in Thread |-> Idle] /\ crashes = 0
  BY DEF Init
<1>6. IInv
  BY <1>4, <1>5, IdleFine DEF IInv
<1>7. 0 \in 0 .. MaxCrashes
  BY MfsAssumption
<1> QED  BY <1>5, <1>6, <1>7 DEF Inv

LEMMA AccessKeeps ==
  ASSUME NEW t, Thread = {t}, IInv, Access(t)
  PROVE  IInv'
<1>1. CASE FindEntry(t)          BY <1>1, FindEntryKeeps
<1>2. CASE ListRoot(t)           BY <1>2, ListRootKeeps
<1>3. CASE ReadRoot(t)           BY <1>3, ReadRootKeeps
<1>4. CASE WriteRoot(t)          BY <1>4, WriteRootKeeps
<1>5. CASE ReadInodeBitmap(t)    BY <1>5, ReadInodeBitmapKeeps
<1>6. CASE WriteInodeBitmap(t)   BY <1>6, WriteInodeBitmapKeeps
<1>7. CASE ReadInode(t)          BY <1>7, ReadInodeKeeps
<1>8. CASE ReadInodeTable(t)     BY <1>8, ReadInodeTableKeeps
<1>9. CASE WriteInodeTable(t)    BY <1>9, WriteInodeTableKeeps
<1>10. CASE ReadIndexBlock(t)    BY <1>10, ReadIndexBlockKeeps
<1>11. CASE WriteEmptyIndex(t)   BY <1>11, WriteEmptyIndexKeeps
<1>12. CASE WriteIndexBlock(t)   BY <1>12, WriteIndexBlockKeeps
<1>13. CASE ReadBlockBitmap(t)   BY <1>13, ReadBlockBitmapKeeps
<1>14. CASE WriteBlockBitmap(t)  BY <1>14, WriteBlockBitmapKeeps
<1>15. CASE ReadBitmapToFree(t)  BY <1>15, ReadBitmapToFreeKeeps
<1>16. CASE WriteBitmapFreed(t)  BY <1>16, WriteBitmapFreedKeeps
<1>17. CASE ReadData(t)          BY <1>17, ReadDataKeeps
<1>18. CASE WriteData(t)         BY <1>18, WriteDataKeeps
<1> QED  BY <1>1, <1>2, <1>3, <1>4, <1>5, <1>6, <1>7, <1>8, <1>9, <1>10, <1>11, <1>12, <1>13, <1>14,
            <1>15, <1>16, <1>17, <1>18 DEF Access

\* Only a crash counts as a crash.
LEMMA AccessCounts ==
  ASSUME NEW t, Enter(t) \/ Access(t)
  PROVE  crashes' = crashes
<1>1. ASSUME NEW c, Get(t, c) PROVE crashes' = crashes
  BY <1>1 DEF Get
<1>2. ASSUME NEW part, NEW contents, NEW c, Put(t, part, contents, c) PROVE crashes' = crashes
  BY <1>2 DEF Put
<1>3. CASE Enter(t)
  BY <1>3 DEF Enter
<1>4. CASE FindEntry(t) \/ ListRoot(t) \/ ReadRoot(t)
  BY <1>1, <1>4 DEF FindEntry, ListRoot, ReadRoot
<1>5. CASE ReadInodeBitmap(t) \/ ReadInode(t) \/ ReadInodeTable(t)
  BY <1>1, <1>5 DEF ReadInodeBitmap, ReadInode, ReadInodeTable
<1>6. CASE ReadIndexBlock(t) \/ ReadBlockBitmap(t)
  BY <1>1, <1>6 DEF ReadIndexBlock, ReadBlockBitmap
<1>7. CASE ReadBitmapToFree(t) \/ ReadData(t)
  BY <1>1, <1>7 DEF ReadBitmapToFree, ReadData
<1>8. CASE WriteRoot(t) \/ WriteInodeBitmap(t) \/ WriteInodeTable(t)
  BY <1>2, <1>8 DEF WriteRoot, WriteInodeBitmap, WriteInodeTable
<1>9. CASE WriteEmptyIndex(t) \/ WriteIndexBlock(t)
  BY <1>2, <1>9 DEF WriteEmptyIndex, WriteIndexBlock
<1>10. CASE WriteBlockBitmap(t) \/ WriteBitmapFreed(t) \/ WriteData(t)
  BY <1>2, <1>10 DEF WriteBlockBitmap, WriteBitmapFreed, WriteData
<1> QED  BY <1>3, <1>4, <1>5, <1>6, <1>7, <1>8, <1>9, <1>10 DEF Access

LEMMA NextInv ==
  ASSUME OneThread, ~ TornUnlink, Inv, [Next]_vars
  PROVE  Inv'
<1>1. PICK t : Thread = {t}
  BY DEF OneThread
<1>2. CASE Enter(t)
  BY <1>1, <1>2, EnterKeeps, AccessCounts DEF Inv
<1>3. CASE Access(t)
  BY <1>1, <1>3, AccessKeeps, AccessCounts DEF Inv
<1>4. CASE Crash
  <2>1. IInv'
    BY <1>1, <1>4, CrashKeeps DEF Inv
  <2>2. crashes \in 0 .. MaxCrashes /\ crashes < MaxCrashes /\ crashes' = crashes + 1
    BY <1>4 DEF Crash, Inv
  <2>3. crashes' \in 0 .. MaxCrashes
    BY <2>2, MfsAssumption
  <2> QED  BY <2>1, <2>3 DEF Inv
<1>5. CASE UNCHANGED vars
  BY <1>5 DEF Inv, IInv, vars
<1> QED  BY <1>1, <1>2, <1>3, <1>4, <1>5 DEF Next

LEMMA Kept ==
  ASSUME OneThread, ~ TornUnlink
  PROVE  Spec => []Inv
<1>1. Init => Inv
  BY InitInv
<1>2. Inv /\ [Next]_vars => Inv'
  BY NextInv
<1> QED  BY <1>1, <1>2, PTL DEF Spec

-----------------------------------------------------------------------------
(* The ledger: what is marked, without a crash.                            *)

\* The blocks of all files but the one in slot x.
FileBlocks(d, x) == {Blk(d, sk[1], sk[2]) : sk \in (FilesOf(d) \ {x}) \X Place} \ {0}

FileInodes(d) == {d.root[s].inode_no : s \in FilesOf(d)} \cup {MFS_ROOT_INODE}

\* The blocks of a file are its first ones, and its inode says how many; the file in slot x may
\* be about to grow.
Counted(d, x) ==
  \A s \in FilesOf(d) \ {x} :
    /\ Node(d, s).block_count <= IndexSize
    /\ \A k \in 1 .. IndexSize : Blk(d, s, k) # 0 <=> k <= Node(d, s).block_count

\* mfs_write has an index block, on the disk or only in its locals.
Midway(c) ==
  /\ c # Idle /\ c.request.op = "write"
  /\ c.at \in {"alloc_get", "alloc_put", "data_get", "data_put", "index_put", "table_get", "table_put"}
  /\ c.inode.index_block # 0

\* unlink still has blocks to free.
FreesBlocks(c) == c # Idle /\ c.request.op = "unlink" /\ c.at \in {"free_get", "free_put"}

OwnBlocks(c) == ({c.inode.index_block} \cup {c.idx_data[k] : k \in 1 .. IndexSize}) \ {0}

PlaceToFree(c, k) == IF k > IndexSize THEN c.inode.index_block ELSE c.idx_data[k]

\* The marked blocks that a handler answers for, whether a file has them or not.
InHand(c) ==
  IF FreesBlocks(c) THEN {PlaceToFree(c, k) : k \in c.to_free}
  ELSE IF c # Idle /\ c.request.op = "write" /\ c.at = "zero_put" THEN {c.data_blk}
  ELSE IF Midway(c) THEN OwnBlocks(c) \cup (IF c.at = "data_put" THEN {c.data_blk} ELSE {})
  ELSE {}

\* The marked inode that no entry names.
HasInode(c) ==
  /\ c # Idle
  /\ \/ c.request.op = "create" /\ c.at \in {"table_get", "table_put", "root_put"}
     \/ c.request.op = "unlink" /\ c.at \in {"table_get", "table_put", "imap_get", "imap_put"}

InodeInHand(c) == IF HasInode(c) THEN {c.inode_no} ELSE {}

\* The file whose index block is ahead of its inode.
Ahead(c) == IF Midway(c) /\ c.at \in {"table_get", "table_put"} THEN c.slot ELSE 0

\* What mfs_write returns without recording is already recorded.
LoopBooks(d, c) ==
  /\ c.inode.block_count <= IndexSize
  /\ \A k \in 1 .. IndexSize : c.idx_data[k] # 0 <=> k <= c.inode.block_count
  /\ c.allocated_index \/ Node(d, c.slot).index_block # 0
  /\ c.bytes = 0 /\ ~ c.allocated_index => \A k \in 1 .. IndexSize : c.idx_data[k] = Blk(d, c.slot, k)

Ledger(d, c) ==
  /\ d.bmap = FileBlocks(d, Torn(c)) \cup InHand(c)
  /\ d.imap = FileInodes(d) \cup InodeInHand(c)
  /\ Counted(d, Ahead(c))
  /\ Midway(c) => LoopBooks(d, c)


\* A handler that answers for nothing: what is marked is what the files have.
Even(d) == d.bmap = FileBlocks(d, 0) /\ d.imap = FileInodes(d) /\ Counted(d, 0)

Calm(c) ==
  \/ c = Idle
  \/ c.at \in {"find", "list", "root_get", "inode_get", "index_get"}
  \/ c.request.op \notin {"create", "unlink", "write"}
  \/ c.request.op = "create" /\ c.at \in {"imap_get", "imap_put"}
  \/ c.request.op = "write" /\ c.at \in {"alloc_get", "alloc_put"} /\ c.inode.index_block = 0

LEMMA CalmIsEven ==
  ASSUME NEW d, NEW c, Calm(c)
  PROVE  Ledger(d, c) <=> Even(d)
<1>1. /\ ~ FreesBlocks(c) /\ ~ Midway(c) /\ ~ HasInode(c) /\ Torn(c) = 0
      /\ ~ (c # Idle /\ c.request.op = "write" /\ c.at = "zero_put")
  BY DEF Calm, FreesBlocks, Midway, HasInode, Torn
<1>2. InHand(c) = {} /\ InodeInHand(c) = {} /\ Ahead(c) = 0
  BY <1>1 DEF InHand, InodeInHand, Ahead
<1> QED  BY <1>1, <1>2 DEF Ledger, Even

\* What a handler answers for, in the fields that say so.
SameBooks(c, e) ==
  /\ Torn(e) = Torn(c) /\ InHand(e) = InHand(c) /\ InodeInHand(e) = InodeInHand(c)
  /\ Ahead(e) = Ahead(c)
  /\ Midway(e) => /\ Midway(c) /\ e.inode = c.inode /\ e.idx_data = c.idx_data
                  /\ e.slot = c.slot /\ e.bytes = c.bytes /\ e.allocated_index = c.allocated_index

LEMMA SameLedger ==
  ASSUME NEW d, NEW c, NEW e, Ledger(d, c), SameBooks(c, e)
  PROVE  Ledger(d, e)
<1>1. Midway(e) => LoopBooks(d, e)
  BY DEF Ledger, SameBooks, LoopBooks
<1> QED  BY <1>1 DEF Ledger, SameBooks

Balanced(t) == Ledger(disk, call[t])

LEMMA GetBalances ==
  ASSUME NEW t, Thread = {t}, IInv, NEW c, Get(t, c), Ledger(disk, After(c))
  PROVE  Balanced(t)'
<1>1. call' = [call EXCEPT ![t] = After(c)] /\ disk' = disk
  BY DEF Get, Goto, After
<1>2. call'[t] = After(c)
  BY <1>1 DEF IInv
<1> QED  BY <1>1, <1>2 DEF Balanced

LEMMA PutBalances ==
  ASSUME NEW t, Thread = {t}, IInv, NEW c, NEW part, NEW contents,
         Put(t, part, contents, c), Ledger([disk EXCEPT ![part] = contents], After(c))
  PROVE  Balanced(t)'
<1>1. call' = [call EXCEPT ![t] = After(c)] /\ disk' = [disk EXCEPT ![part] = contents]
  BY DEF Put, Goto, After
<1>2. call'[t] = After(c)
  BY <1>1 DEF IInv
<1> QED  BY <1>1, <1>2 DEF Balanced

\* From calm to calm, the disk as it was.
LEMMA StaysCalm ==
  ASSUME NEW t, Thread = {t}, IInv, Balanced(t), Calm(call[t]), NEW c, Get(t, c), Calm(After(c))
  PROVE  Balanced(t)'
<1>1. Even(disk)
  BY CalmIsEven DEF Balanced
<1>2. Ledger(disk, After(c))
  BY <1>1, CalmIsEven
<1> QED  BY <1>2, GetBalances

LEMMA ReturnsCalm ==
  ASSUME NEW c, NEW a
  PROVE  After(Return(c, a)) = Idle /\ Calm(After(Return(c, a)))
BY DEF After, Return, Calm

LEMMA BlocksOfFiles ==
  ASSUME NEW d, NEW x
  PROVE  \A b : b \in FileBlocks(d, x) <=>
                  b # 0 /\ \E s \in FilesOf(d) \ {x}, k \in Place : b = Blk(d, s, k)
<1>1. ASSUME NEW b \in FileBlocks(d, x)
      PROVE  b # 0 /\ \E s \in FilesOf(d) \ {x}, k \in Place : b = Blk(d, s, k)
  <2>1. PICK sk \in (FilesOf(d) \ {x}) \X Place : b = Blk(d, sk[1], sk[2]) /\ b # 0
    BY <1>1 DEF FileBlocks
  <2>2. sk[1] \in FilesOf(d) \ {x} /\ sk[2] \in Place
    BY <2>1
  <2> QED  BY <2>1, <2>2
<1>2. ASSUME NEW b, b # 0, NEW s \in FilesOf(d) \ {x}, NEW k \in Place, b = Blk(d, s, k)
      PROVE  b \in FileBlocks(d, x)
  <2>1. <<s, k>> \in (FilesOf(d) \ {x}) \X Place /\ <<s, k>>[1] = s /\ <<s, k>>[2] = k
    BY <1>2
  <2> QED  BY <1>2, <2>1 DEF FileBlocks
<1> QED  BY <1>1, <1>2

\* What the files of a disk have is told by their blocks and their inodes.
LEMMA SameFiles ==
  ASSUME NEW d, NEW e, NEW x, FilesOf(e) = FilesOf(d),
         \A s \in FilesOf(d) \ {x} : Node(e, s) = Node(d, s),
         \A s \in FilesOf(d) \ {x}, k \in Place : Blk(e, s, k) = Blk(d, s, k)
  PROVE  FileBlocks(e, x) = FileBlocks(d, x) /\ (Counted(d, x) => Counted(e, x))
<1>1. FileBlocks(e, x) = FileBlocks(d, x)
  <2>1. ASSUME NEW b PROVE b \in FileBlocks(e, x) <=> b \in FileBlocks(d, x)
    <3>1. b \in FileBlocks(e, x) <=> b # 0 /\ \E s \in FilesOf(e) \ {x}, k \in Place : b = Blk(e, s, k)
      BY BlocksOfFiles
    <3>2. b \in FileBlocks(d, x) <=> b # 0 /\ \E s \in FilesOf(d) \ {x}, k \in Place : b = Blk(d, s, k)
      BY BlocksOfFiles
    <3> QED  BY <3>1, <3>2
  <2> QED  BY <2>1
<1>2. \A k \in 1 .. IndexSize : k \in Place
  BY SizesNat DEF Place
<1>3. Counted(d, x) => Counted(e, x)
  BY <1>2 DEF Counted
<1> QED  BY <1>1, <1>3

LEMMA SameInodes ==
  ASSUME NEW d, NEW e, e.root = d.root
  PROVE  FileInodes(e) = FileInodes(d) /\ FilesOf(e) = FilesOf(d)
BY DEF FileInodes, FilesOf

BlocksOfFile(d, s) == {Blk(d, s, k) : k \in Place} \ {0}

LEMMA OneFileLess ==
  ASSUME NEW d, NEW s \in FilesOf(d)
  PROVE  FileBlocks(d, 0) = FileBlocks(d, s) \cup BlocksOfFile(d, s)
<1>1. \A z \in FilesOf(d) : z # 0
  BY Nonzero DEF FilesOf
<1>2. ASSUME NEW b PROVE b \in FileBlocks(d, 0) <=> b \in FileBlocks(d, s) \/ b \in BlocksOfFile(d, s)
  BY <1>1, BlocksOfFiles DEF BlocksOfFile
<1> QED  BY <1>2

-----------------------------------------------------------------------------
(* The ledger, access by access: reading.                                  *)

LEMMA EnterBalances ==
  ASSUME NEW t, Thread = {t}, IInv, Balanced(t), Enter(t)
  PROVE  Balanced(t)'
<1>1. Calm(call[t])
  BY DEF Enter, At, IInv, Fine, CallType, NextAccess, Calm
<1>2. PICK r \in Request : call' = [call EXCEPT ![t] = Locals(r)]
  BY DEF Enter
<1>3. disk' = disk /\ call'[t] = Locals(r)
  BY <1>2 DEF Enter, IInv
<1>4. Calm(Locals(r))
  BY DEF Locals, Calm
<1> QED  BY <1>1, <1>3, <1>4, CalmIsEven DEF Balanced

LEMMA ListRootBalances ==
  ASSUME NEW t, Thread = {t}, IInv, Balanced(t), ListRoot(t)
  PROVE  Balanced(t)'
<1> DEFINE a == {disk.root[s].name : s \in {z \in Slot : disk.root[z] # None}}
<1>1. At(t, "list") /\ Get(t, Return(call[t], a))
  BY DEF ListRoot
<1>2. Calm(call[t])
  BY <1>1 DEF At, Calm
<1> HIDE DEF a
<1> QED  BY <1>1, <1>2, ReturnsCalm, StaysCalm

LEMMA FindEntryBalances ==
  ASSUME NEW t, Thread = {t}, IInv, Balanced(t), FindEntry(t)
  PROVE  Balanced(t)'
<1> DEFINE c == call[t]
           hits == {s \in Slot : disk.root[s] # None /\ disk.root[s].name = c.request.name}
           s == Min(hits)
           e == [c EXCEPT !.slot = s, !.inode_no = disk.root[s].inode_no,
                          !.at = IF Op(t) = "unlink" THEN "root_get" ELSE "inode_get"]
           f == [c EXCEPT !.at = "root_get"]
<1>1. At(t, "find")
  BY DEF FindEntry
<1>2. c \in CallType /\ Calm(c)
  BY <1>1, Due DEF At, Calm
<1>3. \E a : Get(t, Return(c, a)) \/ Get(t, e) \/ Get(t, f)
  BY DEF FindEntry
<1>4. e.at \in {"root_get", "inode_get"} /\ f.at = "root_get"
  BY <1>2 DEF CallType
<1> HIDE DEF e, f
<1>5. Calm(After(e)) /\ Calm(After(f))
  BY <1>4 DEF After, Calm
<1> QED  BY <1>2, <1>3, <1>5, ReturnsCalm, StaysCalm

LEMMA ReadRootBalances ==
  ASSUME NEW t, Thread = {t}, IInv, Balanced(t), ReadRoot(t)
  PROVE  Balanced(t)'
<1> DEFINE c == [call[t] EXCEPT !.entries = disk.root]
           free == {s \in Slot : disk.root[s] = None}
           e == [c EXCEPT !.slot = Min(free), !.at = "imap_get"]
           f == [c EXCEPT !.inode_no = disk.root[c.slot].inode_no, !.at = "inode_get"]
<1>1. At(t, "root_get")
  BY DEF ReadRoot
<1>2. call[t] \in CallType /\ Calm(call[t])
  BY <1>1, Due DEF At, Calm
<1>3. (\E a : Get(t, Return(c, a))) \/ (Op(t) = "create" /\ Get(t, e)) \/ Get(t, f)
  BY DEF ReadRoot
<1>4. e.at = "imap_get" /\ e.request = call[t].request /\ f.at = "inode_get"
  BY <1>2 DEF CallType
<1> HIDE DEF e, f, c
<1>5. Op(t) = "create" => Calm(After(e))
  BY <1>4 DEF After, Calm, Op
<1>6. Calm(After(f))
  BY <1>4 DEF After, Calm
<1> QED  BY <1>2, <1>3, <1>5, <1>6, ReturnsCalm, StaysCalm

LEMMA ReadInodeBitmapBalances ==
  ASSUME NEW t, Thread = {t}, IInv, Balanced(t), ReadInodeBitmap(t)
  PROVE  Balanced(t)'
<1> DEFINE c == call[t]
           free == Inode \ (disk.imap \cup {MFS_ROOT_INODE})
           i == Min(free)
           e == [c EXCEPT !.bitmap = disk.imap \cup {i}, !.inode_no = i, !.inode = NewInode(i),
                          !.at = "imap_put"]
           f == [c EXCEPT !.bitmap = disk.imap \ {c.inode_no}, !.at = "imap_put"]
<1>1. At(t, "imap_get")
  BY DEF ReadInodeBitmap
<1>2. c \in CallType /\ c.at = "imap_get" /\ c # Idle
  BY <1>1, Due
<1>3. CASE c.request.op = "create"
  <2>1. (\E a : Get(t, Return(c, a))) \/ Get(t, e)
    BY <1>3 DEF ReadInodeBitmap, Op
  <2>2. e.at = "imap_put" /\ e.request = c.request
    BY <1>2 DEF CallType
  <2> HIDE DEF e
  <2>3. Calm(c) /\ Calm(After(e))
    BY <1>2, <1>3, <2>2 DEF Calm, After
  <2> QED  BY <2>1, <2>3, ReturnsCalm, StaysCalm
<1>4. CASE c.request.op = "unlink"
  <2>1. Get(t, f)
    BY <1>4 DEF ReadInodeBitmap, Op
  <2>2. f.at = "imap_put" /\ f.request = c.request /\ f.inode_no = c.inode_no
    BY <1>2 DEF CallType
  <2> HIDE DEF f
  <2>3. f # Idle /\ After(f) = f
    BY <2>2 DEF Idle, After
  <2>4. SameBooks(c, f)
    BY <1>2, <1>4, <2>2, <2>3
    DEF SameBooks, Torn, InHand, InodeInHand, HasInode, Ahead, Midway, FreesBlocks
  <2>5. Ledger(disk, After(f))
    BY <2>3, <2>4, SameLedger DEF Balanced
  <2> QED  BY <2>1, <2>5, GetBalances
<1> QED  BY <1>3, <1>4 DEF ReadInodeBitmap, Op

LEMMA ReadInodeBalances ==
  ASSUME NEW t, Thread = {t}, IInv, Balanced(t), ReadInode(t)
  PROVE  Balanced(t)'
<1> DEFINE c == [call[t] EXCEPT !.inode = disk.table[call[t].inode_no]]
<1>1. At(t, "inode_get")
  BY DEF ReadInode
<1>2. /\ call[t] \in CallType /\ Calm(call[t]) /\ Knows(disk, call[t]) /\ Sound(disk, 0)
      /\ call[t].at = "inode_get" /\ disk \in Disk
  BY <1>1, DueWhole DEF At, Calm
<1>3. /\ c.request = call[t].request /\ c.slot = call[t].slot /\ c.inode_no = call[t].inode_no
      /\ c.inode = disk.table[call[t].inode_no]
      /\ \A a : [c EXCEPT !.at = a].at = a /\ [c EXCEPT !.at = a].request = c.request
             /\ [c EXCEPT !.at = a].inode = c.inode /\ [c EXCEPT !.at = a].slot = c.slot
  BY <1>2 DEF CallType
<1> HIDE DEF c
<1>4. ASSUME NEW a, Get(t, Return(c, a)) PROVE Balanced(t)'
  BY <1>2, <1>4, ReturnsCalm, StaysCalm
<1>5. ASSUME Get(t, [c EXCEPT !.at = "index_get"]) PROVE Balanced(t)'
  <2>1. Calm(After([c EXCEPT !.at = "index_get"]))
    BY <1>3 DEF After, Calm
  <2> QED  BY <1>2, <1>5, <2>1, StaysCalm
<1>6. CASE Op(t) = "getattr" /\ Get(t, GetattrInode(c))
  BY <1>4, <1>6 DEF GetattrInode
<1>7. CASE Op(t) = "read" /\ Get(t, ReadChecks(c))
  BY <1>4, <1>5, <1>7 DEF ReadChecks
<1>8. CASE Op(t) = "write" /\ Get(t, WriteChecks(c))
  <2>1. ASSUME Get(t, [c EXCEPT !.at = "alloc_get"]), ~ Indexed(c), Found(c) PROVE Balanced(t)'
    <3>1. Calm(After([c EXCEPT !.at = "alloc_get"]))
      BY <1>3, <1>8, <2>1 DEF After, Calm, Indexed, Op
    <3> QED  BY <1>2, <2>1, <3>1, StaysCalm
  <2> QED  BY <1>4, <1>5, <1>8, <2>1 DEF WriteChecks
<1>9. CASE Op(t) = "unlink" /\ Get(t, UnlinkInode(c))
  <2> DEFINE e == [c EXCEPT !.at = "root_put"]
  <2>1. ASSUME Get(t, e), ~ Indexed(c) PROVE Balanced(t)'
    <3>1. OwnFile(disk, call[t])
      BY <1>2, <1>9 DEF Knows, UnlinkKnows, Op
    <3>2. c.slot \in FilesOf(disk) /\ c.inode = Node(disk, c.slot) /\ Found(c)
      <4>1. c.slot \in FilesOf(disk) /\ c.inode = Node(disk, c.slot)
        BY <1>3, <3>1 DEF OwnFile, Node
      <4>2. c.inode.inode_no \in Inode
        BY <1>2, <4>1, DiskFields DEF Sound, Named
      <4> QED  BY <4>1, <4>2, Nonzero DEF Found
    <3>3. \A k \in Place : Blk(disk, c.slot, k) = 0
      BY <2>1, <3>2 DEF Indexed, Blk
    <3>4. FileBlocks(disk, c.slot) = FileBlocks(disk, 0)
      <4>1. BlocksOfFile(disk, c.slot) = {}
        BY <3>3 DEF BlocksOfFile
      <4> QED  BY <3>2, <4>1, OneFileLess
    <3>5. Even(disk)
      BY <1>2, CalmIsEven DEF Balanced
    <3>6. e.at = "root_put" /\ e.request.op = "unlink" /\ e.slot = c.slot
      BY <1>3, <1>9 DEF Op
    <3> HIDE DEF e
    <3>7. e # Idle /\ After(e) = e
      BY <3>6 DEF Idle, After
    <3>8. /\ Torn(e) = c.slot /\ InHand(e) = {} /\ InodeInHand(e) = {} /\ Ahead(e) = 0 /\ ~ Midway(e)
      BY <3>6, <3>7 DEF Torn, InHand, InodeInHand, HasInode, Ahead, Midway, FreesBlocks
    <3>9. Ledger(disk, After(e))
      BY <3>4, <3>5, <3>7, <3>8 DEF Ledger, Even
    <3> QED  BY <2>1, <3>9, GetBalances
  <2> QED  BY <1>5, <1>9, <2>1 DEF UnlinkInode
<1> QED  BY <1>6, <1>7, <1>8, <1>9 DEF ReadInode, c

-----------------------------------------------------------------------------
(* The ledger, access by access: entries and inodes.                       *)

LEMMA WriteInodeBitmapBalances ==
  ASSUME NEW t, Thread = {t}, IInv, Balanced(t), WriteInodeBitmap(t)
  PROVE  Balanced(t)'
<1> DEFINE c == call[t]
           d == [disk EXCEPT !["imap"] = c.bitmap]
           e == [c EXCEPT !.at = "table_get"]
<1>1. At(t, "imap_put")
  BY DEF WriteInodeBitmap
<1>2. /\ c \in CallType /\ c.at = "imap_put" /\ Knows(disk, c) /\ Sound(disk, 0) /\ disk \in Disk
      /\ c.request.op \in {"readdir", "create", "unlink", "getattr", "read", "write"} /\ c # Idle
  BY <1>1, Due, DueWhole
<1>3. c.request.op = "create" \/ c.request.op = "unlink"
  BY <1>2 DEF Knows, ReadKnows, WriteKnows
<1>4. /\ d.bmap = disk.bmap /\ d.imap = c.bitmap /\ d.table = disk.table /\ d.root = disk.root
      /\ d.block = disk.block
  BY <1>2, PartWritten
<1> HIDE DEF d
<1>5. /\ FileBlocks(d, 0) = FileBlocks(disk, 0) /\ (Counted(disk, 0) => Counted(d, 0))
      /\ FileInodes(d) = FileInodes(disk)
  BY <1>4, SameView, SameFiles, SameInodes
<1>6. CASE c.request.op = "create"
  <2>1. Put(t, "imap", c.bitmap, e)
    BY <1>6 DEF WriteInodeBitmap, Op
  <2>2. c.bitmap = disk.imap \cup {c.inode_no}
    BY <1>2, <1>6 DEF Knows, CreateKnows
  <2>3. e.at = "table_get" /\ e.request = c.request /\ e.inode_no = c.inode_no
    BY <1>2 DEF CallType
  <2> HIDE DEF e
  <2>4. e # Idle /\ After(e) = e
    BY <2>3 DEF Idle, After
  <2>5. Even(disk)
    BY <1>2, <1>6, CalmIsEven DEF Balanced, Calm
  <2>6. /\ Torn(e) = 0 /\ InHand(e) = {} /\ InodeInHand(e) = {c.inode_no} /\ Ahead(e) = 0 /\ ~ Midway(e)
    BY <1>6, <2>3, <2>4 DEF Torn, InHand, InodeInHand, HasInode, Ahead, Midway, FreesBlocks
  <2>7. Ledger(d, After(e))
    BY <1>4, <1>5, <2>2, <2>4, <2>5, <2>6 DEF Ledger, Even
  <2> QED  BY <2>1, <2>7, PutBalances DEF d
<1>7. CASE c.request.op = "unlink"
  <2>1. Put(t, "imap", c.bitmap, Return(c, "OK"))
    BY <1>7 DEF WriteInodeBitmap, Op
  <2>2. Fresh(disk, c) /\ c.bitmap = disk.imap \ {c.inode_no}
    BY <1>2, <1>7 DEF Knows, UnlinkKnows
  <2>3. c.inode_no \notin FileInodes(disk)
    BY <2>2 DEF Fresh, FileInodes
  <2>4. /\ Torn(c) = 0 /\ InHand(c) = {} /\ InodeInHand(c) = {c.inode_no} /\ Ahead(c) = 0
    BY <1>2, <1>7 DEF Torn, InHand, InodeInHand, HasInode, Ahead, Midway, FreesBlocks
  <2>5. Even(d)
    BY <1>4, <1>5, <2>2, <2>3, <2>4 DEF Balanced, Ledger, Even
  <2>6. Ledger(d, After(Return(c, "OK")))
    BY <2>5, ReturnsCalm, CalmIsEven
  <2> QED  BY <2>1, <2>6, PutBalances DEF d
<1> QED  BY <1>3, <1>6, <1>7

LEMMA ReadInodeTableBalances ==
  ASSUME NEW t, Thread = {t}, IInv, Balanced(t), ReadInodeTable(t)
  PROVE  Balanced(t)'
<1> DEFINE c == call[t]
           e == [c EXCEPT !.table = [disk.table EXCEPT ![c.inode.inode_no] = c.inode],
                          !.at = "table_put"]
<1>1. At(t, "table_get") /\ Get(t, e)
  BY DEF ReadInodeTable
<1>2. c \in CallType /\ c.at = "table_get" /\ c # Idle
  BY <1>1, Due
<1>3. /\ e.at = "table_put" /\ e.request = c.request /\ e.slot = c.slot /\ e.inode_no = c.inode_no
      /\ e.inode = c.inode /\ e.idx_data = c.idx_data /\ e.bytes = c.bytes
      /\ e.allocated_index = c.allocated_index
  BY <1>2 DEF CallType
<1> HIDE DEF e
<1>4. e # Idle /\ After(e) = e
  BY <1>3 DEF Idle, After
<1>5. /\ Torn(e) = 0 /\ Torn(c) = 0 /\ ~ FreesBlocks(e) /\ ~ FreesBlocks(c)
      /\ HasInode(e) = HasInode(c) /\ Midway(e) = Midway(c)
  BY <1>2, <1>3, <1>4 DEF Torn, HasInode, Midway, FreesBlocks
<1>6. OwnBlocks(e) = OwnBlocks(c)
  BY <1>3 DEF OwnBlocks
<1>7. InHand(e) = InHand(c) /\ InodeInHand(e) = InodeInHand(c) /\ Ahead(e) = Ahead(c)
  BY <1>2, <1>3, <1>5, <1>6 DEF InHand, InodeInHand, Ahead
<1>8. Ledger(disk, After(e))
  BY <1>3, <1>4, <1>5, <1>7, SameLedger DEF SameBooks, Balanced
<1> QED  BY <1>1, <1>8, GetBalances

\* The blocks that mfs_write has include those that its file has.
LEMMA OwnBlocksCover ==
  ASSUME NEW d, NEW c, Writing(d, c), c.inode.index_block # 0
  PROVE  /\ BlocksOfFile(d, c.slot) \subseteq OwnBlocks(c)
         /\ FileBlocks(d, 0) \cup OwnBlocks(c) = FileBlocks(d, c.slot) \cup OwnBlocks(c)
<1>1. ASSUME NEW k \in Place, Blk(d, c.slot, k) # 0 PROVE Blk(d, c.slot, k) \in OwnBlocks(c)
  <2>1. CASE k = 0
    BY <1>1, <2>1 DEF Writing, Blk, OwnBlocks
  <2>2. CASE k \in 1 .. IndexSize
    BY <1>1, <2>2 DEF Writing, OwnBlocks
  <2> QED  BY <2>1, <2>2, SizesNat DEF Place
<1>2. BlocksOfFile(d, c.slot) \subseteq OwnBlocks(c)
  BY <1>1 DEF BlocksOfFile
<1>3. c.slot \in FilesOf(d)
  BY DEF Writing, OwnFile
<1> QED  BY <1>2, <1>3, OneFileLess

LEMMA WriteInodeTableBalances ==
  ASSUME NEW t, Thread = {t}, IInv, Balanced(t), WriteInodeTable(t)
  PROVE  Balanced(t)'
<1> DEFINE c == call[t]
           d == [disk EXCEPT !["table"] = c.table]
           e == [c EXCEPT !.at = "root_put"]
           f == [c EXCEPT !.at = "imap_get"]
<1>1. At(t, "table_put")
  BY DEF WriteInodeTable
<1>2. /\ c \in CallType /\ c.at = "table_put" /\ Knows(disk, c) /\ Sound(disk, 0) /\ disk \in Disk
      /\ c.request.op \in {"readdir", "create", "unlink", "getattr", "read", "write"} /\ c # Idle
  BY <1>1, Due, DueWhole
<1>3. c.inode \in mfs_inode
  BY <1>2, CallFields
<1>4. /\ d.bmap = disk.bmap /\ d.imap = disk.imap /\ d.table = c.table /\ d.root = disk.root
      /\ d.block = disk.block
  BY <1>2, PartWritten
<1> HIDE DEF d
<1>5. FilesOf(d) = FilesOf(disk) /\ FileInodes(d) = FileInodes(disk)
  BY <1>4, SameInodes
<1>6. ASSUME Fresh(disk, c), c.table = [disk.table EXCEPT ![c.inode_no] = c.inode]
      PROVE  FileBlocks(d, 0) = FileBlocks(disk, 0) /\ (Counted(disk, 0) => Counted(d, 0))
  <2>1. ASSUME NEW s \in FilesOf(disk) PROVE Node(d, s) = Node(disk, s)
    <3>1. disk.root[s].inode_no # c.inode_no /\ disk.root[s].inode_no \in Inode
      BY <1>2, <1>6, DiskFields DEF Fresh
    <3>2. c.table[disk.root[s].inode_no] = disk.table[disk.root[s].inode_no]
      BY <1>2, <1>6, <3>1, DiskFields
    <3> QED  BY <1>4, <3>2 DEF Node
  <2>2. \A s \in FilesOf(disk), k \in Place : Blk(d, s, k) = Blk(disk, s, k)
    BY <1>4, <2>1 DEF Blk
  <2> QED  BY <1>5, <2>1, <2>2, SameFiles
<1>7. ASSUME c.request.op \in {"create", "unlink"}
      PROVE  /\ FileBlocks(d, 0) = FileBlocks(disk, 0) /\ (Counted(disk, 0) => Counted(d, 0))
             /\ Torn(c) = 0 /\ InHand(c) = {} /\ InodeInHand(c) = {c.inode_no} /\ Ahead(c) = 0
  <2>1. Fresh(disk, c) /\ c.table = [disk.table EXCEPT ![c.inode_no] = c.inode]
    BY <1>2, <1>7, TableOps DEF CreateKnows, UnlinkKnows
  <2>2. Torn(c) = 0 /\ InHand(c) = {} /\ InodeInHand(c) = {c.inode_no} /\ Ahead(c) = 0
    BY <1>2, <1>7 DEF Torn, InHand, InodeInHand, HasInode, Ahead, Midway, FreesBlocks
  <2> QED  BY <1>6, <2>1, <2>2
<1>8. CASE c.request.op = "create"
  <2>1. Put(t, "table", c.table, e)
    BY <1>8 DEF WriteInodeTable, Op
  <2>2. e.at = "root_put" /\ e.request = c.request /\ e.inode_no = c.inode_no
    BY <1>2 DEF CallType
  <2> HIDE DEF e
  <2>3. e # Idle /\ After(e) = e
    BY <2>2 DEF Idle, After
  <2>4. /\ Torn(e) = 0 /\ InHand(e) = {} /\ InodeInHand(e) = {c.inode_no} /\ Ahead(e) = 0 /\ ~ Midway(e)
    BY <1>8, <2>2, <2>3 DEF Torn, InHand, InodeInHand, HasInode, Ahead, Midway, FreesBlocks
  <2>5. Ledger(d, After(e))
    BY <1>4, <1>5, <1>7, <1>8, <2>3, <2>4 DEF Ledger, Balanced
  <2> QED  BY <2>1, <2>5, PutBalances DEF d
<1>9. CASE c.request.op = "unlink"
  <2>1. Put(t, "table", c.table, f)
    BY <1>9 DEF WriteInodeTable, Op
  <2>2. f.at = "imap_get" /\ f.request = c.request /\ f.inode_no = c.inode_no
    BY <1>2 DEF CallType
  <2> HIDE DEF f
  <2>3. f # Idle /\ After(f) = f
    BY <2>2 DEF Idle, After
  <2>4. /\ Torn(f) = 0 /\ InHand(f) = {} /\ InodeInHand(f) = {c.inode_no} /\ Ahead(f) = 0 /\ ~ Midway(f)
    BY <1>9, <2>2, <2>3 DEF Torn, InHand, InodeInHand, HasInode, Ahead, Midway, FreesBlocks
  <2>5. Ledger(d, After(f))
    BY <1>4, <1>5, <1>7, <1>9, <2>3, <2>4 DEF Ledger, Balanced
  <2> QED  BY <2>1, <2>5, PutBalances DEF d
<1>10. CASE c.request.op = "write"
  <2> DEFINE a == IF c.bytes > 0 THEN c.bytes ELSE c.rc
  <2>1. Put(t, "table", c.table, Return(c, a))
    BY <1>10 DEF WriteInodeTable, Op
  <2>2. WriteKnows(disk, c)
    BY <1>2, <1>10 DEF Knows
  <2>3. /\ Writing(disk, c) /\ disk.block[c.inode.index_block] = c.idx_data
        /\ c.table = [disk.table EXCEPT ![c.inode_no] = c.inode] /\ c.inode.index_block # 0
    BY <1>2, <2>2 DEF WriteKnows
  <2>4. /\ Node(d, c.slot) = c.inode
        /\ \A s \in FilesOf(disk) : s # c.slot => Node(d, s) = Node(disk, s)
        /\ \A s \in FilesOf(disk), k \in Place : s # c.slot => Blk(d, s, k) = Blk(disk, s, k)
        /\ Blk(d, c.slot, 0) = c.inode.index_block
        /\ \A k \in Place \ {0} : Blk(d, c.slot, k) = c.idx_data[k]
    BY <1>2, <1>3, <1>4, <2>3, RecordedView, SMTT(60)
  <2>5. /\ Midway(c) /\ Torn(c) = 0 /\ InHand(c) = OwnBlocks(c) /\ InodeInHand(c) = {}
        /\ Ahead(c) = c.slot
    BY <1>2, <1>10, <2>3 DEF Torn, InHand, InodeInHand, HasInode, Ahead, Midway, FreesBlocks
  <2>6. /\ disk.bmap = FileBlocks(disk, 0) \cup OwnBlocks(c) /\ disk.imap = FileInodes(disk)
        /\ Counted(disk, c.slot) /\ LoopBooks(disk, c)
    BY <2>5 DEF Balanced, Ledger
  <2>7. c.slot \in FilesOf(disk)
    BY <2>3 DEF Writing, OwnFile
  <2>8. FileBlocks(d, c.slot) = FileBlocks(disk, c.slot) /\ Counted(d, c.slot)
    BY <1>5, <2>4, <2>6, SameFiles
  <2>9. BlocksOfFile(d, c.slot) = OwnBlocks(c)
    <3>1. Place = {0} \cup (1 .. IndexSize) /\ 1 .. IndexSize = Place \ {0}
      BY SizesNat DEF Place
    <3> HIDE DEF c, d
    <3>2. ASSUME NEW b PROVE b \in BlocksOfFile(d, c.slot) <=> b \in OwnBlocks(c)
      BY <2>4, <3>1 DEF BlocksOfFile, OwnBlocks
    <3> QED  BY <3>2
  <2>10. d.bmap = FileBlocks(d, 0)
    <3>1. FileBlocks(d, 0) = FileBlocks(d, c.slot) \cup BlocksOfFile(d, c.slot)
      BY <1>5, <2>7, OneFileLess
    <3>2. disk.bmap = FileBlocks(disk, c.slot) \cup OwnBlocks(c)
      BY <2>3, <2>6, OwnBlocksCover
    <3> QED  BY <1>4, <2>8, <2>9, <3>1, <3>2
  <2>11. Counted(d, 0)
    <3>1. /\ Node(d, c.slot).block_count <= IndexSize
          /\ \A k \in 1 .. IndexSize : Blk(d, c.slot, k) # 0 <=> k <= Node(d, c.slot).block_count
      <4>1. \A k \in 1 .. IndexSize : k \in Place \ {0}
        BY SizesNat DEF Place
      <4> QED  BY <2>4, <2>6, <4>1 DEF LoopBooks
    <3> QED  BY <2>8, <3>1 DEF Counted
  <2>12. Even(d)
    BY <1>4, <1>5, <2>6, <2>10, <2>11 DEF Even
  <2> HIDE DEF a
  <2>13. Ledger(d, After(Return(c, a)))
    BY <2>12, ReturnsCalm, CalmIsEven
  <2> QED  BY <2>1, <2>13, PutBalances DEF d
<1> QED  BY <1>2, <1>8, <1>9, <1>10, TableOps

LEMMA WriteRootBalances ==
  ASSUME NEW t, Thread = {t}, IInv, Balanced(t), WriteRoot(t)
  PROVE  Balanced(t)'
<1> DEFINE c == call[t]
           new == [name |-> c.request.name, inode_no |-> c.inode_no]
           m == [c.entries EXCEPT ![c.slot] = IF Op(t) = "create" THEN new ELSE None]
           d == [disk EXCEPT !["root"] = m]
           f == [c EXCEPT !.inode = NewInode(c.inode_no), !.at = "table_get"]
<1>1. At(t, "root_put")
  BY DEF WriteRoot
<1>2. /\ c \in CallType /\ c.at = "root_put" /\ Knows(disk, c) /\ c # Idle
      /\ Sound(disk, Torn(c)) /\ disk \in Disk /\ c.request \in Request
      /\ c.request.op \in {"readdir", "create", "unlink", "getattr", "read", "write"}
  BY <1>1, Due
<1>3. c.request.op = "create" \/ c.request.op = "unlink"
  BY <1>2 DEF Knows, ReadKnows, WriteKnows
<1>4. d.bmap = disk.bmap /\ d.imap = disk.imap /\ d.table = disk.table /\ d.root = m /\ d.block = disk.block
  BY <1>2, PartWritten
<1> HIDE DEF d
<1>5. CASE c.request.op = "create"
  <2>1. Put(t, "root", m, Return(c, "OK"))
    BY <1>5 DEF WriteRoot, Op
  <2>2. CreateKnows(disk, c)
    BY <1>2, <1>5 DEF Knows
  <2>3. /\ c.entries = disk.root /\ c.slot \in Slot /\ disk.root[c.slot] = None /\ Fresh(disk, c)
        /\ disk.table[c.inode_no] = c.inode
    BY <1>2, <2>2 DEF CreateKnows
  <2>4. new.inode_no = c.inode_no /\ new # None
    BY <1>2, <1>5, <2>3, RequestFields, MfsAssumption DEF Fresh
  <2>5. m = [disk.root EXCEPT ![c.slot] = new]
    BY <1>5, <2>3 DEF Op
  <2> HIDE DEF new
  <2>6. m[c.slot] = new /\ \A s \in Slot : s # c.slot => m[s] = disk.root[s]
    BY <1>2, <2>3, <2>5, DiskFields
  <2> HIDE DEF m, c
  <2>7. FilesOf(d) = FilesOf(disk) \cup {c.slot} /\ c.slot \notin FilesOf(disk)
    BY <1>4, <2>3, <2>4, <2>6 DEF FilesOf
  <2>8. ASSUME NEW s \in FilesOf(disk) PROVE d.root[s] = disk.root[s] /\ Node(d, s) = Node(disk, s)
    BY <1>4, <2>6, <2>7 DEF FilesOf, Node
  <2>9. \A s \in FilesOf(disk), k \in Place : Blk(d, s, k) = Blk(disk, s, k)
    BY <1>4, <2>8 DEF Blk
  <2>10. Node(d, c.slot) = NewInode(c.inode_no) /\ d.root[c.slot].inode_no = c.inode_no
    BY <1>4, <2>3, <2>4, <2>6 DEF Node, Fresh
  <2>11. Node(d, c.slot).index_block = 0 /\ Node(d, c.slot).block_count = 0
    BY <2>3, <2>10, NewInodeFields DEF Fresh
  <2>12. \A k : Blk(d, c.slot, k) = 0
    BY <2>11 DEF Blk
  <2>13. FileBlocks(d, 0) = FileBlocks(disk, 0)
    <3>1. ASSUME NEW b PROVE b \in FileBlocks(d, 0) <=> b \in FileBlocks(disk, 0)
      <4>1. b \in FileBlocks(d, 0) <=> b # 0 /\ \E s \in FilesOf(d) \ {0}, k \in Place : b = Blk(d, s, k)
        BY BlocksOfFiles
      <4>2. b \in FileBlocks(disk, 0) <=> b # 0 /\ \E s \in FilesOf(disk) \ {0}, k \in Place : b = Blk(disk, s, k)
        BY BlocksOfFiles
      <4> QED  BY <2>7, <2>9, <2>12, <4>1, <4>2
    <3> QED  BY <3>1
  <2>14. FileInodes(d) = FileInodes(disk) \cup {c.inode_no}
    BY <2>7, <2>8, <2>10 DEF FileInodes
  <2>15. /\ Torn(c) = 0 /\ InHand(c) = {} /\ InodeInHand(c) = {c.inode_no} /\ Ahead(c) = 0
    BY <1>2, <1>5 DEF Torn, InHand, InodeInHand, HasInode, Ahead, Midway, FreesBlocks, c
  <2>16. /\ disk.bmap = FileBlocks(disk, 0) /\ disk.imap = FileInodes(disk) \cup {c.inode_no}
         /\ Counted(disk, 0)
    BY <2>15 DEF Balanced, Ledger, c
  <2>17. Counted(d, 0)
    <3>1. \A k \in 1 .. IndexSize : k \in Place /\ ~ (k <= 0)
      BY SizesNat DEF Place
    <3>2. /\ Node(d, c.slot).block_count <= IndexSize
          /\ \A k \in 1 .. IndexSize : Blk(d, c.slot, k) # 0 <=> k <= Node(d, c.slot).block_count
      BY <2>11, <2>12, <3>1, SizesNat
    <3>3. \A s \in FilesOf(disk) : s # 0
      BY Nonzero DEF FilesOf
    <3> QED  BY <2>7, <2>8, <2>9, <2>16, <3>1, <3>2, <3>3 DEF Counted
  <2>18. Even(d)
    BY <1>4, <2>13, <2>14, <2>16, <2>17 DEF Even
  <2>19. Ledger(d, After(Return(c, "OK")))
    BY <2>18, ReturnsCalm, CalmIsEven
  <2> QED  BY <2>1, <2>19, PutBalances DEF d, c
<1>6. CASE c.request.op = "unlink"
  <2>1. Put(t, "root", m, f)
    BY <1>6 DEF WriteRoot, Op
  <2>2. UnlinkKnows(disk, c) /\ Torn(c) = c.slot
    BY <1>2, <1>6 DEF Knows, Torn
  <2>3. c.entries = disk.root /\ c.slot \in FilesOf(disk) /\ c.inode_no = disk.root[c.slot].inode_no
    BY <1>2, <2>2 DEF UnlinkKnows, OwnFile
  <2>4. c.slot \in Slot /\ m = [disk.root EXCEPT ![c.slot] = None]
    BY <1>6, <2>3 DEF Op, FilesOf
  <2>5. m[c.slot] = None /\ \A s \in Slot : s # c.slot => m[s] = disk.root[s]
    BY <1>2, <2>4, DiskFields
  <2>6. f.at = "table_get" /\ f.request = c.request /\ f.inode_no = c.inode_no
    BY <1>2 DEF CallType
  <2>7. /\ InHand(c) = {} /\ InodeInHand(c) = {} /\ Ahead(c) = 0
    BY <1>2, <1>6 DEF InHand, InodeInHand, HasInode, Ahead, Midway, FreesBlocks
  <2>8. /\ disk.bmap = FileBlocks(disk, c.slot) /\ disk.imap = FileInodes(disk) /\ Counted(disk, 0)
    BY <2>2, <2>7 DEF Balanced, Ledger
  <2> HIDE DEF m, f, c
  <2>9. FilesOf(d) = FilesOf(disk) \ {c.slot}
    BY <1>4, <2>4, <2>5 DEF FilesOf
  <2>10. \A s \in FilesOf(d) : d.root[s] = disk.root[s] /\ Node(d, s) = Node(disk, s)
    BY <1>4, <2>5, <2>9 DEF FilesOf, Node
  <2>11. \A s \in FilesOf(d), k \in Place : Blk(d, s, k) = Blk(disk, s, k)
    BY <1>4, <2>10 DEF Blk
  <2>12. FileBlocks(d, 0) = FileBlocks(disk, c.slot)
    <3>1. \A s \in FilesOf(disk) : s # 0
      BY Nonzero DEF FilesOf
    <3>2. ASSUME NEW b PROVE b \in FileBlocks(d, 0) <=> b \in FileBlocks(disk, c.slot)
      <4>1. b \in FileBlocks(d, 0) <=> b # 0 /\ \E s \in FilesOf(d) \ {0}, k \in Place : b = Blk(d, s, k)
        BY BlocksOfFiles
      <4>2. b \in FileBlocks(disk, c.slot) <=>
              b # 0 /\ \E s \in FilesOf(disk) \ {c.slot}, k \in Place : b = Blk(disk, s, k)
        BY BlocksOfFiles
      <4> QED  BY <2>9, <2>11, <3>1, <4>1, <4>2
    <3> QED  BY <3>2
  <2>13. FileInodes(disk) = FileInodes(d) \cup {c.inode_no}
    BY <2>3, <2>9, <2>10 DEF FileInodes
  <2>14. Counted(d, 0)
    <3>1. \A k \in 1 .. IndexSize : k \in Place
      BY SizesNat DEF Place
    <3> QED  BY <2>8, <2>9, <2>10, <2>11, <3>1 DEF Counted
  <2>15. f # Idle /\ After(f) = f
    BY <2>6 DEF Idle, After
  <2>16. /\ Torn(f) = 0 /\ InHand(f) = {} /\ InodeInHand(f) = {c.inode_no} /\ Ahead(f) = 0 /\ ~ Midway(f)
    BY <1>6, <2>6, <2>15 DEF Torn, InHand, InodeInHand, HasInode, Ahead, Midway, FreesBlocks
  <2>17. Ledger(d, After(f))
    BY <1>4, <2>8, <2>12, <2>13, <2>14, <2>15, <2>16 DEF Ledger
  <2> QED  BY <2>1, <2>17, PutBalances DEF d
<1> QED  BY <1>3, <1>5, <1>6

-----------------------------------------------------------------------------
(* The ledger, access by access: blocks.                                   *)

LEMMA ReadBitmapToFreeBalances ==
  ASSUME NEW t, Thread = {t}, IInv, Balanced(t), ReadBitmapToFree(t)
  PROVE  Balanced(t)'
<1> DEFINE c == call[t]
           m == disk.bmap \ {NextToFree(c)}
           e == [c EXCEPT !.bitmap = m, !.at = "free_put"]
<1>1. At(t, "free_get") /\ Get(t, e)
  BY DEF ReadBitmapToFree
<1>2. /\ c \in CallType /\ c.at = "free_get" /\ Knows(disk, c) /\ c # Idle
      /\ c.request.op \in {"readdir", "create", "unlink", "getattr", "read", "write"}
  BY <1>1, Due
<1>3. c.request.op = "unlink"
  BY <1>2 DEF Knows, CreateKnows, ReadKnows, WriteKnows
<1>4. /\ e.at = "free_put" /\ e.request = c.request /\ e.slot = c.slot /\ e.inode = c.inode
      /\ e.idx_data = c.idx_data /\ e.to_free = c.to_free
  BY <1>2 DEF CallType
<1> HIDE DEF e
<1>5. e # Idle /\ After(e) = e
  BY <1>4 DEF Idle, After
<1>6. FreesBlocks(c) /\ FreesBlocks(e) /\ ~ Midway(e) /\ ~ Midway(c) /\ ~ HasInode(c) /\ ~ HasInode(e)
      /\ Torn(e) = Torn(c)
  BY <1>2, <1>3, <1>4, <1>5 DEF FreesBlocks, Midway, HasInode, Torn
<1>7. InHand(e) = InHand(c)
  BY <1>4, <1>6 DEF InHand, PlaceToFree
<1>8. SameBooks(c, e)
  BY <1>6, <1>7 DEF SameBooks, InodeInHand, Ahead
<1>9. Ledger(disk, After(e))
  BY <1>5, <1>8, SameLedger DEF Balanced
<1> QED  BY <1>1, <1>9, GetBalances

\* The places of a file hold blocks of their own.
LEMMA PlacesToFree ==
  ASSUME NEW d, NEW c \in CallType, Sound(d, c.slot), UnlinkKnows(d, c),
         c.at \in {"free_get", "free_put"}
  PROVE  /\ \A k, l \in c.to_free : PlaceToFree(c, k) = PlaceToFree(c, l) => k = l
         /\ Min(c.to_free) \in c.to_free /\ NextToFree(c) = PlaceToFree(c, Min(c.to_free))
<1> DEFINE p(k) == IF k > IndexSize THEN 0 ELSE k
<1>1. /\ c.slot \in FilesOf(d) /\ c.inode = Node(d, c.slot) /\ c.inode.index_block # 0
      /\ c.idx_data = d.block[c.inode.index_block] /\ c.to_free # {}
      /\ \A k \in c.to_free : k <= IndexSize => c.idx_data[k] # 0
  BY DEF UnlinkKnows, OwnFile
<1>2. c.to_free \in SUBSET (1 .. IndexSize + 1)
  BY CallFields
<1>3. Min(c.to_free) \in c.to_free
  <2>1. c.to_free \in SUBSET Nat
    BY <1>2, SizesNat
  <2> QED  BY <1>1, <2>1, MinIn
<1>4. ASSUME NEW k \in c.to_free
      PROVE  p(k) \in Place /\ PlaceToFree(c, k) = Blk(d, c.slot, p(k)) /\ Blk(d, c.slot, p(k)) # 0
  <2>1. k \in 1 .. IndexSize + 1
    BY <1>2
  <2>2. p(k) \in Place /\ (k > IndexSize => p(k) = 0) /\ (~ (k > IndexSize) => p(k) = k /\ k # 0 /\ k <= IndexSize)
    BY <2>1, SizesNat DEF Place
  <2> HIDE DEF p
  <2> QED  BY <1>1, <2>2 DEF PlaceToFree, Blk
<1>5. ASSUME NEW k \in c.to_free, NEW l \in c.to_free, PlaceToFree(c, k) = PlaceToFree(c, l)
      PROVE  k = l
  <2>1. p(k) = p(l)
    <3> HIDE DEF p
    <3> QED  BY <1>1, <1>4, <1>5 DEF Sound, Separate
  <2>2. k \in 1 .. IndexSize + 1 /\ l \in 1 .. IndexSize + 1
    BY <1>2
  <2> QED  BY <2>1, <2>2, SizesNat
<1> QED  BY <1>3, <1>5 DEF NextToFree, PlaceToFree

LEMMA WriteBitmapFreedBalances ==
  ASSUME NEW t, Thread = {t}, IInv, Balanced(t), WriteBitmapFreed(t)
  PROVE  Balanced(t)'
<1> DEFINE c == call[t]
           d == [disk EXCEPT !["bmap"] = c.bitmap]
           T == c.to_free \ {Min(c.to_free)}
           b == [c EXCEPT !.to_free = T]
           a == IF T = {} THEN "root_put" ELSE "free_get"
           e == [c EXCEPT !.to_free = T, !.at = a]
           x == NextToFree(c)
<1>1. At(t, "free_put") /\ Put(t, "bmap", c.bitmap, FreeLoop(b))
  BY DEF WriteBitmapFreed
<1>2. /\ c \in CallType /\ c.at = "free_put" /\ Knows(disk, c) /\ c # Idle
      /\ Sound(disk, Torn(c)) /\ disk \in Disk
      /\ c.request.op \in {"readdir", "create", "unlink", "getattr", "read", "write"}
  BY <1>1, Due
<1>3. c.request.op = "unlink" /\ UnlinkKnows(disk, c)
  BY <1>2 DEF Knows, CreateKnows, ReadKnows, WriteKnows
<1>4. Torn(c) = c.slot /\ FreesBlocks(c) /\ InodeInHand(c) = {} /\ Ahead(c) = 0
  BY <1>2, <1>3 DEF Torn, FreesBlocks, InodeInHand, HasInode, Ahead, Midway
<1>5. Sound(disk, c.slot) /\ c.bitmap = disk.bmap \ {x}
  BY <1>2, <1>3, <1>4 DEF UnlinkKnows
<1>6. x \notin FileBlocks(disk, c.slot)
  <2>1. \A s \in FilesOf(disk) \ {c.slot} : \A k \in Place : Blk(disk, s, k) # 0 => Blk(disk, s, k) # x
    BY <1>2, <1>3, <1>5, FreedApart
  <2> HIDE DEF x
  <2> QED  BY <2>1, BlocksOfFiles
<1>7. {PlaceToFree(c, k) : k \in c.to_free} \ {x} = {PlaceToFree(c, k) : k \in T}
  <2>1. /\ \A k, l \in c.to_free : PlaceToFree(c, k) = PlaceToFree(c, l) => k = l
        /\ Min(c.to_free) \in c.to_free /\ x = PlaceToFree(c, Min(c.to_free))
    BY <1>2, <1>3, <1>5, PlacesToFree
  <2> HIDE DEF c, x
  <2> QED  BY <2>1
<1>8. disk.bmap = FileBlocks(disk, c.slot) \cup {PlaceToFree(c, k) : k \in c.to_free}
      /\ disk.imap = FileInodes(disk) /\ Counted(disk, 0)
  BY <1>4 DEF Balanced, Ledger, InHand
<1>9. c.bitmap = FileBlocks(disk, c.slot) \cup {PlaceToFree(c, k) : k \in T}
  BY <1>5, <1>6, <1>7, <1>8
<1> HIDE DEF T, x
<1>10. FreeLoop(b) = e
  BY <1>2 DEF FreeLoop, CallType
<1>11. Put(t, "bmap", c.bitmap, e)
  BY <1>1, <1>10
<1>12. /\ e.at = a /\ e.request = c.request /\ e.slot = c.slot /\ e.inode = c.inode
       /\ e.idx_data = c.idx_data /\ e.to_free = T
  BY <1>2 DEF CallType
<1>13. /\ d.bmap = c.bitmap /\ d.imap = disk.imap /\ d.table = disk.table /\ d.root = disk.root
       /\ d.block = disk.block
  BY <1>2, PartWritten
<1> HIDE DEF b, d, e
<1>14. e # Idle /\ After(e) = e
  BY <1>12 DEF Idle, After
<1>15. /\ FileBlocks(d, c.slot) = FileBlocks(disk, c.slot) /\ Counted(d, 0)
       /\ FileInodes(d) = FileInodes(disk)
  BY <1>8, <1>13, SameView, SameFiles, SameInodes
<1>16. Torn(e) = c.slot /\ InodeInHand(e) = {} /\ Ahead(e) = 0 /\ ~ Midway(e)
  BY <1>3, <1>12, <1>14 DEF Torn, InodeInHand, HasInode, Ahead, Midway
<1>17. InHand(e) = {PlaceToFree(c, k) : k \in T}
  <2>1. CASE T = {}
    BY <1>3, <1>12, <1>14, <2>1 DEF InHand, FreesBlocks, Midway
  <2>2. CASE T # {}
    BY <1>3, <1>12, <1>14, <2>2 DEF InHand, FreesBlocks, PlaceToFree
  <2> QED  BY <2>1, <2>2
<1>18. Ledger(d, After(e))
  BY <1>8, <1>9, <1>13, <1>14, <1>15, <1>16, <1>17 DEF Ledger
<1> QED  BY <1>11, <1>18, PutBalances DEF d

LEMMA WriteBlockBitmapBalances ==
  ASSUME NEW t, Thread = {t}, IInv, Balanced(t), WriteBlockBitmap(t)
  PROVE  Balanced(t)'
<1> DEFINE c == call[t]
           b == c.data_blk
           d == [disk EXCEPT !["bmap"] = c.bitmap]
           a == IF c.inode.index_block = 0 THEN "zero_put" ELSE "data_put"
           e == [c EXCEPT !.at = a]
<1>1. At(t, "alloc_put") /\ Put(t, "bmap", c.bitmap, e)
  BY DEF WriteBlockBitmap
<1>2. /\ c \in CallType /\ c.at = "alloc_put" /\ Knows(disk, c) /\ disk \in Disk /\ c # Idle
      /\ c.request.op \in {"readdir", "create", "unlink", "getattr", "read", "write"}
  BY <1>1, Due
<1>3. c.request.op = "write" /\ c.bitmap = disk.bmap \cup {b}
  BY <1>2 DEF Knows, CreateKnows, UnlinkKnows, ReadKnows, WriteKnows
<1>4. /\ d.bmap = c.bitmap /\ d.imap = disk.imap /\ d.table = disk.table /\ d.root = disk.root
      /\ d.block = disk.block
  BY <1>2, PartWritten
<1>5. /\ e.at = a /\ e.request = c.request /\ e.slot = c.slot /\ e.inode = c.inode
      /\ e.idx_data = c.idx_data /\ e.data_blk = b /\ e.bytes = c.bytes
      /\ e.allocated_index = c.allocated_index
  BY <1>2 DEF CallType
<1> HIDE DEF d, e
<1>6. /\ FileBlocks(d, 0) = FileBlocks(disk, 0) /\ (Counted(disk, 0) => Counted(d, 0))
      /\ FileInodes(d) = FileInodes(disk) /\ \A s : Node(d, s) = Node(disk, s)
      /\ \A s, k : Blk(d, s, k) = Blk(disk, s, k)
  BY <1>4, SameView, SameFiles, SameInodes
<1>7. e # Idle /\ After(e) = e
  BY <1>5 DEF Idle, After
<1>8. Torn(e) = 0 /\ InodeInHand(e) = {} /\ Ahead(e) = 0 /\ ~ FreesBlocks(e)
  BY <1>3, <1>5, <1>7 DEF Torn, InodeInHand, HasInode, Ahead, FreesBlocks
<1>9. CASE c.inode.index_block = 0
  <2>1. Even(disk)
    BY <1>2, <1>3, <1>9, CalmIsEven DEF Calm, Balanced
  <2>2. InHand(e) = {b} /\ ~ Midway(e)
    BY <1>3, <1>5, <1>7, <1>8, <1>9 DEF InHand, Midway
  <2>3. Ledger(d, e)
    BY <1>3, <1>4, <1>6, <1>8, <2>1, <2>2 DEF Ledger, Even
  <2> QED  BY <1>1, <1>7, <2>3, PutBalances DEF d
<1>10. CASE c.inode.index_block # 0
  <2>1. Midway(c) /\ Midway(e)
    BY <1>2, <1>3, <1>5, <1>7, <1>10 DEF Midway
  <2>2. OwnBlocks(e) = OwnBlocks(c)
    BY <1>5 DEF OwnBlocks
  <2>3. InHand(e) = OwnBlocks(c) \cup {b}
    BY <1>5, <1>8, <1>10, <2>1, <2>2 DEF InHand
  <2>4. Torn(c) = 0 /\ InodeInHand(c) = {} /\ Ahead(c) = 0 /\ InHand(c) = OwnBlocks(c)
    BY <1>2, <1>3, <2>1 DEF Torn, InodeInHand, HasInode, Ahead, FreesBlocks, InHand
  <2>5. /\ disk.bmap = FileBlocks(disk, 0) \cup OwnBlocks(c) /\ disk.imap = FileInodes(disk)
        /\ Counted(disk, 0) /\ LoopBooks(disk, c)
    BY <2>1, <2>4 DEF Balanced, Ledger
  <2>6. LoopBooks(d, e)
    BY <1>5, <1>6, <2>5 DEF LoopBooks
  <2>7. Ledger(d, e)
    BY <1>3, <1>4, <1>6, <1>8, <2>3, <2>5, <2>6 DEF Ledger
  <2> QED  BY <1>1, <1>7, <2>7, PutBalances DEF d
<1> QED  BY <1>9, <1>10

-----------------------------------------------------------------------------
(* The ledger, access by access: mfs_write.                                *)

\* At the head of the loop, all that is marked is in a file or in the locals.
Books(d, c) ==
  /\ d.bmap = FileBlocks(d, 0) \cup OwnBlocks(c) /\ d.imap = FileInodes(d)
  /\ Counted(d, 0) /\ LoopBooks(d, c)

LEMMA MidwayBooks ==
  ASSUME NEW d, NEW c, c.request.op = "write", c.inode.index_block # 0,
         c.at \in {"alloc_get", "alloc_put", "data_get", "index_put"}
  PROVE  After(c) = c /\ (Ledger(d, c) <=> Books(d, c))
<1>1. c # Idle /\ After(c) = c
  BY DEF Idle, After
<1>2. Midway(c) /\ ~ FreesBlocks(c) /\ ~ HasInode(c) /\ Torn(c) = 0
  BY <1>1 DEF Midway, FreesBlocks, HasInode, Torn
<1>3. InHand(c) = OwnBlocks(c) /\ InodeInHand(c) = {} /\ Ahead(c) = 0
  BY <1>2 DEF InHand, InodeInHand, Ahead
<1> QED  BY <1>1, <1>2, <1>3 DEF Ledger, Books

LEMMA BooksStand ==
  ASSUME NEW d, NEW c, NEW e, Books(d, c),
         e.inode.index_block = c.inode.index_block, e.inode.block_count = c.inode.block_count,
         e.idx_data = c.idx_data, e.slot = c.slot, e.bytes = c.bytes,
         e.allocated_index = c.allocated_index
  PROVE  Books(d, e)
<1>1. OwnBlocks(e) = OwnBlocks(c)
  BY DEF OwnBlocks
<1>2. LoopBooks(d, e)
  BY DEF Books, LoopBooks
<1> QED  BY <1>1, <1>2 DEF Books

\* A file that is on the disk as it is in the locals has no block but its own.
LEMMA OwnBlocksOnDisk ==
  ASSUME NEW d, NEW c, c.slot \in FilesOf(d), c.inode.index_block = Node(d, c.slot).index_block,
         c.inode.index_block # 0, \A k \in 1 .. IndexSize : c.idx_data[k] = Blk(d, c.slot, k)
  PROVE  OwnBlocks(c) = BlocksOfFile(d, c.slot) /\ FileBlocks(d, 0) \cup OwnBlocks(c) = FileBlocks(d, 0)
<1>1. Place = {0} \cup (1 .. IndexSize) /\ Blk(d, c.slot, 0) = c.inode.index_block
  BY SizesNat DEF Place, Blk
<1>2. ASSUME NEW b PROVE b \in OwnBlocks(c) <=> b \in BlocksOfFile(d, c.slot)
  BY <1>1 DEF OwnBlocks, BlocksOfFile
<1> QED  BY <1>2, OneFileLess

LEMMA FinishBalances ==
  ASSUME NEW d, NEW c, AtLoop(d, c), Books(d, c)
  PROVE  Ledger(d, After(Finish(c)))
<1> DEFINE e == [c EXCEPT !.at = "index_put", !.inode.size = @ + c.bytes]
<1>1. c \in CallType /\ c.inode \in mfs_inode /\ c.inode.size \in Nat /\ c.bytes \in Nat
  BY CallFields, NodeFields DEF AtLoop
<1>2. CASE Finish(c) = Return(c, c.rc) /\ ~ (c.bytes > 0 \/ c.allocated_index)
  <2>1. c.bytes = 0 /\ ~ c.allocated_index
    BY <1>1, <1>2
  <2>2. /\ Node(d, c.slot).index_block # 0
        /\ \A k \in 1 .. IndexSize : c.idx_data[k] = Blk(d, c.slot, k)
    BY <2>1 DEF Books, LoopBooks
  <2>3. c.slot \in FilesOf(d) /\ Node(d, c.slot).index_block = c.inode.index_block
    BY <2>2 DEF AtLoop, Writing, OwnFile
  <2>4. FileBlocks(d, 0) \cup OwnBlocks(c) = FileBlocks(d, 0)
    BY <2>2, <2>3, OwnBlocksOnDisk
  <2>5. Even(d)
    BY <2>4 DEF Even, Books
  <2> QED  BY <1>2, <2>5, ReturnsCalm, CalmIsEven
<1>3. CASE Finish(c) = e
  <2>1. /\ e.at = "index_put" /\ e.request = c.request /\ e.slot = c.slot /\ e.idx_data = c.idx_data
        /\ e.bytes = c.bytes /\ e.allocated_index = c.allocated_index
        /\ e.inode.index_block = c.inode.index_block /\ e.inode.block_count = c.inode.block_count
    BY <1>1 DEF CallType, mfs_inode
  <2> HIDE DEF e
  <2>2. Books(d, e)
    BY <2>1, BooksStand
  <2> QED  BY <1>3, <2>1, <2>2, MidwayBooks DEF AtLoop
<1> QED  BY <1>2, <1>3 DEF Finish

LEMMA FinishBalancesWith ==
  ASSUME NEW d, NEW c, AtLoop(d, c), Books(d, c), NEW a \in {"ENOSPC", "EFBIG"}
  PROVE  Ledger(d, After(Finish([c EXCEPT !.rc = a])))
<1> DEFINE e == [c EXCEPT !.rc = a]
<1>1. e \in CallType
  BY DEF AtLoop, CallType
<1>2. SameWork(c, e) /\ e.allocated_index = c.allocated_index
  BY DEF AtLoop, CallType, SameWork
<1> HIDE DEF e
<1>3. AtLoop(d, e)
  BY <1>1, <1>2, WorkGoesOn DEF AtLoop, SameWork
<1>4. Books(d, e)
  BY <1>2, BooksStand DEF SameWork
<1>5. Ledger(d, After(Finish(e)))
  BY <1>3, <1>4, FinishBalances
<1> QED  BY <1>5 DEF e

LEMMA WriteLoopBalances ==
  ASSUME NEW d, NEW c, AtLoop(d, c), Books(d, c)
  PROVE  Ledger(d, After(WriteLoop(c)))
<1> DEFINE b == c.idx_data[BlockIdx(c) + 1]
           new == (b = 0)
           a == IF b = 0 THEN "alloc_get" ELSE "data_get"
           e == [c EXCEPT !.data_blk = b, !.newly_allocated = new, !.at = a]
<1>1. CASE WriteLoop(c) = Finish(c)
  BY <1>1, FinishBalances
<1>2. CASE WriteLoop(c) = Finish([c EXCEPT !.rc = "EFBIG"])
  BY <1>2, FinishBalancesWith
<1>3. CASE WriteLoop(c) = e
  <2>1. c \in CallType /\ c.request.op = "write" /\ c.inode.index_block # 0
    BY DEF AtLoop
  <2>2. a \in {"alloc_get", "data_get"}
    OBVIOUS
  <2> HIDE DEF a, b, new
  <2>3. /\ e.at = a /\ e.request = c.request /\ e.slot = c.slot /\ e.idx_data = c.idx_data
        /\ e.bytes = c.bytes /\ e.allocated_index = c.allocated_index /\ e.inode = c.inode
    BY <2>1 DEF CallType
  <2> HIDE DEF e
  <2>4. Books(d, e)
    BY <2>3, BooksStand
  <2> QED  BY <1>3, <2>1, <2>2, <2>3, <2>4, MidwayBooks
<1> QED  BY <1>1, <1>2, <1>3 DEF WriteLoop

LEMMA ReadIndexBlockBalances ==
  ASSUME NEW t, Thread = {t}, IInv, Balanced(t), ReadIndexBlock(t)
  PROVE  Balanced(t)'
<1> DEFINE c == IndexRead(disk, call[t])
           mapped == {k \in 1 .. IndexSize : k <= c.inode.block_count /\ c.idx_data[k] # 0}
<1>1. At(t, "index_get")
  BY DEF ReadIndexBlock
<1>2. call[t] \in CallType /\ call[t].at = "index_get"
  BY <1>1, DueWhole
<1>3. /\ c \in CallType /\ c.at = "index_get" /\ c.request = call[t].request
      /\ OwnFile(disk, c) /\ c.inode = Node(disk, c.slot) /\ c.inode.index_block # 0
      /\ \A k \in 1 .. IndexSize : Blk(disk, c.slot, k) = c.idx_data[k]
      /\ c.request.op = "write" => AtLoop(disk, c)
  BY <1>1, IndexIsRead
<1>4. \/ Op(t) = "write" /\ Get(t, WriteLoop(c))
      \/ Op(t) = "read" /\ Get(t, [c EXCEPT !.at = "data_get"])
      \/ Op(t) = "unlink" /\ Get(t, FreeLoop([c EXCEPT !.to_free = mapped \cup {IndexSize + 1}]))
  BY <1>2 DEF ReadIndexBlock, IndexRead, CallType
<1> HIDE DEF c
<1>5. Calm(call[t]) /\ Even(disk)
  BY <1>2, CalmIsEven DEF Calm, Balanced
<1>6. c.slot \in FilesOf(disk) /\ c.slot # 0 /\ c.slot \in FilesOf(disk) \ {0}
  BY <1>3, Nonzero DEF OwnFile, FilesOf
<1>7. /\ c.inode.block_count <= IndexSize
      /\ \A k \in 1 .. IndexSize : c.idx_data[k] # 0 <=> k <= c.inode.block_count
  BY <1>3, <1>5, <1>6 DEF Even, Counted
<1>8. OwnBlocks(c) = BlocksOfFile(disk, c.slot) /\ FileBlocks(disk, 0) \cup OwnBlocks(c) = FileBlocks(disk, 0)
  BY <1>3, <1>6, OwnBlocksOnDisk
<1>9. CASE Op(t) = "write" /\ Get(t, WriteLoop(c))
  <2>1. Books(disk, c)
    BY <1>3, <1>5, <1>7, <1>8 DEF Books, LoopBooks, Even
  <2>2. Ledger(disk, After(WriteLoop(c)))
    BY <1>3, <1>9, <2>1, WriteLoopBalances DEF Op
  <2> QED  BY <1>9, <2>2, GetBalances
<1>10. CASE Op(t) = "read" /\ Get(t, [c EXCEPT !.at = "data_get"])
  <2> DEFINE e == [c EXCEPT !.at = "data_get"]
  <2>1. e.at = "data_get" /\ e.request.op = "read"
    BY <1>3, <1>10 DEF CallType, Op
  <2> HIDE DEF e
  <2>2. Calm(After(e))
    BY <2>1 DEF After, Calm
  <2> QED  BY <1>5, <1>10, <2>2, StaysCalm DEF e
<1>11. CASE Op(t) = "unlink" /\ Get(t, FreeLoop([c EXCEPT !.to_free = mapped \cup {IndexSize + 1}]))
  <2> DEFINE T == mapped \cup {IndexSize + 1}
             b == [c EXCEPT !.to_free = T]
             e == [c EXCEPT !.to_free = T, !.at = "free_get"]
  <2>1. {PlaceToFree(c, k) : k \in T} = OwnBlocks(c)
    <3>1. mapped = {k \in 1 .. IndexSize : c.idx_data[k] # 0}
      BY <1>7
    <3>2. /\ \A k \in 1 .. IndexSize : PlaceToFree(c, k) = c.idx_data[k]
          /\ PlaceToFree(c, IndexSize + 1) = c.inode.index_block
      BY SizesNat DEF PlaceToFree
    <3> HIDE DEF mapped
    <3>3. ASSUME NEW x PROVE x \in {PlaceToFree(c, k) : k \in T} <=> x \in OwnBlocks(c)
      BY <1>3, <3>1, <3>2 DEF OwnBlocks
    <3> QED  BY <3>3
  <2>2. T # {}
    OBVIOUS
  <2> HIDE DEF T, mapped
  <2>3. FreeLoop(b) = e
    BY <1>3, <2>2 DEF FreeLoop, CallType
  <2>4. /\ e.at = "free_get" /\ e.request = c.request /\ e.slot = c.slot
        /\ e.inode = c.inode /\ e.idx_data = c.idx_data /\ e.to_free = T /\ e.request.op = "unlink"
    BY <1>3, <1>11 DEF CallType, Op
  <2>5. Get(t, e)
    BY <1>11, <2>3 DEF T
  <2> HIDE DEF e
  <2>6. e # Idle /\ After(e) = e
    BY <2>4 DEF Idle, After
  <2>7. Torn(e) = c.slot /\ InodeInHand(e) = {} /\ Ahead(e) = 0 /\ ~ Midway(e) /\ FreesBlocks(e)
    BY <2>4, <2>6 DEF Torn, InodeInHand, HasInode, Ahead, Midway, FreesBlocks
  <2>8. InHand(e) = {PlaceToFree(c, k) : k \in T}
    BY <2>4, <2>7 DEF InHand, PlaceToFree
  <2>9. disk.bmap = FileBlocks(disk, c.slot) \cup InHand(e)
    BY <1>5, <1>6, <1>8, <2>1, <2>8, OneFileLess DEF Even
  <2>10. Ledger(disk, After(e))
    BY <1>5, <2>6, <2>7, <2>9 DEF Ledger, Even
  <2> QED  BY <2>5, <2>10, GetBalances
<1> QED  BY <1>4, <1>9, <1>10, <1>11 DEF c

LEMMA ReadBlockBitmapBalances ==
  ASSUME NEW t, Thread = {t}, IInv, Balanced(t), ReadBlockBitmap(t)
  PROVE  Balanced(t)'
<1> DEFINE c == call[t]
           free == Block \ disk.bmap
           b == Min(free)
           e == [c EXCEPT !.bitmap = disk.bmap \cup {b}, !.data_blk = b, !.at = "alloc_put"]
<1>1. At(t, "alloc_get")
  BY DEF ReadBlockBitmap
<1>2. /\ c \in CallType /\ c.at = "alloc_get" /\ Knows(disk, c)
      /\ c.request.op \in {"readdir", "create", "unlink", "getattr", "read", "write"}
  BY <1>1, DueWhole
<1>3. c.request.op = "write" /\ WriteKnows(disk, c)
  BY <1>2 DEF Knows, CreateKnows, UnlinkKnows, ReadKnows
<1>4. \/ Get(t, e)
      \/ c.inode.index_block = 0 /\ Get(t, Return(c, "ENOSPC"))
      \/ c.inode.index_block # 0 /\ Get(t, Finish([c EXCEPT !.rc = "ENOSPC"]))
  BY DEF ReadBlockBitmap
<1>5. /\ e.at = "alloc_put" /\ e.request = c.request /\ e.slot = c.slot /\ e.inode = c.inode
      /\ e.idx_data = c.idx_data /\ e.bytes = c.bytes /\ e.allocated_index = c.allocated_index
  BY <1>2 DEF CallType
<1> HIDE DEF e
<1>6. CASE c.inode.index_block = 0
  <2>1. Calm(c)
    BY <1>2, <1>3, <1>6 DEF Calm
  <2>2. Calm(After(e))
    BY <1>3, <1>5, <1>6 DEF Calm, After
  <2> QED  BY <1>4, <1>6, <2>1, <2>2, ReturnsCalm, StaysCalm
<1>7. CASE c.inode.index_block # 0
  <2>1. Books(disk, c)
    BY <1>2, <1>3, <1>7, MidwayBooks DEF Balanced
  <2>2. Ledger(disk, After(e))
    <3>1. Books(disk, e)
      BY <1>5, <2>1, BooksStand
    <3> QED  BY <1>3, <1>5, <1>7, <3>1, MidwayBooks
  <2>3. AtLoop(disk, c)
    BY <1>2, <1>3, <1>7 DEF AtLoop, WriteKnows
  <2>4. Ledger(disk, After(Finish([c EXCEPT !.rc = "ENOSPC"])))
    BY <2>1, <2>3, FinishBalancesWith
  <2> QED  BY <1>4, <1>7, <2>2, <2>4, GetBalances
<1> QED  BY <1>6, <1>7

LEMMA ReadDataBalances ==
  ASSUME NEW t, Thread = {t}, IInv, Balanced(t), ReadData(t)
  PROVE  Balanced(t)'
<1> DEFINE c == call[t]
<1>1. At(t, "data_get")
  BY DEF ReadData
<1>2. /\ c \in CallType /\ c.at = "data_get" /\ Knows(disk, c)
      /\ c.request.op \in {"readdir", "create", "unlink", "getattr", "read", "write"}
  BY <1>1, DueWhole
<1>3. CASE c.request.op = "write"
  <2> DEFINE b == c.data_blk
             blk == IF b = 0 THEN Zeros(BlockSize) ELSE disk.block[b]
             e == [c EXCEPT !.blk_buf = blk, !.at = "data_put"]
  <2>1. Get(t, e)
    BY <1>3 DEF ReadData, Op
  <2>2. WriteKnows(disk, c)
    BY <1>2, <1>3 DEF Knows
  <2>3. /\ c.inode.index_block # 0 /\ Writing(disk, c) /\ BlockIdx(c) < IndexSize
        /\ ~ c.newly_allocated /\ b = c.idx_data[BlockIdx(c) + 1]
        /\ c.newly_allocated = (c.idx_data[BlockIdx(c) + 1] = 0)
    BY <1>2, <2>2 DEF WriteKnows
  <2>4. BlockIdx(c) + 1 \in 1 .. IndexSize
    BY <1>2, <1>3, <2>3, PositionNat, SizesNat
  <2>5. b \in OwnBlocks(c)
    BY <2>3, <2>4 DEF OwnBlocks
  <2>6. Books(disk, c)
    BY <1>2, <1>3, <2>3, MidwayBooks DEF Balanced
  <2> HIDE DEF blk
  <2>7. /\ e.at = "data_put" /\ e.request = c.request /\ e.slot = c.slot /\ e.inode = c.inode
        /\ e.idx_data = c.idx_data /\ e.bytes = c.bytes /\ e.allocated_index = c.allocated_index
        /\ e.data_blk = b
    BY <1>2 DEF CallType
  <2> HIDE DEF e
  <2>8. Books(disk, e) /\ OwnBlocks(e) = OwnBlocks(c)
    BY <2>6, <2>7, BooksStand DEF OwnBlocks
  <2>9. e # Idle /\ After(e) = e
    BY <2>7 DEF Idle, After
  <2>10. /\ Midway(e) /\ Torn(e) = 0 /\ InodeInHand(e) = {} /\ Ahead(e) = 0
         /\ InHand(e) = OwnBlocks(e) \cup {b}
    BY <1>3, <2>3, <2>7, <2>9 DEF Midway, Torn, InodeInHand, HasInode, Ahead, InHand, FreesBlocks
  <2>11. Ledger(disk, After(e))
    BY <2>5, <2>8, <2>9, <2>10 DEF Ledger, Books
  <2> QED  BY <2>1, <2>11, GetBalances
<1>4. CASE c.request.op = "read"
  <2> DEFINE b == c.idx_data[BlockIdx(c) + 1]
             blk == IF b = 0 THEN Zeros(BlockSize) ELSE disk.block[b]
             n == Min({BlockSize - BlockOff(c), ToReadTotal(c) - c.bytes})
             e == [c EXCEPT !.out = @ \o SubSeq(blk, BlockOff(c) + 1, BlockOff(c) + n), !.bytes = @ + n]
  <2>1. Get(t, IF e.bytes < ToReadTotal(e) THEN e ELSE Return(e, e.out))
    BY <1>4 DEF ReadData, Op
  <2>2. e.request = c.request
    BY <1>2 DEF CallType
  <2> HIDE DEF e
  <2>3. Calm(c) /\ Calm(After(e))
    BY <1>4, <2>2 DEF Calm, After
  <2> QED  BY <2>1, <2>3, ReturnsCalm, StaysCalm
<1> QED  BY <1>3, <1>4 DEF ReadData, Op

\* A block that holds what no file maps changes no file.
LEMMA SameBlocks ==
  ASSUME NEW d, NEW e, SameDisk(d, e)
  PROVE  /\ FileBlocks(e, 0) = FileBlocks(d, 0) /\ FileInodes(e) = FileInodes(d)
         /\ Counted(d, 0) => Counted(e, 0)
BY SameFiles, SameInodes DEF SameDisk

LEMMA WriteEmptyIndexBalances ==
  ASSUME NEW t, Thread = {t}, IInv, Balanced(t), WriteEmptyIndex(t)
  PROVE  Balanced(t)'
<1> DEFINE c == call[t]
           d == WithIndex(disk, c)
           e == IndexMade(c)
<1>1. /\ Put(t, "block", [disk.block EXCEPT ![c.data_blk] = Zeros(IndexSize)], WriteLoop(e))
      /\ SameDisk(disk, d) /\ AtLoop(d, e)
  BY EmptyIndexWritten
<1>2. At(t, "zero_put")
  BY DEF WriteEmptyIndex
<1>3. /\ c \in CallType /\ c.at = "zero_put" /\ Knows(disk, c) /\ c # Idle
      /\ c.request.op \in {"readdir", "create", "unlink", "getattr", "read", "write"}
  BY <1>2, Due
<1>4. c.request.op = "write" /\ WriteKnows(disk, c)
  BY <1>3 DEF Knows, CreateKnows, UnlinkKnows, ReadKnows
<1>5. OwnFile(disk, c) /\ c.inode = Node(disk, c.slot) /\ c.inode.index_block = 0
  BY <1>3, <1>4 DEF WriteKnows
<1>6. c.slot \in FilesOf(disk) \ {0} /\ c.inode \in mfs_inode /\ c.inode.block_count \in Nat
  BY <1>3, <1>5, Nonzero, CallFields, NodeFields DEF OwnFile, FilesOf
<1>7. /\ Torn(c) = 0 /\ InHand(c) = {c.data_blk} /\ InodeInHand(c) = {} /\ Ahead(c) = 0
  BY <1>3, <1>4 DEF Torn, InHand, InodeInHand, HasInode, Ahead, Midway, FreesBlocks
<1>8. /\ disk.bmap = FileBlocks(disk, 0) \cup {c.data_blk} /\ disk.imap = FileInodes(disk)
      /\ Counted(disk, 0)
  BY <1>7 DEF Balanced, Ledger
<1>9. /\ e.inode.index_block = c.data_blk /\ e.inode.block_count = c.inode.block_count
      /\ e.idx_data = Zeros(IndexSize) /\ e.allocated_index = TRUE
  BY <1>3, <1>6 DEF IndexMade, CallType, mfs_inode
<1>10. \A k \in 1 .. IndexSize : e.idx_data[k] = 0 /\ ~ (k <= e.inode.block_count)
  <2>1. \A k \in 1 .. IndexSize : k # 0 /\ Blk(disk, c.slot, k) = 0
    BY <1>5 DEF Blk
  <2>2. \A k \in 1 .. IndexSize : ~ (k <= c.inode.block_count)
    BY <1>5, <1>6, <1>8, <2>1 DEF Counted
  <2> QED  BY <1>9, <2>2 DEF Zeros
<1>11. c.data_blk # 0
  BY <1>1, <1>9 DEF AtLoop
<1> HIDE DEF c, d, e
<1>12. OwnBlocks(e) = {c.data_blk}
  BY <1>9, <1>10, <1>11 DEF OwnBlocks
<1>13. e.inode.block_count <= IndexSize
  <2>1. 1 \in 1 .. IndexSize
    BY SizesNat
  <2> QED  BY <1>6, <1>9, <1>10, <2>1, SizesNat
<1>14. Books(d, e)
  <2>1. LoopBooks(d, e)
    BY <1>9, <1>10, <1>13 DEF LoopBooks
  <2> QED  BY <1>1, <1>8, <1>12, <2>1, SameBlocks DEF Books, SameDisk
<1>15. Ledger(d, After(WriteLoop(e)))
  BY <1>1, <1>14, WriteLoopBalances
<1> QED  BY <1>1, <1>15, PutBalances DEF c, d, WithIndex, WithBlock

LEMMA PieceFields ==
  ASSUME NEW c \in CallType, c.idx_data \in IndexArray, BlockIdx(c) + 1 \in 1 .. IndexSize,
         c.data_blk \in Block, NEW e, e = PieceCounted(c)
  PROVE  /\ e.slot = c.slot /\ e.allocated_index = c.allocated_index
         /\ e.bytes = c.bytes + PieceLength(c) /\ e.inode.index_block = c.inode.index_block
         /\ c.newly_allocated =>
              /\ e.idx_data = [c.idx_data EXCEPT ![BlockIdx(c) + 1] = c.data_blk]
              /\ e.inode.block_count = c.inode.block_count + 1
         /\ ~ c.newly_allocated =>
              e.idx_data = c.idx_data /\ e.inode.block_count = c.inode.block_count
<1> DEFINE f == BlockEntered(c)
           m == PieceLength(c)
           q == BlockIdx(c) + 1
<1>1. e = [f EXCEPT !.bytes = @ + m]
  BY DEF PieceCounted
<1>2. c.inode \in mfs_inode
  BY CallFields
<1> HIDE DEF m
<1>3. CASE c.newly_allocated
  <2> DEFINE idx == [c.idx_data EXCEPT ![q] = c.data_blk]
             i == [c.inode EXCEPT !.block_count = @ + 1]
  <2>1. f = [c EXCEPT !.idx_data[q] = c.data_blk, !.inode.block_count = @ + 1]
    BY <1>3 DEF BlockEntered
  <2>2. i.index_block = c.inode.index_block /\ i.block_count = c.inode.block_count + 1
    BY <1>2 DEF mfs_inode
  <2> HIDE DEF q, f
  <2>3. e = [c EXCEPT !.idx_data = idx, !.inode = i, !.bytes = c.bytes + m]
    BY <1>1, <2>1 DEF CallType
  <2> HIDE DEF idx, i
  <2>4. /\ e.slot = c.slot /\ e.allocated_index = c.allocated_index
        /\ e.bytes = c.bytes + m /\ e.inode = i /\ e.idx_data = idx
    BY <2>3 DEF CallType
  <2> QED  BY <1>3, <2>2, <2>4 DEF idx, m, q
<1>4. CASE ~ c.newly_allocated
  <2>1. f = c
    BY <1>4 DEF BlockEntered
  <2> HIDE DEF f
  <2>2. /\ e.slot = c.slot /\ e.allocated_index = c.allocated_index
        /\ e.bytes = c.bytes + m /\ e.inode = c.inode /\ e.idx_data = c.idx_data
    BY <1>1, <2>1 DEF CallType
  <2> QED  BY <1>4, <2>2 DEF m
<1> QED  BY <1>3, <1>4

\* The block that mfs_write allocates for data is the next of its file.
LEMMA NextBlock ==
  ASSUME NEW idx, NEW count \in Nat, \A k \in 1 .. IndexSize : idx[k] # 0 <=> k <= count,
         NEW p \in Nat, p < IndexSize, NEW off \in Nat, idx[p + 1] = 0,
         Mapped(IndexSize, idx, p * BlockSize + off)
  PROVE  p = count
<1>1. p + 1 \in 1 .. IndexSize
  BY SizesNat
<1>2. ~ (p + 1 <= count)
  BY <1>1
<1>3. CASE p > 0
  <2>1. p \in 1 .. IndexSize
    BY <1>3, SizesNat
  <2>2. (p - 1) * BlockSize < p * BlockSize
    BY <1>3, SizesNat, SMT
  <2>3. (p - 1) * BlockSize \in Int /\ p * BlockSize \in Int
    BY SizesNat
  <2>4. (p - 1) * BlockSize < p * BlockSize + off
    BY <2>2, <2>3
  <2>5. idx[p] # 0
    BY <2>1, <2>4 DEF Mapped
  <2> QED  BY <1>2, <2>1, <2>5
<1> QED  BY <1>2, <1>3

LEMMA WriteDataBalances ==
  ASSUME NEW t, Thread = {t}, IInv, Balanced(t), WriteData(t)
  PROVE  Balanced(t)'
<1> DEFINE c == call[t]
           b == c.data_blk
           q == BlockIdx(c) + 1
           d == WithPiece(disk, c)
           e == PieceCounted(c)
<1>1. /\ Put(t, "block", [disk.block EXCEPT ![b] = PieceWritten(c)], WriteLoop(e))
      /\ SameDisk(disk, d) /\ AtLoop(d, e)
  BY PieceIsWritten
<1>2. At(t, "data_put")
  BY DEF WriteData
<1>3. /\ c \in CallType /\ c.at = "data_put" /\ Knows(disk, c) /\ c # Idle /\ disk \in Disk
      /\ c.request.op \in {"readdir", "create", "unlink", "getattr", "read", "write"}
  BY <1>2, Due
<1>4. c.request.op = "write" /\ WriteKnows(disk, c)
  BY <1>3 DEF Knows, CreateKnows, UnlinkKnows, ReadKnows
<1>5. /\ c.inode.index_block # 0 /\ Writing(disk, c) /\ c.bytes < Len(c.request.buf)
      /\ BlockIdx(c) < IndexSize /\ b \in disk.bmap
      /\ c.newly_allocated = (c.idx_data[q] = 0)
      /\ ~ c.newly_allocated => b = c.idx_data[q]
  BY <1>3, <1>4 DEF WriteKnows
<1>6. /\ c.bytes \in Nat /\ c.newly_allocated \in BOOLEAN /\ Len(c.request.buf) \in Nat
      /\ c.inode.block_count \in Nat /\ b \in Block /\ b # 0 /\ c.idx_data \in IndexArray
  BY <1>3, <1>4, <1>5, CallFields, RequestFields, NodeFields, DiskFields, Nonzero DEF Writing
<1>7. /\ BlockOff(c) \in Nat /\ BlockOff(c) < BlockSize /\ BlockIdx(c) \in Nat /\ q \in 1 .. IndexSize
      /\ Position(c) = BlockIdx(c) * BlockSize + BlockOff(c)
  BY <1>3, <1>4, <1>5, PositionNat, SizesNat
<1>8. PieceLength(c) \in Nat /\ PieceLength(c) > 0
  <2>1. /\ BlockOff(c) \in Nat /\ BlockSize \in Nat /\ BlockOff(c) < BlockSize /\ c.bytes \in Nat
        /\ Len(c.request.buf) \in Int /\ c.bytes < Len(c.request.buf)
    BY <1>5, <1>6, <1>7, SizesNat
  <2> HIDE DEF c
  <2>2. /\ Min({BlockSize - BlockOff(c), Len(c.request.buf) - c.bytes}) \in Nat
        /\ Min({BlockSize - BlockOff(c), Len(c.request.buf) - c.bytes}) > 0
    BY <2>1, Chunk
  <2> QED  BY <2>2 DEF PieceLength
<1>9. /\ e.slot = c.slot /\ e.allocated_index = c.allocated_index
      /\ e.bytes = c.bytes + PieceLength(c) /\ e.inode.index_block = c.inode.index_block
      /\ c.newly_allocated => /\ e.idx_data = [c.idx_data EXCEPT ![q] = b]
                              /\ e.inode.block_count = c.inode.block_count + 1
      /\ ~ c.newly_allocated => e.idx_data = c.idx_data /\ e.inode.block_count = c.inode.block_count
  <2> HIDE DEF c
  <2> QED  BY <1>3, <1>6, <1>7, PieceFields
<1>10. /\ Midway(c) /\ Torn(c) = 0 /\ InHand(c) = OwnBlocks(c) \cup {b} /\ InodeInHand(c) = {}
       /\ Ahead(c) = 0
  BY <1>3, <1>4, <1>5 DEF Midway, Torn, InHand, InodeInHand, HasInode, Ahead, FreesBlocks
<1>11. /\ disk.bmap = FileBlocks(disk, 0) \cup OwnBlocks(c) \cup {b} /\ disk.imap = FileInodes(disk)
       /\ Counted(disk, 0) /\ LoopBooks(disk, c)
  BY <1>10 DEF Balanced, Ledger
<1> HIDE DEF c, d, e, b
<1>12. e.bytes # 0
  BY <1>6, <1>8, <1>9
<1>13. CASE c.newly_allocated
  <2>1. /\ e.idx_data[q] = b /\ e.idx_data \in IndexArray
        /\ \A k \in 1 .. IndexSize : k # q => e.idx_data[k] = c.idx_data[k]
    BY <1>6, <1>7, <1>9, <1>13 DEF IndexArray
  <2>2. c.idx_data[q] = 0
    BY <1>5, <1>13
  <2>3. BlockIdx(c) = c.inode.block_count
    <3>1. /\ \A k \in 1 .. IndexSize : c.idx_data[k] # 0 <=> k <= c.inode.block_count
          /\ Mapped(IndexSize, c.idx_data, BlockIdx(c) * BlockSize + BlockOff(c))
      BY <1>5, <1>7, <1>11 DEF LoopBooks, Writing
    <3> QED  BY <1>5, <1>6, <1>7, <2>2, <3>1, NextBlock
  <2>4. e.inode.block_count = q
    BY <1>9, <1>13, <2>3
  <2>5. OwnBlocks(e) = OwnBlocks(c) \cup {b}
    <3> HIDE DEF q
    <3>1. ASSUME NEW y PROVE y \in OwnBlocks(e) <=> y \in OwnBlocks(c) \cup {b}
      BY <1>6, <1>7, <1>9, <2>1, <2>2 DEF OwnBlocks
    <3> QED  BY <3>1
  <2>6. \A k \in 1 .. IndexSize : e.idx_data[k] # 0 <=> k <= q
    <3> SUFFICES ASSUME NEW k \in 1 .. IndexSize PROVE e.idx_data[k] # 0 <=> k <= q
      OBVIOUS
    <3>1. c.idx_data[k] # 0 <=> k <= q - 1
      BY <1>7, <1>11, <2>3 DEF LoopBooks
    <3>2. CASE k = q
      BY <1>6, <1>7, <2>1, <3>2
    <3>3. CASE k # q
      <4>1. k <= q <=> k <= q - 1
        BY <1>7, <3>3
      <4> QED  BY <2>1, <3>1, <3>3, <4>1
    <3> QED  BY <3>2, <3>3
  <2>7. LoopBooks(d, e)
    BY <1>1, <1>7, <1>9, <1>11, <1>12, <2>4, <2>6 DEF LoopBooks, SameDisk
  <2>8. Books(d, e)
    BY <1>1, <1>11, <2>5, <2>7, SameBlocks DEF Books, SameDisk
  <2> QED  BY <1>1, <2>8, WriteLoopBalances, PutBalances DEF c, d, b, WithPiece, WithBlock
<1>14. CASE ~ c.newly_allocated
  <2>1. b \in OwnBlocks(c)
    BY <1>5, <1>6, <1>7, <1>14 DEF OwnBlocks
  <2>2. OwnBlocks(e) = OwnBlocks(c)
    BY <1>9, <1>14 DEF OwnBlocks
  <2>3. LoopBooks(d, e)
    BY <1>1, <1>9, <1>11, <1>12, <1>14 DEF LoopBooks, SameDisk
  <2>4. Books(d, e)
    BY <1>1, <1>11, <2>1, <2>2, <2>3, SameBlocks DEF Books, SameDisk
  <2> QED  BY <1>1, <2>4, WriteLoopBalances, PutBalances DEF c, d, b, WithPiece, WithBlock
<1> QED  BY <1>13, <1>14

LEMMA WriteIndexBlockBalances ==
  ASSUME NEW t, Thread = {t}, IInv, Balanced(t), WriteIndexBlock(t)
  PROVE  Balanced(t)'
<1> DEFINE c == call[t]
           x == c.inode.index_block
           m == [disk.block EXCEPT ![x] = c.idx_data]
           d == [disk EXCEPT !["block"] = m]
           e == [c EXCEPT !.at = "table_get"]
<1>1. At(t, "index_put") /\ Put(t, "block", m, e)
  BY DEF WriteIndexBlock
<1>2. /\ c \in CallType /\ c.at = "index_put" /\ Knows(disk, c) /\ c # Idle
      /\ Sound(disk, 0) /\ disk \in Disk
      /\ c.request.op \in {"readdir", "create", "unlink", "getattr", "read", "write"}
  BY <1>1, Due, DueWhole
<1>3. c.request.op = "write" /\ WriteKnows(disk, c)
  BY <1>2 DEF Knows, CreateKnows, UnlinkKnows, ReadKnows
<1>4. x # 0 /\ Writing(disk, c)
  BY <1>2, <1>3 DEF WriteKnows
<1>5. x \in Block
  BY <1>2, <1>4, DiskFields DEF Writing
<1>6. /\ e.at = "table_get" /\ e.request = c.request /\ e.slot = c.slot /\ e.inode = c.inode
      /\ e.idx_data = c.idx_data /\ e.bytes = c.bytes /\ e.allocated_index = c.allocated_index
  BY <1>2 DEF CallType
<1>7. /\ d.bmap = disk.bmap /\ d.imap = disk.imap /\ d.table = disk.table /\ d.root = disk.root
      /\ d.block = m
  BY <1>2, PartWritten
<1>8. \A a \in Block : a # x => m[a] = disk.block[a]
  BY <1>2, <1>5, DiskFields
<1> HIDE DEF m, e
<1>9. e # Idle /\ After(e) = e
  BY <1>6 DEF Idle, After
<1>10. Writing(d, e)
  <2>1. IInv'
    BY WriteIndexBlockKeeps
  <2>2. disk' = d /\ call'[t] = e
    <3>1. disk' = d /\ call' = [call EXCEPT ![t] = e]
      BY <1>1, <1>6 DEF Put, Goto
    <3> QED  BY <3>1 DEF IInv
  <2>3. Fine(d, e)
    BY <2>1, <2>2 DEF IInv
  <2> HIDE DEF d
  <2> QED  BY <1>3, <1>6, <1>9, <2>3 DEF Fine, Knows, WriteKnows
<1> HIDE DEF d, c
<1>11. FilesOf(d) = FilesOf(disk) /\ FileInodes(d) = FileInodes(disk) /\ \A s : Node(d, s) = Node(disk, s)
  BY <1>7, SameView, SameInodes
<1>12. ASSUME NEW s \in FilesOf(disk), NEW k \in Place, s # c.slot PROVE Blk(d, s, k) = Blk(disk, s, k)
  <2>1. 0 \in Place
    BY SizesNat DEF Place
  <2>2. Blk(disk, s, 0) # x
    BY <1>2, <1>4, <1>12, <2>1, WritingApart
  <2>3. Node(disk, s).index_block # x /\ Node(disk, s).index_block \in Block \cup {0}
    BY <1>2, <2>2, DiskFields, NodeFields DEF Blk
  <2> QED  BY <1>7, <1>8, <1>11, <2>3 DEF Blk
<1>13. Books(disk, c)
  BY <1>2, <1>3, <1>4, MidwayBooks DEF Balanced, c
<1>14. FileBlocks(d, c.slot) = FileBlocks(disk, c.slot) /\ Counted(d, c.slot)
  <2>1. Counted(disk, c.slot)
    BY <1>13, Nonzero DEF Books, Counted, FilesOf
  <2> QED  BY <1>11, <1>12, <2>1, SameFiles
<1>15. OwnBlocks(e) = OwnBlocks(c)
  BY <1>6 DEF OwnBlocks
<1>16. d.bmap = FileBlocks(d, 0) \cup OwnBlocks(e)
  <2>1. FileBlocks(disk, 0) \cup OwnBlocks(c) = FileBlocks(disk, c.slot) \cup OwnBlocks(c)
    BY <1>4, OwnBlocksCover
  <2>2. FileBlocks(d, 0) \cup OwnBlocks(e) = FileBlocks(d, c.slot) \cup OwnBlocks(e)
    BY <1>4, <1>6, <1>10, OwnBlocksCover
  <2> QED  BY <1>7, <1>13, <1>14, <1>15, <2>1, <2>2 DEF Books
<1>17. /\ Midway(e) /\ Torn(e) = 0 /\ InHand(e) = OwnBlocks(e) /\ InodeInHand(e) = {}
       /\ Ahead(e) = c.slot
  BY <1>3, <1>4, <1>6, <1>9 DEF Midway, Torn, InHand, InodeInHand, HasInode, Ahead, FreesBlocks
<1>18. LoopBooks(d, e)
  <2>1. ASSUME c.bytes = 0, ~ c.allocated_index, NEW k \in 1 .. IndexSize
        PROVE  c.idx_data[k] = Blk(d, c.slot, k)
    <3>1. Node(disk, c.slot).index_block # 0
      BY <1>13, <2>1 DEF Books, LoopBooks
    <3>2. Node(d, c.slot).index_block = x
      BY <1>4, <1>11, <3>1 DEF Writing
    <3>3. d.block[x] = c.idx_data
      BY <1>2, <1>5, <1>7, DiskFields DEF m
    <3> QED  BY <1>4, <3>2, <3>3 DEF Blk
  <2> QED  BY <1>6, <1>11, <1>13, <2>1 DEF Books, LoopBooks
<1>19. Ledger(d, After(e))
  BY <1>7, <1>9, <1>11, <1>13, <1>14, <1>16, <1>17, <1>18 DEF Ledger, Books
<1> QED  BY <1>1, <1>19, PutBalances DEF d, c

-----------------------------------------------------------------------------
(* Without a crash nothing leaks.                                          *)

LEMMA AccessBalances ==
  ASSUME NEW t, Thread = {t}, IInv, Balanced(t), Access(t)
  PROVE  Balanced(t)'
<1>1. CASE FindEntry(t)          BY <1>1, FindEntryBalances
<1>2. CASE ListRoot(t)           BY <1>2, ListRootBalances
<1>3. CASE ReadRoot(t)           BY <1>3, ReadRootBalances
<1>4. CASE WriteRoot(t)          BY <1>4, WriteRootBalances
<1>5. CASE ReadInodeBitmap(t)    BY <1>5, ReadInodeBitmapBalances
<1>6. CASE WriteInodeBitmap(t)   BY <1>6, WriteInodeBitmapBalances
<1>7. CASE ReadInode(t)          BY <1>7, ReadInodeBalances
<1>8. CASE ReadInodeTable(t)     BY <1>8, ReadInodeTableBalances
<1>9. CASE WriteInodeTable(t)    BY <1>9, WriteInodeTableBalances
<1>10. CASE ReadIndexBlock(t)    BY <1>10, ReadIndexBlockBalances
<1>11. CASE WriteEmptyIndex(t)   BY <1>11, WriteEmptyIndexBalances
<1>12. CASE WriteIndexBlock(t)   BY <1>12, WriteIndexBlockBalances
<1>13. CASE ReadBlockBitmap(t)   BY <1>13, ReadBlockBitmapBalances
<1>14. CASE WriteBlockBitmap(t)  BY <1>14, WriteBlockBitmapBalances
<1>15. CASE ReadBitmapToFree(t)  BY <1>15, ReadBitmapToFreeBalances
<1>16. CASE WriteBitmapFreed(t)  BY <1>16, WriteBitmapFreedBalances
<1>17. CASE ReadData(t)          BY <1>17, ReadDataBalances
<1>18. CASE WriteData(t)         BY <1>18, WriteDataBalances
<1> QED  BY <1>1, <1>2, <1>3, <1>4, <1>5, <1>6, <1>7, <1>8, <1>9, <1>10, <1>11, <1>12, <1>13, <1>14,
            <1>15, <1>16, <1>17, <1>18 DEF Access

\* Until the first crash, and whatever unlink was doing then.
UntilCrash == crashes \in Nat /\ (crashes = 0 => IInv /\ \A t \in Thread : Balanced(t))

LEMMA InitUntilCrash ==
  ASSUME Init
  PROVE  UntilCrash
<1>1. FilesOf(disk) = {} /\ disk.bmap = {} /\ disk.imap = {MFS_ROOT_INODE}
  BY DEF Init, FilesOf
<1>2. FileBlocks(disk, 0) = {}
  BY <1>1, BlocksOfFiles
<1>3. FileInodes(disk) = {MFS_ROOT_INODE}
  BY <1>1 DEF FileInodes
<1>4. Even(disk)
  BY <1>1, <1>2, <1>3 DEF Even, Counted
<1>5. Calm(Idle) /\ \A t \in Thread : call[t] = Idle
  BY DEF Init, Calm
<1>6. \A t \in Thread : Balanced(t)
  BY <1>4, <1>5, CalmIsEven DEF Balanced
<1> QED  BY <1>6, InitInv DEF UntilCrash, Inv, Init

LEMMA NextUntilCrash ==
  ASSUME OneThread, UntilCrash, [Next]_vars
  PROVE  UntilCrash'
<1>1. PICK t : Thread = {t}
  BY DEF OneThread
<1>2. CASE Enter(t)
  <2>1. crashes' = crashes
    BY <1>2, AccessCounts
  <2>2. ASSUME crashes = 0 PROVE IInv' /\ Balanced(t)'
    BY <1>1, <1>2, <2>2, EnterKeeps, EnterBalances DEF UntilCrash
  <2> QED  BY <1>1, <2>1, <2>2 DEF UntilCrash
<1>3. CASE Access(t)
  <2>1. crashes' = crashes
    BY <1>3, AccessCounts
  <2>2. ASSUME crashes = 0 PROVE IInv' /\ Balanced(t)'
    BY <1>1, <1>3, <2>2, AccessKeeps, AccessBalances DEF UntilCrash
  <2> QED  BY <1>1, <2>1, <2>2 DEF UntilCrash
<1>4. CASE Crash
  <2>1. crashes \in Nat /\ crashes' = crashes + 1
    BY <1>4 DEF Crash, UntilCrash
  <2>2. crashes' \in Nat /\ crashes' # 0
    BY <2>1
  <2> QED  BY <2>2 DEF UntilCrash
<1>5. CASE UNCHANGED vars
  BY <1>5 DEF UntilCrash, IInv, Balanced, vars
<1> QED  BY <1>1, <1>2, <1>3, <1>4, <1>5 DEF Next

LEMMA Places ==
  ASSUME NEW n \in Nat
  PROVE  Cardinality(1 .. n) = n
BY FS_Interval

-----------------------------------------------------------------------------
(* The theorems.                                                           *)

\* How the properties speak of the disk.
LEMMA Views ==
  /\ Listed = FilesOf(disk)
  /\ \A s : InodeOf(s) = Node(disk, s)
  /\ \A s : \A k \in Place : BlockAt(s, k) = Blk(disk, s, k)
  /\ \A s : Placed(s) = {k \in Place : Blk(disk, s, k) # 0}
<1>1. Listed = FilesOf(disk) /\ \A s : InodeOf(s) = Node(disk, s)
  BY DEF Listed, FilesOf, InodeOf, Node
<1>2. ASSUME NEW s, NEW k \in Place \ {0}
      PROVE  IndexOf(s)[k] = Blk(disk, s, k)
  <2>1. k \in 1 .. IndexSize
    BY SizesNat DEF Place
  <2> QED  BY <1>1, <2>1 DEF IndexOf, Blk, Zeros
<1>3. \A s : InodeOf(s).index_block = Blk(disk, s, 0)
  BY <1>1 DEF Blk
<1>4. \A s : \A k \in Place : BlockAt(s, k) = Blk(disk, s, k)
  BY <1>2, <1>3 DEF BlockAt
<1>5. \A s : Placed(s) = {k \in Place : Blk(disk, s, k) # 0}
  BY <1>2, <1>3 DEF Placed, Place
<1> QED  BY <1>1, <1>4, <1>5

\* The parts of the disk and the locals of the handlers hold what their types say; every block that
\* is read as an index is one and every block read as data is data, so no access of mfs.c is out of
\* the bounds of an array, for a disk of any size and at whatever access the program is killed.
THEOREM TypeCorrect ==
  ASSUME OneThread, ~ TornUnlink
  PROVE  Spec => []TypeOK
<1>1. Inv => TypeOK
  <2> SUFFICES ASSUME Inv PROVE TypeOK
    OBVIOUS
  <2>1. PICK t : Thread = {t}
    BY DEF OneThread
  <2>2. Fine(disk, call[t])
    BY <2>1 DEF Inv, IInv
  <2>3. disk \in [bmap : SUBSET Block, imap : SUBSET Inode, table : InodeTable, root : RootDir,
                  block : [Block -> IndexArray \cup DataBlock]]
    BY <2>2 DEF Fine, Sound, Disk
  <2>4. call[t] = Idle \/ call[t] \in CallType
    BY <2>2 DEF Fine
  <2> QED  BY <2>1, <2>3, <2>4 DEF TypeOK, Inv
<1>2. Spec => []Inv
  BY Kept
<1> QED  BY <1>1, <1>2, PTL

\* allocate_block and the index blocks of mfs_write give a block to one place of one file only, and
\* mfs_create an inode and a name to one file only, with all the kills between two accesses.
THEOREM BlocksApart ==
  ASSUME OneThread, ~ TornUnlink
  PROVE  Spec => []NoSharing
<1>1. Inv => NoSharing
  <2> SUFFICES ASSUME Inv PROVE NoSharing
    OBVIOUS
  <2>1. PICK t : Thread = {t}
    BY DEF OneThread
  <2>2. Named(disk) /\ Separate(disk)
    BY <2>1 DEF Inv, IInv, Fine, Sound
  <2>3. ASSUME NEW s \in Listed, NEW z \in Listed, NEW k \in Placed(s), NEW l \in Placed(z),
               BlockAt(s, k) = BlockAt(z, l)
        PROVE  s = z /\ k = l
    <3>1. s \in FilesOf(disk) /\ z \in FilesOf(disk)
      BY Views
    <3>2. k \in Place /\ l \in Place /\ Blk(disk, s, k) # 0
      BY Views
    <3>3. Blk(disk, s, k) = Blk(disk, z, l)
      BY <2>3, <3>2, Views
    <3> QED  BY <2>2, <3>1, <3>2, <3>3 DEF Separate
  <2>4. ASSUME NEW s \in Listed, NEW z \in Listed, s # z
        PROVE  disk.root[s].inode_no # disk.root[z].inode_no /\ disk.root[s].name # disk.root[z].name
    BY <2>2, <2>4, Views DEF Named
  <2> QED  BY <2>3, <2>4 DEF NoSharing
<1>2. Spec => []Inv
  BY Kept
<1> QED  BY <1>1, <1>2, PTL

\* The order in which mfs_write writes the bitmap, the data, the index block and the inode, and
\* mfs_create its bitmap, inode and entry, leaves no listed file with a block missing or unmarked,
\* wherever it is cut off; only an unlink that is freeing the file may have it so.
THEOREM BlocksMarked ==
  ASSUME OneThread, ~ TornUnlink
  PROVE  Spec => []MapsToAllocated
<1>1. Inv => MapsToAllocated
  <2> SUFFICES ASSUME Inv, NEW s \in Listed, \A t \in Busy : Freeing(t) => call[t].slot # s
               PROVE  /\ BlocksOf(s) \subseteq disk.bmap
                      /\ \A k \in 1 .. IndexSize : (k - 1) * BlockSize < InodeOf(s).size => k \in Placed(s)
                      /\ disk.root[s].inode_no \in disk.imap /\ InodeOf(s).inode_no = disk.root[s].inode_no
    BY DEF MapsToAllocated
  <2>1. PICK t : Thread = {t}
    BY DEF OneThread
  <2>2. Sound(disk, Torn(call[t]))
    BY <2>1 DEF Inv, IInv, Fine
  <2>3. s \in FilesOf(disk) /\ s # 0
    BY Views, Nonzero DEF FilesOf
  <2>4. Torn(call[t]) # s
    <3>1. SUFFICES ASSUME Torn(call[t]) = s PROVE FALSE
      OBVIOUS
    <3>2. /\ call[t].request.op = "unlink" /\ call[t].at \in {"free_get", "free_put", "root_put"}
          /\ call[t].slot = s
      BY <2>3, <3>1 DEF Torn
    <3>3. t \in Busy /\ Freeing(t)
      BY <2>1, <3>2 DEF Busy, Freeing, At, Op
    <3> QED  BY <3>2, <3>3
  <2>5. BlocksOf(s) \subseteq disk.bmap
    <3> SUFFICES ASSUME NEW k \in Placed(s) PROVE BlockAt(s, k) \in disk.bmap
      BY DEF BlocksOf
    <3>1. k \in Place /\ Blk(disk, s, k) # 0
      BY Views
    <3>2. BlockAt(s, k) = Blk(disk, s, k)
      BY <3>1, Views
    <3> QED  BY <2>2, <2>3, <2>4, <3>1, <3>2 DEF Sound, Marked
  <2>6. ASSUME NEW k \in 1 .. IndexSize, (k - 1) * BlockSize < InodeOf(s).size PROVE k \in Placed(s)
    <3>1. Mapped(IndexSize, [l \in 1 .. IndexSize |-> Blk(disk, s, l)], InodeOf(s).size)
      BY <2>2, <2>3, Views DEF Sound, Sized
    <3>2. Blk(disk, s, k) # 0
      BY <2>6, <3>1 DEF Mapped
    <3>3. k \in Place
      BY SizesNat DEF Place
    <3> QED  BY <3>2, <3>3, Views
  <2>7. disk.root[s].inode_no \in disk.imap /\ InodeOf(s).inode_no = disk.root[s].inode_no
    BY <2>2, <2>3, Views DEF Sound, Named
  <2> QED  BY <2>5, <2>6, <2>7
<1>2. Spec => []Inv
  BY Kept
<1> QED  BY <1>1, <1>2, PTL

\* Between two calls, no crash having come, the bitmaps mark the blocks and the inodes of the listed
\* files and nothing else, and the block count of an inode is the number of data blocks that its
\* index block has: what mfs_create, mfs_write and mfs_unlink mark and unmark, failed calls and
\* partial writes included, adds up on a disk of any size.
THEOREM NothingLeaks ==
  ASSUME OneThread
  PROVE  Spec => []Accounted
<1>1. UntilCrash => Accounted
  <2> SUFFICES ASSUME UntilCrash, crashes = 0, Busy = {}
               PROVE  /\ disk.bmap = UNION {BlocksOf(s) : s \in Listed}
                      /\ disk.imap = {disk.root[s].inode_no : s \in Listed} \cup {MFS_ROOT_INODE}
                      /\ \A s \in Listed : InodeOf(s).block_count = Cardinality(Placed(s) \ {0})
    BY DEF Accounted
  <2>1. PICK t : Thread = {t}
    BY DEF OneThread
  <2>2. Fine(disk, call[t]) /\ Ledger(disk, call[t])
    BY <2>1 DEF UntilCrash, IInv, Balanced
  <2>3. call[t].at = "idle"
    BY <2>1 DEF Busy, At
  <2>4. call[t] = Idle
    BY <2>2, <2>3 DEF Fine, CallType, NextAccess
  <2>5. Even(disk) /\ disk \in Disk
    BY <2>2, <2>4, CalmIsEven DEF Calm, Fine, Sound
  <2>6. disk.bmap = UNION {BlocksOf(s) : s \in Listed}
    <3>1. ASSUME NEW s \in Listed, NEW b PROVE b \in BlocksOf(s) <=> b # 0 /\ \E k \in Place : b = Blk(disk, s, k)
      BY Views DEF BlocksOf
    <3>2. \A b : b \in FileBlocks(disk, 0) <=> b # 0 /\ \E s \in FilesOf(disk) \ {0}, k \in Place : b = Blk(disk, s, k)
      BY BlocksOfFiles
    <3>3. Listed = FilesOf(disk) \ {0}
      BY Views, Nonzero DEF FilesOf
    <3>4. ASSUME NEW b PROVE b \in disk.bmap <=> b \in UNION {BlocksOf(s) : s \in Listed}
      BY <2>5, <3>1, <3>2, <3>3 DEF Even
    <3> QED  BY <3>4
  <2>7. disk.imap = {disk.root[s].inode_no : s \in Listed} \cup {MFS_ROOT_INODE}
    BY <2>5, Views DEF Even, FileInodes
  <2>8. ASSUME NEW s \in Listed PROVE InodeOf(s).block_count = Cardinality(Placed(s) \ {0})
    <3> DEFINE n == Node(disk, s).block_count
    <3>1. s \in FilesOf(disk) \ {0} /\ InodeOf(s) = Node(disk, s)
      BY Views, Nonzero DEF FilesOf
    <3>2. n \in Nat /\ n <= IndexSize /\ \A k \in 1 .. IndexSize : Blk(disk, s, k) # 0 <=> k <= n
      BY <2>5, <3>1, DiskFields, NodeFields DEF Even, Counted
    <3> HIDE DEF n
    <3>3. Placed(s) \ {0} = {k \in Place \ {0} : Blk(disk, s, k) # 0}
      BY Views
    <3>4. Placed(s) \ {0} = 1 .. n
      BY <3>2, <3>3, SizesNat DEF Place
    <3> QED  BY <3>1, <3>2, <3>4, Places DEF n
  <2> QED  BY <2>6, <2>7, <2>8
<1>2. Init => UntilCrash
  BY InitUntilCrash
<1>3. UntilCrash /\ [Next]_vars => UntilCrash'
  BY NextUntilCrash
<1> QED  BY <1>1, <1>2, <1>3, PTL DEF Spec
=============================================================================
