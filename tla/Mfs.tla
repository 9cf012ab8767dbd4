--------------------------------- MODULE Mfs ---------------------------------
(***************************************************************************)
(* The file system of Project4 (mfs.c) on a disk formatted by make_mfs.c.  *)
(* A FUSE handler is a sequence of accesses to the disk, each of one block;*)
(* call[t].at names the next access of thread t, and the other fields are  *)
(* the locals of its handler.  The program may be killed between any two   *)
(* accesses; what was written stays.                                       *)
(*                                                                         *)
(* An lseek with its read or write is one access that does not fail.  For  *)
(* one thread that is exact; the descriptor being shared, several threads  *)
(* can do worse in the code than here.                                     *)
(*                                                                         *)
(* External: the kernel lets one create or unlink run at a time and one    *)
(* write per file, and libfuse keeps an unlink out while its path is used. *)
(***************************************************************************)
EXTENDS Integers, Sequences, SequencesExt, FiniteSets, FiniteSetsExt

CONSTANTS
  Thread,       \* the FUSE threads
  Name,         \* file names
  Request,      \* the requests the kernel sends: a subset of AnyRequest
  Unit,         \* what a file is made of
  BlockSize,    \* units in a data block (MFS_BLOCK_SIZE bytes)
  BlockCount,   \* data blocks of the disk, numbered from 1
  IndexSize,    \* entries of an index block (MFS_BLOCK_SIZE / 4)
  InodeCount,   \* MFS_INODE_COUNT
  EntryCount,   \* entries of the root directory besides "." and ".."
  MaxCrashes,   \* bound on crashes
  TornUnlink,   \* may a crash come while unlink is freeing blocks?
  None          \* no entry, or no answer

MFS_ROOT_INODE == 1
Block == 1 .. BlockCount
Inode == MFS_ROOT_INODE .. InodeCount
Slot == 1 .. EntryCount
IndexArray == [1 .. IndexSize -> Block \cup {0}]
DataBlock == [1 .. BlockSize -> Unit \cup {0}]

AnyRequest ==
  [op : {"readdir"}]
    \cup [op : {"create", "unlink", "getattr"}, name : Name]
    \cup [op : {"read"}, name : Name, offset : Nat, size : Nat \ {0}]
    \cup [op : {"write"}, name : Name, offset : Nat, buf : Seq(Unit) \ {<<>>}]

ASSUME MfsAssumption ==
  /\ Request \subseteq AnyRequest
  /\ BlockSize \in Nat \ {0} /\ BlockCount \in Nat /\ IndexSize \in Nat \ {0}
  /\ InodeCount \in Nat \ {0} /\ EntryCount \in Nat /\ MaxCrashes \in Nat
  /\ TornUnlink \in BOOLEAN
  /\ None \notin [name : Name, inode_no : Inode]

VARIABLES
  disk,     \* the blocks
  call,     \* what every thread is doing
  last,     \* the last answer, until the next request comes
  crashes

vars == <<disk, call, last, crashes>>

mfs_inode ==
  [inode_no : Inode \cup {0}, size : Nat, block_count : Nat, index_block : Block \cup {0}]
mfs_dir_entry == [name : Name, inode_no : Inode]

NewInode(i) == [inode_no |-> i, size |-> 0, block_count |-> 0, index_block |-> 0]
Zeros(n) == [k \in 1 .. n |-> 0]

\* A handler that waits for its first access.
Locals(r) ==
  [request |-> r, at |-> IF r.op = "readdir" THEN "list" ELSE "find",
   entries |-> <<>>, slot |-> 0, inode_no |-> 0, inode |-> NewInode(0), table |-> <<>>,
   bitmap |-> {}, idx_data |-> <<>>, data_blk |-> 0, newly_allocated |-> FALSE,
   allocated_index |-> FALSE, blk_buf |-> <<>>, bytes |-> 0, out |-> <<>>,
   to_free |-> {}, rc |-> "OK"]

Idle == [at |-> "idle"]

-----------------------------------------------------------------------------
(* Control.                                                                *)

At(t, a) == call[t].at = a
Op(t) == call[t].request.op

Return(c, answer) == [c EXCEPT !.at = "return", !.rc = answer]

\* The handler goes on as c, or returns.
Goto(t, c) ==
  IF c.at = "return"
  THEN /\ call' = [call EXCEPT ![t] = Idle]
       /\ last' = [request |-> c.request, answer |-> c.rc]
  ELSE call' = [call EXCEPT ![t] = c] /\ UNCHANGED last

Get(t, c) == Goto(t, c) /\ UNCHANGED <<disk, crashes>>
Put(t, part, contents, c) ==
  Goto(t, c) /\ disk' = [disk EXCEPT ![part] = contents] /\ UNCHANGED crashes

\* Where in the file the loops of mfs_read and mfs_write are.
Position(c) == c.request.offset + c.bytes
BlockIdx(c) == Position(c) \div BlockSize
BlockOff(c) == Position(c) % BlockSize

\* Mutant: an index block without data is not recorded.
FinishIfData(c) ==
  IF c.bytes > 0 THEN [c EXCEPT !.at = "index_put", !.inode.size = @ + c.bytes] ELSE Return(c, c.rc)

\* The end of mfs_write: the index block and the inode, if there is something to record.
Finish(c) ==
  IF c.bytes > 0 \/ c.allocated_index
  THEN [c EXCEPT !.at = "index_put", !.inode.size = @ + c.bytes]
  ELSE Return(c, c.rc)

\* The head of the loop of mfs_write.
WriteLoop(c) ==
  IF c.bytes = Len(c.request.buf) THEN Finish(c)
  ELSE IF BlockIdx(c) >= IndexSize THEN Finish([c EXCEPT !.rc = "EFBIG"])
  ELSE LET b == c.idx_data[BlockIdx(c) + 1]
       IN  [c EXCEPT !.data_blk = b, !.newly_allocated = (b = 0),
                     !.at = IF b = 0 THEN "alloc_get" ELSE "data_get"]

\* What the handlers do with the inode they have read.
Found(c) == c.inode.inode_no # 0
Indexed(c) == Found(c) /\ c.inode.index_block # 0

GetattrInode(c) == Return(c, IF Found(c) THEN c.inode.size ELSE "ENOENT")

ReadChecks(c) ==
  IF ~ Found(c) THEN Return(c, "ENOENT")
  ELSE IF c.request.offset >= c.inode.size \/ ~ Indexed(c) THEN Return(c, <<>>)
  ELSE [c EXCEPT !.at = "index_get"]

WriteChecks(c) ==
  IF ~ Found(c) THEN Return(c, "ENOENT")
  ELSE IF c.request.offset # c.inode.size THEN Return(c, "EOPNOTSUPP")
  ELSE [c EXCEPT !.at = IF Indexed(c) THEN "index_get" ELSE "alloc_get"]

UnlinkInode(c) == [c EXCEPT !.at = IF Indexed(c) THEN "index_get" ELSE "root_put"]

\* How many units mfs_read will return.
ToReadTotal(c) == Min({c.request.size, c.inode.size - c.request.offset})

\* The loop of unlink over the places of the blocks it frees; the index block comes last.
NextToFree(c) ==
  LET k == Min(c.to_free) IN IF k > IndexSize THEN c.inode.index_block ELSE c.idx_data[k]

FreeLoop(c) == [c EXCEPT !.at = IF c.to_free = {} THEN "root_put" ELSE "free_get"]

-----------------------------------------------------------------------------
(* The accesses, in the order of the handlers.                             *)

FindEntry(t) ==
  LET c == call[t]
      hits == {s \in Slot : disk.root[s] # None /\ disk.root[s].name = c.request.name}
      s == Min(hits)
  IN  /\ At(t, "find")
      /\ \/ /\ Op(t) = "create"
            /\ Get(t, IF hits = {} THEN [c EXCEPT !.at = "root_get"] ELSE Return(c, "EEXIST"))
         \/ Op(t) # "create" /\ hits = {} /\ Get(t, Return(c, "ENOENT"))
         \/ /\ Op(t) # "create" /\ hits # {}
            /\ Get(t, [c EXCEPT !.slot = s, !.inode_no = disk.root[s].inode_no,
                                !.at = IF Op(t) = "unlink" THEN "root_get" ELSE "inode_get"])

ListRoot(t) ==
  /\ At(t, "list")
  /\ Get(t, Return(call[t], {disk.root[s].name : s \in {z \in Slot : disk.root[z] # None}}))

ReadRoot(t) ==
  LET c == [call[t] EXCEPT !.entries = disk.root]
      free == {s \in Slot : disk.root[s] = None}
  IN  /\ At(t, "root_get")
      /\ \/ Op(t) = "create" /\ free = {} /\ Get(t, Return(c, "ENOSPC"))
         \/ /\ Op(t) = "create" /\ free # {}
            /\ Get(t, [c EXCEPT !.slot = Min(free), !.at = "imap_get"])
         \/ /\ Op(t) = "unlink"
            /\ Get(t, [c EXCEPT !.inode_no = disk.root[c.slot].inode_no, !.at = "inode_get"])

ReadInodeBitmap(t) ==
  LET c == call[t]
      free == Inode \ (disk.imap \cup {MFS_ROOT_INODE})
      i == Min(free)
  IN  /\ At(t, "imap_get")
      /\ \/ Op(t) = "create" /\ free = {} /\ Get(t, Return(c, "ENOSPC"))
         \/ /\ Op(t) = "create" /\ free # {}
            /\ Get(t, [c EXCEPT !.bitmap = disk.imap \cup {i}, !.inode_no = i,
                                !.inode = NewInode(i), !.at = "imap_put"])
         \/ /\ Op(t) = "unlink"
            /\ Get(t, [c EXCEPT !.bitmap = disk.imap \ {c.inode_no}, !.at = "imap_put"])

\* Mutant: create does not write the bitmap.
SkipInodeBitmap(t) ==
  /\ At(t, "imap_put")
  /\ Put(t, "imap", IF Op(t) = "create" THEN disk.imap ELSE call[t].bitmap,
         IF Op(t) = "create" THEN [call[t] EXCEPT !.at = "table_get"] ELSE Return(call[t], "OK"))

WriteInodeBitmap(t) ==
  /\ At(t, "imap_put")
  /\ Put(t, "imap", call[t].bitmap,
         IF Op(t) = "create" THEN [call[t] EXCEPT !.at = "table_get"] ELSE Return(call[t], "OK"))

ReadInode(t) ==
  LET c == [call[t] EXCEPT !.inode = disk.table[call[t].inode_no]]
  IN  /\ At(t, "inode_get")
      /\ \/ Op(t) = "getattr" /\ Get(t, GetattrInode(c))
         \/ Op(t) = "read" /\ Get(t, ReadChecks(c))
         \/ Op(t) = "write" /\ Get(t, WriteChecks(c))
         \/ Op(t) = "unlink" /\ Get(t, UnlinkInode(c))

ReadIndexBlock(t) ==
  LET idx == disk.block[call[t].inode.index_block]
      c == [call[t] EXCEPT !.idx_data = idx]
      mapped == {k \in 1 .. IndexSize : k <= c.inode.block_count /\ idx[k] # 0}
  IN  /\ At(t, "index_get")
      /\ \/ Op(t) = "write" /\ Get(t, WriteLoop(c))
         \/ Op(t) = "read" /\ Get(t, [c EXCEPT !.at = "data_get"])
         \/ /\ Op(t) = "unlink"
            /\ Get(t, FreeLoop([c EXCEPT !.to_free = mapped \cup {IndexSize + 1}]))

\* allocate_block: for the index block if the file has none, else for data.
ReadBlockBitmap(t) ==
  LET c == call[t]
      free == Block \ disk.bmap
      b == Min(free)
  IN  /\ At(t, "alloc_get")
      /\ \/ /\ free # {}
            /\ Get(t, [c EXCEPT !.bitmap = disk.bmap \cup {b}, !.data_blk = b, !.at = "alloc_put"])
         \/ free = {} /\ c.inode.index_block = 0 /\ Get(t, Return(c, "ENOSPC"))
         \/ free = {} /\ c.inode.index_block # 0 /\ Get(t, Finish([c EXCEPT !.rc = "ENOSPC"]))

\* Mutant: the bitmap is written for an index block only.
SkipBlockBitmap(t) ==
  /\ At(t, "alloc_put")
  /\ Put(t, "bmap", IF call[t].inode.index_block = 0 THEN call[t].bitmap ELSE disk.bmap,
         [call[t] EXCEPT !.at = IF call[t].inode.index_block = 0 THEN "zero_put" ELSE "data_put"])

WriteBlockBitmap(t) ==
  /\ At(t, "alloc_put")
  /\ Put(t, "bmap", call[t].bitmap,
         [call[t] EXCEPT !.at = IF call[t].inode.index_block = 0 THEN "zero_put" ELSE "data_put"])

WriteEmptyIndex(t) ==
  LET c == call[t]
  IN  /\ At(t, "zero_put")
      /\ Put(t, "block", [disk.block EXCEPT ![c.data_blk] = Zeros(IndexSize)],
             WriteLoop([c EXCEPT !.inode.index_block = c.data_blk, !.allocated_index = TRUE,
                                 !.idx_data = Zeros(IndexSize)]))

\* A hole is read as zeros.
ReadData(t) ==
  LET c == call[t]
      b == IF Op(t) = "write" THEN c.data_blk ELSE c.idx_data[BlockIdx(c) + 1]
      blk == IF b = 0 THEN Zeros(BlockSize) ELSE disk.block[b]
      n == Min({BlockSize - BlockOff(c), ToReadTotal(c) - c.bytes})
      d == [c EXCEPT !.out = @ \o SubSeq(blk, BlockOff(c) + 1, BlockOff(c) + n), !.bytes = @ + n]
  IN  /\ At(t, "data_get")
      /\ \/ Op(t) = "write" /\ Get(t, [c EXCEPT !.blk_buf = blk, !.at = "data_put"])
         \/ Op(t) = "read" /\ Get(t, IF d.bytes < ToReadTotal(d) THEN d ELSE Return(d, d.out))

\* Mutant: the block is not read before a part of it is written.
BlankBlock(c) == Zeros(BlockSize)

\* What mfs_write copies its units over.
OldBlock(c) == IF c.newly_allocated THEN Zeros(BlockSize) ELSE c.blk_buf

WriteData(t) ==
  LET c == call[t]
      off == BlockOff(c)
      n == Min({BlockSize - off, Len(c.request.buf) - c.bytes})
      new == [k \in 1 .. BlockSize |->
                IF k \in off + 1 .. off + n THEN c.request.buf[c.bytes + k - off] ELSE OldBlock(c)[k]]
      d == IF c.newly_allocated
           THEN [c EXCEPT !.idx_data[BlockIdx(c) + 1] = c.data_blk, !.inode.block_count = @ + 1]
           ELSE c
  IN  /\ At(t, "data_put")
      /\ Put(t, "block", [disk.block EXCEPT ![c.data_blk] = new],
             WriteLoop([d EXCEPT !.bytes = @ + n]))

\* Mutant: the index block is written only when it is new.
WriteNewIndexBlock(t) ==
  LET c == call[t]
  IN  /\ At(t, "index_put")
      /\ Put(t, "block",
             IF c.allocated_index THEN [disk.block EXCEPT ![c.inode.index_block] = c.idx_data]
             ELSE disk.block,
             [c EXCEPT !.at = "table_get"])

WriteIndexBlock(t) ==
  LET c == call[t]
  IN  /\ At(t, "index_put")
      /\ Put(t, "block", [disk.block EXCEPT ![c.inode.index_block] = c.idx_data],
             [c EXCEPT !.at = "table_get"])

ReadInodeTable(t) ==
  LET c == call[t]
  IN  /\ At(t, "table_get")
      /\ Get(t, [c EXCEPT !.table = [disk.table EXCEPT ![c.inode.inode_no] = c.inode],
                          !.at = "table_put"])

WriteInodeTable(t) ==
  LET c == call[t]
  IN  /\ At(t, "table_put")
      /\ Put(t, "table", c.table,
             CASE Op(t) = "create" -> [c EXCEPT !.at = "root_put"]
               [] Op(t) = "unlink" -> [c EXCEPT !.at = "imap_get"]
               [] Op(t) = "write" -> Return(c, IF c.bytes > 0 THEN c.bytes ELSE c.rc))

ReadBitmapToFree(t) ==
  /\ At(t, "free_get")
  /\ Get(t, [call[t] EXCEPT !.bitmap = disk.bmap \ {NextToFree(call[t])}, !.at = "free_put"])

WriteBitmapFreed(t) ==
  /\ At(t, "free_put")
  /\ Put(t, "bmap", call[t].bitmap, FreeLoop([call[t] EXCEPT !.to_free = @ \ {Min(@)}]))

WriteRoot(t) ==
  LET c == call[t]
      entry == IF Op(t) = "create" THEN [name |-> c.request.name, inode_no |-> c.inode_no] ELSE None
  IN  /\ At(t, "root_put")
      /\ Put(t, "root", [c.entries EXCEPT ![c.slot] = entry],
             IF Op(t) = "create" THEN Return(c, "OK")
             ELSE [c EXCEPT !.inode = NewInode(c.inode_no), !.at = "table_get"])

-----------------------------------------------------------------------------
(* The specification.                                                      *)

\* make_mfs: nothing is used but the root inode.
Init ==
  /\ disk = [bmap |-> {}, imap |-> {MFS_ROOT_INODE},
             table |-> [i \in Inode |-> NewInode(IF i = MFS_ROOT_INODE THEN i ELSE 0)],
             root |-> [s \in Slot |-> None],
             block |-> [b \in Block |-> Zeros(BlockSize)]]
  /\ call = [t \in Thread |-> Idle]
  /\ last = None
  /\ crashes = 0

Busy == {t \in Thread : ~ At(t, "idle")}

\* May the kernel and libfuse let r in while q runs?
Compatible(q, r) ==
  /\ ~ {q.op, r.op} \subseteq {"create", "unlink"}
  /\ "readdir" \notin {q.op, r.op} /\ q.name = r.name
       => "unlink" \notin {q.op, r.op} /\ {q.op, r.op} # {"write"}

Enter(t) ==
  /\ At(t, "idle")
  /\ \E r \in Request :
       /\ \A u \in Busy : Compatible(call[u].request, r)
       /\ call' = [call EXCEPT ![t] = Locals(r)]
  /\ last' = None
  /\ UNCHANGED <<disk, crashes>>

\* An unlink that has begun to free the blocks of a file that is still listed.
Freeing(t) == t \in Busy /\ Op(t) = "unlink" /\ call[t].at \in {"free_get", "free_put", "root_put"}

Crash ==
  /\ crashes < MaxCrashes /\ Busy # {}
  /\ TornUnlink \/ \A t \in Busy : ~ Freeing(t)
  /\ call' = [t \in Thread |-> Idle]
  /\ last' = None
  /\ crashes' = crashes + 1
  /\ UNCHANGED disk

Access(t) ==
  \/ FindEntry(t) \/ ListRoot(t) \/ ReadRoot(t) \/ WriteRoot(t)
  \/ ReadInodeBitmap(t) \/ WriteInodeBitmap(t)
  \/ ReadInode(t) \/ ReadInodeTable(t) \/ WriteInodeTable(t)
  \/ ReadIndexBlock(t) \/ WriteEmptyIndex(t) \/ WriteIndexBlock(t)
  \/ ReadBlockBitmap(t) \/ WriteBlockBitmap(t) \/ ReadBitmapToFree(t) \/ WriteBitmapFreed(t)
  \/ ReadData(t) \/ WriteData(t)

Next == (\E t \in Thread : Enter(t) \/ Access(t)) \/ Crash

Spec == Init /\ [][Next]_vars

-----------------------------------------------------------------------------
(* Properties.                                                             *)

RootDir == [Slot -> mfs_dir_entry \cup {None}]
InodeTable == [Inode -> mfs_inode]
NextAccess ==
  {"find", "list", "root_get", "root_put", "imap_get", "imap_put", "inode_get", "index_get",
   "alloc_get", "alloc_put", "zero_put", "data_get", "data_put", "index_put", "table_get",
   "table_put", "free_get", "free_put"}
Unread(S) == S \cup {<<>>}

CallType ==
  [request : Request, at : NextAccess, entries : Unread(RootDir), slot : Slot \cup {0},
   inode_no : Inode \cup {0}, inode : mfs_inode, table : Unread(InodeTable),
   bitmap : SUBSET (Block \cup Inode), idx_data : Unread(IndexArray), data_blk : Block \cup {0},
   newly_allocated : BOOLEAN, allocated_index : BOOLEAN, blk_buf : Unread(DataBlock), bytes : Nat,
   out : Seq(Unit \cup {0}), to_free : SUBSET (1 .. IndexSize + 1), rc : {"OK", "ENOSPC", "EFBIG"}]

\* Every block holds what its users take it for.
TypeOK ==
  /\ disk \in [bmap : SUBSET Block, imap : SUBSET Inode, table : InodeTable, root : RootDir,
               block : [Block -> IndexArray \cup DataBlock]]
  /\ \A t \in Thread : call[t] = Idle \/ call[t] \in CallType
  /\ crashes \in 0 .. MaxCrashes

\* A file that is listed in the root directory, by the slot of its entry.
Listed == {s \in Slot : disk.root[s] # None}
InodeOf(s) == disk.table[disk.root[s].inode_no]
IndexOf(s) == IF InodeOf(s).index_block = 0 THEN Zeros(IndexSize) ELSE disk.block[InodeOf(s).index_block]

\* The places of the file that hold a block, and the block: 0 is the index block.
Placed(s) == {k \in 0 .. IndexSize : IF k = 0 THEN InodeOf(s).index_block # 0 ELSE IndexOf(s)[k] # 0}
BlockAt(s, k) == IF k = 0 THEN InodeOf(s).index_block ELSE IndexOf(s)[k]
BlocksOf(s) == {BlockAt(s, k) : k \in Placed(s)}

\* No two files share a block, an inode or a name, no block is in two places of a file,
\* and no index block is overwritten with data, however calls and crashes come.
NoSharing ==
  \A s, z \in Listed :
    /\ \A k \in Placed(s), l \in Placed(z) : BlockAt(s, k) = BlockAt(z, l) => s = z /\ k = l
    /\ s # z => /\ disk.root[s].inode_no # disk.root[z].inode_no
                /\ disk.root[s].name # disk.root[z].name

\* The README: "File data is stored through an index block that maps logical file blocks to
\* allocated data blocks on disk."  Every block below the size of a listed file is mapped, and
\* what is mapped is allocated; so are the inodes.
MapsToAllocated ==
  \A s \in Listed :
    (\A t \in Busy : Freeing(t) => call[t].slot # s) =>
      /\ BlocksOf(s) \subseteq disk.bmap
      /\ \A k \in 1 .. IndexSize : (k - 1) * BlockSize < InodeOf(s).size => k \in Placed(s)
      /\ disk.root[s].inode_no \in disk.imap /\ InodeOf(s).inode_no = disk.root[s].inode_no

\* Without a crash nothing leaks: between calls exactly the blocks and inodes of the listed
\* files are marked, and the block count of an inode is that of its index.
Accounted ==
  crashes = 0 /\ Busy = {} =>
    /\ disk.bmap = UNION {BlocksOf(s) : s \in Listed}
    /\ disk.imap = {disk.root[s].inode_no : s \in Listed} \cup {MFS_ROOT_INODE}
    /\ \A s \in Listed : InodeOf(s).block_count = Cardinality(Placed(s) \ {0})

\* The contents of a listed file.
Contents(s) ==
  [k \in 1 .. InodeOf(s).size |->
     disk.block[IndexOf(s)[(k - 1) \div BlockSize + 1]][((k - 1) % BlockSize) + 1]]
EntryOf(n) == CHOOSE s \in Listed : disk.root[s].name = n

Stored == [n \in {disk.root[s].name : s \in Listed} |-> Contents(EntryOf(n))]

Store == INSTANCE Files WITH
  files <- Stored,
  pending <- {call[t].request : t \in Busy}

\* For its user it is a store of named files: a request takes effect at once or, in a crash, not
\* at all; a partial write says how much it wrote; no crash changes what a file holds.
ImplementsFiles == Store!Spec

\* The README: "overwriting existing bytes is not supported".  What a file holds stays its
\* beginning, whatever is written to it or to another file.
OverwritesNothing ==
  [][\A n \in DOMAIN Stored \cap DOMAIN Stored' : IsPrefix(Stored[n], Stored'[n])]_vars
=============================================================================
