# Verification of bilkent_os_projects

TLA+ models, model-checking configurations and machine-checked proofs for the
four operating-systems projects of this repository. The models are written from
the C sources; PROJECT.json names, for each definition, the lines it stands for.

Contents: 1 the system, 2 the plan, 3 what is modelled and how it corresponds
to the code, 4 the runs, 5 fairness, 6 the proofs, 7 findings, 8 what is left out.

## 1. The system

The repository holds four programs that share no code.

| Part | State it keeps | Operations | How its parts interact |
|---|---|---|---|
| **Project3/rsm.c**, a resource manager for several processes | one structure in POSIX shared memory: `available`, `allocation`, `request`, `max_demand`, `need`, pid and flags per application id, one semaphore per id and one mutex; per process a cached id `g_local_apid` | `rsm_init`, `rsm_destroy`, `rsm_process_started/ended`, `rsm_claim`, `rsm_request`, `rsm_release`, `rsm_detection`, `rsm_print_state` | processes call the library; every handler runs under the mutex; a request that cannot be granted leaves the mutex and sleeps on its own semaphore until another process's release or end posts it |
| **Project3/myapp.c, myapp_modified.c**, demo and experiment over rsm.c | child pids, 14 turns of a monitor loop | three scripted children; the monitor calls `rsm_detection` once a second and kills the children on a deadlock | fork, kill, waitpid, the library |
| **Project2/tus.c**, cooperative user-level threads | thread table, ready queue (a ring), `current_tid`; per thread its state, `resume_flag`, `yield_result`, saved context | `tus_init`, `tus_create_thread`, `tus_yield`, `tus_exit`, `tus_join`, `tus_cancel`, `tus_gettid` | control moves between threads only by `setcontext` in yield and exit; `getcontext` returns twice |
| **Project1/findlwp.c, findlwt.c**, word index of several files | per input file a pipe and a reassembly buffer (processes), or an array of occurrences (threads) | children parse and write records; the parent selects, reads, reassembles, sorts and groups; the threaded one joins and merges | bounded pipes, end of file, waitpid; or pthread_join |
| **Project4/mfs.c, make_mfs.c**, a FUSE file system on one disk file | superblock, block and inode bitmaps, inode table, root directory, index and data blocks, one file descriptor | `getattr`, `readdir`, `create`, `open`, `read`, `write` (append only), `unlink`; the formatter | FUSE calls the handlers from several threads; every handler is a sequence of `lseek` + `read`/`write` on the shared descriptor, without a lock |

What is hard, and what makes each part correct:

- **rsm.c.** The effect of a bad grant shows only when, much later, everybody asks
  for all it claimed. Grants made during a scan change what earlier waiters saw;
  the wait happens outside the mutex; processes exit or are killed while they hold
  or wait; ids are inherited through fork. It is correct when instances are
  conserved, avoidance never leaves the safe states, no waiter is forgotten or
  woken twice, and detection reports exactly the processes that can never go on.
- **tus.c.** State, queue, flag and context of a thread are changed one after the
  other in five operations, and each switch is a function that returns twice. It
  is correct when the queue is exactly the set of ready threads, the flag always
  tells the two returns apart, waiting threads are served in order, joins notice
  their targets, and the process ends with its last thread.
- **myapp.c, myapp_modified.c.** The children ignore what the library returns, and
  the parent acts on a detection that is over. They are correct when, whatever the
  sleeps do, a child holds what it believes to hold, nobody is killed when
  there is no deadlock, and the parent comes to an end and removes what it
  created.
- **findlwp.c.** Pipes fill up, records arrive in pieces, end of file depends on
  every inherited descriptor being closed. It is correct when the output is the
  sorted index of all files whatever the interleaving, and parent and children
  never wait for each other for ever, also when one of them fails. **findlwt.c** is
  correct when the merge sees complete arrays only.
- **mfs.c.** A handler is many block accesses; others, or a crash, come between.
  It is correct when every block belongs to at most one file, what is reachable is
  marked used, and a file reads back what was written.

The hazards of all parts, each at its line, are listed in PROJECT.json, with the
properties that cover them or the module that is to.

## 2. Plan

Modules in the order in which they are built; those with a check mark exist.

1. [x] `Rsm`: all calls of the manager over several processes, exits and kills;
   `Iteration` for its loops; `MCRsm`, `MCRsmBarrier`; proofs `IterationProofs`,
   `RsmProofs`.
2. [x] `Tus`: the thread library; `Cooperative`, the abstract scheduler it
   implements; `MCTus`, `MCTusJoin`; proofs `TusProofs`.
3. [x] `ReadyQueue`: the ring buffer of ready threads; `Fifo`, the queue it
   implements; `MCReadyQueue`; proofs `ReadyQueueProofs`.
4. [x] `Mfs`: the disk, each handler as its sequence of block accesses, FUSE
   threads, crashes between two accesses; `make_mfs` as the initial state;
   `Files`, the store of files it implements for one thread; `MCMfs`; proofs
   `MfsProofs`, `MfsStoreProofs`.
5. [x] `RsmApp`: the demo and the scalability experiment over `Rsm`, with the life
   cycle of the shared-memory object; `MCRsmApp`; proofs `RsmAppProofs`.
6. [x] `WordIndex`: what the two word indices share, and a definition of the index
   independent of them; `FindLwp`, parent, children and pipes; `FindLwt`, the
   threads; `MCFind`, both on the same files; proofs `FindProofs`.

## 3. Modules and code

### Rsm (rsm.c)

One action is one library call: the handler runs between `lock_state()` and
`unlock_state()`, so nothing comes between its parts. The wait on
`process_sem[apid]`, which follows the unlock, is a step of its own (`Wake`), and a
process may be killed before or during it (`Die`). `g` is the shared structure,
`local` each process's `g_local_apid`, `status` and `blocked` stand for the
operating system's view of the processes.

- `is_safe`, `rsm_detection` and `try_satisfy_waiting` are loops that repeat passes
  over the processes until a pass changes nothing. Here one visit is one turn of
  `Iterate`, repeated `N * N` times: every pass but the last changes at least one
  process for good (finishes it, or ends its wait), so `N` passes of `N` visits
  reach the point where a pass changes nothing, and further visits do nothing.
- The flags `started[]` and `active[]` are written together with `apid_to_pid[]` in
  every handler; an id is active here when it has a pid.
- `current_apid_locked` is `CurrentApid`: the cached id if it is still this
  process's, otherwise the first one that is.
- A call that is refused changes nothing but the cache (`RefusedCall`).
- Vectors are functions from the resource types; their entries are bounded by
  `Cap` in calls. The number of deaths is bounded by `Deaths`. A process is born
  once (`Fork`).

### Tus (tus.c) and Cooperative

Threads are cooperative, so a step is the code between two points at which control
passes from a stack to another or between the library and the thread's own code.
`pc` tells what the current thread executes next: its own code, the context that
was just restored, the condition of `tus_join`'s loop, or nothing (the process has
exited). `Resume` is what `setcontext` jumped to: `stub` for a new thread, the
second return of `getcontext` otherwise; `AfterGetcontext` is the code both
returns run through, and the flag alone decides which of them it is.

- A TCB keeps `state`, `resume_flag`, whether `yield_result` is a tid or
  `TUS_ERROR`, the argument of the yield the thread is suspended in (which lives on
  its stack), and the target of the join around it.
- What remains of an ended thread but its id is never read again and left out.
- `ready_q` is a sequence. `Picks` is the scheduler: the head under FCFS, any entry
  under RANDOM.
- `Cooperative` states what a user of the library may expect, with three variables:
  the line of ready threads, who runs, and who has ended.

### ReadyQueue and Fifo

The ring of tus.c with its array, head, tail and size, and its operations with
their loops: `rq_remove_tid` and the random choice pop everything and push the rest
again. `Entries` maps the ring to the sequence it stands for; `Fifo` has the
operations on that sequence, which are those `Tus` uses (append, take the k-th,
drop a thread). A thread is in the queue once, which is the library's use of it
(`QueueExact` of `Tus`).

### Mfs (mfs.c, make_mfs.c) and Files

A handler is a sequence of accesses to the disk, and one action is one access with
the code up to the next one. `call[t].at` names the access that comes next; the
other fields of `call[t]` are the locals of the handler, under their names. The
accesses that several handlers make (`find_dir_entry`, `read_inode`, `write_inode`,
`allocate_block`, ...) are written once, with a disjunct for each handler where
they go on differently.

- `disk` has the block bitmap, the inode bitmap, the inode table, the root
  directory and the data blocks. Data blocks and slots are numbered from 1 (blocks
  0 to 5 and the entries "." and ".." are never given to a file). The two blocks of
  the inode table are one, as for files whose inodes share a block.
- A data block is a sequence of `BlockSize` units; an index block a sequence of
  block numbers with 0 for none. What a freed block held stays in it.
- `to_free` has the places of the index that unlink has still to free, and one more
  for the index block itself, which comes last; they are freed in order.
- A crash is a kill of the program: what was written stays, the calls are gone.
- `Compatible` is what the kernel and libfuse guarantee: one create or unlink at a
  time, one write per file, no unlink while the path is in use.
- `Files` is what the user sees: files grow at their end, a read returns what is
  there. `ENOENT`, `EEXIST` and `EOPNOTSUPP` are answered only when the files say so;
  `ENOSPC` and `EFBIG` may be answered at any time, as `Files` knows no sizes and a
  call may find the disk full because of what another call or a crash has taken. A request takes effect in one step, and a
  crash changes no file. In `Mfs` the step is the write of the inode for a write, of
  the directory for create and unlink.
- `MFS_BLOCK_SIZE / 4` exceeds the blocks of any disk make_mfs formats, so that there
  `EFBIG` cannot be reached; the program takes the block count from the superblock
  unchecked, and the model has a disk larger than an index.

### RsmApp (myapp.c, myapp_modified.c)

The module uses `Rsm` as a library: for a command line `p`, `Rsm(p)` is the manager
with the types, the instances and the mode the program gives to `rsm_init`, and
three children and a parent as its processes. What a child does is a `Script`, the
sequence of its calls; `at` is its place in it. A step of a child is one call, its
second half is `ChildWakes`, when the call had to wait. A call that is refused
(`Refused`) changes nothing, and the child goes on, as in the code. The parent
(`main`) initialises, forks, and turns its loop: `Look` is `rsm_detection` and the
choice of what follows, `CheckChild` one `waitpid` with `WNOHANG`, `KillChild` and
`ReapChild` one child each.

- A sleep is a delay of any length, none included, so that all that the sleeps were
  to order may come in any order.
- `Programs` are the command lines; `Looks` is the number of turns of the demo's
  loop (14 in the code; the loop makes one turn at least). Types are numbered as in the code; one instance each.
- `shm` is the shared-memory object. It may be there at the start, left by an
  earlier run; then `rsm_init` fails and the program returns 1. The steps
  of a process that was killed inside the library are left out here as in `Rsm`.

### WordIndex, FindLwp, FindLwt (findlwp.c, findlwt.c)

A file is missing or is the sequence of its words with their line numbers; words
are numbers, ordered like the strings. `WordIndex` has what both programs do with
them: which count (`Occurrences`), the sort and the grouping (`Output`), and
`IsIndex`, which says what the output must be without sorting anything. Each of
these loops is a function for one turn (`PushWord`, `Placed`, `Printed`) and
`Accumulate`, which takes the entries of a sequence in turn. `qsort` puts each entry
at its place in a sorted array: entries that compare equal are equal, so any way of
sorting ends with the same array.

In `FindLwp` a step is a system call of a process with the code around it: a fork,
the closing of one end, one `write` of a chunk, one `select`, one `read` with the
taking apart of the buffer, one `waitpid`. The child closes its inherited ends in
one step, as it does nothing else in between.

- A record is a sequence of symbols: its words and numbers with the blank after
  them, and the newline. `dataLength` and `Capacity` count symbols; so records
  are cut between symbols, and not inside a number, which `parse_record_line` does
  not see, as it gets whole lines only. A symbol is a kind and a number.
- The loop over the newlines in a buffer is `Taken`: `Take` makes the record in the
  buffer longer by a symbol or, at a newline, parses it (`Parsed`) and empties the
  buffer.
- A write of at most `dataLength` bytes is smaller than PIPE_BUF: it is not divided,
  and waits until all of it fits.
- `Pieces` says how `isspace` divides what `strtok_r` left whole: a vertical tab or a
  form feed in a word makes two texts of it, or a text and a number.
- `writers[i]` is the set of processes with the write end of pipe `i`; its end is
  reached when the set and the pipe are empty. `HasReader` is the same for the
  read ends; without a reader a writing child is ended by SIGPIPE.
- `heard[i]` holds the entries of `all[]` that came from pipe `i`, because the sort
  makes the order in which the pipes were read immaterial.
- Failures, at most `MaxFaults` in a run: a child is killed, `fork` fails, the
  output cannot be opened, `select` fails.

In `FindLwt` a worker reads one word per step into its own array. `main` creates and
joins the workers in order, merges the arrays and writes; when it returns, early
or not, the workers end with it.

### Iteration

`Iterate(f, x, n)`, the n-fold application of a function, `Accumulate(f, x, s)`, its
application to the entries of a sequence, and `Total(f, n)`, the sum of a counting
loop: written as recursive functions, so that one theorem about what a loop
preserves serves every loop.

## 4. Runs

| Run | Instance | Question |
|---|---|---|
| `rsm_avoid` | 3 processes, 2 instances of one type, avoidance, 1 death | does the state stay safe, is no grantable waiter left, is some registered process always not waiting; types, ledger of claims, wakeups, and the safety loop against its definition |
| `rsm_detect` | 3 processes, 2 types, no avoidance, 1 death | conservation, detection against its definition, deadlocks are stable and hopeless waits reported, a blocked process keeps what it has |
| `rsm_barrier` | 2 processes | the barrier of the README (a violation, see 7) |
| `rsm_app` | the demo with 5 types and the experiment with 4 and 6, each with and without avoidance, 3 looks | do the children hold what they believe to hold, is there a deadlock whenever the parent kills, do all processes end and is the shared memory removed, or left alone by a run that is refused |
| `tus_threads` | 4 threads, RANDOM, directed yields | do state, queue, flags and the end of the process agree; is the order kept |
| `tus_fair` | 3 cooperative threads, FCFS | does every ready thread run, does every join end, is it the abstract scheduler |
| `tus_join` | 3 threads | does a join wait for its own target (a violation, see 7) |
| `ready_queue` | 4 cells | is the ring a queue |
| `mfs_crash` | 1 thread, 2 files, 4 blocks of 2 units, 2 index entries, 1 crash, none inside the freeing of `unlink` | do files share nothing, is what is mapped allocated, does nothing leak without a crash, is it a store of files |
| `mfs_threads` | 2 threads, no crash | does a write leave the bytes of other calls alone (a violation, see 7) |
| `find` | 3 files of up to 2 records, one missing or empty, chunks of 2, 3 and 5 symbols, pipes of 5, 1 failure | does every record arrive once and whole, is the output the index of the files (both programs), do all processes and threads end |
| `mfs_unlink` | as `mfs_crash`, a crash anywhere | are the blocks of a listed file allocated (a violation, see 7) |

Why the bounds are enough:

- Two processes that wait for each other need two types, or two instances of one;
  a third process is needed for a scan in which one grant forbids
  another, and for a process outside the deadlock. With `Cap` = 2 a call can ask
  for all that exists and, where there is one instance of a type, for more, so
  that refusals happen as well as waits and grants. With one death
  a waiter or a holder can disappear. In `rsm_avoid` all processes are forked before
  the first call, as the programs do; `rsm_detect` has forks at any time.
- Three looks of the demo reach every turn of its loop: the first, one in the middle
  and the last, after which a deadlock is missed. With 4 and 6 types the claims of
  the experiment's children overlap in one and in two types (span 2 and 3), and the
  rotation and the reversal change the order.
- Records have 4 symbols, or 5 for an odd word: with 2 they are cut at their middle,
  with 3 a read takes the end of one and the beginning of the next, with 5 a record
  is one write. The pipe is full before two records are in it. With three children
  the first one inherits the write ends of two others and the last of none, and a
  fork can fail after none, one or two children. The files have equal words in
  one line, in two files, out of order, a word that is too short, and odd words.
- With four threads, three of them in the queue, removal hits the first, the middle
  and the last entry. RANDOM may choose the head every time, so a safety property
  that holds under RANDOM holds under FCFS. Two joiners and a target make three.
- With four cells a queue of two or three entries lies in every position of the
  array, wrapped and not.
- Four blocks hold two files of an index and a data block each, or one of two data
  blocks, and then the other gets an index block only or nothing: a write ends
  early because the disk or the index is full, with and without anything written.
  Writes start inside a block and at its beginning, at every size a file takes, and
  at wrong offsets. One inode is lost in a crash between bitmap and directory, and
  then the inodes run out before the entries. One crash is enough to leave any
  intermediate state of the disk to the calls after it. The units written to
  the two files differ at every place. Each tape is the other with the units
  exchanged, so exchanging `f` and `g` is a symmetry of the requests and of what is
  written.

`CHECK_DEADLOCK` is off for `Rsm` and `Tus`: all processes may exit, and without
avoidance they may wait for each other; after `exit(0)` the threads are gone. It is
off for `RsmApp` and `MCFind`, whose programs end; that they do is `MainEnds` and
`BothEnd`.

Each property of a passing run has a mutant in PROJECT.json: a plausible slip in
the code (a dropped guard, one pass instead of several, an entry left in the
queue) under which TLC finds the property violated.

## 5. Fairness

The runs of `Rsm`, `ReadyQueue` and `Mfs` assume none: their properties are safety properties.

`tus_fair` assumes of each thread (`Fairness` in `Tus`) that library code in
progress goes on (weak fairness of `Resume` and `JoinLoop`: the only running thread
of the process executes it, nothing preempts it), and that a thread that gets to
run again and again yields to any thread or exits (strong fairness). The second is
what a cooperative library asks of its users: a thread that loops without yielding,
or that only ever yields to one favourite, does starve the others. Directed yields
are therefore off in this run; `tus_threads` has them. Under RANDOM no ready
thread is certain to run, so liveness is stated under FCFS.

`rsm_app` assumes that the parent and every child that is not blocked go on: the
processes are separate, the operating system runs each of them, and a sleep ends.
For the children the weak fairness is written with `CanGoOn`, which says when a
child has a step, in place of `ENABLED`, as TLC evaluates `ENABLED` of the manager's
loops too slowly. `MainEnds` has one exception, and the run reaches it: a deadlock
of the demo that forms after its last look (`MissedDeadlock`).

`find` assumes the same of the processes and threads of the word index. A process
that waits for a full or empty pipe, for `select` or for `waitpid` has no step until
the others have made one. Failures are never certain. `BothEnd` has one
exception, which the run reaches too: after a failed `select` the parent may wait for
a child that waits for the parent to read (`Hung`).

## 6. Proofs

Checked by TLAPS, for every value of the constants that the `ASSUME`s allow (at
least one process or thread; instance counts natural numbers).

**RsmProofs.** `TypeCorrect`, `InstancesConserved`, `NeedKept` and `StaysSafe` all
come from one inductive invariant, `IInv`, which says that the shared structure is
`Sound` and the processes have their types. The invariants cannot be proved one by
one: that a subtraction does not go below zero needs the ledger of claims, and that
the result of a grant is safe needs both. `StaysSafe` is the theorem about the
banker's algorithm: from a safe state, a request granted because the loop of
`is_safe` found everybody finished leads to a safe state; a release, an end or a
claim cannot leave them. The loop is handled by a loop invariant (what it has put
into `work` is what the finished processes hold), so that a stuck set of processes
could never have been emptied by it; this direction does not need that `N * N`
visits are enough. `IterationProofs` supplies the rule (an invariant of one turn is
one of all turns) and the facts about sums.

Its second part is about what the manager does for its waiters. The invariant
`IInv /\ Books` adds the books it keeps on them: `Recorded` (only a registered
process has entries, and a waiter's request is within what exists) and `Awaited`
(the process that is blocked on its semaphore is the one that waits, or that was
served and posted). `WakeupsKept` is that invariant read off.

The other theorems need that the loops find everything, not only that what they find
is right. Each is a scan repeated until a pass changes nothing, and each turn that
changes something makes a set of ids smaller (`PassesSettle` in `IterationProofs`), so
after `N * N` visits no visit changes anything. At such a point a safe state has been
emptied (`SafetyDecided`), what is left over is the largest set of processes that
wait for each other (`DetectionDecided`, `HopelessWaitsReported`), and nobody left
waiting could be granted. That last fact holds after a scan; `GrantsNotMissed` also
needs that the calls which do not scan make it no easier to grant anything
(`Worse`: what leaves `available` goes to the allocation of one process, whose need
falls by no more than that). `SomeoneGoesOn`
combines it with `StaysSafe`: in a safe state in which all wait, the first process to
finish could be granted now (`FirstToFinish`). `NothingTaken` and `DeadlocksStay` are
about steps: what a handler does to the entry of another process (`ServedFrom`,
`Entry`, `Enters`), and that a set of processes waiting for each other is still one
afterwards. So every property of `Rsm` that the runs check holds for any number of
processes, types and instances.

**TusProofs.** The inductive invariant `IInv` describes the current thread by its
`pc` (`Executing`), every other thread by being `Suspended` in a context it can be
resumed from, and the queue by `Exact`: a sequence without repetitions of the ready
threads. Each action is shown to keep it and, in the same lemma, to be a step of
`Cooperative` or none (`Stepped`). From it follow `TypeCorrect`, `QueueStaysExact`,
`OneThreadRuns`, `FlagsStayExact`, `ProcessEndsWithLastThread`; `QueueHasRoom` adds the
pigeonhole principle (the queue holds different threads, none of them the current
one), `Refinement` is the implementation of `Cooperative`, and `NobodyOvertakes`
follows from what the abstract steps do to the line. So for `Tus` every safety
property that the runs check, and the refinement, hold for any number of threads,
under both schedulers, with or without directed yields.

**ReadyQueueProofs.** `Whole` says that the indices agree, and `EntryPlaces` in which
cell an entry lies; the wrapping is reduced to one comparison (`WrapOnce`). `PushEffect`,
`PopEffect` and `PushFrontEffect` say what an operation does to `Entries`. The loops of a
removal have invariants of their own: popping lowers the size to zero, and pushing moves
entries from `temp[]` to the ring (`Carrying`: the two together make the same sequence).
From them follow `TypeCorrect`, and `Refinement`: the ring implements `Fifo`, with any
number of cells. `NeverRefused` is the pigeonhole principle again: a thread that is not in
the queue finds a free cell.

**MfsProofs.** With one FUSE thread (`OneThread`), and kills anywhere but inside the
freeing of an unlink (`~ TornUnlink`; `mfs_threads` and `mfs_unlink` show what happens
otherwise), for a disk, blocks, an index and files of any size. `Sound` describes the
disk at every single access: files have inodes and names of their own (`Named`), a block
holds what its place takes it for (`Filled`), no block is in two places (`Separate`), a
file has the blocks its size says (`Sized`), and what is placed is marked (`Marked`, but
for the file an unlink is freeing, `Torn`). It is not inductive: that a write of one
block leaves the disk sound depends on what the handler has in its locals. `Knows` says
it for each handler and each point (`CreateKnows`, `UnlinkKnows`, `ReadKnows`,
`WriteKnows`); its heart is `Writing`: the index that `mfs_write` has in memory extends
the one on the disk by blocks that are marked and that no file has, so it may be killed
before or after it writes the index block, and before or after the inode. One lemma for
each access (`WriteDataKeeps`, ...) shows that it leaves the disk sound and the handler
knowing what it needs next. A kill needs only the first. `TypeCorrect`, `BlocksApart`
and `BlocksMarked` read `Sound` off.

`NothingLeaks` (`Accounted`) says the converse of `Marked`: nothing is marked that no file
has. It holds between calls only, so the invariant says for every point of every
handler what is marked on its behalf. `Ledger` is the balance: the marked blocks are those
of the files (`FileBlocks`) and those `InHand`, such as a block just taken that the index on
the disk does not have yet, and the same for inodes; `Counted` and `LoopBooks` say that the
count of the inode in memory is that of the index in memory. A handler at which nothing is
in hand is `Calm`. There is one lemma for each access again (`...Balances`): `mfs_write`
puts a block in hand at the bitmap and gives it to its file at the index block, also when
it ends early because of a full disk. `UntilCrash` joins it to the first invariant; it does
not need `~ TornUnlink`, which only matters after a kill.

Of `None`, which stands for an unused directory entry, `MfsAssumption` says that it is not
an entry in use: in the code the `used` flag tells them apart.

**MfsStoreProofs.** `StoresFiles` (`ImplementsFiles`), under the assumptions of
`MfsProofs`: the file system is a store of files. `StoreOf` is the store that a disk
holds: for each name in the directory the units that its inode's size, its index block
and its blocks make up (`Text`, `UnitAt`). There is one lemma for each access once more
(`...Serves`): the access is a step of `Files`, or it leaves `StoreOf` alone, and in both
cases the answer of a handler that returns is the one of the store. For that, `Serves`
says what a handler has done of its request so far: the entry it found has the name it
was asked for (`Asked`), what `mfs_read` has put in its buffer are the units of the
file from the offset on (`Fetched`), and what `mfs_write` has copied to blocks lies
behind the end of the file where the index in memory has it (`Copied`, `Excused` when
there is nothing). Most accesses leave the store alone because they change a bitmap, or
blocks that no file has (`SameText`). The three that do not are the write of
the directory by `mfs_create` and `mfs_unlink`, and the write of the inode table by
`mfs_write`, at which all units copied become part of the file together (`TextRecorded`).
The hard accesses are those of the data, where the file's last block is written
in place: the copy stays behind the old end within that block (`PieceStored`,
`InSameBlock`), and a read is cut at block boundaries (`MoreFetched`, `AllFetched`).
`NothingOverwritten` (`OverwritesNothing`) follows: no step of the store shortens or
changes what is there. Run `mfs_threads` shows that `OneThread` is needed for it, run
`mfs_unlink` why `~ TornUnlink` is.

**RsmAppProofs.** `Line` is a constant of which nothing is assumed but that it is one
of `Programs`: the theorems hold for every command line, that is, for both programs,
both modes and any number of types from four on. For the manager nothing is proved
again. `M` is `RsmProofs` with the constants of that command line; each
handler that `RsmApp` calls is the handler of `M` (`SameHandlers`, `SameCalls`), so
every step of the programs is one of the manager or leaves it alone, and
`M!IInv /\ M!Books` is kept.

The scripts come from the claims and orders that the program computes. `PlanShape`
says what they have in common: a start, with avoidance a claim of just the types
that follow, a request for each, different types in turn, then releases of the same
types, then the end. `Orderly` is the inductive invariant. For each child `InStep` says what
the manager has on record about it (is it registered, has it claimed, does it wait
for the type of its present call) and that it holds what the part of the script behind
it gives. It follows that no call is ever refused: each request is within what
exists and what is left of the claim, each release is of what is held. Only
then does a child hold what it prints (`AcquiredHeld`). It is inductive only for all
children together with the manager's books: a scan made by one child's release
grants the request of another.

`Watches` is about the parent. That the deadlock is there when the
parent has just looked is `DetectionDecided`; that it still is at each of the three
signals needs that the children's steps keep a deadlock (the argument of
`DeadlocksStay`), and that the kill of a child does not: it leaves the shared
structure as it is, and nothing the child held comes back. With avoidance the parent never gets there by its own control flow, and the demo does not
wait for anyone before it has decided (`KilledForDeadlock`).

**FindProofs.** `AllSpec` of `MCFind` runs the two programs side by side on the same
files, and no theorem needs fairness. `ProcessInv` is the invariant of findlwp. Its
heart is `Channel`, for each pipe: what the parent has understood are the first `m`
records, and the rest of them that the child has written is the buffer followed by
the pipe. The write of a chunk makes the pipe longer by the next part of the stream.
A read moves symbols from the pipe to the buffer and takes it apart, and then the
records understood are as many more as there are newlines in it: a record has one
newline, at its end, and the buffer has none (`NoNewline`), so that a newline always
completes the record it belongs to. The number of records is counted by induction over
what was read, with sets and functions (`AppendInduction`), as a recursive function
cannot be. None of this mentions failures, so `FindStream` holds with any number of
them, and for words that `isspace` cuts in any way.

`FindIndex` needs more. `Forked` and `Held` say who holds which end, so that a pipe
at its end belongs to a child that has exited; `Complete` says what no failure means
for a child and for the parent. Then all that was found has been understood, and
`OutputIsIndex` remains: the sort makes a sorted array with the same entries (`Count`,
how often an entry occurs, is kept by every loop), and the grouping makes of it lines
with different words in order, one for each word, which list each entry as often as
it occurs. `IsIndex` counts in the files and in the output, and both counts are `Count`
of the same array. `FindThreadsIndex` has the same end; its invariant `ThreadInv`
says that a worker's array is that of the part of its file it has read, and that the
main thread has joined the workers it has passed.

Checked by TLC only: the liveness properties `ReadyRuns` and `JoinReturns` of `Tus`,
`MainEnds` of the programs over the manager and `BothEnd` of the word indices
(liveness under fairness is outside the prover); and, as they are violations, the runs
of section 7. Every other property of the passing runs is also a theorem, the three
refinements (`Cooperative`, `Fifo`, `Files`) among them.

## 7. Findings

- **No barrier.** Project3/README.txt line 85 describes a barrier semaphore that
  delays requests until all processes have registered. rsm.c has none; run
  `rsm_barrier` grants a request before the second id was ever registered.
- **A join may wait for another thread.** `tus_join` looks its target up by id after
  every yield, and ids are reused once a thread was reaped. With two joiners of one
  thread, the first reaps it and creates a new thread, which gets the same id; the
  second then waits for, and reaps, the new thread (run `tus_join`), while
  Project2/README.md lines 40-41 say that it waits until the target has ended.
- **A create can undo a write.** `write_inode` reads a block of inodes, replaces one
  and writes all back, without a lock, and FUSE calls the handlers from several
  threads (`fuse_main` without `-s`). In run `mfs_threads` a create of `g` reads the
  inode table, a write to `f` completes, and the create writes the old inode of `f`
  back: the bytes are gone (README.txt lines 18-20: existing bytes are not
  overwritten). The bitmap has the same race (`allocate_block`): two files get the
  same block. The model makes each access atomic, which the code does not (lseek
  and read on one shared descriptor), so it shows less than what can happen.
- **A crash in unlink frees the blocks of a file that stays.** `mfs_unlink` frees the
  blocks before it clears the directory entry; killed in between, it leaves a
  listed file whose blocks are given to the next one (run `mfs_unlink`, README.txt
  lines 15-16). `mfs_crash` shows that this is the only place: at any other point a
  crash leaks blocks or an inode at worst.

Met on the way, and not findings against a text of the repository:

- "Terminating deadlocked processes..." (myapp.c line 288, myapp_modified.c line
  303): the parent kills all three children, P2 of the demo too, which is never
  part of the deadlock.
- myapp_modified.c may `kill` (line 306) the pid of a child that `waitpid` has reaped
  in an earlier turn (line 315). `KilledOnlyWhenStuck` says that the demo never does.
- A deadlock that forms after the fourteenth look of the demo is not found, and
  the parent then waits for ever (`MissedDeadlock`).
- findlwp.c writes a word with a vertical tab or a form feed as one record and reads
  it as another, or drops it; findlwt.c lists it. `ImplementsIndex` excludes such
  words, `ThreadsIndex` does not.
- findlwp.c hangs after a failed `select` if a child still has more to write than its
  pipe holds (`Hung`).

## 8. Left out

- In rsm.c: failures of `shm_open`, `mmap` and the semaphores, unmapping, a process
  killed inside the mutex, recycled pids. `rsm_print_state` changes nothing.
- In myapp.c and myapp_modified.c: a fork that fails (-1 stays in `pids[]` and may
  reach `kill`), the reading of the arguments, the measured time.
- In findlwp.c and findlwt.c: the reading of the arguments, file names that are too
  long, exhausted memory, failures of `pipe` and `read`, and what a worker that runs
  on while `main` returns writes to its stack.
- Project2/test_*.c: sequences of calls of the thread library; the runs over `Tus`
  make these calls in every order.
- In tus.c: allocation failures (the calls then return without a change), the return
  of `main`, which ends the process like any C program, and the values returned to
  callers beyond error or success. `rq_push_front` is in `ReadyQueue`, though `Room`
  shows that `tus_yield` never comes to call it.
- In mfs.c: failing reads and writes of the disk file and the undoing they lead to,
  modes and times, `open` and `release`, which change nothing, names the path check
  refuses, and the check against a corrupted size in `mfs_read`. Of make_mfs.c its
  result is modelled, not its steps.
- Timing of the experiments, printed output and formatting; Makefiles, CI settings,
  binaries and reports.
