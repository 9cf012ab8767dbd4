------------------------------ MODULE FindLwp ------------------------------
(***************************************************************************)
(* The word index of several files with one process per file (findlwp.c):  *)
(* every child reads its file and writes a record for each word to its     *)
(* pipe; the parent takes pieces of records from whichever pipes select    *)
(* reports, puts them together, and writes the sorted index.               *)
(***************************************************************************)
EXTENDS WordIndex

CONSTANTS
  Inputs,       \* the contents the files may have, functions from File
  DataLengths,  \* the values of the argument dataLength
  Capacity,     \* what a pipe holds
  Pieces,       \* how isspace cuts each word, a plain word into itself
  MaxFaults     \* bound on the failures of a run

Symbol == [kind : {"text", "number", "newline"}, val : Nat]
Text(w) == [kind |-> "text", val |-> w]
Number(n) == [kind |-> "number", val |-> n]
Newline == [kind |-> "newline", val |-> 0]

\* A write of at most dataLength bytes is below PIPE_BUF, so it is not divided and
\* fits an empty pipe.
ASSUME FindLwpAssumption ==
  /\ Inputs \subseteq [File -> Content]
  /\ DataLengths \subseteq 1 .. Capacity
  /\ Capacity \in Nat
  /\ Pieces \in [Word -> Seq([kind : {"text", "number"}, val : Nat])]
  /\ \A w \in Word : Pieces[w] # <<>> => Pieces[w][1].val \in Word
  /\ MaxFaults \in Nat

VARIABLES
  files, dataLength,   \* the input
  child,    \* what each child does next
  o,        \* the occurrences each child has found
  rec, off, \* the record each child writes, and how much of it is written
  pipe,     \* the content of each pipe
  writers,  \* the processes that hold the write end of each pipe, 0 is the parent
  parent,   \* what the parent does next: [pc, i]
  closed,   \* closed[], the pipes at whose end the parent has been
  ready,    \* the pipes that select reported and the parent has not read yet
  buffers,  \* the incomplete record of each pipe
  heard,    \* the entries of all[] that came from each pipe; qsort makes their order immaterial
  out,      \* the output file
  faults    \* the failures that have happened

childVars == <<child, o, rec, off>>
readVars == <<closed, ready, buffers, heard>>
vars == <<files, dataLength, childVars, pipe, writers, parent, readVars, out, faults>>

-----------------------------------------------------------------------------
(* Records.  A symbol is a word or number with the blank after it.         *)

Encode(x) == Pieces[x.word] \o <<Number(x.fileIndex), Number(x.lineNo), Newline>>

\* parse_record_line finds a word and two numbers.
Readable(line) == Len(line) >= 3 /\ line[2].kind = "number" /\ line[3].kind = "number"

Record(line) == [word |-> line[1].val, fileIndex |-> line[2].val, lineNo |-> line[3].val]

Parsed(line) == IF Readable(line) THEN <<Record(line)>> ELSE <<>>

\* A number behind a word that isspace cuts may be taken for the next field, so the word
\* of a record is any value.
Buffer == [ records : Seq([word : Nat, fileIndex : Nat, lineNo : Nat]), rest : Seq(Symbol) ]

\* Mutant: the record stays in the buffer.
TakeKept ==
  [b \in Buffer |-> [x \in Symbol |->
     IF x = Newline THEN [b EXCEPT !.records = @ \o Parsed(b.rest)]
                    ELSE [b EXCEPT !.rest = Append(@, x)]]]

\* A newline completes a record, any other symbol makes it longer.
Take ==
  [b \in Buffer |-> [x \in Symbol |->
     IF x = Newline THEN [records |-> b.records \o Parsed(b.rest), rest |-> <<>>]
                    ELSE [b EXCEPT !.rest = Append(@, x)]]]

\* What is understood of the content of a buffer, and what is left in it.
Taken(content) == Accumulate(Take, [records |-> <<>>, rest |-> <<>>], content)

-----------------------------------------------------------------------------
(* The children.                                                           *)

CloseInherited(i) ==
  /\ child[i] = "close"
  /\ writers' = [j \in File |-> IF j = i THEN writers[j] ELSE writers[j] \ {i}]
  /\ child' = [child EXCEPT ![i] = "read"]
  /\ UNCHANGED <<files, dataLength, o, rec, off, pipe, parent, readVars, out, faults>>

\* A process that ends closes what it still holds.
Gone(i) == writers' = [j \in File |-> writers[j] \ {i}]

ReadFile(i) ==
  /\ child[i] = "read"
  /\ \/ /\ files[i].found
        /\ o' = [o EXCEPT ![i] = Occurrences(i, files[i].tokens)]
        /\ child' = [child EXCEPT ![i] = "write"]
        /\ UNCHANGED writers
     \/ /\ ~ files[i].found
        /\ child' = [child EXCEPT ![i] = "exited"]
        /\ Gone(i)
        /\ UNCHANGED o
  /\ UNCHANGED <<files, dataLength, rec, off, pipe, parent, readVars, out, faults>>

\* Mutant: the place in the record is not set back for the next one.
AfterChunkKept(r, n, len) == [rec |-> IF n = len THEN r + 1 ELSE r, off |-> n]

\* Where the child is once it has written n of the len symbols of record r.
AfterChunk(r, n, len) ==
  IF n = len THEN [rec |-> r + 1, off |-> 0] ELSE [rec |-> r, off |-> n]

\* Mutant: the children keep the read ends they inherited.
HasReaderKept(i) ==
  \/ parent.pc # "failed" /\ parent.pc # "done" /\ i \notin closed
  \/ \E j \in File : child[j] \notin {"unborn", "exited"}

\* Somebody could still read the pipe: the parent, or a child that has not closed
\* the ends it inherited.
HasReader(i) ==
  \/ parent.pc # "failed" /\ parent.pc # "done" /\ i \notin closed
  \/ \E j \in File : child[j] = "close"

\* writeToParent, one write: it waits until the pipe has room for the whole chunk, and
\* without a reader it ends the child (SIGPIPE).
WriteChunk(i) ==
  LET bytes == Encode(o[i][rec[i]])
      n == Min({off[i] + dataLength, Len(bytes)})
      chunk == SubSeq(bytes, off[i] + 1, n)
      next == AfterChunk(rec[i], n, Len(bytes))
  IN  /\ child[i] = "write" /\ rec[i] <= Len(o[i])
      /\ \/ /\ HasReader(i)
            /\ Len(pipe[i]) + Len(chunk) <= Capacity
            /\ pipe' = [pipe EXCEPT ![i] = @ \o chunk]
            /\ rec' = [rec EXCEPT ![i] = next.rec]
            /\ off' = [off EXCEPT ![i] = next.off]
            /\ UNCHANGED <<child, writers>>
         \/ /\ ~ HasReader(i)
            /\ child' = [child EXCEPT ![i] = "exited"]
            /\ Gone(i)
            /\ UNCHANGED <<pipe, rec, off>>
      /\ UNCHANGED <<files, dataLength, o, parent, readVars, out, faults>>

ChildExit(i) ==
  /\ child[i] = "write" /\ rec[i] > Len(o[i])
  /\ child' = [child EXCEPT ![i] = "exited"]
  /\ Gone(i)
  /\ UNCHANGED <<files, dataLength, o, rec, off, pipe, parent, readVars, out, faults>>

ChildStep(i) == CloseInherited(i) \/ ReadFile(i) \/ WriteChunk(i) \/ ChildExit(i)

-----------------------------------------------------------------------------
(* The parent.                                                             *)

At(pc) == parent.pc = pc
ParentAt(pc, i) == parent' = [pc |-> pc, i |-> i]

\* The child gets a copy of every end the parent has open.
ForkChild ==
  /\ At("fork")
  /\ child' = [child EXCEPT ![parent.i] = "close"]
  /\ writers' = [j \in File |-> IF 0 \in writers[j] THEN writers[j] \cup {parent.i} ELSE writers[j]]
  /\ ParentAt("close", parent.i)
  /\ UNCHANGED <<files, dataLength, o, rec, off, pipe, readVars, out, faults>>

\* Mutant: the parent keeps the write ends.
CloseWriteKept ==
  /\ At("close")
  /\ IF parent.i < N THEN ParentAt("fork", parent.i + 1) ELSE ParentAt("select", 1)
  /\ UNCHANGED <<files, dataLength, childVars, pipe, writers, readVars, out, faults>>

CloseWrite ==
  /\ At("close")
  /\ writers' = [writers EXCEPT ![parent.i] = @ \ {0}]
  /\ IF parent.i < N THEN ParentAt("fork", parent.i + 1) ELSE ParentAt("select", 1)
  /\ UNCHANGED <<files, dataLength, childVars, pipe, readVars, out, faults>>

AtEnd(i) == pipe[i] = <<>> /\ writers[i] = {}

\* select returns when a pipe that is not closed has something to read or is at its end.
Select ==
  /\ At("select") /\ ready = {} /\ closed # File
  /\ ready' = {i \in File \ closed : pipe[i] # <<>> \/ AtEnd(i)}
  /\ ready' # {}
  /\ UNCHANGED <<files, dataLength, childVars, pipe, writers, parent, closed, buffers, heard, out, faults>>

\* read returns at most dataLength symbols of what is there, or nothing at the end.
ReadPipe(i) ==
  LET r == Min({dataLength, Len(pipe[i])})
      taken == Taken(buffers[i] \o SubSeq(pipe[i], 1, r))
  IN  /\ At("select") /\ i = Min(ready)
      /\ ready' = ready \ {i}
      /\ IF r = 0
         THEN /\ AtEnd(i)
              /\ closed' = closed \cup {i}
              /\ UNCHANGED <<pipe, buffers, heard>>
         ELSE /\ pipe' = [pipe EXCEPT ![i] = SubSeq(@, r + 1, Len(@))]
              /\ heard' = [heard EXCEPT ![i] = @ \o taken.records]
              /\ buffers' = [buffers EXCEPT ![i] = taken.rest]
              /\ UNCHANGED closed
      /\ UNCHANGED <<files, dataLength, childVars, writers, parent, out, faults>>

\* The loop over the pipes is over.
LoopOver == (At("select") /\ ready = {} /\ closed = File) \/ At("broken")

\* Sort, group and write, then wait for the children.
WriteOutput ==
  /\ LoopOver
  /\ out' = Output(FlattenSeq([i \in File |-> heard[i]]))
  /\ ParentAt("wait", 1)
  /\ UNCHANGED <<files, dataLength, childVars, pipe, writers, readVars, faults>>

WaitChild ==
  /\ At("wait")
  /\ child[parent.i] = "exited"
  /\ IF parent.i < N THEN ParentAt("wait", parent.i + 1) ELSE ParentAt("done", 1)
  /\ UNCHANGED <<files, dataLength, childVars, pipe, writers, readVars, out, faults>>

ParentStep ==
  ForkChild \/ CloseWrite \/ Select \/ (\E i \in ready : ReadPipe(i)) \/ WriteOutput \/ WaitChild

-----------------------------------------------------------------------------
(* Failures.                                                               *)

Fault == faults < MaxFaults /\ faults' = faults + 1

Killed(i) ==
  /\ Fault
  /\ child[i] \in {"close", "read", "write"}
  /\ child' = [child EXCEPT ![i] = "exited"]
  /\ Gone(i)
  /\ UNCHANGED <<files, dataLength, o, rec, off, pipe, parent, readVars, out>>

\* fork fails, or the output cannot be opened: the parent returns from main, its
\* descriptors are closed, and nobody waits for the children.
ParentFails ==
  /\ Fault
  /\ At("fork") \/ LoopOver
  /\ ParentAt("failed", 1)
  /\ writers' = [j \in File |-> writers[j] \ {0}]
  /\ UNCHANGED <<files, dataLength, childVars, pipe, readVars, out>>

\* The parent leaves the loop, keeps the pipes open and goes on with what it has.
SelectFails ==
  /\ Fault
  /\ At("select") /\ ready = {} /\ closed # File
  /\ ParentAt("broken", 1)
  /\ UNCHANGED <<files, dataLength, childVars, pipe, writers, readVars, out>>

-----------------------------------------------------------------------------
Init ==
  /\ files \in Inputs
  /\ dataLength \in DataLengths
  /\ child = [i \in File |-> "unborn"]
  /\ o = [i \in File |-> <<>>]
  /\ rec = [i \in File |-> 1]
  /\ off = [i \in File |-> 0]
  /\ pipe = [i \in File |-> <<>>]
  /\ writers = [i \in File |-> {0}]
  /\ parent = [pc |-> "fork", i |-> 1]
  /\ closed = {}
  /\ ready = {}
  /\ buffers = [i \in File |-> <<>>]
  /\ heard = [i \in File |-> <<>>]
  /\ out = <<>>
  /\ faults = 0

Ended == parent.pc \in {"done", "failed"} /\ \A i \in File : child[i] \in {"unborn", "exited"}

Next ==
  \/ ParentStep
  \/ \E i \in File : ChildStep(i)
  \/ \E i \in File : Killed(i)
  \/ ParentFails
  \/ SelectFails

\* The operating system runs every process that is not blocked.
Fairness == WF_vars(ParentStep) /\ \A i \in File : WF_vars(ChildStep(i))

Spec == Init /\ [][Next]_vars /\ Fairness

-----------------------------------------------------------------------------
(* Properties.                                                             *)

\* The state has its types; no child writes past a record, no pipe holds more than it
\* can, and the parent keeps no complete record and reads no pipe it has closed.
TypeOK ==
  /\ files \in Inputs /\ dataLength \in DataLengths
  /\ child \in [File -> {"unborn", "close", "read", "write", "exited"}]
  /\ o \in [File -> Seq(Occurrence)] /\ heard \in [File -> Seq(Occurrence)]
  /\ rec \in [File -> Nat] /\ off \in [File -> Nat]
  /\ pipe \in [File -> Seq(Symbol)] /\ buffers \in [File -> Seq(Symbol)]
  /\ \A i \in File :
       /\ rec[i] \in 1 .. Len(o[i]) + 1
       /\ off[i] \in 0 .. IF rec[i] <= Len(o[i]) THEN Len(Encode(o[i][rec[i]])) - 1 ELSE 0
       /\ Len(pipe[i]) <= Capacity
       /\ \A n \in DOMAIN buffers[i] : buffers[i][n] # Newline
  /\ writers \in [File -> SUBSET (File \cup {0})]
  /\ parent \in [ pc : {"fork", "close", "select", "broken", "wait", "done", "failed"},
                  i : File ]
  /\ closed \subseteq File /\ ready \subseteq File \ closed
  /\ faults \in 0 .. MaxFaults

\* The symbols of the first n records.
Stream(os, n) == FlattenSeq([k \in 1 .. n |-> Encode(os[k])])

\* Nothing is lost, repeated, reordered or cut on the way, wherever the writes and the
\* reads cut the stream: what the parent has understood, what it keeps in the buffer
\* and what is in the pipe are together what the child has written, also when the
\* child is killed in the middle of a record.
StreamIntact ==
  \A i \in File :
    LET sent == SubSeq(Stream(o[i], Len(o[i])), 1, Len(Stream(o[i], rec[i] - 1)) + off[i])
    IN  \E m \in 0 .. Len(o[i]) :
          /\ Stream(o[i], m) \o buffers[i] \o pipe[i] = sent
          /\ heard[i] = FlattenSeq([n \in 1 .. m |-> Parsed(Front(Encode(o[i][n])))])

Plain == \A f \in File : \A n \in DOMAIN files[f].tokens :
           LET w == files[f].tokens[n].word IN Pieces[w] = <<Text(w)>>

\* A run in which nothing fails writes the index of its files, if every word is one
\* word for isspace too.
ImplementsIndex == At("done") /\ faults = 0 /\ Plain => IsIndex(out, files)

\* Child i cannot go on before somebody reads its pipe.
StuckOnPipe(i) == child[i] = "write" /\ HasReader(i) /\ ~ ENABLED ChildStep(i)

\* After select has failed, the parent waits for a child that waits for the parent.
Hung == At("wait") /\ closed # File /\ StuckOnPipe(parent.i)

\* All processes end, also when one of the children is killed or fork fails: every
\* pipe comes to its end, and no write waits for a reader that has gone.  A
\* failed select is the one exception.
Ends == <>[](Ended \/ Hung)
=============================================================================
