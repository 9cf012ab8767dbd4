-------------------------------- MODULE Files --------------------------------
(***************************************************************************)
(* What a user of the file system sees: named files that are created       *)
(* empty, grow at their end, are read anywhere and are removed.  A request *)
(* takes effect while it is pending, at once or not at all; a crash        *)
(* leaves requests unanswered and every file as it is.                     *)
(***************************************************************************)
EXTENDS Integers, Sequences, FiniteSetsExt

CONSTANTS
  Request,  \* what may be asked: records with fields op, name, offset, buf, size
  None      \* nothing has been answered yet

VARIABLES
  files,    \* the contents of every file there is
  pending,  \* the requests that are being served
  last      \* the last answer, until the next request comes

vars == <<files, pending, last>>

Init == files = [n \in {} |-> <<>>] /\ pending = {} /\ last = None

Ask(r) == last' = None /\ pending' = pending \cup {r} /\ UNCHANGED files

Answer(r, a) ==
  /\ pending' = pending \ {r}
  /\ last' = [request |-> r, answer |-> a]

\* The units a read of "size" units at "offset" returns: those the file has.
Extract(s, offset, size) == SubSeq(s, offset + 1, Min({offset + size, Len(s)}))

Create(r) ==
  \/ /\ r.name \notin DOMAIN files
     /\ files' = [m \in DOMAIN files \cup {r.name} |-> IF m = r.name THEN <<>> ELSE files[m]]
     /\ Answer(r, "OK")
  \/ r.name \in DOMAIN files /\ Answer(r, "EEXIST") /\ UNCHANGED files
  \/ r.name \notin DOMAIN files /\ Answer(r, "ENOSPC") /\ UNCHANGED files

\* The file grows by the part of the units that the answer counts, or not at all.
Write(r) ==
  LET s == files[r.name]
  IN  IF r.offset # Len(s)
      THEN Answer(r, "EOPNOTSUPP") /\ UNCHANGED files
      ELSE \/ \E k \in 1 .. Len(r.buf) :
                /\ files' = [files EXCEPT ![r.name] = s \o SubSeq(r.buf, 1, k)]
                /\ Answer(r, k)
           \/ \E e \in {"ENOSPC", "EFBIG"} : Answer(r, e) /\ UNCHANGED files

Read(r) == Answer(r, Extract(files[r.name], r.offset, r.size)) /\ UNCHANGED files

Getattr(r) == Answer(r, Len(files[r.name])) /\ UNCHANGED files

\* The file is gone before the answer: a crash may come between.
Remove(r) ==
  /\ r.name \in DOMAIN files
  /\ files' = [m \in DOMAIN files \ {r.name} |-> files[m]]
  /\ UNCHANGED <<pending, last>>

Unlink(r) == r.name \notin DOMAIN files /\ Answer(r, "OK") /\ UNCHANGED files

Absent(r) == r.name \notin DOMAIN files /\ Answer(r, "ENOENT") /\ UNCHANGED files

Readdir(r) == Answer(r, DOMAIN files) /\ UNCHANGED files

Crash == pending' = {} /\ last' = None /\ UNCHANGED files

Next ==
  \/ Crash
  \/ \E r \in Request : Ask(r)
  \/ \E r \in pending :
       \/ r.op = "readdir" /\ Readdir(r)
       \/ r.op = "create" /\ Create(r)
       \/ r.op = "unlink" /\ (Remove(r) \/ Unlink(r))
       \/ r.op \notin {"readdir", "create"} /\ Absent(r)
       \/ r.op = "write" /\ r.name \in DOMAIN files /\ Write(r)
       \/ r.op = "read" /\ r.name \in DOMAIN files /\ Read(r)
       \/ r.op = "getattr" /\ r.name \in DOMAIN files /\ Getattr(r)

Spec == Init /\ [][Next]_vars
=============================================================================
