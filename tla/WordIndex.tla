----------------------------- MODULE WordIndex -----------------------------
(***************************************************************************)
(* What findlwp.c and findlwt.c share: which words of a file count, the    *)
(* order of their occurrences, and the lines of the output file; and,      *)
(* independent of how they are computed, what the output should be.        *)
(***************************************************************************)
EXTENDS Integers, Sequences, FiniteSets, SequencesExt, Iteration

CONSTANTS
  N,       \* number of input files
  K,       \* shortest word that counts
  Word,    \* words, ordered as strcmp orders them
  Strlen   \* length of each word

ASSUME WordIndexAssumption ==
  /\ N \in Nat \ {0}
  /\ K \in Nat \ {0}
  /\ Word \subseteq Nat
  /\ Strlen \in [Word -> Nat \ {0}]

File == 1 .. N

\* A file is missing, or it is the sequence of its words in reading order, each with
\* the number of its line.
Token == [word : Word, lineNo : Nat \ {0}]
Content == {c \in [found : BOOLEAN, tokens : Seq(Token)] : c.found \/ c.tokens = <<>>}

Occurrence == [word : Word, fileIndex : Nat, lineNo : Nat]

\* The array of file i after one more word.
PushWord(i) ==
  [found \in Seq(Occurrence) |-> [t \in Token |->
     IF Strlen[t.word] < K THEN found
     ELSE Append(found, [word |-> t.word, fileIndex |-> i, lineNo |-> t.lineNo])]]

\* The array that the reading of file i fills.
Occurrences(i, tokens) == Accumulate(PushWord(i), <<>>, tokens)

\* Mutant: the files are compared the wrong way round.
cmp_occurrence_swapped(a, b) ==
  \/ a.word < b.word
  \/ a.word = b.word /\ b.fileIndex < a.fileIndex
  \/ a.word = b.word /\ a.fileIndex = b.fileIndex /\ a.lineNo < b.lineNo

cmp_occurrence(a, b) ==
  \/ a.word < b.word
  \/ a.word = b.word /\ a.fileIndex < b.fileIndex
  \/ a.word = b.word /\ a.fileIndex = b.fileIndex /\ a.lineNo < b.lineNo

\* A sorted array with x at its place.
Placed ==
  [sorted \in Seq(Occurrence) |-> [x \in Occurrence |->
     LET k == Max({0} \cup {n \in DOMAIN sorted : ~ cmp_occurrence(x, sorted[n])})
     IN  SubSeq(sorted, 1, k) \o <<x>> \o SubSeq(sorted, k + 1, Len(sorted))]]

\* Entries that compare equal are equal, so every way to sort gives the same array.
qsort(all) == Accumulate(Placed, <<>>, all)

Line == [word : Word, count : Nat, places : Seq(Nat \X Nat)]

\* The lines of the output with one more entry: on the last line, or on a new one.
Printed ==
  [lines \in Seq(Line) |-> [x \in Occurrence |->
     LET place == <<x.fileIndex, x.lineNo>>
         m == Len(lines)
     IN  IF m > 0 /\ lines[m].word = x.word
         THEN [lines EXCEPT ![m].count = @ + 1, ![m].places = Append(@, place)]
         ELSE Append(lines, [word |-> x.word, count |-> 1, places |-> <<place>>])]]

\* The lines of the output: one for each run of equal words in the sorted array.
Lines(all) == Accumulate(Printed, <<>>, all)

Output(all) == Lines(qsort(all))

-----------------------------------------------------------------------------
(* The output a reader of the files expects, whatever the program does.    *)

\* How often word w stands on line l of file f, if it counts.
Times(files, w, f, l) ==
  IF Strlen[w] < K THEN 0
  ELSE Cardinality({n \in DOMAIN files[f].tokens : files[f].tokens[n] = [word |-> w, lineNo |-> l]})

Listed(out, w, f, l) ==
  Cardinality({mn \in UNION {{m} \X DOMAIN out[m].places : m \in DOMAIN out} :
                 out[mn[1]].word = w /\ out[mn[1]].places[mn[2]] = <<f, l>>})

InOrder(a, b) == a[1] < b[1] \/ (a[1] = b[1] /\ a[2] <= b[2])

IsIndex(out, files) ==
  /\ \A m, n \in DOMAIN out : m < n => out[m].word < out[n].word
  /\ \A m \in DOMAIN out :
       /\ out[m].count = Len(out[m].places) /\ out[m].count > 0
       /\ \A a, b \in DOMAIN out[m].places : a < b => InOrder(out[m].places[a], out[m].places[b])
       /\ \A k \in DOMAIN out[m].places :
            Times(files, out[m].word, out[m].places[k][1], out[m].places[k][2]) > 0
  /\ \A f \in File : \A n \in DOMAIN files[f].tokens :
       LET t == files[f].tokens[n]
       IN  Listed(out, t.word, f, t.lineNo) = Times(files, t.word, f, t.lineNo)
=============================================================================
