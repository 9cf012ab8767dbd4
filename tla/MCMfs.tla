-------------------------------- MODULE MCMfs --------------------------------
(***************************************************************************)
(* The file system for model checking.  What is written to a file comes    *)
(* from a tape of its own, so that a unit that is lost, doubled, moved or  *)
(* taken from another file is seen.  Each tape is the other with f and g   *)
(* exchanged, so that exchanging them changes nothing else.                *)
(***************************************************************************)
EXTENDS Mfs

CONSTANTS f, g   \* the files and, as units, what is on their tapes

Tape == [n \in {f, g} |-> IF n = f THEN <<f, g, g, f, f, g, f>> ELSE <<g, f, f, g, g, f, g>>]

\* The kernel's requests: <<offset, size>>.
Writes == {<<0, 3>>, <<2, 1>>, <<3, 3>>, <<4, 1>>}
Reads == {<<1, 3>>}

MCRequest ==
  [op : {"readdir"}]
    \cup [op : {"create", "unlink", "getattr"}, name : {f, g}]
    \cup {[op |-> "read", name |-> n, offset |-> w[1], size |-> w[2]] : n \in {f, g}, w \in Reads}
    \cup {[op |-> "write", name |-> n, offset |-> w[1],
            buf |-> SubSeq(Tape[n], w[1] + 1, w[1] + w[2])] : n \in {f, g}, w \in Writes}
Symmetry == Permutations({f, g})
=============================================================================
