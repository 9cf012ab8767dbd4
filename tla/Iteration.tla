----------------------------- MODULE Iteration -----------------------------
(***************************************************************************)
(* Bounded iteration of a function, the form in which the loops of the     *)
(* source are written: one application of f is one turn of the loop body.  *)
(* A function rather than an operator is iterated so that what a loop      *)
(* preserves can be stated, and proved, once for every loop.               *)
(***************************************************************************)
EXTENDS Naturals, Sequences

\* f applied n times to x.
Iterate(f, x, n) ==
  LET it[k \in Nat] == IF k = 0 THEN x ELSE f[it[k - 1]]
  IN  it[n]

\* f[0] + ... + f[n-1], the sum a counting loop accumulates.
Total(f, n) ==
  LET sum[k \in 0 .. n] == IF k = 0 THEN 0 ELSE sum[k - 1] + f[k - 1]
  IN  sum[n]

\* The result of a loop over the entries of s: step takes what was accumulated so far,
\* at first x, and the next entry.
Accumulate(step, x, s) ==
  LET acc[n \in 0 .. Len(s)] == IF n = 0 THEN x ELSE step[acc[n - 1]][s[n]]
  IN  acc[Len(s)]
=============================================================================
