----------------------------- MODULE MCMemCache -----------------------------
(***************************************************************************)
(* Instances of MemCache for TLC.                                          *)
(***************************************************************************)
EXTENDS MemCache, TLC

CONSTANTS d1, d2, f1, f2, t1, t2

\* d2 is a directory in d1, and each has a file: a move of f2 to f1 empties d2,
\* the deletion of both empties d1.
Nested == (d1 :> {d1}) @@ (d2 :> {d1, d2}) @@ (f1 :> {d1}) @@ (f2 :> {d1, d2})

OneDir == (d1 :> {d1}) @@ (f1 :> {d1})

Symmetry == Permutations({t1, t2})
==============================================================================
