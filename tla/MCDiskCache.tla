----------------------------- MODULE MCDiskCache ----------------------------
(***************************************************************************)
(* The instance of DiskCache for TLC.  Of a budget of four, the first      *)
(* version fits twice, it and the second evict each other, and the third   *)
(* is rejected.                                                            *)
(***************************************************************************)
EXTENDS DiskCache, TLC

CONSTANTS k1, k2, t1, t2

Costs == <<2, 3, 5>>

Symmetry == Permutations({k1, k2}) \cup Permutations({t1, t2})
==============================================================================
