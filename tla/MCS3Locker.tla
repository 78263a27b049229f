----------------------------- MODULE MCS3Locker -----------------------------
(***************************************************************************)
(* Instances of S3Locker for TLC: two processes, of which the second may   *)
(* have a clock one second ahead.                                          *)
(***************************************************************************)
EXTENDS S3Locker

CONSTANTS p1, p2

Agree   == [p \in {p1, p2} |-> 0]
OneFast == [p \in {p1, p2} |-> IF p = p2 THEN 1 ELSE 0]
==============================================================================
