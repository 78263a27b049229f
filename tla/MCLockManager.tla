---------------------------- MODULE MCLockManager ----------------------------
(***************************************************************************)
(* Instances of LockManager for TLC.  Handles and goroutines are assigned  *)
(* to instances; one instance is enough for what happens inside a process, *)
(* two for what the backend arbitrates.                                    *)
(***************************************************************************)
EXTENDS LockManager

CONSTANTS p1, p2, h1, h2, h3, t1, t2, t3

\* Two instances: h1, h2, t1 and t2 in the first, h3 and t3 in the second.
TwoProcHome == [x \in {h1, h2, h3, t1, t2, t3} |->
                  IF x \in {h3, t3} THEN p2 ELSE p1]

\* One instance.
OneProcHome == [x \in Handle \cup Thread |-> p1]
==============================================================================
