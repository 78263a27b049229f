---------------------------- MODULE ExclusiveLock ----------------------------
(***************************************************************************)
(* What an exclusive lock promises its clients, whatever implements it:    *)
(* the lock has at most one holder, and it changes hands only by being     *)
(* released first.  LockManager (handles of S3FS instances) and S3Locker   *)
(* (processes sharing a lock object) are both shown to implement it.       *)
(***************************************************************************)
CONSTANTS Client, Nobody

VARIABLE holder

Init == holder = Nobody

Acquire(c) ==
  /\ holder = Nobody
  /\ holder' = c

Release(c) ==
  /\ holder = c
  /\ holder' = Nobody

Next == \E c \in Client : Acquire(c) \/ Release(c)

Spec == Init /\ [][Next]_holder
==============================================================================
