--------------------------- MODULE S3LockerProofs ---------------------------
(***************************************************************************)
(* Proofs about S3Locker, for any number of processes, clocks, calls and   *)
(* failures.                                                               *)
(***************************************************************************)
EXTENDS S3Locker, TLAPS

------------------------------------------------------------------------------
(* The invariant that needs no timing.                                     *)

\* Owner IDs are not used twice: an object of p is from this or an earlier
\* Lock, and from an earlier one while Lock is under way.
OwnerInv ==
  \A p \in Proc : obj # NoObj /\ obj.owner[1] = p =>
    /\ obj.owner[2] <= epoch[p]
    /\ Waiting(p) => obj.owner[2] < epoch[p]

\* A takeover is conditional on an object that was found expired.
SeenInv ==
  \A p \in Proc :
    IF pc[p] = "takeover" THEN Expired(p, seen[p]) ELSE seen[p] = NoObj

\* The heartbeat runs between Lock and the join of Unlock, for an object of
\* this Lock.
HeartInv ==
  \A p \in Proc :
    /\ hb[p] \in {"wait", "put"} => pc[p] \in {"held", "stopping"}
    /\ pc[p] \in {"held", "stopping"} =>
         hb[p] # "none" /\ etag[p] # NoObj /\ etag[p].owner = Me(p)

\* Unless an answer was lost, the heartbeat knows the object it renews.
EtagInv ==
  ~LostRenewal =>
    \A p \in Proc : hb[p] \in {"wait", "put"} /\ Owns(p) => obj = etag[p]

\* Unless an answer was lost, it does not stop while the object is its own.
RenewInv == ~LostRenewal => RenewalStopsOnlyWhenLost

LeaseInv == TypeOK /\ OwnerInv /\ SeenInv /\ HeartInv /\ EtagInv /\ RenewInv

\* What is written is a lease of the writer.
LEMMA PutLockType ==
  ASSUME TypeOK, NEW p \in Proc, NEW t \in Nat
  PROVE  /\ putLock(p, t) \in Lease /\ putLock(p, t) # NoObj
         /\ putLock(p, t).owner = Me(p) /\ Me(p) = <<p, epoch[p]>>
         /\ putLock(p, t).exp = t + Skew[p] + TTL
BY S3LockerAssumption DEF S3LockerAssumption, TypeOK, Lease, putLock, Me

\* The initial state satisfies the invariant.
LEMMA InitLeaseInv == Init => LeaseInv
BY S3LockerAssumption
   DEF S3LockerAssumption, Init, LeaseInv, TypeOK, PC, OwnerInv, SeenInv, HeartInv, EtagInv,
       RenewInv, RenewalStopsOnlyWhenLost, Owns

\* The ticker's next value lies ahead, at most one period.
LEMMA TickerAdvances ==
  ASSUME NEW n \in Nat, NEW t \in Nat, n >= t
  PROVE  /\ t + Interval * ((n - t) \div Interval + 1) \in Nat
         /\ t + Interval * ((n - t) \div Interval + 1) > n
         /\ t + Interval * ((n - t) \div Interval + 1) <= n + Interval
<1> DEFINE d == (n - t) \div Interval
<1>1. Interval \in Nat \ {0}
  BY S3LockerAssumption DEF S3LockerAssumption
<1>2. n - t \in Nat
  OBVIOUS
<1>3. d \in Nat /\ Interval * d <= n - t /\ n - t < Interval * (d + 1)
  BY <1>1, <1>2
<1> HIDE DEF d
<1>4. Interval * (d + 1) = Interval * d + Interval
  BY <1>1, <1>3
<1>5. Interval * d \in Nat
  BY <1>1, <1>3
<1> QED
  BY <1>1, <1>2, <1>3, <1>4, <1>5 DEF d

\* A step of a process that neither holds the lock nor stops its heartbeat
\* keeps the invariant; it may delete the object or, when Lock ends with it,
\* write its own.
LEMMA MoveStep ==
  ASSUME LeaseInv, NEW p \in Proc, NEW s \in PC,
         pc[p] \notin {"held", "stopping"}, s \notin {"held", "stopping"},
         pc' = [pc EXCEPT ![p] = s],
         Waiting(p)' => Waiting(p),
         \/ obj' \in {obj, NoObj}
         \/ obj' = putLock(p, at[p]) /\ ~Waiting(p)',
         at' \in [Proc -> Nat], seen' \in [Proc -> Lease \cup {NoObj}], faults' \in Nat,
         SeenInv', UNCHANGED <<now, epoch, heart>>
  PROVE  LeaseInv'
<1> USE S3LockerAssumption DEF S3LockerAssumption, LeaseInv, heart
<1>0. /\ putLock(p, at[p]) \in Lease /\ putLock(p, at[p]) # NoObj
      /\ putLock(p, at[p]).owner = <<p, epoch[p]>>
  BY PutLockType DEF TypeOK
<1>1. TypeOK'
  BY <1>0 DEF TypeOK
<1>2. hb[p] \notin {"wait", "put"} /\ \A q \in Proc \ {p} : pc'[q] = pc[q]
  BY DEF HeartInv, TypeOK
<1>3. OwnerInv'
  BY <1>0, <1>2 DEF OwnerInv, Waiting, TypeOK, Lease
<1>4. HeartInv'
  BY <1>2 DEF HeartInv, Me, TypeOK
<1>5. EtagInv'
  BY <1>0, <1>2 DEF EtagInv, Owns, Me
<1>6. RenewInv'
  BY <1>0, <1>2 DEF RenewInv, RenewalStopsOnlyWhenLost, HeartInv, Owns, Me, TypeOK
<1> QED
  BY <1>1, <1>3, <1>4, <1>5, <1>6

\* A Lock that is granted keeps the invariant.
LEMMA GrantStep ==
  ASSUME LeaseInv, NEW p \in Proc, pc[p] \in {"create", "takeover"},
         obj' = putLock(p, at[p]), StartHeartbeat(p, obj'),
         seen' = [seen EXCEPT ![p] = NoObj],
         UNCHANGED <<now, epoch, faults>>
  PROVE  LeaseInv'
<1> USE S3LockerAssumption DEF S3LockerAssumption, LeaseInv, StartHeartbeat, Goto
<1>0. /\ obj' \in Lease /\ obj' # NoObj /\ obj'.owner = <<p, epoch[p]>>
  BY PutLockType DEF TypeOK
<1>1. TypeOK'
  BY <1>0 DEF TypeOK, PC
<1>2. /\ pc'[p] = "held" /\ hb'[p] = "wait" /\ etag'[p] = obj'
      /\ \A q \in Proc \ {p} : pc'[q] = pc[q] /\ hb'[q] = hb[q] /\ etag'[q] = etag[q]
  BY DEF TypeOK
<1>3. OwnerInv'
  BY <1>0, <1>2 DEF OwnerInv, Waiting, TypeOK
<1>4. SeenInv'
  BY DEF SeenInv, Expired, Clock, TypeOK
<1>5. HeartInv'
  BY <1>0, <1>2 DEF HeartInv, Me
<1>6. EtagInv'
  BY <1>0, <1>2 DEF EtagInv, Owns, Me
<1>7. RenewInv'
  BY <1>0, <1>2 DEF RenewInv, RenewalStopsOnlyWhenLost, HeartInv, Owns, Me, TypeOK
<1> QED
  BY <1>1, <1>3, <1>4, <1>5, <1>6, <1>7

\* The requests of Lock keep the invariant.
LEMMA AcquireStepInv ==
  ASSUME LeaseInv, NEW p \in Proc,
         Create(p) \/ Head(p) \/ Takeover(p) \/ Retry(p) \/ LockFail(p) \/ CancelLock(p)
  PROVE  LeaseInv'
<1> USE S3LockerAssumption DEF S3LockerAssumption, LeaseInv, Goto
<1>1. CASE Create(p) /\ obj = NoObj
  <2>1. seen' = [seen EXCEPT ![p] = NoObj]
    BY <1>1 DEF Create, SeenInv, TypeOK
  <2> QED
    BY <1>1, <2>1, GrantStep DEF Create
<1>2. CASE Takeover(p) /\ obj = seen[p]
  BY <1>2, GrantStep DEF Takeover
<1>3. CASE Create(p) /\ obj # NoObj
  <2>1. SeenInv' /\ at' \in [Proc -> Nat] /\ seen' = seen
    BY <1>3 DEF Create, SeenInv, Expired, Clock, TypeOK
  <2> QED
    BY <1>3, <2>1, MoveStep DEF Create, Waiting, PC, TypeOK
<1>4. CASE Head(p)
  <2>1. /\ SeenInv' /\ at' \in [Proc -> Nat] /\ seen' \in [Proc -> Lease \cup {NoObj}]
        /\ \E s \in {"poll", "takeover"} : pc' = [pc EXCEPT ![p] = s]
    BY <1>4 DEF Head, SeenInv, Expired, Clock, TypeOK
  <2> QED
    BY <1>4, <2>1, MoveStep DEF Head, Waiting, PC, TypeOK
<1>5. CASE Takeover(p) /\ obj # seen[p]
  <2>1. /\ SeenInv' /\ at' \in [Proc -> Nat] /\ seen' \in [Proc -> Lease \cup {NoObj}]
        /\ \E s \in {"poll", "idle"} : pc' = [pc EXCEPT ![p] = s]
    BY <1>5 DEF Takeover, SeenInv, Expired, Clock, TypeOK
  <2> QED
    BY <1>5, <2>1, MoveStep DEF Takeover, Waiting, PC, TypeOK
<1>6. CASE Retry(p) \/ CancelLock(p)
  <2>1. /\ SeenInv' /\ at' \in [Proc -> Nat] /\ seen' = seen
        /\ \E s \in {"create", "idle"} : pc' = [pc EXCEPT ![p] = s]
    BY <1>6 DEF Retry, CancelLock, SeenInv, Expired, Clock, TypeOK
  <2>2. /\ pc[p] = "poll" /\ faults' \in Nat /\ obj' = obj
        /\ UNCHANGED <<now, epoch, heart>>
    BY <1>6 DEF Retry, CancelLock, TypeOK
  <2> QED
    BY <2>1, <2>2, MoveStep DEF Waiting, PC, TypeOK
<1>7. CASE LockFail(p)
  <2>1. /\ SeenInv' /\ at' \in [Proc -> Nat] /\ seen' \in [Proc -> Lease \cup {NoObj}]
        /\ faults' \in Nat
    BY <1>7 DEF LockFail, Fault, SeenInv, Expired, Clock, TypeOK
  <2>2. /\ pc[p] \in {"create", "head", "takeover"} /\ pc' = [pc EXCEPT ![p] = "idle"]
        /\ obj' = obj \/ obj' = putLock(p, at[p])
        /\ UNCHANGED <<now, epoch, heart>>
    BY <1>7 DEF LockFail
  <2>3. ~Waiting(p)'
    BY <2>2 DEF Waiting, TypeOK
  <2> QED
    BY <2>1, <2>2, <2>3, MoveStep DEF PC, TypeOK
<1> QED
  BY <1>1, <1>2, <1>3, <1>4, <1>5, <1>6, <1>7

\* Lock keeps the invariant: the owner ID is new.
LEMMA LockStepInv ==
  ASSUME LeaseInv, NEW p \in Proc, Lock(p)
  PROVE  LeaseInv'
<1> USE S3LockerAssumption DEF S3LockerAssumption, LeaseInv, Lock, Goto
<1>1. TypeOK'
  BY DEF TypeOK, PC
<1>2. OwnerInv'
  BY DEF OwnerInv, Waiting, HeartInv, TypeOK, Lease
<1>3. SeenInv'
  BY DEF SeenInv, Expired, Clock, TypeOK, Lease
<1>4. HeartInv'
  BY DEF HeartInv, Me, TypeOK
<1>5. EtagInv'
  BY DEF EtagInv, OwnerInv, HeartInv, Owns, Me, TypeOK, Lease
<1>6. RenewInv'
  BY DEF RenewInv, RenewalStopsOnlyWhenLost, EtagInv, OwnerInv, HeartInv, Owns, Me, TypeOK, Lease
<1> QED
  BY <1>1, <1>2, <1>3, <1>4, <1>5, <1>6

\* The tick of the heartbeat keeps the invariant.
LEMMA HbTickStepInv ==
  ASSUME LeaseInv, NEW p \in Proc, HbTick(p)
  PROVE  LeaseInv'
<1> USE S3LockerAssumption DEF S3LockerAssumption, LeaseInv, HbTick, HbStep
<1>1. TypeOK'
  <2>1. tick' \in [Proc -> Nat]
    BY TickerAdvances DEF TypeOK
  <2> QED
    BY <2>1 DEF TypeOK
<1>2. OwnerInv'
  BY DEF OwnerInv, Waiting, HeartInv, TypeOK, Lease
<1>3. SeenInv'
  BY DEF SeenInv, Expired, Clock, TypeOK, Lease
<1>4. HeartInv'
  BY DEF HeartInv, Me, TypeOK
<1>5. EtagInv'
  BY DEF EtagInv, OwnerInv, HeartInv, Owns, Me, TypeOK, Lease
<1>6. RenewInv'
  BY DEF RenewInv, RenewalStopsOnlyWhenLost, EtagInv, OwnerInv, HeartInv, Owns, Me, TypeOK, Lease
<1> QED
  BY <1>1, <1>2, <1>3, <1>4, <1>5, <1>6

\* The end of the heartbeat on h.stop keeps the invariant.
LEMMA HbStopStepInv ==
  ASSUME LeaseInv, NEW p \in Proc, HbStop(p)
  PROVE  LeaseInv'
<1> USE S3LockerAssumption DEF S3LockerAssumption, LeaseInv, HbStop, HbStep
<1>1. TypeOK'
  BY DEF TypeOK
<1>2. OwnerInv'
  BY DEF OwnerInv, Waiting, HeartInv, TypeOK, Lease
<1>3. SeenInv'
  BY DEF SeenInv, Expired, Clock, TypeOK, Lease
<1>4. HeartInv'
  BY DEF HeartInv, Me, TypeOK
<1>5. EtagInv'
  BY DEF EtagInv, OwnerInv, HeartInv, Owns, Me, TypeOK, Lease
<1>6. RenewInv'
  BY DEF RenewInv, RenewalStopsOnlyWhenLost, EtagInv, OwnerInv, HeartInv, Owns, Me, TypeOK, Lease
<1> QED
  BY <1>1, <1>2, <1>3, <1>4, <1>5, <1>6

\* The renewal keeps the invariant, with the new ETag or when it fails.
LEMMA RenewStepInv ==
  ASSUME LeaseInv, NEW p \in Proc, HbPut(p) \/ HbFail(p)
  PROVE  LeaseInv'
<1> USE S3LockerAssumption DEF S3LockerAssumption, LeaseInv, HbStep
<1>0. /\ putLock(p, hbAt[p]) \in Lease /\ putLock(p, hbAt[p]) # NoObj
      /\ putLock(p, hbAt[p]).owner = <<p, epoch[p]>>
  BY PutLockType DEF TypeOK
<1>1. /\ hb[p] = "put" /\ pc[p] \in {"held", "stopping"}
      /\ etag[p] # NoObj /\ etag[p].owner = <<p, epoch[p]>>
      /\ UNCHANGED <<now, pc, epoch, at, seen, tick>>
      /\ hbAt' \in [Proc -> Nat] /\ faults' \in Nat
      /\ \A q \in Proc \ {p} : hb'[q] = hb[q] /\ etag'[q] = etag[q]
  BY DEF HbPut, HbFail, Fault, HeartInv, Me, TypeOK
<1>2. \/ /\ obj' = putLock(p, hbAt[p]) /\ obj = etag[p]
         /\ \/ etag' = [etag EXCEPT ![p] = obj']
            \/ etag' = etag /\ LostRenewal
         /\ hb' = [hb EXCEPT ![p] = "wait"]
      \/ obj' = obj /\ etag' = etag /\ hb' = [hb EXCEPT ![p] = "wait"]
      \/ obj' = obj /\ etag' = etag /\ hb' = [hb EXCEPT ![p] = "done"] /\ obj # etag[p]
  BY DEF HbPut, HbFail
<1> HIDE DEF HbStep
<1>3. TypeOK'
  BY <1>0, <1>1, <1>2 DEF TypeOK
<1>4. OwnerInv'
  BY <1>0, <1>1, <1>2 DEF OwnerInv, Waiting, TypeOK
<1>5. SeenInv'
  BY <1>1 DEF SeenInv, Expired, Clock
<1>6. HeartInv'
  BY <1>0, <1>1, <1>2 DEF HeartInv, Me, TypeOK
<1>7. EtagInv'
  BY <1>0, <1>1, <1>2 DEF EtagInv, Owns, Me, TypeOK
<1>8. RenewInv'
  BY <1>0, <1>1, <1>2 DEF RenewInv, RenewalStopsOnlyWhenLost, EtagInv, HeartInv, Owns, Me, TypeOK
<1> QED
  BY <1>3, <1>4, <1>5, <1>6, <1>7, <1>8

\* Unlock up to the join keeps the invariant.
LEMMA StopStepInv ==
  ASSUME LeaseInv, NEW p \in Proc, Unlock(p) \/ UnlockJoin(p)
  PROVE  LeaseInv'
<1> USE S3LockerAssumption
    DEF S3LockerAssumption, LeaseInv, Unlock, UnlockJoin, Goto, heart
<1>1. pc' \in [Proc -> PC] /\ at' \in [Proc -> Nat]
  BY DEF TypeOK, PC
<1>2. TypeOK'
  BY <1>1 DEF TypeOK
<1>3. OwnerInv' /\ SeenInv'
  BY DEF OwnerInv, SeenInv, Waiting, Expired, Clock, TypeOK
<1>4. HeartInv'
  BY DEF HeartInv, Me, TypeOK
<1>5. EtagInv'
  BY DEF EtagInv, Owns, Me, TypeOK
<1>6. RenewInv'
  BY DEF RenewInv, RenewalStopsOnlyWhenLost, Owns, Me, TypeOK
<1> QED
  BY <1>2, <1>3, <1>4, <1>5, <1>6

\* The rest of Unlock and a restart keep the invariant.
LEMMA ReleaseStepInv ==
  ASSUME LeaseInv, NEW p \in Proc,
         UnlockHead(p) \/ UnlockDelete(p) \/ UnlockFail(p) \/ RetryUnlock(p) \/ Restart(p)
  PROVE  LeaseInv'
<1> USE DEF LeaseInv, UnlockHead, UnlockDelete, UnlockFail, RetryUnlock, Restart, Fault, Goto
<1>1. SeenInv' /\ at' \in [Proc -> Nat] /\ seen' = seen /\ faults' \in Nat
  BY DEF SeenInv, Expired, Clock, TypeOK
<1>2. \E s \in {"udel", "idle", "failed"} : pc' = [pc EXCEPT ![p] = s]
  OBVIOUS
<1>3. pc[p] \in {"uhead", "udel", "failed", "down"} /\ obj' \in {obj, NoObj}
  OBVIOUS
<1> QED
  BY <1>1, <1>2, <1>3, MoveStep DEF Waiting, PC, TypeOK

\* A crash keeps the invariant.
LEMMA CrashStepInv ==
  ASSUME LeaseInv, NEW p \in Proc, Crash(p)
  PROVE  LeaseInv'
<1> USE S3LockerAssumption DEF S3LockerAssumption, LeaseInv, Crash, Fault, Goto
<1>0. \A q \in Proc, t \in Nat :
        /\ putLock(q, t) \in Lease /\ putLock(q, t) # NoObj
        /\ putLock(q, t).owner = Me(q) /\ Me(q) = <<q, epoch[q]>>
  BY PutLockType
<1>1. TypeOK'
  BY <1>0 DEF TypeOK, PC
<1>2. OwnerInv'
  BY <1>0 DEF OwnerInv, Waiting, HeartInv, TypeOK, Lease
<1>3. SeenInv'
  BY DEF SeenInv, Expired, Clock, TypeOK, Lease
<1>4. HeartInv'
  BY <1>0 DEF HeartInv, Me, TypeOK
<1>5. EtagInv'
  BY <1>0 DEF EtagInv, OwnerInv, HeartInv, Owns, Me, TypeOK, Lease
<1>6. RenewInv'
  BY <1>0 DEF RenewInv, RenewalStopsOnlyWhenLost, EtagInv, OwnerInv, HeartInv, Owns, Me, TypeOK, Lease
<1> QED
  BY <1>1, <1>2, <1>3, <1>4, <1>5, <1>6

\* Time keeps the invariant: what was expired stays so.
LEMMA TickStepInv ==
  ASSUME LeaseInv, Tick
  PROVE  LeaseInv'
<1> USE S3LockerAssumption DEF S3LockerAssumption, LeaseInv, Tick, heart
<1>1. TypeOK'
  BY DEF TypeOK
<1>2. SeenInv'
  BY DEF SeenInv, Expired, Clock, TypeOK, Lease
<1>3. OwnerInv' /\ HeartInv' /\ EtagInv' /\ RenewInv'
  BY DEF OwnerInv, HeartInv, EtagInv, RenewInv, RenewalStopsOnlyWhenLost, Waiting, Owns, Me
<1> QED
  BY <1>1, <1>2, <1>3

\* Every step keeps the invariant.
LEMMA NextLeaseInv == LeaseInv /\ [Next]_vars => LeaseInv'
<1> SUFFICES ASSUME LeaseInv, [Next]_vars PROVE LeaseInv'
  OBVIOUS
<1>1. CASE UNCHANGED vars
  BY <1>1 DEF LeaseInv, TypeOK, OwnerInv, SeenInv, HeartInv, EtagInv, RenewInv, RenewalStopsOnlyWhenLost,
              Waiting, Owns, Me, Expired, Clock, vars
<1>2. ASSUME NEW p \in Proc,
             \/ Lock(p) \/ LockStep(p) \/ CancelLock(p)
             \/ HbAny(p)
             \/ Unlock(p) \/ UnlockStep(p) \/ RetryUnlock(p)
             \/ Crash(p) \/ Restart(p)
      PROVE  LeaseInv'
  BY <1>2, LockStepInv, AcquireStepInv, HbTickStepInv, RenewStepInv, HbStopStepInv,
     StopStepInv, ReleaseStepInv, CrashStepInv
     DEF LockStep, HbAny, UnlockStep
<1> QED
  BY <1>1, <1>2, TickStepInv DEF Next

------------------------------------------------------------------------------
(* What holds without timing.                                              *)

\* The lock object is written by a create that found none, by a takeover of
\* the expired object that was inspected, or by the renewal of one's own.
LEMMA Writes ==
  ASSUME LeaseInv, [Next]_vars, obj' # obj, obj' # NoObj
  PROVE  \E q \in Proc :
           /\ obj'.owner = <<q, epoch[q]>>
           /\ \/ pc[q] = "create" /\ obj = NoObj
              \/ pc[q] = "takeover" /\ Expired(q, obj)
              \/ /\ pc[q] \in {"held", "stopping"}
                 /\ obj # NoObj /\ obj.owner = <<q, epoch[q]>>
<1> USE DEF LeaseInv
<1>1. PICK p \in Proc : Create(p) \/ Takeover(p) \/ LockFail(p) \/ HbPut(p) \/ HbFail(p)
  BY DEF Next, vars, Lock, LockStep, CancelLock, Head, Retry, HbAny, HbTick, HbStop, Unlock,
         UnlockStep, UnlockJoin, UnlockHead, UnlockDelete, UnlockFail, RetryUnlock, Crash,
         Restart, Tick
<1>2. at[p] \in Nat /\ hbAt[p] \in Nat
  BY DEF TypeOK
<1>3. CASE Create(p) \/ Takeover(p) \/ LockFail(p)
  <2>1. /\ obj' = putLock(p, at[p]) /\ pc[p] \in {"create", "takeover"}
        /\ obj = seen[p] \/ (pc[p] = "create" /\ obj = NoObj)
    BY <1>3 DEF Create, Takeover, LockFail
  <2> QED
    BY <1>2, <2>1, PutLockType DEF SeenInv
<1>4. CASE HbPut(p) \/ HbFail(p)
  <2>1. obj' = putLock(p, hbAt[p]) /\ obj = etag[p] /\ hb[p] = "put"
    BY <1>4 DEF HbPut, HbFail
  <2> QED
    BY <1>2, <2>1, PutLockType DEF HeartInv, Me
<1> QED
  BY <1>1, <1>3, <1>4

\* Spec keeps the invariant.
LEMMA SpecLeaseInv == Spec => []LeaseInv
BY InitLeaseInv, NextLeaseInv, PTL DEF Spec

\* The state of the locker keeps its type.
THEOREM LockerTypeCorrect == Spec => []TypeOK
BY SpecLeaseInv, PTL DEF LeaseInv

\* Whatever the delays, clocks and failures, the heartbeat of a held lock ends
\* only when the lock was taken over, as long as no renewal takes effect and
\* loses its answer.
THEOREM RenewalGoesOn ==
  ASSUME ~LostRenewal PROVE Spec => []RenewalStopsOnlyWhenLost
<1>1. LeaseInv => RenewalStopsOnlyWhenLost
  BY DEF LeaseInv, RenewInv
<1> QED
  BY <1>1, SpecLeaseInv, PTL

\* Whatever the delays, clocks and failures, only an expired lease is taken
\* over: the conditional requests are a compare-and-swap.
THEOREM TakeoversAreExpired == Spec => TakeoverOnlyExpired
<1> DEFINE Takes == obj # NoObj /\ obj' # NoObj /\ obj'.owner # obj.owner
                      => Expired(obj'.owner[1], obj)
<1>1. LeaseInv /\ [Next]_vars => [Takes]_vars
  <2> SUFFICES ASSUME LeaseInv, [Next]_vars, obj # NoObj, obj' # NoObj,
                      obj'.owner # obj.owner
               PROVE  Expired(obj'.owner[1], obj)
    OBVIOUS
  <2>1. PICK q \in Proc : /\ obj'.owner = <<q, epoch[q]>>
                          /\ pc[q] = "takeover" /\ Expired(q, obj)
    BY Writes
  <2>2. obj'.owner[1] = q
    BY <2>1
  <2> QED
    BY <2>1, <2>2
<1>2. Spec => [][Next]_vars
  BY DEF Spec
<1> QED
  BY <1>1, <1>2, SpecLeaseInv, PTL DEF TakeoverOnlyExpired

\* No renewal writes the lock object once Unlock joined the heartbeat.
THEOREM RenewalsAreJoined == Spec => NoLateRenewal
<1> DEFINE Entitled == \A p \in Proc :
                         obj' # obj /\ obj' # NoObj /\ obj'.owner = Me(p)
                           => pc[p] \in {"create", "takeover", "held", "stopping"}
<1>1. LeaseInv /\ [Next]_vars => [Entitled]_vars
  <2> SUFFICES ASSUME LeaseInv, [Next]_vars, NEW p \in Proc,
                      obj' # obj, obj' # NoObj, obj'.owner = <<p, epoch[p]>>
               PROVE  pc[p] \in {"create", "takeover", "held", "stopping"}
    BY DEF Me
  <2>1. PICK q \in Proc : /\ obj'.owner = <<q, epoch[q]>>
                          /\ pc[q] \in {"create", "takeover", "held", "stopping"}
    BY Writes
  <2>2. q = p
    BY <2>1
  <2> QED
    BY <2>1, <2>2
<1>2. Spec => [][Next]_vars
  BY DEF Spec
<1> QED
  BY <1>1, <1>2, SpecLeaseInv, PTL DEF NoLateRenewal

------------------------------------------------------------------------------
(* Timing.  A renewal that fails is one sent at most G after the request   *)
(* that wrote the lease: with G = Interval + Latency no two renewals fail  *)
(* in a row.  A lease outlasts G, the period to the next renewal, two      *)
(* requests and the difference of any two clocks.                          *)

TimelyLease(G) ==
  /\ Timely
  /\ G \in Nat /\ Latency <= G /\ Latency <= Interval
  /\ \A p, q \in Proc : G + Interval + 2 * Latency + Skew[q] - Skew[p] <= TTL

FailsInGrace(G) ==
  \A p \in Proc : HbFail(p) => hbAt[p] + Skew[p] + TTL <= etag[p].exp + G

\* p holds the lock or is still to release its object.
Busy(p) == pc[p] \in {"held", "stopping", "uhead", "udel"}

\* At real time t the object is not expired by anybody's clock.
Covers(t) == obj # NoObj /\ \A q \in Proc : t + Skew[q] <= obj.exp

\* The lease covers what is left to do before the next renewal, or until the
\* delete is answered.
TimeInvOf(p) ==
  /\ pc[p] \in {"create", "head", "takeover", "uhead", "udel"} => now <= at[p] + Latency
  /\ pc[p] \in {"held", "stopping"} => obj = etag[p]
  /\ pc[p] = "held" => hb[p] # "done"
  /\ hb[p] = "wait" => now <= tick[p] /\ Covers(tick[p] + 2 * Latency)
  /\ hb[p] = "put" => /\ tick[p] = hbAt[p] + Interval /\ now <= hbAt[p] + Latency
                      /\ Covers(hbAt[p] + 2 * Latency)
  /\ pc[p] = "stopping" /\ hb[p] = "done" => Covers(now + 2 * Latency)
  /\ pc[p] = "uhead" => Owns(p) /\ Covers(at[p] + 2 * Latency)
  /\ pc[p] = "udel"  => Owns(p) /\ Covers(at[p] + Latency)

TimeInv == \A p \in Proc : TimeInvOf(p)

\* A lease that covers a time covers every earlier one.
LEMMA CoversEarlier ==
  ASSUME TypeOK, NEW t \in Int, NEW u \in Int, u <= t, Covers(t)
  PROVE  Covers(u)
BY S3LockerAssumption DEF S3LockerAssumption, TypeOK, Lease, Covers

\* Who is busy has its object in the bucket, unexpired by every clock.
LEMMA BusyIsCovered ==
  ASSUME LeaseInv, TimeInv, NEW p \in Proc, Busy(p)
  PROVE  /\ obj # NoObj /\ obj.owner = <<p, epoch[p]>> /\ Covers(now)
         /\ \A q \in Proc : ~Expired(q, obj)
<1> USE S3LockerAssumption DEF S3LockerAssumption, LeaseInv
<1>1. TimeInvOf(p)
  BY DEF TimeInv
<1>2. obj # NoObj /\ obj.owner = <<p, epoch[p]>>
  BY <1>1 DEF TimeInvOf, Busy, HeartInv, Owns, Me
<1>3. now \in Nat /\ at[p] \in Nat /\ tick[p] \in Nat /\ hbAt[p] \in Nat
  BY DEF TypeOK
<1>4. Covers(now)
  <2>1. CASE hb[p] = "wait"
    BY <1>1, <1>3, <2>1, CoversEarlier DEF TimeInvOf
  <2>2. CASE hb[p] = "put"
    BY <1>1, <1>3, <2>2, CoversEarlier DEF TimeInvOf
  <2>3. CASE pc[p] = "stopping" /\ hb[p] = "done"
    BY <1>1, <1>3, <2>3, CoversEarlier DEF TimeInvOf
  <2>4. CASE pc[p] \in {"uhead", "udel"}
    BY <1>1, <1>3, <2>4, CoversEarlier DEF TimeInvOf
  <2> QED
    BY <1>1, <2>1, <2>2, <2>3, <2>4 DEF Busy, HeartInv, TimeInvOf, TypeOK
<1>5. \A q \in Proc : ~Expired(q, obj)
  <2>1. obj.exp \in Int
    BY <1>2 DEF TypeOK, Lease
  <2>2. TAKE q \in Proc
  <2>3. Skew[q] \in Int /\ now + Skew[q] <= obj.exp
    BY <1>4 DEF Covers
  <2>4. ~(now + Skew[q] > obj.exp)
    BY <1>3, <2>1, <2>3
  <2> QED
    BY <2>4 DEF Expired, Clock
<1> QED
  BY <1>2, <1>4, <1>5

\* One process is busy at a time.
LEMMA OneIsBusy ==
  ASSUME LeaseInv, TimeInv, NEW p \in Proc, NEW q \in Proc, Busy(p), Busy(q)
  PROVE  p = q
<1>1. obj.owner = <<p, epoch[p]>> /\ obj.owner = <<q, epoch[q]>>
  BY BusyIsCovered
<1> QED
  BY <1>1

\* The same as one formula.
LEMMA OneBusyAtMost ==
  LeaseInv /\ TimeInv => \A p, q \in Proc : Busy(p) /\ Busy(q) => p = q
BY OneIsBusy

\* An object that is missing, or expired by some clock, is nobody's.
LEMMA NobodyIsBusy ==
  ASSUME LeaseInv, TimeInv, NEW q \in Proc, obj = NoObj \/ Expired(q, obj),
         NEW p \in Proc
  PROVE  ~Busy(p)
BY BusyIsCovered

\* A step of another process does not matter to r, unless it writes the object
\* while r is busy.
LEMMA OthersKeepTime ==
  ASSUME LeaseInv, TimeInv, NEW r \in Proc,
         pc'[r] = pc[r], at'[r] = at[r], hb'[r] = hb[r], etag'[r] = etag[r],
         hbAt'[r] = hbAt[r], tick'[r] = tick[r], epoch'[r] = epoch[r], now' = now,
         obj' = obj \/ ~Busy(r)
  PROVE  TimeInvOf(r)'
<1>1. TimeInvOf(r)
  BY DEF TimeInv
<1>2. CASE obj' = obj
  BY <1>1, <1>2 DEF TimeInvOf, Covers, Owns, Me
<1>3. CASE ~Busy(r)
  BY <1>1, <1>3 DEF TimeInvOf, Busy, LeaseInv, HeartInv
<1> QED
  BY <1>2, <1>3

\* The steps of process p.
ProcStep(p) ==
  \/ Lock(p) \/ LockStep(p) \/ CancelLock(p)
  \/ HbAny(p)
  \/ Unlock(p) \/ UnlockStep(p) \/ RetryUnlock(p)
  \/ Crash(p) \/ Restart(p)

\* A step of p changes the state of p, and the object only when nobody else
\* is busy.
LEMMA StepIsLocal ==
  ASSUME LeaseInv, TimeInv, NEW p \in Proc, ProcStep(p)
  PROVE  /\ now' = now
         /\ \A r \in Proc \ {p} : TimeInvOf(r)'
<1> USE DEF LeaseInv
<1>1. now' = now
  BY DEF ProcStep, Lock, LockStep, Create, Head, Takeover, Retry, LockFail, CancelLock, HbAny,
         HbTick, HbPut, HbFail, HbStop, Unlock, UnlockStep, UnlockJoin, UnlockHead,
         UnlockDelete, UnlockFail, RetryUnlock, Crash, Restart
<1> SUFFICES ASSUME NEW r \in Proc \ {p} PROVE TimeInvOf(r)'
  BY <1>1
<1>2. pc'[r] = pc[r] /\ at'[r] = at[r] /\ epoch'[r] = epoch[r]
  BY DEF ProcStep, Lock, LockStep, Create, Head, Takeover, Retry, LockFail, CancelLock, HbAny,
         HbTick, HbPut, HbFail, HbStop, Unlock, UnlockStep, UnlockJoin, UnlockHead,
         UnlockDelete, UnlockFail, RetryUnlock, Crash, Restart, Goto, StartHeartbeat, TypeOK
<1>3. hb'[r] = hb[r] /\ etag'[r] = etag[r] /\ hbAt'[r] = hbAt[r] /\ tick'[r] = tick[r]
  BY DEF ProcStep, Lock, LockStep, Create, Head, Takeover, Retry, LockFail, CancelLock, HbAny,
         HbTick, HbPut, HbFail, HbStop, Unlock, UnlockStep, UnlockJoin, UnlockHead,
         UnlockDelete, UnlockFail, RetryUnlock, Crash, Restart, heart, HbStep, StartHeartbeat,
         TypeOK
<1>4. obj' = obj \/ ~Busy(r)
  <2>1. \/ obj' = obj \/ Busy(p)
        \/ pc[p] \in {"create", "takeover"} /\ obj = NoObj
        \/ pc[p] = "takeover" /\ obj = seen[p]
    BY DEF ProcStep, Lock, LockStep, Create, Head, Takeover, Retry, LockFail, CancelLock,
           HbAny, HbTick, HbPut, HbFail, HbStop, Unlock, UnlockStep, UnlockJoin, UnlockHead,
           UnlockDelete, UnlockFail, RetryUnlock, Crash, Restart, Busy, HeartInv, SeenInv
  <2> QED
    BY <2>1, OneIsBusy, NobodyIsBusy DEF SeenInv
<1> QED
  BY <1>1, <1>2, <1>3, <1>4, OthersKeepTime

\* Who is not busy afterwards has at most a request to be answered in time.
LEMMA LeavesTime ==
  ASSUME LeaseInv', NEW p \in Proc, now' = now, at' \in [Proc -> Nat], ~Busy(p)',
         pc'[p] \in {"create", "head", "takeover"} => now <= at'[p] + Latency
  PROVE  TimeInvOf(p)'
BY DEF LeaseInv, HeartInv, TimeInvOf, Busy

\* Lock up to the grant, the end of Unlock and a crash keep the timing of p.
LEMMA QuietStepTime ==
  ASSUME LeaseInv, TimeInv, LeaseInv', NEW p \in Proc,
         \/ Lock(p) \/ (Create(p) /\ obj # NoObj) \/ Head(p) \/ (Takeover(p) /\ obj # seen[p])
         \/ Retry(p) \/ LockFail(p) \/ CancelLock(p)
         \/ UnlockDelete(p) \/ UnlockFail(p) \/ RetryUnlock(p) \/ Crash(p) \/ Restart(p)
  PROVE  TimeInvOf(p)'
<1>1. now' = now /\ now \in Nat /\ Latency \in Nat /\ at' \in [Proc -> Nat]
  BY S3LockerAssumption
     DEF S3LockerAssumption, LeaseInv, TypeOK, Lock, Create, Head, Takeover, Retry, LockFail,
         CancelLock, UnlockDelete, UnlockFail, RetryUnlock, Crash, Restart
<1>2. ~Busy(p)' /\ (pc'[p] \in {"create", "head", "takeover"} => at'[p] = now)
  BY DEF LeaseInv, TypeOK, Busy, Lock, Create, Head, Takeover, Retry, LockFail, CancelLock,
         UnlockDelete, UnlockFail, RetryUnlock, Crash, Restart, Goto
<1> QED
  BY <1>1, <1>2, LeavesTime

\* A Lock that is granted in time has a lease that lasts past the first renewal.
LEMMA GrantTime ==
  ASSUME NEW G, TimelyLease(G), ~LostRenewal, LeaseInv, TimeInv, LeaseInv', NEW p \in Proc,
         (Create(p) /\ obj = NoObj) \/ (Takeover(p) /\ obj = seen[p])
  PROVE  TimeInvOf(p)'
<1> USE DEF LeaseInv
<1>1. /\ pc[p] \in {"create", "takeover"} /\ now' = now /\ obj' = putLock(p, at[p])
      /\ pc'[p] = "held" /\ hb'[p] = "wait" /\ etag'[p] = obj' /\ tick'[p] = now + Interval
  BY DEF Create, Takeover, StartHeartbeat, Goto, TypeOK, SeenInv, Expired
<1>2. now \in Nat /\ at[p] \in Nat /\ now <= at[p] + Latency
  BY <1>1 DEF TypeOK, TimeInv, TimeInvOf
<1>3. obj' # NoObj /\ obj'.exp = at[p] + Skew[p] + TTL
  BY <1>1, <1>2, PutLockType
<1>4. Covers(tick[p] + 2 * Latency)'
  BY <1>1, <1>2, <1>3, S3LockerAssumption DEF Covers, TimelyLease, S3LockerAssumption
<1> QED
  BY <1>1, <1>4, <1>2, S3LockerAssumption DEF TimeInvOf, S3LockerAssumption

\* The tick of the heartbeat comes when it is due.
LEMMA HbTickTime ==
  ASSUME LeaseInv, TimeInv, NEW p \in Proc, HbTick(p)
  PROVE  TimeInvOf(p)'
<1> USE DEF LeaseInv
<1>1. /\ hb[p] = "wait" /\ now >= tick[p] /\ UNCHANGED <<now, obj, pc, epoch, at, etag>>
      /\ hb'[p] = "put" /\ hbAt'[p] = now
      /\ tick'[p] = tick[p] + Interval * ((now - tick[p]) \div Interval + 1)
  BY DEF HbTick, HbStep, TypeOK
<1>2. now \in Nat /\ tick[p] \in Nat /\ TimeInvOf(p) /\ Interval \in Nat \ {0} /\ Latency \in Nat
  BY S3LockerAssumption DEF S3LockerAssumption, TypeOK, TimeInv
<1>3. now = tick[p] /\ Covers(now + 2 * Latency)
  BY <1>1, <1>2 DEF TimeInvOf
<1>4. (now - tick[p]) \div Interval = 0
  BY <1>2, <1>3
<1>5. tick'[p] = now + Interval
  BY <1>1, <1>2, <1>3, <1>4
<1>6. Covers(hbAt[p] + 2 * Latency)'
  BY <1>1, <1>3 DEF Covers
<1>7. now' <= hbAt'[p] + Latency
  BY <1>1, <1>2
<1> QED
  BY <1>1, <1>2, <1>5, <1>6, <1>7 DEF TimeInvOf, Covers, Owns, Me

\* A renewal in time extends the lease past the next one; it is not refused.
LEMMA HbPutTime ==
  ASSUME NEW G, TimelyLease(G), ~LostRenewal, LeaseInv, TimeInv, NEW p \in Proc, HbPut(p)
  PROVE  TimeInvOf(p)'
<1> USE DEF LeaseInv
<1>1. /\ hb[p] = "put" /\ pc[p] \in {"held", "stopping"} /\ TimeInvOf(p)
      /\ now \in Nat /\ hbAt[p] \in Nat /\ tick[p] \in Nat
  BY DEF HbPut, HeartInv, TypeOK, TimeInv
<1>2. obj = etag[p] /\ obj # NoObj
  BY <1>1 DEF TimeInvOf, HeartInv
<1>3. /\ UNCHANGED <<now, pc, epoch, at, tick>>
      /\ obj' = putLock(p, hbAt[p]) /\ etag'[p] = obj' /\ hb'[p] = "wait"
  BY <1>2 DEF HbPut, HbStep, TypeOK
<1>4. obj' # NoObj /\ obj'.exp = hbAt[p] + Skew[p] + TTL
  BY <1>1, <1>3, PutLockType
<1>5. tick[p] = hbAt[p] + Interval /\ now <= hbAt[p] + Latency
  BY <1>1 DEF TimeInvOf
<1>6. now' <= tick'[p] /\ Covers(tick[p] + 2 * Latency)'
  BY <1>1, <1>3, <1>4, <1>5, S3LockerAssumption DEF Covers, TimelyLease, S3LockerAssumption
<1> QED
  BY <1>1, <1>3, <1>6 DEF TimeInvOf

\* A renewal that fails in its grace leaves a lease that lasts past the next.
LEMMA HbFailTime ==
  ASSUME NEW G, TimelyLease(G), ~LostRenewal, FailsInGrace(G), LeaseInv, TimeInv, NEW p \in Proc, HbFail(p)
  PROVE  TimeInvOf(p)'
<1> USE DEF LeaseInv
<1>1. /\ hb[p] = "put" /\ pc[p] \in {"held", "stopping"} /\ TimeInvOf(p)
      /\ now \in Nat /\ hbAt[p] \in Nat /\ tick[p] \in Nat
  BY DEF HbFail, HeartInv, TypeOK, TimeInv
<1>2. /\ UNCHANGED <<now, obj, pc, epoch, at, etag, tick>>
      /\ hb'[p] = "wait"
  BY DEF HbFail, HbStep, TypeOK, TimelyLease
<1>3. obj = etag[p] /\ obj # NoObj /\ obj.exp \in Int
  BY <1>1 DEF TimeInvOf, HeartInv, TypeOK, Lease
<1>4. hbAt[p] + Skew[p] + TTL <= obj.exp + G
  BY <1>3 DEF FailsInGrace
<1>5. tick[p] = hbAt[p] + Interval /\ now <= hbAt[p] + Latency
  BY <1>1 DEF TimeInvOf
<1>6. now' <= tick'[p] /\ Covers(tick[p] + 2 * Latency)'
  BY <1>1, <1>2, <1>3, <1>4, <1>5, S3LockerAssumption
     DEF Covers, TimelyLease, S3LockerAssumption
<1> QED
  BY <1>1, <1>2, <1>6 DEF TimeInvOf

\* Unlock stops the heartbeat, looks at the object and deletes it within the
\* lease.
LEMMA UnlockTime ==
  ASSUME LeaseInv, TimeInv, LeaseInv', NEW p \in Proc,
         Unlock(p) \/ HbStop(p) \/ UnlockJoin(p) \/ UnlockHead(p)
  PROVE  TimeInvOf(p)'
<1> USE DEF LeaseInv
<1>1. /\ TimeInvOf(p) /\ now \in Nat /\ tick[p] \in Nat /\ at[p] \in Nat /\ Latency \in Nat
      /\ now' = now /\ obj' = obj /\ epoch' = epoch
  BY S3LockerAssumption DEF S3LockerAssumption, TypeOK, TimeInv, Unlock, HbStop, UnlockJoin,
         UnlockHead
<1>2. CASE Unlock(p)
  BY <1>1, <1>2 DEF Unlock, Goto, heart, TimeInvOf, Covers, TypeOK
<1>3. CASE HbStop(p)
  <2>1. Covers(now + 2 * Latency)
    BY <1>1, <1>3, CoversEarlier DEF HbStop, TimeInvOf
  <2>2. Covers(now + 2 * Latency)'
    BY <1>1, <2>1 DEF Covers
  <2>3. pc'[p] = "stopping" /\ hb'[p] = "done" /\ etag' = etag
    BY <1>3 DEF HbStop, HbStep, TypeOK
  <2>4. obj' = etag'[p]
    BY <1>1, <1>3, <2>3 DEF HbStop, TimeInvOf
  <2> QED
    BY <2>2, <2>3, <2>4 DEF TimeInvOf
<1>4. CASE UnlockJoin(p)
  <2>1. obj # NoObj /\ Owns(p) /\ Covers(now + 2 * Latency)
    BY <1>1, <1>4 DEF UnlockJoin, TimeInvOf, HeartInv, Owns
  <2>2. pc'[p] = "uhead" /\ hb'[p] = "done" /\ at'[p] = now
    BY <1>4 DEF UnlockJoin, Goto, TypeOK
  <2>3. Owns(p)' /\ Covers(at[p] + 2 * Latency)'
    BY <1>1, <2>1, <2>2 DEF Owns, Me, Covers
  <2> QED
    BY <1>1, <2>2, <2>3 DEF TimeInvOf
<1>5. CASE UnlockHead(p)
  <2>1. pc[p] = "uhead" /\ Owns(p) /\ Covers(at[p] + 2 * Latency) /\ now <= at[p] + Latency
    BY <1>1, <1>5 DEF UnlockHead, TimeInvOf
  <2>2. Covers(now + Latency)
    BY <1>1, <2>1, CoversEarlier
  <2>3. pc'[p] = "udel" /\ at'[p] = now
    BY <1>5, <2>1 DEF UnlockHead, Goto, TypeOK
  <2>4. Owns(p)' /\ Covers(at[p] + Latency)'
    BY <1>1, <2>1, <2>2, <2>3 DEF Owns, Me, Covers
  <2> QED
    BY <1>1, <2>3, <2>4 DEF TimeInvOf, HeartInv
<1> QED
  BY <1>2, <1>3, <1>4, <1>5

\* Time passes only while nothing is overdue.
LEMMA TickTime ==
  ASSUME NEW G, TimelyLease(G), ~LostRenewal, LeaseInv, TimeInv, Tick
  PROVE  TimeInv'
<1> USE DEF LeaseInv
<1> SUFFICES ASSUME NEW p \in Proc PROVE TimeInvOf(p)'
  BY DEF TimeInv
<1>1. TimeInvOf(p) /\ ~Overdue(p)
  BY DEF TimeInv, Tick, TimelyLease
<1>2. now' = now + 1 /\ UNCHANGED <<obj, pc, epoch, at, seen, hb, etag, hbAt, tick, faults>>
  BY DEF Tick, heart
<1>3. /\ now \in Nat /\ at[p] \in Nat /\ tick[p] \in Nat /\ hbAt[p] \in Nat /\ Latency \in Nat
      /\ pc[p] \in PC /\ hb[p] \in {"none", "wait", "put", "done"}
  BY S3LockerAssumption DEF S3LockerAssumption, TypeOK
<1>4. /\ pc[p] \in {"create", "head", "takeover", "uhead", "udel"} => now' <= at[p] + Latency
      /\ hb[p] = "wait" => now' <= tick[p]
      /\ hb[p] = "put" => now' <= hbAt[p] + Latency
      /\ ~(pc[p] = "stopping" /\ hb[p] = "done")
  BY <1>1, <1>2, <1>3 DEF Overdue
<1> QED
  BY <1>1, <1>2, <1>4 DEF TimeInvOf, Covers, Owns, Me

\* Every step keeps the timing.
LEMMA NextTimeInv ==
  ASSUME NEW G, TimelyLease(G), ~LostRenewal, LeaseInv, TimeInv, [Next]_vars, [FailsInGrace(G)]_vars
  PROVE  TimeInv'
<1>1. LeaseInv'
  BY NextLeaseInv
<1>2. CASE UNCHANGED vars
  BY <1>2 DEF vars, TimeInv, TimeInvOf, Covers, Owns, Me
<1>3. ASSUME FailsInGrace(G), NEW p \in Proc, ProcStep(p)
      PROVE  TimeInv'
  <2>1. \A r \in Proc \ {p} : TimeInvOf(r)'
    BY <1>3, StepIsLocal
  <2>2. \/ Lock(p) \/ (Create(p) /\ obj # NoObj) \/ Head(p) \/ (Takeover(p) /\ obj # seen[p])
        \/ Retry(p) \/ LockFail(p) \/ CancelLock(p)
        \/ UnlockDelete(p) \/ UnlockFail(p) \/ RetryUnlock(p) \/ Crash(p) \/ Restart(p)
        \/ (Create(p) /\ obj = NoObj) \/ (Takeover(p) /\ obj = seen[p])
        \/ HbTick(p) \/ HbPut(p) \/ HbFail(p)
        \/ Unlock(p) \/ HbStop(p) \/ UnlockJoin(p) \/ UnlockHead(p)
    BY <1>3 DEF ProcStep, LockStep, HbAny, UnlockStep
  <2>3. TimeInvOf(p)'
    BY <1>1, <1>3, <2>2, QuietStepTime, GrantTime, HbTickTime, HbPutTime, HbFailTime,
       UnlockTime, Zenon
  <2> QED
    BY <2>1, <2>3 DEF TimeInv
<1> QED
  BY <1>2, <1>3, TickTime DEF Next, ProcStep

\* The initial state satisfies the timing.
LEMMA InitTimeInv == Init => TimeInv
BY DEF Init, TimeInv, TimeInvOf

\* With timely requests and renewals that fail within their grace, the timing
\* holds in every state.
LEMMA SpecTimeInv ==
  ASSUME NEW G, TimelyLease(G), ~LostRenewal
  PROVE  Spec /\ [][FailsInGrace(G)]_vars => [](LeaseInv /\ TimeInv)
<1>1. LeaseInv /\ TimeInv /\ [Next]_vars /\ [FailsInGrace(G)]_vars => (LeaseInv /\ TimeInv)'
  BY NextLeaseInv, NextTimeInv
<1> QED
  BY <1>1, InitLeaseInv, InitTimeInv, PTL DEF Spec

\* At most one process holds the lock, and a step that changes the holders
\* makes one process hold a free lock or give up its own.
LEMMA HoldersStep ==
  ASSUME LeaseInv, TimeInv, LeaseInv', TimeInv', [Next]_vars
  PROVE  \/ Holders' = Holders
         \/ \E p \in Proc : Holders = {} /\ Holders' = {p}
         \/ \E p \in Proc : Holders = {p} /\ Holders' = {}
<1>1. \A p, q \in Holders : p = q
  BY OneIsBusy DEF Holders, Busy
<1>2. \A p, q \in Holders' : p = q
  <2>1. (\A p, q \in Proc : Busy(p) /\ Busy(q) => p = q)'
    BY OneBusyAtMost, PTL
  <2> QED
    BY <2>1 DEF Holders, Busy
<1>3. UNCHANGED pc \/ \E p \in Proc : \A r \in Proc \ {p} : pc'[r] = pc[r]
  BY DEF Next, vars, LeaseInv, TypeOK, Lock, LockStep, Create, Head, Takeover, Retry, LockFail,
         CancelLock, HbAny, HbTick, HbPut, HbFail, HbStop, Unlock, UnlockStep, UnlockJoin,
         UnlockHead, UnlockDelete, UnlockFail, RetryUnlock, Crash, Restart, Tick, Goto,
         StartHeartbeat
<1>4. CASE UNCHANGED pc
  BY <1>4 DEF Holders
<1>5. ASSUME NEW p \in Proc, \A r \in Proc \ {p} : pc'[r] = pc[r]
      PROVE  \/ Holders' = Holders
             \/ Holders = {} /\ Holders' = {p}
             \/ Holders = {p} /\ Holders' = {}
  BY <1>1, <1>2, <1>5 DEF Holders
<1> QED
  BY <1>3, <1>4, <1>5

\* The invariants are all that the properties need: a lease that covers every
\* busy process.
LEMMA LeasedProperties ==
  Spec /\ [](LeaseInv /\ TimeInv)
    => []HeldIsLeased /\ UnlockDeletesOnlyOwn /\ ImplementsLocker
<1> DEFINE Deletes == \A p \in Proc : pc[p] = "udel" /\ obj # NoObj /\ obj' = NoObj => Owns(p)
<1>1. LeaseInv /\ TimeInv => HeldIsLeased
  BY BusyIsCovered DEF HeldIsLeased, Busy, Owns, Me
<1>2. LeaseInv /\ TimeInv => [Deletes]_vars
  BY BusyIsCovered DEF Busy, Owns, Me
<1>3. Init => Backend!Init
  BY DEF Init, Backend!Init, Holder, Holders
<1>4. ASSUME LeaseInv, TimeInv, LeaseInv', TimeInv', [Next]_vars
      PROVE  [Backend!Next]_Holder
  <2>1. CASE Holders' = Holders
    BY <2>1 DEF Holder
  <2>2. ASSUME NEW p \in Proc, Holders = {}, Holders' = {p} PROVE [Backend!Next]_Holder
    <3>1. Holder = NoObj /\ Holder' = p
      BY <2>2 DEF Holder
    <3> QED
      BY <3>1 DEF Backend!Next, Backend!Acquire
  <2>3. ASSUME NEW p \in Proc, Holders = {p}, Holders' = {} PROVE [Backend!Next]_Holder
    <3>1. Holder = p /\ Holder' = NoObj
      BY <2>3 DEF Holder
    <3> QED
      BY <3>1 DEF Backend!Next, Backend!Release
  <2> QED
    BY <1>4, <2>1, <2>2, <2>3, HoldersStep
<1> QED
  BY <1>1, <1>2, <1>3, <1>4, PTL
     DEF Spec, UnlockDeletesOnlyOwn, ImplementsLocker, Backend!Spec

\* A process that holds the lock has its object in the bucket, under a lease
\* that nobody's clock finds expired: whatever the number of failures, when
\* requests are timely, renewals fail only within their grace and no renewal
\* takes effect and loses its answer.
THEOREM HoldersAreLeased ==
  ASSUME NEW G, TimelyLease(G), ~LostRenewal
  PROVE  Spec /\ [][FailsInGrace(G)]_vars => []HeldIsLeased
BY SpecTimeInv, LeasedProperties, PTL

\* Under the same conditions Unlock deletes the object of its own Lock, though
\* DeleteObject has no condition.
THEOREM UnlocksDeleteOwn ==
  ASSUME NEW G, TimelyLease(G), ~LostRenewal
  PROVE  Spec /\ [][FailsInGrace(G)]_vars => UnlockDeletesOnlyOwn
BY SpecTimeInv, LeasedProperties, PTL

\* Under the same conditions the locker is the exclusive lock that LockManager
\* takes its backend for: a process gets the lock only after the one that held
\* it called Unlock or died.
THEOREM LockerRefinement ==
  ASSUME NEW G, TimelyLease(G), ~LostRenewal
  PROVE  Spec /\ [][FailsInGrace(G)]_vars => ImplementsLocker
BY SpecTimeInv, LeasedProperties, PTL

------------------------------------------------------------------------------
(* One failure.                                                            *)

\* Before the first failure a renewal is sent one period, and the time the
\* grant took, after the request that wrote the lease.
FirstInvOf(p) ==
  faults = 0 =>
    /\ hb[p] = "wait" => tick[p] + Skew[p] + TTL <= etag[p].exp + Interval + Latency
    /\ hb[p] = "put"  => hbAt[p] + Skew[p] + TTL <= etag[p].exp + Interval + Latency

FirstInv == \A p \in Proc : FirstInvOf(p)

\* Every step keeps it.
LEMMA NextFirstInv ==
  ASSUME NEW G, TimelyLease(G), ~LostRenewal, LeaseInv, TimeInv, FirstInv, LeaseInv', [Next]_vars
  PROVE  FirstInv'
<1> USE DEF LeaseInv
<1> SUFFICES ASSUME NEW r \in Proc, faults' = 0,
                    hb'[r] \in {"wait", "put"}
             PROVE  FirstInvOf(r)'
  BY DEF FirstInv, FirstInvOf
<1>0. /\ FirstInvOf(r) /\ TimeInvOf(r)
      /\ now \in Nat /\ at[r] \in Nat /\ tick[r] \in Nat /\ hbAt[r] \in Nat
  BY DEF FirstInv, TimeInv, TypeOK
<1>1. faults = 0
  BY DEF Next, vars, LeaseInv, TypeOK, Lock, LockStep, Create, Head, Takeover, Retry, LockFail,
         CancelLock, HbAny, HbTick, HbPut, HbFail, HbStop, Unlock, UnlockStep, UnlockJoin,
         UnlockHead, UnlockDelete, UnlockFail, RetryUnlock, Crash, Restart, Tick, Fault
<1>2. \/ hb'[r] = hb[r] /\ etag'[r] = etag[r] /\ hbAt'[r] = hbAt[r] /\ tick'[r] = tick[r]
      \/ Create(r) /\ obj = NoObj
      \/ Takeover(r) /\ obj = seen[r]
      \/ HbTick(r)
      \/ HbPut(r)
  BY <1>1 DEF Next, vars, LeaseInv, TypeOK, Lock, LockStep, Create, Head, Takeover, Retry, LockFail,
         CancelLock, HbAny, HbTick, HbPut, HbFail, HbStop, Unlock, UnlockStep, UnlockJoin,
         UnlockHead, UnlockDelete, UnlockFail, RetryUnlock, Crash, Restart, Tick, Fault,
         heart, HbStep, StartHeartbeat, HeartInv
<1>3. CASE hb'[r] = hb[r] /\ etag'[r] = etag[r] /\ hbAt'[r] = hbAt[r] /\ tick'[r] = tick[r]
  BY <1>0, <1>1, <1>3 DEF FirstInvOf
<1>4. CASE (Create(r) /\ obj = NoObj) \/ (Takeover(r) /\ obj = seen[r])
  <2>1. /\ pc[r] \in {"create", "takeover"} /\ etag'[r] = putLock(r, at[r])
        /\ hb'[r] = "wait" /\ tick'[r] = now + Interval
    BY <1>4 DEF Create, Takeover, StartHeartbeat, SeenInv, Expired, TypeOK
  <2>2. etag'[r].exp = at[r] + Skew[r] + TTL /\ now <= at[r] + Latency
    BY <1>0, <2>1, PutLockType DEF TimeInvOf
  <2> QED
    BY <1>0, <2>1, <2>2, S3LockerAssumption DEF FirstInvOf, S3LockerAssumption
<1>5. CASE HbTick(r)
  <2>1. hb[r] = "wait" /\ hb'[r] = "put" /\ hbAt'[r] = now /\ etag' = etag
    BY <1>5 DEF HbTick, HbStep, TypeOK
  <2>2. now = tick[r]
    BY <1>0, <1>5 DEF HbTick, TimeInvOf
  <2> QED
    BY <1>0, <1>1, <2>1, <2>2 DEF FirstInvOf
<1>6. CASE HbPut(r)
  <2>1. /\ hb[r] = "put" /\ obj = etag[r] /\ obj # NoObj
    BY <1>0, <1>6 DEF HbPut, HeartInv, TimeInvOf
  <2>2. hb'[r] = "wait" /\ tick' = tick /\ etag'[r] = putLock(r, hbAt[r])
    BY <1>6, <2>1 DEF HbPut, HbStep, TypeOK
  <2>3. etag'[r].exp = hbAt[r] + Skew[r] + TTL /\ tick[r] = hbAt[r] + Interval
    BY <1>0, <2>1, <2>2, PutLockType DEF TimeInvOf
  <2> QED
    BY <1>0, <2>2, <2>3, S3LockerAssumption DEF FirstInvOf, S3LockerAssumption
<1> QED
  BY <1>2, <1>3, <1>4, <1>5, <1>6

\* The first failure is within the grace.
LEMMA FirstFailInGrace ==
  ASSUME LeaseInv, FirstInv, MaxFaults <= 1
  PROVE  FailsInGrace(Interval + Latency)
<1> SUFFICES ASSUME NEW p \in Proc, HbFail(p)
             PROVE  hbAt[p] + Skew[p] + TTL <= etag[p].exp + (Interval + Latency)
  BY DEF FailsInGrace
<1>1. faults = 0 /\ hb[p] = "put"
  BY S3LockerAssumption DEF HbFail, Fault, LeaseInv, TypeOK, S3LockerAssumption
<1>2. etag[p].exp \in Int /\ hbAt[p] \in Nat
  BY <1>1 DEF LeaseInv, HeartInv, TypeOK, Lease
<1> QED
  BY <1>1, <1>2, S3LockerAssumption DEF FirstInv, FirstInvOf, S3LockerAssumption

\* When at most one process crashes or one request fails, and that one is not a
\* renewal that took effect and lost its answer, the renewals are within their
\* grace by themselves: with a heartbeat every TTL/3, an exclusive lock whenever
\* three requests and the difference of the clocks fit in a third of the lease.
\* The excepted failure is not covered: with LostRenewal, HeldIsLeased fails.
THEOREM OneFailureExceptLostRenewal ==
  ASSUME TimelyLease(Interval + Latency), ~LostRenewal, MaxFaults <= 1
  PROVE  Spec => []HeldIsLeased /\ UnlockDeletesOnlyOwn /\ ImplementsLocker
<1> DEFINE Inv == LeaseInv /\ TimeInv /\ FirstInv
<1>1. Init => Inv
  BY InitLeaseInv, InitTimeInv DEF Init, FirstInv, FirstInvOf
<1>2. Inv /\ [Next]_vars => Inv' /\ [FailsInGrace(Interval + Latency)]_vars
  <2> SUFFICES ASSUME Inv, [Next]_vars
               PROVE  Inv' /\ [FailsInGrace(Interval + Latency)]_vars
    OBVIOUS
  <2>1. [FailsInGrace(Interval + Latency)]_vars
    BY FirstFailInGrace
  <2>2. LeaseInv'
    BY NextLeaseInv
  <2>3. TimeInv'
    BY <2>1, NextTimeInv
  <2>4. FirstInv'
    BY <2>2, NextFirstInv
  <2> QED
    BY <2>1, <2>2, <2>3, <2>4
<1>3. Spec => [](LeaseInv /\ TimeInv)
  BY <1>1, <1>2, PTL DEF Spec
<1> QED
  BY <1>3, LeasedProperties, PTL

==============================================================================
