------------------------------ MODULE S3Locker ------------------------------
(***************************************************************************)
(* S3Locker (lock_s3.go): one lock object in the bucket, created with      *)
(* If-None-Match, renewed and taken over with If-Match, held under a lease *)
(* of TTL seconds that a heartbeat goroutine renews.  Each process has its *)
(* own clock.  A request is sent in one step and takes effect and is       *)
(* answered in a later one; it may fail before or after taking effect.     *)
(*                                                                         *)
(* The body of the object is the owner and the expiry, so the ETag         *)
(* identifies the pair and comparing pairs is comparing ETags.             *)
(***************************************************************************)
EXTENDS Integers

CONSTANTS
  Proc,        \* processes, one S3Locker each
  TTL,         \* lease duration
  Interval,    \* heartbeat period, ttl/3
  Poll,        \* poll interval of a blocked Lock
  Skew,        \* Skew[p]: what the clock of p is ahead of real time
  Latency,     \* a timely request is answered this soon
  Timely,      \* TRUE when every request and every tick is timely
  LostRenewal, \* TRUE when a renewal may take effect and its answer be lost
  NoObj,       \* the lock object does not exist
  MaxTime,     \* bound on real time
  MaxLocks,    \* bound on the Lock calls of a process
  MaxFaults    \* bound on failed requests and crashes

ASSUME S3LockerAssumption ==
  /\ TTL \in Nat \ {0} /\ Interval \in Nat \ {0} /\ Poll \in Nat \ {0}
  /\ Skew \in [Proc -> Int]
  /\ Latency \in Nat /\ MaxTime \in Nat /\ MaxLocks \in Nat /\ MaxFaults \in Nat
  /\ Timely \in BOOLEAN /\ LostRenewal \in BOOLEAN
  /\ NoObj \notin [owner : Proc \X Nat, exp : Int]

VARIABLES
  now,     \* real time
  obj,     \* the lock object, or NoObj
  pc,      \* pc[p]: where Lock or Unlock of p stands
  epoch,   \* epoch[p]: Lock calls so far; <<p, epoch[p]>> is the owner ID
  at,      \* at[p]: when the pending request was sent, or the poll ends
  seen,    \* seen[p]: the object whose ETag a takeover matches
  hb,      \* hb[p]: where the heartbeat goroutine stands
  etag,    \* etag[p]: the object whose ETag the heartbeat matches
  hbAt,    \* hbAt[p]: when the pending renewal was sent
  tick,    \* tick[p]: the next value of the heartbeat's ticker
  faults   \* failures and crashes so far

vars == <<now, obj, pc, epoch, at, seen, hb, etag, hbAt, tick, faults>>
heart == <<hb, etag, hbAt, tick>>

Lease == [owner : Proc \X Nat, exp : Int]

PC == {"idle", "create", "head", "takeover", "poll", "held",
       "stopping", "uhead", "udel", "failed", "down"}

TypeOK ==
  /\ now   \in Nat
  /\ obj   \in Lease \cup {NoObj}
  /\ pc    \in [Proc -> PC]
  /\ epoch \in [Proc -> Nat]
  /\ at    \in [Proc -> Nat]
  /\ seen  \in [Proc -> Lease \cup {NoObj}]
  /\ hb    \in [Proc -> {"none", "wait", "put", "done"}]
  /\ etag  \in [Proc -> Lease \cup {NoObj}]
  /\ hbAt  \in [Proc -> Nat]
  /\ tick  \in [Proc -> Nat]
  /\ faults \in Nat

Init ==
  /\ now = 0
  /\ obj = NoObj
  /\ pc    = [p \in Proc |-> "idle"]
  /\ epoch = [p \in Proc |-> 0]
  /\ at    = [p \in Proc |-> 0]
  /\ seen  = [p \in Proc |-> NoObj]
  /\ hb    = [p \in Proc |-> "none"]
  /\ etag  = [p \in Proc |-> NoObj]
  /\ hbAt  = [p \in Proc |-> 0]
  /\ tick  = [p \in Proc |-> 0]
  /\ faults = 0

------------------------------------------------------------------------------
Clock(p) == now + Skew[p]
Me(p)    == <<p, epoch[p]>>
Owns(p)  == obj # NoObj /\ obj.owner = Me(p)

\* Mutant: the owner ID is not drawn anew for every Lock.
PutFixedOwner(p, t) == [owner |-> p, exp |-> t + Skew[p] + TTL]

\* Mutant: the lease lasts one heartbeat period.
PutShortLease(p, t) == [owner |-> Me(p), exp |-> t + Skew[p] + Interval]

\* The object putLock writes when p sends the request at real time t.
putLock(p, t) == [owner |-> Me(p), exp |-> t + Skew[p] + TTL]

\* p found object o and not time.Now().Unix() <= exp.
Expired(p, o) == o # NoObj /\ Clock(p) > o.exp

\* p goes on to step s; timed steps start a request or a poll timer.
Goto(p, s, t) ==
  /\ pc' = [pc EXCEPT ![p] = s]
  /\ at' = [at EXCEPT ![p] = t]

\* startHeartbeat, and Lock returns nil.
StartHeartbeat(p, o) ==
  /\ Goto(p, "held", 0)
  /\ hb'   = [hb EXCEPT ![p] = "wait"]
  /\ etag' = [etag EXCEPT ![p] = o]
  /\ hbAt' = [hbAt EXCEPT ![p] = 0]
  /\ tick' = [tick EXCEPT ![p] = now + Interval]

Fault ==
  /\ faults < MaxFaults
  /\ faults' = faults + 1

------------------------------------------------------------------------------
(* Lock and tryAcquire.                                                    *)

Lock(p) ==
  /\ pc[p] = "idle"
  /\ epoch[p] < MaxLocks
  /\ epoch' = [epoch EXCEPT ![p] = @ + 1]
  /\ hb'    = [hb EXCEPT ![p] = "none"]
  /\ Goto(p, "create", now)
  /\ UNCHANGED <<now, obj, seen, etag, hbAt, tick, faults>>

\* Mutant: If-None-Match is missing.
CreateAnyway(p) ==
  /\ pc[p] = "create"
  /\ obj' = putLock(p, at[p])
  /\ StartHeartbeat(p, obj')
  /\ UNCHANGED <<now, epoch, seen, faults>>

\* PutObject with If-None-Match "*".
Create(p) ==
  /\ pc[p] = "create"
  /\ \/ /\ obj = NoObj
        /\ obj' = putLock(p, at[p])
        /\ StartHeartbeat(p, obj')
     \/ /\ obj # NoObj
        /\ Goto(p, "head", now)
        /\ UNCHANGED <<obj, heart>>
  /\ UNCHANGED <<now, epoch, seen, faults>>

\* Mutant: the lease is never looked at.
HeadPolls(p) ==
  /\ pc[p] = "head"
  /\ Goto(p, "poll", now + Poll)
  /\ UNCHANGED <<now, obj, epoch, seen, heart, faults>>

\* HeadObject: poll again unless the lease ran out by the clock of p.
Head(p) ==
  /\ pc[p] = "head"
  /\ \/ /\ ~Expired(p, obj)
        /\ Goto(p, "poll", now + Poll)
        /\ UNCHANGED seen
     \/ /\ Expired(p, obj)
        /\ seen' = [seen EXCEPT ![p] = obj]
        /\ Goto(p, "takeover", now)
  /\ UNCHANGED <<now, obj, epoch, heart, faults>>

\* Mutant: If-Match is missing.
TakeoverAnyway(p) ==
  /\ pc[p] = "takeover"
  /\ obj' = putLock(p, at[p])
  /\ StartHeartbeat(p, obj')
  /\ seen' = [seen EXCEPT ![p] = NoObj]
  /\ UNCHANGED <<now, epoch, faults>>

\* PutObject with If-Match on the inspected object.  For an object that is
\* gone the store answers 412, or 404, which ends Lock with an error.
Takeover(p) ==
  /\ pc[p] = "takeover"
  /\ \/ /\ obj = seen[p]
        /\ obj' = putLock(p, at[p])
        /\ StartHeartbeat(p, obj')
     \/ /\ obj # seen[p]
        /\ \/ Goto(p, "poll", now + Poll)
           \/ obj = NoObj /\ Goto(p, "idle", 0)
        /\ UNCHANGED <<obj, heart>>
  /\ seen' = [seen EXCEPT ![p] = NoObj]
  /\ UNCHANGED <<now, epoch, faults>>

\* The poll timer fires.
Retry(p) ==
  /\ pc[p] = "poll"
  /\ now >= at[p]
  /\ Goto(p, "create", now)
  /\ UNCHANGED <<now, obj, epoch, seen, heart, faults>>

\* The context is done while Lock polls.
CancelLock(p) ==
  /\ pc[p] = "poll"
  /\ Goto(p, "idle", 0)
  /\ UNCHANGED <<now, obj, epoch, seen, heart, faults>>

\* A request of Lock fails, perhaps after the store applied it; Lock returns
\* the error and forgets about the object.
LockFail(p) ==
  /\ pc[p] \in {"create", "head", "takeover"}
  /\ Fault
  /\ \/ UNCHANGED obj
     \/ /\ pc[p] \in {"create", "takeover"}
        /\ obj = seen[p]
        /\ obj' = putLock(p, at[p])
  /\ seen' = [seen EXCEPT ![p] = NoObj]
  /\ Goto(p, "idle", 0)
  /\ UNCHANGED <<now, epoch, heart>>

------------------------------------------------------------------------------
(* heartbeat.                                                              *)

HbStep(p, s) ==
  /\ hb'   = [hb EXCEPT ![p] = s]
  /\ hbAt' = [hbAt EXCEPT ![p] = IF s = "put" THEN now ELSE 0]

\* The ticker fires every Interval from its start and keeps one value.
HbTick(p) ==
  /\ hb[p] = "wait"
  /\ now >= tick[p]
  /\ HbStep(p, "put")
  /\ tick' = [tick EXCEPT ![p] = @ + Interval * ((now - @) \div Interval + 1)]
  /\ UNCHANGED <<now, obj, pc, epoch, at, seen, etag, faults>>

\* The renewal, PutObject with If-Match: a mismatch ends the heartbeat, the
\* 404 some stores answer for a deleted object does not.
HbPut(p) ==
  /\ hb[p] = "put"
  /\ \/ /\ obj = etag[p]
        /\ obj'  = putLock(p, hbAt[p])
        /\ etag' = [etag EXCEPT ![p] = obj']
        /\ HbStep(p, "wait")
     \/ /\ obj # etag[p]
        /\ HbStep(p, "done")
        /\ UNCHANGED <<obj, etag>>
     \/ /\ obj = NoObj
        /\ HbStep(p, "wait")
        /\ UNCHANGED <<obj, etag>>
  /\ UNCHANGED <<now, pc, epoch, at, seen, tick, faults>>

\* Mutant: any error ends the heartbeat.
HbFailStops(p) ==
  /\ hb[p] = "put"
  /\ Fault
  /\ HbStep(p, "done")
  /\ UNCHANGED <<now, obj, pc, epoch, at, seen, etag, tick>>

\* The renewal fails and is tried again on the next tick.
HbFail(p) ==
  /\ hb[p] = "put"
  /\ Fault
  /\ \/ UNCHANGED obj
     \/ LostRenewal /\ obj = etag[p] /\ obj' = putLock(p, hbAt[p])
  /\ HbStep(p, "wait")
  /\ UNCHANGED <<now, pc, epoch, at, seen, etag, tick>>

\* h.stop is closed; the goroutine returns and closes h.done.
HbStop(p) ==
  /\ hb[p] = "wait"
  /\ pc[p] = "stopping"
  /\ HbStep(p, "done")
  /\ UNCHANGED <<now, obj, pc, epoch, at, seen, etag, tick, faults>>

------------------------------------------------------------------------------
(* Unlock.                                                                 *)

Unlock(p) ==
  /\ pc[p] = "held"
  /\ Goto(p, "stopping", 0)
  /\ UNCHANGED <<now, obj, epoch, seen, heart, faults>>

\* Mutant: Unlock does not wait for h.done.
UnlockNoJoin(p) ==
  /\ pc[p] = "stopping"
  /\ Goto(p, "uhead", now)
  /\ UNCHANGED <<now, obj, epoch, seen, heart, faults>>

\* <-h.done, then HeadObject is sent.
UnlockJoin(p) ==
  /\ pc[p] = "stopping"
  /\ hb[p] = "done"
  /\ Goto(p, "uhead", now)
  /\ etag' = [etag EXCEPT ![p] = NoObj]
  /\ tick' = [tick EXCEPT ![p] = 0]
  /\ UNCHANGED <<now, obj, epoch, seen, hb, hbAt, faults>>

UnlockHead(p) ==
  /\ pc[p] = "uhead"
  /\ IF Owns(p) THEN Goto(p, "udel", now) ELSE Goto(p, "idle", 0)
  /\ UNCHANGED <<now, obj, epoch, seen, heart, faults>>

\* DeleteObject, which has no condition.
UnlockDelete(p) ==
  /\ pc[p] = "udel"
  /\ obj' = NoObj
  /\ Goto(p, "idle", 0)
  /\ UNCHANGED <<now, epoch, seen, heart, faults>>

\* A request of Unlock fails, perhaps after the delete took effect.
UnlockFail(p) ==
  /\ pc[p] \in {"uhead", "udel"}
  /\ Fault
  /\ UNCHANGED obj \/ (pc[p] = "udel" /\ obj' = NoObj)
  /\ Goto(p, "failed", 0)
  /\ UNCHANGED <<now, epoch, seen, heart>>

\* The caller tries again: held no longer has the name, Unlock returns nil.
RetryUnlock(p) ==
  /\ pc[p] = "failed"
  /\ Goto(p, "idle", 0)
  /\ UNCHANGED <<now, obj, epoch, seen, heart, faults>>

------------------------------------------------------------------------------
(* The environment.                                                        *)

\* The process dies, its heartbeat with it; only the object is left.
Crash(p) ==
  /\ pc[p] # "down"
  /\ Fault
  /\ Goto(p, "down", 0)
  /\ seen' = [seen EXCEPT ![p] = NoObj]
  /\ hb'   = [hb EXCEPT ![p] = "none"]
  /\ etag' = [etag EXCEPT ![p] = NoObj]
  /\ hbAt' = [hbAt EXCEPT ![p] = 0]
  /\ tick' = [tick EXCEPT ![p] = 0]
  /\ UNCHANGED <<now, obj, epoch>>

Restart(p) ==
  /\ pc[p] = "down"
  /\ Goto(p, "idle", 0)
  /\ UNCHANGED <<now, obj, epoch, seen, heart, faults>>

\* Time may not pass p by when everything is timely: a request is answered
\* within Latency, the heartbeat reacts to its ticker and to h.stop at once.
Overdue(p) ==
  \/ pc[p] \in {"create", "head", "takeover", "uhead", "udel"}
     /\ now >= at[p] + Latency
  \/ hb[p] = "put"  /\ now >= hbAt[p] + Latency
  \/ hb[p] = "wait" /\ now >= tick[p]
  \/ pc[p] = "stopping" /\ hb[p] # "put"

Tick ==
  /\ now < MaxTime
  /\ Timely => \A p \in Proc : ~Overdue(p)
  /\ now' = now + 1
  /\ UNCHANGED <<obj, pc, epoch, at, seen, heart, faults>>

------------------------------------------------------------------------------
LockStep(p) ==
  Create(p) \/ Head(p) \/ Takeover(p) \/ Retry(p) \/ LockFail(p)

HbAny(p) == HbTick(p) \/ HbPut(p) \/ HbFail(p) \/ HbStop(p)

UnlockStep(p) ==
  UnlockJoin(p) \/ UnlockHead(p) \/ UnlockDelete(p) \/ UnlockFail(p)

Next ==
  \/ \E p \in Proc :
       \/ Lock(p) \/ LockStep(p) \/ CancelLock(p)
       \/ HbAny(p)
       \/ Unlock(p) \/ UnlockStep(p) \/ RetryUnlock(p)
       \/ Crash(p) \/ Restart(p)
  \/ Tick

Spec == Init /\ [][Next]_vars

\* Requests are answered, timers fire and time goes on.  Nobody has to call
\* Lock or Unlock, and a crashed process need not come back.
FairSpec ==
  /\ Spec
  /\ \A p \in Proc : WF_vars(LockStep(p)) /\ WF_vars(HbAny(p)) /\ WF_vars(UnlockStep(p))
  /\ WF_vars(Tick)

------------------------------------------------------------------------------
(* Properties.                                                             *)

\* Whatever the delays and failures, an object is replaced by another owner's
\* only after its lease ran out by the clock of the new owner: the If-Match of
\* tryAcquire is a compare-and-swap on the object that was inspected.
TakeoverOnlyExpired ==
  [][obj # NoObj /\ obj' # NoObj /\ obj'.owner # obj.owner
       => Expired(obj'.owner[1], obj)]_vars

\* The lock object of p is written only by a Lock or a heartbeat that is
\* still entitled to it: once Unlock joined the heartbeat no late renewal
\* brings the object back or extends it.
NoLateRenewal ==
  [][\A p \in Proc :
       obj' # obj /\ obj' # NoObj /\ obj'.owner = Me(p)
         => pc[p] \in {"create", "takeover", "held", "stopping"}]_vars

\* With timely requests, clocks that agree, fewer failed renewals than the lease
\* covers and none that took effect and lost its answer, a process that holds
\* the lock has its object in the bucket under a lease no other process may take
\* over, so that no two hold it: "Holders renew a TTL lease".
HeldIsLeased ==
  \A p \in Proc : pc[p] = "held" =>
    Owns(p) /\ \A q \in Proc : ~Expired(q, obj)

\* Unlock "verifies the lock is still ours and deletes it": the object it
\* deletes is its own.
UnlockDeletesOnlyOwn ==
  [][\A p \in Proc : pc[p] = "udel" /\ obj # NoObj /\ obj' = NoObj
                       => Owns(p)]_vars

\* heartbeat: "A precondition failure means the lock was taken over": the
\* renewal of a held lock does not stop while the object is still its own.
\* It holds when no renewal takes effect and loses its answer; where one does,
\* the next renewal does not match the ETag of the object it wrote itself.
RenewalStopsOnlyWhenLost ==
  \A p \in Proc : pc[p] = "held" /\ hb[p] = "done" => ~Owns(p)

\* Lock of p is under way; the object belongs to nobody who would release or
\* renew it: its owner died, its Unlock failed, or the answer to its Lock was
\* lost.
Waiting(p) == pc[p] \in {"create", "head", "poll", "takeover"}
Orphan ==
  /\ obj # NoObj
  /\ \A p \in Proc : Owns(p) => pc[p] \notin {"held", "stopping", "uhead", "udel"}

\* "locks left by a crashed process are taken over once the lease expires": a
\* blocked Lock does not wait for ever on a lock that was left, in whatever
\* way.  Only those are looked at that leave time for the lease, the skew and
\* a poll before MaxTime.
OrphanIsTakenOver ==
  \A p \in Proc :
    (Waiting(p) /\ Orphan /\ now + TTL + Poll + 2 <= MaxTime)
      ~> (~Waiting(p) \/ ~Orphan)

\* The processes that hold the lock, and one of them.
Holders == {p \in Proc : pc[p] = "held"}
Holder  == IF Holders = {} THEN NoObj ELSE CHOOSE p \in Holders : TRUE

\* S3Locker gives LockManager the exclusive lock its backend has to be.
Backend == INSTANCE ExclusiveLock WITH
             Client <- Proc,
             Nobody <- NoObj,
             holder <- Holder

\* Refinement: a process acquires the lock only after the previous holder
\* called Unlock or died.
ImplementsLocker == Backend!Spec

==============================================================================
