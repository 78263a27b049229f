----------------------------- MODULE LockManager -----------------------------
(***************************************************************************)
(* The flock-like advisory lock of one path (lock.go) as the file handles  *)
(* of file_read.go and file_write.go use it: Lock, Unlock and Close called *)
(* by goroutines of several S3FS instances, over an optional cross-process *)
(* backend (the Locker interface).  Every map access of lockManager is     *)
(* keyed by the path, so the locks of different paths are independent and  *)
(* one path is enough.                                                     *)
(*                                                                         *)
(* A step is what a goroutine does while it holds lockManager.mu, or one   *)
(* call of the backend.  pathLock values live in a heap of cells; a        *)
(* goroutine blocked in acquireLocal keeps a pointer to its cell, and a    *)
(* cell nobody points to may be handed out again.                          *)
(***************************************************************************)
EXTENDS Naturals, FiniteSets

CONSTANTS
  Proc,          \* the S3FS instances, one lockManager each
  Handle,        \* the open file handles on the path (the owners)
  Thread,        \* goroutines that call into handles
  Home,          \* the instance a handle or goroutine belongs to
  Cell,          \* heap cells for pathLock values
  Nil,           \* nil pointer, no owner, free backend lock
  Orphan,        \* backend lock nobody renews: a Lock or Unlock of it failed
  HasExt,        \* TRUE when WithLocker configured a backend
  Fallible,      \* TRUE when backend calls may fail
  SharedHandles, \* TRUE when goroutines may use one handle at the same time
  Relock         \* TRUE when a handle may be locked after its Unlock failed

ASSUME LockManagerAssumption ==
  /\ Home \in [Handle \cup Thread -> Proc]
  /\ IsFiniteSet(Thread)
  /\ Nil \notin Proc \cup Handle \cup Thread \cup Cell \cup {Orphan}
  /\ Orphan \notin Proc
  /\ HasExt \in BOOLEAN /\ Fallible \in BOOLEAN
  /\ SharedHandles \in BOOLEAN /\ Relock \in BOOLEAN

VARIABLES
  locks,    \* locks[p]: the cell the map of instance p holds for the path
  owner,    \* owner[c]: pathLock.owner
  waiters,  \* waiters[c]: pathLock.waiters
  ext,      \* instance holding the backend lock, Nil or Orphan
  closed,   \* closed[h]: the handle's closed flag
  ctxDone,  \* ctxDone[p]: the context of instance p was cancelled
  pc,       \* pc[t]: where goroutine t stands
  op,       \* op[t]: the call it is in
  hd,       \* hd[t]: the handle it was called on
  ent,      \* ent[t]: the cell a blocked goroutine points to
  woken,    \* woken[t]: the freed channel it captured was closed
  granted   \* history: handles whose last Lock succeeded, no Unlock begun

vars == <<locks, owner, waiters, ext, closed, ctxDone,
          pc, op, hd, ent, woken, granted>>

PC == {"idle", "acquire", "wait", "ext", "undo",
       "holds", "extUnlock", "release"}

TypeOK ==
  /\ locks   \in [Proc -> Cell \cup {Nil}]
  /\ owner   \in [Cell -> Handle \cup {Nil}]
  /\ waiters \in [Cell -> Nat]
  /\ ext     \in Proc \cup {Nil, Orphan}
  /\ closed  \in [Handle -> BOOLEAN]
  /\ ctxDone \in [Proc -> BOOLEAN]
  /\ pc      \in [Thread -> PC]
  /\ op      \in [Thread -> {"none", "lock", "unlock", "close"}]
  /\ hd      \in [Thread -> Handle \cup {Nil}]
  /\ ent     \in [Thread -> Cell \cup {Nil}]
  /\ woken   \in [Thread -> BOOLEAN]
  /\ granted \subseteq Handle

Init ==
  /\ locks   = [p \in Proc |-> Nil]
  /\ owner   = [c \in Cell |-> Nil]
  /\ waiters = [c \in Cell |-> 0]
  /\ ext     = Nil
  /\ closed  = [h \in Handle |-> FALSE]
  /\ ctxDone = [p \in Proc |-> FALSE]
  /\ pc      = [t \in Thread |-> "idle"]
  /\ op      = [t \in Thread |-> "none"]
  /\ hd      = [t \in Thread |-> Nil]
  /\ ent     = [t \in Thread |-> Nil]
  /\ woken   = [t \in Thread |-> FALSE]
  /\ granted = {}

------------------------------------------------------------------------------
(* Calls and returns.                                                      *)

\* Mutant: any owner will do.
OwnedByAny(h) == locks[Home[h]] # Nil /\ owner[locks[Home[h]]] # Nil

\* holds: the map of h's instance names h as the owner.
OwnedBy(h) == locks[Home[h]] # Nil /\ owner[locks[Home[h]]] = h

\* What a failed Unlock leaves: the map still names h as the owner, and no
\* call on h is under way.
Lapsed(h) ==
  /\ OwnedBy(h)
  /\ h \notin granted
  /\ \A t \in Thread : hd[t] # h

\* Goroutine t may call into h: same instance, t is free, and no other
\* goroutine is inside h unless the application shares handles.
MayCall(t, h) ==
  /\ pc[t] = "idle"
  /\ Home[t] = Home[h]
  /\ ~closed[h]
  /\ ~SharedHandles => \A u \in Thread : hd[u] # h

Enter(t, h, call, at) ==
  /\ MayCall(t, h)
  /\ pc' = [pc EXCEPT ![t] = at]
  /\ op' = [op EXCEPT ![t] = call]
  /\ hd' = [hd EXCEPT ![t] = h]

Return(t) ==
  /\ pc'  = [pc EXCEPT ![t] = "idle"]
  /\ op'  = [op EXCEPT ![t] = "none"]
  /\ hd'  = [hd EXCEPT ![t] = Nil]

Goto(t, at) ==
  /\ pc' = [pc EXCEPT ![t] = at]
  /\ UNCHANGED <<op, hd>>

\* A handle's Lock: a closed handle fails with ErrClosed, leaving no trace.
\* Unless Relock, the application answers a failed Unlock with another Unlock
\* or with Close, as unlock's comment has it ("so the caller may retry").
LockCall(t, h) ==
  /\ Relock \/ ~Lapsed(h)
  /\ Enter(t, h, "lock", "acquire")
  /\ UNCHANGED <<locks, owner, waiters, ext, closed, ctxDone, ent, woken,
                 granted>>

UnlockCall(t, h) ==
  /\ Enter(t, h, "unlock", "holds")
  /\ granted' = granted \ {h}
  /\ UNCHANGED <<locks, owner, waiters, ext, closed, ctxDone, ent, woken>>

\* The handle's mutex is held until Close returns; as closed is already set,
\* a call that waits for that mutex only fails with ErrClosed afterwards.
CloseCall(t, h) ==
  /\ Enter(t, h, "close", "holds")
  /\ closed'  = [closed EXCEPT ![h] = TRUE]
  /\ granted' = granted \ {h}
  /\ UNCHANGED <<locks, owner, waiters, ext, ctxDone, ent, woken>>

\* The context given to WithContext is cancelled.
CtxCancel(p) ==
  /\ ~ctxDone[p]
  /\ ctxDone' = [ctxDone EXCEPT ![p] = TRUE]
  /\ UNCHANGED <<locks, owner, waiters, ext, closed, pc, op, hd, ent, woken,
                 granted>>

------------------------------------------------------------------------------
(* acquireLocal.                                                           *)

\* Cells no pointer reaches.
Garbage == {c \in Cell : /\ \A p \in Proc : locks[p] # c
                         /\ \A t \in Thread : ent[t] # c}

\* Mutant: the waiter is not counted.
WaitUncounted(t, e, wait) ==
  /\ waiters' = wait
  /\ ent'   = [ent EXCEPT ![t] = e]
  /\ woken' = [woken EXCEPT ![t] = FALSE]
  /\ Goto(t, "wait")

\* t registers as a waiter on the current freed channel of cell e.
WaitOn(t, e, wait) ==
  /\ waiters' = [wait EXCEPT ![e] = @ + 1]
  /\ ent'   = [ent EXCEPT ![t] = e]
  /\ woken' = [woken EXCEPT ![t] = FALSE]
  /\ Goto(t, "wait")

\* The rest of a pass of the loop once e is the map's cell, own its owner
\* and wait the waiter counts: take the lock, notice that the handle already
\* has it, or wait for the owner.
TakeOrWait(t, e, own, wait) ==
  \/ /\ own[e] = Nil
     /\ owner'   = [own EXCEPT ![e] = hd[t]]
     /\ waiters' = wait
     /\ ent'   = [ent EXCEPT ![t] = Nil]
     /\ woken' = [woken EXCEPT ![t] = FALSE]
     /\ IF HasExt
        THEN Goto(t, "ext") /\ UNCHANGED granted
        ELSE Return(t) /\ granted' = granted \cup {hd[t]}
  \/ /\ own[e] = hd[t]
     /\ owner'   = own
     /\ waiters' = wait
     /\ ent'   = [ent EXCEPT ![t] = Nil]
     /\ woken' = [woken EXCEPT ![t] = FALSE]
     /\ Return(t)
     /\ granted' = granted \cup {hd[t]}
  \/ /\ own[e] \notin {Nil, hd[t]}
     /\ owner'   = own
     /\ WaitOn(t, e, wait)
     /\ UNCHANGED granted

\* One pass of the loop, from the map lookup on.
LoopPass(t, wait) ==
  LET p == Home[t] IN
  \/ /\ locks[p] # Nil
     /\ TakeOrWait(t, locks[p], owner, wait)
     /\ UNCHANGED locks
  \/ /\ locks[p] = Nil
     /\ \E e \in Garbage :
          /\ locks' = [locks EXCEPT ![p] = e]
          /\ TakeOrWait(t, e, [owner EXCEPT ![e] = Nil],
                              [wait EXCEPT ![e] = 0])

AcquireLocal(t) ==
  /\ pc[t] = "acquire"
  /\ LoopPass(t, waiters)
  /\ UNCHANGED <<ext, closed, ctxDone>>

\* The captured freed channel is closed: retake the mutex and try again.
Wake(t) ==
  /\ pc[t] = "wait"
  /\ woken[t]
  /\ LoopPass(t, [waiters EXCEPT ![ent[t]] = @ - 1])
  /\ UNCHANGED <<ext, closed, ctxDone>>

\* Mutant: an unowned cell leaves the map although goroutines wait on it.
CleanupWaited(p, o, n) == IF o = Nil THEN [locks EXCEPT ![p] = Nil] ELSE locks

\* cleanupLocked: what the map holds once cell e has owner o and n waiters.
Cleanup(p, o, n) ==
  IF o = Nil /\ n = 0 THEN [locks EXCEPT ![p] = Nil] ELSE locks

\* Stop waiting and fail with the context's error.
GiveUp(t) ==
  LET e == ent[t] IN
  /\ waiters' = [waiters EXCEPT ![e] = @ - 1]
  /\ locks'   = Cleanup(Home[t], owner[e], waiters'[e])
  /\ ent'     = [ent EXCEPT ![t] = Nil]
  /\ woken'   = [woken EXCEPT ![t] = FALSE]
  /\ Return(t)
  /\ UNCHANGED <<owner, ext, closed, ctxDone, granted>>

\* Mutant: the context is looked at only after a wake-up.
CancelWoken(t) ==
  /\ pc[t] = "wait"
  /\ woken[t] /\ ctxDone[Home[t]]
  /\ GiveUp(t)

\* The context is done before the freed channel is closed, or both are.
CancelWait(t) ==
  /\ pc[t] = "wait"
  /\ ctxDone[Home[t]]
  /\ GiveUp(t)

------------------------------------------------------------------------------
(* releaseLocal.                                                           *)

\* Mutant: the freed channel is not closed.
ReleaseSilently(h) ==
  LET p == Home[h] IN
  \/ /\ OwnedBy(h)
     /\ owner' = [owner EXCEPT ![locks[p]] = Nil]
     /\ locks' = Cleanup(p, Nil, waiters[locks[p]])
     /\ UNCHANGED woken
  \/ ~OwnedBy(h) /\ UNCHANGED <<owner, woken, locks>>

\* Gives up h's hold, if it has one: everyone blocked on the current freed
\* channel is woken, and a cell without waiters leaves the map.
ReleaseLocal(h) ==
  LET p == Home[h]
      e == locks[p]
  IN  \/ /\ OwnedBy(h)
         /\ owner' = [owner EXCEPT ![e] = Nil]
         /\ woken' = [t \in Thread |->
                        woken[t] \/ (pc[t] = "wait" /\ ent[t] = e)]
         /\ locks' = Cleanup(p, Nil, waiters[e])
      \/ /\ ~OwnedBy(h)
         /\ UNCHANGED <<owner, woken, locks>>

------------------------------------------------------------------------------
(* lock, unlock and releaseOnClose around the backend.                     *)

\* ext.Lock succeeds; Lock returns nil.
ExtLock(t) ==
  /\ pc[t] = "ext"
  /\ ext = Nil
  /\ ext' = Home[t]
  /\ granted' = granted \cup {hd[t]}
  /\ Return(t)
  /\ UNCHANGED <<locks, owner, waiters, closed, ctxDone, ent, woken>>

\* Mutant: the error of ext.Lock is dropped.
ExtLockForgiven(t) ==
  /\ pc[t] = "ext"
  /\ Fallible \/ ctxDone[Home[t]]
  /\ granted' = granted \cup {hd[t]}
  /\ Return(t)
  /\ UNCHANGED <<locks, owner, waiters, ext, closed, ctxDone, ent, woken>>

\* ext.Lock fails, on a backend error or because the context is done.  The
\* answer may be lost after the backend took the lock: it is then an orphan.
ExtLockFail(t) ==
  /\ pc[t] = "ext"
  /\ Fallible \/ ctxDone[Home[t]]
  /\ \/ UNCHANGED ext
     \/ ext = Nil /\ ext' = Orphan
  /\ Goto(t, "undo")
  /\ UNCHANGED <<locks, owner, waiters, closed, ctxDone, ent, woken, granted>>

Undo(t) ==
  /\ pc[t] = "undo"
  /\ ReleaseLocal(hd[t])
  /\ Return(t)
  /\ UNCHANGED <<waiters, ext, closed, ctxDone, ent, granted>>

\* unlock and releaseOnClose start with the holds check.
Holds(t) ==
  /\ pc[t] = "holds"
  /\ IF ~OwnedBy(hd[t]) THEN Return(t)
     ELSE Goto(t, IF HasExt THEN "extUnlock" ELSE "release")
  /\ UNCHANGED <<locks, owner, waiters, ext, closed, ctxDone, ent, woken,
                 granted>>

\* ext.Unlock, a no-op when this instance does not hold the backend lock.
ExtUnlock(t) ==
  /\ pc[t] = "extUnlock"
  /\ ext' = IF ext = Home[t] THEN Nil ELSE ext
  /\ Goto(t, "release")
  /\ UNCHANGED <<locks, owner, waiters, closed, ctxDone, ent, woken, granted>>

\* What a failed Unlock of the backend leaves of its lock.  S3Locker forgets
\* the lock and stops renewing it before its first request (lock_s3.go:198-206):
\* the object was deleted and the answer lost, or it is left to its lease.
Forsaken(p) == IF ext = p THEN {Nil, Orphan} ELSE {ext}

\* Mutant: Close gives up like Unlock does.
ExtUnlockFailKeeps(t) ==
  /\ pc[t] = "extUnlock"
  /\ Fallible \/ ctxDone[Home[t]]
  /\ ext' \in Forsaken(Home[t])
  /\ Return(t)
  /\ UNCHANGED <<locks, owner, waiters, closed, ctxDone, ent, woken, granted>>

\* ext.Unlock fails: unlock returns the error and leaves the handle the owner
\* in the map, releaseOnClose goes on.
ExtUnlockFail(t) ==
  /\ pc[t] = "extUnlock"
  /\ Fallible \/ ctxDone[Home[t]]
  /\ ext' \in Forsaken(Home[t])
  /\ \/ op[t] = "unlock" /\ Return(t)
     \/ op[t] = "close"  /\ Goto(t, "release")
  /\ UNCHANGED <<locks, owner, waiters, closed, ctxDone, ent, woken, granted>>

Release(t) ==
  /\ pc[t] = "release"
  /\ ReleaseLocal(hd[t])
  /\ Return(t)
  /\ UNCHANGED <<waiters, ext, closed, ctxDone, ent, granted>>

\* The lease of an orphaned backend lock runs out.
ExtExpire ==
  /\ ext = Orphan
  /\ ext' = Nil
  /\ UNCHANGED <<locks, owner, waiters, closed, ctxDone, pc, op, hd, ent,
                 woken, granted>>

------------------------------------------------------------------------------
Step(t) ==
  \/ AcquireLocal(t) \/ Wake(t) \/ CancelWait(t)
  \/ ExtLock(t) \/ ExtLockFail(t) \/ Undo(t)
  \/ Holds(t) \/ ExtUnlock(t) \/ ExtUnlockFail(t) \/ Release(t)

Next ==
  \/ \E t \in Thread, h \in Handle :
       LockCall(t, h) \/ UnlockCall(t, h) \/ CloseCall(t, h)
  \/ \E t \in Thread : Step(t)
  \/ \E p \in Proc : CtxCancel(p)
  \/ ExtExpire

Spec == Init /\ [][Next]_vars
\* Every step of a goroutine inside a call runs if it stays possible: nothing
\* holds lockManager.mu across a blocking operation, and the select of
\* acquireLocal picks among its ready cases at random.  Applications need not
\* call anything; the backend fails a Lock only when its context is done.
Fairness ==
  /\ \A t \in Thread :
       /\ WF_vars(AcquireLocal(t)) /\ WF_vars(Wake(t))
       /\ WF_vars(CancelWait(t))   /\ WF_vars(Undo(t))
       /\ WF_vars(Holds(t))        /\ WF_vars(Release(t))
       /\ WF_vars(ExtUnlock(t) \/ ExtUnlockFail(t))
       /\ WF_vars(ExtLock(t))
       /\ WF_vars(ctxDone[Home[t]] /\ ExtLockFail(t))
  /\ WF_vars(ExtExpire)

FairSpec == Spec /\ Fairness

------------------------------------------------------------------------------
(* Properties.                                                             *)

\* The goroutines blocked on cell c.
Blocked(c) == {t \in Thread : pc[t] = "wait" /\ ent[t] = c}

\* Handles that exclude each other: all of them with a backend, those of one
\* instance without (lockManager, "exclusive ... owned per handle").
Contend(g, h) == HasExt \/ Home[g] = Home[h]

\* Two handles on the path never both have the lock, across the goroutines of
\* an instance and, with a backend, across instances.  A handle has the lock
\* from a Lock that returned nil until its Unlock or Close begins.
MutualExclusion ==
  \A g, h \in granted : Contend(g, h) => g = h

\* A handle whose Lock succeeded is the owner recorded in its instance's map
\* and, with a backend, its instance holds the backend lock: "holding a lock
\* additionally requires the cross-process lock of the same name".
GrantIsBacked ==
  \A h \in granted : OwnedBy(h) /\ (HasExt => ext = Home[h])

\* acquireLocal, releaseLocal and cleanupLocked keep the map and the blocked
\* goroutines in step: a goroutine never waits on a cell that left the map
\* (its wake-up or cancellation would act on another lock), the count is the
\* number of goroutines, and a cell nobody owns or awaits is not leaked.
EntryLifecycle ==
  /\ \A t \in Thread : pc[t] = "wait" => ent[t] = locks[Home[t]]
  /\ \A p \in Proc : locks[p] # Nil =>
       /\ waiters[locks[p]] = Cardinality(Blocked(locks[p]))
       /\ owner[locks[p]] # Nil \/ waiters[locks[p]] > 0

\* Closing and replacing the freed channel loses no wake-up: a goroutine whose
\* channel is still open waits for an owner that has yet to release.
NoLostWakeup ==
  \A t \in Thread : pc[t] = "wait" /\ ~woken[t] => owner[ent[t]] # Nil

\* The contract of the Locker interface: one instance never has two Lock calls
\* for the same name in the backend at the same time.
ExtLockSerialized ==
  \A t, u \in Thread :
    pc[t] = "ext" /\ pc[u] = "ext" /\ Home[t] = Home[u] => t = u

\* releaseOnClose: once Close returned, and no call on the handle is left, the
\* handle owns no lock ("a closed handle must always lose its lock").
ClosedHandleOwnsNothing ==
  \A h \in Handle :
    closed[h] /\ (\A t \in Thread : hd[t] # h) => ~OwnedBy(h)

\* A lock that was released while goroutines wait is taken again, or they all
\* gave up: the freed channel really hands the lock over.
FreedLockIsTaken ==
  \A p \in Proc :
    (locks[p] # Nil /\ owner[locks[p]] = Nil)
      ~> (locks[p] = Nil \/ owner[locks[p]] # Nil)

\* Cancelling the context ends every blocked Lock, in acquireLocal and in the
\* backend.
CancelEndsBlockedLock ==
  \A t \in Thread :
    (pc[t] \in {"wait", "ext"} /\ ctxDone[Home[t]])
      ~> (pc[t] \notin {"wait", "ext"})

\* unlock: "On external backend failure the lock stays held so the caller may
\* retry", that is, no handle that contends with one whose Unlock failed is
\* granted the lock before the retry.  This holds within an instance and not
\* across instances, where S3Locker has given the lock up: no run claims it.
FailedUnlockExcludes ==
  \A h \in Handle, g \in granted : Lapsed(h) /\ Contend(g, h) => g = h

\* Refinement: seen from the application, the lock of the path is an exclusive
\* lock whose clients are the handles.
Flock == INSTANCE ExclusiveLock WITH
           Client <- Handle,
           Nobody <- Nil,
           holder <- IF granted = {} THEN Nil ELSE CHOOSE h \in granted : TRUE

\* The lock manager implements an exclusive lock: a handle gets the lock only
\* after the previous holder's Unlock or Close began.
ImplementsFlock == Flock!Spec

==============================================================================
