-------------------------- MODULE LockManagerProofs --------------------------
(***************************************************************************)
(* Proofs about LockManager, for any number of instances, handles,         *)
(* goroutines and cells, with or without a backend.                        *)
(***************************************************************************)
EXTENDS LockManager, FiniteSetTheorems, TLAPS

------------------------------------------------------------------------------
(* The invariant of the map and the waiters, which holds however handles   *)
(* are shared.                                                             *)

\* A goroutine in a call has a handle of its own instance, and exactly the
\* blocked ones point to a cell.
CallInv ==
  \A t \in Thread :
    /\ pc[t] = "idle" <=> hd[t] = Nil
    /\ hd[t] # Nil => Home[hd[t]] = Home[t]
    /\ pc[t] = "wait" <=> ent[t] # Nil

\* Instances do not share cells.
CellInv ==
  \A p, q \in Proc : locks[p] = locks[q] /\ locks[p] # Nil => p = q

\* An owner belongs to the instance whose map it is in.
OwnerInv ==
  \A p \in Proc : locks[p] # Nil /\ owner[locks[p]] # Nil
                    => Home[owner[locks[p]]] = p

MapInv == TypeOK /\ CallInv /\ CellInv /\ OwnerInv /\ EntryLifecycle /\ NoLostWakeup

\* The goroutines blocked on a cell can be counted.
LEMMA BlockedFinite ==
  ASSUME NEW c
  PROVE  /\ IsFiniteSet(Blocked(c))
         /\ Cardinality(Blocked(c)) \in Nat
         /\ Cardinality(Blocked(c)) = 0 => Blocked(c) = {}
<1>1. IsFiniteSet(Blocked(c))
  BY LockManagerAssumption, FS_Subset DEF LockManagerAssumption, Blocked
<1> QED
  BY <1>1, FS_CardinalityType, FS_EmptySet

\* The initial state satisfies the invariant.
LEMMA InitMapInv == Init => MapInv
<1> SUFFICES ASSUME Init PROVE MapInv
  OBVIOUS
<1> USE LockManagerAssumption DEF LockManagerAssumption, Init
<1>1. TypeOK
  BY DEF TypeOK, PC
<1>2. CallInv /\ CellInv /\ OwnerInv /\ EntryLifecycle /\ NoLostWakeup
  BY DEF CallInv, CellInv, OwnerInv, EntryLifecycle, NoLostWakeup
<1> QED
  BY <1>1, <1>2 DEF MapInv

\* A step that moves no goroutine into or out of a wait and leaves the map,
\* the owners and the wake-ups alone keeps the invariant.
LEMMA QuietStep ==
  ASSUME MapInv, TypeOK', CallInv',
         UNCHANGED <<locks, owner, waiters, ent, woken>>,
         \A t \in Thread : pc'[t] = "wait" <=> pc[t] = "wait"
  PROVE  MapInv'
<1>1. \A c : Blocked(c)' = Blocked(c)
  BY DEF Blocked
<1>2. CellInv' /\ OwnerInv' /\ NoLostWakeup'
  BY DEF MapInv, CellInv, OwnerInv, NoLostWakeup
<1>3. EntryLifecycle'
  BY <1>1 DEF MapInv, EntryLifecycle
<1> QED
  BY <1>2, <1>3 DEF MapInv

\* Calls, returns and what the backend does are such steps.
LEMMA QuietActions ==
  ASSUME MapInv,
         \/ \E t \in Thread, h \in Handle :
              LockCall(t, h) \/ UnlockCall(t, h) \/ CloseCall(t, h)
         \/ \E t \in Thread :
              \/ ExtLock(t) \/ ExtLockFail(t) \/ Holds(t)
              \/ ExtUnlock(t) \/ ExtUnlockFail(t)
         \/ \E p \in Proc : CtxCancel(p)
         \/ ExtExpire
  PROVE  MapInv'
<1> USE LockManagerAssumption DEF LockManagerAssumption, MapInv
<1>1. ASSUME NEW t \in Thread, NEW h \in Handle,
             LockCall(t, h) \/ UnlockCall(t, h) \/ CloseCall(t, h)
      PROVE  MapInv'
  <2> USE <1>1 DEF LockCall, UnlockCall, CloseCall, Enter, MayCall
  <2>1. closed' \in [Handle -> BOOLEAN] /\ granted' \subseteq Handle
    BY DEF TypeOK
  <2>2. /\ pc' \in [Thread -> PC] /\ hd' \in [Thread -> Handle \cup {Nil}]
        /\ op' \in [Thread -> {"none", "lock", "unlock", "close"}]
    BY DEF TypeOK, PC
  <2>3. TypeOK'
    BY <2>1, <2>2 DEF TypeOK
  <2>4. CallInv'
    BY DEF TypeOK, CallInv
  <2> QED
    BY <2>3, <2>4, QuietStep DEF TypeOK
<1>2. ASSUME NEW t \in Thread,
             \/ ExtLock(t) \/ ExtLockFail(t) \/ Holds(t)
             \/ ExtUnlock(t) \/ ExtUnlockFail(t)
      PROVE  MapInv'
  <2> USE <1>2 DEF ExtLock, ExtLockFail, Holds, ExtUnlock, ExtUnlockFail,
                   Forsaken, Goto, Return
  <2>0. hd[t] \in Handle
    BY DEF TypeOK, CallInv
  <2>1. TypeOK'
    BY <2>0 DEF TypeOK, PC
  <2>2. CallInv'
    BY <2>0 DEF TypeOK, CallInv
  <2> QED
    BY <2>1, <2>2, QuietStep DEF TypeOK
<1>3. ASSUME NEW p \in Proc, CtxCancel(p) PROVE MapInv'
  BY <1>3, QuietStep DEF CtxCancel, TypeOK, CallInv
<1>4. ASSUME ExtExpire PROVE MapInv'
  BY <1>4, QuietStep DEF ExtExpire, TypeOK, CallInv
<1> QED
  BY <1>1, <1>2, <1>3, <1>4

\* releaseLocal, ending a failed Lock, an Unlock or a Close.
LEMMA ReleaseKeepsMapInv ==
  ASSUME MapInv, NEW t \in Thread, Undo(t) \/ Release(t)
  PROVE  MapInv'
<1> USE LockManagerAssumption DEF LockManagerAssumption, MapInv
<1> DEFINE h == hd[t]
           p == Home[h]
           e == locks[p]
<1>1. /\ h \in Handle /\ p \in Proc /\ p = Home[t]
      /\ pc[t] # "wait" /\ ent[t] = Nil
      /\ ReleaseLocal(h) /\ Return(t)
      /\ UNCHANGED <<waiters, ext, closed, ctxDone, ent, granted>>
  BY DEF Undo, Release, TypeOK, CallInv
<1>2. CASE ~OwnedBy(h)
  <2>1. UNCHANGED <<locks, owner, woken>>
    BY <1>1, <1>2 DEF ReleaseLocal
  <2>2. TypeOK' /\ CallInv'
    BY <1>1, <2>1 DEF TypeOK, CallInv, Return, PC
  <2> QED
    BY <1>1, <2>1, <2>2, QuietStep DEF Return, TypeOK
<1>3. CASE OwnedBy(h)
  <2>1. /\ e \in Cell /\ owner[e] = h
        /\ owner' = [owner EXCEPT ![e] = Nil]
        /\ woken' = [u \in Thread |-> woken[u] \/ (pc[u] = "wait" /\ ent[u] = e)]
        /\ locks' = Cleanup(p, Nil, waiters[e])
    BY <1>1, <1>3 DEF OwnedBy, ReleaseLocal, TypeOK
  <2>2. TypeOK'
    BY <1>1, <2>1 DEF TypeOK, PC, Return, Cleanup
  <2>3. CallInv'
    BY <1>1 DEF TypeOK, CallInv, Return
  <2>4. CellInv'
    BY <1>1, <2>1 DEF TypeOK, CellInv, Cleanup
  <2>5. OwnerInv'
    BY <1>1, <2>1 DEF TypeOK, OwnerInv, CellInv, Cleanup
  <2>6. waiters[e] = Cardinality(Blocked(e))
    BY <1>1, <2>1 DEF EntryLifecycle
  <2>7. ASSUME NEW u \in Thread, pc'[u] = "wait"
        PROVE  ent'[u] = locks'[Home[u]]
    <3>1. u # t /\ pc[u] = "wait" /\ ent'[u] = ent[u] /\ ent[u] = locks[Home[u]]
      BY <1>1, <2>7 DEF Return, TypeOK, EntryLifecycle
    <3>2. CASE Home[u] # p
      BY <1>1, <2>1, <3>1, <3>2 DEF Cleanup, TypeOK
    <3>3. CASE Home[u] = p
      <4>1. u \in Blocked(e)
        BY <3>1, <3>3 DEF Blocked
      <4>2. waiters[e] # 0
        BY <4>1, <2>6, BlockedFinite
      <4> QED
        BY <1>1, <2>1, <3>1, <3>3, <4>2 DEF Cleanup
    <3> QED
      BY <3>2, <3>3
  <2>8. ASSUME NEW q \in Proc, locks'[q] # Nil
        PROVE  /\ waiters'[locks'[q]] = Cardinality(Blocked(locks[q])')
               /\ owner'[locks'[q]] # Nil \/ waiters'[locks'[q]] > 0
    <3>1. locks'[q] = locks[q] /\ locks[q] \in Cell
      BY <1>1, <2>1, <2>8 DEF Cleanup, TypeOK
    <3>2. Blocked(locks[q])' = Blocked(locks[q])
      BY <1>1, <3>1 DEF Blocked, Return, TypeOK
    <3>3. /\ waiters[locks[q]] = Cardinality(Blocked(locks[q]))
          /\ owner[locks[q]] # Nil \/ waiters[locks[q]] > 0
      BY <2>8, <3>1 DEF EntryLifecycle
    <3>4. waiters' = waiters
      BY <1>1
    <3>5. CASE q # p
      <4>1. locks[q] # e
        BY <1>1, <2>8, <3>1, <3>5 DEF CellInv
      <4>2. owner'[locks[q]] = owner[locks[q]]
        BY <2>1, <3>1, <4>1 DEF TypeOK
      <4> QED
        BY <3>1, <3>2, <3>3, <3>4, <4>2
    <3>6. CASE q = p
      <4>1. waiters[e] # 0
        BY <1>1, <2>1, <2>8, <3>6 DEF Cleanup, TypeOK
      <4>2. waiters[e] > 0
        BY <2>1, <4>1 DEF TypeOK
      <4> QED
        BY <3>1, <3>2, <3>3, <3>4, <3>6, <4>2
    <3> QED
      BY <3>5, <3>6
  <2>9. EntryLifecycle'
    BY <2>7, <2>8 DEF EntryLifecycle
  <2>10. ASSUME NEW u \in Thread, pc'[u] = "wait", ~woken'[u]
         PROVE  owner'[ent'[u]] # Nil
    <3>1. pc[u] = "wait" /\ ent'[u] = ent[u] /\ ent[u] \in Cell
      BY <1>1, <2>10 DEF Return, TypeOK, CallInv
    <3>2. ~woken[u] /\ ent[u] # e
      BY <2>1, <2>10, <3>1
    <3>3. owner[ent[u]] # Nil
      BY <3>1, <3>2 DEF NoLostWakeup
    <3> QED
      BY <2>1, <3>1, <3>2, <3>3 DEF TypeOK
  <2>11. NoLostWakeup'
    BY <2>10 DEF NoLostWakeup
  <2> QED
    BY <2>2, <2>3, <2>4, <2>5, <2>9, <2>11
<1> QED
  BY <1>2, <1>3

\* A pass of acquireLocal over the cell the map holds, once t itself no longer
\* counts as a waiter.
LEMMA PassKeepsMapInv ==
  ASSUME MapInv, NEW t \in Thread, pc[t] \in {"acquire", "wait"},
         NEW wait \in [Cell -> Nat],
         locks[Home[t]] # Nil,
         \A c \in Cell : c # locks[Home[t]] => wait[c] = waiters[c],
         wait[locks[Home[t]]] = Cardinality(Blocked(locks[Home[t]]) \ {t}),
         TakeOrWait(t, locks[Home[t]], owner, wait),
         UNCHANGED <<locks, ext, closed, ctxDone>>
  PROVE  MapInv'
<1> USE LockManagerAssumption DEF LockManagerAssumption, MapInv
<1> DEFINE p == Home[t]
           e == locks[p]
<1>1. p \in Proc /\ e \in Cell /\ hd[t] \in Handle /\ Home[hd[t]] = p
  BY DEF TypeOK, CallInv
<1>2. pc[t] = "wait" => ent[t] = e
  BY DEF EntryLifecycle
<1>3. woken' = [woken EXCEPT ![t] = FALSE]
  BY DEF TakeOrWait, WaitOn
<1>4. woken' \in [Thread -> BOOLEAN]
  BY <1>3 DEF TypeOK
<1>5. ASSUME NEW q \in Proc, q # p, locks[q] # Nil, ent'[t] \in {Nil, e},
             \A u \in Thread \ {t} : pc'[u] = pc[u] /\ ent'[u] = ent[u],
             \A c \in Cell : c # e => waiters'[c] = waiters[c] /\ owner'[c] = owner[c]
      PROVE  /\ waiters'[locks'[q]] = Cardinality(Blocked(locks[q])')
             /\ owner'[locks'[q]] # Nil \/ waiters'[locks'[q]] > 0
  <2>1. locks[q] \in Cell /\ locks[q] # e /\ locks'[q] = locks[q]
    BY <1>1, <1>5 DEF TypeOK, CellInv
  <2>2. Blocked(locks[q])' = Blocked(locks[q])
    BY <1>1, <1>2, <1>5, <2>1 DEF Blocked, TypeOK, CallInv
  <2>3. /\ waiters[locks[q]] = Cardinality(Blocked(locks[q]))
        /\ owner[locks[q]] # Nil \/ waiters[locks[q]] > 0
    BY <1>5 DEF EntryLifecycle
  <2>4. /\ waiters'[locks[q]] = waiters[locks[q]]
        /\ owner'[locks[q]] = owner[locks[q]]
    BY <1>5, <2>1
  <2> QED
    BY <2>1, <2>2, <2>3, <2>4
\* t takes the lock, or has it already.
<1>6. ASSUME ent' = [ent EXCEPT ![t] = Nil], waiters' = wait,
             owner' \in {owner, [owner EXCEPT ![e] = hd[t]]}, owner'[e] = hd[t],
             \/ Goto(t, "ext") /\ UNCHANGED granted
             \/ Return(t) /\ granted' = granted \cup {hd[t]}
      PROVE  MapInv'
  <2>1. /\ \A u \in Thread \ {t} : pc'[u] = pc[u] /\ ent'[u] = ent[u]
        /\ pc'[t] # "wait" /\ ent'[t] = Nil
        /\ \A c \in Cell : c # e => waiters'[c] = waiters[c] /\ owner'[c] = owner[c]
    BY <1>1, <1>6 DEF TypeOK, Goto, Return
  <2>2. TypeOK'
    BY <1>1, <1>4, <1>6 DEF TypeOK, PC, Goto, Return
  <2>3. CallInv'
    BY <1>6 DEF TypeOK, CallInv, Goto, Return
  <2>4. CellInv'
    BY DEF CellInv
  <2>5. OwnerInv'
    BY <1>1, <1>6, <2>1 DEF OwnerInv, TypeOK, CellInv
  <2>6. Blocked(e)' = Blocked(e) \ {t}
    BY <2>1 DEF Blocked
  <2>7. waiters'[locks'[p]] = Cardinality(Blocked(e)') /\ owner'[locks'[p]] # Nil
    BY <1>1, <1>6, <2>6
  <2>8. EntryLifecycle'
    BY <1>5, <2>1, <2>7 DEF EntryLifecycle
  <2>9. ASSUME NEW u \in Thread, pc'[u] = "wait", ~woken'[u]
        PROVE  owner'[ent'[u]] # Nil
    <3>1. u # t /\ pc[u] = "wait" /\ ent'[u] = ent[u] /\ ent[u] \in Cell
      BY <2>1, <2>9 DEF TypeOK, CallInv
    <3>2. ~woken[u]
      BY <1>3, <2>9, <3>1 DEF TypeOK
    <3>3. owner[ent[u]] # Nil
      BY <3>1, <3>2 DEF NoLostWakeup
    <3> QED
      BY <1>1, <1>6, <2>1, <3>1, <3>3
  <2>10. NoLostWakeup'
    BY <2>9 DEF NoLostWakeup
  <2> QED
    BY <2>2, <2>3, <2>4, <2>5, <2>8, <2>10
\* t waits, for the first time or once more.
<1>7. ASSUME owner[e] \notin {Nil, hd[t]}, owner' = owner,
             waiters' = [wait EXCEPT ![e] = @ + 1],
             ent' = [ent EXCEPT ![t] = e], Goto(t, "wait"), UNCHANGED granted
      PROVE  MapInv'
  <2>1. /\ \A u \in Thread \ {t} : pc'[u] = pc[u] /\ ent'[u] = ent[u]
        /\ pc'[t] = "wait" /\ ent'[t] = e
        /\ \A c \in Cell : c # e => waiters'[c] = waiters[c] /\ owner'[c] = owner[c]
        /\ waiters'[e] = wait[e] + 1
    BY <1>1, <1>7 DEF TypeOK, Goto
  <2>2. TypeOK'
    BY <1>1, <1>4, <1>7 DEF TypeOK, PC, Goto
  <2>3. CallInv'
    BY <1>1, <1>7 DEF TypeOK, CallInv, Goto
  <2>4. CellInv' /\ OwnerInv'
    BY <1>7 DEF CellInv, OwnerInv
  <2>5. Blocked(e)' = (Blocked(e) \ {t}) \cup {t}
    BY <2>1 DEF Blocked
  <2>6. IsFiniteSet(Blocked(e) \ {t})
    BY BlockedFinite, FS_Subset
  <2>7. Cardinality(Blocked(e)') = Cardinality(Blocked(e) \ {t}) + 1
    BY <2>5, <2>6, FS_AddElement
  <2>8. waiters'[locks'[p]] = Cardinality(Blocked(e)') /\ owner'[locks'[p]] # Nil
    BY <1>1, <1>7, <2>1, <2>7
  <2>9. EntryLifecycle'
    BY <1>5, <2>1, <2>8 DEF EntryLifecycle
  <2>10. ASSUME NEW u \in Thread, pc'[u] = "wait", ~woken'[u]
         PROVE  owner'[ent'[u]] # Nil
    <3>1. CASE u = t
      BY <1>1, <1>7, <2>1, <3>1
    <3>2. CASE u # t
      <4>1. pc[u] = "wait" /\ ent'[u] = ent[u] /\ ~woken[u]
        BY <1>3, <2>1, <2>10, <3>2 DEF TypeOK
      <4> QED
        BY <1>7, <4>1 DEF NoLostWakeup
    <3> QED
      BY <3>1, <3>2
  <2>11. NoLostWakeup'
    BY <2>10 DEF NoLostWakeup
  <2> QED
    BY <2>2, <2>3, <2>4, <2>9, <2>11
<1>8. CASE owner[e] = Nil
  BY <1>1, <1>6, <1>8 DEF TakeOrWait, WaitOn, TypeOK
<1>9. CASE owner[e] = hd[t]
  BY <1>1, <1>6, <1>9 DEF TakeOrWait, WaitOn, TypeOK
<1>10. CASE owner[e] \notin {Nil, hd[t]}
  BY <1>7, <1>10 DEF TakeOrWait, WaitOn
<1> QED
  BY <1>8, <1>9, <1>10

\* acquireLocal from the start: the first pass over the map's cell, or a new
\* cell, which nobody waits on and t takes.
LEMMA AcquireKeepsMapInv ==
  ASSUME MapInv, NEW t \in Thread, AcquireLocal(t)
  PROVE  MapInv'
<1> USE LockManagerAssumption DEF LockManagerAssumption, MapInv
<1> DEFINE p == Home[t]
<1>1. /\ p \in Proc /\ hd[t] \in Handle /\ Home[hd[t]] = p
      /\ pc[t] = "acquire" /\ ent[t] = Nil
  BY DEF AcquireLocal, TypeOK, CallInv
<1>2. CASE locks[p] # Nil
  <2>1. Blocked(locks[p]) \ {t} = Blocked(locks[p])
    BY <1>1 DEF Blocked
  <2>2. waiters[locks[p]] = Cardinality(Blocked(locks[p]) \ {t})
    BY <1>1, <1>2, <2>1 DEF EntryLifecycle
  <2>3. waiters \in [Cell -> Nat]
    BY DEF TypeOK
  <2>4. /\ TakeOrWait(t, locks[p], owner, waiters)
        /\ UNCHANGED <<locks, ext, closed, ctxDone>>
    BY <1>2 DEF AcquireLocal, LoopPass
  <2> QED
    BY <1>1, <1>2, <2>2, <2>3, <2>4, PassKeepsMapInv
<1>3. CASE locks[p] = Nil
  <2>1. PICK e \in Garbage :
          /\ locks' = [locks EXCEPT ![p] = e]
          /\ TakeOrWait(t, e, [owner EXCEPT ![e] = Nil], [waiters EXCEPT ![e] = 0])
    BY <1>3 DEF AcquireLocal, LoopPass
  <2>2. /\ e \in Cell
        /\ \A q \in Proc : locks[q] # e
        /\ \A u \in Thread : ent[u] # e
    BY DEF Garbage
  <2>3. /\ owner' = [owner EXCEPT ![e] = hd[t]]
        /\ waiters' = [waiters EXCEPT ![e] = 0]
        /\ ent' = [ent EXCEPT ![t] = Nil] /\ woken' = [woken EXCEPT ![t] = FALSE]
        /\ \/ Goto(t, "ext") /\ UNCHANGED granted
           \/ Return(t) /\ granted' = granted \cup {hd[t]}
        /\ UNCHANGED <<ext, closed, ctxDone>>
    BY <1>1, <2>1, <2>2 DEF AcquireLocal, TakeOrWait, WaitOn, TypeOK
  <2>4. /\ \A u \in Thread \ {t} : pc'[u] = pc[u]
        /\ \A u \in Thread : ent'[u] = ent[u]
        /\ pc'[t] # "wait"
    BY <1>1, <2>3 DEF TypeOK, Goto, Return
  <2>5. woken' \in [Thread -> BOOLEAN]
    BY <2>3 DEF TypeOK
  <2>6. TypeOK'
    BY <1>1, <2>1, <2>2, <2>3, <2>5 DEF TypeOK, PC, Goto, Return
  <2>7. CallInv'
    BY <1>1, <2>3 DEF TypeOK, CallInv, Goto, Return
  <2>8. CellInv'
    BY <1>1, <2>1, <2>2 DEF TypeOK, CellInv
  <2>9. OwnerInv'
    BY <1>1, <2>1, <2>2, <2>3 DEF TypeOK, OwnerInv
  <2>10. \A u \in Thread : pc'[u] = "wait" => ent'[u] = locks'[Home[u]]
    BY <1>1, <1>3, <2>1, <2>4 DEF EntryLifecycle, TypeOK, CallInv
  <2>11. ASSUME NEW q \in Proc, locks'[q] # Nil
         PROVE  /\ waiters'[locks'[q]] = Cardinality(Blocked(locks[q])')
                /\ owner'[locks'[q]] # Nil \/ waiters'[locks'[q]] > 0
    <3>1. CASE q = p
      <4>1. locks'[q] = e
        BY <1>1, <2>1, <3>1 DEF TypeOK
      <4>2. Blocked(locks[q])' = {}
        BY <2>2, <2>4, <4>1 DEF Blocked
      <4>3. waiters'[e] = 0 /\ owner'[e] = hd[t]
        BY <2>2, <2>3 DEF TypeOK
      <4> QED
        BY <1>1, <4>1, <4>2, <4>3, FS_EmptySet
    <3>2. CASE q # p
      <4>1. locks'[q] = locks[q] /\ locks[q] \in Cell /\ locks[q] # e
        BY <1>1, <2>1, <2>2, <2>11, <3>2 DEF TypeOK
      <4>2. Blocked(locks[q])' = Blocked(locks[q])
        BY <1>1, <2>4, <4>1 DEF Blocked
      <4>3. waiters'[locks[q]] = waiters[locks[q]] /\ owner'[locks[q]] = owner[locks[q]]
        BY <2>3, <4>1 DEF TypeOK
      <4>4. /\ waiters[locks[q]] = Cardinality(Blocked(locks[q]))
            /\ owner[locks[q]] # Nil \/ waiters[locks[q]] > 0
        BY <2>11, <4>1 DEF EntryLifecycle
      <4> QED
        BY <4>1, <4>2, <4>3, <4>4
    <3> QED
      BY <3>1, <3>2
  <2>12. EntryLifecycle'
    BY <2>10, <2>11 DEF EntryLifecycle
  <2>13. ASSUME NEW u \in Thread, pc'[u] = "wait", ~woken'[u]
         PROVE  owner'[ent'[u]] # Nil
    <3>1. u # t /\ pc[u] = "wait" /\ ent'[u] = ent[u] /\ ent[u] \in Cell /\ ent[u] # e
      BY <2>2, <2>4, <2>13 DEF TypeOK, CallInv
    <3>2. ~woken[u]
      BY <2>3, <2>13, <3>1 DEF TypeOK
    <3> QED
      BY <2>3, <3>1, <3>2 DEF NoLostWakeup, TypeOK
  <2>14. NoLostWakeup'
    BY <2>13 DEF NoLostWakeup
  <2> QED
    BY <2>6, <2>7, <2>8, <2>9, <2>12, <2>14
<1> QED
  BY <1>2, <1>3

\* A blocked goroutine stands on the cell of its own map and is counted there.
LEMMA BlockedCounted ==
  ASSUME MapInv, NEW t \in Thread, pc[t] = "wait"
  PROVE  /\ Home[t] \in Proc /\ ent[t] \in Cell /\ locks[Home[t]] = ent[t]
         /\ hd[t] \in Handle /\ Home[hd[t]] = Home[t]
         /\ waiters[ent[t]] = Cardinality(Blocked(ent[t]))
         /\ Cardinality(Blocked(ent[t]) \ {t}) = waiters[ent[t]] - 1
         /\ Cardinality(Blocked(ent[t]) \ {t}) \in Nat
<1> USE LockManagerAssumption DEF LockManagerAssumption, MapInv
<1>1. /\ Home[t] \in Proc /\ ent[t] \in Cell /\ locks[Home[t]] = ent[t]
      /\ hd[t] \in Handle /\ Home[hd[t]] = Home[t]
  BY DEF TypeOK, CallInv, EntryLifecycle
<1>2. waiters[ent[t]] = Cardinality(Blocked(ent[t]))
  BY <1>1 DEF EntryLifecycle
<1>3. t \in Blocked(ent[t])
  BY DEF Blocked
<1>4. /\ IsFiniteSet(Blocked(ent[t]) \ {t})
      /\ Cardinality(Blocked(ent[t]) \ {t}) = Cardinality(Blocked(ent[t])) - 1
  BY <1>3, BlockedFinite, FS_RemoveElement
<1>5. Cardinality(Blocked(ent[t]) \ {t}) \in Nat
  BY <1>4, FS_CardinalityType
<1> QED
  BY <1>1, <1>2, <1>4, <1>5

\* A woken goroutine makes another pass.
LEMMA WakeKeepsMapInv ==
  ASSUME MapInv, NEW t \in Thread, Wake(t)
  PROVE  MapInv'
<1> DEFINE w == [waiters EXCEPT ![ent[t]] = @ - 1]
<1>1. pc[t] = "wait" /\ LoopPass(t, w) /\ UNCHANGED <<ext, closed, ctxDone>>
  BY DEF Wake
<1>2. /\ Home[t] \in Proc /\ ent[t] \in Cell /\ locks[Home[t]] = ent[t]
      /\ Cardinality(Blocked(ent[t]) \ {t}) = waiters[ent[t]] - 1
      /\ waiters[ent[t]] - 1 \in Nat
  BY <1>1, BlockedCounted
<1>3. waiters \in [Cell -> Nat] /\ ent[t] # Nil
  BY <1>2, LockManagerAssumption DEF LockManagerAssumption, MapInv, TypeOK
<1>4. /\ w \in [Cell -> Nat]
      /\ w[ent[t]] = waiters[ent[t]] - 1
      /\ \A c \in Cell : c # ent[t] => w[c] = waiters[c]
  BY <1>2, <1>3
<1>5. TakeOrWait(t, locks[Home[t]], owner, w) /\ UNCHANGED <<locks, ext, closed, ctxDone>>
  BY <1>1, <1>2, <1>3 DEF LoopPass
<1> HIDE DEF w
<1> QED
  BY <1>1, <1>2, <1>3, <1>4, <1>5, PassKeepsMapInv

\* A cancelled goroutine stops waiting; cleanupLocked drops the cell only when
\* it was the last one.
LEMMA CancelKeepsMapInv ==
  ASSUME MapInv, NEW t \in Thread, CancelWait(t)
  PROVE  MapInv'
<1> USE LockManagerAssumption DEF LockManagerAssumption, MapInv
<1> DEFINE p == Home[t]
           e == ent[t]
<1>1. /\ pc[t] = "wait" /\ Return(t)
      /\ waiters' = [waiters EXCEPT ![e] = @ - 1]
      /\ locks' = Cleanup(p, owner[e], waiters'[e])
      /\ ent' = [ent EXCEPT ![t] = Nil] /\ woken' = [woken EXCEPT ![t] = FALSE]
      /\ UNCHANGED <<owner, ext, closed, ctxDone, granted>>
  BY DEF CancelWait, GiveUp
<1>2. /\ p \in Proc /\ e \in Cell /\ locks[p] = e
      /\ Cardinality(Blocked(e) \ {t}) = waiters[e] - 1
      /\ waiters[e] - 1 \in Nat
  BY <1>1, BlockedCounted
<1>3. /\ waiters' \in [Cell -> Nat] /\ waiters'[e] = waiters[e] - 1
      /\ \A c \in Cell : c # e => waiters'[c] = waiters[c]
  BY <1>1, <1>2 DEF TypeOK
<1>4. /\ \A u \in Thread \ {t} : pc'[u] = pc[u] /\ ent'[u] = ent[u]
      /\ pc'[t] # "wait" /\ ent'[t] = Nil
  BY <1>1 DEF TypeOK, Return
<1>5. woken' \in [Thread -> BOOLEAN]
  BY <1>1 DEF TypeOK
<1>6. TypeOK'
  BY <1>1, <1>2, <1>3, <1>5 DEF TypeOK, PC, Return, Cleanup
<1>7. CallInv'
  BY <1>1 DEF TypeOK, CallInv, Return
<1>8. CellInv' /\ OwnerInv'
  BY <1>1, <1>2 DEF TypeOK, CellInv, OwnerInv, Cleanup
<1>9. Blocked(e) \ {t} = {u \in Thread : pc'[u] = "wait" /\ ent'[u] = e}
  BY <1>1, <1>2, <1>4 DEF Blocked
<1>10. ASSUME NEW u \in Thread, pc'[u] = "wait"
       PROVE  ent'[u] = locks'[Home[u]]
  <2>1. u # t /\ pc[u] = "wait" /\ ent'[u] = ent[u] /\ ent[u] = locks[Home[u]]
    BY <1>4, <1>10 DEF EntryLifecycle
  <2>2. CASE Home[u] # p
    BY <1>1, <1>2, <2>1, <2>2 DEF Cleanup, TypeOK
  <2>3. CASE Home[u] = p
    <3>1. u \in Blocked(e) \ {t}
      BY <1>2, <2>1, <2>3 DEF Blocked
    <3>2. IsFiniteSet(Blocked(e) \ {t})
      BY BlockedFinite, FS_Subset
    <3>3. waiters'[e] # 0
      BY <1>2, <1>3, <3>1, <3>2, FS_EmptySet
    <3> QED
      BY <1>1, <2>1, <3>3 DEF Cleanup
  <2> QED
    BY <2>2, <2>3
<1>11. ASSUME NEW q \in Proc, locks'[q] # Nil
       PROVE  /\ waiters'[locks'[q]] = Cardinality(Blocked(locks[q])')
              /\ owner'[locks'[q]] # Nil \/ waiters'[locks'[q]] > 0
  <2>1. locks'[q] = locks[q] /\ locks[q] \in Cell
    BY <1>1, <1>2, <1>11 DEF Cleanup, TypeOK
  <2>2. CASE q = p
    <3>1. Blocked(locks[q])' = Blocked(e) \ {t}
      BY <1>2, <1>9, <2>1, <2>2 DEF Blocked
    <3>2. owner[e] # Nil \/ waiters'[e] # 0
      BY <1>1, <1>2, <1>11, <2>2 DEF Cleanup, TypeOK
    <3>3. waiters'[e] \in Nat
      BY <1>2, <1>3
    <3>4. locks'[q] = e /\ owner' = owner
      BY <1>1, <1>2, <2>1, <2>2
    <3>5. waiters'[locks'[q]] = Cardinality(Blocked(locks[q])')
      BY <1>2, <1>3, <3>1, <3>4
    <3>6. owner'[locks'[q]] # Nil \/ waiters'[locks'[q]] > 0
      BY <3>2, <3>3, <3>4
    <3> QED
      BY <3>5, <3>6
  <2>3. CASE q # p
    <3>1. locks[q] # e
      BY <1>2, <1>11, <2>1, <2>3 DEF CellInv
    <3>2. Blocked(locks[q])' = Blocked(locks[q])
      BY <1>1, <1>4, <2>1, <3>1 DEF Blocked, TypeOK
    <3>3. /\ waiters[locks[q]] = Cardinality(Blocked(locks[q]))
          /\ owner[locks[q]] # Nil \/ waiters[locks[q]] > 0
      BY <1>11, <2>1 DEF EntryLifecycle
    <3> QED
      BY <1>1, <1>3, <2>1, <3>1, <3>2, <3>3
  <2> QED
    BY <2>2, <2>3
<1>12. EntryLifecycle'
  BY <1>10, <1>11 DEF EntryLifecycle
<1>13. ASSUME NEW u \in Thread, pc'[u] = "wait", ~woken'[u]
       PROVE  owner'[ent'[u]] # Nil
  <2>1. u # t /\ pc[u] = "wait" /\ ent'[u] = ent[u]
    BY <1>4, <1>13
  <2>2. ~woken[u]
    BY <1>1, <1>13, <2>1 DEF TypeOK
  <2> QED
    BY <1>1, <2>1, <2>2 DEF NoLostWakeup
<1>14. NoLostWakeup'
  BY <1>13 DEF NoLostWakeup
<1> QED
  BY <1>6, <1>7, <1>8, <1>12, <1>14

\* The invariant is inductive.
LEMMA NextKeepsMapInv == MapInv /\ [Next]_vars => MapInv'
<1> SUFFICES ASSUME MapInv, [Next]_vars PROVE MapInv'
  OBVIOUS
<1>1. CASE UNCHANGED vars
  <2>1. TypeOK' /\ CallInv'
    BY <1>1 DEF vars, MapInv, TypeOK, CallInv
  <2> QED
    BY <1>1, <2>1, QuietStep DEF vars
<1>2. ASSUME NEW t \in Thread, Step(t) PROVE MapInv'
  BY <1>2, AcquireKeepsMapInv, WakeKeepsMapInv, CancelKeepsMapInv,
     ReleaseKeepsMapInv, QuietActions DEF Step
<1>3. CASE Next
  BY <1>2, <1>3, QuietActions DEF Next
<1> QED
  BY <1>1, <1>3

\* MapInv is an invariant of every behaviour.
LEMMA MapInvariant == Spec => []MapInv
  BY InitMapInv, NextKeepsMapInv, PTL DEF Spec

\* Types are kept: in particular a waiter count never goes below zero.
THEOREM TypeCorrect == Spec => []TypeOK
<1>1. MapInv => TypeOK
  BY DEF MapInv
<1> QED
  BY <1>1, MapInvariant, PTL

\* However goroutines share handles, a blocked goroutine points to the cell in
\* the map, the counts are exact and no cell is leaked.
THEOREM EntriesAreKept == Spec => []EntryLifecycle
<1>1. MapInv => EntryLifecycle
  BY DEF MapInv
<1> QED
  BY <1>1, MapInvariant, PTL

\* However goroutines share handles, no wake-up is lost.
THEOREM WakeupsAreKept == Spec => []NoLostWakeup
<1>1. MapInv => NoLostWakeup
  BY DEF MapInv
<1> QED
  BY <1>1, MapInvariant, PTL

------------------------------------------------------------------------------
(* Exclusion, when a handle is used by one goroutine at a time.            *)

\* No two goroutines are inside one handle.
CallerInv == \A t, u \in Thread : hd[t] # Nil /\ hd[t] = hd[u] => t = u

\* The handles that own the lock in their instance.
Owners == {h \in Handle : OwnedBy(h)}

\* A goroutine past acquireLocal or past the holds check owns the lock for its
\* handle, a blocked one does not.
OwningInv ==
  \A t \in Thread :
    /\ pc[t] \in {"ext", "undo", "extUnlock", "release"} => hd[t] \in Owners
    /\ pc[t] = "wait" => hd[t] \notin Owners

\* A call on a handle that has the lock is a second Lock; and a Lock of a
\* handle that owns the lock is one, unless the handle's Unlock failed before.
GrantInv ==
  /\ \A t \in Thread : hd[t] \in granted => pc[t] = "acquire"
  /\ ~Relock => \A t \in Thread :
       pc[t] = "acquire" /\ hd[t] \in Owners => hd[t] \in granted

\* What was granted is owned, and with a backend the instance that granted it
\* holds the backend lock.
BackendInv ==
  /\ granted \subseteq Owners
  /\ HasExt /\ ~Relock => \A h \in granted : ext = Home[h]

\* Only its Close is inside a closed handle, as long as it owns the lock.
ClosedInv ==
  /\ \A h \in Handle : closed[h] =>
       /\ h \notin granted
       /\ \A t \in Thread : hd[t] = h => op[t] = "close"
       /\ h \in Owners => \E t \in Thread : hd[t] = h
  /\ \A t \in Thread : op[t] = "close" => pc[t] \in {"holds", "extUnlock", "release"}

UseInv  == CallerInv /\ OwningInv /\ GrantInv /\ BackendInv /\ ClosedInv
SafeInv == MapInv /\ UseInv

\* The initial state satisfies the invariant.
LEMMA InitUseInv == Init => UseInv
<1> SUFFICES ASSUME Init PROVE UseInv
  OBVIOUS
<1> USE LockManagerAssumption DEF LockManagerAssumption, Init
<1>1. Owners = {}
  BY DEF Owners, OwnedBy
<1>2. CallerInv /\ OwningInv /\ GrantInv /\ BackendInv
  BY <1>1 DEF CallerInv, OwningInv, GrantInv, BackendInv
<1>3. ClosedInv
  BY <1>1 DEF ClosedInv
<1> QED
  BY <1>2, <1>3 DEF UseInv

\* An instance has one owner.
LEMMA OwnerUnique ==
  \A g, h \in Owners : Home[g] = Home[h] => g = h
  BY DEF Owners, OwnedBy

\* A handle a goroutine is inside.
LEMMA CallerTyped ==
  ASSUME MapInv, NEW t \in Thread, pc[t] # "idle"
  PROVE  hd[t] \in Handle /\ Home[hd[t]] = Home[t] /\ Home[t] \in Proc /\ hd[t] # Nil
  BY LockManagerAssumption DEF LockManagerAssumption, MapInv, TypeOK, CallInv

\* What a pass of acquireLocal does to the ownership: the lock is taken, was
\* had already, or t waits.
LEMMA PassOutcome ==
  ASSUME MapInv, NEW t \in Thread, AcquireLocal(t) \/ Wake(t)
  PROVE  /\ UNCHANGED <<ext, closed>>
         /\ \/ /\ \A h \in Owners : Home[h] # Home[t]
               /\ Owners' = Owners \cup {hd[t]}
               /\ \/ HasExt /\ Goto(t, "ext") /\ UNCHANGED granted
                  \/ ~HasExt /\ Return(t) /\ granted' = granted \cup {hd[t]}
            \/ /\ Owners' = Owners
               /\ hd[t] \in Owners
               /\ Return(t) /\ granted' = granted \cup {hd[t]}
            \/ /\ Owners' = Owners
               /\ hd[t] \notin Owners
               /\ Goto(t, "wait") /\ UNCHANGED granted
<1> USE LockManagerAssumption DEF LockManagerAssumption
<1> DEFINE p == Home[t]
<1>1. hd[t] \in Handle /\ Home[hd[t]] = p /\ p \in Proc /\ hd[t] # Nil
  BY CallerTyped DEF AcquireLocal, Wake
<1>2. UNCHANGED <<ext, closed>>
  BY DEF AcquireLocal, Wake
<1>3. PICK wait : LoopPass(t, wait)
  BY DEF AcquireLocal, Wake
<1>4. CASE locks[p] # Nil
  <2>1. TakeOrWait(t, locks[p], owner, wait) /\ UNCHANGED locks
    BY <1>3, <1>4 DEF LoopPass
  <2>2. locks[p] \in Cell /\ owner \in [Cell -> Handle \cup {Nil}]
    BY <1>1, <1>4 DEF MapInv, TypeOK
  <2>3. CASE owner[locks[p]] = Nil
    <3>1. owner' = [owner EXCEPT ![locks[p]] = hd[t]]
      BY <1>1, <2>1, <2>3 DEF TakeOrWait, WaitOn
    <3>2. \A h \in Owners : Home[h] # p
      BY <1>1, <2>3 DEF Owners, OwnedBy
    <3>3. Owners' = Owners \cup {hd[t]}
      BY <1>1, <1>4, <2>1, <2>2, <2>3, <3>1 DEF Owners, OwnedBy, MapInv, TypeOK, CellInv
    <3>4. \/ HasExt /\ Goto(t, "ext") /\ UNCHANGED granted
          \/ ~HasExt /\ Return(t) /\ granted' = granted \cup {hd[t]}
      BY <1>1, <2>1, <2>3 DEF TakeOrWait, WaitOn
    <3> QED
      BY <1>2, <3>2, <3>3, <3>4
  <2>4. CASE owner[locks[p]] = hd[t]
    <3>1. owner' = owner /\ Return(t) /\ granted' = granted \cup {hd[t]}
      BY <1>1, <2>1, <2>4 DEF TakeOrWait, WaitOn
    <3>2. hd[t] \in Owners /\ Owners' = Owners
      BY <1>1, <1>4, <2>1, <2>4, <3>1 DEF Owners, OwnedBy
    <3> QED
      BY <1>2, <3>1, <3>2
  <2>5. CASE owner[locks[p]] \notin {Nil, hd[t]}
    <3>1. owner' = owner /\ Goto(t, "wait") /\ UNCHANGED granted
      BY <2>1, <2>5 DEF TakeOrWait, WaitOn
    <3>2. hd[t] \notin Owners /\ Owners' = Owners
      BY <1>1, <2>1, <2>5, <3>1 DEF Owners, OwnedBy
    <3> QED
      BY <1>2, <3>1, <3>2
  <2> QED
    BY <2>3, <2>4, <2>5
<1>5. CASE locks[p] = Nil
  <2>1. PICK e \in Garbage :
          /\ locks' = [locks EXCEPT ![p] = e]
          /\ TakeOrWait(t, e, [owner EXCEPT ![e] = Nil], [wait EXCEPT ![e] = 0])
    BY <1>3, <1>5 DEF LoopPass
  <2>2. e \in Cell /\ \A q \in Proc : locks[q] # e
    BY DEF Garbage
  <2>3. /\ owner' = [owner EXCEPT ![e] = hd[t]]
        /\ \/ HasExt /\ Goto(t, "ext") /\ UNCHANGED granted
           \/ ~HasExt /\ Return(t) /\ granted' = granted \cup {hd[t]}
    BY <1>1, <2>1, <2>2 DEF TakeOrWait, WaitOn, MapInv, TypeOK
  <2>4. \A h \in Owners : Home[h] # p
    BY <1>5 DEF Owners, OwnedBy
  <2>5. Owners' = Owners \cup {hd[t]}
    BY <1>1, <1>5, <2>1, <2>2, <2>3 DEF Owners, OwnedBy, MapInv, TypeOK
  <2> QED
    BY <1>2, <2>3, <2>4, <2>5
<1> QED
  BY <1>4, <1>5

\* A cancelled wait changes no ownership.
LEMMA CancelOutcome ==
  ASSUME MapInv, NEW t \in Thread, CancelWait(t)
  PROVE  /\ Owners' = Owners
         /\ pc[t] = "wait" /\ Return(t) /\ UNCHANGED <<ext, closed, granted>>
<1>1. pc[t] = "wait"
  BY DEF CancelWait
<1>2. Home[t] \in Proc /\ ent[t] \in Cell /\ locks[Home[t]] = ent[t]
  BY <1>1, BlockedCounted
<1>3. /\ locks' = Cleanup(Home[t], owner[ent[t]], waiters'[ent[t]])
      /\ owner' = owner /\ Return(t) /\ UNCHANGED <<ext, closed, granted>>
  BY DEF CancelWait, GiveUp
<1>4. Owners' = Owners
  BY <1>2, <1>3, LockManagerAssumption
     DEF LockManagerAssumption, Owners, OwnedBy, Cleanup, MapInv, TypeOK
<1> QED
  BY <1>1, <1>3, <1>4

\* releaseLocal takes the lock from its handle and from no other.
LEMMA ReleaseOutcome ==
  ASSUME MapInv, NEW t \in Thread, Undo(t) \/ Release(t)
  PROVE  /\ Owners' = Owners \ {hd[t]}
         /\ pc[t] \in {"undo", "release"} /\ Return(t)
         /\ UNCHANGED <<ext, closed, granted>>
<1> USE LockManagerAssumption DEF LockManagerAssumption
<1>1. hd[t] \in Handle /\ Home[hd[t]] = Home[t] /\ Home[t] \in Proc /\ hd[t] # Nil
  BY CallerTyped DEF Undo, Release
<1>2. /\ pc[t] \in {"undo", "release"} /\ Return(t) /\ ReleaseLocal(hd[t])
      /\ UNCHANGED <<ext, closed, granted>>
  BY DEF Undo, Release
<1>3. Owners' = Owners \ {hd[t]}
  <2>1. CASE ~OwnedBy(hd[t])
    BY <1>2, <2>1 DEF ReleaseLocal, Owners, OwnedBy
  <2>2. CASE OwnedBy(hd[t])
    BY <1>1, <1>2, <2>2 DEF ReleaseLocal, Owners, OwnedBy, Cleanup, MapInv, TypeOK, CellInv
  <2> QED
    BY <2>1, <2>2
<1> QED
  BY <1>2, <1>3

\* A call into a handle that nobody else is inside.
LEMMA CallKeepsUseInv ==
  ASSUME MapInv, UseInv, ~SharedHandles, NEW t \in Thread, NEW h \in Handle,
         LockCall(t, h) \/ UnlockCall(t, h) \/ CloseCall(t, h)
  PROVE  UseInv'
<1> USE LockManagerAssumption DEF LockManagerAssumption, UseInv
<1>1. /\ pc[t] = "idle" /\ Home[t] = Home[h] /\ ~closed[h]
      /\ \A u \in Thread : hd[u] # h
      /\ UNCHANGED <<locks, owner, ext>>
  BY DEF LockCall, UnlockCall, CloseCall, Enter, MayCall
<1>2. Owners' = Owners
  BY <1>1 DEF Owners, OwnedBy
<1>3. PICK c \in {"lock", "unlock", "close"} :
        /\ pc' = [pc EXCEPT ![t] = IF c = "lock" THEN "acquire" ELSE "holds"]
        /\ op' = [op EXCEPT ![t] = c]
        /\ hd' = [hd EXCEPT ![t] = h]
        /\ closed' = IF c = "close" THEN [closed EXCEPT ![h] = TRUE] ELSE closed
        /\ granted' = IF c = "lock" THEN granted ELSE granted \ {h}
        /\ c = "lock" => Relock \/ ~Lapsed(h)
  BY DEF LockCall, UnlockCall, CloseCall, Enter
<1>4. /\ \A u \in Thread \ {t} : pc'[u] = pc[u] /\ hd'[u] = hd[u] /\ op'[u] = op[u]
      /\ hd'[t] = h /\ op'[t] = c /\ pc'[t] = IF c = "lock" THEN "acquire" ELSE "holds"
  BY <1>3 DEF MapInv, TypeOK
<1>5. CallerInv'
  BY <1>1, <1>4 DEF CallerInv
<1>6. OwningInv'
  BY <1>2, <1>4 DEF OwningInv
<1>7. GrantInv'
  <2>1. \A u \in Thread : hd'[u] \in granted' => pc'[u] = "acquire"
    BY <1>3, <1>4 DEF GrantInv
  <2>2. ASSUME ~Relock, NEW u \in Thread, pc'[u] = "acquire", hd'[u] \in Owners'
        PROVE  hd'[u] \in granted'
    <3>1. CASE u = t
      <4>1. c = "lock" /\ hd'[u] = h /\ granted' = granted /\ ~Lapsed(h)
        BY <1>3, <1>4, <2>2, <3>1
      <4>2. OwnedBy(h)
        BY <1>2, <2>2, <4>1 DEF Owners
      <4> QED
        BY <1>1, <4>1, <4>2 DEF Lapsed
    <3>2. CASE u # t
      <4>1. hd'[u] = hd[u] /\ hd[u] # h /\ hd[u] \in granted
        BY <1>1, <1>2, <1>4, <2>2, <3>2 DEF GrantInv
      <4> QED
        BY <1>3, <4>1
    <3> QED
      BY <3>1, <3>2
  <2> QED
    BY <2>1, <2>2 DEF GrantInv
<1>8. BackendInv'
  <2>1. granted' \subseteq granted
    BY <1>3
  <2> QED
    BY <1>1, <1>2, <2>1 DEF BackendInv
<1>9. ClosedInv'
  <2>1. \A u \in Thread : op'[u] = "close" => pc'[u] \in {"holds", "extUnlock", "release"}
    BY <1>4 DEF ClosedInv
  <2>2. ASSUME NEW g \in Handle, closed'[g]
        PROVE  /\ g \notin granted'
               /\ \A u \in Thread : hd'[u] = g => op'[u] = "close"
               /\ g \in Owners' => \E u \in Thread : hd'[u] = g
    <3>1. CASE g = h
      <4>1. c = "close"
        BY <1>1, <1>3, <2>2, <3>1
      <4> QED
        BY <1>1, <1>3, <1>4, <3>1, <4>1
    <3>2. CASE g # h
      <4>1. closed[g]
        BY <1>3, <2>2, <3>2 DEF MapInv, TypeOK
      <4>2. hd[t] = Nil /\ g # Nil
        BY <1>1 DEF MapInv, CallInv
      <4> QED
        BY <1>2, <1>3, <1>4, <3>2, <4>1, <4>2 DEF ClosedInv
    <3> QED
      BY <3>1, <3>2
  <2> QED
    BY <2>1, <2>2 DEF ClosedInv
<1> QED
  BY <1>5, <1>6, <1>7, <1>8, <1>9

\* t goes on at s, or returns.
Moves(t, s) == IF s = "idle" THEN Return(t) ELSE Goto(t, s)

\* A step that only moves t inside its call, or out of it, but out of a Close
\* only when its handle is no longer an owner, keeps the invariant.
LEMMA MoveKeepsUseInv ==
  ASSUME MapInv, UseInv, NEW t \in Thread, NEW s, pc[t] # "idle",
         Moves(t, s), UNCHANGED closed,
         s \in {"ext", "undo", "extUnlock", "release"} => hd[t] \in Owners',
         s = "wait" => hd[t] \notin Owners',
         s \in {"idle", "ext", "undo", "extUnlock", "release", "wait"},
         Owners' \in {Owners, Owners \cup {hd[t]}, Owners \ {hd[t]}},
         granted' \in {granted, granted \cup {hd[t]}},
         hd[t] \in granted' => s = "idle",
         s = "idle" /\ hd[t] \in Owners' => op[t] # "close",
         granted' \subseteq Owners',
         hd[t] \in granted' => op[t] # "close",
         op[t] = "close" => s \in {"idle", "extUnlock", "release"},
         HasExt /\ ~Relock => \A h \in granted' : ext' = Home[h]
  PROVE  UseInv'
<1> USE LockManagerAssumption DEF LockManagerAssumption, UseInv
<1>1. hd[t] \in Handle /\ Home[hd[t]] = Home[t] /\ hd[t] # Nil
  BY CallerTyped
<1>2. /\ \A u \in Thread \ {t} : pc'[u] = pc[u] /\ hd'[u] = hd[u] /\ op'[u] = op[u]
      /\ pc'[t] = s
      /\ s # "idle" => hd'[t] = hd[t] /\ op'[t] = op[t]
      /\ s = "idle" => hd'[t] = Nil /\ op'[t] = "none"
  BY DEF Moves, Return, Goto, MapInv, TypeOK
<1>3. \A u \in Thread \ {t} : hd[u] # hd[t]
  BY <1>1 DEF CallerInv
<1>4. Owners \subseteq Handle /\ Owners' \subseteq Handle /\ granted' \subseteq Handle
  BY <1>1 DEF Owners, MapInv, TypeOK
<1>5. CallerInv'
  BY <1>2 DEF CallerInv
<1>6. OwningInv'
  BY <1>2, <1>3 DEF OwningInv
<1>7. GrantInv'
  <2>1. \A u \in Thread : hd'[u] \in granted' => pc'[u] = "acquire"
    BY <1>2, <1>3, <1>4 DEF GrantInv
  <2>2. ASSUME ~Relock, NEW u \in Thread, pc'[u] = "acquire", hd'[u] \in Owners'
        PROVE  hd'[u] \in granted'
    <3>1. u # t /\ hd'[u] = hd[u] /\ pc[u] = "acquire"
      BY <1>2, <2>2
    <3>2. hd[u] \in Owners
      BY <1>3, <2>2, <3>1
    <3> QED
      BY <2>2, <3>1, <3>2 DEF GrantInv
  <2> QED
    BY <2>1, <2>2 DEF GrantInv
<1>8. BackendInv'
  BY DEF BackendInv
<1>9. ClosedInv'
  <2>1. \A u \in Thread : op'[u] = "close" => pc'[u] \in {"holds", "extUnlock", "release"}
    BY <1>2 DEF ClosedInv
  <2>2. ASSUME NEW h \in Handle, closed'[h]
        PROVE  /\ h \notin granted'
               /\ \A u \in Thread : hd'[u] = h => op'[u] = "close"
               /\ h \in Owners' => \E u \in Thread : hd'[u] = h
    <3>1. h \notin granted'
      BY <1>1, <2>2 DEF ClosedInv
    <3>2. \A u \in Thread : hd'[u] = h => op'[u] = "close"
      BY <1>1, <1>2, <2>2 DEF ClosedInv
    <3>3. ASSUME h \in Owners' PROVE \E u \in Thread : hd'[u] = h
      <4>1. CASE h = hd[t]
        BY <1>1, <1>2, <2>2, <3>3, <4>1 DEF ClosedInv
      <4>2. CASE h # hd[t]
        <5>1. PICK u \in Thread : hd[u] = h
          BY <2>2, <3>3, <4>2 DEF ClosedInv
        <5> QED
          BY <1>2, <4>2, <5>1
      <4> QED
        BY <4>1, <4>2
    <3> QED
      BY <3>1, <3>2, <3>3
  <2> QED
    BY <2>1, <2>2 DEF ClosedInv
<1> QED
  BY <1>5, <1>6, <1>7, <1>8, <1>9

\* Where the invariant leaves a goroutine and the others that stand before
\* the backend: at most one of an instance owns the lock.
LEMMA OthersAreElsewhere ==
  ASSUME MapInv, UseInv, NEW t \in Thread, pc[t] # "idle", hd[t] \in Owners
  PROVE  /\ \A u \in Thread \ {t} :
              hd[u] \in Owners => Home[u] # Home[t]
         /\ \A h \in Owners : Home[h] = Home[t] => h = hd[t]
<1>1. hd[t] \in Handle /\ Home[hd[t]] = Home[t] /\ hd[t] # Nil
  BY CallerTyped
<1>2. \A h \in Owners : Home[h] = Home[t] => h = hd[t]
  BY <1>1, OwnerUnique
<1>3. ASSUME NEW u \in Thread \ {t}, hd[u] \in Owners, Home[u] = Home[t]
      PROVE  FALSE
  <2>1. hd[u] # Nil
    BY <1>3, LockManagerAssumption DEF LockManagerAssumption, Owners
  <2>2. Home[hd[u]] = Home[u]
    BY <2>1 DEF MapInv, CallInv
  <2> QED
    BY <1>1, <1>2, <1>3, <2>2 DEF UseInv, CallerInv
<1> QED
  BY <1>2, <1>3

\* A pass of acquireLocal takes the lock for a handle that nobody else is in.
LEMMA AcquireKeepsUseInv ==
  ASSUME MapInv, UseInv, NEW t \in Thread, AcquireLocal(t) \/ Wake(t)
  PROVE  UseInv'
<1>1. pc[t] \in {"acquire", "wait"} /\ pc[t] # "idle"
  BY DEF AcquireLocal, Wake
<1>2. hd[t] \in Handle /\ Home[hd[t]] = Home[t] /\ hd[t] # Nil
  BY <1>1, CallerTyped
<1>3. op[t] # "close"
  BY <1>1 DEF UseInv, ClosedInv
<1>4. UNCHANGED <<ext, closed>>
  BY PassOutcome
<1>5. granted \subseteq Owners
  BY DEF UseInv, BackendInv
<1>6. HasExt /\ ~Relock => \A h \in granted : ext = Home[h]
  BY DEF UseInv, BackendInv
<1>7. CASE /\ \A h \in Owners : Home[h] # Home[t]
           /\ Owners' = Owners \cup {hd[t]}
           /\ HasExt /\ Goto(t, "ext") /\ UNCHANGED granted
  <2>1. hd[t] \notin granted /\ Moves(t, "ext")
    BY <1>2, <1>5, <1>7 DEF Moves
  <2> QED
    BY <1>1, <1>3, <1>4, <1>5, <1>6, <1>7, <2>1, MoveKeepsUseInv
<1>8. CASE /\ Owners' = Owners \cup {hd[t]}
           /\ ~HasExt /\ Return(t) /\ granted' = granted \cup {hd[t]}
  <2>1. Moves(t, "idle")
    BY <1>8 DEF Moves
  <2> QED
    BY <1>1, <1>3, <1>4, <1>5, <1>8, <2>1, MoveKeepsUseInv
<1>9. CASE /\ Owners' = Owners /\ hd[t] \in Owners
           /\ Return(t) /\ granted' = granted \cup {hd[t]}
  <2>1. ~Relock => hd[t] \in granted
    BY <1>1, <1>9 DEF UseInv, OwningInv, GrantInv
  <2>2. Moves(t, "idle")
    BY <1>9 DEF Moves
  <2> QED
    BY <1>1, <1>3, <1>4, <1>5, <1>6, <1>9, <2>1, <2>2, MoveKeepsUseInv
<1>10. CASE /\ Owners' = Owners /\ hd[t] \notin Owners
            /\ Goto(t, "wait") /\ UNCHANGED granted
  <2>1. Moves(t, "wait")
    BY <1>10 DEF Moves
  <2> QED
    BY <1>1, <1>3, <1>4, <1>5, <1>6, <1>10, <2>1, MoveKeepsUseInv
<1> QED
  BY <1>7, <1>8, <1>9, <1>10, PassOutcome

\* A cancelled wait leaves the owners as they are.
LEMMA CancelKeepsUseInv ==
  ASSUME MapInv, UseInv, NEW t \in Thread, CancelWait(t)
  PROVE  UseInv'
<1>1. /\ Owners' = Owners
      /\ pc[t] = "wait" /\ Moves(t, "idle") /\ UNCHANGED <<ext, closed, granted>>
  BY CancelOutcome DEF Moves
<1>2. hd[t] \notin Owners /\ hd[t] \notin granted
  BY <1>1 DEF UseInv, OwningInv, GrantInv
<1>3. op[t] # "close"
  BY <1>1 DEF UseInv, ClosedInv
<1>4. granted \subseteq Owners
  BY DEF UseInv, BackendInv
<1>5. HasExt /\ ~Relock => \A h \in granted : ext' = Home[h]
  BY <1>1 DEF UseInv, BackendInv
<1> QED
  BY <1>1, <1>2, <1>3, <1>4, <1>5, MoveKeepsUseInv

\* A release takes the owner away, whose grant ended with the call.
LEMMA ReleaseKeepsUseInv ==
  ASSUME MapInv, UseInv, NEW t \in Thread, Undo(t) \/ Release(t)
  PROVE  UseInv'
<1>1. /\ Owners' = Owners \ {hd[t]}
      /\ pc[t] \in {"undo", "release"} /\ Moves(t, "idle")
      /\ UNCHANGED <<ext, closed, granted>>
  BY ReleaseOutcome DEF Moves
<1>2. hd[t] \notin granted
  BY <1>1 DEF UseInv, GrantInv
<1>3. granted' \subseteq Owners'
  BY <1>1, <1>2 DEF UseInv, BackendInv
<1>4. HasExt /\ ~Relock => \A h \in granted : ext' = Home[h]
  BY <1>1 DEF UseInv, BackendInv
<1> QED
  BY <1>1, <1>2, <1>3, <1>4, MoveKeepsUseInv

\* The holds check sends only an owner on to the backend and the release.
LEMMA HoldsKeepsUseInv ==
  ASSUME MapInv, UseInv, NEW t \in Thread, Holds(t)
  PROVE  UseInv'
<1>1. pc[t] = "holds" /\ UNCHANGED <<locks, owner, ext, closed, granted>>
  BY DEF Holds
<1>2. hd[t] \in Handle
  BY <1>1, CallerTyped
<1>3. Owners' = Owners
  BY <1>1 DEF Owners, OwnedBy
<1>4. hd[t] \notin granted
  BY <1>1 DEF UseInv, GrantInv
<1>5. granted \subseteq Owners
  BY DEF UseInv, BackendInv
<1>6. HasExt /\ ~Relock => \A h \in granted : ext' = Home[h]
  BY <1>1 DEF UseInv, BackendInv
<1>7. CASE ~OwnedBy(hd[t])
  <2>1. hd[t] \notin Owners /\ Moves(t, "idle")
    BY <1>7 DEF Owners, Holds, Moves
  <2> QED
    BY <1>1, <1>3, <1>4, <1>5, <1>6, <2>1, MoveKeepsUseInv
<1>8. CASE OwnedBy(hd[t])
  <2>1. hd[t] \in Owners
    BY <1>2, <1>8 DEF Owners
  <2>2. CASE HasExt
    <3>1. Moves(t, "extUnlock")
      BY <1>8, <2>2 DEF Holds, Moves
    <3> QED
      BY <1>1, <1>3, <1>4, <1>5, <1>6, <2>1, <3>1, MoveKeepsUseInv
  <2>3. CASE ~HasExt
    <3>1. Moves(t, "release")
      BY <1>8, <2>3 DEF Holds, Moves
    <3> QED
      BY <1>1, <1>3, <1>4, <1>5, <1>6, <2>1, <3>1, MoveKeepsUseInv
  <2> QED
    BY <2>2, <2>3
<1> QED
  BY <1>7, <1>8

\* ext.Lock grants the owner when it gets the backend, and nothing when it fails.
LEMMA ExtLockKeepsUseInv ==
  ASSUME MapInv, UseInv, NEW t \in Thread, ExtLock(t) \/ ExtLockFail(t)
  PROVE  UseInv'
<1>1. pc[t] = "ext" /\ UNCHANGED <<locks, owner, closed>>
  BY DEF ExtLock, ExtLockFail
<1>2. hd[t] \in Handle /\ Home[hd[t]] = Home[t] /\ Home[t] \in Proc /\ hd[t] # Nil
  BY <1>1, CallerTyped
<1>3. Owners' = Owners
  BY <1>1 DEF Owners, OwnedBy
<1>4. hd[t] \in Owners /\ hd[t] \notin granted
  BY <1>1 DEF UseInv, OwningInv, GrantInv
<1>5. granted \subseteq Owners
  BY DEF UseInv, BackendInv
<1>6. op[t] # "close"
  BY <1>1 DEF UseInv, ClosedInv
<1>7. HasExt /\ ~Relock => \A h \in granted : ext = Home[h]
  BY DEF UseInv, BackendInv
<1>8. HasExt /\ ~Relock /\ ext = Nil => granted = {}
  BY <1>5, <1>7, LockManagerAssumption DEF LockManagerAssumption, Owners
<1>9. CASE ExtLock(t)
  <2>1. /\ ext = Nil /\ ext' = Home[t] /\ granted' = granted \cup {hd[t]}
        /\ Moves(t, "idle")
    BY <1>9 DEF ExtLock, Moves
  <2> QED
    BY <1>1, <1>2, <1>3, <1>4, <1>5, <1>6, <1>8, <2>1, MoveKeepsUseInv
<1>10. CASE ExtLockFail(t)
  <2>1. (ext' = ext \/ ext = Nil) /\ UNCHANGED granted /\ Moves(t, "undo")
    BY <1>10 DEF ExtLockFail, Moves
  <2> QED
    BY <1>1, <1>3, <1>4, <1>5, <1>6, <1>7, <1>8, <2>1, MoveKeepsUseInv
<1> QED
  BY <1>9, <1>10

\* ext.Unlock gives the backend up, or forsakes it when it fails, while nothing
\* of the instance is granted.
LEMMA ExtUnlockKeepsUseInv ==
  ASSUME MapInv, UseInv, NEW t \in Thread, ExtUnlock(t) \/ ExtUnlockFail(t)
  PROVE  UseInv'
<1>1. pc[t] = "extUnlock" /\ UNCHANGED <<locks, owner, closed>>
  BY DEF ExtUnlock, ExtUnlockFail
<1>2. hd[t] \in Handle /\ Home[hd[t]] = Home[t] /\ hd[t] # Nil
  BY <1>1, CallerTyped
<1>3. Owners' = Owners
  BY <1>1 DEF Owners, OwnedBy
<1>4. hd[t] \in Owners /\ hd[t] \notin granted
  BY <1>1 DEF UseInv, OwningInv, GrantInv
<1>5. granted \subseteq Owners
  BY DEF UseInv, BackendInv
<1>6. HasExt /\ ~Relock => \A h \in granted : ext = Home[h]
  BY DEF UseInv, BackendInv
<1>7. HasExt /\ ~Relock /\ ext = Home[t] => granted = {}
  BY <1>1, <1>4, <1>5, <1>6, OthersAreElsewhere
<1>8. UNCHANGED granted /\ (ext' = ext \/ ext = Home[t])
  BY DEF ExtUnlock, ExtUnlockFail, Forsaken
<1>9. HasExt /\ ~Relock => \A h \in granted' : ext' = Home[h]
  BY <1>6, <1>7, <1>8
<1>10. CASE Moves(t, "release")
  BY <1>1, <1>3, <1>4, <1>5, <1>8, <1>9, <1>10, MoveKeepsUseInv
<1>11. CASE op[t] = "unlock" /\ Moves(t, "idle")
  BY <1>1, <1>3, <1>4, <1>5, <1>8, <1>9, <1>11, MoveKeepsUseInv
<1> QED
  BY <1>10, <1>11 DEF ExtUnlock, ExtUnlockFail, Moves

\* Steps that touch no handle: a context is cancelled, an orphan expires.
LEMMA IdleKeepsUseInv ==
  ASSUME MapInv, UseInv,
         UNCHANGED <<locks, owner, closed, pc, op, hd, granted>>,
         ext' = ext \/ ext = Orphan
  PROVE  UseInv'
<1>1. Owners' = Owners
  BY DEF Owners, OwnedBy
<1>2. CallerInv' /\ OwningInv' /\ GrantInv' /\ ClosedInv'
  BY <1>1 DEF UseInv, CallerInv, OwningInv, GrantInv, ClosedInv
<1>3. HasExt /\ ~Relock /\ ext = Orphan => granted = {}
  BY LockManagerAssumption
     DEF LockManagerAssumption, UseInv, BackendInv, MapInv, TypeOK
<1>4. BackendInv'
  BY <1>1, <1>3 DEF UseInv, BackendInv
<1> QED
  BY <1>2, <1>4 DEF UseInv

\* Every step keeps the invariant of handles with one caller.
LEMMA NextKeepsSafeInv ==
  ASSUME ~SharedHandles
  PROVE  SafeInv /\ [Next]_vars => SafeInv'
<1> SUFFICES ASSUME SafeInv, [Next]_vars PROVE SafeInv'
  OBVIOUS
<1>1. MapInv /\ UseInv /\ MapInv'
  BY NextKeepsMapInv DEF SafeInv
<1>2. ASSUME NEW t \in Thread, Step(t) PROVE UseInv'
  BY <1>1, <1>2, AcquireKeepsUseInv, CancelKeepsUseInv, ReleaseKeepsUseInv,
     HoldsKeepsUseInv, ExtLockKeepsUseInv, ExtUnlockKeepsUseInv DEF Step
<1>3. ASSUME NEW t \in Thread, NEW h \in Handle,
             LockCall(t, h) \/ UnlockCall(t, h) \/ CloseCall(t, h)
      PROVE  UseInv'
  BY <1>1, <1>3, CallKeepsUseInv
<1>4. CASE ExtExpire \/ UNCHANGED vars \/ \E p \in Proc : CtxCancel(p)
  <2>1. /\ UNCHANGED <<locks, owner, closed, pc, op, hd, granted>>
        /\ ext' = ext \/ ext = Orphan
    BY <1>4 DEF ExtExpire, CtxCancel, vars
  <2> QED
    BY <1>1, <2>1, IdleKeepsUseInv DEF SafeInv
<1> QED
  BY <1>1, <1>2, <1>3, <1>4 DEF Next, SafeInv

\* With one goroutine per handle at a time, SafeInv always holds.
LEMMA SafeInvariant == ASSUME ~SharedHandles PROVE Spec => []SafeInv
<1>1. Init => SafeInv
  BY InitMapInv, InitUseInv DEF SafeInv
<1>2. SafeInv /\ [Next]_vars => SafeInv'
  BY NextKeepsSafeInv
<1> QED
  BY <1>1, <1>2, PTL DEF Spec

\* As long as no handle is used by two goroutines at once, or locked after its
\* Unlock failed, two handles never both have the lock: not in one instance,
\* and not in two over a backend whose calls may fail, an Unlock leaving its
\* lock deleted or to its lease.
THEOREM Exclusion ==
  ASSUME ~SharedHandles, ~Relock PROVE Spec => []MutualExclusion
<1>1. SafeInv => MutualExclusion
  <2> SUFFICES ASSUME SafeInv, NEW g \in granted, NEW h \in granted, Contend(g, h)
               PROVE  g = h
    BY DEF MutualExclusion
  <2>1. g \in Owners /\ h \in Owners
    BY DEF SafeInv, UseInv, BackendInv
  <2>2. Home[g] = Home[h]
    BY DEF SafeInv, UseInv, BackendInv, Contend
  <2> QED
    BY <2>1, <2>2, OwnerUnique
<1> QED
  BY <1>1, SafeInvariant, PTL

\* As long as no handle is used by two goroutines at once, or locked after its
\* Unlock failed, a successful Lock is backed by the map and by the backend
\* until Unlock or Close begins.
THEOREM GrantsAreBacked ==
  ASSUME ~SharedHandles, ~Relock PROVE Spec => []GrantIsBacked
<1>1. SafeInv => GrantIsBacked
  BY DEF SafeInv, UseInv, BackendInv, GrantIsBacked, Owners
<1> QED
  BY <1>1, SafeInvariant, PTL

\* As long as no handle is used by two goroutines at once, an instance never
\* has two calls of the backend's Lock under way.
THEOREM BackendIsCalledSerially ==
  ASSUME ~SharedHandles PROVE Spec => []ExtLockSerialized
<1>1. SafeInv => ExtLockSerialized
  <2> SUFFICES ASSUME SafeInv, NEW t \in Thread, NEW u \in Thread,
                      pc[t] = "ext", pc[u] = "ext", Home[t] = Home[u]
               PROVE  t = u
    BY DEF ExtLockSerialized
  <2>1. hd[t] \in Owners /\ hd[u] \in Owners /\ MapInv /\ UseInv
    BY DEF SafeInv, UseInv, OwningInv
  <2> QED
    BY <2>1, OthersAreElsewhere
<1> QED
  BY <1>1, SafeInvariant, PTL

\* As long as no handle is used by two goroutines at once, a closed handle
\* owns no lock, whatever the backend answered to Close.
THEOREM CloseReleases ==
  ASSUME ~SharedHandles PROVE Spec => []ClosedHandleOwnsNothing
<1>1. SafeInv => ClosedHandleOwnsNothing
  BY DEF SafeInv, UseInv, GrantInv, ClosedInv, ClosedHandleOwnsNothing, Owners
<1> QED
  BY <1>1, SafeInvariant, PTL

------------------------------------------------------------------------------
(* The lock manager as an exclusive lock.                                  *)

\* The holder the refinement mapping names.
Holder == IF granted = {} THEN Nil ELSE CHOOSE h \in granted : TRUE

\* A step grants the lock to one handle, takes it from one, or neither.
LEMMA GrantStep ==
  ASSUME SafeInv, [Next]_vars
  PROVE  \/ granted' = granted
         \/ \E h \in Handle : granted' \in {granted \cup {h}, granted \ {h}}
<1>1. ASSUME NEW t \in Thread, Step(t)
      PROVE  granted' = granted \/ \E h \in Handle : granted' = granted \cup {h}
  <2>1. pc[t] # "idle"
    BY <1>1 DEF Step, AcquireLocal, Wake, CancelWait, ExtLock, ExtLockFail, Undo,
                Holds, ExtUnlock, ExtUnlockFail, Release
  <2>2. hd[t] \in Handle
    BY <2>1, CallerTyped DEF SafeInv
  <2>3. CASE AcquireLocal(t) \/ Wake(t)
    BY <2>2, <2>3, PassOutcome DEF SafeInv
  <2>4. CASE CancelWait(t) \/ ExtLock(t) \/ ExtLockFail(t) \/ Undo(t) \/ Holds(t)
             \/ ExtUnlock(t) \/ ExtUnlockFail(t) \/ Release(t)
    BY <2>2, <2>4 DEF CancelWait, GiveUp, ExtLock, ExtLockFail, Undo, Holds, ExtUnlock,
                      ExtUnlockFail, Release
  <2> QED
    BY <1>1, <2>3, <2>4 DEF Step
<1>2. CASE UNCHANGED vars \/ ExtExpire \/ \E p \in Proc : CtxCancel(p)
  BY <1>2 DEF vars, ExtExpire, CtxCancel
<1>3. ASSUME NEW t \in Thread, NEW h \in Handle,
             LockCall(t, h) \/ UnlockCall(t, h) \/ CloseCall(t, h)
      PROVE  granted' \in {granted, granted \ {h}}
  BY <1>3 DEF LockCall, UnlockCall, CloseCall
<1> QED
  BY <1>1, <1>2, <1>3 DEF Next

\* Where all handles contend, at most one has the lock.
LEMMA OneGrant ==
  ASSUME ~Relock, SafeInv, \A g, h \in Handle : Contend(g, h)
  PROVE  granted \subseteq Handle /\ \A g, h \in granted : g = h
<1>1. granted \subseteq Handle
  BY DEF SafeInv, MapInv, TypeOK
<1>2. ASSUME NEW g \in granted, NEW h \in granted PROVE g = h
  <2>1. g \in Owners /\ h \in Owners /\ Home[g] = Home[h]
    BY <1>1 DEF SafeInv, UseInv, BackendInv, Contend
  <2> QED
    BY <2>1, OwnerUnique
<1> QED
  BY <1>1, <1>2

\* Where all handles contend, no handle is used by two goroutines at once and
\* none is locked after its Unlock failed, the lock manager is an exclusive
\* lock: the lock passes from handle to handle only through the Unlock or Close
\* of the one that has it.
THEOREM FlockRefinement ==
  ASSUME ~SharedHandles, ~Relock, \A g, h \in Handle : Contend(g, h)
  PROVE  Spec => ImplementsFlock
<1>1. Init => Flock!Init
  BY DEF Init, Flock!Init
<1>2. ASSUME SafeInv, SafeInv', [Next]_vars PROVE [Flock!Next]_Holder
  <2>1. granted \subseteq Handle /\ \A g, h \in granted : g = h
    BY <1>2, OneGrant
  <2>2. \A g, h \in granted' : g = h
    <3>1. (granted \subseteq Handle /\ \A g, h \in granted : g = h)'
      BY <1>2, OneGrant, PTL
    <3> QED
      BY <3>1
  <2>3. CASE granted' = granted
    BY <2>3 DEF Holder
  <2>4. ASSUME NEW h \in Handle, h \notin granted, granted' = granted \cup {h}
        PROVE  [Flock!Next]_Holder
    <3>1. granted = {} /\ granted' = {h}
      BY <2>2, <2>4
    <3>2. Holder = Nil /\ Holder' = h
      BY <3>1 DEF Holder
    <3> QED
      BY <3>2 DEF Flock!Next, Flock!Acquire, Holder
  <2>5. ASSUME NEW h \in granted, granted' = granted \ {h}
        PROVE  [Flock!Next]_Holder
    <3>1. granted = {h} /\ granted' = {}
      BY <2>1, <2>5
    <3>2. Holder = h /\ Holder' = Nil
      BY <3>1 DEF Holder
    <3> QED
      BY <2>1, <3>2 DEF Flock!Next, Flock!Release, Holder
  <2> QED
    BY <1>2, <2>3, <2>4, <2>5, GrantStep
<1> QED
  BY <1>1, <1>2, SafeInvariant, PTL DEF Spec, ImplementsFlock, Flock!Spec, Holder

==============================================================================
