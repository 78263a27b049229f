------------------------- MODULE WriteHandlesProofs -------------------------
(***************************************************************************)
(* Proofs about WriteHandles, for any number of handles and versions.      *)
(***************************************************************************)
EXTENDS WriteHandles, FiniteSetTheorems, WellFoundedInduction, TLAPS

------------------------------------------------------------------------------
(* The newest contents.                                                    *)

\* A finite set of numbers that is not empty has a largest one.
LEMMA MaxExists ==
  ASSUME NEW S, S \subseteq Nat, IsFiniteSet(S), S # {}
  PROVE  \E m \in S : \A y \in S : m >= y
<1> DEFINE Bad == {U \in SUBSET S : U # {} /\ ~ \E m \in U : \A y \in U : m >= y}
<1> DEFINE R == StrictSubsetOrdering(S)
<1>1. SUFFICES ASSUME Bad # {} PROVE FALSE
  OBVIOUS
<1>2. IsWellFoundedOn(R, FiniteSubsetsOf(S))
  BY FS_StrictSubsetOrderingWellFounded
<1>3. Bad \subseteq FiniteSubsetsOf(S)
  BY FS_Subset DEF FiniteSubsetsOf
<1>4. PICK U \in Bad : \A V \in Bad : <<V, U>> \notin R
  <2> HIDE DEF Bad, R
  <2> QED BY <1>1, <1>2, <1>3, WFMin
<1>5. PICK x \in U : TRUE
  OBVIOUS
<1>6. <<U \ {x}, U>> \in R
  BY <1>5 DEF StrictSubsetOrdering
<1>7. U \ {x} \notin Bad
  BY <1>4, <1>6
<1>8. CASE U = {x}
  BY <1>5, <1>8
<1>9. CASE U # {x}
  <2>1. PICK m \in U \ {x} : \A y \in U \ {x} : m >= y
    BY <1>5, <1>7, <1>9
  <2>2. CASE x >= m
    BY <2>1, <2>2, <1>5
  <2>3. CASE ~(x >= m)
    BY <2>1, <2>3, <1>5
  <2> QED BY <2>2, <2>3
<1> QED BY <1>8, <1>9

\* Newest is the object or the buffer of a writer.
LEMMA NewestIsSomewhere ==
  ASSUME TypeOK
  PROVE  /\ Newest \in Nat
         /\ Newest = obj \/ \E w \in Handle : Writing(w) /\ Newest = buf[w]
<1> DEFINE W == {w \in Handle : Writing(w)}
<1> DEFINE B == {buf[h] : h \in W}
<1>1. IsFiniteSet(W)
  BY FS_Subset, WriteHandlesAssumption DEF WriteHandlesAssumption
<1>2. IsFiniteSet(B)
  <2> HIDE DEF W
  <2> DEFINE f == [h \in W |-> buf[h]]
  <2>1. f \in Surjection(W, B)
    BY DEF Surjection
  <2> HIDE DEF f, B
  <2> QED BY <1>1, <2>1, FS_Surjection
<1>3. IsFiniteSet({obj} \cup B)
  BY <1>2, FS_AddElement, FS_Union, FS_Singleton
<1>4. {obj} \cup B \subseteq Nat
  BY DEF TypeOK
<1>5. \E m \in {obj} \cup B : \A y \in {obj} \cup B : m >= y
  <2> HIDE DEF B
  <2> QED BY <1>3, <1>4, MaxExists
<1>6. Newest \in {obj} \cup B
  BY <1>5 DEF Newest, Max
<1> QED BY <1>4, <1>6

------------------------------------------------------------------------------
(* The invariant of all handles.                                           *)

\* A handle that has contents to upload: a writer, or what trackWrite is
\* about to make one.
Loaded(h) == pc[h] = "track" \/ Writing(h)

\* The writer that is tracked is open; a handle is attached to a writer that
\* is open or was closed; loaded handles have contents and may be written.
PhaseInv ==
  /\ openWrites # Nil => Writing(openWrites)
  /\ \A h \in Handle :
       /\ wf[h] # Nil => Writing(wf[h]) \/ pc[wf[h]] = "closed"
       /\ pc[h] \in {"attach", "shared"} => wf[h] # Nil
       /\ Loaded(h) => buf[h] # 0 /\ Writable(flag[h])

\* What was written is uploaded or the handle is dirty.
UploadInv ==
  \A h \in Handle :
    /\ pc[h] \in {"unused", "attach", "resolve"} => wrote[h] = 0
    /\ Loaded(h) => buf[h] >= wrote[h]
    /\ dirty[h] \/ put[h] >= wrote[h]
    /\ pc[h] \in {"finish", "closed"} => ~dirty[h]

\* No contents and no expectation is newer than the newest version.
VersionInv ==
  /\ obj <= ver
  /\ \A h \in Handle : buf[h] <= ver /\ floor[h] <= ver

HandleInv == TypeOK /\ PhaseInv /\ UploadInv /\ VersionInv
               /\ SharedBufferAlive /\ WriterIsTracked

\* The initial state satisfies the invariant.
LEMMA InitHandleInv == Init => HandleInv
<1> SUFFICES ASSUME Init PROVE HandleInv
  OBVIOUS
<1> USE WriteHandlesAssumption DEF WriteHandlesAssumption, Init
<1>1. TypeOK
  BY DEF TypeOK, PC, Flag
<1>2. PhaseInv /\ UploadInv /\ VersionInv /\ WriterIsTracked
  BY DEF PhaseInv, UploadInv, VersionInv, WriterIsTracked, Loaded, Writing
<1>3. SharedBufferAlive
  <2>1. \A w \in Handle : Attached(w) = {}
    BY DEF Attached
  <2> QED
    BY <2>1, FS_EmptySet DEF SharedBufferAlive
<1> QED
  BY <1>1, <1>2, <1>3 DEF HandleInv

\* The read handles attached to a writer can be counted.
LEMMA AttachedFinite ==
  ASSUME NEW w
  PROVE  /\ IsFiniteSet(Attached(w))
         /\ Cardinality(Attached(w)) \in Nat
         /\ Cardinality(Attached(w)) = 0 <=> Attached(w) = {}
<1>1. IsFiniteSet(Attached(w))
  BY WriteHandlesAssumption, FS_Subset DEF WriteHandlesAssumption, Attached
<1> QED
  BY <1>1, FS_CardinalityType, FS_EmptySet

\* A step that attaches and detaches no reader and destroys no buffer keeps
\* the count and the buffers.
LEMMA QuietBuffers ==
  ASSUME TypeOK, SharedBufferAlive, UNCHANGED shared,
         \A h \in Handle :
           /\ pc[h] = "shared" <=> pc'[h] = "shared"
           /\ pc[h] = "shared" => wf'[h] = wf[h]
           /\ buf[h] # 0 => buf'[h] # 0
           /\ pc'[h] = "closed" => pc[h] = "closed" /\ buf'[h] = buf[h]
  PROVE  SharedBufferAlive'
<1>1. \A w \in Handle : Attached(w)' = Attached(w)
  BY DEF Attached
<1> QED
  BY <1>1 DEF SharedBufferAlive, TypeOK

\* OpenFile keeps the invariant.
LEMMA OpenFileStep ==
  ASSUME HandleInv, NEW h \in Handle, NEW f \in Flag, OpenFile(h, f)
  PROVE  HandleInv'
<1> USE WriteHandlesAssumption DEF WriteHandlesAssumption, HandleInv, OpenFile, Goto, mode
<1>1. TypeOK'
  BY NewestIsSomewhere DEF TypeOK, PC
<1>2. PhaseInv'
  BY DEF PhaseInv, Loaded, Writing, TypeOK
<1>3. UploadInv'
  BY DEF UploadInv, Loaded, Writing, TypeOK
<1>4. VersionInv'
  <2>1. Newest \in Nat /\ Newest <= ver
    BY NewestIsSomewhere DEF VersionInv, TypeOK
  <2> QED
    BY <2>1 DEF VersionInv, TypeOK
<1>5. WriterIsTracked'
  BY DEF WriterIsTracked, Writing, TypeOK
<1>6. SharedBufferAlive'
  BY QuietBuffers DEF TypeOK
<1> QED
  BY <1>1, <1>2, <1>3, <1>4, <1>5, <1>6

\* Resolve keeps the invariant.
LEMMA ResolveStep ==
  ASSUME HandleInv, NEW h \in Handle, Resolve(h)
  PROVE  HandleInv'
<1> USE WriteHandlesAssumption
    DEF WriteHandlesAssumption, HandleInv, Resolve, Opened, StartEmpty, Goto, mode
<1>1. TypeOK'
  <2>1. pc' \in [Handle -> PC] /\ dirty' \in [Handle -> BOOLEAN]
    BY DEF TypeOK, PC
  <2>2. /\ ver' \in Nat /\ buf' \in [Handle -> Nat]
        /\ wrote' \in [Handle -> Nat] /\ got' \in [Handle -> Nat]
    BY DEF TypeOK
  <2> QED
    BY <2>1, <2>2 DEF TypeOK
<1>2. PhaseInv'
  BY DEF PhaseInv, Loaded, Writing, Writable, Creates, TypeOK, Flag
<1>3. UploadInv'
  BY DEF UploadInv, Loaded, Writing, TypeOK
<1>4. VersionInv'
  BY DEF VersionInv, TypeOK
<1>5. WriterIsTracked'
  BY DEF WriterIsTracked, Writing, TypeOK
<1>6. SharedBufferAlive'
  BY QuietBuffers DEF TypeOK
<1> QED
  BY <1>1, <1>2, <1>3, <1>4, <1>5, <1>6

\* trackWrite keeps the invariant.
LEMMA TrackStep ==
  ASSUME HandleInv, NEW h \in Handle, Track(h)
  PROVE  HandleInv'
<1> USE WriteHandlesAssumption
    DEF WriteHandlesAssumption, HandleInv, Track, trackWrite, Goto
<1>1. TypeOK'
  BY DEF TypeOK, PC
<1>2. PhaseInv'
  BY DEF PhaseInv, Loaded, Writing, Writable, TypeOK, Flag
<1>3. UploadInv'
  BY DEF UploadInv, Loaded, Writing, TypeOK
<1>4. VersionInv'
  BY DEF VersionInv, TypeOK
<1>5. WriterIsTracked'
  BY DEF WriterIsTracked, Writing, TypeOK
<1>6. SharedBufferAlive'
  BY QuietBuffers DEF TypeOK
<1> QED
  BY <1>1, <1>2, <1>3, <1>4, <1>5, <1>6

\* Write, and Sync and Close up to the end of the upload, keep the invariant.
LEMMA WriterStep ==
  ASSUME HandleInv, NEW h \in Handle, 
         Write(h) \/ Flush(h, "sync") \/ Flush(h, "close") \/ Put(h) \/ PutFail(h)
  PROVE  HandleInv'
<1> USE WriteHandlesAssumption
    DEF WriteHandlesAssumption, HandleInv, Write, Flush, Put, PutFail, Goto, mode
<1>1. TypeOK'
  <2>1. pc' \in [Handle -> PC] /\ dirty' \in [Handle -> BOOLEAN]
    BY DEF TypeOK, PC
  <2>2. /\ obj' \in Nat /\ ver' \in Nat /\ buf' \in [Handle -> Nat]
        /\ wrote' \in [Handle -> Nat] /\ put' \in [Handle -> Nat]
    BY DEF TypeOK
  <2> QED
    BY <2>1, <2>2 DEF TypeOK
<1>2. PhaseInv'
  BY DEF PhaseInv, Loaded, Writing, Writable, TypeOK, Flag
<1>3. UploadInv'
  BY DEF UploadInv, Loaded, Writing, TypeOK
<1>4. VersionInv'
  BY DEF VersionInv, TypeOK
<1>5. WriterIsTracked'
  BY DEF WriterIsTracked, Writing, TypeOK
<1>6. SharedBufferAlive'
  BY QuietBuffers DEF TypeOK
<1> QED
  BY <1>1, <1>2, <1>3, <1>4, <1>5, <1>6

\* newSharedReadFile keeps the invariant: one more reader is counted.
LEMMA ShareStep ==
  ASSUME HandleInv, NEW h \in Handle, Attach(h), pc[wf[h]] = "open", flag[h] = "rdonly"
  PROVE  HandleInv'
<1> USE WriteHandlesAssumption
    DEF WriteHandlesAssumption, HandleInv, Attach, ShareBuffer, Opened, Goto, Writable, mode
<1>w. PICK w \in Handle : w = wf[h]
  BY DEF PhaseInv, TypeOK
<1>0. /\ wf[h] = w /\ w # h /\ pc[h] = "attach" /\ pc[w] = "open" /\ buf[w] # 0
      /\ pc' = [pc EXCEPT ![h] = "shared"]
      /\ got' = [got EXCEPT ![h] = buf[w]]
      /\ shared' = [shared EXCEPT ![w] = @ + 1]
      /\ UNCHANGED <<obj, ver, openWrites, flag, wf, buf, dirty, wrote, put, floor, mode>>
  BY <1>w DEF PhaseInv, Loaded, Writing, TypeOK
<1>1. TypeOK'
  BY <1>0 DEF TypeOK, PC
<1>2. PhaseInv'
  BY <1>0 DEF PhaseInv, Loaded, Writing, TypeOK
<1>3. UploadInv' /\ VersionInv' /\ WriterIsTracked'
  BY <1>0 DEF UploadInv, VersionInv, WriterIsTracked, Loaded, Writing, TypeOK
<1>4. SharedBufferAlive'
  <2>1. \A x \in Handle \ {w} : Attached(x)' = Attached(x)
    BY <1>0 DEF Attached, TypeOK
  <2>2. Attached(w)' = Attached(w) \cup {h} /\ h \notin Attached(w)
    BY <1>0 DEF Attached, TypeOK
  <2>3. Cardinality(Attached(w)') = Cardinality(Attached(w)) + 1
    <3>1. IsFiniteSet(Attached(w))
      BY AttachedFinite
    <3>2. Cardinality(Attached(w) \cup {h}) = Cardinality(Attached(w)) + 1
      BY <2>2, <3>1, FS_AddElement
    <3> QED
      BY <2>2, <3>2
  <2>4. shared'[w] = shared[w] + 1 /\ \A x \in Handle \ {w} : shared'[x] = shared[x]
    BY <1>0 DEF TypeOK
  <2>5. \A x \in Handle : buf'[x] = buf[x] /\ (pc'[x] = "closed" <=> pc[x] = "closed")
    BY <1>0 DEF TypeOK
  <2>6. shared'[w] = Cardinality(Attached(w)') /\ buf'[w] # 0 /\ pc'[w] # "closed"
    BY <1>0, <2>3, <2>4, <2>5 DEF SharedBufferAlive
  <2>7. \A x \in Handle \ {w} :
          /\ shared'[x] = Cardinality(Attached(x)')
          /\ Attached(x)' # {} => buf'[x] # 0
          /\ pc'[x] = "closed" /\ Attached(x)' = {} => buf'[x] = 0
    BY <2>1, <2>4, <2>5 DEF SharedBufferAlive
  <2> QED
    BY <2>6, <2>7 DEF SharedBufferAlive
<1> QED
  BY <1>1, <1>2, <1>3, <1>4

\* The other outcomes of Attach keep the invariant.
LEMMA AttachStep ==
  ASSUME HandleInv, NEW h \in Handle, Attach(h)
  PROVE  HandleInv'
<1> USE WriteHandlesAssumption DEF WriteHandlesAssumption, HandleInv, Opened, Goto, mode
<1> DEFINE w == wf[h]
<1>0. /\ w \in Handle /\ w # h /\ pc[h] = "attach"
      /\ pc[w] \in {"open", "closed"} /\ (pc[w] = "open" => buf[w] # 0)
      /\ UNCHANGED <<obj, openWrites, flag, wf, put, floor, mode>>
  BY DEF Attach, MuFree, PhaseInv, Loaded, Writing, TypeOK
<1>1. CASE pc[w] = "open" /\ flag[h] = "rdonly"
  BY <1>1, ShareStep
<1>2. CASE /\ pc' = [pc EXCEPT ![h] = "resolve"] \/ pc' = [pc EXCEPT ![h] = "done"]
           /\ got' \in [Handle -> Nat]
           /\ UNCHANGED <<ver, buf, dirty, shared, wrote>>
  <2> USE <1>0, <1>2
  <2>1. TypeOK'
    BY DEF TypeOK, PC
  <2>2. PhaseInv' /\ UploadInv' /\ VersionInv' /\ WriterIsTracked'
    BY DEF PhaseInv, UploadInv, VersionInv, WriterIsTracked, Loaded, Writing, TypeOK
  <2>3. SharedBufferAlive'
    BY QuietBuffers DEF TypeOK
  <2> QED
    BY <2>1, <2>2, <2>3
<1>3. CASE pc[w] = "open" /\ Writable(flag[h]) /\ Reopen(h, w) /\ UNCHANGED shared
  <2> USE <1>0, <1>3 DEF Reopen, StartEmpty
  <2>1. TypeOK'
    <3>1. pc' \in [Handle -> PC] /\ dirty' \in [Handle -> BOOLEAN]
      BY DEF TypeOK, PC
    <3>2. /\ ver' \in Nat /\ buf' \in [Handle -> Nat]
          /\ wrote' \in [Handle -> Nat] /\ got' \in [Handle -> Nat]
      BY DEF TypeOK
    <3> QED
      BY <3>1, <3>2 DEF TypeOK
  <2>2. PhaseInv'
    BY DEF PhaseInv, Loaded, Writing, TypeOK
  <2>3. UploadInv'
    BY DEF UploadInv, Loaded, Writing, TypeOK
  <2>4. VersionInv' /\ WriterIsTracked'
    BY DEF VersionInv, WriterIsTracked, Writing, TypeOK
  <2>5. SharedBufferAlive'
    BY QuietBuffers DEF TypeOK
  <2> QED
    BY <2>1, <2>2, <2>3, <2>4, <2>5
<1> QED
  BY <1>0, <1>1, <1>2, <1>3 DEF Attach, ShareBuffer, StatOpen, TypeOK

\* The end of Close keeps the invariant: without readers the buffer goes.
LEMMA FinishStep ==
  ASSUME HandleInv, NEW h \in Handle, Finish(h)
  PROVE  HandleInv'
<1> USE WriteHandlesAssumption
    DEF WriteHandlesAssumption, HandleInv, Finish, untrackWrite, Destroyed, Goto, mode
<1>1. TypeOK'
  BY DEF TypeOK, PC
<1>2. PhaseInv'
  BY DEF PhaseInv, Loaded, Writing, TypeOK
<1>3. UploadInv' /\ VersionInv'
  BY DEF UploadInv, VersionInv, Loaded, Writing, TypeOK
<1>4. WriterIsTracked'
  BY DEF WriterIsTracked, Writing, TypeOK
<1>5. SharedBufferAlive'
  <2>1. \A w \in Handle : Attached(w)' = Attached(w)
    BY DEF Attached, TypeOK
  <2>2. shared[h] = 0 <=> Attached(h) = {}
    BY AttachedFinite DEF SharedBufferAlive
  <2>3. \A w \in Handle \ {h} : buf'[w] = buf[w] /\ pc'[w] = pc[w]
    BY DEF TypeOK
  <2>4. buf'[h] = IF shared[h] = 0 THEN 0 ELSE buf[h]
    BY DEF TypeOK
  <2> QED
    BY <2>1, <2>2, <2>3, <2>4 DEF SharedBufferAlive
<1> QED
  BY <1>1, <1>2, <1>3, <1>4, <1>5

\* Close of an attached read handle keeps the invariant: the last one of a
\* closed writer recycles the buffer.
LEMMA CloseSharedStep ==
  ASSUME HandleInv, NEW h \in Handle, CloseShared(h)
  PROVE  HandleInv'
<1> USE WriteHandlesAssumption
    DEF WriteHandlesAssumption, HandleInv, CloseShared, Destroyed, Goto, mode
<1>w. PICK w \in Handle : w = wf[h]
  BY DEF PhaseInv, TypeOK
<1>0. wf[h] = w /\ w # h /\ pc[h] = "shared" /\ pc[w] \in {"open", "closed"}
  BY <1>w DEF MuFree
<1>1. /\ Attached(w)' = Attached(w) \ {h} /\ h \in Attached(w)
      /\ \A x \in Handle \ {w} : Attached(x)' = Attached(x)
  BY <1>0 DEF Attached, TypeOK
<1>2. /\ Cardinality(Attached(w)') = Cardinality(Attached(w)) - 1
      /\ IsFiniteSet(Attached(w)')
  BY <1>1, AttachedFinite, FS_RemoveElement
<1>3. /\ shared[w] \in Nat \ {0} /\ shared'[w] = shared[w] - 1
      /\ \A x \in Handle \ {w} : shared'[x] = shared[x]
  BY <1>0, <1>1, AttachedFinite DEF SharedBufferAlive, TypeOK
<1>4. TypeOK'
  BY <1>0, <1>3 DEF TypeOK, PC
<1>5. /\ \A x \in Handle \ {w} : buf'[x] = buf[x]
      /\ buf'[w] = IF pc[w] = "closed" /\ shared'[w] = 0 THEN 0 ELSE buf[w]
  BY <1>0 DEF TypeOK
<1>6. PhaseInv'
  BY <1>0, <1>5 DEF PhaseInv, Loaded, Writing, TypeOK
<1>7. UploadInv' /\ VersionInv' /\ WriterIsTracked'
  BY <1>0, <1>5 DEF UploadInv, VersionInv, WriterIsTracked, Loaded, Writing, TypeOK
<1>8. SharedBufferAlive'
  <2>1. shared'[w] = 0 <=> Attached(w)' = {}
    BY <1>1, <1>2, <1>3, FS_EmptySet DEF SharedBufferAlive
  <2>2. \A x \in Handle : pc'[x] = "closed" <=> pc[x] = "closed"
    BY <1>0 DEF TypeOK
  <2> QED
    BY <1>0, <1>1, <1>2, <1>3, <1>5, <2>1, <2>2 DEF SharedBufferAlive
<1> QED
  BY <1>4, <1>6, <1>7, <1>8

\* Every step keeps the invariant.
LEMMA NextHandleInv == HandleInv /\ [Next]_vars => HandleInv'
<1> SUFFICES ASSUME HandleInv, [Next]_vars PROVE HandleInv'
  OBVIOUS
<1>1. CASE UNCHANGED vars
  <2>1. \A w \in Handle : Attached(w)' = Attached(w)
    BY <1>1 DEF Attached, vars
  <2> QED
    BY <1>1, <2>1 DEF HandleInv, TypeOK, PhaseInv, UploadInv, VersionInv, SharedBufferAlive,
                      WriterIsTracked, Loaded, Writing, vars
<1>2. ASSUME NEW h \in Handle,
             \/ \E f \in Flag : OpenFile(h, f)
             \/ Attach(h) \/ Resolve(h) \/ Track(h)
             \/ Write(h) \/ Flush(h, "sync") \/ Flush(h, "close")
             \/ Put(h) \/ PutFail(h) \/ Finish(h)
             \/ CloseShared(h)
      PROVE  HandleInv'
  BY <1>2, OpenFileStep, AttachStep, ResolveStep, TrackStep, WriterStep, FinishStep,
     CloseSharedStep
<1> QED
  BY <1>1, <1>2 DEF Next

------------------------------------------------------------------------------
(* The invariant of one writer at a time.                                  *)

\* A writer on its way, from OpenFile to the end of Close.
Active(h) ==
  Writable(flag[h]) /\ pc[h] \notin {"unused", "closed", "failed", "missing"}

\* One handle is active, and nobody took its entry; it has the newest
\* contents and, when clean, those of the object; an open will find what it
\* has to, in the buffer of the writer until that is closed and in the object
\* from then on.
OneWriterInv ==
  oneWriter =>
    /\ replaced = {}
    /\ \A h, w \in Handle : Active(h) /\ Active(w) => h = w
    /\ \A h \in Handle :
         /\ Loaded(h) => buf[h] >= obj /\ (dirty[h] \/ buf[h] = obj) /\ got[h] >= floor[h]
         /\ pc[h] = "resolve" => floor[h] <= obj
         /\ pc[h] = "attach" =>
              floor[h] <= IF pc[wf[h]] = "closed" THEN obj ELSE buf[wf[h]]

WriterInv == HandleInv /\ OneWriterInv /\ OpenSeesNewest

\* The initial state satisfies the invariant.
LEMMA InitWriterInv == Init => WriterInv
<1> SUFFICES ASSUME Init PROVE OneWriterInv /\ OpenSeesNewest
  BY InitHandleInv DEF WriterInv
<1> QED
  BY DEF Init, OneWriterInv, OpenSeesNewest, Active, Loaded, Writing

\* With one writer at a time the newest contents are in the tracked writer's
\* buffer and, without one, in the object.
LEMMA NewestIsTracked ==
  ASSUME WriterInv, oneWriter
  PROVE  Newest <= IF openWrites = Nil THEN obj ELSE buf[openWrites]
<1> USE WriteHandlesAssumption DEF WriteHandlesAssumption, WriterInv, HandleInv
<1>1. \A w \in Handle : Writing(w) => openWrites = w
  BY DEF OneWriterInv, WriterIsTracked
<1>2. openWrites # Nil => openWrites \in Handle /\ buf[openWrites] >= obj
  BY DEF PhaseInv, OneWriterInv, Loaded, TypeOK
<1>3. CASE Newest = obj
  BY <1>2, <1>3 DEF TypeOK
<1>4. ASSUME NEW w \in Handle, Writing(w), Newest = buf[w]
      PROVE  Newest <= IF openWrites = Nil THEN obj ELSE buf[openWrites]
  BY <1>1, <1>4 DEF TypeOK
<1> QED
  BY <1>3, <1>4, NewestIsSomewhere

\* OpenFile keeps the invariant.
LEMMA OpenFileOneWriter ==
  ASSUME WriterInv, oneWriter, NEW h \in Handle, NEW f \in Flag, OpenFile(h, f)
  PROVE  OneWriterInv' /\ OpenSeesNewest'
<1> USE WriteHandlesAssumption
    DEF WriteHandlesAssumption, WriterInv, HandleInv, OpenFile, Goto, mode
<1>1. Newest \in Nat
  BY NewestIsSomewhere
<1>2. floor'[h] <= IF openWrites = Nil THEN obj ELSE buf[openWrites]
  BY NewestIsTracked DEF TypeOK
<1>3. OpenSeesNewest'
  BY DEF OpenSeesNewest, TypeOK
<1>4. \A x, w \in Handle : Active(x)' /\ Active(w)' => x = w
  BY DEF OneWriterInv, Active, Writable, TypeOK
<1>5. openWrites # Nil => Writing(openWrites) /\ openWrites \in Handle /\ openWrites # h
  BY DEF PhaseInv, Writing, TypeOK
<1>6. \A x \in Handle :
        /\ Loaded(x)' => /\ buf'[x] >= obj' /\ (dirty'[x] \/ buf'[x] = obj')
                          /\ got'[x] >= floor'[x]
        /\ pc'[x] = "resolve" => floor'[x] <= obj'
  BY <1>2 DEF OneWriterInv, Loaded, Writing, TypeOK
<1>7. ASSUME NEW x \in Handle, pc'[x] = "attach"
      PROVE  floor'[x] <= IF pc'[wf'[x]] = "closed" THEN obj' ELSE buf'[wf'[x]]
  <2>1. CASE x = h
    BY <1>2, <1>5, <1>7, <2>1 DEF Writing, TypeOK
  <2>2. CASE x # h
    BY <1>7, <2>2 DEF OneWriterInv, PhaseInv, Writing, TypeOK
  <2> QED
    BY <2>1, <2>2
<1> QED
  BY <1>3, <1>4, <1>6, <1>7 DEF OneWriterInv

\* Attach keeps the invariant; it never copies from another writer.
LEMMA AttachOneWriter ==
  ASSUME WriterInv, oneWriter, NEW h \in Handle, Attach(h)
  PROVE  OneWriterInv' /\ OpenSeesNewest'
<1> USE WriteHandlesAssumption
    DEF WriteHandlesAssumption, WriterInv, HandleInv, Goto, Opened, mode
<1>w. PICK w \in Handle : w = wf[h]
  BY DEF Attach, PhaseInv, TypeOK
<1>0. /\ w # h /\ pc[h] = "attach" /\ pc[w] \in {"open", "closed"}
      /\ pc[w] = "open" => ~Writable(flag[h])
      /\ floor[h] <= IF pc[w] = "closed" THEN obj ELSE buf[w]
  BY <1>w DEF Attach, MuFree, OneWriterInv, PhaseInv, Active, Loaded, Writing, TypeOK
<1>1. /\ \/ pc[w] = "closed" /\ pc' = [pc EXCEPT ![h] = "resolve"] /\ got' = got
         \/ /\ pc[w] = "open" /\ ~Writable(flag[h])
            /\ \E s \in {"shared", "done"} : pc' = [pc EXCEPT ![h] = s]
            /\ got' = [got EXCEPT ![h] = buf[w]]
      /\ UNCHANGED <<obj, ver, flag, wf, buf, dirty, floor, mode>>
  BY <1>w, <1>0 DEF Attach, ShareBuffer, StatOpen
<1>2. OpenSeesNewest'
  BY <1>0, <1>1 DEF OpenSeesNewest, TypeOK
<1>3. \A x, y \in Handle : Active(x)' /\ Active(y)' => x = y
  BY <1>0, <1>1 DEF OneWriterInv, Active, TypeOK
<1>4. \A x \in Handle :
        /\ Loaded(x)' => /\ buf'[x] >= obj' /\ (dirty'[x] \/ buf'[x] = obj')
                          /\ got'[x] >= floor'[x]
        /\ pc'[x] = "resolve" => floor'[x] <= obj'
  BY <1>0, <1>1 DEF OneWriterInv, Loaded, Writing, TypeOK
<1>5. ASSUME NEW x \in Handle, pc'[x] = "attach"
      PROVE  floor'[x] <= IF pc'[wf'[x]] = "closed" THEN obj' ELSE buf'[wf'[x]]
  <2>1. pc[x] = "attach" /\ wf[x] \in Handle /\ wf[x] # h
    BY <1>0, <1>1, <1>5 DEF PhaseInv, Writing, TypeOK
  <2> QED
    BY <1>1, <2>1 DEF OneWriterInv, TypeOK
<1> QED
  BY <1>1, <1>2, <1>3, <1>4, <1>5 DEF OneWriterInv

\* Resolve keeps the invariant.
LEMMA ResolveOneWriter ==
  ASSUME WriterInv, oneWriter, NEW h \in Handle, Resolve(h)
  PROVE  OneWriterInv' /\ OpenSeesNewest'
<1> USE WriteHandlesAssumption
    DEF WriteHandlesAssumption, WriterInv, HandleInv, Resolve, Goto, Opened, StartEmpty, mode
<1>0. floor[h] <= obj /\ pc[h] = "resolve"
  BY DEF OneWriterInv
<1>f. /\ pc'[h] = "failed" \/ got'[h] >= floor[h]
      /\ pc'[h] = "track" => buf'[h] >= obj /\ (dirty'[h] \/ buf'[h] = obj)
      /\ pc'[h] \in {"done", "object", "missing", "failed", "track"}
  <2>1. obj \in Nat /\ ver \in Nat /\ floor[h] \in Nat /\ obj <= ver /\ floor[h] <= obj
    BY <1>0 DEF VersionInv, TypeOK
  <2>2. \/ pc'[h] \in {"done", "object", "missing"} /\ got'[h] = obj
        \/ pc'[h] = "failed"
        \/ pc'[h] = "track" /\ buf'[h] = obj /\ got'[h] = obj
        \/ pc'[h] = "track" /\ buf'[h] = ver + 1 /\ got'[h] = ver + 1 /\ dirty'[h]
    BY DEF TypeOK
  <2> HIDE DEF Resolve
  <2> QED
    BY <2>1, <2>2
<1>x. \A x \in Handle \ {h} :
        /\ pc'[x] = pc[x] /\ got'[x] = got[x] /\ buf'[x] = buf[x]
        /\ dirty'[x] = dirty[x]
  BY DEF TypeOK
<1>1. OpenSeesNewest'
  BY <1>f, <1>x DEF OpenSeesNewest
<1>2. \A x, y \in Handle : Active(x)' /\ Active(y)' => x = y
  BY <1>0 DEF OneWriterInv, Active, TypeOK
<1>3. \A x \in Handle :
        Loaded(x)' => /\ buf'[x] >= obj' /\ (dirty'[x] \/ buf'[x] = obj')
                      /\ got'[x] >= floor'[x]
  BY <1>f, <1>x DEF OneWriterInv, Loaded, Writing
<1>4. \A x \in Handle : pc'[x] = "resolve" => floor'[x] <= obj'
  BY <1>0 DEF OneWriterInv, TypeOK
<1>5. ASSUME NEW x \in Handle, pc'[x] = "attach"
      PROVE  floor'[x] <= IF pc'[wf'[x]] = "closed" THEN obj' ELSE buf'[wf'[x]]
  <2>1. x # h /\ pc[x] = "attach" /\ wf'[x] = wf[x] /\ wf[x] \in Handle /\ wf[x] # h
    BY <1>0, <1>5 DEF PhaseInv, Writing, TypeOK
  <2>2. pc'[wf[x]] = pc[wf[x]] /\ buf'[wf[x]] = buf[wf[x]]
    BY <2>1 DEF TypeOK
  <2> QED
    BY <2>1, <2>2 DEF OneWriterInv
<1> QED
  BY <1>1, <1>2, <1>3, <1>4, <1>5 DEF OneWriterInv

\* trackWrite keeps the invariant; it takes nobody's entry.
LEMMA TrackOneWriter ==
  ASSUME WriterInv, oneWriter, NEW h \in Handle, Track(h)
  PROVE  OneWriterInv' /\ OpenSeesNewest'
<1> USE WriteHandlesAssumption
    DEF WriteHandlesAssumption, WriterInv, HandleInv, Track, trackWrite, Goto
<1>0. openWrites = Nil /\ pc[h] = "track"
  BY DEF OneWriterInv, PhaseInv, Active, Loaded, Writing, TypeOK
<1>1. OpenSeesNewest'
  BY DEF OpenSeesNewest, TypeOK
<1>2. replaced' = {}
  BY <1>0 DEF OneWriterInv
<1>3. \A x, y \in Handle : Active(x)' /\ Active(y)' => x = y
  BY DEF OneWriterInv, Active, TypeOK
<1>4. \A x \in Handle :
        /\ Loaded(x)' => /\ buf'[x] >= obj' /\ (dirty'[x] \/ buf'[x] = obj')
                          /\ got'[x] >= floor'[x]
        /\ pc'[x] = "resolve" => floor'[x] <= obj'
  BY DEF OneWriterInv, Loaded, Writing, TypeOK
<1>5. ASSUME NEW x \in Handle, pc'[x] = "attach"
      PROVE  floor'[x] <= IF pc'[wf'[x]] = "closed" THEN obj' ELSE buf'[wf'[x]]
  <2>1. x # h /\ pc[x] = "attach" /\ wf'[x] = wf[x] /\ wf[x] \in Handle /\ wf[x] # h
    BY <1>0, <1>5 DEF PhaseInv, Writing, TypeOK
  <2>2. pc'[wf[x]] = pc[wf[x]]
    BY <2>1 DEF TypeOK
  <2> QED
    BY <2>1, <2>2 DEF OneWriterInv
<1> QED
  BY <1>1, <1>2, <1>3, <1>4, <1>5 DEF OneWriterInv

\* Write, and Sync and Close up to the end of the upload, keep the invariant:
\* the object only gets newer, and so do the contents of the writer.
LEMMA WriterOneWriter ==
  ASSUME WriterInv, oneWriter, NEW h \in Handle,
         Write(h) \/ Flush(h, "sync") \/ Flush(h, "close") \/ Put(h) \/ PutFail(h)
  PROVE  OneWriterInv' /\ OpenSeesNewest' /\ obj' >= obj
<1> USE WriteHandlesAssumption
    DEF WriteHandlesAssumption, WriterInv, HandleInv, Write, Flush, Put, PutFail, Goto, mode
<1>0. /\ Writing(h) /\ Writing(h)'
      /\ buf'[h] \in Nat /\ buf'[h] >= buf[h] /\ obj' >= obj /\ buf'[h] >= obj'
      /\ obj' = obj \/ obj' = buf[h]
  <2>1. Writing(h) /\ obj <= buf[h] /\ buf[h] <= ver
    BY DEF OneWriterInv, VersionInv, Loaded, Writing
  <2>2. Writing(h)' /\ (obj' = obj \/ obj' = buf[h])
    BY DEF Writing, TypeOK
  <2>3. /\ buf[h] \in Nat /\ obj \in Nat /\ ver \in Nat
        /\ \/ obj' = obj /\ buf'[h] = ver + 1
           \/ obj' \in {obj, buf[h]} /\ buf'[h] = buf[h]
    BY DEF TypeOK
  <2>4. buf'[h] \in Nat /\ buf'[h] >= buf[h] /\ obj' >= obj /\ buf'[h] >= obj'
    <3> HIDE DEF Write, Flush, Put, PutFail
    <3> QED
      BY <2>1, <2>3
  <2> QED
    BY <2>1, <2>2, <2>4
<1>1. /\ UNCHANGED <<flag, wf, floor, got, mode>>
      /\ \A x \in Handle \ {h} : pc'[x] = pc[x] /\ buf'[x] = buf[x] /\ dirty'[x] = dirty[x]
  BY DEF TypeOK
<1>2. dirty'[h] \/ buf'[h] = obj'
  BY DEF OneWriterInv, Loaded, Writing, TypeOK
<1>3. OpenSeesNewest'
  BY <1>0, <1>1 DEF OpenSeesNewest, OneWriterInv, Loaded, Writing
<1>4. \A x, y \in Handle : Active(x)' /\ Active(y)' => x = y
  BY <1>0, <1>1 DEF OneWriterInv, Active, Writing
<1>5. \A x \in Handle \ {h} : Loaded(x) => FALSE
  BY <1>0 DEF OneWriterInv, PhaseInv, Active, Loaded, Writing
<1>6. \A x \in Handle :
        Loaded(x)' => /\ buf'[x] >= obj' /\ (dirty'[x] \/ buf'[x] = obj')
                      /\ got'[x] >= floor'[x]
  BY <1>0, <1>1, <1>2, <1>5 DEF OneWriterInv, Loaded, Writing
<1>7. \A x \in Handle : pc'[x] = "resolve" => floor'[x] <= obj'
  BY <1>0, <1>1 DEF OneWriterInv, Writing, TypeOK
<1>8. ASSUME NEW x \in Handle, pc'[x] = "attach"
      PROVE  floor'[x] <= IF pc'[wf'[x]] = "closed" THEN obj' ELSE buf'[wf'[x]]
  <2>1. x # h /\ pc[x] = "attach" /\ wf[x] \in Handle
    BY <1>0, <1>1, <1>8 DEF PhaseInv, Writing, TypeOK
  <2>2. floor[x] <= IF pc[wf[x]] = "closed" THEN obj ELSE buf[wf[x]]
    BY <2>1 DEF OneWriterInv
  <2>3. /\ pc'[wf[x]] = "closed" <=> pc[wf[x]] = "closed"
        /\ buf'[wf[x]] \in Nat /\ buf'[wf[x]] >= buf[wf[x]]
    BY <1>0, <1>1, <2>1 DEF Writing, TypeOK
  <2> HIDE DEF Write, Flush, Put, PutFail
  <2> QED
    BY <1>0, <1>1, <2>1, <2>2, <2>3 DEF TypeOK
<1> QED
  BY <1>0, <1>1, <1>3, <1>4, <1>6, <1>7, <1>8 DEF OneWriterInv

\* The end of Close keeps the invariant: the buffer that goes away is the
\* object.
LEMMA FinishOneWriter ==
  ASSUME WriterInv, oneWriter, NEW h \in Handle, Finish(h)
  PROVE  OneWriterInv' /\ OpenSeesNewest'
<1> USE WriteHandlesAssumption
    DEF WriteHandlesAssumption, WriterInv, HandleInv, Finish, Destroyed, Goto, mode
<1>0. pc[h] = "finish" /\ buf[h] = obj
  BY DEF OneWriterInv, UploadInv, Loaded, Writing
<1>1. \A x \in Handle \ {h} : pc'[x] = pc[x] /\ buf'[x] = buf[x]
  BY DEF TypeOK
<1>2. OpenSeesNewest'
  BY DEF OpenSeesNewest, TypeOK
<1>3. \A x, y \in Handle : Active(x)' /\ Active(y)' => x = y
  BY <1>0 DEF OneWriterInv, Active, TypeOK
<1>4. \A x \in Handle :
        /\ Loaded(x)' => /\ buf'[x] >= obj' /\ (dirty'[x] \/ buf'[x] = obj')
                          /\ got'[x] >= floor'[x]
        /\ pc'[x] = "resolve" => floor'[x] <= obj'
  BY <1>1 DEF OneWriterInv, Loaded, Writing, TypeOK
<1>5. ASSUME NEW x \in Handle, pc'[x] = "attach"
      PROVE  floor'[x] <= IF pc'[wf'[x]] = "closed" THEN obj' ELSE buf'[wf'[x]]
  <2>1. x # h /\ pc[x] = "attach" /\ wf[x] \in Handle
    BY <1>0, <1>1, <1>5 DEF PhaseInv, Writing, TypeOK
  <2>2. CASE wf[x] = h
    BY <1>0, <2>1, <2>2 DEF OneWriterInv, TypeOK
  <2>3. CASE wf[x] # h
    BY <1>1, <2>1, <2>3 DEF OneWriterInv
  <2> QED
    BY <2>2, <2>3
<1> QED
  BY <1>2, <1>3, <1>4, <1>5 DEF OneWriterInv

\* Close of an attached read handle keeps the invariant.
LEMMA CloseSharedOneWriter ==
  ASSUME WriterInv, oneWriter, NEW h \in Handle, CloseShared(h)
  PROVE  OneWriterInv' /\ OpenSeesNewest'
<1> USE WriteHandlesAssumption
    DEF WriteHandlesAssumption, WriterInv, HandleInv, CloseShared, Destroyed, Goto, mode
<1>0. /\ pc[h] = "shared" /\ wf[h] \in Handle
      /\ \A x \in Handle : pc[x] # "closed" => buf'[x] = buf[x]
  BY DEF PhaseInv, TypeOK
<1>1. \A x \in Handle \ {h} : pc'[x] = pc[x] /\ wf'[x] = wf[x]
  BY DEF TypeOK
<1>2. OpenSeesNewest'
  BY <1>0, <1>1 DEF OpenSeesNewest, TypeOK
<1>3. \A x, y \in Handle : Active(x)' /\ Active(y)' => x = y
  BY <1>0, <1>1 DEF OneWriterInv, Active, TypeOK
<1>4. \A x \in Handle :
        /\ Loaded(x)' => /\ buf'[x] >= obj' /\ (dirty'[x] \/ buf'[x] = obj')
                          /\ got'[x] >= floor'[x]
        /\ pc'[x] = "resolve" => floor'[x] <= obj'
  BY <1>0, <1>1 DEF OneWriterInv, Loaded, Writing, TypeOK
<1>5. ASSUME NEW x \in Handle, pc'[x] = "attach"
      PROVE  floor'[x] <= IF pc'[wf'[x]] = "closed" THEN obj' ELSE buf'[wf'[x]]
  <2>1. x # h /\ pc[x] = "attach" /\ wf[x] \in Handle /\ wf[x] # h
    BY <1>0, <1>1, <1>5 DEF PhaseInv, Writing, TypeOK
  <2> QED
    BY <1>0, <1>1, <2>1 DEF OneWriterInv
<1> QED
  BY <1>2, <1>3, <1>4, <1>5 DEF OneWriterInv

\* Every step keeps the invariant, and with one writer at a time none takes
\* the object back.
LEMMA NextWriterInv ==
  ASSUME WriterInv, [Next]_vars
  PROVE  WriterInv' /\ (oneWriter => obj' >= obj)
<1>1. HandleInv'
  BY NextHandleInv DEF WriterInv
<1>2. oneWriter' = oneWriter
  BY DEF Next, vars, mode, OpenFile, Attach, Resolve, Track, Write, Flush, Put, PutFail,
         Finish, CloseShared
<1>3. CASE ~oneWriter
  BY <1>1, <1>2, <1>3 DEF WriterInv, OneWriterInv, OpenSeesNewest
<1>4. ASSUME oneWriter, UNCHANGED vars
      PROVE  OneWriterInv' /\ OpenSeesNewest' /\ obj' >= obj
  BY <1>4 DEF WriterInv, HandleInv, TypeOK, OneWriterInv, OpenSeesNewest, Active, Loaded,
              Writing, vars
<1>5. ASSUME oneWriter, NEW h \in Handle,
             \/ \E f \in Flag : OpenFile(h, f)
             \/ Attach(h) \/ Resolve(h) \/ Track(h)
             \/ Finish(h) \/ CloseShared(h)
      PROVE  OneWriterInv' /\ OpenSeesNewest' /\ obj' >= obj
  <2>1. OneWriterInv' /\ OpenSeesNewest'
    BY <1>5, OpenFileOneWriter, AttachOneWriter, ResolveOneWriter, TrackOneWriter,
       FinishOneWriter, CloseSharedOneWriter
  <2>2. UNCHANGED obj
    BY <1>5 DEF OpenFile, Attach, Resolve, Track, Finish, CloseShared
  <2> QED
    BY <2>1, <2>2 DEF WriterInv, HandleInv, TypeOK
<1>6. ASSUME oneWriter, NEW h \in Handle,
             Write(h) \/ Flush(h, "sync") \/ Flush(h, "close") \/ Put(h) \/ PutFail(h)
      PROVE  OneWriterInv' /\ OpenSeesNewest' /\ obj' >= obj
  BY <1>6, WriterOneWriter
<1> QED
  BY <1>1, <1>3, <1>4, <1>5, <1>6 DEF Next, WriterInv

------------------------------------------------------------------------------
(* The theorems.                                                           *)

\* The inductive invariant holds.
LEMMA WriterInvHolds == Spec => []WriterInv
<1>1. Init => WriterInv
  BY InitWriterInv
<1>2. WriterInv /\ [Next]_vars => WriterInv'
  BY NextWriterInv
<1> QED
  BY <1>1, <1>2, PTL DEF Spec

\* The state of the handles is well typed.
THEOREM HandlesTypeCorrect == Spec => []TypeOK
<1>1. WriterInv => TypeOK
  BY DEF WriterInv, HandleInv
<1> QED
  BY <1>1, WriterInvHolds, PTL

\* The count of attached readers is exact and a buffer lives as long as it is
\* read (newSharedReadFile, sharedReadFile.Close, maybeDestroyLocked).
THEOREM BuffersAreAlive == Spec => []SharedBufferAlive
<1>1. WriterInv => SharedBufferAlive
  BY DEF WriterInv, HandleInv
<1> QED
  BY <1>1, WriterInvHolds, PTL

\* A Close that returned nil has uploaded what was written, whatever failed
\* before (flush, Close).
THEOREM ClosesAreUploaded == Spec => []ClosedIsUploaded
<1>1. WriterInv => ClosedIsUploaded
  BY DEF WriterInv, HandleInv, UploadInv, ClosedIsUploaded
<1> QED
  BY <1>1, WriterInvHolds, PTL

\* A writer is found in openWrites until it closes or another takes its entry
\* (trackWrite, untrackWrite).
THEOREM WritersAreTracked == Spec => []WriterIsTracked
<1>1. WriterInv => WriterIsTracked
  BY DEF WriterInv, HandleInv
<1> QED
  BY <1>1, WriterInvHolds, PTL

\* With one writer at a time an open or a Stat finds the newest contents,
\* also one that races with the writer's Close (OpenFile, statIfOpen).
THEOREM OpensAreFresh == Spec => []OpenSeesNewest
<1>1. WriterInv => OpenSeesNewest
  BY DEF WriterInv
<1> QED
  BY <1>1, WriterInvHolds, PTL

\* With one writer at a time no upload takes the object back.
THEOREM UpdatesAreKept == Spec => NoLostUpdate
<1>1. WriterInv /\ [Next]_vars => [oneWriter => obj' >= obj]_vars
  BY NextWriterInv
<1> QED
  BY <1>1, WriterInvHolds, PTL DEF Spec, NoLostUpdate

==============================================================================
