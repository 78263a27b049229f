--------------------------- MODULE MemCacheProofs ---------------------------
(***************************************************************************)
(* Proofs about MemCache, for any files, directories, goroutines and       *)
(* number of uploads.                                                      *)
(***************************************************************************)
EXTENDS MemCache, TLAPS

------------------------------------------------------------------------------
(* Types, however operations overlap.                                      *)

\* An operation under way knows its keys.
KeyInv ==
  \A t \in Thread :
    /\ pc[t] # "idle" => key[t] \in Key
    /\ pc[t] = "copyStore" => src[t] \in Key

\* What lruIndex.put is given is an entry.
LEMMA FreshType ==
  ASSUME TypeOK, NEW e \in BOOLEAN, NEW h \in Nat, NEW d \in Nat
  PROVE  Fresh(e, h, d) \in Entry /\ Fresh(e, h, d) # None
BY MemCacheAssumption DEF TypeOK, Fresh, Entry, MemCacheAssumption

\* The ancestors of a key are directories.
LEMMA AboveType ==
  ASSUME NEW k \in Key
  PROVE  Above[k] \subseteq Dir /\ Above[k] \subseteq Key /\ (k \in Above[k] <=> k \in Dir)
BY MemCacheAssumption DEF Key, MemCacheAssumption

\* markDirsLocked leaves entries.
LEMMA MarkDirsType ==
  ASSUME TypeOK, NEW c \in [Key -> Entry \cup {None}], NEW k \in Key
  PROVE  markDirs(c, k) \in [Key -> Entry \cup {None}]
<1>1. Fresh(TRUE, 0, 0) \in Entry
  BY FreshType
<1> QED
  BY <1>1 DEF markDirs

\* The initial state has the type.
LEMMA InitType == Init => TypeOK /\ KeyInv
BY DEF Init, TypeOK, KeyInv

\* Reads keep the type.
LEMMA ReadType ==
  ASSUME TypeOK, KeyInv, NEW t \in Thread,
         \/ \E k \in File : Miss(t, k) \/ Hit(t, k)
         \/ \E d \in Dir : List(t, d)
         \/ Body(t)
  PROVE  TypeOK' /\ KeyInv'
<1>1. s3' = s3 /\ mem' = mem /\ ver' = ver /\ now' = now /\ since' = since
  BY DEF Miss, Hit, List, Body, time
<1>2. CASE \E k \in File : Miss(t, k)
  BY <1>1, <1>2 DEF Miss, Request, TypeOK, KeyInv, Key, Reads
<1>3. CASE \E k \in File : Hit(t, k)
  <2>1. PICK k \in File : Hit(t, k)
    BY <1>3
  <2>2. mem[k] \in Entry /\ k \in Key
    BY <2>1 DEF Hit, TypeOK, Key
  <2>3. mem[k].head \in Nat
    BY <2>2 DEF Entry
  <2> QED
    BY <1>1, <2>1, <2>2, <2>3 DEF Hit, TypeOK, KeyInv, Reads
<1>4. CASE \E d \in Dir : List(t, d)
  <2>1. PICK d \in Dir : List(t, d)
    BY <1>4
  <2>2. (IF Listed(d) THEN 1 ELSE 0) \in Nat
    OBVIOUS
  <2> QED
    BY <1>1, <2>1, <2>2 DEF List, Request, TypeOK, KeyInv, Key, Reads
<1>5. CASE Body(t)
  <2>0. pc[t] # "idle"
    BY <1>5 DEF Body
  <2>1. key[t] \in Key /\ s3[key[t]] \in Nat
    BY <2>0 DEF TypeOK, KeyInv
  <2>2. \/ Done(t)
        \/ Request(t, key[t], s3[key[t]], "pairFill") /\ UNCHANGED <<src, hd>>
    BY <1>5 DEF Body
  <2>3. CASE Done(t)
    BY <1>1, <2>3 DEF Done, TypeOK, KeyInv
  <2>4. CASE Request(t, key[t], s3[key[t]], "pairFill") /\ UNCHANGED <<src, hd>>
    BY <1>1, <2>1, <2>4 DEF Request, TypeOK, KeyInv, Reads
  <2> QED
    BY <2>2, <2>3, <2>4
<1> QED
  BY <1>2, <1>3, <1>4, <1>5

\* Fills keep the type.
LEMMA FillType ==
  ASSUME TypeOK, KeyInv, NEW t \in Thread,
         HeadFill(t) \/ GetFill(t) \/ BodyFill(t) \/ PairFill(t) \/ ListFill(t)
  PROVE  TypeOK' /\ KeyInv'
<1>1. /\ val[t] \in Nat /\ hd[t] \in Nat /\ (val[t] # 0) \in BOOLEAN /\ Kept(val[t]) \in Nat
      /\ 0 \in Nat /\ TRUE \in BOOLEAN
  BY DEF TypeOK, Kept
<1>0. /\ Fresh(val[t] # 0, val[t], 0) \in Entry /\ Fresh(TRUE, val[t], val[t]) \in Entry
      /\ Fresh(TRUE, hd[t], Kept(val[t])) \in Entry /\ Fresh(val[t] # 0, 0, 0) \in Entry
  BY <1>1, FreshType, Zenon
<1>2. mem' \in [Key -> Entry \cup {None}]
  BY <1>0 DEF HeadFill, GetFill, BodyFill, PairFill, ListFill, Store, TypeOK
<1>3. s3' = s3 /\ ver' = ver /\ now' = now /\ since' = since
  BY DEF HeadFill, GetFill, BodyFill, PairFill, ListFill, time
<1>4. \/ Done(t)
      \/ (pc[t] # "idle" /\ pc' = [pc EXCEPT ![t] = "bodyFill"] /\ UNCHANGED <<key, src, val, hd>>)
  BY DEF HeadFill, GetFill, BodyFill, PairFill, ListFill
<1>5. CASE Done(t)
  BY <1>2, <1>3, <1>5 DEF Done, TypeOK, KeyInv
<1>6. CASE pc[t] # "idle" /\ pc' = [pc EXCEPT ![t] = "bodyFill"] /\ UNCHANGED <<key, src, val, hd>>
  BY <1>2, <1>3, <1>6 DEF TypeOK, KeyInv, Reads
<1> QED
  BY <1>4, <1>5, <1>6

\* Mutations keep the type.
LEMMA WriteType ==
  ASSUME TypeOK, KeyInv, NEW t \in Thread,
         \/ \E k \in Signed : PresignPut(t, k)
         \/ \E k \in Key : Put(t, k) \/ Delete(t, k)
         \/ \E a, b \in Key : Copy(t, a, b)
  PROVE  TypeOK' /\ KeyInv'
<1>1. CASE \E k \in Signed : PresignPut(t, k)
  <2>1. PICK k \in Signed : PresignPut(t, k)
    BY <1>1
  <2>2. k \in Key /\ mem' \in [Key -> Entry \cup {None}] /\ Request(t, k, 0, "upload")
        /\ UNCHANGED <<s3, ver, src, hd, now, since>>
    BY <2>1, MemCacheAssumption
       DEF PresignPut, dropDeleted, TypeOK, Key, time, MemCacheAssumption
  <2> QED
    BY <2>2 DEF Request, TypeOK, KeyInv, Writes
<1>2. CASE \E k \in Key : Put(t, k)
  BY <1>2 DEF Put, Mutated, Request, TypeOK, KeyInv, Writes, time
<1>3. CASE \E k \in Key : Delete(t, k)
  BY <1>3 DEF Delete, Mutated, Request, TypeOK, KeyInv, Writes, time
<1>4. CASE \E a, b \in Key : Copy(t, a, b)
  <2>1. PICK a \in Key, b \in Key : Copy(t, a, b)
    BY <1>4
  <2>2. s3[a] \in Nat /\ s3' \in [Key -> Nat] /\ UNCHANGED <<mem, ver, hd, now, since>>
    BY <2>1 DEF Copy, TypeOK, time
  <2>3. CASE Request(t, b, s3[a], "copyStore")
    BY <2>1, <2>2, <2>3 DEF Copy, Request, TypeOK, KeyInv, Writes
  <2>4. CASE UNCHANGED <<key, val, pc>>
    BY <2>1, <2>2, <2>4 DEF Copy, MayWrite, TypeOK, KeyInv
  <2> QED
    BY <2>1, <2>3, <2>4 DEF Copy, Mutated
<1> QED
  BY <1>1, <1>2, <1>3, <1>4

\* The update of the cache after a mutation keeps the type.
LEMMA StoreType ==
  ASSUME TypeOK, KeyInv, NEW t \in Thread,
         PutStore(t) \/ DelDrop(t) \/ CopyStore(t) \/ Upload(t)
  PROVE  TypeOK' /\ KeyInv'
<1>1. /\ val[t] \in Nat /\ Kept(val[t]) \in Nat /\ 0 \in Nat /\ TRUE \in BOOLEAN
      /\ key[t] \in Key /\ (pc[t] = "copyStore" => src[t] \in Key)
  <2>1. pc[t] # "idle"
    BY DEF PutStore, DelDrop, CopyStore, Upload
  <2> QED
    BY <2>1 DEF TypeOK, Kept, KeyInv
<1>2. mem' \in [Key -> Entry \cup {None}]
  <2>1. CASE PutStore(t)
    <3>1. PICK d \in {0, Kept(val[t])} :
            mem' = markDirs([mem EXCEPT ![key[t]] = Fresh(TRUE, val[t], d)], key[t])
      BY <2>1 DEF PutStore
    <3>2. Fresh(TRUE, val[t], d) \in Entry
      BY <1>1, <3>1, FreshType
    <3>3. [mem EXCEPT ![key[t]] = Fresh(TRUE, val[t], d)] \in [Key -> Entry \cup {None}]
      BY <3>2 DEF TypeOK
    <3> QED
      BY <1>1, <3>1, <3>3, MarkDirsType
  <2>2. CASE CopyStore(t)
    <3> DEFINE e == IF mem[src[t]] # None /\ mem[src[t]].exists /\ mem[src[t]].head # 0
                    THEN [mem[src[t]] EXCEPT !.exp = now + TTL] ELSE None
    <3>1. e \in Entry \cup {None}
      BY <1>1, <2>2, MemCacheAssumption DEF CopyStore, TypeOK, Entry, MemCacheAssumption
    <3>2. [mem EXCEPT ![key[t]] = e] \in [Key -> Entry \cup {None}]
      BY <3>1 DEF TypeOK
    <3> HIDE DEF e
    <3>3. mem' = markDirs([mem EXCEPT ![key[t]] = e], key[t])
      BY <2>2 DEF CopyStore, e
    <3> QED
      BY <1>1, <3>2, <3>3, MarkDirsType
  <2>3. CASE DelDrop(t) \/ Upload(t)
    BY <2>3 DEF DelDrop, dropDeleted, Upload, TypeOK
  <2> QED
    BY <2>1, <2>2, <2>3
<1>3. now' = now /\ since' = since /\ Done(t) /\ s3' \in [Key -> Nat] /\ ver' \in Nat
  BY DEF PutStore, DelDrop, CopyStore, Upload, TypeOK, time
<1> QED
  BY <1>2, <1>3 DEF Done, TypeOK, KeyInv

\* Every step keeps the type.
LEMMA NextType == TypeOK /\ KeyInv /\ [Next]_vars => TypeOK' /\ KeyInv'
<1> SUFFICES ASSUME TypeOK, KeyInv, [Next]_vars PROVE TypeOK' /\ KeyInv'
  OBVIOUS
<1>1. CASE UNCHANGED vars
  BY <1>1 DEF vars, time, TypeOK, KeyInv
<1>2. CASE \E k \in Key : Evict(k)
  BY <1>2 DEF Evict, Store, TypeOK, KeyInv, time
<1>3. CASE \E t \in Thread :
             \/ \E k \in File : Miss(t, k) \/ Hit(t, k)
             \/ \E d \in Dir : List(t, d)
             \/ Body(t)
  BY <1>3, ReadType
<1>4. CASE \E t \in Thread :
             HeadFill(t) \/ GetFill(t) \/ BodyFill(t) \/ PairFill(t) \/ ListFill(t)
  BY <1>4, FillType
<1>5. CASE \E t \in Thread :
             \/ \E k \in Signed : PresignPut(t, k)
             \/ \E k \in Key : Put(t, k) \/ Delete(t, k)
             \/ \E a, b \in Key : Copy(t, a, b)
  BY <1>5, WriteType
<1>6. CASE \E t \in Thread : PutStore(t) \/ DelDrop(t) \/ CopyStore(t) \/ Upload(t)
  BY <1>6, StoreType
<1> QED
  BY <1>1, <1>2, <1>3, <1>4, <1>5, <1>6 DEF Next

\* The cache and the locals of the operations keep their types.
THEOREM MemTypeCorrect == Spec => []TypeOK
<1>1. Spec => [](TypeOK /\ KeyInv)
  BY InitType, NextType, PTL DEF Spec
<1> QED
  BY <1>1, PTL

------------------------------------------------------------------------------
(* The inductive invariant where a mutation overlaps no other operation.   *)

\* The keys whose entries a mutation of k has to bring up to date.
Touched(k) == {k} \cup Above[k]

\* Head and body of the entry of k are of the object the bucket has.
PairTrue(k) ==
  mem[k] # None =>
    /\ mem[k].head # 0 => mem[k].head = s3[k]
    /\ mem[k].data # 0 => mem[k].data = s3[k]

\* A read is about to store what the bucket has.
ReaderTrue(t) ==
  /\ pc[t] \in {"headFill", "getFill", "bodyFill"} => key[t] \in File /\ val[t] = s3[key[t]]
  /\ pc[t] = "bodyFill" => val[t] # 0
  /\ pc[t] \in {"body", "pairFill"} => key[t] \in File /\ hd[t] # 0 /\ hd[t] = s3[key[t]]
  /\ pc[t] = "pairFill" => val[t] = s3[key[t]]
  /\ pc[t] = "listFill" => key[t] \in Dir /\ (val[t] # 0 <=> Listed(key[t]))

\* A mutation overlaps nothing, has left only its own entries untrue, and knows
\* what the bucket has.
WriterTrue(t) ==
  pc[t] \in Writes =>
    /\ \A u \in Thread \ {t} : pc[u] = "idle"
    /\ key[t] \in Key
    /\ \A k \in Key \ Touched(key[t]) : Agrees(k)
    /\ pc[t] \in {"putStore", "copyStore"} =>
         /\ val[t] # 0 /\ val[t] = s3[key[t]]
         /\ \A k \in Key \ {key[t]} : PairTrue(k)
    /\ pc[t] = "copyStore" =>
         src[t] \in Key \ {key[t]} /\ s3[src[t]] = s3[key[t]]
    /\ pc[t] = "upload" => \A k \in Touched(key[t]) : mem[k] = None

MemInv ==
  /\ TypeOK /\ KeyInv
  /\ \A t \in Thread : ReaderTrue(t) /\ WriterTrue(t)
  /\ CacheIsCoherent

\* The initial state satisfies the invariant.
LEMMA InitMemInv == Init => MemInv
BY InitType DEF Init, MemInv, ReaderTrue, WriterTrue, CacheIsCoherent, Agrees, Writes

\* While a read is under way no mutation is, and every entry is true.
LEMMA NoWriter ==
  ASSUME MemInv, NEW t \in Thread, pc[t] \in Reads
  PROVE  /\ \A u \in Thread : pc[u] \notin Writes
         /\ \A k \in Key : Agrees(k)
<1>1. \A u \in Thread : pc[u] \notin Writes
  BY DEF MemInv, WriterTrue, Writes, Reads
<1> QED
  BY <1>1 DEF MemInv, CacheIsCoherent

\* What a directory holds is changed by a change of its marker or of a key
\* below it only.
LEMMA ListedFrame ==
  ASSUME TypeOK, NEW k \in Key, NEW v, s3' = [s3 EXCEPT ![k] = v],
         NEW d \in Dir, d \notin Above[k]
  PROVE  Listed(d)' <=> Listed(d)
<1>1. \A j \in Key : j # k => s3'[j] = s3[j]
  BY DEF TypeOK
<1> QED
  BY <1>1 DEF Listed

\* Whether there is an object, or a directory, k.
Present(k) == IF k \in Dir THEN Listed(k) ELSE s3[k] # 0

\* What it is for an entry to be true, with equivalence for equality.
AgreesMeans ==
  \A k \in Key :
    Agrees(k) <=> (mem[k] # None => (mem[k].exists <=> Present(k)) /\ PairTrue(k))

\* Agrees means that.
LEMMA AgreesDef == TypeOK => AgreesMeans
<1> SUFFICES ASSUME TypeOK, NEW k \in Key
             PROVE  Agrees(k) <=> (mem[k] # None => (mem[k].exists <=> Present(k)) /\ PairTrue(k))
  BY DEF AgreesMeans
<1>1. CASE mem[k] = None
  BY <1>1 DEF Agrees
<1>2. CASE mem[k] # None
  <2>1. mem[k].exists \in BOOLEAN
    BY <1>2 DEF TypeOK, Entry
  <2>2. Present(k) \in BOOLEAN
    BY DEF Present, Listed
  <2>3. Present(k) = (IF k \in Dir THEN Listed(k) ELSE s3[k] # 0)
    BY DEF Present
  <2>4. (mem[k].exists = Present(k)) <=> (mem[k].exists <=> Present(k))
    BY <2>1, <2>2
  <2>5. Agrees(k) <=> (mem[k].exists = Present(k)) /\ PairTrue(k)
    BY <1>2, <2>3 DEF Agrees, PairTrue
  <2> QED
    BY <1>2, <2>4, <2>5
<1> QED
  BY <1>1, <1>2

\* The same after a step.
LEMMA AgreesDefNext ==
  ASSUME TypeOK', NEW j \in Key
  PROVE  Agrees(j)' <=> (mem'[j] # None => (mem'[j].exists <=> Present(j)') /\ PairTrue(j)')
<1>1. AgreesMeans'
  BY AgreesDef, PTL
<1> QED
  BY <1>1 DEF AgreesMeans

\* An entry that a mutation does not touch stays true.
LEMMA AgreesFrame ==
  ASSUME TypeOK, TypeOK', NEW k \in Key, NEW v, s3' = [s3 EXCEPT ![k] = v],
         NEW j \in Key \ Touched(k), mem'[j] = mem[j], Agrees(j)
  PROVE  Agrees(j)'
<1>1. s3'[j] = s3[j]
  BY DEF TypeOK, Touched
<1>2. j \in Dir => (Listed(j)' <=> Listed(j))
  BY ListedFrame DEF Touched
<1>3. Present(j)' <=> Present(j)
  BY <1>1, <1>2 DEF Present
<1>4. PairTrue(j)' <=> PairTrue(j)
  BY <1>1 DEF PairTrue
<1> QED
  BY <1>3, <1>4, AgreesDef, AgreesDefNext DEF AgreesMeans

\* A step of a read keeps the invariant if what it stores is true.
LEMMA ReadStep ==
  ASSUME MemInv, TypeOK', KeyInv', NEW t \in Thread,
         \A u \in Thread : pc[u] \notin Writes, pc'[t] \notin Writes,
         \A u \in Thread \ {t} : /\ pc'[u] = pc[u] /\ key'[u] = key[u]
                                 /\ val'[u] = val[u] /\ hd'[u] = hd[u],
         s3' = s3, \A k \in Key : Agrees(k)', ReaderTrue(t)'
  PROVE  MemInv'
<1>1. \A u \in Thread \ {t} : ReaderTrue(u)'
  BY DEF MemInv, ReaderTrue, Listed
<1>2. \A u \in Thread : WriterTrue(u)'
  BY DEF WriterTrue
<1> QED
  BY <1>1, <1>2 DEF MemInv, CacheIsCoherent

\* A mutation ends with every entry true.
LEMMA WriteEnd ==
  ASSUME MemInv, TypeOK', KeyInv', NEW t \in Thread, pc[t] \in Writes, Done(t),
         \A k \in Key : Agrees(k)'
  PROVE  MemInv'
<1>1. \A u \in Thread : pc'[u] = "idle"
  BY DEF MemInv, WriterTrue, Done, TypeOK
<1> QED
  BY <1>1 DEF MemInv, ReaderTrue, WriterTrue, CacheIsCoherent, Writes

\* A mutation of k starts alone and leaves the entries it does not touch true.
LEMMA WriteStart ==
  ASSUME MemInv, TypeOK', KeyInv', NEW t \in Thread, Exclusive, MayWrite(t),
         NEW k \in Key, NEW v, s3' = [s3 EXCEPT ![k] = v],
         NEW w, NEW s \in Writes, Request(t, k, w, s),
         \A j \in Key \ Touched(k) : mem'[j] = mem[j]
  PROVE  /\ \A u \in Thread : ReaderTrue(u)'
         /\ \A u \in Thread \ {t} : pc'[u] = "idle" /\ WriterTrue(u)'
         /\ CacheIsCoherent'
         /\ pc'[t] = s /\ key'[t] = k /\ val'[t] = w
         /\ \A j \in Key \ Touched(k) : Agrees(j)'
         /\ \A j \in Key : Agrees(j)
<1>1. \A u \in Thread : pc[u] = "idle"
  BY DEF MayWrite
<1>2. \A j \in Key : Agrees(j)
  BY <1>1 DEF MemInv, CacheIsCoherent, Writes
<1>3. pc'[t] = s /\ key'[t] = k /\ val'[t] = w /\ \A u \in Thread \ {t} : pc'[u] = "idle"
  BY <1>1 DEF Request, MemInv, TypeOK
<1>4. \A u \in Thread : ReaderTrue(u)'
  BY <1>3 DEF ReaderTrue, Writes
<1>5. \A u \in Thread \ {t} : WriterTrue(u)'
  BY <1>3 DEF WriterTrue, Writes
<1>6. \A j \in Key \ Touched(k) : Agrees(j)'
  BY <1>2, AgreesFrame DEF MemInv
<1> QED
  BY <1>2, <1>3, <1>4, <1>5, <1>6 DEF CacheIsCoherent

\* Requests of reads keep the invariant: the answer is what the bucket has, and
\* nothing changes the bucket before it is stored.
LEMMA ReadStepInv ==
  ASSUME MemInv, NEW t \in Thread, Exclusive,
         \/ \E k \in File : Miss(t, k) \/ Hit(t, k)
         \/ \E d \in Dir : List(t, d)
         \/ Body(t)
  PROVE  MemInv'
<1>0. TypeOK' /\ KeyInv'
  BY ReadType DEF MemInv
<1>1. s3' = s3 /\ mem' = mem
  BY DEF Miss, Hit, List, Body
<1>2. \A u \in Thread : pc[u] \notin Writes
  BY NoWriter DEF Miss, Hit, List, Body, MayRead, Reads
<1>3. \A k \in Key : Agrees(k)
  BY <1>2 DEF MemInv, CacheIsCoherent
<1>4. \A k \in Key : Agrees(k)'
  BY <1>1, <1>3 DEF Agrees, Listed
<1>5. \A u \in Thread \ {t} : /\ pc'[u] = pc[u] /\ key'[u] = key[u]
                              /\ val'[u] = val[u] /\ hd'[u] = hd[u]
  BY DEF Miss, Hit, List, Body, Request, Done, MemInv, TypeOK
<1>6. pc'[t] \notin Writes /\ ReaderTrue(t)'
  <2>1. CASE \E k \in File : Miss(t, k)
    BY <1>1, <2>1 DEF Miss, Request, ReaderTrue, Writes, MemInv, TypeOK
  <2>2. CASE \E k \in File : Hit(t, k)
    <3>1. PICK k \in File : Hit(t, k)
      BY <2>2
    <3>2. k \in Key /\ mem[k].head # 0 /\ mem[k].head = s3[k]
      BY <1>3, <3>1 DEF Hit, Agrees, Key
    <3>3. pc'[t] = "body" /\ key'[t] = k /\ hd'[t] = mem[k].head
      BY <3>1 DEF Hit, MemInv, TypeOK
    <3> QED
      BY <1>1, <3>2, <3>3 DEF ReaderTrue, Writes
  <2>3. CASE \E d \in Dir : List(t, d)
    <3>1. PICK d \in Dir : List(t, d)
      BY <2>3
    <3>2. pc'[t] = "listFill" /\ key'[t] = d /\ val'[t] = IF Listed(d) THEN 1 ELSE 0
      BY <3>1 DEF List, Request, MemInv, TypeOK
    <3>3. Listed(d)' <=> Listed(d)
      BY <1>1 DEF Listed
    <3> QED
      BY <3>2, <3>3 DEF ReaderTrue, Writes
  <2>4. CASE Body(t)
    <3>1. pc[t] = "body" /\ key[t] \in File /\ hd[t] # 0 /\ hd[t] = s3[key[t]]
      BY <2>4 DEF Body, MemInv, ReaderTrue
    <3>2. \/ pc'[t] = "idle"
          \/ pc'[t] = "pairFill" /\ key'[t] = key[t] /\ val'[t] = s3[key[t]] /\ hd'[t] = hd[t]
      BY <2>4 DEF Body, Done, Request, MemInv, TypeOK
    <3> QED
      BY <1>1, <3>1, <3>2 DEF ReaderTrue, Writes
  <2> QED
    BY <2>1, <2>2, <2>3, <2>4
<1> QED
  BY <1>0, <1>1, <1>2, <1>4, <1>5, <1>6, ReadStep

\* Fills keep the invariant.
LEMMA FillStepInv ==
  ASSUME MemInv, NEW t \in Thread,
         HeadFill(t) \/ GetFill(t) \/ BodyFill(t) \/ PairFill(t) \/ ListFill(t)
  PROVE  MemInv'
<1>0. TypeOK' /\ KeyInv' /\ TypeOK
  BY FillType DEF MemInv
<1>1. s3' = s3 /\ pc[t] \in Reads
  BY DEF HeadFill, GetFill, BodyFill, PairFill, ListFill, Reads
<1>2. (\A u \in Thread : pc[u] \notin Writes) /\ \A k \in Key : Agrees(k)
  BY <1>1, NoWriter
<1>3. /\ key[t] \in Key /\ val[t] \in Nat /\ hd[t] \in Nat /\ ReaderTrue(t)
      /\ Kept(val[t]) \in {0, val[t]}
  BY <1>1 DEF MemInv, TypeOK, KeyInv, Reads, Kept
<1>4. \E e \in BOOLEAN, h \in {0, s3[key[t]]}, d \in {0, s3[key[t]]} :
        /\ e <=> Present(key[t])
        /\ mem' = [mem EXCEPT ![key[t]] = Fresh(e, h, d)]
  <2>1. CASE HeadFill(t) \/ GetFill(t)
    BY <1>3, <2>1, MemCacheAssumption
       DEF HeadFill, GetFill, Store, ReaderTrue, Present, MemCacheAssumption
  <2>2. CASE BodyFill(t)
    BY <1>3, <2>2, MemCacheAssumption
       DEF BodyFill, Store, ReaderTrue, Present, MemCacheAssumption
  <2>3. CASE PairFill(t)
    BY <1>3, <2>3, MemCacheAssumption
       DEF PairFill, Store, ReaderTrue, Present, MemCacheAssumption
  <2>4. CASE ListFill(t)
    BY <1>3, <2>4, MemCacheAssumption
       DEF ListFill, Store, ReaderTrue, Present, MemCacheAssumption
  <2> QED
    BY <2>1, <2>2, <2>3, <2>4
<1>5. PICK e \in BOOLEAN, h \in {0, s3[key[t]]}, d \in {0, s3[key[t]]} :
        /\ e <=> Present(key[t])
        /\ mem' = [mem EXCEPT ![key[t]] = Fresh(e, h, d)]
  BY <1>4
<1>6. /\ mem'[key[t]].exists = e /\ mem'[key[t]].head = h /\ mem'[key[t]].data = d
      /\ \A k \in Key \ {key[t]} : mem'[k] = mem[k]
  BY <1>0, <1>3, <1>5 DEF TypeOK, Fresh
<1>7. \A k \in Key : Present(k)' <=> Present(k)
  BY <1>1 DEF Present, Listed
<1>8. \A k \in Key : Agrees(k)'
  <2> SUFFICES ASSUME NEW k \in Key PROVE Agrees(k)'
    OBVIOUS
  <2>1. CASE k = key[t]
    BY <1>0, <1>1, <1>5, <1>6, <1>7, <2>1, AgreesDefNext DEF PairTrue
  <2>2. CASE k # key[t]
    BY <1>0, <1>1, <1>2, <1>6, <1>7, <2>2, AgreesDef, AgreesDefNext DEF AgreesMeans, PairTrue
  <2> QED
    BY <2>1, <2>2
<1>9. \A u \in Thread \ {t} : /\ pc'[u] = pc[u] /\ key'[u] = key[u]
                              /\ val'[u] = val[u] /\ hd'[u] = hd[u]
  BY <1>0 DEF HeadFill, GetFill, BodyFill, PairFill, ListFill, Done, TypeOK
<1>10. pc'[t] \notin Writes /\ ReaderTrue(t)'
  <2>1. CASE Done(t)
    BY <1>0, <2>1 DEF Done, TypeOK, ReaderTrue, Writes
  <2>2. CASE /\ pc[t] = "getFill" /\ Kept(val[t]) # 0 /\ pc' = [pc EXCEPT ![t] = "bodyFill"]
             /\ UNCHANGED <<key, src, val, hd>>
    <3>1. val[t] # 0 /\ pc'[t] = "bodyFill"
      BY <1>0, <1>3, <2>2 DEF TypeOK
    <3> QED
      BY <1>1, <1>3, <2>2, <3>1 DEF ReaderTrue, Writes
  <2> QED
    BY <2>1, <2>2 DEF HeadFill, GetFill, BodyFill, PairFill, ListFill
<1> QED
  BY <1>0, <1>1, <1>2, <1>8, <1>9, <1>10, ReadStep

\* The request of a mutation keeps the invariant.
LEMMA WriteStepInv ==
  ASSUME MemInv, NEW t \in Thread, Exclusive, ~LostAnswer,
         \/ \E k \in Signed : PresignPut(t, k)
         \/ \E k \in Key : Put(t, k) \/ Delete(t, k)
         \/ \E a, b \in Key : Copy(t, a, b)
  PROVE  MemInv'
<1>0. TypeOK' /\ KeyInv' /\ TypeOK
  BY WriteType DEF MemInv
<1>1. ASSUME NEW k \in Signed, PresignPut(t, k) PROVE MemInv'
  <2>1. k \in Key /\ s3' = [s3 EXCEPT ![k] = s3[k]] /\ Request(t, k, 0, "upload") /\ MayWrite(t)
    BY <1>0, <1>1, MemCacheAssumption DEF PresignPut, TypeOK, Key, MemCacheAssumption
  <2>2. /\ \A j \in Touched(k) : mem'[j] = None
        /\ \A j \in Key \ Touched(k) : mem'[j] = mem[j]
    BY <1>1, <2>1, AboveType DEF PresignPut, dropDeleted, Touched
  <2>3. "upload" \in Writes
    BY DEF Writes
  <2>4. /\ \A u \in Thread : ReaderTrue(u)'
        /\ \A u \in Thread \ {t} : pc'[u] = "idle" /\ WriterTrue(u)'
        /\ CacheIsCoherent'
        /\ pc'[t] = "upload" /\ key'[t] = k
        /\ \A j \in Key \ Touched(k) : Agrees(j)'
    BY <1>0, <2>1, <2>2, <2>3, WriteStart, Zenon
  <2>5. Touched(key[t])' = Touched(k)
    BY <2>4 DEF Touched
  <2>6. WriterTrue(t)'
    BY <2>1, <2>2, <2>4, <2>5 DEF WriterTrue, Writes
  <2> QED
    BY <1>0, <2>4, <2>6 DEF MemInv
<1>2. ASSUME NEW k \in Key, NEW v \in Nat \ {0}, NEW s \in {"putStore", "copyStore"}, MayWrite(t),
             s3' = [s3 EXCEPT ![k] = v], Request(t, k, v, s), mem' = mem,
             s = "copyStore" => src'[t] \in Key \ {k} /\ s3[src'[t]] = v
      PROVE  MemInv'
  <2>0. s \in Writes /\ \A j \in Key \ Touched(k) : mem'[j] = mem[j]
    BY <1>2 DEF Writes
  <2>1. /\ \A u \in Thread : ReaderTrue(u)'
        /\ \A u \in Thread \ {t} : pc'[u] = "idle" /\ WriterTrue(u)'
        /\ CacheIsCoherent'
        /\ pc'[t] = s /\ key'[t] = k /\ val'[t] = v
        /\ \A j \in Key \ Touched(k) : Agrees(j)'
        /\ \A j \in Key : Agrees(j)
    BY <1>0, <1>2, <2>0, WriteStart, Zenon
  <2>2. s3'[k] = v /\ \A j \in Key \ {k} : s3'[j] = s3[j]
    BY <1>0, <1>2 DEF TypeOK
  <2>3. \A j \in Key \ {k} : PairTrue(j)'
    BY <1>2, <2>1, <2>2 DEF PairTrue, Agrees
  <2>4. WriterTrue(t)'
    BY <1>2, <2>1, <2>2, <2>3 DEF WriterTrue, Writes, Touched
  <2> QED
    BY <1>0, <2>1, <2>4 DEF MemInv
<1>3. ASSUME NEW k \in Key, Put(t, k) PROVE MemInv'
  <2>1. ver' \in Nat \ {0} /\ MayWrite(t) /\ mem' = mem
    BY <1>0, <1>3 DEF Put, TypeOK
  <2>2. s3' = [s3 EXCEPT ![k] = ver'] /\ Request(t, k, ver', "putStore")
    BY <1>3 DEF Put, Mutated
  <2> QED
    BY <1>2, <2>1, <2>2
<1>4. ASSUME NEW k \in Key, Delete(t, k) PROVE MemInv'
  <2>1. MayWrite(t) /\ s3' = [s3 EXCEPT ![k] = 0] /\ Request(t, k, 0, "delDrop") /\ mem' = mem
    BY <1>4 DEF Delete, Mutated
  <2>2. "delDrop" \in Writes /\ \A j \in Key \ Touched(k) : mem'[j] = mem[j]
    BY <2>1 DEF Writes
  <2>3. /\ \A u \in Thread : ReaderTrue(u)'
        /\ \A u \in Thread \ {t} : pc'[u] = "idle" /\ WriterTrue(u)'
        /\ CacheIsCoherent'
        /\ pc'[t] = "delDrop" /\ key'[t] = k
        /\ \A j \in Key \ Touched(k) : Agrees(j)'
    BY <1>0, <1>4, <2>1, <2>2, WriteStart, Zenon
  <2>4. Touched(key[t])' = Touched(k)
    BY <2>3 DEF Touched
  <2>5. WriterTrue(t)'
    BY <1>4, <2>3, <2>4 DEF WriterTrue, Writes
  <2> QED
    BY <1>0, <2>3, <2>5 DEF MemInv
<1>5. ASSUME NEW a \in Key, NEW b \in Key, Copy(t, a, b) PROVE MemInv'
  <2>1. /\ MayWrite(t) /\ s3' = [s3 EXCEPT ![b] = s3[a]] /\ Request(t, b, s3[a], "copyStore")
        /\ mem' = mem /\ s3[a] \in Nat \ {0} /\ a # b /\ (a \in Dir <=> b \in Dir)
    BY <1>0, <1>5 DEF Copy, Mutated, TypeOK
  <2>2. pc'[t] = "copyStore"
    BY <1>0, <2>1 DEF Request, TypeOK
  <2>3. src'[t] = a
    BY <1>0, <1>5, <2>2 DEF Copy, TypeOK
  <2> QED
    BY <1>2, <2>1, <2>3
<1> QED
  BY <1>1, <1>3, <1>4, <1>5

\* After markDirsLocked the entries of the ancestors of k say that they exist.
LEMMA MarkDirsMeans ==
  ASSUME NEW c, NEW k \in Key, NEW d \in Key
  PROVE  /\ d \notin Above[k] => markDirs(c, k)[d] = c[d]
         /\ d \in Above[k] =>
              \/ markDirs(c, k)[d] = c[d] /\ c[d] # None /\ c[d].exists
              \/ markDirs(c, k)[d] = Fresh(TRUE, 0, 0)
BY DEF markDirs

\* A store brings the entries that the mutation touched up to date.
LEMMA StoreStep ==
  ASSUME MemInv, TypeOK', KeyInv', NEW t \in Thread, pc[t] \in {"putStore", "copyStore"},
         Done(t), s3' = s3, NEW e \in Entry \cup {None},
         mem' = markDirs([mem EXCEPT ![key[t]] = e], key[t]),
         e # None => /\ e.exists
                     /\ e.head # 0 => e.head = s3[key[t]]
                     /\ e.data # 0 => e.data = s3[key[t]]
  PROVE  MemInv'
<1> DEFINE k == key[t]
           c == [mem EXCEPT ![k] = e]
<1>1. /\ TypeOK /\ k \in Key /\ WriterTrue(t) /\ pc[t] \in Writes
      /\ s3[k] # 0
  BY DEF MemInv, KeyInv, WriterTrue, Writes
<1>2. c \in [Key -> Entry \cup {None}] /\ c[k] = e /\ \A j \in Key \ {k} : c[j] = mem[j]
  BY <1>1 DEF TypeOK
<1>3. mem' = markDirs(c, k) /\ Above[k] \subseteq Dir /\ (k \in Dir => k \in Above[k])
  BY <1>1, AboveType
<1>4. Present(k) /\ \A d \in Above[k] : Present(d)
  BY <1>1, <1>3 DEF Present, Listed
<1>5. \A j \in Key : Present(j)' <=> Present(j)
  BY DEF Present, Listed
<1>6. \A j \in Key \ {k} : PairTrue(j)
  BY <1>1 DEF WriterTrue
<1>7. \A j \in Key \ Touched(k) : Agrees(j)
  BY <1>1 DEF WriterTrue
<1> HIDE DEF c, k
\* The entry as markDirs finds it is true, but for an ancestor that it marks.
<1>8. ASSUME NEW j \in Key, c[j] # None
      PROVE  /\ c[j].head # 0 => c[j].head = s3[j]
             /\ c[j].data # 0 => c[j].data = s3[j]
             /\ j \notin Above[k] => (c[j].exists <=> Present(j))
  <2>1. CASE j = k
    BY <1>2, <1>4, <1>8, <2>1 DEF k
  <2>2. CASE j # k
    <3>1. c[j] = mem[j] /\ PairTrue(j)
      BY <1>2, <1>6, <2>2
    <3>2. j \notin Above[k] => Agrees(j)
      BY <1>7, <2>2 DEF Touched
    <3>3. Agrees(j) => (mem[j].exists <=> Present(j))
      BY <1>1, <1>8, <3>1, AgreesDef DEF AgreesMeans
    <3> QED
      BY <1>8, <3>1, <3>2, <3>3 DEF PairTrue
  <2> QED
    BY <2>1, <2>2
<1>9. \A j \in Key : Agrees(j)'
  <2> SUFFICES ASSUME NEW j \in Key, mem'[j] # None
               PROVE  (mem'[j].exists <=> Present(j)') /\ PairTrue(j)'
    BY AgreesDefNext
  <2>1. CASE mem'[j] = c[j] /\ (j \in Above[k] => c[j].exists)
    <3>1. mem'[j].exists <=> Present(j)
      BY <1>4, <1>8, <2>1
    <3> QED
      BY <1>5, <1>8, <2>1, <3>1 DEF PairTrue
  <2>2. CASE mem'[j] = Fresh(TRUE, 0, 0) /\ j \in Above[k]
    <3>1. /\ Fresh(TRUE, 0, 0).exists = TRUE
          /\ Fresh(TRUE, 0, 0).head = 0 /\ Fresh(TRUE, 0, 0).data = 0
      BY DEF Fresh
    <3> QED
      BY <1>4, <1>5, <2>2, <3>1 DEF PairTrue
  <2>3. /\ j \notin Above[k] => markDirs(c, k)[j] = c[j]
        /\ j \in Above[k] =>
             \/ markDirs(c, k)[j] = c[j] /\ c[j] # None /\ c[j].exists
             \/ markDirs(c, k)[j] = Fresh(TRUE, 0, 0)
    <3>1. k \in Key
      BY <1>1
    <3> QED
      BY <3>1, MarkDirsMeans
  <2> QED
    BY <1>3, <2>1, <2>2, <2>3
<1> QED
  BY <1>1, <1>9, WriteEnd

\* The end of a mutation keeps the invariant: put and copy store what the bucket
\* has, delete and PresignPut drop what they touched.
LEMMA StoreStepInv ==
  ASSUME MemInv, NEW t \in Thread,
         PutStore(t) \/ DelDrop(t) \/ CopyStore(t) \/ Upload(t)
  PROVE  MemInv'
<1>0. TypeOK' /\ KeyInv' /\ TypeOK
  BY StoreType DEF MemInv
<1>1. CASE PutStore(t)
  <2>1. PICK d \in {0, Kept(val[t])} :
          mem' = markDirs([mem EXCEPT ![key[t]] = Fresh(TRUE, val[t], d)], key[t])
    BY <1>1 DEF PutStore
  <2>2. pc[t] = "putStore" /\ Done(t) /\ s3' = s3 /\ val[t] = s3[key[t]] /\ val[t] \in Nat
    BY <1>0, <1>1 DEF PutStore, MemInv, WriterTrue, Writes, TypeOK
  <2>3. d \in {0, val[t]} /\ d \in Nat
    BY <2>2 DEF Kept
  <2>4. Fresh(TRUE, val[t], d) \in Entry
    BY <1>0, <2>2, <2>3, FreshType
  <2>5. /\ Fresh(TRUE, val[t], d).exists = TRUE
        /\ Fresh(TRUE, val[t], d).head = val[t] /\ Fresh(TRUE, val[t], d).data = d
    BY DEF Fresh
  <2> QED
    BY <1>0, <2>1, <2>2, <2>3, <2>4, <2>5, StoreStep
<1>2. CASE CopyStore(t)
  <2> DEFINE a == src[t]
             e == IF mem[a] # None /\ mem[a].exists /\ mem[a].head # 0
                  THEN [mem[a] EXCEPT !.exp = now + TTL] ELSE None
  <2>1. /\ pc[t] = "copyStore" /\ Done(t) /\ s3' = s3
        /\ mem' = markDirs([mem EXCEPT ![key[t]] = e], key[t])
    BY <1>2 DEF CopyStore
  <2>2. a \in Key /\ s3[a] = s3[key[t]] /\ PairTrue(a)
    BY <2>1 DEF MemInv, WriterTrue, Writes
  <2>3. e \in Entry \cup {None}
    BY <1>0, <2>2, MemCacheAssumption DEF TypeOK, Entry, MemCacheAssumption
  <2>4. e # None => /\ e.exists
                    /\ e.head # 0 => e.head = s3[key[t]]
                    /\ e.data # 0 => e.data = s3[key[t]]
    <3>1. CASE mem[a] # None /\ mem[a].exists /\ mem[a].head # 0
      <4>1. mem[a] \in Entry
        BY <1>0, <2>2, <3>1 DEF TypeOK
      <4>2. e.exists = mem[a].exists /\ e.head = mem[a].head /\ e.data = mem[a].data
        BY <3>1, <4>1 DEF Entry
      <4>3. /\ mem[a].head # 0 => mem[a].head = s3[a]
            /\ mem[a].data # 0 => mem[a].data = s3[a]
        BY <2>2, <3>1 DEF PairTrue
      <4> QED
        BY <2>2, <3>1, <4>2, <4>3
    <3> QED
      BY <3>1
  <2> HIDE DEF e
  <2> QED
    BY <1>0, <2>1, <2>3, <2>4, StoreStep
<1>3. CASE DelDrop(t)
  <2>1. pc[t] \in Writes /\ Done(t) /\ s3' = s3 /\ key[t] \in Key
    BY <1>3 DEF DelDrop, Writes, MemInv, KeyInv
  <2>2. /\ \A j \in Touched(key[t]) : mem'[j] = None
        /\ \A j \in Key \ Touched(key[t]) : mem'[j] = mem[j] /\ Agrees(j)
    BY <1>3, <2>1, AboveType DEF DelDrop, dropDeleted, Touched, MemInv, WriterTrue
  <2>3. \A j \in Key : Agrees(j)'
    BY <2>1, <2>2 DEF Agrees, Listed
  <2> QED
    BY <1>0, <2>1, <2>3, WriteEnd
<1>4. CASE Upload(t)
  <2>1. /\ pc[t] \in Writes /\ Done(t) /\ key[t] \in Key /\ mem' = mem
        /\ s3' = [s3 EXCEPT ![key[t]] = ver']
    BY <1>4 DEF Upload, Writes, MemInv, KeyInv
  <2>2. /\ \A j \in Touched(key[t]) : mem'[j] = None
        /\ \A j \in Key \ Touched(key[t]) : Agrees(j)
    BY <1>4, <2>1 DEF Upload, MemInv, WriterTrue
  <2>3. \A j \in Key : Agrees(j)'
    <3> SUFFICES ASSUME NEW j \in Key PROVE Agrees(j)'
      OBVIOUS
    <3>1. CASE j \in Touched(key[t])
      BY <2>2, <3>1 DEF Agrees
    <3>2. CASE j \notin Touched(key[t])
      BY <1>0, <2>1, <2>2, <3>2, AgreesFrame
    <3> QED
      BY <3>1, <3>2
  <2> QED
    BY <1>0, <2>1, <2>3, WriteEnd
<1> QED
  BY <1>1, <1>2, <1>3, <1>4

\* Eviction keeps the invariant: a missing entry claims nothing.
LEMMA EvictStepInv ==
  ASSUME MemInv, NEW k \in Key, Evict(k)
  PROVE  MemInv'
<1>1. /\ TypeOK /\ UNCHANGED <<s3, pc, key, src, hd, val>>
      /\ mem'[k] = None /\ \A j \in Key \ {k} : mem'[j] = mem[j]
  BY DEF Evict, Store, MemInv, TypeOK
<1>2. TypeOK' /\ KeyInv'
  BY DEF Evict, Store, MemInv, TypeOK, KeyInv, time
<1>3. \A j \in Key : (Agrees(j) => Agrees(j)') /\ (PairTrue(j) => PairTrue(j)')
  BY <1>1 DEF Agrees, PairTrue, Listed
<1>4. \A t \in Thread : ReaderTrue(t)'
  BY <1>1 DEF MemInv, ReaderTrue, Listed
<1>5. \A t \in Thread : WriterTrue(t)'
  <2> SUFFICES ASSUME NEW t \in Thread, pc[t] \in Writes PROVE WriterTrue(t)'
    BY <1>1 DEF WriterTrue
  <2>1. Touched(key[t])' = Touched(key[t]) /\ key'[t] = key[t] /\ pc' = pc
    BY <1>1 DEF Touched
  <2>2. WriterTrue(t) /\ key[t] \in Key /\ Above[key[t]] \subseteq Key
    BY AboveType DEF MemInv, WriterTrue
  <2>3. /\ Touched(key[t]) \subseteq Key
        /\ \A j \in Touched(key[t]) : mem[j] = None => mem'[j] = None
    BY <1>1, <2>2 DEF Touched
  <2> QED
    BY <1>1, <1>3, <2>1, <2>2, <2>3 DEF WriterTrue
<1> QED
  BY <1>1, <1>2, <1>3, <1>4, <1>5 DEF MemInv, CacheIsCoherent

\* Every step keeps the invariant.
LEMMA NextMemInv ==
  ASSUME Exclusive, ~LostAnswer
  PROVE  MemInv /\ [Next]_vars => MemInv'
<1> SUFFICES ASSUME MemInv, [Next]_vars PROVE MemInv'
  OBVIOUS
<1>1. CASE UNCHANGED vars
  <2>1. TypeOK' /\ KeyInv'
    BY <1>1, NextType DEF MemInv
  <2>2. UNCHANGED <<s3, mem, pc, key, src, hd, val>>
    BY <1>1 DEF vars
  <2>3. \A k \in Key : (Agrees(k)' <=> Agrees(k)) /\ (PairTrue(k)' <=> PairTrue(k))
    BY <2>2 DEF Agrees, PairTrue, Listed
  <2>4. \A t \in Thread : ReaderTrue(t)'
    BY <2>2 DEF MemInv, ReaderTrue, Listed
  <2>5. \A t \in Thread : WriterTrue(t)'
    BY <2>2, <2>3 DEF MemInv, WriterTrue, Touched
  <2> QED
    BY <2>1, <2>2, <2>3, <2>4, <2>5 DEF MemInv, CacheIsCoherent
<1>2. CASE \E k \in Key : Evict(k)
  BY <1>2, EvictStepInv
<1>3. CASE \E t \in Thread :
             \/ \E k \in File : Miss(t, k) \/ Hit(t, k)
             \/ \E d \in Dir : List(t, d)
             \/ Body(t)
  BY <1>3, ReadStepInv
<1>4. CASE \E t \in Thread :
             HeadFill(t) \/ GetFill(t) \/ BodyFill(t) \/ PairFill(t) \/ ListFill(t)
  BY <1>4, FillStepInv
<1>5. CASE \E t \in Thread :
             \/ \E k \in Signed : PresignPut(t, k)
             \/ \E k \in Key : Put(t, k) \/ Delete(t, k)
             \/ \E a, b \in Key : Copy(t, a, b)
  BY <1>5, WriteStepInv
<1>6. CASE \E t \in Thread : PutStore(t) \/ DelDrop(t) \/ CopyStore(t) \/ Upload(t)
  BY <1>6, StoreStepInv
<1> QED
  BY <1>1, <1>2, <1>3, <1>4, <1>5, <1>6 DEF Next

\* Where a mutation overlaps no other operation of the instance and its answer
\* is not lost, every entry of the cache is true whenever no mutation is under
\* way: for a file the head and the body, for a directory whether it exists.
THEOREM CacheCoherent ==
  ASSUME Exclusive, ~LostAnswer
  PROVE  Spec => []CacheIsCoherent
<1>1. MemInv => CacheIsCoherent
  BY DEF MemInv
<1> QED
  BY <1>1, InitMemInv, NextMemInv, PTL DEF Spec

==============================================================================
