------------------------------ MODULE MemCache ------------------------------
(***************************************************************************)
(* The write-through memory cache (mem.go) as the S3 primitives of         *)
(* s3ops.go keep it: head, headOrGet, cachedOpen, openFromGet and          *)
(* dirExists fill it, put, delete and copy update it.  A step is one S3    *)
(* request or one call of the cache, which has its own mutex, so other     *)
(* goroutines run between the answer of a request and the update of the    *)
(* cache.                                                                  *)
(*                                                                         *)
(* Bodies and heads are version numbers; version 0 means there is none.    *)
(* In Spec only this instance writes to the bucket (the case a ttl of zero *)
(* is for), and the holders of the URLs it signs.  In TTLSpec others write *)
(* too, and time passes while no request is under way.  An entry may leave *)
(* the cache at any time by eviction.                                      *)
(***************************************************************************)
EXTENDS Naturals

CONSTANTS
  File,         \* object keys of files
  Dir,          \* directory prefixes, also the keys of their markers
  Above,        \* Above[k]: the prefixes of k that end in a slash, for a
                \* marker the key itself too
  Signed,       \* files that URLs for uploads are signed for
  Thread,       \* goroutines
  None,         \* no cache entry
  Exclusive,    \* TRUE when a mutation never overlaps another operation
  LostAnswer,   \* TRUE when a mutation may take effect and return an error
  Small,        \* versions whose bodies fit the cache
  TTL,          \* lifetime of entries
  MaxTime,      \* bound on time
  MaxVersion    \* bound on uploads

Key == File \cup Dir

ASSUME MemCacheAssumption ==
  /\ File \cap Dir = {}
  /\ Above \in [Key -> SUBSET Dir] /\ \A d \in Dir : d \in Above[d]
  /\ Signed \subseteq File
  /\ Exclusive \in BOOLEAN /\ LostAnswer \in BOOLEAN
  /\ Small \subseteq Nat
  /\ TTL \in Nat /\ MaxTime \in Nat /\ MaxVersion \in Nat
  /\ None \notin [exists : BOOLEAN, head : Nat, data : Nat, exp : Nat]

VARIABLES
  s3,   \* s3[k]: version of object k in the bucket
  mem,  \* mem[k]: cache entry of k
  ver,  \* uploads so far
  pc,   \* pc[t]: the next step of goroutine t
  key,  \* key[t]: the key it works on
  src,  \* src[t]: the source of a copy
  hd,   \* hd[t]: the head an open got from the cache
  val,  \* val[t]: the version its request answered or uploaded
  now,  \* time
  since \* history: since[k]: when others last wrote k

time == <<now, since>>
vars == <<s3, mem, ver, pc, key, src, hd, val, time>>

Entry == [exists : BOOLEAN, head : Nat, data : Nat, exp : Nat]

Reads  == {"headFill", "getFill", "bodyFill", "body", "pairFill", "listFill"}
Writes == {"putStore", "delDrop", "copyStore", "upload"}

TypeOK ==
  /\ s3  \in [Key -> Nat]
  /\ mem \in [Key -> Entry \cup {None}]
  /\ ver \in Nat
  /\ pc  \in [Thread -> {"idle"} \cup Reads \cup Writes]
  /\ key \in [Thread -> Key \cup {None}] /\ src \in [Thread -> Key \cup {None}]
  /\ hd  \in [Thread -> Nat] /\ val \in [Thread -> Nat]
  /\ now \in Nat /\ since \in [Key -> Nat]

Init ==
  /\ s3  = [k \in Key |-> 0]
  /\ mem = [k \in Key |-> None]
  /\ ver = 0
  /\ pc  = [t \in Thread |-> "idle"]
  /\ key = [t \in Thread |-> None] /\ src = key
  /\ hd  = [t \in Thread |-> 0]
  /\ val = [t \in Thread |-> 0]
  /\ now = 0 /\ since = [k \in Key |-> 0]

------------------------------------------------------------------------------
\* dirExists answered by a listing: a marker or any key under the prefix.
Listed(d) == \E k \in Key : d \in Above[k] /\ s3[k] # 0

\* A new entry, as lruIndex.put stores it.
Fresh(exists, head, data) == [exists |-> exists, head |-> head, data |-> data, exp |-> now + TTL]

\* maxDataBytes: the body to keep of version v.
Kept(v) == IF v \in Small THEN v ELSE 0

\* markDirsLocked, on cache c.
markDirs(c, k) ==
  [d \in Key |-> IF d \in Above[k] /\ ~(c[d] # None /\ c[d].exists)
                 THEN Fresh(TRUE, 0, 0) ELSE c[d]]

\* What dropDeleted leaves of the cache.
dropDeleted(k) == [j \in Key |-> IF j = k \/ j \in Above[k] THEN None ELSE mem[j]]

\* Whether a goroutine may start a read or a mutation.
MayRead(t)  == pc[t] = "idle" /\ (Exclusive => \A u \in Thread : pc[u] \notin Writes)
MayWrite(t) == pc[t] = "idle" /\ (Exclusive => \A u \in Thread : pc[u] = "idle")

\* t sends a request about k, is answered v, and goes on at s.
Request(t, k, v, s) ==
  /\ key' = [key EXCEPT ![t] = k]
  /\ val' = [val EXCEPT ![t] = v]
  /\ pc'  = [pc EXCEPT ![t] = s]

\* The operation of t is over; its locals are forgotten.
Done(t) ==
  /\ pc'  = [pc EXCEPT ![t] = "idle"]
  /\ val' = [val EXCEPT ![t] = 0]
  /\ hd'  = [hd EXCEPT ![t] = 0]
  /\ key' = [key EXCEPT ![t] = None]
  /\ src' = [src EXCEPT ![t] = None]

Store(k, e) == mem' = [mem EXCEPT ![k] = e]

------------------------------------------------------------------------------
(* Reads that fill the cache.                                              *)

\* head and headOrGet miss: HeadObject, or GetObject for an open.
Miss(t, k) ==
  /\ MayRead(t)
  /\ mem[k] = None
  /\ \E s \in {"headFill", "getFill"} : Request(t, k, s3[k], s)
  /\ UNCHANGED <<s3, mem, ver, src, hd, time>>

HeadFill(t) ==
  /\ pc[t] = "headFill"
  /\ Store(key[t], Fresh(val[t] # 0, val[t], 0))
  /\ Done(t)
  /\ UNCHANGED <<s3, ver, time>>

\* headOrGet stores what GetObject told; openFromGet then reads the body,
\* unless it is too large for the cache or was opened to be written.
GetFill(t) ==
  /\ pc[t] = "getFill"
  /\ Store(key[t], Fresh(val[t] # 0, val[t], 0))
  /\ \/ Done(t)
     \/ /\ Kept(val[t]) # 0
        /\ pc' = [pc EXCEPT ![t] = "bodyFill"]
        /\ UNCHANGED <<key, src, val, hd>>
  /\ UNCHANGED <<s3, ver, time>>

BodyFill(t) ==
  /\ pc[t] = "bodyFill"
  /\ Store(key[t], Fresh(TRUE, val[t], val[t]))
  /\ Done(t)
  /\ UNCHANGED <<s3, ver, time>>

\* headOrGet hits: the open goes on to cachedOpen with the cached head.
Hit(t, k) ==
  /\ MayRead(t)
  /\ mem[k] # None /\ mem[k].exists /\ mem[k].head # 0
  /\ hd'  = [hd EXCEPT ![t] = mem[k].head]
  /\ key' = [key EXCEPT ![t] = k]
  /\ pc'  = [pc EXCEPT ![t] = "body"]
  /\ UNCHANGED <<s3, mem, ver, src, val, time>>

\* cachedOpen: the cached body or, if the head says it fits the cache, getAll.
Body(t) ==
  LET k == key[t] IN
  /\ pc[t] = "body"
  /\ \/ Done(t)
     \/ /\ hd[t] \in Small
        /\ ~(mem[k] # None /\ mem[k].exists /\ mem[k].data # 0)
        /\ s3[k] # 0
        /\ Request(t, k, s3[k], "pairFill")
        /\ UNCHANGED <<src, hd>>
  /\ UNCHANGED <<s3, mem, ver, time>>

\* Mutant: the body is stored without a head.
PairNoHead(t) ==
  /\ pc[t] = "pairFill"
  /\ Store(key[t], Fresh(TRUE, None, Kept(val[t])))
  /\ Done(t)
  /\ UNCHANGED <<s3, ver, time>>

\* cachedOpen stores the body with the head it was called with.
PairFill(t) ==
  /\ pc[t] = "pairFill"
  /\ Store(key[t], Fresh(TRUE, hd[t], Kept(val[t])))
  /\ Done(t)
  /\ UNCHANGED <<s3, ver, time>>

\* dirExists misses.
List(t, d) ==
  /\ MayRead(t)
  /\ mem[d] = None
  /\ Request(t, d, IF Listed(d) THEN 1 ELSE 0, "listFill")
  /\ UNCHANGED <<s3, mem, ver, src, hd, time>>

ListFill(t) ==
  /\ pc[t] = "listFill"
  /\ Store(key[t], Fresh(val[t] # 0, 0, 0))
  /\ Done(t)
  /\ UNCHANGED <<s3, ver, time>>

------------------------------------------------------------------------------
(* Mutations.                                                              *)

\* A mutation of k that took effect goes on to the cache, or its answer is
\* lost and it returns the error.
Mutated(t, k, v, s) ==
  \/ Request(t, k, v, s)
  \/ LostAnswer /\ UNCHANGED <<key, val, pc>>

\* put and putSpill.
Put(t, k) ==
  /\ MayWrite(t)
  /\ ver < MaxVersion
  /\ ver' = ver + 1
  /\ s3' = [s3 EXCEPT ![k] = ver']
  /\ Mutated(t, k, ver', "putStore")
  /\ UNCHANGED <<mem, src, hd, time>>

\* storeWrite: the body is kept when it is small and not in a spill file.
PutStore(t) ==
  LET k == key[t] IN
  /\ pc[t] = "putStore"
  /\ \E d \in {0, Kept(val[t])} :
       mem' = markDirs([mem EXCEPT ![k] = Fresh(TRUE, val[t], d)], k)
  /\ Done(t)
  /\ UNCHANGED <<s3, ver, time>>

Delete(t, k) ==
  /\ MayWrite(t)
  /\ s3' = [s3 EXCEPT ![k] = 0]
  /\ Mutated(t, k, 0, "delDrop")
  /\ UNCHANGED <<mem, ver, src, hd, time>>

\* Mutant: the entries of ancestor directories are kept.
DelKeepsDirs(t) ==
  /\ pc[t] = "delDrop"
  /\ Store(key[t], None)
  /\ Done(t)
  /\ UNCHANGED <<s3, ver, time>>

\* The deleted object and the directories it was in are forgotten.
DelDrop(t) ==
  /\ pc[t] = "delDrop"
  /\ mem' = dropDeleted(key[t])
  /\ Done(t)
  /\ UNCHANGED <<s3, ver, time>>

\* copy of a file to a file, or of a marker to a marker.
Copy(t, a, b) ==
  /\ MayWrite(t)
  /\ a # b /\ (a \in Dir <=> b \in Dir)
  /\ s3[a] # 0
  /\ s3' = [s3 EXCEPT ![b] = s3[a]]
  /\ Mutated(t, b, s3[a], "copyStore")
  /\ src' = [src EXCEPT ![t] = IF pc'[t] = "idle" THEN None ELSE a]
  /\ UNCHANGED <<mem, ver, hd, time>>

\* storeCopied.
CopyStore(t) ==
  LET a == src[t]
      b == key[t]
  IN  /\ pc[t] = "copyStore"
      /\ mem' = markDirs([mem EXCEPT ![b] =
                  IF mem[a] # None /\ mem[a].exists /\ mem[a].head # 0
                  THEN [mem[a] EXCEPT !.exp = now + TTL] ELSE None], b)
      /\ Done(t)
      /\ UNCHANGED <<s3, ver, time>>

\* PresignPut ends with dropDeleted; the holder of the URL uploads.
PresignPut(t, k) ==
  /\ MayWrite(t)
  /\ ver < MaxVersion
  /\ mem' = dropDeleted(k)
  /\ Request(t, k, 0, "upload")
  /\ UNCHANGED <<s3, ver, src, hd, time>>

Upload(t) ==
  /\ pc[t] = "upload"
  /\ ver' = ver + 1
  /\ s3' = [s3 EXCEPT ![key[t]] = ver']
  /\ Done(t)
  /\ UNCHANGED <<mem, time>>

\* An entry is evicted.
Evict(k) ==
  /\ mem[k] # None
  /\ Store(k, None)
  /\ UNCHANGED <<s3, ver, pc, key, src, hd, val, time>>

------------------------------------------------------------------------------
Next ==
  \/ \E t \in Thread :
       \/ \E k \in File : Miss(t, k) \/ Hit(t, k)
       \/ \E k \in Signed : PresignPut(t, k)
       \/ \E d \in Dir : List(t, d)
       \/ \E k \in Key : Put(t, k) \/ Delete(t, k)
       \/ \E a, b \in Key : Copy(t, a, b)
       \/ HeadFill(t) \/ GetFill(t) \/ BodyFill(t) \/ Body(t) \/ PairFill(t)
       \/ ListFill(t) \/ PutStore(t) \/ DelDrop(t) \/ CopyStore(t)
       \/ Upload(t)
  \/ \E k \in Key : Evict(k)

Spec == Init /\ [][Next]_vars

\* Another client writes k.
Foreign(k) ==
  /\ ver < MaxVersion
  /\ ver' = ver + 1
  /\ s3' = [s3 EXCEPT ![k] = ver']
  /\ since' = [since EXCEPT ![k] = now]
  /\ UNCHANGED <<mem, pc, key, src, hd, val, now>>

\* Time passes between operations; entries that expired are misses.
Tick ==
  /\ now < MaxTime
  /\ \A t \in Thread : pc[t] = "idle"
  /\ now' = now + 1
  /\ mem' = [k \in Key |-> IF mem[k] # None /\ mem[k].exp <= now' THEN None ELSE mem[k]]
  /\ UNCHANGED <<s3, ver, pc, key, src, hd, val, since>>

TTLSpec == Init /\ [][Next \/ Tick \/ \E k \in File : Foreign(k)]_vars

------------------------------------------------------------------------------
(* Properties.                                                             *)

\* What the cache says of k is what the bucket has.
Agrees(k) ==
  mem[k] # None =>
    /\ mem[k].exists = IF k \in Dir THEN Listed(k) ELSE s3[k] # 0
    /\ mem[k].head # 0 => mem[k].head = s3[k]
    /\ mem[k].data # 0 => mem[k].data = s3[k]

\* "every mutation made through the same instance updates it immediately, so
\* read-after-write stays consistent": when no mutation is under way, every
\* entry, of files, of markers and of implied directories, is true.
CacheIsCoherent ==
  (\A t \in Thread : pc[t] \notin Writes) => \A k \in Key : Agrees(k)

\* "ttl bounds how long writes from other clients can stay invisible": when no
\* operation is under way, an entry whose head is not the object's was
\* overtaken less than a ttl ago.
StaleWithinTTL ==
  (\A t \in Thread : pc[t] = "idle") =>
    \A k \in File :
      mem[k] # None /\ mem[k].head \notin {0, s3[k]} => now < since[k] + TTL

==============================================================================
