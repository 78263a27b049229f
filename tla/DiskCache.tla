------------------------------ MODULE DiskCache -----------------------------
(***************************************************************************)
(* The disk cache and the spill files (disk.go) as the S3 primitives and   *)
(* the write handles use them: headOrGet, cachedOpen, openFromGet,         *)
(* diskFetch, diskFill, bufForExisting, bufFromGet, put, putSpill, delete  *)
(* and copy of s3ops.go, flush and Close of file_write.go.  Of the memory  *)
(* cache in front there is what an open learns from it: a head, which may  *)
(* be of any version the object had.                                       *)
(*                                                                         *)
(* A step is one S3 request, one system call on the directory, or what is  *)
(* done under the mutex of the cache.  Contents and ETags are version      *)
(* numbers, 0 for none: any answer may lack its ETag.  A file is a name    *)
(* for an inode, so that a hard link shares what a spill file is written.  *)
(* Names are never used twice by a process; here a name is free once       *)
(* nothing refers to it.                                                   *)
(***************************************************************************)
EXTENDS LRUIndex, FiniteSets

CONSTANTS
  Key,         \* object keys
  Present,     \* the keys whose objects are there at first
  Thread,      \* goroutines, each with at most one handle
  MaxVersion,  \* bound on contents
  Cost,        \* Cost[v]: size of version v with its overhead
  MaxBytes,    \* budget of the cache
  MaxOps,      \* bound on the operations of the goroutines
  MaxFaults,   \* bound on what others do: uploads, lost files, restarts
  UntaggedGet, \* whether a GET may lack the ETag the HEAD before it had
  None         \* no key

Version == 1 .. MaxVersion
Name    == 1 .. 2 * (Cardinality(Key) + Cardinality(Thread))

ASSUME DiskCacheAssumption ==
  /\ IsFiniteSet(Key) /\ IsFiniteSet(Thread) /\ Present \subseteq Key
  /\ MaxVersion \in Nat \ {0} /\ MaxBytes \in Nat /\ MaxOps \in Nat /\ MaxFaults \in Nat
  /\ Cost \in [Version -> Nat \ {0}]
  /\ UntaggedGet \in BOOLEAN
  /\ None \notin Key

VARIABLES
  s3,      \* s3[k]: version of object k, 0 when there is none
  ver,     \* newest version
  had,     \* history: had[k]: versions of object k since the process started
  disk,    \* "fresh" until initOnce, then "ready" or "broken"
  idx,     \* the index: values are [etag, size, path], the size as
           \* the version that has it
  name,    \* name[p]: the inode file p is, 0 when there is no such file
  body,    \* body[i]: contents of inode i
  st,      \* st[t]: where goroutine t stands, and its locals
  seen,    \* history: versions the key had while t was opening it
  left     \* what is left of MaxOps and MaxFaults

vars == <<s3, ver, had, disk, idx, name, body, st, seen, left>>

Idle == [pc |-> "idle", key |-> None, src |-> None, write |-> FALSE, etag |-> 0,
         ver |-> 0, path |-> 0, dst |-> 0, dirty |-> FALSE]

Opening == {"head", "get", "open", "fopen", "gone", "fetch", "fill", "insert", "load"}
PC == Opening \cup {"idle", "reading", "writing", "syncDrop", "closeDrop", "link",
        "adopt", "destroy", "drop", "copied", "copyLink", "copyInsert"}

Local == [pc : PC, key : Key \cup {None}, src : Key \cup {None}, write : BOOLEAN,
          etag : 0 .. MaxVersion, ver : 0 .. MaxVersion,
          path : Name \cup {0}, dst : Name \cup {0}, dirty : BOOLEAN]

Entry == [etag : Version, size : Version, path : Name]

TypeOK ==
  /\ s3 \in [Key -> 0 .. MaxVersion] /\ ver \in 0 .. MaxVersion
  /\ had \in [Key -> SUBSET Version] /\ disk \in {"fresh", "ready", "broken"}
  /\ DOMAIN idx.val \subseteq Key
  /\ \A k \in DOMAIN idx.val : idx.val[k] \in Entry
  /\ name \in [Name -> Name \cup {0}] /\ body \in [Name -> 0 .. MaxVersion]
  /\ st \in [Thread -> Local]
  /\ seen \in [Thread -> SUBSET (0 .. MaxVersion)]
  /\ left \in [ops : 0 .. MaxOps, faults : 0 .. MaxFaults]

\* The versions the objects have now.
Current == [k \in Key |-> {s3[k]} \ {0}]

Init ==
  /\ s3 = [k \in Key |-> IF k \in Present THEN 1 ELSE 0] /\ ver = 1
  /\ had = Current
  /\ disk = "fresh"
  /\ idx = Empty
  /\ name = [p \in Name |-> 0] /\ body = [i \in Name |-> 0]
  /\ st = [t \in Thread |-> Idle]
  /\ seen = [t \in Thread |-> {}]
  /\ left = [ops |-> MaxOps, faults |-> MaxFaults]

------------------------------------------------------------------------------
\* ETags an answer about version v may have.
ETags(v) == {v, 0}

Fits(v) == v # 0 /\ Cost[v] <= MaxBytes

\* Goroutine t starts an operation, with locals l; someone else acts.
Begin(t) ==
  /\ st[t].pc = "idle" /\ left.ops > 0
  /\ left' = [left EXCEPT !.ops = @ - 1]

Start(t, l) == Begin(t) /\ st' = [st EXCEPT ![t] = l]

Fault == left.faults > 0 /\ left' = [left EXCEPT !.faults = @ - 1]

Goto(t, s) == st' = [st EXCEPT ![t].pc = s] /\ UNCHANGED seen
Forget(t)  == seen' = [seen EXCEPT ![t] = {}]
Done(t)    == st' = [st EXCEPT ![t] = Idle] /\ Forget(t)

\* The bucket holds v under k from now on.
Bucket(k, v) ==
  /\ s3' = [s3 EXCEPT ![k] = v]
  /\ had' = [had EXCEPT ![k] = @ \cup ({v} \ {0})]
  /\ seen' = [t \in Thread |-> IF st[t].key = k /\ st[t].pc \in Opening
                               THEN seen[t] \cup {v} ELSE seen[t]]

Paths(x) == {x.val[k].path : k \in DOMAIN x.val}

\* newPath: what the process refers to, by name or as an open file, is taken;
\* the new path is the first name that is not.
Taken == Paths(idx) \cup {name[p] : p \in Name} \cup UNION {{st[t].path, st[t].dst} : t \in Thread}

newPath == LET free == Name \ Taken IN {p \in free : \A q \in free : p <= q}

\* The directory holds the files of n, and what is written is b.  The
\* contents of a file nobody can reach are forgotten.
Files(n, b) ==
  /\ name' = n
  /\ body' = [i \in Name |->
       IF (\E p \in Name : n[p] = i) \/ (\E t \in Thread : st'[t].path = i) THEN b[i] ELSE 0]

Created(n, p, i) == [n EXCEPT ![p] = i]

\* Mutant: leftovers are not swept.
SweptNot(d) == name

\* ensure ends in state d; the first call creates and sweeps the directory.
Ensure(d) == d \in (IF disk = "fresh" THEN {"ready", "broken"} ELSE {disk}) /\ disk' = d
Swept(d)  == IF disk = "fresh" /\ d = "ready" THEN [p \in Name |-> 0] ELSE name

\* idx.get: a hit is moved to the front or, if it expired, dropped.
Gets(k) == {Touch(idx, k), Removed(idx, k)}

\* The index becomes x; onEvict removes the files of values that left, or
\* that were to enter and did not.
Index(x, entering) ==
  /\ idx' = x
  /\ Files([p \in Name |-> IF p \in (Paths(idx) \cup entering) \ Paths(x) THEN 0 ELSE name[p]],
           body)

\* insert.
insert(k, etag, path, v) ==
  Index(Put(idx, k, [etag |-> etag, size |-> v, path |-> path], Cost[v], MaxBytes), {path})

------------------------------------------------------------------------------
(* Opens.                                                                  *)

\* headOrGet finds a head in the memory cache, which may be old: of version
\* v, which the object had at some time.
OpenCached(t, k, write, v) ==
  /\ st[t].pc = "idle" /\ v \in had[k] /\ (write \/ Fits(v))
  /\ \E e \in ETags(v) :
       Start(t, [Idle EXCEPT !.pc = IF write THEN "load" ELSE "open",
                             !.key = k, !.write = write, !.etag = e])
  /\ seen' = [seen EXCEPT ![t] = {v, s3[k]}]
  /\ UNCHANGED <<s3, ver, had, disk, idx, name, body>>

\* It does not, and asks the disk cache.
OpenFile(t, k, write) ==
  /\ \E x \in Gets(k) :
       /\ Start(t, [Idle EXCEPT !.pc = IF Has(x, k) THEN "head" ELSE "get",
                                !.key = k, !.write = write])
       /\ Index(x, {})
  /\ seen' = [seen EXCEPT ![t] = {s3[k]}]
  /\ UNCHANGED <<s3, ver, had, disk>>

\* HeadObject.  An object too large for the cache is streamed.
HeadObject(t) ==
  LET v == s3[st[t].key] IN
  /\ st[t].pc = "head"
  /\ \/ (st[t].write => v = 0) /\ ~Fits(v) /\ Done(t)
     \/ v # 0 /\ st[t].write /\ Goto(t, "load")
     \/ /\ v # 0 /\ ~st[t].write /\ Fits(v)
        /\ \E e \in ETags(v) : st' = [st EXCEPT ![t].pc = "open", ![t].etag = e]
        /\ UNCHANGED seen
  /\ UNCHANGED <<s3, ver, had, disk, idx, name, body, left>>

\* GetObject, with the body open at its start.
GetObject(t) ==
  LET v == s3[st[t].key] IN
  /\ st[t].pc = "get"
  /\ \/ (st[t].write => v = 0) /\ ~Fits(v) /\ Done(t)
     \/ /\ v # 0 /\ (st[t].write \/ Fits(v))
        /\ \E e \in ETags(v) :
             st' = [st EXCEPT ![t].pc = IF st[t].write THEN "load" ELSE "fill",
                              ![t].ver = v, ![t].etag = e]
        /\ UNCHANGED seen
  /\ UNCHANGED <<s3, ver, had, disk, idx, name, body, left>>

\* Mutant: any body of the key will do.
OpenAny(t) ==
  LET k == st[t].key IN
  /\ st[t].pc = "open"
  /\ \E x \in Gets(k) :
       /\ st' = [st EXCEPT ![t].pc   = IF Has(x, k) THEN "fopen" ELSE "fetch",
                           ![t].path = IF Has(x, k) THEN x.val[k].path ELSE 0]
       /\ Index(x, {})
  /\ UNCHANGED <<s3, ver, had, disk, seen, left>>

\* diskCache.open: an entry with the ETag of the head.
OpenEntry(t) ==
  LET k == st[t].key
      hit(x) == Has(x, k) /\ st[t].etag # 0 /\ x.val[k].etag = st[t].etag
  IN  /\ st[t].pc = "open"
      /\ \E x \in Gets(k) :
           /\ st' = [st EXCEPT ![t].pc   = IF hit(x) THEN "fopen" ELSE "fetch",
                               ![t].path = IF hit(x) THEN x.val[k].path ELSE 0]
           /\ Index(x, {})
      /\ UNCHANGED <<s3, ver, had, disk, seen, left>>

\* os.Open of the path read under the mutex.
FOpen(t) ==
  LET i == name[st[t].path] IN
  /\ st[t].pc = "fopen"
  /\ st' = [st EXCEPT ![t].pc   = IF i # 0 THEN "reading" ELSE "gone",
                      ![t].path = IF i # 0 THEN i ELSE @]
  /\ Files(name, body)
  /\ UNCHANGED <<s3, ver, had, disk, idx, seen, left>>

\* The file vanished: the entry is dropped if it is still the same one.
Gone(t) ==
  LET k == st[t].key
      same(x) == Has(x, k) /\ x.val[k].path = st[t].path
  IN  /\ st[t].pc = "gone"
      /\ st' = [st EXCEPT ![t].pc = "fetch", ![t].path = 0]
      /\ \E x \in Gets(k) : Index(IF same(x) THEN Removed(x, k) ELSE x, {})
      /\ UNCHANGED <<s3, ver, had, disk, seen, left>>

\* The ETag diskFetch files version v under: that of the GET or, if it has
\* none, that of the head.
Filed(t, v) == {v} \cup (IF UntaggedGet \/ st[t].etag = 0 THEN {st[t].etag} ELSE {})

\* diskFetch: GetObject.
Fetch(t) ==
  LET v == s3[st[t].key] IN
  /\ st[t].pc = "fetch"
  /\ \E d \in {"ready", "broken"} :
       /\ Ensure(d)
       /\ \/ (d = "broken" \/ v = 0) /\ Done(t)
          \/ /\ d = "ready" /\ v # 0
             /\ \E e \in Filed(t, v) :
                  st' = [st EXCEPT ![t].pc = "fill", ![t].ver = v, ![t].etag = e]
             /\ UNCHANGED seen
       /\ Files(Swept(d), body)
  /\ UNCHANGED <<s3, ver, had, idx, left>>

\* Mutant: a body without an ETag is cached like any other.
FillUntagged(t) ==
  /\ st[t].pc = "fill"
  /\ \E d \in {"ready", "broken"} :
       /\ Ensure(d)
       /\ \/ Done(t) /\ Files(Swept(d), body)
          \/ \E p \in newPath :
               /\ d = "ready" /\ Swept(d)[p] = 0
               /\ st' = [st EXCEPT ![t].pc = "insert", ![t].path = p]
               /\ Files(Created(Swept(d), p, p), [body EXCEPT ![p] = st[t].ver])
               /\ UNCHANGED seen
  /\ UNCHANGED <<s3, ver, had, idx, left>>

\* diskFill: the body goes to a new file, which is unlinked at once if it
\* cannot be validated later.  If the file cannot be made the open streams;
\* if the copy fails the file is removed and the open too.
Fill(t) ==
  /\ st[t].pc = "fill"
  /\ \E d \in {"ready", "broken"} :
       /\ Ensure(d)
       /\ \/ Done(t) /\ Files(Swept(d), body)
          \/ \E p \in newPath :
               /\ d = "ready" /\ Swept(d)[p] = 0
               /\ st' = [st EXCEPT ![t].pc = IF st[t].etag = 0 THEN "reading" ELSE "insert",
                                   ![t].path = p]
               /\ Files(IF st[t].etag = 0 THEN Swept(d) ELSE Created(Swept(d), p, p),
                        [body EXCEPT ![p] = st[t].ver])
               /\ UNCHANGED seen
  /\ UNCHANGED <<s3, ver, had, idx, left>>

Insert(t) ==
  /\ st[t].pc = "insert"
  /\ Goto(t, "reading")
  /\ insert(st[t].key, st[t].etag, st[t].path, st[t].ver)
  /\ UNCHANGED <<s3, ver, had, disk, left>>

\* A request of an open fails, a read handle is closed.
End(t) ==
  /\ st[t].pc \in {"head", "get", "fetch", "reading"}
  /\ Done(t)
  /\ Files(name, body)
  /\ UNCHANGED <<s3, ver, had, disk, idx, left>>

------------------------------------------------------------------------------
(* Write handles that spill.                                               *)

\* t gets a spill file with contents v: newSpill and the first write.
Spill(t, k, v, dirty) ==
  \E d \in {"ready", "broken"} :
    /\ Ensure(d)
    /\ \/ Done(t) /\ Files(Swept(d), body)
       \/ \E p \in newPath :
            /\ d = "ready" /\ Swept(d)[p] = 0
            /\ st' = [st EXCEPT ![t] = [Idle EXCEPT !.pc = "writing", !.key = k, !.path = p,
                                                   !.dirty = dirty]]
            /\ Forget(t)
            /\ Files(Created(Swept(d), p, p), [body EXCEPT ![p] = v])

\* bufForExisting downloads the object, bufFromGet has it.  Done stands for
\* a download that failed and for a buffer that stays in memory.
Load(t) ==
  LET v == IF st[t].ver # 0 THEN st[t].ver ELSE s3[st[t].key] IN
  /\ st[t].pc = "load"
  /\ \/ v # 0 /\ Spill(t, st[t].key, v, FALSE)
     \/ v = 0 /\ Done(t) /\ UNCHANGED <<disk, name, body>>
  /\ UNCHANGED <<s3, ver, had, idx, left>>

\* A new file outgrows its memory buffer: maybeSpillLocked.
Create(t, k) ==
  /\ ver < MaxVersion
  /\ ver' = ver + 1
  /\ Begin(t) /\ Spill(t, k, ver', TRUE)
  /\ UNCHANGED <<s3, had, idx>>

WriteSpill(t) ==
  /\ st[t].pc = "writing"
  /\ ver < MaxVersion
  /\ ver' = ver + 1
  /\ st' = [st EXCEPT ![t].dirty = TRUE]
  /\ Files(name, [body EXCEPT ![st[t].path] = ver'])
  /\ UNCHANGED <<s3, had, disk, idx, seen, left>>

\* flush: putSpill uploads what changed; its answer may be lost.
Flush(t, drop) ==
  LET v == body[st[t].path] IN
  /\ st[t].pc = "writing"
  /\ \/ /\ ~st[t].dirty /\ drop = "closeDrop"
        /\ Goto(t, "link")
        /\ UNCHANGED <<s3, had>>
     \/ /\ st[t].dirty
        /\ Bucket(st[t].key, v)
        /\ \/ st' = [st EXCEPT ![t].pc = drop, ![t].ver = v]
           \/ UNCHANGED st
  /\ UNCHANGED <<ver, disk, idx, name, body, left>>

\* Mutant: Sync adopts the spill file, which is still written.
FlushDropAdopts(t) ==
  LET p == CHOOSE q \in newPath : TRUE IN
  /\ st[t].pc \in {"syncDrop", "closeDrop"}
  /\ st' = [st EXCEPT ![t].pc = IF @ = "syncDrop" THEN "writing" ELSE "destroy",
                      ![t].dirty = FALSE]
  /\ idx' = Put(idx, st[t].key, [etag |-> st[t].ver, size |-> st[t].ver, path |-> p],
                Cost[st[t].ver], MaxBytes)
  /\ name' = [q \in Name |-> IF q \in (Paths(idx) \cup {p}) \ Paths(idx') THEN 0
                             ELSE IF q = p THEN st[t].path ELSE name[q]]
  /\ UNCHANGED <<s3, ver, had, disk, body, seen, left>>

\* putSpill drops the entry the upload replaced and tells the ETag.
FlushDrop(t) ==
  /\ st[t].pc \in {"syncDrop", "closeDrop"}
  /\ \E e \in ETags(st[t].ver) :
       st' = [st EXCEPT ![t].pc = IF @ = "syncDrop" THEN "writing" ELSE "link",
                        ![t].etag = e, ![t].ver = 0, ![t].dirty = FALSE]
  /\ Index(Removed(idx, st[t].key), {})
  /\ UNCHANGED <<s3, ver, had, disk, seen, left>>

\* t links its file as p, or cannot and goes on at s.
Linked(t, n, s, otherwise) ==
  \/ \E p \in newPath :
       /\ n[st[t].path] # 0 /\ n[p] = 0
       /\ st' = [st EXCEPT ![t].pc = s, ![t].dst = p] /\ UNCHANGED seen
       /\ Files(Created(n, p, n[st[t].path]), body)
  \/ Goto(t, otherwise) /\ Files(n, body)

\* adopt of an uploaded spill file, once its handle is closed.
Link(t) ==
  /\ st[t].pc = "link"
  /\ \/ /\ st[t].etag = 0
        /\ Goto(t, "destroy")
        /\ UNCHANGED <<disk, name, body>>
     \/ /\ st[t].etag # 0
        /\ \E d \in {"ready", "broken"} :
             /\ Ensure(d)
             /\ \/ d = "ready" /\ Linked(t, Swept(d), "adopt", "destroy")
                \/ d = "broken" /\ Goto(t, "destroy") /\ Files(name, body)
  /\ UNCHANGED <<s3, ver, had, idx, left>>

Adopt(t) ==
  /\ st[t].pc = "adopt"
  /\ st' = [st EXCEPT ![t].pc = "destroy", ![t].dst = 0]
  /\ insert(st[t].key, st[t].etag, st[t].dst, body[st[t].path])
  /\ UNCHANGED <<s3, ver, had, disk, seen, left>>

\* fileBuf.destroy.
Destroy(t) ==
  /\ st[t].pc = "destroy"
  /\ Done(t)
  /\ Files([name EXCEPT ![st[t].path] = 0], body)
  /\ UNCHANGED <<s3, ver, had, disk, idx, left>>

------------------------------------------------------------------------------
(* Mutations, and what others do.                                          *)

\* delete, put of contents in memory (v is new) and PresignPut (v is what
\* there was) end with dropDeleted.  One whose answer is lost is Foreign.
Mutate(t, k, v) ==
  /\ v \in {0, s3[k], ver + 1} \cap (0 .. MaxVersion)
  /\ ver' = IF v > ver THEN v ELSE ver
  /\ Bucket(k, v)
  /\ Start(t, [Idle EXCEPT !.pc = "drop", !.key = k])
  /\ UNCHANGED <<disk, idx, name, body>>

Drop(t) ==
  /\ st[t].pc = "drop"
  /\ Done(t)
  /\ Index(Removed(idx, st[t].key), {})
  /\ UNCHANGED <<s3, ver, had, disk, left>>

\* CopyObject.
Copy(t, a, b) ==
  /\ a # b /\ s3[a] # 0
  /\ Bucket(b, s3[a])
  /\ Start(t, [Idle EXCEPT !.pc = "copied", !.key = b, !.src = a])
  /\ UNCHANGED <<ver, disk, idx, name, body>>

\* copied looks at the entry of the source.
Copied(t) ==
  LET a == st[t].src
      b == st[t].key
  IN  /\ st[t].pc = "copied"
      /\ \E x \in Gets(a) :
           \/ /\ Has(x, a)
              /\ st' = [st EXCEPT ![t].pc = "copyLink", ![t].src = None,
                                  ![t].etag = x.val[a].etag, ![t].ver = x.val[a].size,
                                  ![t].path = x.val[a].path]
              /\ Index(x, {}) /\ UNCHANGED seen
           \/ ~Has(x, a) /\ Done(t) /\ Index(Removed(x, b), {})
      /\ UNCHANGED <<s3, ver, had, disk, left>>

CopyLink(t) ==
  /\ st[t].pc = "copyLink"
  /\ Linked(t, name, "copyInsert", "drop")
  /\ UNCHANGED <<s3, ver, had, disk, idx, left>>

CopyInsert(t) ==
  /\ st[t].pc = "copyInsert"
  /\ Done(t)
  /\ insert(st[t].key, st[t].etag, st[t].dst, st[t].ver)
  /\ UNCHANGED <<s3, ver, had, disk, left>>

\* Another client writes or deletes k.
Foreign(k) ==
  /\ Fault
  /\ \E v \in {0, ver + 1} \cap (0 .. MaxVersion) :
       v # s3[k] /\ Bucket(k, v) /\ ver' = IF v > ver THEN v ELSE ver
  /\ UNCHANGED <<disk, idx, name, body, st>>

\* Someone cleans the directory.
Vanish(p) ==
  /\ Fault
  /\ name[p] # 0
  /\ UNCHANGED <<s3, ver, had, disk, idx, st, seen>>
  /\ Files([name EXCEPT ![p] = 0], body)

\* The process ends; a new one finds its files.
Crash ==
  /\ Fault
  /\ disk # "fresh"
  /\ disk' = "fresh"
  /\ idx' = Empty
  /\ st' = [t \in Thread |-> Idle]
  /\ seen' = [t \in Thread |-> {}]
  /\ had' = Current
  /\ Files(name, body)
  /\ UNCHANGED <<s3, ver>>

------------------------------------------------------------------------------
Next ==
  \/ \E t \in Thread :
       \/ \E k \in Key :
            \/ \E write \in BOOLEAN : OpenFile(t, k, write)
            \/ \E write \in BOOLEAN, v \in Version : OpenCached(t, k, write, v)
            \/ Create(t, k)
            \/ \E v \in 0 .. MaxVersion : Mutate(t, k, v)
            \/ \E j \in Key : Copy(t, j, k)
       \/ HeadObject(t) \/ GetObject(t) \/ OpenEntry(t) \/ FOpen(t) \/ Gone(t)
       \/ Fetch(t) \/ Fill(t) \/ Insert(t) \/ End(t)
       \/ Load(t) \/ WriteSpill(t) \/ Flush(t, "syncDrop") \/ Flush(t, "closeDrop")
       \/ FlushDrop(t) \/ Link(t) \/ Adopt(t) \/ Destroy(t)
       \/ Drop(t) \/ Copied(t) \/ CopyLink(t) \/ CopyInsert(t)
  \/ \E k \in Key : Foreign(k)
  \/ \E p \in Name : Vanish(p)
  \/ Crash

Spec == Init /\ [][Next]_vars

------------------------------------------------------------------------------
(* Properties.                                                             *)

\* A cached body is the contents its ETag names, whatever was uploaded,
\* linked, written or expired since.
EntriesAreTrue ==
  \A k \in DOMAIN idx.val :
    LET i == name[idx.val[k].path] IN i # 0 => body[i] = idx.val[k].etag

\* "Entries are validated by ETag on every open": what an open serves from a
\* local file is a version the object had at some time during that open, or
\* the one a head of the memory cache told, and stays so for the life of the
\* handle.
OpenIsFresh ==
  \A t \in Thread : st[t].pc = "reading" => body[st[t].path] \in seen[t]

\* The owners of file p: entries of the index, and operations that still
\* have to insert or to remove it.
Owners(p) ==
  {<<"entry", k>> : k \in {j \in DOMAIN idx.val : idx.val[j].path = p}}
    \cup {<<"operation", t>> : t \in {u \in Thread :
            \/ st[u].dst = p
            \/ /\ st[u].path = p
               /\ st[u].pc \in {"insert", "writing", "syncDrop", "closeDrop", "link",
                                "adopt", "destroy"}}}

\* Every file in the directory has exactly one owner, so that it is removed
\* once, and none is left behind: not by a replaced, rejected or evicted
\* entry, a failed download or link, nor by an earlier process.
FilesAreOwned ==
  disk = "ready" => \A p \in Name : name[p] # 0 => Cardinality(Owners(p)) = 1

\* used is the sum of the costs of the entries and within maxBytes, through
\* replacements, rejections, expiries and evictions.
BudgetKept == WithinBudget(idx, MaxBytes)

==============================================================================
