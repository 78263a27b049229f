# A TLA+ model of go-billy-s3fs

`s3fs` is a `billy.Filesystem` kept in an S3 bucket. This directory models the
parts of it that keep state or take several requests, checks them with TLC on
small instances, and proves with TLAPS, for every value of the constants, every
safety property the passing runs check: of the file lock, the cross-process
lock, the write handles, the memory cache, the disk cache and its index, the
bytes behind a handle and the calls on names.

## The system

| part | source | state | operations | why it is hard |
|---|---|---|---|---|
| file locks | `lock.go`, `Lock`/`Unlock`/`Close` in `file_read.go`, `file_write.go` | a map from path to `pathLock` (owner, waiters, freed channel); the `closed` flag of each handle | `lock`, `unlock`, `releaseOnClose` | goroutines block, are woken and cancelled; a backend that blocks and fails sits in the middle |
| cross-process lock | `lock_s3.go` | one object per lock, `held` entries, one heartbeat goroutine per held lock | `Lock`, `Unlock`, renewal, takeover | leases, clocks, lost answers, crashes |
| write handles | `file_write.go`, `OpenFile`/`Stat` in `s3fs.go` | buffer, dirty and closed flags, count of attached readers, `openWrites` | open, write, `Sync`, `Close`, shared reads | opens that race with a `Close`, uploads that fail |
| memory cache | `mem.go`, `s3ops.go` | entries for keys and directory prefixes | filled by reads, updated by put, delete, copy | a request and the update of the cache are two steps |
| LRU index | `lru.go` | entries, costs, expiries | get, put, delete | budget, eviction, ttl |
| disk cache | `disk.go` | files on disk by key and ETag, spill files | open, fill, adopt, drop | files outlive entries, hard links |
| read handles | `file_read.go` | an open body and a position | read, ranged read | the object changes under a reader |
| namespace | `s3fs.go`, `s3ops.go` | none but the bucket | resolve, rename, remove, list, mkdir, symlink | many requests per operation, failures between them |
| buffers, pools | `file_write.go`, `pool.go` | recycled byte arrays | write, truncate | stale bytes in recycled capacity |
| presigned URLs | `presign.go` | none | presign; drops a cache entry | uploads nobody sees |

The handles call `lockManager`, which calls a `Locker`, usually `S3Locker`.
`OpenFile` looks into `openWrites` first, then asks the primitives of
`s3ops.go`, which consult the caches and the bucket. `Close` uploads, leaves
`openWrites`, releases the lock and recycles the buffer, in this order.

What makes each part correct:

* file locks: one holder per path; a holder is backed by the map and by the
  backend; no wake-up is lost and no entry leaks; a closed handle holds nothing;
* cross-process lock: one holder while requests are timely and clocks agree;
  conditional writes protect what is live in any case; a crash delays others by
  at most the lease;
* write handles: opens see the newest contents; a successful `Close` has
  uploaded everything; a buffer lives as long as its readers;
* memory cache: what it says is what the bucket has, or had a ttl ago;
* LRU index and disk cache: the budget is exact; an entry's file is what its
  ETag names; an open serves a version the object had; every file has an owner;
* buffers and read handles: a handle reads what was written, whatever array or
  file is behind it; a reader gets the bytes of one version, at their place;
* namespace: a call does to the bucket what its name says; interrupted or
  disturbed, it loses no contents; it always returns.

## Modules

| module | what it is |
|---|---|
| `ExclusiveLock` | abstract specification: one holder, released before the next |
| `LockManager` | `lock.go` and the handles' lock calls, one path, any number of `S3FS` instances |
| `S3Locker` | `lock_s3.go`, one lock object, any number of processes |
| `WriteHandles` | the handles of one path in one instance |
| `MemCache` | the memory cache of one instance and the requests that fill and update it |
| `LRUIndex` | `lru.go`: order, costs and budget, as operators on an index |
| `DiskCache` | `disk.go` over `LRUIndex`, with the opens, uploads, copies and deletes that use it |
| `PosixFile` | abstract specification: a file that is open for writing |
| `FileIO` | the bytes behind a handle: `memBuf`, `fileBuf`, `s3Backend` and pinned bodies |
| `Namespace` | the `billy` calls on names, as sequences of requests |
| `LockManagerProofs`, `S3LockerProofs`, `WriteHandlesProofs`, `MemCacheProofs`, `DiskCacheProofs`, `FileIOProofs`, `NamespaceProofs` | the theorems about the module of that name |
| `Induction` | induction over numbers and finite sets, and definition by recursion, for the proofs |
| `MC...` | the instances TLC checks |

Operators named `Mutant: ...` in a comment are wrong variants of the definition
that follows them. They are not part of any specification; replacing the
definition by its mutant must make the named property fail, which shows that
the property depends on that piece of code.

### LockManager

`locks[p]` is the map of instance `p` for the path, pointing to a cell of a
heap; `owner` and `waiters` are the fields of the `pathLock` in a cell. Cells
are reused only when nothing points to them, as the garbage collector does, so
a goroutine that waits on an entry that left the map would be noticed. The
`freed` channel a waiter captured is `woken[t]`: a release wakes exactly those
that wait on the cell at that moment, later ones wait on the new channel.

A goroutine's step is what the code does under `lockManager.mu`, or one call of
the backend:

* `LockCall`, `UnlockCall`, `CloseCall`: the handle's method up to its check of
  `closed`; `Close` also sets it. A call on a closed handle changes nothing and
  is left out.
* `AcquireLocal`, `Wake`: a pass of the loop (`LoopPass`, `TakeOrWait`,
  `WaitOn`); `CancelWait`: the `ctx.Done()` case with `cleanupLocked`.
* `ExtLock`, `ExtLockFail`, `Undo`: the backend's part of `lock`. The backend is
  an exclusive lock between instances. A failed `ext.Lock` may leave it taken
  (`Orphan`) until its lease runs out (`ExtExpire`).
* `Holds`, `ExtUnlock`, `ExtUnlockFail`, `Release`: `unlock` and
  `releaseOnClose`, which differ only in what they do with an error. A failed
  `ext.Unlock` does to the backend what `S3Locker.Unlock` does (`Forsaken`): the
  lock left `held` and its heartbeat was stopped before the first request, so the
  object was deleted and the answer lost, or it is an `Orphan` until its lease
  runs out. The handle stays the owner in the map (`Lapsed`) until a retry or
  `Close`; in the history `granted` it has been without the lock since its
  `Unlock` began.

`SharedHandles` says whether goroutines may be inside one handle at the same
time, `Relock` whether the application calls `Lock` again on a handle whose
`Unlock` failed. Several of the guarantees need both to be false; what fails
otherwise is listed under the runs.

### S3Locker

`obj` is the lock object, a record of owner and expiry. Its ETag is the digest
of both, so equality of records is equality of ETags. Owner IDs are random;
the model uses the pair of process and number of the `Lock` call. A request is
sent in one step, which fixes the expiry it carries, and takes effect and is
answered in another; `LockFail`, `HbFail` and `UnlockFail` are requests that
fail, before or after taking effect. Every process reads its own clock,
`now + Skew[p]`. For `If-Match` on an object that is gone both answers seen in
practice, 412 and 404, are possible.

`Timely` restricts `Tick`: time does not pass a request older than `Latency`, a
due heartbeat, or a heartbeat that was told to stop. `Crash` loses everything
but the object.

### WriteHandles

Contents are version numbers: each modification creates the next one. A handle
is opened once with one of the flag combinations in `Flag`; `Stat` is an open
that stops after finding a version. `OpenFile` is `lookupWrite`; `Attach` is
what is done under the mutex of the writer found; `Resolve` asks the bucket;
`Track` is the `trackWrite` at the end of `newWriteFileBuf`. `Flush`, `Put`,
`PutFail` and `Finish` are `Sync` and `Close`, during which the writer's mutex
is held. `wrote`, `put`, `floor`, `got` and `replaced` (writers whose
`openWrites` entry another one took) are history variables used by the
properties only. `oneWriter` is chosen at first and says whether the
application opens a second writer while one is open.

### MemCache

Keys are files in directories and directory markers; `Above[k]` are all prefixes
of `k` that end in a slash, over which `markDirsLocked` and `dropDeleted` loop.
`Miss`, `Hit` and `List`
send the request of a read, the `...Fill` actions store its answer; `Put`,
`Delete` and `Copy` change the bucket, `PutStore`, `DelDrop` and `CopyStore`
update the cache. Heads and bodies are versions; a body that is not in `Small`
does not fit an entry. An entry may leave at any time (`Evict`), which covers
the LRU order and the budget. `PresignPut` drops the entry and hands the URL
out, for the files in `Signed`; `Upload` is what its holder does.

`Spec` has no other writer, which is what a ttl of zero is for. `TTLSpec` adds
`Foreign` writes and `Tick`; an entry expires at its `exp` and `Fresh` is the
lookup that sees it. `since[k]` is when the others last wrote.

### LRUIndex and DiskCache

`LRUIndex` is a record of order, values, costs and the counter `used`; `Put`,
`Removed` and `Touch` are the list operations, and what leaves the index is what
`onEvict` is called with. `used` is kept by addition and subtraction as in the
code, `WithinBudget` compares it with `Spent`, the running sum of the costs in
the order of the list.

In `DiskCache` a file is a name for an inode, so `os.Link` shares contents and
an open file survives the removal of its name. A step is one request, one
system call on the directory, or what is done under the mutex of the cache:

* an open starts with a head from the memory cache (`OpenCached`), which may be of
  any version the object had since the process began (`had`), or without one: it
  is `OpenFile`, `HeadObject` or `GetObject`, a look into the cache
  (`OpenEntry`), `FOpen` of the entry's path outside of the mutex (which finds
  the file or, in `Gone`, forgets the entry), else `Fetch`, `Fill`, `Insert`;
  `Load` is the download into a spill file by `bufForExisting` and `bufFromGet`;
* a spill file is created, written, uploaded (`Flush`), linked (`Link`), adopted
  (`Adopt`) and destroyed; the drop of the old entry (`FlushDrop`) is a step of
  its own;
* `Mutate` and `Drop` are the other puts, deletes and `PresignPut`; `Copy`,
  `Copied`, `CopyLink` and `CopyInsert` are `copied`;
* `Foreign` is another client, `Vanish` a file removed behind the cache's back,
  `Crash` a restart that leaves the directory as it is until `ensure` sweeps it.

Any answer may come without an ETag (`ETags`). `Filed` is what `diskFetch` then
files the body under, the ETag of the head; `UntaggedGet` says whether a GET may
lack the ETag although the head had one. `seen[t]` are the versions the object had
since `t` began to open it, and the one a cached head told, forgotten when the
operation ends.

### FileIO and PosixFile

A behaviour is the life of one handle. A write handle has a `memBuf`: a pointer
to an array, a length and a capacity, over a pool whose arrays any other file of
the process has written in; `maybeSpillLocked` moves it to a file beyond
`Threshold`. `Write`, `WriteAt`, `Truncate`, `ReadBuf`, `ReadBufAt`, `Seek` and
`Close` are the calls of `writeFile` and of the `sharedReadFile` on it; `Posix`
maps them to `PosixFile`, which knows contents and position only.

A read handle streams from an object that `Overwrite` replaces and whose
responses break off where `Cut` allows it (`ReadStream`, `ReadStreamAt`), or
reads a body pinned by a cache (`ReadPinned`, `ReadPinnedAt`). A stream that ends
before the file does is dropped without a word to the caller (`EndsEarly`) and
opened again by the next read. `torn` is what an application can know: the
versions it read since it last called `Seek` or was told of an error; `torn.early`
is what it cannot, that a stream ended early meanwhile.

### Namespace

The bucket is a function from keys to files, links and markers. A path is a
sequence of names; a marker's key ends with an empty name, so that keys sort as
their strings do. `st` is the call under way and its locals, and a step is one
of its requests: `ResolveLink`, `ResolveFile`, `ResolveNone` follow links up to
`MaxDepth`; `HeadLiteral`, `Dir`, `DirTold`, `RemoveDir` look at one path;
`ListAllKeys`, `Copy`, `Delete`, `Put` and `ReadDir` are the requests of the
calls that change or list. A listing comes in pages of any size: a page is what
follows the continuation token up to some last key (`After`, `Upto`), and the
listing ends with the page that has all of it (`LastPage`). `Fail` is a
request that fails, `Foreign` another client between two requests. `before`,
`touched` and `view` are history variables: the bucket when the call began, the
keys others touched since, and the children that were always or ever there.
The order in which a directory is copied and deleted is the order of the keys
(`Sorted`). `Expected` is the reference for `CallsAreExact`: what a call is to
answer and to leave behind as a function of the bucket alone, for calls that
follow links first (`Followed`) and for the others (`Straight`).

## Runs

All numbers are distinct states of the complete search, up to symmetry where a
cfg states one.

| run | instance | shows |
|---|---|---|
| `LockManager_cross` | 2 instances, 3 handles, 3 goroutines, backend that fails | `MutualExclusion`, `GrantIsBacked`, `EntryLifecycle`, `NoLostWakeup`, `ExtLockSerialized`, `ClosedHandleOwnsNothing`, refinement of `ExclusiveLock`; with fairness `FreedLockIsTaken`, `CancelEndsBlockedLock` (246,880) |
| `S3Locker_timely` | 2 processes, TTL 9, period 3, latency 1, one failure or crash | `HeldIsLeased` and with it refinement of `ExclusiveLock`, `RenewalStopsOnlyWhenLost`, `UnlockDeletesOnlyOwn`; with fairness `OrphanIsTakenOver`, whether a crash, a failed `Unlock` or a lost answer left the object (784,154) |
| `S3Locker_async` | no timing at all, clocks one second apart, two failures | `TakeoverOnlyExpired`, `NoLateRenewal` (841,472) |
| `WriteHandles_open` | 3 handles, one writer at a time (4 versions) or several (2) | `SharedBufferAlive`, `ClosedIsUploaded`, `WriterIsTracked`; with one writer at a time `OpenSeesNewest`, `NoLostUpdate` (1,453,374) |
| `MemCache_exclusive` | 2 files, one in a directory and one in its subdirectory, 2 goroutines, 3 uploads | `CacheIsCoherent` when mutations overlap nothing (372,419) |
| `DiskCache_tiers` | 2 keys, 2 goroutines, 3 operations, old heads, answers without ETags, another client, a lost file or a restart | `EntriesAreTrue`, `OpenIsFresh`, `FilesAreOwned`, `BudgetKept` (889,767) |
| `Namespace_calls` | every bucket of up to 3 keys over 4 paths with links, 1 foreign change | `CallsAreExact` against a reference function, `ContentsKept` and `ReadDirExact` when failed or disturbed; with fairness `CallsReturn` (878,903) |
| `FileIO_handles` | files of up to 3 bytes, spill beyond 2, an object overwritten twice | `BufferIsOwned`, refinement of `PosixFile`, `ReadsAreExact`, `TornOnlyByEarlyEnd` (133,114) |

The modules' type invariants are checked along. The remaining runs end in a
violation; each is a place where the code does less than a comment says:

| run | what happens |
|---|---|
| `LockManager_close_race` | `Close` between the closed check of `Lock` and `acquireLocal`: a closed handle keeps the lock |
| `MemCache_race` | a read is answered, a put of the same instance updates the cache, the read stores the old answer; nobody else writes and no URL is signed |
| `MemCache_ttl` | an open finds a head in the cache and no body, fetches the body and stores the old head with a new ttl: another client's write stays invisible for longer than the ttl |
| `Namespace_overlap` | the directory `a/x`, which has a subdirectory `x`, is renamed to `a`: keys it moves to are keys it has still to copy or delete |

### What the assumptions of the passing runs exclude

The passing runs fix constants under which a property holds. Changing them in
the cfg gives these counterexamples; several contradict a comment in the code as
the violation runs do:

* `SharedHandles = TRUE`: `GrantIsBacked` fails, since a second `Lock` of a
  handle returns nil while the first is still in the backend (`acquireLocal`
  sees its own handle as owner), against `lock.go:45` "lock blocks until owner
  holds the lock on path"; `ExtLockSerialized` fails, since `Unlock` of a handle
  that is inside `ext.Lock` lets another handle in and into the backend, against
  `lock.go:13-15` "Lock is never called concurrently for the same name by one
  S3FS instance". `EntryLifecycle` and `NoLostWakeup` survive, and are proved for
  this case too.
* A failed `Unlock`: `lock.go:60-61` says that "on external backend failure the
  lock stays held so the caller may retry". This is `FailedUnlockExcludes`, and
  it fails with the constants of `LockManager_cross`: `S3Locker` has given the
  lock up by then (`lock_s3.go:198-206`), and another instance is granted it
  before the retry. What does hold is that the other handles of the instance
  stay out, and that whoever is granted the lock has it alone.
* `Relock = TRUE`: `MutualExclusion` and `GrantIsBacked` fail. After a failed
  `Unlock` the handle is still the owner in the map, so that its `Lock` returns
  nil without asking the backend, which may have given the lock to another
  instance. `ExtLockSerialized` and `ClosedHandleOwnsNothing` survive, and are
  proved for this case too.
* `Timely = FALSE`: `UnlockDeletesOnlyOwn` fails, since the lease can run out
  between HEAD and DELETE, and the DELETE is unconditional.
* `LostRenewal = TRUE`: `RenewalStopsOnlyWhenLost` fails, against
  `lock_s3.go:239-240` "A precondition failure means the lock was taken over": a
  renewal takes effect and its answer is lost, the next one is refused because of
  the process's own write, and the heartbeat stops (`lock_s3.go:253`). Its lease
  then runs out, so that `HeldIsLeased` fails too, with this one failure.
* `UntaggedGet = TRUE` (and `MaxFaults = 2`): `OpenIsFresh` and `EntriesAreTrue`
  fail. A head has an ETag, the object is overwritten, the GET has no ETag: the
  new body is filed under the old ETag (`s3ops.go:470`), and served to an open
  that finds the old head in the memory cache.
* `ReadsAreNotTorn` in place of `TornOnlyByEarlyEnd`: fails, also with
  `Cut = FALSE`. An object is overwritten by a shorter and then by a longer one;
  the stream of the shorter ends early, `read` hides it (`file_read.go:228-232`)
  and the next read continues in the longer, with no error and no `Seek`. The
  comment at `file_read.go:197` has "sequential reads share one ranged-GET body".
* `Unlock` that failed after its entry left `held`: called again it returns nil
  (`lock_s3.go:200`) and the object stays until its lease is out. The models
  allow it; `OrphanIsTakenOver` says that others get the lock all the same.
* `oneWriter = FALSE`: `OpenSeesNewest` and `NoLostUpdate` are claimed for one
  writer at a time only. A second writer replaces the first in `openWrites`
  (`s3fs.go:218`); after its `Close` opens no longer find the first, and the
  later `Close` wins whatever it was opened on.
* `LostAnswer = TRUE`: `CacheIsCoherent` fails, since a mutation that takes
  effect and returns an error leaves the old cache entry in place.
* Reads between the signing of an upload URL and the upload fill the cache
  again, as the comment of `PresignPut` says (`presign.go:243-248`);
  `MemCache_exclusive` has the upload overlap nothing, as any other mutation, and
  `MemCache_race` signs no URL.
* `EmptyWrites = TRUE`: `BufferIsOwned` fails, since a write of no bytes beyond
  the end leaves `fileBuf.sz` larger than the file (`disk.go:197`).
* A write to a spill file that fails, on a full disk, is not modelled
  (`file_write.go:290-293` returns the error and leaves `dirty` as it was); the
  creation of a spill file may fail, and the buffer then stays in memory.
* `Overlap = TRUE`: `ContentsKept` fails, see `Namespace_overlap`.
* A store that answers an empty, truncated page would make `Remove` of an empty
  directory answer `ErrDirNotEmpty`; pages have at least one key here.
* `ReadAt` of a response that breaks off answers `io.EOF` with what it got;
  `ReadsAreExact` claims the bytes, and the end only for `Read`.

### Bounds

`LockManager` needs none: its state is finite for finite constants. Two
instances with two handles in one of them are the least with both kinds of
contention; three goroutines allow an owner, a waiter and a third party.
`S3Locker` bounds real time (`MaxTime`), calls of `Lock` (`MaxLocks`) and
failures (`MaxFaults`). Twenty seconds cover two leases of nine, hence a loss, a
takeover and a loss again; two calls per process cover a lock left behind by an
earlier call. TTL 9 with period 3 and latency 1 leaves room for one missed
renewal and not for two, so `MaxFaults` is 1 where exclusion is claimed.
`WriteHandles` bounds modifications (`MaxVersion`); three handles allow a
writer, a second writer and a reader. `MemCache` bounds uploads (`MaxVersion`);
a file in a directory and one in its subdirectory are the least that the loops
over ancestors and copies between directories need; version 2 is too large for
an entry, between two that fit. `MemCache_ttl` runs for two ttls (`TTL` 2,
`MaxTime` 4).

`DiskCache` bounds versions, operations (`MaxOps` 3) and what others do
(`MaxFaults` 1); of a budget of four, version 1 fits twice, 1 and 2 (costs two
and three) evict each other, 3 (cost five) is rejected. An entry is made by the
first operation, and the other two race over it. Both objects are there at first
(`Present`); an open finds none after a delete. The theorems hold for any
`Present`. `FileIO` bounds lengths
(`MaxLen` 3): below and beyond `Threshold` 2, within and beyond the capacity of
a recycled array. `Namespace` bounds the first keys (`MaxObjects` 3) and foreign
changes (`MaxForeign` 1); `MaxDepth` 2 instead of the code's 40 makes chains and
cycles of links reach the limit.

A state in which nothing is left to do (all handles closed, a bound reached) is
no deadlock, so the runs do not check for one. In `Namespace_calls`, where a
call must not get stuck, `CallsReturn` says so.

### Fairness

`LockManager_cross`: every step of a goroutine inside a call happens if it stays
possible, since `lockManager.mu` is never held across a blocking operation. The
application need not call anything and the backend need not fail; an
`ext.Lock` that can neither succeed nor be cancelled may wait for ever. Waiters
are not queued, so which of them gets the lock is not claimed.
`S3Locker_timely`: requests are answered, timers fire and time passes; no
process has to call anything or to come back after a crash.
`Namespace_calls`: every request of a call is answered or fails; nothing is
assumed of the application or of other clients.

## Proofs

A theorem holds for every value of the constants that satisfies the module's
named assumption, which only gives types (and, in `S3Locker`, a positive
period, in `DiskCache`, finitely many keys and goroutines, so that there are
names enough). A bucket of `Namespace` may be any finite one, its paths and
links of any length. Where a theorem needs more it says so, and the table does. A property
is proved from an inductive invariant that is stronger than it; each of these
invariants was checked with TLC on the instance of the run before it was proved.

| theorem | property | beyond the module's assumption |
|---|---|---|
| `TypeCorrect`, `EntriesAreKept`, `WakeupsAreKept` | `LockManager`: `TypeOK`, `EntryLifecycle`, `NoLostWakeup` | |
| `BackendIsCalledSerially`, `CloseReleases` | `ExtLockSerialized`, `ClosedHandleOwnsNothing` | `~SharedHandles` |
| `Exclusion`, `GrantsAreBacked` | `MutualExclusion`, `GrantIsBacked` | `~SharedHandles`, `~Relock` |
| `FlockRefinement` | `LockManager` implements `ExclusiveLock` | `~SharedHandles`, `~Relock`; a backend, or one instance |
| `LockerTypeCorrect`, `TakeoversAreExpired`, `RenewalsAreJoined` | `S3Locker`: `TypeOK`, `TakeoverOnlyExpired`, `NoLateRenewal` | |
| `RenewalGoesOn` | `RenewalStopsOnlyWhenLost` | `~LostRenewal` |
| `HoldersAreLeased`, `UnlocksDeleteOwn`, `LockerRefinement` | `HeldIsLeased`, `UnlockDeletesOnlyOwn`, `S3Locker` implements `ExclusiveLock` | `TimelyLease(G)`, failures within the grace `G`, `~LostRenewal` |
| `OneFailureExceptLostRenewal` | the same three | `TimelyLease(Interval + Latency)`, at most one failure, `~LostRenewal` |
| `HandlesTypeCorrect`, `BuffersAreAlive`, `ClosesAreUploaded`, `WritersAreTracked` | `WriteHandles`: `TypeOK`, `SharedBufferAlive`, `ClosedIsUploaded`, `WriterIsTracked` | |
| `OpensAreFresh`, `UpdatesAreKept` | `OpenSeesNewest`, `NoLostUpdate` | (both speak of `oneWriter` themselves) |
| `MemTypeCorrect` | `MemCache`: `TypeOK` | |
| `CacheCoherent` | `CacheIsCoherent` | `Exclusive`, `~LostAnswer` |
| `DiskTypeCorrect`, `FilesHaveOwner`, `BudgetHolds` | `DiskCache`: `TypeOK`, `FilesAreOwned`, `BudgetKept` | |
| `EntriesTrue`, `OpensServeFresh` | `EntriesAreTrue`, `OpenIsFresh` | `~UntaggedGet` |
| `ReadsExact`, `TornOnlyByEarlyEnds` | `FileIO`: `ReadsAreExact`, `TornOnlyByEarlyEnd` | |
| `BuffersAreOwned`, `FileRefinement` | `BufferIsOwned`, `FileIO` implements `PosixFile` | `~EmptyWrites` |
| `NamespaceTypeCorrect`, `ListingExact` | `Namespace`: `TypeOK`, `ReadDirExact` | |
| `NothingLost`, `CallsExact` | `ContentsKept`, `CallsAreExact` | `~Overlap` |

### Induction

The library states induction with an operator as parameter, which the provers
cannot instantiate. `FiniteInduction` and `NumberInduction` state it for the set
of what has been shown, and follow from well-foundedness of strict inclusion on
finite sets; `Least` is that a set of numbers that is not empty has a least one.
`Recursion` is that a recursively defined function exists and satisfies its
equation, for a step given as a function. The sums, listings and chains of links
of the proofs below rest on these four; the models define them as recursive
functions, never as recursive operators.

### LockManagerProofs

`MapInv` is the first inductive invariant. That a wake-up is not lost depends
on the entry being in the map, which depends on the waiter count being exact,
so it joins the three properties with: a goroutine points to a cell exactly
while it waits (`CallInv`), no two instances share a cell (`CellInv`), an owner
belongs to the instance (`OwnerInv`). The counting steps rest on the
cardinality theorems for finite sets: a goroutine that leaves a wait is removed
from a set it was in, so a count is positive before it is decremented.

`SafeInv` adds what is true when a handle has one caller (`UseInv`). Exclusion
alone is not inductive: it needs to know that whoever owns the local lock has
been granted it, is on the way in or out, or lapsed when its `Unlock` failed
(`OwningInv`, `GrantInv`), and that with a backend the instance of a granted
handle holds the backend lock until `ext.Unlock` (`BackendInv`). A lapsed handle
still owns the map entry, so that no other handle of its instance gets past it;
that it is not granted again without the backend is what `~Relock` provides, and
the clauses that need it say so. `PassOutcome`, `CancelOutcome` and
`ReleaseOutcome` reduce the actions to what they do to the set of owners, and
`MoveKeepsUseInv` treats all remaining steps alike.

### S3LockerProofs

`LeaseInv` needs no timing. The conditional requests are a compare-and-swap on
records that carry an owner ID, and owner IDs are not used twice (`OwnerInv`); a
takeover is conditional on an object its process found expired (`SeenInv`); a
heartbeat runs only between the grant and the join in `Unlock`, for an object of
this `Lock` (`HeartInv`), and knows the object it renews unless an answer was
lost (`EtagInv`). From this follow, whatever the delays, clocks and failures, the
first row of theorems. `RenewInv` adds for `RenewalGoesOn` that, no answer to a
renewal being lost, a heartbeat that ended by itself did not own the object any
more; nobody but its owner writes an owner ID, so it stays lost.

Exclusion is a matter of time. `TimelyLease(G)` says that requests are answered
within `Latency` and timers fire on time (`Timely`) and that a lease outlasts
`G`, one period, two requests and the difference of any two clocks; that no
renewal takes effect and loses its answer (`~LostRenewal`) is a hypothesis of
its own, which the code does nothing for; the code's
period is a third of the ttl, so with small latencies and clocks in step there
is room for a `G` of nearly two periods. `FailsInGrace(G)` is a condition on
steps: a renewal that fails is one sent at most `G` after the request that wrote
the lease. With `G = Interval + Latency` it says that no two renewals fail in a
row, which is what the heartbeat relies on when it only waits for its next tick.
`TimeInv` strengthens `LeaseInv` with the age of the request under way, with the
time the ticker fires next, and with a lease that by everybody's clock covers
what is left to do before the next renewal or until the delete is answered. TLC
found it invariant with three failures, on 2,270,816 states.
`OneFailureExceptLostRenewal` has no condition on steps: until the first failure
the lease is the one the last tick wrote (`FirstInv`), so the first failure is
always in the grace.

### WriteHandlesProofs

`HandleInv` holds whatever is opened. `WriterIsTracked` and `SharedBufferAlive`
are inductive only together with where a handle is: what `openWrites` names is an
open writer, what a reader attached to is a writer that is open or was closed
(`PhaseInv`). That a successful `Close` has uploaded everything rests on: what was
written is uploaded or the handle is dirty (`UploadInv`).

`OneWriterInv` is about behaviours with one writer at a time: that writer has the
newest contents and, when clean, those of the object, and an open under way will
find what it has to, in the buffer of the writer it found until that is closed
and in the object from then on. `Newest` is a maximum; that it exists is proved
in `MaxExists` by well-foundedness of strict inclusion on finite sets. TLC
checked both invariants on the run's 1,453,374 states.

### MemCacheProofs

Coherence says nothing of a key that is being changed, so alone it is not
inductive. `MemInv` adds that a read is about to store what the bucket has
(`ReaderTrue`), and that a mutation is alone, has left only its own entries untrue
and knows what the bucket has (`WriterTrue`). `Exclusive`, a mutation that overlaps
no other operation, is what the caller provides and not the code: `MemCache_race`
shows that the property fails without it. `~LostAnswer` is needed because an
error after the effect leaves the old entry. TLC checked `MemInv` on the run's
372,419 states. `TypeOK` is proved without either.

### DiskCacheProofs

None of the properties is inductive: whether an entry is true depends on what the
operation that makes it knew of its file, and that on nobody else writing or
removing the file in between. `DiskInv` says of each goroutine, for the place
where it stands, which locals are set (`PhaseOf`), that what it knows of the
object the object had during the open (`SeenOf`), what its files contain
(`BodyOf`), and that a spill file that may still be written has one name and one
user (`SpillOf`); and of the directory that no file has two owners (`OwnInv`),
that each has one once `ensure` has swept it (`KeptInv`), and that entries are
true. The list of the index holds the keys of the values, each once (`IndexOK`).
That a body is the version its ETag names (`Names`) is said up to `UntaggedGet`,
so that one invariant serves the theorems that need `~UntaggedGet` and those that
do not.

A step changes what one goroutine has, so the proof separates the two. `Frame`,
`OwnFrame` and `KeptFrame` say what a step may do to the files of others: only a
spill file is written and only by its user, a taken name is not given to another
file, new links go to inodes the goroutine found by its path, a file changes
owner from an operation to an entry and is removed when it loses its owner.
`StepKept` shows that such a step keeps everything for the others and for the
entries; `IndexKept`, `RequestKept` and `FileKept` are its forms for steps on the
index, on the bucket and on the directory; one lemma per action does the rest.
Of the index the proof uses that no operation invents an entry (`TouchIs`,
`RemovedIs`, `PutIs`); `MinIs` shows, by `Least`, that the eviction loop ends at
a least prefix. A restart forgets all goroutines and entries, which makes the invariant
hold whatever is in the directory (`FreshInv`): that is why `ensure` has to sweep
before the first file is made. TLC checked the invariant, and that a free name is
always left, on the run's states.

The budget is a sum. `Spent` exists by `Recursion` (`SpentIs`), and two stretches
of lists with equal costs add equal amounts (`Stretch`, by induction on their
length). An index operation takes one key out of the list, appends one or cuts
off the oldest, so the sum changes by the cost of that key (`SumSkips`,
`SumAppend`) or by that of what is cut off (`SumSuffix`). `Sound` says that `used`
is the sum, `Afford` that it is within the budget besides; `PutSound` has
the heart of it, that the loop of `put` stops with enough evicted, also when the
key was there before with another cost and when the new value alone is too large.
`NextMoves` reduces every step to an operation on the index (`IndexMoves`); that
an inserted cost is a number needs `BodyOf`, the file of an `Insert` or `Adopt`
being one of a version.

### FileIOProofs

`ReadInv` needs no assumption: unless a stream ended early, what was read since
the last `Seek` or error is of the version of the response that is open, and a
stream stands where the file does. The next bytes are therefore the next ones of
the same version. An early end is the one way out, and reads do take it.

`WriteInv` describes the buffers: the array is owned and the length within its
capacity, or all is in the spill file, whose size is `sz`; a closed handle holds
neither. The lemmas on
the operators of `memBuf` and `fileBuf` (`GrowIs`, `MemWriteIs`, `MemTruncateIs`,
`FileWriteIs`, `FileTruncateIs`, `SpillIs`) show each of them to be the
abstract write or resize on the bytes it holds, zeros in recycled capacity
included, and `NextWriteInv` shows at once that a step keeps the invariant and is
a step of `PosixFile` or leaves it alone. `~EmptyWrites` excludes the write of no
bytes past the end, after which `sz` is wrong.

### NamespaceProofs

`NsInv` is the first inductive invariant. With the types it has what each place
of a call knows of its arguments (`PhaseInv`), that the keys of a rename are under
its path and go elsewhere (`KeysInv`), that nothing was there that is about to be
made (`PutInv`), and for `ContentsKept` (`KeptInv`): until a call changes something
the bucket is what it was but for what others did (`Untouched`), and during a
rename every key is at its place until it is deleted, and where it goes once it
is copied (`CopyInv`). A foreign change or a failure may come between any two of
these requests. `~Overlap` is needed because the copies must not meet the
sources: no key a rename moves is where another one goes (`Apart`), unless the
path is renamed to an ancestor of itself. `Namespace_overlap` is the
counterexample to the rest.

`DirInv` is about the pages of `ReadDir`, among which others create and delete.
What was there all the time and is `Passed` by the continuation token is among
the names, what is among the names was there at some time, and a name that was a
file all the time was never a directory, nor the reverse. The difficulty is a
name that is both, `a` and `a/b`: it is listed by one of the two, whichever page
has which, and the token may stand between them. That pages miss nothing rests on
the order of the keys being total and on every finite set having a last key, by
induction on the set.

`ExactInv` holds while nobody interferes. `KnowsInv` says that the path is the
`Trail` of links followed so far, that the chain the reference follows
(`LeadsTo`) ends there, and what the answers so far imply for the bucket the call
began with. `MovesInv` says what a rename has done to that bucket: the keys it
listed are those it has to move (`Sources`, by `Passed` again), and the bucket is
the first one with the keys copied so far added and those deleted so far removed
(`Moving`), which at the end is what `Renamed` says at once. Each call then ends
as the reference does, one lemma per action and kind of call. TLC checked the
three invariants on the run's 878,903 states.

### Only model-checked

* Liveness (`FreedLockIsTaken`, `CancelEndsBlockedLock`, `OrphanIsTakenOver`,
  `CallsReturn`): the prover does not handle fairness.
* What the violation runs show: a counterexample needs no proof.

## Not modelled, and the plan

Models that could be added: `LockManager` over `S3Locker` in place of the
abstract backend, and `Rename` of a path that is being written (`Rename`,
`Remove` and `ReadDir` do not look at `openWrites`), which needs `Namespace` and
`WriteHandles` in one state. Of the memory cache in front of the disk cache
`DiskCache` has the heads it may answer with, not when it has them.

Left out for good: signing of URLs (`presign.go`, done by the SDK), accessors
and modes (`info.go`), key syntax, option parsing, wording of errors, and calls
that only forward (`Chroot`, `TempFile`, `Join`).
