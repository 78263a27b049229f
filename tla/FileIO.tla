------------------------------- MODULE FileIO -------------------------------
(***************************************************************************)
(* The bytes behind a handle.  A behaviour is the life of one file:        *)
(*                                                                         *)
(*  - open for writing: the memory buffer over arrays that a process-wide  *)
(*    pool recycles (memBuf, pool.go), its migration to a spill file       *)
(*    (maybeSpillLocked, fileBuf), and the calls of writeFile and of a     *)
(*    sharedReadFile, which reads the same buffer;                         *)
(*  - or open for reading: s3Backend, which streams from an object that    *)
(*    others may overwrite meanwhile, or a body that is pinned by the      *)
(*    memory or the disk cache (bytesBackend, fileBackend).                *)
(*                                                                         *)
(* A byte written is Zero, one of this file (Mine) or one that another     *)
(* file left in an array (Other).  Bytes of an object are pairs of the     *)
(* version and the place they have in it.                                  *)
(***************************************************************************)
EXTENDS Integers, Sequences, FiniteSets

CONSTANTS
  MaxLen,       \* bound on offsets and lengths
  Threshold,    \* spillThreshold
  MaxPooled,    \* maxPooledDataBytes
  MaxVersion,   \* bound on the versions of the object
  EmptyWrites,  \* TRUE when the application writes zero bytes
  Cut,          \* TRUE when a response may break off
  None          \* no file, no body, no result

Zero  == 0
Mine  == 1
Other == 2
Byte  == {Zero, Mine, Other}

\* A response of GetObject: the version, its length and the place reached.
Response == [ver : Nat, len : Nat, at : Nat]

ASSUME FileIOAssumption ==
  /\ MaxLen \in Nat \ {0}
  /\ Threshold \in Nat /\ MaxPooled \in Nat /\ MaxVersion \in Nat
  /\ EmptyWrites \in BOOLEAN /\ Cut \in BOOLEAN
  /\ None \notin Seq(Byte) \cup Response

Offset == 0 .. MaxLen

\* What the application writes, and what it finds when it opens the file.
Chunk == {<<Mine>>, <<Mine, Mine>>} \cup (IF EmptyWrites THEN {<<>>} ELSE {})
Start == {<<>>, <<Mine>>}

VARIABLES
  kind,  \* "write", "closed"; "stream" or "pinned" for a read handle
  mb,    \* memBuf and pool: [heap, ptr, len, pool]; array 0 is nil
  file,  \* contents of the spill file, or None
  sz,    \* fileBuf.sz
  pos,   \* position of the handle
  out,   \* what the last read returned
  obj,   \* the object being streamed: [ver, len], or None
  size,  \* info.size of a read handle
  body,  \* the open response: [ver, len, at], or None
  torn   \* history since the last Seek or error returned: the versions read,
         \* and whether a stream ended early

writer == <<kind, mb, file, sz>>
reader == <<kind, obj, size, body>>
vars   == <<kind, mb, file, sz, pos, out, obj, size, body, torn>>

Id == 0 .. 3

Least(a, b)    == IF a < b THEN a ELSE b
Greatest(a, b) == IF a > b THEN a ELSE b

------------------------------------------------------------------------------
(* memBuf over recycled arrays.                                            *)

Array(m) == m.heap[m.ptr]

\* An array nobody refers to.
Unused(m) == CHOOSE a \in Id \ {0} : a # m.ptr /\ a # m.pool

\* recycleData of array a.  sync.Pool may drop what it holds: it is modelled
\* with room for the last array, in which any file of the process writes from
\* now on.
recycleData(m, a) ==
  IF Len(m.heap[a]) \in 1 .. MaxPooled
  THEN [m EXCEPT !.pool = a, !.heap[m.pool] = <<>>, !.heap[a] = [i \in DOMAIN @ |-> Other]]
  ELSE [m EXCEPT !.heap[a] = <<>>]

\* Mutant: reused capacity is not cleared.
GrowStale(m, end) ==
  IF end <= m.len THEN m
  ELSE IF end <= Len(Array(m)) THEN [m EXCEPT !.len = end]
  ELSE LET a == Unused(m)
           grown == [i \in 1 .. Greatest(2 * Len(Array(m)), end) |->
                       IF i <= m.len THEN Array(m)[i] ELSE Zero]
       IN  [recycleData(m, m.ptr) EXCEPT !.heap[a] = grown, !.ptr = a, !.len = end]

grow(m, end) ==
  IF end <= m.len THEN m
  ELSE IF end <= Len(Array(m))
  THEN [m EXCEPT !.heap[m.ptr] = [i \in DOMAIN @ |->
                                    IF i \in m.len + 1 .. end THEN Zero ELSE @[i]],
                 !.len = end]
  ELSE LET a == Unused(m)
           grown == [i \in 1 .. Greatest(2 * Len(Array(m)), end) |->
                       IF i <= m.len THEN Array(m)[i] ELSE Zero]
       IN  [recycleData(m, m.ptr) EXCEPT !.heap[a] = grown, !.ptr = a, !.len = end]

\* memBuf.writeAt and memBuf.truncate.
memWriteAt(m, off, bs) ==
  LET g == grow(m, off + Len(bs)) IN
  [g EXCEPT !.heap[g.ptr] = [i \in DOMAIN @ |->
              IF i \in off + 1 .. off + Len(bs) THEN bs[i - off] ELSE @[i]]]

memTruncate(m, n) == IF n <= m.len THEN [m EXCEPT !.len = n] ELSE grow(m, n)

\* Mutant: the array stays in use after it went to the pool.
SpillKeeps(m) == recycleData(m, m.ptr)

\* The buffer lets go of its array: destroy, or the end of a migration.
release(m) == [recycleData(m, m.ptr) EXCEPT !.ptr = 0, !.len = 0]

\* The contents, as bytes or snapshot returns them.
Contents == IF file = None THEN SubSeq(Array(mb), 1, mb.len) ELSE file
BufLen   == IF file = None THEN mb.len ELSE sz

------------------------------------------------------------------------------
(* fileBuf: a file of the operating system and its size.                   *)

PosixWrite(f, off, bs) ==
  LET end == off + Len(bs) IN
  IF bs = <<>> THEN f
  ELSE [i \in 1 .. Greatest(Len(f), end) |->
          IF i \in off + 1 .. end THEN bs[i - off]
          ELSE IF i <= Len(f) THEN f[i] ELSE Zero]

PosixTruncate(f, n) == [i \in 1 .. n |-> IF i <= Len(f) THEN f[i] ELSE Zero]

\* maybeSpillLocked: the buffer m that is to reach newEnd moves to a file, or
\* stays in memory when it is small or no file can be made.
maybeSpill(m, newEnd) ==
  {[mem |-> m, file |-> file]} \cup
  (IF file = None /\ newEnd > Threshold
   THEN {[mem |-> release(m), file |-> SubSeq(Array(m), 1, m.len)]} ELSE {})

\* writeBuf.writeAt on whichever buffer there is.
writeAt(off, bs) ==
  \E b \in maybeSpill(mb, off + Len(bs)) :
    \/ /\ b.file = None
       /\ mb' = memWriteAt(b.mem, off, bs)
       /\ file' = None /\ sz' = 0
    \/ /\ b.file # None
       /\ mb' = b.mem
       /\ file' = PosixWrite(b.file, off, bs)
       /\ sz' = Greatest(IF file = None THEN Len(b.file) ELSE sz, off + Len(bs))

\* writeBuf.readAt: n bytes at off, and whether they are fewer.
bufReadAt(off, n) ==
  LET end == Least(off + n, Len(Contents)) IN
  [bytes |-> IF off >= BufLen THEN <<>> ELSE SubSeq(Contents, off + 1, end),
   short |-> off >= BufLen \/ end < off + n]

Untorn == [vers |-> {}, early |-> FALSE]

Result(call, off, bytes, err) ==
  out' = [call |-> call, off |-> off, bytes |-> bytes, err |-> err]

------------------------------------------------------------------------------
(* writeFile and sharedReadFile.                                           *)

Init ==
  /\ kind \in {"closed", "stream", "pinned"}
  /\ mb = [heap |-> [a \in Id |-> <<>>], ptr |-> 0, len |-> 0, pool |-> 0]
  /\ file = None /\ sz = 0
  /\ pos = 0
  /\ out = None
  /\ \E n \in Offset :
       /\ size = n
       /\ obj = [ver |-> 1, len |-> n]
       /\ body \in {[ver |-> 1, len |-> n, at |-> 0]}
                     \cup (IF kind = "stream" THEN {None} ELSE {})
  /\ torn = Untorn

\* newWriteFileBuf: an empty buffer draws on the pool, loaded contents come
\* with an array of their own whose spare capacity may hold anything.
Open ==
  /\ kind = "closed"
  /\ kind' = "write"
  /\ \E m \in {[mb EXCEPT !.ptr = mb.pool, !.pool = 0]}
              \cup {[mb EXCEPT !.ptr = Unused(mb), !.len = 1,
                               !.heap[Unused(mb)] = <<Mine>> \o s] :
                      s \in {<<>>, <<Other>>}} :
     \E b \in maybeSpill(m, m.len) :
       mb' = b.mem /\ file' = b.file /\ sz' = IF b.file = None THEN 0 ELSE Len(b.file)
  /\ pos' = 0
  /\ out' = None
  /\ UNCHANGED <<obj, size, body, torn>>

\* Close, and the last shared reader with it: destroy.
Close ==
  /\ kind = "write"
  /\ kind' = "closed"
  /\ mb' = release(mb)
  /\ file' = None /\ sz' = 0
  /\ pos' = 0
  /\ out' = None
  /\ UNCHANGED <<obj, size, body, torn>>

\* append: the handle was opened with O_APPEND.
Write(bs, append) ==
  LET off == IF append THEN BufLen ELSE pos IN
  /\ kind = "write"
  /\ off + Len(bs) <= MaxLen
  /\ writeAt(off, bs)
  /\ pos' = off + Len(bs)
  /\ out' = None
  /\ UNCHANGED reader /\ UNCHANGED torn

WriteAt(off, bs) ==
  /\ kind = "write"
  /\ off + Len(bs) <= MaxLen
  /\ writeAt(off, bs)
  /\ out' = None
  /\ UNCHANGED reader /\ UNCHANGED <<pos, torn>>

Truncate(n) ==
  /\ kind = "write"
  /\ \E b \in maybeSpill(mb, n) :
       \/ /\ b.file = None
          /\ mb' = memTruncate(b.mem, n)
          /\ file' = None /\ sz' = 0
       \/ /\ b.file # None
          /\ mb' = b.mem
          /\ file' = PosixTruncate(b.file, n) /\ sz' = n
  /\ out' = None
  /\ UNCHANGED reader /\ UNCHANGED <<pos, torn>>

\* Read of the writer, and of a sharedReadFile through readAtShared: the end
\* is told only when there is nothing to return.
ReadBuf(n) ==
  LET r == bufReadAt(pos, n) IN
  /\ kind = "write"
  /\ Result("Read", pos, r.bytes, IF r.short /\ r.bytes = <<>> THEN "EOF" ELSE "nil")
  /\ pos' = pos + Len(r.bytes)
  /\ UNCHANGED writer /\ UNCHANGED <<obj, size, body, torn>>

ReadBufAt(off, n) ==
  LET r == bufReadAt(off, n) IN
  /\ kind = "write"
  /\ Result("ReadAt", off, r.bytes, IF r.short THEN "EOF" ELSE "nil")
  /\ UNCHANGED writer /\ UNCHANGED <<pos, obj, size, body, torn>>

\* seekPos; the file ends at e.
seekPos(p, e, offset, whence) ==
  offset + CASE whence = "start" -> 0 [] whence = "current" -> p [] whence = "end" -> e

Seek(offset, whence) ==
  LET abs == seekPos(pos, IF kind = "write" THEN BufLen ELSE size, offset, whence) IN
  /\ kind # "closed"
  /\ abs \in Offset
  /\ pos' = abs
  /\ out' = None
  /\ torn' = Untorn
  /\ UNCHANGED writer /\ UNCHANGED <<obj, size, body>>

------------------------------------------------------------------------------
(* readOnlyFile.                                                           *)

\* n bytes at off of the version of which b is a response.
BytesOf(b, off, n) == [i \in 1 .. n |-> <<b.ver, off + i>>]

\* GetObject from off on: fails for a deleted object and past its end.
GetRange(off) ==
  IF obj = None \/ off >= obj.len THEN None
  ELSE [ver |-> obj.ver, len |-> obj.len, at |-> off]

\* Mutant: every read opens a stream of its own.
Reopened == GetRange(pos)

\* s3Backend.read continues the open body if it stands where the file does.
Stream == IF body # None /\ body.at = pos THEN body ELSE GetRange(pos)

\* Mutant: the early end of a stream is the end of the file.
NeverEarly(b, m, end) == FALSE

\* A stream that ended before the file does is dropped and opened again.
EndsEarly(b, m, end) == end = "EOF" /\ b.at + m < size

\* Body.Read returned m bytes and end.
ReadBody(b, m, end) ==
  LET early == EndsEarly(b, m, end)
      err   == IF early \/ (end = "EOF" /\ m > 0) THEN "nil" ELSE end
  IN  /\ body' = IF early THEN None ELSE [b EXCEPT !.at = @ + m]
      /\ pos' = pos + m
      /\ Result("Read", pos, BytesOf(b, b.at, m), err)
      /\ torn' = IF end = "error" THEN Untorn
                 ELSE [vers  |-> torn.vers \cup {b.ver : i \in 1 .. m},
                       early |-> torn.early \/ early]

\* Read of a file that is streamed.  A body may deliver less than it is asked
\* for, and its end with the last bytes or after them.
ReadStream(n) ==
  /\ kind = "stream"
  /\ pos < size
  /\ \/ /\ Stream = None
        /\ body' = None
        /\ Result("Read", pos, <<>>, "error")
        /\ torn' = Untorn
        /\ UNCHANGED pos
     \/ /\ Stream # None
        /\ \E m \in 0 .. Least(n, Stream.len - Stream.at), end \in {"nil", "EOF", "error"} :
             /\ end = "nil" => m > 0
             /\ end = "EOF" => Cut \/ Stream.at + m = Stream.len
             /\ end = "error" => Cut
             /\ ReadBody(Stream, m, end)
  /\ UNCHANGED <<kind, mb, file, sz, obj, size>>

\* ReadAt of a file that is streamed: a request of its own, and a response
\* that breaks off is a short read.
ReadStreamAt(off, n) ==
  LET b == GetRange(off) IN
  /\ kind = "stream"
  /\ off < size
  /\ \/ b = None /\ Result("ReadAt", off, <<>>, "error")
     \/ /\ b # None
        /\ \E m \in 0 .. Least(n, b.len - off) :
             /\ Cut \/ m = Least(n, b.len - off)
             /\ Result("ReadAt", off, BytesOf(b, off, m), IF m < n THEN "EOF" ELSE "nil")
  /\ UNCHANGED writer /\ UNCHANGED <<pos, obj, size, body, torn>>

\* Read and ReadAt of a cached body.
ReadPinned(n) ==
  LET m == Least(n, size - pos) IN
  /\ kind = "pinned"
  /\ pos < size
  /\ Result("Read", pos, BytesOf(body, pos, m), "nil")
  /\ pos' = pos + m
  /\ torn' = [torn EXCEPT !.vers = @ \cup {body.ver}]
  /\ UNCHANGED writer /\ UNCHANGED <<obj, size, body>>

ReadPinnedAt(off, n) ==
  LET m == Least(n, size - off) IN
  /\ kind = "pinned"
  /\ off < size
  /\ Result("ReadAt", off, BytesOf(body, off, m), IF m < n THEN "EOF" ELSE "nil")
  /\ UNCHANGED writer /\ UNCHANGED <<pos, obj, size, body, torn>>

\* At or past the end of a read-only file.
ReadEnd(call, off) ==
  /\ kind \in {"stream", "pinned"}
  /\ call = "Read" => off = pos
  /\ off >= size
  /\ Result(call, off, <<>>, "EOF")
  /\ UNCHANGED writer /\ UNCHANGED <<pos, obj, size, body, torn>>

\* Another client overwrites or deletes the object.
Overwrite ==
  /\ kind \in {"stream", "pinned"}
  /\ obj # None /\ obj.ver < MaxVersion
  /\ obj' \in [ver : {obj.ver + 1}, len : Offset] \cup {None}
  /\ UNCHANGED writer /\ UNCHANGED <<pos, out, size, body, torn>>

------------------------------------------------------------------------------
Next ==
  \/ Open \/ Close \/ Overwrite
  \/ \E bs \in Chunk :
       \/ \E append \in BOOLEAN : Write(bs, append)
       \/ \E off \in Offset : WriteAt(off, bs)
  \/ \E n \in Offset : Truncate(n)
  \/ \E d \in -1 .. MaxLen, w \in {"start", "current", "end"} : Seek(d, w)
  \/ \E n \in {1, MaxLen} :
       \/ ReadBuf(n)
       \/ ReadStream(n) \/ ReadPinned(n)
       \/ \E off \in Offset : ReadBufAt(off, n) \/ ReadStreamAt(off, n) \/ ReadPinnedAt(off, n)
  \/ \E off \in Offset, call \in {"Read", "ReadAt"} : ReadEnd(call, off)

Spec == Init /\ [][Next]_vars

------------------------------------------------------------------------------
(* Properties.                                                             *)

Writing == kind \in {"write", "closed"}

\* A file open for writing is a POSIX file, whichever buffer holds it: bytes
\* that recycled arrays or truncated contents left behind are never seen,
\* gaps are zero, and moving to a spill file changes nothing.
Posix == INSTANCE PosixFile WITH
           NoOut <- None,
           data  <- IF Writing THEN Contents ELSE <<>>,
           pos   <- IF Writing THEN pos ELSE 0,
           out   <- IF Writing THEN out ELSE None

ImplementsPosixFile == Posix!Spec

\* The buffer lies within an array that is not in the pool as well, and the
\* size kept for a spill file is its length, so that an upload sends what it
\* announces.
BufferIsOwned ==
  /\ mb.len <= Len(Array(mb))
  /\ mb.ptr # 0 => mb.ptr # mb.pool
  /\ file # None => mb.ptr = 0 /\ sz = Len(file)

\* A read-only file returns the bytes that belong where it reads, all of one
\* version, wherever the stream stood, broke off or was opened again; and a
\* sequential read does not take the end of a stream for the end of the file.
ReadsAreExact ==
  ~Writing /\ out # None =>
    /\ \A i \in DOMAIN out.bytes : out.bytes[i][2] = out.off + i
    /\ Cardinality({out.bytes[i][1] : i \in DOMAIN out.bytes}) <= 1
    /\ out.call = "Read" /\ out.err = "EOF" => out.off >= size

\* Reads that follow one another, with no Seek and no error between them, see
\* one version of the object: "sequential reads share one ranged-GET body".
\* This fails when a stream ends before the file does.
ReadsAreNotTorn == Cardinality(torn.vers) <= 1

\* Nothing but a stream that ended early, which read hides and replaces by a
\* new request, lets such reads mix two versions, however often the object is
\* overwritten meanwhile.
TornOnlyByEarlyEnd == torn.early \/ ReadsAreNotTorn

==============================================================================
