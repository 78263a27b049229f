---------------------------- MODULE FileIOProofs ----------------------------
(***************************************************************************)
(* Proofs about FileIO, for files, chunks, pools and thresholds of any     *)
(* size and objects overwritten any number of times.                       *)
(***************************************************************************)
EXTENDS FileIO, FiniteSetTheorems, SequenceTheorems, TLAPS

------------------------------------------------------------------------------
(* Reading.                                                                *)

ReadType ==
  /\ kind \in {"write", "closed", "stream", "pinned"}
  /\ size \in Nat
  /\ kind \in {"stream", "pinned"} => pos \in Nat
  /\ obj \in [ver : Nat, len : Nat] \cup {None}
  /\ body \in Response \cup {None}
  /\ kind = "pinned" => body # None

\* Unless a stream ended early, what was read since the last Seek or error is
\* of the version of the response that is open, and a stream stands where the
\* file does.
TornInv ==
  /\ torn \in [vers : SUBSET Nat, early : BOOLEAN]
  /\ \/ torn.early
     \/ torn.vers = {}
     \/ /\ kind \in {"stream", "pinned"}
        /\ body # None /\ torn.vers = {body.ver}
        /\ kind = "stream" => body.at = pos

\* The bytes of the last read are of one version, and in their places.
OutInv ==
  kind \in {"stream", "pinned"} /\ out # None =>
    /\ \E v : \A i \in DOMAIN out.bytes : out.bytes[i] = <<v, out.off + i>>
    /\ out.call = "Read" /\ out.err = "EOF" => out.off >= size

ReadInv == ReadType /\ TornInv /\ OutInv

\* A set within a singleton has at most one element.
LEMMA AtMostOne ==
  ASSUME NEW S, NEW v, S \subseteq {v}
  PROVE  Cardinality(S) <= 1
<1>1. S = {} \/ S = {v}
  OBVIOUS
<1>2. Cardinality({}) = 0 /\ Cardinality({v}) = 1
  BY FS_EmptySet, FS_Singleton
<1> QED
  BY <1>1, <1>2

\* The invariant is as strong as the properties.
LEMMA ReadInvImplies == ReadInv => ReadsAreExact /\ TornOnlyByEarlyEnd
<1> SUFFICES ASSUME ReadInv PROVE ReadsAreExact /\ TornOnlyByEarlyEnd
  OBVIOUS
<1>1. TornOnlyByEarlyEnd
  <2>1. torn.early \/ \E v : torn.vers \subseteq {v}
    BY DEF ReadInv, TornInv
  <2> QED
    BY <2>1, AtMostOne DEF TornOnlyByEarlyEnd, ReadsAreNotTorn
<1>2. ASSUME ~Writing, out # None
      PROVE  /\ \A i \in DOMAIN out.bytes : out.bytes[i][2] = out.off + i
             /\ Cardinality({out.bytes[i][1] : i \in DOMAIN out.bytes}) <= 1
             /\ out.call = "Read" /\ out.err = "EOF" => out.off >= size
  <2>1. PICK v : \A i \in DOMAIN out.bytes : out.bytes[i] = <<v, out.off + i>>
    BY <1>2 DEF ReadInv, ReadType, OutInv, Writing
  <2> DEFINE S == {out.bytes[i][1] : i \in DOMAIN out.bytes}
  <2>2. S \subseteq {v}
    BY <2>1
  <2>3. Cardinality(S) <= 1
    <3> HIDE DEF S
    <3> QED
      BY <2>2, AtMostOne
  <2>4. \A i \in DOMAIN out.bytes : out.bytes[i][2] = out.off + i
    BY <2>1
  <2>5. out.call = "Read" /\ out.err = "EOF" => out.off >= size
    BY <1>2 DEF ReadInv, ReadType, OutInv, Writing
  <2> QED
    BY <2>3, <2>4, <2>5
<1> QED
  BY <1>1, <1>2 DEF ReadsAreExact

\* The initial state satisfies it.
LEMMA InitReadInv == Init => ReadInv
<1> SUFFICES ASSUME Init PROVE ReadInv
  OBVIOUS
<1>1. PICK n \in Offset : /\ size = n /\ obj = [ver |-> 1, len |-> n]
                          /\ body \in {[ver |-> 1, len |-> n, at |-> 0]}
                                \cup (IF kind = "stream" THEN {None} ELSE {})
  BY DEF Init
<1>2. n \in Nat /\ [ver |-> 1, len |-> n, at |-> 0] \in Response
  BY <1>1, FileIOAssumption DEF Offset, FileIOAssumption, Response
<1>3. None \notin Response
  BY FileIOAssumption DEF FileIOAssumption
<1>4. ReadType
  BY <1>1, <1>2, <1>3 DEF ReadType, Init
<1> QED
  BY <1>4 DEF ReadInv, TornInv, OutInv, Init, Untorn

\* The response that Read continues or opens is at the position of the file;
\* unless a stream ended early, it is the one that was read from.
LEMMA StreamAt ==
  ASSUME ReadInv, kind = "stream", Stream # None
  PROVE  /\ Stream \in Response /\ Stream.at = pos
         /\ torn.early \/ torn.vers = {} \/ torn.vers = {Stream.ver}
<1>1. CASE body # None /\ body.at = pos
  BY <1>1 DEF Stream, ReadInv, ReadType, TornInv
<1>2. CASE ~(body # None /\ body.at = pos)
  <2>1. Stream = [ver |-> obj.ver, len |-> obj.len, at |-> pos] /\ obj # None
    BY <1>2 DEF Stream, GetRange
  <2>2. Stream \in Response /\ Stream.at = pos
    BY <2>1 DEF ReadInv, ReadType, Response
  <2>3. torn.early \/ torn.vers = {}
    BY <1>2 DEF ReadInv, TornInv
  <2> QED
    BY <2>2, <2>3
<1> QED
  BY <1>1, <1>2

\* Read of a stream keeps the invariant.
LEMMA ReadStreamInv ==
  ASSUME ReadInv, NEW n \in Nat, ReadStream(n)
  PROVE  ReadInv'
<1> USE DEF ReadInv
<1>1. CASE Stream = None
  <2>1. /\ body' = None /\ torn' = Untorn /\ UNCHANGED <<kind, obj, size, pos>>
        /\ out' = [call |-> "Read", off |-> pos, bytes |-> <<>>, err |-> "error"]
        /\ kind = "stream"
    BY <1>1 DEF ReadStream, Result
  <2>2. ReadType'
    BY <2>1 DEF ReadType
  <2> QED
    BY <2>1, <2>2 DEF TornInv, OutInv, Untorn
<1>2. CASE Stream # None
  <2>1. PICK m \in 0 .. Least(n, Stream.len - Stream.at), end \in {"nil", "EOF", "error"} :
             /\ end = "nil" => m > 0
             /\ ReadBody(Stream, m, end)
    BY <1>2 DEF ReadStream
  <2> DEFINE b == Stream
  <2>2. kind = "stream" /\ pos < size /\ UNCHANGED <<kind, obj, size>>
    BY DEF ReadStream
  <2>3. b \in Response /\ b.at = pos
        /\ (torn.early \/ torn.vers = {} \/ torn.vers = {b.ver})
    BY <1>2, <2>2, StreamAt
  <2>4. m \in Nat /\ pos \in Nat /\ b.at \in Nat /\ b.len \in Nat
    BY <2>3 DEF ReadType, Response
  <2> HIDE DEF b
  <2>5. /\ pos' = pos + m
        /\ out' = [call |-> "Read", off |-> pos, bytes |-> BytesOf(b, b.at, m),
                   err |-> IF EndsEarly(b, m, end) \/ (end = "EOF" /\ m > 0) THEN "nil" ELSE end]
        /\ body' = IF EndsEarly(b, m, end) THEN None ELSE [b EXCEPT !.at = @ + m]
        /\ torn' = IF end = "error" THEN Untorn
                   ELSE [vers  |-> torn.vers \cup {b.ver : i \in 1 .. m},
                         early |-> torn.early \/ EndsEarly(b, m, end)]
    BY <2>1 DEF ReadBody, Result, b
  <2>6. [b EXCEPT !.at = @ + m] \in Response /\ [b EXCEPT !.at = @ + m].ver = b.ver
        /\ [b EXCEPT !.at = @ + m].at = pos + m
    BY <2>3, <2>4 DEF Response
  <2>7. [b EXCEPT !.at = @ + m] # None
    BY <2>6, FileIOAssumption DEF FileIOAssumption
  <2>8. ReadType'
    BY <2>2, <2>4, <2>5, <2>6 DEF ReadType
  <2>9. TornInv'
    <3> DEFINE V == {b.ver : i \in 1 .. m}
    <3>v. V \subseteq {b.ver} /\ b.ver \in Nat
      BY <2>3 DEF Response
    <3> HIDE DEF V
    <3>1. CASE end = "error"
      BY <2>5, <3>1 DEF TornInv, Untorn
    <3>2. CASE end # "error"
      <4>1. torn' = [vers |-> torn.vers \cup V, early |-> torn.early \/ EndsEarly(b, m, end)]
        BY <2>5, <3>2 DEF V
      <4>2. torn'.vers = torn.vers \cup V /\ torn'.early = (torn.early \/ EndsEarly(b, m, end))
        BY <4>1
      <4>3. torn' \in [vers : SUBSET Nat, early : BOOLEAN]
        BY <3>v, <4>1 DEF TornInv, EndsEarly
      <4>4. CASE torn.early \/ EndsEarly(b, m, end)
        BY <4>2, <4>3, <4>4 DEF TornInv
      <4>5. CASE ~(torn.early \/ EndsEarly(b, m, end))
        <5>1. body'.ver = b.ver /\ body'.at = pos' /\ body' # None /\ kind' = "stream"
          BY <2>2, <2>5, <2>6, <2>7, <4>5
        <5>2. torn'.vers = {} \/ torn'.vers = {b.ver}
          BY <2>3, <3>v, <4>2, <4>5
        <5> QED
          BY <4>3, <5>1, <5>2 DEF TornInv
      <4> QED
        BY <4>4, <4>5
    <3> QED
      BY <3>1, <3>2
  <2>10. out'.off = pos /\ out'.bytes = BytesOf(b, b.at, m) /\ out'.call = "Read"
    BY <2>5
  <2>11. out'.bytes = BytesOf(b, out'.off, m)
    BY <2>3, <2>10
  <2>12. out'.err # "EOF"
    BY <2>2, <2>3, <2>4, <2>5 DEF EndsEarly, ReadType
  <2>13. \E v : \A i \in DOMAIN out'.bytes : out'.bytes[i] = <<v, out'.off + i>>
    <3>d. DOMAIN out'.bytes = 1 .. m
      BY <2>11 DEF BytesOf
    <3>v. \A i \in 1 .. m : out'.bytes[i] = <<b.ver, out'.off + i>>
      BY <2>11 DEF BytesOf
    <3> QED
      BY <3>d, <3>v
  <2>14. OutInv'
    BY <2>12, <2>13 DEF OutInv
  <2> QED
    BY <2>8, <2>9, <2>14
<1> QED
  BY <1>1, <1>2

\* The other reads of a read-only file keep the invariant.
LEMMA ReadOnlyInv ==
  ASSUME ReadInv,
         \/ \E n \in Nat : ReadPinned(n)
         \/ \E off, n \in Nat : ReadStreamAt(off, n) \/ ReadPinnedAt(off, n)
         \/ \E off \in Offset, call \in {"Read", "ReadAt"} : ReadEnd(call, off)
  PROVE  ReadInv'
<1> USE DEF ReadInv
<1>1. ASSUME NEW n \in Nat, ReadPinned(n) PROVE ReadInv'
  <2> DEFINE m == Least(n, size - pos)
  <2>1. m \in Nat /\ pos \in Nat
    BY <1>1 DEF ReadPinned, ReadType, Least
  <2>2. body # None /\ body \in Response /\ kind = "pinned"
    BY <1>1 DEF ReadPinned, ReadType
  <2>3. /\ out' = [call |-> "Read", off |-> pos, bytes |-> BytesOf(body, pos, m), err |-> "nil"]
        /\ pos' = pos + m /\ torn' = [torn EXCEPT !.vers = @ \cup {body.ver}]
        /\ UNCHANGED <<kind, obj, size, body>>
    BY <1>1 DEF ReadPinned, Result, writer
  <2> HIDE DEF m
  <2>4. ReadType' /\ TornInv'
    <3>1. ReadType'
      BY <2>1, <2>2, <2>3 DEF ReadType
    <3>2. body.ver \in Nat
      BY <2>2 DEF Response
    <3>3. torn' \in [vers : SUBSET Nat, early : BOOLEAN]
          /\ torn'.vers = torn.vers \cup {body.ver} /\ torn'.early = torn.early
      BY <2>3, <3>2 DEF TornInv
    <3>4. TornInv'
      BY <2>2, <2>3, <3>3 DEF TornInv
    <3> QED
      BY <3>1, <3>4
  <2>5. out'.bytes = BytesOf(body, out'.off, m)
    BY <2>3
  <2>6. \E v : \A i \in DOMAIN out'.bytes : out'.bytes[i] = <<v, out'.off + i>>
    <3>d. DOMAIN out'.bytes = 1 .. m
      BY <2>5 DEF BytesOf
    <3>v. \A i \in 1 .. m : out'.bytes[i] = <<body.ver, out'.off + i>>
      BY <2>5 DEF BytesOf
    <3> QED
      BY <3>d, <3>v
  <2>7. out'.err # "EOF"
    BY <2>3
  <2>8. OutInv'
    BY <2>6, <2>7 DEF OutInv
  <2> QED
    BY <2>4, <2>8
<1>2. ASSUME NEW off \in Nat, NEW n \in Nat, ReadPinnedAt(off, n) PROVE ReadInv'
  <2> DEFINE m == Least(n, size - off)
  <2>1. m \in Nat
    BY <1>2 DEF ReadPinnedAt, ReadType, Least
  <2>2. UNCHANGED <<kind, obj, size, body, pos, torn>>
    BY <1>2 DEF ReadPinnedAt, writer
  <2>3. /\ out'.call = "ReadAt" /\ out'.off = off /\ out'.bytes = BytesOf(body, off, m)
    BY <1>2 DEF ReadPinnedAt, Result
  <2> HIDE DEF m
  <2>4. \E v : \A i \in DOMAIN out'.bytes : out'.bytes[i] = <<v, out'.off + i>>
    <3>1. out'.bytes = BytesOf(body, out'.off, m)
      BY <2>3
    <3>d. DOMAIN out'.bytes = 1 .. m
      BY <3>1 DEF BytesOf
    <3>v. \A i \in 1 .. m : out'.bytes[i] = <<body.ver, out'.off + i>>
      BY <3>1 DEF BytesOf
    <3> QED
      BY <3>d, <3>v
  <2>6. OutInv'
    BY <2>3, <2>4 DEF OutInv
  <2> QED
    BY <2>2, <2>6 DEF ReadType, TornInv
<1>3. ASSUME NEW off \in Nat, NEW n \in Nat, ReadStreamAt(off, n) PROVE ReadInv'
  <2>1. UNCHANGED <<kind, obj, size, body, pos, torn>>
    BY <1>3 DEF ReadStreamAt, writer
  <2>2. CASE GetRange(off) = None
    <3>1. out'.call = "ReadAt" /\ out'.bytes = <<>>
      BY <1>3, <2>2 DEF ReadStreamAt, Result
    <3> QED
      BY <2>1, <3>1 DEF ReadType, TornInv, OutInv
  <2>3. CASE GetRange(off) # None
    <3>1. PICK m \in 0 .. Least(n, GetRange(off).len - off) :
            Result("ReadAt", off, BytesOf(GetRange(off), off, m), IF m < n THEN "EOF" ELSE "nil")
      BY <1>3, <2>3 DEF ReadStreamAt
    <3>2. /\ out'.call = "ReadAt" /\ out'.off = off
          /\ out'.bytes = BytesOf(GetRange(off), off, m) /\ m \in Nat
      BY <3>1 DEF Result
    <3>4. \E v : \A i \in DOMAIN out'.bytes : out'.bytes[i] = <<v, out'.off + i>>
      <4>1. out'.bytes = BytesOf(GetRange(off), out'.off, m)
        BY <3>2
      <4>d. DOMAIN out'.bytes = 1 .. m
        BY <4>1 DEF BytesOf
      <4>v. \A i \in 1 .. m : out'.bytes[i] = <<GetRange(off).ver, out'.off + i>>
        BY <4>1 DEF BytesOf
      <4> QED
        BY <4>d, <4>v
    <3>5. OutInv'
      BY <3>2, <3>4 DEF OutInv
    <3> QED
      BY <2>1, <3>5 DEF ReadType, TornInv
  <2> QED
    BY <2>2, <2>3
<1>4. ASSUME NEW off \in Offset, NEW call \in {"Read", "ReadAt"}, ReadEnd(call, off) PROVE ReadInv'
  <2>1. UNCHANGED <<kind, obj, size, body, pos, torn>>
    BY <1>4 DEF ReadEnd, writer
  <2>2. out'.bytes = <<>> /\ out'.off = off /\ off >= size
    BY <1>4 DEF ReadEnd, Result
  <2> QED
    BY <2>1, <2>2 DEF ReadType, TornInv, OutInv
<1> QED
  BY <1>1, <1>2, <1>3, <1>4

\* A step of a writer leaves what the invariant says of readers alone.
LEMMA WriterStepReadInv ==
  ASSUME ReadInv, kind \in {"write", "closed"}, kind' \in {"write", "closed"},
         UNCHANGED <<obj, size, body, torn>>
  PROVE  ReadInv'
BY DEF ReadInv, ReadType, TornInv, OutInv

\* Every step keeps the invariant.
LEMMA NextReadInv == ReadInv /\ [Next]_vars => ReadInv'
<1> SUFFICES ASSUME ReadInv, [Next]_vars PROVE ReadInv'
  OBVIOUS
<1>a. MaxLen \in Nat /\ Offset \subseteq Nat
  BY FileIOAssumption DEF FileIOAssumption, Offset
<1>1. CASE Open
  BY <1>1, WriterStepReadInv DEF Open
<1>2. CASE Close
  BY <1>2, WriterStepReadInv DEF Close
<1>3. ASSUME NEW bs \in Chunk, NEW append \in BOOLEAN, Write(bs, append) PROVE ReadInv'
  BY <1>3, WriterStepReadInv DEF Write, reader
<1>4. ASSUME NEW bs \in Chunk, NEW off \in Offset, WriteAt(off, bs) PROVE ReadInv'
  BY <1>4, WriterStepReadInv DEF WriteAt, reader
<1>5. ASSUME NEW n \in Offset, Truncate(n) PROVE ReadInv'
  BY <1>5, WriterStepReadInv DEF Truncate, reader
<1>6. ASSUME NEW n \in {1, MaxLen}, ReadBuf(n) PROVE ReadInv'
  BY <1>6, WriterStepReadInv DEF ReadBuf, writer
<1>7. ASSUME NEW n \in {1, MaxLen}, NEW off \in Offset, ReadBufAt(off, n) PROVE ReadInv'
  BY <1>7, WriterStepReadInv DEF ReadBufAt, writer
<1>8. ASSUME NEW d \in -1 .. MaxLen, NEW w \in {"start", "current", "end"}, Seek(d, w)
      PROVE  ReadInv'
  <2>1. pos' \in Offset /\ out' = None /\ torn' = Untorn /\ UNCHANGED <<kind, obj, size, body>>
    BY <1>8 DEF Seek, writer
  <2> QED
    BY <1>a, <2>1 DEF ReadInv, ReadType, TornInv, OutInv, Untorn
<1>9. CASE Overwrite
  <2>1. /\ kind \in {"stream", "pinned"} /\ obj # None
        /\ obj' \in [ver : {obj.ver + 1}, len : Offset] \cup {None}
        /\ UNCHANGED <<kind, pos, out, size, body, torn>>
    BY <1>9 DEF Overwrite, writer
  <2>2. obj.ver \in Nat
    BY <2>1 DEF ReadInv, ReadType
  <2> DEFINE v == obj.ver + 1
  <2>3. obj' \in [ver : Nat, len : Nat] \cup {None}
    <3>1. v \in Nat /\ obj' \in [ver : {v}, len : Offset] \cup {None}
      BY <2>1, <2>2
    <3> HIDE DEF v
    <3> QED
      BY <1>a, <3>1
  <2> QED
    BY <2>1, <2>3 DEF ReadInv, ReadType, TornInv, OutInv
<1>10. ASSUME NEW n \in {1, MaxLen}, ReadStream(n) PROVE ReadInv'
  BY <1>a, <1>10, ReadStreamInv
<1>11. ASSUME NEW n \in {1, MaxLen}, ReadPinned(n) PROVE ReadInv'
  BY <1>a, <1>11, ReadOnlyInv
<1>12. ASSUME NEW n \in {1, MaxLen}, NEW off \in Offset,
              ReadStreamAt(off, n) \/ ReadPinnedAt(off, n)
       PROVE  ReadInv'
  BY <1>a, <1>12, ReadOnlyInv
<1>13. ASSUME NEW off \in Offset, NEW call \in {"Read", "ReadAt"}, ReadEnd(call, off)
       PROVE  ReadInv'
  BY <1>13, ReadOnlyInv
<1>14. CASE UNCHANGED vars
  BY <1>14 DEF vars, ReadInv, ReadType, TornInv, OutInv
<1> QED
  BY <1>1, <1>2, <1>3, <1>4, <1>5, <1>6, <1>7, <1>8, <1>9, <1>10, <1>11, <1>12, <1>13, <1>14
     DEF Next

\* The invariant of the readers holds in every reachable state.
LEMMA AlwaysReadInv == Spec => []ReadInv
<1> QED
  BY InitReadInv, NextReadInv, PTL DEF Spec

\* A read-only file returns the bytes that belong where it reads, all of one
\* version, and never takes the end of a stream for the end of the file:
\* s3Backend.read, whatever the store cuts off and others overwrite.
THEOREM ReadsExact == Spec => []ReadsAreExact
<1>1. ReadInv => ReadsAreExact
  BY ReadInvImplies
<1> QED
  BY <1>1, AlwaysReadInv, PTL

\* Sequential reads with no Seek, no error and no early end of a stream between
\* them see one version of the object, however often it is overwritten.  The
\* early end has to be excluded: s3Backend.read hides it and asks again.
THEOREM TornOnlyByEarlyEnds == Spec => []TornOnlyByEarlyEnd
<1>1. ReadInv => TornOnlyByEarlyEnd
  BY ReadInvImplies
<1> QED
  BY <1>1, AlwaysReadInv, PTL

------------------------------------------------------------------------------
(* Writing: the memory buffer.                                             *)

MemBuf == [heap : [Id -> Seq(Byte)], ptr : Id, len : Nat, pool : Id]

\* A buffer lies within an array that is not in the pool, and array 0 is nil.
MemOK(m) ==
  /\ m \in MemBuf
  /\ m.heap[0] = <<>>
  /\ m.len <= Len(m.heap[m.ptr])
  /\ m.ptr # 0 => m.ptr # m.pool

\* There is an array that is neither in use nor in the pool.
LEMMA UnusedIs ==
  ASSUME NEW m, m \in MemBuf
  PROVE  /\ Unused(m) \in Id \ {0}
         /\ Unused(m) # m.ptr /\ Unused(m) # m.pool
<1>1. m.ptr \in Id /\ m.pool \in Id
  BY DEF MemBuf
<1>2. \E a \in Id \ {0} : a # m.ptr /\ a # m.pool
  <2>1. 1 \in Id \ {0} /\ 2 \in Id \ {0} /\ 3 \in Id \ {0}
    BY DEF Id
  <2> QED
    BY <2>1
<1> QED
  BY <1>2 DEF Unused

\* Recycling the array of a buffer touches no array but this one and the one
\* that was in the pool.
LEMMA RecycleIs ==
  ASSUME NEW m, MemOK(m)
  PROVE  LET r == recycleData(m, m.ptr) IN
         /\ r \in MemBuf /\ r.heap[0] = <<>>
         /\ r.ptr = m.ptr /\ r.len = m.len
         /\ r.pool \in {m.pool, m.ptr}
         /\ \A j \in Id : j # m.ptr /\ j # m.pool => r.heap[j] = m.heap[j]
<1> DEFINE a == m.ptr  r == recycleData(m, m.ptr)
<1>1. /\ m = [heap |-> m.heap, ptr |-> m.ptr, len |-> m.len, pool |-> m.pool]
      /\ m.heap \in [Id -> Seq(Byte)] /\ m.ptr \in Id /\ m.len \in Nat /\ m.pool \in Id
      /\ m.heap[0] = <<>> /\ 0 \in Id
  BY DEF MemOK, MemBuf, Id
<1>2. CASE Len(m.heap[a]) \in 1 .. MaxPooled
  <2>1. a # 0 /\ a # m.pool
    BY <1>1, <1>2 DEF MemOK
  <2> DEFINE o == [i \in DOMAIN m.heap[a] |-> Other]
             h == [[m.heap EXCEPT ![m.pool] = <<>>] EXCEPT ![a] = o]
  <2>2. o \in Seq(Byte)
    BY <1>1 DEF Byte
  <2>3. <<>> \in Seq(Byte)
    OBVIOUS
  <2> HIDE DEF o
  <2>4. h \in [Id -> Seq(Byte)] /\ h[0] = <<>>
        /\ \A j \in Id : j # a /\ j # m.pool => h[j] = m.heap[j]
    BY <1>1, <2>1, <2>2, <2>3
  <2>5. r = [heap |-> h, ptr |-> m.ptr, len |-> m.len, pool |-> a]
    BY <1>1, <1>2, <2>1 DEF recycleData, o
  <2> HIDE DEF h
  <2> QED
    BY <1>1, <2>4, <2>5 DEF MemBuf
<1>3. CASE ~(Len(m.heap[a]) \in 1 .. MaxPooled)
  <2> DEFINE h == [m.heap EXCEPT ![a] = <<>>]
  <2>1. r = [heap |-> h, ptr |-> m.ptr, len |-> m.len, pool |-> m.pool]
    BY <1>1, <1>3 DEF recycleData
  <2>2. h \in [Id -> Seq(Byte)] /\ h[0] = <<>> /\ \A j \in Id : j # a => h[j] = m.heap[j]
    BY <1>1
  <2> HIDE DEF h
  <2> QED
    BY <1>1, <2>1, <2>2 DEF MemBuf
<1> QED
  BY <1>2, <1>3

\* A released buffer is empty and refers to no array.
LEMMA ReleaseIs ==
  ASSUME NEW m, MemOK(m)
  PROVE  MemOK(release(m)) /\ release(m).ptr = 0 /\ release(m).len = 0
<1> DEFINE r == recycleData(m, m.ptr)
<1>1. r \in MemBuf /\ r.heap[0] = <<>>
  BY RecycleIs
<1>2. release(m) = [r EXCEPT !.ptr = 0, !.len = 0]
  BY DEF release
<1> HIDE DEF r
<1>3. /\ release(m) = [heap |-> r.heap, ptr |-> 0, len |-> 0, pool |-> r.pool]
      /\ r.heap \in [Id -> Seq(Byte)] /\ r.pool \in Id /\ 0 \in Id
  <2>1. 0 \in Id
    BY DEF Id
  <2>2. /\ r = [heap |-> r.heap, ptr |-> r.ptr, len |-> r.len, pool |-> r.pool]
        /\ r.heap \in [Id -> Seq(Byte)] /\ r.pool \in Id
    BY <1>1 DEF MemBuf
  <2> QED
    BY <1>2, <2>1, <2>2
<1> QED
  BY <1>1, <1>3 DEF MemOK, MemBuf

\* grow keeps the bytes there are and appends zeros up to end, whatever the
\* array held before.
LEMMA GrowIs ==
  ASSUME NEW m, MemOK(m), NEW end \in Nat
  PROVE  LET g == grow(m, end) IN
         /\ MemOK(g)
         /\ g.len = Greatest(m.len, end)
         /\ \A i \in 1 .. m.len : Array(g)[i] = Array(m)[i]
         /\ \A i \in m.len + 1 .. end : Array(g)[i] = Zero
<1> DEFINE g == grow(m, end)
<1>1. /\ m = [heap |-> m.heap, ptr |-> m.ptr, len |-> m.len, pool |-> m.pool]
      /\ m.heap \in [Id -> Seq(Byte)] /\ m.ptr \in Id /\ m.len \in Nat /\ m.pool \in Id
      /\ m.heap[0] = <<>> /\ 0 \in Id /\ m.len <= Len(m.heap[m.ptr])
      /\ m.ptr # 0 => m.ptr # m.pool
  BY DEF MemOK, MemBuf, Id
<1>2. Array(m) = m.heap[m.ptr] /\ Array(m) \in Seq(Byte) /\ Len(Array(m)) \in Nat
  BY <1>1 DEF Array
<1>3. CASE end <= m.len
  BY <1>1, <1>3 DEF grow, Greatest
<1>4. CASE ~(end <= m.len) /\ end <= Len(Array(m))
  <2> DEFINE s == [i \in DOMAIN m.heap[m.ptr] |->
                     IF i \in m.len + 1 .. end THEN Zero ELSE m.heap[m.ptr][i]]
             h == [m.heap EXCEPT ![m.ptr] = s]
  <2>1. g = [heap |-> h, ptr |-> m.ptr, len |-> end, pool |-> m.pool]
    BY <1>1, <1>4 DEF grow
  <2>2. m.ptr # 0
    BY <1>1, <1>2, <1>4
  <2>3. s \in Seq(Byte) /\ Len(s) = Len(Array(m))
    <3>1. DOMAIN m.heap[m.ptr] = 1 .. Len(Array(m))
      BY <1>2
    <3>2. \A i \in 1 .. Len(Array(m)) : m.heap[m.ptr][i] \in Byte
      BY <1>2
    <3>3. s \in [1 .. Len(Array(m)) -> Byte]
      BY <3>1, <3>2 DEF Byte
    <3> HIDE DEF s
    <3> QED
      BY <1>2, <3>3
  <2>4. /\ \A i \in 1 .. m.len : s[i] = Array(m)[i]
        /\ \A i \in m.len + 1 .. end : s[i] = Zero
    BY <1>1, <1>2, <1>4
  <2> HIDE DEF s
  <2>5. h \in [Id -> Seq(Byte)] /\ h[0] = <<>> /\ h[m.ptr] = s
    BY <1>1, <2>2, <2>3
  <2> HIDE DEF h
  <2>6. MemOK(g)
    BY <1>1, <1>2, <1>4, <2>1, <2>3, <2>5 DEF MemOK, MemBuf
  <2>7. g.len = Greatest(m.len, end) /\ Array(g) = s
    BY <1>1, <1>4, <2>1, <2>5 DEF Greatest, Array
  <2> QED
    BY <2>4, <2>6, <2>7
<1>5. CASE ~(end <= m.len) /\ ~(end <= Len(Array(m)))
  <2> DEFINE a == Unused(m)
             r == recycleData(m, m.ptr)
             n == Greatest(2 * Len(Array(m)), end)
             s == [i \in 1 .. n |-> IF i <= m.len THEN Array(m)[i] ELSE Zero]
             h == [r.heap EXCEPT ![a] = s]
  <2>1. a \in Id \ {0} /\ a # m.ptr /\ a # m.pool
    BY UnusedIs DEF MemOK
  <2>2. r \in MemBuf /\ r.heap[0] = <<>> /\ r.pool \in {m.pool, m.ptr}
    BY RecycleIs
  <2>3. n \in Nat /\ end <= n
    BY <1>2 DEF Greatest
  <2>4. g = [r EXCEPT !.heap[a] = s, !.ptr = a, !.len = end]
    BY <1>5 DEF grow
  <2> HIDE DEF a, r, n
  <2>5. s \in [1 .. n -> Byte]
    BY <1>1, <1>2 DEF Byte
  <2>6. /\ \A i \in 1 .. m.len : s[i] = Array(m)[i]
        /\ \A i \in m.len + 1 .. end : s[i] = Zero
    BY <1>1, <1>5, <2>3
  <2> HIDE DEF s
  <2>7. s \in Seq(Byte) /\ Len(s) = n
    BY <2>3, <2>5
  <2>8. g = [heap |-> h, ptr |-> a, len |-> end, pool |-> r.pool]
    BY <2>2, <2>4 DEF MemBuf
  <2>9. h \in [Id -> Seq(Byte)] /\ h[0] = <<>> /\ h[a] = s /\ r.pool \in Id
    BY <1>1, <2>1, <2>2, <2>7 DEF MemBuf
  <2> HIDE DEF h
  <2>10. MemOK(g)
    BY <1>1, <2>1, <2>2, <2>3, <2>7, <2>8, <2>9 DEF MemOK, MemBuf
  <2>11. g.len = Greatest(m.len, end) /\ Array(g) = s
    BY <1>1, <1>5, <2>8, <2>9 DEF Greatest, Array
  <2> QED
    BY <2>6, <2>10, <2>11
<1> QED
  BY <1>3, <1>4, <1>5

\* The contents of a buffer in memory.
Held(m) == SubSeq(Array(m), 1, m.len)

\* They are the bytes of the array up to the length of the buffer.
LEMMA HeldIs ==
  ASSUME NEW m, MemOK(m)
  PROVE  /\ Held(m) \in Seq(Byte) /\ Len(Held(m)) = m.len /\ m.len \in Nat
         /\ \A i \in 1 .. m.len : Held(m)[i] = Array(m)[i] /\ Array(m)[i] \in Byte
<1>1. /\ m.len \in Nat /\ Array(m) \in Seq(Byte) /\ m.len <= Len(Array(m))
  BY DEF MemOK, MemBuf, Array
<1>2. \A i \in 1 .. m.len : Array(m)[i] \in Byte
  BY <1>1
<1>3. /\ SubSeq(Array(m), 1, m.len) \in Seq(Byte)
      /\ Len(SubSeq(Array(m), 1, m.len)) = IF 1 <= m.len THEN m.len - 1 + 1 ELSE 0
      /\ \A i \in 1 .. m.len - 1 + 1 : SubSeq(Array(m), 1, m.len)[i] = Array(m)[1 + i - 1]
  BY <1>1, <1>2, SubSeqProperties
<1> QED
  BY <1>1, <1>2, <1>3 DEF Held

\* memBuf.writeAt writes like a file: bytes elsewhere stay, a gap is zero.
LEMMA MemWriteIs ==
  ASSUME NEW m, MemOK(m), NEW off \in Nat, NEW bs \in Seq(Byte)
  PROVE  LET w == memWriteAt(m, off, bs) IN
         /\ MemOK(w)
         /\ Held(w) = Posix!Overlay(Held(m), off, bs)
<1> DEFINE end == off + Len(bs)
           g == grow(m, end)
           w == memWriteAt(m, off, bs)
<1>1. end \in Nat /\ Len(bs) \in Nat /\ m.len \in Nat
  BY DEF MemOK, MemBuf
<1>2. /\ MemOK(g) /\ g.len = Greatest(m.len, end)
      /\ \A i \in 1 .. m.len : Array(g)[i] = Array(m)[i]
      /\ \A i \in m.len + 1 .. end : Array(g)[i] = Zero
  BY <1>1, GrowIs
<1> DEFINE s == [i \in DOMAIN g.heap[g.ptr] |->
                   IF i \in off + 1 .. off + Len(bs) THEN bs[i - off] ELSE g.heap[g.ptr][i]]
           h == [g.heap EXCEPT ![g.ptr] = s]
<1>3. w = [g EXCEPT !.heap[g.ptr] = s]
  BY DEF memWriteAt
<1> HIDE DEF g
<1>4. /\ g = [heap |-> g.heap, ptr |-> g.ptr, len |-> g.len, pool |-> g.pool]
      /\ g.heap \in [Id -> Seq(Byte)] /\ g.ptr \in Id /\ g.len \in Nat /\ g.pool \in Id
      /\ g.heap[0] = <<>> /\ 0 \in Id /\ g.len <= Len(g.heap[g.ptr])
      /\ g.ptr # 0 => g.ptr # g.pool
  BY <1>2 DEF MemOK, MemBuf, Id
<1>5. Array(g) = g.heap[g.ptr] /\ Array(g) \in Seq(Byte) /\ Len(Array(g)) \in Nat
      /\ DOMAIN g.heap[g.ptr] = 1 .. Len(Array(g))
  BY <1>4 DEF Array
<1>6. s \in [1 .. Len(Array(g)) -> Byte]
  <2>1. \A i \in 1 .. Len(Array(g)) : g.heap[g.ptr][i] \in Byte
    BY <1>5
  <2>2. \A i \in off + 1 .. off + Len(bs) : bs[i - off] \in Byte
    BY <1>1
  <2> QED
    BY <1>5, <2>1, <2>2
<1>7. \A i \in 1 .. g.len : s[i] = IF i \in off + 1 .. end THEN bs[i - off] ELSE Array(g)[i]
  BY <1>4, <1>5
<1> HIDE DEF s
<1>8. s \in Seq(Byte) /\ Len(s) = Len(Array(g))
  BY <1>5, <1>6
<1>9. w = [heap |-> h, ptr |-> g.ptr, len |-> g.len, pool |-> g.pool]
  BY <1>3, <1>4
<1>10. h \in [Id -> Seq(Byte)] /\ h[g.ptr] = s /\ h[0] = <<>>
  <2>1. g.ptr = 0 => s = <<>>
    BY <1>4, <1>5, <1>8
  <2> QED
    BY <1>4, <1>8, <2>1
<1> HIDE DEF h, w
<1>11. MemOK(w) /\ w.len = g.len /\ Array(w) = s
  BY <1>4, <1>5, <1>8, <1>9, <1>10 DEF MemOK, MemBuf, Array
<1>12. /\ Held(w) \in Seq(Byte) /\ Len(Held(w)) = g.len
       /\ \A i \in 1 .. g.len : Held(w)[i] = s[i]
  BY <1>11, HeldIs
<1>13. /\ Held(m) \in Seq(Byte) /\ Len(Held(m)) = m.len
       /\ \A i \in 1 .. m.len : Held(m)[i] = Array(m)[i]
  BY HeldIs
<1> DEFINE d == Posix!Overlay(Held(m), off, bs)
<1>14. /\ DOMAIN d = 1 .. g.len
       /\ \A i \in 1 .. g.len : d[i] = IF i \in off + 1 .. end THEN bs[i - off]
                                       ELSE IF i <= m.len THEN Held(m)[i] ELSE Zero
       /\ d = [i \in 1 .. g.len |-> d[i]]
  BY <1>1, <1>2, <1>13 DEF Posix!Overlay, Posix!ByteAt, Greatest
<1> HIDE DEF d
<1>15. ASSUME NEW i \in 1 .. g.len PROVE Held(w)[i] = d[i]
  <2>1. CASE i \in off + 1 .. end
    BY <1>7, <1>12, <1>14, <2>1
  <2>2. CASE i \notin off + 1 .. end /\ i <= m.len
    <3>1. i \in 1 .. m.len
      BY <1>1, <1>4, <2>2
    <3> QED
      BY <1>2, <1>7, <1>12, <1>13, <1>14, <2>2, <3>1
  <2>3. CASE i \notin off + 1 .. end /\ ~(i <= m.len)
    <3>1. i \in m.len + 1 .. end
      BY <1>1, <1>2, <1>4, <2>3 DEF Greatest
    <3> QED
      BY <1>2, <1>7, <1>12, <1>14, <2>3, <3>1
  <2> QED
    BY <2>1, <2>2, <2>3
<1>16. Held(w) = [i \in 1 .. g.len |-> Held(w)[i]]
  BY <1>4, <1>12
<1>17. Held(w) = d
  BY <1>14, <1>15, <1>16
<1> QED
  BY <1>11, <1>17 DEF w, d

\* memBuf.truncate cuts the contents or pads them with zeros.
LEMMA MemTruncateIs ==
  ASSUME NEW m, MemOK(m), NEW n \in Nat
  PROVE  LET w == memTruncate(m, n) IN
         MemOK(w) /\ Held(w) = Posix!Resize(Held(m), n)
<1> DEFINE w == memTruncate(m, n)
           d == Posix!Resize(Held(m), n)
<1>1. /\ Held(m) \in Seq(Byte) /\ Len(Held(m)) = m.len /\ m.len \in Nat
      /\ \A i \in 1 .. m.len : Held(m)[i] = Array(m)[i]
  BY HeldIs
<1>2. /\ DOMAIN d = 1 .. n /\ d = [i \in 1 .. n |-> d[i]]
      /\ \A i \in 1 .. n : d[i] = IF i <= m.len THEN Held(m)[i] ELSE Zero
  BY <1>1 DEF Posix!Resize, Posix!ByteAt
<1>3. /\ MemOK(w) /\ w.len = n
      /\ \A i \in 1 .. n : i <= m.len => Array(w)[i] = Array(m)[i]
      /\ \A i \in 1 .. n : ~(i <= m.len) => Array(w)[i] = Zero
  <2>1. CASE n <= m.len
    <3>1. w = [m EXCEPT !.len = n]
      BY <2>1 DEF memTruncate
    <3>2. /\ m = [heap |-> m.heap, ptr |-> m.ptr, len |-> m.len, pool |-> m.pool]
          /\ m.heap \in [Id -> Seq(Byte)] /\ m.ptr \in Id /\ m.pool \in Id
      BY DEF MemOK, MemBuf
    <3>3. w = [heap |-> m.heap, ptr |-> m.ptr, len |-> n, pool |-> m.pool]
      BY <3>1, <3>2
    <3> HIDE DEF w
    <3>4. Len(m.heap[m.ptr]) \in Nat
      BY <3>2
    <3>5. MemOK(w) /\ w.len = n /\ Array(w) = Array(m)
      BY <1>1, <2>1, <3>2, <3>3, <3>4 DEF MemOK, MemBuf, Array
    <3> QED
      BY <1>1, <2>1, <3>5
  <2>2. CASE ~(n <= m.len)
    <3>1. w = grow(m, n)
      BY <2>2 DEF memTruncate
    <3>2. /\ MemOK(w) /\ w.len = Greatest(m.len, n)
          /\ \A i \in 1 .. m.len : Array(w)[i] = Array(m)[i]
          /\ \A i \in m.len + 1 .. n : Array(w)[i] = Zero
      BY <3>1, GrowIs
    <3> HIDE DEF w
    <3> QED
      BY <1>1, <2>2, <3>2 DEF Greatest
  <2> QED
    BY <2>1, <2>2
<1> HIDE DEF w
<1>4. /\ Held(w) \in Seq(Byte) /\ Len(Held(w)) = n
      /\ \A i \in 1 .. n : Held(w)[i] = Array(w)[i]
  BY <1>3, HeldIs
<1> HIDE DEF d
<1>5. ASSUME NEW i \in 1 .. n PROVE Held(w)[i] = d[i]
  <2>1. CASE i <= m.len
    <3>1. i \in 1 .. m.len
      BY <1>1, <2>1
    <3> QED
      BY <1>1, <1>2, <1>3, <1>4, <2>1, <3>1
  <2>2. CASE ~(i <= m.len)
    BY <1>2, <1>3, <1>4, <2>2
  <2> QED
    BY <2>1, <2>2
<1>6. Held(w) = [i \in 1 .. n |-> Held(w)[i]]
  BY <1>4
<1>7. Held(w) = d
  BY <1>2, <1>5, <1>6
<1> QED
  BY <1>3, <1>7 DEF w, d

\* The spill file is written, and cut, in the same way.
LEMMA FileWriteIs ==
  ASSUME NEW f \in Seq(Byte), NEW off \in Nat, NEW bs \in Seq(Byte), bs # <<>>
  PROVE  /\ PosixWrite(f, off, bs) = Posix!Overlay(f, off, bs)
         /\ PosixWrite(f, off, bs) \in Seq(Byte)
         /\ Len(PosixWrite(f, off, bs)) = Greatest(Len(f), off + Len(bs))
<1> DEFINE end == off + Len(bs)
           n == Greatest(Len(f), end)
           d == [i \in 1 .. n |-> IF i \in off + 1 .. end THEN bs[i - off]
                                  ELSE IF i <= Len(f) THEN f[i] ELSE Zero]
<1>1. Len(f) \in Nat /\ Len(bs) \in Nat /\ end \in Nat /\ n \in Nat
  BY DEF Greatest
<1>2. PosixWrite(f, off, bs) = d
  BY DEF PosixWrite
<1>3. Posix!Overlay(f, off, bs) = d
  <2>1. n = IF end > Len(f) THEN end ELSE Len(f)
    BY <1>1 DEF Greatest
  <2> QED
    BY <2>1 DEF Posix!Overlay, Posix!ByteAt
<1>4. d \in [1 .. n -> Byte]
  <2>1. \A i \in 1 .. Len(f) : f[i] \in Byte
    OBVIOUS
  <2>2. \A i \in off + 1 .. end : bs[i - off] \in Byte
    BY <1>1
  <2> HIDE DEF n
  <2>3. \A i \in 1 .. n : ~(i \in off + 1 .. end) /\ i <= Len(f) => f[i] \in Byte
    BY <1>1, <2>1
  <2>4. Zero \in Byte
    BY DEF Byte
  <2> HIDE DEF end
  <2> QED
    BY <2>2, <2>3, <2>4
<1> HIDE DEF d, n
<1>5. d \in Seq(Byte) /\ Len(d) = n
  BY <1>1, <1>4
<1> QED
  BY <1>2, <1>3, <1>5 DEF n

\* fileBuf.truncate: as with memBuf, what is cut is gone and what is new is
\* zero.
LEMMA FileTruncateIs ==
  ASSUME NEW f \in Seq(Byte), NEW n \in Nat
  PROVE  /\ PosixTruncate(f, n) = Posix!Resize(f, n)
         /\ PosixTruncate(f, n) \in Seq(Byte)
         /\ Len(PosixTruncate(f, n)) = n
<1> DEFINE d == [i \in 1 .. n |-> IF i <= Len(f) THEN f[i] ELSE Zero]
<1>1. PosixTruncate(f, n) = d /\ Posix!Resize(f, n) = d
  BY DEF PosixTruncate, Posix!Resize, Posix!ByteAt
<1>2. d \in [1 .. n -> Byte]
  <2>1. \A i \in 1 .. n : i <= Len(f) => f[i] \in Byte
    OBVIOUS
  <2> QED
    BY <2>1 DEF Byte
<1> HIDE DEF d
<1>3. d \in Seq(Byte) /\ Len(d) = n
  BY <1>2
<1> QED
  BY <1>1, <1>3

------------------------------------------------------------------------------
(* Writing: the file, in memory or spilled.                                *)

\* Besides BufferIsOwned: nothing is held while no file is open, and the nil
\* array stays empty, so that an empty buffer owns none.
WriteInv ==
  /\ MemOK(mb)
  /\ file \in Seq(Byte) \cup {None}
  /\ sz \in Nat
  /\ Writing => pos \in Nat
  /\ file # None => mb.ptr = 0 /\ sz = Len(file)
  /\ kind # "write" => mb.ptr = 0 /\ mb.len = 0 /\ file = None

\* The invariant is as strong as the property.
LEMMA WriteInvImplies == WriteInv => BufferIsOwned
BY DEF WriteInv, BufferIsOwned, MemOK, Array

\* The contents are as long as the buffer says.
LEMMA ContentsAre ==
  ASSUME WriteInv
  PROVE  Contents \in Seq(Byte) /\ Len(Contents) = BufLen /\ BufLen \in Nat
<1>1. Held(mb) \in Seq(Byte) /\ Len(Held(mb)) = mb.len /\ mb.len \in Nat
  BY HeldIs DEF WriteInv
<1> QED
  BY <1>1 DEF WriteInv, Contents, BufLen, Held

\* Moving to a spill file keeps the contents and gives the array back.
LEMMA SpillIs ==
  ASSUME NEW m, MemOK(m), file \in Seq(Byte) \cup {None}, file # None => m.ptr = 0,
         NEW e, NEW b \in maybeSpill(m, e)
  PROVE  /\ MemOK(b.mem)
         /\ b.file = None => file = None /\ b.mem = m
         /\ b.file # None => /\ b.file \in Seq(Byte) /\ b.mem.ptr = 0
                             /\ b.file = IF file = None THEN Held(m) ELSE file
<1>1. None \notin Seq(Byte)
  BY FileIOAssumption DEF FileIOAssumption
<1>2. Held(m) \in Seq(Byte)
  BY HeldIs
<1>3. CASE b = [mem |-> m, file |-> file]
  BY <1>3
<1>4. CASE file = None /\ b = [mem |-> release(m), file |-> Held(m)]
  <2>1. MemOK(release(m)) /\ release(m).ptr = 0
    BY ReleaseIs
  <2> QED
    BY <1>1, <1>2, <1>4, <2>1
<1> QED
  BY <1>3, <1>4 DEF maybeSpill, Held

\* What a call leaves the buffer in, with the contents c.
Buffer(c) ==
  /\ MemOK(mb') /\ file' \in Seq(Byte) \cup {None} /\ sz' \in Nat
  /\ file' # None => mb'.ptr = 0 /\ sz' = Len(file')
  /\ Contents' = c

\* writeBuf.writeAt on either buffer, and when it moves from one to the other.
LEMMA WriteAtIs ==
  ASSUME WriteInv, NEW off \in Nat, NEW bs \in Seq(Byte), bs # <<>>, writeAt(off, bs)
  PROVE  Buffer(Posix!Overlay(Contents, off, bs))
<1>1. PICK b \in maybeSpill(mb, off + Len(bs)) :
        \/ /\ b.file = None
           /\ mb' = memWriteAt(b.mem, off, bs)
           /\ file' = None /\ sz' = 0
        \/ /\ b.file # None
           /\ mb' = b.mem
           /\ file' = PosixWrite(b.file, off, bs)
           /\ sz' = Greatest(IF file = None THEN Len(b.file) ELSE sz, off + Len(bs))
  BY DEF writeAt
<1>2. /\ MemOK(b.mem)
      /\ b.file = None => file = None /\ b.mem = mb
      /\ b.file # None => /\ b.file \in Seq(Byte) /\ b.mem.ptr = 0
                          /\ b.file = IF file = None THEN Held(mb) ELSE file
  BY SpillIs DEF WriteInv
<1>3. None \notin Seq(Byte)
  BY FileIOAssumption DEF FileIOAssumption
<1>4. Contents = IF file = None THEN Held(mb) ELSE file
  BY DEF Contents, Held
<1>5. Contents' = IF file' = None THEN Held(mb') ELSE file'
  BY DEF Contents, Held
<1>6. CASE b.file = None
  <2>1. mb' = memWriteAt(mb, off, bs) /\ file' = None /\ sz' = 0 /\ Contents = Held(mb)
    BY <1>1, <1>2, <1>4, <1>6
  <2>2. MemOK(mb') /\ Held(mb') = Posix!Overlay(Held(mb), off, bs)
    BY <2>1, MemWriteIs DEF WriteInv
  <2> QED
    BY <1>5, <2>1, <2>2 DEF Buffer
<1>7. CASE b.file # None
  <2>1. /\ mb' = b.mem /\ file' = PosixWrite(b.file, off, bs)
        /\ sz' = Greatest(Len(b.file), off + Len(bs)) /\ Contents = b.file
        /\ b.file \in Seq(Byte)
    BY <1>1, <1>2, <1>4, <1>7 DEF WriteInv
  <2>2. /\ file' = Posix!Overlay(b.file, off, bs) /\ file' \in Seq(Byte)
        /\ Len(file') = sz'
    BY <2>1, FileWriteIs
  <2>3. sz' \in Nat /\ file' # None
    BY <1>3, <2>2
  <2> QED
    BY <1>2, <1>5, <1>7, <2>1, <2>2, <2>3 DEF Buffer
<1> QED
  BY <1>6, <1>7

\* writeFile.Truncate likewise.
LEMMA TruncateIs ==
  ASSUME WriteInv, NEW n \in Nat, Truncate(n)
  PROVE  Buffer(Posix!Resize(Contents, n))
<1>1. PICK b \in maybeSpill(mb, n) :
        \/ /\ b.file = None
           /\ mb' = memTruncate(b.mem, n)
           /\ file' = None /\ sz' = 0
        \/ /\ b.file # None
           /\ mb' = b.mem
           /\ file' = PosixTruncate(b.file, n) /\ sz' = n
  BY DEF Truncate
<1>2. /\ MemOK(b.mem)
      /\ b.file = None => file = None /\ b.mem = mb
      /\ b.file # None => /\ b.file \in Seq(Byte) /\ b.mem.ptr = 0
                          /\ b.file = IF file = None THEN Held(mb) ELSE file
  BY SpillIs DEF WriteInv
<1>3. None \notin Seq(Byte)
  BY FileIOAssumption DEF FileIOAssumption
<1>4. Contents = IF file = None THEN Held(mb) ELSE file
  BY DEF Contents, Held
<1>5. Contents' = IF file' = None THEN Held(mb') ELSE file'
  BY DEF Contents, Held
<1>6. CASE b.file = None
  <2>1. mb' = memTruncate(mb, n) /\ file' = None /\ sz' = 0 /\ Contents = Held(mb)
    BY <1>1, <1>2, <1>4, <1>6
  <2>2. MemOK(mb') /\ Held(mb') = Posix!Resize(Held(mb), n)
    BY <2>1, MemTruncateIs DEF WriteInv
  <2> QED
    BY <1>5, <2>1, <2>2 DEF Buffer
<1>7. CASE b.file # None
  <2>1. /\ mb' = b.mem /\ file' = PosixTruncate(b.file, n) /\ sz' = n /\ Contents = b.file
        /\ b.file \in Seq(Byte)
    BY <1>1, <1>2, <1>4, <1>7
  <2>2. file' = Posix!Resize(b.file, n) /\ file' \in Seq(Byte) /\ Len(file') = n
    BY <2>1, FileTruncateIs
  <2>3. file' # None
    BY <1>3, <2>2
  <2> QED
    BY <1>2, <1>5, <1>7, <2>1, <2>2, <2>3 DEF Buffer
<1> QED
  BY <1>6, <1>7

\* An open starts with nothing or with the contents it loaded, whatever is
\* in the array of the pool or beyond the contents.
LEMMA OpenIs ==
  ASSUME WriteInv, Open
  PROVE  Buffer(<<>>) \/ Buffer(<<Mine>>)
<1>0. kind = "closed" /\ mb.ptr = 0 /\ mb.len = 0 /\ file = None /\ MemOK(mb)
  BY DEF Open, WriteInv
<1> DEFINE u == Unused(mb)
<1>1. PICK m \in {[mb EXCEPT !.ptr = mb.pool, !.pool = 0]}
              \cup {[mb EXCEPT !.ptr = u, !.len = 1, !.heap[u] = <<Mine>> \o s] :
                      s \in {<<>>, <<Other>>}} :
        \E b \in maybeSpill(m, m.len) :
          mb' = b.mem /\ file' = b.file /\ sz' = IF b.file = None THEN 0 ELSE Len(b.file)
  BY DEF Open
<1>2. PICK b \in maybeSpill(m, m.len) :
          mb' = b.mem /\ file' = b.file /\ sz' = IF b.file = None THEN 0 ELSE Len(b.file)
  BY <1>1
<1>3. u \in Id \ {0} /\ u # mb.ptr /\ u # mb.pool
  BY <1>0, UnusedIs DEF MemOK
<1> HIDE DEF u
<1>4. /\ mb = [heap |-> mb.heap, ptr |-> mb.ptr, len |-> mb.len, pool |-> mb.pool]
      /\ mb.heap \in [Id -> Seq(Byte)] /\ mb.pool \in Id /\ mb.heap[0] = <<>> /\ 0 \in Id
  BY <1>0 DEF MemOK, MemBuf, Id
<1>5. MemOK(m) /\ (Held(m) = <<>> \/ Held(m) = <<Mine>>)
  <2>1. CASE m = [mb EXCEPT !.ptr = mb.pool, !.pool = 0]
    <3>1. m = [heap |-> mb.heap, ptr |-> mb.pool, len |-> 0, pool |-> 0]
      BY <1>0, <1>4, <2>1
    <3>2. Len(mb.heap[mb.pool]) \in Nat
      BY <1>4
    <3>3. MemOK(m) /\ m.len = 0
      BY <1>4, <3>1, <3>2 DEF MemOK, MemBuf
    <3>4. Held(m) \in Seq(Byte) /\ Len(Held(m)) = 0
      BY <3>3, HeldIs
    <3> QED
      BY <3>3, <3>4
  <2>2. CASE \E s \in {<<>>, <<Other>>} :
               m = [mb EXCEPT !.ptr = u, !.len = 1, !.heap[u] = <<Mine>> \o s]
    <3>1. PICK s \in {<<>>, <<Other>>} :
            m = [mb EXCEPT !.ptr = u, !.len = 1, !.heap[u] = <<Mine>> \o s]
      BY <2>2
    <3> DEFINE x == <<Mine>> \o s
               h == [mb.heap EXCEPT ![u] = x]
    <3>2. x \in Seq(Byte) /\ Len(x) >= 1 /\ Len(x) \in Nat /\ x[1] = Mine
      <4>0. Mine \in Byte /\ Other \in Byte
        BY DEF Byte
      <4>1. <<Mine>> \in Seq(Byte) /\ s \in Seq(Byte) /\ Len(s) \in Nat
        <5>1. <<>> \in Seq(Byte) /\ <<Mine>> \in Seq(Byte) /\ <<Other>> \in Seq(Byte)
          BY <4>0
        <5>2. s \in Seq(Byte)
          BY <3>1, <5>1
        <5> QED
          BY <5>1, <5>2
      <4>2. /\ x \in Seq(Byte) /\ Len(x) = 1 + Len(s)
            /\ \A i \in 1 .. 1 + Len(s) : x[i] = IF i <= 1 THEN <<Mine>>[i] ELSE s[i - 1]
        BY <4>1, ConcatProperties
      <4> HIDE DEF x
      <4> QED
        BY <4>1, <4>2
    <3>3. m = [heap |-> h, ptr |-> u, len |-> 1, pool |-> mb.pool]
      BY <1>4, <3>1
    <3> HIDE DEF x
    <3>4. h \in [Id -> Seq(Byte)] /\ h[0] = <<>> /\ h[u] = x
      BY <1>3, <1>4, <3>2
    <3> HIDE DEF h
    <3>5. MemOK(m) /\ m.len = 1 /\ Array(m) = x
      BY <1>3, <1>4, <3>2, <3>3, <3>4 DEF MemOK, MemBuf, Array
    <3>6. Held(m) \in Seq(Byte) /\ Len(Held(m)) = 1 /\ Held(m)[1] = Mine
      <4>1. /\ Held(m) \in Seq(Byte) /\ Len(Held(m)) = m.len
            /\ \A i \in 1 .. m.len : Held(m)[i] = Array(m)[i]
        BY <3>5, HeldIs
      <4> QED
        BY <3>2, <3>5, <4>1
    <3>7. Held(m) = <<Mine>>
      BY <3>6
    <3> QED
      BY <3>5, <3>7
  <2> QED
    BY <1>1, <2>1, <2>2
<1>6. /\ MemOK(b.mem)
      /\ b.file = None => b.mem = m
      /\ b.file # None => b.file \in Seq(Byte) /\ b.mem.ptr = 0 /\ b.file = Held(m)
  BY <1>0, <1>5, SpillIs
<1>7. Contents' = IF file' = None THEN Held(mb') ELSE file'
  BY DEF Contents, Held
<1>8. Contents' = Held(m)
  BY <1>2, <1>6, <1>7
<1>9. MemOK(mb') /\ file' \in Seq(Byte) \cup {None} /\ sz' \in Nat
      /\ (file' # None => mb'.ptr = 0 /\ sz' = Len(file'))
  BY <1>2, <1>6
<1> QED
  BY <1>5, <1>8, <1>9 DEF Buffer

\* What the application writes is not empty.
LEMMA ChunksAre ==
  ASSUME ~EmptyWrites, NEW bs \in Chunk
  PROVE  bs \in Seq(Byte) /\ bs # <<>> /\ Len(bs) \in Nat
<1>1. Mine \in Byte
  BY DEF Byte
<1>2. bs = <<Mine>> \/ bs = <<Mine, Mine>>
  BY DEF Chunk
<1>3. <<Mine>> \in Seq(Byte) /\ <<Mine, Mine>> \in Seq(Byte)
  BY <1>1
<1>4. <<Mine>> # <<>> /\ <<Mine, Mine>> # <<>>
  OBVIOUS
<1>5. bs \in Seq(Byte) /\ bs # <<>>
  BY <1>2, <1>3, <1>4
<1> QED
  BY <1>5

\* A read of the buffer returns the slice of the file, and tells the end as
\* the call should.
LEMMA BufReadIs ==
  ASSUME WriteInv, NEW off \in Nat, NEW n \in Nat \ {0}
  PROVE  LET r  == bufReadAt(off, n)
             bs == Posix!Slice(Contents, off, n)
         IN  /\ r.bytes = bs /\ Len(bs) \in Nat
             /\ r.short <=> Len(bs) < n
             /\ r.short /\ bs = <<>> <=> bs = <<>>
<1> DEFINE c == Contents
           bs == Posix!Slice(c, off, n)
           end == IF off + n > Len(c) THEN Len(c) ELSE off + n
<1>1. c \in Seq(Byte) /\ Len(c) = BufLen /\ Len(c) \in Nat
  BY ContentsAre
<1>2. bs = SubSeq(c, off + 1, end)
  BY DEF Posix!Slice
<1>3. Least(off + n, Len(c)) = end
  BY <1>1 DEF Least
<1>4. /\ bufReadAt(off, n).bytes = IF off >= Len(c) THEN <<>> ELSE bs
      /\ bufReadAt(off, n).short = (off >= Len(c) \/ end < off + n)
  BY <1>1, <1>2, <1>3 DEF bufReadAt
<1> HIDE DEF bs, c
<1>5. CASE off >= Len(c)
  <2>1. bs = <<>>
    BY <1>1, <1>2, <1>5, SubSeqEmpty
  <2>2. Len(bs) = 0 /\ 0 < n
    BY <2>1
  <2>3. bufReadAt(off, n).bytes = bs /\ bufReadAt(off, n).short
    BY <1>4, <1>5, <2>1
  <2> QED
    BY <2>1, <2>2, <2>3 DEF bs, c
<1>6. CASE ~(off >= Len(c))
  <2>1. off + 1 \in Int /\ end \in Int /\ off + 1 <= end /\ end <= Len(c)
    BY <1>1, <1>6
  <2>2. \A i \in off + 1 .. end : c[i] \in Byte
    BY <1>1, <2>1
  <2> HIDE DEF end
  <2>3. bs \in Seq(Byte) /\ Len(bs) = IF off + 1 <= end THEN end - (off + 1) + 1 ELSE 0
    BY <1>2, <2>1, <2>2, SubSeqProperties
  <2>4. Len(bs) = end - off /\ Len(bs) >= 1 /\ Len(bs) \in Nat
    BY <2>1, <2>3
  <2>5. bs # <<>>
    BY <2>4
  <2>6. end < off + n <=> Len(bs) < n
    BY <2>1, <2>4
  <2> QED
    BY <1>4, <1>6, <2>4, <2>5, <2>6 DEF bs, c
<1> QED
  BY <1>5, <1>6

\* A call of an open file keeps the invariant.
LEMMA CallInv ==
  ASSUME NEW c, Buffer(c), kind' = "write", pos' \in Nat
  PROVE  WriteInv'
BY DEF Buffer, WriteInv, MemOK, Writing

\* A step that leaves the buffer alone.
LEMMA BufferUnchanged ==
  ASSUME WriteInv, UNCHANGED writer, Writing => pos' \in Nat
  PROVE  WriteInv' /\ Contents' = Contents
<1>1. UNCHANGED <<kind, mb, file, sz>>
  BY DEF writer
<1> QED
  BY <1>1 DEF WriteInv, Writing, Contents, Array

\* A step of a read-only file is none of the file that is written.
LEMMA ReaderStutters ==
  ASSUME ~Writing, UNCHANGED kind
  PROVE  UNCHANGED Posix!vars
<1>1. ~Writing'
  BY DEF Writing
<1> QED
  BY <1>1 DEF Posix!vars

\* A new handle satisfies the invariant and is a new abstract file.
LEMMA InitWriteInv == Init => WriteInv /\ Posix!Init
<1> SUFFICES ASSUME Init PROVE WriteInv /\ Posix!Init
  OBVIOUS
<1>1. 0 \in Id /\ <<>> \in Seq(Byte) /\ 0 \in Nat
  BY DEF Id
<1>2. MemOK(mb) /\ mb.len = 0 /\ mb.ptr = 0 /\ file = None
  BY <1>1 DEF Init, MemOK, MemBuf
<1>3. WriteInv
  BY <1>1, <1>2 DEF Init, WriteInv
<1>4. Contents \in Seq(Byte) /\ Len(Contents) = 0
  BY <1>2, <1>3, ContentsAre DEF BufLen
<1>5. Contents = <<>>
  BY <1>4
<1> QED
  BY <1>3, <1>5 DEF Init, Posix!Init, Start

\* Every step of FileIO keeps the invariant and is a step of PosixFile.
LEMMA NextWriteInv ==
  ASSUME ~EmptyWrites, WriteInv, [Next]_vars
  PROVE  WriteInv' /\ [Posix!Next]_(Posix!vars)
<1>a. MaxLen \in Nat \ {0} /\ Offset \subseteq Nat /\ {1, MaxLen} \subseteq Offset \ {0}
  BY FileIOAssumption DEF FileIOAssumption, Offset
<1>b. Contents \in Seq(Byte) /\ Len(Contents) = BufLen /\ BufLen \in Nat
  BY ContentsAre
<1>1. CASE Open
  <2>1. kind = "closed" /\ kind' = "write" /\ pos' = 0 /\ out' = None
    BY <1>1 DEF Open
  <2>2. PICK c \in Start : Buffer(c)
    BY <1>1, OpenIs DEF Start
  <2>3. WriteInv'
    BY <2>1, <2>2, CallInv
  <2>4. Contents' = c
    BY <2>2 DEF Buffer
  <2>5. Posix!Open
    BY <2>1, <2>2, <2>4 DEF Posix!Open, Writing
  <2> QED
    BY <2>3, <2>5 DEF Posix!Next
<1>2. CASE Close
  <2>1. /\ kind = "write" /\ kind' = "closed" /\ mb' = release(mb) /\ file' = None
        /\ sz' = 0 /\ pos' = 0 /\ out' = None
    BY <1>2 DEF Close
  <2>2. MemOK(mb') /\ mb'.ptr = 0 /\ mb'.len = 0
    BY <2>1, ReleaseIs DEF WriteInv
  <2>3. WriteInv'
    BY <2>1, <2>2 DEF WriteInv
  <2>4. Contents' = <<>>
    <3>1. Contents' = Held(mb')
      BY <2>1 DEF Contents, Held
    <3>2. Held(mb') \in Seq(Byte) /\ Len(Held(mb')) = 0
      BY <2>2, HeldIs
    <3> QED
      BY <3>1, <3>2
  <2>5. Posix!Open
    BY <2>1, <2>4 DEF Posix!Open, Writing, Start
  <2> QED
    BY <2>3, <2>5 DEF Posix!Next
<1>3. ASSUME NEW bs \in Chunk, NEW append \in BOOLEAN, Write(bs, append)
      PROVE  WriteInv' /\ [Posix!Next]_(Posix!vars)
  <2> DEFINE off == IF append THEN BufLen ELSE pos
  <2>1. /\ kind = "write" /\ kind' = "write" /\ writeAt(off, bs)
        /\ pos' = off + Len(bs) /\ out' = None
    BY <1>3 DEF Write, reader
  <2>2. bs \in Seq(Byte) /\ bs # <<>> /\ Len(bs) \in Nat
    BY ChunksAre
  <2>3. off \in Nat /\ off \in {pos, Len(Contents)}
    BY <1>b, <2>1 DEF WriteInv, Writing
  <2> HIDE DEF off
  <2>4. Buffer(Posix!Overlay(Contents, off, bs))
    BY <2>1, <2>2, <2>3, WriteAtIs
  <2>5. WriteInv'
    BY <2>1, <2>2, <2>3, <2>4, CallInv
  <2>6. Contents' = Posix!Overlay(Contents, off, bs)
    BY <2>4 DEF Buffer
  <2>7. Posix!Write(bs)
    BY <2>1, <2>3, <2>6 DEF Posix!Write, Writing
  <2> QED
    BY <2>5, <2>7 DEF Posix!Next
<1>4. ASSUME NEW bs \in Chunk, NEW off \in Offset, WriteAt(off, bs)
      PROVE  WriteInv' /\ [Posix!Next]_(Posix!vars)
  <2>1. /\ kind = "write" /\ kind' = "write" /\ writeAt(off, bs)
        /\ pos' = pos /\ out' = None
    BY <1>4 DEF WriteAt, reader
  <2>2. bs \in Seq(Byte) /\ bs # <<>> /\ off \in Nat /\ pos \in Nat
    BY <1>a, <2>1, ChunksAre DEF WriteInv, Writing
  <2>3. Buffer(Posix!Overlay(Contents, off, bs))
    BY <2>1, <2>2, WriteAtIs
  <2>4. WriteInv'
    BY <2>1, <2>2, <2>3, CallInv
  <2>5. Contents' = Posix!Overlay(Contents, off, bs)
    BY <2>3 DEF Buffer
  <2>6. Posix!WriteAt(off, bs)
    BY <2>1, <2>5 DEF Posix!WriteAt, Writing
  <2> QED
    BY <2>4, <2>6 DEF Posix!Next
<1>5. ASSUME NEW n \in Offset, Truncate(n)
      PROVE  WriteInv' /\ [Posix!Next]_(Posix!vars)
  <2>1. kind = "write" /\ kind' = "write" /\ pos' = pos /\ out' = None
    BY <1>5 DEF Truncate, reader
  <2>2. n \in Nat /\ pos \in Nat
    BY <1>a, <2>1 DEF WriteInv, Writing
  <2>3. Buffer(Posix!Resize(Contents, n))
    BY <1>5, <2>2, TruncateIs
  <2>4. WriteInv'
    BY <2>1, <2>2, <2>3, CallInv
  <2>5. Contents' = Posix!Resize(Contents, n)
    BY <2>3 DEF Buffer
  <2>6. Posix!Truncate(n)
    BY <2>1, <2>5 DEF Posix!Truncate, Writing
  <2> QED
    BY <2>4, <2>6 DEF Posix!Next
<1>6. ASSUME NEW n \in {1, MaxLen}, ReadBuf(n)
      PROVE  WriteInv' /\ [Posix!Next]_(Posix!vars)
  <2> DEFINE r  == bufReadAt(pos, n)
             bs == Posix!Slice(Contents, pos, n)
  <2>1. /\ kind = "write" /\ UNCHANGED writer /\ pos' = pos + Len(r.bytes)
        /\ out' = [call |-> "Read", off |-> pos, bytes |-> r.bytes,
                   err |-> IF r.short /\ r.bytes = <<>> THEN "EOF" ELSE "nil"]
    BY <1>6 DEF ReadBuf, Result
  <2>2. pos \in Nat /\ n \in Nat \ {0} /\ n \in Offset
    BY <1>a, <2>1 DEF WriteInv, Writing
  <2>3. r.bytes = bs /\ Len(bs) \in Nat /\ (r.short /\ bs = <<>> <=> bs = <<>>)
    BY <2>2, BufReadIs
  <2> HIDE DEF r, bs
  <2>4. /\ pos' = pos + Len(bs)
        /\ out' = [call |-> "Read", off |-> pos, bytes |-> bs,
                   err |-> IF bs = <<>> THEN "EOF" ELSE "nil"]
    BY <2>1, <2>3
  <2>5. WriteInv' /\ Contents' = Contents
    BY <2>1, <2>2, <2>3, <2>4, BufferUnchanged
  <2>6. kind' = "write"
    BY <2>1 DEF writer
  <2>7. Posix!Read(n)
    BY <2>1, <2>4, <2>5, <2>6 DEF Posix!Read, Writing, bs
  <2> QED
    BY <2>2, <2>5, <2>7 DEF Posix!Next
<1>7. ASSUME NEW n \in {1, MaxLen}, NEW off \in Offset, ReadBufAt(off, n)
      PROVE  WriteInv' /\ [Posix!Next]_(Posix!vars)
  <2> DEFINE r  == bufReadAt(off, n)
             bs == Posix!Slice(Contents, off, n)
  <2>1. /\ kind = "write" /\ UNCHANGED writer /\ pos' = pos
        /\ out' = [call |-> "ReadAt", off |-> off, bytes |-> r.bytes,
                   err |-> IF r.short THEN "EOF" ELSE "nil"]
    BY <1>7 DEF ReadBufAt, Result
  <2>2. pos \in Nat /\ off \in Nat /\ n \in Nat \ {0} /\ n \in Offset
    BY <1>a, <2>1 DEF WriteInv, Writing
  <2>3. r.bytes = bs /\ (r.short <=> Len(bs) < n)
    BY <2>2, BufReadIs
  <2> HIDE DEF r, bs
  <2>4. out' = [call |-> "ReadAt", off |-> off, bytes |-> bs,
                err |-> IF Len(bs) < n THEN "EOF" ELSE "nil"]
    BY <2>1, <2>3
  <2>5. WriteInv' /\ Contents' = Contents
    BY <2>1, <2>2, BufferUnchanged
  <2>6. kind' = "write"
    BY <2>1 DEF writer
  <2>7. Posix!ReadAt(off, n)
    BY <2>1, <2>4, <2>5, <2>6 DEF Posix!ReadAt, Writing, bs
  <2> QED
    BY <2>2, <2>5, <2>7 DEF Posix!Next
<1>8. ASSUME NEW d \in -1 .. MaxLen, NEW w \in {"start", "current", "end"}, Seek(d, w)
      PROVE  WriteInv' /\ [Posix!Next]_(Posix!vars)
  <2>1. pos' \in Offset /\ out' = None /\ UNCHANGED writer
    BY <1>8 DEF Seek
  <2>2. WriteInv' /\ Contents' = Contents /\ kind' = kind
    BY <1>a, <2>1, BufferUnchanged DEF writer
  <2>3. CASE Writing
    <3>1. Posix!Seek(pos')
      BY <2>1, <2>2, <2>3 DEF Posix!Seek, Writing
    <3> QED
      BY <2>1, <2>2, <3>1 DEF Posix!Next
  <2>4. CASE ~Writing
    BY <2>2, <2>4, ReaderStutters
  <2> QED
    BY <2>3, <2>4
<1>9. ASSUME ~Writing, UNCHANGED writer
      PROVE  WriteInv' /\ [Posix!Next]_(Posix!vars)
  BY <1>9, BufferUnchanged, ReaderStutters DEF writer
<1>10. CASE Overwrite
  BY <1>9, <1>10 DEF Overwrite, Writing
<1>11. ASSUME NEW n \in {1, MaxLen},
              \/ ReadStream(n) \/ ReadPinned(n)
              \/ \E off \in Offset : ReadStreamAt(off, n) \/ ReadPinnedAt(off, n)
       PROVE  WriteInv' /\ [Posix!Next]_(Posix!vars)
  BY <1>9, <1>11 DEF ReadStream, ReadPinned, ReadStreamAt, ReadPinnedAt, Writing, writer
<1>12. ASSUME NEW off \in Offset, NEW call \in {"Read", "ReadAt"}, ReadEnd(call, off)
       PROVE  WriteInv' /\ [Posix!Next]_(Posix!vars)
  BY <1>9, <1>12 DEF ReadEnd, Writing
<1>13. CASE UNCHANGED vars
  <2>1. UNCHANGED writer /\ UNCHANGED <<kind, pos, out>>
    BY <1>13 DEF vars, writer
  <2>2. WriteInv' /\ Contents' = Contents
    BY <2>1, BufferUnchanged DEF WriteInv
  <2> QED
    BY <2>1, <2>2 DEF Posix!vars, Writing
<1> QED
  BY <1>1, <1>2, <1>3, <1>4, <1>5, <1>6, <1>7, <1>8, <1>10, <1>11, <1>12, <1>13 DEF Next

\* The buffer of a file lies within an array that only it uses, and the size
\* kept for a spill file is its length, as memBuf, fileBuf and the pool leave
\* them, if the application makes no empty write beyond the end of a file.
THEOREM BuffersAreOwned ==
  ASSUME ~EmptyWrites
  PROVE  Spec => []BufferIsOwned
<1>1. WriteInv /\ [Next]_vars => WriteInv'
  BY NextWriteInv
<1> QED
  BY <1>1, InitWriteInv, WriteInvImplies, PTL DEF Spec

\* Under the same assumption an open file is a POSIX file: writeFile and
\* sharedReadFile over either buffer implement PosixFile, for every length,
\* threshold and limit of the pool.
THEOREM FileRefinement ==
  ASSUME ~EmptyWrites
  PROVE  Spec => ImplementsPosixFile
<1>1. WriteInv /\ [Next]_vars => WriteInv' /\ [Posix!Next]_(Posix!vars)
  BY NextWriteInv
<1> QED
  BY <1>1, InitWriteInv, PTL DEF Spec, ImplementsPosixFile, Posix!Spec

==============================================================================
