----------------------------- MODULE PosixFile ------------------------------
(***************************************************************************)
(* What the application expects of a file that is open for writing: bytes  *)
(* beyond the end are zero, a read returns what was last written, and only *)
(* the end of the file is reported as the end.                             *)
(***************************************************************************)
EXTENDS Integers, Sequences

CONSTANTS
  Offset,  \* offsets and lengths
  Chunk,   \* sequences of bytes that may be written
  Start,   \* contents an open may find
  Zero,    \* the byte a gap is filled with
  NoOut    \* nothing was read

VARIABLES
  data,  \* contents
  pos,   \* position of the handle
  out    \* what the last read returned

vars == <<data, pos, out>>

\* Byte i of contents d, where there may be none.
ByteAt(d, i) == IF i <= Len(d) THEN d[i] ELSE Zero

\* Contents d with bs written at offset off.
Overlay(d, off, bs) ==
  LET end == off + Len(bs) IN
  [i \in 1 .. (IF end > Len(d) THEN end ELSE Len(d)) |->
     IF i \in off + 1 .. end THEN bs[i - off] ELSE ByteAt(d, i)]

Resize(d, n) == [i \in 1 .. n |-> ByteAt(d, i)]

\* At most n bytes of d from off on.
Slice(d, off, n) == SubSeq(d, off + 1, IF off + n > Len(d) THEN Len(d) ELSE off + n)

Init ==
  /\ data \in Start
  /\ pos = 0
  /\ out = NoOut

\* The last handle was closed and the file is opened again.
Open ==
  /\ data' \in Start
  /\ pos' = 0
  /\ out' = NoOut

Write(bs) ==
  \E off \in {pos, Len(data)} :
    /\ data' = Overlay(data, off, bs)
    /\ pos' = off + Len(bs)
    /\ out' = NoOut

WriteAt(off, bs) ==
  /\ data' = Overlay(data, off, bs)
  /\ out' = NoOut
  /\ UNCHANGED pos

Truncate(n) ==
  /\ data' = Resize(data, n)
  /\ out' = NoOut
  /\ UNCHANGED pos

Seek(p) ==
  /\ pos' = p
  /\ out' = NoOut
  /\ UNCHANGED data

\* A sequential read tells the end only when nothing is left.
Read(n) ==
  LET bs == Slice(data, pos, n) IN
  /\ out' = [call |-> "Read", off |-> pos, bytes |-> bs,
              err |-> IF bs = <<>> THEN "EOF" ELSE "nil"]
  /\ pos' = pos + Len(bs)
  /\ UNCHANGED data

\* ReadAt tells the end when it returns less than was asked for.
ReadAt(off, n) ==
  LET bs == Slice(data, off, n) IN
  /\ out' = [call |-> "ReadAt", off |-> off, bytes |-> bs,
              err |-> IF Len(bs) < n THEN "EOF" ELSE "nil"]
  /\ UNCHANGED <<data, pos>>

Next ==
  \/ Open
  \/ \E bs \in Chunk : Write(bs)
  \/ \E p \in Offset : Seek(p)
  \/ \E n \in Offset : Read(n)
  \/ \E off \in Offset, bs \in Chunk : WriteAt(off, bs)
  \/ \E n \in Offset : Truncate(n)
  \/ \E off, n \in Offset : ReadAt(off, n)

Spec == Init /\ [][Next]_vars

==============================================================================
