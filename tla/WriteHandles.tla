---------------------------- MODULE WriteHandles ----------------------------
(***************************************************************************)
(* The handles of one path in one S3FS instance (file_write.go, OpenFile   *)
(* and Stat of s3fs.go): write handles that buffer the contents and upload *)
(* them on Sync and Close, the openWrites entry that makes a file being    *)
(* written visible before its upload, and the read handles that share the  *)
(* buffer of a writer.                                                     *)
(*                                                                         *)
(* Contents are version numbers: every modification, through any handle,   *)
(* makes the next version, so of two contents the newer is the larger one. *)
(* A handle does one call at a time; a step of an open is what it does     *)
(* under writesMu, under the mutex of the writer it found, or one S3       *)
(* request, which may fail.  The caches, the locks and the modes are left  *)
(* out.                                                                    *)
(***************************************************************************)
EXTENDS Naturals, FiniteSets, FiniteSetsExt

CONSTANTS
  Handle,      \* handles; each is opened once
  Nil,         \* nil pointer
  MaxVersion   \* bound on modifications, with one writer at a time or several

ASSUME WriteHandlesAssumption ==
  /\ Nil \notin Handle
  /\ IsFiniteSet(Handle)
  /\ MaxVersion \in [BOOLEAN -> Nat]

\* How OpenFile is called: O_RDONLY; O_RDWR; O_RDWR|O_CREATE; Create, which
\* adds O_TRUNC; O_RDWR|O_CREATE|O_EXCL.  Stat takes the way of O_RDONLY.
Flag == {"stat", "rdonly", "rdwr", "create", "trunc", "excl"}

Writable(f) == f \in {"rdwr", "create", "trunc", "excl"}
Creates(f)  == f \in {"create", "trunc", "excl"}

VARIABLES
  obj,         \* version of the object, 0 when there is none
  ver,         \* newest version
  openWrites,  \* the writer openWrites holds for the path
  pc,          \* pc[h]: where handle h stands
  flag,        \* flag[h]: how it was opened
  wf,          \* wf[h]: the writer it found or is attached to
  buf,         \* buf[h]: version in its buffer, 0 once destroyed
  dirty,       \* dirty[h]
  shared,      \* shared[h]: read handles attached to it
  wrote,       \* history: newest version h made
  put,         \* history: newest version h uploaded
  floor,       \* history: newest version there was when h was opened
  got,         \* history: version that h found
  replaced,    \* history: writers whose openWrites entry another one took
  oneWriter    \* TRUE when the application opens one writer at a time

vars == <<obj, ver, openWrites, pc, flag, wf, buf, dirty, shared,
          wrote, put, floor, got, replaced, oneWriter>>
mode == <<replaced, oneWriter>>

PC == {"unused", "attach", "resolve", "track", "open", "sync", "close",
       "finish", "closed", "shared", "object", "missing", "failed", "done"}

TypeOK ==
  /\ obj \in Nat /\ ver \in Nat
  /\ openWrites \in Handle \cup {Nil}
  /\ pc     \in [Handle -> PC]
  /\ flag   \in [Handle -> Flag]
  /\ wf     \in [Handle -> Handle \cup {Nil}]
  /\ buf    \in [Handle -> Nat]
  /\ dirty  \in [Handle -> BOOLEAN]
  /\ shared \in [Handle -> Nat]
  /\ wrote  \in [Handle -> Nat]
  /\ put    \in [Handle -> Nat]
  /\ floor  \in [Handle -> Nat]
  /\ got    \in [Handle -> Nat]
  /\ replaced \subseteq Handle
  /\ oneWriter \in BOOLEAN

Init ==
  /\ obj \in {0, 1} /\ ver = obj
  /\ openWrites = Nil
  /\ pc     = [h \in Handle |-> "unused"]
  /\ flag   = [h \in Handle |-> "stat"]
  /\ wf     = [h \in Handle |-> Nil]
  /\ buf    = [h \in Handle |-> 0]
  /\ dirty  = [h \in Handle |-> FALSE]
  /\ shared = [h \in Handle |-> 0]
  /\ wrote  = [h \in Handle |-> 0]
  /\ put    = [h \in Handle |-> 0]
  /\ floor  = [h \in Handle |-> 0]
  /\ got    = [h \in Handle |-> 0]
  /\ replaced = {}
  /\ oneWriter \in BOOLEAN

------------------------------------------------------------------------------
\* A writeFile that is not closed yet; its mutex is taken during an upload
\* and the rest of Close.
Writing(h) == pc[h] \in {"open", "sync", "close", "finish"}
MuFree(h)  == pc[h] \in {"open", "closed"}

\* The newest contents of the path.
Newest == Max({obj} \cup {buf[h] : h \in {w \in Handle : Writing(w)}})

Goto(h, s) == pc' = [pc EXCEPT ![h] = s]

\* An open ends in state s having found version v.
Opened(h, s, v) ==
  /\ Goto(h, s)
  /\ got' = [got EXCEPT ![h] = v]

------------------------------------------------------------------------------
(* OpenFile and Stat.                                                      *)

\* lookupWrite.
OpenFile(h, f) ==
  /\ pc[h] = "unused"
  /\ oneWriter /\ Writable(f) =>
       \A w \in Handle : Writable(flag[w]) => pc[w] \in {"unused", "closed", "failed", "missing"}
  /\ flag'  = [flag EXCEPT ![h] = f]
  /\ wf'    = [wf EXCEPT ![h] = openWrites]
  /\ floor' = [floor EXCEPT ![h] = Newest]
  /\ Goto(h, IF openWrites = Nil THEN "resolve"
             ELSE IF f = "excl" THEN "failed" ELSE "attach")
  /\ UNCHANGED <<obj, ver, openWrites, buf, dirty, shared, wrote, put, got, mode>>

\* Mutant: the attached reader is not counted.
ShareUncounted(h, w) ==
  /\ Opened(h, "shared", buf[w])
  /\ UNCHANGED shared

\* newSharedReadFile: h reads the live buffer of w.
ShareBuffer(h, w) ==
  /\ shared' = [shared EXCEPT ![w] = @ + 1]
  /\ Opened(h, "shared", buf[w])

\* statIfOpen: Stat tells of the live buffer of w.
StatOpen(h, w) == Opened(h, "done", buf[w])

\* h starts with new, empty contents.
StartEmpty(h) ==
  /\ ver < MaxVersion[oneWriter]
  /\ ver'   = ver + 1
  /\ buf'   = [buf EXCEPT ![h] = ver']
  /\ wrote' = [wrote EXCEPT ![h] = ver']
  /\ dirty' = [dirty EXCEPT ![h] = TRUE]
  /\ Opened(h, "track", ver')

\* reopenState: a second writer starts dirty, empty with O_TRUNC and with a
\* copy of the contents of w without.
Reopen(h, w) ==
  \/ flag[h] = "trunc" /\ StartEmpty(h)
  \/ /\ flag[h] # "trunc"
     /\ buf'   = [buf EXCEPT ![h] = buf[w]]
     /\ dirty' = [dirty EXCEPT ![h] = TRUE]
     /\ Opened(h, "track", buf[w])
     /\ UNCHANGED <<ver, wrote>>

\* newSharedReadFile, statIfOpen or reopenState of the writer that was found;
\* if it closed in between the uploaded object serves the open.
Attach(h) ==
  LET w == wf[h] IN
  /\ pc[h] = "attach"
  /\ MuFree(w)
  /\ \/ /\ pc[w] = "closed"
        /\ Goto(h, "resolve")
        /\ UNCHANGED <<ver, buf, dirty, shared, wrote, got>>
     \/ /\ pc[w] = "open" /\ flag[h] = "rdonly"
        /\ ShareBuffer(h, w)
        /\ UNCHANGED <<ver, buf, dirty, wrote>>
     \/ /\ pc[w] = "open" /\ flag[h] = "stat"
        /\ StatOpen(h, w)
        /\ UNCHANGED <<ver, buf, dirty, shared, wrote>>
     \/ /\ pc[w] = "open" /\ Writable(flag[h])
        /\ Reopen(h, w)
        /\ UNCHANGED shared
  /\ UNCHANGED <<obj, openWrites, flag, wf, put, floor, mode>>

\* resolve or resolveForRead: the object decides.
Resolve(h) ==
  /\ pc[h] = "resolve"
  /\ \/ /\ obj # 0 /\ ~Writable(flag[h])
        /\ Opened(h, IF flag[h] = "stat" THEN "done" ELSE "object", obj)
        /\ UNCHANGED <<ver, buf, dirty, wrote>>
     \/ /\ obj = 0 /\ ~Creates(flag[h])
        /\ Opened(h, "missing", 0)
        /\ UNCHANGED <<ver, buf, dirty, wrote>>
     \/ /\ obj # 0 /\ flag[h] = "excl"
        /\ Goto(h, "failed")
        /\ UNCHANGED <<ver, buf, dirty, wrote, got>>
     \/ /\ obj # 0 /\ flag[h] \in {"rdwr", "create"}
        /\ buf' = [buf EXCEPT ![h] = obj]
        /\ Opened(h, "track", obj)
        /\ UNCHANGED <<ver, dirty, wrote>>
     \/ /\ Creates(flag[h]) /\ (obj = 0 \/ flag[h] = "trunc")
        /\ StartEmpty(h)
  /\ wf' = [wf EXCEPT ![h] = Nil]
  /\ UNCHANGED <<obj, openWrites, flag, shared, put, floor, mode>>

trackWrite(h) ==
  /\ openWrites' = h
  /\ replaced' = replaced \cup ({openWrites} \ {Nil})

\* Mutant: whoever closes clears the entry.
UntrackAny(h) == openWrites' = Nil

untrackWrite(h) == openWrites' = IF openWrites = h THEN Nil ELSE openWrites

\* newWriteFileBuf ends with trackWrite.
Track(h) ==
  /\ pc[h] = "track"
  /\ trackWrite(h)
  /\ wf' = [wf EXCEPT ![h] = Nil]
  /\ Goto(h, "open")
  /\ UNCHANGED <<obj, ver, flag, buf, dirty, shared, wrote, put, floor, got, oneWriter>>

------------------------------------------------------------------------------
(* Calls on a write handle.                                                *)

\* Write, WriteAt or Truncate.
Write(h) ==
  /\ pc[h] = "open"
  /\ ver < MaxVersion[oneWriter]
  /\ ver'   = ver + 1
  /\ buf'   = [buf EXCEPT ![h] = ver']
  /\ wrote' = [wrote EXCEPT ![h] = ver']
  /\ dirty' = [dirty EXCEPT ![h] = TRUE]
  /\ UNCHANGED <<obj, openWrites, pc, flag, wf, shared, put, floor, got, mode>>

\* Mutant: Close leaves openWrites before the upload.
FlushUntracked(h, call) ==
  /\ pc[h] = "open"
  /\ Goto(h, IF dirty[h] THEN call ELSE IF call = "close" THEN "finish" ELSE "open")
  /\ openWrites' = IF call = "close" /\ openWrites = h THEN Nil ELSE openWrites
  /\ UNCHANGED <<obj, ver, flag, wf, buf, dirty, shared, wrote, put, floor, got, mode>>

\* Sync or Close takes the mutex and starts flush.
Flush(h, call) ==
  /\ pc[h] = "open"
  /\ Goto(h, IF dirty[h] THEN call ELSE IF call = "close" THEN "finish" ELSE "open")
  /\ UNCHANGED <<obj, ver, openWrites, flag, wf, buf, dirty, shared, wrote,
                 put, floor, got, mode>>

\* The upload succeeds.
Put(h) ==
  /\ pc[h] \in {"sync", "close"}
  /\ obj'   = buf[h]
  /\ put'   = [put EXCEPT ![h] = buf[h]]
  /\ dirty' = [dirty EXCEPT ![h] = FALSE]
  /\ Goto(h, IF pc[h] = "close" THEN "finish" ELSE "open")
  /\ UNCHANGED <<ver, openWrites, flag, wf, buf, shared, wrote, floor, got, mode>>

\* Mutant: dirty is cleared before the upload succeeded.
PutFailClean(h) ==
  /\ pc[h] \in {"sync", "close"}
  /\ dirty' = [dirty EXCEPT ![h] = FALSE]
  /\ Goto(h, "open")
  /\ UNCHANGED <<obj, ver, openWrites, flag, wf, buf, shared, wrote, put, floor, got, mode>>

\* The upload fails, perhaps after it took effect; the handle stays open.
PutFail(h) ==
  /\ pc[h] \in {"sync", "close"}
  /\ UNCHANGED obj \/ obj' = buf[h]
  /\ Goto(h, "open")
  /\ UNCHANGED <<ver, openWrites, flag, wf, buf, dirty, shared, wrote, put,
                 floor, got, mode>>

\* Mutant: the last reader recycles the buffer of an open writer.
DestroyedOpen(h, isClosed, n) == IF n = 0 THEN [buf EXCEPT ![h] = 0] ELSE buf

\* Mutant: Close recycles the buffer under its readers.
DestroyedRead(h, isClosed, n) == IF isClosed THEN [buf EXCEPT ![h] = 0] ELSE buf

\* maybeDestroyLocked, once h is closed or not and n readers are left.
Destroyed(h, isClosed, n) ==
  IF isClosed /\ n = 0 THEN [buf EXCEPT ![h] = 0] ELSE buf

\* Close after flush: closed is set, untrackWrite, maybeDestroyLocked.
Finish(h) ==
  /\ pc[h] = "finish"
  /\ untrackWrite(h)
  /\ buf' = Destroyed(h, TRUE, shared[h])
  /\ Goto(h, "closed")
  /\ UNCHANGED <<obj, ver, flag, wf, dirty, shared, wrote, put, floor, got, mode>>

------------------------------------------------------------------------------
\* sharedReadFile.Close.
CloseShared(h) ==
  LET w == wf[h] IN
  /\ pc[h] = "shared"
  /\ MuFree(w)
  /\ shared' = [shared EXCEPT ![w] = @ - 1]
  /\ buf' = Destroyed(w, pc[w] = "closed", shared'[w])
  /\ wf'  = [wf EXCEPT ![h] = Nil]
  /\ Goto(h, "done")
  /\ UNCHANGED <<obj, ver, openWrites, flag, dirty, wrote, put, floor, got, mode>>

Next ==
  \E h \in Handle :
    \/ \E f \in Flag : OpenFile(h, f)
    \/ Attach(h) \/ Resolve(h) \/ Track(h)
    \/ Write(h) \/ Flush(h, "sync") \/ Flush(h, "close")
    \/ Put(h) \/ PutFail(h) \/ Finish(h)
    \/ CloseShared(h)

Spec == Init /\ [][Next]_vars

------------------------------------------------------------------------------
(* Properties.                                                             *)

\* The read handles attached to writer w.
Attached(w) == {h \in Handle : pc[h] = "shared" /\ wf[h] = w}

\* The buffer of a writer lives exactly as long as a handle can read it: the
\* count is the number of attached read handles, a closed writer's buffer is
\* recycled when the last of them closes, and not before.
SharedBufferAlive ==
  \A w \in Handle :
    /\ shared[w] = Cardinality(Attached(w))
    /\ Attached(w) # {} => buf[w] # 0
    /\ pc[w] = "closed" /\ Attached(w) = {} => buf[w] = 0

\* A Close that returned nil uploaded everything written through the handle,
\* whatever Syncs and Closes failed before.
ClosedIsUploaded ==
  \A h \in Handle : pc[h] = "closed" => put[h] >= wrote[h]

\* openWrites "tracks files opened for write whose contents are not yet
\* uploaded": a writer keeps its entry until its Close succeeds or a later
\* writer of the path takes it, so that opens find its live buffer and not
\* the old object.
WriterIsTracked ==
  \A h \in Handle : Writing(h) /\ h \notin replaced => openWrites = h

\* "Readers of the same path within this instance observe the live buffer":
\* with one writer at a time, an open or a Stat finds contents no older than
\* the newest there were when it was called, also while the writer is closing.
OpenSeesNewest ==
  \A h \in Handle :
    oneWriter /\ pc[h] \in {"shared", "object", "done", "missing", "track", "open"}
      => got[h] >= floor[h]

\* With one writer at a time an upload never replaces the object by older
\* contents.
NoLostUpdate == [][oneWriter => obj' >= obj]_vars

==============================================================================
