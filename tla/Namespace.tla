------------------------------ MODULE Namespace -----------------------------
(***************************************************************************)
(* Files, directories and symbolic links as keys of a bucket: the          *)
(* billy.Filesystem calls of s3fs.go and presign.go, and the S3 primitives *)
(* of s3ops.go they are made of, without the caches.  One call is under    *)
(* way at a time, a step is one of its requests, and between two steps     *)
(* others may write or delete any key.                                     *)
(*                                                                         *)
(* A path is a sequence of names, which are numbers; the root is <<>>.     *)
(* The key of a file is its path and the key of a directory marker ends    *)
(* with an empty name, 0: so keys have the order of their strings, and a   *)
(* directory is the prefix of what is in it.                               *)
(***************************************************************************)
EXTENDS Integers, Sequences, SequencesExt, FiniteSets

CONSTANTS
  Path,        \* paths the application and others use
  DirPath,     \* those of them that may have a marker at first
  Target,      \* targets of links: [abs, val]
  MaxDepth,    \* maxSymlinkDepth
  MaxObjects,  \* bound on the keys there are at first
  MaxForeign,  \* bound on what others do, if there are fewer keys than that
  Overlap      \* TRUE when a path is renamed to one of its ancestors

Root == <<>>
Up   == -1         \* the name ".."
Name == Nat \ {0}

ASSUME NamespaceAssumption ==
  /\ Path \subseteq Seq(Name) /\ Root \notin Path /\ DirPath \subseteq Path
  /\ Target \subseteq [abs : BOOLEAN, val : Seq(Name \cup {Up})]
  /\ MaxDepth \in Nat /\ MaxObjects \in Nat /\ MaxForeign \in Nat
  /\ Overlap \in BOOLEAN

marker(p) == Append(p, 0)

\* Calls that follow links first, and calls that do not.
Following == {"stat", "open", "create", "excl", "readdir", "mkdir", "presignget",
              "presignput"}
Literal   == {"lstat", "readlink", "symlink", "remove", "rename"}

VARIABLES
  bucket,   \* the objects: a function from keys to [kind, val, abs]
  st,       \* the call under way: [pc, call, p, q, hops, keys, i, tok, names, found, res]
  before,   \* history: the bucket when it was called
  touched,  \* history: keys others wrote or deleted since
  view,     \* history: children there always were and ever were while it listed
  left      \* what is left of MaxForeign

vars == <<bucket, st, before, touched, view, left>>

Object(kind, val) == [kind |-> kind, val |-> val, abs |-> FALSE]

\* The objects there may be at first; the contents of a file are its key.
FirstObjects(k) ==
  IF Last(k) = 0 THEN {Object("marker", <<>>)}
  ELSE {Object("file", k)} \cup {[kind |-> "link", val |-> l.val, abs |-> l.abs] : l \in Target}

Key == Path \cup {marker(p) : p \in DirPath}

Idle == [pc |-> "idle", call |-> "none", p |-> Root, q |-> Root, hops |-> 0, keys |-> <<>>,
         i |-> 1, tok |-> <<>>, names |-> {}, found |-> FALSE, res |-> "none"]

Init ==
  /\ \E ks \in SUBSET Key :
       /\ IsFiniteSet(ks) /\ Cardinality(ks) <= MaxObjects
       /\ bucket \in {b \in [ks -> UNION {FirstObjects(k) : k \in ks}] :
                        \A k \in ks : b[k] \in FirstObjects(k)}
       /\ left = IF Cardinality(ks) < MaxObjects THEN MaxForeign ELSE 0
  /\ st = Idle
  /\ before = bucket
  /\ touched = {}
  /\ view = [always |-> {}, ever |-> {}]

\* Only the last name of a key is ever empty, and that of markers always.
IsKey(k) == k \in Seq(Nat) /\ k # <<>> /\ \A n \in 1 .. Len(k) - 1 : k[n] # 0

IsBucket(b) ==
  /\ IsFiniteSet(DOMAIN b)
  /\ b \in [DOMAIN b -> [kind : {"file", "link", "marker"}, val : Seq(Int), abs : BOOLEAN]]
  /\ \A k \in DOMAIN b :
       /\ IsKey(k)
       /\ b[k].kind = "link" => b[k].val \in Seq(Name \cup {Up})
       /\ (b[k].kind = "marker") = (Last(k) = 0)

PC == {"idle", "resolve", "head", "dir", "rmdir", "list", "copy", "delete", "put", "readdir",
       "done"}

Result == {"none", "ok", "file", "link", "dir", "list", "target", "exist", "notexist", "isdir",
           "notdir", "notempty", "invalid", "refused", "loop", "error"}

Local ==
  [pc : PC, call : Following \cup Literal \cup {"none"},
   p : Seq(Name), q : Seq(Name \cup {Up}), hops : 0 .. MaxDepth + 1,
   keys : Seq(Seq(Nat)), i : Nat, tok : Seq(Nat), names : SUBSET (Nat \X BOOLEAN),
   found : BOOLEAN, res : Result]

TypeOK ==
  /\ IsBucket(bucket) /\ IsBucket(before)
  /\ st \in Local
  /\ \A n \in 1 .. Len(st.keys) : IsKey(st.keys[n])
  /\ st.i \in 1 .. Len(st.keys) + 1
  /\ \A k \in touched : IsKey(k)
  /\ left \in 0 .. MaxForeign

------------------------------------------------------------------------------
(* Paths and listings.                                                     *)

\* path.Join(path.Dir(p), target), or path.Clean(target): what cleanPath
\* leaves has no "..", and that of the root is the root.
Down(dir, n) == IF n # Up THEN Append(dir, n) ELSE IF dir = Root THEN dir ELSE Front(dir)

Clean(dir, names) ==
  LET at[n \in 0 .. Len(names)] == IF n = 0 THEN dir ELSE Down(at[n - 1], names[n])
  IN  at[Len(names)]

Follow(b, p) == Clean(IF b[p].abs THEN Root ELSE Front(p), b[p].val)

IsLink(b, p) == p \in DOMAIN b /\ b[p].kind = "link"

\* The keys listPrefix(p) is a prefix of.
Under(b, p) == {k \in DOMAIN b : IsStrictPrefix(p, k)}

\* dirExists: a page of one key, or an empty page that is truncated.
dirExists(b, p) == p = Root \/ Under(b, p) # {}

\* The order of keys, and the keys of ks in it.
Before(j, k) ==
  \/ IsStrictPrefix(j, k)
  \/ \E n \in 1 .. Len(j) : /\ n <= Len(k) /\ SubSeq(j, 1, n - 1) = SubSeq(k, 1, n - 1)
                            /\ j[n] < k[n]
Sorted(ks) ==
  [i \in 1 .. Cardinality(ks) |-> CHOOSE k \in ks : Cardinality({j \in ks : Before(j, k)}) = i - 1]

\* Where the rename of p to q takes key k.
Moved(p, q, k) == q \o SubSeq(k, Len(p) + 1, Len(k))

\* The children of directory p, as <<name, IsDir>>: an object wins over a
\* directory of the same name.
Children(b, p) ==
  {<<Last(k), FALSE>> : k \in {j \in Under(b, p) : Len(j) = Len(p) + 1 /\ Last(j) # 0}}
    \cup {<<k[Len(p) + 1], TRUE>> :
            k \in {j \in Under(b, p) : /\ Len(j) > Len(p) + 1
                                       /\ SubSeq(j, 1, Len(p) + 1) \notin DOMAIN b}}

------------------------------------------------------------------------------
(* The steps of a call.                                                    *)

Return(res) == st' = [st EXCEPT !.pc = "done", !.res = res]

Goto(s) == st' = [st EXCEPT !.pc = s]

Work(s) == st' = [st EXCEPT !.pc = s, !.i = 1]

Steady == UNCHANGED <<bucket, before, touched, left>>

\* The call and what it refuses at once.  Readlink of the root, which has no
\* key, is left out.
Call(c, p, q) ==
  /\ st.pc = "idle"
  /\ Overlap \/ ~(c = "rename" /\ IsStrictPrefix(q, p))
  /\ c = "readlink" => p # Root
  /\ before' = bucket
  /\ st' = [Idle EXCEPT
       !.call = c, !.p = p, !.q = q,
       !.pc  = IF c \in Following THEN "resolve"
               ELSE IF p = Root \/ (c = "rename" /\ q = Root) THEN "done" ELSE "head",
       !.res = IF c \in Following \/ (p # Root /\ ~(c = "rename" /\ q = Root)) THEN "none"
               ELSE IF c = "lstat" THEN "dir" ELSE "refused"]
  /\ UNCHANGED <<bucket, touched, view, left>>

\* Mutant: links are followed for ever.
NoLimit(hops) == FALSE

TooDeep(hops) == hops > MaxDepth

\* Mutant: the links followed are not counted.
ResolveUncounted ==
  /\ st.pc = "resolve"
  /\ IsLink(bucket, st.p)
  /\ st' = [st EXCEPT !.p = Follow(bucket, st.p)]
  /\ Steady /\ UNCHANGED view

\* resolve and resolveForRead, one HeadObject or GetObject of a path.
ResolveLink ==
  /\ st.pc = "resolve"
  /\ IsLink(bucket, st.p)
  /\ IF TooDeep(st.hops + 1)
     THEN st' = [st EXCEPT !.pc = "done", !.res = "loop", !.hops = @ + 1]
     ELSE st' = [st EXCEPT !.p = Follow(bucket, st.p), !.hops = @ + 1]
  /\ Steady /\ UNCHANGED view

\* A file, which the call opens, overwrites or refuses.
ResolveFile ==
  /\ st.pc = "resolve"
  /\ st.p \in DOMAIN bucket /\ ~IsLink(bucket, st.p)
  /\ CASE st.call \in {"stat", "open", "presignget"} -> Return("file")
       [] st.call \in {"readdir", "mkdir"} -> Return("notdir")
       [] st.call = "excl" -> Return("exist")
       [] st.call = "presignput" -> Return("ok")
       [] st.call = "create" -> Goto("put")
  /\ Steady /\ UNCHANGED view

\* No object: a directory, or nothing.  The root is not asked for.
ResolveNone ==
  /\ st.pc = "resolve"
  /\ st.p \notin DOMAIN bucket
  /\ IF st.call = "readdir" THEN Goto("readdir")
     ELSE IF st.p = Root THEN Return(CASE st.call = "stat" -> "dir" [] st.call = "mkdir" -> "ok"
                                       [] OTHER -> "isdir")
     ELSE IF st.call = "excl" /\ st.hops > 0 THEN Return("exist")
     ELSE Goto("dir")
  /\ view' = IF st.call # "readdir" THEN view
             ELSE [always |-> Children(bucket, st.p), ever |-> Children(bucket, st.p)]
  /\ Steady

\* HeadObject of the calls that do not follow links.
HeadLiteral ==
  /\ st.pc = "head"
  /\ \/ /\ st.p \in DOMAIN bucket
        /\ CASE st.call = "lstat" -> Return(bucket[st.p].kind)
             [] st.call = "readlink" -> Return(IF IsLink(bucket, st.p) THEN "target" ELSE "invalid")
             [] st.call = "symlink" -> Return("exist")
             [] st.call = "rename" /\ st.p = st.q -> Return("ok")
             [] st.call = "rename" /\ st.p # st.q ->
                  st' = [st EXCEPT !.pc = "copy", !.keys = <<st.p>>]
             [] st.call = "remove" -> st' = [st EXCEPT !.pc = "delete", !.keys = <<st.p>>]
     \/ /\ st.p \notin DOMAIN bucket
        /\ CASE st.call = "readlink" -> Return("notexist")
             [] st.call = "remove" -> Goto("rmdir")
             [] OTHER -> Goto("dir")
  /\ Steady /\ UNCHANGED view

\* dirExists of a path that is no object, for calls that only tell.
DirTold ==
  LET is == dirExists(bucket, st.p) IN
  /\ st.pc = "dir"
  /\ \/ st.call \in {"stat", "lstat"} /\ Return(IF is THEN "dir" ELSE "notexist")
     \/ st.call \in {"open", "presignget"} /\ Return(IF is THEN "isdir" ELSE "notexist")
     \/ st.call = "presignput" /\ Return(IF is THEN "isdir" ELSE "ok")
  /\ Steady /\ UNCHANGED view

\* The same for calls that go on.
Dir ==
  LET is == dirExists(bucket, st.p) IN
  /\ st.pc = "dir"
  /\ st.call \in {"create", "excl", "mkdir", "symlink", "rename"}
  /\ CASE st.call \in {"create", "excl"} -> IF is THEN Return("isdir") ELSE Goto("put")
       [] st.call = "mkdir" -> IF is THEN Return("ok") ELSE Goto("put")
       [] st.call = "symlink" -> IF is THEN Return("exist") ELSE Goto("put")
       [] st.call = "rename" ->
            IF ~is THEN Return("notexist")
            ELSE IF st.p = st.q THEN Return("ok")
            ELSE IF IsPrefix(st.p, st.q) THEN Return("invalid")
            ELSE Goto("list")
  /\ Steady /\ UNCHANGED view

\* Remove of a directory: a page of at most two keys.  Another page, or a key
\* that is not the marker, means that it is not empty.
RemoveDir ==
  LET ks == Under(bucket, st.p) IN
  /\ st.pc = "rmdir"
  /\ IF ks = {} THEN Return("notexist")
     ELSE IF ks # {marker(st.p)} THEN Return("notempty")
     ELSE st' = [st EXCEPT !.pc = "delete", !.keys = <<marker(st.p)>>]
  /\ Steady /\ UNCHANGED view

\* Mutant: the first page is all there is.
FirstPage(ks, page) == TRUE

LastPage(ks, page) == page = ks

\* The keys after the continuation token.
After(ks) == {k \in ks : st.tok = <<>> \/ Before(st.tok, k)}

\* The last key of a page, which is not empty unless there are no more keys,
\* and the page.
Ends(ks) == IF ks = {} THEN {st.tok} ELSE ks
Upto(ks, l) == {k \in ks : k = l \/ Before(k, l)}

\* listAllKeys: a page of any size.
ListAllKeys ==
  LET ks == After(Under(bucket, st.p)) IN
  /\ st.pc = "list"
  /\ \E l \in Ends(ks) :
       LET keys == st.keys \o Sorted(Upto(ks, l))
           last == LastPage(ks, Upto(ks, l))
       IN  st' = [st EXCEPT !.keys = keys, !.tok = l,
                            !.pc  = IF ~last THEN @ ELSE IF keys = <<>> THEN "done" ELSE "copy",
                            !.res = IF last /\ keys = <<>> THEN "ok" ELSE @]
  /\ Steady /\ UNCHANGED view

\* CopyObject of the next key.
CopiedTo(p, q) ==
  LET k == st.keys[st.i] IN
  [j \in DOMAIN bucket \cup {Moved(p, q, k)} |->
     IF j = Moved(p, q, k) THEN bucket[k] ELSE bucket[j]]

\* Mutant: the error of a copy is ignored.
CopyCareless ==
  /\ st.pc = "copy"
  /\ UNCHANGED bucket \/ (st.keys[st.i] \in DOMAIN bucket /\ bucket' = CopiedTo(st.p, st.q))
  /\ IF st.i < Len(st.keys) THEN st' = [st EXCEPT !.i = @ + 1] ELSE Work("delete")
  /\ UNCHANGED <<before, touched, view, left>>

Copy ==
  /\ st.pc = "copy"
  /\ \/ /\ st.keys[st.i] \in DOMAIN bucket
        /\ bucket' = CopiedTo(st.p, st.q)
        /\ IF st.i < Len(st.keys) THEN st' = [st EXCEPT !.i = @ + 1] ELSE Work("delete")
     \/ /\ st.keys[st.i] \notin DOMAIN bucket
        /\ Return("error")
        /\ UNCHANGED bucket
  /\ UNCHANGED <<before, touched, view, left>>

Delete ==
  /\ st.pc = "delete"
  /\ bucket' = [k \in DOMAIN bucket \ {st.keys[st.i]} |-> bucket[k]]
  /\ IF st.i < Len(st.keys) THEN st' = [st EXCEPT !.i = @ + 1] ELSE Return("ok")
  /\ UNCHANGED <<before, touched, view, left>>

\* Mutant: an upload through a link replaces the link.
PutKeyLink == IF st.call = "mkdir" THEN marker(st.q) ELSE st.q

\* Where the object goes that the call makes, and what it is: a marker, a
\* link, or the contents uploaded on Close.
PutKey == IF st.call = "mkdir" THEN marker(st.p) ELSE st.p

PutObject ==
  CASE st.call = "mkdir" -> Object("marker", <<>>)
    [] st.call = "symlink" -> Object("link", st.q)
    [] OTHER -> Object("file", <<>>)

Put ==
  /\ st.pc = "put"
  /\ bucket' = [k \in DOMAIN bucket \cup {PutKey} |-> IF k = PutKey THEN PutObject ELSE bucket[k]]
  /\ Return("ok")
  /\ UNCHANGED <<before, touched, view, left>>

\* byName after a page: its keys replace what is there, its prefixes do not.
Named(names) == {f[1] : f \in names}
Enter(names, page, d) ==
  LET files == {<<e[d], FALSE>> : e \in {x \in page : Len(x) = d}}
      kept  == files \cup {f \in names : f[1] \notin Named(files)}
  IN  kept \cup {<<e[d], TRUE>> : e \in {x \in page : Len(x) > d /\ x[d] \notin Named(kept)}}

\* The entries of a delimited listing in its order, the marker of the listed
\* directory included: keys of children, then their common prefixes.
Entries(b, p) ==
  {SubSeq(k, 1, Len(p) + 1) : k \in {j \in Under(b, p) : Len(j) = Len(p) + 1}}
    \cup {marker(SubSeq(k, 1, Len(p) + 1)) : k \in {j \in Under(b, p) : Len(j) > Len(p) + 1}}

\* A page of ReadDir.
ReadDir ==
  LET es == After(Entries(bucket, st.p)) IN
  /\ st.pc = "readdir"
  /\ \E l \in Ends(es) :
       LET page  == Upto(es, l)
           found == st.found \/ page # {}
       IN  st' = [st EXCEPT
             !.names = Enter(@, page \ {marker(st.p)}, Len(st.p) + 1),
             !.found = found,
             !.tok   = l,
             !.pc    = IF LastPage(es, page) THEN "done" ELSE @,
             !.res   = IF ~LastPage(es, page) THEN @
                       ELSE IF found \/ st.p = Root THEN "list" ELSE "notexist"]
  /\ Steady /\ UNCHANGED view

------------------------------------------------------------------------------
(* Failures and others.                                                    *)

\* A request fails, or it takes effect and its answer is lost.
Fail ==
  /\ st.pc \notin {"idle", "done"}
  /\ Return("error")
  /\ \/ UNCHANGED bucket
     \/ /\ st.pc = "put"
        /\ bucket' = [k \in DOMAIN bucket \cup {PutKey} |->
                        IF k = PutKey THEN PutObject ELSE bucket[k]]
     \/ /\ st.pc = "copy" /\ st.keys[st.i] \in DOMAIN bucket
        /\ bucket' = CopiedTo(st.p, st.q)
     \/ /\ st.pc = "delete"
        /\ bucket' = [k \in DOMAIN bucket \ {st.keys[st.i]} |-> bucket[k]]
  /\ UNCHANGED <<before, touched, view, left>>

\* Others upload or delete key k.
Foreign(k) ==
  /\ st.pc \notin {"idle", "done"}
  /\ left > 0 /\ left' = left - 1
  /\ \/ bucket' = [j \in DOMAIN bucket \ {k} |-> bucket[j]]
     \/ bucket' = [j \in DOMAIN bucket \cup {k} |->
                     IF j = k THEN Object(IF Last(k) = 0 THEN "marker" ELSE "file", <<0>>)
                     ELSE bucket[j]]
  /\ touched' = touched \cup {k}
  /\ view' = IF st.pc # "readdir" THEN view
             ELSE [always |-> view.always \cap Children(bucket', st.p),
                   ever   |-> view.ever \cup Children(bucket', st.p)]
  /\ UNCHANGED <<st, before>>

Step ==
  \/ ResolveLink \/ ResolveFile \/ ResolveNone \/ HeadLiteral \/ DirTold \/ Dir
  \/ RemoveDir \/ ListAllKeys \/ Copy \/ Delete \/ Put \/ ReadDir

Next ==
  \/ \E c \in Following \cup {"lstat", "readlink", "remove"}, p \in Path \cup {Root} :
       Call(c, p, p)
  \/ \E p, q \in Path \cup {Root} : Call("rename", p, q)
  \/ \E p \in Path \cup {Root}, l \in Target : ~l.abs /\ Call("symlink", p, l.val)
  \/ Step \/ Fail
  \/ \E k \in Key : Foreign(k)

\* A request is answered or fails.
Spec == Init /\ [][Next]_vars /\ WF_vars(Step)

------------------------------------------------------------------------------
(* Properties.                                                             *)

\* Reference: where path p leads in at most MaxDepth links.
LeadsTo(b, p) ==
  LET at[n \in Nat] == IF n = 0 THEN p
                       ELSE IF IsLink(b, at[n - 1]) THEN Follow(b, at[n - 1]) ELSE at[n - 1]
  IN  at[MaxDepth]

Kind(b, p) ==
  IF p \in DOMAIN b THEN b[p].kind ELSE IF dirExists(b, p) THEN "dir" ELSE "none"

With(b, k, o)  == [j \in DOMAIN b \cup {k} |-> IF j = k THEN o ELSE b[j]]
Renamed(b, p, q) ==
  LET ks == IF p \in DOMAIN b THEN {p} ELSE Under(b, p)
      ms == {Moved(p, q, k) : k \in ks}
  IN  [j \in (DOMAIN b \ ks) \cup ms |->
         IF j \in ms THEN b[CHOOSE k \in ks : Moved(p, q, k) = j] ELSE b[j]]

\* Results: told with no change, an object made, an object removed.
Tells(b, r)    == [res |-> r, after |-> b]
Makes(b, k, o) == [res |-> "ok", after |-> With(b, k, o)]
Drops(b, k)    == [res |-> "ok", after |-> [j \in DOMAIN b \ {k} |-> b[j]]]

\* Reference: a call whose links lead to e, which is of kind k and no link.
Followed(c, e, k, b) ==
  CASE c = "stat" -> Tells(b, IF k = "none" THEN "notexist" ELSE k)
    [] c \in {"open", "presignget"} ->
         Tells(b, CASE k = "file" -> "file" [] k = "dir" -> "isdir" [] k = "none" -> "notexist")
    [] c = "create" ->
         IF k = "dir" THEN Tells(b, "isdir") ELSE Makes(b, e, Object("file", <<>>))
    [] c = "excl" ->
         IF k = "none" THEN Makes(b, e, Object("file", <<>>))
         ELSE Tells(b, IF k = "dir" THEN "isdir" ELSE "exist")
    [] c = "presignput" -> Tells(b, IF k = "dir" THEN "isdir" ELSE "ok")
    [] c = "mkdir" ->
         IF k = "none" THEN Makes(b, marker(e), Object("marker", <<>>))
         ELSE Tells(b, IF k = "dir" THEN "ok" ELSE "notdir")
    [] c = "readdir" ->
         Tells(b, CASE k = "dir" -> "list" [] k = "file" -> "notdir" [] k = "none" -> "notexist")

\* Reference: a call of p, which is of kind k, that does not follow links.
Straight(c, p, q, k, b) ==
  CASE c = "lstat" -> Tells(b, IF k = "none" THEN "notexist" ELSE k)
    [] c = "readlink" ->
         Tells(b, CASE k = "link" -> "target" [] k = "file" -> "invalid" [] OTHER -> "notexist")
    [] c = "symlink" ->
         IF p = Root THEN Tells(b, "refused")
         ELSE IF k = "none" THEN Makes(b, p, Object("link", q)) ELSE Tells(b, "exist")
    [] c = "remove" ->
         IF p = Root THEN Tells(b, "refused")
         ELSE IF k \in {"file", "link"} THEN Drops(b, p)
         ELSE IF k = "none" THEN Tells(b, "notexist")
         ELSE IF Under(b, p) = {marker(p)} THEN Drops(b, marker(p)) ELSE Tells(b, "notempty")
    [] c = "rename" ->
         IF p = Root \/ q = Root THEN Tells(b, "refused")
         ELSE IF k = "none" THEN Tells(b, "notexist")
         ELSE IF p = q THEN Tells(b, "ok")
         ELSE IF k = "dir" /\ IsPrefix(p, q) THEN Tells(b, "invalid")
         ELSE [res |-> "ok", after |-> Renamed(b, p, q)]

\* Reference: the result and the bucket of a call nobody disturbs.
Expected(c, p, q, b) ==
  LET e == LeadsTo(b, p) IN
  IF c \notin Following THEN Straight(c, p, q, Kind(b, p), b)
  ELSE IF Kind(b, e) = "link" THEN Tells(b, "loop")
  ELSE IF c = "excl" /\ IsLink(b, p) /\ e # Root THEN Tells(b, "exist")
  ELSE Followed(c, e, Kind(b, e), b)

\* A call that returns, with no failure and nobody interfering, has the
\* result and the effect of the reference: link chains up to the limit,
\* relative and dangling links, names that are a file and a directory,
\* listings in pages.
CallsAreExact ==
  st.pc = "done" /\ st.res # "error" /\ touched = {} =>
    LET x == Expected(st.call, IF st.call \in Following THEN st.q ELSE st.p, st.q, before) IN
    /\ st.res = x.res
    /\ bucket = x.after
    /\ st.res = "list" => st.names = Children(bucket, st.p)

\* What the call under way may replace.
Replaced ==
  CASE st.call = "rename" ->
         {Moved(st.p, st.q, k) : k \in {j \in DOMAIN before \cup touched : IsPrefix(st.p, j)}}
    [] st.call = "remove" -> {st.p, marker(st.p)}
    [] st.call = "create" -> {st.p}
    [] OTHER -> {}

\* At every step of a call, also when it stops at a failure and whatever
\* others do to other keys, no contents are lost: "directories move all keys
\* under their prefix", and each is at its old or its new place.
ContentsKept ==
  \A k \in DOMAIN before \ (touched \cup Replaced) :
    \/ k \in DOMAIN bucket /\ bucket[k] = before[k]
    \/ /\ st.call = "rename" /\ IsPrefix(st.p, k)
       /\ LET m == Moved(st.p, st.q, k) IN
            m \in touched \/ (m \in DOMAIN bucket /\ bucket[m] = before[k])

\* ReadDir lists what was there all the time, and only what was there at
\* some time, though others create and delete files between its pages.
ReadDirExact ==
  st.call = "readdir" /\ st.pc = "done" /\ st.res \in {"list", "notexist"} =>
    view.always \subseteq st.names /\ st.names \subseteq view.ever

\* Every call returns: cycles of links are given up, listings end.
CallsReturn == (st.pc \notin {"idle", "done"}) ~> (st.pc = "done")

==============================================================================
