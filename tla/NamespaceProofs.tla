--------------------------- MODULE NamespaceProofs --------------------------
(***************************************************************************)
(* Proofs about Namespace, for any buckets, paths, links, limit of links,  *)
(* sizes of pages, failures and number of foreign changes.                 *)
(***************************************************************************)
EXTENDS Namespace, Induction, SequenceTheorems

------------------------------------------------------------------------------
(* Sequences.                                                              *)

\* A prefix, name by name.
LEMMA PrefixIs ==
  ASSUME NEW s \in Seq(Int), NEW t \in Seq(Int)
  PROVE  /\ IsPrefix(s, t) <=> Len(s) <= Len(t) /\ \A i \in 1 .. Len(s) : s[i] = t[i]
         /\ IsStrictPrefix(s, t) <=> Len(s) < Len(t) /\ \A i \in 1 .. Len(s) : s[i] = t[i]
<1> DEFINE m == Len(s)
           a == SubSeq(t, 1, m)
<1>1. m \in Nat /\ Len(t) \in Nat /\ \A i \in 1 .. m : s[i] \in Int
  OBVIOUS
<1>2. SubSeq(s, 1, m) = s
  BY SubSeqFull
<1>3. ASSUME m <= Len(t)
      PROVE  a \in Seq(Int) /\ Len(a) = m /\ \A i \in 1 .. m : a[i] = t[i]
  <2>1. \A i \in 1 .. m : t[i] \in Int
    BY <1>1, <1>3
  <2>2. /\ a \in Seq(Int) /\ Len(a) = IF 1 <= m THEN m - 1 + 1 ELSE 0
        /\ \A i \in 1 .. m - 1 + 1 : a[i] = t[1 + i - 1]
    BY <1>1, <2>1, SubSeqProperties
  <2> HIDE DEF a, m
  <2> QED
    BY <1>1, <2>2
<1>4. IsPrefix(s, t) <=> m <= Len(t) /\ s = a
  BY <1>2 DEF IsPrefix
<1>5. IsPrefix(s, t) <=> m <= Len(t) /\ \A i \in 1 .. m : s[i] = t[i]
  <2>1. CASE m <= Len(t)
    <3>1. s = a <=> \A i \in 1 .. m : s[i] = a[i]
      <4> HIDE DEF a
      <4> QED
        BY <1>3, <2>1, SeqEqual
    <3> HIDE DEF a, m
    <3> QED
      BY <1>1, <1>3, <1>4, <2>1, <3>1
  <2> QED
    BY <1>4, <2>1
<1>6. IsPrefix(s, t) => (s = t <=> m = Len(t))
  BY <1>5, SeqEqual
<1>7. m <= Len(t) /\ m # Len(t) <=> m < Len(t)
  BY <1>1
<1> HIDE DEF m
<1> QED
  BY <1>5, <1>6, <1>7 DEF IsStrictPrefix, m

\* Of two prefixes of one key one is a prefix of the other.
LEMMA PrefixesNest ==
  ASSUME NEW s \in Seq(Int), NEW t \in Seq(Int), NEW k \in Seq(Int), IsPrefix(s, k), IsPrefix(t, k)
  PROVE  IsPrefix(s, t) \/ IsPrefix(t, s)
<1>1. Len(s) <= Len(k) /\ \A i \in 1 .. Len(s) : s[i] = k[i]
  BY PrefixIs
<1>2. Len(t) <= Len(k) /\ \A i \in 1 .. Len(t) : t[i] = k[i]
  BY PrefixIs
<1>3. Len(s) \in Nat /\ Len(t) \in Nat /\ Len(k) \in Nat
  OBVIOUS
<1>4. CASE Len(s) <= Len(t)
  <2>1. \A i \in 1 .. Len(s) : s[i] = t[i]
    BY <1>1, <1>2, <1>3, <1>4
  <2> QED
    BY <1>4, <2>1, PrefixIs
<1>5. CASE Len(t) <= Len(s)
  <2>1. \A i \in 1 .. Len(t) : t[i] = s[i]
    BY <1>1, <1>2, <1>3, <1>5
  <2> QED
    BY <1>5, <2>1, PrefixIs
<1> QED
  BY <1>3, <1>4, <1>5

\* The path of a file and the key of a marker.
LEMMA PathKey ==
  ASSUME NEW p \in Seq(Name)
  PROVE  /\ p \in Seq(Nat) /\ p \in Seq(Int)
         /\ p # Root => IsKey(p) /\ Last(p) # 0 /\ Len(p) >= 1
         /\ IsKey(marker(p)) /\ Last(marker(p)) = 0
         /\ Len(marker(p)) = Len(p) + 1 /\ \A i \in 1 .. Len(p) : marker(p)[i] = p[i]
         /\ marker(p)[Len(p) + 1] = 0
<1>1. p \in Seq(Nat) /\ p \in Seq(Int) /\ Len(p) \in Nat /\ \A i \in 1 .. Len(p) : p[i] \in Name
  <2>1. Name \subseteq Nat /\ Name \subseteq Int
    BY DEF Name
  <2>2. p \in Seq(Nat)
    BY <2>1, SeqMonotonic
  <2>3. p \in Seq(Int)
    BY <2>1, SeqMonotonic
  <2> QED
    BY <2>2, <2>3
<1>2. p # Root => Len(p) >= 1
  BY EmptySeq DEF Root
<1>3. p # Root => IsKey(p) /\ Last(p) # 0
  BY <1>1, <1>2 DEF IsKey, Last, Name, Root
<1>4. /\ marker(p) \in Seq(Nat) /\ marker(p) # <<>> /\ Len(marker(p)) = Len(p) + 1
      /\ \A i \in 1 .. Len(p) : marker(p)[i] = p[i]
      /\ marker(p)[Len(p) + 1] = 0
  BY <1>1, AppendProperties DEF marker
<1>5. IsKey(marker(p)) /\ Last(marker(p)) = 0
  <2> HIDE DEF marker
  <2>1. Len(marker(p)) - 1 = Len(p)
    BY <1>1, <1>4
  <2>2. \A n \in 1 .. Len(p) : marker(p)[n] # 0
    BY <1>1, <1>4 DEF Name
  <2> QED
    BY <1>4, <2>1, <2>2 DEF IsKey, Last
<1> QED
  BY <1>1, <1>2, <1>3, <1>4, <1>5

\* The marker of a directory is in it.
LEMMA MarkerUnder ==
  ASSUME NEW p \in Seq(Name)
  PROVE  IsStrictPrefix(p, marker(p))
<1> DEFINE m == marker(p)
<1>1. p \in Seq(Int) /\ m \in Seq(Nat) /\ Len(m) = Len(p) + 1 /\ \A i \in 1 .. Len(p) : m[i] = p[i]
  BY PathKey DEF IsKey
<1> HIDE DEF m
<1>2. m \in Seq(Int)
  BY <1>1, SeqMonotonic
<1>3. Len(p) < Len(m)
  BY <1>1
<1>4. IsStrictPrefix(p, m)
  BY <1>1, <1>2, <1>3, PrefixIs
<1> QED
  BY <1>4 DEF m

\* The end of a key after the first n names.
LEMMA TailIs ==
  ASSUME NEW k \in Seq(Nat), NEW n \in 0 .. Len(k)
  PROVE  LET u == SubSeq(k, n + 1, Len(k)) IN
         /\ u \in Seq(Nat) /\ Len(u) = Len(k) - n
         /\ \A i \in 1 .. Len(k) - n : u[i] = k[n + i]
<1> DEFINE l == Len(k)
           u == SubSeq(k, n + 1, l)
<1>1. l \in Nat /\ n \in Nat /\ n <= l /\ n + 1 \in Int /\ l \in Int
  OBVIOUS
<1>2. \A i \in n + 1 .. l : k[i] \in Nat
  BY <1>1
<1>3. /\ u \in Seq(Nat) /\ Len(u) = IF n + 1 <= l THEN l - (n + 1) + 1 ELSE 0
      /\ \A i \in 1 .. l - (n + 1) + 1 : u[i] = k[n + 1 + i - 1]
  <2> HIDE DEF l
  <2> QED
    BY <1>1, <1>2, SubSeqProperties
<1> HIDE DEF l, u
<1>4. l - (n + 1) + 1 = l - n /\ (~(n + 1 <= l) => l - n = 0)
  BY <1>1
<1>5. \A i \in 1 .. l - n : n + 1 + i - 1 = n + i
  BY <1>1
<1> QED
  BY <1>3, <1>4, <1>5 DEF l, u

\* The first n names of a key.
LEMMA HeadIs ==
  ASSUME NEW k \in Seq(Nat), NEW n \in 0 .. Len(k)
  PROVE  LET u == SubSeq(k, 1, n) IN
         u \in Seq(Nat) /\ Len(u) = n /\ \A i \in 1 .. n : u[i] = k[i]
<1> DEFINE u == SubSeq(k, 1, n)
<1>1. Len(k) \in Nat /\ n \in Nat /\ n <= Len(k) /\ 1 \in Int /\ n \in Int
  OBVIOUS
<1>2. \A i \in 1 .. n : k[i] \in Nat
  BY <1>1
<1>3. /\ u \in Seq(Nat) /\ Len(u) = IF 1 <= n THEN n - 1 + 1 ELSE 0
      /\ \A i \in 1 .. n - 1 + 1 : u[i] = k[1 + i - 1]
  BY <1>1, <1>2, SubSeqProperties
<1> HIDE DEF u
<1>4. Len(u) = n /\ \A i \in 1 .. n : u[i] = k[i]
  BY <1>1, <1>3
<1> QED
  BY <1>3, <1>4 DEF u

\* Rename replaces the names of p by those of q.
LEMMA MovedIs ==
  ASSUME NEW p \in Seq(Name), NEW q \in Seq(Name), NEW k \in Seq(Nat), IsPrefix(p, k)
  PROVE  LET m == Moved(p, q, k) IN
         /\ m \in Seq(Nat) /\ Len(m) = Len(q) + (Len(k) - Len(p)) /\ IsPrefix(q, m)
         /\ \A i \in 1 .. Len(q) : m[i] = q[i]
         /\ \A i \in 1 .. Len(k) - Len(p) : m[Len(q) + i] = k[Len(p) + i]
         /\ Len(p) \in Nat /\ Len(q) \in Nat /\ Len(k) - Len(p) \in Nat
         /\ \A i \in 1 .. Len(p) : k[i] = p[i]
<1> DEFINE u == SubSeq(k, Len(p) + 1, Len(k))
           m == Moved(p, q, k)
<1>1. /\ p \in Seq(Nat) /\ q \in Seq(Nat) /\ p \in Seq(Int) /\ q \in Seq(Int)
  BY PathKey
<1>2. k \in Seq(Int)
  BY SeqMonotonic
<1>3. /\ Len(p) \in Nat /\ Len(q) \in Nat /\ Len(k) \in Nat /\ Len(p) <= Len(k)
      /\ \A i \in 1 .. Len(p) : k[i] = p[i]
  BY <1>1, <1>2, PrefixIs
<1>4. /\ u \in Seq(Nat) /\ Len(u) = Len(k) - Len(p)
      /\ \A i \in 1 .. Len(k) - Len(p) : u[i] = k[Len(p) + i]
  BY <1>3, TailIs
<1> HIDE DEF u
<1>5. m = q \o u
  BY DEF Moved, u
<1> HIDE DEF m
<1> DEFINE c == Len(q)
           e == Len(u)
<1>6. /\ m \in Seq(Nat) /\ Len(m) = c + e
      /\ \A i \in 1 .. c + e : m[i] = IF i <= c THEN q[i] ELSE u[i - c]
  <2>1. q \in Seq(Nat) /\ u \in Seq(Nat)
    BY <1>1, <1>4
  <2>2. /\ q \o u \in Seq(Nat) /\ Len(q \o u) = Len(q) + Len(u)
        /\ \A i \in 1 .. Len(q) + Len(u) : (q \o u)[i] = IF i <= Len(q) THEN q[i] ELSE u[i - Len(q)]
    BY <2>1, ConcatProperties
  <2> QED
    BY <1>5, <2>2
<1>7. \A i \in 1 .. Len(q) : m[i] = q[i]
  <2>1. c \in Nat /\ e \in Nat
    BY <1>1, <1>4
  <2> HIDE DEF c, e
  <2>2. \A i \in 1 .. c : m[i] = q[i]
    BY <1>6, <2>1
  <2> QED
    BY <2>2 DEF c
<1>8. ASSUME NEW i \in 1 .. Len(k) - Len(p) PROVE m[Len(q) + i] = k[Len(p) + i]
  <2>1. /\ c + i \in 1 .. c + e /\ ~(c + i <= c) /\ c + i - c = i
    BY <1>3, <1>4
  <2>2. m[c + i] = u[i]
    <3>1. \A n \in 1 .. c + e : m[n] = IF n <= c THEN q[n] ELSE u[n - c]
      BY <1>6
    <3>2. c \in Int /\ e \in Int /\ i \in Int
      BY <1>1, <1>4
    <3> HIDE DEF c, e
    <3>3. \A n \in Int : n = c + i => m[n] = u[n - c]
      BY <2>1, <3>1, <3>2
    <3> QED
      BY <2>1, <3>2, <3>3
  <2> USE DEF c
  <2> QED
    BY <1>4, <2>2
<1>9. IsPrefix(q, m)
  <2>1. m \in Seq(Int) /\ Len(q) <= Len(m)
    <3>1. m \in Seq(Int)
      BY <1>6, SeqMonotonic
    <3> QED
      BY <1>3, <1>4, <1>6, <3>1
  <2> QED
    BY <1>1, <1>7, <2>1, PrefixIs
<1> QED
  BY <1>3, <1>4, <1>6, <1>7, <1>8, <1>9 DEF m

\* Different keys are moved to different places.
LEMMA MovedInjective ==
  ASSUME NEW p \in Seq(Name), NEW q \in Seq(Name), NEW j \in Seq(Nat), NEW k \in Seq(Nat),
         IsPrefix(p, j), IsPrefix(p, k), Moved(p, q, j) = Moved(p, q, k)
  PROVE  j = k
<1> DEFINE m == Moved(p, q, k)
           d == Len(k) - Len(p)
<1>1. /\ Len(m) = Len(q) + d /\ Len(p) \in Nat /\ Len(q) \in Nat /\ d \in Nat
      /\ \A i \in 1 .. d : m[Len(q) + i] = k[Len(p) + i]
      /\ \A i \in 1 .. Len(p) : k[i] = p[i]
  BY MovedIs
<1>2. /\ Len(m) = Len(q) + (Len(j) - Len(p)) /\ Len(j) - Len(p) \in Nat
      /\ \A i \in 1 .. Len(j) - Len(p) : m[Len(q) + i] = j[Len(p) + i]
      /\ \A i \in 1 .. Len(p) : j[i] = p[i]
  <2> DEFINE n == Moved(p, q, j)
  <2>1. /\ Len(n) = Len(q) + (Len(j) - Len(p)) /\ Len(j) - Len(p) \in Nat
        /\ \A i \in 1 .. Len(j) - Len(p) : n[Len(q) + i] = j[Len(p) + i]
        /\ \A i \in 1 .. Len(p) : j[i] = p[i]
    BY MovedIs
  <2>2. n = m
    OBVIOUS
  <2> HIDE DEF n, m
  <2> QED
    BY <2>1, <2>2
<1>3. Len(j) \in Nat /\ Len(k) \in Nat
  OBVIOUS
<1> HIDE DEF m
<1>4. Len(j) = Len(k)
  BY <1>1, <1>2, <1>3
<1>5. ASSUME NEW i \in 1 .. Len(k) PROVE j[i] = k[i]
  <2>1. CASE i <= Len(p)
    BY <1>1, <1>2, <1>3, <2>1
  <2>2. CASE ~(i <= Len(p))
    <3>1. i - Len(p) \in 1 .. d /\ Len(p) + (i - Len(p)) = i
      BY <1>1, <1>3, <2>2
    <3> QED
      BY <1>1, <1>2, <1>4, <3>1
  <2> QED
    BY <2>1, <2>2
<1> QED
  BY <1>4, <1>5, SeqEqual

\* What is moved is a key, and a marker if and only if it was one.
LEMMA MovedKey ==
  ASSUME NEW p \in Seq(Name), NEW q \in Seq(Name), p # Root, q # Root,
         NEW k, IsKey(k), IsPrefix(p, k)
  PROVE  LET m == Moved(p, q, k) IN IsKey(m) /\ (Last(m) = 0 <=> Last(k) = 0)
<1> DEFINE m == Moved(p, q, k)
           d == Len(k) - Len(p)
<1>1. /\ k \in Seq(Nat) /\ Len(k) \in Nat /\ k # <<>> /\ \A n \in 1 .. Len(k) - 1 : k[n] # 0
  BY DEF IsKey
<1>2. /\ m \in Seq(Nat) /\ Len(m) = Len(q) + d
      /\ \A i \in 1 .. Len(q) : m[i] = q[i]
      /\ \A i \in 1 .. d : m[Len(q) + i] = k[Len(p) + i]
      /\ Len(p) \in Nat /\ Len(q) \in Nat /\ d \in Nat
      /\ \A i \in 1 .. Len(p) : k[i] = p[i]
  BY <1>1, MovedIs
<1>3. Len(p) >= 1 /\ Len(q) >= 1
  BY PathKey
<1> HIDE DEF m
<1>4. \A i \in 1 .. Len(q) : m[i] # 0
  <2>1. \A i \in 1 .. Len(q) : q[i] \in Name
    OBVIOUS
  <2> QED
    BY <1>2, <2>1 DEF Name
<1>5. ASSUME NEW n \in 1 .. Len(m) - 1 PROVE m[n] # 0
  <2>1. CASE n <= Len(q)
    BY <1>2, <1>4, <2>1
  <2>2. CASE ~(n <= Len(q))
    <3>1. n - Len(q) \in 1 .. d /\ Len(q) + (n - Len(q)) = n
      BY <1>2, <2>2
    <3>2. m[n] = k[Len(p) + (n - Len(q))]
      BY <1>2, <3>1
    <3>3. Len(p) + (n - Len(q)) \in 1 .. Len(k) - 1
      BY <1>1, <1>2, <2>2
    <3> QED
      BY <1>1, <3>2, <3>3
  <2> QED
    BY <2>1, <2>2
<1>6. IsKey(m)
  BY <1>2, <1>3, <1>5, EmptySeq DEF IsKey
<1>7. Last(m) = 0 <=> Last(k) = 0
  <2>1. CASE d = 0
    <3>1. Len(m) = Len(q) /\ Len(k) = Len(p)
      <4>1. Len(m) = Len(q) + d /\ Len(k) \in Nat /\ Len(p) \in Nat /\ Len(q) \in Nat
        BY <1>1, <1>2
      <4> QED
        BY <2>1, <4>1
    <3>0. Len(q) \in 1 .. Len(q) /\ Len(p) \in 1 .. Len(p)
      BY <1>2, <1>3
    <3>2. m[Len(m)] # 0
      BY <1>4, <3>0, <3>1
    <3>3. p[Len(p)] # 0
      BY <3>0 DEF Name
    <3> QED
      BY <1>2, <3>0, <3>1, <3>2, <3>3 DEF Last
  <2>2. CASE d # 0
    <3>1. d \in 1 .. d /\ Len(m) = Len(q) + d /\ Len(k) = Len(p) + d
      BY <1>1, <1>2, <2>2
    <3>2. m[Len(m)] = k[Len(k)]
      BY <1>2, <3>1
    <3> QED
      BY <3>2 DEF Last
  <2> QED
    BY <2>1, <2>2
<1> QED
  BY <1>6, <1>7 DEF m

\* Following one name of a target leads to a path.
LEMMA DownIs ==
  ASSUME NEW d \in Seq(Name), NEW n \in Name \cup {Up}
  PROVE  Down(d, n) \in Seq(Name)
<1>1. CASE n # Up
  BY <1>1, AppendProperties DEF Down
<1>2. CASE n = Up /\ d = Root
  BY <1>2 DEF Down
<1>3. CASE n = Up /\ d # Root
  <2>1. \A i \in 1 .. Len(d) - 1 : d[i] \in Name
    OBVIOUS
  <2>2. Front(d) \in Seq(Name)
    BY <2>1, SubSeqProperties DEF Front
  <2> QED
    BY <1>3, <2>2 DEF Down
<1> QED
  BY <1>1, <1>2, <1>3

\* A cleaned path is a path.
LEMMA CleanIs ==
  ASSUME NEW d \in Seq(Name), NEW t \in Seq(Name \cup {Up})
  PROVE  Clean(d, t) \in Seq(Name)
<1> DEFINE N == Len(t)
           V == Seq(Name)
           step == [n \in Nat |-> [v \in V |-> IF n \in 1 .. N THEN Down(v, t[n]) ELSE v]]
           Is(f) == f = [n \in 0 .. N |-> IF n = 0 THEN d ELSE Down(f[n - 1], t[n])]
<1>1. N \in Nat /\ \A n \in 1 .. N : t[n] \in Name \cup {Up}
  OBVIOUS
<1>2. StaysIn(V, step)
  BY <1>1, DownIs DEF StaysIn
<1>3. PICK h : /\ h \in [Nat -> V] /\ h[0] = d
               /\ \A n \in Nat : h[n + 1] = step[n + 1][h[n]]
  <2> HIDE DEF V, step
  <2>1. d \in V
    BY DEF V
  <2>2. \E h : Recurses(h, V, d, step)
    BY <1>2, <2>1, Recursion
  <2> QED
    BY <2>2 DEF Recurses
<1> DEFINE g == [n \in 0 .. N |-> h[n]]
<1>4. ASSUME NEW n \in 0 .. N, n # 0 PROVE h[n] = Down(h[n - 1], t[n])
  <2>1. n - 1 \in Nat /\ n - 1 + 1 = n /\ n \in 1 .. N /\ n \in Nat
    BY <1>1, <1>4
  <2>2. h[n] = step[n][h[n - 1]] /\ h[n - 1] \in V
    BY <1>3, <2>1
  <2> QED
    BY <2>1, <2>2
<1>5. Is(g)
  <2>1. \A n \in 0 .. N : n # 0 => n - 1 \in 0 .. N /\ g[n - 1] = h[n - 1]
    BY <1>1
  <2> QED
    BY <1>3, <1>4, <2>1
<1> DEFINE f == CHOOSE f : Is(f)
<1>6. Is(f)
  <2> HIDE DEF Is, g
  <2> QED
    BY <1>5
<1>7. Clean(d, t) = f[N]
  BY DEF Clean
<1> HIDE DEF f
<1> DEFINE T == {n \in Nat : n \in 0 .. N => f[n] \in V}
<1>8. Nat \subseteq T
  <2>1. 0 \in T
    BY <1>1, <1>6
  <2>2. ASSUME NEW n \in Nat, n \in T PROVE n + 1 \in T
    <3> SUFFICES ASSUME n + 1 \in 0 .. N PROVE f[n + 1] \in V
      OBVIOUS
    <3>1. n \in 0 .. N /\ n + 1 # 0 /\ n + 1 - 1 = n /\ n + 1 \in 1 .. N
      <4>1. N \in Nat
        BY <1>1
      <4> HIDE DEF N
      <4> QED
        BY <4>1
    <3>2. f[n] \in V
      BY <2>2, <3>1
    <3>3. f[n + 1] = Down(f[n], t[n + 1])
      <4>1. \A m \in 0 .. N : f[m] = IF m = 0 THEN d ELSE Down(f[m - 1], t[m])
        BY <1>6
      <4> HIDE DEF N
      <4>2. f[n + 1] = Down(f[n + 1 - 1], t[n + 1])
        BY <3>1, <4>1
      <4> QED
        BY <3>1, <4>2
    <3> QED
      BY <1>1, <3>1, <3>2, <3>3, DownIs
  <2> HIDE DEF T
  <2> QED
    BY <2>1, <2>2, NumberInduction
<1> QED
  BY <1>1, <1>7, <1>8

\* A link is followed to a path.
LEMMA FollowIs ==
  ASSUME NEW b, IsBucket(b), NEW p \in Seq(Name), IsLink(b, p)
  PROVE  Follow(b, p) \in Seq(Name)
<1>1. b[p].val \in Seq(Name \cup {Up})
  BY DEF IsBucket, IsLink
<1>2. Root \in Seq(Name)
  BY DEF Root
<1>3. Front(p) \in Seq(Name)
  <2>1. \A i \in 1 .. Len(p) - 1 : p[i] \in Name
    OBVIOUS
  <2> QED
    BY <2>1, SubSeqProperties DEF Front
<1> DEFINE d == IF b[p].abs THEN Root ELSE Front(p)
<1>4. d \in Seq(Name)
  BY <1>2, <1>3
<1>5. Follow(b, p) = Clean(d, b[p].val)
  BY DEF Follow
<1> HIDE DEF d
<1> QED
  BY <1>1, <1>4, <1>5, CleanIs

------------------------------------------------------------------------------
(* The order of keys.                                                      *)

\* The order, name by name.
LEMMA BeforeIs ==
  ASSUME NEW j \in Seq(Nat), NEW k \in Seq(Nat)
  PROVE  Before(j, k) <=>
           \/ Len(j) < Len(k) /\ \A i \in 1 .. Len(j) : j[i] = k[i]
           \/ \E n \in 1 .. Len(j) : /\ n <= Len(k) /\ j[n] < k[n]
                                     /\ \A i \in 1 .. n - 1 : j[i] = k[i]
<1>1. j \in Seq(Int) /\ k \in Seq(Int) /\ Len(j) \in Nat /\ Len(k) \in Nat
  <2>1. j \in Seq(Int)
    BY SeqMonotonic
  <2>2. k \in Seq(Int)
    BY SeqMonotonic
  <2> QED
    BY <2>1, <2>2
<1>2. ASSUME NEW n \in 1 .. Len(j), n <= Len(k)
      PROVE  SubSeq(j, 1, n - 1) = SubSeq(k, 1, n - 1) <=> \A i \in 1 .. n - 1 : j[i] = k[i]
  <2> DEFINE a == SubSeq(j, 1, n - 1)
             b == SubSeq(k, 1, n - 1)
             m == n - 1
  <2>1. m \in Nat /\ m <= Len(j) /\ m <= Len(k)
    BY <1>1, <1>2
  <2>2. \A i \in 1 .. m : j[i] \in Int /\ k[i] \in Int
    BY <1>1, <2>1
  <2>3. /\ a \in Seq(Int) /\ Len(a) = m /\ \A i \in 1 .. m : a[i] = j[i]
    <3>1. /\ SubSeq(j, 1, m) \in Seq(Int) /\ Len(SubSeq(j, 1, m)) = IF 1 <= m THEN m - 1 + 1 ELSE 0
          /\ \A i \in 1 .. m - 1 + 1 : SubSeq(j, 1, m)[i] = j[1 + i - 1]
      <4> HIDE DEF m
      <4> QED
        BY <2>1, <2>2, SubSeqProperties
    <3> DEFINE c == SubSeq(j, 1, m)
    <3> HIDE DEF c, m
    <3>2. c \in Seq(Int) /\ Len(c) = m /\ \A i \in 1 .. m : c[i] = j[i]
      BY <2>1, <3>1 DEF c
    <3> QED
      BY <3>2 DEF c, m
  <2>4. /\ b \in Seq(Int) /\ Len(b) = m /\ \A i \in 1 .. m : b[i] = k[i]
    <3>1. /\ SubSeq(k, 1, m) \in Seq(Int) /\ Len(SubSeq(k, 1, m)) = IF 1 <= m THEN m - 1 + 1 ELSE 0
          /\ \A i \in 1 .. m - 1 + 1 : SubSeq(k, 1, m)[i] = k[1 + i - 1]
      <4> HIDE DEF m
      <4> QED
        BY <2>1, <2>2, SubSeqProperties
    <3> DEFINE c == SubSeq(k, 1, m)
    <3> HIDE DEF c, m
    <3>2. c \in Seq(Int) /\ Len(c) = m /\ \A i \in 1 .. m : c[i] = k[i]
      BY <2>1, <3>1 DEF c
    <3> QED
      BY <3>2 DEF c, m
  <2> HIDE DEF a, b, m
  <2>5. a = b <=> \A i \in 1 .. m : a[i] = b[i]
    BY <2>3, <2>4, SeqEqual
  <2>6. a = b <=> \A i \in 1 .. m : j[i] = k[i]
    BY <2>3, <2>4, <2>5
  <2> QED
    BY <2>6 DEF a, b, m
<1>3. IsStrictPrefix(j, k) <=> Len(j) < Len(k) /\ \A i \in 1 .. Len(j) : j[i] = k[i]
  BY <1>1, PrefixIs
<1> QED
  BY <1>2, <1>3 DEF Before

\* j is smaller than k at their n-th names, the first in which they differ.
Differ(j, k, n) ==
  /\ n \in 1 .. Len(j) /\ n <= Len(k) /\ j[n] < k[n]
  /\ \A i \in 1 .. n - 1 : j[i] = k[i]

\* j is shorter than k and the same as far as it goes.
Shorter(j, k) == Len(j) < Len(k) /\ \A i \in 1 .. Len(j) : j[i] = k[i]

\* The two ways in which a key comes before another.
LEMMA BeforeCases ==
  ASSUME NEW j \in Seq(Nat), NEW k \in Seq(Nat)
  PROVE  Before(j, k) <=> Shorter(j, k) \/ \E n : Differ(j, k, n)
BY BeforeIs DEF Shorter, Differ

\* No key comes before itself.
LEMMA BeforeIrreflexive ==
  ASSUME NEW k \in Seq(Nat)
  PROVE  ~Before(k, k)
BY BeforeCases DEF Shorter, Differ

\* Of two keys one comes first.
LEMMA BeforeTotal ==
  ASSUME NEW j \in Seq(Nat), NEW k \in Seq(Nat), j # k
  PROVE  Before(j, k) \/ Before(k, j)
<1>1. /\ Len(j) \in Nat /\ Len(k) \in Nat
      /\ (\A i \in 1 .. Len(j) : j[i] \in Nat) /\ \A i \in 1 .. Len(k) : k[i] \in Nat
  OBVIOUS
<1> DEFINE T == {n \in Nat : n >= 1 /\ n <= Len(j) /\ n <= Len(k) /\ j[n] # k[n]}
<1>2. CASE T = {}
  <2>1. \A n \in Nat : n >= 1 /\ n <= Len(j) /\ n <= Len(k) => j[n] = k[n]
    BY <1>2
  <2>2. CASE Len(j) < Len(k)
    <3>1. Shorter(j, k)
      BY <1>1, <2>1, <2>2 DEF Shorter
    <3> QED
      BY <3>1, BeforeCases
  <2>3. CASE Len(k) < Len(j)
    <3>1. Shorter(k, j)
      BY <1>1, <2>1, <2>3 DEF Shorter
    <3> QED
      BY <3>1, BeforeCases
  <2>4. CASE Len(j) = Len(k)
    <3>1. \A i \in 1 .. Len(j) : j[i] = k[i]
      BY <1>1, <2>1, <2>4
    <3> QED
      BY <2>4, <3>1, SeqEqual
  <2> QED
    BY <1>1, <2>2, <2>3, <2>4
<1>3. CASE T # {}
  <2>1. PICK n \in T : \A y \in T : n <= y
    <3>1. T \subseteq Nat
      OBVIOUS
    <3> HIDE DEF T
    <3> QED
      BY <1>3, <3>1, Least
  <2>2. \A i \in 1 .. n - 1 : j[i] = k[i]
    <3> SUFFICES ASSUME NEW i \in 1 .. n - 1, j[i] # k[i] PROVE FALSE
      OBVIOUS
    <3>1. i \in T
      BY <1>1, <2>1
    <3> QED
      BY <2>1, <3>1
  <2>3. /\ n \in 1 .. Len(j) /\ n \in 1 .. Len(k) /\ n <= Len(k) /\ n <= Len(j)
        /\ j[n] \in Nat /\ k[n] \in Nat /\ j[n] # k[n]
    BY <1>1, <2>1
  <2>4. CASE j[n] < k[n]
    <3>1. Differ(j, k, n)
      BY <2>2, <2>3, <2>4 DEF Differ
    <3> QED
      BY <3>1, BeforeCases
  <2>5. CASE k[n] < j[n]
    <3>1. Differ(k, j, n)
      BY <2>2, <2>3, <2>5 DEF Differ
    <3> QED
      BY <3>1, BeforeCases
  <2> QED
    BY <2>3, <2>4, <2>5
<1> QED
  BY <1>2, <1>3

\* The order is transitive.
LEMMA BeforeTransitive ==
  ASSUME NEW a \in Seq(Nat), NEW b \in Seq(Nat), NEW c \in Seq(Nat), Before(a, b), Before(b, c)
  PROVE  Before(a, c)
<1>1. /\ Len(a) \in Nat /\ Len(b) \in Nat /\ Len(c) \in Nat
      /\ (\A i \in 1 .. Len(a) : a[i] \in Nat) /\ (\A i \in 1 .. Len(b) : b[i] \in Nat)
      /\ \A i \in 1 .. Len(c) : c[i] \in Nat
  OBVIOUS
<1> SUFFICES Shorter(a, c) \/ \E n : Differ(a, c, n)
  BY BeforeCases
<1>2. CASE Shorter(a, b) /\ Shorter(b, c)
  BY <1>1, <1>2 DEF Shorter
<1>3. ASSUME Shorter(a, b), NEW n, Differ(b, c, n)
      PROVE  Shorter(a, c) \/ \E i : Differ(a, c, i)
  <2>1. CASE n <= Len(a)
    <3>1. Differ(a, c, n)
      BY <1>1, <1>3, <2>1 DEF Shorter, Differ
    <3> QED
      BY <3>1
  <2>2. CASE ~(n <= Len(a))
    BY <1>1, <1>3, <2>2 DEF Shorter, Differ
  <2> QED
    BY <2>1, <2>2
<1>4. ASSUME NEW m, Differ(a, b, m), Shorter(b, c)
      PROVE  Differ(a, c, m)
  BY <1>1, <1>4 DEF Shorter, Differ
<1>5. ASSUME NEW m, Differ(a, b, m), NEW n, Differ(b, c, n)
      PROVE  \E i : Differ(a, c, i)
  <2>1. CASE m <= n
    <3>1. Differ(a, c, m)
      <4>1. m \in 1 .. Len(b) /\ m \in 1 .. Len(a) /\ n \in 1 .. Len(b) /\ m <= Len(c) /\ n <= Len(c)
        BY <1>1, <1>5, <2>1 DEF Differ
      <4>2. a[m] < c[m]
        <5>1. CASE m = n
          BY <1>1, <1>5, <4>1, <5>1 DEF Differ
        <5>2. CASE m # n
          <6>1. b[m] = c[m]
            BY <1>5, <2>1, <4>1, <5>2 DEF Differ
          <6> QED
            BY <1>5, <6>1 DEF Differ
        <5> QED
          BY <5>1, <5>2
      <4>3. \A i \in 1 .. m - 1 : a[i] = c[i]
        BY <1>1, <1>5, <2>1, <4>1 DEF Differ
      <4> QED
        BY <4>1, <4>2, <4>3 DEF Differ
    <3> QED
      BY <3>1
  <2>2. CASE ~(m <= n)
    <3>1. Differ(a, c, n)
      <4>1. m \in 1 .. Len(b) /\ m \in 1 .. Len(a) /\ n \in 1 .. Len(b) /\ n \in 1 .. Len(a)
            /\ n <= Len(c) /\ n \in 1 .. m - 1
        BY <1>1, <1>5, <2>2 DEF Differ
      <4>2. a[n] < c[n]
        BY <1>5, <4>1 DEF Differ
      <4>3. \A i \in 1 .. n - 1 : a[i] = c[i]
        BY <1>1, <1>5, <4>1 DEF Differ
      <4> QED
        BY <4>1, <4>2, <4>3 DEF Differ
    <3> QED
      BY <3>1
  <2> QED
    BY <1>1, <1>5, <2>1, <2>2 DEF Differ
<1>6. (Shorter(a, b) \/ \E n : Differ(a, b, n)) /\ (Shorter(b, c) \/ \E n : Differ(b, c, n))
  BY BeforeCases
<1> QED
  BY <1>2, <1>3, <1>4, <1>5, <1>6

\* Sorted lists the keys of a finite set, each once.
LEMMA SortedIs ==
  ASSUME NEW S, S \subseteq Seq(Nat), IsFiniteSet(S)
  PROVE  /\ Sorted(S) \in Seq(S) /\ Len(Sorted(S)) = Cardinality(S)
         /\ \A k \in S : \E i \in 1 .. Len(Sorted(S)) : Sorted(S)[i] = k
<1> DEFINE N == Cardinality(S)
           P(k) == {j \in S : Before(j, k)}
           rank == [k \in S |-> Cardinality(P(k))]
<1>1. N \in Nat
  BY FS_CardinalityType
<1>2. \A k \in S : IsFiniteSet(P(k)) /\ Cardinality(P(k)) \in Nat
  <2> SUFFICES ASSUME NEW k \in S PROVE IsFiniteSet(P(k)) /\ Cardinality(P(k)) \in Nat
    OBVIOUS
  <2>1. P(k) \in SUBSET S
    OBVIOUS
  <2>2. IsFiniteSet(P(k))
    BY <2>1, FS_Subset
  <2> QED
    BY <2>2, FS_CardinalityType
<1>3. ASSUME NEW j \in S, NEW k \in S, Before(j, k)
      PROVE  Cardinality(P(j)) < Cardinality(P(k))
  <2>1. P(j) \in SUBSET P(k)
    BY <1>3, BeforeTransitive
  <2>2. j \in P(k) /\ j \notin P(j)
    BY <1>3, BeforeIrreflexive
  <2>3. P(j) # P(k)
    BY <2>2
  <2>4. Cardinality(P(j)) <= Cardinality(P(k)) /\ Cardinality(P(j)) # Cardinality(P(k))
    <3> HIDE DEF P
    <3> QED
      BY <1>2, <2>1, <2>3, FS_Subset
  <2>5. Cardinality(P(j)) \in Nat /\ Cardinality(P(k)) \in Nat
    BY <1>2
  <2> HIDE DEF P
  <2> QED
    BY <2>4, <2>5
<1>4. ASSUME NEW k \in S PROVE Cardinality(P(k)) \in 0 .. N - 1
  <2>1. P(k) \in SUBSET S
    OBVIOUS
  <2>2. k \notin P(k)
    BY BeforeIrreflexive
  <2>3. P(k) # S
    BY <2>2
  <2>4. Cardinality(P(k)) <= N /\ Cardinality(P(k)) # N
    <3> HIDE DEF P
    <3> QED
      BY <2>1, <2>3, FS_Subset
  <2>5. Cardinality(P(k)) \in Nat
    BY <1>2
  <2> HIDE DEF P, N
  <2> QED
    BY <1>1, <2>4, <2>5
<1>5. rank \in Injection(S, 0 .. N - 1)
  <2>1. rank \in [S -> 0 .. N - 1]
    BY <1>4
  <2>2. ASSUME NEW j \in S, NEW k \in S, j # k PROVE rank[j] # rank[k]
    <3>1. Before(j, k) \/ Before(k, j)
      BY <2>2, BeforeTotal
    <3> HIDE DEF P
    <3> QED
      BY <1>2, <1>3, <3>1
  <2> HIDE DEF rank
  <2> QED
    BY <2>1, <2>2 DEF Injection, IsInjective
<1>6. IsFiniteSet(0 .. N - 1) /\ Cardinality(0 .. N - 1) = N
  <2>1. 0 \in Int /\ N - 1 \in Int
    BY <1>1
  <2> HIDE DEF N
  <2>2. IsFiniteSet(0 .. N - 1) /\ Cardinality(0 .. N - 1) = IF 0 > N - 1 THEN 0 ELSE N - 1 - 0 + 1
    BY <2>1, FS_Interval
  <2> QED
    BY <1>1, <2>2
<1>7. rank \in Surjection(S, 0 .. N - 1)
  <2> HIDE DEF rank
  <2> QED
    BY <1>5, <1>6, FS_Injection
<1>8. \A n \in 0 .. N - 1 : \E k \in S : Cardinality(P(k)) = n
  <2>1. \A n \in 0 .. N - 1 : \E k \in S : rank[k] = n
    <3> HIDE DEF rank
    <3> QED
      BY <1>7 DEF Surjection
  <2> HIDE DEF P
  <2> QED
    BY <2>1
<1> DEFINE at(i) == CHOOSE k \in S : Cardinality(P(k)) = i - 1
<1>9. Sorted(S) = [i \in 1 .. N |-> at(i)]
  BY DEF Sorted
<1>10. ASSUME NEW i \in 1 .. N PROVE at(i) \in S /\ Cardinality(P(at(i))) = i - 1
  <2>1. i - 1 \in 0 .. N - 1
    BY <1>1
  <2> HIDE DEF P
  <2> QED
    BY <1>8, <2>1
<1> HIDE DEF at
<1>11. Sorted(S) \in Seq(S) /\ Len(Sorted(S)) = N
  <2>1. Sorted(S) \in [1 .. N -> S]
    <3> HIDE DEF N
    <3> QED
      BY <1>9, <1>10
  <2> HIDE DEF N
  <2> QED
    BY <1>1, <2>1
<1>12. ASSUME NEW k \in S PROVE \E i \in 1 .. N : Sorted(S)[i] = k
  <2> DEFINE i == Cardinality(P(k)) + 1
  <2>1. i \in 1 .. N /\ i - 1 = Cardinality(P(k))
    BY <1>1, <1>4
  <2> HIDE DEF i
  <2>2. at(i) \in S /\ Cardinality(P(at(i))) = Cardinality(P(k))
    BY <1>10, <2>1
  <2>3. at(i) = k
    <3>1. at(i) # k => Before(at(i), k) \/ Before(k, at(i))
      BY <2>2, BeforeTotal
    <3> HIDE DEF P
    <3> QED
      BY <1>2, <1>3, <2>2, <3>1
  <2> QED
    BY <1>9, <2>1, <2>3
<1> QED
  BY <1>11, <1>12

------------------------------------------------------------------------------
(* The invariant: types, and what is lost.                                 *)

\* What each place of a call knows of its arguments.
PhaseInv ==
  /\ st.pc = "idle" => st = Idle /\ touched = {}
  /\ st.pc = "resolve" => st.call \in Following /\ st.hops <= MaxDepth
  /\ st.pc \in {"head", "dir", "rmdir", "list", "copy", "delete", "put"} => st.p # Root
  /\ st.pc = "head" => st.call \in Literal
  /\ st.pc = "rmdir" => st.call = "remove"
  /\ st.pc \in {"list", "copy"} => st.call = "rename"
  /\ st.pc = "delete" => st.call \in {"rename", "remove"}
  /\ st.pc = "put" => st.call \in {"create", "excl", "mkdir", "symlink"}
  /\ st.pc = "readdir" => st.call = "readdir"
  /\ st.pc \in {"copy", "delete"} => st.i \in 1 .. Len(st.keys)
  /\ st.call = "rename" =>
       /\ st.q \in Seq(Name)
       /\ st.pc # "done" => st.q # Root /\ (Overlap \/ ~IsStrictPrefix(st.q, st.p))
  /\ st.pc \in {"resolve", "head", "dir", "rmdir"} => st.keys = <<>> /\ st.i = 1

\* What a rename copies and deletes is under its path, or the path itself;
\* and it goes somewhere else.
KeysInv ==
  /\ st.pc \in {"list", "copy", "delete"} /\ st.call = "rename" =>
       /\ \A n \in 1 .. Len(st.keys) :
            IsPrefix(st.p, st.keys[n]) /\ st.keys[n] \in DOMAIN before \cup touched
       /\ \/ st.p # st.q /\ \A n \in 1 .. Len(st.keys) : st.keys[n] = st.p
          \/ ~IsPrefix(st.p, st.q) /\ (Overlap \/ ~IsPrefix(st.q, st.p))
  /\ st.pc = "list" => st.i = 1 /\ ~IsPrefix(st.p, st.q) /\ (Overlap \/ ~IsPrefix(st.q, st.p))
  /\ st.pc = "delete" /\ st.call = "remove" =>
       Len(st.keys) = 1 /\ st.keys[1] \in {st.p, marker(st.p)}

\* The bucket is what it was, but for what others did.
Untouched ==
  \A k \in (DOMAIN before \cup DOMAIN bucket) \ touched :
    k \in DOMAIN before /\ k \in DOMAIN bucket /\ bucket[k] = before[k]

\* Nothing was there that an object is about to be made of.
PutInv ==
  /\ st.pc = "dir" => st.p \notin DOMAIN before \ touched
  /\ st.pc = "put" /\ st.call # "create" => PutKey \notin DOMAIN before \ touched

\* The n-th key of a rename is where it is moved to.
Arrived(n) ==
  LET m == Moved(st.p, st.q, st.keys[n]) IN
  m \in touched \/ (m \in DOMAIN bucket /\ bucket[m] = before[st.keys[n]])

\* The keys of a rename are at their places until they are deleted, and where
\* they are moved to once they are copied.
CopyInv ==
  /\ \A k \in DOMAIN before \ (touched \cup Replaced) :
       \/ k \in DOMAIN bucket /\ bucket[k] = before[k]
       \/ st.pc = "delete" /\ \E n \in 1 .. st.i - 1 : st.keys[n] = k
  /\ \A n \in 1 .. Len(st.keys) :
       /\ st.pc = "delete" \/ n < st.i
       /\ st.keys[n] \in DOMAIN before \ (touched \cup Replaced)
       => Arrived(n)

KeptInv ==
  /\ st.pc \notin {"copy", "delete", "done"} => Untouched
  /\ st.pc = "delete" /\ st.call = "remove" => Untouched
  /\ st.pc \in {"copy", "delete"} /\ st.call = "rename" /\ ~Overlap => CopyInv
  /\ st.pc = "done" /\ ~Overlap => ContentsKept

NsInv == TypeOK /\ PhaseInv /\ KeysInv /\ PutInv /\ KeptInv

\* What an object is, and that it may have key k.
Objects == [kind : {"file", "link", "marker"}, val : Seq(Int), abs : BOOLEAN]
Fits(o, k) ==
  /\ o \in Objects
  /\ o.kind = "link" => o.val \in Seq(Name \cup {Up})
  /\ (o.kind = "marker") = (Last(k) = 0)

\* A bucket with one more object is one.
LEMMA BucketWith ==
  ASSUME NEW b, IsBucket(b), NEW k, IsKey(k), NEW o, Fits(o, k)
  PROVE  IsBucket(With(b, k, o))
<1> DEFINE c == With(b, k, o)
<1>1. DOMAIN c = DOMAIN b \cup {k} /\ \A j \in DOMAIN c : c[j] = IF j = k THEN o ELSE b[j]
  BY DEF With
<1>2. c = [j \in DOMAIN c |-> c[j]]
  BY DEF With
<1>3. IsFiniteSet(DOMAIN c)
  BY <1>1, FS_AddElement DEF IsBucket
<1>4. \A j \in DOMAIN c : c[j] \in Objects
  BY <1>1 DEF IsBucket, Objects, Fits
<1>5. c \in [DOMAIN c -> Objects]
  <2> HIDE DEF c
  <2> QED
    BY <1>2, <1>4
<1>6. ASSUME NEW j \in DOMAIN c
      PROVE  /\ IsKey(j)
             /\ c[j].kind = "link" => c[j].val \in Seq(Name \cup {Up})
             /\ (c[j].kind = "marker") = (Last(j) = 0)
  <2> HIDE DEF c
  <2>1. CASE j = k
    BY <1>1, <2>1 DEF Fits
  <2>2. CASE j # k
    BY <1>1, <2>2 DEF IsBucket
  <2> QED
    BY <2>1, <2>2
<1> HIDE DEF c
<1>7. IsBucket(c)
  BY <1>3, <1>5, <1>6 DEF IsBucket, Objects
<1> QED
  BY <1>7 DEF c

\* A bucket without key k.
Without(b, k) == [j \in DOMAIN b \ {k} |-> b[j]]

\* A bucket with one object less is one.
LEMMA BucketWithout ==
  ASSUME NEW b, IsBucket(b), NEW k
  PROVE  IsBucket(Without(b, k))
<1> DEFINE c == Without(b, k)
<1>1. DOMAIN c = DOMAIN b \ {k} /\ \A j \in DOMAIN c : c[j] = b[j]
  BY DEF Without
<1>2. c = [j \in DOMAIN c |-> c[j]]
  BY DEF Without
<1>3. IsFiniteSet(DOMAIN c)
  BY <1>1, FS_Subset DEF IsBucket
<1> HIDE DEF c
<1>4. \A j \in DOMAIN c : c[j] \in Objects
  BY <1>1 DEF IsBucket, Objects
<1>5. c \in [DOMAIN c -> Objects]
  BY <1>2, <1>4
<1>6. IsBucket(c)
  BY <1>1, <1>3, <1>5 DEF IsBucket, Objects
<1> QED
  BY <1>6 DEF c

\* The object at a key fits it.
LEMMA BucketFits ==
  ASSUME NEW b, IsBucket(b), NEW k \in DOMAIN b
  PROVE  Fits(b[k], k) /\ IsKey(k)
BY DEF IsBucket, Fits, Objects

\* The keys the application and others use are keys.
LEMMA KeyIs ==
  ASSUME NEW k \in Key
  PROVE  IsKey(k)
<1>1. CASE k \in Path
  BY <1>1, PathKey, NamespaceAssumption
<1>2. CASE k \notin Path
  <2>1. PICK p \in DirPath : k = marker(p)
    BY <1>2 DEF Key
  <2> QED
    BY <2>1, PathKey, NamespaceAssumption
<1> QED
  BY <1>1, <1>2

\* The first states are such.
LEMMA InitNs ==
  ASSUME Init
  PROVE  NsInv
<1>1. PICK ks \in SUBSET Key :
        /\ IsFiniteSet(ks) /\ Cardinality(ks) <= MaxObjects
        /\ bucket \in {b \in [ks -> UNION {FirstObjects(k) : k \in ks}] :
                         \A k \in ks : b[k] \in FirstObjects(k)}
        /\ left = IF Cardinality(ks) < MaxObjects THEN MaxForeign ELSE 0
  BY DEF Init
<1>2. st = Idle /\ before = bucket /\ touched = {}
  BY DEF Init
<1>3. DOMAIN bucket = ks /\ \A k \in ks : bucket[k] \in FirstObjects(k)
  BY <1>1
<1>4. ASSUME NEW k \in ks PROVE IsKey(k) /\ Fits(bucket[k], k)
  <2>1. IsKey(k)
    BY KeyIs
  <2>2. k \in Seq(Int)
    <3>1. k \in Seq(Nat)
      BY <2>1 DEF IsKey
    <3> QED
      BY <3>1, SeqMonotonic
  <2>3. CASE Last(k) = 0
    <3>1. bucket[k] = Object("marker", <<>>)
      BY <1>3, <2>3 DEF FirstObjects
    <3> QED
      BY <2>1, <2>3, <3>1 DEF Fits, Object, Objects
  <2>4. CASE Last(k) # 0 /\ bucket[k] = Object("file", k)
    BY <2>1, <2>2, <2>4 DEF Fits, Object, Objects
  <2>5. ASSUME Last(k) # 0, NEW l \in Target,
               bucket[k] = [kind |-> "link", val |-> l.val, abs |-> l.abs]
        PROVE  Fits(bucket[k], k)
    <3>1. l.val \in Seq(Name \cup {Up}) /\ l.abs \in BOOLEAN
      BY NamespaceAssumption
    <3>2. l.val \in Seq(Int)
      <4>1. Name \cup {Up} \subseteq Int
        BY DEF Name, Up
      <4> QED
        BY <3>1, <4>1, SeqMonotonic
    <3> QED
      BY <2>5, <3>1, <3>2 DEF Fits, Objects
  <2>6. Last(k) # 0 =>
          \/ bucket[k] = Object("file", k)
          \/ \E l \in Target : bucket[k] = [kind |-> "link", val |-> l.val, abs |-> l.abs]
    BY <1>3 DEF FirstObjects
  <2> QED
    BY <2>1, <2>3, <2>4, <2>5, <2>6
<1>5. IsBucket(bucket)
  <2>1. bucket = [k \in ks |-> bucket[k]]
    BY <1>1
  <2>2. bucket \in [ks -> Objects]
    BY <1>4, <2>1 DEF Fits
  <2> QED
    BY <1>1, <1>3, <1>4, <2>2 DEF IsBucket, Fits, Objects
<1>6. st \in Local /\ Len(st.keys) = 0 /\ st.i = 1 /\ st.pc = "idle" /\ st.call = "none"
  <2>1. 0 \in 0 .. MaxDepth + 1
    BY NamespaceAssumption
  <2>2. /\ Root \in Seq(Name) /\ Root \in Seq(Name \cup {Up}) /\ <<>> \in Seq(Nat)
        /\ <<>> \in Seq(Seq(Nat)) /\ Len(<<>>) = 0
    BY DEF Root
  <2>3. Idle \in Local
    <3>1. "none" \in Result
      BY DEF Result
    <3>2. {} \in SUBSET (Nat \X BOOLEAN) /\ FALSE \in BOOLEAN /\ 1 \in Nat
      OBVIOUS
    <3>3. "none" \in Following \cup Literal \cup {"none"} /\ "idle" \in PC
      BY DEF PC
    <3> QED
      BY <2>1, <2>2, <3>1, <3>2, <3>3 DEF Idle, Local
  <2> QED
    BY <1>2, <2>2, <2>3 DEF Idle
<1>7. TypeOK
  <2>1. left \in 0 .. MaxForeign
    BY <1>1, NamespaceAssumption
  <2> QED
    BY <1>2, <1>5, <1>6, <2>1 DEF TypeOK
<1>8. PhaseInv
  BY <1>2, <1>6 DEF PhaseInv
<1>9. KeysInv /\ PutInv
  BY <1>6 DEF KeysInv, PutInv
<1>10. KeptInv
  BY <1>2, <1>6 DEF KeptInv, Untouched
<1> QED
  BY <1>7, <1>8, <1>9, <1>10 DEF NsInv

\* Whatever the call does, no contents are lost.
LEMMA KeptIs ==
  ASSUME NsInv, ~Overlap
  PROVE  ContentsKept
<1>1. CASE Untouched
  BY <1>1 DEF Untouched, ContentsKept
<1>2. CASE st.pc \in {"copy", "delete"} /\ st.call = "rename"
  <2> SUFFICES ASSUME NEW k \in DOMAIN before \ (touched \cup Replaced),
                      ~(k \in DOMAIN bucket /\ bucket[k] = before[k])
               PROVE  /\ st.call = "rename" /\ IsPrefix(st.p, k)
                      /\ LET m == Moved(st.p, st.q, k) IN
                         m \in touched \/ (m \in DOMAIN bucket /\ bucket[m] = before[k])
    BY DEF ContentsKept
  <2>1. CopyInv /\ st.i \in 1 .. Len(st.keys) /\ Len(st.keys) \in Nat
    BY <1>2 DEF NsInv, KeptInv, PhaseInv, TypeOK, Local
  <2>2. PICK n \in 1 .. st.i - 1 : st.pc = "delete" /\ st.keys[n] = k
    BY <2>1 DEF CopyInv
  <2>3. n \in 1 .. Len(st.keys)
    BY <2>1, <2>2
  <2>4. Arrived(n)
    BY <2>1, <2>2, <2>3 DEF CopyInv
  <2>5. IsPrefix(st.p, st.keys[n])
    BY <1>2, <2>3 DEF NsInv, KeysInv
  <2> QED
    BY <1>2, <2>2, <2>4, <2>5 DEF Arrived
<1>3. CASE st.pc = "done"
  BY <1>3 DEF NsInv, KeptInv
<1>4. st.pc = "delete" /\ st.call # "rename" => st.call = "remove"
  BY DEF NsInv, PhaseInv
<1>5. st.pc = "copy" => st.call = "rename"
  BY DEF NsInv, PhaseInv
<1> QED
  BY <1>1, <1>2, <1>3, <1>4, <1>5 DEF NsInv, KeptInv

------------------------------------------------------------------------------
(* The steps keep it.                                                      *)

\* What the invariant says of types, field by field.
LEMMA Types ==
  ASSUME NsInv
  PROVE  /\ st \in Local /\ IsBucket(bucket) /\ IsBucket(before)
         /\ st.pc \in PC /\ st.call \in Following \cup Literal \cup {"none"}
         /\ st.p \in Seq(Name) /\ st.q \in Seq(Name \cup {Up}) /\ st.hops \in 0 .. MaxDepth + 1
         /\ st.keys \in Seq(Seq(Nat)) /\ st.i \in Nat /\ st.tok \in Seq(Nat)
         /\ st.names \in SUBSET (Nat \X BOOLEAN) /\ st.found \in BOOLEAN /\ st.res \in Result
         /\ Len(st.keys) \in Nat /\ (\A n \in 1 .. Len(st.keys) : IsKey(st.keys[n]))
         /\ st.i \in 1 .. Len(st.keys) + 1
         /\ (\A k \in touched : IsKey(k)) /\ left \in 0 .. MaxForeign
<1>1. st \in Local /\ TypeOK
  BY DEF NsInv, TypeOK
<1>2. st.keys \in Seq(Seq(Nat))
  BY <1>1 DEF Local
<1> QED
  BY <1>1, <1>2 DEF TypeOK, Local

\* A call returns.
LEMMA DoneNs ==
  ASSUME NsInv, st.pc # "idle",
         st' \in Local, st'.pc = "done", st'.call = st.call, st'.q = st.q,
         \A n \in 1 .. Len(st'.keys) : IsKey(st'.keys[n]),
         st'.i \in 1 .. Len(st'.keys) + 1,
         UNCHANGED <<before, touched, left>>, IsBucket(bucket'), ~Overlap => ContentsKept'
  PROVE  NsInv'
<1>1. TypeOK'
  BY DEF NsInv, TypeOK
<1>2. PhaseInv'
  BY DEF NsInv, PhaseInv
<1>3. KeysInv' /\ PutInv'
  BY DEF KeysInv, PutInv
<1>4. KeptInv'
  BY DEF KeptInv
<1> QED
  BY <1>1, <1>2, <1>3, <1>4 DEF NsInv

\* A call returns without a change.
LEMMA ReturnNs ==
  ASSUME NsInv, st.pc # "idle", NEW r \in Result, Return(r), Steady
  PROVE  NsInv'
<1>1. /\ st' \in Local /\ st'.pc = "done" /\ st'.call = st.call /\ st'.q = st.q
      /\ st'.p = st.p /\ st'.keys = st.keys /\ st'.i = st.i
  <2>1. st \in Local /\ "done" \in PC
    BY Types DEF PC
  <2> QED
    BY <2>1 DEF Return, Local
<1>2. ~Overlap => ContentsKept'
  <2> SUFFICES ASSUME ~Overlap PROVE ContentsKept'
    OBVIOUS
  <2>1. ContentsKept
    BY KeptIs
  <2>2. Replaced' = Replaced
    BY <1>1 DEF Replaced, Steady
  <2> QED
    BY <1>1, <2>1, <2>2 DEF ContentsKept, Steady
<1>3. IsBucket(bucket') /\ UNCHANGED <<before, touched, left>>
  BY Types DEF Steady
<1> QED
  BY <1>1, <1>2, <1>3, Types, DoneNs

\* A call goes on, with nothing listed, copied or deleted.
LEMMA GotoNs ==
  ASSUME NsInv, st.pc \in {"resolve", "head", "dir"}, Steady,
         NEW c \in {"dir", "put", "rmdir", "list", "readdir"}, Goto(c),
         c # "readdir" => st.p # Root,
         c = "dir" => st.p \notin DOMAIN bucket,
         c = "put" => st.call \in {"create", "excl", "mkdir", "symlink"},
         c = "put" /\ st.call # "create" => PutKey \notin DOMAIN before \ touched,
         c = "rmdir" => st.call = "remove",
         c = "list" => st.call = "rename" /\ ~IsPrefix(st.p, st.q),
         c = "readdir" => st.call = "readdir"
  PROVE  NsInv'
<1>1. /\ st' \in Local /\ st'.pc = c /\ st'.call = st.call /\ st'.q = st.q
      /\ st'.p = st.p /\ st'.keys = st.keys /\ st'.i = st.i /\ st'.hops = st.hops
  <2>1. st \in Local /\ c \in PC
    BY Types DEF PC
  <2> QED
    BY <2>1 DEF Goto, Local
<1>2. st.keys = <<>> /\ st.i = 1 /\ Untouched
  BY DEF NsInv, PhaseInv, KeptInv
<1>3. TypeOK'
  BY <1>1 DEF NsInv, TypeOK, Steady
<1>4. PhaseInv'
  BY <1>1, <1>2 DEF NsInv, PhaseInv
<1>5. KeysInv'
  <2>1. c = "list" => Overlap \/ ~IsPrefix(st.q, st.p)
    <3> SUFFICES ASSUME c = "list", ~Overlap, IsPrefix(st.q, st.p) PROVE FALSE
      OBVIOUS
    <3>1. st.q \in Seq(Name) /\ ~IsStrictPrefix(st.q, st.p)
      BY DEF NsInv, PhaseInv
    <3>2. st.q = st.p
      BY <3>1 DEF IsStrictPrefix
    <3>3. IsPrefix(st.p, st.p)
      <4>1. st.p \in Seq(Int)
        BY Types, PathKey
      <4> QED
        BY <4>1, PrefixIs
    <3> QED
      BY <3>2, <3>3
  <2>2. Len(st'.keys) = 0
    BY <1>1, <1>2
  <2> QED
    BY <1>1, <1>2, <2>1, <2>2 DEF KeysInv, Steady
<1>6. PutInv'
  <2>1. PutKey' = PutKey
    BY <1>1 DEF PutKey
  <2>2. DOMAIN before \ touched \subseteq DOMAIN bucket
    BY <1>2 DEF Untouched
  <2> QED
    BY <1>1, <2>1, <2>2 DEF PutInv, Steady
<1>7. KeptInv'
  <2>1. Untouched'
    BY <1>2 DEF Untouched, Steady
  <2> QED
    BY <1>1, <2>1 DEF KeptInv
<1> QED
  BY <1>3, <1>4, <1>5, <1>6, <1>7 DEF NsInv

\* A call that starts has its first locals.
LEMMA CallNs ==
  ASSUME NsInv, NEW c \in Following \cup Literal, NEW p \in Path \cup {Root},
         NEW q \in Seq(Name \cup {Up}), c = "rename" => q \in Seq(Name), Call(c, p, q)
  PROVE  NsInv'
<1>1. st = Idle /\ touched = {} /\ before' = bucket /\ bucket' = bucket /\ touched' = {}
      /\ left' = left
  BY DEF Call, NsInv, PhaseInv
<1> DEFINE refused == p = Root \/ (c = "rename" /\ q = Root)
           pc == IF c \in Following THEN "resolve" ELSE IF refused THEN "done" ELSE "head"
           res == IF c \in Following \/ ~refused THEN "none"
                  ELSE IF c = "lstat" THEN "dir" ELSE "refused"
<1>2. st' = [Idle EXCEPT !.call = c, !.p = p, !.q = q, !.pc = pc, !.res = res]
  BY DEF Call
<1>3. pc \in PC /\ res \in Result
  BY DEF PC, Result
<1>4. p \in Seq(Name)
  <2>1. Path \subseteq Seq(Name) /\ Root \in Seq(Name)
    BY NamespaceAssumption DEF Root
  <2> QED
    BY <2>1
<1>5. Idle \in Local
  BY <1>1, Types
<1>6. /\ st' \in Local /\ st'.pc = pc /\ st'.call = c /\ st'.q = q /\ st'.p = p
      /\ st'.keys = <<>> /\ st'.i = 1 /\ st'.hops = 0
  <2> HIDE DEF pc, res
  <2>1. st' \in Local
    BY <1>2, <1>3, <1>4, <1>5 DEF Local
  <2> QED
    BY <1>2, <2>1 DEF Idle
<1>7. TypeOK'
  <2>1. Len(st'.keys) = 0
    BY <1>6
  <2> QED
    BY <1>1, <1>6, <2>1, Types DEF TypeOK
<1>8. PhaseInv'
  <2>1. 0 <= MaxDepth
    BY NamespaceAssumption
  <2>2. c = "rename" => c \notin Following
    BY DEF Following
  <2> QED
    <3>1. c = "rename" => Overlap \/ ~IsStrictPrefix(q, p)
      BY DEF Call
    <3>2. pc \in {"resolve", "done", "head"}
      OBVIOUS
    <3>3. pc = "resolve" <=> c \in Following
      OBVIOUS
    <3>4. pc = "head" => c \in Literal /\ ~refused
      OBVIOUS
    <3> HIDE DEF pc
    <3> QED
      BY <1>1, <1>6, <2>1, <2>2, <3>1, <3>2, <3>3, <3>4 DEF PhaseInv
<1>9. KeysInv' /\ PutInv'
  BY <1>6 DEF KeysInv, PutInv
<1>10. KeptInv'
  <2>1. Untouched' /\ ContentsKept'
    BY <1>1 DEF Untouched, ContentsKept
  <2> QED
    BY <1>6, <2>1 DEF KeptInv
<1> QED
  BY <1>7, <1>8, <1>9, <1>10 DEF NsInv

\* Following a link leads to a path and leaves the bucket alone.
LEMMA ResolveLinkNs ==
  ASSUME NsInv, ResolveLink
  PROVE  NsInv'
<1> DEFINE p == Follow(bucket, st.p)
<1>1. /\ st.pc = "resolve" /\ IsLink(bucket, st.p) /\ Steady /\ st \in Local
      /\ st.hops \in 0 .. MaxDepth + 1
  BY Types DEF ResolveLink
<1>2. p \in Seq(Name)
  BY <1>1, Types, FollowIs
<1> HIDE DEF p
<1>3. st.hops <= MaxDepth /\ st.call \in Following /\ st.keys = <<>> /\ st.i = 1
  BY <1>1 DEF NsInv, PhaseInv
<1>4. st.hops + 1 \in 0 .. MaxDepth + 1
  BY <1>1, <1>3, NamespaceAssumption
<1>5. CASE TooDeep(st.hops + 1)
  <2> DEFINE h == st.hops + 1
  <2>1. st' = [st EXCEPT !.pc = "done", !.res = "loop", !.hops = h]
    BY <1>5 DEF ResolveLink
  <2>2. "done" \in PC /\ "loop" \in Result
    BY DEF PC, Result
  <2> HIDE DEF h
  <2>3. /\ st' \in Local /\ st'.pc = "done" /\ st'.call = st.call /\ st'.q = st.q
        /\ st'.p = st.p /\ st'.keys = st.keys /\ st'.i = st.i
    BY <1>1, <1>4, <2>1, <2>2 DEF Local, h
  <2>4. ~Overlap => ContentsKept'
    <3>1. Untouched'
      BY <1>1 DEF NsInv, KeptInv, Untouched, Steady
    <3> QED
      BY <3>1 DEF Untouched, ContentsKept
  <2> QED
    BY <1>1, <2>3, <2>4, Types, DoneNs DEF Steady
<1>6. CASE ~TooDeep(st.hops + 1)
  <2> DEFINE h == st.hops + 1
  <2>1. st' = [st EXCEPT !.p = p, !.hops = h]
    BY <1>6 DEF ResolveLink, p
  <2>2. h \in 0 .. MaxDepth + 1 /\ h <= MaxDepth
    BY <1>1, <1>4, <1>6, NamespaceAssumption DEF TooDeep
  <2> HIDE DEF h
  <2>3. /\ st' \in Local /\ st'.pc = "resolve" /\ st'.call = st.call /\ st'.q = st.q
        /\ st'.p = p /\ st'.keys = st.keys /\ st'.i = st.i /\ st'.hops = h
    BY <1>1, <1>2, <2>1, <2>2 DEF Local
  <2>4. TypeOK'
    BY <1>1, <2>3, Types DEF TypeOK, Steady
  <2>5. PhaseInv'
    BY <1>1, <1>3, <2>2, <2>3 DEF PhaseInv, Following
  <2>6. KeysInv' /\ PutInv'
    BY <2>3 DEF KeysInv, PutInv
  <2>7. KeptInv'
    BY <1>1, <2>3 DEF NsInv, KeptInv, Untouched, Steady
  <2> QED
    BY <2>4, <2>5, <2>6, <2>7 DEF NsInv
<1> QED
  BY <1>5, <1>6

\* A file at the end of the links is told, read or written.
LEMMA ResolveFileNs ==
  ASSUME NsInv, ResolveFile
  PROVE  NsInv'
<1>1. st.pc = "resolve" /\ st.call \in Following /\ Steady /\ st.p \in DOMAIN bucket
  BY DEF ResolveFile, NsInv, PhaseInv
<1>2. st.p # Root
  <2>1. IsKey(st.p)
    BY <1>1, Types DEF IsBucket
  <2> QED
    BY <2>1 DEF IsKey, Root
<1>3. (\E r \in Result : Return(r)) \/ (st.call = "create" /\ Goto("put"))
  BY <1>1 DEF ResolveFile, Following, Result
<1>4. ASSUME NEW r \in Result, Return(r) PROVE NsInv'
  BY <1>1, <1>4, ReturnNs
<1>5. CASE st.call = "create" /\ Goto("put")
  BY <1>1, <1>2, <1>5, GotoNs
<1> QED
  BY <1>3, <1>4, <1>5

\* Nothing at the end of the links is an answer, or a file to be made.
LEMMA ResolveNoneNs ==
  ASSUME NsInv, ResolveNone
  PROVE  NsInv'
<1>1. st.pc = "resolve" /\ st.call \in Following /\ Steady /\ st.p \notin DOMAIN bucket
  BY DEF ResolveNone, NsInv, PhaseInv
<1>2. \/ \E r \in Result : Return(r)
      \/ st.call = "readdir" /\ Goto("readdir")
      \/ st.p # Root /\ Goto("dir")
  BY <1>1 DEF ResolveNone, Following, Result
<1>3. ASSUME NEW r \in Result, Return(r) PROVE NsInv'
  BY <1>1, <1>3, ReturnNs
<1>4. CASE st.call = "readdir" /\ Goto("readdir")
  BY <1>1, <1>4, GotoNs
<1>5. CASE st.p # Root /\ Goto("dir")
  BY <1>1, <1>5, GotoNs
<1> QED
  BY <1>2, <1>3, <1>4, <1>5

\* A call has the keys it copies or deletes.
LEMMA WorkNs ==
  ASSUME NsInv, st.pc \in {"head", "rmdir", "list"}, Steady, NEW c \in {"copy", "delete"},
         NEW ks \in Seq(Seq(Nat)), NEW l \in Seq(Nat),
         st' = [st EXCEPT !.pc = c, !.keys = ks, !.tok = l],
         ks # <<>>, \A n \in 1 .. Len(ks) : IsKey(ks[n]),
         c = "copy" =>
           /\ st.call = "rename"
           /\ \A n \in 1 .. Len(ks) : IsPrefix(st.p, ks[n]) /\ ks[n] \in DOMAIN before \cup touched
           /\ \/ st.p # st.q /\ \A n \in 1 .. Len(ks) : ks[n] = st.p
              \/ ~IsPrefix(st.p, st.q) /\ (Overlap \/ ~IsPrefix(st.q, st.p)),
         c = "delete" => st.call = "remove" /\ Len(ks) = 1 /\ ks[1] \in {st.p, marker(st.p)}
  PROVE  NsInv'
<1>1. /\ st' \in Local /\ st'.pc = c /\ st'.call = st.call /\ st'.q = st.q
      /\ st'.p = st.p /\ st'.keys = ks /\ st'.i = st.i /\ st'.hops = st.hops
  <2>1. st \in Local /\ c \in PC
    BY Types DEF PC
  <2> QED
    BY <2>1 DEF Local
<1>2. st.i = 1 /\ Untouched
  BY DEF NsInv, PhaseInv, KeysInv, KeptInv
<1>3. Len(ks) \in Nat /\ Len(ks) >= 1
  BY EmptySeq
<1>4. TypeOK'
  BY <1>1, <1>2, <1>3, Types DEF TypeOK, Steady
<1>5. PhaseInv'
  BY <1>1, <1>2, <1>3 DEF NsInv, PhaseInv
<1>6. KeysInv'
  BY <1>1 DEF KeysInv, Steady
<1>7. PutInv'
  BY <1>1 DEF PutInv
<1>8. KeptInv'
  <2>1. Untouched'
    BY <1>2 DEF Untouched, Steady
  <2>2. c = "copy" => CopyInv'
    <3>1. ~ \E n \in 1 .. Len(ks) : n < 1
      BY <1>3
    <3> QED
      BY <1>1, <1>2, <2>1, <3>1 DEF CopyInv, Untouched
  <2> QED
    BY <1>1, <2>1, <2>2 DEF KeptInv
<1> QED
  BY <1>4, <1>5, <1>6, <1>7, <1>8 DEF NsInv

\* What a path is without following it decides how the call goes on.
LEMMA HeadLiteralNs ==
  ASSUME NsInv, HeadLiteral
  PROVE  NsInv'
<1>1. /\ st.pc = "head" /\ st.call \in Literal /\ Steady /\ st.p # Root /\ Untouched
      /\ st \in Local /\ st.p \in Seq(Name)
  BY Types DEF HeadLiteral, NsInv, PhaseInv, KeptInv
<1>2. st.p \in DOMAIN bucket => bucket[st.p].kind \in {"file", "link"}
  <2>1. Last(st.p) # 0
    BY <1>1, PathKey
  <2> QED
    BY <2>1, Types DEF IsBucket
<1>3. \/ \E r \in Result : Return(r)
      \/ /\ st.p \in DOMAIN bucket /\ st.call = "rename" /\ st.p # st.q
         /\ st' = [st EXCEPT !.pc = "copy", !.keys = <<st.p>>]
      \/ /\ st.p \in DOMAIN bucket /\ st.call = "remove"
         /\ st' = [st EXCEPT !.pc = "delete", !.keys = <<st.p>>]
      \/ st.call = "remove" /\ Goto("rmdir")
      \/ st.p \notin DOMAIN bucket /\ Goto("dir")
  <2>1. CASE st.p \in DOMAIN bucket
    BY <1>1, <1>2, <2>1 DEF HeadLiteral, Literal, Result
  <2>2. CASE st.p \notin DOMAIN bucket
    BY <1>1, <2>2 DEF HeadLiteral, Literal, Result
  <2> QED
    BY <2>1, <2>2
<1>4. ASSUME NEW r \in Result, Return(r) PROVE NsInv'
  BY <1>1, <1>4, ReturnNs
<1>5. CASE st.call = "remove" /\ Goto("rmdir")
  BY <1>1, <1>5, GotoNs
<1>6. CASE st.p \notin DOMAIN bucket /\ Goto("dir")
  BY <1>1, <1>6, GotoNs
<1>7. ASSUME NEW c \in {"copy", "delete"}, st.p \in DOMAIN bucket,
             c = "copy" => st.call = "rename" /\ st.p # st.q, c = "delete" => st.call = "remove",
             st' = [st EXCEPT !.pc = c, !.keys = <<st.p>>]
      PROVE  NsInv'
  <2> DEFINE ks == <<st.p>>
  <2>1. st.p \in Seq(Nat) /\ st.p \in Seq(Int) /\ IsKey(st.p)
    BY <1>1, PathKey
  <2>2. ks \in Seq(Seq(Nat)) /\ Len(ks) = 1 /\ ks # <<>> /\ ks[1] = st.p
    BY <2>1
  <2> HIDE DEF ks
  <2>3. \A n \in 1 .. Len(ks) : ks[n] = st.p
    BY <2>2
  <2>4. st' = [st EXCEPT !.pc = c, !.keys = ks, !.tok = st.tok] /\ st.tok \in Seq(Nat)
    <3>1. st.tok \in Seq(Nat)
      BY Types
    <3>2. st' = [st EXCEPT !.pc = c, !.keys = ks]
      BY <1>7 DEF ks
    <3> QED
      BY <1>1, <3>1, <3>2 DEF Local
  <2>5. IsPrefix(st.p, st.p) /\ st.p \in DOMAIN before \cup touched
    BY <1>1, <1>7, <2>1, PrefixIs DEF Untouched
  <2> DEFINE l == st.tok
  <2>6. l \in Seq(Nat) /\ st' = [st EXCEPT !.pc = c, !.keys = ks, !.tok = l]
    BY <2>4
  <2> HIDE DEF l
  <2> QED
    BY <1>1, <1>7, <2>1, <2>2, <2>3, <2>5, <2>6, WorkNs
<1> QED
  BY <1>3, <1>4, <1>5, <1>6, <1>7

\* A directory is an answer, or a source of keys.
LEMMA DirToldNs ==
  ASSUME NsInv, DirTold
  PROVE  NsInv'
<1>1. st.pc = "dir" /\ Steady /\ \E r \in Result : Return(r)
  BY DEF DirTold, Result
<1> QED
  BY <1>1, ReturnNs

\* So is the lack of one.
LEMMA DirNs ==
  ASSUME NsInv, Dir
  PROVE  NsInv'
<1>1. st.pc = "dir" /\ Steady /\ st.p # Root /\ Untouched /\ st.p \notin DOMAIN before \ touched
  BY DEF Dir, NsInv, PhaseInv, KeptInv, PutInv
<1>2. \/ \E r \in Result : Return(r)
      \/ st.call \in {"create", "excl", "mkdir", "symlink"} /\ ~dirExists(bucket, st.p) /\ Goto("put")
      \/ st.call = "rename" /\ ~IsPrefix(st.p, st.q) /\ Goto("list")
  BY DEF Dir, Result
<1>3. ASSUME NEW r \in Result, Return(r) PROVE NsInv'
  BY <1>1, <1>3, ReturnNs
<1>4. CASE st.call \in {"create", "excl", "mkdir", "symlink"} /\ ~dirExists(bucket, st.p) /\ Goto("put")
  <2>1. st.call = "mkdir" => PutKey \notin DOMAIN before \ touched
    <3> SUFFICES ASSUME st.call = "mkdir", PutKey \in DOMAIN before \ touched PROVE FALSE
      OBVIOUS
    <3>1. marker(st.p) \in DOMAIN bucket
      BY <1>1 DEF PutKey, Untouched
    <3>2. st.p \in Seq(Name)
      BY Types
    <3>5. IsStrictPrefix(st.p, marker(st.p))
      BY <3>2, MarkerUnder
    <3> QED
      BY <1>4, <3>1, <3>5 DEF dirExists, Under
  <2>2. PutKey \notin DOMAIN before \ touched
    BY <1>1, <2>1 DEF PutKey
  <2> QED
    BY <1>1, <1>4, <2>2, GotoNs
<1>5. CASE st.call = "rename" /\ ~IsPrefix(st.p, st.q) /\ Goto("list")
  BY <1>1, <1>5, GotoNs
<1> QED
  BY <1>2, <1>3, <1>4, <1>5

\* The marker of an empty directory is the one key Remove deletes.
LEMMA RemoveDirNs ==
  ASSUME NsInv, RemoveDir
  PROVE  NsInv'
<1>1. st.pc = "rmdir" /\ Steady /\ st.p # Root /\ st.call = "remove" /\ st \in Local
  BY Types DEF RemoveDir, NsInv, PhaseInv
<1>2. \/ \E r \in Result : Return(r)
      \/ st' = [st EXCEPT !.pc = "delete", !.keys = <<marker(st.p)>>]
  BY DEF RemoveDir, Result
<1>3. ASSUME NEW r \in Result, Return(r) PROVE NsInv'
  BY <1>1, <1>3, ReturnNs
<1>4. CASE st' = [st EXCEPT !.pc = "delete", !.keys = <<marker(st.p)>>]
  <2> DEFINE ks == <<marker(st.p)>>
             c == "delete"
             l == st.tok
  <2>1. IsKey(marker(st.p))
    BY Types, PathKey
  <2>2. ks \in Seq(Seq(Nat)) /\ Len(ks) = 1 /\ ks # <<>> /\ ks[1] = marker(st.p)
    BY <2>1 DEF IsKey
  <2>3. l \in Seq(Nat)
    BY Types
  <2> HIDE DEF ks
  <2>4. st' = [st EXCEPT !.pc = c, !.keys = ks, !.tok = l]
    <3>1. st' = [st EXCEPT !.pc = c, !.keys = ks]
      BY <1>4 DEF ks
    <3> QED
      BY <1>1, <3>1 DEF Local
  <2>5. c \in {"copy", "delete"} /\ c # "copy"
    OBVIOUS
  <2>6. \A n \in 1 .. Len(ks) : IsKey(ks[n])
    BY <2>1, <2>2
  <2> HIDE DEF c, l
  <2> QED
    BY <1>1, <2>2, <2>3, <2>4, <2>5, <2>6, WorkNs
<1> QED
  BY <1>2, <1>3, <1>4

\* The keys in a directory.
LEMMA UnderIs ==
  ASSUME NEW b, IsBucket(b), NEW p \in Seq(Name), NEW k \in Under(b, p)
  PROVE  /\ k \in DOMAIN b /\ IsKey(k) /\ k \in Seq(Nat) /\ Len(k) \in Nat /\ Len(p) \in Nat
         /\ Len(p) < Len(k) /\ \A i \in 1 .. Len(p) : k[i] = p[i]
         /\ IsPrefix(p, k)
<1>1. k \in DOMAIN b /\ IsStrictPrefix(p, k) /\ IsKey(k)
  BY DEF Under, IsBucket
<1>2. k \in Seq(Nat)
  BY <1>1 DEF IsKey
<1>3. k \in Seq(Int)
  BY <1>2, SeqMonotonic
<1>4. p \in Seq(Int)
  BY PathKey
<1>5. Len(p) < Len(k) /\ \A i \in 1 .. Len(p) : k[i] = p[i]
  BY <1>1, <1>3, <1>4, PrefixIs
<1> QED
  BY <1>1, <1>2, <1>5 DEF IsStrictPrefix

\* The keys in a page.
LEMMA PageIs ==
  ASSUME NEW S, S \subseteq Seq(Nat), IsFiniteSet(S), NEW l, l \in Ends(After(S)), st.tok \in Seq(Nat)
  PROVE  /\ l \in Seq(Nat)
         /\ Upto(After(S), l) \subseteq S /\ IsFiniteSet(Upto(After(S), l))
<1>1. After(S) \subseteq S
  BY DEF After
<1>2. l \in Seq(Nat)
  BY <1>1 DEF Ends
<1>3. Upto(After(S), l) \subseteq S
  BY <1>1 DEF Upto
<1> QED
  BY <1>2, <1>3, FS_Subset

\* A page adds keys of the directory, in their order and each once.
LEMMA ListAllKeysNs ==
  ASSUME NsInv, ListAllKeys
  PROVE  NsInv'
<1> DEFINE S == Under(bucket, st.p)
<1>1. /\ st.pc = "list" /\ Steady /\ st.p # Root /\ st.call = "rename" /\ st \in Local /\ Untouched
      /\ IsBucket(bucket) /\ st.p \in Seq(Name) /\ st.keys \in Seq(Seq(Nat)) /\ Len(st.keys) \in Nat
      /\ st.tok \in Seq(Nat)
  BY Types DEF ListAllKeys, NsInv, PhaseInv, KeptInv
<1>2. S \subseteq Seq(Nat) /\ IsFiniteSet(S) /\ S \subseteq DOMAIN before \cup touched
  <2>1. S \subseteq DOMAIN bucket /\ IsFiniteSet(DOMAIN bucket)
    BY <1>1 DEF Under, IsBucket
  <2>2. S \subseteq Seq(Nat)
    BY <1>1, UnderIs
  <2> QED
    BY <1>1, <2>1, <2>2, FS_Subset DEF Untouched
<1>3. \A k \in S : IsKey(k) /\ IsPrefix(st.p, k)
  BY <1>1, UnderIs
<1> DEFINE ks == After(S)
           last(l) == LastPage(ks, Upto(ks, l))
           keys(l) == st.keys \o Sorted(Upto(ks, l))
<1>4. PICK l \in Ends(ks) :
        st' = [st EXCEPT !.keys = keys(l), !.tok = l,
                 !.pc  = IF ~last(l) THEN @ ELSE IF keys(l) = <<>> THEN "done" ELSE "copy",
                 !.res = IF last(l) /\ keys(l) = <<>> THEN "ok" ELSE @]
  BY DEF ListAllKeys
<1> DEFINE page == Upto(ks, l)
           kk == keys(l)
<1>5. l \in Seq(Nat) /\ page \subseteq S /\ IsFiniteSet(page)
  <2> HIDE DEF S
  <2> QED
    BY <1>1, <1>2, PageIs
<1>6. Sorted(page) \in Seq(page)
  <2>1. page \subseteq Seq(Nat) /\ IsFiniteSet(page)
    BY <1>2, <1>5
  <2> HIDE DEF page
  <2> QED
    BY <2>1, SortedIs
<1>7. /\ kk \in Seq(Seq(Nat)) /\ Len(kk) \in Nat
      /\ \A n \in 1 .. Len(kk) :
           kk[n] \in page \/ (n \in 1 .. Len(st.keys) /\ kk[n] = st.keys[n])
  <2> DEFINE s == Sorted(page)
  <2>1. s \in Seq(Seq(Nat)) /\ Len(s) \in Nat /\ \A n \in 1 .. Len(s) : s[n] \in page
    <3>1. s \in Seq(page)
      BY <1>6
    <3>2. page \subseteq Seq(Nat)
      BY <1>2, <1>5
    <3> HIDE DEF page, s
    <3>3. s \in Seq(Seq(Nat))
      BY <3>1, <3>2, SeqMonotonic
    <3> QED
      BY <3>1, <3>3
  <2>2. kk = st.keys \o s
    OBVIOUS
  <2> HIDE DEF s, page, kk
  <2>3. /\ kk \in Seq(Seq(Nat)) /\ Len(kk) = Len(st.keys) + Len(s)
        /\ \A n \in 1 .. Len(st.keys) + Len(s) :
             kk[n] = IF n <= Len(st.keys) THEN st.keys[n] ELSE s[n - Len(st.keys)]
    BY <1>1, <2>1, <2>2, ConcatProperties
  <2>4. ASSUME NEW n \in 1 .. Len(kk)
        PROVE  kk[n] \in page \/ (n \in 1 .. Len(st.keys) /\ kk[n] = st.keys[n])
    <3>1. CASE n <= Len(st.keys)
      BY <1>1, <2>1, <2>3, <3>1
    <3>2. CASE ~(n <= Len(st.keys))
      <4>1. n - Len(st.keys) \in 1 .. Len(s)
        BY <1>1, <2>1, <2>3, <3>2
      <4>2. kk[n] = s[n - Len(st.keys)]
        BY <1>1, <2>1, <2>3, <3>2
      <4> QED
        BY <2>1, <4>1, <4>2
    <3> QED
      BY <3>1, <3>2
  <2> QED
    BY <2>3, <2>4
<1>8. \A n \in 1 .. Len(kk) :
        IsKey(kk[n]) /\ IsPrefix(st.p, kk[n]) /\ kk[n] \in DOMAIN before \cup touched
  <2> HIDE DEF kk, page
  <2>1. \A n \in 1 .. Len(st.keys) :
          /\ IsKey(st.keys[n]) /\ IsPrefix(st.p, st.keys[n])
          /\ st.keys[n] \in DOMAIN before \cup touched
    BY <1>1, Types DEF NsInv, KeysInv
  <2> QED
    BY <1>2, <1>3, <1>5, <1>7, <2>1
<1>9. st.i = 1 /\ ~IsPrefix(st.p, st.q) /\ (Overlap \/ ~IsPrefix(st.q, st.p))
  BY <1>1 DEF NsInv, KeysInv
<1>10. CASE ~last(l)
  <2>1. st' = [st EXCEPT !.keys = kk, !.tok = l]
    <3>1. st' = [st EXCEPT !.keys = kk, !.tok = l, !.pc = st.pc, !.res = st.res]
      BY <1>4, <1>10
    <3> HIDE DEF kk
    <3> QED
      BY <1>1, <3>1 DEF Local
  <2> HIDE DEF kk
  <2>2. /\ st' \in Local /\ st'.pc = "list" /\ st'.call = st.call /\ st'.q = st.q
        /\ st'.p = st.p /\ st'.keys = kk /\ st'.i = st.i /\ st'.hops = st.hops
    BY <1>1, <1>5, <1>7, <2>1 DEF Local
  <2>3. TypeOK'
    BY <1>1, <1>7, <1>8, <1>9, <2>2, Types DEF TypeOK, Steady
  <2>4. PhaseInv'
    BY <1>1, <2>2 DEF NsInv, PhaseInv
  <2>5. KeysInv'
    BY <1>1, <1>8, <1>9, <2>2 DEF KeysInv, Steady
  <2>6. PutInv'
    BY <2>2 DEF PutInv
  <2>7. KeptInv'
    BY <1>1, <2>2 DEF KeptInv, Untouched, Steady
  <2> QED
    BY <2>3, <2>4, <2>5, <2>6, <2>7 DEF NsInv
<1>11. CASE last(l) /\ kk = <<>>
  <2> DEFINE c == "done"
             r == "ok"
  <2>1. st' = [st EXCEPT !.keys = kk, !.tok = l, !.pc = c, !.res = r]
    BY <1>4, <1>11
  <2>2. c \in PC /\ r \in Result
    BY DEF PC, Result
  <2> HIDE DEF kk, c, r
  <2>3. /\ st' \in Local /\ st'.pc = c /\ st'.call = st.call /\ st'.q = st.q
        /\ st'.p = st.p /\ st'.keys = kk /\ st'.i = st.i
    BY <1>1, <1>5, <1>7, <2>1, <2>2 DEF Local
  <2>4. st'.pc = "done"
    BY <2>3 DEF c
  <2>5. ContentsKept'
    BY <1>1 DEF ContentsKept, Untouched, Steady
  <2>6. IsBucket(bucket') /\ UNCHANGED <<before, touched, left>> /\ st'.i \in 1 .. Len(st'.keys) + 1
    BY <1>1, <1>7, <1>9, <2>3 DEF Steady
  <2>7. \A n \in 1 .. Len(st'.keys) : IsKey(st'.keys[n])
    BY <1>8, <2>3
  <2> QED
    BY <1>1, <2>3, <2>4, <2>5, <2>6, <2>7, DoneNs
<1>12. CASE last(l) /\ kk # <<>>
  <2> DEFINE c == "copy"
  <2>1. st' = [st EXCEPT !.pc = c, !.keys = kk, !.tok = l]
    <3>1. st' = [st EXCEPT !.keys = kk, !.tok = l, !.pc = c, !.res = st.res]
      BY <1>4, <1>12
    <3> HIDE DEF kk, c
    <3> QED
      BY <1>1, <3>1 DEF Local
  <2>2. c \in {"copy", "delete"} /\ c # "delete"
    OBVIOUS
  <2> HIDE DEF kk, c
  <2> QED
    BY <1>1, <1>5, <1>7, <1>8, <1>9, <1>12, <2>1, <2>2, WorkNs
<1> QED
  BY <1>10, <1>11, <1>12

\* Keys that are neither touched by others nor replaced by the call; that such
\* a key is at its place in bucket b; that the n-th key of a rename is at its
\* new place.
Ours == DOMAIN before \ (touched \cup Replaced)
Stays(b, k) == k \in DOMAIN b /\ b[k] = before[k]
There(b, n) ==
  LET m == Moved(st.p, st.q, st.keys[n]) IN
  m \in touched \/ (m \in DOMAIN b /\ b[m] = before[st.keys[n]])

\* The invariant of a rename in these words.
LEMMA RenameIs ==
  ASSUME NsInv, st.pc \in {"copy", "delete"}, st.call = "rename"
  PROVE  /\ st.p \in Seq(Name) /\ st.q \in Seq(Name) /\ st.p # Root /\ st.q # Root
         /\ st.i \in 1 .. Len(st.keys) /\ Len(st.keys) \in Nat
         /\ \A n \in 1 .. Len(st.keys) :
              LET k == st.keys[n] IN
              /\ k \in Seq(Nat) /\ IsKey(k) /\ IsPrefix(st.p, k)
              /\ Moved(st.p, st.q, k) \in Replaced
         /\ ~Overlap =>
              /\ \A k \in Ours : \/ Stays(bucket, k)
                                 \/ st.pc = "delete" /\ \E n \in 1 .. st.i - 1 : st.keys[n] = k
              /\ \A n \in 1 .. Len(st.keys) :
                   (st.pc = "delete" \/ n < st.i) /\ st.keys[n] \in Ours => There(bucket, n)
<1>1. /\ st.p \in Seq(Name) /\ st.q \in Seq(Name) /\ st.p # Root /\ st.q # Root
      /\ st.i \in 1 .. Len(st.keys) /\ Len(st.keys) \in Nat
  BY Types DEF NsInv, PhaseInv
<1>2. ASSUME NEW n \in 1 .. Len(st.keys)
      PROVE  LET k == st.keys[n] IN
             /\ k \in Seq(Nat) /\ IsKey(k) /\ IsPrefix(st.p, k)
             /\ Moved(st.p, st.q, k) \in Replaced
  <2> DEFINE k == st.keys[n]
  <2>1. IsPrefix(st.p, k) /\ k \in DOMAIN before \cup touched
    BY DEF NsInv, KeysInv
  <2>2. IsKey(k) /\ k \in Seq(Nat)
    BY Types DEF IsKey
  <2>3. Replaced = {Moved(st.p, st.q, j) :
                      j \in {x \in DOMAIN before \cup touched : IsPrefix(st.p, x)}}
    BY DEF Replaced
  <2> QED
    BY <2>1, <2>2, <2>3
<1>3. ~Overlap => CopyInv
  BY DEF NsInv, KeptInv
<1> QED
  BY <1>1, <1>2, <1>3 DEF CopyInv, Ours, Stays, There, Arrived

\* A copy, also when its answer is lost.
LEMMA CopyEffect ==
  ASSUME NsInv, st.pc = "copy", st.keys[st.i] \in DOMAIN bucket,
         bucket' = CopiedTo(st.p, st.q)
  PROVE  /\ IsBucket(bucket')
         /\ ~Overlap =>
              /\ \A k \in Ours : Stays(bucket', k)
              /\ \A n \in 1 .. st.i : st.keys[n] \in Ours => There(bucket', n)
<1> DEFINE k == st.keys[st.i]
           m == Moved(st.p, st.q, k)
<1>0. st.call = "rename"
  BY DEF NsInv, PhaseInv
<1>1. /\ st.p \in Seq(Name) /\ st.q \in Seq(Name) /\ st.p # Root /\ st.q # Root
      /\ st.i \in 1 .. Len(st.keys) /\ Len(st.keys) \in Nat
      /\ k \in Seq(Nat) /\ IsKey(k) /\ IsPrefix(st.p, k) /\ m \in Replaced
  BY <1>0, RenameIs
<1>2. bucket' = With(bucket, m, bucket[k])
  BY DEF CopiedTo, With
<1>3. IsBucket(bucket')
  <2>1. IsKey(m) /\ (Last(m) = 0 <=> Last(k) = 0)
    <3> HIDE DEF k
    <3> QED
      BY <1>1, MovedKey
  <2>2. IsBucket(bucket) /\ Fits(bucket[k], k)
    BY Types, BucketFits
  <2> HIDE DEF k, m
  <2>3. Fits(bucket[k], m)
    BY <2>1, <2>2 DEF Fits
  <2> QED
    BY <1>2, <2>1, <2>2, <2>3, BucketWith
<1> HIDE DEF k, m
<1>4. /\ DOMAIN bucket' = DOMAIN bucket \cup {m} /\ bucket'[m] = bucket[k]
      /\ \A j \in DOMAIN bucket : j # m => bucket'[j] = bucket[j]
  BY <1>2 DEF With
<1>5. ASSUME ~Overlap, NEW j \in Ours PROVE Stays(bucket, j) /\ Stays(bucket', j)
  <2>1. j # m
    BY <1>1 DEF Ours
  <2>2. Stays(bucket, j)
    BY <1>0, <1>5, RenameIs
  <2> QED
    BY <1>4, <2>1, <2>2 DEF Stays
<1>6. ASSUME ~Overlap, NEW n \in 1 .. st.i, st.keys[n] \in Ours PROVE There(bucket', n)
  <2> DEFINE j == st.keys[n]
  <2>1. n \in 1 .. Len(st.keys) /\ (n < st.i \/ n = st.i)
    BY <1>1
  <2>2. j \in Seq(Nat) /\ IsPrefix(st.p, j)
    BY <1>0, <2>1, RenameIs
  <2>3. CASE Moved(st.p, st.q, j) = m
    <3>1. j = k
      <4>1. Moved(st.p, st.q, j) = Moved(st.p, st.q, k)
        BY <2>3 DEF m
      <4> HIDE DEF j
      <4> QED
        BY <1>1, <2>2, <4>1, MovedInjective
    <3>2. bucket[k] = before[j]
      BY <1>5, <1>6, <3>1 DEF Stays
    <3> QED
      BY <1>4, <2>3, <3>2 DEF There
  <2>4. CASE Moved(st.p, st.q, j) # m
    <3>1. n < st.i
      BY <2>1, <2>4 DEF m, k
    <3>2. There(bucket, n)
      BY <1>0, <1>6, <2>1, <3>1, RenameIs
    <3> QED
      BY <1>4, <2>4, <3>2 DEF There
  <2> QED
    BY <2>3, <2>4
<1> QED
  BY <1>3, <1>5, <1>6

\* No key of a rename is where another one goes.
LEMMA Apart ==
  ASSUME NsInv, st.pc \in {"copy", "delete"}, st.call = "rename", ~Overlap,
         NEW n \in 1 .. Len(st.keys), NEW i \in 1 .. Len(st.keys)
  PROVE  Moved(st.p, st.q, st.keys[n]) # st.keys[i]
<1> DEFINE j == st.keys[n]
           k == st.keys[i]
           m == Moved(st.p, st.q, j)
<1>1. /\ st.p \in Seq(Name) /\ st.q \in Seq(Name)
      /\ j \in Seq(Nat) /\ IsPrefix(st.p, j) /\ k \in Seq(Nat) /\ IsPrefix(st.p, k)
  BY RenameIs
<1>2. /\ m \in Seq(Nat) /\ Len(m) = Len(st.q) + (Len(j) - Len(st.p)) /\ IsPrefix(st.q, m)
      /\ \A x \in 1 .. Len(st.q) : m[x] = st.q[x]
  <2> HIDE DEF j
  <2> QED
    BY <1>1, MovedIs
<1>3. CASE st.p # st.q /\ j = st.p /\ k = st.p
  <2>1. Len(m) = Len(st.q)
    BY <1>1, <1>2, <1>3
  <2> HIDE DEF m, j
  <2>2. m = st.q
    <3>1. st.q \in Seq(Nat)
      BY <1>1, PathKey
    <3> QED
      BY <1>2, <2>1, <3>1, SeqEqual
  <2> QED
    BY <1>3, <2>2 DEF m, j
<1>4. CASE ~IsPrefix(st.p, st.q) /\ ~IsPrefix(st.q, st.p)
  <2> SUFFICES ASSUME m = k PROVE FALSE
    OBVIOUS
  <2>1. IsPrefix(st.q, k) /\ IsPrefix(st.p, k)
    BY <1>1, <1>2
  <2>2. IsPrefix(st.p, st.q) \/ IsPrefix(st.q, st.p)
    <3>1. st.p \in Seq(Int) /\ st.q \in Seq(Int)
      BY <1>1, PathKey
    <3>2. k \in Seq(Int)
      BY <1>1, SeqMonotonic
    <3> QED
      BY <2>1, <3>1, <3>2, PrefixesNest
  <2> QED
    BY <1>4, <2>2
<1> QED
  BY <1>3, <1>4 DEF NsInv, KeysInv

\* A deletion by a rename.
LEMMA MovedEffect ==
  ASSUME NsInv, st.pc = "delete", st.call = "rename",
         bucket' = Without(bucket, st.keys[st.i]), ~Overlap
  PROVE  /\ \A k \in Ours : Stays(bucket', k) \/ \E n \in 1 .. st.i : st.keys[n] = k
         /\ \A n \in 1 .. Len(st.keys) : st.keys[n] \in Ours => There(bucket', n)
<1> DEFINE k == st.keys[st.i]
<1>1. /\ st.p \in Seq(Name) /\ st.q \in Seq(Name)
      /\ st.i \in 1 .. Len(st.keys) /\ Len(st.keys) \in Nat
      /\ k \in Seq(Nat) /\ IsPrefix(st.p, k)
  BY RenameIs
<1>2. DOMAIN bucket' = DOMAIN bucket \ {k} /\ \A j \in DOMAIN bucket : j # k => bucket'[j] = bucket[j]
  BY DEF Without
<1> HIDE DEF k
<1>3. ASSUME NEW j \in Ours PROVE Stays(bucket', j) \/ \E n \in 1 .. st.i : st.keys[n] = j
  <2>1. CASE j = k
    BY <1>1, <2>1 DEF k
  <2>2. CASE j # k /\ Stays(bucket, j)
    BY <1>2, <2>2 DEF Stays
  <2>3. ASSUME NEW n \in 1 .. st.i - 1, st.keys[n] = j PROVE \E i \in 1 .. st.i : st.keys[i] = j
    <3>1. n \in 1 .. st.i
      BY <1>1
    <3> QED
      BY <2>3, <3>1
  <2>4. Stays(bucket, j) \/ \E n \in 1 .. st.i - 1 : st.keys[n] = j
    BY RenameIs
  <2> QED
    BY <2>1, <2>2, <2>3, <2>4
<1>4. ASSUME NEW n \in 1 .. Len(st.keys), st.keys[n] \in Ours PROVE There(bucket', n)
  <2> DEFINE j == st.keys[n]
             m == Moved(st.p, st.q, j)
  <2>1. There(bucket, n) /\ j \in Seq(Nat) /\ IsPrefix(st.p, j)
    BY <1>4, RenameIs
  <2>2. m # k
    BY <1>1, Apart DEF k
  <2> QED
    BY <1>2, <2>1, <2>2 DEF There
<1> QED
  BY <1>3, <1>4

\* What stays or has arrived is kept when the call returns.
LEMMA EffectKept ==
  ASSUME NsInv, st'.call = st.call, st'.p = st.p, st'.q = st.q, UNCHANGED <<before, touched>>,
         \A k \in Ours :
           \/ Stays(bucket', k)
           \/ /\ st.pc \in {"copy", "delete"} /\ st.call = "rename"
              /\ \E n \in 1 .. Len(st.keys) : st.keys[n] = k /\ There(bucket', n)
  PROVE  ContentsKept'
<1>1. Replaced' = Replaced
  BY DEF Replaced
<1>2. (DOMAIN before \ (touched \cup Replaced))' = Ours
  BY <1>1 DEF Ours
<1>3. st.pc \in {"copy", "delete"} /\ st.call = "rename" =>
        \A n \in 1 .. Len(st.keys) : IsPrefix(st.p, st.keys[n])
  BY DEF NsInv, KeysInv
<1> SUFFICES ASSUME NEW k \in Ours, ~Stays(bucket', k)
             PROVE  /\ st.call = "rename" /\ IsPrefix(st.p, k)
                    /\ LET m == Moved(st.p, st.q, k) IN
                       m \in touched \/ (m \in DOMAIN bucket' /\ bucket'[m] = before[k])
  BY <1>2 DEF ContentsKept, Stays
<1> QED
  BY <1>3 DEF There

\* What the call makes fits its key.
LEMMA PutFits ==
  ASSUME NsInv, st.pc = "put"
  PROVE  IsKey(PutKey) /\ Fits(PutObject, PutKey)
<1>1. st.p \in Seq(Name) /\ st.p # Root /\ st.call \in {"create", "excl", "mkdir", "symlink"}
  BY Types DEF NsInv, PhaseInv
<1>2. /\ IsKey(st.p) /\ Last(st.p) # 0 /\ IsKey(marker(st.p)) /\ Last(marker(st.p)) = 0
  BY <1>1, PathKey
<1>3. st.q \in Seq(Name \cup {Up})
  BY Types
<1>4. st.q \in Seq(Int)
  <2>1. Name \cup {Up} \subseteq Int
    BY DEF Name, Up
  <2> QED
    BY <1>3, <2>1, SeqMonotonic
<1>5. CASE st.call = "mkdir"
  BY <1>2, <1>5 DEF PutKey, PutObject, Fits, Object, Objects
<1>6. CASE st.call = "symlink"
  BY <1>2, <1>3, <1>4, <1>6 DEF PutKey, PutObject, Fits, Object, Objects
<1>7. CASE st.call \in {"create", "excl"}
  <2>1. PutKey = st.p /\ PutObject = Object("file", <<>>)
    BY <1>7 DEF PutKey, PutObject
  <2> QED
    BY <1>2, <2>1 DEF Fits, Object, Objects
<1> QED
  BY <1>1, <1>5, <1>6, <1>7

\* An upload, also when its answer is lost.
LEMMA PutEffect ==
  ASSUME NsInv, st.pc = "put", bucket' = With(bucket, PutKey, PutObject)
  PROVE  IsBucket(bucket') /\ \A k \in Ours : Stays(bucket', k)
<1>1. IsBucket(bucket')
  BY Types, PutFits, BucketWith
<1>2. PutKey \notin Ours
  <2>1. CASE st.call = "create"
    BY <2>1 DEF PutKey, Replaced, Ours
  <2>2. CASE st.call # "create"
    BY <2>2 DEF NsInv, PutInv, Ours
  <2> QED
    BY <2>1, <2>2
<1>3. /\ DOMAIN bucket' = DOMAIN bucket \cup {PutKey}
      /\ \A k \in DOMAIN bucket : k # PutKey => bucket'[k] = bucket[k]
  BY DEF With
<1>4. \A k \in Ours : k \in DOMAIN bucket /\ bucket[k] = before[k]
  BY DEF NsInv, KeptInv, Untouched, Ours
<1> QED
  BY <1>1, <1>2, <1>3, <1>4 DEF Stays

\* A deletion, also when its answer is lost.
LEMMA DeleteEffect ==
  ASSUME NsInv, st.pc = "delete", bucket' = Without(bucket, st.keys[st.i])
  PROVE  /\ IsBucket(bucket')
         /\ ~Overlap => \A k \in Ours :
              \/ Stays(bucket', k)
              \/ /\ st.pc \in {"copy", "delete"} /\ st.call = "rename"
                 /\ \E n \in 1 .. Len(st.keys) : st.keys[n] = k /\ There(bucket', n)
<1>1. IsBucket(bucket')
  BY Types, BucketWithout
<1>2. st.i \in 1 .. Len(st.keys) /\ Len(st.keys) \in Nat
  BY Types DEF NsInv, PhaseInv
<1>3. CASE st.call = "rename"
  <2> SUFFICES ASSUME ~Overlap, NEW k \in Ours, ~Stays(bucket', k)
               PROVE  \E n \in 1 .. Len(st.keys) : st.keys[n] = k /\ There(bucket', n)
    BY <1>1, <1>3
  <2>1. PICK n \in 1 .. st.i : st.keys[n] = k
    BY <1>3, MovedEffect
  <2>2. n \in 1 .. Len(st.keys)
    BY <1>2
  <2>3. There(bucket', n)
    BY <1>3, <2>1, <2>2, MovedEffect
  <2> QED
    BY <2>1, <2>2, <2>3
<1>4. CASE st.call = "remove"
  <2>1. Len(st.keys) = 1 /\ st.keys[1] \in {st.p, marker(st.p)} /\ Untouched
    BY <1>4 DEF NsInv, KeysInv, KeptInv
  <2>2. st.i = 1
    BY <1>2, <2>1
  <2>3. st.keys[st.i] \in Replaced
    BY <1>4, <2>1, <2>2 DEF Replaced
  <2> QED
    BY <1>1, <2>1, <2>3 DEF Untouched, Ours, Stays, Without
<1> QED
  BY <1>3, <1>4 DEF NsInv, PhaseInv

\* A call returns once a request has had its effect.
LEMMA EffectNs ==
  ASSUME NsInv, st.pc # "idle", NEW r \in Result, Return(r), UNCHANGED <<before, touched, left>>,
         IsBucket(bucket'),
         ~Overlap => \A k \in Ours :
           \/ Stays(bucket', k)
           \/ /\ st.pc \in {"copy", "delete"} /\ st.call = "rename"
              /\ \E n \in 1 .. Len(st.keys) : st.keys[n] = k /\ There(bucket', n)
  PROVE  NsInv'
<1>1. /\ st' \in Local /\ st'.pc = "done" /\ st'.call = st.call /\ st'.q = st.q
      /\ st'.p = st.p /\ st'.keys = st.keys /\ st'.i = st.i
  <2>1. st \in Local /\ "done" \in PC
    BY Types DEF PC
  <2> QED
    BY <2>1 DEF Return, Local
<1>2. ~Overlap => ContentsKept'
  BY <1>1, EffectKept
<1> QED
  BY <1>1, <1>2, Types, DoneNs

\* Put makes an object where the call found none, or a file to replace.
LEMMA PutNs ==
  ASSUME NsInv, Put
  PROVE  NsInv'
<1>1. /\ st.pc = "put" /\ bucket' = With(bucket, PutKey, PutObject) /\ Return("ok")
      /\ UNCHANGED <<before, touched, left>> /\ "ok" \in Result
  BY DEF Put, With, Result
<1>2. IsBucket(bucket') /\ \A k \in Ours : Stays(bucket', k)
  BY <1>1, PutEffect
<1> QED
  BY <1>1, <1>2, EffectNs

\* A request that fails ends the call where it stands.
LEMMA FailNs ==
  ASSUME NsInv, Fail
  PROVE  NsInv'
<1>1. /\ st.pc \notin {"idle", "done"} /\ Return("error") /\ UNCHANGED <<before, touched, left>>
      /\ "error" \in Result
  BY DEF Fail, Result
<1>2. \/ UNCHANGED bucket
      \/ st.pc = "put" /\ bucket' = With(bucket, PutKey, PutObject)
      \/ st.pc = "copy" /\ st.keys[st.i] \in DOMAIN bucket /\ bucket' = CopiedTo(st.p, st.q)
      \/ st.pc = "delete" /\ bucket' = Without(bucket, st.keys[st.i])
  BY DEF Fail, With, Without
<1>3. CASE UNCHANGED bucket
  BY <1>1, <1>3, ReturnNs DEF Steady
<1>4. CASE st.pc = "put" /\ bucket' = With(bucket, PutKey, PutObject)
  BY <1>1, <1>4, PutEffect, EffectNs
<1>5. CASE st.pc = "copy" /\ st.keys[st.i] \in DOMAIN bucket /\ bucket' = CopiedTo(st.p, st.q)
  BY <1>1, <1>5, CopyEffect, EffectNs
<1>6. CASE st.pc = "delete" /\ bucket' = Without(bucket, st.keys[st.i])
  BY <1>1, <1>6, DeleteEffect, EffectNs
<1> QED
  BY <1>2, <1>3, <1>4, <1>5, <1>6

\* A rename goes on with its next key, or from copying to deleting.
LEMMA GoOnNs ==
  ASSUME NsInv, st.pc \in {"copy", "delete"}, st.call = "rename", NEW c \in {"copy", "delete"},
         NEW i \in 1 .. Len(st.keys), st' = [st EXCEPT !.pc = c, !.i = i],
         UNCHANGED <<before, touched, left>>, IsBucket(bucket'),
         ~Overlap =>
           /\ \A k \in Ours : \/ Stays(bucket', k)
                              \/ c = "delete" /\ \E n \in 1 .. i - 1 : st.keys[n] = k
           /\ \A n \in 1 .. Len(st.keys) :
                (c = "delete" \/ n < i) /\ st.keys[n] \in Ours => There(bucket', n)
  PROVE  NsInv'
<1>1. /\ st' \in Local /\ st'.pc = c /\ st'.call = "rename" /\ st'.q = st.q
      /\ st'.p = st.p /\ st'.keys = st.keys /\ st'.i = i
  <2>1. st \in Local /\ c \in PC /\ i \in Nat
    BY Types DEF PC
  <2> QED
    BY <2>1 DEF Local
<1>2. TypeOK'
  <2>1. i \in 1 .. Len(st.keys) + 1
    BY Types
  <2> QED
    BY <1>1, <2>1, Types DEF TypeOK
<1>3. PhaseInv'
  BY <1>1 DEF NsInv, PhaseInv
<1>4. KeysInv'
  BY <1>1 DEF NsInv, KeysInv
<1>5. PutInv'
  BY <1>1 DEF PutInv
<1>6. KeptInv'
  <2>1. Replaced' = Replaced
    BY <1>1 DEF Replaced
  <2>2. (DOMAIN before \ (touched \cup Replaced))' = Ours
    BY <2>1 DEF Ours
  <2>3. ASSUME ~Overlap PROVE CopyInv'
    BY <1>1, <2>2, <2>3 DEF CopyInv, Stays, There, Arrived
  <2> QED
    BY <1>1, <2>3 DEF KeptInv
<1> QED
  BY <1>2, <1>3, <1>4, <1>5, <1>6 DEF NsInv

\* A copy leaves the contents under the new key, and the old one in place.
LEMMA CopyNs ==
  ASSUME NsInv, Copy
  PROVE  NsInv'
<1>1. st.pc = "copy" /\ st.call = "rename" /\ UNCHANGED <<before, touched, left>> /\ st \in Local
  BY Types DEF Copy, NsInv, PhaseInv
<1>2. st.i \in 1 .. Len(st.keys) /\ Len(st.keys) \in Nat
  BY <1>1, RenameIs
<1>3. CASE st.keys[st.i] \notin DOMAIN bucket
  <2>1. Return("error") /\ UNCHANGED bucket /\ "error" \in Result
    BY <1>3 DEF Copy, Result
  <2> QED
    BY <1>1, <2>1, ReturnNs DEF Steady
<1>4. CASE st.keys[st.i] \in DOMAIN bucket
  <2>1. bucket' = CopiedTo(st.p, st.q)
    BY <1>4 DEF Copy
  <2>2. /\ IsBucket(bucket')
        /\ ~Overlap =>
             /\ \A k \in Ours : Stays(bucket', k)
             /\ \A n \in 1 .. st.i : st.keys[n] \in Ours => There(bucket', n)
    BY <1>1, <1>4, <2>1, CopyEffect
  <2>3. CASE st.i < Len(st.keys)
    <3> DEFINE c == "copy"
               i == st.i + 1
    <3>1. i \in 1 .. Len(st.keys) /\ \A n \in 1 .. Len(st.keys) : n < i => n \in 1 .. st.i
      BY <1>2, <2>3
    <3>2. st' = [st EXCEPT !.pc = c, !.i = i]
      <4>1. st' = [st EXCEPT !.i = i]
        BY <1>4, <2>3 DEF Copy
      <4> HIDE DEF i
      <4> QED
        BY <1>1, <4>1 DEF Local
    <3>3. c \in {"copy", "delete"} /\ c # "delete"
      OBVIOUS
    <3> HIDE DEF c, i
    <3> QED
      BY <1>1, <2>2, <3>1, <3>2, <3>3, GoOnNs
  <2>4. CASE ~(st.i < Len(st.keys))
    <3> DEFINE c == "delete"
               i == 1
    <3>1. i \in 1 .. Len(st.keys) /\ \A n \in 1 .. Len(st.keys) : n \in 1 .. st.i
      BY <1>2, <2>4
    <3>2. st' = [st EXCEPT !.pc = c, !.i = i]
      BY <1>4, <2>4 DEF Copy, Work
    <3>3. c \in {"copy", "delete"}
      OBVIOUS
    <3> HIDE DEF c, i
    <3> QED
      BY <1>1, <2>2, <3>1, <3>2, <3>3, GoOnNs
  <2> QED
    BY <2>3, <2>4
<1> QED
  BY <1>3, <1>4

\* A delete of a rename removes a key whose contents were copied.
LEMMA DeleteNs ==
  ASSUME NsInv, Delete
  PROVE  NsInv'
<1>1. /\ st.pc = "delete" /\ UNCHANGED <<before, touched, left>> /\ st \in Local
      /\ bucket' = Without(bucket, st.keys[st.i]) /\ st.call \in {"rename", "remove"}
  BY Types DEF Delete, NsInv, PhaseInv, Without
<1>2. st.i \in 1 .. Len(st.keys) /\ Len(st.keys) \in Nat
  BY <1>1, Types DEF NsInv, PhaseInv
<1>3. CASE ~(st.i < Len(st.keys))
  <2>1. Return("ok") /\ "ok" \in Result
    BY <1>3 DEF Delete, Result
  <2> QED
    BY <1>1, <2>1, DeleteEffect, EffectNs
<1>4. CASE st.i < Len(st.keys)
  <2>1. st.call = "rename"
    <3>1. st.call = "remove" => Len(st.keys) = 1
      BY <1>1 DEF NsInv, KeysInv
    <3>2. Len(st.keys) # 1
      <4> DEFINE n == Len(st.keys)
                 i == st.i
      <4>1. i \in 1 .. n /\ n \in Nat /\ i < n
        BY <1>2, <1>4
      <4> HIDE DEF n, i
      <4>2. n # 1
        BY <4>1
      <4> QED
        BY <4>2 DEF n
    <3> QED
      BY <1>1, <3>1, <3>2
  <2> DEFINE c == "delete"
             i == st.i + 1
  <2>2. i \in 1 .. Len(st.keys) /\ i - 1 = st.i
    BY <1>2, <1>4
  <2>3. st' = [st EXCEPT !.pc = c, !.i = i]
    <3>1. st' = [st EXCEPT !.i = i]
      BY <1>4 DEF Delete
    <3> HIDE DEF i
    <3> QED
      BY <1>1, <3>1 DEF Local
  <2>4. c \in {"copy", "delete"} /\ c = "delete"
    OBVIOUS
  <2>5. ~Overlap =>
          /\ \A k \in Ours : Stays(bucket', k) \/ \E n \in 1 .. st.i : st.keys[n] = k
          /\ \A n \in 1 .. Len(st.keys) : st.keys[n] \in Ours => There(bucket', n)
    BY <1>1, <2>1, MovedEffect
  <2>6. IsBucket(bucket')
    BY <1>1, DeleteEffect
  <2> HIDE DEF c, i
  <2> QED
    BY <1>1, <2>1, <2>2, <2>3, <2>4, <2>5, <2>6, GoOnNs
<1> QED
  BY <1>3, <1>4

\* What others do is on their account.
LEMMA ForeignNs ==
  ASSUME NsInv, NEW k \in Key, Foreign(k)
  PROVE  NsInv'
<1>1. /\ st.pc \notin {"idle", "done"} /\ left > 0 /\ left' = left - 1
      /\ touched' = touched \cup {k} /\ st' = st /\ before' = before
  BY DEF Foreign
<1> DEFINE o == Object(IF Last(k) = 0 THEN "marker" ELSE "file", <<0>>)
<1>2. bucket' = Without(bucket, k) \/ bucket' = With(bucket, k, o)
  BY DEF Foreign, Without, With
<1>3. IsKey(k) /\ Fits(o, k)
  <2>1. IsKey(k)
    BY KeyIs
  <2>2. <<0>> \in Seq(Int)
    OBVIOUS
  <2> QED
    BY <2>1, <2>2 DEF Fits, Objects, Object
<1> HIDE DEF o
<1>4. IsBucket(bucket')
  BY <1>2, <1>3, Types, BucketWith, BucketWithout
<1>5. \A j : j # k => \/ j \in DOMAIN bucket /\ j \in DOMAIN bucket' /\ bucket'[j] = bucket[j]
                      \/ j \notin DOMAIN bucket /\ j \notin DOMAIN bucket'
  BY <1>2 DEF With, Without
<1>6. TypeOK'
  <2>1. left' \in 0 .. MaxForeign
    BY <1>1, Types, NamespaceAssumption
  <2> QED
    BY <1>1, <1>3, <1>4, <2>1, Types DEF TypeOK
<1>7. PhaseInv'
  BY <1>1 DEF NsInv, PhaseInv
<1>8. KeysInv'
  BY <1>1 DEF NsInv, KeysInv
<1>9. PutInv'
  <2>1. PutKey' = PutKey
    BY <1>1 DEF PutKey
  <2> QED
    BY <1>1, <2>1 DEF NsInv, PutInv
<1>10. KeptInv'
  <2>1. Untouched => Untouched'
    BY <1>1, <1>5 DEF Untouched
  <2>2. Replaced \subseteq Replaced'
    <3>1. CASE st.call = "rename"
      <4>1. Replaced = {Moved(st.p, st.q, j) :
                          j \in {x \in DOMAIN before \cup touched : IsPrefix(st.p, x)}}
        BY <3>1 DEF Replaced
      <4>2. Replaced' = {Moved(st.p, st.q, j) :
                           j \in {x \in DOMAIN before \cup touched' : IsPrefix(st.p, x)}}
        BY <1>1, <3>1 DEF Replaced
      <4> QED
        BY <1>1, <4>1, <4>2
    <3>2. CASE st.call # "rename"
      BY <1>1, <3>2 DEF Replaced
    <3> QED
      BY <3>1, <3>2
  <2>3. ASSUME CopyInv PROVE CopyInv'
    <3>1. ASSUME NEW j \in DOMAIN before \ (touched' \cup Replaced')
          PROVE  \/ j \in DOMAIN bucket' /\ bucket'[j] = before[j]
                 \/ st.pc = "delete" /\ \E n \in 1 .. st.i - 1 : st.keys[n] = j
      <4>1. j \in DOMAIN before \ (touched \cup Replaced) /\ j # k
        BY <1>1, <2>2, <3>1
      <4> QED
        BY <1>5, <2>3, <4>1 DEF CopyInv
    <3>2. ASSUME NEW n \in 1 .. Len(st.keys), st.pc = "delete" \/ n < st.i,
                 st.keys[n] \in DOMAIN before \ (touched' \cup Replaced')
          PROVE  Arrived(n)'
      <4>1. st.keys[n] \in DOMAIN before \ (touched \cup Replaced)
        BY <1>1, <2>2, <3>2
      <4>2. Arrived(n)
        BY <2>3, <3>2, <4>1 DEF CopyInv
      <4> DEFINE m == Moved(st.p, st.q, st.keys[n])
      <4>3. m \in touched \/ (m \in DOMAIN bucket /\ bucket[m] = before[st.keys[n]])
        BY <4>2 DEF Arrived
      <4>4. m \in touched' \/ (m \in DOMAIN bucket' /\ bucket'[m] = before[st.keys[n]])
        <5> HIDE DEF m
        <5> QED
          BY <1>1, <1>5, <4>3
      <4> QED
        BY <1>1, <4>4 DEF Arrived
    <3> QED
      BY <1>1, <3>1, <3>2 DEF CopyInv
  <2> QED
    BY <1>1, <2>1, <2>3 DEF NsInv, KeptInv
<1> QED
  BY <1>6, <1>7, <1>8, <1>9, <1>10 DEF NsInv

\* The entries of a listing: keys of the directory, and prefixes of keys that
\* are further down.
LEMMA EntriesIs ==
  ASSUME NEW b, IsBucket(b), NEW p \in Seq(Name), NEW e \in Entries(b, p)
  PROVE  /\ e \in Seq(Nat) /\ Len(e) \in Nat /\ Len(p) \in Nat /\ \A i \in 1 .. Len(p) : e[i] = p[i]
         /\ \/ Len(e) = Len(p) + 1 /\ e \in Under(b, p)
            \/ /\ Len(e) = Len(p) + 2 /\ e[Len(p) + 2] = 0 /\ e[Len(p) + 1] # 0
               /\ \E k \in Under(b, p) : Len(k) > Len(p) + 1 /\ k[Len(p) + 1] = e[Len(p) + 1]
<1>0. Len(p) \in Nat
  OBVIOUS
<1>1. ASSUME NEW k \in Under(b, p), Len(k) = Len(p) + 1, e = SubSeq(k, 1, Len(p) + 1)
      PROVE  e = k
  <2>1. k \in Seq(Nat)
    BY UnderIs
  <2> QED
    BY <1>1, <2>1, SubSeqFull
<1>2. ASSUME NEW k \in Under(b, p), Len(k) > Len(p) + 1, e = marker(SubSeq(k, 1, Len(p) + 1))
      PROVE  /\ e \in Seq(Nat) /\ \A i \in 1 .. Len(p) : e[i] = p[i]
             /\ Len(e) = Len(p) + 2 /\ e[Len(p) + 2] = 0 /\ e[Len(p) + 1] # 0
             /\ k[Len(p) + 1] = e[Len(p) + 1]
  <2> DEFINE n == Len(p) + 1
             u == SubSeq(k, 1, n)
  <2>1. /\ k \in Seq(Nat) /\ IsKey(k) /\ \A i \in 1 .. Len(p) : k[i] = p[i]
    BY UnderIs
  <2>2. n \in 0 .. Len(k) /\ n \in 1 .. Len(k) - 1
    BY <1>0, <1>2, <2>1
  <2> HIDE DEF n
  <2>3. u \in Seq(Nat) /\ Len(u) = n /\ \A i \in 1 .. n : u[i] = k[i]
    BY <2>1, <2>2, HeadIs
  <2> HIDE DEF u
  <2>4. e = Append(u, 0)
    BY <1>2 DEF marker, u, n
  <2>5. /\ e \in Seq(Nat) /\ Len(e) = n + 1 /\ e[n + 1] = 0 /\ \A i \in 1 .. n : e[i] = u[i]
    BY <2>3, <2>4, AppendProperties
  <2>6. k[n] # 0
    BY <2>1, <2>2 DEF IsKey
  <2>7. n \in 1 .. n /\ (\A i \in 1 .. Len(p) : i \in 1 .. n) /\ n + 1 = Len(p) + 2 /\ n = Len(p) + 1
    BY <1>0 DEF n
  <2> QED
    BY <2>1, <2>3, <2>5, <2>6, <2>7
<1>3. CASE \E k \in Under(b, p) : Len(k) = Len(p) + 1 /\ e = SubSeq(k, 1, Len(p) + 1)
  <2>1. PICK k \in Under(b, p) : Len(k) = Len(p) + 1 /\ e = SubSeq(k, 1, Len(p) + 1)
    BY <1>3
  <2>2. e = k
    BY <1>1, <2>1
  <2>3. e \in Under(b, p) /\ Len(e) = Len(p) + 1
    BY <2>1, <2>2
  <2> QED
    BY <1>0, <2>3, UnderIs
<1>4. CASE \E k \in Under(b, p) : Len(k) > Len(p) + 1 /\ e = marker(SubSeq(k, 1, Len(p) + 1))
  <2>1. PICK k \in Under(b, p) : Len(k) > Len(p) + 1 /\ e = marker(SubSeq(k, 1, Len(p) + 1))
    BY <1>4
  <2>2. e \in Seq(Nat) /\ \A i \in 1 .. Len(p) : e[i] = p[i]
    BY <1>2, <2>1
  <2>3. /\ Len(e) = Len(p) + 2 /\ e[Len(p) + 2] = 0 /\ e[Len(p) + 1] # 0
        /\ k[Len(p) + 1] = e[Len(p) + 1]
    BY <1>2, <2>1
  <2> QED
    BY <1>0, <2>1, <2>2, <2>3
<1> QED
  BY <1>3, <1>4 DEF Entries

\* Every key of a directory is in its listing, itself or as a prefix.
LEMMA EntryOf ==
  ASSUME NEW b, IsBucket(b), NEW p \in Seq(Name), NEW k \in Under(b, p)
  PROVE  /\ Len(k) = Len(p) + 1 => k \in Entries(b, p)
         /\ Len(k) > Len(p) + 1 =>
              \E e \in Entries(b, p) : Len(e) = Len(p) + 2 /\ e[Len(p) + 1] = k[Len(p) + 1]
<1>1. k \in Seq(Nat) /\ Len(k) \in Nat /\ Len(p) \in Nat
  BY UnderIs
<1>2. CASE Len(k) = Len(p) + 1
  <2>1. SubSeq(k, 1, Len(p) + 1) = k
    BY <1>1, <1>2, SubSeqFull
  <2>2. SubSeq(k, 1, Len(p) + 1) \in Entries(b, p)
    BY <1>2 DEF Entries
  <2>3. ~(Len(k) > Len(p) + 1)
    BY <1>1, <1>2
  <2> QED
    BY <2>1, <2>2, <2>3
<1>3. CASE Len(k) > Len(p) + 1
  <2> DEFINE n == Len(p) + 1
             u == SubSeq(k, 1, n)
             e == marker(u)
  <2>1. e \in Entries(b, p)
    BY <1>3 DEF Entries
  <2>2. n \in 0 .. Len(k) /\ n \in 1 .. n
    BY <1>1, <1>3
  <2> HIDE DEF n
  <2>3. u \in Seq(Nat) /\ Len(u) = n /\ \A i \in 1 .. n : u[i] = k[i]
    BY <1>1, <2>2, HeadIs
  <2> HIDE DEF u
  <2>4. Len(e) = n + 1 /\ \A i \in 1 .. n : e[i] = u[i]
    BY <2>3, AppendProperties DEF marker
  <2> HIDE DEF e
  <2>5. n + 1 = Len(p) + 2
    BY <1>1 DEF n
  <2>6. e[n] = k[n]
    BY <2>2, <2>3, <2>4
  <2>7. Len(e) = Len(p) + 2 /\ e[Len(p) + 1] = k[Len(p) + 1]
    BY <2>4, <2>5, <2>6 DEF n
  <2>8. ~(Len(k) = Len(p) + 1)
    BY <1>1, <1>3
  <2> QED
    BY <2>1, <2>7, <2>8
<1> QED
  BY <1>2, <1>3

\* A page of a listing moves the token on.
LEMMA ReadDirNs ==
  ASSUME NsInv, ReadDir
  PROVE  NsInv'
<1> DEFINE S == Entries(bucket, st.p)
           es == After(S)
           d == Len(st.p) + 1
<1>1. /\ st.pc = "readdir" /\ Steady /\ st.call = "readdir" /\ st \in Local /\ Untouched
      /\ IsBucket(bucket) /\ st.p \in Seq(Name) /\ st.tok \in Seq(Nat)
      /\ st.names \in SUBSET (Nat \X BOOLEAN) /\ st.res \in Result /\ st.found \in BOOLEAN
  BY Types DEF ReadDir, NsInv, PhaseInv, KeptInv
<1>2. PICK l \in Ends(es) :
        LET page  == Upto(es, l)
            found == st.found \/ page # {}
        IN  st' = [st EXCEPT
              !.names = Enter(@, page \ {marker(st.p)}, Len(st.p) + 1),
              !.found = found,
              !.tok   = l,
              !.pc    = IF LastPage(es, page) THEN "done" ELSE @,
              !.res   = IF ~LastPage(es, page) THEN @
                        ELSE IF found \/ st.p = Root THEN "list" ELSE "notexist"]
  BY DEF ReadDir
<1> DEFINE page == Upto(es, l)
           found == st.found \/ page # {}
           names == Enter(st.names, page \ {marker(st.p)}, d)
           c == IF LastPage(es, page) THEN "done" ELSE st.pc
           r == IF ~LastPage(es, page) THEN st.res
                ELSE IF found \/ st.p = Root THEN "list" ELSE "notexist"
<1>3. st' = [st EXCEPT !.names = names, !.found = found, !.tok = l, !.pc = c, !.res = r]
  BY <1>2
<1>4. c \in {"done", "readdir"} /\ c \in PC /\ r \in Result /\ found \in BOOLEAN
  BY <1>1 DEF PC, Result
<1>5. \A e \in S : e \in Seq(Nat) /\ d \in Nat /\ d >= 1 /\ Len(e) >= d
  <2> SUFFICES ASSUME NEW e \in S PROVE e \in Seq(Nat) /\ d \in Nat /\ d >= 1 /\ Len(e) >= d
    OBVIOUS
  <2>1. /\ e \in Seq(Nat) /\ Len(st.p) \in Nat
        /\ Len(e) = Len(st.p) + 1 \/ Len(e) = Len(st.p) + 2
    BY <1>1, EntriesIs
  <2> QED
    BY <2>1
<1>6. l \in Seq(Nat) /\ page \subseteq S
  <2>1. es \subseteq S
    BY DEF After
  <2>2. S \subseteq Seq(Nat)
    BY <1>5
  <2> HIDE DEF es, S
  <2>3. l \in Seq(Nat)
    BY <1>1, <2>1, <2>2 DEF Ends
  <2>4. page \subseteq S
    BY <2>1 DEF Upto
  <2> QED
    BY <2>3, <2>4
<1>7. names \in SUBSET (Nat \X BOOLEAN)
  <2>1. \A e \in S : e[d] \in Nat
    <3> SUFFICES ASSUME NEW e \in S PROVE e[d] \in Nat
      OBVIOUS
    <3>1. e \in Seq(Nat) /\ d \in 1 .. Len(e)
      BY <1>5
    <3> HIDE DEF d
    <3> QED
      BY <3>1
  <2> DEFINE g == page \ {marker(st.p)}
  <2>2. \A e \in g : e[d] \in Nat
    <3> HIDE DEF page, S, d
    <3> QED
      BY <1>6, <2>1
  <2> HIDE DEF page, S, d, g
  <2> DEFINE files == {<<e[d], FALSE>> : e \in {x \in g : Len(x) = d}}
             kept  == files \cup {f \in st.names : f[1] \notin Named(files)}
  <2>3. files \subseteq Nat \X BOOLEAN
    <3>1. \A e \in g : <<e[d], FALSE>> \in Nat \X BOOLEAN
      BY <2>2
    <3> QED
      BY <3>1
  <2>4. kept \subseteq Nat \X BOOLEAN
    BY <1>1, <2>3
  <2>5. {<<e[d], TRUE>> : e \in {x \in g : Len(x) > d /\ x[d] \notin Named(kept)}}
          \subseteq Nat \X BOOLEAN
    <3>1. \A e \in g : <<e[d], TRUE>> \in Nat \X BOOLEAN
      BY <2>2
    <3> HIDE DEF kept
    <3> QED
      BY <3>1
  <2>6. names = kept \cup {<<e[d], TRUE>> : e \in {x \in g : Len(x) > d /\ x[d] \notin Named(kept)}}
    BY DEF Enter, g
  <2> HIDE DEF kept, names
  <2> QED
    BY <2>4, <2>5, <2>6
<1> HIDE DEF names, found, c, r, page
<1>8. /\ st' \in Local /\ st'.pc = c /\ st'.call = "readdir" /\ st'.q = st.q
      /\ st'.p = st.p /\ st'.keys = st.keys /\ st'.i = st.i /\ st'.hops = st.hops
  <2>1. st' \in Local
    BY <1>1, <1>3, <1>4, <1>6, <1>7 DEF Local
  <2>2. /\ st'.pc = c /\ st'.call = "readdir" /\ st'.q = st.q
        /\ st'.p = st.p /\ st'.keys = st.keys /\ st'.i = st.i /\ st'.hops = st.hops
    BY <1>1, <1>3 DEF Local
  <2> QED
    BY <2>1, <2>2
<1>9. TypeOK'
  BY <1>1, <1>8, Types DEF TypeOK, Steady
<1>10. PhaseInv'
  BY <1>4, <1>8 DEF PhaseInv
<1>11. KeysInv' /\ PutInv'
  BY <1>4, <1>8 DEF KeysInv, PutInv
<1>12. KeptInv'
  <2>1. Untouched' /\ ContentsKept'
    BY <1>1 DEF Untouched, ContentsKept, Steady
  <2> QED
    BY <1>4, <1>8, <2>1 DEF KeptInv
<1> QED
  BY <1>9, <1>10, <1>11, <1>12 DEF NsInv

\* Every step keeps the invariant.
LEMMA NextNs ==
  ASSUME NsInv, [Next]_vars
  PROVE  NsInv'
<1> DEFINE P == Path \cup {Root}
<1>1. ASSUME NEW c \in Following \cup {"lstat", "readlink", "remove"}, NEW p \in P, Call(c, p, p)
      PROVE  NsInv'
  <2>1. c \in Following \cup Literal
    BY DEF Literal
  <2>2. p \in Seq(Name)
    <3>1. Path \subseteq Seq(Name) /\ Root \in Seq(Name)
      BY NamespaceAssumption DEF Root
    <3> QED
      BY <3>1
  <2>3. p \in Seq(Name \cup {Up})
    BY <2>2, SeqMonotonic
  <2> QED
    BY <1>1, <2>1, <2>2, <2>3, CallNs
<1>2. ASSUME NEW p \in P, NEW q \in P, Call("rename", p, q)
      PROVE  NsInv'
  <2>1. "rename" \in Following \cup Literal
    BY DEF Literal
  <2>2. q \in Seq(Name)
    <3>1. Path \subseteq Seq(Name) /\ Root \in Seq(Name)
      BY NamespaceAssumption DEF Root
    <3> QED
      BY <3>1
  <2>3. q \in Seq(Name \cup {Up})
    BY <2>2, SeqMonotonic
  <2> QED
    BY <1>2, <2>1, <2>2, <2>3, CallNs
<1>3. ASSUME NEW p \in P, NEW l \in Target, Call("symlink", p, l.val)
      PROVE  NsInv'
  <2> DEFINE c == "symlink"
             q == l.val
  <2>1. c \in Following \cup Literal /\ c # "rename" /\ Call(c, p, q)
    BY <1>3 DEF Literal
  <2>2. q \in Seq(Name \cup {Up})
    BY NamespaceAssumption
  <2> HIDE DEF c, q
  <2> QED
    BY <2>1, <2>2, CallNs
<1>4. ASSUME Step PROVE NsInv'
  BY <1>4, ResolveLinkNs, ResolveFileNs, ResolveNoneNs, HeadLiteralNs, DirToldNs, DirNs,
     RemoveDirNs, ListAllKeysNs, CopyNs, DeleteNs, PutNs, ReadDirNs DEF Step
<1>5. ASSUME NEW k \in Key, Foreign(k) PROVE NsInv'
  BY <1>5, ForeignNs
<1>6. CASE UNCHANGED vars
  BY <1>6 DEF vars, NsInv, TypeOK, PhaseInv, KeysInv, PutInv, KeptInv, Untouched, CopyInv,
     ContentsKept, Arrived, Replaced, PutKey
<1> QED
  BY <1>1, <1>2, <1>3, <1>4, <1>5, <1>6, FailNs DEF Next

\* The invariant holds in every state.
LEMMA NsInvariant == Spec => []NsInv
<1>1. Init => NsInv
  BY InitNs
<1>2. NsInv /\ [Next]_vars => NsInv'
  BY NextNs
<1> QED
  BY <1>1, <1>2, PTL DEF Spec

\* Every bucket, path, key and result is well formed: in particular links are
\* followed to paths, and a rename moves keys to keys and markers to markers.
THEOREM NamespaceTypeCorrect == Spec => []TypeOK
<1>1. NsInv => TypeOK
  BY DEF NsInv
<1> QED
  BY <1>1, NsInvariant, PTL

\* Whatever fails and whatever others do to other keys, a call loses no
\* contents, unless a path is renamed to one of its ancestors.
THEOREM NothingLost ==
  ASSUME ~Overlap
  PROVE  Spec => []ContentsKept
<1>1. NsInv => ContentsKept
  BY KeptIs
<1> QED
  BY <1>1, NsInvariant, PTL

------------------------------------------------------------------------------
(* ReadDir.                                                                *)

\* The children called n, and that something is further down under n.
File(n) == <<n, FALSE>>
Sub(n)  == <<n, TRUE>>
Below(b, p, n) == \E k \in Under(b, p) : Len(k) > Len(p) + 1 /\ k[Len(p) + 1] = n

\* Children are told apart by their names and by what they are.
LEMMA PairIs ==
  /\ \A m, n : File(m) # Sub(n) /\ (File(m) = File(n) => m = n) /\ (Sub(m) = Sub(n) => m = n)
  /\ \A n : File(n)[1] = n /\ Sub(n)[1] = n
  /\ \A c \in Nat \X BOOLEAN : c[1] \in Nat /\ (c = File(c[1]) \/ c = Sub(c[1]))
  /\ \A n \in Nat : File(n) \in Nat \X BOOLEAN /\ Sub(n) \in Nat \X BOOLEAN
<1>1. \A m, n : File(m) # Sub(n) /\ (File(m) = File(n) => m = n) /\ (Sub(m) = Sub(n) => m = n)
  BY DEF File, Sub
<1>2. \A n : File(n)[1] = n /\ Sub(n)[1] = n
  BY DEF File, Sub
<1>3. ASSUME NEW c \in Nat \X BOOLEAN PROVE c[1] \in Nat /\ (c = File(c[1]) \/ c = Sub(c[1]))
  <2>1. PICK n \in Nat, f \in BOOLEAN : c = <<n, f>>
    OBVIOUS
  <2>2. c[1] = n
    BY <2>1
  <2>3. f = TRUE \/ f = FALSE
    OBVIOUS
  <2>4. CASE f = TRUE
    BY <2>1, <2>2, <2>4 DEF Sub
  <2>5. CASE f = FALSE
    BY <2>1, <2>2, <2>5 DEF File
  <2> QED
    BY <2>2, <2>3, <2>4, <2>5
<1>4. \A n \in Nat : File(n) \in Nat \X BOOLEAN /\ Sub(n) \in Nat \X BOOLEAN
  BY DEF File, Sub
<1> QED
  BY <1>1, <1>2, <1>3, <1>4

\* A name appended to a path, and the prefix of what is in it.
LEMMA AppendIs ==
  ASSUME NEW p \in Seq(Name), NEW n \in Nat
  PROVE  LET a == Append(p, n)
             m == marker(a)
         IN  /\ a \in Seq(Nat) /\ Len(p) \in Nat /\ Len(a) = Len(p) + 1 /\ a[Len(p) + 1] = n
             /\ \A i \in 1 .. Len(p) : a[i] = p[i]
             /\ m \in Seq(Nat) /\ Len(m) = Len(p) + 2 /\ m[Len(p) + 1] = n /\ m[Len(p) + 2] = 0
             /\ \A i \in 1 .. Len(p) : m[i] = p[i]
<1> DEFINE a == Append(p, n)
           m == marker(a)
           l == Len(p) + 1
<1>1. p \in Seq(Nat) /\ Len(p) \in Nat
  BY PathKey
<1>2. a \in Seq(Nat) /\ Len(a) = l /\ a[l] = n /\ \A i \in 1 .. Len(p) : a[i] = p[i]
  BY <1>1, AppendProperties
<1> HIDE DEF a
<1>3. m \in Seq(Nat) /\ Len(m) = l + 1 /\ m[l + 1] = 0 /\ \A i \in 1 .. l : m[i] = a[i]
  <2> HIDE DEF l
  <2> QED
    BY <1>2, AppendProperties DEF marker
<1> HIDE DEF m
<1>4. l \in 1 .. l /\ (\A i \in 1 .. Len(p) : i \in 1 .. l) /\ l + 1 = Len(p) + 2
  BY <1>1
<1> QED
  BY <1>1, <1>2, <1>3, <1>4 DEF a, m

\* A key that goes on with n after p, and no further.
LEMMA AppendOnly ==
  ASSUME NEW p \in Seq(Name), NEW k \in Seq(Nat), \A i \in 1 .. Len(p) : k[i] = p[i]
  PROVE  /\ Len(k) = Len(p) + 1 => k = Append(p, k[Len(p) + 1])
         /\ Len(k) = Len(p) + 2 /\ k[Len(p) + 2] = 0 => k = marker(Append(p, k[Len(p) + 1]))
<1> DEFINE l == Len(p) + 1
           n == k[l]
           a == Append(p, n)
           m == marker(a)
<1>0. Len(p) \in Nat /\ Len(k) \in Nat
  OBVIOUS
<1>1. ASSUME Len(k) = Len(p) + 1 PROVE k = a
  <2>1. n \in Nat
    BY <1>0, <1>1
  <2> HIDE DEF n
  <2>2. a \in Seq(Nat) /\ Len(a) = l /\ a[l] = n /\ \A i \in 1 .. Len(p) : a[i] = p[i]
    BY <2>1, AppendIs
  <2> HIDE DEF a
  <2>3. \A i \in 1 .. l : i \in 1 .. Len(p) \/ i = l
    BY <1>0
  <2>4. \A i \in 1 .. l : a[i] = k[i]
    BY <2>2, <2>3 DEF n
  <2> QED
    BY <1>1, <2>2, <2>4, SeqEqual
<1>2. ASSUME Len(k) = Len(p) + 2, k[Len(p) + 2] = 0 PROVE k = m
  <2>1. n \in Nat
    BY <1>0, <1>2
  <2> HIDE DEF n
  <2>2. /\ m \in Seq(Nat) /\ Len(m) = Len(p) + 2 /\ m[l] = n /\ m[Len(p) + 2] = 0
        /\ \A i \in 1 .. Len(p) : m[i] = p[i]
    BY <2>1, AppendIs
  <2> HIDE DEF m
  <2>3. \A i \in 1 .. Len(p) + 2 : i \in 1 .. Len(p) \/ i = l \/ i = Len(p) + 2
    BY <1>0
  <2>4. \A i \in 1 .. Len(p) + 2 : m[i] = k[i]
    BY <1>2, <2>2, <2>3 DEF n
  <2> QED
    BY <1>2, <2>2, <2>4, SeqEqual
<1> QED
  BY <1>1, <1>2

\* A key in a directory that goes on with n is further down or n itself.
LEMMA InDirectory ==
  ASSUME NEW b, IsBucket(b), NEW p \in Seq(Name), NEW n \in Nat
  PROVE  /\ Append(p, n) \in DOMAIN b <=> Append(p, n) \in Under(b, p)
         /\ Below(b, p, n) => n # 0
<1>1. IsStrictPrefix(p, Append(p, n))
  <2> DEFINE a == Append(p, n)
  <2>1. a \in Seq(Nat) /\ Len(p) \in Nat /\ Len(a) = Len(p) + 1 /\ \A i \in 1 .. Len(p) : a[i] = p[i]
    BY AppendIs
  <2> HIDE DEF a
  <2>2. a \in Seq(Int)
    BY <2>1, SeqMonotonic
  <2>3. p \in Seq(Int)
    BY PathKey
  <2>4. Len(p) < Len(a)
    BY <2>1
  <2>5. IsStrictPrefix(p, a)
    BY <2>1, <2>2, <2>3, <2>4, PrefixIs
  <2> QED
    BY <2>5 DEF a
<1>2. ASSUME NEW k \in Under(b, p), Len(k) > Len(p) + 1 PROVE k[Len(p) + 1] # 0
  <2>1. k \in Seq(Nat) /\ IsKey(k) /\ Len(p) \in Nat /\ Len(k) \in Nat
    BY UnderIs
  <2>2. Len(p) + 1 \in 1 .. Len(k) - 1
    BY <1>2, <2>1
  <2> QED
    BY <2>1, <2>2 DEF IsKey
<1> QED
  BY <1>1, <1>2 DEF Under, Below

\* The entries of a listing, by name.
LEMMA EntriesAre ==
  ASSUME NEW b, IsBucket(b), NEW p \in Seq(Name)
  PROVE  /\ \A n \in Nat : Append(p, n) \in Entries(b, p) <=> Append(p, n) \in DOMAIN b
         /\ \A n \in Nat : marker(Append(p, n)) \in Entries(b, p) <=> Below(b, p, n)
         /\ \A e \in Entries(b, p) : \E n \in Nat : e = Append(p, n) \/ e = marker(Append(p, n))
<1> DEFINE l == Len(p) + 1
<1>0. Len(p) \in Nat
  OBVIOUS
<1>1. ASSUME NEW n \in Nat PROVE Append(p, n) \in Entries(b, p) <=> Append(p, n) \in DOMAIN b
  <2> DEFINE a == Append(p, n)
  <2>1. Len(a) = Len(p) + 1
    BY AppendIs
  <2>2. a \in DOMAIN b <=> a \in Under(b, p)
    BY InDirectory
  <2> HIDE DEF a
  <2>3. a \in Under(b, p) => a \in Entries(b, p)
    BY <2>1, EntryOf
  <2>4. a \in Entries(b, p) => a \in Under(b, p)
    <3> SUFFICES ASSUME a \in Entries(b, p) PROVE a \in Under(b, p)
      OBVIOUS
    <3>1. a \in Under(b, p) \/ Len(a) = Len(p) + 2
      BY EntriesIs
    <3> QED
      BY <1>0, <2>1, <3>1
  <2> QED
    BY <2>2, <2>3, <2>4 DEF a
<1>2. ASSUME NEW n \in Nat PROVE marker(Append(p, n)) \in Entries(b, p) <=> Below(b, p, n)
  <2> DEFINE m == marker(Append(p, n))
  <2>1. Len(m) = Len(p) + 2 /\ m[l] = n
    BY AppendIs
  <2> HIDE DEF m
  <2>2. ASSUME m \in Entries(b, p) PROVE Below(b, p, n)
    <3>1. \/ Len(m) = Len(p) + 1
          \/ \E k \in Under(b, p) : Len(k) > Len(p) + 1 /\ k[Len(p) + 1] = m[Len(p) + 1]
      BY <2>2, EntriesIs
    <3>2. ~(Len(m) = Len(p) + 1)
      BY <1>0, <2>1
    <3> QED
      BY <2>1, <3>1, <3>2 DEF Below
  <2>3. ASSUME Below(b, p, n) PROVE m \in Entries(b, p)
    <3>1. PICK k \in Under(b, p) : Len(k) > Len(p) + 1 /\ k[l] = n
      BY <2>3 DEF Below
    <3>2. PICK e \in Entries(b, p) : Len(e) = Len(p) + 2 /\ e[l] = k[l]
      BY <3>1, EntryOf
    <3>3. /\ e \in Seq(Nat) /\ \A i \in 1 .. Len(p) : e[i] = p[i]
          /\ Len(e) = Len(p) + 1 \/ e[Len(p) + 2] = 0
      BY EntriesIs
    <3>4. ~(Len(e) = Len(p) + 1)
      BY <1>0, <3>2
    <3>5. e = marker(Append(p, e[l]))
      BY <3>2, <3>3, <3>4, AppendOnly
    <3> QED
      BY <3>1, <3>2, <3>5 DEF m
  <2> QED
    BY <2>2, <2>3 DEF m
<1>3. ASSUME NEW e \in Entries(b, p)
      PROVE  \E n \in Nat : e = Append(p, n) \/ e = marker(Append(p, n))
  <2>1. /\ e \in Seq(Nat) /\ \A i \in 1 .. Len(p) : e[i] = p[i]
        /\ Len(e) = Len(p) + 1 \/ (Len(e) = Len(p) + 2 /\ e[Len(p) + 2] = 0)
    BY EntriesIs
  <2>2. e = Append(p, e[l]) \/ e = marker(Append(p, e[l]))
    BY <2>1, AppendOnly
  <2>3. l \in 1 .. Len(e)
    BY <1>0, <2>1
  <2>4. e[l] \in Nat
    <3> HIDE DEF l
    <3> QED
      BY <2>1, <2>3
  <2> QED
    BY <2>2, <2>4
<1> QED
  BY <1>1, <1>2, <1>3

\* The children of a directory, by name.
LEMMA ChildrenAre ==
  ASSUME NEW b, IsBucket(b), NEW p \in Seq(Name)
  PROVE  /\ \A n \in Nat : File(n) \in Children(b, p) <=> n # 0 /\ Append(p, n) \in DOMAIN b
         /\ \A n \in Nat : Sub(n) \in Children(b, p) <=> Append(p, n) \notin DOMAIN b /\ Below(b, p, n)
         /\ Children(b, p) \subseteq Nat \X BOOLEAN
<1> DEFINE l == Len(p) + 1
           F == {j \in Under(b, p) : Len(j) = l /\ Last(j) # 0}
           D == {j \in Under(b, p) : Len(j) > l /\ SubSeq(j, 1, l) \notin DOMAIN b}
<1>0. Len(p) \in Nat
  OBVIOUS
<1>1. Children(b, p) = {File(Last(k)) : k \in F} \cup {Sub(k[l]) : k \in D}
  BY DEF Children, File, Sub
<1>2. ASSUME NEW k \in F
      PROVE  Last(k) \in Nat /\ Last(k) # 0 /\ k = Append(p, Last(k)) /\ k \in DOMAIN b
  <2>1. k \in Seq(Nat) /\ (\A i \in 1 .. Len(p) : k[i] = p[i]) /\ k \in DOMAIN b
    BY UnderIs
  <2>2. Len(k) = Len(p) + 1 /\ Last(k) = k[Len(p) + 1] /\ Last(k) # 0
    BY DEF Last
  <2>3. k = Append(p, k[Len(p) + 1])
    BY <2>1, <2>2, AppendOnly
  <2>4. k[Len(p) + 1] \in Nat
    BY <1>0, <2>1, <2>2
  <2> QED
    BY <2>1, <2>2, <2>3, <2>4
<1>3. ASSUME NEW k \in Under(b, p), Len(k) > l
      PROVE  k[l] \in Nat /\ SubSeq(k, 1, l) = Append(p, k[l])
  <2>1. k \in Seq(Nat) /\ (\A i \in 1 .. Len(p) : k[i] = p[i]) /\ Len(k) \in Nat
    BY UnderIs
  <2>2. l \in 0 .. Len(k) /\ l \in 1 .. l /\ l \in 1 .. Len(k)
    BY <1>0, <1>3, <2>1
  <2> DEFINE u == SubSeq(k, 1, l)
  <2>3. u \in Seq(Nat) /\ Len(u) = l /\ \A i \in 1 .. l : u[i] = k[i]
    <3> HIDE DEF l
    <3> QED
      BY <2>1, <2>2, HeadIs
  <2> HIDE DEF u
  <2>4. \A i \in 1 .. Len(p) : u[i] = p[i]
    BY <1>0, <2>1, <2>3
  <2>5. u = Append(p, u[l])
    BY <2>3, <2>4, AppendOnly
  <2>6. u[l] = k[l] /\ k[l] \in Nat
    <3> HIDE DEF l
    <3> QED
      BY <2>1, <2>2, <2>3
  <2> QED
    BY <2>5, <2>6 DEF u
<1>4. ASSUME NEW n \in Nat
      PROVE  File(n) \in Children(b, p) <=> n # 0 /\ Append(p, n) \in DOMAIN b
  <2>1. ASSUME File(n) \in Children(b, p) PROVE n # 0 /\ Append(p, n) \in DOMAIN b
    <3>1. PICK k \in F : n = Last(k)
      <4> HIDE DEF F, D, l
      <4> QED
        BY <1>1, <2>1, PairIs
    <3> HIDE DEF F
    <3> QED
      BY <1>2, <3>1
  <2>2. ASSUME n # 0, Append(p, n) \in DOMAIN b PROVE File(n) \in Children(b, p)
    <3> DEFINE a == Append(p, n)
    <3>1. a \in Under(b, p)
      BY <2>2, InDirectory
    <3>2. Len(a) = Len(p) + 1 /\ a[Len(p) + 1] = n
      BY AppendIs
    <3> HIDE DEF a
    <3>3. a \in F /\ Last(a) = n
      BY <2>2, <3>1, <3>2 DEF Last
    <3> QED
      BY <1>1, <3>3
  <2> QED
    BY <2>1, <2>2
<1>5. ASSUME NEW n \in Nat
      PROVE  Sub(n) \in Children(b, p) <=> Append(p, n) \notin DOMAIN b /\ Below(b, p, n)
  <2>1. ASSUME Sub(n) \in Children(b, p) PROVE Append(p, n) \notin DOMAIN b /\ Below(b, p, n)
    <3>1. PICK k \in D : n = k[l]
      <4> HIDE DEF F, D, l
      <4> QED
        BY <1>1, <2>1, PairIs
    <3>2. k \in Under(b, p) /\ Len(k) > l /\ SubSeq(k, 1, l) \notin DOMAIN b
      OBVIOUS
    <3>3. SubSeq(k, 1, l) = Append(p, n)
      BY <1>3, <3>1, <3>2
    <3> QED
      BY <3>1, <3>2, <3>3 DEF Below
  <2>2. ASSUME Append(p, n) \notin DOMAIN b, Below(b, p, n) PROVE Sub(n) \in Children(b, p)
    <3>1. PICK k \in Under(b, p) : Len(k) > l /\ k[l] = n
      BY <2>2 DEF Below
    <3>2. SubSeq(k, 1, l) \notin DOMAIN b
      BY <1>3, <2>2, <3>1
    <3>3. k \in D
      BY <3>1, <3>2
    <3> HIDE DEF D, F, l
    <3> QED
      BY <1>1, <3>1, <3>3
  <2> QED
    BY <2>1, <2>2
<1>6. Children(b, p) \subseteq Nat \X BOOLEAN
  <2>1. \A k \in F : Last(k) \in Nat
    BY <1>2
  <2>2. \A k \in D : k[l] \in Nat
    BY <1>3
  <2> HIDE DEF F, D, l
  <2> QED
    BY <1>1, <2>1, <2>2, PairIs
<1> QED
  BY <1>4, <1>5, <1>6

\* A child and the prefix of what is in it are neighbours in the order.
LEMMA NoneBetween ==
  ASSUME NEW a \in Seq(Nat)
  PROVE  /\ marker(a) \in Seq(Nat) /\ Before(a, marker(a))
         /\ \A t \in Seq(Nat) : ~(Before(a, t) /\ Before(t, marker(a)))
<1> DEFINE m == marker(a)
<1>1. /\ m \in Seq(Nat) /\ Len(m) = Len(a) + 1 /\ m[Len(a) + 1] = 0 /\ Len(a) \in Nat
      /\ \A i \in 1 .. Len(a) : m[i] = a[i]
  BY AppendProperties DEF marker
<1> HIDE DEF m
<1>2. Before(a, m)
  <2>1. Shorter(a, m)
    BY <1>1 DEF Shorter
  <2> QED
    BY <1>1, <2>1, BeforeCases
<1>3. ASSUME NEW t \in Seq(Nat), Before(a, t), Before(t, m) PROVE FALSE
  <2>0. Len(t) \in Nat /\ (\A i \in 1 .. Len(t) : t[i] \in Nat) /\ \A i \in 1 .. Len(a) : a[i] \in Nat
    OBVIOUS
  <2>1. ASSUME Shorter(a, t), Shorter(t, m) PROVE FALSE
    BY <1>1, <2>0, <2>1 DEF Shorter
  <2>2. ASSUME Shorter(a, t), NEW i, Differ(t, m, i) PROVE FALSE
    <3>1. i \in 1 .. Len(t) /\ i <= Len(a) + 1 /\ t[i] < m[i] /\ t[i] \in Nat
      BY <1>1, <2>0, <2>2 DEF Differ
    <3>2. CASE i <= Len(a)
      <4>1. i \in 1 .. Len(a)
        BY <1>1, <3>1, <3>2
      <4>2. a[i] = t[i]
        BY <2>2, <4>1 DEF Shorter
      <4>3. m[i] = a[i]
        BY <1>1, <4>1
      <4> QED
        BY <3>1, <4>2, <4>3
    <3>3. CASE i = Len(a) + 1
      BY <1>1, <3>1, <3>3
    <3> QED
      BY <1>1, <3>1, <3>2, <3>3
  <2>3. ASSUME NEW i, Differ(a, t, i), Shorter(t, m) PROVE FALSE
    <3>1. i \in 1 .. Len(a) /\ i \in 1 .. Len(t) /\ a[i] < t[i]
      BY <1>1, <2>0, <2>3 DEF Differ
    <3>2. t[i] = m[i] /\ m[i] = a[i] /\ a[i] \in Nat
      BY <1>1, <2>0, <2>3, <3>1 DEF Shorter
    <3> QED
      BY <3>1, <3>2
  <2>4. ASSUME NEW i, Differ(a, t, i), NEW j, Differ(t, m, j) PROVE FALSE
    <3>1. i \in 1 .. Len(a) /\ i \in 1 .. Len(t) /\ a[i] < t[i] /\ m[i] = a[i] /\ a[i] \in Nat
      BY <1>1, <2>0, <2>4 DEF Differ
    <3>2. j \in 1 .. Len(t) /\ j <= Len(a) + 1 /\ t[j] < m[j] /\ t[j] \in Nat
      BY <1>1, <2>0, <2>4 DEF Differ
    <3>3. CASE j < i
      <4>0. j \in 1 .. i - 1 /\ j \in 1 .. Len(a)
        BY <1>1, <3>1, <3>2, <3>3
      <4>1. a[j] = t[j] /\ m[j] = a[j]
        BY <1>1, <2>4, <4>0 DEF Differ
      <4> QED
        BY <3>2, <4>1
    <3>4. CASE j = i
      BY <2>0, <3>1, <3>2, <3>4
    <3>5. CASE i < j
      <4>1. t[i] = m[i]
        BY <1>1, <2>4, <3>1, <3>2, <3>5 DEF Differ
      <4> QED
        BY <3>1, <4>1
    <3> QED
      BY <3>1, <3>2, <3>3, <3>4, <3>5
  <2>5. /\ Shorter(a, t) \/ \E i : Differ(a, t, i)
        /\ Shorter(t, m) \/ \E j : Differ(t, m, j)
    BY <1>1, <1>3, BeforeCases
  <2> QED
    BY <2>1, <2>2, <2>3, <2>4, <2>5
<1> QED
  BY <1>1, <1>2, <1>3 DEF m

\* The names in byName.
LEMMA NamedIs ==
  ASSUME NEW names \in SUBSET (Nat \X BOOLEAN)
  PROVE  \A n : n \in Named(names) <=> File(n) \in names \/ Sub(n) \in names
<1>1. \A n : n \in Named(names) <=> \E f \in names : f[1] = n
  BY DEF Named
<1>2. \A f \in names : f = File(f[1]) \/ f = Sub(f[1])
  BY PairIs
<1>3. \A n : File(n)[1] = n /\ Sub(n)[1] = n
  BY PairIs
<1> QED
  BY <1>1, <1>2, <1>3

\* What byName has of name n after a page.
LEMMA EnterIs ==
  ASSUME NEW names \in SUBSET (Nat \X BOOLEAN), NEW page, NEW d, \A e \in page : e[d] \in Nat
  PROVE  LET E == Enter(names, page, d)
             file(n) == \E e \in page : Len(e) = d /\ e[d] = n
             sub(n)  == \E e \in page : Len(e) > d /\ e[d] = n
         IN  /\ E \subseteq Nat \X BOOLEAN
             /\ \A n \in Nat : File(n) \in E <=> file(n) \/ File(n) \in names
             /\ \A n \in Nat : Sub(n) \in E <=>
                  ~file(n) /\ (Sub(n) \in names \/ (sub(n) /\ File(n) \notin names))
<1> DEFINE E == Enter(names, page, d)
           file(n) == \E e \in page : Len(e) = d /\ e[d] = n
           sub(n)  == \E e \in page : Len(e) > d /\ e[d] = n
           files == {File(e[d]) : e \in {x \in page : Len(x) = d}}
           kept  == files \cup {f \in names : f[1] \notin Named(files)}
           subs  == {Sub(e[d]) : e \in {x \in page : Len(x) > d /\ x[d] \notin Named(kept)}}
<1>1. E = kept \cup subs
  BY DEF Enter, File, Sub
<1>2. /\ \A n : File(n) \in files <=> file(n)
      /\ \A n : Sub(n) \notin files
      /\ files \subseteq Nat \X BOOLEAN
  BY PairIs
<1>3. \A n : n \in Named(files) <=> file(n)
  <2>1. \A n : n \in Named(files) <=> \E f \in files : f[1] = n
    BY DEF Named
  <2>2. \A f \in files : f = File(f[1])
    BY PairIs
  <2>3. \A n : file(n) => File(n)[1] = n
    BY PairIs
  <2> HIDE DEF files, file
  <2> QED
    BY <1>2, <2>1, <2>2, <2>3
<1> HIDE DEF files
<1>4. /\ \A n : File(n) \in kept <=> file(n) \/ (File(n) \in names /\ ~file(n))
      /\ \A n : Sub(n) \in kept <=> Sub(n) \in names /\ ~file(n)
      /\ kept \subseteq Nat \X BOOLEAN
  <2> HIDE DEF file
  <2> QED
    BY <1>2, <1>3, PairIs
<1> HIDE DEF kept
<1>5. \A n \in Nat : n \in Named(kept) <=> file(n) \/ File(n) \in names \/ Sub(n) \in names
  <2>1. \A n : n \in Named(kept) <=> \E f \in kept : f[1] = n
    BY DEF Named
  <2>2. \A f \in kept : f = File(f[1]) \/ f = Sub(f[1])
    BY <1>4, PairIs
  <2>3. \A n : File(n)[1] = n /\ Sub(n)[1] = n
    BY PairIs
  <2> HIDE DEF file
  <2> QED
    BY <1>4, <2>1, <2>2, <2>3
<1>6. /\ \A n \in Nat : Sub(n) \in subs <=> sub(n) /\ n \notin Named(kept)
      /\ \A n : File(n) \notin subs
      /\ subs \subseteq Nat \X BOOLEAN
  BY PairIs
<1> HIDE DEF subs
<1>7. E \subseteq Nat \X BOOLEAN
  BY <1>1, <1>4, <1>6
<1>8. \A n \in Nat : File(n) \in E <=> file(n) \/ File(n) \in names
  <2> HIDE DEF file, E
  <2> QED
    BY <1>1, <1>4, <1>6
<1>9. \A n \in Nat : Sub(n) \in E <=>
        ~file(n) /\ (Sub(n) \in names \/ (sub(n) /\ File(n) \notin names))
  <2> HIDE DEF file, sub, E
  <2> QED
    BY <1>1, <1>4, <1>5, <1>6
<1> QED
  BY <1>7, <1>8, <1>9

\* An entry is listed when the continuation token is past it.
Passed(e) == st.tok # <<>> /\ (e = st.tok \/ Before(e, st.tok))

\* What was there all the time and is passed is among the names, and they
\* were there at some time; the file the token names is among them.
DirInv ==
  /\ st.pc = "resolve" => st.names = {} /\ st.tok = <<>>
  /\ st.pc = "readdir" =>
       /\ view.always \subseteq Children(bucket, st.p) /\ Children(bucket, st.p) \subseteq view.ever
       /\ \A n \in Nat : File(n) \in view.always => Sub(n) \notin view.ever
       /\ \A n \in Nat : Sub(n) \in view.always => File(n) \notin view.ever
       /\ st.names \subseteq view.ever
       /\ \A n \in Nat :
            File(n) \in view.always /\ Passed(Append(st.p, n)) => File(n) \in st.names
       /\ \A n \in Nat :
            Sub(n) \in view.always /\ Passed(marker(Append(st.p, n))) => Sub(n) \in st.names
       /\ \A n \in Nat : n # 0 /\ st.tok = Append(st.p, n) => n \in Named(st.names)
       /\ touched = {} => view.always = view.ever
  /\ ReadDirExact

\* The files and the prefixes of a page, without the marker of the directory.
LEMMA PageNames ==
  ASSUME NEW b, IsBucket(b), NEW p \in Seq(Name), NEW page, page \subseteq Entries(b, p), NEW n \in Nat
  PROVE  LET g == page \ {marker(p)}
             d == Len(p) + 1
         IN  /\ (\E e \in g : Len(e) = d /\ e[d] = n) <=> n # 0 /\ Append(p, n) \in page
             /\ (\E e \in g : Len(e) > d /\ e[d] = n) <=> marker(Append(p, n)) \in page
             /\ \A e \in g : e[d] \in Nat
<1> DEFINE g == page \ {marker(p)}
           d == Len(p) + 1
           a(m) == Append(p, m)
<1>0. Len(p) \in Nat /\ d \in Nat
  OBVIOUS
<1>1. \A m \in Nat : /\ Len(a(m)) = d /\ a(m)[d] = m
                     /\ Len(marker(a(m))) = d + 1 /\ marker(a(m))[d] = m
  <2> SUFFICES ASSUME NEW m \in Nat
               PROVE  /\ Len(a(m)) = d /\ a(m)[d] = m
                      /\ Len(marker(a(m))) = d + 1 /\ marker(a(m))[d] = m
    OBVIOUS
  <2>1. /\ Len(a(m)) = Len(p) + 1 /\ a(m)[Len(p) + 1] = m
        /\ Len(marker(a(m))) = Len(p) + 2 /\ marker(a(m))[Len(p) + 1] = m
    BY AppendIs
  <2> QED
    BY <1>0, <2>1
<1>2. marker(p) = a(0)
  BY DEF marker
<1>3. \A e \in page : \E m \in Nat : e = a(m) \/ e = marker(a(m))
  BY EntriesAre
<1>4. ~(d + 1 = d) /\ d + 1 > d /\ ~(d > d)
  BY <1>0
<1> HIDE DEF d, a
<1>5. ASSUME NEW e \in g, Len(e) = d, e[d] = n PROVE n # 0 /\ a(n) \in page
  <2>1. PICK m \in Nat : e = a(m) \/ e = marker(a(m))
    BY <1>3
  <2>2. e = a(m)
    BY <1>1, <1>4, <1>5, <2>1
  <2>3. m = n
    BY <1>1, <1>5, <2>2
  <2> QED
    BY <1>2, <2>2, <2>3
<1>6. ASSUME n # 0, a(n) \in page PROVE \E e \in g : Len(e) = d /\ e[d] = n
  <2>1. a(n) # marker(p)
    BY <1>1, <1>2, <1>6
  <2> QED
    BY <1>1, <1>6, <2>1
<1>7. ASSUME NEW e \in g, Len(e) > d, e[d] = n PROVE marker(a(n)) \in page
  <2>1. PICK m \in Nat : e = a(m) \/ e = marker(a(m))
    BY <1>3
  <2>2. e = marker(a(m))
    BY <1>1, <1>4, <1>7, <2>1
  <2>3. m = n
    BY <1>1, <1>7, <2>2
  <2> QED
    BY <2>2, <2>3
<1>8. ASSUME marker(a(n)) \in page PROVE \E e \in g : Len(e) > d /\ e[d] = n
  <2>1. marker(a(n)) # marker(p)
    BY <1>1, <1>2, <1>4
  <2> QED
    BY <1>1, <1>4, <1>8, <2>1
<1>9. \A e \in g : e[d] \in Nat
  BY <1>1, <1>3
<1> QED
  BY <1>5, <1>6, <1>7, <1>8, <1>9 DEF a, d

\* A page and what it adds to the names.
LEMMA DirPage ==
  ASSUME NsInv, DirInv, st.pc = "readdir",
         NEW l, l \in Ends(After(Entries(bucket, st.p)))
  PROVE  LET S == Entries(bucket, st.p)
             page == Upto(After(S), l)
             names == Enter(st.names, page \ {marker(st.p)}, Len(st.p) + 1)
         IN  /\ names \subseteq view.ever
             /\ \A n \in Nat : n # 0 /\ l = Append(st.p, n) => n \in Named(names)
             /\ \A e \in S : e = l \/ Before(e, l) \/ LastPage(After(S), page) => e \in page \/ Passed(e)
             /\ \A n \in Nat : LET a == Append(st.p, n) IN
                  File(n) \in view.always => a \in S /\ (a \in page \/ Passed(a) => File(n) \in names)
             /\ \A n \in Nat : LET m == marker(Append(st.p, n)) IN
                  Sub(n) \in view.always => m \in S /\ (m \in page \/ Passed(m) => Sub(n) \in names)
<1> DEFINE b == bucket
           p == st.p
           S == Entries(b, p)
           es == After(S)
           page == Upto(es, l)
           g == page \ {marker(p)}
           d == Len(p) + 1
           names == Enter(st.names, g, d)
           file(n) == \E e \in g : Len(e) = d /\ e[d] = n
           sub(n)  == \E e \in g : Len(e) > d /\ e[d] = n
           a(n) == Append(p, n)
<1>1. IsBucket(b) /\ p \in Seq(Name) /\ st.tok \in Seq(Nat) /\ st.names \in SUBSET (Nat \X BOOLEAN)
  BY Types
<1>2. S \subseteq Seq(Nat)
  BY <1>1, EntriesIs
<1>3. \A e : e \in page <=> e \in S /\ (st.tok = <<>> \/ Before(st.tok, e)) /\ (e = l \/ Before(e, l))
  BY DEF Upto, After
<1>4. (es = {} /\ l = st.tok) \/ l \in page
  <2>1. es # {} => l \in es
    BY DEF Ends
  <2> QED
    BY <2>1 DEF Ends, Upto
<1>5. \A e : e \in es <=> e \in S /\ (st.tok = <<>> \/ Before(st.tok, e))
  BY DEF After
<1>6. l \in Seq(Nat) /\ page \subseteq S
  BY <1>1, <1>2, <1>3, <1>4
<1>7. /\ \A n \in Nat : file(n) <=> n # 0 /\ a(n) \in page
      /\ \A n \in Nat : sub(n) <=> marker(a(n)) \in page
      /\ \A e \in g : e[d] \in Nat
  <2> HIDE DEF page
  <2>1. \A n \in Nat : /\ file(n) <=> n # 0 /\ a(n) \in page
                       /\ sub(n) <=> marker(a(n)) \in page
    BY <1>1, <1>6, PageNames
  <2>2. 0 \in Nat
    OBVIOUS
  <2>3. \A e \in g : e[d] \in Nat
    BY <1>1, <1>6, <2>2, PageNames
  <2> QED
    BY <2>1, <2>3
<1>8. /\ names \subseteq Nat \X BOOLEAN
      /\ \A n \in Nat : File(n) \in names <=> file(n) \/ File(n) \in st.names
      /\ \A n \in Nat : Sub(n) \in names <=>
           ~file(n) /\ (Sub(n) \in st.names \/ (sub(n) /\ File(n) \notin st.names))
  <2> HIDE DEF g, d
  <2> QED
    BY <1>1, <1>7, EnterIs
<1> HIDE DEF names, file, sub
<1>9. /\ \A n \in Nat : a(n) \in S <=> a(n) \in DOMAIN b
      /\ \A n \in Nat : marker(a(n)) \in S <=> Below(b, p, n)
  BY <1>1, EntriesAre
<1>10. /\ \A n \in Nat : File(n) \in Children(b, p) <=> n # 0 /\ a(n) \in DOMAIN b
       /\ \A n \in Nat : Sub(n) \in Children(b, p) <=> a(n) \notin DOMAIN b /\ Below(b, p, n)
  BY <1>1, ChildrenAre
<1>11. \A n \in Nat : Below(b, p, n) => n # 0
  BY <1>1, InDirectory
<1>12. \A n \in Nat : a(n) \in Seq(Nat)
  BY <1>1, AppendIs
<1>13. /\ view.always \subseteq Children(b, p) /\ Children(b, p) \subseteq view.ever
       /\ \A n \in Nat : File(n) \in view.always => Sub(n) \notin view.ever
       /\ \A n \in Nat : Sub(n) \in view.always => File(n) \notin view.ever
       /\ st.names \subseteq view.ever
       /\ \A n \in Nat : File(n) \in view.always /\ Passed(a(n)) => File(n) \in st.names
       /\ \A n \in Nat : Sub(n) \in view.always /\ Passed(marker(a(n))) => Sub(n) \in st.names
       /\ \A n \in Nat : n # 0 /\ st.tok = a(n) => n \in Named(st.names)
  BY DEF DirInv
<1>14. \A n \in Nat : n \in Named(st.names) <=> File(n) \in st.names \/ Sub(n) \in st.names
  BY <1>1, NamedIs
<1>15. \A n \in Nat : n \in Named(names) <=> File(n) \in names \/ Sub(n) \in names
  BY <1>8, NamedIs
<1> HIDE DEF a, S, es, page, b, p
<1>16. \A n \in Nat : n # 0 /\ a(n) \in page => File(n) \in view.ever
  BY <1>6, <1>9, <1>10, <1>13
<1>17. ASSUME NEW n \in Nat, Sub(n) \in names PROVE Sub(n) \in view.ever
  <2>1. CASE Sub(n) \in st.names
    BY <1>13, <2>1
  <2>2. CASE Sub(n) \notin st.names
    <3>1. ~file(n) /\ sub(n) /\ File(n) \notin st.names
      BY <1>8, <1>17, <2>2
    <3>2. marker(a(n)) \in page /\ marker(a(n)) \in S /\ Below(b, p, n) /\ n # 0 /\ a(n) \notin page
      BY <1>6, <1>7, <1>9, <1>11, <3>1
    <3>3. CASE a(n) \notin DOMAIN b
      BY <1>10, <1>13, <3>2, <3>3
    <3>4. CASE a(n) \in DOMAIN b
      <4>1. a(n) \in S /\ a(n) \in Seq(Nat) /\ marker(a(n)) \in Seq(Nat) /\ Before(a(n), marker(a(n)))
        BY <1>9, <1>12, <3>4, NoneBetween
      <4>2. st.tok = <<>> \/ Before(st.tok, marker(a(n)))
        BY <1>3, <3>2
      <4>3. Before(a(n), l)
        <5>1. marker(a(n)) = l \/ Before(marker(a(n)), l)
          BY <1>3, <3>2
        <5> QED
          BY <1>6, <4>1, <5>1, BeforeTransitive
      <4>4. st.tok # <<>> /\ ~Before(st.tok, a(n))
        BY <1>3, <3>2, <4>1, <4>3
      <4>5. ~Before(a(n), st.tok)
        BY <1>1, <4>1, <4>2, <4>4, NoneBetween
      <4>6. st.tok = a(n)
        BY <1>1, <4>1, <4>4, <4>5, BeforeTotal
      <4> QED
        BY <1>13, <1>14, <2>2, <3>1, <3>2, <4>6
    <3> QED
      BY <3>3, <3>4
  <2> QED
    BY <2>1, <2>2
<1>18. names \subseteq view.ever
  <2>1. \A n \in Nat : File(n) \in names => File(n) \in view.ever
    BY <1>7, <1>8, <1>13, <1>16
  <2> QED
    BY <1>8, <1>17, <2>1, PairIs
<1>19. ASSUME NEW n \in Nat, n # 0, l = a(n) PROVE n \in Named(names)
  <2>1. CASE l \in page
    BY <1>7, <1>8, <1>15, <1>19, <2>1
  <2>2. CASE l = st.tok
    BY <1>8, <1>13, <1>14, <1>15, <1>19, <2>2
  <2> QED
    BY <1>4, <2>1, <2>2
<1>20. ASSUME NEW e \in S, e = l \/ Before(e, l) \/ LastPage(es, page) PROVE e \in page \/ Passed(e)
  <2>1. e \in es => e \in page
    BY <1>3, <1>5, <1>20 DEF LastPage
  <2>2. e \notin es => Passed(e)
    BY <1>1, <1>2, <1>5, BeforeTotal DEF Passed
  <2> QED
    BY <2>1, <2>2
<1>21. ASSUME NEW n \in Nat, File(n) \in view.always
       PROVE  a(n) \in S /\ (a(n) \in page \/ Passed(a(n)) => File(n) \in names)
  BY <1>7, <1>8, <1>9, <1>10, <1>13, <1>21
<1>22. ASSUME NEW n \in Nat, Sub(n) \in view.always
       PROVE  /\ marker(a(n)) \in S
              /\ marker(a(n)) \in page \/ Passed(marker(a(n))) => Sub(n) \in names
  <2>1. a(n) \notin DOMAIN b /\ Below(b, p, n) /\ File(n) \notin st.names
    BY <1>10, <1>13, <1>22
  <2>2. ~file(n)
    BY <1>6, <1>7, <1>9, <2>1
  <2> QED
    BY <1>7, <1>8, <1>9, <1>13, <1>22, <2>1, <2>2
<1> QED
  BY <1>18, <1>19, <1>20, <1>21, <1>22 DEF a, S, es, page, b, p, names

\* Steps that neither list nor return from a listing.
LEMMA OtherDir ==
  ASSUME st'.pc \notin {"resolve", "readdir"},
         st'.pc = "done" => st'.call # "readdir" \/ st'.res \notin {"list", "notexist"}
  PROVE  DirInv'
BY DEF DirInv, ReadDirExact

\* A listing starts.
LEMMA StartDir ==
  ASSUME NsInv, DirInv, ResolveNone
  PROVE  DirInv'
<1>1. st.pc = "resolve" /\ st.call \in Following /\ Steady
  BY DEF ResolveNone, NsInv, PhaseInv
<1>2. st \in Local
  BY Types
<1>3. CASE st.call # "readdir"
  <2>1. \/ \E r : Return(r)
        \/ Goto("dir")
    BY <1>3 DEF ResolveNone
  <2>2. st'.pc \in {"done", "dir"} /\ st'.call = st.call
    BY <1>2, <2>1 DEF Return, Goto, Local
  <2> QED
    BY <1>3, <2>2, OtherDir
<1>4. CASE st.call = "readdir"
  <2>1. Goto("readdir") /\ view' = [always |-> Children(bucket, st.p), ever |-> Children(bucket, st.p)]
    BY <1>4 DEF ResolveNone
  <2>2. /\ st'.pc = "readdir" /\ st'.p = st.p /\ st'.names = st.names /\ st'.tok = st.tok
    BY <1>2, <2>1 DEF Goto, Local
  <2>3. view'.always = Children(bucket, st.p) /\ view'.ever = Children(bucket, st.p)
    BY <2>1
  <2>4. bucket' = bucket /\ st.names = {} /\ st.tok = <<>>
    BY <1>1 DEF Steady, DirInv
  <2>5. \A n \in Nat : ~(File(n) \in Children(bucket, st.p) /\ Sub(n) \in Children(bucket, st.p))
    <3>1. IsBucket(bucket) /\ st.p \in Seq(Name)
      BY Types
    <3> QED
      BY <3>1, ChildrenAre
  <2>6. \A n \in Nat : Append(st.p, n) # <<>>
    <3>1. st.p \in Seq(Name)
      BY Types
    <3> SUFFICES ASSUME NEW n \in Nat PROVE Append(st.p, n) # <<>>
      OBVIOUS
    <3>2. Len(Append(st.p, n)) = Len(st.p) + 1 /\ Len(st.p) \in Nat
      BY <3>1, AppendIs
    <3>3. Len(Append(st.p, n)) # 0
      BY <3>2
    <3>4. Len(<<>>) = 0
      OBVIOUS
    <3> QED
      BY <3>3, <3>4
  <2> QED
    BY <2>2, <2>3, <2>4, <2>5, <2>6 DEF DirInv, Passed, ReadDirExact
<1> QED
  BY <1>3, <1>4

\* A page is listed.
LEMMA PageDir ==
  ASSUME NsInv, DirInv, ReadDir
  PROVE  DirInv'
<1> DEFINE S == Entries(bucket, st.p)
           es == After(S)
<1>1. st.pc = "readdir" /\ Steady /\ view' = view /\ st \in Local /\ st.call = "readdir"
  BY Types DEF ReadDir, NsInv, PhaseInv
<1>2. PICK l \in Ends(es) :
        LET page  == Upto(es, l)
            found == st.found \/ page # {}
        IN  st' = [st EXCEPT
              !.names = Enter(@, page \ {marker(st.p)}, Len(st.p) + 1),
              !.found = found,
              !.tok   = l,
              !.pc    = IF LastPage(es, page) THEN "done" ELSE @,
              !.res   = IF ~LastPage(es, page) THEN @
                        ELSE IF found \/ st.p = Root THEN "list" ELSE "notexist"]
  BY DEF ReadDir
<1> DEFINE page == Upto(es, l)
           names == Enter(st.names, page \ {marker(st.p)}, Len(st.p) + 1)
           last == LastPage(es, page)
<1>3. st'.names = names /\ st'.tok = l /\ st'.p = st.p /\ st'.pc = IF last THEN "done" ELSE "readdir"
  BY <1>1, <1>2 DEF Local
<1>4. /\ names \subseteq view.ever
      /\ \A n \in Nat : n # 0 /\ l = Append(st.p, n) => n \in Named(names)
      /\ \A e \in S : e = l \/ Before(e, l) \/ last => e \in page \/ Passed(e)
      /\ \A n \in Nat : LET a == Append(st.p, n) IN
           File(n) \in view.always => a \in S /\ (a \in page \/ Passed(a) => File(n) \in names)
      /\ \A n \in Nat : LET m == marker(Append(st.p, n)) IN
           Sub(n) \in view.always => m \in S /\ (m \in page \/ Passed(m) => Sub(n) \in names)
  BY <1>1, DirPage
<1>5. bucket' = bucket /\ touched' = touched
  BY <1>1 DEF Steady
<1> HIDE DEF names, page, S, es, last
<1>6. CASE ~last
  <2>1. \A e : Passed(e)' => e = l \/ Before(e, l)
    BY <1>3 DEF Passed
  <2>2. \A n \in Nat : File(n) \in view.always /\ Passed(Append(st.p, n))' => File(n) \in names
    BY <1>3, <1>4, <2>1 DEF Passed
  <2>3. \A n \in Nat : Sub(n) \in view.always /\ Passed(marker(Append(st.p, n)))' => Sub(n) \in names
    BY <1>3, <1>4, <2>1 DEF Passed
  <2>4. st'.pc = "readdir"
    BY <1>3, <1>6
  <2>5. ReadDirExact'
    BY <2>4 DEF ReadDirExact
  <2> QED
    BY <1>1, <1>3, <1>4, <1>5, <2>2, <2>3, <2>4, <2>5 DEF DirInv
<1>7. CASE last
  <2>1. view.always \subseteq names
    <3>1. view.always \subseteq Nat \X BOOLEAN
      <4>1. IsBucket(bucket) /\ st.p \in Seq(Name)
        BY Types
      <4> QED
        BY <1>1, <4>1, ChildrenAre DEF DirInv
    <3>2. \A n \in Nat : File(n) \in view.always => File(n) \in names
      BY <1>4, <1>7
    <3>3. \A n \in Nat : Sub(n) \in view.always => Sub(n) \in names
      BY <1>4, <1>7
    <3> QED
      BY <3>1, <3>2, <3>3, PairIs
  <2> QED
    BY <1>1, <1>3, <1>4, <1>7, <2>1 DEF DirInv, ReadDirExact
<1> QED
  BY <1>6, <1>7

\* Others change a key while it lists.
LEMMA ForeignDir ==
  ASSUME NsInv, DirInv, NEW k \in Key, Foreign(k)
  PROVE  DirInv'
<1>1. st' = st /\ st.pc \notin {"idle", "done"} /\ touched' = touched \cup {k}
  BY DEF Foreign
<1>2. ReadDirExact'
  BY <1>1 DEF ReadDirExact
<1>3. CASE st.pc # "readdir"
  BY <1>1, <1>2, <1>3 DEF DirInv
<1>4. CASE st.pc = "readdir"
  <2> DEFINE C == Children(bucket', st.p)
  <2>1. view'.always = view.always \cap C /\ view'.ever = view.ever \cup C
    BY <1>4 DEF Foreign
  <2>2. \A n \in Nat : ~(File(n) \in C /\ Sub(n) \in C)
    <3>1. IsBucket(bucket')
      BY ForeignNs DEF NsInv, TypeOK
    <3>2. st.p \in Seq(Name)
      BY Types
    <3> QED
      BY <3>1, <3>2, ChildrenAre
  <2>3. C = Children(bucket, st.p)'
    BY <1>1
  <2>4. touched' # {}
    BY <1>1
  <2> HIDE DEF C
  <2>5. /\ \A n \in Nat : File(n) \in view'.always => Sub(n) \notin view'.ever
        /\ \A n \in Nat : Sub(n) \in view'.always => File(n) \notin view'.ever
    BY <1>4, <2>1, <2>2 DEF DirInv
  <2>6. /\ st.names \subseteq view'.ever
        /\ view'.always \subseteq C /\ C \subseteq view'.ever /\ view'.always \subseteq view.always
    BY <1>4, <2>1 DEF DirInv
  <2> QED
    BY <1>1, <1>2, <1>4, <2>3, <2>4, <2>5, <2>6 DEF DirInv, Passed
<1> QED
  BY <1>3, <1>4

\* Every step keeps the invariant of the listing.
LEMMA NextDir ==
  ASSUME NsInv, DirInv, [Next]_vars
  PROVE  DirInv'
<1>0. st \in Local /\ PhaseInv
  BY Types DEF NsInv
<1>1. ASSUME NEW c, NEW p, NEW q, Call(c, p, q) PROVE DirInv'
  <2>1. st'.pc \in {"resolve", "done", "head"} /\ st'.names = {} /\ st'.tok = <<>>
        /\ st'.res \notin {"list", "notexist"}
    BY <1>1 DEF Call, Idle
  <2> QED
    BY <2>1 DEF DirInv, ReadDirExact
<1>2. CASE ResolveLink
  <2>1. st'.pc \in {"resolve", "done"} /\ st'.names = st.names /\ st'.tok = st.tok
        /\ (st'.pc = "done" => st'.res = "loop") /\ st.pc = "resolve"
    BY <1>0, <1>2 DEF ResolveLink, Local
  <2> QED
    BY <2>1 DEF DirInv, ReadDirExact
<1>3. CASE ResolveFile
  <2>1. /\ st'.pc \in {"done", "put"} /\ st'.call = st.call
        /\ st'.pc = "done" => st'.res # "list" /\ st'.res # "notexist"
    BY <1>0, <1>3 DEF ResolveFile, Return, Goto, Local, PhaseInv, Following
  <2> QED
    BY <2>1, OtherDir
<1>4. CASE HeadLiteral
  <2>1. st'.call # "readdir" /\ st'.pc \notin {"resolve", "readdir"}
    <3>1. st.call \in Literal
      BY <1>0, <1>4 DEF HeadLiteral, PhaseInv
    <3>2. \/ \E r : Return(r)
          \/ \E c \in {"rmdir", "dir"} : Goto(c)
          \/ \E c \in {"copy", "delete"} : \E ks : st' = [st EXCEPT !.pc = c, !.keys = ks]
      BY <1>4, <3>1 DEF HeadLiteral, Literal
    <3> QED
      BY <1>0, <3>1, <3>2 DEF Literal, Return, Goto, Local
  <2> QED
    BY <2>1, OtherDir
<1>5. CASE DirTold \/ Dir
  <2>1. st.call \in {"stat", "lstat", "open", "presignget", "presignput", "create", "excl", "mkdir",
                     "symlink", "rename"}
    BY <1>5 DEF DirTold, Dir
  <2>2. \/ \E r : Return(r)
        \/ \E c \in {"put", "list"} : Goto(c)
    BY <1>5 DEF DirTold, Dir
  <2>3. st'.call # "readdir" /\ st'.pc \notin {"resolve", "readdir"}
    BY <1>0, <2>1, <2>2 DEF Return, Goto, Local
  <2> QED
    BY <2>3, OtherDir
<1>6. CASE RemoveDir
  <2>1. st.call = "remove"
    BY <1>0, <1>6 DEF RemoveDir, PhaseInv
  <2>2. st'.call # "readdir" /\ st'.pc \notin {"resolve", "readdir"}
    BY <1>0, <1>6, <2>1 DEF RemoveDir, Return, Local
  <2> QED
    BY <2>2, OtherDir
<1>7. CASE ListAllKeys
  <2>1. st.call = "rename" /\ st.pc = "list"
    BY <1>0, <1>7 DEF ListAllKeys, PhaseInv
  <2>2. PICK l : \E ks, last :
          st' = [st EXCEPT !.keys = ks, !.tok = l,
                   !.pc  = IF ~last THEN @ ELSE IF ks = <<>> THEN "done" ELSE "copy",
                   !.res = IF last /\ ks = <<>> THEN "ok" ELSE @]
    BY <1>7 DEF ListAllKeys
  <2>3. PICK ks, last :
          st' = [st EXCEPT !.keys = ks, !.tok = l,
                   !.pc  = IF ~last THEN @ ELSE IF ks = <<>> THEN "done" ELSE "copy",
                   !.res = IF last /\ ks = <<>> THEN "ok" ELSE @]
    BY <2>2
  <2> DEFINE c == IF ~last THEN st.pc ELSE IF ks = <<>> THEN "done" ELSE "copy"
             r == IF last /\ ks = <<>> THEN "ok" ELSE st.res
  <2>4. c \in {"list", "done", "copy"} /\ st' = [st EXCEPT !.keys = ks, !.tok = l, !.pc = c, !.res = r]
    BY <2>1, <2>3
  <2> HIDE DEF c, r
  <2>5. st'.call # "readdir" /\ st'.pc \notin {"resolve", "readdir"}
    BY <1>0, <2>1, <2>4 DEF Local
  <2> QED
    BY <2>5, OtherDir
<1>8. CASE Copy \/ Delete \/ Put \/ Fail
  <2>1. st'.pc \notin {"resolve", "readdir"} /\ (st'.pc = "done" => st'.res \in {"ok", "error"})
    <3>1. CASE Copy
      BY <1>0, <3>1 DEF Copy, Work, Return, Local
    <3>2. CASE Delete
      <4>1. st.pc = "delete" /\ (Return("ok") \/ st' = [st EXCEPT !.i = @ + 1])
        BY <3>2 DEF Delete
      <4> QED
        BY <1>0, <4>1 DEF Return, Local
    <3>3. CASE Put \/ Fail
      BY <1>0, <3>3 DEF Put, Fail, Return, Local
    <3> QED
      BY <1>8, <3>1, <3>2, <3>3
  <2> QED
    BY <2>1, OtherDir
<1>9. CASE UNCHANGED vars
  BY <1>9 DEF vars, DirInv, ReadDirExact, Passed
<1>10. CASE \E k \in Key : Foreign(k)
  BY <1>10, ForeignDir
<1>11. CASE Step
  BY <1>2, <1>3, <1>4, <1>5, <1>6, <1>7, <1>8, <1>11, StartDir, PageDir DEF Step
<1> QED
  BY <1>1, <1>8, <1>9, <1>10, <1>11 DEF Next

\* The listing is exact in every state.
LEMMA DirInvariant == Spec => []DirInv
<1>1. Init => DirInv
  BY DEF Init, Idle, DirInv, ReadDirExact
<1>2. NsInv /\ DirInv /\ [Next]_vars => DirInv'
  BY NextDir
<1> QED
  BY <1>1, <1>2, NsInvariant, PTL DEF Spec

\* ReadDir lists what is there all the time and nothing that is not there at
\* some time, in pages of any size and whatever others do between them.
THEOREM ListingExact == Spec => []ReadDirExact
<1>1. DirInv => ReadDirExact
  BY DEF DirInv
<1> QED
  BY <1>1, DirInvariant, PTL

------------------------------------------------------------------------------
(* Calls nobody disturbs.                                                  *)

\* A path after one link, and the paths after n of them.
Hop(b, p) == IF IsLink(b, p) THEN Follow(b, p) ELSE p
Trail(b, p) == LET at[n \in Nat] == IF n = 0 THEN p ELSE Hop(b, at[n - 1]) IN at

\* The links of the path are followed.
Resolved ==
  LeadsTo(before, st.q) = st.p /\ ~IsLink(before, st.p) /\ (st.hops > 0 <=> IsLink(before, st.q))

\* What a rename of p moves, and the keys it has so far.
Sources(b, p) == IF p \in DOMAIN b THEN {p} ELSE Under(b, p)
Upfront(n) == {st.keys[m] : m \in 1 .. n}

\* Bucket c is b with the objects of ks copied for a rename and ds deleted.
Moving(c, b, p, q, ks, ds) ==
  /\ DOMAIN c = (DOMAIN b \cup {Moved(p, q, k) : k \in ks}) \ ds
  /\ \A k \in ks : c[Moved(p, q, k)] = b[k]
  /\ \A j \in DOMAIN c \ {Moved(p, q, k) : k \in ks} : c[j] = b[j]

\* What a call knows of the bucket it was called with.
KnowsInv ==
  /\ st.pc = "resolve" =>
       /\ st.q \in Seq(Name) /\ st.p = Trail(before, st.q)[st.hops] /\ ~st.found
       /\ st.hops > 0 => IsLink(before, st.q)
  /\ st.pc \in {"dir", "put", "readdir"} /\ st.call \in Following => Resolved
  /\ st.pc \in {"dir", "rmdir", "list", "readdir"} => st.p \notin DOMAIN before
  /\ st.pc \in {"dir", "put"} /\ st.call = "excl" => st.hops = 0
  /\ st.pc = "dir" => st.call \notin {"readdir", "readlink", "remove"}
  /\ st.pc = "put" => \/ st.call = "create" /\ st.p \in DOMAIN before
                      \/ st.p \notin DOMAIN before /\ ~dirExists(before, st.p)
  /\ st.pc = "readdir" =>
       (st.found => Entries(before, st.p) # {}) /\ (st.tok # <<>> => st.found)

\* What a rename or a removal does to it.
MovesInv ==
  /\ st.pc \in {"resolve", "head", "dir", "rmdir"} => st.tok = <<>>
  /\ st.pc \in {"list", "copy", "delete"} /\ st.call = "rename" =>
       /\ st.p # st.q /\ Sources(before, st.p) # {}
       /\ st.p \notin DOMAIN before => ~IsPrefix(st.p, st.q)
  /\ st.pc = "list" => \A k \in Under(before, st.p) : Passed(k) => k \in Upfront(Len(st.keys))
  /\ st.pc \in {"copy", "delete"} /\ st.call = "rename" =>
       /\ Upfront(Len(st.keys)) = Sources(before, st.p)
       /\ IF st.pc = "copy"
          THEN Moving(bucket, before, st.p, st.q, Upfront(st.i - 1), {})
          ELSE Moving(bucket, before, st.p, st.q, Sources(before, st.p), Upfront(st.i - 1))
  /\ st.pc = "delete" /\ st.call = "remove" =>
       \/ st.p \in DOMAIN before /\ st.keys = <<st.p>>
       \/ /\ st.p \notin DOMAIN before /\ Under(before, st.p) = {marker(st.p)}
          /\ st.keys = <<marker(st.p)>>

ExactInv == (touched = {} => KnowsInv /\ MovesInv) /\ CallsAreExact

\* The paths after n links.
LEMMA TrailIs ==
  ASSUME NEW b, IsBucket(b), NEW p \in Seq(Name)
  PROVE  /\ Trail(b, p) \in [Nat -> Seq(Name)] /\ Trail(b, p)[0] = p
         /\ \A n \in Nat : Trail(b, p)[n + 1] = Hop(b, Trail(b, p)[n])
         /\ LeadsTo(b, p) = Trail(b, p)[MaxDepth]
<1> DEFINE V == Seq(Name)
           step == [n \in Nat |-> [v \in V |-> Hop(b, v)]]
           Is(f) == f = [n \in Nat |-> IF n = 0 THEN p ELSE Hop(b, f[n - 1])]
<1>1. \A v \in V : Hop(b, v) \in V
  BY FollowIs DEF Hop
<1>2. StaysIn(V, step)
  BY <1>1 DEF StaysIn
<1>3. PICK h : /\ h \in [Nat -> V] /\ h[0] = p
               /\ \A n \in Nat : h[n + 1] = step[n + 1][h[n]]
  <2> HIDE DEF V, step
  <2>1. p \in V
    BY DEF V
  <2>2. \E h : Recurses(h, V, p, step)
    BY <1>2, <2>1, Recursion
  <2> QED
    BY <2>2 DEF Recurses
<1>4. Is(h)
  <2>1. ASSUME NEW n \in Nat, n # 0 PROVE h[n] = Hop(b, h[n - 1])
    <3>1. n - 1 \in Nat /\ n - 1 + 1 = n
      BY <2>1
    <3>2. h[n] = step[n][h[n - 1]] /\ h[n - 1] \in V
      BY <1>3, <3>1
    <3> QED
      BY <3>2
  <2> QED
    BY <1>3, <2>1
<1> DEFINE f == CHOOSE f : Is(f)
<1>5. Is(f)
  <2> HIDE DEF Is
  <2> QED
    BY <1>4
<1>6. Trail(b, p) = f
  BY DEF Trail
<1>7. LeadsTo(b, p) = Trail(b, p)[MaxDepth]
  BY DEF LeadsTo, Trail, Hop
<1> HIDE DEF f
<1>8. f[0] = p /\ \A n \in Nat : f[n + 1] = Hop(b, f[n])
  <2>1. \A n \in Nat : n + 1 \in Nat /\ n + 1 # 0 /\ n + 1 - 1 = n
    OBVIOUS
  <2>2. \A m \in Nat : f[m] = IF m = 0 THEN p ELSE Hop(b, f[m - 1])
    BY <1>5
  <2> HIDE DEF Is
  <2>3. ASSUME NEW n \in Nat PROVE f[n + 1] = Hop(b, f[n])
    <3>1. f[n + 1] = Hop(b, f[n + 1 - 1])
      BY <2>1, <2>2
    <3> QED
      BY <2>1, <3>1
  <2> QED
    BY <2>2, <2>3
<1> DEFINE T == {n \in Nat : f[n] \in V}
<1>9. Nat \subseteq T
  <2>1. 0 \in T
    BY <1>8
  <2>2. ASSUME NEW n \in Nat, n \in T PROVE n + 1 \in T
    <3>1. n + 1 \in Nat /\ f[n] \in V
      BY <2>2
    <3>2. f[n + 1] \in V
      BY <1>1, <1>8, <3>1
    <3> QED
      BY <3>1, <3>2
  <2> HIDE DEF T
  <2> QED
    BY <2>1, <2>2, NumberInduction
<1>10. f \in [Nat -> V]
  <2>1. f = [n \in Nat |-> f[n]]
    BY <1>5
  <2> HIDE DEF Is
  <2> QED
    BY <1>9, <2>1
<1> QED
  BY <1>6, <1>7, <1>8, <1>10

\* The path after one more link.
LEMMA TrailStep ==
  ASSUME NEW b, IsBucket(b), NEW p \in Seq(Name), NEW n \in Nat
  PROVE  Trail(b, p)[n + 1] = Hop(b, Trail(b, p)[n])
<1> DEFINE t == Trail(b, p)
<1>1. \A m \in Nat : t[m + 1] = Hop(b, t[m])
  BY TrailIs
<1> HIDE DEF t
<1>2. t[n + 1] = Hop(b, t[n])
  BY <1>1
<1> QED
  BY <1>2 DEF t

\* The path that is no link is where the links lead.
LEMMA TrailEnds ==
  ASSUME NEW b, IsBucket(b), NEW p \in Seq(Name), NEW h \in Nat, h <= MaxDepth,
         ~IsLink(b, Trail(b, p)[h])
  PROVE  LeadsTo(b, p) = Trail(b, p)[h]
<1> DEFINE t == Trail(b, p)
           T == {n \in Nat : n >= h => t[n] = t[h]}
<1>1. /\ \A n \in Nat : t[n + 1] = Hop(b, t[n])
      /\ LeadsTo(b, p) = t[MaxDepth]
  BY TrailIs
<1>2. ~IsLink(b, t[h])
  OBVIOUS
<1> HIDE DEF t
<1>3. Nat \subseteq T
  <2>1. 0 \in T
    BY DEF T
  <2>2. ASSUME NEW n \in Nat, n \in T PROVE n + 1 \in T
    <3>1. CASE n >= h
      <4>1. t[n] = t[h]
        BY <2>2, <3>1
      <4>2. t[n + 1] = t[h]
        BY <1>1, <1>2, <4>1 DEF Hop
      <4> QED
        BY <4>2
    <3>2. CASE ~(n >= h)
      <4>1. n + 1 >= h => n + 1 = h
        BY <3>2
      <4> QED
        BY <4>1
    <3> QED
      BY <3>1, <3>2
  <2> HIDE DEF T
  <2> QED
    BY <2>1, <2>2, NumberInduction
<1>4. MaxDepth \in Nat /\ MaxDepth >= h
  BY NamespaceAssumption
<1> QED
  BY <1>1, <1>3, <1>4 DEF t

\* Until a call changes it the bucket is what it was.
LEMMA SameBucket ==
  ASSUME NsInv, touched = {}, Untouched
  PROVE  bucket = before
<1>1. DOMAIN bucket = DOMAIN before /\ \A k \in DOMAIN before : bucket[k] = before[k]
  BY DEF Untouched
<1>2. IsBucket(bucket) /\ IsBucket(before)
  BY Types
<1>3. /\ bucket \in [DOMAIN bucket -> Objects] /\ before \in [DOMAIN before -> Objects]
  BY <1>2 DEF IsBucket, Objects
<1> HIDE DEF Objects
<1> QED
  BY <1>1, <1>3

\* A path that is an object and no link is a file.
LEMMA KindIs ==
  ASSUME NEW b, IsBucket(b), NEW p \in Seq(Name)
  PROVE  /\ p \in DOMAIN b => p # Root /\ b[p].kind \in {"file", "link"}
         /\ p \in DOMAIN b /\ ~IsLink(b, p) => Kind(b, p) = "file"
         /\ IsLink(b, p) => Kind(b, p) = "link"
         /\ p \notin DOMAIN b => Kind(b, p) = IF dirExists(b, p) THEN "dir" ELSE "none"
<1>1. ASSUME p \in DOMAIN b PROVE p # Root /\ b[p].kind \in {"file", "link"}
  <2>1. IsKey(p)
    BY <1>1 DEF IsBucket
  <2>2. p # Root
    BY <2>1 DEF IsKey, Root
  <2>3. Last(p) # 0
    BY <2>2, PathKey
  <2> QED
    BY <1>1, <2>2, <2>3 DEF IsBucket
<1> QED
  BY <1>1 DEF Kind, IsLink

\* The reference for calls that follow links.
LEMMA ExpectsLoop ==
  ASSUME NEW c \in Following, NEW b, NEW p, NEW q, Kind(b, LeadsTo(b, p)) = "link"
  PROVE  Expected(c, p, q, b) = Tells(b, "loop")
BY DEF Expected

\* Unless an exclusive creation meets a link.
LEMMA ExpectsFollowed ==
  ASSUME NEW c \in Following, NEW b, NEW p, NEW q, Kind(b, LeadsTo(b, p)) # "link",
         c = "excl" => ~IsLink(b, p) \/ LeadsTo(b, p) = Root
  PROVE  Expected(c, p, q, b) = Followed(c, LeadsTo(b, p), Kind(b, LeadsTo(b, p)), b)
BY DEF Expected

\* Where the links lead to a file.
LEMMA FollowedFile ==
  ASSUME NEW c, NEW e, NEW b
  PROVE  /\ c \in {"stat", "open", "presignget"} => Followed(c, e, "file", b) = Tells(b, "file")
         /\ c \in {"readdir", "mkdir"} => Followed(c, e, "file", b) = Tells(b, "notdir")
         /\ c = "excl" => Followed(c, e, "file", b) = Tells(b, "exist")
         /\ c = "presignput" => Followed(c, e, "file", b) = Tells(b, "ok")
         /\ c = "create" => Followed(c, e, "file", b) = Makes(b, e, Object("file", <<>>))
BY DEF Followed

\* Where they lead to a directory.
LEMMA FollowedDir ==
  ASSUME NEW c, NEW e, NEW b
  PROVE  /\ c = "stat" => Followed(c, e, "dir", b) = Tells(b, "dir")
         /\ c \in {"open", "presignget", "presignput", "create", "excl"} =>
              Followed(c, e, "dir", b) = Tells(b, "isdir")
         /\ c = "mkdir" => Followed(c, e, "dir", b) = Tells(b, "ok")
         /\ c = "readdir" => Followed(c, e, "dir", b) = Tells(b, "list")
BY DEF Followed

\* Where they lead to nothing.
LEMMA FollowedNone ==
  ASSUME NEW c, NEW e, NEW b
  PROVE  /\ c \in {"stat", "open", "presignget", "readdir"} =>
              Followed(c, e, "none", b) = Tells(b, "notexist")
         /\ c = "presignput" => Followed(c, e, "none", b) = Tells(b, "ok")
         /\ c \in {"create", "excl"} => Followed(c, e, "none", b) = Makes(b, e, Object("file", <<>>))
         /\ c = "mkdir" => Followed(c, e, "none", b) = Makes(b, marker(e), Object("marker", <<>>))
BY DEF Followed

\* An exclusive creation through a link.
LEMMA ExpectsExcl ==
  ASSUME NEW b, NEW p, NEW q, Kind(b, LeadsTo(b, p)) # "link", IsLink(b, p), LeadsTo(b, p) # Root
  PROVE  Expected("excl", p, q, b) = Tells(b, "exist")
BY DEF Expected, Following

\* The reference for calls that do not follow links.
LEMMA ExpectsStraight ==
  ASSUME NEW c \in Literal, NEW b, NEW p, NEW q
  PROVE  Expected(c, p, q, b) = Straight(c, p, q, Kind(b, p), b)
BY DEF Expected, Following, Literal

\* The path the call was given.
Origin == IF st.call \in Following THEN st.q ELSE st.p

\* A call that returns knows nothing any more.
LEMMA DoneExact ==
  ASSUME st'.pc = "done", CallsAreExact'
  PROVE  ExactInv'
BY DEF ExactInv, KnowsInv, MovesInv

\* A call returns what the reference tells.
LEMMA ToldExact ==
  ASSUME NsInv, NEW r, Return(r), Steady, Untouched, r # "list",
         touched = {} => Expected(st.call, Origin, st.q, before) = Tells(before, r)
  PROVE  ExactInv'
<1>1. /\ st'.pc = "done" /\ st'.res = r /\ st'.call = st.call /\ st'.p = st.p /\ st'.q = st.q
  <2>1. st \in Local
    BY Types
  <2> QED
    BY <2>1 DEF Return, Local
<1>2. touched' = touched /\ before' = before /\ bucket' = bucket /\ Origin' = Origin
  BY <1>1 DEF Steady, Origin
<1>3. ASSUME touched = {}
      PROVE  LET x == Expected(st.call, Origin, st.q, before) IN r = x.res /\ bucket = x.after
  <2>1. bucket = before
    BY <1>3, SameBucket
  <2> QED
    BY <1>3, <2>1 DEF Tells
<1>4. CallsAreExact'
  <2>1. (IF st.call \in Following THEN st.q ELSE st.p)' = Origin
    BY <1>2 DEF Origin
  <2> QED
    BY <1>1, <1>2, <1>3, <2>1 DEF CallsAreExact
<1> QED
  BY <1>1, <1>4, DoneExact

\* A call goes on with what it knows.
LEMMA GotoExact ==
  ASSUME NsInv, ExactInv, st.pc \in {"resolve", "head", "dir"}, Steady,
         NEW c \in {"dir", "put", "rmdir", "list", "readdir"}, Goto(c),
         touched = {} =>
           /\ c \in {"dir", "put", "readdir"} /\ st.call \in Following => Resolved
           /\ c \in {"dir", "rmdir", "list", "readdir"} => st.p \notin DOMAIN before
           /\ c \in {"dir", "put"} /\ st.call = "excl" => st.hops = 0
           /\ c = "dir" => st.call \notin {"readdir", "readlink", "remove"}
           /\ c = "put" => \/ st.call = "create" /\ st.p \in DOMAIN before
                           \/ st.p \notin DOMAIN before /\ ~dirExists(before, st.p)
           /\ c = "readdir" => ~st.found
           /\ c = "list" => st.p # st.q /\ Under(before, st.p) # {} /\ ~IsPrefix(st.p, st.q)
  PROVE  ExactInv'
<1>1. /\ st'.pc = c /\ st'.call = st.call /\ st'.p = st.p /\ st'.q = st.q /\ st'.hops = st.hops
      /\ st'.tok = st.tok /\ st'.found = st.found /\ st'.keys = st.keys
  <2>1. st \in Local
    BY Types
  <2> QED
    BY <2>1 DEF Goto, Local
<1>2. touched' = touched /\ before' = before /\ bucket' = bucket
  BY DEF Steady
<1>3. CallsAreExact'
  BY <1>1 DEF CallsAreExact
<1>4. ASSUME touched = {} PROVE KnowsInv' /\ MovesInv'
  <2>1. st.tok = <<>>
    BY <1>4 DEF ExactInv, MovesInv
  <2>2. Resolved => Resolved'
    BY <1>1, <1>2 DEF Resolved
  <2>3. KnowsInv'
    BY <1>1, <1>2, <1>4, <2>1, <2>2 DEF KnowsInv
  <2>4. MovesInv'
    BY <1>1, <1>2, <1>4, <2>1 DEF MovesInv, Passed, Sources
  <2> QED
    BY <2>3, <2>4
<1> QED
  BY <1>2, <1>3, <1>4 DEF ExactInv

\* A path that is no link is where the links of the call lead.
LEMMA ResolvedIs ==
  ASSUME NsInv, ExactInv, touched = {}, st.pc = "resolve", ~IsLink(before, st.p)
  PROVE  Resolved /\ Origin = st.q /\ st.tok = <<>> /\ ~st.found
<1>1. /\ st.q \in Seq(Name) /\ st.p = Trail(before, st.q)[st.hops] /\ ~st.found
      /\ (st.hops > 0 => IsLink(before, st.q)) /\ st.tok = <<>>
  BY DEF ExactInv, KnowsInv, MovesInv
<1>2. IsBucket(before) /\ st.hops \in Nat /\ st.hops <= MaxDepth /\ st.call \in Following
  <2>1. st.hops \in 0 .. MaxDepth + 1
    BY Types
  <2> QED
    BY <2>1, Types, NamespaceAssumption DEF NsInv, PhaseInv
<1>3. LeadsTo(before, st.q) = st.p
  BY <1>1, <1>2, TrailEnds
<1>4. ~(st.hops > 0) => ~IsLink(before, st.q)
  <2> SUFFICES ASSUME ~(st.hops > 0) PROVE ~IsLink(before, st.q)
    OBVIOUS
  <2>1. st.hops = 0
    BY <1>2
  <2>2. Trail(before, st.q)[0] = st.q
    BY <1>1, <1>2, TrailIs
  <2> QED
    BY <1>1, <2>1, <2>2
<1> QED
  BY <1>1, <1>2, <1>3, <1>4 DEF Resolved, Origin

\* A call starts, or is refused.
LEMMA CallExact ==
  ASSUME NsInv, NEW c \in Following \cup Literal, NEW p \in Path \cup {Root}, NEW q,
         c \in Following => q = p, Call(c, p, q)
  PROVE  ExactInv'
<1>1. before' = bucket /\ bucket' = bucket /\ touched' = {} /\ IsBucket(bucket)
  BY Types DEF Call, NsInv, PhaseInv
<1> DEFINE refused == p = Root \/ (c = "rename" /\ q = Root)
           pc == IF c \in Following THEN "resolve" ELSE IF refused THEN "done" ELSE "head"
           res == IF c \in Following \/ ~refused THEN "none"
                  ELSE IF c = "lstat" THEN "dir" ELSE "refused"
<1>2. st' = [Idle EXCEPT !.call = c, !.p = p, !.q = q, !.pc = pc, !.res = res]
  BY DEF Call
<1>3. p \in Seq(Name)
  <2>1. Path \subseteq Seq(Name) /\ Root \in Seq(Name)
    BY NamespaceAssumption DEF Root
  <2> QED
    BY <2>1
<1>4. /\ st'.pc = pc /\ st'.call = c /\ st'.q = q /\ st'.p = p /\ st'.res = res
      /\ st'.hops = 0 /\ st'.tok = <<>> /\ st'.found = FALSE
  <2> HIDE DEF pc, res
  <2> QED
    BY <1>2 DEF Idle
<1>5. CASE c \in Following
  <2>1. st'.pc = "resolve" /\ q = p
    BY <1>4, <1>5
  <2>2. Trail(bucket, p)[0] = p
    BY <1>1, <1>3, TrailIs
  <2>3. CallsAreExact'
    BY <2>1 DEF CallsAreExact
  <2>4. ~(0 > 0)
    OBVIOUS
  <2>5. KnowsInv'
    BY <1>1, <1>3, <1>4, <2>1, <2>2, <2>4 DEF KnowsInv
  <2>6. MovesInv'
    BY <1>4, <2>1 DEF MovesInv
  <2> QED
    BY <2>3, <2>5, <2>6 DEF ExactInv
<1>6. CASE c \notin Following /\ ~refused
  <2>1. st'.pc = "head"
    BY <1>4, <1>6
  <2> QED
    BY <1>4, <2>1 DEF ExactInv, CallsAreExact, KnowsInv, MovesInv
<1>7. CASE c \notin Following /\ refused
  <2>1. st'.pc = "done" /\ st'.res = IF c = "lstat" THEN "dir" ELSE "refused"
    BY <1>4, <1>7
  <2>2. c \in Literal /\ c # "readlink"
    BY <1>7 DEF Call, Literal
  <2>3. p = Root => Kind(bucket, p) = "dir"
    BY <1>1, <1>3, KindIs DEF dirExists
  <2>4. Straight(c, p, q, Kind(bucket, p), bucket) = Tells(bucket, st'.res)
    <3>1. c \in {"lstat", "symlink", "remove", "rename"}
      BY <2>2 DEF Literal
    <3>2. CASE c = "lstat"
      BY <1>7, <2>1, <2>3, <3>2 DEF Straight
    <3>3. CASE c = "symlink"
      BY <1>7, <2>1, <3>3 DEF Straight
    <3>4. CASE c = "remove"
      BY <1>7, <2>1, <3>4 DEF Straight
    <3>5. CASE c = "rename"
      BY <1>7, <2>1, <3>5 DEF Straight
    <3> QED
      BY <3>1, <3>2, <3>3, <3>4, <3>5
  <2>5. Expected(c, p, q, bucket) = Tells(bucket, st'.res)
    BY <2>2, <2>4, ExpectsStraight
  <2>6. st'.res # "list"
    BY <2>1
  <2>7. CallsAreExact'
    BY <1>1, <1>4, <1>7, <2>5, <2>6 DEF CallsAreExact, Tells
  <2> QED
    BY <2>1, <2>7, DoneExact
<1> QED
  BY <1>5, <1>6, <1>7

\* A link is followed, or there are too many.
LEMMA ResolveLinkExact ==
  ASSUME NsInv, ExactInv, ResolveLink
  PROVE  ExactInv'
<1>1. /\ st.pc = "resolve" /\ IsLink(bucket, st.p) /\ Steady /\ st \in Local /\ Untouched
      /\ st.hops \in Nat /\ st.hops <= MaxDepth /\ st.call \in Following
  <2>1. st.hops \in 0 .. MaxDepth + 1
    BY Types
  <2> QED
    BY <2>1, Types, NamespaceAssumption DEF ResolveLink, NsInv, PhaseInv, KeptInv
<1>2. touched' = touched /\ before' = before /\ bucket' = bucket
  BY <1>1 DEF Steady
<1>3. ASSUME touched = {}
      PROVE  /\ IsLink(before, st.p) /\ IsLink(before, st.q) /\ bucket = before
             /\ st.q \in Seq(Name) /\ st.p = Trail(before, st.q)[st.hops] /\ ~st.found
             /\ st.tok = <<>>
  <2>1. /\ st.q \in Seq(Name) /\ st.p = Trail(before, st.q)[st.hops] /\ ~st.found
        /\ (st.hops > 0 => IsLink(before, st.q)) /\ st.tok = <<>>
    BY <1>1, <1>3 DEF ExactInv, KnowsInv, MovesInv
  <2>2. bucket = before
    BY <1>1, <1>3, SameBucket
  <2>3. st.hops = 0 => st.p = st.q
    <3>1. IsBucket(before)
      BY Types
    <3>2. Trail(before, st.q)[0] = st.q
      BY <2>1, <3>1, TrailIs
    <3> QED
      BY <2>1, <3>2
  <2>4. st.hops = 0 \/ st.hops > 0
    BY <1>1
  <2> QED
    BY <1>1, <2>1, <2>2, <2>3, <2>4
<1>4. CASE TooDeep(st.hops + 1)
  <2>1. /\ st'.pc = "done" /\ st'.res = "loop" /\ st'.call = st.call /\ st'.q = st.q
    BY <1>1, <1>4 DEF ResolveLink, Local
  <2>2. st.hops = MaxDepth
    BY <1>1, <1>4, NamespaceAssumption DEF TooDeep
  <2>3. ASSUME touched = {} PROVE Expected(st.call, st.q, st.q, before) = Tells(before, "loop")
    <3>1. LeadsTo(before, st.q) = st.p
      BY <1>3, <2>2, <2>3, Types, TrailIs
    <3>2. Kind(before, LeadsTo(before, st.q)) = "link"
      BY <1>3, <2>3, <3>1, Types, KindIs
    <3> QED
      BY <1>1, <3>2, ExpectsLoop
  <2>4. CallsAreExact'
    BY <1>1, <1>2, <1>3, <2>1, <2>3 DEF CallsAreExact, Tells
  <2> QED
    BY <2>1, <2>4, DoneExact
<1>5. CASE ~TooDeep(st.hops + 1)
  <2>1. /\ st'.pc = "resolve" /\ st'.p = Follow(bucket, st.p) /\ st'.hops = st.hops + 1
        /\ st'.call = st.call /\ st'.q = st.q /\ st'.tok = st.tok /\ st'.found = st.found
    BY <1>1, <1>5 DEF ResolveLink, Local
  <2>2. CallsAreExact'
    BY <2>1 DEF CallsAreExact
  <2>3. ASSUME touched = {} PROVE KnowsInv' /\ MovesInv'
    <3>1. Trail(before, st.q)[st.hops + 1] = Follow(before, st.p)
      <4>1. Trail(before, st.q)[st.hops + 1] = Hop(before, st.p)
        <5>1. IsBucket(before) /\ st.q \in Seq(Name) /\ st.p = Trail(before, st.q)[st.hops]
          BY <1>3, <2>3, Types
        <5>2. st.hops \in Nat
          BY <1>1
        <5>3. Trail(before, st.q)[st.hops + 1] = Hop(before, Trail(before, st.q)[st.hops])
          BY <5>1, <5>2, TrailStep
        <5> QED
          BY <5>1, <5>3
      <4> QED
        BY <1>3, <2>3, <4>1 DEF Hop
    <3> QED
      BY <1>2, <1>3, <2>1, <2>3, <3>1 DEF KnowsInv, MovesInv
  <2> QED
    BY <1>2, <2>2, <2>3 DEF ExactInv
<1> QED
  BY <1>4, <1>5

\* The links lead to a file.
LEMMA ResolveFileExact ==
  ASSUME NsInv, ExactInv, ResolveFile
  PROVE  ExactInv'
<1>1. /\ st.pc = "resolve" /\ st.call \in Following /\ Steady /\ Untouched
      /\ st.p \in DOMAIN bucket /\ ~IsLink(bucket, st.p)
  BY DEF ResolveFile, NsInv, PhaseInv, KeptInv
<1>2. ASSUME touched = {}
      PROVE  /\ st.p \in DOMAIN before /\ Resolved /\ Origin = st.q /\ st.p # Root
             /\ Kind(before, LeadsTo(before, st.q)) = "file" /\ LeadsTo(before, st.q) = st.p
  <2>1. bucket = before
    BY <1>1, <1>2, SameBucket
  <2>2. st.p \in DOMAIN before /\ Resolved /\ Origin = st.q
    BY <1>1, <1>2, <2>1, ResolvedIs
  <2>3. Kind(before, st.p) = "file" /\ st.p # Root
    BY <1>1, <2>1, Types, KindIs
  <2> QED
    BY <2>2, <2>3 DEF Resolved
<1>3. CASE st.call = "create"
  <2>1. Goto("put")
    BY <1>3 DEF ResolveFile
  <2> QED
    BY <1>1, <1>2, <1>3, <2>1, GotoExact
<1>4. CASE st.call # "create"
  <2> DEFINE r == IF st.call \in {"stat", "open", "presignget"} THEN "file"
                  ELSE IF st.call \in {"readdir", "mkdir"} THEN "notdir"
                  ELSE IF st.call = "excl" THEN "exist" ELSE "ok"
  <2>1. Return(r) /\ r # "list"
    BY <1>1, <1>4 DEF ResolveFile, Following
  <2>2. ASSUME touched = {} PROVE Expected(st.call, Origin, st.q, before) = Tells(before, r)
    <3> DEFINE e == LeadsTo(before, st.q)
    <3>1. Origin = st.q /\ Kind(before, e) = "file" /\ e # Root
      BY <1>2, <2>2
    <3> HIDE DEF e
    <3>2. CASE st.call = "excl" /\ IsLink(before, st.q)
      BY <3>1, <3>2, ExpectsExcl DEF e
    <3>3. CASE ~(st.call = "excl" /\ IsLink(before, st.q))
      <4>1. Expected(st.call, st.q, st.q, before) = Followed(st.call, e, "file", before)
        BY <1>1, <3>1, <3>3, ExpectsFollowed DEF e
      <4>2. Followed(st.call, e, "file", before) = Tells(before, r)
        BY <1>1, <1>4, FollowedFile DEF Following
      <4> QED
        BY <3>1, <4>1, <4>2
    <3> QED
      BY <3>2, <3>3
  <2> HIDE DEF r
  <2> QED
    BY <1>1, <2>1, <2>2, ToldExact
<1> QED
  BY <1>3, <1>4

\* The links lead to no object.
LEMMA ResolveNoneExact ==
  ASSUME NsInv, ExactInv, ResolveNone
  PROVE  ExactInv'
<1>1. /\ st.pc = "resolve" /\ st.call \in Following /\ Steady /\ Untouched
      /\ st.p \notin DOMAIN bucket
  BY DEF ResolveNone, NsInv, PhaseInv, KeptInv
<1>2. ASSUME touched = {}
      PROVE  /\ st.p \notin DOMAIN before /\ Resolved /\ Origin = st.q /\ ~st.found
             /\ LeadsTo(before, st.q) = st.p /\ (st.hops > 0 <=> IsLink(before, st.q))
             /\ Kind(before, st.p) = IF dirExists(before, st.p) THEN "dir" ELSE "none"
  <2>1. bucket = before
    BY <1>1, <1>2, SameBucket
  <2>2. st.p \notin DOMAIN before /\ Resolved /\ Origin = st.q /\ ~st.found
    BY <1>1, <1>2, <2>1, ResolvedIs DEF IsLink
  <2>3. Kind(before, st.p) = IF dirExists(before, st.p) THEN "dir" ELSE "none"
    BY <2>2, Types, KindIs
  <2> QED
    BY <2>2, <2>3 DEF Resolved
<1>3. CASE st.call = "readdir"
  <2>1. Goto("readdir")
    BY <1>3 DEF ResolveNone
  <2> QED
    BY <1>1, <1>2, <1>3, <2>1, GotoExact
<1>4. CASE st.call # "readdir" /\ st.p = Root
  <2> DEFINE r == IF st.call = "stat" THEN "dir" ELSE IF st.call = "mkdir" THEN "ok" ELSE "isdir"
  <2>1. Return(r) /\ r # "list"
    BY <1>1, <1>4 DEF ResolveNone
  <2>2. ASSUME touched = {} PROVE Expected(st.call, Origin, st.q, before) = Tells(before, r)
    <3> DEFINE e == LeadsTo(before, st.q)
    <3>1. Origin = st.q /\ Kind(before, e) = "dir" /\ e = Root
      BY <1>2, <1>4, <2>2 DEF dirExists
    <3> HIDE DEF e
    <3>2. Expected(st.call, st.q, st.q, before) = Followed(st.call, e, "dir", before)
      BY <1>1, <3>1, ExpectsFollowed DEF e
    <3>3. Followed(st.call, e, "dir", before) = Tells(before, r)
      BY <1>1, <1>4, FollowedDir DEF Following
    <3> QED
      BY <3>1, <3>2, <3>3
  <2> HIDE DEF r
  <2> QED
    BY <1>1, <2>1, <2>2, ToldExact
<1>5. CASE st.call = "excl" /\ st.p # Root /\ st.hops > 0
  <2>1. Return("exist")
    BY <1>5 DEF ResolveNone
  <2>2. ASSUME touched = {} PROVE Expected(st.call, Origin, st.q, before) = Tells(before, "exist")
    BY <1>2, <1>5, <2>2, ExpectsExcl
  <2> QED
    BY <1>1, <2>1, <2>2, ToldExact
<1>6. CASE st.call # "readdir" /\ st.p # Root /\ ~(st.call = "excl" /\ st.hops > 0)
  <2>1. Goto("dir")
    BY <1>6 DEF ResolveNone
  <2>2. st.call = "excl" => st.hops = 0
    <3>1. st.hops \in 0 .. MaxDepth + 1
      BY Types
    <3> QED
      BY <1>6, <3>1, NamespaceAssumption
  <2>3. st.call \notin {"readdir", "readlink", "remove"}
    BY <1>1, <1>6 DEF Following
  <2> QED
    BY <1>1, <1>2, <2>1, <2>2, <2>3, GotoExact
<1> QED
  BY <1>3, <1>4, <1>5, <1>6

\* The reference for a call at a path that is no object.
LEMMA DirExpects ==
  ASSUME NsInv, ExactInv, st.pc = "dir", touched = {}
  PROVE  LET k == IF dirExists(before, st.p) THEN "dir" ELSE "none" IN
         /\ bucket = before /\ st.p \notin DOMAIN before
         /\ st.call \in Following =>
              /\ Resolved
              /\ Expected(st.call, Origin, st.q, before) = Followed(st.call, st.p, k, before)
         /\ st.call \in Literal =>
              Expected(st.call, Origin, st.q, before) = Straight(st.call, st.p, st.q, k, before)
<1> DEFINE k == IF dirExists(before, st.p) THEN "dir" ELSE "none"
<1>1. Untouched /\ st.p \notin DOMAIN before /\ (st.call \in Following => Resolved)
      /\ (st.call = "excl" => st.hops = 0)
  BY DEF NsInv, KeptInv, ExactInv, KnowsInv
<1>2. bucket = before
  BY <1>1, SameBucket
<1>3. Kind(before, st.p) = k
  BY <1>1, Types, KindIs
<1>4. k # "link"
  OBVIOUS
<1> HIDE DEF k
<1>5. ASSUME st.call \in Following
      PROVE  Expected(st.call, Origin, st.q, before) = Followed(st.call, st.p, k, before)
  <2>1. Origin = st.q /\ LeadsTo(before, st.q) = st.p /\ (st.call = "excl" => ~IsLink(before, st.q))
    <3>1. ~(0 > 0)
      OBVIOUS
    <3> QED
      BY <1>1, <1>5, <3>1 DEF Origin, Resolved
  <2> QED
    BY <1>3, <1>4, <1>5, <2>1, ExpectsFollowed
<1>6. ASSUME st.call \in Literal
      PROVE  Expected(st.call, Origin, st.q, before) = Straight(st.call, st.p, st.q, k, before)
  <2>1. Origin = st.p
    BY <1>6 DEF Origin, Following, Literal
  <2> QED
    BY <1>3, <1>6, <2>1, ExpectsStraight
<1> QED
  BY <1>1, <1>2, <1>5, <1>6 DEF k

\* A directory or nothing, for calls that only tell.
LEMMA DirToldExact ==
  ASSUME NsInv, ExactInv, DirTold
  PROVE  ExactInv'
<1> DEFINE is == dirExists(bucket, st.p)
           k == IF is THEN "dir" ELSE "none"
           r == IF st.call \in {"stat", "lstat"} THEN IF is THEN "dir" ELSE "notexist"
                ELSE IF st.call = "presignput" THEN IF is THEN "isdir" ELSE "ok"
                ELSE IF is THEN "isdir" ELSE "notexist"
<1>1. /\ st.pc = "dir" /\ Steady /\ Untouched
      /\ st.call \in {"stat", "lstat", "open", "presignget", "presignput"}
  BY DEF DirTold, NsInv, KeptInv
<1>2. Return(r)
  <2> HIDE DEF is
  <2> QED
    BY <1>1 DEF DirTold, is
<1>3. r # "list"
  OBVIOUS
<1>4. ASSUME touched = {} PROVE Expected(st.call, Origin, st.q, before) = Tells(before, r)
  <2>1. bucket = before
    BY <1>1, <1>4, DirExpects
  <2>2. st.call # "lstat" => st.call \in Following
    BY <1>1 DEF Following
  <2>3. st.call = "lstat" => st.call \in Literal
    BY DEF Literal
  <2>4. /\ st.call # "lstat" =>
             Expected(st.call, Origin, st.q, before) = Followed(st.call, st.p, k, before)
        /\ st.call = "lstat" =>
             Expected(st.call, Origin, st.q, before) = Straight(st.call, st.p, st.q, k, before)
    BY <1>1, <1>4, <2>1, <2>2, <2>3, DirExpects
  <2>5. st.call = "lstat" => Straight(st.call, st.p, st.q, k, before) = Tells(before, r)
    BY DEF Straight
  <2>6. st.call # "lstat" => Followed(st.call, st.p, k, before) = Tells(before, r)
    <3> HIDE DEF is
    <3>1. CASE is
      BY <1>1, <3>1, FollowedDir
    <3>2. CASE ~is
      BY <1>1, <3>2, FollowedNone
    <3> QED
      BY <3>1, <3>2
  <2> QED
    BY <2>4, <2>5, <2>6
<1> HIDE DEF r
<1> QED
  BY <1>1, <1>2, <1>3, <1>4, ToldExact

\* The same for calls that go on.
LEMMA DirExact ==
  ASSUME NsInv, ExactInv, Dir
  PROVE  ExactInv'
<1> DEFINE is == dirExists(bucket, st.p)
           k == IF is THEN "dir" ELSE "none"
<1>1. /\ st.pc = "dir" /\ Steady /\ Untouched /\ st.p # Root
      /\ st.call \in {"create", "excl", "mkdir", "symlink", "rename"}
      /\ (st.call = "rename" => st.q # Root)
  BY DEF Dir, NsInv, PhaseInv, KeptInv
<1>2. /\ st.call \in {"create", "excl", "mkdir"} => st.call \in Following
      /\ st.call \in {"symlink", "rename"} => st.call \in Literal /\ st.call \notin Following
  BY DEF Following, Literal
<1>3. ASSUME touched = {}
      PROVE  /\ bucket = before /\ st.p \notin DOMAIN before
             /\ st.call \in Following => Resolved
             /\ st.call \in {"create", "excl", "mkdir"} =>
                  Expected(st.call, Origin, st.q, before) = Followed(st.call, st.p, k, before)
             /\ st.call \in {"symlink", "rename"} =>
                  Expected(st.call, Origin, st.q, before) = Straight(st.call, st.p, st.q, k, before)
             /\ st.call = "excl" => st.hops = 0
  <2>1. bucket = before /\ st.p \notin DOMAIN before
    BY <1>1, <1>3, DirExpects
  <2>2. st.call = "excl" => st.hops = 0
    BY <1>1, <1>3 DEF ExactInv, KnowsInv
  <2> QED
    BY <1>1, <1>2, <1>3, <2>1, <2>2, DirExpects
<1>4. ASSUME NEW r, Return(r), r # "list",
             st.call \in {"create", "excl", "mkdir"} =>
               Followed(st.call, st.p, k, before) = Tells(before, r),
             st.call \in {"symlink", "rename"} =>
               Straight(st.call, st.p, st.q, k, before) = Tells(before, r)
      PROVE  ExactInv'
  BY <1>1, <1>3, <1>4, ToldExact
<1>5. ASSUME Goto("put"), ~is, st.call # "rename" PROVE ExactInv'
  <2>1. touched = {} =>
          /\ "put" \in {"dir", "put", "readdir"} /\ st.call \in Following => Resolved
          /\ st.call = "excl" => st.hops = 0
          /\ st.p \notin DOMAIN before /\ ~dirExists(before, st.p)
    BY <1>3, <1>5
  <2> QED
    BY <1>1, <1>5, <2>1, GotoExact
<1>6. CASE st.call \in {"create", "excl"}
  <2>1. CASE is
    <3>1. Return("isdir")
      BY <1>6, <2>1 DEF Dir
    <3>2. Followed(st.call, st.p, k, before) = Tells(before, "isdir")
      BY <1>6, <2>1, FollowedDir
    <3> QED
      BY <1>4, <1>6, <3>1, <3>2
  <2>2. CASE ~is
    BY <1>5, <1>6, <2>2 DEF Dir
  <2> QED
    BY <2>1, <2>2
<1>7. CASE st.call = "mkdir"
  <2>1. CASE is
    <3>1. Return("ok")
      BY <1>7, <2>1 DEF Dir
    <3>2. Followed(st.call, st.p, k, before) = Tells(before, "ok")
      BY <1>7, <2>1, FollowedDir
    <3> QED
      BY <1>4, <1>7, <3>1, <3>2
  <2>2. CASE ~is
    BY <1>5, <1>7, <2>2 DEF Dir
  <2> QED
    BY <2>1, <2>2
<1>8. CASE st.call = "symlink"
  <2>1. CASE is
    <3>1. Return("exist")
      BY <1>8, <2>1 DEF Dir
    <3>2. Straight(st.call, st.p, st.q, k, before) = Tells(before, "exist")
      BY <1>1, <1>8, <2>1 DEF Straight
    <3> QED
      BY <1>4, <1>8, <3>1, <3>2
  <2>2. CASE ~is
    BY <1>5, <1>8, <2>2 DEF Dir
  <2> QED
    BY <2>1, <2>2
<1>9. CASE st.call = "rename"
  <2>1. CASE ~is
    <3>1. Return("notexist")
      BY <1>9, <2>1 DEF Dir
    <3>2. Straight(st.call, st.p, st.q, k, before) = Tells(before, "notexist")
      BY <1>1, <1>9, <2>1 DEF Straight
    <3> QED
      BY <1>4, <1>9, <3>1, <3>2
  <2>2. CASE is /\ st.p = st.q
    <3>1. Return("ok")
      BY <1>9, <2>2 DEF Dir
    <3>2. Straight(st.call, st.p, st.q, k, before) = Tells(before, "ok")
      BY <1>1, <1>9, <2>2 DEF Straight
    <3> QED
      BY <1>4, <1>9, <3>1, <3>2
  <2>3. CASE is /\ st.p # st.q /\ IsPrefix(st.p, st.q)
    <3>1. Return("invalid")
      BY <1>9, <2>3 DEF Dir
    <3>2. Straight(st.call, st.p, st.q, k, before) = Tells(before, "invalid")
      BY <1>1, <1>9, <2>3 DEF Straight
    <3> QED
      BY <1>4, <1>9, <3>1, <3>2
  <2>4. CASE is /\ st.p # st.q /\ ~IsPrefix(st.p, st.q)
    <3>1. Goto("list")
      BY <1>9, <2>4 DEF Dir
    <3>2. touched = {} => Under(before, st.p) # {} /\ st.p \notin DOMAIN before
      BY <1>1, <1>3, <2>4 DEF dirExists
    <3> QED
      BY <1>1, <1>2, <1>9, <2>4, <3>1, <3>2, GotoExact
  <2> QED
    BY <2>1, <2>2, <2>3, <2>4
<1> QED
  BY <1>1, <1>6, <1>7, <1>8, <1>9

\* A rename starts with the bucket as it is.
LEMMA MovingStarts ==
  ASSUME NEW b, NEW p, NEW q
  PROVE  Moving(b, b, p, q, {}, {})
BY DEF Moving

\* A rename or a removal of one object starts.
LEMMA WorkExact ==
  ASSUME NsInv, ExactInv, st.pc \in {"head", "rmdir"}, Steady, Untouched,
         NEW c \in {"copy", "delete"}, NEW k, st' = [st EXCEPT !.pc = c, !.keys = <<k>>],
         c = "copy" =>
           st.call = "rename" /\ (touched = {} => k = st.p /\ st.p \in DOMAIN before /\ st.p # st.q),
         c = "delete" =>
           /\ st.call = "remove"
           /\ touched = {} =>
                \/ st.p \in DOMAIN before /\ k = st.p
                \/ /\ st.p \notin DOMAIN before /\ Under(before, st.p) = {marker(st.p)}
                   /\ k = marker(st.p)
  PROVE  ExactInv'
<1> DEFINE ks == <<k>>
<1>1. st \in Local /\ st' = [st EXCEPT !.pc = c, !.keys = ks]
  BY Types
<1>2. Len(ks) = 1 /\ ks[1] = k
  OBVIOUS
<1> HIDE DEF ks
<1>3. /\ st'.pc = c /\ st'.call = st.call /\ st'.p = st.p /\ st'.q = st.q /\ st'.keys = ks
      /\ st'.i = st.i
  BY <1>1 DEF Local
<1>4. touched' = touched /\ before' = before /\ bucket' = bucket /\ st.i = 1
  BY DEF Steady, NsInv, PhaseInv
<1>5. CallsAreExact'
  BY <1>3 DEF CallsAreExact
<1>6. ASSUME touched = {} PROVE KnowsInv' /\ MovesInv'
  <2>1. KnowsInv'
    BY <1>3 DEF KnowsInv
  <2>2. CASE c = "copy"
    <3>1. k = st.p /\ st.p \in DOMAIN before /\ st.p # st.q
      BY <1>6, <2>2
    <3>2. Sources(before, st.p) = {k}
      BY <3>1 DEF Sources
    <3>3. Upfront(Len(st.keys))' = {k}
      BY <1>2, <1>3 DEF Upfront
    <3>4. Upfront(st.i - 1)' = {}
      <4>1. 1 .. (1 - 1) = {}
        OBVIOUS
      <4> QED
        BY <1>3, <1>4, <4>1 DEF Upfront
    <3>5. Moving(bucket, before, st.p, st.q, {}, {})
      BY <1>6, SameBucket, MovingStarts
    <3> QED
      BY <1>3, <1>4, <2>1, <2>2, <3>1, <3>2, <3>3, <3>4, <3>5 DEF MovesInv, Sources, Moving
  <2>3. CASE c = "delete"
    <3>1. st.call = "remove"
      BY <2>3
    <3> QED
      BY <1>3, <1>4, <1>6, <2>1, <2>3, <3>1 DEF MovesInv, ks
  <2> QED
    BY <2>2, <2>3
<1> QED
  BY <1>4, <1>5, <1>6 DEF ExactInv

\* The first request of a call that does not follow links.
LEMMA HeadLiteralExact ==
  ASSUME NsInv, ExactInv, HeadLiteral
  PROVE  ExactInv'
<1>1. /\ st.pc = "head" /\ st.call \in Literal /\ Steady /\ Untouched /\ st.p # Root
      /\ st.p \in Seq(Name) /\ (st.call = "rename" => st.q # Root)
  BY Types DEF HeadLiteral, NsInv, PhaseInv, KeptInv
<1>2. st.call \notin Following /\ Origin = st.p
  BY <1>1 DEF Literal, Following, Origin
<1>3. touched = {} => bucket = before
  BY <1>1, SameBucket
<1>4. ASSUME NEW r, Return(r), r # "list",
             touched = {} => Straight(st.call, st.p, st.q, Kind(before, st.p), before) = Tells(before, r)
      PROVE  ExactInv'
  BY <1>1, <1>2, <1>4, ExpectsStraight, ToldExact
<1>5. CASE st.p \in DOMAIN bucket
  <2> DEFINE k == bucket[st.p].kind
  <2>1. k \in {"file", "link"} /\ Kind(bucket, st.p) = k
    BY <1>1, <1>5, Types, KindIs DEF Kind
  <2>2. (IsLink(bucket, st.p)) <=> k = "link"
    BY <1>5 DEF IsLink
  <2>3. touched = {} => Kind(before, st.p) = k /\ st.p \in DOMAIN before
    BY <1>3, <1>5, <2>1
  <2> HIDE DEF k
  <2>4. CASE st.call = "lstat"
    <3>1. Return(k)
      BY <1>5, <2>4 DEF HeadLiteral, k
    <3>2. Straight(st.call, st.p, st.q, k, before) = Tells(before, k)
      BY <2>1, <2>4 DEF Straight
    <3> QED
      BY <1>4, <2>1, <2>3, <3>1, <3>2
  <2>5. CASE st.call = "readlink"
    <3> DEFINE r == IF k = "link" THEN "target" ELSE "invalid"
    <3>1. Return(r) /\ r # "list"
      BY <1>5, <2>2, <2>5 DEF HeadLiteral
    <3>2. Straight(st.call, st.p, st.q, k, before) = Tells(before, r)
      BY <2>1, <2>5 DEF Straight
    <3> QED
      BY <1>4, <2>3, <3>1, <3>2
  <2>6. CASE st.call = "symlink"
    <3>1. Return("exist")
      BY <1>5, <2>6 DEF HeadLiteral
    <3>2. Straight(st.call, st.p, st.q, k, before) = Tells(before, "exist")
      BY <1>1, <2>1, <2>6 DEF Straight
    <3> QED
      BY <1>4, <2>3, <3>1, <3>2
  <2>7. CASE st.call = "rename" /\ st.p = st.q
    <3>1. Return("ok")
      BY <1>5, <2>7 DEF HeadLiteral
    <3>2. Straight(st.call, st.p, st.q, k, before) = Tells(before, "ok")
      BY <1>1, <2>1, <2>7 DEF Straight
    <3> QED
      BY <1>4, <2>3, <3>1, <3>2
  <2>8. CASE st.call = "rename" /\ st.p # st.q
    <3>1. st' = [st EXCEPT !.pc = "copy", !.keys = <<st.p>>]
      BY <1>5, <2>8 DEF HeadLiteral
    <3> QED
      BY <1>1, <2>3, <2>8, <3>1, WorkExact
  <2>9. CASE st.call = "remove"
    <3>1. st' = [st EXCEPT !.pc = "delete", !.keys = <<st.p>>]
      BY <1>5, <2>9 DEF HeadLiteral
    <3> QED
      BY <1>1, <2>3, <2>9, <3>1, WorkExact
  <2> QED
    BY <1>1, <2>4, <2>5, <2>6, <2>7, <2>8, <2>9 DEF Literal
<1>6. CASE st.p \notin DOMAIN bucket
  <2>1. touched = {} => st.p \notin DOMAIN before
    BY <1>3, <1>6
  <2>2. CASE st.call = "readlink"
    <3>1. Return("notexist")
      BY <1>6, <2>2 DEF HeadLiteral
    <3>2. touched = {} => Kind(before, st.p) \in {"dir", "none"}
      BY <2>1, Types, KindIs
    <3>3. \A k \in {"dir", "none"} : Straight(st.call, st.p, st.q, k, before) = Tells(before, "notexist")
      BY <2>2 DEF Straight
    <3> QED
      BY <1>4, <3>1, <3>2, <3>3
  <2>3. CASE st.call = "remove"
    <3>1. Goto("rmdir")
      BY <1>6, <2>3 DEF HeadLiteral
    <3> QED
      BY <1>1, <1>2, <2>1, <2>3, <3>1, GotoExact
  <2>4. CASE st.call \notin {"readlink", "remove"}
    <3>1. Goto("dir")
      BY <1>6, <2>4 DEF HeadLiteral
    <3>2. st.call # "readdir" /\ st.call # "excl"
      BY <1>1 DEF Literal
    <3> QED
      BY <1>1, <1>2, <2>1, <2>4, <3>1, <3>2, GotoExact
  <2> QED
    BY <2>2, <2>3, <2>4
<1> QED
  BY <1>5, <1>6

\* The removal of a directory.
LEMMA RemoveDirExact ==
  ASSUME NsInv, ExactInv, RemoveDir
  PROVE  ExactInv'
<1>1. /\ st.pc = "rmdir" /\ st.call = "remove" /\ Steady /\ Untouched /\ st.p # Root
  BY DEF RemoveDir, NsInv, PhaseInv, KeptInv
<1>2. st.call \in Literal /\ Origin = st.p
  BY <1>1 DEF Literal, Following, Origin
<1>3. ASSUME touched = {}
      PROVE  /\ bucket = before /\ st.p \notin DOMAIN before
             /\ Kind(before, st.p) = IF Under(before, st.p) = {} THEN "none" ELSE "dir"
  <2>1. st.p \notin DOMAIN before /\ bucket = before
    BY <1>1, <1>3, SameBucket DEF ExactInv, KnowsInv
  <2> QED
    BY <1>1, <2>1, Types, KindIs DEF dirExists
<1>4. ASSUME NEW r, Return(r), r # "list",
             touched = {} => Straight(st.call, st.p, st.q, Kind(before, st.p), before) = Tells(before, r)
      PROVE  ExactInv'
  BY <1>1, <1>2, <1>4, ExpectsStraight, ToldExact
<1>5. CASE Under(bucket, st.p) = {}
  <2>1. Return("notexist")
    BY <1>5 DEF RemoveDir
  <2>2. Straight(st.call, st.p, st.q, "none", before) = Tells(before, "notexist")
    BY <1>1 DEF Straight
  <2> QED
    BY <1>3, <1>4, <1>5, <2>1, <2>2
<1>6. CASE Under(bucket, st.p) # {} /\ Under(bucket, st.p) # {marker(st.p)}
  <2>1. Return("notempty")
    BY <1>6 DEF RemoveDir
  <2>2. touched = {} => Straight(st.call, st.p, st.q, "dir", before) = Tells(before, "notempty")
    BY <1>1, <1>3, <1>6 DEF Straight
  <2> QED
    BY <1>3, <1>4, <1>6, <2>1, <2>2
<1>7. CASE Under(bucket, st.p) # {} /\ Under(bucket, st.p) = {marker(st.p)}
  <2>1. st' = [st EXCEPT !.pc = "delete", !.keys = <<marker(st.p)>>]
    BY <1>7 DEF RemoveDir
  <2> QED
    BY <1>1, <1>3, <1>7, <2>1, WorkExact
<1> QED
  BY <1>5, <1>6, <1>7

\* The object is made.
LEMMA PutExact ==
  ASSUME NsInv, ExactInv, Put
  PROVE  ExactInv'
<1>1. /\ st.pc = "put" /\ Untouched /\ st.p # Root /\ bucket' = With(bucket, PutKey, PutObject)
      /\ st.call \in {"create", "excl", "mkdir", "symlink"} /\ Return("ok")
      /\ before' = before /\ touched' = touched
  BY DEF Put, With, NsInv, PhaseInv, KeptInv
<1>2. /\ st'.pc = "done" /\ st'.res = "ok" /\ st'.call = st.call /\ st'.p = st.p /\ st'.q = st.q
  <2>1. st \in Local
    BY Types
  <2> QED
    BY <1>1, <2>1 DEF Return, Local
<1>3. ASSUME touched = {}
      PROVE  Expected(st.call, Origin, st.q, before) = Makes(before, PutKey, PutObject)
  <2>1. /\ st.call \in Following => Resolved
        /\ st.call = "excl" => st.hops = 0
        /\ \/ st.call = "create" /\ st.p \in DOMAIN before
           \/ st.p \notin DOMAIN before /\ ~dirExists(before, st.p)
    BY <1>1, <1>3 DEF ExactInv, KnowsInv
  <2>2. IsBucket(before) /\ st.p \in Seq(Name)
    BY Types
  <2>3. CASE st.call \in {"create", "excl", "mkdir"}
    <3> DEFINE e == LeadsTo(before, st.q)
    <3>1. st.call \in Following /\ Origin = st.q
      BY <2>3 DEF Following, Origin
    <3>2. e = st.p /\ ~IsLink(before, st.p) /\ (st.call = "excl" => ~IsLink(before, st.q))
      <4>1. ~(0 > 0)
        OBVIOUS
      <4> QED
        BY <2>1, <3>1, <4>1 DEF Resolved
    <3>3. \/ st.call = "create" /\ Kind(before, e) = "file"
          \/ Kind(before, e) = "none"
      BY <2>1, <2>2, <3>2, KindIs
    <3> HIDE DEF e
    <3>4. Expected(st.call, st.q, st.q, before) = Followed(st.call, e, Kind(before, e), before)
      BY <3>1, <3>2, <3>3, ExpectsFollowed DEF e
    <3>5. Followed(st.call, e, Kind(before, e), before) = Makes(before, PutKey, PutObject)
      <4>1. CASE st.call = "create"
        BY <3>2, <3>3, <4>1, FollowedFile, FollowedNone DEF PutKey, PutObject
      <4>2. CASE st.call = "excl"
        BY <3>2, <3>3, <4>2, FollowedNone DEF PutKey, PutObject
      <4>3. CASE st.call = "mkdir"
        BY <3>2, <3>3, <4>3, FollowedNone DEF PutKey, PutObject
      <4> QED
        BY <2>3, <4>1, <4>2, <4>3
    <3> QED
      BY <3>1, <3>4, <3>5
  <2>4. CASE st.call = "symlink"
    <3>1. st.call \in Literal /\ Origin = st.p
      BY <2>4 DEF Literal, Following, Origin
    <3>2. Kind(before, st.p) = "none"
      BY <2>1, <2>2, <2>4, KindIs
    <3>3. Straight(st.call, st.p, st.q, "none", before) = Makes(before, PutKey, PutObject)
      BY <1>1, <2>4 DEF Straight, PutKey, PutObject
    <3> QED
      BY <3>1, <3>2, <3>3, ExpectsStraight
  <2> QED
    BY <1>1, <2>3, <2>4
<1>4. CallsAreExact'
  <2>1. (IF st.call \in Following THEN st.q ELSE st.p)' = Origin
    BY <1>2 DEF Origin
  <2>2. ASSUME touched = {}
        PROVE  LET x == Expected(st.call, Origin, st.q, before) IN x.res = "ok" /\ x.after = bucket'
    <3>1. bucket = before
      BY <1>1, <2>2, SameBucket
    <3> QED
      BY <1>1, <1>3, <2>2, <3>1 DEF Makes
  <2> QED
    BY <1>1, <1>2, <2>1, <2>2 DEF CallsAreExact
<1> QED
  BY <1>2, <1>4, DoneExact

\* A directory has entries when something is in it.
LEMMA EntriesThere ==
  ASSUME NEW b, NEW p
  PROVE  Entries(b, p) # {} => Under(b, p) # {}
BY DEF Entries

\* A page of a listing.
LEMMA ReadDirExactly ==
  ASSUME NsInv, DirInv, ExactInv, ReadDir
  PROVE  ExactInv'
<1> DEFINE S == Entries(bucket, st.p)
           es == After(S)
<1>1. /\ st.pc = "readdir" /\ Steady /\ view' = view /\ st \in Local /\ st.call = "readdir"
      /\ Untouched /\ IsBucket(before) /\ st.p \in Seq(Name)
  BY Types DEF ReadDir, NsInv, PhaseInv, KeptInv
<1>2. PICK l \in Ends(es) :
        LET page  == Upto(es, l)
            found == st.found \/ page # {}
        IN  st' = [st EXCEPT
              !.names = Enter(@, page \ {marker(st.p)}, Len(st.p) + 1),
              !.found = found,
              !.tok   = l,
              !.pc    = IF LastPage(es, page) THEN "done" ELSE @,
              !.res   = IF ~LastPage(es, page) THEN @
                        ELSE IF found \/ st.p = Root THEN "list" ELSE "notexist"]
  BY DEF ReadDir
<1> DEFINE page == Upto(es, l)
           found == st.found \/ page # {}
           last == LastPage(es, page)
<1>3. /\ st'.p = st.p /\ st'.q = st.q /\ st'.call = st.call /\ st'.tok = l /\ st'.hops = st.hops
      /\ st'.pc = IF last THEN "done" ELSE "readdir"
  BY <1>1, <1>2 DEF Local
<1>4. /\ st'.found = found /\ (last => st'.res = IF found \/ st.p = Root THEN "list" ELSE "notexist")
  BY <1>1, <1>2 DEF Local
<1>5. bucket' = bucket /\ touched' = touched /\ before' = before
  BY <1>1 DEF Steady
<1>6. /\ page \subseteq S /\ (es = {} => last) /\ (es # {} => l \in page)
      /\ (last /\ page = {} => es = {}) /\ (st.tok = <<>> => es = S)
  <2>1. es # {} => l \in page
    BY DEF Ends, Upto
  <2> QED
    BY <2>1 DEF After, Upto, LastPage
<1> HIDE DEF S, es, page, last
<1>7. ASSUME touched = {}
      PROVE  /\ bucket = before /\ st.p \notin DOMAIN before /\ Resolved
             /\ (st.found => S # {}) /\ (st.tok # <<>> => st.found)
  BY <1>1, <1>7, SameBucket DEF ExactInv, KnowsInv, Following, S
<1>8. CASE ~last
  <2>1. CallsAreExact'
    BY <1>3, <1>8 DEF CallsAreExact
  <2>2. ASSUME touched = {} PROVE KnowsInv' /\ MovesInv'
    <3>1. Resolved'
      BY <1>3, <1>5, <1>7, <2>2 DEF Resolved
    <3>2. S # {} /\ found
      BY <1>6, <1>8
    <3> QED
      BY <1>3, <1>4, <1>5, <1>7, <1>8, <2>2, <3>1, <3>2 DEF KnowsInv, MovesInv, S
  <2> QED
    BY <1>5, <2>1, <2>2 DEF ExactInv
<1>9. CASE last
  <2> DEFINE r == IF found \/ st.p = Root THEN "list" ELSE "notexist"
  <2>1. st'.pc = "done" /\ st'.res = r
    BY <1>3, <1>4, <1>9
  <2>2. ASSUME touched = {} PROVE Expected(st.call, st.q, st.q, before) = Tells(before, r)
    <3>1. Kind(before, st.p) = IF dirExists(before, st.p) THEN "dir" ELSE "none"
      BY <1>1, <1>7, <2>2, KindIs
    <3>2. found \/ st.p = Root <=> dirExists(before, st.p)
      <4>1. CASE found
        <5>1. S # {}
          BY <1>6, <1>7, <2>2, <4>1
        <5> QED
          BY <1>7, <2>2, <4>1, <5>1, EntriesThere DEF dirExists, S
      <4>2. CASE ~found /\ Under(before, st.p) # {}
        <5>1. S # {}
          <6>1. PICK k : k \in Under(before, st.p)
            BY <4>2
          <6>2. Len(k) \in Nat /\ Len(st.p) \in Nat /\ Len(st.p) < Len(k)
            BY <1>1, <6>1, UnderIs
          <6>3. Len(k) = Len(st.p) + 1 \/ Len(k) > Len(st.p) + 1
            BY <6>2
          <6> QED
            BY <1>1, <1>7, <2>2, <6>1, <6>3, EntryOf DEF S
        <5> QED
          BY <1>6, <1>7, <1>9, <2>2, <4>2, <5>1
      <4>3. CASE ~found /\ Under(before, st.p) = {}
        BY <4>3 DEF dirExists
      <4> QED
        BY <4>1, <4>2, <4>3
    <3>3. LeadsTo(before, st.q) = st.p
      BY <1>7, <2>2 DEF Resolved
    <3>4. Expected("readdir", st.q, st.q, before) =
            Followed("readdir", st.p, IF dirExists(before, st.p) THEN "dir" ELSE "none", before)
      BY <3>1, <3>3, ExpectsFollowed DEF Following
    <3> QED
      BY <1>1, <3>2, <3>4, FollowedDir, FollowedNone
  <2>3. ASSUME touched = {}, r = "list" PROVE st'.names = Children(bucket, st.p)
    <3>1. DirInv'
      BY PageDir
    <3>2. view.always \subseteq st'.names /\ st'.names \subseteq view.ever
      BY <1>1, <1>3, <2>1, <2>3, <3>1 DEF DirInv, ReadDirExact
    <3>3. /\ view.always \subseteq Children(bucket, st.p) /\ Children(bucket, st.p) \subseteq view.ever
          /\ view.always = view.ever
      BY <1>1, <2>3 DEF DirInv
    <3> QED
      BY <3>2, <3>3
  <2>4. CallsAreExact'
    <3>1. st.call \in Following
      BY <1>1 DEF Following
    <3> HIDE DEF r
    <3> QED
      BY <1>3, <1>5, <1>7, <2>1, <2>2, <2>3, <3>1 DEF CallsAreExact, Tells
  <2> QED
    BY <2>1, <2>4, DoneExact
<1> QED
  BY <1>8, <1>9

\* One object more is copied.
LEMMA MovingCopies ==
  ASSUME NEW c, NEW b, NEW p, NEW q, NEW ks, NEW k, Moving(c, b, p, q, ks, {}), k \in DOMAIN c,
         \A j \in ks : Moved(p, q, j) # k,
         \A j \in ks : Moved(p, q, j) = Moved(p, q, k) => j = k
  PROVE  Moving(With(c, Moved(p, q, k), c[k]), b, p, q, ks \cup {k}, {})
<1> DEFINE m(j) == Moved(p, q, j)
           ms == {m(j) : j \in ks}
           d == With(c, m(k), c[k])
<1>1. /\ DOMAIN c = DOMAIN b \cup ms /\ (\A j \in ks : c[m(j)] = b[j])
      /\ \A j \in DOMAIN c \ ms : c[j] = b[j]
  BY DEF Moving
<1>2. k \notin ms
  OBVIOUS
<1>3. c[k] = b[k]
  BY <1>1, <1>2
<1>4. /\ DOMAIN d = DOMAIN c \cup {m(k)} /\ d[m(k)] = c[k]
      /\ \A j \in DOMAIN c : j # m(k) => d[j] = c[j]
  BY DEF With
<1>5. {m(j) : j \in ks \cup {k}} = ms \cup {m(k)}
  OBVIOUS
<1>6. \A j \in ks : m(j) = m(k) => j = k
  OBVIOUS
<1>7. \A j \in ks : m(j) \in DOMAIN c
  BY <1>1
<1> HIDE DEF m, d
<1>8. ASSUME NEW j \in ks \cup {k} PROVE d[m(j)] = b[j]
  <2>1. CASE m(j) = m(k)
    BY <1>3, <1>4, <1>6, <2>1
  <2>2. CASE m(j) # m(k)
    BY <1>1, <1>4, <1>7, <2>2
  <2> QED
    BY <2>1, <2>2
<1> HIDE DEF ms
<1>9. ASSUME NEW j \in DOMAIN d \ (ms \cup {m(k)}) PROVE d[j] = b[j]
  BY <1>1, <1>4
<1>10. DOMAIN d = (DOMAIN b \cup (ms \cup {m(k)})) \ {}
  BY <1>1, <1>4
<1> QED
  BY <1>5, <1>8, <1>9, <1>10 DEF Moving, m, d

\* One object more is deleted.
LEMMA MovingDeletes ==
  ASSUME NEW c, NEW b, NEW p, NEW q, NEW ks, NEW ds, NEW k, Moving(c, b, p, q, ks, ds),
         \A j \in ks : Moved(p, q, j) # k /\ Moved(p, q, j) \notin ds
  PROVE  Moving(Without(c, k), b, p, q, ks, ds \cup {k})
<1> DEFINE m(j) == Moved(p, q, j)
           ms == {m(j) : j \in ks}
           d == Without(c, k)
<1>1. /\ DOMAIN c = (DOMAIN b \cup ms) \ ds /\ (\A j \in ks : c[m(j)] = b[j])
      /\ \A j \in DOMAIN c \ ms : c[j] = b[j]
  BY DEF Moving
<1>2. DOMAIN d = DOMAIN c \ {k} /\ \A j \in DOMAIN c : j # k => d[j] = c[j]
  BY DEF Without
<1>3. \A j \in ks : m(j) \in DOMAIN c /\ m(j) # k
  BY <1>1
<1> HIDE DEF m, d
<1>4. \A j \in ks : d[m(j)] = b[j]
  BY <1>1, <1>2, <1>3
<1> HIDE DEF ms
<1>5. \A j \in DOMAIN d \ ms : d[j] = b[j]
  BY <1>1, <1>2
<1>6. DOMAIN d = (DOMAIN b \cup ms) \ (ds \cup {k})
  BY <1>1, <1>2
<1> QED
  BY <1>4, <1>5, <1>6 DEF Moving, m, d, ms

\* Once all is copied and deleted the path is renamed.
LEMMA MovingEnds ==
  ASSUME NEW c, NEW b, NEW p, NEW q, NEW ks, ks = Sources(b, p), Moving(c, b, p, q, ks, ks),
         c = [j \in DOMAIN c |-> c[j]],
         \A j, k \in ks : Moved(p, q, j) # k,
         \A j, k \in ks : Moved(p, q, j) = Moved(p, q, k) => j = k
  PROVE  c = Renamed(b, p, q)
<1> DEFINE m(j) == Moved(p, q, j)
           ms == {m(j) : j \in ks}
           D == (DOMAIN b \ ks) \cup ms
           f(j) == IF j \in ms THEN b[CHOOSE k \in ks : m(k) = j] ELSE b[j]
<1>1. Renamed(b, p, q) = [j \in D |-> f(j)]
  BY DEF Renamed, Sources
<1>2. /\ DOMAIN c = (DOMAIN b \cup ms) \ ks /\ (\A j \in ks : c[m(j)] = b[j])
      /\ \A j \in DOMAIN c \ ms : c[j] = b[j]
  BY DEF Moving
<1>3. DOMAIN c = D
  <2>1. \A j \in ms : j \notin ks
    OBVIOUS
  <2> HIDE DEF ms
  <2> QED
    BY <1>2, <2>1
<1>4. ASSUME NEW j \in D PROVE c[j] = f(j)
  <2>1. CASE j \in ms
    <3> DEFINE k == CHOOSE k \in ks : m(k) = j
    <3>1. k \in ks /\ m(k) = j
      BY <2>1
    <3> HIDE DEF k, m
    <3>2. c[j] = b[k]
      BY <1>2, <3>1
    <3> QED
      BY <2>1, <3>2 DEF k
  <2>2. CASE j \notin ms
    <3> HIDE DEF ms
    <3> QED
      BY <1>2, <1>3, <1>4, <2>2
  <2> QED
    BY <2>1, <2>2
<1> HIDE DEF D, f
<1>5. c = [j \in D |-> f(j)]
  BY <1>3, <1>4
<1> QED
  BY <1>1, <1>5

\* The keys of a rename stay apart from where they go.
LEMMA UpfrontApart ==
  ASSUME NsInv, st.pc \in {"copy", "delete"}, st.call = "rename", ~Overlap
  PROVE  LET K == Upfront(Len(st.keys)) IN
         /\ \A j, k \in K : Moved(st.p, st.q, j) # k
         /\ \A j, k \in K : Moved(st.p, st.q, j) = Moved(st.p, st.q, k) => j = k
<1> DEFINE K == Upfront(Len(st.keys))
<1>1. ASSUME NEW j \in K, NEW k \in K
      PROVE  /\ Moved(st.p, st.q, j) # k
             /\ Moved(st.p, st.q, j) = Moved(st.p, st.q, k) => j = k
  <2>1. PICK n \in 1 .. Len(st.keys) : j = st.keys[n]
    BY DEF Upfront
  <2>2. PICK i \in 1 .. Len(st.keys) : k = st.keys[i]
    BY DEF Upfront
  <2>3. Moved(st.p, st.q, j) # k
    BY <2>1, <2>2, Apart
  <2>4. /\ st.p \in Seq(Name) /\ st.q \in Seq(Name) /\ j \in Seq(Nat) /\ k \in Seq(Nat)
        /\ IsPrefix(st.p, j) /\ IsPrefix(st.p, k)
    BY <2>1, <2>2, RenameIs
  <2> QED
    BY <2>3, <2>4, MovedInjective
<1> HIDE DEF K
<1> QED
  BY <1>1 DEF K

\* One key more.
LEMMA UpfrontNext ==
  ASSUME NEW i \in Nat, i >= 1, Len(st.keys) \in Nat, i <= Len(st.keys)
  PROVE  /\ Upfront(i) = Upfront(i - 1) \cup {st.keys[i]}
         /\ Upfront(i) \subseteq Upfront(Len(st.keys)) /\ Upfront(i - 1) \subseteq Upfront(Len(st.keys))
         /\ Upfront(0) = {}
<1>1. 1 .. i = (1 .. (i - 1)) \cup {i} /\ 1 .. 0 = {}
  OBVIOUS
<1>2. 1 .. i \subseteq 1 .. Len(st.keys)
  OBVIOUS
<1> QED
  BY <1>1, <1>2 DEF Upfront

\* A rename goes on with a bucket that is as it should be.
LEMMA GoOnExact ==
  ASSUME NsInv, ExactInv, st.pc \in {"copy", "delete"}, st.call = "rename",
         NEW c \in {"copy", "delete"}, NEW i, st' = [st EXCEPT !.pc = c, !.i = i],
         UNCHANGED <<before, touched>>,
         touched = {} =>
           IF c = "copy" THEN Moving(bucket', before, st.p, st.q, Upfront(i - 1), {})
           ELSE Moving(bucket', before, st.p, st.q, Sources(before, st.p), Upfront(i - 1))
  PROVE  ExactInv'
<1>1. /\ st'.pc = c /\ st'.call = "rename" /\ st'.p = st.p /\ st'.q = st.q /\ st'.keys = st.keys
      /\ st'.i = i
  <2>1. st \in Local
    BY Types
  <2> QED
    BY <2>1 DEF Local
<1>2. CallsAreExact'
  BY <1>1 DEF CallsAreExact
<1>3. ASSUME touched = {} PROVE KnowsInv' /\ MovesInv'
  <2>1. KnowsInv'
    BY <1>1 DEF KnowsInv
  <2>2. /\ st.p # st.q /\ Sources(before, st.p) # {}
        /\ (st.p \notin DOMAIN before => ~IsPrefix(st.p, st.q))
        /\ Upfront(Len(st.keys)) = Sources(before, st.p)
    BY <1>3 DEF ExactInv, MovesInv
  <2>3. Upfront(Len(st.keys))' = Sources(before, st.p)
    BY <1>1, <2>2 DEF Upfront
  <2>4. Upfront(st.i - 1)' = Upfront(i - 1)
    BY <1>1 DEF Upfront
  <2> HIDE DEF Upfront
  <2>5. MovesInv'
    BY <1>1, <1>3, <2>2, <2>3, <2>4 DEF MovesInv
  <2> QED
    BY <2>1, <2>5
<1> QED
  BY <1>2, <1>3 DEF ExactInv

\* An object is copied.
LEMMA CopyExact ==
  ASSUME NsInv, ExactInv, ~Overlap, Copy
  PROVE  ExactInv'
<1>1. st.pc = "copy" /\ st.call = "rename" /\ UNCHANGED <<before, touched>> /\ st \in Local
  BY Types DEF Copy, NsInv, PhaseInv
<1>2. st.i \in 1 .. Len(st.keys) /\ Len(st.keys) \in Nat /\ st.i \in Nat /\ st.i >= 1
      /\ st.i <= Len(st.keys) /\ st.i + 1 - 1 = st.i /\ 1 - 1 = 0
  BY <1>1, RenameIs
<1> DEFINE k == st.keys[st.i]
           K == Upfront(Len(st.keys))
<1>3. CASE k \notin DOMAIN bucket
  <2>1. Return("error")
    BY <1>3 DEF Copy
  <2>2. st'.pc = "done" /\ st'.res = "error"
    BY <1>1, <2>1 DEF Return, Local
  <2> QED
    BY <2>2, DoneExact DEF CallsAreExact
<1>4. CASE k \in DOMAIN bucket
  <2>1. bucket' = With(bucket, Moved(st.p, st.q, k), bucket[k])
    BY <1>4 DEF Copy, CopiedTo, With
  <2>2. ASSUME touched = {}
        PROVE  /\ Moving(bucket', before, st.p, st.q, Upfront(st.i), {})
               /\ K = Sources(before, st.p)
    <3>1. Moving(bucket, before, st.p, st.q, Upfront(st.i - 1), {}) /\ K = Sources(before, st.p)
      BY <1>1, <2>2 DEF ExactInv, MovesInv
    <3>2. /\ \A j \in K : Moved(st.p, st.q, j) # k
          /\ \A j \in K : Moved(st.p, st.q, j) = Moved(st.p, st.q, k) => j = k
      <4>1. k \in K
        BY <1>2 DEF Upfront
      <4> QED
        BY <1>1, <4>1, UpfrontApart
    <3>3. Upfront(st.i) = Upfront(st.i - 1) \cup {k} /\ Upfront(st.i - 1) \subseteq K
      BY <1>2, UpfrontNext
    <3> HIDE DEF k, K
    <3> DEFINE u == Upfront(st.i - 1)
    <3>4. /\ Moving(bucket, before, st.p, st.q, u, {})
          /\ \A j \in u : Moved(st.p, st.q, j) # k
          /\ \A j \in u : Moved(st.p, st.q, j) = Moved(st.p, st.q, k) => j = k
      BY <3>1, <3>2, <3>3
    <3> HIDE DEF u
    <3>5. Moving(bucket', before, st.p, st.q, u \cup {k}, {})
      BY <1>4, <2>1, <3>4, MovingCopies
    <3> QED
      BY <3>1, <3>3, <3>5 DEF u
  <2>3. CASE st.i < Len(st.keys)
    <3> DEFINE c == "copy"
               i == st.i + 1
    <3>1. st' = [st EXCEPT !.pc = c, !.i = i]
      <4>1. st' = [st EXCEPT !.i = i]
        BY <1>4, <2>3 DEF Copy
      <4> HIDE DEF i
      <4> QED
        BY <1>1, <4>1 DEF Local
    <3>2. c \in {"copy", "delete"} /\ c = "copy"
      OBVIOUS
    <3>3. touched = {} => Moving(bucket', before, st.p, st.q, Upfront(i - 1), {})
      BY <1>2, <2>2
    <3> HIDE DEF c, i
    <3> QED
      BY <1>1, <3>1, <3>2, <3>3, GoOnExact
  <2>4. CASE ~(st.i < Len(st.keys))
    <3> DEFINE c == "delete"
               i == 1
    <3>1. st' = [st EXCEPT !.pc = c, !.i = i]
      BY <1>4, <2>4 DEF Copy, Work
    <3>2. c \in {"copy", "delete"} /\ c # "copy"
      OBVIOUS
    <3>3. touched = {} => Moving(bucket', before, st.p, st.q, Sources(before, st.p), Upfront(i - 1))
      <4>1. st.i = Len(st.keys)
        BY <1>2, <2>4
      <4>2. Upfront(i - 1) = {}
        BY <1>2, UpfrontNext
      <4> QED
        BY <2>2, <4>1, <4>2
    <3> HIDE DEF c, i
    <3> QED
      BY <1>1, <3>1, <3>2, <3>3, GoOnExact
  <2> QED
    BY <2>3, <2>4
<1> QED
  BY <1>3, <1>4

\* An object is deleted.
LEMMA DeleteExact ==
  ASSUME NsInv, ExactInv, ~Overlap, Delete
  PROVE  ExactInv'
<1> DEFINE k == st.keys[st.i]
           K == Upfront(Len(st.keys))
<1>1. /\ st.pc = "delete" /\ st.call \in {"rename", "remove"} /\ UNCHANGED <<before, touched>>
      /\ st \in Local /\ bucket' = Without(bucket, k) /\ st.p # Root
  BY Types DEF Delete, NsInv, PhaseInv, Without
<1>2. st.i \in 1 .. Len(st.keys) /\ Len(st.keys) \in Nat /\ st.i \in Nat /\ st.i >= 1
      /\ st.i <= Len(st.keys) /\ st.i + 1 - 1 = st.i
  BY <1>1, Types DEF NsInv, PhaseInv
<1>3. ASSUME Return("ok"), touched = {} =>
               LET x == Expected(st.call, st.p, st.q, before) IN x.res = "ok" /\ x.after = bucket'
      PROVE  ExactInv'
  <2>1. /\ st'.pc = "done" /\ st'.res = "ok" /\ st'.call = st.call /\ st'.p = st.p /\ st'.q = st.q
    BY <1>1, <1>3 DEF Return, Local
  <2>2. st.call \notin Following
    BY <1>1 DEF Following
  <2>3. CallsAreExact'
    BY <1>1, <1>3, <2>1, <2>2 DEF CallsAreExact
  <2> QED
    BY <2>1, <2>3, DoneExact
<1>4. CASE st.call = "remove"
  <2>1. Len(st.keys) = 1 /\ Untouched
    BY <1>1, <1>4 DEF NsInv, KeysInv, KeptInv
  <2>2. st.i = 1 /\ ~(st.i < Len(st.keys))
    <3> DEFINE n == Len(st.keys)
               i == st.i
    <3>1. i \in 1 .. n /\ n = 1
      BY <1>2, <2>1
    <3> HIDE DEF n, i
    <3>2. i = 1 /\ ~(i < n)
      BY <3>1
    <3> QED
      BY <3>2 DEF n, i
  <2>3. Return("ok")
    BY <2>2 DEF Delete
  <2>4. ASSUME touched = {} PROVE Expected(st.call, st.p, st.q, before) = Drops(before, k)
    <3>1. \/ st.p \in DOMAIN before /\ st.keys = <<st.p>>
          \/ /\ st.p \notin DOMAIN before /\ Under(before, st.p) = {marker(st.p)}
             /\ st.keys = <<marker(st.p)>>
      BY <1>1, <1>4, <2>4 DEF ExactInv, MovesInv
    <3>2. Expected(st.call, st.p, st.q, before) =
            Straight(st.call, st.p, st.q, Kind(before, st.p), before)
      BY <1>4, ExpectsStraight DEF Literal
    <3>3. CASE st.p \in DOMAIN before /\ st.keys = <<st.p>>
      <4>1. k = st.p /\ Kind(before, st.p) \in {"file", "link"}
        BY <2>2, <3>3, Types, KindIs
      <4>2. Straight(st.call, st.p, st.q, Kind(before, st.p), before) = Drops(before, st.p)
        BY <1>1, <1>4, <4>1 DEF Straight
      <4> QED
        BY <3>2, <4>1, <4>2
    <3>4. CASE /\ st.p \notin DOMAIN before /\ Under(before, st.p) = {marker(st.p)}
               /\ st.keys = <<marker(st.p)>>
      <4>1. k = marker(st.p) /\ Kind(before, st.p) = "dir"
        <5>1. k = marker(st.p)
          BY <2>2, <3>4
        <5>2. dirExists(before, st.p)
          BY <3>4 DEF dirExists
        <5>3. Kind(before, st.p) = "dir"
          BY <3>4, <5>2, Types, KindIs
        <5> QED
          BY <5>1, <5>3
      <4>2. Straight(st.call, st.p, st.q, "dir", before) = Drops(before, marker(st.p))
        BY <1>1, <1>4, <3>4 DEF Straight
      <4> QED
        BY <3>2, <4>1, <4>2
    <3> QED
      BY <3>1, <3>3, <3>4
  <2>5. touched = {} => bucket' = Without(before, k)
    BY <1>1, <2>1, SameBucket
  <2> HIDE DEF k
  <2> QED
    BY <1>3, <2>3, <2>4, <2>5 DEF Drops, Without
<1>5. CASE st.call = "rename"
  <2>1. ASSUME touched = {}
        PROVE  /\ Moving(bucket', before, st.p, st.q, K, Upfront(st.i))
               /\ K = Sources(before, st.p)
               /\ \A j, x \in K : Moved(st.p, st.q, j) # x
               /\ \A j, x \in K : Moved(st.p, st.q, j) = Moved(st.p, st.q, x) => j = x
    <3>1. Moving(bucket, before, st.p, st.q, K, Upfront(st.i - 1)) /\ K = Sources(before, st.p)
      BY <1>1, <1>5, <2>1 DEF ExactInv, MovesInv
    <3>2. /\ \A j, x \in K : Moved(st.p, st.q, j) # x
          /\ \A j, x \in K : Moved(st.p, st.q, j) = Moved(st.p, st.q, x) => j = x
      BY <1>1, <1>5, UpfrontApart
    <3>3. Upfront(st.i) = Upfront(st.i - 1) \cup {k} /\ Upfront(st.i - 1) \subseteq K
          /\ Upfront(st.i) \subseteq K
      BY <1>2, UpfrontNext
    <3> DEFINE u == Upfront(st.i - 1)
    <3> HIDE DEF k, K, u
    <3>4. Moving(bucket, before, st.p, st.q, K, u) /\ k \in K /\ u \subseteq K
      BY <3>1, <3>3 DEF u
    <3>5. \A j \in K : Moved(st.p, st.q, j) # k /\ Moved(st.p, st.q, j) \notin u
      BY <3>2, <3>4
    <3>6. Moving(bucket', before, st.p, st.q, K, u \cup {k})
      BY <1>1, <3>4, <3>5, MovingDeletes
    <3> QED
      BY <3>1, <3>2, <3>3, <3>6 DEF u
  <2>2. CASE st.i < Len(st.keys)
    <3> DEFINE c == "delete"
               i == st.i + 1
    <3>1. st' = [st EXCEPT !.pc = c, !.i = i]
      <4>1. st' = [st EXCEPT !.i = i]
        BY <2>2 DEF Delete
      <4> HIDE DEF i
      <4> QED
        BY <1>1, <4>1 DEF Local
    <3>2. c \in {"copy", "delete"} /\ c # "copy"
      OBVIOUS
    <3>3. touched = {} => Moving(bucket', before, st.p, st.q, Sources(before, st.p), Upfront(i - 1))
      <4> HIDE DEF K
      <4> QED
        BY <1>2, <2>1
    <3> HIDE DEF c, i
    <3> QED
      BY <1>1, <1>5, <3>1, <3>2, <3>3, GoOnExact
  <2>3. CASE ~(st.i < Len(st.keys))
    <3>1. Return("ok") /\ st.i = Len(st.keys)
      BY <1>2, <2>3 DEF Delete
    <3>2. ASSUME touched = {}
          PROVE  LET x == Expected(st.call, st.p, st.q, before) IN x.res = "ok" /\ x.after = bucket'
      <4>1. bucket' = Renamed(before, st.p, st.q)
        <5>1. bucket' = [j \in DOMAIN bucket' |-> bucket'[j]]
          BY <1>1 DEF Without
        <5>2. Moving(bucket', before, st.p, st.q, K, K)
          BY <2>1, <3>1, <3>2
        <5> HIDE DEF K
        <5> QED
          BY <2>1, <3>2, <5>1, <5>2, MovingEnds
      <4>2. /\ st.p # st.q /\ Sources(before, st.p) # {} /\ st.q # Root
            /\ (st.p \notin DOMAIN before => ~IsPrefix(st.p, st.q))
        BY <1>1, <1>5, <3>2 DEF ExactInv, MovesInv, NsInv, PhaseInv
      <4>3. /\ Kind(before, st.p) # "none"
            /\ Kind(before, st.p) = "dir" => ~IsPrefix(st.p, st.q)
        <5>1. CASE st.p \in DOMAIN before
          BY <5>1, Types, KindIs DEF Kind
        <5>2. CASE st.p \notin DOMAIN before
          BY <4>2, <5>2, Types, KindIs DEF Sources, dirExists
        <5> QED
          BY <5>1, <5>2
      <4>4. Straight(st.call, st.p, st.q, Kind(before, st.p), before) =
              [res |-> "ok", after |-> Renamed(before, st.p, st.q)]
        BY <1>1, <1>5, <4>2, <4>3 DEF Straight
      <4>5. Expected(st.call, st.p, st.q, before) =
              [res |-> "ok", after |-> Renamed(before, st.p, st.q)]
        BY <1>5, <4>4, ExpectsStraight DEF Literal
      <4> QED
        BY <4>1, <4>5
    <3> QED
      BY <1>3, <3>1, <3>2
  <2> QED
    BY <2>2, <2>3
<1> QED
  BY <1>1, <1>4, <1>5

\* A page of a listing of all keys.
LEMMA ListAllKeysExact ==
  ASSUME NsInv, ExactInv, ListAllKeys
  PROVE  ExactInv'
<1> DEFINE S == Under(bucket, st.p)
           es == After(S)
           last(l) == LastPage(es, Upto(es, l))
           keys(l) == st.keys \o Sorted(Upto(es, l))
<1>1. /\ st.pc = "list" /\ Steady /\ st.call = "rename" /\ st \in Local /\ Untouched
      /\ IsBucket(bucket) /\ st.p \in Seq(Name) /\ st.keys \in Seq(Seq(Nat)) /\ Len(st.keys) \in Nat
      /\ st.tok \in Seq(Nat) /\ st.i = 1
  BY Types DEF ListAllKeys, NsInv, PhaseInv, KeptInv, KeysInv
<1>2. PICK l \in Ends(es) :
        st' = [st EXCEPT !.keys = keys(l), !.tok = l,
                 !.pc  = IF ~last(l) THEN @ ELSE IF keys(l) = <<>> THEN "done" ELSE "copy",
                 !.res = IF last(l) /\ keys(l) = <<>> THEN "ok" ELSE @]
  BY DEF ListAllKeys
<1> DEFINE page == Upto(es, l)
           kk == keys(l)
           c == IF ~last(l) THEN "list" ELSE IF kk = <<>> THEN "done" ELSE "copy"
           r == IF last(l) /\ kk = <<>> THEN "ok" ELSE st.res
<1>3. /\ st'.pc = c /\ st'.call = st.call /\ st'.p = st.p /\ st'.q = st.q /\ st'.keys = kk
      /\ st'.i = st.i /\ st'.tok = l
  <2>1. st' = [st EXCEPT !.keys = kk, !.tok = l, !.pc = c, !.res = r]
    BY <1>1, <1>2
  <2> HIDE DEF kk, c, r
  <2> QED
    BY <1>1, <2>1 DEF Local
<1>4. bucket' = bucket /\ touched' = touched /\ before' = before
  BY <1>1 DEF Steady
<1>5. /\ S \subseteq Seq(Nat) /\ page \subseteq S /\ IsFiniteSet(page)
  <2>1. S \subseteq Seq(Nat)
    BY <1>1, UnderIs
  <2>2. IsFiniteSet(S)
    <3>1. S \subseteq DOMAIN bucket /\ IsFiniteSet(DOMAIN bucket)
      BY <1>1 DEF Under, IsBucket
    <3> QED
      BY <3>1, FS_Subset
  <2> HIDE DEF S
  <2> QED
    BY <1>1, <2>1, <2>2, PageIs
<1>6. Len(kk) \in Nat /\ page \cup Upfront(Len(st.keys)) \subseteq {kk[n] : n \in 1 .. Len(kk)}
  <2> DEFINE s == Sorted(page)
  <2>1. page \subseteq Seq(Nat) /\ IsFiniteSet(page)
    BY <1>5
  <2>2. kk = st.keys \o s
    OBVIOUS
  <2> HIDE DEF page
  <2>3. s \in Seq(page) /\ \A k \in page : \E n \in 1 .. Len(s) : s[n] = k
    BY <2>1, SortedIs
  <2> HIDE DEF s, kk
  <2>4. s \in Seq(Seq(Nat))
    BY <2>1, <2>3, SeqMonotonic
  <2>5. Len(s) \in Nat
    BY <2>4
  <2>6. /\ kk \in Seq(Seq(Nat)) /\ Len(kk) = Len(st.keys) + Len(s)
        /\ \A n \in 1 .. Len(st.keys) + Len(s) :
             kk[n] = IF n <= Len(st.keys) THEN st.keys[n] ELSE s[n - Len(st.keys)]
    BY <1>1, <2>2, <2>4, ConcatProperties
  <2>7. ASSUME NEW k \in page PROVE k \in {kk[n] : n \in 1 .. Len(kk)}
    <3>1. PICK n \in 1 .. Len(s) : s[n] = k
      BY <2>3
    <3> DEFINE x == Len(st.keys) + n
    <3>2. x \in 1 .. Len(st.keys) + Len(s) /\ ~(x <= Len(st.keys)) /\ x - Len(st.keys) = n
      BY <1>1, <2>5
    <3> HIDE DEF x
    <3>3. kk[x] = k
      BY <2>6, <3>1, <3>2
    <3> QED
      BY <2>6, <3>2, <3>3
  <2>8. ASSUME NEW n \in 1 .. Len(st.keys) PROVE st.keys[n] \in {kk[x] : x \in 1 .. Len(kk)}
    <3>1. n \in 1 .. Len(st.keys) + Len(s) /\ n <= Len(st.keys)
      BY <1>1, <2>5
    <3>2. kk[n] = st.keys[n]
      BY <2>6, <3>1
    <3> QED
      BY <2>6, <3>1, <3>2
  <2>9. Len(kk) \in Nat
    BY <1>1, <2>5, <2>6
  <2> QED
    BY <2>7, <2>8, <2>9 DEF Upfront
<1>7. ASSUME NEW k \in S, last(l) \/ k = l \/ Before(k, l) PROVE k \in page \/ Passed(k)
  <2>1. k \in es <=> st.tok = <<>> \/ Before(st.tok, k)
    BY DEF After
  <2>2. k \in es => k \in page
    BY <1>7 DEF Upto, LastPage
  <2>3. k \notin es => Passed(k)
    <3> HIDE DEF S, es
    <3> QED
      BY <1>1, <1>5, <2>1, BeforeTotal DEF Passed
  <2> QED
    BY <2>2, <2>3
<1> DEFINE U == {kk[n] : n \in 1 .. Len(kk)}
<1>8. ASSUME touched = {}
      PROVE  /\ bucket = before /\ st.p # st.q /\ st.p \notin DOMAIN before /\ S # {}
             /\ ~IsPrefix(st.p, st.q) /\ Sources(before, st.p) = S
             /\ \A k \in S : Passed(k) => k \in Upfront(Len(st.keys))
             /\ \A k \in S : last(l) \/ k = l \/ Before(k, l) => k \in U
  <2>1. bucket = before
    BY <1>1, <1>8, SameBucket
  <2>2. st.p \notin DOMAIN before /\ Sources(before, st.p) = S
    BY <1>1, <1>8, <2>1 DEF ExactInv, KnowsInv, Sources
  <2>3. /\ st.p # st.q /\ S # {} /\ ~IsPrefix(st.p, st.q)
        /\ \A k \in S : Passed(k) => k \in Upfront(Len(st.keys))
    BY <1>1, <1>8, <2>1, <2>2 DEF ExactInv, MovesInv
  <2> HIDE DEF S, page, U, last
  <2>4. \A k \in S : last(l) \/ k = l \/ Before(k, l) => k \in U
    BY <1>6, <1>7, <2>3 DEF U
  <2> QED
    BY <2>1, <2>2, <2>3, <2>4
<1>9. NsInv'
  BY ListAllKeysNs
<1> HIDE DEF S, es, page, kk, last
<1>10. (Upfront(Len(st.keys)))' = U
  BY <1>3 DEF Upfront
<1>11. CASE ~last(l)
  <2>1. st'.pc = "list"
    BY <1>3, <1>11
  <2>2. CallsAreExact'
    BY <2>1 DEF CallsAreExact
  <2>3. ASSUME touched = {} PROVE KnowsInv' /\ MovesInv'
    <3>1. KnowsInv'
      BY <1>3, <1>4, <1>8, <2>1, <2>3 DEF KnowsInv
    <3>2. \A k \in S : Passed(k)' => k \in U
      BY <1>3, <1>8, <2>3 DEF Passed
    <3>3. Under(before, st.p)' = S /\ Sources(before, st.p)' = S
      BY <1>3, <1>4, <1>8, <2>3 DEF Sources, S
    <3> HIDE DEF U
    <3> QED
      BY <1>3, <1>4, <1>8, <1>10, <2>1, <2>3, <3>1, <3>2, <3>3 DEF MovesInv, Passed
  <2> QED
    BY <1>4, <2>2, <2>3 DEF ExactInv
<1>12. CASE last(l) /\ kk = <<>>
  <2>1. st'.pc = "done"
    BY <1>3, <1>12
  <2>2. touched # {}
    <3> SUFFICES ASSUME touched = {} PROVE FALSE
      OBVIOUS
    <3>1. U = {}
      BY <1>12
    <3> QED
      BY <1>8, <1>12, <3>1
  <2>3. CallsAreExact'
    BY <1>4, <2>2 DEF CallsAreExact
  <2> QED
    BY <2>1, <2>3, DoneExact
<1>13. CASE last(l) /\ kk # <<>>
  <2>1. st'.pc = "copy" /\ st'.call = "rename"
    BY <1>1, <1>3, <1>13
  <2>2. CallsAreExact'
    BY <2>1 DEF CallsAreExact
  <2>3. ASSUME touched = {} PROVE KnowsInv' /\ MovesInv'
    <3>1. KnowsInv'
      BY <2>1 DEF KnowsInv
    <3>2. U = S
      <4>1. S \subseteq U
        BY <1>8, <1>13, <2>3
      <4>2. ASSUME NEW n \in 1 .. Len(kk) PROVE kk[n] \in S
        <5>1. IsPrefix(st.p, kk[n]) /\ kk[n] \in DOMAIN before
          BY <1>3, <1>4, <1>9, <2>1, <2>3 DEF NsInv, KeysInv
        <5>2. kk[n] # st.p
          BY <1>8, <2>3, <5>1
        <5> QED
          BY <1>8, <2>3, <5>1, <5>2 DEF S, Under, IsStrictPrefix
      <4> QED
        BY <4>1, <4>2
    <3>3. Sources(before, st.p)' = S
      BY <1>3, <1>4, <1>8, <2>3 DEF Sources, S
    <3>4. Upfront(st.i - 1)' = {}
      <4>1. 1 .. (1 - 1) = {}
        OBVIOUS
      <4> QED
        BY <1>1, <1>3, <4>1 DEF Upfront
    <3>5. Moving(bucket, before, st.p, st.q, {}, {})
      BY <1>8, <2>3, MovingStarts
    <3>6. (Moving(bucket, before, st.p, st.q, Upfront(st.i - 1), {}))'
      BY <1>3, <1>4, <3>4, <3>5 DEF Moving
    <3> HIDE DEF U
    <3> QED
      BY <1>3, <1>4, <1>8, <1>10, <2>1, <2>3, <3>1, <3>2, <3>3, <3>6 DEF MovesInv
  <2> QED
    BY <1>4, <2>2, <2>3 DEF ExactInv
<1> QED
  BY <1>11, <1>12, <1>13

\* A call that fails, or is disturbed, has nothing to be held to.
LEMMA DisturbedExact ==
  ASSUME NsInv, Fail \/ \E k \in Key : Foreign(k)
  PROVE  ExactInv'
<1>1. CASE Fail
  <2>1. st \in Local /\ Return("error")
    BY <1>1, Types DEF Fail
  <2>2. st'.pc = "done" /\ st'.res = "error"
    BY <2>1 DEF Return, Local
  <2> QED
    BY <2>2, DoneExact DEF CallsAreExact
<1>2. CASE \E k \in Key : Foreign(k)
  <2>1. touched' # {}
    BY <1>2 DEF Foreign
  <2> QED
    BY <2>1 DEF ExactInv, CallsAreExact
<1> QED
  BY <1>1, <1>2

\* Every step keeps the call exact.
LEMMA NextExact ==
  ASSUME NsInv, DirInv, ExactInv, ~Overlap, [Next]_vars
  PROVE  ExactInv'
<1> DEFINE P == Path \cup {Root}
<1>1. ASSUME NEW c \in Following \cup {"lstat", "readlink", "remove"}, NEW p \in P, Call(c, p, p)
      PROVE  ExactInv'
  <2>1. c \in Following \cup Literal
    BY DEF Literal
  <2> QED
    BY <1>1, <2>1, CallExact
<1>2. ASSUME NEW p \in P, NEW q \in P, Call("rename", p, q)
      PROVE  ExactInv'
  <2>1. "rename" \in Literal /\ "rename" \notin Following
    BY DEF Literal, Following
  <2> QED
    BY <1>2, <2>1, CallExact
<1>3. ASSUME NEW p \in P, NEW l \in Target, Call("symlink", p, l.val)
      PROVE  ExactInv'
  <2>1. "symlink" \in Literal /\ "symlink" \notin Following
    BY DEF Literal, Following
  <2> QED
    BY <1>3, <2>1, CallExact
<1>4. ASSUME Step PROVE ExactInv'
  BY <1>4, ResolveLinkExact, ResolveFileExact, ResolveNoneExact, HeadLiteralExact, DirToldExact,
     DirExact, RemoveDirExact, ListAllKeysExact, CopyExact, DeleteExact, PutExact, ReadDirExactly
     DEF Step
<1>5. CASE UNCHANGED vars
  BY <1>5 DEF vars, ExactInv, CallsAreExact, KnowsInv, MovesInv, Resolved, Upfront, Passed
<1> QED
  BY <1>1, <1>2, <1>3, <1>4, <1>5, DisturbedExact DEF Next

\* A call that returns, with no failure and nobody interfering, has the result
\* and the effect of the reference: for chains of links of any length up to
\* the limit, listings in pages of any size, and trees of any shape, unless a
\* path is renamed to one of its ancestors.
THEOREM CallsExact ==
  ASSUME ~Overlap
  PROVE  Spec => []CallsAreExact
<1>1. Init => ExactInv
  BY DEF Init, Idle, ExactInv, CallsAreExact, KnowsInv, MovesInv
<1>2. NsInv /\ DirInv /\ ExactInv /\ [Next]_vars => ExactInv'
  BY NextExact
<1>3. ExactInv => CallsAreExact
  BY DEF ExactInv
<1> QED
  BY <1>1, <1>2, <1>3, NsInvariant, DirInvariant, PTL DEF Spec
==============================================================================
