-------------------------- MODULE DiskCacheProofs --------------------------
(***************************************************************************)
(* Proofs about DiskCache and the index it uses, for any keys, goroutines, *)
(* budget, sizes and number of operations, faults and restarts.            *)
(***************************************************************************)
EXTENDS DiskCache, Induction, FiniteSetTheorems, SequenceTheorems, TLAPS

------------------------------------------------------------------------------
(* The index.                                                              *)

\* A sequence without repetitions.
NoTwice(s) == \A i, j \in DOMAIN s : s[i] = s[j] => i = j

\* The list holds the keys of the values, each once.
IndexOK(x) ==
  /\ x = [order |-> x.order, val |-> x.val, cost |-> x.cost, used |-> x.used]
  /\ x.order \in Seq(Key) /\ NoTwice(x.order)
  /\ DOMAIN x.val = ToSet(x.order)
  /\ DOMAIN x.cost = ToSet(x.order)

\* A set of numbers up to n that is not empty has a least one.
LEMMA MinIs ==
  ASSUME NEW n \in Nat, NEW T, T \subseteq 0 .. n, T # {}
  PROVE  Min(T) \in T
<1>1. T \subseteq Nat
  OBVIOUS
<1>2. \E m \in T : \A y \in T : m <= y
  BY <1>1, Least
<1> QED
  BY <1>2 DEF Min

\* r is s without its key at m.
Skips(r, s, m) ==
  /\ m \in 1 .. Len(s) /\ Len(r) = Len(s) - 1
  /\ \A i \in 1 .. Len(s) - 1 : r[i] = s[IF i <= m - 1 THEN i ELSE i + 1]

\* Removing a key from the list leaves the others, in their order.
LEMMA WithoutIs ==
  ASSUME NEW s \in Seq(Key), NoTwice(s), NEW k
  PROVE  /\ Without(s, k) \in Seq(Key) /\ NoTwice(Without(s, k))
         /\ ToSet(Without(s, k)) = ToSet(s) \ {k}
         /\ k \notin ToSet(s) => Without(s, k) = s
         /\ k \in ToSet(s) => \E m \in 1 .. Len(s) : s[m] = k /\ Skips(Without(s, k), s, m)
<1> DEFINE I == {i \in 1 .. Len(s) : s[i] = k}
<1>0. Len(s) \in Nat /\ DOMAIN s = 1 .. Len(s)
  OBVIOUS
<1>1. CASE I = {}
  <2>1. Without(s, k) = s
    BY <1>1 DEF Without
  <2> QED
    BY <1>0, <1>1, <2>1 DEF ToSet
<1>2. CASE I # {}
  <2> DEFINE m == Min(I)
             n == Len(s)
             a == SubSeq(s, 1, m - 1)
             b == SubSeq(s, m + 1, n)
             r == a \o b
  <2>1. Without(s, k) = r
    BY <1>2 DEF Without, RemoveAt
  <2>2. m \in I
    <3>1. I \subseteq 0 .. n
      BY <1>0
    <3> HIDE DEF I, n
    <3> QED
      BY <1>0, <1>2, <3>1, MinIs DEF n
  <2>3. m \in 1 .. n /\ s[m] = k
    BY <2>2
  <2> HIDE DEF m
  <2>4. /\ a \in Seq(Key) /\ Len(a) = m - 1
        /\ \A i \in 1 .. m - 1 : a[i] = s[i]
    <3>1. \A i \in 1 .. m - 1 : s[i] \in Key
      BY <1>0, <2>3
    <3>2. /\ a \in Seq(Key) /\ Len(a) = IF 1 <= m - 1 THEN m - 1 - 1 + 1 ELSE 0
          /\ \A i \in 1 .. m - 1 - 1 + 1 : a[i] = s[1 + i - 1]
      BY <1>0, <2>3, <3>1, SubSeqProperties
    <3> HIDE DEF a
    <3> QED
      BY <1>0, <2>3, <3>2
  <2>5. /\ b \in Seq(Key) /\ Len(b) = n - m
        /\ \A i \in 1 .. n - m : b[i] = s[m + i]
    <3>1. \A i \in m + 1 .. n : s[i] \in Key
      BY <1>0, <2>3
    <3>2. /\ b \in Seq(Key) /\ Len(b) = IF m + 1 <= n THEN n - (m + 1) + 1 ELSE 0
          /\ \A i \in 1 .. n - (m + 1) + 1 : b[i] = s[m + 1 + i - 1]
      <4>1. m + 1 \in 1 .. n + 1 /\ n \in m + 1 - 1 .. n
        BY <1>0, <2>3
      <4>2. m + 1 \in Int /\ n \in Int
        BY <1>0, <2>3
      <4> HIDE DEF n
      <4> QED
        BY <2>3, <3>1, <4>1, <4>2, SubSeqProperties
    <3> HIDE DEF n
    <3>0. n \in Nat /\ m \in 1 .. n
      BY <1>0, <2>3 DEF n
    <3>3. n - (m + 1) + 1 = n - m /\ (~(m + 1 <= n) => n - m = 0)
      BY <3>0
    <3>4. \A i \in 1 .. n - m : m + 1 + i - 1 = m + i
      BY <3>0
    <3> HIDE DEF b, n
    <3> QED
      BY <3>2, <3>3, <3>4
  <2> HIDE DEF a, b
  <2>6. /\ r \in Seq(Key) /\ Len(r) = n - 1
        /\ \A i \in 1 .. n - 1 : r[i] = IF i <= m - 1 THEN a[i] ELSE b[i - (m - 1)]
    <3>1. /\ r \in Seq(Key) /\ Len(r) = Len(a) + Len(b)
          /\ \A i \in 1 .. Len(a) + Len(b) : r[i] = IF i <= Len(a) THEN a[i] ELSE b[i - Len(a)]
      BY <2>4, <2>5, ConcatProperties
    <3> HIDE DEF r
    <3> QED
      BY <1>0, <2>3, <2>4, <2>5, <3>1
  <2> HIDE DEF r
  <2>7. ASSUME NEW i \in 1 .. n - 1
        PROVE  r[i] = s[IF i <= m - 1 THEN i ELSE i + 1]
    <3>1. CASE i <= m - 1
      BY <1>0, <2>3, <2>4, <2>6, <3>1
    <3>2. CASE ~(i <= m - 1)
      <4>1. i - (m - 1) \in 1 .. n - m /\ m + (i - (m - 1)) = i + 1
        BY <1>0, <2>3, <3>2
      <4> QED
        BY <2>5, <2>6, <3>2, <4>1
    <3> QED
      BY <3>1, <3>2
  <2>8. DOMAIN r = 1 .. n - 1
    BY <1>0, <2>3, <2>6
  <2> HIDE DEF n
  <2>9. n \in Nat /\ DOMAIN s = 1 .. n /\ m \in 1 .. n
    BY <1>0, <2>3 DEF n
  <2>10. NoTwice(r)
    <3> SUFFICES ASSUME NEW i \in 1 .. n - 1, NEW j \in 1 .. n - 1, r[i] = r[j]
                 PROVE  i = j
      BY <2>8 DEF NoTwice
    <3> DEFINE x == IF i <= m - 1 THEN i ELSE i + 1
               y == IF j <= m - 1 THEN j ELSE j + 1
    <3>1. x \in 1 .. n /\ y \in 1 .. n
      BY <2>9
    <3>2. s[x] = s[y]
      BY <2>7
    <3>3. x = y
      BY <2>9, <3>1, <3>2 DEF NoTwice
    <3> QED
      BY <2>9, <3>3
  <2>11. ToSet(r) \subseteq ToSet(s) \ {k}
    <3> SUFFICES ASSUME NEW i \in 1 .. n - 1 PROVE r[i] \in ToSet(s) \ {k}
      BY <2>8 DEF ToSet
    <3> DEFINE x == IF i <= m - 1 THEN i ELSE i + 1
    <3>1. x \in 1 .. n /\ x # m
      BY <2>9
    <3>2. s[x] # s[m]
      BY <2>9, <3>1 DEF NoTwice
    <3> QED
      BY <2>3, <2>7, <2>9, <3>1, <3>2 DEF ToSet
  <2>12. ToSet(s) \ {k} \subseteq ToSet(r)
    <3> SUFFICES ASSUME NEW i \in 1 .. n, s[i] # k PROVE s[i] \in ToSet(r)
      BY <2>9 DEF ToSet
    <3> DEFINE x == IF i <= m - 1 THEN i ELSE i - 1
    <3>1. i # m
      BY <2>3
    <3>2. x \in 1 .. n - 1 /\ (IF x <= m - 1 THEN x ELSE x + 1) = i
      BY <2>9, <3>1
    <3>3. r[x] = s[i]
      BY <2>7, <3>2
    <3> QED
      BY <2>8, <3>2, <3>3 DEF ToSet
  <2>13. s[m] = k /\ k \in ToSet(s) /\ m \in 1 .. Len(s)
    BY <2>3, <2>9 DEF ToSet, n
  <2>14. Skips(r, s, m)
    BY <2>6, <2>7, <2>13 DEF Skips, n
  <2> QED
    BY <2>1, <2>6, <2>10, <2>11, <2>12, <2>13, <2>14
<1> QED
  BY <1>1, <1>2

\* What is left of the list without its first n keys.
LEMMA SuffixIs ==
  ASSUME NEW s \in Seq(Key), NoTwice(s), NEW n \in 0 .. Len(s)
  PROVE  LET r == SubSeq(s, n + 1, Len(s))
         IN  /\ r \in Seq(Key) /\ NoTwice(r) /\ ToSet(r) \subseteq ToSet(s)
             /\ Len(r) = Len(s) - n /\ \A i \in 1 .. Len(s) - n : r[i] = s[n + i]
<1> DEFINE l == Len(s)
           r == SubSeq(s, n + 1, l)
<1>0. l \in Nat /\ DOMAIN s = 1 .. l /\ n \in 0 .. l
  OBVIOUS
<1>1. \A i \in n + 1 .. l : s[i] \in Key
  BY <1>0
<1> HIDE DEF l
<1>2. /\ r \in Seq(Key) /\ Len(r) = IF n + 1 <= l THEN l - (n + 1) + 1 ELSE 0
      /\ \A i \in 1 .. l - (n + 1) + 1 : r[i] = s[n + 1 + i - 1]
  <2>1. n + 1 \in Int /\ l \in Int
    BY <1>0
  <2> QED
    BY <1>1, <2>1, SubSeqProperties
<1>3. l - (n + 1) + 1 = l - n /\ (~(n + 1 <= l) => l - n = 0)
  BY <1>0
<1> HIDE DEF r
<1>4. DOMAIN r = 1 .. l - n
  BY <1>2, <1>3
<1>5. \A i \in 1 .. l - n : n + i \in 1 .. l /\ n + 1 + i - 1 = n + i
  BY <1>0
<1>6. \A i \in 1 .. l - n : r[i] = s[n + i]
  BY <1>2, <1>3, <1>5
<1>7. NoTwice(r)
  <2> SUFFICES ASSUME NEW i \in 1 .. l - n, NEW j \in 1 .. l - n, r[i] = r[j]
               PROVE  i = j
    BY <1>4 DEF NoTwice
  <2>1. n + i = n + j
    BY <1>0, <1>5, <1>6 DEF NoTwice
  <2> QED
    BY <1>0, <2>1
<1>8. ToSet(r) \subseteq ToSet(s)
  BY <1>0, <1>4, <1>5, <1>6 DEF ToSet
<1>9. Len(r) = l - n
  BY <1>2, <1>3
<1> QED
  BY <1>2, <1>6, <1>7, <1>8, <1>9 DEF l, r

\* Appending a key that is not in the list.
LEMMA AppendIs ==
  ASSUME NEW s \in Seq(Key), NoTwice(s), NEW k \in Key, k \notin ToSet(s)
  PROVE  /\ Append(s, k) \in Seq(Key) /\ NoTwice(Append(s, k))
         /\ ToSet(Append(s, k)) = ToSet(s) \cup {k}
<1> DEFINE l == Len(s)
           r == Append(s, k)
<1>1. /\ r \in Seq(Key) /\ l \in Nat /\ DOMAIN s = 1 .. l /\ DOMAIN r = 1 .. l + 1
      /\ \A i \in 1 .. l : r[i] = s[i]
      /\ r[l + 1] = k
  OBVIOUS
<1> HIDE DEF l, r
<1>2. \A i \in 1 .. l : s[i] # k
  BY <1>1 DEF ToSet
<1>3. NoTwice(r)
  <2> SUFFICES ASSUME NEW i \in 1 .. l + 1, NEW j \in 1 .. l + 1, r[i] = r[j]
               PROVE  i = j
    BY <1>1 DEF NoTwice
  <2>1. (i \in 1 .. l \/ i = l + 1) /\ (j \in 1 .. l \/ j = l + 1)
    BY <1>1
  <2> QED
    BY <1>1, <1>2, <2>1 DEF NoTwice
<1>4. ToSet(r) = ToSet(s) \cup {k}
  <2>1. 1 .. l + 1 = (1 .. l) \cup {l + 1}
    BY <1>1
  <2> QED
    BY <1>1, <2>1 DEF ToSet
<1> QED
  BY <1>1, <1>3, <1>4 DEF r

\* The entries of x are entries of y.
Within(x, y) == \A j \in DOMAIN x.val : j \in DOMAIN y.val /\ x.val[j] = y.val[j]

\* cache.Get changes the order.
LEMMA TouchIs ==
  ASSUME NEW x, IndexOK(x), NEW k
  PROVE  IndexOK(Touch(x, k)) /\ Touch(x, k).val = x.val
<1>1. CASE ~Has(x, k)
  BY <1>1 DEF Touch
<1>2. CASE Has(x, k)
  <2> DEFINE s == Without(x.order, k)
  <2>1. k \in ToSet(x.order)
    BY <1>2 DEF Has, IndexOK
  <2>2. k \in Key
    BY <2>1 DEF IndexOK, ToSet
  <2>3. s \in Seq(Key) /\ NoTwice(s) /\ ToSet(s) = ToSet(x.order) \ {k}
    BY WithoutIs DEF IndexOK
  <2> HIDE DEF s
  <2>4. /\ Append(s, k) \in Seq(Key) /\ NoTwice(Append(s, k))
        /\ ToSet(Append(s, k)) = ToSet(x.order)
    <3>1. k \notin ToSet(s) /\ ToSet(s) \cup {k} = ToSet(x.order)
      BY <2>1, <2>3
    <3> QED
      BY <2>2, <2>3, <3>1, AppendIs
  <2> DEFINE r == Append(s, k)
  <2> HIDE DEF r
  <2>5. Touch(x, k) = [order |-> r, val |-> x.val, cost |-> x.cost, used |-> x.used]
    BY <1>2 DEF Touch, IndexOK, r, s
  <2> QED
    BY <2>4, <2>5 DEF IndexOK, r
<1> QED
  BY <1>1, <1>2

\* A part of the list is an index of a part of the entries.
LEMMA KeepIs ==
  ASSUME NEW x, IndexOK(x), NEW s \in Seq(Key), NoTwice(s), ToSet(s) \subseteq ToSet(x.order),
         NEW u
  PROVE  LET y == [Keep(x, s) EXCEPT !.used = u]
         IN  IndexOK(y) /\ Within(y, x) /\ DOMAIN y.val = ToSet(s)
<1> DEFINE y == [Keep(x, s) EXCEPT !.used = u]
           v == [k \in ToSet(s) |-> x.val[k]]
           c == [k \in ToSet(s) |-> x.cost[k]]
<1>0. Keep(x, s) = [x EXCEPT !.order = s, !.val = v, !.cost = c]
  BY DEF Keep
<1>2. DOMAIN v = ToSet(s) /\ DOMAIN c = ToSet(s) /\ \A k \in ToSet(s) : v[k] = x.val[k]
  OBVIOUS
<1> HIDE DEF v, c
<1>1. y = [order |-> s, val |-> v, cost |-> c, used |-> u]
  <2>1. x = [order |-> x.order, val |-> x.val, cost |-> x.cost, used |-> x.used]
    BY DEF IndexOK
  <2>2. Keep(x, s) = [order |-> s, val |-> v, cost |-> c, used |-> x.used]
    BY <1>0, <2>1
  <2> QED
    BY <2>2
<1> HIDE DEF y
<1> QED
  BY <1>1, <1>2 DEF IndexOK, Within, y

\* cache.Remove.
LEMMA RemovedIs ==
  ASSUME NEW x, IndexOK(x), NEW k
  PROVE  /\ IndexOK(Removed(x, k)) /\ Within(Removed(x, k), x)
         /\ DOMAIN Removed(x, k).val = DOMAIN x.val \ {k}
<1>1. CASE ~Has(x, k)
  BY <1>1 DEF Removed, Has, Within
<1>2. CASE Has(x, k)
  <2> DEFINE s == Without(x.order, k)
             u == x.used - x.cost[k]
  <2>1. s \in Seq(Key) /\ NoTwice(s) /\ ToSet(s) = ToSet(x.order) \ {k}
    BY WithoutIs DEF IndexOK
  <2>2. Removed(x, k) = [Keep(x, s) EXCEPT !.used = u]
    BY <1>2 DEF Removed, Keep, IndexOK
  <2> HIDE DEF s, u
  <2> QED
    BY <2>1, <2>2, KeepIs DEF IndexOK
<1> QED
  BY <1>1, <1>2

\* RemoveOldest.
LEMMA ShrinkIs ==
  ASSUME NEW x, IndexOK(x), NEW b
  PROVE  IndexOK(Shrink(x, b)) /\ Within(Shrink(x, b), x)
<1> DEFINE l == Len(x.order)
           N == {i \in 0 .. l : x.used - Spent(x.order, x.cost)[i] <= b \/ i = l}
           n == Min(N)
           s == SubSeq(x.order, n + 1, l)
           u == x.used - Spent(x.order, x.cost)[n]
<1>1. Shrink(x, b) = [Keep(x, s) EXCEPT !.used = u]
  BY DEF Shrink, Keep, IndexOK
<1>2. l \in Nat /\ N \subseteq 0 .. l /\ l \in N
  BY DEF IndexOK
<1> HIDE DEF N
<1>3. n \in 0 .. l
  BY <1>2, MinIs
<1> HIDE DEF n, u
<1>4. s \in Seq(Key) /\ NoTwice(s) /\ ToSet(s) \subseteq ToSet(x.order)
  BY <1>3, SuffixIs DEF IndexOK
<1> HIDE DEF s, l
<1>5. IndexOK([Keep(x, s) EXCEPT !.used = u]) /\ Within([Keep(x, s) EXCEPT !.used = u], x)
  BY <1>4, KeepIs
<1> QED
  BY <1>1, <1>5

\* lruIndex.put: the other entries are old ones.
LEMMA PutIs ==
  ASSUME NEW x, IndexOK(x), NEW k \in Key, NEW v, NEW c, NEW b
  PROVE  /\ IndexOK(Put(x, k, v, c, b))
         /\ \A j \in DOMAIN Put(x, k, v, c, b).val :
              IF j = k THEN Put(x, k, v, c, b).val[j] = v
              ELSE j \in DOMAIN x.val /\ Put(x, k, v, c, b).val[j] = x.val[j]
<1> DEFINE y == Removed(x, k)
           z == Add(y, k, v, c)
<1>1. IndexOK(y) /\ Within(y, x) /\ DOMAIN y.val = DOMAIN x.val \ {k}
  BY RemovedIs
<1> HIDE DEF y
<1>2. CASE c > b
  BY <1>1, <1>2 DEF Put, Within, y
<1>3. CASE ~(c > b)
  <2> DEFINE s == Without(y.order, k)
             r == Append(s, k)
  <2>1. s \in Seq(Key) /\ NoTwice(s) /\ ToSet(s) = DOMAIN y.val /\ k \notin ToSet(s)
    BY <1>1, WithoutIs DEF IndexOK
  <2> HIDE DEF s
  <2>2. r \in Seq(Key) /\ NoTwice(r) /\ ToSet(r) = DOMAIN y.val \cup {k}
    BY <2>1, AppendIs
  <2> HIDE DEF r
  <2>3. /\ z = [order |-> z.order, val |-> z.val, cost |-> z.cost, used |-> z.used]
        /\ z.order = r /\ DOMAIN z.val = DOMAIN y.val \cup {k}
        /\ DOMAIN z.cost = DOMAIN y.val \cup {k}
        /\ \A j \in DOMAIN z.val : z.val[j] = IF j = k THEN v ELSE y.val[j]
    BY DEF Add, r, s
  <2> HIDE DEF z
  <2>4. IndexOK(z)
    BY <2>2, <2>3 DEF IndexOK
  <2>5. IndexOK(Shrink(z, b)) /\ Within(Shrink(z, b), z)
    BY <2>4, ShrinkIs
  <2>6. Put(x, k, v, c, b) = Shrink(z, b)
    BY <1>3 DEF Put, y, z
  <2> QED
    BY <1>1, <2>3, <2>5, <2>6 DEF Within
<1> QED
  BY <1>2, <1>3

------------------------------------------------------------------------------
(* The sum.                                                                *)

\* g runs over the sums of c up to l.
Runs(g, l, c) ==
  /\ g \in [0 .. l -> Nat] /\ g[0] = 0
  /\ \A i \in 1 .. l : g[i] = g[i - 1] + c[i]

\* The keys of s have costs.
Priced(s, cost) == \A i \in 1 .. Len(s) : cost[s[i]] \in Nat

\* What each key of s costs.
Prices(s, cost) == [i \in 1 .. Len(s) |-> cost[s[i]]]

\* Spent runs over the costs.
LEMMA SpentIs ==
  ASSUME NEW s \in Seq(Key), NEW cost, Priced(s, cost)
  PROVE  Runs(Spent(s, cost), Len(s), Prices(s, cost))
<1> DEFINE l == Len(s)
           c == Prices(s, cost)
           Sums(g) == g = [i \in 0 .. l |-> IF i = 0 THEN 0 ELSE g[i - 1] + cost[s[i]]]
           step == [n \in Nat |-> [v \in Nat |-> IF n \in 1 .. l THEN v + c[n] ELSE v]]
           f == Spent(s, cost)
<1>1. l \in Nat /\ \A i \in 1 .. l : c[i] \in Nat /\ c[i] = cost[s[i]]
  BY DEF Priced, Prices
<1>2. f = CHOOSE g : Sums(g)
  BY DEF Spent
<1> HIDE DEF l, c
<1>3. PICK h : Recurses(h, Nat, 0, step)
  <2>1. StaysIn(Nat, step)
    BY <1>1 DEF StaysIn
  <2> HIDE DEF step
  <2> QED
    BY <2>1, Recursion
<1>4. Sums([i \in 0 .. l |-> h[i]])
  <2> DEFINE g == [i \in 0 .. l |-> h[i]]
  <2> SUFFICES ASSUME NEW i \in 0 .. l
               PROVE  g[i] = IF i = 0 THEN 0 ELSE g[i - 1] + cost[s[i]]
    OBVIOUS
  <2>1. CASE i = 0
    BY <1>1, <1>3, <2>1 DEF Recurses
  <2>2. CASE i # 0
    <3>1. i \in 1 .. l /\ i - 1 \in 0 .. l /\ i - 1 \in Nat /\ i - 1 + 1 = i /\ i \in Nat
      BY <1>1, <2>2
    <3>2. h[i] = step[i][h[i - 1]] /\ h[i - 1] \in Nat
      BY <1>3, <3>1 DEF Recurses
    <3>3. step[i][h[i - 1]] = h[i - 1] + c[i]
      BY <3>1, <3>2
    <3> QED
      BY <1>1, <2>2, <3>1, <3>2, <3>3
  <2> QED
    BY <2>1, <2>2
<1>5. Sums(f)
  <2> HIDE DEF Sums, f
  <2> QED
    BY <1>2, <1>4
<1> HIDE DEF f
<1>6. DOMAIN f = 0 .. l /\ f[0] = 0 /\ \A i \in 1 .. l : f[i] = f[i - 1] + c[i]
  <2>1. DOMAIN f = 0 .. l
    BY <1>5
  <2>2. \A i \in 0 .. l : f[i] = IF i = 0 THEN 0 ELSE f[i - 1] + cost[s[i]]
    BY <1>5
  <2>3. 0 \in 0 .. l /\ \A i \in 1 .. l : i \in 0 .. l /\ i # 0
    BY <1>1
  <2> QED
    BY <1>1, <2>1, <2>2, <2>3
<1> DEFINE T == {i \in Nat : i <= l => f[i] \in Nat}
<1>7. Nat \subseteq T
  <2>1. 0 \in T
    BY <1>6
  <2>2. ASSUME NEW i \in Nat, i \in T PROVE i + 1 \in T
    <3> SUFFICES ASSUME i + 1 <= l PROVE f[i + 1] \in Nat
      OBVIOUS
    <3>1. i + 1 \in 1 .. l /\ i <= l /\ i + 1 - 1 = i
      BY <1>1
    <3>2. f[i + 1] = f[i] + c[i + 1] /\ c[i + 1] \in Nat /\ f[i] \in Nat
      BY <1>1, <1>6, <2>2, <3>1
    <3> QED
      BY <3>2
  <2> HIDE DEF T
  <2> QED
    BY <2>1, <2>2, NumberInduction
<1>8. f \in [0 .. l -> Nat]
  <2>1. \A i \in 0 .. l : i \in Nat /\ i <= l
    BY <1>1
  <2>2. \A i \in 0 .. l : f[i] \in Nat
    BY <1>7, <2>1
  <2>3. f = [i \in 0 .. l |-> f[i]]
    BY <1>5
  <2> QED
    BY <2>2, <2>3
<1> QED
  BY <1>6, <1>8 DEF Runs, f, l, c

\* The n costs after a in c are those after b in d.
Alike(c, a, d, b, n) == \A i \in 1 .. n : c[a + i] = d[b + i] /\ c[a + i] \in Nat

\* Equal stretches of costs add equal amounts.
LEMMA Stretch ==
  ASSUME NEW g, NEW l \in Nat, NEW c, Runs(g, l, c), NEW h, NEW m \in Nat, NEW d, Runs(h, m, d),
         NEW a \in Nat, NEW b \in Nat, NEW n \in Nat, a + n <= l, b + n <= m,
         Alike(c, a, d, b, n)
  PROVE  /\ g[a + n] - g[a] = h[b + n] - h[b]
         /\ g[a] \in Nat /\ h[b] \in Nat /\ g[a + n] \in Nat /\ h[b + n] \in Nat
<1> DEFINE T == {j \in Nat : j <= n => g[a + j] - g[a] = h[b + j] - h[b]}
<1>1. \A j \in Nat : j <= n => g[a + j] \in Nat /\ h[b + j] \in Nat
  <2> SUFFICES ASSUME NEW j \in Nat, j <= n PROVE g[a + j] \in Nat /\ h[b + j] \in Nat
    OBVIOUS
  <2>1. a + j \in 0 .. l /\ b + j \in 0 .. m
    OBVIOUS
  <2> QED
    BY <2>1 DEF Runs
<1>2. g[a] \in Nat /\ h[b] \in Nat
  <2>1. a \in 0 .. l /\ b \in 0 .. m
    OBVIOUS
  <2> QED
    BY <2>1 DEF Runs
<1>3. 0 \in T
  <2>1. a + 0 = a /\ b + 0 = b
    OBVIOUS
  <2> QED
    BY <1>2, <2>1
<1>4. ASSUME NEW j \in Nat, j \in T PROVE j + 1 \in T
  <2> SUFFICES ASSUME j + 1 <= n PROVE g[a + (j + 1)] - g[a] = h[b + (j + 1)] - h[b]
    OBVIOUS
  <2>1. /\ j <= n /\ j + 1 \in 1 .. n /\ a + (j + 1) \in 1 .. l /\ b + (j + 1) \in 1 .. m
        /\ a + (j + 1) - 1 = a + j /\ b + (j + 1) - 1 = b + j
    OBVIOUS
  <2>2. g[a + (j + 1)] = g[a + j] + c[a + (j + 1)] /\ h[b + (j + 1)] = h[b + j] + d[b + (j + 1)]
    BY <2>1 DEF Runs
  <2>3. c[a + (j + 1)] = d[b + (j + 1)] /\ c[a + (j + 1)] \in Nat
    BY <2>1 DEF Alike
  <2>4. g[a + j] - g[a] = h[b + j] - h[b] /\ g[a + j] \in Nat /\ h[b + j] \in Nat
    BY <1>1, <1>4, <2>1
  <2> QED
    BY <1>2, <2>2, <2>3, <2>4
<1>5. Nat \subseteq T
  <2> HIDE DEF T
  <2> QED
    BY <1>3, <1>4, NumberInduction
<1>6. n \in T
  BY <1>5
<1> QED
  BY <1>1, <1>2, <1>6

\* What the whole list costs.
Sum(s, cost) == Spent(s, cost)[Len(s)]

\* It is a number, and that of a list of the same keys at the same costs.
LEMMA SumSame ==
  ASSUME NEW s \in Seq(Key), NEW c, NEW d, Priced(s, c), \A k \in ToSet(s) : d[k] = c[k]
  PROVE  Sum(s, c) \in Nat /\ Sum(s, d) = Sum(s, c) /\ Priced(s, d)
<1> DEFINE l == Len(s)
           g == Spent(s, c)
           h == Spent(s, d)
<1>1. l \in Nat /\ \A i \in 1 .. l : s[i] \in ToSet(s)
  BY DEF ToSet
<1>2. Priced(s, d)
  BY <1>1 DEF Priced
<1>3. Runs(g, l, Prices(s, c)) /\ Runs(h, l, Prices(s, d))
  BY <1>2, SpentIs
<1>4. PICK z \in Nat : z = 0
  OBVIOUS
<1>5. Alike(Prices(s, c), z, Prices(s, d), z, l) /\ z + l <= l /\ z + l = l /\ z \in Nat
  BY <1>1, <1>4 DEF Prices, Priced, Alike
<1> HIDE DEF l, g, h
<1>6. g[z + l] - g[z] = h[z + l] - h[z] /\ g[z + l] \in Nat /\ h[z + l] \in Nat
  BY <1>1, <1>3, <1>5, Stretch
<1>7. g[l] \in Nat /\ h[l] = g[l]
  BY <1>1, <1>3, <1>4, <1>5, <1>6 DEF Runs
<1> QED
  BY <1>2, <1>7 DEF Sum, g, h, l

\* The key that r lacks costs the difference.
LEMMA SumSkips ==
  ASSUME NEW s \in Seq(Key), NEW r \in Seq(Key), NEW m, Skips(r, s, m), NEW cost, Priced(s, cost)
  PROVE  /\ Priced(r, cost) /\ Sum(r, cost) \in Nat /\ cost[s[m]] \in Nat
         /\ Sum(s, cost) = Sum(r, cost) + cost[s[m]]
<1> DEFINE l == Len(s)
           g == Spent(s, cost)
           h == Spent(r, cost)
           c == Prices(s, cost)
           d == Prices(r, cost)
<1>1. /\ l \in Nat /\ m \in 1 .. l /\ Len(r) = l - 1 /\ l - 1 \in Nat
      /\ \A i \in 1 .. l - 1 : r[i] = s[IF i <= m - 1 THEN i ELSE i + 1]
  BY DEF Skips
<1>2. Priced(r, cost)
  <2> SUFFICES ASSUME NEW i \in 1 .. l - 1 PROVE cost[r[i]] \in Nat
    BY <1>1 DEF Priced
  <2> DEFINE j == IF i <= m - 1 THEN i ELSE i + 1
  <2>1. j \in 1 .. l /\ r[i] = s[j]
    BY <1>1
  <2> HIDE DEF j
  <2> QED
    BY <2>1 DEF Priced
<1>3. Runs(g, l, c) /\ Runs(h, l - 1, d)
  BY <1>1, <1>2, SpentIs
<1>4. /\ \A i \in 1 .. l : c[i] \in Nat /\ c[i] = cost[s[i]]
      /\ \A i \in 1 .. l - 1 : d[i] = c[IF i <= m - 1 THEN i ELSE i + 1]
  <2>1. \A i \in 1 .. l : c[i] = cost[s[i]] /\ cost[s[i]] \in Nat
    BY DEF Prices, Priced
  <2>2. \A i \in 1 .. l - 1 : d[i] = cost[r[i]]
    BY <1>1 DEF Prices
  <2> HIDE DEF c, d, l
  <2>3. \A i \in 1 .. l - 1 : (IF i <= m - 1 THEN i ELSE i + 1) \in 1 .. l
    BY <1>1
  <2> QED
    BY <1>1, <2>1, <2>2, <2>3
<1>5. PICK z \in Nat : z = 0
  OBVIOUS
<1> HIDE DEF l, c, d, g, h
<1>6. m - 1 \in Nat /\ l - m \in Nat /\ m \in Nat
  BY <1>1
<1>7. /\ Alike(c, z, d, z, m - 1) /\ z \in Nat
      /\ z + (m - 1) <= l /\ z + (m - 1) <= l - 1 /\ z + (m - 1) = m - 1
  <2>1. \A i \in 1 .. m - 1 : z + i = i /\ i \in 1 .. l - 1 /\ i \in 1 .. l /\ i <= m - 1
    BY <1>1, <1>5
  <2>2. Alike(c, z, d, z, m - 1)
    BY <1>4, <2>1 DEF Alike
  <2> QED
    BY <1>1, <1>5, <2>2
<1>8. g[m - 1] = h[m - 1] /\ g[m - 1] \in Nat
  <2>1. /\ g[z + (m - 1)] - g[z] = h[z + (m - 1)] - h[z]
        /\ g[z + (m - 1)] \in Nat /\ h[z + (m - 1)] \in Nat
    BY <1>1, <1>3, <1>6, <1>7, Stretch
  <2>2. g[z] = 0 /\ h[z] = 0
    BY <1>3, <1>5 DEF Runs
  <2>3. g[m - 1] - 0 = h[m - 1] - 0 /\ g[m - 1] \in Nat /\ h[m - 1] \in Nat
    BY <1>7, <2>1, <2>2
  <2> QED
    BY <2>3
<1>9. Alike(c, m, d, m - 1, l - m)
  <2>1. \A i \in 1 .. l - m : /\ m - 1 + i \in 1 .. l - 1 /\ ~(m - 1 + i <= m - 1)
                              /\ m - 1 + i + 1 = m + i /\ m + i \in 1 .. l
    BY <1>1
  <2> QED
    BY <1>4, <2>1 DEF Alike
<1>10. g[l] - g[m] = h[l - 1] - h[m - 1] /\ g[l] \in Nat /\ g[m] \in Nat /\ h[l - 1] \in Nat
  <2>1. m + (l - m) <= l /\ m - 1 + (l - m) <= l - 1
    BY <1>1
  <2>2. /\ g[m + (l - m)] - g[m] = h[m - 1 + (l - m)] - h[m - 1]
        /\ g[m] \in Nat /\ h[m - 1] \in Nat
        /\ g[m + (l - m)] \in Nat /\ h[m - 1 + (l - m)] \in Nat
    BY <1>1, <1>3, <1>6, <1>9, <2>1, Stretch
  <2>3. m + (l - m) = l /\ m - 1 + (l - m) = l - 1
    BY <1>1
  <2> QED
    BY <2>2, <2>3
<1>11. g[m] = g[m - 1] + c[m] /\ c[m] \in Nat /\ c[m] = cost[s[m]]
  BY <1>1, <1>3, <1>4 DEF Runs
<1>12. g[l] = h[l - 1] + cost[s[m]]
  <2>1. g[l] - (h[m - 1] + c[m]) = h[l - 1] - h[m - 1] /\ h[m - 1] \in Nat
    BY <1>8, <1>10, <1>11
  <2> DEFINE u == g[l]
             v == h[l - 1]
             x == h[m - 1]
             y == c[m]
  <2>2. u \in Nat /\ v \in Nat /\ x \in Nat /\ y \in Nat /\ u - (x + y) = v - x
    BY <1>10, <1>11, <2>1
  <2> HIDE DEF u, v, x, y
  <2>3. u = v + y
    BY <2>2
  <2> QED
    BY <1>11, <2>3 DEF u, v, y
<1> QED
  BY <1>1, <1>2, <1>10, <1>11, <1>12 DEF Sum, g, h, l

\* Appending a key adds its cost.
LEMMA SumAppend ==
  ASSUME NEW s \in Seq(Key), NEW k \in Key, NEW cost, Priced(s, cost), cost[k] \in Nat
  PROVE  /\ Priced(Append(s, k), cost)
         /\ Sum(Append(s, k), cost) = Sum(s, cost) + cost[k]
<1> DEFINE r == Append(s, k)
           l == Len(s)
<1>1. /\ r \in Seq(Key) /\ Len(r) = l + 1 /\ l \in Nat /\ r[l + 1] = k
      /\ \A i \in 1 .. l : r[i] = s[i]
  OBVIOUS
<1> HIDE DEF r
<1>2. Priced(r, cost)
  <2>1. \A i \in 1 .. l + 1 : i \in 1 .. l \/ i = l + 1
    BY <1>1
  <2> QED
    BY <1>1, <2>1 DEF Priced
<1>3. Skips(s, r, l + 1)
  <2>1. \A i \in 1 .. l + 1 - 1 : i \in 1 .. l /\ i <= l + 1 - 1
    BY <1>1
  <2>2. l = l + 1 - 1 /\ l + 1 \in 1 .. l + 1
    BY <1>1
  <2> QED
    BY <1>1, <2>1, <2>2 DEF Skips
<1> HIDE DEF l
<1>4. Sum(r, cost) = Sum(s, cost) + cost[r[l + 1]]
  BY <1>1, <1>2, <1>3, SumSkips
<1> QED
  BY <1>1, <1>2, <1>4 DEF r

\* What is left costs what the first n keys did not.
LEMMA SumSuffix ==
  ASSUME NEW s \in Seq(Key), NEW n \in 0 .. Len(s), NEW r \in Seq(Key), NEW cost, Priced(s, cost),
         Len(r) = Len(s) - n, \A i \in 1 .. Len(s) - n : r[i] = s[n + i]
  PROVE  /\ Priced(r, cost) /\ Sum(r, cost) \in Nat
         /\ Sum(r, cost) = Sum(s, cost) - Spent(s, cost)[n]
<1> DEFINE l == Len(s)
           g == Spent(s, cost)
           h == Spent(r, cost)
           c == Prices(s, cost)
           d == Prices(r, cost)
<1>1. /\ l \in Nat /\ n \in 0 .. l /\ n \in Nat /\ l - n \in Nat
      /\ \A i \in 1 .. l - n : n + i \in 1 .. l
  OBVIOUS
<1>2. Priced(r, cost)
  BY <1>1 DEF Priced
<1>3. Runs(g, l, c) /\ Runs(h, l - n, d)
  BY <1>1, <1>2, SpentIs
<1>4. PICK z \in Nat : z = 0
  OBVIOUS
<1>5. Alike(c, n, d, z, l - n) /\ z \in Nat
  <2> SUFFICES ASSUME NEW i \in 1 .. l - n PROVE c[n + i] = d[z + i] /\ c[n + i] \in Nat
    BY <1>4 DEF Alike
  <2>1. z + i = i /\ n + i \in 1 .. l
    BY <1>1, <1>4
  <2>2. c[n + i] = cost[s[n + i]] /\ cost[s[n + i]] \in Nat
    BY <2>1 DEF Prices, Priced
  <2>3. d[i] = cost[r[i]] /\ r[i] = s[n + i]
    BY DEF Prices
  <2> QED
    BY <2>1, <2>2, <2>3
<1> HIDE DEF l, c, d, g, h
<1>6. n + (l - n) <= l /\ z + (l - n) <= l - n /\ n + (l - n) = l /\ z + (l - n) = l - n
  BY <1>1, <1>4
<1>7. /\ g[n + (l - n)] - g[n] = h[z + (l - n)] - h[z]
      /\ g[n] \in Nat /\ h[z] \in Nat /\ g[n + (l - n)] \in Nat /\ h[z + (l - n)] \in Nat
  <2> DEFINE e == l - n
  <2>1. e \in Nat /\ n + e <= l /\ z + e <= e /\ Runs(h, e, d) /\ Alike(c, n, d, z, e)
    BY <1>1, <1>3, <1>5, <1>6
  <2> HIDE DEF e
  <2>2. /\ g[n + e] - g[n] = h[z + e] - h[z]
        /\ g[n] \in Nat /\ h[z] \in Nat /\ g[n + e] \in Nat /\ h[z + e] \in Nat
    BY <1>1, <1>3, <1>5, <2>1, Stretch
  <2> QED
    BY <2>2 DEF e
<1>8. g[l] - g[n] = h[l - n] - h[z] /\ g[n] \in Nat /\ g[l] \in Nat /\ h[l - n] \in Nat
  BY <1>6, <1>7
<1>9. h[z] = 0
  BY <1>3, <1>4 DEF Runs
<1>10. h[l - n] = g[l] - g[n]
  BY <1>8, <1>9
<1> QED
  BY <1>2, <1>8, <1>10 DEF Sum, g, h, l

\* An index whose used is what its entries cost.
Sound(x) == IndexOK(x) /\ Priced(x.order, x.cost) /\ x.used = Sum(x.order, x.cost)

\* Removing a key that is there takes its cost from the sum.
LEMMA SumWithout ==
  ASSUME NEW x, Sound(x), NEW k, Has(x, k)
  PROVE  LET r == Without(x.order, k)
         IN  /\ r \in Seq(Key) /\ NoTwice(r) /\ ToSet(r) = ToSet(x.order) \ {k}
             /\ Priced(r, x.cost) /\ Sum(r, x.cost) \in Nat /\ x.cost[k] \in Nat
             /\ x.used = Sum(r, x.cost) + x.cost[k]
<1> DEFINE s == x.order
           r == Without(s, k)
<1>1. s \in Seq(Key) /\ NoTwice(s) /\ k \in ToSet(s) /\ Priced(s, x.cost)
  BY DEF Sound, IndexOK, Has
<1>2. x.used = Sum(s, x.cost)
  BY DEF Sound
<1> HIDE DEF s
<1>3. /\ r \in Seq(Key) /\ NoTwice(r) /\ ToSet(r) = ToSet(s) \ {k}
      /\ \E m \in 1 .. Len(s) : s[m] = k /\ Skips(r, s, m)
  BY <1>1, WithoutIs
<1> HIDE DEF r
<1>4. PICK m \in 1 .. Len(s) : s[m] = k /\ Skips(r, s, m)
  BY <1>3
<1>5. /\ Priced(r, x.cost) /\ Sum(r, x.cost) \in Nat /\ x.cost[s[m]] \in Nat
      /\ Sum(s, x.cost) = Sum(r, x.cost) + x.cost[s[m]]
  BY <1>1, <1>3, <1>4, SumSkips
<1> QED
  BY <1>2, <1>3, <1>4, <1>5 DEF r, s

\* cache.Get moves a cost.
LEMMA TouchSound ==
  ASSUME NEW x, Sound(x), NEW k
  PROVE  Sound(Touch(x, k)) /\ Touch(x, k).used = x.used
<1>1. CASE ~Has(x, k)
  BY <1>1 DEF Touch
<1>2. CASE Has(x, k)
  <2> DEFINE s == Without(x.order, k)
             r == Append(s, k)
  <2>1. /\ s \in Seq(Key) /\ Priced(s, x.cost) /\ Sum(s, x.cost) \in Nat /\ x.cost[k] \in Nat
        /\ x.used = Sum(s, x.cost) + x.cost[k]
    BY <1>2, SumWithout
  <2>2. k \in Key
    BY <1>2 DEF Sound, IndexOK, Has, ToSet
  <2> HIDE DEF s
  <2>3. Priced(r, x.cost) /\ Sum(r, x.cost) = x.used
    BY <2>1, <2>2, SumAppend
  <2>4. IndexOK(Touch(x, k))
    BY TouchIs DEF Sound
  <2> HIDE DEF r
  <2>5. Touch(x, k) = [order |-> r, val |-> x.val, cost |-> x.cost, used |-> x.used]
    BY <1>2 DEF Touch, Sound, IndexOK, r, s
  <2> QED
    BY <2>3, <2>4, <2>5 DEF Sound
<1> QED
  BY <1>1, <1>2

\* A part of the list with what it costs.
LEMMA KeepSound ==
  ASSUME NEW x, IndexOK(x), NEW s \in Seq(Key), NoTwice(s), ToSet(s) \subseteq ToSet(x.order),
         Priced(s, x.cost), NEW u, u = Sum(s, x.cost)
  PROVE  Sound([Keep(x, s) EXCEPT !.used = u]) /\ [Keep(x, s) EXCEPT !.used = u].used = u
<1> DEFINE y == [Keep(x, s) EXCEPT !.used = u]
           v == [k \in ToSet(s) |-> x.val[k]]
           c == [k \in ToSet(s) |-> x.cost[k]]
<1>1. IndexOK(y)
  BY KeepIs
<1>2. Priced(s, c) /\ Sum(s, c) = Sum(s, x.cost)
  <2>1. \A k \in ToSet(s) : c[k] = x.cost[k]
    OBVIOUS
  <2> HIDE DEF c
  <2> QED
    BY <2>1, SumSame
<1>3. y = [order |-> s, val |-> v, cost |-> c, used |-> u]
  <2>1. Keep(x, s) = [x EXCEPT !.order = s, !.val = v, !.cost = c]
    BY DEF Keep
  <2>2. x = [order |-> x.order, val |-> x.val, cost |-> x.cost, used |-> x.used]
    BY DEF IndexOK
  <2> HIDE DEF v, c
  <2>3. Keep(x, s) = [order |-> s, val |-> v, cost |-> c, used |-> x.used]
    BY <2>1, <2>2
  <2> QED
    BY <2>3
<1> HIDE DEF v, c, y
<1>4. y.order = s /\ y.cost = c /\ y.used = u
  BY <1>3
<1>5. Sound(y)
  BY <1>1, <1>2, <1>4 DEF Sound
<1> QED
  BY <1>4, <1>5 DEF y

\* cache.Remove takes a cost away.
LEMMA RemovedSound ==
  ASSUME NEW x, Sound(x), NEW k
  PROVE  /\ Sound(Removed(x, k)) /\ Removed(x, k).used \in Nat
         /\ x.used \in Nat /\ Removed(x, k).used <= x.used
<1>1. x.used \in Nat
  BY SumSame DEF Sound, IndexOK
<1>2. CASE ~Has(x, k)
  BY <1>1, <1>2 DEF Removed
<1>3. CASE Has(x, k)
  <2> DEFINE s == Without(x.order, k)
             u == x.used - x.cost[k]
  <2>1. /\ s \in Seq(Key) /\ NoTwice(s) /\ ToSet(s) \subseteq ToSet(x.order)
        /\ Priced(s, x.cost) /\ Sum(s, x.cost) \in Nat /\ x.cost[k] \in Nat
        /\ x.used = Sum(s, x.cost) + x.cost[k]
    BY <1>3, SumWithout
  <2>2. Removed(x, k) = [Keep(x, s) EXCEPT !.used = u]
    BY <1>3 DEF Removed, Keep, Sound, IndexOK
  <2> HIDE DEF s
  <2>3. u = Sum(s, x.cost) /\ u \in Nat /\ u <= x.used
    BY <2>1
  <2> HIDE DEF u
  <2>4. IndexOK(x)
    BY DEF Sound
  <2>5. Sound(Removed(x, k)) /\ Removed(x, k).used = u
    BY <2>1, <2>2, <2>3, <2>4, KeepSound
  <2> QED
    BY <1>1, <2>3, <2>5
<1> QED
  BY <1>2, <1>3

\* RemoveOldest ends within the budget.
LEMMA ShrinkSound ==
  ASSUME NEW x, Sound(x), NEW b \in Nat
  PROVE  Sound(Shrink(x, b)) /\ Shrink(x, b).used \in Nat /\ Shrink(x, b).used <= b
<1> DEFINE l == Len(x.order)
           g == Spent(x.order, x.cost)
           N == {i \in 0 .. l : x.used - g[i] <= b \/ i = l}
           n == Min(N)
           s == SubSeq(x.order, n + 1, l)
           u == x.used - g[n]
<1>1. Shrink(x, b) = [Keep(x, s) EXCEPT !.used = u]
  BY DEF Shrink, Keep, Sound, IndexOK
<1>2. l \in Nat /\ N \subseteq 0 .. l /\ l \in N
  BY DEF Sound, IndexOK
<1>3. n \in N
  <2> HIDE DEF N
  <2> QED
    BY <1>2, MinIs
<1>4. n \in 0 .. l /\ (x.used - g[n] <= b \/ n = l)
  BY <1>3
<1> HIDE DEF n
<1>5. x.order \in Seq(Key) /\ NoTwice(x.order) /\ Priced(x.order, x.cost) /\ x.used = g[l]
  BY DEF Sound, IndexOK, Sum
<1>6. /\ s \in Seq(Key) /\ NoTwice(s) /\ ToSet(s) \subseteq ToSet(x.order)
      /\ Len(s) = l - n /\ \A i \in 1 .. l - n : s[i] = x.order[n + i]
  BY <1>4, <1>5, SuffixIs
<1> HIDE DEF s
<1>7. Priced(s, x.cost) /\ Sum(s, x.cost) \in Nat /\ Sum(s, x.cost) = Sum(x.order, x.cost) - g[n]
  BY <1>4, <1>5, <1>6, SumSuffix
<1> HIDE DEF g, l
<1>8. u = Sum(s, x.cost) /\ u \in Nat
  BY <1>7 DEF Sound
<1>9. u <= b
  <2>1. CASE n = l
    <3>1. x.used \in Nat
      BY RemovedSound
    <3>2. u = 0
      BY <1>5, <2>1, <3>1
    <3> QED
      BY <3>2
  <2>2. CASE x.used - g[n] <= b
    BY <2>2
  <2> QED
    BY <1>4, <2>1, <2>2
<1> HIDE DEF u
<1>10. Sound([Keep(x, s) EXCEPT !.used = u]) /\ [Keep(x, s) EXCEPT !.used = u].used = u
  <2>1. IndexOK(x)
    BY DEF Sound
  <2> QED
    BY <1>6, <1>7, <1>8, <2>1, KeepSound
<1> QED
  BY <1>1, <1>8, <1>9, <1>10

\* put keeps the sum and the budget.
LEMMA PutSound ==
  ASSUME NEW x, Sound(x), NEW b \in Nat, x.used <= b, NEW k \in Key, NEW v, NEW c \in Nat
  PROVE  Sound(Put(x, k, v, c, b)) /\ Put(x, k, v, c, b).used <= b
<1> DEFINE y == Removed(x, k)
           z == Add(y, k, v, c)
<1>1. Sound(y) /\ y.used \in Nat /\ x.used \in Nat /\ y.used <= x.used
  BY RemovedSound
<1>2. DOMAIN y.val = DOMAIN x.val \ {k}
  BY RemovedIs DEF Sound
<1> HIDE DEF y
<1>3. CASE c > b
  <2>1. Put(x, k, v, c, b) = y
    BY <1>3 DEF Put, y
  <2> QED
    BY <1>1, <2>1
<1>4. CASE ~(c > b)
  <2> DEFINE s == y.order
             r == Append(s, k)
             d == [j \in DOMAIN y.val \cup {k} |-> IF j = k THEN c ELSE y.cost[j]]
  <2>1. /\ s \in Seq(Key) /\ NoTwice(s) /\ ToSet(s) = DOMAIN y.val /\ k \notin ToSet(s)
        /\ Priced(s, y.cost) /\ y.used = Sum(s, y.cost)
    BY <1>1, <1>2 DEF Sound, IndexOK
  <2>2. Without(s, k) = s
    BY <2>1, WithoutIs
  <2>3. (\A j \in ToSet(s) : d[j] = y.cost[j]) /\ d[k] = c
    BY <2>1
  <2>4. z = [order |-> z.order, val |-> z.val, cost |-> z.cost, used |-> z.used]
    BY DEF Add
  <2>5. /\ z.order = r /\ DOMAIN z.val = DOMAIN y.val \cup {k} /\ z.cost = d
        /\ z.used = y.used + c
    BY <2>2 DEF Add
  <2>6. DOMAIN d = DOMAIN y.val \cup {k}
    OBVIOUS
  <2> HIDE DEF z, s, d
  <2>7. r \in Seq(Key) /\ NoTwice(r) /\ ToSet(r) = DOMAIN y.val \cup {k}
    BY <2>1, AppendIs
  <2>8. Sum(s, d) = Sum(s, y.cost) /\ Priced(s, d)
    BY <2>1, <2>3, SumSame
  <2>9. Priced(r, d) /\ Sum(r, d) = Sum(s, d) + d[k]
    BY <2>1, <2>3, <2>8, SumAppend
  <2> HIDE DEF r
  <2>10. IndexOK(z)
    BY <2>4, <2>5, <2>6, <2>7 DEF IndexOK
  <2>11. Sound(z)
    BY <2>1, <2>3, <2>5, <2>8, <2>9, <2>10 DEF Sound
  <2>12. Put(x, k, v, c, b) = Shrink(z, b)
    BY <1>4 DEF Put, y, z
  <2> QED
    BY <2>11, <2>12, ShrinkSound
<1> QED
  BY <1>3, <1>4

\* A sound index is within its budget when used is.
LEMMA SoundWithin ==
  ASSUME NEW x, Sound(x), NEW b, x.used <= b
  PROVE  WithinBudget(x, b)
<1> DEFINE s == x.order
           n == Len(s)
           S == 1 .. n
<1>1. s \in Seq(Key) /\ NoTwice(s) /\ ToSet(s) = DOMAIN x.val
  BY DEF Sound, IndexOK
<1>2. n \in Nat /\ DOMAIN s = S /\ s = [i \in S |-> s[i]]
  BY <1>1
<1>3. IsFiniteSet(S) /\ Cardinality(S) = n
  <2>1. Cardinality(S) = IF 1 > n THEN 0 ELSE n - 1 + 1
    BY <1>2, FS_Interval
  <2> QED
    BY <1>2, <2>1, FS_Interval
<1> HIDE DEF S
<1>4. s \in Bijection(S, ToSet(s))
  BY <1>1, <1>2 DEF Bijection, Injection, Surjection, IsInjective, ToSet, NoTwice
<1>5. Cardinality(ToSet(s)) = n
  BY <1>3, <1>4, FS_Bijection DEF ExistsBijection
<1> QED
  BY <1>1, <1>5 DEF WithinBudget, Sound, Sum

------------------------------------------------------------------------------
(* The invariant.                                                          *)

\* Where a goroutine has a file of its own under st[t].path; where that is a
\* spill file nobody else can reach; where st[t].path is a path or an inode.
Holding == {"insert", "writing", "syncDrop", "closeDrop", "link", "adopt", "destroy"}
Spilled == {"writing", "syncDrop", "closeDrop", "link"}
Pathed  == Holding \cup {"fopen", "gone", "reading", "copyLink", "copyInsert"}

\* The files t has to insert or to remove.
Owned(t) == ({st[t].dst} \ {0}) \cup (IF st[t].pc \in Holding THEN {st[t].path} ELSE {})

\* Version v may be filed under ETag e: it is the one e names, unless a GET
\* may lack its ETag.
Names(e, v) == UntaggedGet \/ v = e

\* File p, if it is there, may be filed under e.
IsTrue(p, e) == name[p] # 0 => Names(e, body[name[p]])

EntriesNamed == \A k \in DOMAIN idx.val : IsTrue(idx.val[k].path, idx.val[k].etag)

\* The locals that are set where t stands.
PhaseOf(t) ==
  LET s == st[t] IN
  /\ s.pc # "idle" => s.key \in Key
  /\ s.pc = "copied" => s.src \in Key
  /\ s.pc \in Pathed => s.path # 0
  /\ s.dst # 0 <=> s.pc \in {"adopt", "copyInsert"}
  /\ s.pc \in {"fopen", "insert", "adopt", "copyLink", "copyInsert"} => s.etag # 0
  /\ s.pc \in {"copyLink", "copyInsert"} => s.ver # 0

\* What an open knows of the object, the object had during the open.
SeenOf(t) ==
  LET s == st[t] IN
  /\ s.pc \in Opening => s3[s.key] \in seen[t]
  /\ s.pc \in {"open", "fopen"} => s.etag = 0 \/ s.etag \in seen[t]
  /\ s.pc \in {"fill", "insert"} =>
       s.ver # 0 /\ s.ver \in seen[t] /\ (s.etag = 0 \/ Names(s.etag, s.ver))
  /\ s.pc = "reading" => \E e \in seen[t] : Names(e, body[s.path])

\* What t knows of its files.
BodyOf(t) ==
  LET s == st[t] IN
  /\ s.pc = "insert" => body[s.path] = s.ver
  /\ s.pc \in {"insert"} \cup Spilled => name[s.path] \in {0, s.path}
  /\ s.pc = "writing" /\ ~s.dirty /\ s.etag # 0 => body[s.path] = s.etag
  /\ s.pc \in {"syncDrop", "closeDrop"} => body[s.path] = s.ver
  /\ s.pc \in {"link", "adopt"} /\ s.etag # 0 => body[s.path] = s.etag
  /\ s.pc \in {"fopen", "copyLink"} => IsTrue(s.path, s.etag)
  /\ s.pc \in {"adopt", "copyInsert"} => IsTrue(s.dst, s.etag)

\* A spill file that is still written has one name and one user.
SpillOf(t) ==
  st[t].pc \in Spilled =>
    /\ \A p \in Name : name[p] = st[t].path => p = st[t].path
    /\ \A u \in Thread \ {t} : st[u].path # st[t].path

ThreadInv(t) == PhaseOf(t) /\ SeenOf(t) /\ BodyOf(t) /\ SpillOf(t)

\* No file has two owners.
OwnInv ==
  /\ \A j, k \in DOMAIN idx.val : idx.val[j].path = idx.val[k].path => j = k
  /\ \A k \in DOMAIN idx.val, t \in Thread : idx.val[k].path \notin Owned(t)
  /\ \A t, u \in Thread : t # u => Owned(t) \cap Owned(u) = {}
  /\ \A t \in Thread : st[t].dst # 0 => st[t].dst # st[t].path

\* Every file has one.
KeptInv ==
  disk = "ready" => \A p \in Name : name[p] # 0 =>
    p \in Paths(idx) \/ \E t \in Thread : p \in Owned(t)

DiskInv ==
  /\ TypeOK /\ IndexOK(idx)
  /\ \A t \in Thread : ThreadInv(t)
  /\ OwnInv /\ KeptInv /\ EntriesNamed

\* Names are positive numbers.
LEMMA NameIs == Name \subseteq Nat /\ 0 \notin Name
<1>1. Cardinality(Key) \in Nat /\ Cardinality(Thread) \in Nat
  BY FS_CardinalityType, DiskCacheAssumption DEF DiskCacheAssumption
<1> QED
  BY <1>1 DEF Name

------------------------------------------------------------------------------
(* What a step leaves alone.                                               *)

Ref(i) == (\E p \in Name : name[p] = i) \/ (\E t \in Thread : st[t].path = i)

\* The inode that t finds under its path.
Found(t) == IF t \in Thread /\ st[t].path \in Name THEN {name[st[t].path]} ELSE {}

\* A step of t that writes into inode w: other goroutines stay where they are,
\* a path that is taken is not given to another file, new names and locals
\* point to new inodes or to those t knows, and nothing but w is written.
Frame(t, w) ==
  /\ \A u \in Thread \ {t} : st'[u] = st[u]
  /\ \A q \in Name :
       \/ name'[q] \in {0, name[q]}
       \/ q \notin Taken /\ (name'[q] \notin Taken \/ name'[q] \in Found(t))
  /\ \A i \in Name : i # w /\ Ref(i) /\ Ref(i)' => body'[i] = body[i]
  /\ st'[t].path \notin Taken \/ st'[t].path \in {0, st[t].path} \cup Found(t) \cup Paths(idx)

\* Only spill files are written.
Writes(t, w) == w = 0 \/ (t \in Thread /\ st[t].pc = "writing" /\ w = st[t].path)

\* A file that is taken, and is not the one being written, stays as it is.
LEMMA TrueKept ==
  ASSUME DiskInv, NEW t, NEW w, Frame(t, w), Writes(t, w),
         NEW p \in Name, p \in Taken, p # w, NEW e, IsTrue(p, e)
  PROVE  name'[p] # 0 => Names(e, body'[name'[p]])
<1> SUFFICES ASSUME name'[p] # 0 PROVE Names(e, body'[name'[p]])
  OBVIOUS
<1>1. name'[p] = name[p]
  BY DEF Frame
<1>2. name[p] \in Name
  BY <1>1 DEF DiskInv, TypeOK
<1>3. Ref(name[p])
  BY DEF Ref
<1>4. \E q \in Name : name'[q] = name[p]
  BY <1>1
<1>5. name[p] # w
  <2>1. CASE w = 0
    BY <1>1, <2>1
  <2>2. CASE t \in Thread /\ st[t].pc = "writing" /\ w = st[t].path
    BY <2>2 DEF DiskInv, ThreadInv, SpillOf, Spilled
  <2> QED
    BY <2>1, <2>2 DEF Writes
<1>6. \A i \in Name : i # w /\ Ref(i) /\ (\E q \in Name : name'[q] = i) => body'[i] = body[i]
  BY DEF Frame, Ref
<1>7. body'[name[p]] = body[name[p]]
  BY <1>2, <1>3, <1>4, <1>5, <1>6
<1> QED
  BY <1>1, <1>7 DEF IsTrue

\* The file that another goroutine uses stays as it is.
LEMMA PathKept ==
  ASSUME DiskInv, NEW t, NEW w, Frame(t, w), Writes(t, w),
         NEW u \in Thread, u # t, st[u].path # 0
  PROVE  body'[st[u].path] = body[st[u].path] /\ st[u].path # w
<1>1. st[u].path \in Name
  BY DEF DiskInv, TypeOK, Local
<1>2. st[u].path # w
  <2>1. CASE w = 0
    BY <2>1
  <2>2. CASE t \in Thread /\ st[t].pc = "writing" /\ w = st[t].path
    BY <2>2 DEF DiskInv, ThreadInv, SpillOf, Spilled
  <2> QED
    BY <2>1, <2>2 DEF Writes
<1>3. Ref(st[u].path)
  BY DEF Ref
<1>4. st'[u].path = st[u].path
  BY DEF Frame
<1>5. \A i \in Name : i # w /\ Ref(i) /\ (\E v \in Thread : st'[v].path = i) => body'[i] = body[i]
  BY DEF Frame, Ref
<1> QED
  BY <1>1, <1>2, <1>3, <1>4, <1>5

\* Its spill file stays its own.
LEMMA SpillKept ==
  ASSUME DiskInv, NEW t, NEW w, Frame(t, w), NEW u \in Thread, u # t
  PROVE  SpillOf(u)'
<1> SUFFICES ASSUME st[u].pc \in Spilled
             PROVE  /\ \A p \in Name : name'[p] = st[u].path => p = st[u].path
                    /\ \A v \in Thread \ {u} : st'[v].path # st[u].path
  BY DEF SpillOf, Frame
<1>0. st[u].path \in Name /\ st[u].path # 0
  BY DEF DiskInv, ThreadInv, PhaseOf, Pathed, Holding, Spilled, TypeOK, Local
<1>1. /\ \A p \in Name : name[p] = st[u].path => p = st[u].path
      /\ \A v \in Thread \ {u} : st[v].path # st[u].path
  BY DEF DiskInv, ThreadInv, SpillOf
<1>2. st[u].path \in Taken
  BY DEF Taken
<1>3. st[u].path \notin Found(t)
  BY <1>1 DEF Found
<1>4. st[u].path \notin Paths(idx)
  BY DEF DiskInv, OwnInv, Owned, Paths, Holding, Spilled
<1>5. ASSUME NEW p \in Name, name'[p] = st[u].path PROVE p = st[u].path
  BY <1>0, <1>1, <1>2, <1>3, <1>5 DEF Frame
<1>6. ASSUME NEW v \in Thread \ {u} PROVE st'[v].path # st[u].path
  <2>1. CASE v = t
    BY <1>0, <1>1, <1>2, <1>3, <1>4, <2>1 DEF Frame
  <2>2. CASE v # t
    BY <1>1, <2>2 DEF Frame
  <2> QED
    BY <2>1, <2>2
<1> QED
  BY <1>5, <1>6

\* Another goroutine still knows what it knew of its files.
LEMMA BodyKept ==
  ASSUME DiskInv, NEW t, NEW w, Frame(t, w), Writes(t, w), NEW u \in Thread, u # t
  PROVE  /\ BodyOf(u)'
         /\ st[u].pc = "reading" => body'[st[u].path] = body[st[u].path]
<1> DEFINE s == st[u]
<1>0. st'[u] = s /\ s \in Local
  BY DEF Frame, DiskInv, TypeOK
<1>1. PhaseOf(u) /\ BodyOf(u)
  BY DEF DiskInv, ThreadInv
<1>2. /\ s.path \in Name \cup {0} /\ s.dst \in Name \cup {0}
      /\ s.path \in Taken /\ s.dst \in Taken
  BY <1>0 DEF Local, Taken
<1>3. s.pc \in Pathed => s.path \in Name /\ s.path # w /\ body'[s.path] = body[s.path]
  <2> SUFFICES ASSUME s.pc \in Pathed
               PROVE  s.path \in Name /\ s.path # w /\ body'[s.path] = body[s.path]
    OBVIOUS
  <2>1. s.path # 0
    BY <1>1 DEF PhaseOf
  <2> QED
    BY <1>2, <2>1, PathKept
<1>4. s.pc \in Pathed => name'[s.path] \in {0, name[s.path]}
  BY <1>2, <1>3 DEF Frame
<1>5. s.pc \in {"fopen", "copyLink"} => (name'[s.path] # 0 => Names(s.etag, body'[name'[s.path]]))
  <2> SUFFICES ASSUME s.pc \in {"fopen", "copyLink"}
               PROVE  name'[s.path] # 0 => Names(s.etag, body'[name'[s.path]])
    OBVIOUS
  <2>1. s.path \in Name /\ s.path # w
    BY <1>3 DEF Pathed
  <2>2. IsTrue(s.path, s.etag)
    BY <1>1 DEF BodyOf
  <2> QED
    BY <1>2, <2>1, <2>2, TrueKept
<1>6. s.pc \in {"adopt", "copyInsert"} => (name'[s.dst] # 0 => Names(s.etag, body'[name'[s.dst]]))
  <2> SUFFICES ASSUME s.pc \in {"adopt", "copyInsert"}
               PROVE  name'[s.dst] # 0 => Names(s.etag, body'[name'[s.dst]])
    OBVIOUS
  <2>1. s.dst # 0 /\ s.dst \in Name
    BY <1>1, <1>2 DEF PhaseOf
  <2>2. s.dst # w
    <3>1. CASE w = 0
      BY <2>1, <3>1
    <3>2. CASE t \in Thread /\ st[t].pc = "writing" /\ w = st[t].path
      <4>1. w \in Owned(t) /\ s.dst \in Owned(u)
        BY <2>1, <3>2 DEF Owned, Holding
      <4> QED
        BY <3>2, <4>1 DEF DiskInv, OwnInv
    <3> QED
      BY <3>1, <3>2 DEF Writes
  <2>3. IsTrue(s.dst, s.etag)
    BY <1>1 DEF BodyOf
  <2> QED
    BY <1>2, <2>1, <2>2, <2>3, TrueKept
<1> HIDE DEF s
<1>7. BodyOf(u)'
  <2>1. s.pc \in {"insert"} \cup Spilled => name'[s.path] \in {0, s.path}
    BY <1>1, <1>4 DEF BodyOf, Pathed, Holding, Spilled, s
  <2>2. /\ s.pc = "insert" => body'[s.path] = s.ver
        /\ s.pc = "writing" /\ ~s.dirty /\ s.etag # 0 => body'[s.path] = s.etag
        /\ s.pc \in {"syncDrop", "closeDrop"} => body'[s.path] = s.ver
        /\ s.pc \in {"link", "adopt"} /\ s.etag # 0 => body'[s.path] = s.etag
    BY <1>1, <1>3 DEF BodyOf, Pathed, Holding, s
  <2> QED
    BY <1>0, <1>5, <1>6, <2>1, <2>2 DEF BodyOf, IsTrue
<1>8. s.pc = "reading" => body'[s.path] = body[s.path]
  BY <1>3 DEF Pathed
<1> QED
  BY <1>7, <1>8 DEF s

\* The bucket changes only in ways that opens under way take notice of.
SeenFrame(t) ==
  \A u \in Thread \ {t} :
    /\ seen[u] \subseteq seen'[u]
    /\ st[u].pc \in Opening => s3'[st[u].key] \in seen'[u]

\* Everything that holds of another goroutine still does.
LEMMA OthersKept ==
  ASSUME DiskInv, NEW t, NEW w, Frame(t, w), Writes(t, w), SeenFrame(t),
         NEW u \in Thread, u # t
  PROVE  ThreadInv(u)'
<1>1. st'[u] = st[u] /\ ThreadInv(u)
  BY DEF Frame, DiskInv
<1>2. PhaseOf(u)'
  BY <1>1 DEF ThreadInv, PhaseOf
<1>3. SpillOf(u)' /\ BodyOf(u)' /\ (st[u].pc = "reading" => body'[st[u].path] = body[st[u].path])
  BY SpillKept, BodyKept
<1>4. SeenOf(u)'
  <2>1. SeenOf(u) /\ seen[u] \subseteq seen'[u]
        /\ (st[u].pc \in Opening => s3'[st[u].key] \in seen'[u])
    BY <1>1 DEF ThreadInv, SeenFrame
  <2> QED
    BY <1>1, <1>3, <2>1 DEF SeenOf
<1> QED
  BY <1>2, <1>3, <1>4 DEF ThreadInv

\* Entry j is one that t inserts: a file it owned, and owns no longer.
Entered(t, j) ==
  /\ t \in Thread /\ j = st[t].key
  /\ idx'.val[j].path \in Owned(t) /\ idx'.val[j].path \notin Owned(t)'
  /\ IsTrue(idx'.val[j].path, idx'.val[j].etag)

\* Files change owner from t to an entry, and new ones are owned by t.
OwnFrame(t) ==
  /\ \A j \in DOMAIN idx'.val :
       (j \in DOMAIN idx.val /\ idx'.val[j] = idx.val[j]) \/ Entered(t, j)
  /\ t \in Thread =>
       /\ \A p \in Owned(t)' : p \in Taken => p \in Owned(t)
       /\ st'[t].dst # 0 => st'[t].dst # st'[t].path

\* A file that loses its owner is removed.
KeptFrame(t) ==
  disk' = "ready" => \A p \in Name : name'[p] # 0 =>
    \/ t \in Thread /\ p \in Owned(t)'
    \/ /\ disk = "ready" /\ name[p] # 0
       /\ p \in Paths(idx) \/ (t \in Thread /\ p \in Owned(t)) =>
            p \in Paths(idx)' \/ (t \in Thread /\ p \in Owned(t)')

\* What is owned is taken.
LEMMA OwnedIsTaken ==
  ASSUME NEW t \in Thread
  PROVE  Owned(t) \subseteq Taken
BY DEF Owned, Taken

\* Still no file has two owners.
LEMMA OwnKept ==
  ASSUME DiskInv, NEW t, \A u \in Thread \ {t} : st'[u] = st[u], OwnFrame(t)
  PROVE  OwnInv'
<1> DEFINE path(j) == idx'.val[j].path
<1>1. \A u \in Thread \ {t} : Owned(u)' = Owned(u)
  BY DEF Owned
<1>2. OwnInv
  BY DEF DiskInv
<1>3. ASSUME NEW j \in DOMAIN idx'.val, NEW u \in Thread PROVE path(j) \notin Owned(u)'
  <2>1. CASE j \in DOMAIN idx.val /\ idx'.val[j] = idx.val[j]
    <3>1. path(j) \in Taken /\ path(j) \notin Owned(u)
      BY <1>2, <2>1 DEF OwnInv, Taken, Paths
    <3>2. CASE u # t
      BY <1>1, <3>1, <3>2
    <3>3. CASE u = t
      BY <3>1, <3>3 DEF OwnFrame
    <3> QED
      BY <3>2, <3>3
  <2>2. CASE Entered(t, j)
    <3>1. CASE u # t
      BY <1>1, <1>2, <2>2, <3>1 DEF Entered, OwnInv
    <3>2. CASE u = t
      BY <2>2, <3>2 DEF Entered
    <3> QED
      BY <3>1, <3>2
  <2> QED
    BY <2>1, <2>2 DEF OwnFrame
<1>4. ASSUME NEW j \in DOMAIN idx'.val, NEW k \in DOMAIN idx'.val, path(j) = path(k) PROVE j = k
  <2>1. CASE Entered(t, j) /\ Entered(t, k)
    BY <2>1 DEF Entered
  <2>2. CASE /\ j \in DOMAIN idx.val /\ idx'.val[j] = idx.val[j]
             /\ k \in DOMAIN idx.val /\ idx'.val[k] = idx.val[k]
    BY <1>2, <1>4, <2>2 DEF OwnInv
  <2>3. CASE Entered(t, j) /\ k \in DOMAIN idx.val /\ idx'.val[k] = idx.val[k]
    BY <1>2, <1>4, <2>3 DEF OwnInv, Entered
  <2>4. CASE Entered(t, k) /\ j \in DOMAIN idx.val /\ idx'.val[j] = idx.val[j]
    BY <1>2, <1>4, <2>4 DEF OwnInv, Entered
  <2> QED
    BY <2>1, <2>2, <2>3, <2>4 DEF OwnFrame
<1>5. ASSUME NEW u \in Thread, NEW v \in Thread, u # v PROVE Owned(u)' \cap Owned(v)' = {}
  <2>1. CASE u # t /\ v # t
    BY <1>1, <1>2, <1>5, <2>1 DEF OwnInv
  <2>2. CASE u = t
    BY <1>1, <1>2, <1>5, <2>2, OwnedIsTaken DEF OwnInv, OwnFrame
  <2>3. CASE v = t
    BY <1>1, <1>2, <1>5, <2>3, OwnedIsTaken DEF OwnInv, OwnFrame
  <2> QED
    BY <2>1, <2>2, <2>3
<1>6. ASSUME NEW u \in Thread, st'[u].dst # 0 PROVE st'[u].dst # st'[u].path
  BY <1>2, <1>6 DEF OwnInv, OwnFrame
<1> QED
  BY <1>3, <1>4, <1>5, <1>6 DEF OwnInv

\* Still every file has an owner.
LEMMA KeptKept ==
  ASSUME DiskInv, NEW t, \A u \in Thread \ {t} : st'[u] = st[u], KeptFrame(t)
  PROVE  KeptInv'
<1> SUFFICES ASSUME disk' = "ready", NEW p \in Name, name'[p] # 0
             PROVE  p \in Paths(idx)' \/ \E u \in Thread : p \in Owned(u)'
  BY DEF KeptInv, Paths
<1>1. \A u \in Thread \ {t} : Owned(u)' = Owned(u)
  BY DEF Owned
<1>2. disk = "ready" /\ name[p] # 0 => p \in Paths(idx) \/ \E u \in Thread : p \in Owned(u)
  BY DEF DiskInv, KeptInv
<1>3. \/ t \in Thread /\ p \in Owned(t)'
      \/ /\ disk = "ready" /\ name[p] # 0
         /\ p \in Paths(idx) \/ (t \in Thread /\ p \in Owned(t)) =>
              p \in Paths(idx)' \/ (t \in Thread /\ p \in Owned(t)')
  BY DEF KeptFrame
<1> QED
  BY <1>1, <1>2, <1>3

\* Still every entry is true.
LEMMA TruthKept ==
  ASSUME DiskInv, NEW t, NEW w, Frame(t, w), Writes(t, w), OwnFrame(t),
         w # 0 => idx' = idx
  PROVE  EntriesNamed'
<1> SUFFICES ASSUME NEW k \in DOMAIN idx'.val, name'[idx'.val[k].path] # 0
             PROVE  Names(idx'.val[k].etag, body'[name'[idx'.val[k].path]])
  BY DEF EntriesNamed, IsTrue
<1> DEFINE p == idx'.val[k].path
           e == idx'.val[k].etag
<1>1. CASE k \in DOMAIN idx.val /\ idx'.val[k] = idx.val[k]
  <2>1. p \in Taken /\ IsTrue(p, e) /\ p \in Name
    BY <1>1 DEF Taken, Paths, DiskInv, EntriesNamed, IsTrue, TypeOK, Entry
  <2>2. p # w
    <3>1. CASE w = 0
      BY <2>1, <3>1, NameIs
    <3>2. CASE t \in Thread /\ st[t].pc = "writing" /\ w = st[t].path
      <4>1. w \in Owned(t)
        BY <3>2 DEF Owned, Holding
      <4> QED
        BY <1>1, <3>2, <4>1 DEF DiskInv, OwnInv
    <3> QED
      BY <3>1, <3>2 DEF Writes
  <2> HIDE DEF p, e
  <2>3. name'[p] # 0 => Names(e, body'[name'[p]])
    BY <2>1, <2>2, TrueKept
  <2> QED
    BY <2>3 DEF p, e
<1>2. CASE Entered(t, k) /\ w = 0
  <2>1. p \in Taken /\ IsTrue(p, e)
    BY <1>2, OwnedIsTaken DEF Entered
  <2>2. p \in Name
    BY <1>2 DEF Entered, Owned, DiskInv, ThreadInv, PhaseOf, Pathed, TypeOK, Local
  <2>3. p # w
    BY <1>2, <2>2, NameIs
  <2> HIDE DEF p, e
  <2>4. name'[p] # 0 => Names(e, body'[name'[p]])
    BY <2>1, <2>2, <2>3, TrueKept
  <2> QED
    BY <2>4 DEF p, e
<1> QED
  BY <1>1, <1>2 DEF OwnFrame

\* A step of t that respects its frames keeps the invariant, if it does so
\* for t.
LEMMA StepKept ==
  ASSUME DiskInv, NEW t, NEW w, Frame(t, w), Writes(t, w), SeenFrame(t),
         OwnFrame(t), KeptFrame(t), w # 0 => idx' = idx,
         TypeOK', IndexOK(idx'), t \in Thread => ThreadInv(t)'
  PROVE  DiskInv'
<1>1. \A u \in Thread : ThreadInv(u)'
  BY OthersKept
<1>2. OwnInv' /\ KeptInv' /\ EntriesNamed'
  BY OwnKept, KeptKept, TruthKept DEF Frame
<1>3. IndexOK(idx)'
  BY DEF IndexOK, NoTwice, ToSet
<1> QED
  BY <1>1, <1>2, <1>3 DEF DiskInv

------------------------------------------------------------------------------
(* The directory.                                                          *)

\* The step of t touches no other goroutine.
Alone(t) == \A u \in Thread \ {t} : st'[u] = st[u]

\* Files are removed, and no name is new.
Shrinks == \A q \in Name : name'[q] \in {0, name[q]}

\* Files: names become those of n and contents, where they can be reached,
\* those of b.
LEMMA FilesFrame ==
  ASSUME DiskInv, NEW t, NEW w, Alone(t),
         NEW n \in [Name -> Name \cup {0}], NEW b \in [Name -> 0 .. MaxVersion], Files(n, b),
         \A q \in Name : \/ n[q] \in {0, name[q]}
                         \/ q \notin Taken /\ (n[q] \notin Taken \/ n[q] \in Found(t)),
         \A i \in Name : i # w /\ i \in Taken => b[i] = body[i],
         st'[t].path \notin Taken \/ st'[t].path \in {0, st[t].path} \cup Found(t) \cup Paths(idx)
  PROVE  /\ Frame(t, w)
         /\ name' = n /\ name' \in [Name -> Name \cup {0}] /\ body' \in [Name -> 0 .. MaxVersion]
         /\ \A i \in Name : (\E p \in Name : n[p] = i) \/ (\E u \in Thread : st'[u].path = i)
                              => body'[i] = b[i]
<1>1. name' = n
  BY DEF Files
<1>2. MaxVersion \in Nat
  BY DiskCacheAssumption DEF DiskCacheAssumption
<1>3. body' = [i \in Name |->
        IF (\E p \in Name : n[p] = i) \/ (\E u \in Thread : st'[u].path = i) THEN b[i] ELSE 0]
  BY DEF Files
<1>4. body' \in [Name -> 0 .. MaxVersion]
  BY <1>2, <1>3
<1>5. \A i \in Name : (\E p \in Name : n[p] = i) \/ (\E u \in Thread : st'[u].path = i)
                        => body'[i] = b[i]
  BY <1>3
<1>6. \A i \in Name : Ref(i) => i \in Taken
  BY DEF Ref, Taken
<1>7. \A i \in Name : i # w /\ Ref(i) /\ Ref(i)' => body'[i] = body[i]
  BY <1>1, <1>5, <1>6 DEF Ref
<1> QED
  BY <1>1, <1>4, <1>5, <1>7 DEF Frame, Alone

\* The file t uses stays as it is.
LEMMA SelfKept ==
  ASSUME DiskInv, NEW t \in Thread, NEW w, Frame(t, w), st[t].path # w,
         st'[t].path = st[t].path, st[t].path # 0
  PROVE  body'[st[t].path] = body[st[t].path]
<1>1. st[t].path \in Name
  BY DEF DiskInv, TypeOK, Local
<1>2. Ref(st[t].path)
  BY DEF Ref
<1>3. \A i \in Name : i # w /\ Ref(i) /\ (\E v \in Thread : st'[v].path = i) => body'[i] = body[i]
  BY DEF Frame, Ref
<1> QED
  BY <1>1, <1>2, <1>3

\* A spill file stays t's own while nothing is linked.
LEMMA SpillSelf ==
  ASSUME DiskInv, NEW t \in Thread, Alone(t), Shrinks,
         st[t].pc \in Spilled, st'[t].path = st[t].path
  PROVE  SpillOf(t)'
<1>1. st[t].path # 0 /\ SpillOf(t)
  BY DEF DiskInv, ThreadInv, PhaseOf, Pathed, Holding, Spilled
<1> QED
  BY <1>1 DEF SpillOf, Alone, Shrinks

------------------------------------------------------------------------------
(* Steps on the index.                                                     *)

\* What index steps of t have in common: x becomes the index, of old entries
\* and one that t may insert, and the files of the others go.
IndexStep(t, x, E) ==
  /\ Alone(t) /\ st' \in [Thread -> Local]
  /\ Index(x, E)
  /\ disk' = disk /\ s3' = s3 /\ ver' = ver /\ had' = had
  /\ left' \in [ops : 0 .. MaxOps, faults : 0 .. MaxFaults]
  /\ seen' \in [Thread -> SUBSET (0 .. MaxVersion)]
  /\ \A u \in Thread \ {t} : seen'[u] = seen[u]
  /\ st'[t].path \in {0, st[t].path} \cup Paths(idx)

\* The files after an index step.
LEMMA IndexFiles ==
  ASSUME DiskInv, NEW t \in Thread, NEW x, NEW E, IndexStep(t, x, E)
  PROVE  /\ Frame(t, 0) /\ Shrinks /\ idx' = x
         /\ name' \in [Name -> Name \cup {0}] /\ body' \in [Name -> 0 .. MaxVersion]
         /\ \A p \in Name : name'[p] # 0 =>
              name[p] # 0 /\ (p \in Paths(idx) \cup E => p \in Paths(x))
<1> DEFINE n == [p \in Name |-> IF p \in (Paths(idx) \cup E) \ Paths(x) THEN 0 ELSE name[p]]
<1>1. idx' = x /\ Files(n, body)
  BY DEF IndexStep, Index
<1>2. n \in [Name -> Name \cup {0}] /\ body \in [Name -> 0 .. MaxVersion]
  BY DEF DiskInv, TypeOK
<1>3. \A q \in Name : n[q] \in {0, name[q]}
  OBVIOUS
<1>4. \A q \in Name : n[q] # 0 => name[q] # 0 /\ (q \in Paths(idx) \cup E => q \in Paths(x))
  OBVIOUS
<1> HIDE DEF n
<1>5. /\ Frame(t, 0) /\ name' = n
      /\ name' \in [Name -> Name \cup {0}] /\ body' \in [Name -> 0 .. MaxVersion]
  <2>1. Alone(t) /\ st'[t].path \in {0, st[t].path} \cup Found(t) \cup Paths(idx)
    BY DEF IndexStep
  <2> QED
    BY <1>1, <1>2, <1>3, <2>1, FilesFrame
<1> QED
  BY <1>1, <1>3, <1>4, <1>5 DEF Shrinks

\* An index step keeps the invariant if it does so for t, and if files leave
\* t only with it.
LEMMA IndexKept ==
  ASSUME DiskInv, NEW t \in Thread, NEW x, NEW E, IndexStep(t, x, E), IndexOK(x),
         \A j \in DOMAIN x.val :
           \/ j \in DOMAIN idx.val /\ x.val[j] = idx.val[j]
           \/ x.val[j] \in Entry /\ Entered(t, j),
         Owned(t)' \subseteq Owned(t), Owned(t) \subseteq Owned(t)' \cup E,
         st'[t].dst # 0 => st'[t].dst # st'[t].path,
         ThreadInv(t)'
  PROVE  DiskInv'
<1>1. /\ Frame(t, 0) /\ Shrinks /\ idx' = x
      /\ name' \in [Name -> Name \cup {0}] /\ body' \in [Name -> 0 .. MaxVersion]
      /\ \A p \in Name : name'[p] # 0 =>
           name[p] # 0 /\ (p \in Paths(idx) \cup E => p \in Paths(x))
  BY IndexFiles
<1>2. DOMAIN x.val \subseteq Key
  BY DEF IndexOK, ToSet
<1>3. \A j \in DOMAIN x.val : x.val[j] \in Entry
  BY DEF DiskInv, TypeOK
<1>4. TypeOK'
  BY <1>1, <1>2, <1>3 DEF TypeOK, DiskInv, IndexStep
<1>5. SeenFrame(t)
  BY DEF IndexStep, SeenFrame, DiskInv, ThreadInv, SeenOf
<1>6. OwnFrame(t)
  BY <1>1 DEF OwnFrame
<1>7. KeptFrame(t)
  <2> SUFFICES ASSUME disk' = "ready", NEW p \in Name, name'[p] # 0
               PROVE  /\ disk = "ready" /\ name[p] # 0
                      /\ p \in Paths(idx) \/ p \in Owned(t) => p \in Paths(idx)' \/ p \in Owned(t)'
    BY DEF KeptFrame
  <2>1. Paths(idx)' = Paths(x)
    BY <1>1 DEF Paths
  <2>2. disk = "ready"
    BY DEF IndexStep
  <2> QED
    BY <1>1, <2>1, <2>2
<1> QED
  BY <1>1, <1>4, <1>5, <1>6, <1>7, StepKept DEF Writes

\* idx.get leaves an index of old entries.
LEMMA GetsIs ==
  ASSUME DiskInv, NEW k, NEW x \in Gets(k)
  PROVE  IndexOK(x) /\ Within(x, idx)
BY TouchIs, RemovedIs DEF Gets, DiskInv, Within

\* A goroutine between operations, or on its way to a file, owns none.
LEMMA OwnsNone ==
  ASSUME DiskInv, NEW t \in Thread, st[t].pc \notin Holding \cup {"copyInsert"}
  PROVE  Owned(t) = {} /\ st[t].dst = 0
<1>1. st[t].dst = 0
  BY DEF DiskInv, ThreadInv, PhaseOf, Holding
<1> QED
  BY <1>1 DEF Owned

\* The locals of no operation.
LEMMA IdleIs == Idle \in Local
BY DiskCacheAssumption DEF DiskCacheAssumption, Idle, Local, PC, Opening

\* OpenFile.
LEMMA OpenFileKept ==
  ASSUME DiskInv, NEW t \in Thread, NEW k \in Key, NEW write \in BOOLEAN, OpenFile(t, k, write)
  PROVE  DiskInv'
<1>1. PICK x \in Gets(k) :
        /\ Start(t, [Idle EXCEPT !.pc = IF Has(x, k) THEN "head" ELSE "get",
                                 !.key = k, !.write = write])
        /\ Index(x, {})
  BY DEF OpenFile
<1> DEFINE r == [Idle EXCEPT !.pc = IF Has(x, k) THEN "head" ELSE "get",
                             !.key = k, !.write = write]
<1>2. /\ r \in Local /\ r.pc \in {"head", "get"} /\ r.key = k /\ r.path = 0 /\ r.dst = 0
  <2> DEFINE c == IF Has(x, k) THEN "head" ELSE "get"
  <2>1. c \in {"head", "get"} /\ c \in PC
    BY DEF PC, Opening
  <2> HIDE DEF c
  <2>2. r = [Idle EXCEPT !.pc = c, !.key = k, !.write = write]
    BY DEF c
  <2>3. Idle.path = 0 /\ Idle.dst = 0
    BY DEF Idle
  <2> QED
    BY <2>1, <2>2, <2>3, IdleIs DEF Local
<1>3. st' = [st EXCEPT ![t] = r] /\ st[t].pc = "idle"
  BY <1>1 DEF Start, Begin
<1> HIDE DEF r
<1>4. st'[t] = r /\ Alone(t) /\ st' \in [Thread -> Local]
  BY <1>2, <1>3 DEF Alone, DiskInv, TypeOK
<1>5. IndexStep(t, x, {})
  <2>1. left' \in [ops : 0 .. MaxOps, faults : 0 .. MaxFaults]
    BY <1>1, DiskCacheAssumption DEF DiskCacheAssumption, Start, Begin, DiskInv, TypeOK
  <2>2. seen' \in [Thread -> SUBSET (0 .. MaxVersion)] /\ \A u \in Thread \ {t} : seen'[u] = seen[u]
    BY DEF OpenFile, DiskInv, TypeOK
  <2> QED
    BY <1>1, <1>2, <1>4, <2>1, <2>2 DEF IndexStep, OpenFile
<1>6. ThreadInv(t)'
  <2>1. seen'[t] = {s3[k]} /\ s3' = s3
    BY DEF OpenFile, DiskInv, TypeOK
  <2> QED
    BY <1>2, <1>4, <2>1 DEF ThreadInv, PhaseOf, SeenOf, BodyOf, SpillOf, Pathed, Holding, Spilled
<1>7. Owned(t) = {} /\ Owned(t)' = {}
  <2>1. st[t].pc \notin Holding \cup {"copyInsert"}
    BY <1>3 DEF Holding
  <2> QED
    BY <1>2, <1>4, <2>1, OwnsNone DEF Owned, Holding
<1> QED
  BY <1>2, <1>4, <1>5, <1>6, <1>7, GetsIs, IndexKept DEF Within

\* OpenEntry.
LEMMA OpenEntryKept ==
  ASSUME DiskInv, NEW t \in Thread, OpenEntry(t)
  PROVE  DiskInv'
<1> DEFINE k == st[t].key
           hit(x) == Has(x, k) /\ st[t].etag # 0 /\ x.val[k].etag = st[t].etag
<1>1. PICK x \in Gets(k) :
        /\ st' = [st EXCEPT ![t].pc   = IF hit(x) THEN "fopen" ELSE "fetch",
                            ![t].path = IF hit(x) THEN x.val[k].path ELSE 0]
        /\ Index(x, {})
  BY DEF OpenEntry
<1>2. IndexOK(x) /\ Within(x, idx)
  BY GetsIs
<1>3. /\ hit(x) => /\ k \in DOMAIN idx.val /\ idx.val[k].path \in Name
                   /\ x.val[k].path = idx.val[k].path /\ idx.val[k].etag = st[t].etag
                   /\ st[t].etag # 0
      /\ st[t].pc = "open" /\ st[t].key \in Key
  BY <1>2 DEF Within, Has, DiskInv, TypeOK, Entry, ThreadInv, PhaseOf, OpenEntry
<1> DEFINE h == hit(x)
           path == IF h THEN x.val[k].path ELSE 0
           r == [st[t] EXCEPT !.pc = IF h THEN "fopen" ELSE "fetch", !.path = path]
<1>4. st' = [st EXCEPT ![t] = r]
  BY <1>1 DEF DiskInv, TypeOK
<1> HIDE DEF h
<1>5. path \in Paths(idx) \cup {0} /\ path \in Name \cup {0} /\ (h => path = idx.val[k].path)
  BY <1>3 DEF Paths, h
<1> HIDE DEF path
<1>6. /\ r \in Local /\ r.pc = (IF h THEN "fopen" ELSE "fetch") /\ r.path = path
      /\ r.key = st[t].key /\ r.dst = st[t].dst /\ r.etag = st[t].etag
  <2> DEFINE c == IF h THEN "fopen" ELSE "fetch"
  <2>1. c \in PC
    BY DEF PC, Opening
  <2> HIDE DEF c
  <2>2. r = [st[t] EXCEPT !.pc = c, !.path = path] /\ st[t] \in Local
    BY DEF c, DiskInv, TypeOK
  <2>3. /\ r \in Local /\ r.pc = c /\ r.path = path
        /\ r.key = st[t].key /\ r.dst = st[t].dst /\ r.etag = st[t].etag
    BY <1>5, <2>1, <2>2 DEF Local
  <2> QED
    BY <2>3 DEF c
<1> HIDE DEF r
<1>7. st'[t] = r /\ Alone(t) /\ st' \in [Thread -> Local]
  BY <1>4, <1>6 DEF Alone, DiskInv, TypeOK
<1>8. IndexStep(t, x, {})
  BY <1>1, <1>5, <1>6, <1>7 DEF IndexStep, OpenEntry, DiskInv, TypeOK
<1>9. Owned(t) = {} /\ st[t].dst = 0
  BY <1>3, OwnsNone DEF Holding
<1>10. Owned(t)' = {}
  BY <1>6, <1>7, <1>9 DEF Owned, Holding
<1>11. Frame(t, 0) /\ Writes(t, 0) /\ s3' = s3 /\ seen' = seen
  BY <1>8, IndexFiles DEF Writes, OpenEntry
<1>12. h => (name'[path] # 0 => Names(st[t].etag, body'[name'[path]]))
  <2> SUFFICES ASSUME h PROVE name'[path] # 0 => Names(st[t].etag, body'[name'[path]])
    OBVIOUS
  <2>1. IsTrue(path, st[t].etag) /\ path \in Taken /\ path \in Name /\ path # 0
    BY <1>3, <1>5, NameIs DEF h, IsTrue, DiskInv, EntriesNamed, Taken, Paths
  <2> QED
    BY <1>11, <2>1, TrueKept
<1>13. ThreadInv(t)'
  <2>1. PhaseOf(t)'
    BY <1>3, <1>5, <1>6, <1>7, <1>9, NameIs DEF h, PhaseOf, Pathed, Holding
  <2>2. SeenOf(t)'
    BY <1>3, <1>6, <1>7, <1>11 DEF h, SeenOf, DiskInv, ThreadInv, Opening
  <2>3. BodyOf(t)' /\ SpillOf(t)'
    BY <1>6, <1>7, <1>12 DEF BodyOf, SpillOf, Spilled, IsTrue
  <2> QED
    BY <2>1, <2>2, <2>3 DEF ThreadInv
<1> QED
  BY <1>2, <1>6, <1>7, <1>8, <1>9, <1>10, <1>13, IndexKept DEF Within

\* t goes on with locals r.
LEMMA LocalStep ==
  ASSUME DiskInv, NEW t \in Thread, NEW r \in Local, st' = [st EXCEPT ![t] = r]
  PROVE  st'[t] = r /\ Alone(t) /\ st' \in [Thread -> Local]
BY DEF Alone, DiskInv, TypeOK

\* An operation ends, and its history with it.
LEMMA ForgetIs ==
  ASSUME DiskInv, NEW t \in Thread, Forget(t)
  PROVE  /\ seen' \in [Thread -> SUBSET (0 .. MaxVersion)]
         /\ \A u \in Thread \ {t} : seen'[u] = seen[u]
<1>1. seen \in [Thread -> SUBSET (0 .. MaxVersion)] /\ {} \in SUBSET (0 .. MaxVersion)
  BY DEF DiskInv, TypeOK
<1> QED
  BY <1>1 DEF Forget

\* t is done.
LEMMA DoneIs ==
  ASSUME DiskInv, NEW t \in Thread, Done(t)
  PROVE  /\ st'[t].path = 0 /\ st'[t].dst = 0 /\ st'[t].pc = "idle"
         /\ seen' \in [Thread -> SUBSET (0 .. MaxVersion)]
         /\ \A u \in Thread \ {t} : seen'[u] = seen[u]
         /\ Alone(t) /\ st' \in [Thread -> Local]
         /\ ThreadInv(t)' /\ Owned(t)' = {}
<1>1. st'[t] = Idle /\ Alone(t) /\ st' \in [Thread -> Local]
  BY IdleIs, LocalStep DEF Done
<1>2. Idle.pc = "idle" /\ Idle.path = 0 /\ Idle.dst = 0
  BY DEF Idle
<1>3. PhaseOf(t)' /\ SeenOf(t)' /\ BodyOf(t)' /\ SpillOf(t)'
  BY <1>1, <1>2
     DEF PhaseOf, SeenOf, BodyOf, SpillOf, Opening, Pathed, Holding, Spilled
<1>4. /\ seen' \in [Thread -> SUBSET (0 .. MaxVersion)]
      /\ \A u \in Thread \ {t} : seen'[u] = seen[u]
  BY ForgetIs DEF Done
<1> QED
  BY <1>1, <1>2, <1>3, <1>4 DEF ThreadInv, Owned, Holding

\* Gone.
LEMMA GoneKept ==
  ASSUME DiskInv, NEW t \in Thread, Gone(t)
  PROVE  DiskInv'
<1> DEFINE k == st[t].key
           same(x) == Has(x, k) /\ x.val[k].path = st[t].path
           r == [st[t] EXCEPT !.pc = "fetch", !.path = 0]
<1>1. PICK x \in Gets(k) : Index(IF same(x) THEN Removed(x, k) ELSE x, {})
  BY DEF Gone
<1> DEFINE y == IF same(x) THEN Removed(x, k) ELSE x
<1>2. IndexOK(x) /\ Within(x, idx)
  BY GetsIs
<1>3. IndexOK(y) /\ Within(y, idx)
  <2>1. IndexOK(Removed(x, k)) /\ Within(Removed(x, k), x)
    BY <1>2, RemovedIs
  <2> QED
    BY <1>2, <2>1 DEF Within
<1>4. Index(y, {})
  BY <1>1
<1> HIDE DEF y
<1>5. st[t].pc = "gone" /\ st' = [st EXCEPT ![t] = r]
  BY DEF Gone, DiskInv, TypeOK
<1>6. /\ r \in Local /\ r.pc = "fetch" /\ r.path = 0
      /\ r.key = st[t].key /\ r.dst = st[t].dst
  <2>1. st[t] \in Local /\ "fetch" \in PC
    BY DEF DiskInv, TypeOK, PC, Opening
  <2> QED
    BY <2>1 DEF Local
<1> HIDE DEF r
<1>7. st'[t] = r /\ Alone(t) /\ st' \in [Thread -> Local]
  BY <1>5, <1>6, LocalStep
<1>8. IndexStep(t, y, {})
  BY <1>4, <1>6, <1>7 DEF IndexStep, Gone, DiskInv, TypeOK
<1>9. Owned(t) = {} /\ st[t].dst = 0
  BY <1>5, OwnsNone DEF Holding
<1>10. Owned(t)' = {}
  BY <1>6, <1>7, <1>9 DEF Owned, Holding
<1>11. ThreadInv(t)'
  <2>1. PhaseOf(t) /\ SeenOf(t) /\ s3' = s3 /\ seen' = seen
    BY DEF DiskInv, ThreadInv, Gone
  <2>2. PhaseOf(t)' /\ SeenOf(t)' /\ BodyOf(t)' /\ SpillOf(t)'
    BY <1>5, <1>6, <1>7, <1>9, <2>1
       DEF PhaseOf, SeenOf, BodyOf, SpillOf, Opening, Pathed, Holding, Spilled
  <2> QED
    BY <2>2 DEF ThreadInv
<1> QED
  BY <1>3, <1>6, <1>7, <1>8, <1>9, <1>10, <1>11, IndexKept DEF Within

\* FlushDrop.
LEMMA FlushDropKept ==
  ASSUME DiskInv, NEW t \in Thread, FlushDrop(t)
  PROVE  DiskInv'
<1> DEFINE k == st[t].key
           x == Removed(idx, k)
           c == IF st[t].pc = "syncDrop" THEN "writing" ELSE "link"
<1>0. PICK e \in ETags(st[t].ver) :
        st' = [st EXCEPT ![t].pc = IF @ = "syncDrop" THEN "writing" ELSE "link",
                         ![t].etag = e, ![t].ver = 0, ![t].dirty = FALSE]
  BY DEF FlushDrop
<1> DEFINE r == [st[t] EXCEPT !.pc = c, !.etag = e, !.ver = 0, !.dirty = FALSE]
<1>1. st[t].pc \in {"syncDrop", "closeDrop"} /\ st[t] \in Local
  BY DEF FlushDrop, DiskInv, TypeOK
<1>2. st' = [st EXCEPT ![t] = r]
  BY <1>0 DEF DiskInv, TypeOK
<1>3. c \in {"writing", "link"} /\ c \in PC /\ e \in {0, st[t].ver} /\ e \in 0 .. MaxVersion
  <2>1. st[t].ver \in 0 .. MaxVersion /\ 0 \in 0 .. MaxVersion
    BY <1>1, DiskCacheAssumption DEF Local, DiskCacheAssumption
  <2> QED
    BY <1>0, <2>1 DEF PC, ETags
<1> HIDE DEF c
<1>4. /\ r \in Local /\ r.pc = c /\ r.etag = e /\ r.path = st[t].path
      /\ r.key = st[t].key /\ r.dst = st[t].dst
  <2>1. 0 \in 0 .. MaxVersion
    BY DiskCacheAssumption DEF DiskCacheAssumption
  <2> QED
    BY <1>1, <1>3, <2>1 DEF Local
<1> HIDE DEF r
<1>5. st'[t] = r /\ Alone(t) /\ st' \in [Thread -> Local]
  BY <1>2, <1>4, LocalStep
<1>6. IndexOK(x) /\ Within(x, idx)
  BY RemovedIs DEF DiskInv
<1>7. Index(x, {})
  BY DEF FlushDrop
<1> HIDE DEF x
<1>8. IndexStep(t, x, {})
  BY <1>4, <1>5, <1>7 DEF IndexStep, FlushDrop, DiskInv, TypeOK
<1>9. Frame(t, 0) /\ Shrinks
  BY <1>8, IndexFiles
<1>10. PhaseOf(t) /\ BodyOf(t) /\ st[t].path # 0 /\ st[t].dst = 0
  BY <1>1 DEF DiskInv, ThreadInv, PhaseOf, Pathed, Holding
<1>11. body'[st[t].path] = st[t].ver /\ name'[st[t].path] \in {0, st[t].path}
  <2>1. body'[st[t].path] = body[st[t].path]
    BY <1>4, <1>5, <1>9, <1>10, SelfKept
  <2>2. st[t].path \in Name
    BY <1>1, <1>10 DEF Local
  <2>3. body[st[t].path] = st[t].ver /\ name[st[t].path] \in {0, st[t].path}
    BY <1>1, <1>10 DEF BodyOf, Spilled
  <2> QED
    BY <1>9, <2>1, <2>2, <2>3 DEF Shrinks
<1>12. ThreadInv(t)'
  <2>1. PhaseOf(t)'
    BY <1>1, <1>3, <1>4, <1>5, <1>10 DEF PhaseOf, Pathed, Holding
  <2>2. SeenOf(t)'
    BY <1>3, <1>4, <1>5 DEF SeenOf, Opening
  <2>3. BodyOf(t)'
    BY <1>3, <1>4, <1>5, <1>11 DEF BodyOf, Spilled
  <2>4. SpillOf(t)'
    BY <1>1, <1>4, <1>5, <1>9, SpillSelf DEF Spilled
  <2> QED
    BY <2>1, <2>2, <2>3, <2>4 DEF ThreadInv
<1>13. Owned(t)' = Owned(t)
  BY <1>1, <1>3, <1>4, <1>5 DEF Owned, Holding
<1> QED
  BY <1>4, <1>5, <1>6, <1>8, <1>10, <1>12, <1>13, IndexKept DEF Within

\* Drop.
LEMMA DropKept ==
  ASSUME DiskInv, NEW t \in Thread, Drop(t)
  PROVE  DiskInv'
<1> DEFINE x == Removed(idx, st[t].key)
<1>1. st[t].pc = "drop" /\ Done(t) /\ Index(x, {})
  BY DEF Drop
<1>2. IndexOK(x) /\ Within(x, idx)
  BY RemovedIs DEF DiskInv
<1> HIDE DEF x
<1>3. IndexStep(t, x, {})
  BY <1>1, DoneIs DEF IndexStep, Drop, DiskInv, TypeOK
<1>4. Owned(t) = {}
  BY <1>1, OwnsNone DEF Holding
<1> QED
  BY <1>1, <1>2, <1>3, <1>4, DoneIs, IndexKept DEF Within

\* Copied.
LEMMA CopiedKept ==
  ASSUME DiskInv, NEW t \in Thread, Copied(t)
  PROVE  DiskInv'
<1> DEFINE a == st[t].src
           b == st[t].key
<1>1. st[t].pc = "copied" /\ st[t] \in Local /\ b \in Key
  BY DEF Copied, DiskInv, TypeOK, ThreadInv, PhaseOf
<1>2. Owned(t) = {} /\ st[t].dst = 0
  BY <1>1, OwnsNone DEF Holding
<1>3. ASSUME NEW x \in Gets(a), Has(x, a), Index(x, {}),
             st' = [st EXCEPT ![t].pc = "copyLink", ![t].src = None,
                              ![t].etag = x.val[a].etag, ![t].ver = x.val[a].size,
                              ![t].path = x.val[a].path],
             UNCHANGED seen
      PROVE  DiskInv'
  <2> DEFINE e == x.val[a].etag
             z == x.val[a].size
             p == x.val[a].path
             r == [st[t] EXCEPT !.pc = "copyLink", !.src = None, !.etag = e, !.ver = z, !.path = p]
  <2>1. IndexOK(x) /\ Within(x, idx)
    BY GetsIs
  <2>2. /\ a \in DOMAIN idx.val /\ e = idx.val[a].etag /\ z = idx.val[a].size
        /\ p = idx.val[a].path /\ idx.val[a] \in Entry
    BY <1>3, <2>1 DEF Has, Within, DiskInv, TypeOK
  <2>3. /\ e \in 0 .. MaxVersion /\ e # 0 /\ z \in 0 .. MaxVersion /\ z # 0
        /\ p \in Name /\ p # 0
    BY <2>2, NameIs, DiskCacheAssumption DEF DiskCacheAssumption, Version, Entry
  <2>4. st' = [st EXCEPT ![t] = r]
    BY <1>3 DEF DiskInv, TypeOK
  <2>5. IsTrue(p, e) /\ p \in Taken /\ p \in Paths(idx)
    BY <2>2 DEF IsTrue, DiskInv, EntriesNamed, Taken, Paths
  <2> HIDE DEF e, z, p
  <2>6. /\ r \in Local /\ r.pc = "copyLink" /\ r.etag = e /\ r.ver = z /\ r.path = p
        /\ r.key = b /\ r.dst = st[t].dst
    <3>1. "copyLink" \in PC
      BY DEF PC
    <3> QED
      BY <1>1, <2>3, <3>1 DEF Local
  <2> HIDE DEF r
  <2>7. st'[t] = r /\ Alone(t) /\ st' \in [Thread -> Local]
    BY <2>4, <2>6, LocalStep
  <2>8. IndexStep(t, x, {})
    BY <1>3, <2>5, <2>6, <2>7 DEF IndexStep, Copied, DiskInv, TypeOK
  <2>9. Frame(t, 0) /\ Writes(t, 0)
    BY <2>8, IndexFiles DEF Writes
  <2>10. name'[p] # 0 => Names(e, body'[name'[p]])
    BY <2>3, <2>5, <2>9, TrueKept
  <2>11. ThreadInv(t)'
    <3>1. PhaseOf(t)'
      BY <1>1, <1>2, <2>3, <2>6, <2>7 DEF PhaseOf, Pathed, Holding
    <3>2. SeenOf(t)'
      BY <2>6, <2>7 DEF SeenOf, Opening
    <3>3. BodyOf(t)' /\ SpillOf(t)'
      BY <2>6, <2>7, <2>10 DEF BodyOf, SpillOf, Spilled, IsTrue
    <3> QED
      BY <3>1, <3>2, <3>3 DEF ThreadInv
  <2>12. Owned(t)' = {}
    BY <1>2, <2>6, <2>7 DEF Owned, Holding
  <2> QED
    BY <1>2, <2>1, <2>6, <2>7, <2>8, <2>11, <2>12, IndexKept DEF Within
<1>4. ASSUME NEW x \in Gets(a), Done(t), Index(Removed(x, b), {})
      PROVE  DiskInv'
  <2> DEFINE y == Removed(x, b)
  <2>1. IndexOK(y) /\ Within(y, idx)
    <3>1. IndexOK(x) /\ Within(x, idx)
      BY GetsIs
    <3>2. IndexOK(y) /\ Within(y, x)
      BY <3>1, RemovedIs
    <3> QED
      BY <3>1, <3>2 DEF Within
  <2>2. Index(y, {})
    BY <1>4
  <2> HIDE DEF y
  <2>3. IndexStep(t, y, {})
    BY <1>4, <2>2, DoneIs DEF IndexStep, Copied, DiskInv, TypeOK
  <2> QED
    BY <1>2, <1>4, <2>1, <2>3, DoneIs, IndexKept DEF Within
<1> QED
  BY <1>3, <1>4 DEF Copied

\* The entry that insert is to make is true.
LEMMA InsertKept ==
  ASSUME DiskInv, NEW t \in Thread, NEW e, NEW p, NEW z,
         insert(st[t].key, e, p, z), st[t].key \in Key, e \in Version, z \in Version, p \in Name,
         IndexStep(t, Put(idx, st[t].key, [etag |-> e, size |-> z, path |-> p], Cost[z], MaxBytes),
                   {p}),
         p \in Owned(t), Owned(t)' = Owned(t) \ {p}, IsTrue(p, e),
         st'[t].dst # 0 => st'[t].dst # st'[t].path,
         ThreadInv(t)'
  PROVE  DiskInv'
<1> DEFINE k == st[t].key
           v == [etag |-> e, size |-> z, path |-> p]
           x == Put(idx, k, v, Cost[z], MaxBytes)
<1>1. /\ IndexOK(x)
      /\ \A j \in DOMAIN x.val :
           IF j = k THEN x.val[j] = v ELSE j \in DOMAIN idx.val /\ x.val[j] = idx.val[j]
  BY PutIs DEF DiskInv
<1>2. IndexStep(t, x, {p})
  OBVIOUS
<1>3. v \in Entry /\ v.etag = e /\ v.path = p
  BY DEF Entry
<1> HIDE DEF x, v
<1>4. idx' = x
  BY <1>2, IndexFiles
<1>5. x.val[k] = v => Entered(t, k)
  BY <1>3, <1>4 DEF Entered
<1>6. \A j \in DOMAIN x.val :
        \/ j \in DOMAIN idx.val /\ x.val[j] = idx.val[j]
        \/ x.val[j] \in Entry /\ Entered(t, j)
  BY <1>1, <1>3, <1>5
<1> QED
  BY <1>1, <1>2, <1>6, IndexKept

\* Insert.
LEMMA InsertStepKept ==
  ASSUME DiskInv, NEW t \in Thread, Insert(t)
  PROVE  DiskInv'
<1> DEFINE s == st[t]
           x == Put(idx, s.key, [etag |-> s.etag, size |-> s.ver, path |-> s.path],
                    Cost[s.ver], MaxBytes)
           r == [s EXCEPT !.pc = "reading"]
<1>1. s.pc = "insert" /\ s \in Local /\ PhaseOf(t) /\ SeenOf(t) /\ BodyOf(t)
  BY DEF Insert, DiskInv, TypeOK, ThreadInv
<1>2. /\ s.key \in Key /\ s.path # 0 /\ s.path \in Name /\ s.dst = 0
      /\ s.etag \in Version /\ s.ver \in Version /\ Names(s.etag, s.ver)
      /\ s.ver \in seen[t] /\ body[s.path] = s.ver
      /\ name[s.path] \in {0, s.path}
  BY <1>1, DiskCacheAssumption
     DEF PhaseOf, SeenOf, BodyOf, Pathed, Holding, Local, Version, DiskCacheAssumption
<1>3. insert(s.key, s.etag, s.path, s.ver) /\ Index(x, {s.path})
  BY DEF Insert, insert
<1>4. st' = [st EXCEPT ![t] = r]
  BY DEF Insert, Goto, DiskInv, TypeOK
<1>5. /\ r \in Local /\ r.pc = "reading" /\ r.path = s.path /\ r.key = s.key /\ r.dst = s.dst
  <2>1. "reading" \in PC
    BY DEF PC
  <2> QED
    BY <1>1, <2>1 DEF Local
<1> HIDE DEF r, x
<1>6. st'[t] = r /\ Alone(t) /\ st' \in [Thread -> Local]
  BY <1>4, <1>5, LocalStep
<1>7. IndexStep(t, x, {s.path})
  BY <1>3, <1>5, <1>6 DEF IndexStep, Insert, Goto, DiskInv, TypeOK
<1>8. body'[s.path] = body[s.path]
  BY <1>2, <1>5, <1>6, <1>7, IndexFiles, SelfKept
<1>9. ThreadInv(t)'
  <2>1. PhaseOf(t)'
    BY <1>2, <1>5, <1>6 DEF PhaseOf, Pathed, Holding
  <2>2. seen' = seen
    BY DEF Insert, Goto
  <2>3. SeenOf(t)'
    BY <1>2, <1>5, <1>6, <1>8, <2>2 DEF SeenOf, Opening, Names
  <2>4. BodyOf(t)' /\ SpillOf(t)'
    BY <1>5, <1>6 DEF BodyOf, SpillOf, Spilled
  <2> QED
    BY <2>1, <2>3, <2>4 DEF ThreadInv
<1>10. Owned(t) = {s.path} /\ Owned(t)' = {}
  BY <1>1, <1>2, <1>5, <1>6 DEF Owned, Holding
<1>11. IsTrue(s.path, s.etag)
  BY <1>2 DEF IsTrue
<1> HIDE DEF s
<1> QED
  BY <1>2, <1>3, <1>5, <1>6, <1>7, <1>9, <1>10, <1>11, InsertKept DEF x, s

\* Adopt.
LEMMA AdoptKept ==
  ASSUME DiskInv, NEW t \in Thread, Adopt(t)
  PROVE  DiskInv'
<1> DEFINE s == st[t]
           z == body[s.path]
           x == Put(idx, s.key, [etag |-> s.etag, size |-> z, path |-> s.dst], Cost[z], MaxBytes)
           r == [s EXCEPT !.pc = "destroy", !.dst = 0]
<1>1. s.pc = "adopt" /\ s \in Local /\ PhaseOf(t) /\ BodyOf(t)
  BY DEF Adopt, DiskInv, TypeOK, ThreadInv
<1>2. /\ s.key \in Key /\ s.path # 0 /\ s.dst # 0 /\ s.dst \in Name /\ s.etag \in Version
      /\ z = s.etag /\ IsTrue(s.dst, s.etag) /\ s.dst # s.path
  BY <1>1, DiskCacheAssumption
     DEF PhaseOf, BodyOf, Pathed, Holding, Local, Version, DiskCacheAssumption, DiskInv, OwnInv
<1>3. insert(s.key, s.etag, s.dst, z) /\ Index(x, {s.dst})
  BY DEF Adopt, insert
<1>4. st' = [st EXCEPT ![t] = r]
  BY DEF Adopt, DiskInv, TypeOK
<1>5. /\ r \in Local /\ r.pc = "destroy" /\ r.path = s.path /\ r.key = s.key /\ r.dst = 0
  <2>1. "destroy" \in PC
    BY DEF PC
  <2> QED
    BY <1>1, <2>1 DEF Local
<1> HIDE DEF r, x
<1>6. st'[t] = r /\ Alone(t) /\ st' \in [Thread -> Local]
  BY <1>4, <1>5, LocalStep
<1>7. IndexStep(t, x, {s.dst})
  BY <1>3, <1>5, <1>6 DEF IndexStep, Adopt, DiskInv, TypeOK
<1>8. ThreadInv(t)'
  BY <1>2, <1>5, <1>6
     DEF ThreadInv, PhaseOf, SeenOf, BodyOf, SpillOf, Opening, Pathed, Holding, Spilled
<1>9. Owned(t) = {s.path, s.dst} /\ Owned(t)' = {s.path}
  BY <1>1, <1>2, <1>5, <1>6 DEF Owned, Holding
<1>10. s.dst \in Owned(t) /\ Owned(t)' = Owned(t) \ {s.dst}
  BY <1>2, <1>9
<1>11. st'[t].dst # 0 => st'[t].dst # st'[t].path
  BY <1>5, <1>6
<1> HIDE DEF z
<1> QED
  BY <1>2, <1>3, <1>7, <1>8, <1>10, <1>11, InsertKept DEF x

\* CopyInsert.
LEMMA CopyInsertKept ==
  ASSUME DiskInv, NEW t \in Thread, CopyInsert(t)
  PROVE  DiskInv'
<1> DEFINE s == st[t]
           z == s.ver
           x == Put(idx, s.key, [etag |-> s.etag, size |-> z, path |-> s.dst], Cost[z], MaxBytes)
<1>1. s.pc = "copyInsert" /\ s \in Local /\ PhaseOf(t) /\ BodyOf(t) /\ Done(t)
  BY DEF CopyInsert, DiskInv, TypeOK, ThreadInv
<1>2. /\ s.key \in Key /\ s.dst # 0 /\ s.dst \in Name /\ s.etag \in Version
      /\ z \in Version /\ IsTrue(s.dst, s.etag)
  BY <1>1, DiskCacheAssumption
     DEF PhaseOf, BodyOf, Local, Version, DiskCacheAssumption
<1>3. insert(s.key, s.etag, s.dst, z) /\ Index(x, {s.dst})
  BY DEF CopyInsert, insert
<1> HIDE DEF x
<1>4. IndexStep(t, x, {s.dst})
  BY <1>1, <1>3, DoneIs DEF IndexStep, CopyInsert, DiskInv, TypeOK
<1>5. Owned(t) = {s.dst}
  BY <1>1, <1>2 DEF Owned, Holding
<1>6. s.dst \in Owned(t) /\ Owned(t)' = Owned(t) \ {s.dst} /\ ThreadInv(t)' /\ st'[t].dst = 0
  BY <1>1, <1>5, DoneIs
<1> HIDE DEF z
<1> QED
  BY <1>2, <1>3, <1>4, <1>6, InsertKept DEF x

------------------------------------------------------------------------------
(* Requests.                                                               *)

\* The variables a step of t may change without a trace in the directory.
Requests(t) ==
  /\ Alone(t) /\ st' \in [Thread -> Local]
  /\ s3' \in [Key -> 0 .. MaxVersion] /\ ver' \in 0 .. MaxVersion
  /\ had' \in [Key -> SUBSET Version] /\ SeenFrame(t)
  /\ seen' \in [Thread -> SUBSET (0 .. MaxVersion)]
  /\ left' \in [ops : 0 .. MaxOps, faults : 0 .. MaxFaults]

\* A request that leaves the directory and the index alone.
LEMMA RequestKept ==
  ASSUME DiskInv, NEW t, Requests(t), UNCHANGED <<idx, name, body, disk>>,
         st'[t].path \in {0, st[t].path},
         t \in Thread => Owned(t)' = Owned(t) /\ st'[t].dst \in {0, st[t].dst},
         t \in Thread => (st'[t].dst # 0 => st'[t].path = st[t].path),
         t \in Thread => ThreadInv(t)'
  PROVE  DiskInv'
<1>1. Frame(t, 0) /\ Writes(t, 0)
  BY DEF Requests, Alone, Frame, Writes
<1>2. TypeOK' /\ IndexOK(idx') /\ SeenFrame(t)
  BY DEF DiskInv, TypeOK, Requests
<1>3. OwnFrame(t)
  <2>1. t \in Thread => (st[t].dst # 0 => st[t].dst # st[t].path)
    BY DEF DiskInv, OwnInv
  <2> QED
    BY <2>1 DEF OwnFrame
<1>4. KeptFrame(t)
  BY DEF KeptFrame, Paths
<1> QED
  BY <1>1, <1>2, <1>3, <1>4, StepKept

\* Nothing changes in the bucket.
LEMMA SeenStays ==
  ASSUME DiskInv, NEW t, s3' = s3, \A u \in Thread \ {t} : seen'[u] = seen[u]
  PROVE  SeenFrame(t)
BY DEF SeenFrame, DiskInv, ThreadInv, SeenOf

\* The bucket changes and opens under way take notice.
LEMMA BucketIs ==
  ASSUME DiskInv, NEW k \in Key, NEW v \in 0 .. MaxVersion, Bucket(k, v)
  PROVE  /\ s3' \in [Key -> 0 .. MaxVersion] /\ seen' \in [Thread -> SUBSET (0 .. MaxVersion)]
         /\ had' \in [Key -> SUBSET Version]
         /\ \A t : SeenFrame(t)
         /\ \A u \in Thread : /\ seen[u] \subseteq seen'[u]
                              /\ st[u].pc \in Opening => s3'[st[u].key] \in seen'[u]
<1>0. had' \in [Key -> SUBSET Version]
  <2>1. {v} \ {0} \in SUBSET Version /\ had \in [Key -> SUBSET Version]
    BY DiskCacheAssumption DEF DiskCacheAssumption, DiskInv, TypeOK, Version
  <2>2. had[k] \cup ({v} \ {0}) \in SUBSET Version
    BY <2>1
  <2> QED
    BY <2>1, <2>2 DEF Bucket
<1>1. s3' \in [Key -> 0 .. MaxVersion] /\ seen' \in [Thread -> SUBSET (0 .. MaxVersion)]
  BY DEF Bucket, DiskInv, TypeOK
<1>2. ASSUME NEW u \in Thread
      PROVE  /\ seen[u] \subseteq seen'[u]
             /\ st[u].pc \in Opening => s3'[st[u].key] \in seen'[u]
  <2>1. st[u].pc \in Opening => st[u].key \in Key /\ s3[st[u].key] \in seen[u]
    BY DEF DiskInv, ThreadInv, PhaseOf, SeenOf, Opening
  <2>2. seen'[u] = IF st[u].key = k /\ st[u].pc \in Opening THEN seen[u] \cup {v} ELSE seen[u]
    BY DEF Bucket
  <2>3. st[u].key \in Key => s3'[st[u].key] = IF st[u].key = k THEN v ELSE s3[st[u].key]
    BY DEF Bucket, DiskInv, TypeOK
  <2> QED
    BY <2>1, <2>2, <2>3
<1> QED
  BY <1>0, <1>1, <1>2 DEF SeenFrame

\* A goroutine that owns nothing is done.
LEMMA DoneKept ==
  ASSUME DiskInv, NEW t \in Thread, Done(t), st[t].pc \notin Holding \cup {"copyInsert"},
         UNCHANGED <<s3, ver, had, disk, idx, name, body, left>>
  PROVE  DiskInv'
<1>1. Requests(t)
  BY DoneIs, SeenStays DEF Requests, DiskInv, TypeOK
<1> QED
  BY <1>1, DoneIs, OwnsNone, RequestKept

\* HeadObject.
LEMMA HeadObjectKept ==
  ASSUME DiskInv, NEW t \in Thread, HeadObject(t)
  PROVE  DiskInv'
<1> DEFINE s == st[t]
           v == s3[s.key]
<1>1. s.pc = "head" /\ s \in Local /\ s.key \in Key /\ v \in seen[t]
  BY DEF HeadObject, DiskInv, TypeOK, ThreadInv, PhaseOf, SeenOf, Opening
<1>2. v \in 0 .. MaxVersion /\ 0 \in 0 .. MaxVersion
  BY <1>1, DiskCacheAssumption DEF DiskInv, TypeOK, DiskCacheAssumption
<1>3. Owned(t) = {} /\ s.dst = 0
  BY <1>1, OwnsNone DEF Holding
<1>4. UNCHANGED <<s3, ver, had, disk, idx, name, body, left>>
  BY DEF HeadObject
<1>5. CASE Done(t)
  BY <1>1, <1>4, <1>5, DoneKept DEF Holding
<1>6. CASE /\ UNCHANGED seen
           /\ \/ Goto(t, "load")
              \/ \E e \in ETags(v) : st' = [st EXCEPT ![t].pc = "open", ![t].etag = e]
  <2>1. \E e \in {s.etag, 0, v}, c \in {"load", "open"} :
          /\ st' = [st EXCEPT ![t] = [s EXCEPT !.pc = c, !.etag = e]]
          /\ c = "open" => e \in {0, v}
    <3>1. CASE Goto(t, "load")
      <4>1. [s EXCEPT !.pc = "load"] = [s EXCEPT !.pc = "load", !.etag = s.etag]
        BY <1>1 DEF Local
      <4>2. st' = [st EXCEPT ![t] = [s EXCEPT !.pc = "load"]]
        BY <3>1 DEF Goto, DiskInv, TypeOK
      <4> QED
        BY <4>1, <4>2
    <3>2. ASSUME NEW e \in ETags(v), st' = [st EXCEPT ![t].pc = "open", ![t].etag = e]
          PROVE  <2>1!:
      <4>1. st' = [st EXCEPT ![t] = [s EXCEPT !.pc = "open", !.etag = e]]
        BY <3>2 DEF DiskInv, TypeOK
      <4>2. e \in {0, v}
        BY DEF ETags
      <4> QED
        BY <4>1, <4>2
    <3> QED
      BY <1>6, <3>1, <3>2
  <2>2. PICK e \in {s.etag, 0, v}, c \in {"load", "open"} :
          /\ st' = [st EXCEPT ![t] = [s EXCEPT !.pc = c, !.etag = e]]
          /\ c = "open" => e \in {0, v}
    BY <2>1
  <2> DEFINE r == [s EXCEPT !.pc = c, !.etag = e]
  <2>3. e \in 0 .. MaxVersion /\ c \in PC
    BY <1>1, <1>2 DEF Local, PC, Opening
  <2>4. /\ r \in Local /\ r.pc = c /\ r.etag = e /\ r.path = s.path /\ r.key = s.key
        /\ r.dst = s.dst
    BY <1>1, <2>3 DEF Local
  <2> HIDE DEF r
  <2>5. st'[t] = r /\ Alone(t) /\ st' \in [Thread -> Local]
    BY <2>2, <2>4, LocalStep DEF r
  <2>6. Requests(t)
    BY <1>4, <1>6, <2>5, SeenStays DEF Requests, DiskInv, TypeOK
  <2>7. ThreadInv(t)'
    <3>1. PhaseOf(t)'
      BY <1>1, <1>3, <2>4, <2>5 DEF PhaseOf, Pathed, Holding
    <3>2. SeenOf(t)'
      BY <1>1, <1>4, <1>6, <2>2, <2>4, <2>5 DEF SeenOf
    <3>3. BodyOf(t)' /\ SpillOf(t)'
      BY <2>4, <2>5 DEF BodyOf, SpillOf, Spilled
    <3> QED
      BY <3>1, <3>2, <3>3 DEF ThreadInv
  <2>8. Owned(t)' = {}
    BY <1>3, <2>4, <2>5 DEF Owned, Holding
  <2> QED
    BY <1>3, <1>4, <2>4, <2>5, <2>6, <2>7, <2>8, RequestKept
<1> QED
  BY <1>5, <1>6 DEF HeadObject, Goto

\* GetObject.
LEMMA GetObjectKept ==
  ASSUME DiskInv, NEW t \in Thread, GetObject(t)
  PROVE  DiskInv'
<1> DEFINE s == st[t]
           v == s3[s.key]
           c == IF s.write THEN "load" ELSE "fill"
<1>1. s.pc = "get" /\ s \in Local /\ s.key \in Key /\ v \in seen[t]
  BY DEF GetObject, DiskInv, TypeOK, ThreadInv, PhaseOf, SeenOf, Opening
<1>2. v \in 0 .. MaxVersion /\ 0 \in 0 .. MaxVersion /\ ETags(v) = {0, v}
  BY <1>1, DiskCacheAssumption DEF DiskInv, TypeOK, DiskCacheAssumption, ETags
<1>3. Owned(t) = {} /\ s.dst = 0
  BY <1>1, OwnsNone DEF Holding
<1>4. UNCHANGED <<s3, ver, had, disk, idx, name, body, left>>
  BY DEF GetObject
<1>5. CASE Done(t)
  BY <1>1, <1>4, <1>5, DoneKept DEF Holding
<1>6. ASSUME v # 0, UNCHANGED seen, NEW e \in ETags(v),
             st' = [st EXCEPT ![t].pc = c, ![t].ver = v, ![t].etag = e]
      PROVE  DiskInv'
  <2> DEFINE r == [s EXCEPT !.pc = c, !.ver = v, !.etag = e]
  <2>1. st' = [st EXCEPT ![t] = r]
    BY <1>6 DEF DiskInv, TypeOK
  <2>2. c \in {"load", "fill"} /\ c \in PC
    BY DEF PC, Opening
  <2> HIDE DEF c
  <2>3. e \in {0, v}
    BY <1>2
  <2>4. /\ r \in Local /\ r.pc = c /\ r.etag = e /\ r.ver = v /\ r.path = s.path
        /\ r.key = s.key /\ r.dst = s.dst
    <3>1. e \in 0 .. MaxVersion
      BY <1>2, <2>3
    <3> QED
      BY <1>1, <1>2, <2>2, <3>1 DEF Local
  <2> HIDE DEF r
  <2>5. st'[t] = r /\ Alone(t) /\ st' \in [Thread -> Local]
    BY <2>1, <2>4, LocalStep
  <2>6. Requests(t)
    BY <1>4, <1>6, <2>5, SeenStays DEF Requests, DiskInv, TypeOK
  <2>7. ThreadInv(t)'
    <3>1. PhaseOf(t)'
      BY <1>1, <1>3, <2>2, <2>4, <2>5 DEF PhaseOf, Pathed, Holding
    <3>2. SeenOf(t)'
      BY <1>1, <1>4, <1>6, <2>2, <2>3, <2>4, <2>5 DEF SeenOf, Names
    <3>3. BodyOf(t)' /\ SpillOf(t)'
      BY <2>2, <2>4, <2>5 DEF BodyOf, SpillOf, Spilled
    <3> QED
      BY <3>1, <3>2, <3>3 DEF ThreadInv
  <2>8. Owned(t)' = {}
    BY <1>3, <2>2, <2>4, <2>5 DEF Owned, Holding
  <2> QED
    BY <1>3, <1>4, <2>4, <2>5, <2>6, <2>7, <2>8, RequestKept
<1> QED
  BY <1>5, <1>6 DEF GetObject

\* Flush.
LEMMA FlushKept ==
  ASSUME DiskInv, NEW t \in Thread, NEW drop \in {"syncDrop", "closeDrop"}, Flush(t, drop)
  PROVE  DiskInv'
<1> DEFINE s == st[t]
           v == body[s.path]
<1>1. /\ s.pc = "writing" /\ s \in Local /\ s.key \in Key /\ s.path # 0 /\ s.path \in Name
      /\ s.dst = 0 /\ BodyOf(t)
  BY DEF Flush, DiskInv, TypeOK, Local, ThreadInv, PhaseOf, Pathed, Holding
<1>2. v \in 0 .. MaxVersion
  BY <1>1 DEF DiskInv, TypeOK
<1>3. UNCHANGED <<ver, disk, idx, name, body, left>> /\ Shrinks
  BY DEF Flush, Shrinks
<1>4. CASE ~s.dirty /\ Goto(t, "link") /\ UNCHANGED <<s3, had, seen>>
  <2> DEFINE r == [s EXCEPT !.pc = "link"]
  <2>1. st' = [st EXCEPT ![t] = r]
    BY <1>4 DEF Goto, DiskInv, TypeOK
  <2>2. /\ r \in Local /\ r.pc = "link" /\ r.etag = s.etag /\ r.path = s.path
        /\ r.key = s.key /\ r.dst = s.dst
    <3>1. "link" \in PC
      BY DEF PC
    <3> QED
      BY <1>1, <3>1 DEF Local
  <2> HIDE DEF r
  <2>3. st'[t] = r /\ Alone(t) /\ st' \in [Thread -> Local]
    BY <2>1, <2>2, LocalStep
  <2>4. Requests(t)
    BY <1>3, <1>4, <2>3, SeenStays DEF Requests, DiskInv, TypeOK
  <2>5. ThreadInv(t)'
    <3>1. PhaseOf(t)' /\ SeenOf(t)'
      BY <1>1, <2>2, <2>3 DEF PhaseOf, SeenOf, Opening, Pathed, Holding
    <3>2. BodyOf(t)'
      BY <1>1, <1>3, <1>4, <2>2, <2>3 DEF BodyOf, Spilled
    <3>3. SpillOf(t)'
      BY <1>1, <1>3, <2>2, <2>3, SpillSelf DEF Spilled
    <3> QED
      BY <3>1, <3>2, <3>3 DEF ThreadInv
  <2>6. Owned(t)' = Owned(t)
    BY <1>1, <2>2, <2>3 DEF Owned, Holding
  <2> QED
    BY <1>1, <1>3, <2>2, <2>3, <2>4, <2>5, <2>6, RequestKept
<1>5. CASE Bucket(s.key, v) /\ UNCHANGED st
  <2>1. Alone(t) /\ st' \in [Thread -> Local]
    BY <1>5 DEF Alone, DiskInv, TypeOK
  <2>2. Requests(t)
    BY <1>1, <1>2, <1>3, <1>5, <2>1, BucketIs DEF Requests, DiskInv, TypeOK
  <2>3. ThreadInv(t)'
    <3>1. PhaseOf(t)' /\ SeenOf(t)' /\ BodyOf(t)' /\ SpillOf(t)'
      BY <1>1, <1>3, <1>5
         DEF PhaseOf, SeenOf, BodyOf, SpillOf, Opening, IsTrue, DiskInv, ThreadInv
    <3> QED
      BY <3>1 DEF ThreadInv
  <2>4. Owned(t)' = Owned(t)
    BY <1>5 DEF Owned
  <2> QED
    BY <1>3, <1>5, <2>2, <2>3, <2>4, RequestKept
<1>6. CASE Bucket(s.key, v) /\ st' = [st EXCEPT ![t].pc = drop, ![t].ver = v]
  <2> DEFINE r == [s EXCEPT !.pc = drop, !.ver = v]
  <2>1. st' = [st EXCEPT ![t] = r]
    BY <1>6 DEF DiskInv, TypeOK
  <2>2. /\ r \in Local /\ r.pc = drop /\ r.ver = v /\ r.path = s.path
        /\ r.key = s.key /\ r.dst = s.dst
    <3>1. drop \in PC
      BY DEF PC
    <3> QED
      BY <1>1, <1>2, <3>1 DEF Local
  <2> HIDE DEF r
  <2>3. st'[t] = r /\ Alone(t) /\ st' \in [Thread -> Local]
    BY <2>1, <2>2, LocalStep
  <2>4. Requests(t)
    BY <1>1, <1>2, <1>3, <1>6, <2>3, BucketIs DEF Requests, DiskInv, TypeOK
  <2>5. ThreadInv(t)'
    <3>1. PhaseOf(t)' /\ SeenOf(t)'
      BY <1>1, <2>2, <2>3 DEF PhaseOf, SeenOf, Opening, Pathed, Holding
    <3>2. BodyOf(t)'
      BY <1>1, <1>3, <2>2, <2>3 DEF BodyOf, Spilled
    <3>3. SpillOf(t)'
      BY <1>1, <1>3, <2>2, <2>3, SpillSelf DEF Spilled
    <3> QED
      BY <3>1, <3>2, <3>3 DEF ThreadInv
  <2>6. Owned(t)' = Owned(t)
    BY <1>1, <2>2, <2>3 DEF Owned, Holding
  <2> QED
    BY <1>1, <1>3, <2>2, <2>3, <2>4, <2>5, <2>6, RequestKept
<1> QED
  BY <1>4, <1>5, <1>6 DEF Flush, Goto

\* A goroutine starts an operation that begins with an S3 request.
LEMMA StartKept ==
  ASSUME DiskInv, NEW t \in Thread, NEW k \in Key, NEW r \in Local, Start(t, r),
         r.pc \in {"drop", "copied"}, r.key = k, r.path = 0, r.dst = 0,
         r.pc = "copied" => r.src \in Key,
         NEW v \in 0 .. MaxVersion, Bucket(k, v), ver' \in 0 .. MaxVersion,
         UNCHANGED <<disk, idx, name, body>>
  PROVE  DiskInv'
<1>1. st' = [st EXCEPT ![t] = r] /\ st[t].pc = "idle"
  BY DEF Start, Begin
<1>2. st'[t] = r /\ Alone(t) /\ st' \in [Thread -> Local]
  BY <1>1, LocalStep
<1>3. left' \in [ops : 0 .. MaxOps, faults : 0 .. MaxFaults]
  BY DiskCacheAssumption DEF DiskCacheAssumption, Start, Begin, DiskInv, TypeOK
<1>4. Requests(t)
  BY <1>2, <1>3, BucketIs DEF Requests
<1>5. Owned(t) = {} /\ st[t].dst = 0 /\ Owned(t)' = {}
  <2>1. st[t].pc \notin Holding \cup {"copyInsert"}
    BY <1>1 DEF Holding
  <2> QED
    BY <1>2, <2>1, OwnsNone DEF Owned, Holding
<1>6. ThreadInv(t)'
  BY <1>2
     DEF ThreadInv, PhaseOf, SeenOf, BodyOf, SpillOf, Opening, Pathed, Holding, Spilled
<1> QED
  BY <1>2, <1>4, <1>5, <1>6, RequestKept

\* OpenCached.
LEMMA OpenCachedKept ==
  ASSUME DiskInv, NEW t \in Thread, NEW k \in Key, NEW write \in BOOLEAN, NEW v \in Version,
         OpenCached(t, k, write, v)
  PROVE  DiskInv'
<1> DEFINE c == IF write THEN "load" ELSE "open"
<1>1. PICK e \in {0, v} : Start(t, [Idle EXCEPT !.pc = c, !.key = k, !.write = write, !.etag = e])
  BY DEF OpenCached, ETags
<1>0. c \in {"load", "open"}
  OBVIOUS
<1> HIDE DEF c
<1> DEFINE r == [Idle EXCEPT !.pc = c, !.key = k, !.write = write, !.etag = e]
<1>2. /\ r \in Local /\ r.pc = c /\ r.key = k /\ r.etag = e /\ r.path = 0 /\ r.dst = 0
  <2>1. c \in PC /\ Idle.path = 0 /\ Idle.dst = 0 /\ e \in 0 .. MaxVersion
    BY <1>0, DiskCacheAssumption DEF DiskCacheAssumption, PC, Opening, Idle, Version
  <2> QED
    BY <2>1, IdleIs DEF Local
<1> HIDE DEF r
<1>3. st' = [st EXCEPT ![t] = r] /\ st[t].pc = "idle"
  BY <1>1 DEF Start, Begin, r
<1>4. st'[t] = r /\ Alone(t) /\ st' \in [Thread -> Local]
  BY <1>2, <1>3, LocalStep
<1>5. /\ seen' \in [Thread -> SUBSET (0 .. MaxVersion)] /\ seen'[t] = {v, s3[k]}
      /\ \A u \in Thread \ {t} : seen'[u] = seen[u]
  <2>1. {v, s3[k]} \in SUBSET (0 .. MaxVersion)
    BY DiskCacheAssumption DEF DiskCacheAssumption, Version, DiskInv, TypeOK
  <2> QED
    BY <2>1 DEF OpenCached, DiskInv, TypeOK
<1>6. UNCHANGED <<s3, ver, had, disk, idx, name, body>>
  BY DEF OpenCached
<1>7. left' \in [ops : 0 .. MaxOps, faults : 0 .. MaxFaults]
  BY <1>1, DiskCacheAssumption DEF DiskCacheAssumption, Start, Begin, DiskInv, TypeOK
<1>8. Requests(t)
  BY <1>4, <1>5, <1>6, <1>7, SeenStays DEF Requests, DiskInv, TypeOK
<1>9. Owned(t) = {} /\ st[t].dst = 0 /\ Owned(t)' = {}
  <2>1. st[t].pc \notin Holding \cup {"copyInsert"}
    BY <1>3 DEF Holding
  <2> QED
    BY <1>0, <1>2, <1>4, <2>1, OwnsNone DEF Owned, Holding
<1>10. ThreadInv(t)'
  <2>1. PhaseOf(t)' /\ SpillOf(t)' /\ BodyOf(t)'
    BY <1>0, <1>2, <1>4 DEF PhaseOf, BodyOf, SpillOf, Pathed, Holding, Spilled
  <2>2. SeenOf(t)'
    BY <1>0, <1>2, <1>4, <1>5, <1>6 DEF SeenOf
  <2> QED
    BY <2>1, <2>2 DEF ThreadInv
<1> QED
  BY <1>2, <1>4, <1>6, <1>8, <1>9, <1>10, RequestKept

\* Mutate.
LEMMA MutateKept ==
  ASSUME DiskInv, NEW t \in Thread, NEW k \in Key, NEW v \in 0 .. MaxVersion, Mutate(t, k, v)
  PROVE  DiskInv'
<1>1. ver' \in 0 .. MaxVersion
  BY DEF Mutate, DiskInv, TypeOK
<1> DEFINE r == [Idle EXCEPT !.pc = "drop", !.key = k]
<1>2. r \in Local /\ r.pc = "drop" /\ r.key = k /\ r.path = 0 /\ r.dst = 0
  <2>1. "drop" \in PC /\ Idle.path = 0 /\ Idle.dst = 0
    BY DEF PC, Idle
  <2> QED
    BY <2>1, IdleIs DEF Local
<1>3. Start(t, r)
  BY DEF Mutate
<1> HIDE DEF r
<1> QED
  BY <1>1, <1>2, <1>3, StartKept DEF Mutate

\* Copy.
LEMMA CopyKept ==
  ASSUME DiskInv, NEW t \in Thread, NEW a \in Key, NEW b \in Key, Copy(t, a, b)
  PROVE  DiskInv'
<1>1. ver' \in 0 .. MaxVersion /\ s3[a] \in 0 .. MaxVersion
  BY DEF Copy, DiskInv, TypeOK
<1> DEFINE r == [Idle EXCEPT !.pc = "copied", !.key = b, !.src = a]
<1>2. r \in Local /\ r.pc = "copied" /\ r.key = b /\ r.src = a /\ r.path = 0 /\ r.dst = 0
  <2>1. "copied" \in PC /\ Idle.path = 0 /\ Idle.dst = 0
    BY DEF PC, Idle
  <2> QED
    BY <2>1, IdleIs DEF Local
<1>3. Start(t, r)
  BY DEF Copy
<1> HIDE DEF r
<1> QED
  BY <1>1, <1>2, <1>3, StartKept DEF Copy

\* Someone else acts, on the bucket or on the directory.
LEMMA NobodyKept ==
  ASSUME DiskInv, st' = st, idx' = idx, disk' = disk, TypeOK', \A t : SeenFrame(t),
         Shrinks, \A i \in Name : Ref(i) /\ Ref(i)' => body'[i] = body[i]
  PROVE  DiskInv'
<1>1. ASSUME NEW t PROVE Frame(t, 0) /\ Writes(t, 0)
  BY DEF Frame, Writes, Shrinks
<1>2. ASSUME NEW u \in Thread PROVE ThreadInv(u)'
  <2>1. PICK t : t # u
    <3>1. u # 0 \/ u # 1
      OBVIOUS
    <3> QED
      BY <3>1
  <2> QED
    BY <1>1, <2>1, OthersKept
<1>3. OwnFrame(0) /\ KeptFrame(0)
  <2>1. 0 \in Thread => Owned(0)' = Owned(0) /\ (st[0].dst # 0 => st[0].dst # st[0].path)
    BY DEF Owned, DiskInv, OwnInv
  <2>2. Paths(idx)' = Paths(idx)
    BY DEF Paths
  <2> QED
    BY <2>1, <2>2 DEF OwnFrame, KeptFrame, Shrinks
<1>4. IndexOK(idx')
  BY DEF DiskInv
<1> QED
  BY <1>1, <1>2, <1>3, <1>4, StepKept

\* Foreign.
LEMMA ForeignKept ==
  ASSUME DiskInv, NEW k \in Key, Foreign(k)
  PROVE  DiskInv'
<1>1. PICK v \in 0 .. MaxVersion : Bucket(k, v) /\ ver' = (IF v > ver THEN v ELSE ver)
  BY DEF Foreign
<1>2. /\ s3' \in [Key -> 0 .. MaxVersion] /\ seen' \in [Thread -> SUBSET (0 .. MaxVersion)]
      /\ had' \in [Key -> SUBSET Version] /\ \A t : SeenFrame(t)
  BY <1>1, BucketIs
<1>3. ver' \in 0 .. MaxVersion
  BY <1>1 DEF DiskInv, TypeOK
<1>4. left' \in [ops : 0 .. MaxOps, faults : 0 .. MaxFaults]
  BY DiskCacheAssumption DEF DiskCacheAssumption, Foreign, Fault, DiskInv, TypeOK
<1>5. UNCHANGED <<disk, idx, name, body, st>>
  BY DEF Foreign
<1>6. TypeOK'
  BY <1>2, <1>3, <1>4, <1>5 DEF DiskInv, TypeOK
<1>7. Shrinks /\ \A i \in Name : Ref(i) /\ Ref(i)' => body'[i] = body[i]
  BY <1>5 DEF Shrinks
<1> QED
  BY <1>2, <1>5, <1>6, <1>7, NobodyKept

\* Vanish.
LEMMA VanishKept ==
  ASSUME DiskInv, NEW p \in Name, Vanish(p)
  PROVE  DiskInv'
<1> DEFINE n == [name EXCEPT ![p] = 0]
<1>1. /\ n \in [Name -> Name \cup {0}] /\ body \in [Name -> 0 .. MaxVersion]
      /\ \A q \in Name : n[q] \in {0, name[q]}
  BY DEF DiskInv, TypeOK
<1>2. Files(n, body) /\ UNCHANGED <<s3, ver, had, disk, idx, st, seen>>
  BY DEF Vanish
<1> HIDE DEF n
<1>3. Alone(0) /\ st'[0].path = st[0].path
  BY <1>2 DEF Alone
<1>4. /\ Frame(0, 0) /\ name' = n
      /\ name' \in [Name -> Name \cup {0}] /\ body' \in [Name -> 0 .. MaxVersion]
  BY <1>1, <1>2, <1>3, FilesFrame
<1>5. left' \in [ops : 0 .. MaxOps, faults : 0 .. MaxFaults]
  BY DiskCacheAssumption DEF DiskCacheAssumption, Vanish, Fault, DiskInv, TypeOK
<1>6. TypeOK'
  BY <1>2, <1>4, <1>5 DEF DiskInv, TypeOK
<1>7. Shrinks /\ \A i \in Name : Ref(i) /\ Ref(i)' => body'[i] = body[i]
  BY <1>1, <1>4, NameIs DEF Frame, Shrinks
<1>8. \A t : SeenFrame(t)
  BY <1>2, SeenStays
<1> QED
  BY <1>2, <1>6, <1>7, <1>8, NobodyKept

------------------------------------------------------------------------------
(* Steps on the directory.                                                 *)

\* ensure leaves the files of this process, or none.
LEMMA SweptIs ==
  ASSUME DiskInv, NEW d \in {"ready", "broken"}, Ensure(d)
  PROVE  /\ Swept(d) \in [Name -> Name \cup {0}] /\ disk' = d
         /\ \A q \in Name : Swept(d)[q] \in {0, name[q]}
         /\ d = "ready" => \A q \in Name : Swept(d)[q] # 0 => disk = "ready"
<1>1. disk' = d /\ (d = "ready" => disk \in {"fresh", "ready"})
  BY DEF Ensure, DiskInv, TypeOK
<1>2. CASE disk = "fresh" /\ d = "ready"
  BY <1>1, <1>2 DEF Swept
<1>3. CASE ~(disk = "fresh" /\ d = "ready")
  BY <1>1, <1>3 DEF Swept, DiskInv, TypeOK
<1> QED
  BY <1>2, <1>3

\* What a step on the directory needs to keep the invariant.
LEMMA FileKept ==
  ASSUME DiskInv, NEW t \in Thread, NEW w, Frame(t, w), Writes(t, w), Requests(t),
         idx' = idx, disk' \in {"fresh", "ready", "broken"},
         name' \in [Name -> Name \cup {0}], body' \in [Name -> 0 .. MaxVersion],
         \A p \in Owned(t)' : p \in Taken => p \in Owned(t),
         st'[t].dst # 0 => st'[t].dst # st'[t].path,
         disk' = "ready" => \A p \in Name : name'[p] # 0 =>
           p \in Owned(t)' \/ (disk = "ready" /\ name[p] # 0 /\ p \notin Owned(t)),
         ThreadInv(t)'
  PROVE  DiskInv'
<1>1. TypeOK'
  BY DEF DiskInv, TypeOK, Requests
<1>2. OwnFrame(t)
  BY DEF OwnFrame
<1>3. Paths(idx)' = Paths(idx)
  BY DEF Paths
<1>4. KeptFrame(t)
  BY <1>3 DEF KeptFrame
<1>5. SeenFrame(t) /\ IndexOK(idx')
  BY DEF Requests, DiskInv
<1> QED
  BY <1>1, <1>2, <1>4, <1>5, StepKept

\* A goroutine that owns nothing is done, and files may go.
LEMMA DoneFilesKept ==
  ASSUME DiskInv, NEW t \in Thread, Done(t), st[t].pc \notin Holding \cup {"copyInsert"},
         NEW n \in [Name -> Name \cup {0}], Files(n, body),
         \A q \in Name : n[q] \in {0, name[q]},
         disk' \in {"fresh", "ready", "broken"},
         disk' = "ready" => \A q \in Name : n[q] # 0 => disk = "ready",
         UNCHANGED <<s3, had, idx>>, ver' \in 0 .. MaxVersion,
         left' \in [ops : 0 .. MaxOps, faults : 0 .. MaxFaults]
  PROVE  DiskInv'
<1>1. /\ st'[t].path = 0 /\ st'[t].dst = 0 /\ Alone(t) /\ st' \in [Thread -> Local]
      /\ ThreadInv(t)' /\ Owned(t)' = {}
      /\ seen' \in [Thread -> SUBSET (0 .. MaxVersion)]
      /\ \A u \in Thread \ {t} : seen'[u] = seen[u]
  BY DoneIs
<1>2. Owned(t) = {}
  BY OwnsNone
<1>3. body \in [Name -> 0 .. MaxVersion]
  BY DEF DiskInv, TypeOK
<1>4. /\ Frame(t, 0) /\ name' = n
      /\ name' \in [Name -> Name \cup {0}] /\ body' \in [Name -> 0 .. MaxVersion]
  BY <1>1, <1>3, FilesFrame
<1>5. Requests(t)
  BY <1>1, SeenStays DEF Requests, DiskInv, TypeOK
<1> QED
  BY <1>1, <1>2, <1>4, <1>5, FileKept DEF Writes

\* End.
LEMMA EndKept ==
  ASSUME DiskInv, NEW t \in Thread, End(t)
  PROVE  DiskInv'
<1>1. /\ name \in [Name -> Name \cup {0}] /\ ver \in 0 .. MaxVersion
      /\ left \in [ops : 0 .. MaxOps, faults : 0 .. MaxFaults]
      /\ disk \in {"fresh", "ready", "broken"}
  BY DEF DiskInv, TypeOK
<1>2. /\ Done(t) /\ st[t].pc \notin Holding \cup {"copyInsert"} /\ Files(name, body)
      /\ UNCHANGED <<s3, ver, had, disk, idx, left>>
  BY DEF End, Holding
<1> QED
  BY <1>1, <1>2, DoneFilesKept

\* FOpen.
LEMMA FOpenKept ==
  ASSUME DiskInv, NEW t \in Thread, FOpen(t)
  PROVE  DiskInv'
<1> DEFINE s == st[t]
           i == name[s.path]
           c == IF i # 0 THEN "reading" ELSE "gone"
           p == IF i # 0 THEN i ELSE s.path
           r == [s EXCEPT !.pc = c, !.path = p]
<1>1. /\ s.pc = "fopen" /\ s \in Local /\ s.path \in Name /\ s.path # 0 /\ s.key \in Key
      /\ (i # 0 => Names(s.etag, body[i])) /\ s.etag \in seen[t] /\ s.dst = 0
  <2>1. s.pc = "fopen" /\ s \in Local /\ PhaseOf(t) /\ SeenOf(t) /\ BodyOf(t)
    BY DEF FOpen, DiskInv, TypeOK, ThreadInv
  <2>2. s.path # 0 /\ s.key \in Key /\ s.dst = 0 /\ s.etag # 0
    BY <2>1 DEF PhaseOf, Pathed
  <2>3. s.path \in Name
    BY <2>1, <2>2 DEF Local
  <2>4. (i # 0 => Names(s.etag, body[i])) /\ s.etag \in seen[t]
    BY <2>1, <2>2 DEF SeenOf, BodyOf, IsTrue
  <2> QED
    BY <2>1, <2>2, <2>3, <2>4
<1>2. i \in Name \cup {0} /\ p \in Name /\ p # 0 /\ p \in {s.path} \cup Found(t)
  BY <1>1, NameIs DEF DiskInv, TypeOK, Found
<1>3. st' = [st EXCEPT ![t] = r]
  BY DEF FOpen, DiskInv, TypeOK
<1>4. c \in {"reading", "gone"} /\ c \in PC /\ (c = "reading" => i # 0 /\ p = i)
  BY DEF PC, Opening
<1> HIDE DEF c, p
<1>5. /\ r \in Local /\ r.pc = c /\ r.path = p /\ r.key = s.key /\ r.dst = s.dst
  BY <1>1, <1>2, <1>4 DEF Local
<1> HIDE DEF r
<1>6. st'[t] = r /\ Alone(t) /\ st' \in [Thread -> Local]
  BY <1>3, <1>5, LocalStep
<1>7. /\ name \in [Name -> Name \cup {0}] /\ body \in [Name -> 0 .. MaxVersion]
      /\ Files(name, body) /\ UNCHANGED <<s3, ver, had, disk, idx, seen, left>>
  BY DEF FOpen, DiskInv, TypeOK
<1>8. /\ Frame(t, 0) /\ name' = name
      /\ name' \in [Name -> Name \cup {0}] /\ body' \in [Name -> 0 .. MaxVersion]
      /\ \A j \in Name : (\E q \in Name : name[q] = j) \/ (\E u \in Thread : st'[u].path = j)
                           => body'[j] = body[j]
  <2>1. st'[t].path \in {0, st[t].path} \cup Found(t) \cup Paths(idx)
    BY <1>2, <1>5, <1>6
  <2>2. /\ \A q \in Name : name[q] \in {0, name[q]}
        /\ \A j \in Name : j # 0 /\ j \in Taken => body[j] = body[j]
    OBVIOUS
  <2> HIDE DEF s, i
  <2> QED
    BY <1>6, <1>7, <2>1, <2>2, FilesFrame
<1>9. Requests(t)
  BY <1>6, <1>7, SeenStays DEF Requests, DiskInv, TypeOK
<1>10. ThreadInv(t)'
  <2>1. PhaseOf(t)'
    BY <1>1, <1>2, <1>4, <1>5, <1>6 DEF PhaseOf
  <2>2. c = "reading" => Names(s.etag, body'[p])
    BY <1>1, <1>2, <1>4, <1>5, <1>6, <1>8
  <2>3. c = "gone" => s3[s.key] \in seen[t]
    BY <1>1 DEF DiskInv, ThreadInv, SeenOf, Opening
  <2>4. SeenOf(t)'
    BY <1>1, <1>4, <1>5, <1>6, <1>7, <2>2, <2>3 DEF SeenOf, Opening
  <2>5. BodyOf(t)' /\ SpillOf(t)'
    BY <1>4, <1>5, <1>6 DEF BodyOf, SpillOf, Spilled
  <2> QED
    BY <2>1, <2>4, <2>5 DEF ThreadInv
<1>11. Owned(t) = {} /\ Owned(t)' = {}
  BY <1>1, <1>4, <1>5, <1>6 DEF Owned, Holding
<1>12. disk' \in {"fresh", "ready", "broken"} /\ disk' = disk
  BY <1>7 DEF DiskInv, TypeOK
<1> QED
  BY <1>1, <1>5, <1>6, <1>7, <1>8, <1>9, <1>10, <1>11, <1>12, FileKept DEF Writes

\* Fetch.
LEMMA FetchKept ==
  ASSUME DiskInv, NEW t \in Thread, Fetch(t)
  PROVE  DiskInv'
<1> DEFINE s == st[t]
           v == s3[s.key]
<1>1. s.pc = "fetch" /\ s \in Local /\ s.key \in Key /\ v \in seen[t]
  BY DEF Fetch, DiskInv, TypeOK, ThreadInv, PhaseOf, SeenOf, Opening
<1>2. /\ v \in 0 .. MaxVersion
      /\ \A e \in Filed(t, v) : e \in 0 .. MaxVersion /\ (e = 0 \/ Names(e, v))
  BY <1>1, DiskCacheAssumption DEF DiskInv, TypeOK, Local, DiskCacheAssumption, Filed, Names
<1>3. Owned(t) = {} /\ s.dst = 0
  BY <1>1, OwnsNone DEF Holding
<1>4. PICK d \in {"ready", "broken"} :
        /\ Ensure(d) /\ Files(Swept(d), body)
        /\ \/ Done(t)
           \/ /\ v # 0 /\ UNCHANGED seen
              /\ \E e \in Filed(t, v) :
                   st' = [st EXCEPT ![t].pc = "fill", ![t].ver = v, ![t].etag = e]
  BY DEF Fetch
<1> DEFINE n == Swept(d)
<1>5. /\ n \in [Name -> Name \cup {0}] /\ disk' = d
      /\ \A q \in Name : n[q] \in {0, name[q]}
      /\ d = "ready" => \A q \in Name : n[q] # 0 => disk = "ready"
  BY <1>4, SweptIs
<1>6. /\ ver \in 0 .. MaxVersion /\ left \in [ops : 0 .. MaxOps, faults : 0 .. MaxFaults]
      /\ body \in [Name -> 0 .. MaxVersion] /\ disk' \in {"fresh", "ready", "broken"}
      /\ UNCHANGED <<s3, ver, had, idx, left>>
  BY <1>5 DEF DiskInv, TypeOK, Fetch
<1>7. Files(n, body)
  BY <1>4
<1> HIDE DEF n
<1>8. CASE Done(t)
  BY <1>1, <1>5, <1>6, <1>7, <1>8, DoneFilesKept DEF Holding
<1>9. ASSUME v # 0, UNCHANGED seen, NEW e \in Filed(t, v),
             st' = [st EXCEPT ![t].pc = "fill", ![t].ver = v, ![t].etag = e]
      PROVE  DiskInv'
  <2> DEFINE r == [s EXCEPT !.pc = "fill", !.ver = v, !.etag = e]
  <2>1. st' = [st EXCEPT ![t] = r]
    BY <1>9 DEF DiskInv, TypeOK
  <2>2. /\ r \in Local /\ r.pc = "fill" /\ r.etag = e /\ r.ver = v /\ r.path = s.path
        /\ r.key = s.key /\ r.dst = s.dst
    <3>1. "fill" \in PC
      BY DEF PC, Opening
    <3> QED
      BY <1>1, <1>2, <3>1 DEF Local
  <2> HIDE DEF r
  <2>3. st'[t] = r /\ Alone(t) /\ st' \in [Thread -> Local]
    BY <2>1, <2>2, LocalStep
  <2>4. /\ Frame(t, 0) /\ name' = n
        /\ name' \in [Name -> Name \cup {0}] /\ body' \in [Name -> 0 .. MaxVersion]
    BY <1>5, <1>6, <1>7, <2>2, <2>3, FilesFrame
  <2>5. Requests(t)
    BY <1>6, <1>9, <2>3, SeenStays DEF Requests, DiskInv, TypeOK
  <2>6. ThreadInv(t)'
    <3>1. PhaseOf(t)'
      BY <1>1, <1>3, <2>2, <2>3 DEF PhaseOf, Pathed, Holding
    <3>2. SeenOf(t)'
      BY <1>1, <1>2, <1>6, <1>9, <2>2, <2>3 DEF SeenOf
    <3>3. BodyOf(t)' /\ SpillOf(t)'
      BY <2>2, <2>3 DEF BodyOf, SpillOf, Spilled
    <3> QED
      BY <3>1, <3>2, <3>3 DEF ThreadInv
  <2>7. Owned(t)' = {}
    BY <1>3, <2>2, <2>3 DEF Owned, Holding
  <2> QED
    BY <1>3, <1>5, <1>6, <2>2, <2>3, <2>4, <2>5, <2>6, <2>7, FileKept DEF Writes
<1> QED
  BY <1>4, <1>8, <1>9

\* A new path is nobody's.
LEMMA NewPathIs ==
  ASSUME NEW p \in newPath
  PROVE  /\ p \notin Taken /\ p \notin Paths(idx) /\ (\A q \in Name : name[q] # p)
         /\ \A t \in Thread : st[t].path # p /\ st[t].dst # p /\ p \notin Owned(t)
<1>1. p \notin Taken
  BY DEF newPath
<1> QED
  BY <1>1 DEF Taken, Owned

\* t has written v to a new file p, which may already be unlinked.
LEMMA CreatedIs ==
  ASSUME DiskInv, NEW t \in Thread, Alone(t), NEW p \in Name, p \in newPath,
         NEW n \in [Name -> Name \cup {0}], \A q \in Name : n[q] \in {0, name[q]},
         NEW m, m = n \/ m = Created(n, p, p),
         NEW v \in 0 .. MaxVersion, Files(m, [body EXCEPT ![p] = v]), st'[t].path = p
  PROVE  /\ Frame(t, 0) /\ name' = m /\ body'[p] = v
         /\ name' \in [Name -> Name \cup {0}] /\ body' \in [Name -> 0 .. MaxVersion]
         /\ \A q \in Name \ {p} : name'[q] = n[q]
         /\ \A q \in Name : name'[q] = p => q = p
         /\ m = Created(n, p, p) => name'[p] = p
<1> DEFINE b == [body EXCEPT ![p] = v]
<1>1. body \in [Name -> 0 .. MaxVersion] /\ p \notin Taken /\ \A q \in Name : name[q] # p
  BY NewPathIs DEF DiskInv, TypeOK
<1>2. b \in [Name -> 0 .. MaxVersion] /\ b[p] = v /\ \A i \in Name \ {p} : b[i] = body[i]
  BY <1>1
<1>3. Files(m, b)
  OBVIOUS
<1> HIDE DEF b
<1>4. /\ m \in [Name -> Name \cup {0}] /\ m[p] \in {n[p], p}
      /\ \A q \in Name \ {p} : m[q] = n[q]
      /\ m = Created(n, p, p) => m[p] = p
  BY DEF Created
<1>5. \A q \in Name : \/ m[q] \in {0, name[q]}
                      \/ q \notin Taken /\ (m[q] \notin Taken \/ m[q] \in Found(t))
  BY <1>1, <1>4
<1>6. \A i \in Name : i # 0 /\ i \in Taken => b[i] = body[i]
  BY <1>1, <1>2
<1>7. /\ Frame(t, 0) /\ name' = m
      /\ name' \in [Name -> Name \cup {0}] /\ body' \in [Name -> 0 .. MaxVersion]
  <2>1. name' = m
    BY <1>3 DEF Files
  <2>2. MaxVersion \in Nat
    BY DiskCacheAssumption DEF DiskCacheAssumption
  <2>3. body' = [i \in Name |->
          IF (\E q \in Name : m[q] = i) \/ (\E u \in Thread : st'[u].path = i) THEN b[i] ELSE 0]
    BY <1>3 DEF Files
  <2>4. body' \in [Name -> 0 .. MaxVersion]
    BY <1>2, <2>2, <2>3
  <2>5. \A i \in Name : Ref(i) => i \in Taken
    BY DEF Ref, Taken
  <2>6. \A i \in Name : i # 0 /\ Ref(i) /\ Ref(i)' => body'[i] = body[i]
    BY <1>6, <2>1, <2>3, <2>5 DEF Ref
  <2>7. st'[t].path \notin Taken
    BY <1>1
  <2> QED
    BY <1>4, <1>5, <2>1, <2>4, <2>6, <2>7 DEF Frame, Alone
<1>8. body'[p] = v
  <2>1. body'[p] = IF (\E q \in Name : m[q] = p) \/ (\E u \in Thread : st'[u].path = p)
                   THEN b[p] ELSE 0
    BY <1>3 DEF Files
  <2> QED
    BY <1>2, <2>1
<1>9. \A q \in Name : m[q] = p => q = p
  BY <1>1, <1>4, NameIs
<1> QED
  BY <1>4, <1>7, <1>8, <1>9

\* Fill.
LEMMA FillKept ==
  ASSUME DiskInv, NEW t \in Thread, Fill(t)
  PROVE  DiskInv'
<1> DEFINE s == st[t]
           c == IF s.etag = 0 THEN "reading" ELSE "insert"
<1>1. /\ s.pc = "fill" /\ s \in Local /\ s.key \in Key /\ s.ver # 0 /\ s.ver \in seen[t]
      /\ (s.etag = 0 \/ Names(s.etag, s.ver)) /\ s.ver \in 0 .. MaxVersion
  BY DEF Fill, DiskInv, TypeOK, Local, ThreadInv, PhaseOf, SeenOf
<1>2. Owned(t) = {} /\ s.dst = 0
  BY <1>1, OwnsNone DEF Holding
<1>3. PICK d \in {"ready", "broken"} :
        /\ Ensure(d)
        /\ \/ Done(t) /\ Files(Swept(d), body)
           \/ \E p \in Name :
                /\ p \in newPath /\ Swept(d)[p] = 0
                /\ st' = [st EXCEPT ![t].pc = c, ![t].path = p]
                /\ Files(IF s.etag = 0 THEN Swept(d) ELSE Created(Swept(d), p, p),
                         [body EXCEPT ![p] = s.ver])
                /\ UNCHANGED seen
  BY DEF Fill, newPath
<1> DEFINE n == Swept(d)
<1>4. /\ n \in [Name -> Name \cup {0}] /\ disk' = d
      /\ \A q \in Name : n[q] \in {0, name[q]}
      /\ d = "ready" => \A q \in Name : n[q] # 0 => disk = "ready"
  BY <1>3, SweptIs
<1>5. /\ ver \in 0 .. MaxVersion /\ left \in [ops : 0 .. MaxOps, faults : 0 .. MaxFaults]
      /\ body \in [Name -> 0 .. MaxVersion] /\ disk' \in {"fresh", "ready", "broken"}
      /\ UNCHANGED <<s3, ver, had, idx, left>>
  BY <1>4 DEF DiskInv, TypeOK, Fill
<1>6. CASE Done(t) /\ Files(n, body)
  <2> HIDE DEF n
  <2> QED
    BY <1>1, <1>4, <1>5, <1>6, DoneFilesKept DEF Holding
<1>7. ASSUME NEW p \in Name, p \in newPath, n[p] = 0,
             st' = [st EXCEPT ![t].pc = c, ![t].path = p],
             Files(IF s.etag = 0 THEN n ELSE Created(n, p, p), [body EXCEPT ![p] = s.ver]),
             UNCHANGED seen
      PROVE  DiskInv'
  <2> HIDE DEF n
  <2> DEFINE r == [s EXCEPT !.pc = c, !.path = p]
             m == IF s.etag = 0 THEN n ELSE Created(n, p, p)
  <2>1. st' = [st EXCEPT ![t] = r]
    BY <1>7 DEF DiskInv, TypeOK
  <2>2. /\ c \in {"reading", "insert"} /\ c \in PC
        /\ c = "insert" => s.etag # 0 /\ Names(s.etag, s.ver) /\ m = Created(n, p, p)
        /\ c = "reading" => m = n
    <3>1. "reading" \in PC /\ "insert" \in PC
      BY DEF PC, Opening
    <3> HIDE DEF r
    <3>2. CASE s.etag = 0
      <4>1. c = "reading" /\ m = n
        BY <3>2
      <4> HIDE DEF c, m
      <4> QED
        BY <3>1, <4>1
    <3>3. CASE s.etag # 0
      <4>1. c = "insert" /\ m = Created(n, p, p)
        BY <3>3
      <4>2. Names(s.etag, s.ver)
        BY <1>1, <3>3
      <4> HIDE DEF c, m
      <4> QED
        BY <3>1, <3>3, <4>1, <4>2
    <3> QED
      BY <3>2, <3>3
  <2>3. m = n \/ m = Created(n, p, p)
    OBVIOUS
  <2>4. Files(m, [body EXCEPT ![p] = s.ver])
    BY <1>7
  <2> HIDE DEF c, m
  <2>5. /\ r \in Local /\ r.pc = c /\ r.path = p /\ r.key = s.key /\ r.dst = s.dst
        /\ r.etag = s.etag /\ r.ver = s.ver
    BY <1>1, <2>2 DEF Local
  <2> HIDE DEF r
  <2>6. st'[t] = r /\ Alone(t) /\ st' \in [Thread -> Local]
    BY <2>1, <2>5, LocalStep
  <2>7. /\ Frame(t, 0) /\ name' = m /\ body'[p] = s.ver
        /\ name' \in [Name -> Name \cup {0}] /\ body' \in [Name -> 0 .. MaxVersion]
        /\ \A q \in Name \ {p} : name'[q] = n[q]
        /\ m = Created(n, p, p) => name'[p] = p
    <3>1. st'[t].path = p /\ s.ver \in 0 .. MaxVersion
      BY <1>1, <2>5, <2>6
    <3>2. p \in newPath /\ Alone(t)
      BY <1>7, <2>6
    <3>3. /\ n \in [Name -> Name \cup {0}] /\ \A q \in Name : n[q] \in {0, name[q]}
      BY <1>4
    <3> DEFINE v == s.ver
    <3>4. v \in 0 .. MaxVersion /\ Files(m, [body EXCEPT ![p] = v])
      BY <2>4, <3>1
    <3> HIDE DEF s, v
    <3>5. /\ Frame(t, 0) /\ name' = m /\ body'[p] = v
          /\ name' \in [Name -> Name \cup {0}] /\ body' \in [Name -> 0 .. MaxVersion]
          /\ \A q \in Name \ {p} : name'[q] = n[q]
          /\ m = Created(n, p, p) => name'[p] = p
      <4>1. CASE m = n
        BY <3>1, <3>2, <3>3, <3>4, <4>1, CreatedIs
      <4>2. CASE m = Created(n, p, p)
        BY <3>1, <3>2, <3>3, <3>4, <4>2, CreatedIs
      <4> QED
        BY <2>3, <4>1, <4>2
    <3> QED
      BY <3>5 DEF v
  <2>8. Requests(t)
    BY <1>5, <1>7, <2>6, SeenStays DEF Requests, DiskInv, TypeOK
  <2>9. p # 0 /\ p \notin Taken
    BY <1>7, NameIs, NewPathIs
  <2>10. ThreadInv(t)'
    <3>1. PhaseOf(t)'
      BY <1>1, <1>2, <2>2, <2>5, <2>6, <2>9 DEF PhaseOf
    <3>2. SeenOf(t)'
      BY <1>1, <1>5, <1>7, <2>2, <2>5, <2>6, <2>7 DEF SeenOf, Opening, DiskInv, ThreadInv, Names
    <3>3. BodyOf(t)' /\ SpillOf(t)'
      BY <2>2, <2>5, <2>6, <2>7 DEF BodyOf, SpillOf, Spilled
    <3> QED
      BY <3>1, <3>2, <3>3 DEF ThreadInv
  <2>11. Owned(t)' = IF c = "insert" THEN {p} ELSE {}
    BY <1>2, <2>2, <2>5, <2>6 DEF Owned, Holding
  <2>12. disk' = "ready" => \A q \in Name : name'[q] # 0 =>
           q \in Owned(t)' \/ (disk = "ready" /\ name[q] # 0 /\ q \notin Owned(t))
    <3> SUFFICES ASSUME disk' = "ready", NEW q \in Name, name'[q] # 0
                 PROVE  q \in Owned(t)' \/ (disk = "ready" /\ name[q] # 0)
      BY <1>2
    <3>1. CASE q = p
      BY <1>7, <2>2, <2>7, <2>11, <3>1
    <3>2. CASE q # p
      BY <1>4, <2>7, <3>2
    <3> QED
      BY <3>1, <3>2
  <2> QED
    BY <1>2, <1>5, <2>5, <2>6, <2>7, <2>8, <2>9, <2>10, <2>11, <2>12, FileKept DEF Writes
<1> QED
  BY <1>3, <1>6, <1>7

\* newSpill and the first write, or its failure.
LEMMA SpillStepKept ==
  ASSUME DiskInv, NEW t \in Thread, st[t].pc \notin Holding \cup {"copyInsert"},
         NEW k \in Key, NEW v \in 0 .. MaxVersion, NEW dirty \in BOOLEAN, Spill(t, k, v, dirty),
         UNCHANGED <<s3, had, idx>>, ver' \in 0 .. MaxVersion,
         left' \in [ops : 0 .. MaxOps, faults : 0 .. MaxFaults]
  PROVE  DiskInv'
<1>1. Owned(t) = {} /\ st[t].dst = 0
  BY OwnsNone
<1>2. PICK d \in {"ready", "broken"} :
        /\ Ensure(d)
        /\ \/ Done(t) /\ Files(Swept(d), body)
           \/ \E p \in Name :
                /\ p \in newPath /\ Swept(d)[p] = 0
                /\ st' = [st EXCEPT ![t] = [Idle EXCEPT !.pc = "writing", !.key = k, !.path = p,
                                                        !.dirty = dirty]]
                /\ Files(Created(Swept(d), p, p), [body EXCEPT ![p] = v])
                /\ Forget(t)
  BY DEF Spill, newPath
<1> DEFINE n == Swept(d)
<1>3. /\ n \in [Name -> Name \cup {0}] /\ disk' = d
      /\ \A q \in Name : n[q] \in {0, name[q]}
      /\ d = "ready" => \A q \in Name : n[q] # 0 => disk = "ready"
  BY <1>2, SweptIs
<1>4. disk' \in {"fresh", "ready", "broken"}
  BY <1>3
<1>5. CASE Done(t) /\ Files(n, body)
  <2> HIDE DEF n
  <2> QED
    BY <1>3, <1>4, <1>5, DoneFilesKept
<1>6. ASSUME NEW p \in Name, p \in newPath, n[p] = 0,
             st' = [st EXCEPT ![t] = [Idle EXCEPT !.pc = "writing", !.key = k, !.path = p,
                                                  !.dirty = dirty]],
             Files(Created(n, p, p), [body EXCEPT ![p] = v]), Forget(t)
      PROVE  DiskInv'
  <2> HIDE DEF n
  <2> DEFINE r == [Idle EXCEPT !.pc = "writing", !.key = k, !.path = p, !.dirty = dirty]
             m == Created(n, p, p)
  <2>1. st' = [st EXCEPT ![t] = r]
    BY <1>6
  <2>2. /\ r \in Local /\ r.pc = "writing" /\ r.path = p /\ r.key = k /\ r.dst = 0
        /\ r.etag = 0
    <3>1. "writing" \in PC /\ Idle.dst = 0 /\ Idle.etag = 0
      BY DEF PC, Idle
    <3> QED
      BY <3>1, IdleIs DEF Local
  <2> HIDE DEF r, m
  <2>3. st'[t] = r /\ Alone(t) /\ st' \in [Thread -> Local]
    BY <2>1, <2>2, LocalStep
  <2>4. /\ Frame(t, 0) /\ name' = m /\ body'[p] = v
        /\ name' \in [Name -> Name \cup {0}] /\ body' \in [Name -> 0 .. MaxVersion]
        /\ \A q \in Name \ {p} : name'[q] = n[q]
        /\ \A q \in Name : name'[q] = p => q = p
        /\ name'[p] = p
    <3>1. p \in newPath /\ Alone(t) /\ st'[t].path = p /\ v \in 0 .. MaxVersion
      BY <1>6, <2>2, <2>3
    <3>2. /\ n \in [Name -> Name \cup {0}] /\ \A q \in Name : n[q] \in {0, name[q]}
      BY <1>3
    <3>3. m = Created(n, p, p) /\ Files(m, [body EXCEPT ![p] = v])
      BY <1>6 DEF m
    <3>4. /\ Frame(t, 0) /\ name' = m /\ body'[p] = v
          /\ name' \in [Name -> Name \cup {0}] /\ body' \in [Name -> 0 .. MaxVersion]
          /\ \A q \in Name \ {p} : name'[q] = n[q]
          /\ \A q \in Name : name'[q] = p => q = p
          /\ m = Created(n, p, p) => name'[p] = p
      BY <3>1, <3>2, <3>3, CreatedIs
    <3> QED
      BY <3>3, <3>4
  <2>5. Requests(t)
    <3>1. /\ seen' \in [Thread -> SUBSET (0 .. MaxVersion)]
          /\ \A u \in Thread \ {t} : seen'[u] = seen[u]
      BY <1>6, ForgetIs
    <3> QED
      BY <2>3, <3>1, SeenStays DEF Requests, DiskInv, TypeOK
  <2>6. p # 0 /\ p \notin Taken /\ \A u \in Thread : st[u].path # p
    BY <1>6, NameIs, NewPathIs
  <2>7. ThreadInv(t)'
    <3>1. PhaseOf(t)' /\ SeenOf(t)'
      BY <2>2, <2>3, <2>6 DEF PhaseOf, SeenOf, Opening
    <3>2. BodyOf(t)'
      BY <2>2, <2>3, <2>4 DEF BodyOf
    <3>3. SpillOf(t)'
      BY <2>2, <2>3, <2>4, <2>6 DEF SpillOf, Alone
    <3> QED
      BY <3>1, <3>2, <3>3 DEF ThreadInv
  <2>8. Owned(t)' = {p}
    BY <2>2, <2>3 DEF Owned, Holding
  <2>9. disk' = "ready" => \A q \in Name : name'[q] # 0 =>
          q \in Owned(t)' \/ (disk = "ready" /\ name[q] # 0 /\ q \notin Owned(t))
    BY <1>1, <1>3, <2>4, <2>8
  <2> QED
    BY <1>4, <2>2, <2>3, <2>4, <2>5, <2>6, <2>7, <2>8, <2>9, FileKept DEF Writes
<1> QED
  BY <1>2, <1>5, <1>6

\* Load.
LEMMA LoadKept ==
  ASSUME DiskInv, NEW t \in Thread, Load(t)
  PROVE  DiskInv'
<1> DEFINE v == IF st[t].ver # 0 THEN st[t].ver ELSE s3[st[t].key]
<1>1. /\ st[t].pc = "load" /\ st[t].key \in Key /\ v \in 0 .. MaxVersion
      /\ ver \in 0 .. MaxVersion /\ left \in [ops : 0 .. MaxOps, faults : 0 .. MaxFaults]
  BY DEF Load, DiskInv, TypeOK, Local, ThreadInv, PhaseOf
<1>2. \/ Spill(t, st[t].key, v, FALSE) \/ (Done(t) /\ UNCHANGED <<disk, name, body>>)
  BY DEF Load
<1>3. UNCHANGED <<s3, ver, had, idx, left>>
  BY DEF Load
<1>4. st[t].pc \notin Holding \cup {"copyInsert"}
  BY <1>1 DEF Holding
<1> HIDE DEF v
<1> QED
  BY <1>1, <1>2, <1>3, <1>4, SpillStepKept, DoneKept

\* Create.
LEMMA CreateKept ==
  ASSUME DiskInv, NEW t \in Thread, NEW k \in Key, Create(t, k)
  PROVE  DiskInv'
<1>1. ver' \in 0 .. MaxVersion /\ st[t].pc = "idle"
  BY DiskCacheAssumption DEF DiskCacheAssumption, Create, Begin, DiskInv, TypeOK
<1>2. left' \in [ops : 0 .. MaxOps, faults : 0 .. MaxFaults]
  BY DiskCacheAssumption DEF DiskCacheAssumption, Create, Begin, DiskInv, TypeOK
<1>3. UNCHANGED <<s3, had, idx>> /\ Spill(t, k, ver', TRUE)
  BY DEF Create
<1>4. st[t].pc \notin Holding \cup {"copyInsert"}
  BY <1>1 DEF Holding
<1> QED
  BY <1>1, <1>2, <1>3, <1>4, SpillStepKept

\* WriteSpill.
LEMMA WriteSpillKept ==
  ASSUME DiskInv, NEW t \in Thread, WriteSpill(t)
  PROVE  DiskInv'
<1> DEFINE s == st[t]
           w == s.path
           r == [s EXCEPT !.dirty = TRUE]
           v == ver'
           b == [body EXCEPT ![w] = v]
<1>1. s.pc = "writing" /\ s \in Local /\ PhaseOf(t) /\ BodyOf(t) /\ SpillOf(t)
  BY DEF WriteSpill, DiskInv, TypeOK, ThreadInv
<1>2. s.key \in Key /\ w # 0 /\ w \in Name /\ s.dst = 0
  BY <1>1 DEF PhaseOf, Pathed, Holding, Local
<1>3. ver' \in 0 .. MaxVersion /\ Files(name, b)
  BY DiskCacheAssumption DEF DiskCacheAssumption, WriteSpill, DiskInv, TypeOK
<1>4. /\ name \in [Name -> Name \cup {0}] /\ body \in [Name -> 0 .. MaxVersion]
      /\ disk' \in {"fresh", "ready", "broken"} /\ disk' = disk
      /\ left \in [ops : 0 .. MaxOps, faults : 0 .. MaxFaults]
      /\ UNCHANGED <<s3, had, idx, seen, left>>
  BY DEF DiskInv, TypeOK, WriteSpill
<1>5. b \in [Name -> 0 .. MaxVersion] /\ \A i \in Name : i # w => b[i] = body[i]
  BY <1>3, <1>4
<1>6. st' = [st EXCEPT ![t] = r]
  BY DEF WriteSpill, DiskInv, TypeOK
<1>7. /\ r \in Local /\ r.pc = s.pc /\ r.path = s.path /\ r.key = s.key /\ r.dst = s.dst
      /\ r.dirty
  BY <1>1 DEF Local
<1> HIDE DEF r, b
<1>8. st'[t] = r /\ Alone(t) /\ st' \in [Thread -> Local]
  BY <1>6, <1>7, LocalStep
<1>9. /\ Frame(t, w) /\ name' = name
      /\ name' \in [Name -> Name \cup {0}] /\ body' \in [Name -> 0 .. MaxVersion]
  <2>1. name' = name
    BY <1>3 DEF Files
  <2>2. MaxVersion \in Nat
    BY DiskCacheAssumption DEF DiskCacheAssumption
  <2>3. body' = [i \in Name |->
          IF (\E p \in Name : name[p] = i) \/ (\E u \in Thread : st'[u].path = i)
          THEN b[i] ELSE 0]
    BY <1>3 DEF Files
  <2>4. body' \in [Name -> 0 .. MaxVersion]
    BY <1>5, <2>2, <2>3
  <2>5. \A i \in Name : i # w /\ Ref(i)' => body'[i] = body[i]
    BY <1>5, <2>1, <2>3 DEF Ref
  <2>6. st'[t].path = st[t].path
    BY <1>7, <1>8
  <2> HIDE DEF s, w
  <2> QED
    BY <1>4, <1>8, <2>1, <2>4, <2>5, <2>6 DEF Frame, Alone
<1>10. Writes(t, w)
  BY <1>1 DEF Writes
<1>11. Requests(t)
  BY <1>3, <1>4, <1>8, SeenStays DEF Requests, DiskInv, TypeOK
<1>12. ThreadInv(t)'
  <2>1. PhaseOf(t)' /\ SeenOf(t)'
    BY <1>1, <1>2, <1>7, <1>8 DEF PhaseOf, SeenOf, Opening
  <2>2. BodyOf(t)'
    BY <1>1, <1>7, <1>8, <1>9 DEF BodyOf, Spilled
  <2>3. SpillOf(t)'
    BY <1>1, <1>7, <1>8, <1>9 DEF SpillOf, Alone
  <2> QED
    BY <2>1, <2>2, <2>3 DEF ThreadInv
<1>13. Owned(t)' = Owned(t) /\ st'[t].dst = 0
  BY <1>2, <1>7, <1>8 DEF Owned
<1>14. disk' = "ready" => \A p \in Name : name'[p] # 0 =>
         p \in Owned(t)' \/ (disk = "ready" /\ name[p] # 0 /\ p \notin Owned(t))
  BY <1>4, <1>9, <1>13
<1> HIDE DEF w
<1> QED
  BY <1>4, <1>8, <1>9, <1>10, <1>11, <1>12, <1>13, <1>14, FileKept

\* Destroy.
LEMMA DestroyKept ==
  ASSUME DiskInv, NEW t \in Thread, Destroy(t)
  PROVE  DiskInv'
<1> DEFINE w == st[t].path
           n == [name EXCEPT ![w] = 0]
<1>1. /\ st[t].pc = "destroy" /\ Done(t) /\ Files(n, body) /\ disk' = disk
      /\ UNCHANGED <<s3, ver, had, idx, left>>
  BY DEF Destroy
<1>2. w \in Name /\ w # 0 /\ st[t].dst = 0
  BY <1>1 DEF DiskInv, ThreadInv, PhaseOf, Pathed, Holding, TypeOK, Local
<1>3. Owned(t) = {w}
  BY <1>1, <1>2 DEF Owned, Holding
<1>4. /\ st'[t].path = 0 /\ st'[t].dst = 0 /\ Alone(t) /\ st' \in [Thread -> Local]
      /\ ThreadInv(t)' /\ Owned(t)' = {}
      /\ seen' \in [Thread -> SUBSET (0 .. MaxVersion)]
      /\ \A u \in Thread \ {t} : seen'[u] = seen[u]
  BY <1>1, DoneIs
<1>5. /\ body \in [Name -> 0 .. MaxVersion] /\ name \in [Name -> Name \cup {0}]
      /\ disk' \in {"fresh", "ready", "broken"}
  BY <1>1 DEF DiskInv, TypeOK
<1>6. /\ n \in [Name -> Name \cup {0}] /\ n[w] = 0
      /\ \A q \in Name \ {w} : n[q] = name[q]
  BY <1>2, <1>5
<1> HIDE DEF n
<1>7. /\ Frame(t, 0) /\ name' = n
      /\ name' \in [Name -> Name \cup {0}] /\ body' \in [Name -> 0 .. MaxVersion]
  <2>1. \A q \in Name : n[q] \in {0, name[q]}
    BY <1>6
  <2>2. st'[t].path \in {0, st[t].path} \cup Found(t) \cup Paths(idx)
    BY <1>4
  <2> QED
    BY <1>1, <1>4, <1>5, <1>6, <2>1, <2>2, FilesFrame
<1>8. Requests(t)
  BY <1>1, <1>4, SeenStays DEF Requests, DiskInv, TypeOK
<1>9. disk' = "ready" => \A p \in Name : name'[p] # 0 =>
        disk = "ready" /\ name[p] # 0 /\ p \notin Owned(t)
  BY <1>1, <1>3, <1>6, <1>7
<1> QED
  BY <1>1, <1>4, <1>5, <1>7, <1>8, <1>9, FileKept DEF Writes

\* What t was about to link is a file with its contents.
LEMMA LinkedIsTrue ==
  ASSUME DiskInv, NEW t \in Thread, st[t].pc \in {"link", "copyLink"}, st[t].etag # 0
  PROVE  /\ st[t].path \in Name /\ st[t].key \in Key /\ st[t].dst = 0
         /\ name[st[t].path] # 0 => Names(st[t].etag, body[name[st[t].path]])
<1>1. PhaseOf(t) /\ BodyOf(t) /\ st[t] \in Local
  BY DEF DiskInv, ThreadInv, TypeOK
<1>2. st[t].path \in Name /\ st[t].key \in Key /\ st[t].dst = 0
  BY <1>1 DEF PhaseOf, Pathed, Holding, Local
<1>3. CASE st[t].pc = "link"
  <2>1. name[st[t].path] \in {0, st[t].path} /\ body[st[t].path] = st[t].etag
    BY <1>1, <1>3 DEF BodyOf, Spilled
  <2> QED
    BY <1>2, <2>1 DEF Names
<1>4. CASE st[t].pc = "copyLink"
  BY <1>1, <1>2, <1>4 DEF BodyOf, IsTrue
<1> QED
  BY <1>3, <1>4

\* t has linked its file as p.
LEMMA NewLinkKept ==
  ASSUME DiskInv, NEW t \in Thread, st[t].pc \in {"link", "copyLink"}, st[t].etag # 0,
         NEW c, c = IF st[t].pc = "link" THEN "adopt" ELSE "copyInsert",
         NEW n \in [Name -> Name \cup {0}], \A q \in Name : n[q] \in {0, name[q]},
         NEW p \in Name, p \in newPath, n[st[t].path] # 0,
         st' = [st EXCEPT ![t].pc = c, ![t].dst = p],
         Files(Created(n, p, n[st[t].path]), body),
         disk' \in {"fresh", "ready", "broken"},
         disk' = "ready" => \A q \in Name : n[q] # 0 => disk = "ready",
         UNCHANGED <<s3, ver, had, idx, seen, left>>
  PROVE  DiskInv'
<1> DEFINE s == st[t]
           r == [s EXCEPT !.pc = c, !.dst = p]
           i == name[s.path]
           m == Created(n, p, i)
<1>1. /\ s \in Local /\ s.path \in Name /\ s.key \in Key /\ s.dst = 0
      /\ i # 0 => Names(s.etag, body[i])
      /\ s.pc = "copyLink" => s.ver # 0
  BY LinkedIsTrue DEF DiskInv, TypeOK, ThreadInv, PhaseOf
<1>2. n[s.path] = i /\ i # 0 /\ i \in Name /\ Names(s.etag, body[i])
  BY <1>1
<1>3. c \in {"adopt", "copyInsert"} /\ c \in PC
  BY DEF PC
<1>4. (s.pc = "link" /\ c = "adopt") \/ (s.pc = "copyLink" /\ c = "copyInsert")
  OBVIOUS
<1>5. p # 0 /\ p \notin Taken /\ p # s.path /\ s.path # 0
  BY <1>1, NameIs, NewPathIs
<1>6. /\ m \in [Name -> Name \cup {0}] /\ m[p] = i
      /\ \A q \in Name \ {p} : m[q] = n[q]
  BY <1>2 DEF Created
<1>7. st' = [st EXCEPT ![t] = r]
  BY DEF DiskInv, TypeOK
<1>8. /\ r \in Local /\ r.pc = c /\ r.path = s.path /\ r.key = s.key /\ r.dst = p
      /\ r.etag = s.etag /\ r.ver = s.ver
  BY <1>1, <1>3 DEF Local
<1>9. Files(m, body) /\ body \in [Name -> 0 .. MaxVersion]
  BY <1>2 DEF DiskInv, TypeOK
<1> HIDE DEF r, m
<1>10. st'[t] = r /\ Alone(t) /\ st' \in [Thread -> Local]
  BY <1>7, <1>8, LocalStep
<1>11. i \in Found(t)
  BY <1>1 DEF Found
<1>12. \A q \in Name : \/ m[q] \in {0, name[q]}
                       \/ q \notin Taken /\ (m[q] \notin Taken \/ m[q] \in Found(t))
  BY <1>5, <1>6, <1>11
<1>13. st'[t].path \in {0, st[t].path} \cup Found(t) \cup Paths(idx)
  BY <1>8, <1>10
<1>14. /\ Frame(t, 0) /\ name' = m
       /\ name' \in [Name -> Name \cup {0}] /\ body' \in [Name -> 0 .. MaxVersion]
  BY <1>6, <1>9, <1>10, <1>12, <1>13, FilesFrame
<1>15. name'[p] = i /\ Names(s.etag, body'[i])
  <2>1. body'[i] = IF (\E q \in Name : m[q] = i) \/ (\E u \in Thread : st'[u].path = i)
                   THEN body[i] ELSE 0
    BY <1>2, <1>9 DEF Files
  <2> QED
    BY <1>2, <1>6, <1>14, <2>1
<1>16. Requests(t)
  BY <1>10, SeenStays DEF Requests, DiskInv, TypeOK
<1>17. ThreadInv(t)'
  <2>1. PhaseOf(t)'
    BY <1>1, <1>3, <1>4, <1>5, <1>8, <1>10 DEF PhaseOf
  <2>2. SeenOf(t)'
    BY <1>3, <1>8, <1>10 DEF SeenOf, Opening
  <2>3. name'[p] # 0 => Names(s.etag, body'[name'[p]])
    BY <1>15
  <2>4. c = "adopt" => body'[s.path] = s.etag
    <3> SUFFICES ASSUME c = "adopt" PROVE body'[s.path] = s.etag
      OBVIOUS
    <3>1. s.pc = "link" /\ BodyOf(t)
      BY <1>4 DEF DiskInv, ThreadInv
    <3>2. body[s.path] = s.etag
      BY <3>1 DEF BodyOf
    <3>3. body'[s.path] = body[s.path]
      BY <1>5, <1>8, <1>10, <1>14, SelfKept
    <3> QED
      BY <3>2, <3>3
  <2>5. BodyOf(t)' /\ SpillOf(t)'
    BY <1>3, <1>8, <1>10, <2>3, <2>4 DEF BodyOf, SpillOf, Spilled, IsTrue
  <2> QED
    BY <2>1, <2>2, <2>5 DEF ThreadInv
<1>18. Owned(t)' = Owned(t) \cup {p}
  BY <1>1, <1>4, <1>5, <1>8, <1>10 DEF Owned, Holding
<1>19. disk' = "ready" => \A q \in Name : name'[q] # 0 =>
         q \in Owned(t)' \/ (disk = "ready" /\ name[q] # 0 /\ q \notin Owned(t))
  BY <1>6, <1>14, <1>18
<1>20. /\ \A q \in Owned(t)' : q \in Taken => q \in Owned(t)
       /\ st'[t].dst # 0 => st'[t].dst # st'[t].path
  BY <1>5, <1>8, <1>10, <1>18
<1> QED
  BY <1>10, <1>14, <1>16, <1>17, <1>19, <1>20, FileKept DEF Writes

\* The link cannot be made.
LEMMA NoLinkKept ==
  ASSUME DiskInv, NEW t \in Thread, st[t].pc \in {"link", "copyLink"},
         NEW c, c = IF st[t].pc = "link" THEN "destroy" ELSE "drop",
         NEW n \in [Name -> Name \cup {0}], \A q \in Name : n[q] \in {0, name[q]},
         Goto(t, c), Files(n, body), disk' \in {"fresh", "ready", "broken"},
         disk' = "ready" => \A q \in Name : n[q] # 0 => disk = "ready",
         UNCHANGED <<s3, ver, had, idx, seen, left>>
  PROVE  DiskInv'
<1> DEFINE s == st[t]
           r == [s EXCEPT !.pc = c]
<1>1. s \in Local /\ s.path \in Name /\ s.path # 0 /\ s.key \in Key /\ s.dst = 0
  BY DEF DiskInv, TypeOK, ThreadInv, PhaseOf, Pathed, Holding, Local
<1>2. c \in {"destroy", "drop"} /\ c \in PC
  BY DEF PC
<1>3. (s.pc = "link" /\ c = "destroy") \/ (s.pc = "copyLink" /\ c = "drop")
  OBVIOUS
<1>4. st' = [st EXCEPT ![t] = r]
  BY DEF DiskInv, TypeOK, Goto
<1>5. r \in Local /\ r.pc = c /\ r.path = s.path /\ r.key = s.key /\ r.dst = 0
  BY <1>1, <1>2 DEF Local
<1> HIDE DEF r
<1>6. st'[t] = r /\ Alone(t) /\ st' \in [Thread -> Local]
  BY <1>4, <1>5, LocalStep
<1>7. st'[t].path \in {0, st[t].path} \cup Found(t) \cup Paths(idx)
  BY <1>5, <1>6
<1>8. body \in [Name -> 0 .. MaxVersion]
  BY DEF DiskInv, TypeOK
<1>9. /\ Frame(t, 0) /\ name' = n
      /\ name' \in [Name -> Name \cup {0}] /\ body' \in [Name -> 0 .. MaxVersion]
  BY <1>6, <1>7, <1>8, FilesFrame
<1>10. Requests(t)
  BY <1>6, SeenStays DEF Requests, DiskInv, TypeOK
<1>11. ThreadInv(t)'
  <2>1. PhaseOf(t)' /\ SeenOf(t)'
    BY <1>1, <1>2, <1>5, <1>6 DEF PhaseOf, SeenOf, Opening
  <2>2. BodyOf(t)' /\ SpillOf(t)'
    BY <1>2, <1>5, <1>6 DEF BodyOf, SpillOf, Spilled
  <2> QED
    BY <2>1, <2>2 DEF ThreadInv
<1>12. Owned(t)' = Owned(t) /\ st'[t].dst = 0
  BY <1>1, <1>3, <1>5, <1>6 DEF Owned, Holding
<1>13. disk' = "ready" => \A q \in Name : name'[q] # 0 =>
         q \in Owned(t)' \/ (disk = "ready" /\ name[q] # 0 /\ q \notin Owned(t))
  BY <1>9, <1>12
<1> QED
  BY <1>6, <1>9, <1>10, <1>11, <1>12, <1>13, FileKept DEF Writes

\* Link.
LEMMA LinkKept ==
  ASSUME DiskInv, NEW t \in Thread, Link(t)
  PROVE  DiskInv'
<1>1. /\ st[t].pc = "link" /\ UNCHANGED <<s3, ver, had, idx, seen, left>>
      /\ name \in [Name -> Name \cup {0}] /\ disk \in {"fresh", "ready", "broken"}
  BY DEF Link, Linked, Goto, DiskInv, TypeOK
<1>2. CASE st[t].etag = 0
  <2> DEFINE s == st[t]
             r == [s EXCEPT !.pc = "destroy"]
  <2>1. s \in Local /\ s.path # 0 /\ s.key \in Key /\ s.dst = 0
    BY <1>1 DEF DiskInv, TypeOK, ThreadInv, PhaseOf, Pathed, Holding
  <2>2. st' = [st EXCEPT ![t] = r] /\ UNCHANGED <<disk, name, body>>
    BY <1>2 DEF DiskInv, TypeOK, Goto, Link
  <2>3. r \in Local /\ r.pc = "destroy" /\ r.path = s.path /\ r.key = s.key /\ r.dst = 0
    <3>1. "destroy" \in PC
      BY DEF PC
    <3> QED
      BY <2>1, <3>1 DEF Local
  <2> HIDE DEF r
  <2>4. st'[t] = r /\ Alone(t) /\ st' \in [Thread -> Local]
    BY <2>2, <2>3, LocalStep
  <2>5. Requests(t)
    BY <1>1, <2>4, SeenStays DEF Requests, DiskInv, TypeOK
  <2>6. ThreadInv(t)'
    BY <2>1, <2>3, <2>4
       DEF ThreadInv, PhaseOf, SeenOf, BodyOf, SpillOf, Opening, Pathed, Holding, Spilled
  <2>7. Owned(t)' = Owned(t) /\ st'[t].path = st[t].path /\ st'[t].dst = 0
    BY <1>1, <2>1, <2>3, <2>4 DEF Owned, Holding
  <2> QED
    BY <1>1, <2>2, <2>5, <2>6, <2>7, RequestKept
<1>3. CASE st[t].etag # 0
  <2>1. PICK d \in {"ready", "broken"} :
          /\ Ensure(d)
          /\ \/ d = "ready" /\ Linked(t, Swept(d), "adopt", "destroy")
             \/ d = "broken" /\ Goto(t, "destroy") /\ Files(name, body)
    BY <1>3 DEF Link
  <2> DEFINE n == Swept(d)
  <2>2. /\ n \in [Name -> Name \cup {0}] /\ disk' = d
        /\ \A q \in Name : n[q] \in {0, name[q]}
        /\ d = "ready" => \A q \in Name : n[q] # 0 => disk = "ready"
    BY <2>1, SweptIs
  <2>3. disk' \in {"fresh", "ready", "broken"}
    BY <2>2
  <2>4. \/ Goto(t, "destroy") /\ Files(n, body)
        \/ \E p \in Name :
             /\ p \in newPath /\ n[st[t].path] # 0
             /\ st' = [st EXCEPT ![t].pc = "adopt", ![t].dst = p]
             /\ Files(Created(n, p, n[st[t].path]), body)
        \/ d = "broken" /\ Goto(t, "destroy") /\ Files(name, body)
    BY <2>1 DEF Linked, newPath
  <2> HIDE DEF n
  <2>5. CASE Goto(t, "destroy") /\ Files(n, body)
    BY <1>1, <2>2, <2>3, <2>5, NoLinkKept
  <2>6. CASE d = "broken" /\ Goto(t, "destroy") /\ Files(name, body)
    <3> DEFINE m == name
    <3>1. /\ m \in [Name -> Name \cup {0}] /\ \A q \in Name : m[q] \in {0, name[q]}
          /\ disk' = "ready" => \A q \in Name : m[q] # 0 => disk = "ready"
          /\ Files(m, body)
      BY <1>1, <2>2, <2>6
    <3> HIDE DEF m
    <3> QED
      BY <1>1, <2>3, <2>6, <3>1, NoLinkKept
  <2>7. CASE \E p \in Name :
               /\ p \in newPath /\ n[st[t].path] # 0
               /\ st' = [st EXCEPT ![t].pc = "adopt", ![t].dst = p]
               /\ Files(Created(n, p, n[st[t].path]), body)
    <3>1. PICK p \in Name :
            /\ p \in newPath /\ n[st[t].path] # 0
            /\ st' = [st EXCEPT ![t].pc = "adopt", ![t].dst = p]
            /\ Files(Created(n, p, n[st[t].path]), body)
      BY <2>7
    <3>2. disk' = "ready" => \A q \in Name : n[q] # 0 => disk = "ready"
      BY <2>2
    <3>3. /\ st[t].pc \in {"link", "copyLink"}
          /\ "adopt" = IF st[t].pc = "link" THEN "adopt" ELSE "copyInsert"
      BY <1>1
    <3> QED
      BY <1>1, <1>3, <2>2, <2>3, <3>1, <3>2, <3>3, NewLinkKept
  <2> QED
    BY <2>4, <2>5, <2>6, <2>7
<1> QED
  BY <1>2, <1>3

\* CopyLink.
LEMMA CopyLinkKept ==
  ASSUME DiskInv, NEW t \in Thread, CopyLink(t)
  PROVE  DiskInv'
<1> DEFINE n == name
<1>1. /\ st[t].pc = "copyLink" /\ UNCHANGED <<s3, ver, had, idx, seen, left>>
      /\ disk' \in {"fresh", "ready", "broken"} /\ st[t].etag # 0
  BY DEF CopyLink, Linked, Goto, DiskInv, TypeOK, ThreadInv, PhaseOf
<1>2. /\ n \in [Name -> Name \cup {0}] /\ \A q \in Name : n[q] \in {0, name[q]}
      /\ disk' = "ready" => \A q \in Name : n[q] # 0 => disk = "ready"
  BY DEF CopyLink, DiskInv, TypeOK
<1>3. \/ Goto(t, "drop") /\ Files(n, body)
      \/ \E p \in Name :
           /\ p \in newPath /\ n[st[t].path] # 0
           /\ st' = [st EXCEPT ![t].pc = "copyInsert", ![t].dst = p]
           /\ Files(Created(n, p, n[st[t].path]), body)
  BY DEF CopyLink, Linked, newPath
<1> HIDE DEF n
<1>4. CASE Goto(t, "drop") /\ Files(n, body)
  BY <1>1, <1>2, <1>4, NoLinkKept
<1>5. CASE \E p \in Name :
             /\ p \in newPath /\ n[st[t].path] # 0
             /\ st' = [st EXCEPT ![t].pc = "copyInsert", ![t].dst = p]
             /\ Files(Created(n, p, n[st[t].path]), body)
  BY <1>1, <1>2, <1>5, NewLinkKept
<1> QED
  BY <1>3, <1>4, <1>5

------------------------------------------------------------------------------
(* The process.                                                            *)

\* A process that has just started.
Fresh == TypeOK /\ disk = "fresh" /\ idx = Empty /\ st = [t \in Thread |-> Idle]

\* It owns nothing and has nothing to prove, whatever is in the directory.
LEMMA FreshInv == Fresh => DiskInv
<1> SUFFICES ASSUME Fresh PROVE DiskInv
  OBVIOUS
<1>1. IndexOK(idx) /\ DOMAIN idx.val = {}
  BY DEF Fresh, Empty, IndexOK, NoTwice, ToSet
<1>2. \A t \in Thread : st[t].pc = "idle" /\ st[t].path = 0 /\ st[t].dst = 0
  BY DEF Fresh, Idle
<1>3. \A t \in Thread : ThreadInv(t)
  BY <1>2
     DEF ThreadInv, PhaseOf, SeenOf, BodyOf, SpillOf, Opening, Pathed, Holding, Spilled
<1>4. \A t \in Thread : Owned(t) = {}
  BY <1>2 DEF Owned, Holding
<1>5. OwnInv /\ EntriesNamed
  BY <1>1, <1>2, <1>4 DEF OwnInv, EntriesNamed
<1>6. KeptInv
  BY DEF Fresh, KeptInv
<1> QED
  BY <1>1, <1>3, <1>5, <1>6 DEF DiskInv, Fresh

\* The versions objects have are versions.
LEMMA CurrentIs ==
  ASSUME s3 \in [Key -> 0 .. MaxVersion]
  PROVE  Current \in [Key -> SUBSET Version]
<1>1. \A k \in Key : {s3[k]} \ {0} \in SUBSET Version
  BY DiskCacheAssumption DEF DiskCacheAssumption, Version
<1> QED
  BY <1>1 DEF Current

\* The first process starts in an empty directory.
LEMMA InitDiskInv == Init => DiskInv
<1> SUFFICES ASSUME Init PROVE Fresh
  BY FreshInv
<1>1. DOMAIN idx.val = {}
  BY DEF Init, Empty
<1>2. st \in [Thread -> Local]
  BY IdleIs DEF Init
<1>3. 0 .. MaxVersion \subseteq Nat /\ {0, 1} \subseteq 0 .. MaxVersion
  BY DiskCacheAssumption DEF DiskCacheAssumption
<1>4. left \in [ops : 0 .. MaxOps, faults : 0 .. MaxFaults]
  BY DiskCacheAssumption DEF DiskCacheAssumption, Init
<1>5. s3 \in [Key -> 0 .. MaxVersion] /\ body \in [Name -> 0 .. MaxVersion]
  BY <1>3 DEF Init
<1>7. had \in [Key -> SUBSET Version]
  BY <1>5, CurrentIs DEF Init
<1>6. seen \in [Thread -> SUBSET (0 .. MaxVersion)] /\ name \in [Name -> Name \cup {0}]
  BY DEF Init
<1> QED
  BY <1>1, <1>2, <1>3, <1>4, <1>5, <1>6, <1>7 DEF Init, Fresh, TypeOK

\* Crash.
LEMMA CrashKept ==
  ASSUME DiskInv, Crash
  PROVE  DiskInv'
<1>1. name' = name /\ name \in [Name -> Name \cup {0}]
  BY DEF Crash, Files, DiskInv, TypeOK
<1>2. body' \in [Name -> 0 .. MaxVersion]
  <2>1. MaxVersion \in Nat /\ body \in [Name -> 0 .. MaxVersion]
    BY DiskCacheAssumption DEF DiskCacheAssumption, DiskInv, TypeOK
  <2>2. body' = [i \in Name |->
          IF (\E p \in Name : name[p] = i) \/ (\E t \in Thread : st'[t].path = i)
          THEN body[i] ELSE 0]
    BY DEF Crash, Files
  <2> QED
    BY <2>1, <2>2
<1>3. left' \in [ops : 0 .. MaxOps, faults : 0 .. MaxFaults]
  BY DiskCacheAssumption DEF DiskCacheAssumption, Crash, Fault, DiskInv, TypeOK
<1>4. st' \in [Thread -> Local] /\ seen' \in [Thread -> SUBSET (0 .. MaxVersion)]
  BY IdleIs DEF Crash
<1>5. DOMAIN idx'.val = {}
  BY DEF Crash, Empty
<1>8. had' \in [Key -> SUBSET Version]
  BY CurrentIs DEF Crash, DiskInv, TypeOK
<1>6. TypeOK'
  BY <1>1, <1>2, <1>3, <1>4, <1>5, <1>8 DEF TypeOK, Crash, DiskInv
<1>7. Fresh'
  BY <1>6 DEF Fresh, Crash, Empty
<1> QED
  BY <1>7, FreshInv, PTL

\* Every step keeps the invariant.
LEMMA NextDiskInv == DiskInv /\ [Next]_vars => DiskInv'
<1> SUFFICES ASSUME DiskInv, [Next]_vars PROVE DiskInv'
  OBVIOUS
<1>1. ASSUME NEW t \in Thread, NEW k \in Key, NEW write \in BOOLEAN, OpenFile(t, k, write)
      PROVE  DiskInv'
  BY <1>1, OpenFileKept
<1>2. ASSUME NEW t \in Thread, NEW k \in Key, Create(t, k) PROVE DiskInv'
  BY <1>2, CreateKept
<1>3. ASSUME NEW t \in Thread, NEW k \in Key, NEW v \in 0 .. MaxVersion, Mutate(t, k, v)
      PROVE  DiskInv'
  BY <1>3, MutateKept
<1>4. ASSUME NEW t \in Thread, NEW k \in Key, NEW j \in Key, Copy(t, j, k) PROVE DiskInv'
  BY <1>4, CopyKept
<1>5. ASSUME NEW t \in Thread, HeadObject(t) PROVE DiskInv'
  BY <1>5, HeadObjectKept
<1>6. ASSUME NEW t \in Thread, GetObject(t) PROVE DiskInv'
  BY <1>6, GetObjectKept
<1>7. ASSUME NEW t \in Thread, OpenEntry(t) PROVE DiskInv'
  BY <1>7, OpenEntryKept
<1>8. ASSUME NEW t \in Thread, FOpen(t) PROVE DiskInv'
  BY <1>8, FOpenKept
<1>9. ASSUME NEW t \in Thread, Gone(t) PROVE DiskInv'
  BY <1>9, GoneKept
<1>10. ASSUME NEW t \in Thread, Fetch(t) PROVE DiskInv'
  BY <1>10, FetchKept
<1>11. ASSUME NEW t \in Thread, Fill(t) PROVE DiskInv'
  BY <1>11, FillKept
<1>12. ASSUME NEW t \in Thread, Insert(t) PROVE DiskInv'
  BY <1>12, InsertStepKept
<1>13. ASSUME NEW t \in Thread, End(t) PROVE DiskInv'
  BY <1>13, EndKept
<1>14. ASSUME NEW t \in Thread, Load(t) PROVE DiskInv'
  BY <1>14, LoadKept
<1>15. ASSUME NEW t \in Thread, WriteSpill(t) PROVE DiskInv'
  BY <1>15, WriteSpillKept
<1>16. ASSUME NEW t \in Thread, Flush(t, "syncDrop") \/ Flush(t, "closeDrop") PROVE DiskInv'
  BY <1>16, FlushKept
<1>17. ASSUME NEW t \in Thread, FlushDrop(t) PROVE DiskInv'
  BY <1>17, FlushDropKept
<1>18. ASSUME NEW t \in Thread, Link(t) PROVE DiskInv'
  BY <1>18, LinkKept
<1>19. ASSUME NEW t \in Thread, Adopt(t) PROVE DiskInv'
  BY <1>19, AdoptKept
<1>20. ASSUME NEW t \in Thread, Destroy(t) PROVE DiskInv'
  BY <1>20, DestroyKept
<1>21. ASSUME NEW t \in Thread, Drop(t) PROVE DiskInv'
  BY <1>21, DropKept
<1>22. ASSUME NEW t \in Thread, Copied(t) PROVE DiskInv'
  BY <1>22, CopiedKept
<1>23. ASSUME NEW t \in Thread, CopyLink(t) PROVE DiskInv'
  BY <1>23, CopyLinkKept
<1>24. ASSUME NEW t \in Thread, CopyInsert(t) PROVE DiskInv'
  BY <1>24, CopyInsertKept
<1>25. ASSUME NEW k \in Key, Foreign(k) PROVE DiskInv'
  BY <1>25, ForeignKept
<1>26. ASSUME NEW p \in Name, Vanish(p) PROVE DiskInv'
  BY <1>26, VanishKept
<1>27. CASE Crash
  BY <1>27, CrashKept
<1>29. ASSUME NEW t \in Thread, NEW k \in Key, NEW write \in BOOLEAN, NEW v \in Version,
              OpenCached(t, k, write, v)
       PROVE  DiskInv'
  BY <1>29, OpenCachedKept
<1>28. CASE UNCHANGED vars
  <2>1. UNCHANGED <<s3, ver, had, disk, idx, name, body, st, seen, left>>
    BY <1>28 DEF vars
  <2>2. TypeOK' /\ IndexOK(idx')
    BY <2>1 DEF DiskInv, TypeOK
  <2>3. (\A t : SeenFrame(t)) /\ Shrinks
    BY <2>1, SeenStays DEF Shrinks
  <2> QED
    BY <2>1, <2>2, <2>3, NobodyKept
<1> QED
  <2>1. CASE Next
    <3>1. CASE \E t \in Thread, k \in Key :
                 \/ \E write \in BOOLEAN : OpenFile(t, k, write)
                 \/ \E write \in BOOLEAN, v \in Version : OpenCached(t, k, write, v)
                 \/ Create(t, k)
                 \/ \E v \in 0 .. MaxVersion : Mutate(t, k, v)
                 \/ \E j \in Key : Copy(t, j, k)
      BY <3>1, <1>1, <1>2, <1>3, <1>4, <1>29
    <3>2. CASE \E t \in Thread :
                 \/ HeadObject(t) \/ GetObject(t) \/ OpenEntry(t) \/ FOpen(t) \/ Gone(t)
                 \/ Fetch(t) \/ Fill(t) \/ Insert(t) \/ End(t)
      BY <3>2, <1>5, <1>6, <1>7, <1>8, <1>9, <1>10, <1>11, <1>12, <1>13
    <3>3. CASE \E t \in Thread :
                 \/ Load(t) \/ WriteSpill(t) \/ Flush(t, "syncDrop") \/ Flush(t, "closeDrop")
                 \/ FlushDrop(t) \/ Link(t) \/ Adopt(t) \/ Destroy(t)
      BY <3>3, <1>14, <1>15, <1>16, <1>17, <1>18, <1>19, <1>20
    <3>4. CASE \E t \in Thread : Drop(t) \/ Copied(t) \/ CopyLink(t) \/ CopyInsert(t)
      BY <3>4, <1>21, <1>22, <1>23, <1>24
    <3>5. CASE (\E k \in Key : Foreign(k)) \/ (\E p \in Name : Vanish(p)) \/ Crash
      BY <3>5, <1>25, <1>26, <1>27
    <3> QED
      BY <2>1, <3>1, <3>2, <3>3, <3>4, <3>5 DEF Next
  <2> QED
    BY <1>28, <2>1

\* The invariant holds of every behaviour of the cache.
LEMMA SpecDiskInv == Spec => []DiskInv
<1> QED
  BY InitDiskInv, NextDiskInv, PTL DEF Spec

\* The parts of the invariant that opens and files are about.
LEMMA DiskInvParts ==
  /\ DiskInv => TypeOK
  /\ DiskInv /\ ~UntaggedGet => EntriesAreTrue /\ OpenIsFresh
BY DEF DiskInv, ThreadInv, SeenOf, OpenIsFresh, EntriesAreTrue, EntriesNamed, IsTrue, Names

\* A file has the one owner that the invariant gives it.
LEMMA DiskInvOwned == DiskInv => FilesAreOwned
<1> SUFFICES ASSUME DiskInv, disk = "ready", NEW p \in Name, name[p] # 0
             PROVE  Cardinality(Owners(p)) = 1
  BY DEF FilesAreOwned
<1> DEFINE E == {j \in DOMAIN idx.val : idx.val[j].path = p}
           T == {u \in Thread : p \in Owned(u)}
<1>1. p # 0
  BY NameIs
<1>2. Owners(p) = {<<"entry", k>> : k \in E} \cup {<<"operation", t>> : t \in T}
  BY <1>1 DEF Owners, Owned, Holding
<1>3. p \in Paths(idx) \/ \E t \in Thread : p \in Owned(t)
  BY DEF DiskInv, KeptInv
<1>4. OwnInv
  BY DEF DiskInv
<1>5. CASE p \in Paths(idx)
  <2>1. PICK k \in DOMAIN idx.val : idx.val[k].path = p
    BY <1>5 DEF Paths
  <2>2. E = {k} /\ T = {}
    BY <1>4, <2>1 DEF OwnInv
  <2>3. Owners(p) = {<<"entry", k>>}
    BY <1>2, <2>2
  <2> QED
    BY <2>3, FS_Singleton
<1>6. CASE \E t \in Thread : p \in Owned(t)
  <2>1. PICK t \in Thread : p \in Owned(t)
    BY <1>6
  <2>2. E = {} /\ T = {t}
    BY <1>4, <2>1 DEF OwnInv
  <2>3. Owners(p) = {<<"operation", t>>}
    BY <1>2, <2>2
  <2> QED
    BY <2>3, FS_Singleton
<1> QED
  BY <1>3, <1>5, <1>6

------------------------------------------------------------------------------
(* The budget.                                                             *)

\* The index is sound and within the budget.
Afford(x) == Sound(x) /\ x.used <= MaxBytes

\* The index is left alone, or gets, loses or looks up an entry.
IndexMoves ==
  \/ idx' = idx \/ idx' = Empty
  \/ \E k \in Key : \E x \in Gets(k) \cup {idx} : \E j \in Key : idx' \in {x, Removed(x, j)}
  \/ \E k \in Key, v \in Entry, c \in Nat :
       idx' = Put(idx, k, v, c, MaxBytes)

\* The empty index costs nothing.
LEMMA EmptyAfford == Afford(Empty)
<1> DEFINE s == <<>>
<1>1. Empty.order = s /\ Empty.used = 0 /\ s \in Seq(Key) /\ Len(s) = 0
  BY DEF Empty
<1>2. IndexOK(Empty)
  BY DEF Empty, IndexOK, NoTwice, ToSet
<1>3. Priced(s, Empty.cost)
  BY <1>1 DEF Priced
<1>4. Sum(s, Empty.cost) = 0
  <2>1. Runs(Spent(s, Empty.cost), Len(s), Prices(s, Empty.cost))
    BY <1>1, <1>3, SpentIs
  <2> HIDE DEF s
  <2> QED
    BY <1>1, <2>1 DEF Runs, Sum
<1>5. MaxBytes \in Nat
  BY DiskCacheAssumption DEF DiskCacheAssumption
<1> QED
  BY <1>1, <1>2, <1>3, <1>4, <1>5 DEF Afford, Sound

\* What can happen to the index keeps it affordable.
LEMMA MovesAfford ==
  ASSUME Afford(idx), IndexMoves
  PROVE  Afford(idx')
<1>0. MaxBytes \in Nat
  BY DiskCacheAssumption DEF DiskCacheAssumption
<1>1. ASSUME NEW x, Afford(x), NEW k PROVE Afford(Removed(x, k)) /\ Afford(Touch(x, k))
  <2>1. /\ Sound(Removed(x, k)) /\ Removed(x, k).used \in Nat
        /\ x.used \in Nat /\ Removed(x, k).used <= x.used
    BY <1>1, RemovedSound DEF Afford
  <2>2. Sound(Touch(x, k)) /\ Touch(x, k).used = x.used
    BY <1>1, TouchSound DEF Afford
  <2> QED
    BY <1>0, <1>1, <2>1, <2>2 DEF Afford
<1>2. CASE idx' = idx
  BY <1>2
<1>3. CASE idx' = Empty
  BY <1>3, EmptyAfford
<1>4. CASE \E k \in Key : \E x \in Gets(k) \cup {idx} : \E j \in Key : idx' \in {x, Removed(x, j)}
  <2>0. PICK k \in Key : \E x \in Gets(k) \cup {idx} : \E j \in Key : idx' \in {x, Removed(x, j)}
    BY <1>4
  <2>1. PICK x \in Gets(k) \cup {idx} : \E j \in Key : idx' \in {x, Removed(x, j)}
    BY <2>0
  <2>2. Afford(x)
    BY <1>1, <2>1 DEF Gets
  <2>3. \A j : Afford(Removed(x, j))
    BY <1>1, <2>2
  <2> QED
    BY <2>1, <2>2, <2>3
<1>5. CASE \E k \in Key, v \in Entry, c \in Nat :
             idx' = Put(idx, k, v, c, MaxBytes)
  <2>1. PICK k \in Key, v \in Entry, c \in Nat :
          idx' = Put(idx, k, v, c, MaxBytes)
    BY <1>5
  <2> QED
    BY <1>0, <2>1, PutSound DEF Afford
<1> QED
  BY <1>2, <1>3, <1>4, <1>5 DEF IndexMoves

\* insert costs a number.
LEMMA InsertMoves ==
  ASSUME NEW k \in Key, NEW e \in Version, NEW p \in Name, NEW v \in Version,
         insert(k, e, p, v)
  PROVE  IndexMoves
<1>1. Cost[v] \in Nat
  BY DiskCacheAssumption DEF DiskCacheAssumption
<1>2. [etag |-> e, size |-> v, path |-> p] \in Entry
  BY DEF Entry
<1> QED
  BY <1>1, <1>2 DEF IndexMoves, insert, Index

\* Every step moves the index in one of these ways.
LEMMA NextMoves ==
  ASSUME DiskInv, [Next]_vars
  PROVE  IndexMoves
<1>0. \A t \in Thread : st[t] \in Local /\ PhaseOf(t) /\ SeenOf(t) /\ BodyOf(t)
  BY DEF DiskInv, TypeOK, ThreadInv
<1>1. ASSUME NEW t \in Thread, NEW k \in Key, NEW write \in BOOLEAN, OpenFile(t, k, write)
      PROVE  IndexMoves
  BY <1>1 DEF OpenFile, Index, IndexMoves
<1>2. ASSUME NEW t \in Thread, OpenEntry(t) PROVE IndexMoves
  <2>1. st[t].key \in Key
    BY <1>0, <1>2 DEF OpenEntry, PhaseOf
  <2> QED
    BY <1>2, <2>1 DEF OpenEntry, Index, IndexMoves
<1>3. ASSUME NEW t \in Thread, Gone(t) PROVE IndexMoves
  <2>1. st[t].key \in Key
    BY <1>0, <1>3 DEF Gone, PhaseOf
  <2>2. PICK x \in Gets(st[t].key) : idx' \in {x, Removed(x, st[t].key)}
    BY <1>3 DEF Gone, Index
  <2> QED
    BY <2>1, <2>2 DEF IndexMoves
<1>4. ASSUME NEW t \in Thread, Insert(t) PROVE IndexMoves
  <2> DEFINE s == st[t]
  <2>1. s.pc = "insert" /\ insert(s.key, s.etag, s.path, s.ver)
    BY <1>4 DEF Insert
  <2>2. s.key \in Key /\ s.etag \in Version /\ s.path \in Name /\ s.ver \in Version
    BY <1>0, <2>1, DiskCacheAssumption
       DEF PhaseOf, SeenOf, Pathed, Holding, Local, Version, DiskCacheAssumption
  <2> HIDE DEF s
  <2> QED
    BY <2>1, <2>2, InsertMoves
<1>5. ASSUME NEW t \in Thread, Adopt(t) PROVE IndexMoves
  <2> DEFINE s == st[t]
             v == body[s.path]
  <2>1. s.pc = "adopt" /\ insert(s.key, s.etag, s.dst, v)
    BY <1>5 DEF Adopt
  <2>2. s.key \in Key /\ s.etag \in Version /\ s.dst \in Name
    BY <1>0, <2>1, DiskCacheAssumption DEF PhaseOf, Local, Version, DiskCacheAssumption
  <2>3. v = s.etag
    BY <1>0, <2>1 DEF PhaseOf, BodyOf
  <2> HIDE DEF s, v
  <2> QED
    BY <2>1, <2>2, <2>3, InsertMoves
<1>6. ASSUME NEW t \in Thread, CopyInsert(t) PROVE IndexMoves
  <2> DEFINE s == st[t]
  <2>1. s.pc = "copyInsert" /\ insert(s.key, s.etag, s.dst, s.ver)
    BY <1>6 DEF CopyInsert
  <2>2. s.key \in Key /\ s.etag \in Version /\ s.ver \in Version /\ s.dst \in Name
    BY <1>0, <2>1, DiskCacheAssumption DEF PhaseOf, Local, Version, DiskCacheAssumption
  <2> HIDE DEF s
  <2> QED
    BY <2>1, <2>2, InsertMoves
<1>7. ASSUME NEW t \in Thread, FlushDrop(t) \/ Drop(t) PROVE IndexMoves
  <2>1. st[t].key \in Key
    BY <1>0, <1>7 DEF FlushDrop, Drop, PhaseOf
  <2>2. idx' = Removed(idx, st[t].key)
    BY <1>7 DEF FlushDrop, Drop, Index
  <2> QED
    BY <2>1, <2>2 DEF IndexMoves
<1>8. ASSUME NEW t \in Thread, Copied(t) PROVE IndexMoves
  <2>1. st[t].key \in Key /\ st[t].src \in Key
    BY <1>0, <1>8 DEF Copied, PhaseOf
  <2>2. PICK x \in Gets(st[t].src) : idx' \in {x, Removed(x, st[t].key)}
    BY <1>8 DEF Copied, Index
  <2> QED
    BY <2>1, <2>2 DEF IndexMoves
<1>9. CASE Crash
  BY <1>9 DEF Crash, IndexMoves
<1>10. CASE UNCHANGED vars
  BY <1>10 DEF vars, IndexMoves
<1>11. ASSUME NEW t \in Thread, NEW k \in Key, Create(t, k) PROVE IndexMoves
  BY <1>11 DEF Create, IndexMoves
<1>12. ASSUME NEW t \in Thread, NEW k \in Key, NEW v, Mutate(t, k, v) PROVE IndexMoves
  BY <1>12 DEF Mutate, IndexMoves
<1>13. ASSUME NEW t \in Thread, NEW k \in Key, NEW j \in Key, Copy(t, j, k) PROVE IndexMoves
  BY <1>13 DEF Copy, IndexMoves
<1>14. ASSUME NEW t \in Thread,
              HeadObject(t) \/ GetObject(t) \/ FOpen(t) \/ Fetch(t) \/ Fill(t) \/ End(t)
       PROVE  IndexMoves
  BY <1>14 DEF HeadObject, GetObject, FOpen, Fetch, Fill, End, IndexMoves
<1>15. ASSUME NEW t \in Thread,
              \/ Load(t) \/ WriteSpill(t) \/ Flush(t, "syncDrop") \/ Flush(t, "closeDrop")
              \/ Link(t) \/ Destroy(t) \/ CopyLink(t)
       PROVE  IndexMoves
  BY <1>15 DEF Load, WriteSpill, Flush, Link, Destroy, CopyLink, IndexMoves
<1>17. ASSUME NEW t \in Thread, NEW k \in Key, NEW write, NEW v, OpenCached(t, k, write, v)
       PROVE  IndexMoves
  BY <1>17 DEF OpenCached, IndexMoves
<1>16. CASE (\E k \in Key : Foreign(k)) \/ (\E p \in Name : Vanish(p))
  BY <1>16 DEF Foreign, Vanish, IndexMoves
<1> QED
  <2>1. CASE Next
    <3>1. CASE \E t \in Thread, k \in Key :
                 \/ \E write \in BOOLEAN : OpenFile(t, k, write)
                 \/ \E write \in BOOLEAN, v \in Version : OpenCached(t, k, write, v)
                 \/ Create(t, k)
                 \/ \E v \in 0 .. MaxVersion : Mutate(t, k, v)
                 \/ \E j \in Key : Copy(t, j, k)
      BY <3>1, <1>1, <1>11, <1>12, <1>13, <1>17
    <3>2. CASE \E t \in Thread :
                 \/ HeadObject(t) \/ GetObject(t) \/ OpenEntry(t) \/ FOpen(t) \/ Gone(t)
                 \/ Fetch(t) \/ Fill(t) \/ Insert(t) \/ End(t)
      BY <3>2, <1>2, <1>3, <1>4, <1>14
    <3>3. CASE \E t \in Thread :
                 \/ Load(t) \/ WriteSpill(t) \/ Flush(t, "syncDrop") \/ Flush(t, "closeDrop")
                 \/ FlushDrop(t) \/ Link(t) \/ Adopt(t) \/ Destroy(t)
      BY <3>3, <1>5, <1>7, <1>15
    <3>4. CASE \E t \in Thread : Drop(t) \/ Copied(t) \/ CopyLink(t) \/ CopyInsert(t)
      BY <3>4, <1>6, <1>7, <1>8, <1>15
    <3>5. CASE (\E k \in Key : Foreign(k)) \/ (\E p \in Name : Vanish(p)) \/ Crash
      BY <3>5, <1>9, <1>16
    <3> QED
      BY <2>1, <3>1, <3>2, <3>3, <3>4, <3>5 DEF Next
  <2> QED
    BY <1>10, <2>1

\* The index is affordable in every behaviour of the cache.
LEMMA SpecAfford == Spec => []Afford(idx)
<1>1. Init => Afford(idx)
  BY EmptyAfford DEF Init
<1>2. DiskInv /\ Afford(idx) /\ [Next]_vars => Afford(idx)'
  <2> SUFFICES ASSUME DiskInv, Afford(idx), [Next]_vars PROVE Afford(idx')
    BY DEF Afford, Sound, IndexOK, NoTwice, Priced, Sum, Spent, ToSet
  <2> QED
    BY NextMoves, MovesAfford
<1> QED
  BY <1>1, <1>2, SpecDiskInv, PTL DEF Spec

------------------------------------------------------------------------------
(* Theorems.                                                               *)

\* The state of the disk cache is what its declarations say.
THEOREM DiskTypeCorrect == Spec => []TypeOK
<1> QED
  BY SpecDiskInv, DiskInvParts, PTL

\* A cached body is the contents its ETag names: uploads, links, writes to
\* spill files, evictions, cleaners and restarts never leave an entry for
\* another version, if no GET lacks the ETag that the head before it had.
THEOREM EntriesTrue ==
  ASSUME ~UntaggedGet
  PROVE  Spec => []EntriesAreTrue
<1>1. DiskInv => EntriesAreTrue
  BY DiskInvParts
<1> QED
  BY <1>1, SpecDiskInv, PTL

\* What an open serves from a local file is a version the object had during
\* that open, or the one the cached head it was opened by told, for the life
\* of the handle, under the same assumption.
THEOREM OpensServeFresh ==
  ASSUME ~UntaggedGet
  PROVE  Spec => []OpenIsFresh
<1>1. DiskInv => OpenIsFresh
  BY DiskInvParts
<1> QED
  BY <1>1, SpecDiskInv, PTL

\* Every file in a directory that is ready has exactly one owner: none is
\* leaked, none removed twice.
THEOREM FilesHaveOwner == Spec => []FilesAreOwned
<1> QED
  BY SpecDiskInv, DiskInvOwned, PTL

\* used is the sum of the costs of the entries, each in the list once, and
\* never above the budget: not after a replacement, a rejection, an expiry,
\* an eviction or a restart.
THEOREM BudgetHolds == Spec => []BudgetKept
<1>1. Afford(idx) => BudgetKept
  BY SoundWithin DEF Afford, BudgetKept
<1> QED
  BY <1>1, SpecAfford, PTL

==============================================================================
