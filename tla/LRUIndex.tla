------------------------------ MODULE LRUIndex ------------------------------
(***************************************************************************)
(* lruIndex (lru.go): a byte budget over the least-recently-used list of   *)
(* groupcache.  An index is a record of the keys from the oldest to the    *)
(* latest used, their values and costs, and the sum that put and eviction  *)
(* maintain.  A value that leaves, or that put rejects, is what onEvict    *)
(* gets: the caller compares the index before and after.                   *)
(***************************************************************************)
EXTENDS Integers, Sequences, SequencesExt, FiniteSetsExt

Empty == [order |-> <<>>, val |-> <<>>, cost |-> <<>>, used |-> 0]

Has(x, k) == k \in DOMAIN x.val

\* The index restricted to the keys of seq, without touching used.
Keep(x, seq) ==
  [x EXCEPT !.order = seq,
            !.val   = [k \in ToSet(seq) |-> x.val[k]],
            !.cost  = [k \in ToSet(seq) |-> x.cost[k]]]

\* The list without key k, which is in it at most once.
Without(seq, k) ==
  LET at == {i \in 1 .. Len(seq) : seq[i] = k} IN
  IF at = {} THEN seq ELSE RemoveAt(seq, Min(at))

\* cache.Get moves the key to the front.
Touch(x, k) ==
  IF Has(x, k) THEN [x EXCEPT !.order = Append(Without(@, k), k)] ELSE x

\* Mutant: the cost of the entry is forgotten.
RemovedFree(x, k) ==
  IF Has(x, k) THEN Keep(x, Without(x.order, k)) ELSE x

\* cache.Remove and OnEvicted.
Removed(x, k) ==
  IF Has(x, k)
  THEN [Keep(x, Without(x.order, k)) EXCEPT !.used = @ - x.cost[k]]
  ELSE x

\* Spent(seq, cost)[i]: what the i oldest keys of the list cost together.
Spent(seq, cost) ==
  LET sum[i \in 0 .. Len(seq)] == IF i = 0 THEN 0 ELSE sum[i - 1] + cost[seq[i]] IN sum

\* RemoveOldest until the budget is kept or nothing is left.
Shrink(x, maxBytes) ==
  LET gone == Spent(x.order, x.cost)
      n == Min({i \in 0 .. Len(x.order) : x.used - gone[i] <= maxBytes \/ i = Len(x.order)})
  IN  [Keep(x, SubSeq(x.order, n + 1, Len(x.order))) EXCEPT !.used = @ - gone[n]]

\* cache.Add.
Add(x, k, v, c) ==
  [order |-> Append(Without(x.order, k), k),
   val   |-> [j \in DOMAIN x.val \cup {k} |-> IF j = k THEN v ELSE x.val[j]],
   cost  |-> [j \in DOMAIN x.val \cup {k} |-> IF j = k THEN c ELSE x.cost[j]],
   used  |-> x.used + c]

\* Mutant: the old entry is not removed first.
PutOver(x, k, v, c, maxBytes) ==
  IF c > maxBytes THEN x ELSE Shrink(Add(x, k, v, c), maxBytes)

\* put: a value that costs more than the budget only removes the old one.
Put(x, k, v, c, maxBytes) ==
  LET y == Removed(x, k) IN
  IF c > maxBytes THEN y ELSE Shrink(Add(y, k, v, c), maxBytes)

\* The list has every entry once, and the sum is theirs and within the budget.
WithinBudget(x, maxBytes) ==
  /\ x.used = Spent(x.order, x.cost)[Len(x.order)]
  /\ x.used <= maxBytes
  /\ ToSet(x.order) = DOMAIN x.val /\ Len(x.order) = Cardinality(DOMAIN x.val)

==============================================================================
