------------------------------ MODULE Induction -----------------------------
(***************************************************************************)
(* Induction over numbers and finite sets and definition by recursion,     *)
(* with sets and functions where the library has operators as parameters.  *)
(***************************************************************************)
EXTENDS Integers, FiniteSets, FiniteSetTheorems, TLAPS

\* A finite set with the empty set, and with every set that is larger by one
\* element than one it has.
LEMMA FiniteInduction ==
  ASSUME NEW S, IsFiniteSet(S), NEW T, {} \in T,
         \A U \in SUBSET S : \A x \in S \ U : U \in T => U \cup {x} \in T
  PROVE  S \in T
<1> DEFINE Bad == {U \in SUBSET S : U \notin T}
           R == StrictSubsetOrdering(S)
<1> SUFFICES ASSUME S \notin T PROVE FALSE
  OBVIOUS
<1>1. IsWellFoundedOn(R, FiniteSubsetsOf(S))
  BY FS_StrictSubsetOrderingWellFounded
<1>2. Bad \subseteq FiniteSubsetsOf(S) /\ Bad # {}
  BY FS_Subset DEF FiniteSubsetsOf
<1>3. PICK U \in Bad : \A V \in Bad : <<V, U>> \notin R
  <2> HIDE DEF Bad, R
  <2> QED
    BY <1>1, <1>2, WFMin
<1>4. PICK x \in U : TRUE
  OBVIOUS
<1>5. <<U \ {x}, U>> \in R
  BY <1>4 DEF StrictSubsetOrdering
<1>6. U \ {x} \in T
  BY <1>3, <1>5
<1>7. (U \ {x}) \cup {x} = U
  BY <1>4
<1> QED
  BY <1>3, <1>4, <1>6, <1>7

\* A set of numbers that is not empty has a least one.
LEMMA Least ==
  ASSUME NEW T, T \subseteq Nat, T # {}
  PROVE  \E m \in T : \A y \in T : m <= y
<1>1. PICK n \in T : TRUE
  OBVIOUS
<1> DEFINE S == 0 .. n
           HasLeast == {U \in SUBSET S :
                          U \cap T = {} \/ \E m \in U \cap T : \A y \in U \cap T : m <= y}
<1>2. IsFiniteSet(S)
  BY FS_Interval
<1>3. {} \in HasLeast
  OBVIOUS
<1>4. ASSUME NEW U \in SUBSET S, NEW x \in S \ U, U \in HasLeast
      PROVE  U \cup {x} \in HasLeast
  <2>1. CASE x \notin T
    <3>1. (U \cup {x}) \cap T = U \cap T
      BY <2>1
    <3> QED
      BY <1>4, <3>1
  <2>2. CASE x \in T /\ U \cap T = {}
    <3>1. (U \cup {x}) \cap T = {x}
      BY <2>2
    <3> QED
      BY <2>2, <3>1
  <2>3. CASE x \in T /\ U \cap T # {}
    <3>1. PICK m \in U \cap T : \A y \in U \cap T : m <= y
      BY <1>4, <2>3
    <3>2. CASE x <= m
      <4>1. \A y \in (U \cup {x}) \cap T : x <= y
        BY <2>3, <3>1, <3>2
      <4> QED
        BY <2>3, <4>1
    <3>3. CASE ~(x <= m)
      <4>1. \A y \in (U \cup {x}) \cap T : m <= y
        BY <2>3, <3>1, <3>3
      <4> QED
        BY <3>1, <4>1
    <3> QED
      BY <3>2, <3>3
  <2> QED
    BY <2>1, <2>2, <2>3
<1>5. S \in HasLeast
  <2> HIDE DEF S, HasLeast
  <2> QED
    BY <1>2, <1>3, <1>4, FiniteInduction
<1>6. PICK m \in S \cap T : \A y \in S \cap T : m <= y
  BY <1>1, <1>5
<1>7. \A y \in T : m <= y
  BY <1>1, <1>6
<1> QED
  BY <1>6, <1>7

\* A set with 0, and with the successor of every number it has, has them all.
LEMMA NumberInduction ==
  ASSUME NEW T, 0 \in T, \A n \in Nat : n \in T => n + 1 \in T
  PROVE  Nat \subseteq T
<1> SUFFICES ASSUME Nat \ T # {} PROVE FALSE
  OBVIOUS
<1>1. PICK m \in Nat \ T : \A y \in Nat \ T : m <= y
  BY Least
<1>2. m # 0 /\ m - 1 \in Nat
  BY <1>1
<1>3. m - 1 \in T
  BY <1>1, <1>2
<1> QED
  BY <1>1, <1>2, <1>3

\* g starts with base and goes on with step up to n.
Starts(g, n, V, base, step) ==
  /\ g \in [0 .. n -> V] /\ g[0] = base
  /\ \A i \in 0 .. n - 1 : g[i + 1] = step[i + 1][g[i]]

\* h starts with base and goes on with step, which stays in V.
Recurses(h, V, base, step) ==
  /\ h \in [Nat -> V] /\ h[0] = base
  /\ \A n \in Nat : h[n + 1] = step[n + 1][h[n]]
StaysIn(V, step) == \A n \in Nat : \A v \in V : step[n][v] \in V

\* There is such a function.
LEMMA Recursion ==
  ASSUME NEW V, NEW base, base \in V, NEW step, StaysIn(V, step)
  PROVE  \E h : Recurses(h, V, base, step)
<1> DEFINE Is(g, n) == Starts(g, n, V, base, step)
           T == {n \in Nat : \E g : Is(g, n)}
           Same == {i \in Nat : \A m, n \in Nat : \A g, h :
                      Is(g, m) /\ Is(h, n) /\ i <= m /\ i <= n => g[i] = h[i]}
<1>1. Nat \subseteq T
  <2>1. 0 \in T
    <3>1. Is([i \in 0 .. 0 |-> base], 0)
      BY DEF Starts
    <3> QED
      BY <3>1
  <2>2. ASSUME NEW n \in Nat, n \in T PROVE n + 1 \in T
    <3>1. PICK g : Is(g, n)
      BY <2>2
    <3> DEFINE f == [i \in 0 .. n + 1 |-> IF i = n + 1 THEN step[n + 1][g[n]] ELSE g[i]]
    <3>2. g[n] \in V /\ step[n + 1][g[n]] \in V
      <4>1. n \in 0 .. n /\ n + 1 \in Nat
        OBVIOUS
      <4>2. g[n] \in V
        BY <3>1, <4>1 DEF Starts
      <4> QED
        BY <4>1, <4>2 DEF StaysIn
    <3>3. f \in [0 .. n + 1 -> V] /\ f[0] = base
      <4>1. \A i \in 0 .. n + 1 : i # n + 1 => i \in 0 .. n
        OBVIOUS
      <4>2. \A i \in 0 .. n + 1 : f[i] \in V
        BY <3>1, <3>2, <4>1 DEF Starts
      <4>3. 0 \in 0 .. n + 1 /\ 0 # n + 1
        OBVIOUS
      <4> QED
        BY <3>1, <4>2, <4>3 DEF Starts
    <3>4. ASSUME NEW i \in 0 .. n + 1 - 1 PROVE f[i + 1] = step[i + 1][f[i]]
      <4>1. CASE i = n
        <5>1. n \in 0 .. n + 1 /\ n + 1 \in 0 .. n + 1 /\ n # n + 1
          OBVIOUS
        <5>2. f[n + 1] = step[n + 1][g[n]] /\ f[n] = g[n]
          BY <5>1
        <5> QED
          BY <4>1, <5>2
      <4>2. CASE i # n
        <5>1. i \in 0 .. n - 1 /\ i + 1 \in 0 .. n + 1 /\ i + 1 # n + 1 /\ i # n + 1
          BY <4>2
        <5>2. f[i + 1] = g[i + 1] /\ f[i] = g[i]
          BY <5>1
        <5>3. g[i + 1] = step[i + 1][g[i]]
          BY <3>1, <5>1 DEF Starts
        <5> HIDE DEF f
        <5> QED
          BY <5>2, <5>3
      <4> QED
        BY <4>1, <4>2
    <3>5. Is(f, n + 1)
      <4> HIDE DEF f
      <4> QED
        BY <3>3, <3>4 DEF Starts
    <3> QED
      BY <3>5
  <2> HIDE DEF T
  <2> QED
    BY <2>1, <2>2, NumberInduction
<1>2. Nat \subseteq Same
  <2>1. 0 \in Same
    BY DEF Starts
  <2>2. ASSUME NEW i \in Nat, i \in Same PROVE i + 1 \in Same
    <3> SUFFICES ASSUME NEW m \in Nat, NEW n \in Nat, NEW g, NEW h,
                        Is(g, m), Is(h, n), i + 1 <= m, i + 1 <= n
                 PROVE  g[i + 1] = h[i + 1]
      OBVIOUS
    <3>1. g[i] = h[i]
      BY <2>2
    <3>2. i \in 0 .. m - 1 /\ i \in 0 .. n - 1
      OBVIOUS
    <3> QED
      BY <3>1, <3>2 DEF Starts
  <2> HIDE DEF Same
  <2> QED
    BY <2>1, <2>2, NumberInduction
<1> DEFINE of(n) == CHOOSE g : Is(g, n)
           h == [n \in Nat |-> of(n)[n]]
<1>3. \A n \in Nat : Is(of(n), n)
  <2> SUFFICES ASSUME NEW n \in Nat PROVE Is(of(n), n)
    OBVIOUS
  <2>1. \E g : Is(g, n)
    BY <1>1
  <2> HIDE DEF Is
  <2> QED
    BY <2>1
<1> HIDE DEF of
<1>4. \A n \in Nat : h[n] = of(n)[n] /\ h[n] \in V
  BY <1>3 DEF Starts
<1>5. h[0] = base
  BY <1>3, <1>4 DEF Starts
<1>6. ASSUME NEW n \in Nat PROVE h[n + 1] = step[n + 1][h[n]]
  <2>1. n + 1 \in Nat /\ Is(of(n + 1), n + 1) /\ Is(of(n), n)
    BY <1>3
  <2>2. of(n + 1)[n + 1] = step[n + 1][of(n + 1)[n]]
    BY <2>1 DEF Starts
  <2>3. of(n + 1)[n] = of(n)[n]
    BY <1>2, <2>1
  <2> QED
    BY <1>4, <2>2, <2>3
<1>7. h \in [Nat -> V]
  BY <1>4
<1> HIDE DEF h
<1> QED
  BY <1>5, <1>6, <1>7 DEF Recurses
==============================================================================
