--------------------------- MODULE DataInduction ---------------------------
(***************************************************************************)
(* Induction and recursion over an interval of the naturals, for sets and  *)
(* functions: the facts that the proofs about replayed logs and decimal    *)
(* strings need of the functions they are defined by.                      *)
(***************************************************************************)
EXTENDS Integers, WellFoundedInduction, TLAPS

\* Every non-empty set of naturals has a least element.
LEMMA LeastElement ==
  ASSUME NEW T, T \subseteq Nat, T # {}
  PROVE  \E m \in T : \A k \in T : m <= k
<1>1. PICK m \in T : \A y \in T : ~ (<<y, m>> \in OpToRel(<, Nat))
  BY WFMin, NatLessThanWellFounded
<1>2. \A y \in T : ~(y < m)
  BY <1>1 DEF OpToRel
<1>. QED BY <1>2

\* Induction up to a bound, for a set.
LEMMA IntervalInduction ==
  ASSUME NEW N \in Nat, NEW S, 0 \in S,
         \A n \in 1..N : n - 1 \in S => n \in S
  PROVE  0..N \subseteq S
<1> SUFFICES ASSUME NEW k \in 0..N, k \notin S
             PROVE  FALSE
  OBVIOUS
<1> DEFINE T == {n \in 0..N : n \notin S}
<1>1. PICK m \in T : \A n \in T : m <= n
  <2>1. T \subseteq Nat /\ T # {}
    OBVIOUS
  <2>. QED BY <2>1, LeastElement
<1>2. m \in 1..N /\ m \notin S
  BY <1>1
<1>3. m - 1 \in S
  BY <1>1, <1>2
<1>. QED BY <1>2, <1>3

StepFunctions(N, V) == [1..N -> [V -> V]]

\* f is what the steps make of the base, up to the bound.
IsRecursive(f, N, V, base, step) ==
  /\ f \in [0..N -> V] /\ f[0] = base
  /\ \A n \in 1..N : f[n] = step[n][f[n - 1]]

\* A function may be defined by recursion up to a bound.
LEMMA Recursion ==
  ASSUME NEW N \in Nat, NEW V, NEW base \in V, NEW step \in StepFunctions(N, V)
  PROVE  \E f : IsRecursive(f, N, V, base, step)
<1> USE DEF StepFunctions, IsRecursive
<1> DEFINE Builds(g, k) == g[0] = base /\ \A n \in 1..k : g[n] = step[n][g[n - 1]]
           S == {k \in 0..N : \E g \in [0..k -> V] : Builds(g, k)}
<1>1. 0 \in S
  <2> DEFINE g == [i \in 0..0 |-> base]
  <2>1. g \in [0..0 -> V] /\ g[0] = base
    OBVIOUS
  <2>2. Builds(g, 0)
    BY <2>1
  <2> HIDE DEF g, Builds
  <2>. QED BY <2>1, <2>2
<1>2. ASSUME NEW k \in 1..N, k - 1 \in S
      PROVE  k \in S
  <2>1. PICK g \in [0..(k - 1) -> V] : Builds(g, k - 1)
    BY <1>2
  <2>2. g[k - 1] \in V /\ step[k] \in [V -> V] /\ step[k][g[k - 1]] \in V
    BY <2>1
  <2> DEFINE h == [i \in 0..k |-> IF i = k THEN step[k][g[k - 1]] ELSE g[i]]
  <2>3. h \in [0..k -> V]
    <3>1. ASSUME NEW i \in 0..k
          PROVE  (IF i = k THEN step[k][g[k - 1]] ELSE g[i]) \in V
      <4>1. CASE i = k
        BY <2>2, <4>1
      <4>2. CASE i # k
        <5>1. i \in 0..(k - 1)
          BY <4>2
        <5>. QED BY <4>2, <5>1
      <4>. QED BY <4>1, <4>2
    <3>. QED BY <3>1
  <2>4. Builds(h, k)
    <3>1. h[0] = base
      BY <2>1
    <3>2. ASSUME NEW n \in 1..k
          PROVE  h[n] = step[n][h[n - 1]]
      <4>1. h[n - 1] = g[n - 1] /\ n - 1 \in 0..(k - 1)
        OBVIOUS
      <4>2. CASE n = k
        BY <4>1, <4>2
      <4>3. CASE n # k
        <5>1. n \in 1..(k - 1)
          BY <4>3
        <5>2. h[n] = g[n] /\ g[n] = step[n][g[n - 1]]
          BY <2>1, <4>3, <5>1
        <5>. QED BY <4>1, <5>2
      <4>. QED BY <4>2, <4>3
    <3>. QED BY <3>1, <3>2
  <2> HIDE DEF h, Builds
  <2>. QED BY <2>3, <2>4
<1>3. 0..N \subseteq S
  <2> HIDE DEF S
  <2>. QED BY <1>1, <1>2, IntervalInduction
<1>4. N \in S
  <2> HIDE DEF S
  <2>. QED BY <1>3
<1>. QED BY <1>4
=============================================================================
