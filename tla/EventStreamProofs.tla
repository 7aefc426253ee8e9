------------------------- MODULE EventStreamProofs -------------------------
(***************************************************************************)
(* Proofs about EventStream: whatever a reader goes through, it gets the   *)
(* events it may see in order, without gap and without repetition, and the *)
(* tracker's slots are the open streams, for any number of readers,        *)
(* connections and events.                                                 *)
(***************************************************************************)
EXTENDS EventStream, DataInduction, FiniteSetTheorems

-----------------------------------------------------------------------------
(***************************************************************************)
(* Filtering a sequence.                                                   *)
(***************************************************************************)
\* The filter, as it goes along the first k elements.
IsFilter(f, s, S, k) ==
  f = [i \in 0..k |-> IF i = 0 THEN <<>>
                      ELSE IF s[i] \in S THEN Append(f[i - 1], s[i])
                      ELSE f[i - 1]]

\* There is such a filter.
LEMMA FilterExists ==
  ASSUME NEW T, NEW s \in Seq(T), NEW S
  PROVE  \E f : IsFilter(f, s, S, Len(s))
<1> DEFINE V == Seq(T)
           step == [i \in 1..Len(s) |-> [r \in V |-> IF s[i] \in S THEN Append(r, s[i]) ELSE r]]
<1>1. Len(s) \in Nat /\ <<>> \in V
  OBVIOUS
<1>2. \A i \in 1..Len(s), r \in V : (IF s[i] \in S THEN Append(r, s[i]) ELSE r) \in V
  OBVIOUS
<1>3. step \in StepFunctions(Len(s), V)
  <2> HIDE DEF V
  <2>. QED BY <1>2 DEF StepFunctions
<1>4. \A i \in 1..Len(s), r \in V : step[i][r] = IF s[i] \in S THEN Append(r, s[i]) ELSE r
  <2> HIDE DEF V
  <2>. QED OBVIOUS
<1> HIDE DEF step, V
<1>5. PICK f : IsRecursive(f, Len(s), V, <<>>, step)
  BY <1>1, <1>3, Recursion
<1>6. \A i \in 1..Len(s) : f[i] = IF s[i] \in S THEN Append(f[i - 1], s[i]) ELSE f[i - 1]
  <2>1. \A i \in 1..Len(s) : i - 1 \in 0..Len(s)
    BY <1>1
  <2>. QED BY <1>4, <1>5, <2>1 DEF IsRecursive
<1>7. f \in [0..Len(s) -> V] /\ f[0] = <<>>
  BY <1>5 DEF IsRecursive
<1>8. \A i \in 0..Len(s) : f[i] = IF i = 0 THEN <<>>
                                 ELSE IF s[i] \in S THEN Append(f[i - 1], s[i])
                                 ELSE f[i - 1]
  <2>1. \A i \in 0..Len(s) : i = 0 \/ i \in 1..Len(s)
    BY <1>1
  <2>. QED BY <1>6, <1>7, <2>1
<1>9. f = [i \in 0..Len(s) |-> f[i]]
  BY <1>7
<1>10. IsFilter(f, s, S, Len(s))
  BY <1>8, <1>9 DEF IsFilter
<1>. QED BY <1>10

\* f runs the filter over the first N elements.
Runs(f, s, S, N) ==
  /\ f[0] = <<>>
  /\ \A i \in 1..N : f[i] = IF s[i] \in S THEN Append(f[i - 1], s[i]) ELSE f[i - 1]

\* What the filter leaves is what its function has at the end.
LEMMA KeepByFilter ==
  ASSUME NEW T, NEW s \in Seq(T), NEW S
  PROVE  \E f : Keep(s, S) = f[Len(s)] /\ Runs(f, s, S, Len(s))
<1> DEFINE f == CHOOSE g : IsFilter(g, s, S, Len(s))
<1>1. Keep(s, S) = f[Len(s)]
  BY DEF Keep, IsFilter
<1>2. IsFilter(f, s, S, Len(s))
  BY FilterExists
<1> HIDE DEF f
<1>3. Len(s) \in Nat
  OBVIOUS
<1>4. \A i \in 0..Len(s) : f[i] = IF i = 0 THEN <<>>
                                 ELSE IF s[i] \in S THEN Append(f[i - 1], s[i])
                                 ELSE f[i - 1]
  BY <1>2 DEF IsFilter
<1>5. 0 \in 0..Len(s) /\ \A i \in 1..Len(s) : i \in 0..Len(s) /\ i # 0
  BY <1>3
<1>6. Runs(f, s, S, Len(s))
  BY <1>4, <1>5 DEF Runs
<1>. QED BY <1>1, <1>6

\* Nothing is left of nothing.
LEMMA KeepEmpty ==
  ASSUME NEW S
  PROVE  Keep(<<>>, S) = <<>>
<1>1. <<>> \in Seq({}) /\ Len(<<>>) = 0
  OBVIOUS
<1>2. PICK f : Keep(<<>>, S) = f[Len(<<>>)] /\ Runs(f, <<>>, S, Len(<<>>))
  BY <1>1, KeepByFilter
<1>. QED BY <1>1, <1>2 DEF Runs

\* Two filters see the same in the first N elements.
Alike(s, S, t, U, N) == \A i \in 1..N : s[i] = t[i] /\ (s[i] \in S <=> s[i] \in U)

\* Then they leave the same.
LEMMA FiltersAgree ==
  ASSUME NEW N \in Nat, NEW s, NEW t, NEW S, NEW U, NEW f, NEW g,
         Runs(f, s, S, N), Runs(g, t, U, N), Alike(s, S, t, U, N)
  PROVE  f[N] = g[N]
<1> DEFINE I == {k \in 0..N : f[k] = g[k]}
<1>1. 0 \in I
  BY DEF Runs
<1>2. ASSUME NEW k \in 1..N, k - 1 \in I
      PROVE  k \in I
  <2>1. f[k - 1] = g[k - 1]
    BY <1>2
  <2>. QED BY <2>1 DEF Runs, Alike
<1> HIDE DEF I
<1>3. 0..N \subseteq I
  BY <1>1, <1>2, IntervalInduction
<1>. QED BY <1>3 DEF I

\* The filter depends on what it keeps of the elements only.
LEMMA KeepSame ==
  ASSUME NEW T, NEW s \in Seq(T), NEW S, NEW U,
         \A i \in 1..Len(s) : s[i] \in S <=> s[i] \in U
  PROVE  Keep(s, S) = Keep(s, U)
<1>1. PICK f : Keep(s, S) = f[Len(s)] /\ Runs(f, s, S, Len(s))
  BY KeepByFilter
<1>2. PICK g : Keep(s, U) = g[Len(s)] /\ Runs(g, s, U, Len(s))
  BY KeepByFilter
<1>3. Len(s) \in Nat /\ Alike(s, S, s, U, Len(s))
  BY DEF Alike
<1>4. f[Len(s)] = g[Len(s)]
  BY <1>1, <1>2, <1>3, FiltersAgree
<1>. QED BY <1>1, <1>2, <1>4

\* One element more.
LEMMA KeepAppend ==
  ASSUME NEW T, NEW s \in Seq(T), NEW x \in T, NEW S
  PROVE  Keep(Append(s, x), S) = IF x \in S THEN Append(Keep(s, S), x) ELSE Keep(s, S)
<1> DEFINE t == Append(s, x)
<1>1. /\ t \in Seq(T) /\ Len(t) = Len(s) + 1 /\ Len(s) \in Nat
      /\ t[Len(s) + 1] = x /\ \A i \in 1..Len(s) : t[i] = s[i]
  OBVIOUS
<1> HIDE DEF t
<1>2. PICK f : Keep(s, S) = f[Len(s)] /\ Runs(f, s, S, Len(s))
  BY KeepByFilter
<1>3. PICK g : Keep(t, S) = g[Len(t)] /\ Runs(g, t, S, Len(t))
  BY <1>1, KeepByFilter
<1>4. Runs(g, t, S, Len(s)) /\ Alike(s, S, t, S, Len(s))
  BY <1>1, <1>3 DEF Runs, Alike
<1>5. f[Len(s)] = g[Len(s)]
  BY <1>1, <1>2, <1>4, FiltersAgree
<1>6. g[Len(s) + 1] = IF x \in S THEN Append(g[Len(s)], x) ELSE g[Len(s)]
  BY <1>1, <1>3 DEF Runs
<1>. QED BY <1>1, <1>2, <1>3, <1>5, <1>6 DEF t

\* What holds of the empty sequence and is kept by appending holds of every
\* sequence.
LEMMA AppendInduction ==
  ASSUME NEW T, NEW P, <<>> \in P,
         \A s \in Seq(T), x \in T : s \in P => Append(s, x) \in P
  PROVE  Seq(T) \subseteq P
<1> SUFFICES ASSUME NEW s \in Seq(T)
             PROVE  s \in P
  OBVIOUS
<1> DEFINE I == {k \in 0..Len(s) : SubSeq(s, 1, k) \in P}
<1>1. Len(s) \in Nat /\ SubSeq(s, 1, 0) = <<>> /\ SubSeq(s, 1, Len(s)) = s
  OBVIOUS
<1>2. 0 \in I
  <2>1. SubSeq(s, 1, 0) \in P
    BY <1>1
  <2>2. 0 \in 0..Len(s)
    BY <1>1
  <2>. QED BY <2>1, <2>2
<1>3. ASSUME NEW k \in 1..Len(s), k - 1 \in I
      PROVE  k \in I
  <2>1. SubSeq(s, 1, k - 1) \in Seq(T) /\ s[k] \in T
    OBVIOUS
  <2>2. SubSeq(s, 1, k) = Append(SubSeq(s, 1, k - 1), s[k])
    OBVIOUS
  <2>3. SubSeq(s, 1, k - 1) \in P
    BY <1>3
  <2>4. SubSeq(s, 1, k) \in P
    BY <2>1, <2>2, <2>3
  <2>5. k \in 0..Len(s)
    BY <1>1
  <2>. QED BY <2>4, <2>5
<1> HIDE DEF I
<1>4. 0..Len(s) \subseteq I
  BY <1>1, <1>2, <1>3, IntervalInduction
<1>5. Len(s) \in I
  BY <1>1, <1>4
<1>. QED BY <1>1, <1>5 DEF I

\* No element occurs twice.
Once(s) == \A i, j \in DOMAIN s : s[i] = s[j] => i = j

\* What the filter leaves: the elements that are in S, each as often as before.
LEMMA KeepType ==
  ASSUME NEW T, NEW s \in Seq(T), NEW S
  PROVE  Keep(s, S) \in Seq(T)
<1> DEFINE P == {q \in Seq(T) : Keep(q, S) \in Seq(T)}
<1>1. <<>> \in P
  <2>1. <<>> \in Seq(T)
    OBVIOUS
  <2>2. Keep(<<>>, S) = <<>>
    BY KeepEmpty
  <2>. QED BY <2>1, <2>2
<1>2. ASSUME NEW q \in Seq(T), NEW x \in T, q \in P
      PROVE  Append(q, x) \in P
  <2>1. Keep(q, S) \in Seq(T)
    BY <1>2
  <2>2. Append(q, x) \in Seq(T) /\ Append(Keep(q, S), x) \in Seq(T)
    BY <2>1
  <2>3. Keep(Append(q, x), S) = IF x \in S THEN Append(Keep(q, S), x) ELSE Keep(q, S)
    BY KeepAppend
  <2>4. Keep(Append(q, x), S) \in Seq(T)
    BY <2>1, <2>2, <2>3
  <2>. QED BY <2>2, <2>4
<1> HIDE DEF P
<1>3. Seq(T) \subseteq P
  BY <1>1, <1>2, AppendInduction
<1>. QED BY <1>3 DEF P

\* Appending adds the element.
LEMMA AppendSet ==
  ASSUME NEW T, NEW s \in Seq(T), NEW x
  PROVE  ToSet(Append(s, x)) = ToSet(s) \cup {x}
<1>1. Len(s) \in Nat /\ DOMAIN s = 1..Len(s) /\ DOMAIN Append(s, x) = 1..(Len(s) + 1)
  OBVIOUS
<1>2. Append(s, x)[Len(s) + 1] = x /\ \A i \in 1..Len(s) : Append(s, x)[i] = s[i]
  OBVIOUS
<1>3. \A i \in 1..(Len(s) + 1) : i = Len(s) + 1 \/ i \in 1..Len(s)
  BY <1>1
<1>4. Len(s) + 1 \in 1..(Len(s) + 1) /\ \A i \in 1..Len(s) : i \in 1..(Len(s) + 1)
  BY <1>1
<1>. QED BY <1>1, <1>2, <1>3, <1>4 DEF ToSet

LEMMA KeepSet ==
  ASSUME NEW T, NEW s \in Seq(T), NEW S
  PROVE  ToSet(Keep(s, S)) = ToSet(s) \cap S
<1> DEFINE P == {q \in Seq(T) : ToSet(Keep(q, S)) = ToSet(q) \cap S}
<1>1. <<>> \in P
  <2>1. ToSet(<<>>) = {}
    BY DEF ToSet
  <2>. QED BY <2>1, KeepEmpty
<1>2. ASSUME NEW q \in Seq(T), NEW x \in T, q \in P
      PROVE  Append(q, x) \in P
  <2>1. ToSet(Keep(q, S)) = ToSet(q) \cap S
    BY <1>2
  <2>2. Keep(q, S) \in Seq(T)
    BY KeepType
  <2>3. /\ ToSet(Append(q, x)) = ToSet(q) \cup {x}
        /\ ToSet(Append(Keep(q, S), x)) = ToSet(Keep(q, S)) \cup {x}
    BY <2>2, AppendSet
  <2>4. Keep(Append(q, x), S) = IF x \in S THEN Append(Keep(q, S), x) ELSE Keep(q, S)
    BY KeepAppend
  <2>5. ToSet(Keep(Append(q, x), S)) = ToSet(Append(q, x)) \cap S
    <3>1. CASE x \in S
      BY <2>1, <2>3, <2>4, <3>1
    <3>2. CASE x \notin S
      BY <2>1, <2>3, <2>4, <3>2
    <3>. QED BY <3>1, <3>2
  <2>6. Append(q, x) \in Seq(T)
    OBVIOUS
  <2>. QED BY <2>5, <2>6
<1> HIDE DEF P
<1>3. Seq(T) \subseteq P
  BY <1>1, <1>2, AppendInduction
<1>. QED BY <1>3 DEF P

\* A new element may be appended.
LEMMA AppendOnce ==
  ASSUME NEW T, NEW s \in Seq(T), NEW x
  PROVE  Once(Append(s, x)) <=> Once(s) /\ x \notin ToSet(s)
<1>1. Len(s) \in Nat /\ DOMAIN s = 1..Len(s) /\ DOMAIN Append(s, x) = 1..(Len(s) + 1)
  OBVIOUS
<1>2. Append(s, x)[Len(s) + 1] = x /\ \A i \in 1..Len(s) : Append(s, x)[i] = s[i]
  OBVIOUS
<1>3. \A i \in 1..(Len(s) + 1) : i = Len(s) + 1 \/ i \in 1..Len(s)
  BY <1>1
<1>4. Len(s) + 1 \in 1..(Len(s) + 1) /\ \A i \in 1..Len(s) : i \in 1..(Len(s) + 1) /\ i # Len(s) + 1
  BY <1>1
<1>. QED BY <1>1, <1>2, <1>3, <1>4 DEF ToSet, Once

LEMMA KeepOnce ==
  ASSUME NEW T, NEW s \in Seq(T), NEW S, Once(s)
  PROVE  Once(Keep(s, S))
<1> DEFINE P == {q \in Seq(T) : Once(q) => Once(Keep(q, S))}
<1>1. <<>> \in P
  BY KeepEmpty
<1>2. ASSUME NEW q \in Seq(T), NEW x \in T, q \in P
      PROVE  Append(q, x) \in P
  <2>1. Keep(q, S) \in Seq(T) /\ ToSet(Keep(q, S)) = ToSet(q) \cap S
    BY KeepType, KeepSet
  <2>2. ASSUME Once(Append(q, x)) PROVE Once(Keep(Append(q, x), S))
    <3>1. Once(q) /\ x \notin ToSet(q)
      BY <2>2, AppendOnce
    <3>2. Once(Keep(q, S)) /\ x \notin ToSet(Keep(q, S))
      BY <1>2, <2>1, <3>1
    <3>3. Once(Append(Keep(q, S), x))
      BY <2>1, <3>2, AppendOnce
    <3>. QED BY <3>2, <3>3, KeepAppend
  <2>. QED BY <2>2
<1> HIDE DEF P
<1>3. Seq(T) \subseteq P
  BY <1>1, <1>2, AppendInduction
<1>. QED BY <1>3 DEF P

\* The filter of a concatenation.
LEMMA KeepConcat ==
  ASSUME NEW T, NEW s \in Seq(T), NEW t \in Seq(T), NEW S
  PROVE  Keep(s \o t, S) = Keep(s, S) \o Keep(t, S)
<1> DEFINE P == {q \in Seq(T) : Keep(s \o q, S) = Keep(s, S) \o Keep(q, S)}
<1>0. Keep(s, S) \in Seq(T)
  BY KeepType
<1>1. <<>> \in P
  <2>1. s \o <<>> = s /\ Keep(s, S) \o <<>> = Keep(s, S) /\ <<>> \in Seq(T)
    BY <1>0
  <2>. QED BY <2>1, KeepEmpty
<1>2. ASSUME NEW q \in Seq(T), NEW x \in T, q \in P
      PROVE  Append(q, x) \in P
  <2>1. Keep(q, S) \in Seq(T) /\ s \o q \in Seq(T) /\ Append(q, x) \in Seq(T)
    BY KeepType
  <2>2. /\ s \o Append(q, x) = Append(s \o q, x)
        /\ Keep(s, S) \o Append(Keep(q, S), x) = Append(Keep(s, S) \o Keep(q, S), x)
    BY <1>0, <2>1
  <2>3. Keep(s \o q, S) = Keep(s, S) \o Keep(q, S)
    BY <1>2
  <2>4. Keep(Append(q, x), S) = IF x \in S THEN Append(Keep(q, S), x) ELSE Keep(q, S)
    BY KeepAppend
  <2>5. Keep(Append(s \o q, x), S) = IF x \in S THEN Append(Keep(s \o q, S), x) ELSE Keep(s \o q, S)
    BY <2>1, KeepAppend
  <2>6. Keep(s \o Append(q, x), S) = Keep(s, S) \o Keep(Append(q, x), S)
    <3>1. CASE x \in S
      BY <2>2, <2>3, <2>4, <2>5, <3>1
    <3>2. CASE x \notin S
      BY <2>2, <2>3, <2>4, <2>5, <3>2
    <3>. QED BY <3>1, <3>2
  <2>. QED BY <2>1, <2>6
<1> HIDE DEF P
<1>3. Seq(T) \subseteq P
  BY <1>1, <1>2, AppendInduction
<1>. QED BY <1>3 DEF P

-----------------------------------------------------------------------------
(***************************************************************************)
(* The numbers up to n that are in S, in order: what a reader may see.     *)
(***************************************************************************)
Ids(S, n) == Keep([i \in 1..n |-> i], S)

\* The numbers up to n, one by one.
LEMMA UpTo ==
  ASSUME NEW n \in Nat
  PROVE  /\ [i \in 1..n |-> i] \in Seq(Nat) /\ Len([i \in 1..n |-> i]) = n
         /\ [i \in 1..(n + 1) |-> i] = Append([i \in 1..n |-> i], n + 1)
         /\ [i \in 1..0 |-> i] = <<>>
<1>1. [i \in 1..n |-> i] \in Seq(Nat) /\ Len([i \in 1..n |-> i]) = n
  OBVIOUS
<1>2. [i \in 1..0 |-> i] = <<>>
  OBVIOUS
<1>3. [i \in 1..(n + 1) |-> i] = Append([i \in 1..n |-> i], n + 1)
  OBVIOUS
<1>. QED BY <1>1, <1>2, <1>3

LEMMA IdsZero ==
  ASSUME NEW S
  PROVE  Ids(S, 0) = <<>>
<1>1. [i \in 1..0 |-> i] = <<>>
  BY UpTo
<1>. QED BY <1>1, KeepEmpty DEF Ids

LEMMA IdsNext ==
  ASSUME NEW S, NEW n \in Nat
  PROVE  Ids(S, n + 1) = IF n + 1 \in S THEN Append(Ids(S, n), n + 1) ELSE Ids(S, n)
<1> DEFINE s == [i \in 1..n |-> i]
<1>1. s \in Seq(Nat) /\ [i \in 1..(n + 1) |-> i] = Append(s, n + 1) /\ n + 1 \in Nat
  BY UpTo
<1>2. Ids(S, n) = Keep(s, S) /\ Ids(S, n + 1) = Keep([i \in 1..(n + 1) |-> i], S)
  BY DEF Ids
<1> HIDE DEF s
<1>3. Ids(S, n + 1) = Keep(Append(s, n + 1), S)
  BY <1>1, <1>2
<1>4. Keep(Append(s, n + 1), S) = IF n + 1 \in S THEN Append(Keep(s, S), n + 1) ELSE Keep(s, S)
  BY <1>1, KeepAppend
<1>. QED BY <1>2, <1>3, <1>4

LEMMA IdsType ==
  ASSUME NEW S, NEW n \in Nat
  PROVE  Ids(S, n) \in Seq(Nat) /\ ToSet(Ids(S, n)) = (1..n) \cap S
<1> DEFINE s == [i \in 1..n |-> i]
<1>1. s \in Seq(Nat)
  BY UpTo
<1>2. ToSet(s) = 1..n
  BY DEF ToSet
<1>3. Ids(S, n) = Keep(s, S)
  BY DEF Ids
<1> HIDE DEF s
<1>. QED BY <1>1, <1>2, <1>3, KeepType, KeepSet

LEMMA IdsSame ==
  ASSUME NEW S, NEW U, NEW n \in Nat, \A i \in 1..n : i \in S <=> i \in U
  PROVE  Ids(S, n) = Ids(U, n)
<1> DEFINE s == [i \in 1..n |-> i]
<1>1. s \in Seq(Nat) /\ Len(s) = n
  BY UpTo
<1>2. \A i \in 1..Len(s) : s[i] \in S <=> s[i] \in U
  BY <1>1
<1>3. Ids(S, n) = Keep(s, S) /\ Ids(U, n) = Keep(s, U)
  BY DEF Ids
<1> HIDE DEF s
<1>. QED BY <1>1, <1>2, <1>3, KeepSame

\* A sequence without elements is empty.
LEMMA EmptySet ==
  ASSUME NEW T, NEW s \in Seq(T)
  PROVE  ToSet(s) = {} <=> s = <<>>
<1>1. Len(s) \in Nat /\ DOMAIN s = 1..Len(s)
  OBVIOUS
<1>2. ASSUME s # <<>> PROVE s[1] \in ToSet(s)
  <2>1. Len(s) # 0
    BY <1>2
  <2>2. 1 \in DOMAIN s
    BY <1>1, <2>1
  <2>. QED BY <2>2 DEF ToSet
<1>3. ToSet(<<>>) = {}
  BY DEF ToSet
<1>. QED BY <1>2, <1>3

\* Two sequences with the same elements are the same.
LEMMA SameSeq ==
  ASSUME NEW T, NEW s \in Seq(T), NEW t \in Seq(T), Len(s) = Len(t),
         \A i \in 1..Len(s) : s[i] = t[i]
  PROVE  s = t
<1>1. DOMAIN s = 1..Len(s) /\ DOMAIN t = 1..Len(s)
  OBVIOUS
<1>2. s = [i \in 1..Len(s) |-> s[i]] /\ t = [i \in 1..Len(s) |-> t[i]]
  BY <1>1
<1>. QED BY <1>2

\* What is appended comes last in a concatenation.
LEMMA ConcatAppend ==
  ASSUME NEW T, NEW s \in Seq(T), NEW t \in Seq(T), NEW x \in T
  PROVE  s \o Append(t, x) = Append(s \o t, x)
OBVIOUS

\* Appending can be undone.
LEMMA AppendInjective ==
  ASSUME NEW T, NEW s \in Seq(T), NEW t \in Seq(T), NEW x \in T, NEW y \in T,
         Append(s, x) = Append(t, y)
  PROVE  s = t
<1>1. /\ Len(Append(s, x)) = Len(s) + 1 /\ Len(s) \in Nat
      /\ \A i \in 1..Len(s) : Append(s, x)[i] = s[i]
  OBVIOUS
<1>2. /\ Len(Append(t, y)) = Len(t) + 1 /\ Len(t) \in Nat
      /\ \A i \in 1..Len(t) : Append(t, y)[i] = t[i]
  OBVIOUS
<1>3. Len(s) = Len(t)
  BY <1>1, <1>2
<1>4. \A i \in 1..Len(s) : s[i] = t[i]
  BY <1>1, <1>2, <1>3
<1>. QED BY <1>3, <1>4, SameSeq

\* The part up to c and the part after it.
LEMMA IdsSplit ==
  ASSUME NEW S, NEW n \in Nat, NEW c \in 0..n
  PROVE  Ids(S, c) \o Ids({i \in S : i > c}, n) = Ids(S, n)
<1> DEFINE U == {i \in S : i > c}
           P == {k \in 0..n : c <= k => Ids(S, c) \o Ids(U, k) = Ids(S, k)}
<1>0. Ids(S, c) \in Seq(Nat) /\ Ids(S, c) \o <<>> = Ids(S, c)
  BY IdsType
<1>1. Ids(U, c) = <<>>
  <2>1. Ids(U, c) \in Seq(Nat) /\ ToSet(Ids(U, c)) = {}
    BY IdsType
  <2> HIDE DEF U
  <2>. QED BY <2>1, EmptySet
<1>2. \A i \in c + 1..n : i \in U <=> i \in S
  OBVIOUS
<1> HIDE DEF U
<1>3. 0 \in P
  BY <1>0, <1>1
<1>4. ASSUME NEW k \in 1..n, k - 1 \in P
      PROVE  k \in P
  <2>1. CASE c = k
    BY <1>0, <1>1, <2>1
  <2>2. CASE c < k
    <3>1. c <= k - 1 /\ k - 1 \in Nat /\ k = (k - 1) + 1 /\ (k \in U <=> k \in S)
      BY <1>2, <2>2
    <3>2. Ids(S, c) \o Ids(U, k - 1) = Ids(S, k - 1)
      BY <1>4, <3>1
    <3>3. Ids(U, k) = IF k \in U THEN Append(Ids(U, k - 1), k) ELSE Ids(U, k - 1)
      BY <3>1, IdsNext
    <3>4. Ids(S, k) = IF k \in S THEN Append(Ids(S, k - 1), k) ELSE Ids(S, k - 1)
      BY <3>1, IdsNext
    <3>5. Ids(U, k - 1) \in Seq(Nat)
      BY <3>1, IdsType
    <3>6. Ids(S, c) \o Append(Ids(U, k - 1), k) = Append(Ids(S, c) \o Ids(U, k - 1), k)
      BY <1>0, <3>5
    <3>7. Ids(S, c) \o Ids(U, k) = Ids(S, k)
      BY <3>1, <3>2, <3>3, <3>4, <3>6
    <3>. QED BY <3>7
  <2>3. CASE c > k
    BY <2>3
  <2>. QED BY <2>1, <2>2, <2>3
<1> HIDE DEF P
<1>5. 0..n \subseteq P
  BY <1>3, <1>4, IntervalInduction
<1>6. n \in P
  BY <1>5
<1>. QED BY <1>6 DEF P, U

\* The last of them tells where they stop.
LEMMA IdsLast ==
  ASSUME NEW S, NEW n \in Nat, Ids(S, n) # <<>>
  PROVE  Last(Ids(S, n)) \in 1..n /\ Ids(S, n) = Ids(S, Last(Ids(S, n)))
<1> DEFINE Fine(k) == Ids(S, k) # <<>> =>
                        Last(Ids(S, k)) \in 1..k /\ Ids(S, k) = Ids(S, Last(Ids(S, k)))
           P == {k \in 0..n : Fine(k)}
<1>1. 0 \in P
  BY IdsZero
<1>2. ASSUME NEW k \in 1..n, k - 1 \in P
      PROVE  k \in P
  <2>1. k - 1 \in Nat /\ k = (k - 1) + 1
    OBVIOUS
  <2>2. Ids(S, k) = IF k \in S THEN Append(Ids(S, k - 1), k) ELSE Ids(S, k - 1)
    BY <2>1, IdsNext
  <2>3. Ids(S, k - 1) \in Seq(Nat)
    BY <2>1, IdsType
  <2>4. CASE k \in S
    <3>1. Ids(S, k) = Append(Ids(S, k - 1), k)
      BY <2>2, <2>4
    <3>2. Last(Ids(S, k)) = k
      BY <2>3, <3>1 DEF Last
    <3>. QED BY <3>2
  <2>5. CASE k \notin S
    <3>1. Ids(S, k) = Ids(S, k - 1)
      BY <2>2, <2>5
    <3>2. Fine(k - 1)
      BY <1>2
    <3>. QED BY <3>1, <3>2
  <2>. QED BY <2>4, <2>5
<1>3. 0..n \subseteq P
  <2> HIDE DEF P
  <2>. QED BY <1>1, <1>2, IntervalInduction
<1>4. n \in P
  <2> HIDE DEF P
  <2>. QED BY <1>3
<1>. QED BY <1>4

\* What is not empty ends with its last element.
LEMMA FrontLast ==
  ASSUME NEW T, NEW s \in Seq(T), s # <<>>
  PROVE  \E z \in Seq(T), l \in T : s = Append(z, l)
<1>1. Len(s) \in Nat /\ Len(s) # 0
  OBVIOUS
<1>2. SubSeq(s, 1, Len(s) - 1) \in Seq(T) /\ s[Len(s)] \in T
  BY <1>1
<1>3. s = Append(SubSeq(s, 1, Len(s) - 1), s[Len(s)])
  BY <1>1
<1>. QED BY <1>2, <1>3

\* An initial part of them is all of them up to some number.
PartsAreIds(S, n) ==
  \A x, y \in Seq(Nat) : x \o y = Ids(S, n) => \E k \in 0..n : x = Ids(S, k)

LEMMA PartsOfNone ==
  ASSUME NEW S
  PROVE  PartsAreIds(S, 0)
<1> SUFFICES ASSUME NEW x \in Seq(Nat), NEW y \in Seq(Nat), x \o y = Ids(S, 0)
             PROVE  \E k \in 0..0 : x = Ids(S, k)
  BY DEF PartsAreIds
<1>1. x \o y = <<>> /\ Ids(S, 0) = <<>>
  BY IdsZero
<1>2. x = <<>>
  BY <1>1
<1>3. x = Ids(S, 0) /\ 0 \in 0..0
  BY <1>1, <1>2
<1>. QED BY <1>3

LEMMA PartsOfNext ==
  ASSUME NEW S, NEW n \in Nat, PartsAreIds(S, n)
  PROVE  PartsAreIds(S, n + 1)
<1>1. Ids(S, n + 1) = IF n + 1 \in S THEN Append(Ids(S, n), n + 1) ELSE Ids(S, n)
  BY IdsNext
<1>2. Ids(S, n) \in Seq(Nat)
  BY IdsType
<1>3. ASSUME NEW x \in Seq(Nat), NEW y \in Seq(Nat), x \o y = Ids(S, n + 1)
      PROVE  \E k \in 0..(n + 1) : x = Ids(S, k)
  <2>1. CASE y = <<>>
    <3>1. x \o <<>> = x
      OBVIOUS
    <3>2. x = Ids(S, n + 1) /\ n + 1 \in 0..(n + 1)
      BY <1>3, <2>1, <3>1
    <3>. QED BY <3>2
  <2>2. ASSUME NEW z \in Seq(Nat), x \o z = Ids(S, n)
        PROVE  \E k \in 0..(n + 1) : x = Ids(S, k)
    <3>1. PICK k \in 0..n : x = Ids(S, k)
      BY <2>2 DEF PartsAreIds
    <3>2. k \in 0..(n + 1)
      OBVIOUS
    <3>. QED BY <3>1, <3>2
  <2>3. CASE y # <<>> /\ n + 1 \in S
    <3>1. PICK z \in Seq(Nat), l \in Nat : y = Append(z, l)
      BY <2>3, FrontLast
    <3>2. x \o Append(z, l) = Append(x \o z, l)
      BY ConcatAppend
    <3>3. Append(x \o z, l) = Append(Ids(S, n), n + 1)
      BY <1>1, <1>3, <2>3, <3>1, <3>2
    <3>4. x \o z \in Seq(Nat) /\ n + 1 \in Nat
      OBVIOUS
    <3>5. x \o z = Ids(S, n)
      <4> DEFINE p == x \o z
                 q == Ids(S, n)
                 m == n + 1
      <4>1. p \in Seq(Nat) /\ q \in Seq(Nat) /\ m \in Nat /\ Append(p, l) = Append(q, m)
        BY <1>2, <3>3, <3>4
      <4> HIDE DEF p, q, m
      <4>2. p = q
        BY <4>1, AppendInjective
      <4>. QED BY <4>2 DEF p, q
    <3>. QED BY <2>2, <3>5
  <2>4. CASE n + 1 \notin S
    <3>1. x \o y = Ids(S, n)
      BY <1>1, <1>3, <2>4
    <3>. QED BY <2>2, <3>1
  <2>. QED BY <2>1, <2>3, <2>4
<1>. QED BY <1>3 DEF PartsAreIds

LEMMA IdsInitial ==
  ASSUME NEW S, NEW n \in Nat
  PROVE  PartsAreIds(S, n)
<1> DEFINE P == {m \in 0..n : PartsAreIds(S, m)}
<1>1. 0 \in P
  BY PartsOfNone
<1>2. ASSUME NEW m \in 1..n, m - 1 \in P
      PROVE  m \in P
  <2>1. m - 1 \in Nat /\ m = (m - 1) + 1 /\ PartsAreIds(S, m - 1)
    BY <1>2
  <2>2. PartsAreIds(S, (m - 1) + 1)
    BY <2>1, PartsOfNext
  <2>. QED BY <2>1, <2>2
<1>3. 0..n \subseteq P
  <2> HIDE DEF P
  <2>. QED BY <1>1, <1>2, IntervalInduction
<1>4. n \in P
  <2> HIDE DEF P
  <2>. QED BY <1>3
<1>. QED BY <1>4

-----------------------------------------------------------------------------
(***************************************************************************)
(* What a reader was sent, as a fact about a log, a state, the sequence it *)
(* received and what is on the wire, and how the steps change it.          *)
(***************************************************************************)
SeenSet(lg, did) == {i \in 1..Len(lg) : IsEventVisibleTo(lg[i], did)}

InitialPart(lg, did, sent) == \E n \in 0..Len(lg) : sent = Ids(SeenSet(lg, did), n)

Outcome(lg, did, sent) ==
  \A j \in DOMAIN lg :
    IsEventVisibleTo(lg[j], did) /\ lg[j].type # "SETTLEMENT_CONFIRMED" => j \in ToSet(sent)

OnlyLast(w) == \A i \in DOMAIN w : w[i] = TerminalMessage => i = Len(w)

\* The stream of did is in order: it received rc, w is on its way, o tells
\* whether it is open.
Good(lg, st, did, rc, w, o) ==
  /\ InitialPart(lg, did, rc \o Keep(w, Nat))
  /\ o => rc \o Keep(w, Nat) = Ids(SeenSet(lg, did), Len(lg))
  /\ TerminalMessage \in ToSet(w) =>
       /\ ~o /\ st \in TerminalStates
       /\ OnlyLast(w)
       /\ Outcome(lg, did, rc \o Keep(w, Nat))

Logged == [type : EventTypes, seller : Sellers \cup {None}]

Wires == Seq(Nat \cup {TerminalMessage, EvictedMessage})

LEMMA MessagesAreNoEvents ==
  /\ TerminalMessage \notin Nat /\ EvictedMessage \notin Nat /\ LimitMessage \notin Nat
  /\ TerminalMessage # EvictedMessage /\ LimitMessage # TerminalMessage /\ LimitMessage # EvictedMessage
BY StreamAssumption

LEMMA WireEvents ==
  ASSUME NEW w \in Wires
  PROVE  Keep(w, Nat) \in Seq(Nat)
<1> DEFINE T == Nat \cup {TerminalMessage, EvictedMessage}
<1>1. w \in Seq(T)
  BY DEF Wires
<1> HIDE DEF T
<1>2. Keep(w, Nat) \in Seq(T) /\ ToSet(Keep(w, Nat)) = ToSet(w) \cap Nat
  BY <1>1, KeepType, KeepSet
<1> DEFINE q == Keep(w, Nat)
<1>3. q \in Seq(T) /\ ToSet(q) \subseteq Nat
  BY <1>2
<1> HIDE DEF q
<1>4. \A i \in 1..Len(q) : q[i] \in Nat
  BY <1>3 DEF ToSet
<1>5. q \in Seq(Nat)
  BY <1>3, <1>4
<1>. QED BY <1>5 DEF q

\* The filter of a sequence of one element.
LEMMA KeepOne ==
  ASSUME NEW T, NEW x \in T, NEW S
  PROVE  Keep(<<x>>, S) = IF x \in S THEN <<x>> ELSE <<>>
<1>1. <<>> \in Seq(T) /\ Append(<<>>, x) = <<x>>
  OBVIOUS
<1>2. Keep(Append(<<>>, x), S) = IF x \in S THEN Append(Keep(<<>>, S), x) ELSE Keep(<<>>, S)
  BY <1>1, KeepAppend
<1>3. Keep(<<>>, S) = <<>>
  BY KeepEmpty
<1>. QED BY <1>1, <1>2, <1>3

\* A new event does not change what was visible before it.
LEMMA SeenBefore ==
  ASSUME NEW lg \in Seq(Logged), NEW e \in Logged, NEW did
  PROVE  /\ \A n \in 0..Len(lg) : Ids(SeenSet(Append(lg, e), did), n) = Ids(SeenSet(lg, did), n)
         /\ Ids(SeenSet(Append(lg, e), did), Len(lg) + 1) =
              IF IsEventVisibleTo(e, did) THEN Append(Ids(SeenSet(lg, did), Len(lg)), Len(lg) + 1)
              ELSE Ids(SeenSet(lg, did), Len(lg))
<1> DEFINE S == SeenSet(lg, did)
           U == SeenSet(Append(lg, e), did)
<1>1. /\ Len(lg) \in Nat /\ Len(Append(lg, e)) = Len(lg) + 1
      /\ Append(lg, e)[Len(lg) + 1] = e /\ \A i \in 1..Len(lg) : Append(lg, e)[i] = lg[i]
  OBVIOUS
<1>2. \A i \in 1..Len(lg) : i \in S <=> i \in U
  BY <1>1 DEF SeenSet
<1>3. Len(lg) + 1 \in U <=> IsEventVisibleTo(e, did)
  BY <1>1 DEF SeenSet
<1> HIDE DEF S, U
<1>4. ASSUME NEW n \in 0..Len(lg)
      PROVE  Ids(U, n) = Ids(S, n)
  <2>1. n \in Nat /\ \A i \in 1..n : i \in U <=> i \in S
    BY <1>1, <1>2
  <2>. QED BY <2>1, IdsSame
<1>5. Ids(U, Len(lg) + 1) = IF Len(lg) + 1 \in U THEN Append(Ids(U, Len(lg)), Len(lg) + 1)
                            ELSE Ids(U, Len(lg))
  BY <1>1, IdsNext
<1>6. Ids(U, Len(lg)) = Ids(S, Len(lg))
  BY <1>1, <1>4
<1>. QED BY <1>3, <1>4, <1>5, <1>6 DEF S, U

\* An initial part remains one.
LEMMA InitialPartKept ==
  ASSUME NEW lg \in Seq(Logged), NEW e \in Logged, NEW did, NEW sent, InitialPart(lg, did, sent)
  PROVE  InitialPart(Append(lg, e), did, sent)
<1>1. PICK n \in 0..Len(lg) : sent = Ids(SeenSet(lg, did), n)
  BY DEF InitialPart
<1>2. sent = Ids(SeenSet(Append(lg, e), did), n)
  BY <1>1, SeenBefore
<1>3. n \in 0..Len(Append(lg, e))
  OBVIOUS
<1>. QED BY <1>2, <1>3 DEF InitialPart

\* What was received of an initial part is one.
LEMMA ReceivedIsInitial ==
  ASSUME NEW lg \in Seq(Logged), NEW did, NEW rc \in Seq(Nat), NEW w \in Seq(Nat),
         InitialPart(lg, did, rc \o w)
  PROVE  InitialPart(lg, did, rc)
<1>1. PICK n \in 0..Len(lg) : rc \o w = Ids(SeenSet(lg, did), n)
  BY DEF InitialPart
<1>2. n \in Nat /\ PartsAreIds(SeenSet(lg, did), n)
  BY IdsInitial
<1>3. PICK k \in 0..n : rc = Ids(SeenSet(lg, did), k)
  BY <1>1, <1>2 DEF PartsAreIds
<1>4. k \in 0..Len(lg)
  OBVIOUS
<1>. QED BY <1>3, <1>4 DEF InitialPart

\* The cursor of a reader that received rc.
CursorOf(rc) == IF rc = <<>> THEN 0 ELSE Last(rc)

\* What getEvents returns for the cursor completes what was received.
LEMMA CursorCompletes ==
  ASSUME NEW lg \in Seq(Logged), NEW did, NEW rc, InitialPart(lg, did, rc)
  PROVE  /\ rc \o Ids({i \in SeenSet(lg, did) : i > CursorOf(rc)}, Len(lg)) = Ids(SeenSet(lg, did), Len(lg))
         /\ CursorOf(rc) \in Nat
<1> DEFINE S == SeenSet(lg, did)
<1>1. PICK n \in 0..Len(lg) : rc = Ids(S, n)
  BY DEF InitialPart
<1> HIDE DEF S
<1>2. n \in Nat /\ Len(lg) \in Nat
  OBVIOUS
<1>3. rc = Ids(S, CursorOf(rc)) /\ CursorOf(rc) \in 0..n
  <2>1. CASE rc = <<>>
    <3>1. CursorOf(rc) = 0
      BY <2>1 DEF CursorOf
    <3>. QED BY <1>2, <2>1, <3>1, IdsZero
  <2>2. CASE rc # <<>>
    <3>1. Last(rc) \in 1..n /\ rc = Ids(S, Last(rc))
      BY <1>1, <1>2, <2>2, IdsLast
    <3>2. CursorOf(rc) = Last(rc)
      BY <2>2 DEF CursorOf
    <3>. QED BY <1>2, <3>1, <3>2
  <2>. QED BY <2>1, <2>2
<1> DEFINE c == CursorOf(rc)
<1>4. c \in 0..Len(lg) /\ rc = Ids(S, c)
  BY <1>2, <1>3
<1> HIDE DEF c
<1>5. Ids(S, c) \o Ids({i \in S : i > c}, Len(lg)) = Ids(S, Len(lg))
  BY <1>2, <1>4, IdsSplit
<1>6. rc \o Ids({i \in S : i > c}, Len(lg)) = Ids(S, Len(lg)) /\ c \in Nat
  BY <1>2, <1>4, <1>5
<1>. QED BY <1>6, Zenon DEF S, c

\* A stream whose link is gone leaves its reader with an initial part.
LEMMA GoodEnds ==
  ASSUME NEW lg \in Seq(Logged), NEW st, NEW did, NEW rc \in Seq(Nat), NEW w \in Wires, NEW o,
         Good(lg, st, did, rc, w, o)
  PROVE  InitialPart(lg, did, rc)
<1>1. Keep(w, Nat) \in Seq(Nat)
  BY WireEvents
<1>. QED BY <1>1, ReceivedIsInitial DEF Good

\* The elements of a concatenation.
LEMMA ConcatSet ==
  ASSUME NEW T, NEW s \in Seq(T), NEW t \in Seq(T)
  PROVE  ToSet(s \o t) = ToSet(s) \cup ToSet(t)
<1> DEFINE q == s \o t
<1>1. /\ Len(s) \in Nat /\ Len(t) \in Nat /\ DOMAIN s = 1..Len(s) /\ DOMAIN t = 1..Len(t)
      /\ q \in Seq(T) /\ DOMAIN q = 1..(Len(s) + Len(t))
  OBVIOUS
<1>2. /\ \A i \in 1..Len(s) : q[i] = s[i]
      /\ \A i \in 1..Len(t) : q[Len(s) + i] = t[i]
  OBVIOUS
<1> HIDE DEF q
<1>3. ASSUME NEW x \in ToSet(q)
      PROVE  x \in ToSet(s) \cup ToSet(t)
  <2>1. PICK i \in 1..(Len(s) + Len(t)) : x = q[i]
    BY <1>1 DEF ToSet
  <2>2. CASE i \in 1..Len(s)
    BY <1>1, <1>2, <2>1, <2>2 DEF ToSet
  <2>3. CASE i > Len(s)
    <3>1. i - Len(s) \in 1..Len(t) /\ Len(s) + (i - Len(s)) = i
      BY <1>1, <2>3
    <3>. QED BY <1>1, <1>2, <2>1, <3>1 DEF ToSet
  <2>. QED BY <1>1, <2>2, <2>3
<1>4. ToSet(s) \subseteq ToSet(q)
  <2>1. \A i \in 1..Len(s) : i \in 1..(Len(s) + Len(t))
    BY <1>1
  <2>. QED BY <1>1, <1>2, <2>1 DEF ToSet
<1>5. ToSet(t) \subseteq ToSet(q)
  <2>1. \A i \in 1..Len(t) : Len(s) + i \in 1..(Len(s) + Len(t))
    BY <1>1
  <2>. QED BY <1>1, <1>2, <2>1 DEF ToSet
<1>. QED BY <1>3, <1>4, <1>5 DEF q

\* What is on the wire before and after the first message of it was read.
LEMMA WireSplits ==
  ASSUME NEW w \in Wires, w # <<>>
  PROVE  /\ Tail(w) \in Wires /\ Head(w) \in Nat \cup {TerminalMessage, EvictedMessage}
         /\ Keep(w, Nat) = IF Head(w) \in Nat THEN <<Head(w)>> \o Keep(Tail(w), Nat)
                           ELSE Keep(Tail(w), Nat)
         /\ ToSet(Tail(w)) \subseteq ToSet(w)
         /\ OnlyLast(w) => OnlyLast(Tail(w))
<1> DEFINE T == Nat \cup {TerminalMessage, EvictedMessage}
<1>1. w \in Seq(T) /\ Wires = Seq(T)
  BY DEF Wires
<1> HIDE DEF T
<1>2. /\ Tail(w) \in Seq(T) /\ Head(w) \in T /\ <<Head(w)>> \in Seq(T) /\ w = <<Head(w)>> \o Tail(w)
      /\ Len(w) \in Nat /\ Len(w) >= 1 /\ Len(Tail(w)) = Len(w) - 1
      /\ \A i \in 1..(Len(w) - 1) : Tail(w)[i] = w[i + 1]
  BY <1>1
<1>3. Keep(<<Head(w)>> \o Tail(w), Nat) = Keep(<<Head(w)>>, Nat) \o Keep(Tail(w), Nat)
  <2> DEFINE h == <<Head(w)>>
             t == Tail(w)
  <2>1. h \in Seq(T) /\ t \in Seq(T)
    BY <1>2
  <2> HIDE DEF h, t
  <2>2. Keep(h \o t, Nat) = Keep(h, Nat) \o Keep(t, Nat)
    BY <2>1, KeepConcat
  <2>. QED BY <2>2 DEF h, t
<1>4. Keep(<<Head(w)>>, Nat) = IF Head(w) \in Nat THEN <<Head(w)>> ELSE <<>>
  BY <1>2, KeepOne
<1>5. Keep(Tail(w), Nat) \in Seq(Nat)
  BY <1>1, <1>2, WireEvents
<1>6. <<>> \o Keep(Tail(w), Nat) = Keep(Tail(w), Nat)
  BY <1>5
<1>7. Keep(w, Nat) = IF Head(w) \in Nat THEN <<Head(w)>> \o Keep(Tail(w), Nat) ELSE Keep(Tail(w), Nat)
  BY <1>2, <1>3, <1>4, <1>6
<1>8. ToSet(Tail(w)) \subseteq ToSet(w)
  <2>1. ToSet(<<Head(w)>> \o Tail(w)) = ToSet(<<Head(w)>>) \cup ToSet(Tail(w))
    BY <1>2, ConcatSet
  <2>. QED BY <1>2, <2>1
<1>9. ASSUME OnlyLast(w) PROVE OnlyLast(Tail(w))
  <2>1. DOMAIN w = 1..Len(w) /\ DOMAIN Tail(w) = 1..(Len(w) - 1)
    BY <1>1, <1>2
  <2>2. ASSUME NEW i \in 1..(Len(w) - 1), Tail(w)[i] = TerminalMessage
        PROVE  i = Len(w) - 1
    <3>1. w[i + 1] = TerminalMessage /\ i + 1 \in 1..Len(w)
      BY <1>2, <2>2
    <3>2. i + 1 = Len(w)
      BY <1>9, <2>1, <3>1 DEF OnlyLast
    <3>3. Len(w) \in Nat /\ i \in Int
      BY <1>2
    <3>. QED BY <3>2, <3>3
  <2>. QED BY <1>2, <2>1, <2>2 DEF OnlyLast
<1>. QED BY <1>1, <1>2, <1>7, <1>8, <1>9 DEF T

\* Concatenation associates.
LEMMA ConcatAssoc ==
  ASSUME NEW T, NEW s \in Seq(T), NEW t \in Seq(T), NEW u \in Seq(T)
  PROVE  (s \o t) \o u = s \o (t \o u)
OBVIOUS

\* The client reads the next message: what was sent altogether is the same.
LEMMA GoodRead ==
  ASSUME NEW lg \in Seq(Logged), NEW st, NEW did, NEW rc \in Seq(Nat), NEW w \in Wires, NEW o,
         Good(lg, st, did, rc, w, o), w # <<>>
  PROVE  /\ Head(w) \in Nat => Good(lg, st, did, Append(rc, Head(w)), Tail(w), o)
         /\ Head(w) \notin Nat => Good(lg, st, did, rc, Tail(w), o)
<1> DEFINE h == Head(w)
           t == Tail(w)
           rest == Keep(t, Nat)
<1>1. /\ t \in Wires /\ ToSet(t) \subseteq ToSet(w) /\ (OnlyLast(w) => OnlyLast(t))
      /\ Keep(w, Nat) = IF h \in Nat THEN <<h>> \o rest ELSE rest
  BY WireSplits
<1>2. rest \in Seq(Nat)
  BY <1>1, WireEvents
<1> HIDE DEF h, t, rest
<1>3. ASSUME NEW x \in Seq(Nat), x \o rest = rc \o Keep(w, Nat)
      PROVE  Good(lg, st, did, x, t, o)
  <2>1. x \o Keep(t, Nat) = rc \o Keep(w, Nat)
    BY <1>3 DEF rest
  <2>. QED BY <1>1, <2>1 DEF Good
<1>4. CASE h \in Nat
  <2>1. <<h>> \in Seq(Nat) /\ Append(rc, h) = rc \o <<h>> /\ Append(rc, h) \in Seq(Nat)
    BY <1>4
  <2>2. (rc \o <<h>>) \o rest = rc \o (<<h>> \o rest)
    BY <1>2, <2>1, ConcatAssoc
  <2>3. Append(rc, h) \o rest = rc \o Keep(w, Nat)
    BY <1>1, <1>4, <2>1, <2>2
  <2>. QED BY <1>3, <1>4, <2>1, <2>3 DEF h, t
<1>5. CASE h \notin Nat
  BY <1>1, <1>3, <1>5 DEF h, t
<1>. QED BY <1>4, <1>5

\* A stream that is cleaned up is told nothing; only settlement follows the end.
LEMMA GoodUntold ==
  ASSUME NEW lg \in Seq(Logged), NEW e \in Logged, NEW st, NEW st2, NEW did, NEW rc, NEW w,
         Good(lg, st, did, rc, w, FALSE),
         st \in TerminalStates => st2 \in TerminalStates /\ e.type = "SETTLEMENT_CONFIRMED"
  PROVE  Good(Append(lg, e), st2, did, rc, w, FALSE)
<1> DEFINE sent == rc \o Keep(w, Nat)
<1>1. InitialPart(Append(lg, e), did, sent)
  BY InitialPartKept DEF Good
<1>2. ASSUME TerminalMessage \in ToSet(w)
      PROVE  /\ st2 \in TerminalStates /\ OnlyLast(w)
             /\ Outcome(Append(lg, e), did, sent)
  <2>1. /\ st \in TerminalStates /\ OnlyLast(w) /\ Outcome(lg, did, sent)
        /\ st2 \in TerminalStates /\ e.type = "SETTLEMENT_CONFIRMED"
    BY <1>2 DEF Good
  <2> HIDE DEF sent
  <2>2. /\ Len(lg) \in Nat /\ DOMAIN lg = 1..Len(lg) /\ DOMAIN Append(lg, e) = 1..(Len(lg) + 1)
        /\ Append(lg, e)[Len(lg) + 1] = e /\ \A i \in 1..Len(lg) : Append(lg, e)[i] = lg[i]
    OBVIOUS
  <2>3. ASSUME NEW j \in DOMAIN Append(lg, e), IsEventVisibleTo(Append(lg, e)[j], did),
               Append(lg, e)[j].type # "SETTLEMENT_CONFIRMED"
        PROVE  j \in ToSet(sent)
    <3>1. j # Len(lg) + 1
      BY <2>1, <2>2, <2>3
    <3>2. j \in 1..Len(lg)
      BY <2>2, <3>1
    <3>. QED BY <2>1, <2>2, <2>3, <3>2 DEF Outcome
  <2>. QED BY <2>1, <2>3 DEF Outcome
<1> HIDE DEF sent
<1>. QED BY <1>1, <1>2 DEF Good, sent

\* What append sends to an open stream.
Items(lg, did, e) ==
  (IF IsEventVisibleTo(e, did) THEN <<Len(lg) + 1>> ELSE <<>>)
    \o (IF e.type \in TerminalEventTypes THEN <<TerminalMessage>> ELSE <<>>)

LEMMA ItemsFacts ==
  ASSUME NEW lg \in Seq(Logged), NEW did, NEW e
  PROVE  /\ Items(lg, did, e) \in Wires
         /\ Keep(Items(lg, did, e), Nat) = IF IsEventVisibleTo(e, did) THEN <<Len(lg) + 1>> ELSE <<>>
         /\ TerminalMessage \in ToSet(Items(lg, did, e)) => e.type \in TerminalEventTypes
         /\ OnlyLast(Items(lg, did, e))
<1> DEFINE T == Nat \cup {TerminalMessage, EvictedMessage}
           a == IF IsEventVisibleTo(e, did) THEN <<Len(lg) + 1>> ELSE <<>>
           b == IF e.type \in TerminalEventTypes THEN <<TerminalMessage>> ELSE <<>>
<1>0. Len(lg) \in Nat
  OBVIOUS
<1>1. a \in Seq(T) /\ b \in Seq(T) /\ Items(lg, did, e) = a \o b /\ Wires = Seq(T)
  <2>1. <<Len(lg) + 1>> \in Seq(T) /\ <<TerminalMessage>> \in Seq(T) /\ <<>> \in Seq(T)
    BY <1>0
  <2>2. a \in Seq(T) /\ b \in Seq(T)
    <3> HIDE DEF T
    <3>. QED BY <2>1
  <2>3. Wires = Seq(T)
    BY DEF Wires
  <2>4. Items(lg, did, e) = a \o b
    BY Zenon DEF Items
  <2>. QED BY <2>2, <2>3, <2>4
<1>2. Keep(a, Nat) = a
  <2>1. Keep(<<Len(lg) + 1>>, Nat) = <<Len(lg) + 1>>
    <3> DEFINE x == Len(lg) + 1
    <3>1. x \in Nat
      BY <1>0
    <3> HIDE DEF x
    <3>2. Keep(<<x>>, Nat) = <<x>>
      BY <3>1, KeepOne
    <3>. QED BY <3>2 DEF x
  <2>2. Keep(<<>>, Nat) = <<>>
    BY KeepEmpty
  <2>. QED BY <2>1, <2>2
<1>3. Keep(b, Nat) = <<>>
  <2>1. Keep(<<TerminalMessage>>, Nat) = <<>>
    <3>1. TerminalMessage \in {TerminalMessage}
      OBVIOUS
    <3>. QED BY <3>1, KeepOne, MessagesAreNoEvents
  <2>2. Keep(<<>>, Nat) = <<>>
    BY KeepEmpty
  <2>. QED BY <2>1, <2>2
<1>4. \A i \in DOMAIN a : a[i] # TerminalMessage
  BY <1>0, MessagesAreNoEvents
<1>5. Len(b) <= 1 /\ Len(b) \in Nat /\ (b # <<>> => e.type \in TerminalEventTypes)
  OBVIOUS
<1> HIDE DEF a, b, T
<1>6. Keep(a \o b, Nat) = a
  <2>1. Keep(a \o b, Nat) = Keep(a, Nat) \o Keep(b, Nat)
    BY <1>1, KeepConcat
  <2>2. a \o <<>> = a
    BY <1>1
  <2>. QED BY <1>2, <1>3, <2>1, <2>2
<1>7. a \o b \in Seq(T) /\ ToSet(a \o b) = ToSet(a) \cup ToSet(b)
  BY <1>1, ConcatSet
<1>8. ASSUME TerminalMessage \in ToSet(a \o b) PROVE b # <<>>
  <2>1. TerminalMessage \in ToSet(b)
    BY <1>4, <1>7, <1>8 DEF ToSet
  <2>2. b = <<>> => ToSet(b) = {}
    BY DEF ToSet
  <2>. QED BY <2>1, <2>2
<1>9. OnlyLast(a \o b)
  <2> DEFINE q == a \o b
  <2>1. /\ Len(a) \in Nat /\ DOMAIN a = 1..Len(a) /\ DOMAIN q = 1..(Len(a) + Len(b))
        /\ Len(q) = Len(a) + Len(b) /\ \A i \in 1..Len(a) : q[i] = a[i]
    BY <1>1
  <2> HIDE DEF q
  <2>2. ASSUME NEW i \in DOMAIN q, q[i] = TerminalMessage PROVE i = Len(q)
    <3>1. i \notin 1..Len(a)
      BY <1>4, <2>1, <2>2
    <3>. QED BY <1>5, <2>1, <3>1
  <2>3. OnlyLast(q)
    BY <2>2 DEF OnlyLast
  <2>. QED BY <2>3 DEF q
<1>. QED BY <1>1, <1>5, <1>6, <1>7, <1>8, <1>9 DEF a

\* An open stream is sent the event, and closed with the session.
LEMMA GoodTold ==
  ASSUME NEW lg \in Seq(Logged), NEW e \in Logged, NEW st, NEW st2, NEW did, NEW rc \in Seq(Nat),
         NEW w \in Wires, Good(lg, st, did, rc, w, TRUE), NEW o2 \in BOOLEAN,
         e.type \in TerminalEventTypes => ~o2 /\ st2 \in TerminalStates
  PROVE  Good(Append(lg, e), st2, did, rc, w \o Items(lg, did, e), o2)
<1> DEFINE it == Items(lg, did, e)
           a == IF IsEventVisibleTo(e, did) THEN <<Len(lg) + 1>> ELSE <<>>
           full == Ids(SeenSet(lg, did), Len(lg))
           new == Append(lg, e)
           all == Ids(SeenSet(new, did), Len(lg) + 1)
           T == Nat \cup {TerminalMessage, EvictedMessage}
<1>0. Len(lg) \in Nat /\ Len(new) = Len(lg) + 1 /\ DOMAIN new = 1..(Len(lg) + 1) /\ a \in Seq(Nat)
  OBVIOUS
<1>1. /\ it \in Wires /\ Keep(it, Nat) = a /\ OnlyLast(it)
      /\ (TerminalMessage \in ToSet(it) => e.type \in TerminalEventTypes)
  BY ItemsFacts
<1>2. rc \o Keep(w, Nat) = full /\ TerminalMessage \notin ToSet(w)
  BY DEF Good
<1>3. full \in Seq(Nat) /\ all \in Seq(Nat) /\ ToSet(all) = (1..(Len(lg) + 1)) \cap SeenSet(new, did)
  BY <1>0, IdsType
<1>4. all = IF IsEventVisibleTo(e, did) THEN Append(full, Len(lg) + 1) ELSE full
  BY SeenBefore
<1>5. full \o a = all
  <2> HIDE DEF full, all
  <2>1. full \o <<Len(lg) + 1>> = Append(full, Len(lg) + 1) /\ full \o <<>> = full
    BY <1>0, <1>3
  <2>. QED BY <1>4, <2>1
<1>6. w \in Seq(T) /\ it \in Seq(T)
  BY <1>1 DEF Wires
<1> HIDE DEF it, a, full, all, new, T
<1>7. rc \o Keep(w \o it, Nat) = all
  <2>1. Keep(w \o it, Nat) = Keep(w, Nat) \o Keep(it, Nat)
    BY <1>6, KeepConcat
  <2>2. Keep(w, Nat) \in Seq(Nat)
    BY WireEvents
  <2>3. (rc \o Keep(w, Nat)) \o a = rc \o (Keep(w, Nat) \o a)
    <3>1. rc \in Seq(Nat) /\ a \in Seq(Nat)
      BY <1>0
    <3>. QED BY ONLY <2>2, <3>1, ConcatAssoc
  <2>. QED BY <1>1, <1>2, <1>5, <2>1, <2>3
<1>8. InitialPart(new, did, all)
  <2>1. Len(lg) + 1 \in 0..Len(new)
    BY <1>0
  <2>. QED BY <2>1 DEF InitialPart, all
<1>9. Outcome(new, did, all)
  <2>1. \A j \in DOMAIN new : IsEventVisibleTo(new[j], did) => j \in SeenSet(new, did) /\ j \in 1..(Len(lg) + 1)
    BY <1>0 DEF SeenSet
  <2>. QED BY <1>3, <2>1 DEF Outcome
<1>10. ToSet(w \o it) = ToSet(w) \cup ToSet(it)
  BY <1>6, ConcatSet
<1>11. OnlyLast(w \o it)
  <2> DEFINE q == w \o it
  <2>1. /\ Len(w) \in Nat /\ Len(it) \in Nat /\ DOMAIN w = 1..Len(w) /\ DOMAIN it = 1..Len(it)
        /\ DOMAIN q = 1..(Len(w) + Len(it)) /\ Len(q) = Len(w) + Len(it)
        /\ \A i \in 1..Len(w) : q[i] = w[i]
        /\ \A i \in 1..Len(it) : q[Len(w) + i] = it[i]
    BY <1>6
  <2> HIDE DEF q
  <2>2. ASSUME NEW i \in DOMAIN q, q[i] = TerminalMessage PROVE i = Len(q)
    <3>1. i \notin 1..Len(w)
      BY <1>2, <2>1, <2>2 DEF ToSet
    <3>2. i - Len(w) \in 1..Len(it) /\ Len(w) + (i - Len(w)) = i
      BY <2>1, <3>1
    <3>3. it[i - Len(w)] = TerminalMessage
      BY <2>1, <2>2, <3>2
    <3>4. i - Len(w) = Len(it)
      BY <1>1, <2>1, <3>2, <3>3 DEF OnlyLast
    <3>. QED BY <2>1, <3>4
  <2>3. OnlyLast(q)
    BY <2>2 DEF OnlyLast
  <2>. QED BY <2>3 DEF q
<1>12. Good(new, st2, did, rc, w \o it, o2)
  <2>1. all = Ids(SeenSet(new, did), Len(new))
    BY <1>0 DEF all
  <2>. QED BY <1>1, <1>2, <1>7, <1>8, <1>9, <1>10, <1>11, <2>1 DEF Good
<1>. QED BY <1>12 DEF new, it

\* Nothing is dropped if everything is kept.
LEMMA KeepAll ==
  ASSUME NEW S, NEW s \in Seq(S)
  PROVE  Keep(s, S) = s
<1> DEFINE P == {q \in Seq(S) : Keep(q, S) = q}
<1>1. <<>> \in P
  <2>1. <<>> \in Seq(S) /\ Keep(<<>>, S) = <<>>
    BY KeepEmpty
  <2>. QED BY <2>1
<1>2. ASSUME NEW q \in Seq(S), NEW x \in S, q \in P
      PROVE  Append(q, x) \in P
  <2>1. Keep(q, S) = q
    BY <1>2
  <2>2. Keep(Append(q, x), S) = IF x \in S THEN Append(Keep(q, S), x) ELSE Keep(q, S)
    BY KeepAppend
  <2>3. Append(q, x) \in Seq(S)
    OBVIOUS
  <2>. QED BY <2>1, <2>2, <2>3
<1> HIDE DEF P
<1>3. Seq(S) \subseteq P
  BY <1>1, <1>2, AppendInduction
<1>. QED BY <1>3 DEF P

\* The message an evicted stream is sent changes nothing else.
LEMMA GoodEvicted ==
  ASSUME NEW lg, NEW st, NEW did, NEW rc \in Seq(Nat), NEW w \in Wires,
         Good(lg, st, did, rc, w, TRUE)
  PROVE  Good(lg, st, did, rc, w \o <<EvictedMessage>>, FALSE)
<1> DEFINE T == Nat \cup {TerminalMessage, EvictedMessage}
           x == <<EvictedMessage>>
<1>1. w \in Seq(T) /\ x \in Seq(T) /\ EvictedMessage \in T
  BY DEF Wires
<1>2. ToSet(x) = {EvictedMessage}
  BY DEF ToSet
<1> HIDE DEF T
<1>3. Keep(x, Nat) = <<>>
  BY <1>1, KeepOne, MessagesAreNoEvents
<1> HIDE DEF x
<1>4. Keep(w \o x, Nat) = Keep(w, Nat)
  <2>1. Keep(w \o x, Nat) = Keep(w, Nat) \o Keep(x, Nat)
    BY <1>1, KeepConcat
  <2>2. Keep(w, Nat) \in Seq(Nat)
    BY WireEvents
  <2>3. Keep(w, Nat) \o <<>> = Keep(w, Nat)
    BY <2>2
  <2>. QED BY <1>3, <2>1, <2>3
<1>5. ToSet(w \o x) = ToSet(w) \cup {EvictedMessage}
  BY <1>1, <1>2, ConcatSet
<1>6. TerminalMessage \notin ToSet(w \o x)
  BY <1>5, MessagesAreNoEvents DEF Good
<1>. QED BY <1>4, <1>6 DEF Good, x

\* A new stream starts with what its reader has not received.
LEMMA GoodFresh ==
  ASSUME NEW lg \in Seq(Logged), NEW st, NEW did, NEW rc \in Seq(Nat), InitialPart(lg, did, rc)
  PROVE  LET w == Ids({i \in SeenSet(lg, did) : i > CursorOf(rc)}, Len(lg))
         IN /\ w \in Seq(Nat) /\ w \in Wires /\ Append(w, TerminalMessage) \in Wires
            /\ Good(lg, st, did, rc, w, TRUE)
            /\ st \in TerminalStates => Good(lg, st, did, rc, Append(w, TerminalMessage), FALSE)
<1> DEFINE w == Ids({i \in SeenSet(lg, did) : i > CursorOf(rc)}, Len(lg))
           x == <<TerminalMessage>>
           all == Ids(SeenSet(lg, did), Len(lg))
           T == Nat \cup {TerminalMessage, EvictedMessage}
<1>0. Len(lg) \in Nat /\ DOMAIN lg = 1..Len(lg) /\ Len(lg) \in 0..Len(lg)
  OBVIOUS
<1>1. rc \o w = all
  BY CursorCompletes
<1>2. w \in Seq(Nat) /\ all \in Seq(Nat) /\ ToSet(all) = (1..Len(lg)) \cap SeenSet(lg, did)
  BY <1>0, IdsType
<1> HIDE DEF w
<1>3. w \in Seq(T) /\ x \in Seq(T) /\ Append(w, TerminalMessage) = w \o x /\ w \o x \in Seq(T)
      /\ TerminalMessage \in T /\ Wires = Seq(T)
  <2>0. x \in Seq(T) /\ Wires = Seq(T) /\ \A n \in Nat : n \in T
    BY DEF Wires
  <2> HIDE DEF T
  <2>1. w \in Seq(T) /\ x \in Seq(T) /\ Wires = Seq(T)
    BY <1>2, <2>0
  <2>2. Append(w, TerminalMessage) = w \o x /\ w \o x \in Seq(T)
    BY <2>1
  <2>. QED BY <2>1, <2>2 DEF T
<1>4. Keep(w, Nat) = w
  BY <1>2, KeepAll
<1>5. InitialPart(lg, did, all) /\ Outcome(lg, did, all)
  <2>1. InitialPart(lg, did, all)
    BY <1>0 DEF InitialPart
  <2>2. \A j \in DOMAIN lg : IsEventVisibleTo(lg[j], did) => j \in SeenSet(lg, did) /\ j \in 1..Len(lg)
    BY <1>0 DEF SeenSet
  <2>3. Outcome(lg, did, all)
    <3> HIDE DEF all
    <3>. QED BY <1>2, <2>2 DEF Outcome
  <2>. QED BY <2>1, <2>3
<1>6. TerminalMessage \notin ToSet(w)
  BY <1>2, MessagesAreNoEvents DEF ToSet
<1> HIDE DEF T
<1>7. Keep(w \o x, Nat) = w
  <2>1. Keep(x, Nat) = <<>>
    BY <1>3, KeepOne, MessagesAreNoEvents
  <2>2. w \o <<>> = w
    BY <1>2
  <2> HIDE DEF x
  <2>3. Keep(w \o x, Nat) = Keep(w, Nat) \o Keep(x, Nat)
    BY <1>3, KeepConcat
  <2>. QED BY <1>4, <2>1, <2>2, <2>3
<1>8. OnlyLast(w \o x)
  <2>1. Len(w) \in Nat /\ DOMAIN w = 1..Len(w)
    BY <1>2
  <2>2. /\ DOMAIN (w \o x) = 1..(Len(w) + 1) /\ Len(w \o x) = Len(w) + 1
        /\ \A i \in 1..Len(w) : (w \o x)[i] = w[i]
    BY <1>2
  <2>3. \A i \in 1..Len(w) : w[i] # TerminalMessage
    BY <1>6, <2>1 DEF ToSet
  <2> HIDE DEF x
  <2>. QED BY <2>1, <2>2, <2>3 DEF OnlyLast
<1> HIDE DEF x
<1>9. Good(lg, st, did, rc, w, TRUE)
  BY <1>1, <1>4, <1>5, <1>6 DEF Good
<1>10. ASSUME st \in TerminalStates PROVE Good(lg, st, did, rc, w \o x, FALSE)
  BY <1>1, <1>5, <1>7, <1>8, <1>10 DEF Good
<1>11. /\ w \in Seq(Nat) /\ w \in Wires /\ Append(w, TerminalMessage) \in Wires
       /\ Good(lg, st, did, rc, w, TRUE)
       /\ st \in TerminalStates => Good(lg, st, did, rc, Append(w, TerminalMessage), FALSE)
  BY <1>2, <1>3, <1>9, <1>10
<1>. QED BY <1>11 DEF w

-----------------------------------------------------------------------------
(***************************************************************************)
(* The invariant in these terms.                                           *)
(***************************************************************************)
LEMMA VisibleIds ==
  ASSUME NEW did, NEW m \in Nat, NEW n \in Nat
  PROVE  /\ VisibleBetween(did, 0, n) = Ids(SeenSet(log, did), n)
         /\ VisibleBetween(did, m, n) = Ids({i \in SeenSet(log, did) : i > m}, n)
<1>1. {i \in 1..Len(log) : i > 0 /\ IsEventVisibleTo(log[i], did)} = SeenSet(log, did)
  BY DEF SeenSet
<1>2. {i \in 1..Len(log) : i > m /\ IsEventVisibleTo(log[i], did)} = {i \in SeenSet(log, did) : i > m}
  BY DEF SeenSet
<1>. QED BY <1>1, <1>2 DEF VisibleBetween, Ids

GoodConn(lg, st, rcv, k) ==
  k.up => Good(lg, st, DidOf[k.reader], rcv[k.reader], k.wire, k.open)

AllReadersGood == \A r \in Readers : at[r] = None => InitialPart(log, DidOf[r], received[r])

AllStreamsGood == \A c \in Conns : GoodConn(log, state, received, conn[c])

LEMMA GoodNow ==
  TypeOK => (ReadersAreUpTo <=> AllReadersGood) /\ (StreamsAreUpTo <=> AllStreamsGood)
<1> SUFFICES ASSUME TypeOK
             PROVE  (ReadersAreUpTo <=> AllReadersGood) /\ (StreamsAreUpTo <=> AllStreamsGood)
  OBVIOUS
<1>0. Len(log) \in Nat /\ Len(log) \in 0..Len(log) /\ \A n \in 0..Len(log) : n \in Nat
  BY DEF TypeOK
<1>1. \A did, sent : IsInitialPart(sent, did) <=> InitialPart(log, did, sent)
  <2>1. \A did : \A n \in 0..Len(log) : VisibleBetween(did, 0, n) = Ids(SeenSet(log, did), n)
    BY <1>0, VisibleIds
  <2>. QED BY <2>1 DEF IsInitialPart, InitialPart
<1>2. \A did, sent : IsOutcome(sent, did) <=> Outcome(log, did, sent)
  BY DEF IsOutcome, Outcome
<1>3. \A did : Visible(did) = Ids(SeenSet(log, did), Len(log))
  BY <1>0, VisibleIds DEF Visible
<1>4. ASSUME NEW c \in Conns
      PROVE  GoodConn(log, state, received, conn[c]) <=>
               (conn[c].up =>
                 /\ IsInitialPart(SentOn(conn[c]), Did(c))
                 /\ conn[c].open => SentOn(conn[c]) = Visible(Did(c))
                 /\ TerminalMessage \in ToSet(conn[c].wire) =>
                      /\ ~conn[c].open /\ state \in TerminalStates
                      /\ \A i \in DOMAIN conn[c].wire :
                           conn[c].wire[i] = TerminalMessage => i = Len(conn[c].wire)
                      /\ IsOutcome(SentOn(conn[c]), Did(c)))
  BY <1>1, <1>2, <1>3, Zenon DEF GoodConn, Good, SentOn, EventsOn, Did, OnlyLast
<1>5. ReadersAreUpTo <=> AllReadersGood
  BY <1>1 DEF ReadersAreUpTo, AllReadersGood
<1>6. StreamsAreUpTo <=> AllStreamsGood
  BY <1>4 DEF StreamsAreUpTo, AllStreamsGood
<1>. QED BY <1>5, <1>6

\* And in the next state.
LEMMA GoodNext ==
  TypeOK' => (AllReadersGood' => ReadersAreUpTo') /\ (AllStreamsGood' => StreamsAreUpTo')
BY GoodNow, PTL

-----------------------------------------------------------------------------
(***************************************************************************)
(* Slots and the store's entry.                                            *)
(***************************************************************************)
Open == {c \in Conns : conn[c].open}

\* A connection is free, or has a reader.
LEMMA ConnFacts ==
  ASSUME TypeOK, NEW c \in Conns
  PROVE  /\ conn[c].up \in BOOLEAN /\ conn[c].open \in BOOLEAN
         /\ conn[c] = Free => ~conn[c].up /\ ~conn[c].open
         /\ conn[c] # Free =>
              /\ conn[c] \in Connection /\ conn[c].reader \in Readers /\ conn[c].set \in Nat
              /\ conn[c].wire \in Wires
<1>1. conn[c] \in Connection \cup {Free}
  BY DEF TypeOK
<1>2. CASE conn[c] = Free
  BY <1>2 DEF Free
<1>3. CASE conn[c] \in Connection
  <2>1. /\ conn[c].reader \in Readers /\ conn[c].set \in Nat /\ conn[c].up \in BOOLEAN
        /\ conn[c].open \in BOOLEAN /\ conn[c].wire \in Wires
    BY <1>3 DEF Connection, Wires
  <2>. QED BY <1>3, <2>1 DEF Free
<1>. QED BY <1>1, <1>2, <1>3

\* As many slots as different connections in them.
LEMMA OnceCard ==
  ASSUME NEW T, NEW s \in Seq(T), Once(s)
  PROVE  IsFiniteSet(ToSet(s)) /\ Cardinality(ToSet(s)) = Len(s)
<1> DEFINE P == {q \in Seq(T) : Once(q) => IsFiniteSet(ToSet(q)) /\ Cardinality(ToSet(q)) = Len(q)}
<1>1. <<>> \in P
  <2>1. <<>> \in Seq(T) /\ ToSet(<<>>) = {} /\ Len(<<>>) = 0
    BY DEF ToSet
  <2>. QED BY <2>1, FS_EmptySet
<1>2. ASSUME NEW q \in Seq(T), NEW x \in T, q \in P
      PROVE  Append(q, x) \in P
  <2>1. Append(q, x) \in Seq(T) /\ Len(Append(q, x)) = Len(q) + 1
    OBVIOUS
  <2>2. ASSUME Once(Append(q, x))
        PROVE  /\ IsFiniteSet(ToSet(Append(q, x)))
               /\ Cardinality(ToSet(Append(q, x))) = Len(Append(q, x))
    <3>1. Once(q) /\ x \notin ToSet(q)
      BY <2>2, AppendOnce
    <3>2. IsFiniteSet(ToSet(q)) /\ Cardinality(ToSet(q)) = Len(q)
      BY <1>2, <3>1
    <3>3. ToSet(Append(q, x)) = ToSet(q) \cup {x}
      BY AppendSet
    <3>. QED BY <2>1, <3>1, <3>2, <3>3, FS_AddElement
  <2>. QED BY <2>1, <2>2
<1> HIDE DEF P
<1>3. Seq(T) \subseteq P
  BY <1>1, <1>2, AppendInduction
<1>. QED BY <1>3 DEF P

\* The slots that remain when the connections cs give theirs back.
LEMMA SlotsLeft ==
  ASSUME TypeOK, EachSlotOnce, SlotsAreOpenStreams, NEW cs
  PROVE  LET left == Keep(slots, Conns \ cs)
         IN /\ left \in Seq(Conns) /\ Once(left) /\ ToSet(left) = Open \ cs
            /\ cs = {} => left = slots
<1> DEFINE left == Keep(slots, Conns \ cs)
<1>1. slots \in Seq(Conns) /\ Once(slots) /\ ToSet(slots) = Open
  BY DEF TypeOK, EachSlotOnce, Once, SlotsAreOpenStreams, Open
<1>2. left \in Seq(Conns) /\ Once(left) /\ ToSet(left) = ToSet(slots) \cap (Conns \ cs)
  BY <1>1, KeepType, KeepOnce, KeepSet
<1>3. ToSet(left) = Open \ cs
  <2> HIDE DEF left
  <2>. QED BY <1>1, <1>2 DEF Open
<1>4. ASSUME cs = {} PROVE left = slots
  <2>1. Conns \ cs = Conns
    BY <1>4
  <2>. QED BY <1>1, <2>1, KeepAll
<1>. QED BY <1>2, <1>3, <1>4

\* Fewer streams hold fewer slots.
LEMMA SlotsShrink ==
  ASSUME TypeOK, EachSlotOnce, SlotsAreOpenStreams,
         slots' \in Seq(Conns), Once(slots'), ToSet(slots') = Open', Open' \subseteq Open,
         \A c \in Open' : conn'[c].reader = conn[c].reader, scope' = scope
  PROVE  EachSlotOnce' /\ SlotsAreOpenStreams'
<1>1. slots \in Seq(Conns) /\ Once(slots) /\ ToSet(slots) = Open
  BY DEF TypeOK, EachSlotOnce, Once, SlotsAreOpenStreams, Open
<1>2. /\ IsFiniteSet(ToSet(slots)) /\ Cardinality(ToSet(slots)) = Len(slots)
      /\ Cardinality(ToSet(slots')) = Len(slots')
  BY <1>1, OnceCard
<1>3. Len(slots') <= Len(slots)
  <2>1. ToSet(slots') \in SUBSET ToSet(slots)
    BY <1>1
  <2>. QED BY <1>2, <2>1, FS_Subset
<1>4. EachSlotOnce'
  BY DEF EachSlotOnce, Once
<1>5. Len(slots') <= MaxPerSession'
  <2>1. Len(slots) <= MaxPerSession /\ MaxPerSession' = MaxPerSession
    BY DEF SlotsAreOpenStreams, MaxPerSession
  <2>2. MaxPerSession \in Nat
    BY StreamAssumption DEF TypeOK, MaxPerSession
  <2>3. Len(slots) \in Nat /\ Len(slots') \in Nat
    BY <1>1
  <2>. QED BY <1>3, <2>1, <2>2, <2>3
<1>6. ASSUME NEW d \in Dids
      PROVE  Cardinality({c \in Conns : conn'[c].open /\ DidOf[conn'[c].reader] = d}) <= MaxPerDid
  <2> DEFINE A == {c \in Conns : conn'[c].open /\ DidOf[conn'[c].reader] = d}
             B == {c \in Conns : conn[c].open /\ DidOf[conn[c].reader] = d}
  <2>1. A \in SUBSET B
    BY DEF Open
  <2>2. IsFiniteSet(B)
    <3>1. B \in SUBSET ToSet(slots)
      BY <1>1 DEF Open
    <3>. QED BY <1>2, <3>1, FS_Subset
  <2>3. Cardinality(B) <= MaxPerDid
    BY DEF SlotsAreOpenStreams, Did
  <2> HIDE DEF A, B
  <2>4. Cardinality(A) <= Cardinality(B) /\ Cardinality(A) \in Nat /\ Cardinality(B) \in Nat
    <3>1. IsFiniteSet(A)
      BY <2>1, <2>2, FS_Subset
    <3>. QED BY <2>1, <2>2, <3>1, FS_Subset, FS_CardinalityType
  <2>5. Cardinality(A) <= MaxPerDid
    BY <2>3, <2>4, StreamAssumption
  <2>. QED BY <2>5 DEF A
<1>. QED BY <1>2, <1>4, <1>5, <1>6 DEF SlotsAreOpenStreams, Open, Did

\* The entry when the open streams cs unsubscribe: it is dropped with the last.
LEMMA EntryLeft ==
  ASSUME TypeOK, EntryIsTheOpenSet, NEW cs \in SUBSET Open
  PROVE  EntryAfter(cs) = IF cs # {} /\ Open \subseteq cs THEN None ELSE entry
<1>1. \A c \in cs : Members(conn[c].set) = Open
  BY DEF EntryIsTheOpenSet, Members, Open
<1>2. (\E c \in cs : Members(conn[c].set) \subseteq cs) <=> cs # {} /\ Open \subseteq cs
  BY <1>1
<1>. QED BY <1>2 DEF EntryAfter

LEMMA EntryKept ==
  ASSUME TypeOK, EntryIsTheOpenSet, NEW cs \in SUBSET Open, entry' = EntryAfter(cs),
         Open' = Open \ cs, \A c \in Open' : conn'[c].set = conn[c].set
  PROVE  EntryIsTheOpenSet'
<1>1. entry' = IF cs # {} /\ Open \subseteq cs THEN None ELSE entry
  BY EntryLeft
<1>2. entry = None <=> Open = {}
  BY DEF EntryIsTheOpenSet, Open
<1>3. entry' = None <=> Open' = {}
  BY <1>1, <1>2
<1>4. \A c \in Open' : conn'[c].set = entry'
  <2>1. ASSUME NEW c \in Open' PROVE conn'[c].set = entry'
    <3>1. c \in Open /\ c \notin cs /\ entry' = entry
      BY <1>1
    <3>. QED BY <3>1 DEF EntryIsTheOpenSet, Open
  <2>. QED BY <2>1
<1>5. \A c \in Conns : c \in Open' <=> conn'[c].open
  BY DEF Open
<1>6. Open' = {} <=> \A c \in Conns : ~conn'[c].open
  BY DEF Open
<1>. QED BY <1>3, <1>4, <1>5, <1>6 DEF EntryIsTheOpenSet

-----------------------------------------------------------------------------
(***************************************************************************)
(* The steps.                                                              *)
(***************************************************************************)
\* What the invariant says in these terms.
LEMMA InvFacts ==
  ASSUME StreamInv
  PROVE  /\ TypeOK /\ LinksMatch /\ EntryIsTheOpenSet /\ EachSlotOnce /\ SlotsAreOpenStreams
         /\ NoStreamOutlivesSession /\ AllReadersGood /\ AllStreamsGood
         /\ slots \in Seq(Conns) /\ Once(slots) /\ ToSet(slots) = Open
         /\ log \in Seq(Logged)
<1>1. /\ TypeOK /\ LinksMatch /\ EntryIsTheOpenSet /\ EachSlotOnce /\ SlotsAreOpenStreams
      /\ NoStreamOutlivesSession /\ ReadersAreUpTo /\ StreamsAreUpTo
  BY DEF StreamInv
<1>2. AllReadersGood /\ AllStreamsGood
  BY <1>1, GoodNow
<1>3. slots \in Seq(Conns) /\ Once(slots) /\ ToSet(slots) = Open /\ log \in Seq(Logged)
  BY <1>1 DEF TypeOK, EachSlotOnce, Once, SlotsAreOpenStreams, Open, Logged
<1>. QED BY <1>1, <1>2, <1>3

\* The parts give the invariant.
LEMMA InvNext ==
  ASSUME TypeOK', LinksMatch', EntryIsTheOpenSet', EachSlotOnce', SlotsAreOpenStreams',
         NoStreamOutlivesSession', AllReadersGood', AllStreamsGood'
  PROVE  StreamInv'
BY GoodNext DEF StreamInv

\* A reader without a stream polls.
LEMMA PollStep ==
  ASSUME StreamInv, NEW r \in Readers, Poll(r)
  PROVE  StreamInv'
<1> DEFINE did == DidOf[r]
           w == Ids({i \in SeenSet(log, did) : i > CursorOf(received[r])}, Len(log))
<1>1. /\ at[r] = None /\ received' = [received EXCEPT ![r] = @ \o GetEvents(did, Cursor(r))]
      /\ UNCHANGED <<log, state, slots, entry, conn, at, told, faults, scope>>
  BY DEF Poll, MayRead
<1>2. /\ TypeOK /\ LinksMatch /\ EntryIsTheOpenSet /\ EachSlotOnce /\ SlotsAreOpenStreams
      /\ NoStreamOutlivesSession /\ AllReadersGood /\ AllStreamsGood /\ log \in Seq(Logged)
  BY InvFacts
<1>3. InitialPart(log, did, received[r]) /\ received[r] \in Seq(Nat) /\ received \in [Readers -> Seq(Nat)]
  BY <1>1, <1>2 DEF AllReadersGood, TypeOK
<1>4. GetEvents(did, Cursor(r)) = w
  <2>1. Cursor(r) = CursorOf(received[r])
    BY DEF Cursor, CursorOf
  <2>2. CursorOf(received[r]) \in Nat
    BY <1>2, <1>3, CursorCompletes
  <2>3. Len(log) \in Nat
    BY <1>2
  <2>. QED BY <2>1, <2>2, <2>3, VisibleIds DEF GetEvents
<1>5. received[r] \o w = Ids(SeenSet(log, did), Len(log)) /\ w \in Seq(Nat)
  BY <1>2, <1>3, CursorCompletes, GoodFresh
<1> HIDE DEF w
<1>6. /\ received' \in [Readers -> Seq(Nat)] /\ received'[r] = received[r] \o w
      /\ \A q \in Readers : q # r => received'[q] = received[q]
  <2>0. received[r] \in Seq(Nat) /\ w \in Seq(Nat)
    BY <1>3, <1>5
  <2>1. received[r] \o w \in Seq(Nat)
    BY <2>0
  <2>2. received' = [received EXCEPT ![r] = received[r] \o w]
    BY <1>1, <1>4
  <2>. QED BY <1>3, <2>1, <2>2
<1>7. TypeOK'
  BY <1>1, <1>2, <1>6 DEF TypeOK
<1>8. AllReadersGood'
  <2>1. InitialPart(log, did, received'[r])
    <3>1. Len(log) \in 0..Len(log)
      BY <1>2
    <3>. QED BY <1>5, <1>6, <3>1 DEF InitialPart
  <2>2. ASSUME NEW q \in Readers, at'[q] = None
        PROVE  InitialPart(log', DidOf[q], received'[q])
    <3>1. CASE q = r
      BY <1>1, <2>1, <3>1
    <3>2. CASE q # r
      BY <1>1, <1>2, <1>6, <2>2, <3>2 DEF AllReadersGood
    <3>. QED BY <3>1, <3>2
  <2>. QED BY <2>2 DEF AllReadersGood
<1>9. AllStreamsGood'
  <2>1. ASSUME NEW c \in Conns PROVE GoodConn(log', state', received', conn'[c])
    <3>1. CASE ~conn[c].up
      BY <1>1, <3>1 DEF GoodConn
    <3>2. CASE conn[c].up
      <4>1. conn[c].reader # r /\ conn[c].reader \in Readers
        <5>1. at[conn[c].reader] = c /\ c # None
          BY <1>2, <3>2, StreamAssumption DEF LinksMatch
        <5>2. conn[c].reader \in Readers
          BY <1>2, <3>2, ConnFacts
        <5>. QED BY <1>1, <5>1, <5>2
      <4>2. received'[conn[c].reader] = received[conn[c].reader]
        BY <1>6, <4>1
      <4>3. GoodConn(log, state, received, conn[c])
        BY <1>2 DEF AllStreamsGood
      <4>. QED BY <1>1, <4>2, <4>3 DEF GoodConn
    <3>. QED BY <1>2, <3>1, <3>2, ConnFacts
  <2>. QED BY <2>1 DEF AllStreamsGood
<1>10. LinksMatch' /\ EntryIsTheOpenSet' /\ EachSlotOnce' /\ SlotsAreOpenStreams' /\ NoStreamOutlivesSession'
  BY <1>1, <1>2 DEF LinksMatch, EntryIsTheOpenSet, EachSlotOnce, SlotsAreOpenStreams,
                    NoStreamOutlivesSession, MaxPerSession, Did
<1>. QED BY <1>7, <1>8, <1>9, <1>10, InvNext

\* A refused connection changes what the client was told only.
LEMMA ConnectRefusedStep ==
  ASSUME StreamInv, NEW r \in Readers, ConnectRefused(r)
  PROVE  StreamInv'
<1>1. /\ told' = [told EXCEPT ![r] = LimitMessage]
      /\ UNCHANGED <<log, state, slots, entry, conn, at, received, faults, scope>>
  BY DEF ConnectRefused
<1>2. /\ TypeOK /\ LinksMatch /\ EntryIsTheOpenSet /\ EachSlotOnce /\ SlotsAreOpenStreams
      /\ NoStreamOutlivesSession /\ AllReadersGood /\ AllStreamsGood
  BY InvFacts
<1>3. TypeOK'
  BY <1>1, <1>2 DEF TypeOK, Messages
<1>4. LinksMatch' /\ EntryIsTheOpenSet' /\ EachSlotOnce' /\ SlotsAreOpenStreams' /\ NoStreamOutlivesSession'
  BY <1>1, <1>2 DEF LinksMatch, EntryIsTheOpenSet, EachSlotOnce, SlotsAreOpenStreams,
                    NoStreamOutlivesSession, MaxPerSession, Did
<1>5. AllReadersGood' /\ AllStreamsGood'
  BY <1>1, <1>2 DEF AllReadersGood, AllStreamsGood
<1>. QED BY <1>3, <1>4, <1>5, InvNext

\* A client reads what was sent next.
LEMMA ReceiveStep ==
  ASSUME StreamInv, NEW c \in Conns, Receive(c)
  PROVE  StreamInv'
<1> DEFINE k == conn[c]
           r == k.reader
           w == k.wire
<1>1. /\ k.up /\ w # <<>>
      /\ conn' = [conn EXCEPT ![c].wire = Tail(@)]
      /\ UNCHANGED <<log, state, slots, entry, at, faults, scope>>
      /\ IF Head(w) \in Messages
         THEN told' = [told EXCEPT ![r] = Head(w)] /\ received' = received
         ELSE received' = [received EXCEPT ![r] = Append(@, Head(w))] /\ told' = told
  BY DEF Receive
<1>2. /\ TypeOK /\ LinksMatch /\ EntryIsTheOpenSet /\ EachSlotOnce /\ SlotsAreOpenStreams
      /\ NoStreamOutlivesSession /\ AllReadersGood /\ AllStreamsGood
      /\ slots \in Seq(Conns) /\ Once(slots) /\ ToSet(slots) = Open /\ log \in Seq(Logged)
  BY InvFacts
<1>3. k \in Connection /\ r \in Readers /\ w \in Wires /\ k.set \in Nat /\ k.up \in BOOLEAN /\ k.open \in BOOLEAN
  BY <1>1, <1>2, ConnFacts
<1>4. Tail(w) \in Wires /\ Head(w) \in Nat \cup {TerminalMessage, EvictedMessage}
  BY <1>1, <1>3, WireSplits
<1>5. Head(w) \in Messages <=> Head(w) \notin Nat
  BY <1>4, MessagesAreNoEvents DEF Messages
<1>6. received[r] \in Seq(Nat) /\ received \in [Readers -> Seq(Nat)] /\ told \in [Readers -> Messages \cup {None}]
  BY <1>2, <1>3 DEF TypeOK
<1>7. /\ conn'[c] = [reader |-> r, up |-> k.up, open |-> k.open, set |-> k.set, wire |-> Tail(w)]
      /\ \A d \in Conns : d # c => conn'[d] = conn[d]
      /\ DOMAIN conn' = Conns /\ conn' = [d \in Conns |-> conn'[d]]
  <2>1. conn \in [Conns -> Connection \cup {Free}]
    BY <1>2 DEF TypeOK
  <2>2. k = [reader |-> r, up |-> k.up, open |-> k.open, set |-> k.set, wire |-> w]
    BY <1>3 DEF Connection
  <2>3. conn'[c] = [k EXCEPT !.wire = Tail(@)]
    BY <1>1, <2>1
  <2>4. \A d \in Conns : d # c => conn'[d] = conn[d]
    BY <1>1, <2>1
  <2>5. DOMAIN conn' = Conns /\ conn' = [d \in Conns |-> conn'[d]]
    BY <1>1, <2>1
  <2>6. conn'[c] = [reader |-> r, up |-> k.up, open |-> k.open, set |-> k.set, wire |-> Tail(w)]
    BY <2>2, <2>3
  <2>. QED BY <2>4, <2>5, <2>6
<1> HIDE DEF k, r, w
<1>8. /\ conn'[c].up /\ k.up /\ conn[c].up /\ conn'[c].open = conn[c].open /\ conn'[c].set = conn[c].set
      /\ conn'[c].reader = r /\ conn[c].reader = r /\ conn'[c].wire = Tail(w)
  <2>1. conn'[c].up = k.up /\ conn'[c].open = k.open /\ conn'[c].set = k.set /\ conn'[c].reader = r
        /\ conn'[c].wire = Tail(w)
    BY <1>7
  <2>2. k = conn[c] /\ r = conn[c].reader
    BY DEF k, r
  <2>3. k.up
    BY <1>1
  <2>. QED BY <2>1, <2>2, <2>3
<1>9. TypeOK'
  <2>1. conn' \in [Conns -> Connection \cup {Free}]
    <3>1. conn'[c] \in Connection
      BY <1>3, <1>4, <1>7 DEF Connection, Wires
    <3>2. \A d \in Conns : conn'[d] \in Connection \cup {Free}
      BY <1>2, <1>7, <3>1 DEF TypeOK
    <3>. QED BY <1>7, <3>2
  <2>2. received' \in [Readers -> Seq(Nat)] /\ told' \in [Readers -> Messages \cup {None}]
    <3>1. CASE Head(w) \in Messages
      BY <1>1, <1>3, <1>6, <3>1
    <3>2. CASE Head(w) \notin Messages
      <4>1. Append(received[r], Head(w)) \in Seq(Nat)
        BY <1>5, <1>6, <3>2
      <4>. QED BY <1>1, <1>3, <1>6, <3>2, <4>1
    <3>. QED BY <3>1, <3>2
  <2>. QED BY <1>1, <1>2, <2>1, <2>2 DEF TypeOK
<1>10. LinksMatch'
  <2>1. \A q \in Readers : at[q] # None => at[q] \in Conns
    BY <1>2 DEF TypeOK
  <2>0. \A d \in Conns : /\ conn'[d].up = conn[d].up /\ conn'[d].reader = conn[d].reader
                          /\ conn'[d].open = conn[d].open
    <3>1. conn'[c].up = conn[c].up
      BY <1>3, <1>7 DEF k
    <3>. QED BY <1>7, <1>8, <3>1
  <2>2. ASSUME NEW q \in Readers, at'[q] # None PROVE conn'[at'[q]].up /\ conn'[at'[q]].reader = q
    <3>1. at'[q] = at[q] /\ at[q] \in Conns
      BY <1>1, <2>1, <2>2
    <3>2. conn[at[q]].up /\ conn[at[q]].reader = q
      BY <1>2, <2>2, <3>1 DEF LinksMatch
    <3>. QED BY <2>0, <3>1, <3>2
  <2>3. ASSUME NEW d \in Conns, conn'[d].up PROVE at'[conn'[d].reader] = d
    <3>1. conn[d].up
      BY <2>0, <2>3
    <3>2. at[conn[d].reader] = d
      BY <1>2, <3>1 DEF LinksMatch
    <3>. QED BY <1>1, <2>0, <3>2
  <2>4. ASSUME NEW d \in Conns, ~conn'[d].up PROVE conn'[d] = Free \/ conn'[d].open
    <3>1. d # c
      BY <1>8, <2>4
    <3>2. conn'[d] = conn[d]
      BY <1>7, <3>1
    <3>. QED BY <1>2, <2>4, <3>2 DEF LinksMatch
  <2>. QED BY <2>2, <2>3, <2>4 DEF LinksMatch
<1>11. /\ Open' = Open
       /\ \A d \in Open : conn'[d].reader = conn[d].reader /\ conn'[d].set = conn[d].set
  BY <1>7, <1>8 DEF Open
<1>12. EachSlotOnce' /\ SlotsAreOpenStreams'
  BY <1>1, <1>2, <1>11, SlotsShrink
<1>13. EntryIsTheOpenSet'
  <2>1. {} \in SUBSET Open /\ Open' = Open \ {}
    BY <1>11
  <2>2. entry' = EntryAfter({})
    BY <1>1 DEF EntryAfter
  <2>. QED BY <1>2, <1>11, <2>1, <2>2, EntryKept
<1>14. NoStreamOutlivesSession'
  BY <1>1, <1>2 DEF NoStreamOutlivesSession
<1>15. \A q \in Readers : q # r => received'[q] = received[q]
  BY <1>1, <1>6
<1>16. AllReadersGood'
  <2>1. at[r] # None
    BY <1>2, <1>8, StreamAssumption DEF LinksMatch
  <2>2. ASSUME NEW q \in Readers, at'[q] = None PROVE InitialPart(log', DidOf[q], received'[q])
    <3>1. q # r
      BY <1>1, <2>1, <2>2
    <3>. QED BY <1>1, <1>2, <1>15, <2>2, <3>1 DEF AllReadersGood
  <2>. QED BY <2>2 DEF AllReadersGood
<1>17. AllStreamsGood'
  <2>1. ASSUME NEW d \in Conns PROVE GoodConn(log', state', received', conn'[d])
    <3>0. GoodConn(log, state, received, conn[d])
      BY <1>2 DEF AllStreamsGood
    <3>1. CASE d = c
      <4>1. Good(log, state, DidOf[r], received[r], w, k.open)
        BY <1>8, <3>0, <3>1 DEF GoodConn, k, w
      <4>0. log \in Seq(Logged) /\ received[r] \in Seq(Nat) /\ w \in Wires /\ w # <<>>
        BY <1>1, <1>2, <1>3, <1>6
      <4>4. /\ Head(w) \in Nat => Good(log, state, DidOf[r], Append(received[r], Head(w)), Tail(w), k.open)
            /\ Head(w) \notin Nat => Good(log, state, DidOf[r], received[r], Tail(w), k.open)
        BY ONLY <4>0, <4>1, GoodRead
      <4>2. CASE Head(w) \in Nat
        <5>1. received'[r] = Append(received[r], Head(w))
          BY <1>1, <1>3, <1>5, <1>6, <4>2
        <5>2. Good(log, state, DidOf[r], received'[r], Tail(w), k.open)
          BY ONLY <4>2, <4>4, <5>1
        <5>. QED BY <1>1, <1>8, <3>1, <5>2 DEF GoodConn, k
      <4>3. CASE Head(w) \notin Nat
        <5>1. received'[r] = received[r]
          BY <1>1, <1>5, <4>3
        <5>2. Good(log, state, DidOf[r], received'[r], Tail(w), k.open)
          BY ONLY <4>3, <4>4, <5>1
        <5>. QED BY <1>1, <1>8, <3>1, <5>2 DEF GoodConn, k
      <4>. QED BY <4>2, <4>3
    <3>2. CASE d # c
      <4>1. conn'[d] = conn[d]
        BY <1>7, <3>2
      <4>2. ASSUME conn[d].up PROVE received'[conn[d].reader] = received[conn[d].reader]
        <5>1. conn[d].reader \in Readers
          BY <1>2, <4>2, ConnFacts
        <5>2. at[conn[d].reader] = d /\ at[r] = c
          BY <1>2, <1>8, <4>2 DEF LinksMatch
        <5>. QED BY <1>15, <3>2, <5>1, <5>2
      <4>. QED BY <1>1, <3>0, <4>1, <4>2 DEF GoodConn
    <3>. QED BY <3>1, <3>2
  <2>. QED BY <2>1 DEF AllStreamsGood
<1>. QED BY <1>9, <1>10, <1>12, <1>13, <1>14, <1>16, <1>17, InvNext

\* Streams are cleaned up: their slots are given back and their subscriptions end.
LEMMA CleanupKeeps ==
  ASSUME StreamInv, NEW cs \in SUBSET Conns, Cleanup(cs), Open' = Open \ cs,
         \A c \in Open' : conn'[c].reader = conn[c].reader /\ conn'[c].set = conn[c].set,
         scope' = scope, state' \in TerminalStates => Open' = {}
  PROVE  /\ slots' \in Seq(Conns) /\ entry' \in Nat \cup {None}
         /\ EachSlotOnce' /\ SlotsAreOpenStreams' /\ EntryIsTheOpenSet' /\ NoStreamOutlivesSession'
<1> DEFINE live == {c \in cs : conn[c].open}
<1>1. slots' = Keep(slots, Conns \ live) /\ entry' = EntryAfter(live)
  BY DEF Cleanup
<1>2. /\ TypeOK /\ EntryIsTheOpenSet /\ EachSlotOnce /\ SlotsAreOpenStreams /\ ToSet(slots) = Open
      /\ entry \in Nat \cup {None}
  BY InvFacts DEF TypeOK
<1>3. live \in SUBSET Open /\ Open' = Open \ live
  BY DEF Open
<1> HIDE DEF live
<1>4. slots' \in Seq(Conns) /\ Once(slots') /\ ToSet(slots') = Open \ live
  BY <1>1, <1>2, SlotsLeft
<1>5. ToSet(slots') = Open' /\ Open' \subseteq Open
  BY <1>3, <1>4
<1>6. EachSlotOnce' /\ SlotsAreOpenStreams'
  BY <1>2, <1>4, <1>5, SlotsShrink
<1>7. EntryIsTheOpenSet'
  BY <1>1, <1>2, <1>3, EntryKept
<1>8. entry' \in Nat \cup {None}
  BY <1>1, <1>2 DEF EntryAfter
<1>9. ASSUME state' \in TerminalStates PROVE slots' = <<>> /\ entry' = None
  <2>1. Open' = {}
    BY <1>9
  <2>2. slots' = <<>>
    BY <1>4, <1>5, <2>1, EmptySet
  <2>3. \A c \in Conns : ~conn'[c].open
    BY <2>1 DEF Open
  <2>4. entry' = None
    BY <1>7, <2>3 DEF EntryIsTheOpenSet
  <2>. QED BY <2>2, <2>4
<1>10. NoStreamOutlivesSession'
  BY <1>9 DEF NoStreamOutlivesSession
<1>. QED BY <1>4, <1>6, <1>7, <1>8, <1>10

\* In a session that is over no stream is open.
LEMMA OverMeansClosed ==
  ASSUME StreamInv, state \in TerminalStates
  PROVE  Open = {} /\ slots = <<>> /\ entry = None
<1>1. slots = <<>> /\ entry = None /\ ToSet(slots) = Open
  BY InvFacts DEF NoStreamOutlivesSession
<1>. QED BY <1>1 DEF ToSet

\* Links that end leave readers with an initial part, and the others alone.
LEMMA LinksEnd ==
  ASSUME StreamInv, log' = log, state' = state, received' = received,
         \A c \in Conns : conn'[c] = conn[c] \/ ~conn'[c].up,
         \A q \in Readers : at'[q] = at[q] \/ at'[q] = None
  PROVE  AllReadersGood' /\ AllStreamsGood'
<1>1. /\ TypeOK /\ LinksMatch /\ AllReadersGood /\ AllStreamsGood /\ log \in Seq(Logged)
      /\ at \in [Readers -> Conns \cup {None}] /\ received \in [Readers -> Seq(Nat)]
  BY InvFacts DEF TypeOK
<1>2. ASSUME NEW q \in Readers, at'[q] = None PROVE InitialPart(log', DidOf[q], received'[q])
  <2>1. CASE at[q] = None
    BY <1>1, <2>1 DEF AllReadersGood
  <2>2. CASE at[q] # None
    <3> DEFINE c == at[q]
    <3>1. c \in Conns /\ conn[c].up /\ conn[c].reader = q
      BY <1>1, <2>2 DEF LinksMatch
    <3>2. conn[c].wire \in Wires
      BY <1>1, <3>1, ConnFacts
    <3>3. GoodConn(log, state, received, conn[c])
      BY <1>1, <3>1 DEF AllStreamsGood
    <3> HIDE DEF c
    <3>4. Good(log, state, DidOf[q], received[q], conn[c].wire, conn[c].open)
      BY <3>1, <3>3 DEF GoodConn
    <3>5. received[q] \in Seq(Nat)
      BY <1>1
    <3>6. InitialPart(log, DidOf[q], received[q])
      BY <1>1, <3>2, <3>4, <3>5, GoodEnds
    <3>. QED BY <3>6
  <2>. QED BY <2>1, <2>2
<1>3. ASSUME NEW c \in Conns PROVE GoodConn(log', state', received', conn'[c])
  <2>1. GoodConn(log, state, received, conn[c])
    BY <1>1 DEF AllStreamsGood
  <2>2. CASE conn'[c] = conn[c]
    BY <2>1, <2>2
  <2>3. CASE ~conn'[c].up
    BY <2>3 DEF GoodConn
  <2>. QED BY <2>2, <2>3
<1>. QED BY <1>2, <1>3 DEF AllReadersGood, AllStreamsGood

\* Whoever reads on a link that ends listens to nothing, the others as before.
LEMMA LinkFreed ==
  ASSUME StreamInv, NEW c \in Conns, conn[c].up, ~conn'[c].up, conn'[c] = Free \/ conn'[c].open,
         \A d \in Conns : d # c => conn'[d] = conn[d],
         at' = [at EXCEPT ![conn[c].reader] = None]
  PROVE  /\ LinksMatch' /\ at' \in [Readers -> Conns \cup {None}]
         /\ \A q \in Readers : at'[q] = at[q] \/ at'[q] = None
<1>1. TypeOK /\ LinksMatch /\ at \in [Readers -> Conns \cup {None}]
  BY InvFacts DEF TypeOK
<1> DEFINE r == conn[c].reader
<1>2. r \in Readers /\ at[r] = c
  BY <1>1, ConnFacts DEF LinksMatch
<1>3. at'[r] = None /\ \A q \in Readers : q # r => at'[q] = at[q]
  BY <1>1, <1>2
<1>4. at' \in [Readers -> Conns \cup {None}]
  BY <1>1, <1>2
<1> HIDE DEF r
<1>5. ASSUME NEW q \in Readers, at'[q] # None PROVE conn'[at'[q]].up /\ conn'[at'[q]].reader = q
  <2>1. q # r /\ at'[q] = at[q] /\ at[q] \in Conns
    BY <1>1, <1>3, <1>5
  <2>2. conn[at[q]].up /\ conn[at[q]].reader = q
    BY <1>1, <1>5, <2>1 DEF LinksMatch
  <2>3. at[q] # c
    BY <2>1, <2>2 DEF r
  <2>. QED BY <2>1, <2>2, <2>3
<1>6. ASSUME NEW d \in Conns, conn'[d].up PROVE at'[conn'[d].reader] = d
  <2>1. d # c /\ conn'[d] = conn[d]
    BY <1>6
  <2>2. conn[d].up /\ conn[d].reader \in Readers /\ at[conn[d].reader] = d
    BY <1>1, <1>6, <2>1, ConnFacts DEF LinksMatch
  <2>3. conn[d].reader # r
    BY <1>2, <2>1, <2>2
  <2>. QED BY <1>3, <2>1, <2>2, <2>3
<1>7. ASSUME NEW d \in Conns, ~conn'[d].up PROVE conn'[d] = Free \/ conn'[d].open
  <2>1. CASE d = c
    BY <2>1
  <2>2. CASE d # c
    BY <1>1, <1>7, <2>2 DEF LinksMatch
  <2>. QED BY <2>1, <2>2
<1>8. LinksMatch'
  BY <1>5, <1>6, <1>7 DEF LinksMatch
<1>. QED BY <1>3, <1>4, <1>8

LEMMA DisconnectStep ==
  ASSUME StreamInv, NEW c \in Conns, Disconnect(c)
  PROVE  StreamInv'
<1>1. /\ conn[c].up /\ Cleanup({c}) /\ conn' = [conn EXCEPT ![c] = Free]
      /\ at' = [at EXCEPT ![conn[c].reader] = None]
      /\ UNCHANGED <<log, state, received, told, scope>>
  BY DEF Disconnect
<1>2. TypeOK /\ conn \in [Conns -> Connection \cup {Free}]
  BY InvFacts DEF TypeOK
<1>3. /\ conn'[c] = Free /\ \A d \in Conns : d # c => conn'[d] = conn[d]
      /\ conn' \in [Conns -> Connection \cup {Free}]
  BY <1>1, <1>2
<1>4. ~conn'[c].up /\ ~conn'[c].open
  BY <1>3 DEF Free
<1>5. /\ LinksMatch' /\ at' \in [Readers -> Conns \cup {None}]
      /\ \A q \in Readers : at'[q] = at[q] \/ at'[q] = None
  BY <1>1, <1>3, <1>4, LinkFreed
<1>6. Open' = Open \ {c} /\ \A d \in Open' : conn'[d] = conn[d]
  BY <1>3, <1>4 DEF Open
<1>7. state' \in TerminalStates => Open' = {}
  BY <1>1, <1>6, OverMeansClosed
<1>8. /\ slots' \in Seq(Conns) /\ entry' \in Nat \cup {None}
      /\ EachSlotOnce' /\ SlotsAreOpenStreams' /\ EntryIsTheOpenSet' /\ NoStreamOutlivesSession'
  BY <1>1, <1>6, <1>7, CleanupKeeps
<1>9. AllReadersGood' /\ AllStreamsGood'
  BY <1>1, <1>3, <1>4, <1>5, LinksEnd
<1>10. faults' \in 0..scope'.faults
  <2>1. faults \in 0..scope.faults /\ scope.faults \in Nat
    BY <1>2, StreamAssumption DEF TypeOK
  <2>. QED BY <1>1, <2>1 DEF Disconnect
<1>11. TypeOK'
  BY <1>1, <1>2, <1>3, <1>5, <1>8, <1>10 DEF TypeOK
<1>. QED BY <1>5, <1>8, <1>9, <1>11, InvNext

LEMMA HeartbeatStep ==
  ASSUME StreamInv, NEW c \in Conns, Heartbeat(c)
  PROVE  StreamInv'
<1>1. /\ conn[c].open /\ ~conn[c].up /\ Cleanup({c}) /\ conn' = [conn EXCEPT ![c] = Free]
      /\ UNCHANGED <<log, state, at, received, told, faults, scope>>
  BY DEF Heartbeat
<1>2. TypeOK /\ LinksMatch /\ conn \in [Conns -> Connection \cup {Free}]
      /\ at \in [Readers -> Conns \cup {None}]
  BY InvFacts DEF TypeOK
<1>3. /\ conn'[c] = Free /\ \A d \in Conns : d # c => conn'[d] = conn[d]
      /\ conn' \in [Conns -> Connection \cup {Free}]
  BY <1>1, <1>2
<1>4. ~conn'[c].up /\ ~conn'[c].open
  BY <1>3 DEF Free
<1>5. LinksMatch'
  <2>1. ASSUME NEW q \in Readers, at'[q] # None PROVE conn'[at'[q]].up /\ conn'[at'[q]].reader = q
    <3>1. at'[q] = at[q] /\ at[q] \in Conns /\ conn[at[q]].up /\ conn[at[q]].reader = q
      BY <1>1, <1>2, <2>1 DEF LinksMatch
    <3>2. at[q] # c
      BY <1>1, <3>1
    <3>. QED BY <1>3, <3>1, <3>2
  <2>2. ASSUME NEW d \in Conns, conn'[d].up PROVE at'[conn'[d].reader] = d
    <3>1. d # c /\ conn'[d] = conn[d]
      BY <1>3, <1>4, <2>2
    <3>. QED BY <1>1, <1>2, <2>2, <3>1 DEF LinksMatch
  <2>3. ASSUME NEW d \in Conns, ~conn'[d].up PROVE conn'[d] = Free \/ conn'[d].open
    BY <1>2, <1>3, <2>3 DEF LinksMatch
  <2>. QED BY <2>1, <2>2, <2>3 DEF LinksMatch
<1>6. Open' = Open \ {c} /\ \A d \in Open' : conn'[d] = conn[d]
  BY <1>3, <1>4 DEF Open
<1>7. state' \in TerminalStates => Open' = {}
  BY <1>1, <1>6, OverMeansClosed
<1>8. /\ slots' \in Seq(Conns) /\ entry' \in Nat \cup {None}
      /\ EachSlotOnce' /\ SlotsAreOpenStreams' /\ EntryIsTheOpenSet' /\ NoStreamOutlivesSession'
  BY <1>1, <1>6, <1>7, CleanupKeeps
<1>9. AllReadersGood' /\ AllStreamsGood'
  BY <1>1, <1>3, <1>4, LinksEnd
<1>10. TypeOK'
  BY <1>1, <1>2, <1>3, <1>8 DEF TypeOK
<1>. QED BY <1>5, <1>8, <1>9, <1>10, InvNext

LEMMA RestartStep ==
  ASSUME StreamInv, Restart
  PROVE  StreamInv'
<1>1. /\ slots' = <<>> /\ entry' = None /\ conn' = [c \in Conns |-> Free]
      /\ at' = [r \in Readers |-> None]
      /\ faults < scope.faults /\ faults' = faults + 1
      /\ UNCHANGED <<log, state, received, told, scope>>
  BY DEF Restart
<1>2. TypeOK /\ EachSlotOnce /\ SlotsAreOpenStreams
  BY InvFacts
<1>3. \A c \in Conns : conn'[c] = Free /\ ~conn'[c].up /\ ~conn'[c].open
  BY <1>1 DEF Free
<1>4. \A q \in Readers : at'[q] = None
  BY <1>1
<1>5. LinksMatch'
  BY <1>3, <1>4 DEF LinksMatch
<1>6. EntryIsTheOpenSet' /\ NoStreamOutlivesSession'
  BY <1>1, <1>3 DEF EntryIsTheOpenSet, NoStreamOutlivesSession
<1>7. EachSlotOnce' /\ SlotsAreOpenStreams'
  <2>1. Open' = {}
    BY <1>3 DEF Open
  <2>2. slots' \in Seq(Conns) /\ Once(slots') /\ ToSet(slots') = {}
    BY <1>1 DEF Once, ToSet
  <2>. QED BY <1>1, <1>2, <2>1, <2>2, SlotsShrink
<1>8. AllReadersGood' /\ AllStreamsGood'
  BY <1>1, <1>3, <1>4, LinksEnd
<1>9. TypeOK'
  <2>1. faults' \in 0..scope'.faults
    <3>1. faults \in 0..scope.faults /\ scope.faults \in Nat
      BY <1>2, StreamAssumption DEF TypeOK
    <3>. QED BY <1>1, <3>1
  <2>2. slots' \in Seq(Conns)
    BY <1>1
  <2>. QED BY <1>1, <1>2, <2>1, <2>2 DEF TypeOK
<1>. QED BY <1>5, <1>6, <1>7, <1>8, <1>9, InvNext

LEMMA LinkLostStep ==
  ASSUME StreamInv, NEW c \in Conns, LinkLost(c)
  PROVE  StreamInv'
<1> DEFINE k == conn[c]
           lost == IF k.open THEN [k EXCEPT !.up = FALSE, !.wire = <<>>] ELSE Free
<1>1. /\ k.up /\ faults < scope.faults /\ faults' = faults + 1
      /\ conn' = [conn EXCEPT ![c] = lost]
      /\ at' = [at EXCEPT ![k.reader] = None]
      /\ UNCHANGED <<log, state, slots, entry, received, told, scope>>
  BY DEF LinkLost
<1>2. /\ TypeOK /\ LinksMatch /\ EntryIsTheOpenSet /\ EachSlotOnce /\ SlotsAreOpenStreams
      /\ NoStreamOutlivesSession
      /\ slots \in Seq(Conns) /\ Once(slots) /\ ToSet(slots) = Open
      /\ conn \in [Conns -> Connection \cup {Free}]
  BY InvFacts DEF TypeOK
<1>3. k \in Connection /\ k.open \in BOOLEAN
  BY <1>1, <1>2, ConnFacts
<1>4. /\ lost \in Connection \cup {Free} /\ ~lost.up /\ (lost = Free \/ lost.open)
      /\ lost.open <=> k.open
      /\ k.open => lost.reader = k.reader /\ lost.set = k.set
  <2>1. CASE k.open
    <3>0. /\ k.reader \in Readers /\ k.set \in Nat
          /\ k = [reader |-> k.reader, up |-> k.up, open |-> k.open, set |-> k.set, wire |-> k.wire]
      BY <1>3 DEF Connection
    <3>1. lost = [reader |-> k.reader, up |-> FALSE, open |-> TRUE, set |-> k.set, wire |-> <<>>]
      BY <1>3, <2>1, <3>0
    <3>2. lost \in Connection
      <4>1. <<>> \in Seq(Nat \cup {TerminalMessage, EvictedMessage})
        OBVIOUS
      <4> HIDE DEF lost
      <4>. QED BY <3>0, <3>1, <4>1 DEF Connection
    <3> HIDE DEF k, lost
    <3>. QED BY <2>1, <3>1, <3>2
  <2>2. CASE ~k.open
    <3>1. lost = Free
      BY <2>2
    <3>2. ~lost.up /\ ~lost.open
      BY <3>1 DEF Free
    <3> HIDE DEF k, lost
    <3>. QED BY <2>2, <3>1, <3>2
  <2>. QED BY <1>3, <2>1, <2>2
<1> HIDE DEF lost
<1>5. /\ conn'[c] = lost /\ \A d \in Conns : d # c => conn'[d] = conn[d]
      /\ conn' \in [Conns -> Connection \cup {Free}]
  BY <1>1, <1>2, <1>4
<1>6. /\ LinksMatch' /\ at' \in [Readers -> Conns \cup {None}]
      /\ \A q \in Readers : at'[q] = at[q] \/ at'[q] = None
  <2>1. ~conn'[c].up /\ (conn'[c] = Free \/ conn'[c].open)
    BY <1>4, <1>5
  <2>. QED BY <1>1, <1>5, <2>1, LinkFreed
<1>7. Open' = Open /\ \A d \in Open : conn'[d].reader = conn[d].reader /\ conn'[d].set = conn[d].set
  BY <1>4, <1>5 DEF Open
<1>8. EachSlotOnce' /\ SlotsAreOpenStreams'
  BY <1>1, <1>2, <1>7, SlotsShrink
<1>9. EntryIsTheOpenSet'
  <2>1. {} \in SUBSET Open /\ Open' = Open \ {}
    BY <1>7
  <2>2. entry' = EntryAfter({})
    BY <1>1 DEF EntryAfter
  <2>. QED BY <1>2, <1>7, <2>1, <2>2, EntryKept
<1>10. NoStreamOutlivesSession'
  BY <1>1, <1>2 DEF NoStreamOutlivesSession
<1>11. AllReadersGood' /\ AllStreamsGood'
  BY <1>1, <1>4, <1>5, <1>6, LinksEnd
<1>12. TypeOK'
  <2>1. faults' \in 0..scope'.faults
    <3>1. faults \in 0..scope.faults /\ scope.faults \in Nat
      BY <1>2, StreamAssumption DEF TypeOK
    <3>. QED BY <1>1, <3>1
  <2>. QED BY <1>1, <1>2, <1>5, <1>6, <2>1 DEF TypeOK
<1>. QED BY <1>6, <1>8, <1>9, <1>10, <1>11, <1>12, InvNext

\* What the transition table says of the ends of a session.
LEMMA Transition ==
  ASSUME NEW st \in States, NEW e \in Emitted, IsValidTransition(st, e.type)
  PROVE  /\ TransitionRules[st][e.type] \in States
         /\ e.type \in TerminalEventTypes <=>
              st \notin TerminalStates /\ TransitionRules[st][e.type] \in TerminalStates
         /\ st \in TerminalStates =>
              e.type = "SETTLEMENT_CONFIRMED" /\ TransitionRules[st][e.type] \in TerminalStates
<1>1. e.type \in EventTypes \ {"RFQ_CREATED", "COMMIT_PENDING", "NEGOTIATION_CANCELLED"} /\ e \in Emitted
  BY DEF Emitted
<1> DEFINE t == e.type
<1>2. /\ IsValidTransition(st, t) /\ t \in EventTypes
      /\ t # "RFQ_CREATED" /\ t # "COMMIT_PENDING" /\ t # "NEGOTIATION_CANCELLED"
  BY <1>1
<1> HIDE DEF t
<1>3. /\ TransitionRules[st][t] \in States
      /\ t \in TerminalEventTypes <=>
           st \notin TerminalStates /\ TransitionRules[st][t] \in TerminalStates
      /\ st \in TerminalStates =>
           t = "SETTLEMENT_CONFIRMED" /\ TransitionRules[st][t] \in TerminalStates
  BY <1>2 DEF States, TerminalStates, TerminalEventTypes, EventTypes, IsValidTransition, TransitionRules
<1>. QED BY <1>3 DEF t

\* Another wire, and a stream that is closed.
LEMMA Rewired ==
  ASSUME NEW k \in Connection, k.up, k.open, NEW x
  PROVE  /\ [k EXCEPT !.wire = x] =
              [reader |-> k.reader, up |-> TRUE, open |-> TRUE, set |-> k.set, wire |-> x]
         /\ Closed([k EXCEPT !.wire = x]) =
              [reader |-> k.reader, up |-> TRUE, open |-> FALSE, set |-> k.set, wire |-> x]
<1> DEFINE y == [k EXCEPT !.wire = x]
<1>1. DOMAIN k = {"reader", "up", "open", "set", "wire"} /\ k.up = TRUE /\ k.open = TRUE
  BY DEF Connection
<1>2. /\ DOMAIN y = {"reader", "up", "open", "set", "wire"} /\ y.wire = x /\ y.up = TRUE
      /\ y.open = TRUE /\ y.reader = k.reader /\ y.set = k.set
      /\ y = [f \in {"reader", "up", "open", "set", "wire"} |-> y[f]]
  BY <1>1
<1> HIDE DEF y
<1>3. y = [reader |-> k.reader, up |-> TRUE, open |-> TRUE, set |-> k.set, wire |-> x]
  BY <1>2
<1>4. Closed(y) = [reader |-> k.reader, up |-> TRUE, open |-> FALSE, set |-> k.set, wire |-> x]
  BY <1>3 DEF Closed
<1>. QED BY <1>3, <1>4 DEF y

\* An event is appended: the open streams are sent it, and end with the session.
LEMMA AppendStep ==
  ASSUME StreamInv, NEW e \in Emitted, AppendEvent(e)
  PROVE  StreamInv'
<1> DEFINE ends == e.type \in TerminalEventTypes
<1>1. /\ Cleanup(EndedBy(e)) /\ log' = Append(log, e) /\ state' = TransitionRules[state][e.type]
      /\ IsValidTransition(state, e.type)
      /\ UNCHANGED <<at, received, told, faults, scope>>
  BY DEF AppendEvent, CanEmit
<1>2. /\ TypeOK /\ LinksMatch /\ EntryIsTheOpenSet /\ AllReadersGood /\ AllStreamsGood
      /\ log \in Seq(Logged) /\ conn \in [Conns -> Connection \cup {Free}] /\ state \in States
      /\ received \in [Readers -> Seq(Nat)] /\ at \in [Readers -> Conns \cup {None}]
  BY InvFacts DEF TypeOK
<1>3. e \in Logged /\ log' \in Seq(Logged)
  <2>1. e \in Logged
    BY DEF Emitted, Logged
  <2>. QED BY <1>1, <1>2, <2>1
<1>4. /\ state' \in States
      /\ ends <=> state \notin TerminalStates /\ state' \in TerminalStates
      /\ state \in TerminalStates => e.type = "SETTLEMENT_CONFIRMED" /\ state' \in TerminalStates
  BY <1>1, <1>2, Transition
<1>5. (IF entry = None THEN {} ELSE Members(entry)) = Open /\ EndedBy(e) = IF ends THEN Open ELSE {}
  <2>1. entry = None <=> Open = {}
    BY <1>2 DEF EntryIsTheOpenSet, Open
  <2>2. entry # None => Members(entry) = Open
    BY <1>2 DEF EntryIsTheOpenSet, Members, Open
  <2>. QED BY <2>1, <2>2 DEF EndedBy
<1>6. ASSUME NEW c \in Open
      PROVE  SentFor(c, e) = Items(log, DidOf[conn[c].reader], e)
  <2>1. c \in Notified(e) <=> IsEventVisibleTo(e, DidOf[conn[c].reader])
    BY <1>5 DEF Notified, Did
  <2>. QED BY <2>1 DEF SentFor, Items
<1> DEFINE next(c) == IF c \notin Open THEN conn[c]
                      ELSE LET k == Send(conn[c], SentFor(c, e)) IN IF ends THEN Closed(k) ELSE k
<1>7. conn' = [c \in Conns |-> next(c)]
  <2>1. \A c \in Open : c \in EndedBy(e) <=> ends
    BY <1>5
  <2>. QED BY <1>5, <2>1 DEF AppendEvent
<1>8. \A c \in Conns : conn'[c] = next(c)
  BY <1>7
<1>9. \A c \in Conns : c \notin Open => conn'[c] = conn[c]
  BY <1>8
<1>10. ASSUME NEW c \in Open, ~conn[c].up
       PROVE  conn'[c] = IF ends THEN Free ELSE conn[c]
  <2>1. c \in Conns /\ Send(conn[c], SentFor(c, e)) = conn[c] /\ Closed(conn[c]) = Free
    BY <1>10 DEF Send, Closed, Open
  <2>. QED BY <1>8, <2>1
<1>11. ASSUME NEW c \in Open, conn[c].up
       PROVE  /\ conn'[c] = [reader |-> conn[c].reader, up |-> TRUE, open |-> ~ends, set |-> conn[c].set,
                             wire |-> conn[c].wire \o Items(log, DidOf[conn[c].reader], e)]
              /\ conn[c].reader \in Readers /\ conn[c].set \in Nat /\ conn[c].wire \in Wires
              /\ conn[c].wire \o Items(log, DidOf[conn[c].reader], e) \in Wires
  <2> DEFINE k == conn[c]
             it == Items(log, DidOf[k.reader], e)
             k2 == [reader |-> k.reader, up |-> TRUE, open |-> TRUE, set |-> k.set, wire |-> k.wire \o it]
  <2>1. c \in Conns /\ k.open /\ k.up /\ k \in Connection
    BY <1>2, <1>11, ConnFacts DEF Open
  <2>2. k.reader \in Readers /\ k.set \in Nat /\ k.wire \in Wires
    BY <2>1 DEF Connection, Wires
  <2>4. it \in Wires
    BY <1>2, ItemsFacts
  <2>5. k.wire \o it \in Wires
    <3> DEFINE T == Nat \cup {TerminalMessage, EvictedMessage}
    <3>1. Wires = Seq(T)
      BY DEF Wires
    <3> HIDE DEF it, k, T
    <3>. QED BY <2>2, <2>4, <3>1
  <2>6. Send(k, SentFor(c, e)) = [k EXCEPT !.wire = k.wire \o it]
    BY <1>6, <2>1 DEF Send
  <2> HIDE DEF it
  <2>7. [k EXCEPT !.wire = k.wire \o it] = k2
    BY <2>1, Rewired
  <2>8. Closed(k2) = [reader |-> k.reader, up |-> TRUE, open |-> FALSE, set |-> k.set, wire |-> k.wire \o it]
    BY <2>1, <2>7, Rewired
  <2>9. conn'[c] = IF ends THEN Closed(k2) ELSE k2
    BY <1>8, <2>1, <2>6, <2>7
  <2>10. conn'[c] = [reader |-> k.reader, up |-> TRUE, open |-> ~ends, set |-> k.set, wire |-> k.wire \o it]
    <3>1. CASE ends
      BY <2>8, <2>9, <3>1
    <3>2. CASE ~ends
      BY <2>9, <3>2
    <3>. QED BY <3>1, <3>2
  <2>. QED BY <2>2, <2>5, <2>10 DEF it
<1> HIDE DEF next, ends
<1>12. ends \in BOOLEAN /\ \A c \in Conns : conn[c].up \in BOOLEAN /\ conn[c].open \in BOOLEAN
  BY <1>2, ConnFacts DEF ends
<1>13. ASSUME NEW c \in Conns
       PROVE  /\ conn'[c] \in Connection \cup {Free}
              /\ conn'[c].open <=> conn[c].open /\ ~ends
              /\ conn'[c].open => conn'[c].reader = conn[c].reader /\ conn'[c].set = conn[c].set
              /\ conn'[c].up <=> conn[c].up
              /\ conn[c].up => conn'[c].reader = conn[c].reader
              /\ ~conn'[c].up => conn'[c] = Free \/ conn'[c].open
  <2>1. CASE c \notin Open
    <3>1. conn'[c] = conn[c] /\ ~conn[c].open
      BY <1>9, <2>1 DEF Open
    <3>2. conn[c] \in Connection \cup {Free} /\ (~conn[c].up => conn[c] = Free \/ conn[c].open)
      BY <1>2 DEF LinksMatch
    <3>. QED BY <3>1, <3>2
  <2>2. CASE c \in Open /\ ~conn[c].up
    <3>1. conn'[c] = (IF ends THEN Free ELSE conn[c]) /\ conn[c].open
      BY <1>10, <2>2 DEF Open
    <3>2. conn[c] \in Connection \cup {Free} /\ ~Free.up /\ ~Free.open
      BY <1>2 DEF Free
    <3>. QED BY <2>2, <3>1, <3>2
  <2>3. CASE c \in Open /\ conn[c].up
    <3> DEFINE w2 == conn[c].wire \o Items(log, DidOf[conn[c].reader], e)
    <3>1. /\ conn'[c] = [reader |-> conn[c].reader, up |-> TRUE, open |-> ~ends, set |-> conn[c].set,
                         wire |-> w2]
          /\ conn[c].reader \in Readers /\ conn[c].set \in Nat /\ w2 \in Wires /\ conn[c].open
      BY <1>11, <2>3 DEF Open
    <3> HIDE DEF w2
    <3>2. conn'[c] \in Connection
      BY <1>12, <3>1 DEF Connection, Wires
    <3>3. /\ conn'[c].open = ~ends /\ conn'[c].up = TRUE /\ conn'[c].reader = conn[c].reader
          /\ conn'[c].set = conn[c].set
      BY <3>1
    <3>. QED BY <2>3, <3>1, <3>2, <3>3
  <2>. QED BY <1>12, <2>1, <2>2, <2>3
<1>14. conn' \in [Conns -> Connection \cup {Free}]
  BY <1>7, <1>13
<1>15. LinksMatch'
  <2>1. ASSUME NEW q \in Readers, at'[q] # None PROVE conn'[at'[q]].up /\ conn'[at'[q]].reader = q
    <3>1. at'[q] = at[q] /\ at[q] \in Conns /\ conn[at[q]].up /\ conn[at[q]].reader = q
      BY <1>1, <1>2, <2>1 DEF LinksMatch
    <3>. QED BY <1>13, <3>1
  <2>2. ASSUME NEW c \in Conns, conn'[c].up PROVE at'[conn'[c].reader] = c
    <3>1. conn[c].up /\ conn'[c].reader = conn[c].reader
      BY <1>13, <2>2
    <3>. QED BY <1>1, <1>2, <3>1 DEF LinksMatch
  <2>. QED BY <1>13, <2>1, <2>2 DEF LinksMatch
<1>16. /\ slots' \in Seq(Conns) /\ entry' \in Nat \cup {None}
       /\ EachSlotOnce' /\ SlotsAreOpenStreams' /\ EntryIsTheOpenSet' /\ NoStreamOutlivesSession'
  <2>1. EndedBy(e) \in SUBSET Conns
    BY <1>5 DEF Open
  <2>2. Open' = Open \ EndedBy(e)
    <3>1. Open' = IF ends THEN {} ELSE Open
      BY <1>12, <1>13 DEF Open
    <3>. QED BY <1>5, <3>1
  <2>3. \A c \in Open' : conn'[c].reader = conn[c].reader /\ conn'[c].set = conn[c].set
    BY <1>13 DEF Open
  <2>4. state' \in TerminalStates => Open' = {}
    <3>1. CASE state \in TerminalStates
      BY <2>2, <3>1, OverMeansClosed
    <3>2. CASE state \notin TerminalStates
      BY <1>4, <1>5, <2>2, <3>2
    <3>. QED BY <3>1, <3>2
  <2>. QED BY <1>1, <2>1, <2>2, <2>3, <2>4, CleanupKeeps
<1>17. TypeOK'
  BY <1>1, <1>2, <1>3, <1>4, <1>14, <1>16 DEF TypeOK, Logged
<1>18. AllReadersGood'
  <2>1. ASSUME NEW q \in Readers, at'[q] = None PROVE InitialPart(log', DidOf[q], received'[q])
    <3>1. InitialPart(log, DidOf[q], received[q])
      BY <1>1, <1>2, <2>1 DEF AllReadersGood
    <3>. QED BY <1>1, <1>2, <1>3, <3>1, InitialPartKept
  <2>. QED BY <2>1 DEF AllReadersGood
<1>19. ASSUME NEW c \in Conns, conn[c].up
       PROVE  Good(log', state', DidOf[conn'[c].reader], received'[conn'[c].reader],
                   conn'[c].wire, conn'[c].open)
  <2> DEFINE r == conn[c].reader
             did == DidOf[r]
             rc == received[r]
             w == conn[c].wire
  <2>1. r \in Readers /\ w \in Wires /\ rc \in Seq(Nat)
    BY <1>2, <1>19, ConnFacts
  <2>2. Good(log, state, did, rc, w, conn[c].open)
    BY <1>2, <1>19 DEF AllStreamsGood, GoodConn
  <2>3. conn'[c].reader = r /\ received'[r] = rc
    BY <1>1, <1>13, <1>19
  <2> HIDE DEF r, did, rc, w
  <2>4. CASE c \in Open
    <3>1. Good(log, state, did, rc, w, TRUE)
      BY <2>2, <2>4 DEF Open
    <3> DEFINE w2 == w \o Items(log, did, e)
    <3>0. conn'[c] = [reader |-> r, up |-> TRUE, open |-> ~ends, set |-> conn[c].set, wire |-> w2]
      BY <1>11, <1>19, <2>4 DEF w, did, r
    <3> HIDE DEF w2
    <3>2. conn'[c].wire = w2 /\ conn'[c].open = ~ends
      BY <3>0
    <3>3. e.type \in TerminalEventTypes => ~(~ends) /\ state' \in TerminalStates
      BY <1>4 DEF ends
    <3>4. Good(Append(log, e), state', did, rc, w \o Items(log, did, e), ~ends)
      BY <1>2, <1>3, <1>12, <2>1, <3>1, <3>3, GoodTold
    <3>. QED BY <1>1, <2>3, <3>2, <3>4 DEF did, w2
  <2>5. CASE c \notin Open
    <3>1. conn'[c] = conn[c] /\ conn[c].open = FALSE
      BY <1>9, <1>12, <2>5 DEF Open
    <3>2. Good(log, state, did, rc, w, FALSE)
      BY <2>2, <3>1
    <3>3. Good(Append(log, e), state', did, rc, w, FALSE)
      BY <1>2, <1>3, <1>4, <3>2, GoodUntold
    <3>. QED BY <1>1, <2>3, <3>1, <3>3 DEF did, w
  <2>. QED BY <2>4, <2>5
<1>20. AllStreamsGood'
  BY <1>13, <1>19 DEF AllStreamsGood, GoodConn
<1>. QED BY <1>15, <1>16, <1>17, <1>18, <1>20, InvNext

\* There is a number for a new Set.
LEMMA NewSetType ==
  ASSUME TypeOK
  PROVE  NewSet \in Nat
<1> DEFINE N == Cardinality(Conns)
           Used(n) == \E c \in Conns : conn[c] # Free /\ conn[c].set = n
<1>1. IsFiniteSet(Conns) /\ N \in Nat
  BY StreamAssumption, FS_CardinalityType
<1>2. ASSUME \A n \in 1..(N + 1) : Used(n) PROVE FALSE
  <2> DEFINE g == [n \in 1..(N + 1) |-> CHOOSE c \in Conns : conn[c] # Free /\ conn[c].set = n]
  <2>1. \A n \in 1..(N + 1) : g[n] \in Conns /\ conn[g[n]].set = n
    BY <1>2
  <2>2. g \in [1..(N + 1) -> Conns]
    BY <2>1
  <2>3. IsFiniteSet(1..(N + 1)) /\ Cardinality(1..(N + 1)) = N + 1
    <3>1. 1 \in Int /\ N + 1 \in Int /\ ~(1 > N + 1) /\ (N + 1) - 1 + 1 = N + 1
      BY <1>1
    <3> HIDE DEF N
    <3>. QED BY <3>1, FS_Interval
  <2> HIDE DEF g
  <2>4. Cardinality(Conns) < Cardinality(1..(N + 1))
    BY <1>1, <2>3
  <2>5. \E x, y \in 1..(N + 1) : x # y /\ g[x] = g[y]
    <3> HIDE DEF N
    <3>. QED BY <1>1, <2>2, <2>3, <2>4, FS_PigeonHole
  <2>. QED BY <2>1, <2>5
<1>3. PICK n \in 1..(N + 1) : ~Used(n)
  BY <1>2
<1>4. \E m \in 1..(Cardinality(Conns) + 1) : \A c \in Conns : conn[c] # Free => conn[c].set # m
  BY <1>3
<1>5. NewSet \in 1..(Cardinality(Conns) + 1)
  BY <1>4 DEF NewSet
<1>. QED BY <1>1, <1>5

\* Who gets in leaves the tracker within its limits.
LEMMA AcquireBounds ==
  ASSUME StreamInv, NEW did \in Dids, NEW evicted \in SUBSET ToSet(slots), Acquire(did, evicted)
  PROVE  /\ Len(Keep(slots, Conns \ evicted)) + 1 <= MaxPerSession
         /\ Cardinality({c \in Conns : conn[c].open /\ Did(c) = did}) + 1 <= MaxPerDid
<1> DEFINE left == Keep(slots, Conns \ evicted)
<1>1. /\ TypeOK /\ EachSlotOnce /\ SlotsAreOpenStreams
      /\ slots \in Seq(Conns) /\ Once(slots) /\ ToSet(slots) = Open
  BY InvFacts
<1>2. left \in Seq(Conns) /\ Once(left) /\ ToSet(left) = ToSet(slots) \ evicted /\ (evicted = {} => left = slots)
  BY <1>1, SlotsLeft
<1> HIDE DEF left
<1>3. /\ IsFiniteSet(ToSet(slots)) /\ Cardinality(ToSet(slots)) = Len(slots)
      /\ Cardinality(ToSet(left)) = Len(left) /\ Len(slots) \in Nat /\ Len(left) \in Nat
  <2>1. IsFiniteSet(ToSet(slots)) /\ Cardinality(ToSet(slots)) = Len(slots)
    BY <1>1, OnceCard
  <2>2. Cardinality(ToSet(left)) = Len(left)
    BY <1>2, OnceCard
  <2>3. Len(slots) \in Nat /\ Len(left) \in Nat
    BY <1>1, <1>2
  <2>. QED BY <2>1, <2>2, <2>3
<1>4. MaxPerSession \in Nat /\ Len(slots) <= MaxPerSession /\ MaxPerDid \in Nat
  BY <1>1, StreamAssumption DEF TypeOK, MaxPerSession, SlotsAreOpenStreams
<1>5. Len(left) + 1 <= MaxPerSession
  <2>1. CASE Len(slots) < MaxPerSession
    <3>1. evicted = {}
      BY <2>1 DEF Acquire, CountForSession
    <3>. QED BY <1>2, <1>3, <1>4, <2>1, <3>1
  <2>2. CASE ~(Len(slots) < MaxPerSession)
    <3>1. PICK h : evicted = {h}
      BY <2>2 DEF Acquire, CountForSession
    <3>2. h \in ToSet(slots) /\ ToSet(left) = ToSet(slots) \ {h}
      BY <1>2, <3>1
    <3>3. Cardinality(ToSet(left)) = Cardinality(ToSet(slots)) - 1
      BY <1>3, <3>2, FS_RemoveElement
    <3>. QED BY <1>3, <1>4, <3>3
  <2>. QED BY <2>1, <2>2
<1>6. Cardinality({c \in Conns : conn[c].open /\ Did(c) = did}) + 1 <= MaxPerDid
  <2>1. {c \in ToSet(slots) : Did(c) = did} = {c \in Conns : conn[c].open /\ Did(c) = did}
    BY <1>1 DEF Open
  <2> DEFINE B == {c \in ToSet(slots) : Did(c) = did}
  <2>2. IsFiniteSet(B) /\ Cardinality(B) \in Nat
    <3>1. B \in SUBSET ToSet(slots)
      OBVIOUS
    <3> HIDE DEF B
    <3>. QED BY <1>3, <3>1, FS_Subset, FS_CardinalityType
  <2>3. Cardinality(B) < MaxPerDid
    BY DEF Acquire, CountForDid
  <2> HIDE DEF B
  <2>4. Cardinality(B) + 1 <= MaxPerDid
    BY <1>4, <2>2, <2>3
  <2>. QED BY <2>1, <2>4 DEF B
<1>. QED BY <1>5, <1>6 DEF left

\* What the connections are after r got one, c, and others were evicted.
LEMMA ConnectConns ==
  ASSUME StreamInv, NEW r \in Readers, NEW c \in Conns, conn[c] = Free, NEW evicted \in SUBSET ToSet(slots),
         NEW new \in Connection, new.up, new.reader = r,
         conn' = [d \in Conns |->
                    CASE d = c -> new
                      [] d \in evicted -> Closed(Send(conn[d], <<EvictedMessage>>))
                      [] OTHER -> conn[d]]
  PROVE  /\ conn' \in [Conns -> Connection \cup {Free}] /\ conn'[c] = new
         /\ c \notin Open /\ evicted \subseteq Open /\ c \notin evicted
         /\ \A d \in Conns \ ({c} \cup evicted) : conn'[d] = conn[d]
         /\ \A d \in evicted :
              /\ conn'[d].open = FALSE
              /\ ~conn[d].up => conn'[d] = Free
              /\ conn[d].up => /\ conn'[d].up /\ conn'[d].reader = conn[d].reader
                               /\ conn'[d].wire = conn[d].wire \o <<EvictedMessage>>
<1>1. TypeOK /\ ToSet(slots) = Open /\ conn \in [Conns -> Connection \cup {Free}]
  BY InvFacts DEF TypeOK
<1>2. c \notin Open /\ evicted \subseteq Open /\ c \notin evicted
  <2>1. c \notin Open
    BY <1>1, ConnFacts DEF Open
  <2>. QED BY <1>1, <2>1
<1>3. conn'[c] = new
  BY <1>2
<1>4. \A d \in Conns \ ({c} \cup evicted) : conn'[d] = conn[d]
  OBVIOUS
<1>5. \A d \in evicted : d \in Conns /\ conn'[d] = Closed(Send(conn[d], <<EvictedMessage>>))
  BY <1>2 DEF Open
<1>6. ASSUME NEW d \in evicted, ~conn[d].up PROVE conn'[d] = Free /\ conn'[d].open = FALSE
  <2>1. conn'[d] = Free
    BY <1>5, <1>6 DEF Send, Closed
  <2>2. Free.open = FALSE
    BY DEF Free
  <2>. QED BY <2>1, <2>2
<1>7. ASSUME NEW d \in evicted, conn[d].up
      PROVE  /\ conn'[d] \in Connection /\ conn'[d].open = FALSE /\ conn'[d].up
             /\ conn'[d].reader = conn[d].reader /\ conn'[d].wire = conn[d].wire \o <<EvictedMessage>>
  <2> DEFINE k == conn[d]
             w2 == k.wire \o <<EvictedMessage>>
  <2>1. k \in Connection /\ k.open /\ k.wire \in Wires /\ k.reader \in Readers /\ k.set \in Nat
    BY <1>1, <1>2, <1>7, ConnFacts DEF Open
  <2>2. w2 \in Wires
    <3> DEFINE T == Nat \cup {TerminalMessage, EvictedMessage}
    <3>1. Wires = Seq(T) /\ <<EvictedMessage>> \in Seq(T)
      BY DEF Wires
    <3> HIDE DEF k, T
    <3>. QED BY <2>1, <3>1
  <2>3. Send(k, <<EvictedMessage>>) = [k EXCEPT !.wire = w2]
    BY <1>7 DEF Send
  <2> HIDE DEF w2
  <2>4. Closed([k EXCEPT !.wire = w2]) =
          [reader |-> k.reader, up |-> TRUE, open |-> FALSE, set |-> k.set, wire |-> w2]
    BY <1>7, <2>1, Rewired
  <2>5. conn'[d] = [reader |-> k.reader, up |-> TRUE, open |-> FALSE, set |-> k.set, wire |-> w2]
    BY <1>5, <2>3, <2>4
  <2> DEFINE y == conn'[d]
             rd == k.reader
             sn == k.set
  <2>6. /\ y = [reader |-> rd, up |-> TRUE, open |-> FALSE, set |-> sn, wire |-> w2]
        /\ rd \in Readers /\ sn \in Nat
    BY <2>1, <2>5
  <2> HIDE DEF y, rd, sn, k
  <2>7. y \in Connection
    BY <2>2, <2>6 DEF Connection, Wires
  <2>8. y.open = FALSE /\ y.up = TRUE /\ y.reader = rd /\ y.wire = w2
    BY <2>6
  <2>. QED BY <2>7, <2>8 DEF y, rd, k, w2
<1>8. \A d \in Conns : conn'[d] \in Connection \cup {Free}
  BY <1>1, <1>3, <1>4, <1>5, <1>6, <1>7
<1>9. conn' \in [Conns -> Connection \cup {Free}]
  BY <1>8
<1>. QED BY <1>2, <1>3, <1>4, <1>6, <1>7, <1>9

\* The slots with one more stream, of reader r.
LEMMA SlotAdded ==
  ASSUME StreamInv, NEW r \in Readers, NEW c \in Conns, c \notin Open, NEW evicted \in SUBSET ToSet(slots),
         Acquire(DidOf[r], evicted), slots' = Append(Keep(slots, Conns \ evicted), c),
         Open' = (Open \ evicted) \cup {c}, conn'[c].reader = r,
         \A d \in Open \ evicted : conn'[d].reader = conn[d].reader, scope' = scope
  PROVE  slots' \in Seq(Conns) /\ EachSlotOnce' /\ SlotsAreOpenStreams'
<1> DEFINE left == Keep(slots, Conns \ evicted)
           did == DidOf[r]
<1>1. /\ TypeOK /\ EachSlotOnce /\ SlotsAreOpenStreams
      /\ slots \in Seq(Conns) /\ Once(slots) /\ ToSet(slots) = Open
  BY InvFacts
<1>2. left \in Seq(Conns) /\ Once(left) /\ ToSet(left) = Open \ evicted
  BY <1>1, SlotsLeft
<1>3. did \in Dids
  BY StreamAssumption
<1>4. /\ Len(left) + 1 <= MaxPerSession
      /\ Cardinality({d \in Conns : conn[d].open /\ Did(d) = did}) + 1 <= MaxPerDid
  BY <1>3, AcquireBounds
<1>5. slots' = Append(left, c)
  OBVIOUS
<1> HIDE DEF left, did
<1>6. slots' \in Seq(Conns) /\ Len(slots') = Len(left) + 1
  <2>1. left \in Seq(Conns)
    BY <1>2
  <2>2. Append(left, c) \in Seq(Conns) /\ Len(Append(left, c)) = Len(left) + 1
    BY ONLY <2>1, c \in Conns
  <2>. QED BY ONLY <1>5, <2>2
<1>7. ToSet(slots') = Open'
  <2>1. ToSet(Append(left, c)) = ToSet(left) \cup {c}
    BY <1>2, AppendSet
  <2>. QED BY <1>2, <1>5, <2>1
<1>8. Once(slots')
  <2>1. c \notin ToSet(left)
    BY <1>2
  <2>2. left \in Seq(Conns) /\ Once(left)
    BY <1>2
  <2>3. Once(Append(left, c))
    BY <2>1, <2>2, AppendOnce
  <2>. QED BY ONLY <1>5, <2>3
<1>9. IsFiniteSet(ToSet(slots')) /\ Cardinality(ToSet(slots')) = Len(slots')
  BY <1>6, <1>8, OnceCard
<1>10. Len(slots') <= MaxPerSession'
  BY <1>4, <1>6 DEF MaxPerSession
<1>11. ASSUME NEW p \in Dids
       PROVE  Cardinality({d \in Conns : conn'[d].open /\ DidOf[conn'[d].reader] = p}) <= MaxPerDid
  <2> DEFINE A == {d \in Conns : conn'[d].open /\ DidOf[conn'[d].reader] = p}
             B == {d \in Conns : conn[d].open /\ DidOf[conn[d].reader] = p}
  <2>1. IsFiniteSet(B)
    <3>1. B \in SUBSET ToSet(slots)
      BY <1>1 DEF Open
    <3>2. IsFiniteSet(ToSet(slots))
      BY <1>1, OnceCard
    <3> HIDE DEF B
    <3>. QED BY <3>1, <3>2, FS_Subset
  <2>2. Cardinality(B) <= MaxPerDid
    BY <1>1 DEF SlotsAreOpenStreams, Did
  <2>3. Cardinality(B) \in Nat /\ MaxPerDid \in Nat
    BY <2>1, FS_CardinalityType, StreamAssumption
  <2>4. A \in SUBSET (B \cup {c}) /\ (p # did => A \in SUBSET B)
    <3>1. ASSUME NEW d \in A, d # c PROVE d \in B
      <4>1. d \in Open \ evicted
        BY <3>1 DEF Open
      <4>. QED BY <3>1, <4>1 DEF Open
    <3>2. ASSUME p # did PROVE c \notin A
      BY <3>2 DEF did
    <3> HIDE DEF A, B
    <3>. QED BY <3>1, <3>2
  <2>5. CASE p # did
    <3> HIDE DEF A, B
    <3>1. A \in SUBSET B
      BY <2>4, <2>5
    <3>2. IsFiniteSet(A) /\ Cardinality(A) <= Cardinality(B)
      BY <2>1, <3>1, FS_Subset
    <3>3. Cardinality(A) \in Nat
      BY <3>2, FS_CardinalityType
    <3>4. Cardinality(A) <= MaxPerDid
      BY <2>2, <2>3, <3>2, <3>3
    <3>. QED BY <3>4 DEF A
  <2>6. CASE p = did
    <3>1. Cardinality(B) + 1 <= MaxPerDid
      BY <1>4, <2>6 DEF Did
    <3> HIDE DEF A, B
    <3>2. IsFiniteSet(B \cup {c}) /\ Cardinality(B \cup {c}) <= Cardinality(B) + 1
      <4>1. Cardinality(B \cup {c}) = IF c \in B THEN Cardinality(B) ELSE Cardinality(B) + 1
        BY <2>1, FS_AddElement
      <4>2. IsFiniteSet(B \cup {c})
        BY <2>1, FS_AddElement
      <4>. QED BY <2>3, <4>1, <4>2
    <3>3. IsFiniteSet(A) /\ Cardinality(A) <= Cardinality(B \cup {c})
      BY <2>4, <3>2, FS_Subset
    <3>4. Cardinality(A) \in Nat /\ Cardinality(B \cup {c}) \in Nat
      BY <3>2, <3>3, FS_CardinalityType
    <3>5. Cardinality(A) <= MaxPerDid
      BY <2>3, <3>1, <3>2, <3>3, <3>4
    <3>. QED BY <3>5 DEF A
  <2>. QED BY <2>5, <2>6
<1>12. EachSlotOnce'
  BY <1>8 DEF EachSlotOnce, Once
<1>13. SlotsAreOpenStreams'
  BY <1>7, <1>9, <1>10, <1>11 DEF SlotsAreOpenStreams, Open, Did
<1>. QED BY <1>6, <1>12, <1>13

\* A reader gets a stream.
LEMMA ConnectStep ==
  ASSUME StreamInv, NEW r \in Readers, Connect(r)
  PROVE  StreamInv'
<1> DEFINE did == DidOf[r]
           c == NewConn
           over == state \in TerminalStates
           replay == GetEvents(did, Cursor(r))
<1>1. /\ at[r] = None /\ (\E d \in Conns : conn[d] = Free)
      /\ at' = [at EXCEPT ![r] = c]
      /\ UNCHANGED <<log, state, received, told, faults, scope>>
  BY DEF Connect, MayRead
<1>2. /\ TypeOK /\ LinksMatch /\ EntryIsTheOpenSet /\ EachSlotOnce /\ SlotsAreOpenStreams
      /\ NoStreamOutlivesSession /\ AllReadersGood /\ AllStreamsGood
      /\ slots \in Seq(Conns) /\ Once(slots) /\ ToSet(slots) = Open /\ log \in Seq(Logged)
      /\ received \in [Readers -> Seq(Nat)] /\ at \in [Readers -> Conns \cup {None}]
      /\ entry \in Nat \cup {None}
  BY InvFacts DEF TypeOK
<1>3. c \in Conns /\ conn[c] = Free
  BY <1>1 DEF NewConn
<1> DEFINE left(ev) == Keep(slots, Conns \ ev)
           set(ev) == IF EntryAfter(ev) = None THEN NewSet ELSE EntryAfter(ev)
           new(ev) == [reader |-> r, up |-> TRUE, open |-> ~over, set |-> set(ev),
                       wire |-> IF over THEN Append(replay, TerminalMessage) ELSE replay]
<1>4. PICK ev \in SUBSET ToSet(slots) :
        /\ Acquire(did, ev)
        /\ slots' = IF over THEN left(ev) ELSE Append(left(ev), c)
        /\ entry' = IF over THEN EntryAfter(ev) ELSE set(ev)
        /\ conn' = [d \in Conns |->
                      CASE d = c -> new(ev)
                        [] d \in ev -> Closed(Send(conn[d], <<EvictedMessage>>))
                        [] OTHER -> conn[d]]
  BY DEF Connect
<1> DEFINE w == IF over THEN Append(replay, TerminalMessage) ELSE replay
           sn == set(ev)
           n == new(ev)
<1>5. /\ received[r] \in Seq(Nat) /\ InitialPart(log, did, received[r])
      /\ w \in Wires /\ Good(log, state, did, received[r], w, ~over)
  <2> DEFINE x == Ids({i \in SeenSet(log, did) : i > CursorOf(received[r])}, Len(log))
  <2>1. received[r] \in Seq(Nat) /\ InitialPart(log, did, received[r])
    BY <1>1, <1>2 DEF AllReadersGood
  <2>2. replay = x
    <3>1. Cursor(r) = CursorOf(received[r])
      BY DEF Cursor, CursorOf
    <3>2. CursorOf(received[r]) \in Nat
      BY <1>2, <2>1, CursorCompletes
    <3>3. Len(log) \in Nat
      BY <1>2
    <3>. QED BY <3>1, <3>2, <3>3, VisibleIds DEF GetEvents
  <2>3. /\ x \in Wires /\ Append(x, TerminalMessage) \in Wires
        /\ Good(log, state, did, received[r], x, TRUE)
        /\ over => Good(log, state, did, received[r], Append(x, TerminalMessage), FALSE)
    BY <1>2, <2>1, GoodFresh
  <2> HIDE DEF x, replay
  <2>4. CASE over
    BY <2>1, <2>2, <2>3, <2>4
  <2>5. CASE ~over
    BY <2>1, <2>2, <2>3, <2>5
  <2>. QED BY <2>4, <2>5
<1>6. EntryAfter(ev) \in Nat \cup {None} /\ sn \in Nat
  <2>1. EntryAfter(ev) \in Nat \cup {None}
    BY <1>2 DEF EntryAfter
  <2>2. NewSet \in Nat
    BY <1>2, NewSetType
  <2>. QED BY <2>1, <2>2
<1>7. n = [reader |-> r, up |-> TRUE, open |-> ~over, set |-> sn, wire |-> w]
  OBVIOUS
<1>8. conn' = [d \in Conns |->
                 CASE d = c -> n
                   [] d \in ev -> Closed(Send(conn[d], <<EvictedMessage>>))
                   [] OTHER -> conn[d]]
  BY <1>4
<1> HIDE DEF w, sn, n, set, new, over
<1>9. n \in Connection /\ n.up = TRUE /\ n.reader = r /\ n.open = ~over /\ n.set = sn /\ n.wire = w
  <2>1. over \in BOOLEAN
    BY DEF over
  <2>2. n \in Connection
    BY <1>5, <1>6, <1>7, <2>1 DEF Connection, Wires
  <2>. QED BY <1>7, <2>2
<1> HIDE DEF c, replay
<1>10. /\ conn' \in [Conns -> Connection \cup {Free}] /\ conn'[c] = n
       /\ c \notin Open /\ ev \subseteq Open /\ c \notin ev
       /\ \A d \in Conns \ ({c} \cup ev) : conn'[d] = conn[d]
       /\ \A d \in ev : /\ conn'[d].open = FALSE
                        /\ ~conn[d].up => conn'[d] = Free
                        /\ conn[d].up => /\ conn'[d].up /\ conn'[d].reader = conn[d].reader
                                         /\ conn'[d].wire = conn[d].wire \o <<EvictedMessage>>
  BY <1>3, <1>8, <1>9, ConnectConns
<1>11. ~conn[c].up /\ ~conn[c].open
  BY <1>2, <1>3, ConnFacts
<1>12. Open' = IF over THEN Open \ ev ELSE (Open \ ev) \cup {c}
  <2>1. \A d \in Conns : d \in Open' <=> conn'[d].open
    BY DEF Open
  <2>2. \A d \in Conns : d \in Open <=> conn[d].open
    BY DEF Open
  <2>3. ASSUME NEW d \in Conns
        PROVE  d \in Open' <=> d \in IF over THEN Open \ ev ELSE (Open \ ev) \cup {c}
    <3>1. CASE d = c
      BY <1>9, <1>10, <2>1, <3>1
    <3>2. CASE d \in ev
      BY <1>10, <2>1, <3>2
    <3>3. CASE d # c /\ d \notin ev
      BY <1>10, <2>1, <2>2, <3>3
    <3>. QED BY <3>1, <3>2, <3>3
  <2>4. Open' \subseteq Conns /\ Open \subseteq Conns
    BY DEF Open
  <2>. QED BY <1>3, <2>3, <2>4
<1>13. \A d \in Open \ ev : conn'[d] = conn[d]
  BY <1>10 DEF Open
<1>14. /\ slots' \in Seq(Conns) /\ entry' \in Nat \cup {None}
       /\ EachSlotOnce' /\ SlotsAreOpenStreams' /\ EntryIsTheOpenSet' /\ NoStreamOutlivesSession'
  <2>1. CASE over
    <3>1. Open = {} /\ slots = <<>> /\ entry = None /\ ev = {}
      BY <1>2, <2>1, OverMeansClosed DEF over
    <3>2. slots' = slots /\ entry' = EntryAfter(ev) /\ Open' = Open
      BY <1>2, <1>4, <1>12, <2>1, <3>1, SlotsLeft
    <3>3. EachSlotOnce' /\ SlotsAreOpenStreams'
      BY <1>1, <1>2, <3>1, <3>2, SlotsShrink
    <3>4. EntryIsTheOpenSet'
      BY <1>2, <3>1, <3>2, EntryKept
    <3>5. entry' = None
      BY <3>1, <3>2 DEF EntryAfter
    <3>6. NoStreamOutlivesSession'
      BY <3>1, <3>2, <3>5 DEF NoStreamOutlivesSession
    <3>. QED BY <1>2, <3>2, <3>3, <3>4, <3>5, <3>6
  <2>2. CASE ~over
    <3>1. slots' = Append(left(ev), c) /\ entry' = sn /\ Open' = (Open \ ev) \cup {c}
      BY <1>4, <1>12, <2>2 DEF sn
    <3>2. slots' \in Seq(Conns) /\ EachSlotOnce' /\ SlotsAreOpenStreams'
      <4>1. Acquire(DidOf[r], ev)
        BY <1>4
      <4>2. slots' = Append(Keep(slots, Conns \ ev), c)
        BY <3>1
      <4>3. conn'[c].reader = r
        BY <1>9, <1>10
      <4>4. \A d \in Open \ ev : conn'[d].reader = conn[d].reader
        BY <1>13
      <4>5. scope' = scope /\ c \notin Open
        BY <1>1, <1>10
      <4>. QED BY <1>3, <3>1, <4>1, <4>2, <4>3, <4>4, <4>5, SlotAdded
    <3>3. entry' # None
      BY <1>6, <3>1, NoneAssumption
    <3>4. \A d \in Open \ ev : conn[d].set = sn
      <4>1. ASSUME NEW d \in Open \ ev PROVE conn[d].set = sn
        <5>1. conn[d].set = entry /\ entry # None
          BY <1>2 DEF EntryIsTheOpenSet, Open
        <5>2. EntryAfter(ev) = entry
          BY <1>2, <1>10, EntryLeft
        <5>. QED BY <5>1, <5>2 DEF sn, set
      <4>. QED BY <4>1
    <3>5. \A d \in Open' : conn'[d].set = entry'
      BY <1>9, <1>10, <1>13, <3>1, <3>4
    <3>6. EntryIsTheOpenSet'
      <4>1. \A d \in Conns : d \in Open' <=> conn'[d].open
        BY DEF Open
      <4>2. conn'[c].open
        BY <1>3, <3>1, <4>1
      <4>. QED BY <1>3, <3>3, <3>5, <4>1, <4>2 DEF EntryIsTheOpenSet
    <3>7. NoStreamOutlivesSession'
      BY <1>1, <2>2 DEF NoStreamOutlivesSession, over
    <3>. QED BY <1>6, <3>1, <3>2, <3>6, <3>7
  <2>. QED BY <2>1, <2>2
<1>15. at' \in [Readers -> Conns \cup {None}] /\ at'[r] = c /\ \A q \in Readers : q # r => at'[q] = at[q]
  BY <1>1, <1>2, <1>3
<1>16. TypeOK'
  BY <1>1, <1>2, <1>10, <1>14, <1>15 DEF TypeOK
<1>17. /\ \A d \in Conns \ {c} : conn[d].up => conn'[d].up /\ conn'[d].reader = conn[d].reader
       /\ \A d \in Conns \ {c} : conn'[d].up => conn[d].up /\ conn'[d].reader = conn[d].reader
  <2>1. Free.up = FALSE
    BY DEF Free
  <2>2. ASSUME NEW d \in Conns \ {c}, conn[d].up
        PROVE  conn'[d].up /\ conn'[d].reader = conn[d].reader
    <3>1. CASE d \in ev
      BY <1>10, <2>2, <3>1
    <3>2. CASE d \notin ev
      BY <1>10, <2>2, <3>2
    <3>. QED BY <3>1, <3>2
  <2>3. ASSUME NEW d \in Conns \ {c}, conn'[d].up
        PROVE  conn[d].up /\ conn'[d].reader = conn[d].reader
    <3>1. CASE d \in ev
      <4>1. conn[d].up
        BY <1>10, <2>1, <2>3, <3>1
      <4>. QED BY <1>10, <3>1, <4>1
    <3>2. CASE d \notin ev
      BY <1>10, <2>3, <3>2
    <3>. QED BY <3>1, <3>2
  <2>. QED BY <2>2, <2>3
<1>18. LinksMatch'
  <2>1. ASSUME NEW q \in Readers, at'[q] # None PROVE conn'[at'[q]].up /\ conn'[at'[q]].reader = q
    <3>1. CASE q = r
      BY <1>9, <1>10, <1>15, <3>1
    <3>2. CASE q # r
      <4>1. at'[q] = at[q] /\ at[q] \in Conns /\ conn[at[q]].up /\ conn[at[q]].reader = q
        BY <1>2, <1>15, <2>1, <3>2 DEF LinksMatch
      <4>2. at[q] # c
        BY <1>11, <4>1
      <4>. QED BY <1>17, <4>1, <4>2
    <3>. QED BY <3>1, <3>2
  <2>2. ASSUME NEW d \in Conns, conn'[d].up PROVE at'[conn'[d].reader] = d
    <3>1. CASE d = c
      BY <1>9, <1>10, <1>15, <3>1
    <3>2. CASE d # c
      <4>1. conn[d].up /\ conn'[d].reader = conn[d].reader
        BY <1>17, <2>2, <3>2
      <4>2. at[conn[d].reader] = d /\ conn[d].reader \in Readers /\ d # None
        BY <1>2, <4>1, ConnFacts, StreamAssumption DEF LinksMatch
      <4>3. conn[d].reader # r
        BY <1>1, <4>2
      <4>. QED BY <1>15, <4>1, <4>2, <4>3
    <3>. QED BY <3>1, <3>2
  <2>3. ASSUME NEW d \in Conns, ~conn'[d].up PROVE conn'[d] = Free \/ conn'[d].open
    <3>1. d # c
      BY <1>9, <1>10, <2>3
    <3>2. CASE d \in ev
      BY <1>10, <2>3, <3>2
    <3>3. CASE d \notin ev
      BY <1>2, <1>10, <2>3, <3>1, <3>3 DEF LinksMatch
    <3>. QED BY <3>2, <3>3
  <2>. QED BY <2>1, <2>2, <2>3 DEF LinksMatch
<1>19. AllReadersGood'
  <2>1. ASSUME NEW q \in Readers, at'[q] = None PROVE InitialPart(log', DidOf[q], received'[q])
    <3>1. c # None
      BY <1>3, StreamAssumption
    <3>2. q # r /\ at[q] = None
      BY <1>15, <2>1, <3>1
    <3>. QED BY <1>1, <1>2, <3>2 DEF AllReadersGood
  <2>. QED BY <2>1 DEF AllReadersGood
<1>20. ASSUME NEW d \in Conns, conn'[d].up
       PROVE  Good(log, state, DidOf[conn'[d].reader], received[conn'[d].reader], conn'[d].wire, conn'[d].open)
  <2>1. CASE d = c
    BY <1>5, <1>9, <1>10, <2>1
  <2>2. CASE d # c
    <3>1. conn[d].up /\ conn'[d].reader = conn[d].reader /\ conn[d].reader \in Readers /\ conn[d].wire \in Wires
      BY <1>2, <1>17, <1>20, <2>2, ConnFacts
    <3>2. Good(log, state, DidOf[conn[d].reader], received[conn[d].reader], conn[d].wire, conn[d].open)
      BY <1>2, <3>1 DEF AllStreamsGood, GoodConn
    <3>3. CASE d \in ev
      <4>1. conn[d].open
        BY <1>10, <3>3 DEF Open
      <4>2. received[conn[d].reader] \in Seq(Nat)
        BY <1>2, <3>1
      <4>3. Good(log, state, DidOf[conn[d].reader], received[conn[d].reader], conn[d].wire, TRUE)
        BY <3>2, <4>1
      <4>4. Good(log, state, DidOf[conn[d].reader], received[conn[d].reader],
                 conn[d].wire \o <<EvictedMessage>>, FALSE)
        BY <3>1, <4>2, <4>3, GoodEvicted
      <4>. QED BY <1>10, <3>1, <3>3, <4>4
    <3>4. CASE d \notin ev
      BY <1>10, <2>2, <3>2, <3>4
    <3>. QED BY <3>3, <3>4
  <2>. QED BY <2>1, <2>2
<1>21. AllStreamsGood'
  BY <1>1, <1>20 DEF AllStreamsGood, GoodConn
<1>. QED BY <1>14, <1>16, <1>18, <1>19, <1>21, InvNext

-----------------------------------------------------------------------------
(***************************************************************************)
(* The theorems.                                                           *)
(***************************************************************************)
LEMMA StreamInit == Init => StreamInv
<1> SUFFICES ASSUME Init PROVE StreamInv
  OBVIOUS
<1>1. /\ scope \in Scopes /\ log = scope.log /\ state = scope.state /\ slots = <<>> /\ entry = None
      /\ conn = [c \in Conns |-> Free] /\ at = [r \in Readers |-> None]
      /\ received = [r \in Readers |-> <<>>] /\ told = [r \in Readers |-> None] /\ faults = 0
  BY DEF Init
<1>2. /\ log \in Seq([type : EventTypes, seller : Sellers \cup {None}]) /\ state \in States
      /\ scope.faults \in Nat /\ scope.perSession \in Nat
  BY <1>1, StreamAssumption
<1>3. TypeOK
  BY <1>1, <1>2 DEF TypeOK
<1>4. \A c \in Conns : conn[c] = Free /\ ~conn[c].up /\ ~conn[c].open
  BY <1>1 DEF Free
<1>5. LinksMatch /\ EntryIsTheOpenSet /\ NoStreamOutlivesSession
  BY <1>1, <1>4 DEF LinksMatch, EntryIsTheOpenSet, NoStreamOutlivesSession
<1>6. EachSlotOnce
  BY <1>1 DEF EachSlotOnce
<1>7. SlotsAreOpenStreams
  <2>1. ToSet(slots) = {} /\ Len(slots) = 0
    BY <1>1 DEF ToSet
  <2>2. Cardinality({}) = 0
    BY FS_EmptySet
  <2>3. {c \in Conns : conn[c].open} = {} /\ \A d \in Dids : {c \in Conns : conn[c].open /\ Did(c) = d} = {}
    BY <1>4
  <2>4. 0 <= MaxPerSession /\ 0 <= MaxPerDid
    BY <1>2, StreamAssumption DEF MaxPerSession
  <2>. QED BY <2>1, <2>2, <2>3, <2>4 DEF SlotsAreOpenStreams
<1>8. AllReadersGood
  <2>1. ASSUME NEW r \in Readers PROVE InitialPart(log, DidOf[r], received[r])
    <3>1. received[r] = Ids(SeenSet(log, DidOf[r]), 0)
      BY <1>1, IdsZero
    <3>2. 0 \in 0..Len(log)
      BY <1>2
    <3>. QED BY <3>1, <3>2 DEF InitialPart
  <2>. QED BY <2>1 DEF AllReadersGood
<1>9. AllStreamsGood
  BY <1>4 DEF AllStreamsGood, GoodConn
<1>. QED BY <1>3, <1>5, <1>6, <1>7, <1>8, <1>9, GoodNow DEF StreamInv

LEMMA StreamStep == StreamInv /\ [Next]_vars => StreamInv'
<1> SUFFICES ASSUME StreamInv, [Next]_vars PROVE StreamInv'
  OBVIOUS
<1>1. CASE \E e \in Emitted : AppendEvent(e)
  BY <1>1, AppendStep
<1>2. CASE \E r \in scope.readers : Poll(r) \/ Connect(r) \/ ConnectRefused(r)
  <2>1. scope.readers \subseteq Readers
    BY StreamAssumption DEF StreamInv, TypeOK
  <2>. QED BY <1>2, <2>1, PollStep, ConnectStep, ConnectRefusedStep
<1>3. CASE \E c \in Conns : Receive(c) \/ Disconnect(c) \/ LinkLost(c) \/ Heartbeat(c)
  BY <1>3, ReceiveStep, DisconnectStep, LinkLostStep, HeartbeatStep
<1>4. CASE Restart
  BY <1>4, RestartStep
<1>5. CASE UNCHANGED vars
  <2>1. /\ TypeOK /\ LinksMatch /\ EntryIsTheOpenSet /\ EachSlotOnce /\ SlotsAreOpenStreams
        /\ NoStreamOutlivesSession /\ AllReadersGood /\ AllStreamsGood
    BY InvFacts
  <2>2. UNCHANGED <<log, state, slots, entry, conn, at, received, told, faults, scope>>
    BY <1>5 DEF vars
  <2>3. TypeOK'
    BY <2>1, <2>2 DEF TypeOK
  <2>4. LinksMatch' /\ EntryIsTheOpenSet' /\ EachSlotOnce' /\ SlotsAreOpenStreams' /\ NoStreamOutlivesSession'
    BY <2>1, <2>2 DEF LinksMatch, EntryIsTheOpenSet, EachSlotOnce, SlotsAreOpenStreams,
                      NoStreamOutlivesSession, MaxPerSession, Did
  <2>5. AllReadersGood' /\ AllStreamsGood'
    BY <2>1, <2>2 DEF AllReadersGood, AllStreamsGood
  <2>. QED BY <2>3, <2>4, <2>5, InvNext
<1>. QED BY <1>1, <1>2, <1>3, <1>4, <1>5 DEF Next

\* The inductive invariant of the streams: who listens to what, whose slots they
\* are, which subscribers the store holds, and that every reader is at some point
\* of what it may see (events.ts, event-store.ts, connection-tracker.ts).
THEOREM StreamInvHolds == Spec => []StreamInv
<1>1. Init => StreamInv
  BY StreamInit
<1>2. StreamInv /\ [Next]_vars => StreamInv'
  BY StreamStep
<1>. QED BY <1>1, <1>2, PTL DEF Spec

\* An initial part is a prefix of everything that may be seen.
LEMMA InitialPartIsPrefix ==
  ASSUME NEW lg \in Seq(Logged), NEW did, NEW sent, InitialPart(lg, did, sent)
  PROVE  IsPrefix(sent, Ids(SeenSet(lg, did), Len(lg)))
<1> DEFINE S == SeenSet(lg, did)
<1>1. PICK n \in 0..Len(lg) : sent = Ids(S, n)
  BY DEF InitialPart
<1> HIDE DEF S
<1>2. n \in Nat /\ Len(lg) \in Nat
  OBVIOUS
<1> DEFINE rest == Ids({i \in S : i > n}, Len(lg))
           all == Ids(S, Len(lg))
<1>3. sent \in Seq(Nat) /\ rest \in Seq(Nat)
  BY <1>1, <1>2, IdsType
<1>4. all = sent \o rest
  BY <1>1, <1>2, IdsSplit
<1> HIDE DEF rest, all
<1>5. Len(sent) <= Len(all)
  BY <1>3, <1>4
<1>6. SubSeq(sent, 1, Len(sent)) = SubSeq(all, 1, Len(sent))
  BY <1>3, <1>4
<1>. QED BY <1>5, <1>6 DEF IsPrefix, all, S

LEMMA StreamInvDelivers == StreamInv => DeliveryIsExact
<1> SUFFICES ASSUME StreamInv PROVE DeliveryIsExact
  OBVIOUS
<1>1. TypeOK /\ LinksMatch /\ AllReadersGood /\ AllStreamsGood /\ log \in Seq(Logged)
  BY InvFacts
<1>2. \A did : Visible(did) = Ids(SeenSet(log, did), Len(log))
  <2>1. Len(log) \in Nat
    BY <1>1
  <2>. QED BY <2>1, VisibleIds DEF Visible
<1>3. ASSUME NEW r \in Readers, at[r] # None
      PROVE  /\ at[r] \in Conns /\ conn[at[r]].up /\ conn[at[r]].reader = r
             /\ Sent(r) = received[r] \o Keep(conn[at[r]].wire, Nat)
             /\ Good(log, state, DidOf[r], received[r], conn[at[r]].wire, conn[at[r]].open)
  <2>1. at[r] \in Conns /\ conn[at[r]].up /\ conn[at[r]].reader = r
    BY <1>1, <1>3 DEF LinksMatch, TypeOK
  <2>2. Sent(r) = received[r] \o Keep(conn[at[r]].wire, Nat)
    BY <1>3 DEF Sent, EventsOn
  <2>3. GoodConn(log, state, received, conn[at[r]])
    BY <1>1, <2>1 DEF AllStreamsGood
  <2>. QED BY <2>1, <2>2, <2>3 DEF GoodConn
<1>4. ASSUME NEW r \in Readers PROVE IsPrefix(Sent(r), Visible(DidOf[r]))
  <2>1. InitialPart(log, DidOf[r], Sent(r))
    <3>1. CASE at[r] = None
      BY <1>1, <3>1 DEF AllReadersGood, Sent
    <3>2. CASE at[r] # None
      BY <1>3, <3>2 DEF Good
    <3>. QED BY <3>1, <3>2
  <2>. QED BY <1>1, <1>2, <2>1, InitialPartIsPrefix
<1>5. ASSUME NEW r \in Readers, at[r] # None, conn[at[r]].open PROVE Sent(r) = Visible(DidOf[r])
  BY <1>2, <1>3, <1>5 DEF Good
<1>6. ASSUME NEW c \in Conns, conn[c].up, NEW i \in DOMAIN conn[c].wire, conn[c].wire[i] = TerminalMessage
      PROVE  /\ i = Len(conn[c].wire)
             /\ Outcome(log, Did(c), Sent(conn[c].reader))
  <2>1. conn[c].reader \in Readers /\ at[conn[c].reader] = c /\ c # None
    BY <1>1, <1>6, ConnFacts, StreamAssumption DEF LinksMatch
  <2>2. /\ Sent(conn[c].reader) = received[conn[c].reader] \o Keep(conn[c].wire, Nat)
        /\ Good(log, state, Did(c), received[conn[c].reader], conn[c].wire, conn[c].open)
    BY <1>3, <2>1 DEF Did
  <2>3. TerminalMessage \in ToSet(conn[c].wire)
    BY <1>6 DEF ToSet
  <2>. QED BY <1>6, <2>2, <2>3 DEF Good, OnlyLast
<1>7. ReadersSeeAPrefix
  BY <1>4 DEF ReadersSeeAPrefix
<1>8. OpenStreamIsComplete
  BY <1>5 DEF OpenStreamIsComplete
<1>9. TerminalComesLast
  BY <1>6 DEF TerminalComesLast, Outcome
<1>. QED BY <1>1, <1>7, <1>8, <1>9 DEF DeliveryIsExact

\* Whatever mixture of polls, streams, evictions, lost links and restarts its
\* readers go through, for any number of readers and connections and any log: what
\* a reader was sent is an initial part of what its DID may see, all of it while
\* its stream is open, and the terminal message comes last (subscribeFrom and
\* getEvents of event-store.ts, replay and cursor of events.ts).
THEOREM DeliveryIsExactHolds == Spec => []DeliveryIsExact
BY StreamInvHolds, StreamInvDelivers, PTL

\* The buyer is refused only when it holds its own limit of streams: as long as
\* it does not, a session at capacity has somebody else's stream to evict.
LEMMA BuyerRefused ==
  ASSUME StreamInv, ~ \E evicted \in SUBSET ToSet(slots) : Acquire(Buyer, evicted)
  PROVE  CountForDid(Buyer) = MaxPerDid
<1> DEFINE B == {c \in ToSet(slots) : Did(c) = Buyer}
           X == {c \in ToSet(slots) : Did(c) # Buyer}
<1>1. TypeOK /\ SlotsAreOpenStreams /\ slots \in Seq(Conns) /\ Once(slots) /\ ToSet(slots) = Open
  BY InvFacts
<1>2. IsFiniteSet(ToSet(slots)) /\ Cardinality(ToSet(slots)) = Len(slots) /\ Len(slots) \in Nat
  BY <1>1, OnceCard
<1>3. IsFiniteSet(B) /\ Cardinality(B) \in Nat
  <2>1. B \in SUBSET ToSet(slots)
    OBVIOUS
  <2> HIDE DEF B
  <2>. QED BY <1>2, <2>1, FS_Subset, FS_CardinalityType
<1>4. CountForDid(Buyer) = Cardinality(B) /\ CountForSession = Len(slots)
  BY DEF CountForDid, CountForSession
<1>5. Cardinality(B) <= MaxPerDid
  <2>1. B = {c \in Conns : conn[c].open /\ Did(c) = Buyer}
    BY <1>1 DEF Open
  <2>2. Buyer \in Dids
    BY DEF Dids
  <2> HIDE DEF B
  <2>. QED BY <1>1, <2>1, <2>2 DEF SlotsAreOpenStreams
<1>6. MaxPerDid \in Nat /\ MaxPerSession \in Nat /\ MaxPerDid <= MaxPerSession
  BY <1>1, StreamAssumption DEF TypeOK, MaxPerSession
<1>7. ASSUME Cardinality(B) < MaxPerDid PROVE FALSE
  <2>1. ~(Len(slots) < MaxPerSession)
    <3>1. ASSUME Len(slots) < MaxPerSession PROVE Acquire(Buyer, {})
      BY <1>4, <1>7, <3>1 DEF Acquire
    <3>2. {} \in SUBSET ToSet(slots)
      OBVIOUS
    <3>. QED BY <3>1, <3>2
  <2>2. NonBuyerSlots \in Seq(Conns) /\ ToSet(NonBuyerSlots) = ToSet(slots) \cap X
    BY <1>1, KeepType, KeepSet DEF NonBuyerSlots
  <2>3. NonBuyerSlots = <<>>
    <3>1. SUFFICES ASSUME NonBuyerSlots # <<>> PROVE FALSE
      OBVIOUS
    <3>2. Head(NonBuyerSlots) \in ToSet(NonBuyerSlots)
      <4> DEFINE q == NonBuyerSlots
      <4>1. q \in Seq(Conns) /\ q # <<>>
        BY <2>2, <3>1
      <4> HIDE DEF q
      <4>2. Len(q) \in Nat /\ Len(q) # 0 /\ DOMAIN q = 1..Len(q) /\ Head(q) = q[1]
        BY <4>1
      <4>3. 1 \in DOMAIN q
        BY <4>2
      <4>4. Head(q) \in ToSet(q)
        BY <4>2, <4>3 DEF ToSet
      <4>. QED BY <4>4 DEF q
    <3>3. {Head(NonBuyerSlots)} \in SUBSET ToSet(slots)
      BY <2>2, <3>2
    <3>4. Acquire(Buyer, {Head(NonBuyerSlots)})
      BY <1>4, <1>7, <2>1, <3>1 DEF Acquire
    <3>. QED BY <3>3, <3>4
  <2>4. ToSet(NonBuyerSlots) = {}
    BY <2>2, <2>3, EmptySet
  <2>5. B = ToSet(slots)
    BY <2>2, <2>4
  <2>6. Cardinality(B) = Len(slots)
    BY <1>2, <2>5
  <2> HIDE DEF B
  <2>. QED BY <1>2, <1>6, <1>7, <2>1, <2>6
<1> HIDE DEF B
<1>. QED BY <1>3, <1>4, <1>5, <1>6, <1>7

\* Only a refusal tells a reader that there is no slot.
LEMMA BuyerStep ==
  StreamInv /\ [Next]_vars =>
    [\A r \in Readers :
       DidOf[r] = Buyer /\ told'[r] = LimitMessage /\ told[r] # LimitMessage
         => CountForDid(Buyer) = MaxPerDid]_vars
<1> SUFFICES ASSUME StreamInv, Next, NEW r \in Readers,
                    DidOf[r] = Buyer, told'[r] = LimitMessage, told[r] # LimitMessage
             PROVE  CountForDid(Buyer) = MaxPerDid
  OBVIOUS
<1>1. TypeOK
  BY InvFacts
<1>2. told' # told /\ told \in [Readers -> Messages \cup {None}]
  BY <1>1 DEF TypeOK
<1>3. CASE \E e \in Emitted : AppendEvent(e)
  BY <1>2, <1>3 DEF AppendEvent
<1>4. ASSUME NEW q \in scope.readers, Poll(q) \/ Connect(q)
      PROVE  FALSE
  BY <1>2, <1>4 DEF Poll, Connect
<1>5. ASSUME NEW q \in scope.readers, ConnectRefused(q)
      PROVE  CountForDid(Buyer) = MaxPerDid
  <2>1. /\ told' = [told EXCEPT ![q] = LimitMessage]
        /\ ~ \E evicted \in SUBSET ToSet(slots) : Acquire(DidOf[q], evicted)
    BY <1>5 DEF ConnectRefused
  <2>2. q = r
    BY <1>2, <2>1
  <2>3. ~ \E evicted \in SUBSET ToSet(slots) : Acquire(Buyer, evicted)
    BY <2>1, <2>2
  <2>. QED BY <2>3, BuyerRefused
<1>6. ASSUME NEW c \in Conns, Receive(c)
      PROVE  FALSE
  <2> DEFINE w == conn[c].wire
             q == conn[c].reader
  <2>1. conn[c].up /\ w # <<>> /\ told' = [told EXCEPT ![q] = Head(w)]
    <3>1. conn[c].up /\ w # <<>> /\ (told' = [told EXCEPT ![q] = Head(w)] \/ told' = told)
      BY <1>6 DEF Receive
    <3>. QED BY <1>2, <3>1
  <2>2. w \in Wires
    BY <1>1, <2>1, ConnFacts
  <2> HIDE DEF w, q
  <2>3. Head(w) \in Nat \cup {TerminalMessage, EvictedMessage}
    BY <2>1, <2>2, WireSplits
  <2>4. Head(w) # LimitMessage
    BY <2>3, MessagesAreNoEvents
  <2>. QED BY <1>2, <2>1, <2>4
<1>7. ASSUME NEW c \in Conns, Disconnect(c) \/ LinkLost(c) \/ Heartbeat(c)
      PROVE  FALSE
  BY <1>2, <1>7 DEF Disconnect, LinkLost, Heartbeat
<1>8. CASE Restart
  BY <1>2, <1>8 DEF Restart
<1>. QED BY <1>3, <1>4, <1>5, <1>6, <1>7, <1>8 DEF Next

\* No way a stream can end leaks or doubles a slot, the end of the session leaves
\* none, the limits hold, and the buyer is refused only at its own limit however
\* many streams the sellers hold (acquire and release of connection-tracker.ts,
\* cleanup of events.ts).
THEOREM SlotsAreAccountedHolds == Spec => SlotsAreAccounted
<1>1. StreamInv => SlotsAreOpenStreams /\ NoStreamOutlivesSession
  BY DEF StreamInv
<1>2. StreamInv /\ [Next]_vars =>
        [\A r \in Readers :
           DidOf[r] = Buyer /\ told'[r] = LimitMessage /\ told[r] # LimitMessage
             => CountForDid(Buyer) = MaxPerDid]_vars
  BY BuyerStep
<1>3. Spec => [](SlotsAreOpenStreams /\ NoStreamOutlivesSession)
  BY <1>1, StreamInvHolds, PTL
<1>4. Spec => BuyerGetsIn
  BY <1>2, StreamInvHolds, PTL DEF Spec, BuyerGetsIn
<1>. QED BY <1>3, <1>4 DEF SlotsAreAccounted

=============================================================================
