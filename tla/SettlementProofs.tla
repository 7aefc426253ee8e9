------------------------- MODULE SettlementProofs -------------------------
(***************************************************************************)
(* Proofs about Amounts and Settlement: normalizeAmount computes what a    *)
(* decimal string is worth, for every string and every number of decimals; *)
(* what is accepted, paid and served agrees, for every set of requests,    *)
(* documents and payments, and every scope.                                *)
(***************************************************************************)
EXTENDS Settlement, DataInduction, SequenceTheorems

\* Multiplication is monotonic.
LEMMA TimesMonotonic ==
  ASSUME NEW a \in Int, NEW b \in Int, NEW c \in Nat, a <= b
  PROVE  a * c <= b * c
OBVIOUS

\* ... and strictly so.
LEMMA TimesStrict ==
  ASSUME NEW a \in Int, NEW b \in Int, NEW c \in Nat, c > 0, a < b
  PROVE  a * c < b * c
OBVIOUS

\* Products of naturals are naturals and associate.
LEMMA TimesAssociative ==
  ASSUME NEW a \in Nat, NEW b \in Nat, NEW c \in Nat
  PROVE  a * b \in Nat /\ a * (b * c) = (a * b) * c
OBVIOUS

-----------------------------------------------------------------------------
\* Is p the table of the powers of ten up to n?
IsPowerTable(p, n) ==
  p \in [0..n -> Nat] /\ p[0] = 1 /\ \A i \in 1..n : p[i] = 10 * p[i - 1]

\* PowerOfTen reads such a table.
LEMMA PowerTable ==
  ASSUME NEW n \in Nat
  PROVE  \E p : IsPowerTable(p, n) /\ PowerOfTen(n) = p[n]
<1> DEFINE step == [i \in 1..n |-> [v \in Nat |-> 10 * v]]
<1>1. step \in StepFunctions(n, Nat) /\ 1 \in Nat
  BY DEF StepFunctions
<1>2. \A i \in 1..n, v \in Nat : step[i][v] = 10 * v
  OBVIOUS
<1> HIDE DEF step
<1>3. PICK f : IsRecursive(f, n, Nat, 1, step)
  BY <1>1, Recursion
<1>4. \A i \in 1..n : i - 1 \in 0..n
  OBVIOUS
<1>5. \A i \in 1..n : f[i] = 10 * f[i - 1]
  BY <1>2, <1>3, <1>4 DEF IsRecursive
<1>6. f = [i \in 0..n |-> IF i = 0 THEN 1 ELSE 10 * f[i - 1]]
  BY <1>3, <1>5 DEF IsRecursive
<1> DEFINE p == CHOOSE g : g = [i \in 0..n |-> IF i = 0 THEN 1 ELSE 10 * g[i - 1]]
<1>7. p = [i \in 0..n |-> IF i = 0 THEN 1 ELSE 10 * p[i - 1]]
  BY <1>6
<1>8. PowerOfTen(n) = p[n]
  BY DEF PowerOfTen
<1> HIDE DEF p
<1>9. p[0] = 1 /\ \A i \in 1..n : p[i] = 10 * p[i - 1]
  BY <1>7
<1>10. \A i \in 0..n : p[i] \in Nat
  <2> DEFINE S == {i \in 0..n : p[i] \in Nat}
  <2>1. 0 \in S /\ \A i \in 1..n : i - 1 \in S => i \in S
    BY <1>9
  <2>2. 0..n \subseteq S
    <3> HIDE DEF S
    <3>. QED BY <2>1, IntervalInduction
  <2>. QED BY <2>2
<1>11. p \in [0..n -> Nat]
  BY <1>7, <1>10
<1>. QED BY <1>8, <1>9, <1>11 DEF IsPowerTable

\* One table serves for all its exponents.
LEMMA PowerTableUnique ==
  ASSUME NEW n \in Nat, NEW p, IsPowerTable(p, n), NEW k \in 0..n
  PROVE  PowerOfTen(k) = p[k]
<1>0. k \in Nat
  OBVIOUS
<1>1. PICK q : IsPowerTable(q, k) /\ PowerOfTen(k) = q[k]
  BY <1>0, PowerTable
<1> DEFINE S == {i \in 0..k : p[i] = q[i]}
<1>2. 0 \in S
  BY <1>1 DEF IsPowerTable
<1>3. \A i \in 1..k : i - 1 \in S => i \in S
  BY <1>1 DEF IsPowerTable
<1>4. 0..k \subseteq S
  <2> HIDE DEF S
  <2>. QED BY <1>0, <1>2, <1>3, IntervalInduction
<1>. QED BY <1>0, <1>1, <1>4

\* 10^0 = 1, 10^(n+1) = 10 * 10^n.
LEMMA PowerSuccessor ==
  /\ PowerOfTen(0) = 1
  /\ \A n \in Nat : /\ PowerOfTen(n) \in Nat
                    /\ PowerOfTen(n + 1) = 10 * PowerOfTen(n)
<1>1. ASSUME NEW n \in Nat
      PROVE  /\ PowerOfTen(0) = 1 /\ PowerOfTen(n) \in Nat
             /\ PowerOfTen(n + 1) = 10 * PowerOfTen(n)
  <2>0. n + 1 \in Nat
    OBVIOUS
  <2>1. PICK p : IsPowerTable(p, n + 1)
    BY <2>0, PowerTable
  <2>2. PowerOfTen(0) = p[0] /\ PowerOfTen(n) = p[n] /\ PowerOfTen(n + 1) = p[n + 1]
    BY <2>1, PowerTableUnique
  <2>. QED BY <2>1, <2>2 DEF IsPowerTable
<1>. QED BY <1>1

\* 10^n > 0.
LEMMA PowerPositive == \A n \in Nat : PowerOfTen(n) \in Nat /\ PowerOfTen(n) > 0
<1> SUFFICES ASSUME NEW n \in Nat PROVE PowerOfTen(n) \in Nat /\ PowerOfTen(n) > 0
  OBVIOUS
<1> DEFINE S == {i \in 0..n : PowerOfTen(i) \in Nat /\ PowerOfTen(i) > 0}
<1>1. 0 \in S
  BY PowerSuccessor
<1>2. ASSUME NEW i \in 1..n, i - 1 \in S PROVE i \in S
  <2>1. PowerOfTen((i - 1) + 1) = 10 * PowerOfTen(i - 1) /\ (i - 1) + 1 = i
    BY PowerSuccessor
  <2>. QED BY <1>2, <2>1
<1>3. 0..n \subseteq S
  <2> HIDE DEF S
  <2>. QED BY <1>1, <1>2, IntervalInduction
<1>. QED BY <1>3

\* 10^(m+n) = 10^m * 10^n.
LEMMA PowerAdds ==
  ASSUME NEW m \in Nat, NEW n \in Nat
  PROVE  PowerOfTen(m + n) = PowerOfTen(m) * PowerOfTen(n)
<1> DEFINE S == {i \in 0..n : PowerOfTen(m + i) = PowerOfTen(m) * PowerOfTen(i)}
<1>1. 0 \in S
  BY PowerSuccessor
<1>2. ASSUME NEW i \in 1..n, i - 1 \in S PROVE i \in S
  <2> DEFINE a == PowerOfTen(m)
             b == PowerOfTen(i - 1)
  <2>1. PowerOfTen(i) = 10 * b
    <3>1. PowerOfTen((i - 1) + 1) = 10 * b /\ (i - 1) + 1 = i
      BY PowerSuccessor
    <3>. QED BY <3>1
  <2>2. PowerOfTen(m + i) = 10 * PowerOfTen(m + (i - 1))
    <3>1. m + (i - 1) \in Nat /\ (m + (i - 1)) + 1 = m + i
      OBVIOUS
    <3>. QED BY <3>1, PowerSuccessor
  <2>3. PowerOfTen(m + (i - 1)) = a * b
    BY <1>2
  <2>4. a \in Nat /\ b \in Nat
    BY PowerSuccessor
  <2> HIDE DEF a, b
  <2>5. 10 * (a * b) = a * (10 * b)
    BY <2>4
  <2>. QED BY <2>1, <2>2, <2>3, <2>5 DEF a
<1>3. 0..n \subseteq S
  <2> HIDE DEF S
  <2>. QED BY <1>1, <1>2, IntervalInduction
<1>. QED BY <1>3

-----------------------------------------------------------------------------
Digits == Seq(0..9)

\* Digit strings put one after the other.
LEMMA ConcatDigits ==
  ASSUME NEW d \in Digits, NEW e \in Digits
  PROVE  /\ d \o e \in Digits /\ Len(d \o e) = Len(d) + Len(e)
         /\ Len(d) \in Nat /\ Len(e) \in Nat
         /\ \A i \in 1..Len(d) : (d \o e)[i] = d[i]
         /\ \A i \in 1..Len(e) : (d \o e)[Len(d) + i] = e[i]
BY ConcatProperties DEF Digits

\* The numbers that the prefixes of a digit string denote.
IsPrefixTable(v, d) ==
  /\ v \in [0..Len(d) -> Nat] /\ v[0] = 0
  /\ \A i \in 1..Len(d) : v[i] = 10 * v[i - 1] + d[i]

\* BigInt reads a string off the table of its prefixes.
LEMMA PrefixTable ==
  ASSUME NEW d \in Digits
  PROVE  \E v : IsPrefixTable(v, d) /\ BigInt(d) = v[Len(d)]
<1> DEFINE n == Len(d)
<1>1. n \in Nat /\ \A i \in 1..n : d[i] \in Nat
  BY DEF Digits
<1> DEFINE step == [i \in 1..n |-> [x \in Nat |-> 10 * x + d[i]]]
<1>2. step \in StepFunctions(n, Nat) /\ 0 \in Nat
  BY <1>1 DEF StepFunctions
<1>3. \A i \in 1..n, x \in Nat : step[i][x] = 10 * x + d[i]
  OBVIOUS
<1> HIDE DEF step, n
<1>4. PICK f : IsRecursive(f, n, Nat, 0, step)
  BY <1>1, <1>2, Recursion
<1>5. \A i \in 1..n : f[i] = 10 * f[i - 1] + d[i]
  <2>1. \A i \in 1..n : i - 1 \in 0..n
    BY <1>1
  <2>. QED BY <1>3, <1>4, <2>1 DEF IsRecursive
<1>6. f = [i \in 0..n |-> IF i = 0 THEN 0 ELSE 10 * f[i - 1] + d[i]]
  BY <1>1, <1>4, <1>5 DEF IsRecursive
<1> DEFINE v == CHOOSE g : g = [i \in 0..n |-> IF i = 0 THEN 0 ELSE 10 * g[i - 1] + d[i]]
<1>7. v = [i \in 0..n |-> IF i = 0 THEN 0 ELSE 10 * v[i - 1] + d[i]]
  BY <1>6
<1>8. BigInt(d) = v[n]
  BY DEF BigInt, n
<1> HIDE DEF v
<1>9. v[0] = 0 /\ \A i \in 1..n : v[i] = 10 * v[i - 1] + d[i]
  BY <1>1, <1>7
<1>10. 0..n \subseteq {i \in 0..n : v[i] \in Nat}
  <2> DEFINE S == {i \in 0..n : v[i] \in Nat}
  <2>1. 0 \in S /\ \A i \in 1..n : i - 1 \in S => i \in S
    BY <1>1, <1>9
  <2> HIDE DEF S
  <2>2. 0..n \subseteq S
    BY <1>1, <2>1, IntervalInduction
  <2>. QED BY <2>2 DEF S
<1>11. v \in [0..n -> Nat]
  BY <1>7, <1>10
<1>. QED BY <1>8, <1>9, <1>11 DEF IsPrefixTable, n

\* The table of a string holds what BigInt makes of each of its prefixes.
LEMMA PrefixValue ==
  ASSUME NEW d \in Digits, NEW v, IsPrefixTable(v, d), NEW e \in Digits, Len(e) <= Len(d),
         \A i \in 1..Len(e) : e[i] = d[i]
  PROVE  BigInt(e) = v[Len(e)]
<1> DEFINE k == Len(e)
<1>1. k \in Nat /\ Len(d) \in Nat /\ k <= Len(d)
  BY DEF Digits
<1>2. PICK w : IsPrefixTable(w, e) /\ BigInt(e) = w[k]
  BY PrefixTable
<1> DEFINE S == {i \in 0..k : v[i] = w[i]}
<1> HIDE DEF k
<1>3. 0 \in S
  BY <1>1, <1>2 DEF IsPrefixTable
<1>4. \A i \in 1..k : i - 1 \in S => i \in S
  BY <1>1, <1>2 DEF IsPrefixTable, k
<1>5. 0..k \subseteq S
  <2> HIDE DEF S
  <2>. QED BY <1>1, <1>3, <1>4, IntervalInduction
<1>6. v[k] = w[k]
  BY <1>1, <1>5
<1>. QED BY <1>2, <1>6 DEF k

\* Each further digit cuts the unit of the prefix into ten.
LEMMA PrefixBounds ==
  ASSUME NEW d \in Digits, NEW v, IsPrefixTable(v, d), NEW k \in 0..Len(d)
  PROVE  /\ v[k] * PowerOfTen(Len(d) - k) <= v[Len(d)]
         /\ v[Len(d)] < (v[k] + 1) * PowerOfTen(Len(d) - k)
<1> DEFINE n == Len(d) - k
           S == {j \in 0..n : /\ v[k] * PowerOfTen(j) <= v[k + j]
                              /\ v[k + j] < (v[k] + 1) * PowerOfTen(j)}
<1>1. Len(d) \in Nat /\ k \in Nat /\ n \in Nat /\ k + n = Len(d)
  BY DEF Digits
<1>2. v[k] \in Nat
  BY DEF IsPrefixTable
<1> HIDE DEF n
<1>3. 0 \in S
  <2>1. k + 0 = k /\ PowerOfTen(0) = 1
    BY <1>1, PowerSuccessor
  <2>2. v[k] * 1 <= v[k] /\ v[k] < (v[k] + 1) * 1
    BY <1>2
  <2>. QED BY <1>1, <2>1, <2>2
<1>4. ASSUME NEW j \in 1..n, j - 1 \in S PROVE j \in S
  <2> DEFINE a == v[k]
             b == PowerOfTen(j - 1)
             x == v[k + (j - 1)]
             digit == d[k + j]
  <2>1. k + j \in 1..Len(d) /\ k + (j - 1) \in 0..Len(d) /\ (k + j) - 1 = k + (j - 1)
    BY <1>1
  <2>2. v[k + j] = 10 * x + digit
    BY <2>1 DEF IsPrefixTable
  <2>3. digit \in 0..9
    BY <2>1 DEF Digits
  <2>4. PowerOfTen(j) = 10 * b /\ b \in Nat
    <3>1. j - 1 \in Nat /\ (j - 1) + 1 = j
      BY <1>1
    <3>. QED BY <3>1, PowerSuccessor
  <2>5. a * b <= x /\ x < (a + 1) * b
    BY <1>4
  <2>6. x \in Nat /\ a \in Nat
    BY <1>2, <2>1 DEF IsPrefixTable
  <2> HIDE DEF a, b, x, digit
  <2> DEFINE l == a * b
             u == (a + 1) * b
  <2>7. l \in Nat /\ u \in Nat /\ a * (10 * b) = 10 * l /\ (a + 1) * (10 * b) = 10 * u
    BY <2>4, <2>6
  <2> HIDE DEF l, u
  <2>8. 10 * l <= 10 * x + digit /\ 10 * x + digit < 10 * u
    <3>1. l <= x /\ x < u
      BY <2>5 DEF l, u
    <3>. QED BY <2>3, <2>6, <2>7, <3>1
  <2>9. a * PowerOfTen(j) <= v[k + j] /\ v[k + j] < (a + 1) * PowerOfTen(j)
    BY <2>2, <2>4, <2>7, <2>8
  <2>. QED BY <2>9 DEF a
<1>5. 0..n \subseteq S
  <2> HIDE DEF S
  <2>. QED BY <1>1, <1>3, <1>4, IntervalInduction
<1>6. n \in S
  <2> HIDE DEF S
  <2>. QED BY <1>1, <1>5
<1>. QED BY <1>1, <1>6 DEF n

\* Zeros at the end multiply by ten.
LEMMA TrailingZeros ==
  ASSUME NEW d \in Digits, NEW n \in Nat
  PROVE  d \o Zeros(n) \in Digits /\ BigInt(d \o Zeros(n)) = BigInt(d) * PowerOfTen(n)
<1> DEFINE e == d \o Zeros(n)
<1>1. Zeros(n) \in Seq(0..9) /\ Len(Zeros(n)) = n /\ \A i \in 1..n : Zeros(n)[i] = 0
  BY DEF Zeros
<1>2. /\ e \in Digits /\ Len(e) = Len(d) + n /\ Len(d) \in Nat
      /\ \A i \in 1..Len(d) : e[i] = d[i]
      /\ \A i \in 1..n : e[Len(d) + i] = 0
  <2> DEFINE z == Zeros(n)
  <2>1. z \in Digits /\ Len(z) = n /\ \A i \in 1..n : z[i] = 0
    BY <1>1 DEF Digits
  <2> HIDE DEF z
  <2>2. /\ d \o z \in Digits /\ Len(d \o z) = Len(d) + Len(z) /\ Len(d) \in Nat
        /\ \A i \in 1..Len(d) : (d \o z)[i] = d[i]
        /\ \A i \in 1..Len(z) : (d \o z)[Len(d) + i] = z[i]
    BY <2>1, ConcatDigits
  <2>3. e = d \o z
    BY DEF z
  <2> HIDE DEF e
  <2>. QED BY <2>1, <2>2, <2>3
<1> HIDE DEF e
<1>3. PICK v : IsPrefixTable(v, e) /\ BigInt(e) = v[Len(e)]
  BY <1>2, PrefixTable
<1>4. BigInt(d) = v[Len(d)] /\ v[Len(d)] \in Nat
  <2>1. Len(d) <= Len(e) /\ Len(d) \in 0..Len(e)
    BY <1>2
  <2>. QED BY <1>2, <1>3, <2>1, PrefixValue DEF IsPrefixTable
<1> DEFINE b == v[Len(d)]
           S == {j \in 0..n : v[Len(d) + j] = b * PowerOfTen(j)}
<1>5. 0 \in S
  <2>1. Len(d) + 0 = Len(d) /\ PowerOfTen(0) = 1
    BY <1>2, PowerSuccessor
  <2>2. b * 1 = b
    BY <1>4
  <2>. QED BY <2>1, <2>2
<1>6. ASSUME NEW j \in 1..n, j - 1 \in S PROVE j \in S
  <2> DEFINE p == PowerOfTen(j - 1)
  <2>1. v[Len(d) + j] = 10 * v[Len(d) + (j - 1)] + e[Len(d) + j] /\ e[Len(d) + j] = 0
    <3>1. Len(d) + j \in 1..Len(e) /\ (Len(d) + j) - 1 = Len(d) + (j - 1)
      BY <1>2
    <3>. QED BY <1>2, <1>3, <3>1 DEF IsPrefixTable
  <2>2. PowerOfTen(j) = 10 * p /\ p \in Nat
    <3>1. j - 1 \in Nat /\ (j - 1) + 1 = j
      OBVIOUS
    <3>. QED BY <3>1, PowerSuccessor
  <2>3. v[Len(d) + (j - 1)] = b * p
    BY <1>6
  <2>4. b \in Nat
    BY <1>4
  <2> HIDE DEF b, p
  <2>5. 10 * (b * p) + 0 = b * (10 * p)
    BY <2>2, <2>4
  <2>6. v[Len(d) + j] = b * PowerOfTen(j)
    BY <2>1, <2>2, <2>3, <2>5
  <2>. QED BY <2>6
<1>7. 0..n \subseteq S
  <2> HIDE DEF S
  <2>. QED BY <1>5, <1>6, IntervalInduction
<1>8. n \in S
  <2> HIDE DEF S
  <2>. QED BY <1>7
<1>. QED BY <1>2, <1>3, <1>4, <1>8 DEF e

-----------------------------------------------------------------------------
\* normalizeAmount is right for every decimal string and every mint: what it returns is
\* the price in units of the mint, rounded down (core/amounts.ts).
THEOREM NormalizeIsExact ==
  ASSUME NEW s, IsDecimalString(s), NEW n \in Nat
  PROVE  /\ NormalizeWithDecimals(s, n) \in Nat
         /\ IsWorth(s, n, NormalizeWithDecimals(s, n))
<1> DEFINE int == s.int
           frac == s.frac
           d == int \o frac
           L == Len(frac)
           u == NormalizeWithDecimals(s, n)
<1>1. int \in Digits /\ frac \in Digits /\ L \in Nat /\ Len(int) \in Nat
  BY DEF IsDecimalString, Digits
<1>2. /\ d \in Digits /\ Len(d) = Len(int) + L
      /\ \A i \in 1..Len(int) : d[i] = int[i]
      /\ \A i \in 1..L : d[Len(int) + i] = frac[i]
  BY <1>1, ConcatDigits
<1>3. u = BigInt(int \o FracDigits(frac, n))
  BY DEF NormalizeWithDecimals
<1>4. PICK v : IsPrefixTable(v, d) /\ BigInt(d) = v[Len(d)]
  BY <1>2, PrefixTable
<1> HIDE DEF u, d, L, int, frac
<1>5. BigInt(d) \in Nat
  <2>1. Len(d) \in 0..Len(d)
    BY <1>1, <1>2
  <2>. QED BY <1>4, <2>1 DEF IsPrefixTable
<1>6. /\ PowerOfTen(L) \in Nat /\ PowerOfTen(L) > 0
      /\ PowerOfTen(n) \in Nat /\ PowerOfTen(n) > 0
  BY <1>1, PowerPositive
<1>7. SUFFICES /\ u \in Nat
               /\ u * PowerOfTen(L) <= BigInt(d) * PowerOfTen(n)
               /\ BigInt(d) * PowerOfTen(n) < (u + 1) * PowerOfTen(L)
  BY DEF IsWorth, u, d, L, int, frac
<1>8. CASE L < n
  <2> DEFINE k == n - L
             p == PowerOfTen(k)
             q == PowerOfTen(L)
             b == BigInt(d)
  <2>1. k \in Nat /\ k + L = n
    BY <1>1, <1>8
  <2>2. FracDigits(frac, n) = frac \o Zeros(k)
    BY <1>8 DEF FracDigits, L
  <2>3. int \o (frac \o Zeros(k)) = d \o Zeros(k)
    <3>1. Zeros(k) \in Seq(0..9)
      BY <2>1 DEF Zeros
    <3>. QED BY <1>1, <3>1 DEF d, Digits
  <2>4. u = b * p
    BY <1>2, <1>3, <2>1, <2>2, <2>3, TrailingZeros
  <2>5. PowerOfTen(n) = p * q /\ p \in Nat /\ q \in Nat /\ q > 0
    BY <1>1, <1>6, <2>1, PowerAdds, PowerPositive
  <2>6. b \in Nat
    BY <1>5
  <2> HIDE DEF k, p, q, b
  <2>7. u \in Nat /\ u * q = b * (p * q)
    BY <2>4, <2>5, <2>6
  <2>8. u * q < (u + 1) * q
    BY <2>5, <2>7
  <2>. QED BY <2>5, <2>7, <2>8 DEF b, q
<1>9. CASE ~(L < n)
  <2> DEFINE k == L - n
             p == PowerOfTen(k)
             q == PowerOfTen(n)
             b == BigInt(d)
             e == int \o SubSeq(frac, 1, n)
  <2>1. k \in Nat /\ k + n = L /\ n <= L
    BY <1>1, <1>9
  <2>2. u = BigInt(e)
    BY <1>3, <1>9 DEF FracDigits, L
  <2>3. /\ SubSeq(frac, 1, n) \in Seq(0..9) /\ Len(SubSeq(frac, 1, n)) = n
        /\ \A i \in 1..n : SubSeq(frac, 1, n)[i] = frac[i]
    BY <1>1, <2>1, SubSeqProperties DEF Digits, L
  <2>4. /\ e \in Digits /\ Len(e) = Len(int) + n
        /\ \A i \in 1..Len(int) : e[i] = int[i]
        /\ \A i \in 1..n : e[Len(int) + i] = frac[i]
    BY <1>1, <2>3, ConcatProperties DEF Digits
  <2> HIDE DEF e
  <2>5. \A i \in 1..Len(e) : e[i] = d[i]
    <3> SUFFICES ASSUME NEW i \in 1..Len(e) PROVE e[i] = d[i]
      OBVIOUS
    <3>1. CASE i <= Len(int)
      BY <1>1, <1>2, <2>4, <3>1
    <3>2. CASE i > Len(int)
      <4>1. i - Len(int) \in 1..n /\ i - Len(int) \in 1..L /\ Len(int) + (i - Len(int)) = i
        BY <1>1, <2>1, <2>4, <3>2
      <4>. QED BY <1>2, <2>4, <4>1
    <3>. QED BY <1>1, <2>4, <3>1, <3>2
  <2>6. Len(e) \in 0..Len(d) /\ Len(d) - Len(e) = k /\ Len(e) <= Len(d)
    BY <1>1, <1>2, <2>1, <2>4
  <2>7. u = v[Len(e)] /\ u \in Nat
    <3>1. BigInt(e) = v[Len(e)]
      BY <1>2, <1>4, <2>4, <2>5, <2>6, PrefixValue
    <3>. QED BY <1>4, <2>2, <2>6, <3>1 DEF IsPrefixTable
  <2>8. u * p <= b /\ b < (u + 1) * p
    BY <1>2, <1>4, <2>6, <2>7, PrefixBounds
  <2>9. PowerOfTen(L) = p * q /\ p \in Nat /\ q \in Nat /\ q > 0 /\ b \in Nat
    BY <1>5, <1>6, <2>1, PowerAdds, PowerPositive
  <2> HIDE DEF k, p, q, b
  <2> DEFINE x == u * p
             y == (u + 1) * p
  <2>10. x \in Nat /\ y \in Nat /\ u * (p * q) = x * q /\ (u + 1) * (p * q) = y * q
    <3>1. u + 1 \in Nat
      BY <2>7
    <3>. QED BY <2>7, <2>9, <3>1, TimesAssociative
  <2>11. x <= b /\ b < y
    BY <2>8
  <2> HIDE DEF x, y
  <2>12. x * q <= b * q /\ b * q < y * q
    BY <2>9, <2>10, <2>11, TimesMonotonic, TimesStrict
  <2>. QED BY <2>7, <2>9, <2>10, <2>12 DEF b, q
<1>. QED BY <1>8, <1>9

-----------------------------------------------------------------------------
(***************************************************************************)
(* Settlement.                                                             *)
(***************************************************************************)
\* A request that is not idle is in one of the three stages.
LEMMA OpenOrIdle ==
  ASSUME TypeOK, NEW r \in Requests, req[r].pc # "idle"
  PROVE  req[r] \in OpenRequests
BY DEF TypeOK, Idle

\* The fields of what was served.
LEMMA ServedTyped ==
  ASSUME TypeOK
  PROVE  \A i \in DOMAIN served :
           served[i].doc \in Documents /\ served[i].tx \in TxIds /\ served[i].life \in Nat
<1> DEFINE Entries == [doc : Documents, tx : TxIds, life : Nat]
<1>1. served \in Seq(Entries)
  BY DEF TypeOK
<1>2. \A e \in Entries : e.doc \in Documents /\ e.tx \in TxIds /\ e.life \in Nat
  OBVIOUS
<1> HIDE DEF Entries
<1>3. \A i \in DOMAIN served : served[i] \in Entries
  BY <1>1
<1>. QED BY <1>2, <1>3

\* What appending a record does to the history of services.
LEMMA AppendServed ==
  ASSUME NEW S, NEW s \in Seq(S), NEW e \in S
  PROVE  /\ Append(s, e) \in Seq(S)
         /\ \A i \in DOMAIN Append(s, e) :
              \/ i \in DOMAIN s /\ Append(s, e)[i] = s[i]
              \/ Append(s, e)[i] = e
         /\ \A i \in DOMAIN s : i \in DOMAIN Append(s, e) /\ Append(s, e)[i] = s[i]
         /\ \E i \in DOMAIN Append(s, e) : Append(s, e)[i] = e
<1>1. /\ Append(s, e) \in Seq(S) /\ Len(Append(s, e)) = Len(s) + 1
      /\ \A i \in 1..Len(s) : Append(s, e)[i] = s[i]
      /\ Append(s, e)[Len(s) + 1] = e
  BY AppendProperties
<1>2. DOMAIN s = 1..Len(s) /\ DOMAIN Append(s, e) = 1..(Len(s) + 1) /\ Len(s) \in Nat
  BY <1>1, LenProperties
<1>. QED BY <1>1, <1>2

\* The invariant holds before the first request.
LEMMA InvInit == Init => SettlementInv
<1> SUFFICES ASSUME Init PROVE SettlementInv
  OBVIOUS
<1> USE DEF Init
<1>1. scope.time \in Nat /\ scope.restarts \in Nat
  BY SettlementAssumption
<1>2. TypeOK
  BY <1>1 DEF TypeOK, PcIs, Idle
<1>3. \A r \in Requests : ~PcIs(r, {"payment", "executing"}) /\ ~PcIs(r, {"executing"})
  BY DEF PcIs, Idle
<1>4. RequestsAreSigned /\ PaymentsWereChecked
  BY <1>3 DEF RequestsAreSigned, PaymentsWereChecked
<1>5. NoncesRecordThisLife /\ ServedQuotesAreSigned
  BY <1>3 DEF NoncesRecordThisLife, ConsumedNonceWasServed, ServedQuotesAreSigned
<1>. QED BY <1>2, <1>4, <1>5 DEF SettlementInv

\* A step that moves one request and nothing else keeps the invariant if the request's
\* new stage is backed by the checks that stage stands for.
LEMMA RequestMoves ==
  ASSUME SettlementInv, NEW r \in Requests, NEW q \in OpenRequests \cup {Idle},
         req' = [req EXCEPT ![r] = q],
         UNCHANGED <<chain, nonces, now, restarts, served, verified, scope>>,
         q.pc \in {"payment", "executing"} =>
           /\ q.tx # None
           /\ \/ q.doc.buyer_signed /\ q.doc.seller_signed
              \/ q.mode = "verify" /\ q.doc.expires_at <= now,
         q.pc = "executing" =>
           q.mode = "execute" /\ CheckPayment(q.doc, chain[q.tx]) = "ok"
  PROVE  SettlementInv'
<1> USE DEF SettlementInv
<1>1. /\ req' \in [Requests -> OpenRequests \cup {Idle}]
      /\ req'[r] = q
      /\ \A x \in Requests : x # r => req'[x] = req[x]
  BY DEF TypeOK
<1>2. TypeOK'
  BY <1>1 DEF TypeOK, PcIs
<1>3. RequestsAreSigned'
  BY <1>1 DEF RequestsAreSigned, PcIs
<1>4. PaymentsWereChecked'
  BY <1>1 DEF PaymentsWereChecked, PcIs
<1>5. NoncesRecordThisLife'
  BY DEF NoncesRecordThisLife, ConsumedNonceWasServed
<1>6. ServedQuotesAreSigned'
  BY <1>1 DEF ServedQuotesAreSigned, PcIs
<1>. QED BY <1>2, <1>3, <1>4, <1>5, <1>6

\* An answer to a request changes nothing else.
LEMMA ReplyStep ==
  ASSUME SettlementInv, NEW r \in Requests, NEW code, Reply(r, code),
         UNCHANGED <<chain, nonces, now, restarts, served, verified, scope>>
  PROVE  SettlementInv'
<1>1. Idle \in OpenRequests \cup {Idle} /\ req' = [req EXCEPT ![r] = Idle]
  BY DEF Reply
<1>2. Idle.pc = "idle"
  BY DEF Idle
<1>3. Idle.pc \notin {"payment", "executing"} /\ Idle.pc # "executing"
  BY <1>2
<1>. QED BY <1>1, <1>3, RequestMoves

\* Step 4, for a request whose signatures were checked, or whose quote has expired and
\* which only verifies.
LEMMA AwaitPaymentStep ==
  ASSUME SettlementInv, NEW r \in Requests, NEW q \in OpenRequests, AwaitPayment(r, q),
         UNCHANGED <<chain, nonces, now, restarts, served, verified, scope>>,
         \/ q.doc.buyer_signed /\ q.doc.seller_signed
         \/ q.mode = "verify" /\ q.doc.expires_at <= now
  PROVE  SettlementInv'
<1>1. CASE q.tx = None
  BY <1>1, ReplyStep DEF AwaitPayment
<1>2. CASE q.tx # None
  <2> DEFINE x == [q EXCEPT !.pc = "payment"]
  <2>1. x \in OpenRequests /\ x.pc = "payment" /\ x.tx = q.tx /\ x.doc = q.doc /\ x.mode = q.mode
    BY DEF OpenRequests
  <2>2. req' = [req EXCEPT ![r] = x]
    BY <1>2 DEF AwaitPayment, GoTo
  <2> HIDE DEF x
  <2>. QED BY <1>2, <2>1, <2>2, RequestMoves
<1>. QED BY <1>1, <1>2

\* A request is submitted.
LEMMA SubmitStep ==
  ASSUME SettlementInv, NEW r \in Requests, NEW mode \in {"execute", "verify"},
         NEW doc \in Documents \cup {None}, NEW tx \in TxIds \cup {None}, Submit(r, mode, doc, tx)
  PROVE  SettlementInv'
<1> USE DEF Submit
<1>1. UNCHANGED <<chain, nonces, now, restarts, served, verified, scope>>
  OBVIOUS
<1>2. CASE doc = None
  BY <1>1, <1>2, ReplyStep
<1>3. CASE doc # None
  <2> DEFINE q == [pc |-> "signatures", mode |-> mode, doc |-> doc, tx |-> tx]
             code == PreVerifyQuote(doc)
  <2>1. q \in OpenRequests /\ q.pc = "signatures" /\ q.mode = mode /\ q.doc = doc
    BY <1>3 DEF OpenRequests
  <2>2. IF code = "ok" THEN GoTo(r, q)
        ELSE IF mode = "verify" /\ code = "expired_quote" THEN AwaitPayment(r, q)
        ELSE Reply(r, code)
    BY <1>3
  <2>3. code = "expired_quote" => doc.expires_at <= now
    BY DEF PreVerifyQuote
  <2> HIDE DEF q, code
  <2>4. CASE code = "ok"
    <3>1. req' = [req EXCEPT ![r] = q]
      BY <2>2, <2>4 DEF GoTo
    <3>. QED BY <1>1, <2>1, <3>1, RequestMoves
  <2>5. CASE mode = "verify" /\ code = "expired_quote"
    <3>1. AwaitPayment(r, q) /\ q.mode = "verify" /\ q.doc.expires_at <= now
      BY <2>1, <2>2, <2>3, <2>5
    <3>. QED BY <1>1, <2>1, <3>1, AwaitPaymentStep
  <2>6. CASE code # "ok" /\ ~(mode = "verify" /\ code = "expired_quote")
    BY <1>1, <2>2, <2>6, ReplyStep
  <2>. QED BY <2>4, <2>5, <2>6
<1>. QED BY <1>2, <1>3

\* The signature check comes back.
LEMMA SignaturesStep ==
  ASSUME SettlementInv, NEW r \in Requests, SignaturesChecked(r)
  PROVE  SettlementInv'
<1> USE DEF SignaturesChecked
<1>1. UNCHANGED <<chain, nonces, now, restarts, served, verified, scope>>
  OBVIOUS
<1>2. req[r] \in OpenRequests
  BY OpenOrIdle DEF SettlementInv
<1>3. CASE VerifySignatures(req[r].doc) # "ok"
  BY <1>1, <1>3, ReplyStep
<1>4. CASE VerifySignatures(req[r].doc) = "ok"
  <2>1. req[r].doc.buyer_signed /\ req[r].doc.seller_signed
    BY <1>4 DEF VerifySignatures
  <2>2. AwaitPayment(r, req[r])
    BY <1>4
  <2>. QED BY <1>1, <1>2, <2>1, <2>2, AwaitPaymentStep
<1>. QED BY <1>3, <1>4

\* The service is started on the strength of steps 5 to 15.
LEMMA PaymentFetchedStep ==
  ASSUME SettlementInv, NEW r \in Requests, PaymentFetched(r)
  PROVE  SettlementInv'
<1> USE DEF PaymentFetched
<1>1. UNCHANGED <<chain, nonces, now, restarts, served, verified, scope>>
  OBVIOUS
<1>2. req[r] \in OpenRequests
  BY OpenOrIdle DEF SettlementInv
<1> DEFINE payment == CheckPayment(req[r].doc, chain[req[r].tx])
           code == IF payment = "ok" THEN CheckFreshness(req[r].doc) ELSE payment
<1>3. CASE code # "ok"
  <2>1. Reply(r, code)
    BY <1>3
  <2>. QED BY <1>1, <2>1, ReplyStep
<1>4. CASE code = "ok"
  <2> DEFINE x == [req[r] EXCEPT !.pc = "executing"]
  <2>1. /\ x \in OpenRequests /\ x.pc = "executing" /\ x.mode = "execute"
        /\ x.tx = req[r].tx /\ x.doc = req[r].doc
    BY <1>2 DEF OpenRequests
  <2>2. req' = [req EXCEPT ![r] = x] /\ payment = "ok"
    BY <1>4 DEF GoTo
  <2>3. req[r].tx # None /\ req[r].doc.buyer_signed /\ req[r].doc.seller_signed
    BY DEF SettlementInv, TypeOK, RequestsAreSigned, PcIs
  <2> HIDE DEF x
  <2>. QED BY <1>1, <2>1, <2>2, <2>3, RequestMoves
<1>. QED BY <1>3, <1>4

\* verifySettlement reports only what steps 5 to 12 let through.
LEMMA PaymentVerifiedStep ==
  ASSUME SettlementInv, NEW r \in Requests, PaymentVerified(r)
  PROVE  SettlementInv'
<1> USE DEF PaymentVerified
<1> DEFINE code == CheckPayment(req[r].doc, chain[req[r].tx])
<1>1. UNCHANGED <<chain, nonces, now, restarts, served, scope>> /\ Reply(r, code)
  OBVIOUS
<1>2. req[r] \in OpenRequests
  BY OpenOrIdle DEF SettlementInv
<1>3. CASE code # "ok"
  BY <1>1, <1>3, ReplyStep
<1>4. CASE code = "ok"
  <2> USE DEF SettlementInv
  <2>1. /\ req' \in [Requests -> OpenRequests \cup {Idle}]
        /\ req'[r] = Idle /\ Idle.pc = "idle"
        /\ \A x \in Requests : x # r => req'[x] = req[x]
    BY <1>1 DEF Reply, TypeOK, Idle
  <2>2. /\ req[r].doc \in Documents /\ req[r].tx \in TxIds /\ now \in Nat
        /\ verified' = [doc |-> req[r].doc, tx |-> req[r].tx, at |-> now]
    BY <1>2, <1>4, SettlementAssumption DEF TypeOK, PcIs, OpenRequests
  <2>3. /\ verified' \in [doc : Documents, tx : TxIds, at : Nat] /\ verified'.at = now
        /\ verified'.doc = req[r].doc /\ verified'.tx = req[r].tx
    BY <2>2
  <2>4. TypeOK'
    BY <1>1, <2>1, <2>3 DEF TypeOK, PcIs
  <2>5. RequestsAreSigned'
    BY <1>1, <2>1 DEF RequestsAreSigned, PcIs
  <2>6. PaymentsWereChecked'
    BY <1>1, <1>4, <2>1, <2>3 DEF PaymentsWereChecked, PcIs
  <2>7. NoncesRecordThisLife'
    BY <1>1 DEF NoncesRecordThisLife, ConsumedNonceWasServed
  <2>8. ServedQuotesAreSigned'
    BY <1>1, <2>1 DEF ServedQuotesAreSigned, PcIs
  <2>. QED BY <2>4, <2>5, <2>6, <2>7, <2>8
<1>. QED BY <1>3, <1>4

\* A completed service is recorded with its nonce in one step.
LEMMA ServiceCompletesStep ==
  ASSUME SettlementInv, NEW r \in Requests, ServiceCompletes(r)
  PROVE  SettlementInv'
<1> USE DEF SettlementInv
<1> DEFINE e == [doc |-> req[r].doc, tx |-> req[r].tx, life |-> restarts]
           Entries == [doc : Documents, tx : TxIds, life : Nat]
<1>1. /\ req[r].pc = "executing" /\ UNCHANGED <<chain, now, restarts, verified, scope>>
      /\ nonces' = nonces \cup {req[r].doc.quote_id} /\ served' = Append(served, e)
      /\ Reply(r, "ok")
  BY DEF ServiceCompletes, ConsumeNonce
<1>2. req[r] \in OpenRequests /\ req[r].tx # None
  BY <1>1, OpenOrIdle DEF TypeOK, PcIs
<1>3. /\ req' \in [Requests -> OpenRequests \cup {Idle}]
      /\ req'[r] = Idle /\ Idle.pc = "idle"
      /\ \A x \in Requests : x # r => req'[x] = req[x]
  BY <1>1 DEF Reply, TypeOK, Idle
<1>4. /\ req[r].doc \in Documents /\ req[r].tx \in TxIds /\ restarts \in Nat
      /\ req[r].doc.quote_id \in QuoteIds
  BY <1>2, SettlementAssumption DEF TypeOK, OpenRequests, IsQuoteDocument
<1>5. e \in Entries /\ e.doc = req[r].doc /\ e.tx = req[r].tx /\ e.life = restarts
  BY <1>4
<1>6. served \in Seq(Entries)
  BY DEF TypeOK
<1> HIDE DEF e, Entries
<1>7. /\ served' \in Seq(Entries)
      /\ \A i \in DOMAIN served' :
           (i \in DOMAIN served /\ served'[i] = served[i]) \/ served'[i] = e
      /\ \A i \in DOMAIN served : i \in DOMAIN served' /\ served'[i] = served[i]
      /\ \E i \in DOMAIN served' : served'[i] = e
  BY <1>1, <1>5, <1>6, AppendServed
<1>8. TypeOK'
  BY <1>1, <1>3, <1>4, <1>7 DEF TypeOK, PcIs, Entries
<1>9. RequestsAreSigned'
  BY <1>1, <1>3 DEF RequestsAreSigned, PcIs
<1>10. req[r].mode = "execute" /\ CheckPayment(req[r].doc, chain[req[r].tx]) = "ok"
  BY <1>1 DEF PaymentsWereChecked, PcIs
<1>11. PaymentsWereChecked'
  BY <1>1, <1>3, <1>5, <1>7, <1>10 DEF PaymentsWereChecked, PcIs
<1>12. NoncesRecordThisLife'
  <2>1. \A i \in DOMAIN served' :
          /\ served'[i].life <= restarts'
          /\ served'[i].life = restarts' => served'[i].doc.quote_id \in nonces'
    BY <1>1, <1>4, <1>5, <1>7 DEF NoncesRecordThisLife
  <2>2. ConsumedNonceWasServed'
    BY <1>1, <1>5, <1>7 DEF NoncesRecordThisLife, ConsumedNonceWasServed
  <2>. QED BY <2>1, <2>2 DEF NoncesRecordThisLife
<1>13. ServedQuotesAreSigned'
  <2>1. req[r].doc.buyer_signed /\ req[r].doc.seller_signed
    BY <1>1, <1>10 DEF RequestsAreSigned, PcIs
  <2>. QED BY <1>1, <1>3, <1>5, <1>7, <2>1 DEF ServedQuotesAreSigned, PcIs
<1>. QED BY <1>8, <1>9, <1>11, <1>12, <1>13

\* A confirmed payment is one that no request was checked against before.
LEMMA ConfirmStep ==
  ASSUME SettlementInv, NEW t \in TxIds, NEW p \in Payments, Confirm(t, p)
  PROVE  SettlementInv'
<1> USE DEF SettlementInv
<1>1. /\ chain[t] = None /\ chain' = [chain EXCEPT ![t] = p]
      /\ UNCHANGED <<nonces, req, now, restarts, served, verified, scope>>
  BY DEF Confirm
<1>2. chain' \in [TxIds -> Payments \cup {None}]
  BY <1>1 DEF TypeOK
<1>3. TypeOK' /\ RequestsAreSigned' /\ NoncesRecordThisLife' /\ ServedQuotesAreSigned'
  BY <1>1, <1>2 DEF TypeOK, PcIs, RequestsAreSigned, NoncesRecordThisLife, ConsumedNonceWasServed,
                    ServedQuotesAreSigned
<1>4. ASSUME NEW q, NEW x \in TxIds, CheckPayment(q, chain[x]) = "ok"
      PROVE  CheckPayment(q, chain'[x]) = "ok"
  <2>1. chain[x] # None
    BY <1>4 DEF CheckPayment
  <2>2. chain'[x] = chain[x]
    BY <1>1, <2>1 DEF TypeOK
  <2>. QED BY <1>4, <2>2
<1>5. \A r \in Requests : PcIs(r, {"executing"}) => req[r].tx \in TxIds
  <2>1. SUFFICES ASSUME NEW r \in Requests, PcIs(r, {"executing"}) PROVE req[r].tx \in TxIds
    OBVIOUS
  <2>2. req[r] \in OpenRequests /\ req[r].tx # None
    BY <2>1, OpenOrIdle DEF TypeOK, PcIs
  <2>. QED BY <2>2 DEF OpenRequests
<1>6. \A i \in DOMAIN served : served[i].tx \in TxIds
  BY ServedTyped
<1>7. verified # None => verified.tx \in TxIds
  BY DEF TypeOK
<1>8. PaymentsWereChecked'
  BY <1>1, <1>4, <1>5, <1>6, <1>7 DEF PaymentsWereChecked, PcIs
<1>. QED BY <1>3, <1>8

\* Time passes.
LEMMA TickStep ==
  ASSUME SettlementInv, Tick
  PROVE  SettlementInv'
<1> USE DEF SettlementInv
<1>1. /\ now' = now + 1 /\ now < scope.time
      /\ UNCHANGED <<chain, nonces, req, restarts, served, verified, scope>>
  BY DEF Tick
<1>2. now \in Nat /\ scope.time \in Nat /\ now' \in 0..scope.time
  BY <1>1, SettlementAssumption DEF TypeOK
<1>3. TypeOK'
  BY <1>1, <1>2 DEF TypeOK, PcIs
<1>4. RequestsAreSigned'
  <2>1. SUFFICES ASSUME NEW r \in Requests, PcIs(r, {"payment", "executing"}),
                        ~(req[r].doc.buyer_signed /\ req[r].doc.seller_signed)
                 PROVE  req[r].mode = "verify" /\ req[r].doc.expires_at <= now + 1
    BY <1>1 DEF RequestsAreSigned, PcIs
  <2>2. req[r].mode = "verify" /\ req[r].doc.expires_at <= now
    BY <2>1 DEF RequestsAreSigned
  <2>3. req[r] \in OpenRequests
    BY <2>1, OpenOrIdle DEF PcIs
  <2>4. req[r].doc.expires_at \in Nat
    BY <2>3, SettlementAssumption DEF OpenRequests, IsQuoteDocument
  <2>. QED BY <1>2, <2>2, <2>4
<1>5. PaymentsWereChecked' /\ NoncesRecordThisLife' /\ ServedQuotesAreSigned'
  BY <1>1 DEF PcIs, PaymentsWereChecked, NoncesRecordThisLife, ConsumedNonceWasServed,
              ServedQuotesAreSigned
<1>. QED BY <1>3, <1>4, <1>5

\* A restart loses the nonces, and with the next life no service counts as done.
LEMMA RestartStep ==
  ASSUME SettlementInv, Restart
  PROVE  SettlementInv'
<1> USE DEF SettlementInv
<1>1. /\ restarts < scope.restarts /\ restarts' = restarts + 1 /\ nonces' = {}
      /\ req' = [r \in Requests |-> Idle]
      /\ UNCHANGED <<chain, now, served, verified, scope>>
  BY DEF Restart
<1>2. restarts \in Nat /\ scope.restarts \in Nat /\ restarts' \in 0..scope.restarts
  BY <1>1, SettlementAssumption DEF TypeOK
<1>3. \A r \in Requests : req'[r].pc \notin {"payment", "executing"}
  BY <1>1 DEF Idle
<1>4. req' \in [Requests -> OpenRequests \cup {Idle}]
  BY <1>1
<1>5. TypeOK'
  BY <1>1, <1>2, <1>3, <1>4 DEF TypeOK, PcIs
<1>6. RequestsAreSigned' /\ PaymentsWereChecked' /\ ServedQuotesAreSigned'
  BY <1>1, <1>3 DEF PcIs, RequestsAreSigned, PaymentsWereChecked,
                    ServedQuotesAreSigned
<1>7. \A i \in DOMAIN served : served[i].life \in Nat /\ served[i].life <= restarts
  BY ServedTyped DEF NoncesRecordThisLife
<1>8. NoncesRecordThisLife'
  BY <1>1, <1>2, <1>7 DEF NoncesRecordThisLife, ConsumedNonceWasServed
<1>. QED BY <1>5, <1>6, <1>8

\* Every step of a request, of the environment or of the process keeps the invariant.
LEMMA InvNext == SettlementInv /\ [Next]_vars => SettlementInv'
<1> SUFFICES ASSUME SettlementInv, [Next]_vars PROVE SettlementInv'
  OBVIOUS
<1>1. /\ scope.modes \subseteq {"execute", "verify"} /\ scope.documents \subseteq Documents
      /\ scope.payments \subseteq Payments
  BY SettlementAssumption DEF SettlementInv, TypeOK
<1>2. ASSUME NEW r \in Requests, NEW mode \in scope.modes, NEW doc \in scope.documents \cup {None},
             NEW tx \in TxIds \cup {None}, Submit(r, mode, doc, tx)
      PROVE  SettlementInv'
  <2>1. mode \in {"execute", "verify"} /\ doc \in Documents \cup {None}
    BY <1>1
  <2>. QED BY <1>2, <2>1, SubmitStep
<1>3. ASSUME NEW r \in Requests, ServiceFails(r)
      PROVE  SettlementInv'
  BY <1>3, ReplyStep DEF ServiceFails
<1>4. ASSUME NEW t \in TxIds, NEW p \in scope.payments, Confirm(t, p)
      PROVE  SettlementInv'
  BY <1>1, <1>4, ConfirmStep
<1>5. CASE UNCHANGED vars
  BY <1>5 DEF vars, SettlementInv, TypeOK, PcIs, RequestsAreSigned, PaymentsWereChecked,
              NoncesRecordThisLife, ConsumedNonceWasServed, ServedQuotesAreSigned
<1>. QED BY <1>2, <1>3, <1>4, <1>5, SignaturesStep, PaymentFetchedStep, PaymentVerifiedStep,
            ServiceCompletesStep, TickStep, RestartStep DEF Next

\* The invariant of the requests, the nonces and the histories holds in every
\* reachable state.
THEOREM InvHolds == Spec => []SettlementInv
BY InvInit, InvNext, PTL DEF Spec

\* A nonce is consumed only for a service that was completed (consumeNonce comes after
\* the service), whatever requests run at the same time.
THEOREM NoncesAreServed == Spec => []ConsumedNonceWasServed
<1>1. SettlementInv => ConsumedNonceWasServed
  BY DEF SettlementInv, NoncesRecordThisLife
<1>. QED BY <1>1, InvHolds, PTL

\* No service runs or is completed for a quote without both signatures, although the
\* clock and other requests go on between the check of the signatures, the check of
\* the payment and the service (executeSettlement).
THEOREM ServedAreSigned == Spec => []ServedQuotesAreSigned
<1>1. SettlementInv => ServedQuotesAreSigned
  BY DEF SettlementInv
<1>. QED BY <1>1, InvHolds, PTL

-----------------------------------------------------------------------------
(***************************************************************************)
(* Payments.                                                               *)
(***************************************************************************)

\* The first instruction of a kind is an instruction of that kind.
LEMMA FirstIsInstruction ==
  ASSUME NEW p \in Payments, NEW kind, FirstOfKind(p, kind) # None
  PROVE  \E i \in DOMAIN p.instructions :
           FirstOfKind(p, kind) = p.instructions[i] /\ p.instructions[i].kind = kind
<1> DEFINE found == {i \in DOMAIN p.instructions : p.instructions[i].kind = kind}
           first == CHOOSE i \in found : \A j \in found : i <= j
<1>1. found # {} /\ FirstOfKind(p, kind) = p.instructions[first]
  BY DEF FirstOfKind
<1>2. found \subseteq Nat
  BY SettlementAssumption
<1>3. \E i \in found : \A j \in found : i <= j
  <2> HIDE DEF found
  <2>. QED BY <1>1, <1>2, LeastElement
<1>4. first \in found
  BY <1>3
<1>. QED BY <1>1, <1>4

\* Steps 5 to 10 let a transaction through only if it pays the quote's price.
LEMMA CheckedPaymentPays ==
  ASSUME NEW q \in Documents, NEW t \in Payments \cup {None}, CheckPayment(q, t) = "ok"
  PROVE  t # None /\ ~t.failed /\ Pays(t, q) /\ CheckMemo(q, t) = "ok"
<1> DEFINE x == ExtractSplTransfer(t)
           price == NormalizeWithDecimals(q.final_price, Decimals)
<1>1. /\ t # None /\ ~t.failed /\ x # None /\ x.destination = q.seller /\ x.mint = UsdcMint
      /\ x.amount = price /\ CheckMemo(q, t) = "ok"
  BY DEF CheckPayment
<1>2. t \in Payments
  BY <1>1
<1>3. PICK i \in DOMAIN t.instructions : x = t.instructions[i] /\ t.instructions[i].kind = "transfer"
  BY <1>1, <1>2, FirstIsInstruction DEF ExtractSplTransfer
<1>4. IsWorth(q.final_price, Decimals, price)
  <2>1. IsDecimalString(q.final_price) /\ Decimals \in Nat
    BY SettlementAssumption DEF IsQuoteDocument
  <2>. QED BY <2>1, NormalizeIsExact
<1> HIDE DEF x, price
<1>5. Pays(t, q)
  BY <1>1, <1>3, <1>4 DEF Pays
<1>. QED BY <1>1, <1>5

\* Steps 11 and 12 let a memo through only if it names the quote.
LEMMA CheckedMemoNames ==
  ASSUME NEW q \in Documents, NEW t, CheckMemo(q, t) = "ok", q.memo_policy # "optional"
  PROVE  q.quote_id \in NamedQuotes(t)
<1>1. q.quote_id \in QuoteIds
  BY SettlementAssumption DEF IsQuoteDocument
<1>2. ExtractMemo(t) # None /\ (q.quote_id \in ExtractMemo(t) \/ q \in ExtractMemo(t))
  BY DEF CheckMemo
<1>. QED BY <1>1, <1>2 DEF NamedQuotes

\* What was served or reported was paid for on chain, to the unit, by a transfer made for
\* that quote: for every price string and every number of decimals of the mint.
THEOREM PaymentsAreExact == Spec => []PaymentsMatch
<1>1. SettlementInv => PaymentsMatch
  <2> SUFFICES ASSUME SettlementInv PROVE PaymentsMatch
    OBVIOUS
  <2> USE DEF SettlementInv
  <2>1. \A t \in TxIds : chain[t] \in Payments \cup {None}
    BY DEF TypeOK
  <2>2. \A i \in DOMAIN served :
          /\ served[i].doc \in Documents /\ served[i].tx \in TxIds
          /\ CheckPayment(served[i].doc, chain[served[i].tx]) = "ok"
    BY ServedTyped DEF PaymentsWereChecked
  <2>3. \A i \in DOMAIN served : IsPaid(served[i].tx, served[i].doc)
    BY <2>1, <2>2, CheckedPaymentPays DEF IsPaid
  <2>4. verified # None => IsPaid(verified.tx, verified.doc)
    <3> SUFFICES ASSUME verified # None PROVE IsPaid(verified.tx, verified.doc)
      OBVIOUS
    <3>1. verified.doc \in Documents /\ verified.tx \in TxIds
      BY DEF TypeOK
    <3>2. CheckPayment(verified.doc, chain[verified.tx]) = "ok"
      BY DEF PaymentsWereChecked
    <3>. QED BY <2>1, <3>1, <3>2, CheckedPaymentPays DEF IsPaid
  <2>5. PaymentsAreNotShared
    BY <2>1, <2>2, CheckedPaymentPays, CheckedMemoNames DEF PaymentsAreNotShared
  <2>. QED BY <2>3, <2>4, <2>5 DEF PaymentsMatch, ServedQuotesArePaid
<1>. QED BY <1>1, InvHolds, PTL

-----------------------------------------------------------------------------
(***************************************************************************)
(* When a service is started.                                              *)
(***************************************************************************)

\* A request starts executing only in PaymentFetched, on steps 14 and 15.
LEMMA ServiceStart ==
  ASSUME SettlementInv, [Next]_vars, NEW r \in Requests, ~PcIs(r, {"executing"}),
         req'[r].pc = "executing"
  PROVE  PaymentFetched(r) /\ req'[r].doc = req[r].doc /\ CheckFreshness(req[r].doc) = "ok"
<1>1. req \in [Requests -> OpenRequests \cup {Idle}] /\ req[r].pc # "executing"
  BY DEF SettlementInv, TypeOK, PcIs
<1>2. Idle.pc = "idle"
  BY DEF Idle
<1>3. ASSUME NEW x \in Requests, NEW code, Reply(x, code)
      PROVE  FALSE
  <2>1. req'[x] = Idle /\ \A y \in Requests : y # x => req'[y] = req[y]
    BY <1>1, <1>3 DEF Reply
  <2>. QED BY <1>1, <1>2, <2>1
<1>4. ASSUME NEW x \in Requests, NEW q, GoTo(x, q), q.pc # "executing"
      PROVE  FALSE
  <2>1. req'[x] = q /\ \A y \in Requests : y # x => req'[y] = req[y]
    BY <1>1, <1>4 DEF GoTo
  <2>. QED BY <1>1, <1>4, <2>1
<1>5. ASSUME NEW x \in Requests, NEW q \in OpenRequests, AwaitPayment(x, q)
      PROVE  FALSE
  <2>1. [q EXCEPT !.pc = "payment"].pc = "payment"
    BY DEF OpenRequests
  <2>2. CASE q.tx = None
    BY <1>3, <1>5, <2>2 DEF AwaitPayment
  <2>3. CASE q.tx # None
    BY <1>4, <1>5, <2>1, <2>3 DEF AwaitPayment
  <2>. QED BY <2>2, <2>3
<1>6. ASSUME NEW x \in Requests, NEW mode \in scope.modes, NEW doc \in scope.documents \cup {None},
             NEW tx \in TxIds \cup {None}, Submit(x, mode, doc, tx)
      PROVE  FALSE
  <2> DEFINE q == [pc |-> "signatures", mode |-> mode, doc |-> doc, tx |-> tx]
             code == PreVerifyQuote(doc)
  <2>1. \/ Reply(x, "malformed_quote_header") \/ Reply(x, code)
        \/ doc # None /\ (GoTo(x, q) \/ AwaitPayment(x, q))
    BY <1>6 DEF Submit
  <2>2. doc # None => q \in OpenRequests
    BY SettlementAssumption DEF SettlementInv, TypeOK, OpenRequests
  <2>3. q.pc # "executing"
    OBVIOUS
  <2> HIDE DEF q, code
  <2>. QED BY <1>3, <1>4, <1>5, <2>1, <2>2, <2>3
<1>7. ASSUME NEW x \in Requests, SignaturesChecked(x)
      PROVE  FALSE
  <2>1. req[x] \in OpenRequests
    BY <1>7, OpenOrIdle DEF SignaturesChecked, SettlementInv
  <2>2. Reply(x, VerifySignatures(req[x].doc)) \/ AwaitPayment(x, req[x])
    BY <1>7 DEF SignaturesChecked
  <2>. QED BY <1>3, <1>5, <2>1, <2>2
<1>8. ASSUME NEW x \in Requests, PaymentVerified(x) \/ ServiceCompletes(x) \/ ServiceFails(x)
      PROVE  FALSE
  BY <1>3, <1>8 DEF PaymentVerified, ServiceCompletes, ServiceFails
<1>9. ~UNCHANGED req
  BY <1>1
<1>10. ~Restart
  BY <1>1, <1>2 DEF Restart
<1>11. PICK x \in Requests : PaymentFetched(x)
  BY <1>6, <1>7, <1>8, <1>9, <1>10 DEF Next, vars, Confirm, Tick
<1> DEFINE payment == CheckPayment(req[x].doc, chain[req[x].tx])
           code == IF payment = "ok" THEN CheckFreshness(req[x].doc) ELSE payment
           q == [req[x] EXCEPT !.pc = "executing"]
<1>12. code = "ok" /\ GoTo(x, q)
  <2>1. IF code = "ok" THEN GoTo(x, q) ELSE Reply(x, code)
    BY <1>11 DEF PaymentFetched
  <2>. QED BY <1>3, <2>1
<1>13. req[x] \in OpenRequests
  BY <1>11, OpenOrIdle DEF PaymentFetched, SettlementInv
<1>14. q.doc = req[x].doc
  BY <1>13 DEF OpenRequests
<1> HIDE DEF q
<1>15. x = r /\ req'[r] = q
  <2>1. req'[x] = q /\ \A y \in Requests : y # x => req'[y] = req[y]
    BY <1>1, <1>12 DEF GoTo
  <2>. QED BY <1>1, <2>1
<1>. QED BY <1>11, <1>12, <1>14, <1>15

\* A service is started only for a quote that has not expired and was not served by this
\* process before, whatever happened while its request awaited the signatures and the
\* payment (steps 14 and 15).
THEOREM ServicesStartFresh == Spec => ServiceStartsFresh
<1> DEFINE Fresh(r) == /\ now < req'[r].doc.expires_at
                       /\ ~ \E i \in DOMAIN served :
                               /\ served[i].doc.quote_id = req'[r].doc.quote_id
                               /\ served[i].life = restarts
           Start(r) == ~PcIs(r, {"executing"}) /\ req'[r].pc = "executing"
<1>1. ASSUME SettlementInv, [Next]_vars, NEW r \in Requests, Start(r)
      PROVE  Fresh(r)
  <2>1. PaymentFetched(r) /\ req'[r].doc = req[r].doc /\ CheckFreshness(req[r].doc) = "ok"
    BY <1>1, ServiceStart
  <2>2. req[r].doc.quote_id \notin nonces /\ ~(req[r].doc.expires_at <= now)
    BY <2>1 DEF CheckFreshness
  <2>3. req[r] \in OpenRequests
    BY <1>1, <2>1, OpenOrIdle DEF PaymentFetched, SettlementInv
  <2>4. req[r].doc.expires_at \in Nat
    BY <2>3, SettlementAssumption DEF OpenRequests, IsQuoteDocument
  <2>5. now \in Nat
    BY <1>1, SettlementAssumption DEF SettlementInv, TypeOK
  <2>. QED BY <1>1, <2>1, <2>2, <2>4, <2>5 DEF SettlementInv, NoncesRecordThisLife
<1>2. SettlementInv /\ [Next]_vars =>
        [\A r \in Requests :
           ~PcIs(r, {"executing"}) /\ req'[r].pc = "executing" => now < req'[r].doc.expires_at]_vars
  BY <1>1
<1>3. SettlementInv /\ [Next]_vars =>
        [\A r \in Requests :
           ~PcIs(r, {"executing"}) /\ req'[r].pc = "executing" =>
             ~ \E i \in DOMAIN served :
                  /\ served[i].doc.quote_id = req'[r].doc.quote_id
                  /\ served[i].life = restarts]_vars
  BY <1>1
<1>. QED BY <1>2, <1>3, InvHolds, PTL
     DEF Spec, ServiceStartsFresh, NoServiceAfterExpiry, NoServiceAfterSuccess
=============================================================================
