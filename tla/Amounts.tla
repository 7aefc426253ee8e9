------------------------------ MODULE Amounts ------------------------------
(***************************************************************************)
(* Prices as decimal strings, and their conversion to integers of a mint's *)
(* smallest unit (core/amounts.ts).  A decimal string is its digits before *)
(* and after the point; normalizeAmount works on the digits.               *)
(***************************************************************************)
EXTENDS Integers, Sequences

\* /^\d+(\.\d+)?$/: at least one digit, and no point without digits after it.
IsDecimalString(s) ==
  /\ s.int \in Seq(0..9) /\ s.frac \in Seq(0..9)
  /\ s.int # <<>>

Zeros(n) == [i \in 1..n |-> 0]

\* BigInt of a digit string.
BigInt(digits) ==
  LET value[i \in 0..Len(digits)] == IF i = 0 THEN 0 ELSE 10 * value[i - 1] + digits[i]
  IN value[Len(digits)]

\* Faulty variant: digits beyond the mint's precision are kept.
FracUncut(frac, n) == frac \o Zeros(IF n > Len(frac) THEN n - Len(frac) ELSE 0)

\* padEnd or slice to exactly n digits.
FracDigits(frac, n) ==
  IF Len(frac) < n THEN frac \o Zeros(n - Len(frac)) ELSE SubSeq(frac, 1, n)

\* normalizeAmount for a mint of n decimals.
NormalizeWithDecimals(s, n) == BigInt(s.int \o FracDigits(s.frac, n))

PowerOfTen(n) ==
  LET power[i \in 0..n] == IF i = 0 THEN 1 ELSE 10 * power[i - 1]
  IN power[n]

\* The reference: u is the number that s denotes in units of the mint, rounded down.
IsWorth(s, n, u) ==
  LET value == BigInt(s.int \o s.frac) * PowerOfTen(n)
  IN u * PowerOfTen(Len(s.frac)) <= value /\ value < (u + 1) * PowerOfTen(Len(s.frac))

=============================================================================
