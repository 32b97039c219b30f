------------------------------- MODULE TmsMath -------------------------------
(***************************************************************************)
(* utils/tmsmath.cpp: gcd, least common multiple and binomial coefficient. *)
(***************************************************************************)
EXTENDS Integers, Functions, FiniteSetsExt

RECURSIVE CalculateGcd(_, _)

\* calculateGcd
CalculateGcd(a, b) == IF b = 0 THEN a ELSE CalculateGcd(b, a % b)

Abs(x) == IF x < 0 THEN - x ELSE x

\* calculateLcm, where the product fits into 64 bits: it is formed before the
\* division.
CalculateLcm(a, b) == (a * b) \div CalculateGcd(a, b)

\* One round of the outer loop of binomialCoefficient: the inner loop runs
\* downwards, so it adds to each entry the previous one as it was.
BinomialRow(row, i, k) ==
  [j \in DOMAIN row |-> IF j = 0 \/ j > i THEN row[j] ELSE row[j] + row[j - 1]]

\* binomialCoefficient
BinomialCoefficient(n, k) ==
  LET rows[i \in 0 .. n] ==
        IF i = 0 THEN [j \in 0 .. k |-> IF j = 0 THEN 1 ELSE 0]
                 ELSE BinomialRow(rows[i - 1], i, k)
  IN  rows[n][k]
=============================================================================
