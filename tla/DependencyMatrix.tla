-------------------------- MODULE DependencyMatrix --------------------------
(***************************************************************************)
(* tseval/dependencymatrix.cpp: the matrices that the constructor may draw, *)
(* a row as the set of its columns (counted from 0).                       *)
(***************************************************************************)
EXTENDS Integers, Sequences, FiniteSets, SequencesExt

\* DependencyMatrix::binomialCoefficient, which multiplies before it divides
MatrixBinomial(n, k) ==
  IF k > n THEN 0
  ELSE IF k = 0 \/ k = n THEN 1
  ELSE FoldLeft(LAMBDA result, i : (result * (n - k + i)) \div i, n - k + 1,
                [i \in 1 .. k - 1 |-> i + 1])

\* The order in which fillBuckets comes to the sets of k columns out of n from a
\* column on
Buckets(n) ==
  LET visited[k \in 0 .. n, from \in 0 .. n + 1] ==
        IF k = 0 THEN << {} >>
        ELSE FoldLeft(LAMBDA seq, i : seq \o [h \in DOMAIN visited[k - 1, i + 1] |->
                                                {i} \cup visited[k - 1, i + 1][h]],
                      << >>, [h \in 1 .. n - k - from + 1 |-> from + h - 1])
  IN  visited

\* getAssignment: the one at which a counter that starts with num has run out
GetAssignment(length, nEntries, num) == Buckets(length)[nEntries, 0][num + 1]

\* The constructor's test of its parameters
ValidParameters(rows, columns, maxRowSum) ==
  maxRowSum <= columns /\ maxRowSum * rows >= columns

\* What generateMatrix draws for a row.  getIntervalRand() asserts that its bounds
\* differ: no row is drawn if maxRowSum is 1, and none with all columns.
RowsOf(columns, maxRowSum) ==
  IF maxRowSum <= 1 THEN {}
  ELSE UNION {{GetAssignment(columns, sum, num) : num \in 0 .. MatrixBinomial(columns, sum) - 1}
                : sum \in {s \in 1 .. maxRowSum : MatrixBinomial(columns, s) > 1}}

\* checkColumnSums
CheckColumnSums(matrix, columns) ==
  \A c \in 0 .. columns - 1 : \E r \in DOMAIN matrix : c \in matrix[r]

\* generateMatrix draws all rows again until every column is used.
Matrices(rows, columns, maxRowSum) ==
  {matrix \in [1 .. rows -> RowsOf(columns, maxRowSum)] : CheckColumnSums(matrix, columns)}
=============================================================================
