------------------------ MODULE UtilisationStatistics ------------------------
(***************************************************************************)
(* mkeval/utilisationstatistics.cpp: the utilisations of the tasksets that *)
(* mkeval has evaluated.  They are natural numbers in a fixed unit here,   *)
(* and quotients are pairs <<numerator, denominator>>.                     *)
(***************************************************************************)
EXTENDS Integers, Sequences, FiniteSetsExt, SequencesExt

NoUtilisations == << >>

\* Mutant: the new value goes to the front.
AddUtilisationFront(uList, u) == <<u>> \o uList

\* Before the first value that is not less
AddUtilisation(uList, u) ==
  LET less == Cardinality({i \in DOMAIN uList : uList[i] < u})
  IN  InsertAt(uList, less + 1, u)

SumOf(data, Value(_)) == FoldLeft(LAMBDA sum, u : sum + Value(u), 0, data)

\* The assertion of evaluate(), without which the median is read from nowhere
Evaluable(uList) == Len(uList) > 1

\* mean, var and median; data is uList as a vector, whose indices begin at 0.
Evaluate(uList) ==
  LET n == Len(uList)
      data == [i \in 0 .. n - 1 |-> uList[i + 1]]
      sum == SumOf(uList, LAMBDA u : u)
  IN  [data   |-> data,
       mean   |-> <<sum, n>>,
       var    |-> <<SumOf(uList, LAMBDA u : (n * u - sum) * (n * u - sum)), n * n * n>>,
       median |-> IF n % 2 = 1 THEN <<data[n \div 2], 1>>
                  ELSE <<data[n \div 2] + data[n \div 2 - 1], 2>>]

GetMin(st) == st.data[0]
GetMax(st) == st.data[Cardinality(DOMAIN st.data) - 1]

\* round() of a quotient of natural numbers: halves go up.
Round(a, b) == (2 * a + b) \div (2 * b)

IntervalLength(st, percent) == Round(percent * Cardinality(DOMAIN st.data), 100)

\* The indices of getMedianIntervalLower and getMedianIntervalUpper; the upper one
\* lies behind the data when there are two or three of them.
LowerIndex(st, percent) ==
  Round(Cardinality(DOMAIN st.data) - IntervalLength(st, percent), 2)
UpperIndex(st, percent) ==
  Round(Cardinality(DOMAIN st.data) + IntervalLength(st, percent), 2)

\* What is behind the data is anything.
GetMedianInterval(st, percent) ==
  LET Read(idx) == IF idx \in DOMAIN st.data THEN st.data[idx] ELSE -1
  IN  <<Read(LowerIndex(st, percent)), Read(UpperIndex(st, percent))>>

\* What the printed statistics ought to be for a collection of utilisations U, one for
\* each element of Ids, in whatever order they came: the extremes, a median with as
\* many values on each side, an interval around it that holds the percentage, and
\* the variance by the other formula.
DescribesAll(st, Ids, U(_), percent) ==
  LET n == Cardinality(Ids)
      sum == MapThenSumSet(U, Ids)
      interval == GetMedianInterval(st, percent)
      Within(a, b) == Cardinality({i \in Ids : a <= U(i) /\ U(i) <= b})
      double == (2 * st.median[1]) \div st.median[2]
  IN  /\ GetMin(st) = Min({U(i) : i \in Ids}) /\ GetMax(st) = Max({U(i) : i \in Ids})
      /\ st.mean = <<sum, n>>
      /\ n * MapThenSumSet(LAMBDA i : U(i) * U(i), Ids) - sum * sum
           = st.var[1] \div n
      /\ 2 * Cardinality({i \in Ids : 2 * U(i) < double}) <= n
      /\ 2 * Cardinality({i \in Ids : 2 * U(i) > double}) <= n
      /\ UpperIndex(st, percent) \in DOMAIN st.data =>
           /\ 100 * Within(interval[1], interval[2]) >= percent * n
           /\ 2 * interval[1] <= double /\ double <= 2 * interval[2]
==============================================================================
