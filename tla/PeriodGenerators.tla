--------------------------- MODULE PeriodGenerators ---------------------------
(***************************************************************************)
(* mkeval/gmperiodgenerator.cpp, mkeval/intervalperiodgenerator.cpp,       *)
(* tseval/periodgenerator.cpp and utils/random.cpp: the numbers that a     *)
(* draw may return.                                                        *)
(***************************************************************************)
EXTENDS Integers, SequencesExt

\* Random::getIntervalRand, which asserts min < max
GetIntervalRand(min, max) == min .. max

\* The tables of GmPeriodGenerator: a column is drawn from each row.  How often a number
\* stands in a row makes it more likely and is left out.
GmTables ==
  [LOWER |-> << {1, 2, 4, 8, 16, 32}, {1, 3, 9}, {1, 5, 25}, {7, 49}, {1, 11}, {1} >>,
   LOW   |-> << {1, 2, 4, 8, 16, 32}, {1, 3, 9, 27}, {1, 5, 25}, {7, 49}, {1, 11, 121},
                {1, 13} >>,
   HIGH  |-> << {1, 2, 4, 8, 16, 32}, {1, 3, 9, 27}, {1, 5, 25}, {1, 7, 49}, {1, 11, 121},
                {1, 13} >>]

\* PeriodGenerator of tseval has two of them.
Tables == [policy \in {"LOW", "HIGH"} |-> GmTables[policy]]

\* The products of a number from each row, those above bound left out
Products(table, bound) ==
  FoldLeft(LAMBDA ps, row : {p * f : p \in ps, f \in row} \cap 1 .. bound, {1}, table)

\* getNumber: a product of 1 or 2 is not enough, and the next round multiplies it.
GetNumber(table, bound) ==
  LET ps == Products(table, bound)
      rounds == IF 2 \in ps THEN {1, 2} ELSE {1}
  IN  {p * f : p \in ps, f \in rounds} \cap 3 .. bound

GmPeriods(policy, bound) == GetNumber(GmTables[policy], bound)

\* IntervalPeriodGenerator: like produceInt(), one more than pMax is possible.
IntervalPeriods(pMin, pMax) == pMin .. pMax + 1
=============================================================================
