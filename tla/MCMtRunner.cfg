SPECIFICATION Spec
CONSTANTS
  Workers = {w1, w2, w3}
  Plans <- MCPlans
INVARIANTS
  WorkConserved
  NoLostWakeup
  BoundedOvertaking
PROPERTIES
  RunReturns
  ResultsAggregatedOnce
