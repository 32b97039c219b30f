SPECIFICATION EvaluationSpec
CONSTANTS
  Workers = {w1, w2}
  Inputs <- MCInputs
  Plans <- MCPlans
  ElemSize = 2
INVARIANTS
  SignalsFindSets
  LogsAreRight
PROPERTIES
  EvaluationReturns
