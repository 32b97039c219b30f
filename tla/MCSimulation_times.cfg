SPECIFICATION MCSpec
CONSTANTS
  Tasksets <- MCTasksets
  Configs <- CancelConfigs
  RunSteps = {4, 8}
  Horizon = 12
  MinPriority = 9
PROPERTIES
  InitStepTimesIncrease
