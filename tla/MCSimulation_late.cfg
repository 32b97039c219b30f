SPECIFICATION MCSpec
CONSTANTS
  Tasksets <- MCTasksets
  Configs <- LateConfigs
  RunSteps = {4, 8}
  Horizon = 12
  MinPriority = 9
INVARIANTS
  MonitorHoldsCurrentJobs
