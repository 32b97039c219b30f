SPECIFICATION TsSpec
CONSTANTS
  TsConfigs <- MCTsConfigs
  XmlTasksets <- MCXmlTasksets
  Tasksets <- MCTasksets
  Configs <- DefaultConfigs
  RunSteps = {17}
  Horizon = 60
  MinPriority = 9
INVARIANTS
  ResponseTimesBound
  DataFresh
