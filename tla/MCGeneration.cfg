SPECIFICATION GenerationSpec
CONSTANTS
  Threads = {t1, t2}
  Seeds = {1, 2, 3, 4}
  NTasksets = 2
  GenConfig <- MCGenConfig
  SearchDraws <- MCSearchDraws
  GeneratorDraws <- MCGeneratorDraws
  RunUtilisations <- MCRunUtilisations
  OtherTasksets <- MCOtherTasksets
INVARIANTS
  SeedsReproduce
  SufficientIsSafe
  FilesKeepTasks
PROPERTIES
  SearchReturns
CHECK_DEADLOCK FALSE
