SPECIFICATION LiveSpec
CONSTANTS
  NWorkers = 2
  OutputRank = 1
  MaxChunks = 2
  MaxCalls = 3
  Configs <- MCConfigs
INVARIANTS
  AnswersMatchCalls
PROPERTIES
  AlarmsAreTrue
  
CHECK_DEADLOCK FALSE
