SPECIFICATION LiveSpec
CONSTANTS
  Requests = {1, 2, 3}
  MaxOutputs = 1
  TokenBudget = 4
  Hits = {0, 2}
  MaxInflight = 2
  Configs <- MCConfigs
  Features <- MCFeatures
  PromptLen <- MCPromptLen
  Size <- MCSize
INVARIANTS
  EncoderCacheExact
  WorkerCacheFollows
PROPERTIES
  RequestsFinish
CHECK_DEADLOCK FALSE
