SPECIFICATION FairSpec
CONSTANTS
  Reqs = {1, 2}
  Configs <- MCConfigs
INVARIANTS
  ReadsKeepTheirBlocks
  LoadedKVIsComplete
  
PROPERTIES
  TransfersEnd
