SPECIFICATION MCSpec
CONSTANTS
  Requests = {1, 2}
  BlockSize = 2
  Configs <- MCConfigs
INVARIANTS
  BlocksKept
  NoBadToken
  CacheStaysValid

  
