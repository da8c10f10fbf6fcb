SPECIFICATION Spec
CONSTANTS
  Reqs = {1, 2, 3}
  Prompt <- MCPrompt
  NumCpu = 2
  Configs <- MCConfigs
INVARIANTS
  NoWrongKV
  CpuCacheExact
  
