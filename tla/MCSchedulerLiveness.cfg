SPECIFICATION FairSpec
CONSTANTS
    r1 = r1
    r2 = r2
    r3 = r3
    Request = {r1, r2}
    NumGpuBlocks = 4
    BlockSize = 2
    EnableCaching = TRUE
    MaxModelLen = 6
    Vocabulary = {"a"}
    Eos = "e"
    MaxNumScheduledTokens = 6
    EnableChunkedPrefill = FALSE
    Configs <- LivenessConfigs
PROPERTIES
  EveryRequestFinishes
CHECK_DEADLOCK FALSE
