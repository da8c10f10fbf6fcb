SPECIFICATION Spec
CONSTANTS
    r1 = r1
    r2 = r2
    r3 = r3
    Request = {r1, r2}
    NumGpuBlocks = 8
    BlockSize = 1
    EnableCaching = TRUE
    MaxModelLen = 7
    Vocabulary = {"a", "e"}
    Eos = "e"
    MaxNumScheduledTokens = 4
    EnableChunkedPrefill = TRUE
    Configs <- ChunkConfigs
INVARIANTS
  ReadsComputedKV
CHECK_DEADLOCK FALSE
