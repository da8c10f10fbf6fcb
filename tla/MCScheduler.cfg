SPECIFICATION Spec
CONSTANTS
    r1 = r1
    r2 = r2
    r3 = r3
    Request = {r1, r2, r3}
    NumGpuBlocks = 5
    BlockSize = 2
    EnableCaching = TRUE
    MaxModelLen = 7
    Vocabulary = {"a", "e"}
    Eos = "e"
    MaxNumScheduledTokens = 4
    EnableChunkedPrefill = TRUE
    Configs <- AllConfigs
INVARIANTS
  NoStepRaises
  CacheConsistent
  QueuesMatchStatus
  FcfsReadsComputedKV
  OutputsInOrder
PROPERTIES
  FinishedIsFinal
CHECK_DEADLOCK FALSE
