SPECIFICATION FairSpec
CONSTANTS
  Engines = {0, 1}
  Fronts = {f1}
  Admin = f1
  SyncEvery = 2
  Loads <- MCLoads
  f1 = f1
INVARIANTS
  WavesConsistent
  NobodyWaitsForever
PROPERTIES
  RequestsComplete
  EnginesSettle
CHECK_DEADLOCK FALSE
