SPECIFICATION FairSpec
CONSTANTS
  NReaders = 2
  MaxChunks = 2
  MaxMessages = 3
  Configs <- MCConfigs
INVARIANTS
  FlagsProtectChunks
PROPERTIES
  ImplementsBroadcast
  Delivered
  ShutdownStops
CHECK_DEADLOCK FALSE
