SPECIFICATION Spec
CONSTANTS
    r1 = r1
    r2 = r2
    r3 = r3
    Request = {r1, r2, r3}
    NumBlocks = 3
    Hash = {"h1", "h2", "h3", "g2"}
    BlockHashes <- SharedHashes
    NoHash = NoHash
INVARIANTS
  RefCountExact
  FreeQueueExact
  HeldBlocksKeepHash
  NoRaise
  Inv
