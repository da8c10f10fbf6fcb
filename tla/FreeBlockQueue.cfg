SPECIFICATION Spec
CONSTANT NumBlocks = 4
INVARIANTS
  NoRaise
  Inv
PROPERTIES
  ImplementsQueue
