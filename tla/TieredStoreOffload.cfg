CONSTANTS
  Blocks = {b1, b2, b3}
  Capacity <- TightTiers
  FileOverhead = 0
  MaxPins = 1
  None = None
SPECIFICATION Spec
INVARIANTS
  OffloadMovesBlock
