CONSTANTS
  Blocks = {b1, b2, b3}
  Capacity <- SmallTiers
  FileOverhead = 1
  MaxPins = 1
  None = None
SPECIFICATION Spec
SYMMETRY BlockSymmetry
INVARIANTS
  TypeOK
  IndexedHasPayload
  CapacityRespected
PROPERTIES
  PinnedStays
