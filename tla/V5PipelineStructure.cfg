CONSTANTS
  Workers = {w1, w2}
  Directions = {d1}
  Screening = d1
  Parameters <- OneEach
  Prior <- AllCollected
  MaxResumes = 1
  MaxDown = 1
SPECIFICATION Spec
INVARIANTS
  StructureBindsReport
CHECK_DEADLOCK FALSE
