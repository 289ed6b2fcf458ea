CONSTANTS
  Workers = {w1, w2}
  Directions = {d1, d2}
  Screening = d1
  Parameters <- TwoValidations
  Prior <- Calibrated
  MaxResumes = 1
  MaxDown = 1
SPECIFICATION Spec
SYMMETRY WorkerSymmetry
INVARIANTS
  TypeOK
  BindingsCurrent
  CompletedIsPublished
  SealedOpenedOnce
  ApprovalHasEvidence
PROPERTIES
  EvidenceNeverDrifts
CHECK_DEADLOCK FALSE
