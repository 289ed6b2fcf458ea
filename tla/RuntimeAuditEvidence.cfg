\* The runtime audit, with the stage name that the real evaluator looks up.
CONSTANTS
  p1 = p1
  p2 = p2
  x = x
  y = y
  Processes = {p1, p2}
  Kinds = {"runtime_audit"}
  Overlapping = {}
  PrefixGroup <- MCPrefixGroup
  Bytes = {x, y}
  MaxAttempts = 2
  GroupOrder <- MCGroupOrder
  RowShuffle <- MCRowShuffle
  Matrix = 2
  Epochs = 2
  Accumulation = 2
  CheckpointEvery = 3
  MaxLosses = 1
  Outcomes <- MCOutcomes
  GreedyTokens = 16
  MinShadow = 1
  Threshold = 1
  Half = 2
  MinAccepted = 1
  RiskLimit <- MCRiskLimit
  Alpha <- MCAlpha
  Ranks <- MCRanks
  Seeds <- MCSeeds
  DeploymentSeed = 17
  EvidenceStage = "semantic"
  MaxResends = 1
SPECIFICATION Spec
SYMMETRY Twins
CHECK_DEADLOCK FALSE
INVARIANT AuditFindsItsEvidence
