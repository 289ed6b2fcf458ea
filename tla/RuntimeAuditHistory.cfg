\* The runtime audit over four records of one prefix group: the fourth is measured on a
\* history of three.
CONSTANTS
  p1 = p1
  p2 = p2
  x = x
  y = y
  Processes = {p1, p2}
  Kinds = {"runtime_audit"}
  Overlapping = {}
  PrefixGroup <- OneGroup
  Bytes = {x, y}
  MaxAttempts = 2
  GroupOrder <- OneGroupOrder
  RowShuffle <- FourRows
  Matrix = 2
  Epochs = 2
  Accumulation = 2
  CheckpointEvery = 3
  MaxLosses = 1
  Outcomes <- AgreementOutcomes
  GreedyTokens = 16
  MinShadow = 1
  Threshold = 1
  Half = 2
  MinAccepted = 1
  RiskLimit <- MCRiskLimit
  Alpha <- MCAlpha
  Ranks <- MCRanks
  Seeds <- MCSeeds
  DeploymentSeed = 17
  EvidenceStage = "semantic_sealed"
  MaxResends = 1
SPECIFICATION Spec
SYMMETRY Twins
CHECK_DEADLOCK FALSE
INVARIANT AuditHistoryIsCausal
