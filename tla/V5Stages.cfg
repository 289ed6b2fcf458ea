\* Every kind of stage, two processes, three records. Two attempts may be alive at
\* once in one stage of each family.
CONSTANTS
  p1 = p1
  p2 = p2
  x = x
  y = y
  Processes = {p1, p2}
  Kinds = {"fit_screening", "fit_target_logit", "fit_frozen_direction", "collect",
           "fit_risk", "calibrate", "validate", "semantic_sealed", "runtime_audit",
           "evaluate_method_dev"}
  Overlapping = {"fit_screening", "collect", "validate"}
  PrefixGroup <- MCPrefixGroup
  Bytes = {x, y}
  MaxAttempts = 2
  GroupOrder <- MCGroupOrder
  RowShuffle <- MCRowShuffle
  Matrix = 2
  Epochs = 2
  Accumulation = 2
  CheckpointEvery = 3
  MaxLosses = 1
  Outcomes <- MCOutcomes
  GreedyTokens = 16
  MinShadow = 1
  Threshold = 1
  Half = 2
  MinAccepted = 1
  RiskLimit <- MCRiskLimit
  Alpha <- MCAlpha
  Ranks <- MCRanks
  Seeds <- MCSeeds
  DeploymentSeed = 17
  EvidenceStage = "semantic_sealed"
  MaxResends = 1
SPECIFICATION Spec
SYMMETRY Twins
CHECK_DEADLOCK FALSE
INVARIANTS
  TrajectoryKept
  CompletedFitIsWhole
  CompletedTracesLoad
  HistoryIsCausal
  CompletedEvidenceLoads
  ThresholdIsMaximal
  DrainedMeansExact
  NothingLeftRunning
  ResumesWhatItSaved
