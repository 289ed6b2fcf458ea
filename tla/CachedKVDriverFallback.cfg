SPECIFICATION Spec
CONSTANTS
  RiskAtMostOnePercent <- MCRiskAtMostOnePercent
  ChunkSize = 2
  Prompts <- MCPrompts
  Settings <- MCResidentSettings
  Direction = "8b_to_14b"
  SourceDirectory <- Small
  TargetDirectory <- Large
  Bridge <- MCBridge
  MaxReplacements = 1
INVARIANTS
  FallbackPrefillsLocally
\* A run of the driver ends.
CHECK_DEADLOCK FALSE
