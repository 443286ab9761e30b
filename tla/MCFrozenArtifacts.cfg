SPECIFICATION HarnessSpec
CONSTANTS
  Shapes <- LoopShapes
  MaxExecutions = 2
  PromotionAge = 2
  PromotionSubsets = 2
  PriorSuccess = 1
  PriorFailure = 1
  ConfidencePercent = 60
INVARIANTS FrozenArtifacts
CHECK_DEADLOCK FALSE
