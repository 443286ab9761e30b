SPECIFICATION HarnessSpec
CONSTANTS
  Shapes <- LoopShapes
  MaxExecutions = 2
  OwnPrefix = TRUE
  PromotionAge = 2
  PromotionSubsets = 2
  PriorSuccess = 1
  PriorFailure = 1
  ConfidencePercent = 60
INVARIANTS LogIsOneRun ScoredIsRegistered StateFollowsStore
CHECK_DEADLOCK FALSE
