SPECIFICATION OnlineSpec
CONSTANTS
  StableFailureRounds = 0
  StableFailureSubsets = 0
  RuleId = {1, 2, 3}
  PatchId = {1, 2}
  NoPatch = 0
  SubsetId = {1, 2, 3}
  MaxRound = 2
  MaxEvidence = 0
  Proposals = {}
  Observations = {}
  Seeds <- TwoStable
  PriorSuccess = 1
  PriorFailure = 1
  ConfidencePercent = 66
  PromotionAge = 1
  PromotionSubsets = 0
  SerializeEdits = FALSE
  Resubmit = TRUE
  App = {1, 2}
  Edit <- LifecycleEdits
  NoEdit = NoEdit
  Uses <- LifecycleUses
  OriginTasks <- LifecycleOrigins
  Attributable = {1, 2}
  MinDecisive = 2
  DistinctTasks = 2
  DistinctBatches = 1
  SupportPercent = 66
  HarmPercent = 60
  PromotionBatches = 1
  CacheHits = {1}
  ComparedOn <- LifecycleTasks
  MaxCrashes = 1
INVARIANTS LearnedFromEvidence TablesAgree ClaimsApart
PROPERTY VerdictsEarned
CHECK_DEADLOCK FALSE
