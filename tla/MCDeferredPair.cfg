SPECIFICATION OnlineSpec
CONSTANTS
  StableFailureRounds = 0
  StableFailureSubsets = 0
  RuleId = {1, 3, 4, 5}
  PatchId = {1, 2, 3, 4}
  NoPatch = 0
  SubsetId = {1, 2}
  MaxRound = 2
  MaxEvidence = 0
  Proposals = {}
  Observations = {}
  Seeds <- OneVolatile
  PriorSuccess = 1
  PriorFailure = 1
  ConfidencePercent = 66
  PromotionAge = 1
  PromotionSubsets = 0
  SerializeEdits = FALSE
  Resubmit = TRUE
  App = {1, 2, 3, 4}
  Edit <- PairEdits
  NoEdit = NoEdit
  Uses <- PairUses
  OriginTasks <- PairOrigins
  Attributable = {1, 2, 3, 4}
  MinDecisive = 2
  DistinctTasks = 2
  DistinctBatches = 1
  SupportPercent = 66
  HarmPercent = 40
  PromotionBatches = 1
  CacheHits = {1}
  ComparedOn <- PairTasks
  MaxCrashes = 0
INVARIANT StagedApart
PROPERTIES DeferralEnds VerdictsOnFresh
CHECK_DEADLOCK FALSE
