SPECIFICATION Spec
CONSTANTS
  StableFailureRounds = 1
  StableFailureSubsets = 1
  RuleId = {1, 2, 3, 4, 5}
  PatchId = {"p", "q"}
  NoPatch = "none"
  SubsetId = {1}
  MaxRound = 2
  MaxEvidence = 2
  Proposals <- Edits
  Observations <- AllVerdicts
  Seeds <- TwoStores
  PriorSuccess = 1
  PriorFailure = 1
  ConfidencePercent = 66
  PromotionAge = 1
  PromotionSubsets = 1
  SerializeEdits = TRUE
  Resubmit = FALSE
INVARIANTS ConflictFree RuleTracksPatch AgeBounded EvidenceNeverInflated PromotionEarned
PROPERTIES ResolveOnce StableRemovalEarned
CHECK_DEADLOCK FALSE
