SPECIFICATION Spec
CONSTANTS
  StableFailureRounds = 1
  StableFailureSubsets = 1
  RuleId = {1, 2, 3, 4, 5}
  PatchId = {"p", "q"}
  NoPatch = "none"
  SubsetId = {1, 2}
  MaxRound = 2
  MaxEvidence = 3
  Proposals <- Edits
  Observations <- Verdicts
  Seeds <- OneVolatile
  PriorSuccess = 1
  PriorFailure = 1
  ConfidencePercent = 66
  PromotionAge = 1
  PromotionSubsets = 2
  SerializeEdits = TRUE
  Resubmit = TRUE
INVARIANT LaterEvidenceCalibrates
PROPERTY ResolveOnce
CHECK_DEADLOCK FALSE
