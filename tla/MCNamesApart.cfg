SPECIFICATION LoopSpec
CONSTANTS
  MaxRound = 4
  Cause = {1, 2}
  Groups = 4
  PromotionAge = 2
  PromotionSubsets = 2
  PriorSuccess = 1
  PriorFailure = 1
  ConfidencePercent = 60
  MaxCandidates = 1
  FailureRounds = {1, 2}
  SweepFailures = {1}
  MaxProposals = 2
  Spurious = {2}
  MaxExecutions = 2
INVARIANTS NamesApart SummaryExcludes
CHECK_DEADLOCK FALSE
