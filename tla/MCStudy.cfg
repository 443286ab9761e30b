SPECIFICATION StudySpec
CONSTANTS
  MaxRound = 5
  Cause = {1}
  Groups = 2
  PromotionAge = 2
  PromotionSubsets = 2
  PriorSuccess = 1
  PriorFailure = 1
  ConfidencePercent = 60
  Arms <- TieredArms
  MaxProbes = 1
  ProposalRounds = {1, 2}
  MaxTries = 2
  MaxReruns = 1
  MaxDeaths = 1
  TornSnapshots = FALSE
INVARIANTS AuditAgrees NoOvertaking
PROPERTIES RoundsAtomic StudyEnds
CHECK_DEADLOCK FALSE
