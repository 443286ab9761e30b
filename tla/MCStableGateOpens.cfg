SPECIFICATION GateSpec
CONSTANTS
  StableFailureRounds = 2
  StableFailureSubsets = 2
  ReportRounds <- MCRounds
  Subsets <- MCSubsets
INVARIANT GateOpens
