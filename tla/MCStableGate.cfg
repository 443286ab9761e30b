SPECIFICATION GateSpec
CONSTANTS
  StableFailureRounds = 3
  StableFailureSubsets = 2
  ReportRounds <- MCRounds
  Subsets <- MCSubsets
INVARIANTS HistoryIsLatestFailures GateSound
