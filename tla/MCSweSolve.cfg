SPECIFICATION Spec
CONSTANTS
  Batch = 2
  Parallel = 1
  Pool = 2
  Observations = 2
  Containers = 2
  Names = {"pilot"}
  Patches = {"fix", "wrong"}
  Resolving = {"fix"}
  MaxExecutions = 2
INVARIANTS StarvedBehindGivenUp AnsweredAreTornDown VerdictsEarned
CHECK_DEADLOCK FALSE
