SPECIFICATION EvolveSpec
CONSTANTS
  Name = {"bare", "x"}
  Seed = "bare"
  MaxLines = 1
  MaxVersions = 2
  LateWrites = TRUE
  Fitness = {0, 1}
  MaxIterations = 2
  Harness = "x"
  Item = {1}
  KeepsErrors = TRUE
  KeyedByBridge = TRUE
  MaxBridges = 2
  MaxEvolves = 1
  MaxMeasures = 0
INVARIANTS OwnProposals LogComplete
CHECK_DEADLOCK FALSE
