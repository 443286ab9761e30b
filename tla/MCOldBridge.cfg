SPECIFICATION EvolveSpec
CONSTANTS
  Name = {"bare", "x"}
  Seed = "bare"
  MaxLines = 1
  MaxVersions = 2
  LateWrites = FALSE
  Fitness = {0, 1}
  MaxIterations = 2
  Harness = "x"
  Item = {1, 2}
  KeepsErrors = TRUE
  KeyedByBridge = FALSE
  MaxBridges = 2
  MaxEvolves = 0
  MaxMeasures = 2
INVARIANTS ReportHonest
CHECK_DEADLOCK FALSE
