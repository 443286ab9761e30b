SPECIFICATION EvolveSpec
CONSTANTS
  Name = {"bare", "x"}
  Seed = "bare"
  MaxLines = 1
  MaxVersions = 2
  LateWrites = FALSE
  Fitness = {0, 1}
  MaxIterations = 2
  Harness = "x"
  Item = {1, 2}
  KeepsErrors = TRUE
  KeyedByBridge = TRUE
  MaxBridges = 2
  MaxEvolves = 1
  MaxMeasures = 2
INVARIANTS FrontierEarned ReportHonest
PROPERTIES EvolutionEnds
CHECK_DEADLOCK FALSE
