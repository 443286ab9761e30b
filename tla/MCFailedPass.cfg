SPECIFICATION Spec
CONSTANTS
  Client = {"c"}
  Entry = {1, 2}
  Category = {"memory_validation"}
  MemoryCategory = {"memory_validation"}
  CategoryCap <- NoCap
  Allocations = {6}
  TotalBudget = 7
  Requests = {1, 2, 3}
  Usages = {0, 1, 2, 3}
  None = none
  Application = {"first", "second"}
  Pair = {"x", "y"}
  PairOf <- SharedPair
  Task = {"t"}
  Untested = {}
  Costs = {1}
  MayRaise = TRUE
  MayDie = TRUE
INVARIANTS EveryCostCovered ComparisonCounts
PROPERTY EveryPassReturnsHeld
CHECK_DEADLOCK FALSE
