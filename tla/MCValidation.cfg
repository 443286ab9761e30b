SPECIFICATION FairSpec
CONSTANTS
  Client = {"c"}
  Entry = {1, 2}
  Category = {"memory_validation"}
  MemoryCategory = {"memory_validation"}
  CategoryCap <- NoCap
  Allocations = {6}
  TotalBudget = 7
  Requests = {1, 2, 3}
  Usages = {0, 1, 2, 3}
  None = none
  Application = {"first", "second", "other"}
  Pair = {"x", "y"}
  PairOf <- SharedPair
  Task = {"t", "u"}
  Untested = {"u"}
  Costs = {1}
  MayRaise = TRUE
  MayDie = TRUE
INVARIANTS FreshOnce CostsCovered
PROPERTIES PassReturnsHeld PassesEnd
CHECK_DEADLOCK FALSE
