SPECIFICATION LedgerSpec
CONSTANTS
  Client = {c, d}
  Entry = {e1, e2, e3}
  Category = {"memory_validation", "solver"}
  MemoryCategory = {"memory_validation"}
  CategoryCap <- SolverCap
  Allocations = {1, 2}
  TotalBudget = 3
  Requests = {1, 2}
  Usages = {0, 1, 2, 4}
  None = none
SYMMETRY Interchangeable
INVARIANT WithinCaps
PROPERTY ImplementsBudget
