--------------------------- MODULE MCBudgetLedger ---------------------------
(* Constants for the runs of BudgetLedger: two processes, memory calls and *)
(* capped solver calls.  Processes and reservation ids are interchangeable *)
(* and every property checked is one of safety.                            *)
EXTENDS BudgetLedger, TLC

SolverCap == [solver |-> 2]

Interchangeable == Permutations(Client) \cup Permutations(Entry)
=============================================================================
