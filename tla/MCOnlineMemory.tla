--------------------------- MODULE MCOnlineMemory ---------------------------
(* Constants for the runs of OnlineMemory.  Rules 1 and 2 are seeded; the  *)
(* result of the patch of application a is named after it.                 *)
EXTENDS OnlineMemory, TLC

P(id, op, targets, results, needs) ==
  [id |-> id, op |-> op, targets |-> targets, results |-> results, needs |-> needs]

OneVolatile == {[volatile |-> {1}, stable |-> {}]}
TwoStable == {[volatile |-> {}, stable |-> {1, 2}]}

\* A merge of the stable rules that must recover its task, and a deletion
\* of one of them.
LifecycleEdits ==
  (1 :> P(1, "MERGE", {1, 2}, {3}, TRUE)) @@ (2 :> P(2, "DELETE", {1}, {}, FALSE))

LifecycleUses == (1 :> {}) @@ (2 :> {})
LifecycleOrigins == (1 :> {1}) @@ (2 :> {})
LifecycleTasks == (1 :> {1, 2, 3}) @@ (2 :> {2, 3})

\* One application uses a volatile rule that two others refine; a fourth
\* refines what one of them makes of it.
PairEdits ==
  (1 :> NoEdit) @@ (2 :> P(2, "REFINE", {1}, {3}, FALSE)) @@ (3 :> P(3, "REFINE", {1}, {4}, FALSE))
    @@ (4 :> P(4, "REFINE", {3}, {5}, FALSE))
PairUses == [a \in 1..4 |-> IF a = 1 THEN {1} ELSE {}]
PairOrigins == [a \in 1..4 |-> {}]
PairTasks == [a \in 1..4 |-> {1, 2}]
=============================================================================
