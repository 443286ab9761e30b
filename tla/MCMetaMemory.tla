---------------------------- MODULE MCMetaMemory ----------------------------
(* Constants for the runs of MetaMemory.  Rules 1 and 2 are seeded, the    *)
(* others are the results of patches; ids are only ever created by one     *)
(* patch, as the adapters name them "<patch>:rule:<i>".                    *)
EXTENDS MetaMemoryInduction

P(id, op, targets, results, needs) ==
  [id |-> id, op |-> op, targets |-> targets, results |-> results, needs |-> needs]

O(success, applicable, recovered) ==
  [success |-> success, applicable |-> applicable, recovered |-> recovered]

Verdicts == {O(TRUE, TRUE, FALSE), O(FALSE, TRUE, FALSE)}
AllVerdicts == Verdicts \cup {O(FALSE, FALSE, FALSE), O(TRUE, TRUE, TRUE)}

OneVolatile == {[volatile |-> {1}, stable |-> {}]}
TwoStable == {[volatile |-> {}, stable |-> {1, 2}]}
TwoStores == OneVolatile \cup TwoStable

\* Of a volatile rule: an addition that must recover its failure, a split, a
\* refinement of the rule one of them makes.  Of stable rules: a merge, a
\* refinement.  Of both: deletions.
Edits ==
  {P("p", "ADD", {}, {3}, TRUE), P("p", "SPLIT", {1}, {3, 4}, FALSE),
   P("p", "MERGE", {1, 2}, {3}, FALSE), P("p", "DELETE", {1}, {}, FALSE),
   P("q", "REFINE", {3}, {5}, FALSE), P("q", "REFINE", {1}, {5}, FALSE),
   P("q", "DELETE", {1}, {}, FALSE), P("q", "DELETE", {2}, {}, FALSE)}

=============================================================================
