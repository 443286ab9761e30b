---------------------------- MODULE MCStableGate ----------------------------
(* Four rounds and two subsets: enough to fail twice in one round, to      *)
(* report late, to repeat a report and to overflow the stored history.     *)
EXTENDS StableGate

MCRounds == 1..4
MCSubsets == 1..2
=============================================================================
