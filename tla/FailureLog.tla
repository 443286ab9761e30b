----------------------------- MODULE FailureLog -----------------------------
(***************************************************************************)
(* The failure history a rule carries in provenance["stable_failure_       *)
(* history"], and the gate MetaMemoryEngine derives from it: a stable rule *)
(* may be deleted or merged only after repeated failures in distinct       *)
(* rounds and across distinct validation subsets.                          *)
(*                                                                         *)
(* The code keeps a list sorted by (round, subset).  Its entries are       *)
(* unique in that pair, so the list is the set of its entries; subset      *)
(* names are numbered in their lexical order.  Every retained entry is a   *)
(* failure, because a success empties the list.                            *)
(***************************************************************************)
EXTENDS Integers, FiniteSets

CONSTANTS
  StableFailureRounds,   \* MMHConfig.stable_failure_rounds
  StableFailureSubsets   \* MMHConfig.stable_failure_subsets

ASSUME StableFailureAssumption ==
  /\ StableFailureRounds \in Nat
  /\ StableFailureSubsets \in Nat

Marker == [round : Nat, subset : Nat]

\* The sort key of the history: round first, then subset name.
Earlier(a, b) ==
  \/ a.round < b.round
  \/ a.round = b.round /\ a.subset < b.subset

\* The last n entries of the sorted history.
Latest(log, n) ==
  {m \in log : Cardinality({k \in log : Earlier(m, k)}) < n}

RoundsOf(log) == {m.round : m \in log}
SubsetsOf(log) == {m.subset : m \in log}

\* Mutant of Observed: a success is not a reason to forget the failures.
ObservedThroughSuccess(log, marker, success) ==
  IF success THEN log ELSE Latest(log \cup {marker}, StableFailureRounds)

\* The history after one applicable observation of the rule's health.
Observed(log, marker, success) ==
  IF success THEN {} ELSE Latest(log \cup {marker}, StableFailureRounds)

\* Mutant of StableEditAllowed: failures are counted, not failure rounds.
EditAllowedByCount(log) ==
  LET recent == Latest(log, StableFailureRounds)
  IN  /\ Cardinality(log) >= StableFailureRounds
      /\ Cardinality(SubsetsOf(recent)) >= StableFailureSubsets

\* May a DELETE or MERGE of a stable rule with this history be accepted?
StableEditAllowed(log) ==
  LET recent == Latest(log, StableFailureRounds)
  IN  \/ StableFailureRounds = 0
      \/ /\ Cardinality(log) >= StableFailureRounds
         /\ Cardinality(RoundsOf(recent)) >= StableFailureRounds
         /\ Cardinality(SubsetsOf(recent)) >= StableFailureSubsets
=============================================================================
