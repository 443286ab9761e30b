----------------------------- MODULE StableGate -----------------------------
(***************************************************************************)
(* The health reports of one stable rule, in whatever order they arrive.   *)
(* `failed' is a history variable: every failure reported since the rule's *)
(* last success, including the ones record_rule_observation has truncated  *)
(* out of the stored history.                                              *)
(***************************************************************************)
EXTENDS FailureLog

CONSTANTS
  ReportRounds,  \* round ids a report may carry
  Subsets        \* validation subsets, numbered in lexical order

ASSUME ReportAssumption ==
  /\ ReportRounds \subseteq Nat  /\ IsFiniteSet(ReportRounds)
  /\ Subsets \subseteq Nat /\ IsFiniteSet(Subsets)

VARIABLES
  log,       \* the stored stable_failure_history
  failed     \* all failures since the last success (history variable)

gateVars == <<log, failed>>

Report == [round : ReportRounds, subset : Subsets]

GateInit ==
  /\ log = {}
  /\ failed = {}

\* record_rule_observation: rounds may repeat (a resumed round reports
\* again) and may arrive late.
ReportHealth(marker, success) ==
  /\ log' = Observed(log, marker, success)
  /\ failed' = IF success THEN {} ELSE failed \cup {marker}

GateNext ==
  \E marker \in Report, success \in BOOLEAN :
    ReportHealth(marker, success)

GateSpec == GateInit /\ [][GateNext]_gateVars

-----------------------------------------------------------------------------
GateTypeOK ==
  /\ log \in SUBSET Report
  /\ failed \in SUBSET Report

(* Whatever the order, repetition or lateness of the reports, the stored   *)
(* history is exactly the latest failures since the last success: no       *)
(* report evicts a later one and a repeated one takes no second slot       *)
(* (record_rule_observation's dedupe, sort and truncation).                *)
HistoryIsLatestFailures ==
  log = Latest(failed, StableFailureRounds)

EnoughFailures ==
  /\ Cardinality(RoundsOf(failed)) >= StableFailureRounds
  /\ Cardinality(SubsetsOf(failed)) >= StableFailureSubsets

(* The gate never opens early: an edit of a stable rule is accepted only   *)
(* when the rule really failed in enough distinct rounds and across enough *)
(* subsets since it last succeeded (_stable_edit_allowed).                 *)
GateSound ==
  StableFailureRounds > 0 /\ StableEditAllowed(log) => EnoughFailures

(* The documented promise read the other way: after that many distinct     *)
(* applicable failure rounds across enough subsets the gate accepts a      *)
(* DELETE or MERGE (docs/MMH_IMPLEMENTATION.md, stable-rule bullet).       *)
GateOpens ==
  EnoughFailures => StableEditAllowed(log)
=============================================================================
