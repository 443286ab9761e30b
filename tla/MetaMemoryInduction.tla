------------------------- MODULE MetaMemoryInduction -------------------------
(***************************************************************************)
(* The inductive invariant behind the safety properties of MetaMemory: who *)
(* owns each rule, what a pending patch can still undo, and what is known  *)
(* of a patch from the way it was staged.  It holds for callers that look  *)
(* a patch id up before they submit it (Resubmit = FALSE) and that hold    *)
(* back edits of rules an unresolved patch works on (SerializeEdits).      *)
(***************************************************************************)
EXTENDS MetaMemory

\* The winners a caller holds are new patches that share no rule.
AcceptedFresh ==
  /\ \A q \in accepted : patches[q.id].status = "absent"
  /\ \A q1, q2 \in accepted :
       q1 # q2 => q1.id # q2.id /\ Claims(q1) \cap Claims(q2) = {}

Staged(p) == patches[p].status \in {"pending", "validated", "rolled_back"}

\* Patch p edits stable rules whose failures had opened the gate; it leaves
\* them alone and records only its results for rollback.
AgainstStable(p) ==
  /\ patches[p].op \in {"DELETE", "MERGE"}
  /\ \A r \in patches[p].targets : StagedAgainst(p, r)
  /\ patches[p].results \cap patches[p].targets = {}
  /\ patches[p].staged = patches[p].results

\* Patch p edits volatile rules, or none, and touched all it claims.
AgainstVolatile(p) ==
  /\ \A r \in patches[p].targets : patches[p].snapshot[r].tier = "volatile"
  /\ patches[p].staged = Claims(patches[p])

StagedKind ==
  \A p \in PatchId :
    Staged(p) =>
      /\ AgainstStable(p) \/ AgainstVolatile(p)
      /\ \A r \in RuleId \ patches[p].targets : patches[p].snapshot[r] = NoRule
      /\ patches[p].op = "DELETE" => patches[p].results = {}

\* A stored version of rule r belongs to the patch that made it, and that
\* patch earned what the rule is to replace.
Owned(r, row) ==
  row.tier # "absent" =>
    /\ row.source = NoPatch => row.replaces = {} /\ row.status = "validated"
    /\ row.source # NoPatch =>
         /\ r \in patches[row.source].results
         /\ row.replaces # {} => patches[row.source].op = "MERGE"
         /\ \A t \in row.replaces : StagedAgainst(row.source, t)

RulesOwned == \A r \in RuleId : Owned(r, rules[r])

\* A version of a rule that may come back is settled: its patch is validated.
Settled(r, row) ==
  row.tier # "absent" =>
    /\ Owned(r, row)
    /\ row.status = "validated"
    /\ row.source # NoPatch => patches[row.source].status = "validated"

SnapshotsSettled ==
  \A p \in PendingPatches, r \in RuleId : Settled(r, patches[p].snapshot[r])

\* Until a patch is resolved its results are its own and its volatile targets
\* stay away: nobody else writes what a rollback would overwrite.
PendingHolds ==
  \A p \in PendingPatches :
    /\ \A r \in patches[p].results :
         /\ rules[r].tier = "volatile"
         /\ rules[r].status = "pending"
         /\ rules[r].source = p
    /\ \A r \in patches[p].staged \ patches[p].results : rules[r].tier = "absent"

(* What the edits of disciplined callers keep at every moment.             *)
EditInv ==
  /\ AcceptedFresh
  /\ ConflictFree
  /\ StagedKind
  /\ RulesOwned
  /\ RuleTracksPatch
  /\ SnapshotsSettled
  /\ PendingHolds

-----------------------------------------------------------------------------
\* No rule id is the result of two patches: adapters name the results of a
\* patch "<patch id>:rule:<index>".
FreshResults ==
  \A q1, q2 \in Proposals : q1.id # q2.id => q1.results \cap q2.results = {}

ResultsProposed ==
  \A p \in PatchId :
    patches[p].status # "absent" =>
      \E q \in Proposals : q.id = p /\ q.results = patches[p].results

\* Everything a stored version of a rule claims is in its patch's evidence.
Backed(row) ==
  row.tier # "absent" /\ row.source # NoPatch =>
    LET won == Rows(row.source, TRUE)
        lost == Rows(row.source, FALSE)
        all == won \cup lost
    IN  /\ row.successes <= Cardinality(won)
        /\ row.failures <= Cardinality(lost)
        /\ row.wonIn \subseteq {e.round : e \in won}
        /\ row.subsets \subseteq {e.subset : e \in all}
        /\ row.recovered => \E e \in all : e.recovered

\* A rule a patch made is stable only with the counters promotion asks for.
EarnedByCounters ==
  \A r \in RuleId :
    Stable(r) /\ rules[r].source # NoPatch =>
      /\ Cardinality(rules[r].wonIn) >= PromotionAge
      /\ Cardinality(rules[r].subsets) >= PromotionSubsets
      /\ rules[r].needs => rules[r].recovered

(* What promotion finds: counters that the evidence log backs.             *)
EvidenceInv ==
  /\ IsFiniteSet(evidence)
  /\ ResultsProposed
  /\ \A r \in RuleId : Backed(rules[r])
  /\ \A p \in PendingPatches, r \in RuleId : Backed(patches[p].snapshot[r])
  /\ EarnedByCounters

-----------------------------------------------------------------------------
(* Neither a stored rule nor one a rollback may restore aged faster than   *)
(* the rounds passed.                                                      *)
Young(row) == row.age + row.created <= lastRound + 1

AgeInv ==
  /\ \A r \in RuleId : Young(rules[r])
  /\ \A p \in PatchId, r \in RuleId : Young(patches[p].snapshot[r])
=============================================================================
