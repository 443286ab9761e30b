----------------------------- MODULE MetaMemory -----------------------------
(***************************************************************************)
(* The Meta-Memory Harness engine (src/meta_memory/engine.py) over its     *)
(* SQLite store (src/meta_memory/store.py): typed rules in a volatile and  *)
(* a stable tier, reversible patches, held-out validation evidence,        *)
(* precedents, ageing and promotion.                                       *)
(*                                                                         *)
(* Every engine method runs in one BEGIN IMMEDIATE transaction, so it is   *)
(* one action here.  Between two transactions the caller (update_cycle, an *)
(* adapter, a study driver) may stop: `accepted' is the list of filtered   *)
(* patches it holds in memory, and Abandon loses it.                       *)
(*                                                                         *)
(* Abstracted: texts and embeddings (a rule is its id and its counters),   *)
(* the influence estimate (any patch may fall below the threshold, and any *)
(* order of the survivors may result), time stamps and error strings.      *)
(***************************************************************************)
EXTENDS FailureLog

CONSTANTS
  RuleId,             \* rule ids, numbered in lexical order
  PatchId,            \* patch ids
  SubsetId,           \* validation subsets, numbered in lexical order
  MaxRound,           \* bound on the round counter
  MaxEvidence,        \* bound on the evidence log
  Proposals,          \* what the proposer may submit
  Observations,       \* what a validation may report: [success, applicable, recovered]
  Seeds,              \* what a store may hold beforehand: validated rules, by tier
  PriorSuccess,       \* MMHConfig.alpha
  PriorFailure,       \* MMHConfig.beta
  ConfidencePercent,  \* MMHConfig.promotion_confidence, in percent
  PromotionAge,
  PromotionSubsets,
  SerializeEdits,     \* callers hold back edits of rules claimed by a pending patch
  Resubmit,           \* a caller may submit a patch id it already submitted
  NoPatch             \* source_patch_id of a seeded rule

Operations == {"ADD", "DELETE", "REFINE", "SPLIT", "MERGE"}

\* A drafted patch: what to edit, with the ids of the rules it would create.
Proposal ==
  [id : PatchId, op : Operations, targets : SUBSET RuleId,
   results : SUBSET RuleId, needs : BOOLEAN]

ASSUME MetaMemoryAssumption ==
  /\ RuleId \subseteq Nat /\ IsFiniteSet(RuleId)
  /\ SubsetId \subseteq Nat /\ IsFiniteSet(SubsetId)
  /\ Proposals \subseteq Proposal
  /\ Observations \subseteq [success : BOOLEAN, applicable : BOOLEAN, recovered : BOOLEAN]
  /\ Seeds \subseteq [volatile: SUBSET RuleId, stable: SUBSET RuleId]
  /\ NoPatch \notin PatchId
  /\ {MaxRound, MaxEvidence, PriorSuccess, PriorFailure} \subseteq Nat
  /\ {ConfidencePercent, PromotionAge, PromotionSubsets} \subseteq Nat
  /\ {SerializeEdits, Resubmit} \subseteq BOOLEAN

VARIABLES
  rules,       \* table rules: id -> row, or NoRule
  patches,     \* table patches: id -> row, or NoPatchRow
  evidence,    \* table evidence, unique in (patch, subset, round)
  precedents,  \* table precedents: patch id -> recorded outcome
  lastRound,   \* metadata last_round; 0 before the first advance_round
  accepted     \* the caller's winners of filter_and_resolve, not yet staged

vars == <<rules, patches, evidence, precedents, lastRound, accepted>>

-----------------------------------------------------------------------------
(* Rows *)

Rounds == 1..MaxRound

RuleRow ==
  [tier : {"absent", "volatile", "stable"},
   status : {"pending", "validated"},
   source : PatchId \cup {NoPatch},
   created : Nat,                 \* created_round
   successes : Nat,
   failures : Nat,
   age : Nat,                     \* elapsed_age
   wonIn : SUBSET Rounds,         \* successful_rounds; its size is successful_lifespan
   subsets : SUBSET SubsetId,     \* independent_subsets
   needs : BOOLEAN,               \* original_failure_required
   recovered : BOOLEAN,           \* original_failure_recovered
   replaces : SUBSET RuleId,      \* replaces_stable_rule_ids
   history : SUBSET [round : Rounds, subset : SubsetId]]

FreshRule ==
  [tier |-> "volatile", status |-> "validated", source |-> NoPatch,
   created |-> 0, successes |-> 0, failures |-> 0, age |-> 0, wonIn |-> {},
   subsets |-> {}, needs |-> FALSE, recovered |-> FALSE, replaces |-> {},
   history |-> {}]

NoRule == [FreshRule EXCEPT !.tier = "absent"]

PatchRow ==
  [status : {"absent", "pending", "validated", "rolled_back", "deferred", "rejected"},
   op : Operations, targets : SUBSET RuleId, results : SUBSET RuleId,
   created : Nat, resolved : Nat,
   staged : SUBSET RuleId,          \* staged_rule_ids
   snapshot : [RuleId -> RuleRow]]  \* parent_rule_snapshots

NoSnapshot == [r \in RuleId |-> NoRule]

NoPatchRow ==
  [status |-> "absent", op |-> "ADD", targets |-> {}, results |-> {},
   created |-> 0, resolved |-> 0, staged |-> {}, snapshot |-> NoSnapshot]

\* The row put_patch writes for a patch that is not staged.
Unstaged(q, status) ==
  [NoPatchRow EXCEPT !.status = status, !.op = q.op,
                     !.targets = q.targets, !.results = q.results]

ValidationEvidence ==
  [patch : PatchId, subset : SubsetId, round : Rounds, success : BOOLEAN,
   applicable : BOOLEAN, recovered : BOOLEAN]

Evidence(p, subset, round, o) ==
  [patch |-> p, subset |-> subset, round |-> round, success |-> o.success,
   applicable |-> o.applicable, recovered |-> o.recovered]

Outcomes == {"none", "success", "failure"}

Live(r) == rules[r].tier # "absent"
Stable(r) == rules[r].tier = "stable"
Claims(q) == q.targets \cup q.results
PendingPatches == {p \in PatchId : patches[p].status = "pending"}

-----------------------------------------------------------------------------
(* Filtering: stage 2 of Algorithm 1 *)

\* The sanity checks filter_and_resolve and stage_patch share.
StableTargets(q) == {r \in q.targets : Stable(r)}

Acceptable(q) ==
  /\ \A r \in q.targets : Live(r)
  /\ StableTargets(q) # {} =>
       /\ StableTargets(q) = q.targets
       /\ q.op \in {"DELETE", "MERGE"}
       /\ \A r \in q.targets : StableEditAllowed(rules[r].history)
       /\ q.op = "MERGE" => q.results \cap q.targets = {}
  /\ \A r \in q.results \ q.targets : ~Live(r)

\* Mutant of Submittable: the caller does not look the patch id up first.
SubmittableAgain(q) ==
  SerializeEdits =>
    \A p \in PendingPatches \ {q.id} : Claims(q) \cap Claims(patches[p]) = {}

\* What a caller may submit: the adapters and the study drivers check that
\* the patch id is new, and MMH_TTHE_HANDOFF asks them to serialize edits of
\* rules an unresolved patch works on.
Submittable(q) ==
  /\ Resubmit \/ patches[q.id].status = "absent"
  /\ SerializeEdits =>
       \A p \in PendingPatches \ {q.id} : Claims(q) \cap Claims(patches[p]) = {}

Batches ==
  {b \in SUBSET Proposals : b # {} /\ \A q1, q2 \in b : q1.id = q2.id => q1 = q2}

\* Mutant of Winners: patches compete for the rules they create, not for
\* those they read.
WinnersByResult(survivors) ==
  {w \in SUBSET survivors :
     /\ \A q1, q2 \in w : q1 # q2 => q1.results \cap q2.results = {}
     /\ \A q \in survivors \ w : \E q1 \in w : q.results \cap q1.results # {}}

\* The patches that win when the survivors are taken in order of influence
\* and each claims the rules it reads or creates: a maximal set of patches
\* whose claims are disjoint, any of them for some order.
Winners(survivors) ==
  {w \in SUBSET survivors :
     /\ \A q1, q2 \in w : q1 # q2 => Claims(q1) \cap Claims(q2) = {}
     /\ \A q \in survivors \ w : \E q1 \in w : Claims(q) \cap Claims(q1) # {}}

\* The patches whose influence, estimated from the nearest precedents or
\* judged, may reach the threshold: any of those that pass the checks.
Influential(batch) == SUBSET {q \in batch : Acceptable(q)}

FilterAndResolve(batch) ==
  /\ accepted = {}
  /\ \A q \in batch : Submittable(q)
  /\ \E survivors \in Influential(batch) :
     \E won \in Winners(survivors) :
       /\ accepted' = won
       /\ patches' =
            [p \in PatchId |->
               IF \E q \in batch \ won : q.id = p
               THEN LET q == CHOOSE q \in batch \ won : q.id = p
                    IN  Unstaged(q, IF q \in survivors THEN "deferred" ELSE "rejected")
               ELSE patches[p]]
  /\ UNCHANGED <<rules, evidence, precedents, lastRound>>

-----------------------------------------------------------------------------
(* Staging: stage 3 of Algorithm 1 *)

\* _validate_patch_shape
WellFormed(q) ==
  CASE q.op = "ADD"    -> q.targets = {} /\ Cardinality(q.results) = 1
    [] q.op = "DELETE" -> q.targets # {} /\ q.results = {}
    [] q.op = "REFINE" -> Cardinality(q.targets) = 1 /\ Cardinality(q.results) = 1
    [] q.op = "SPLIT"  -> q.targets # {} /\ Cardinality(q.results) >= 2
    [] q.op = "MERGE"  -> Cardinality(q.targets) >= 2 /\ Cardinality(q.results) = 1

\* The round a caller passes: drivers advance before they stage (update_cycle,
\* full_study) or after they validated (LiveCodeBench finish_round).
CallerRounds == {r \in Rounds : r = lastRound \/ r = lastRound + 1}

StagedRule(q, round) ==
  [FreshRule EXCEPT !.status = "pending", !.source = q.id, !.created = round,
                    !.needs = q.needs, !.replaces = StableTargets(q)]

\* Mutants of StagedIds: the result rules are not recorded for rollback; the
\* stable originals are edited at once.
StagedTargets(q) == IF StableTargets(q) # {} THEN {} ELSE q.targets
StagedEagerly(q) == Claims(q)

\* Stable originals stay live while a deletion is pending and while a merge
\* replacement earns promotion; volatile edits are really applied.
StagedIds(q) ==
  IF StableTargets(q) # {} THEN q.results ELSE Claims(q)

StagePatch(q, round) ==
  /\ q \in accepted
  /\ accepted' = accepted \ {q}
  /\ patches[q.id].status = "absent"
  /\ WellFormed(q)
  /\ Acceptable(q)
  /\ rules' = [r \in RuleId |->
                 IF r \in q.results THEN StagedRule(q, round)
                 ELSE IF r \in StagedIds(q) THEN NoRule
                 ELSE rules[r]]
  /\ patches' = [patches EXCEPT ![q.id] =
       [Unstaged(q, "pending") EXCEPT
          !.created = round,
          !.staged = StagedIds(q),
          !.snapshot = [r \in RuleId |-> IF r \in q.targets THEN rules[r] ELSE NoRule]]]
  /\ UNCHANGED <<evidence, precedents, lastRound>>

\* A known patch id is returned as it is stored ("idempotent resume").
StageKnownPatch(q) ==
  /\ q \in accepted
  /\ WellFormed(q)
  /\ patches[q.id].status # "absent"
  /\ accepted' = accepted \ {q}
  /\ UNCHANGED <<rules, patches, evidence, precedents, lastRound>>

\* The caller stops between two transactions, or a ValueError or KeyError of
\* stage_patch ends its loop.
Abandon ==
  /\ accepted # {}
  /\ accepted' = {}
  /\ UNCHANGED <<rules, patches, evidence, precedents, lastRound>>

-----------------------------------------------------------------------------
(* Validation *)

\* Mutant of AddEvidence: a repeated observation is inserted again.
AddEvidenceAgain(e) ==
  /\ patches[e.patch].status # "absent"
  /\ Cardinality(evidence) < MaxEvidence
  /\ evidence' = evidence \cup {e}

\* add_evidence inserts a row once per (patch, subset, round); the foreign
\* key needs the patch row.
AddEvidence(e) ==
  /\ patches[e.patch].status # "absent"
  /\ Cardinality(evidence) < MaxEvidence
  /\ \A f \in evidence :
       <<f.patch, f.subset, f.round>> # <<e.patch, e.subset, e.round>>
  /\ evidence' = evidence \cup {e}

\* _apply_evidence on one of the patch's result rules.
Counted(rule, e) ==
  [rule EXCEPT
     !.successes = IF e.success THEN @ + 1 ELSE @,
     !.failures = IF e.success THEN @ ELSE @ + 1,
     !.wonIn = IF e.success THEN @ \cup {e.round} ELSE @,
     !.subsets = @ \cup {e.subset},
     !.recovered = @ \/ e.recovered]

\* The result rules that are still stored receive the evidence.
Receivers(e) == {r \in patches[e.patch].results : Live(r)}

\* An inapplicable observation is audited and nothing else.
AuditInapplicable(e) ==
  /\ ~e.applicable
  /\ AddEvidence(e)
  /\ UNCHANGED <<rules, patches, precedents, lastRound, accepted>>

\* A patch that is not pending is never re-resolved; its rules keep being
\* calibrated.
Calibrate(e) ==
  /\ e.applicable
  /\ AddEvidence(e)
  /\ patches[e.patch].status # "pending"
  /\ rules' = [r \in RuleId |->
                 IF r \in Receivers(e) THEN Counted(rules[r], e) ELSE rules[r]]
  /\ UNCHANGED <<patches, precedents, lastRound, accepted>>

\* INSERT OR IGNORE on the patch id.
AddPrecedent(p, outcome) ==
  precedents' = [precedents EXCEPT ![p] = IF @ = "none" THEN outcome ELSE @]

Resolve(e, verdict) ==
  patches' = [patches EXCEPT ![e.patch].status = verdict,
                             ![e.patch].resolved = e.round]

ValidateSuccess(e) ==
  /\ e.applicable /\ e.success
  /\ AddEvidence(e)
  /\ patches[e.patch].status = "pending"
  /\ LET p == patches[e.patch]
     IN  rules' = [r \in RuleId |->
           IF r \in Receivers(e) THEN [Counted(rules[r], e) EXCEPT !.status = "validated"]
           ELSE IF p.op = "DELETE" /\ r \in p.targets THEN NoRule
           ELSE rules[r]]
  /\ Resolve(e, "validated")
  /\ AddPrecedent(e.patch, "success")
  /\ UNCHANGED <<lastRound, accepted>>

\* _restore_snapshot undoes the rules stage_patch touched, the result rules
\* just counted among them, and no others.
ValidateFailure(e) ==
  /\ e.applicable /\ ~e.success
  /\ AddEvidence(e)
  /\ patches[e.patch].status = "pending"
  /\ LET p == patches[e.patch]
     IN  rules' = [r \in RuleId |->
           IF r \in p.staged THEN p.snapshot[r] ELSE rules[r]]
  /\ Resolve(e, "rolled_back")
  /\ AddPrecedent(e.patch, "failure")
  /\ UNCHANGED <<lastRound, accepted>>

-----------------------------------------------------------------------------
(* Rule health, ageing and promotion *)

\* The callers report the health of stable rules only (LiveCodeBench
\* _record_stable_observation, full_study adapt).
RecordRuleObservation(r, marker, success) ==
  /\ Stable(r)
  /\ rules' = [rules EXCEPT ![r].history = Observed(@, marker, success)]
  /\ UNCHANGED <<patches, evidence, precedents, lastRound, accepted>>

\* Mutant of AdvanceRound: the round is not recorded after the rules aged.
AdvanceUnrecorded(round) ==
  /\ round > lastRound
  /\ lastRound' = IF lastRound = 0 THEN round ELSE lastRound
  /\ rules' = [r \in RuleId |->
                 IF rules[r].tier = "volatile" /\ lastRound # 0
                 THEN [rules[r] EXCEPT !.age = @ + (round - lastRound)]
                 ELSE rules[r]]
  /\ UNCHANGED <<patches, evidence, precedents, accepted>>

\* The first call only records the round; later rounds age the volatile rules
\* by the distance; a round already seen changes nothing.
AdvanceRound(round) ==
  /\ round > lastRound
  /\ lastRound' = round
  /\ rules' = [r \in RuleId |->
                 IF rules[r].tier = "volatile" /\ lastRound # 0
                 THEN [rules[r] EXCEPT !.age = @ + (round - lastRound)]
                 ELSE rules[r]]
  /\ UNCHANGED <<patches, evidence, precedents, accepted>>

\* Eq. 5 compared with the threshold, multiplied out.
Confident(rule) ==
  100 * (PriorSuccess + rule.successes) >=
    ConfidencePercent * (PriorSuccess + PriorFailure + rule.successes + rule.failures)

\* Mutant of Eligible: the recovery of the original failure is not required.
EligibleUnrecovered(rule) ==
  /\ rule.tier = "volatile"
  /\ rule.status = "validated"
  /\ Confident(rule)
  /\ rule.age >= PromotionAge
  /\ Cardinality(rule.wonIn) >= PromotionAge
  /\ Cardinality(rule.subsets) >= PromotionSubsets

\* _eligible_for_promotion
Eligible(rule) ==
  /\ rule.tier = "volatile"
  /\ rule.status = "validated"
  /\ Confident(rule)
  /\ rule.age >= PromotionAge
  /\ Cardinality(rule.wonIn) >= PromotionAge
  /\ Cardinality(rule.subsets) >= PromotionSubsets
  /\ rule.needs => rule.recovered

EligibleRules == {r \in RuleId : Eligible(rules[r])}

\* Rules are promoted in id order; each first displaces the originals it
\* replaces that are stable at that moment.
Displaced ==
  {t \in RuleId : \E m \in EligibleRules :
     /\ t \in rules[m].replaces
     /\ Stable(t) \/ (t \in EligibleRules /\ t < m)}

PromoteEligible ==
  /\ EligibleRules # {}
  /\ rules' = [r \in RuleId |->
                 IF r \in Displaced THEN NoRule
                 ELSE IF r \in EligibleRules THEN [rules[r] EXCEPT !.tier = "stable"]
                 ELSE rules[r]]
  /\ UNCHANGED <<patches, evidence, precedents, lastRound, accepted>>

-----------------------------------------------------------------------------
Init ==
  /\ \E seed \in Seeds :
       rules = [r \in RuleId |->
                  IF r \in seed.stable THEN [FreshRule EXCEPT !.tier = "stable"]
                  ELSE IF r \in seed.volatile THEN FreshRule
                  ELSE NoRule]
  /\ patches = [p \in PatchId |-> NoPatchRow]
  /\ evidence = {}
  /\ precedents = [p \in PatchId |-> "none"]
  /\ lastRound = 0
  /\ accepted = {}

ValidatePatch ==
  \E p \in PatchId, subset \in SubsetId, round \in CallerRounds, o \in Observations :
    LET e == Evidence(p, subset, round, o)
    IN  AuditInapplicable(e) \/ Calibrate(e) \/ ValidateSuccess(e) \/ ValidateFailure(e)

Stage ==
  \E q \in accepted :
    \/ \E round \in CallerRounds : StagePatch(q, round)
    \/ StageKnownPatch(q)

Observe ==
  \E r \in RuleId, round \in CallerRounds, subset \in SubsetId, success \in BOOLEAN :
    RecordRuleObservation(r, [round |-> round, subset |-> subset], success)

Next ==
  \/ \E batch \in Batches : FilterAndResolve(batch)
  \/ Stage
  \/ Abandon
  \/ ValidatePatch
  \/ Observe
  \/ \E round \in Rounds : AdvanceRound(round)
  \/ PromoteEligible

Spec == Init /\ [][Next]_vars
-----------------------------------------------------------------------------
(* Properties *)

TypeOK ==
  /\ rules \in [RuleId -> RuleRow]
  /\ patches \in [PatchId -> PatchRow]
  /\ evidence \in SUBSET ValidationEvidence
  /\ precedents \in [PatchId -> Outcomes]
  /\ lastRound \in 0..MaxRound
  /\ accepted \in SUBSET Proposals

(* A live rule is pending exactly while the patch that made it is: no     *)
(* rollback, restoration or late evidence leaves a rule of a rolled back   *)
(* patch behind or shows a rule of an unresolved one to retrieve().        *)
RuleTracksPatch ==
  \A r \in RuleId :
    Live(r) /\ rules[r].source # NoPatch =>
      patches[rules[r].source].status = rules[r].status

(* At no time do two unresolved patches, or one and a winner waiting to be *)
(* staged, read or create the same rule (the claims of filter_and_resolve, *)
(* across batches and crashes).                                            *)
ConflictFree ==
  /\ \A p1, p2 \in PendingPatches :
       p1 # p2 => Claims(patches[p1]) \cap Claims(patches[p2]) = {}
  /\ \A q \in accepted, p \in PendingPatches :
       p # q.id => Claims(q) \cap Claims(patches[p]) = {}

(* The precedent log holds one outcome for each resolved patch, the one it *)
(* was resolved with, and none for any other (Eq. 12 and Eq. 11's log).    *)
PrecedentMatchesPatch ==
  \A p \in PatchId :
    precedents[p] = CASE patches[p].status = "validated"   -> "success"
                      [] patches[p].status = "rolled_back" -> "failure"
                      [] OTHER                             -> "none"

(* A pending patch leaves that state only by a verdict, and a verdict is   *)
(* final: no resubmission, retry or later evidence changes or erases it.   *)
ResolveOnce ==
  [][\A p \in PatchId :
       /\ patches[p].status = "pending" =>
            patches'[p].status \in {"pending", "validated", "rolled_back"}
       /\ patches[p].status \in {"validated", "rolled_back"} =>
            patches'[p] = patches[p]]_vars

\* Patch p may take stable rule r away: it was staged against r as a stable
\* rule whose failures had opened the gate.
StagedAgainst(p, r) ==
  /\ r \in patches[p].targets
  /\ patches[p].snapshot[r].tier = "stable"
  /\ StableEditAllowed(patches[p].snapshot[r].history)

(* A stable rule leaves the stable tier only when a DELETE staged against  *)
(* its repeated failures is validated, or when the replacement of a MERGE  *)
(* staged against them earns promotion: no rollback, volatile edit or      *)
(* promotion of another rule overwrites it.                                *)
StableRemovalEarned ==
  [][\A r \in RuleId :
       Stable(r) /\ rules'[r].tier # "stable" =>
         \E p \in PatchId :
           /\ StagedAgainst(p, r)
           /\ \/ /\ patches[p].op = "DELETE"
                 /\ patches[p].status = "pending"
                 /\ patches'[p].status = "validated"
              \/ /\ patches[p].op = "MERGE"
                 /\ patches[p].status = "validated"
                 /\ patches[p].results \cap EligibleRules # {}]_vars

(* No rule ages faster than the rounds pass, through resumed rounds, jumps *)
(* of the round counter, rollbacks and re-staging (advance_round).         *)
AgeBounded ==
  \A r \in RuleId :
    Live(r) => rules[r].age + rules[r].created <= lastRound + 1

Rows(p, success) ==
  {e \in evidence : e.patch = p /\ e.applicable /\ e.success = success}

(* No observation is counted twice: a rule's successes and failures are    *)
(* backed by distinct rows of its own patch, also after duplicate reports, *)
(* rollbacks and restored snapshots (Eq. 5 over independent evidence).     *)
EvidenceNeverInflated ==
  \A r \in RuleId :
    Live(r) /\ rules[r].source # NoPatch =>
      /\ rules[r].successes <= Cardinality(Rows(rules[r].source, TRUE))
      /\ rules[r].failures <= Cardinality(Rows(rules[r].source, FALSE))

(* A rule the engine promoted has, in the evidence log, successes in       *)
(* PromotionAge distinct rounds, evidence from PromotionSubsets distinct   *)
(* subsets, and the recovery of its original failure where one was         *)
(* required: waiting alone promotes nothing.                               *)
PromotionEarned ==
  \A r \in RuleId :
    Stable(r) /\ rules[r].source # NoPatch =>
      LET won == Rows(rules[r].source, TRUE)
          all == won \cup Rows(rules[r].source, FALSE)
      IN  /\ Cardinality({e.round : e \in won}) >= PromotionAge
          /\ Cardinality({e.subset : e \in all}) >= PromotionSubsets
          /\ rules[r].needs => \E e \in all : e.recovered

(* "Later evidence continues to calibrate a validated volatile rule" (the  *)
(* docstring of validate_patch): every applicable observation of a         *)
(* validated patch is counted by its live rules.                           *)
LaterEvidenceCalibrates ==
  \A r \in RuleId :
    Live(r) /\ rules[r].source # NoPatch =>
      rules[r].successes + rules[r].failures =
        Cardinality(Rows(rules[r].source, TRUE) \cup Rows(rules[r].source, FALSE))
=============================================================================
