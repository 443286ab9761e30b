---------------------------- MODULE OnlineMemory ----------------------------
(***************************************************************************)
(* The online lifecycle of the LiveCodeBench experiment                    *)
(* (src/experiments/lcb_mmh_online/memory.py over store.py): an            *)
(* application ties a candidate harness to the rules it uses and to the    *)
(* patch it proposes; observations of later tasks decide it.               *)
(*                                                                         *)
(* It writes the engine's tables `rules' and `patches' of MetaMemory and   *)
(* two of its own.  record_evidence is one transaction.  A registration    *)
(* is four: the application row, filter_and_resolve, stage_patch, and the  *)
(* row again; the process may die between any two (Crash).                 *)
(*                                                                         *)
(* Unused here: MetaMemory's `evidence' and `lastRound', which only the    *)
(* engine's own validate_patch and advance_round write.                    *)
(***************************************************************************)
EXTENDS MetaMemory

CONSTANTS
  App,                \* application ids, numbered in lexical order
  Edit,               \* App -> the memory patch on its card, or NoEdit
  NoEdit,
  Uses,               \* App -> applied_rule_ids
  OriginTasks,        \* App -> failure_signature.task_ids
  Attributable,       \* applications whose change is attributable
  MinDecisive,        \* OnlinePolicyConfig.decision_min_decisive
  DistinctTasks,      \* .decision_distinct_tasks
  DistinctBatches,    \* .decision_distinct_batches
  SupportPercent,     \* .support_confidence, in percent
  HarmPercent,        \* .harmful_confidence, in percent
  PromotionBatches,   \* .promotion_success_batches
  CacheHits,          \* applications whose pair another comparison may have run
  ComparedOn,         \* App -> the tasks it is compared on (bound)
  MaxCrashes          \* bound on the process deaths

ASSUME OnlineAssumption ==
  /\ App \subseteq Nat /\ App \subseteq PatchId
  /\ \A a \in App : Edit[a] # NoEdit => Edit[a] \in Proposal /\ Edit[a].id = a
  /\ Uses \in [App -> SUBSET RuleId]
  /\ OriginTasks \in [App -> SUBSET SubsetId]
  /\ Attributable \subseteq App
  /\ MaxRound >= 1
  /\ {MinDecisive, DistinctTasks, DistinctBatches, PromotionBatches} \subseteq Nat
  /\ {SupportPercent, HarmPercent, MaxCrashes} \subseteq Nat
  /\ CacheHits \subseteq App

VARIABLES
  apps,       \* table online_applications: [status, created]
  observed,   \* table online_evidence, unique in (application, task)
  batch,      \* the batch the optimizer works on
  lastBatch,  \* metadata online_last_batch; 0 before the first advance
  reg,        \* the registration in progress, in the process's memory
  retrying,   \* the deferred applications a retry pass has not reached yet
  closing,    \* finish_round has advanced the batch and not promoted yet
  earlier,    \* applications known from earlier executions, not met again
  reopened,   \* history: applications registered again after their verdict
  crashes

online == <<apps, observed, batch, lastBatch, reg, retrying, closing, earlier, reopened, crashes>>
ovars == <<vars, online>>

-----------------------------------------------------------------------------
(* Rows *)

Statuses == {"absent", "pending", "supported", "harmful", "deferred"}
Outcome == {"improvement", "regression", "neutral"}

Observation ==
  [app : App, task : SubsetId, batch : Rounds, outcome : Outcome,
   replay : BOOLEAN, fresh : BOOLEAN]

Idle == [app |-> 0, step |-> "idle"]

\* _pending_conflict's identity of an application: the rules it uses and
\* edits, and its patch id.
ClaimedRules(a) == Uses[a] \cup (IF Edit[a] = NoEdit THEN {} ELSE Edit[a].targets)

Unresolved(a) == apps[a].status \in {"pending", "deferred"}
Decided(a) == apps[a].status \in {"supported", "harmful"}

\* Mutant of PendingConflict: what the edits target is left out.
ConflictOfUses(a) ==
  \E b \in App \ {a} : Unresolved(b) /\ Uses[a] \cap Uses[b] # {}

\* _pending_conflict: another unresolved application claims one of its rules.
PendingConflict(a) ==
  \E b \in App \ {a} : Unresolved(b) /\ ClaimedRules(a) \cap ClaimedRules(b) # {}

\* _rule_ids_for_application: the results of the stored patch, or else the
\* rules the application says it reuses.
EvidenceRules(a) ==
  IF Edit[a] # NoEdit /\ patches[a].status # "absent" /\ patches[a].results # {}
  THEN patches[a].results
  ELSE Uses[a]

\* _monitored_rule_ids
MonitoredRules(a) ==
  EvidenceRules(a) \cup Uses[a] \cup
    (IF Edit[a] # NoEdit /\ patches[a].status # "absent" THEN patches[a].targets ELSE {})

-----------------------------------------------------------------------------
(* Registration *)

SetStatus(a, status) == apps' = [apps EXCEPT ![a].status = status]

\* The row of an application that claims nothing another one claims; an edit
\* goes on to the engine's gates, the rest is written a second time and done.
Admit(a, created) ==
  /\ apps' = [apps EXCEPT ![a] =
       [status |-> IF PendingConflict(a) THEN "deferred" ELSE "pending", created |-> created]]
  /\ reg' = IF PendingConflict(a) \/ Edit[a] = NoEdit THEN Idle
            ELSE [app |-> a, step |-> "filter"]

\* register_application.  A known application is returned as it is stored
\* when it has a patch id and is not deferred or harmful.
RegisterApplication(a) ==
  /\ IF Edit[a] # NoEdit /\ apps[a].status \in {"pending", "supported"}
     THEN UNCHANGED <<apps, reg>>
     ELSE Admit(a, batch)

\* _memory_patch_valid: what a card may propose.  The engine asks more of the
\* shape (WellFormed).
ValidPatch(q) ==
  /\ (q.op = "ADD") = (q.targets = {})
  /\ q.op = "DELETE" => q.results = {}
  /\ q.op \in {"ADD", "REFINE", "MERGE"} => Cardinality(q.results) = 1
  /\ q.op = "SPLIT" => Cardinality(q.results) >= 2

\* validate_card, of what the lifecycle reads of a card.
ValidCard(a) == Edit[a] # NoEdit => ValidPatch(Edit[a])

\* The adapter's register_candidate: called for a new candidate, or again for
\* one of an earlier execution when the stream comes to its batch again.  The
\* frozen sources are content-addressed and written first.
RegisterCandidate(a) ==
  /\ reg = Idle /\ retrying = {} /\ ~closing
  /\ \/ apps[a].status = "absent"
     \/ a \in earlier /\ apps[a].created = batch
  /\ ValidCard(a)
  /\ RegisterApplication(a)
  /\ earlier' = earlier \ {a}
  /\ reopened' = reopened \cup {b \in {a} : Decided(b) /\ apps'[b] # apps[b]}
  /\ UNCHANGED <<vars, observed, batch, lastBatch, retrying, closing, crashes>>

\* filter_and_resolve of the one patch; the influence threshold is 0, so
\* only the sanity checks reject, and a rejected row is stored.
Filter ==
  /\ reg.step = "filter"
  /\ LET q == Edit[reg.app] IN
     IF Acceptable(q)
     THEN /\ accepted' = {q}
          /\ reg' = [reg EXCEPT !.step = "stage"]
          /\ UNCHANGED patches
     ELSE /\ patches' = [patches EXCEPT ![q.id] = Unstaged(q, "rejected")]
          /\ reg' = [reg EXCEPT !.step = "defer"]
          /\ UNCHANGED accepted
  /\ UNCHANGED <<rules, evidence, precedents, lastRound>>
  /\ UNCHANGED <<apps, observed, batch, lastBatch, retrying, closing, earlier, reopened, crashes>>

\* stage_patch with the batch the application was created in.
StageEdit ==
  /\ reg.step = "stage"
  /\ LET q == Edit[reg.app] IN
     \/ /\ StagePatch(q, apps[q.id].created) \/ StageKnownPatch(q)
        /\ reg' = [reg EXCEPT !.step = "keep"]
     \/ /\ ~WellFormed(q)                         \* ValueError
        /\ accepted' = {}
        /\ reg' = [reg EXCEPT !.step = "defer"]
        /\ UNCHANGED <<rules, patches, evidence, precedents, lastRound>>
  /\ UNCHANGED <<apps, observed, batch, lastBatch, retrying, closing, earlier, reopened, crashes>>

\* The second write of the application row.
SaveApplication ==
  /\ reg.step \in {"keep", "defer"}
  /\ SetStatus(reg.app, IF reg.step = "keep" THEN "pending" ELSE "deferred")
  /\ reg' = Idle
  /\ UNCHANGED <<vars, observed, batch, lastBatch, retrying, closing, earlier, reopened, crashes>>

\* retry_deferred, at the start of every validation pass: it lists the
\* deferred applications and registers each again, oldest first.
StartRetry ==
  /\ reg = Idle /\ retrying = {} /\ ~closing
  /\ retrying' = {a \in App : apps[a].status = "deferred"}
  /\ retrying' # {}
  /\ UNCHANGED <<vars, apps, observed, batch, lastBatch, reg, closing, earlier, reopened, crashes>>

Older(a, b) ==
  \/ apps[a].created < apps[b].created
  \/ apps[a].created = apps[b].created /\ a <= b

RetryDeferred ==
  /\ reg = Idle
  /\ \E a \in retrying :
       /\ \A b \in retrying : Older(a, b)
       /\ retrying' = retrying \ {a}
       /\ Admit(a, apps[a].created)
  /\ UNCHANGED <<vars, observed, batch, lastBatch, closing, earlier, reopened, crashes>>

-----------------------------------------------------------------------------
(* Evidence and resolution *)

\* An application still observed, on a batch after the one it was created in.
Observable(a) ==
  /\ apps[a].status \in {"pending", "supported", "deferred"}
  /\ apps[a].created < batch

\* _is_original_failure_replay
Replay(a, task, outcome) == outcome = "improvement" /\ task \in OriginTasks[a]

\* Mutant of WithEvidence: the replay of the original failure counts.
WithReplays(rule, o) ==
  [rule EXCEPT
     !.recovered = @ \/ o.replay,
     !.successes = IF o.outcome = "improvement" THEN @ + 1 ELSE @,
     !.failures = IF o.outcome = "regression" THEN @ + 1 ELSE @,
     !.wonIn = IF o.outcome = "improvement" THEN @ \cup {o.batch} ELSE @,
     !.subsets = @ \cup {o.task}]

\* _apply_rule_evidence on one rule: a replay shows the recovery and counts
\* for nothing else.
WithEvidence(rule, o) ==
  [rule EXCEPT
     !.recovered = @ \/ o.replay,
     !.successes = IF o.outcome = "improvement" /\ ~o.replay THEN @ + 1 ELSE @,
     !.failures = IF o.outcome = "regression" THEN @ + 1 ELSE @,
     !.wonIn = IF o.outcome = "improvement" /\ ~o.replay THEN @ \cup {o.batch} ELSE @,
     !.subsets = @ \cup {o.task}]

\* _record_stable_observation: the health history of a stable rule.
WithHealth(rule, o) ==
  IF rule.tier = "stable" /\ ~o.replay
  THEN [rule EXCEPT !.history =
          Observed(@, [round |-> o.batch, subset |-> o.task], o.outcome = "improvement")]
  ELSE rule

\* The rules after an observation that counts; a neutral one changes nothing.
RulesAfter(o) ==
  [r \in RuleId |->
     LET counted == IF r \in EvidenceRules(o.app) /\ Live(r)
                    THEN WithEvidence(rules[r], o) ELSE rules[r]
     IN  IF o.outcome = "neutral" THEN rules[r]
         ELSE IF r \in MonitoredRules(o.app) THEN WithHealth(counted, o)
         ELSE counted]

\* Mutant of Decisive: the replay of the original failure decides too.
DecisiveOrReplay(a, log) == {o \in log : o.app = a /\ o.outcome # "neutral"}

\* _attributed_decisive_evidence: replays are no verdict.
Decisive(a, log) == {o \in log : o.app = a /\ o.outcome # "neutral" /\ ~o.replay}
Improvements(log) == {o \in log : o.outcome = "improvement"}

\* _decisive_stats against the policy: enough observations, tasks, batches.
EnoughEvidence(seen) ==
  /\ Cardinality(seen) >= MinDecisive
  /\ Cardinality({o.task : o \in seen}) >= DistinctTasks
  /\ Cardinality({o.batch : o \in seen}) >= DistinctBatches

\* The verdict on a pending application: _app_confidence against the two
\* thresholds, multiplied out.
Verdict(seen) ==
  LET won == PriorSuccess + Cardinality(Improvements(seen))
      all == PriorSuccess + PriorFailure + Cardinality(seen)
  IN  IF ~EnoughEvidence(seen) THEN "pending"
      ELSE IF 100 * won >= SupportPercent * all THEN "supported"
      ELSE IF 100 * won <= HarmPercent * all THEN "harmful"
      ELSE "pending"

\* _rollback_patch: the staged rules (for a stable DELETE, which stages none,
\* its targets) return to their snapshots, unless another patch wrote them.
Restored(p, seen) ==
  LET staged == IF patches[p].staged = {} THEN Claims(patches[p]) ELSE patches[p].staged
  IN  [r \in RuleId |->
         IF r \in staged /\ (seen[r].tier = "absent" \/ seen[r].source = p)
         THEN patches[p].snapshot[r] ELSE seen[r]]

\* A supported patch validates its live results; a DELETE takes effect.
Validated(p, seen) ==
  [r \in RuleId |->
     IF patches[p].op = "DELETE" /\ r \in patches[p].targets THEN NoRule
     ELSE IF r \in patches[p].results /\ seen[r].tier # "absent"
     THEN [seen[r] EXCEPT !.status = "validated"]
     ELSE seen[r]]

\* The patch of an application that reaches a verdict is resolved with it,
\* if it is still pending.
ResolvePatch(o, verdict) ==
  LET p == o.app IN
  IF Edit[p] = NoEdit \/ patches[p].status # "pending"
  THEN /\ rules' = RulesAfter(o)
       /\ UNCHANGED <<patches, precedents>>
  ELSE /\ rules' = IF verdict = "supported" THEN Validated(p, RulesAfter(o))
                   ELSE Restored(p, RulesAfter(o))
       /\ patches' = [patches EXCEPT
            ![p].status = IF verdict = "supported" THEN "validated" ELSE "rolled_back",
            ![p].resolved = o.batch]
       /\ AddPrecedent(p, IF verdict = "supported" THEN "success" ELSE "failure")

\* Mutant of Decide: the verdict of an application that has one is recomputed.
DecideAgain(o) ==
  LET verdict == Verdict(Decisive(o.app, observed'))
  IN  IF verdict # "pending"
      THEN /\ SetStatus(o.app, verdict)
           /\ ResolvePatch(o, verdict)
      ELSE /\ rules' = RulesAfter(o)
           /\ UNCHANGED <<apps, patches, precedents>>

\* An observation that counts, for an application whose patch is stored.
Decide(o) ==
  LET verdict == Verdict(Decisive(o.app, observed'))
  IN  IF apps[o.app].status = "pending" /\ verdict # "pending"
      THEN /\ SetStatus(o.app, verdict)
           /\ ResolvePatch(o, verdict)
      ELSE /\ rules' = RulesAfter(o)
           /\ UNCHANGED <<apps, patches, precedents>>

\* Observations that are stored and decide nothing: from the cache, of an
\* application that is not attributable.
AuditOnly(o) == ~o.fresh \/ o.app \notin Attributable

\* Neutral observations, and those of an application without its patch row.
Undecided(o) ==
  o.outcome = "neutral" \/ (Edit[o.app] # NoEdit /\ patches[o.app].status = "absent")

\* record_evidence: one observation per application and task.
RecordEvidence(o) ==
  /\ reg = Idle /\ retrying = {} /\ ~closing
  /\ Observable(o.app)
  /\ \A e \in observed : <<e.app, e.task>> # <<o.app, o.task>>
  /\ observed' = observed \cup {o}
  /\ IF AuditOnly(o) THEN UNCHANGED <<rules, patches, precedents, apps>>
     ELSE IF Undecided(o)
     THEN rules' = RulesAfter(o) /\ UNCHANGED <<patches, precedents, apps>>
     ELSE Decide(o)
  /\ UNCHANGED <<evidence, lastRound, accepted>>
  /\ UNCHANGED <<batch, lastBatch, reg, retrying, closing, earlier, reopened, crashes>>

-----------------------------------------------------------------------------
(* Ageing and promotion *)

\* advance_batch, the first half of finish_round.
AdvanceBatch ==
  /\ reg = Idle /\ retrying = {} /\ ~closing
  /\ closing' = TRUE
  /\ IF batch <= lastBatch THEN UNCHANGED <<rules, lastBatch>>
     ELSE /\ lastBatch' = batch
          /\ rules' = [r \in RuleId |->
               IF rules[r].tier = "volatile" /\ lastBatch # 0
               THEN [rules[r] EXCEPT !.age = @ + (batch - lastBatch)] ELSE rules[r]]
  /\ UNCHANGED <<patches, evidence, precedents, lastRound, accepted>>
  /\ UNCHANGED <<apps, observed, batch, reg, retrying, earlier, reopened, crashes>>

\* _rule_eligible_for_promotion
PromotableOnline ==
  {r \in RuleId :
     /\ rules[r].tier = "volatile" /\ rules[r].status = "validated"
     /\ Confident(rules[r])
     /\ rules[r].age >= PromotionAge
     /\ Cardinality(rules[r].wonIn) >= PromotionBatches
     /\ rules[r].needs => rules[r].recovered}

\* promote_eligible, in id order: a replacement displaces the stable
\* originals it finds.
PromoteOnline ==
  LET displaced == {t \in RuleId : \E m \in PromotableOnline :
                      /\ t \in rules[m].replaces
                      /\ Stable(t) \/ (t \in PromotableOnline /\ t < m)}
  IN  /\ closing
      /\ closing' = FALSE
      /\ rules' = [r \in RuleId |->
           IF r \in displaced THEN NoRule
           ELSE IF r \in PromotableOnline THEN [rules[r] EXCEPT !.tier = "stable"]
           ELSE rules[r]]
      /\ batch' = IF batch < MaxRound THEN batch + 1 ELSE batch
      /\ UNCHANGED <<patches, evidence, precedents, lastRound, accepted>>
      /\ UNCHANGED <<apps, observed, lastBatch, reg, retrying, earlier, reopened, crashes>>

\* The process dies; the next one opens the same state directory and starts
\* its stream again.
Crash ==
  /\ crashes < MaxCrashes
  /\ crashes' = crashes + 1
  /\ earlier' = {a \in App : apps[a].status # "absent"}
  /\ reg' = Idle /\ retrying' = {} /\ closing' = FALSE /\ batch' = 1
  /\ accepted' = {}
  /\ UNCHANGED <<rules, patches, evidence, precedents, lastRound>>
  /\ UNCHANGED <<apps, observed, lastBatch, reopened>>

-----------------------------------------------------------------------------
OnlineInit ==
  /\ Init
  /\ apps = [a \in App |-> [status |-> "absent", created |-> 0]]
  /\ observed = {}
  /\ batch = 1 /\ lastBatch = 0
  /\ reg = Idle /\ retrying = {} /\ closing = FALSE
  /\ earlier = {} /\ reopened = {} /\ crashes = 0

Reports ==
  {o \in Observation :
     /\ o.batch = batch /\ o.task \in ComparedOn[o.app]
     /\ o.replay = Replay(o.app, o.task, o.outcome)
     /\ ~o.fresh => o.app \in CacheHits /\ o.outcome # "neutral"}

Register == \E a \in App : RegisterCandidate(a)
Record == \E o \in Reports : RecordEvidence(o)
FinishRound == AdvanceBatch \/ PromoteOnline

OnlineNext ==
  \/ Register \/ Filter \/ StageEdit \/ SaveApplication
  \/ StartRetry \/ RetryDeferred
  \/ Record
  \/ FinishRound
  \/ Crash

\* The process works off a registration it has begun and a retry pass it has
\* listed, ends a finish_round, and begins every validation pass with a
\* retry; nothing makes a proposer register, a task arrive or a process die.
OnlineFairness ==
  /\ WF_ovars(Filter) /\ WF_ovars(StageEdit) /\ WF_ovars(SaveApplication)
  /\ SF_ovars(StartRetry) /\ WF_ovars(RetryDeferred) /\ WF_ovars(PromoteOnline)

OnlineSpec == OnlineInit /\ [][OnlineNext]_ovars /\ OnlineFairness

-----------------------------------------------------------------------------
(* Properties *)

OnlineTypeOK ==
  /\ rules \in [RuleId -> RuleRow]
  /\ patches \in [PatchId -> PatchRow]
  /\ apps \in [App -> [status : Statuses, created : 0..MaxRound]]
  /\ observed \subseteq Observation
  /\ batch \in Rounds /\ lastBatch \in 0..MaxRound
  /\ reg \in {Idle} \cup [app : App, step : {"filter", "stage", "keep", "defer"}]
  /\ retrying \subseteq App /\ closing \in BOOLEAN
  /\ earlier \subseteq App /\ reopened \subseteq App

\* The observations rule r may have learned from.
Sources(r) ==
  {o \in observed :
     /\ r \in Uses[o.app] \/ (Edit[o.app] # NoEdit /\ r \in Edit[o.app].results)
     /\ o.fresh /\ o.app \in Attributable}

(* "A task contributes one observation": what a live rule counts is backed *)
(* by distinct fresh observations of later tasks, and a rule of the stream *)
(* that became stable has its successes in enough batches, the recovery it *)
(* needed and a supported application behind it - also after rollbacks,    *)
(* deferrals, retries and a stream that is run again (record_evidence,     *)
(* promote_eligible).                                                      *)
LearnedFromEvidence ==
  \A r \in RuleId :
    LET seen == {o \in Sources(r) : ~o.replay}
        won == Improvements(seen)
    IN  Live(r) /\ rules[r].source # NoPatch =>
          /\ rules[r].successes <= Cardinality(won)
          /\ rules[r].failures <= Cardinality({o \in seen : o.outcome = "regression"})
          /\ Stable(r) =>
               /\ Cardinality({o.batch : o \in won}) >= PromotionBatches
               /\ rules[r].needs => \E o \in Sources(r) : o.replay
               /\ apps[rules[r].source].status = "supported"

(* Applications, patches and precedents tell one story after every crash   *)
(* and retry: a patch is validated or rolled back only with its            *)
(* application, and its precedent says the same.  Only an application that *)
(* a stream run again has registered after its verdict stands apart from   *)
(* its rolled back patch (memory.py:226).                                  *)
PatchesAgree ==
  \A a \in App :
    /\ patches[a].status = "validated" =>
         apps[a].status = "supported" /\ precedents[a] = "success"
    /\ patches[a].status = "rolled_back" =>
         precedents[a] = "failure" /\ (apps[a].status = "harmful" \/ a \in reopened)
    /\ patches[a].status = "rejected" => precedents[a] = "none" \/ a \in reopened
    /\ patches[a].status = "pending" =>
         precedents[a] = "none" /\ apps[a].status = "pending"

(* And a live rule of the stream has the status of its patch (the steps of *)
(* record_evidence and the rollback).                                      *)
TablesAgree ==
  /\ PatchesAgree
  /\ \A r \in RuleId :
       Live(r) /\ rules[r].source # NoPatch =>
         patches[rules[r].source].status = rules[r].status

(* A verdict comes with a fresh observation of an attributable application *)
(* and rests on enough stored ones of enough tasks and batches, of which   *)
(* none is the replay of the failure the candidate was made for.  Nothing  *)
(* takes it back but a stream run again that meets the application again,  *)
(* and that never if it was supported with a patch (record_evidence,       *)
(* register_application).                                                  *)
VerdictsEarned ==
  [][\A a \in App :
       LET seen == {o \in observed' : o.app = a /\ o.outcome # "neutral"
                                      /\ o.task \notin
                                         (IF o.outcome = "improvement" THEN OriginTasks[a] ELSE {})}
       IN  /\ Decided(a) /\ apps'[a] # apps[a] =>
                /\ a \in earlier \ earlier'
                /\ ~Decided(a)'
                /\ Edit[a] # NoEdit => apps[a].status = "harmful"
           /\ Decided(a)' /\ apps'[a] # apps[a] =>
                /\ \E o \in observed' \ observed : o.app = a /\ o.fresh /\ a \in Attributable
                /\ Cardinality({<<o.task, o.batch>> : o \in seen}) >= MinDecisive
                /\ Cardinality({o.task : o \in seen}) >= DistinctTasks
                /\ Cardinality({o.batch : o \in seen}) >= DistinctBatches]_ovars

(* The stored observations a verdict rests on need not be fresh: one from  *)
(* the cache is stored (memory.py:392) and counted by the next verdict     *)
(* (memory.py:421), though "cache reuse" should not inflate confidence     *)
(* (types.py:131-133).  Not kept by the code.                              *)
VerdictsOnFresh ==
  [][\A a \in App :
       Decided(a)' /\ apps'[a] # apps[a] =>
         EnoughEvidence({o \in Decisive(a, observed') : o.fresh})]_ovars

(* Registration defers what would share a rule, by the rules an            *)
(* application uses and edits: no two that are pending claim a common one, *)
(* whatever is retried, resolved, crashes or is registered again           *)
(* (_pending_conflict).                                                    *)
ClaimsApart ==
  \A a, b \in App :
    a # b /\ apps[a].status = "pending" /\ apps[b].status = "pending"
      => ClaimedRules(a) \cap ClaimedRules(b) = {}

(* "Conflicting pending applications are deferred rather than overwriting  *)
(* each other" (the docstring of register_application): no two staged      *)
(* patches read, create or delete a common rule.  Not kept by the code:    *)
(* results are not compared, and a card may edit a pending rule.           *)
StagedApart ==
  \A a, b \in PendingPatches : a # b => Claims(patches[a]) \cap Claims(patches[b]) = {}

\* A deferred application whose rules no staged application claims.
Unblocked(a) ==
  /\ apps[a].status = "deferred"
  /\ \A b \in App \ {a} :
       apps[b].status = "pending" => ClaimedRules(a) \cap ClaimedRules(b) = {}

(* "Retry deferred applications once the conflicting pending app resolves" *)
(* (the docstring of retry_deferred): a deferred application does not stay *)
(* deferred when nothing staged claims its rules.                          *)
DeferralEnds == \A a \in App : Unblocked(a) ~> ~Unblocked(a)
=============================================================================
