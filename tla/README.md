# Specification of the Meta-Memory Harness

TLA+ models, TLC runs and TLAPS proofs for the repository "TTHE + Meta-Memory
Harness" (MMH). MMH remembers what a self-improving agent learned: *rules* in a
volatile and a stable tier, edited only by typed, reversible *patches* that
held-out *evidence* validates or rolls back. Around that engine the repository
has study drivers, adapters, budgets, caches and test-time harness evolution
(TTHE) loops, which call it, crash and resume.

Sections: 1 inventory, 2 plan, 3-9 the models, 10 runs, 11 fairness, 12 proofs,
13 where code and documents disagree, 14 what is not modelled.

## 1. Inventory

| component | state it keeps | operations | how it interacts | hard behaviour | what makes it correct |
|---|---|---|---|---|---|
| **Engine** `meta_memory/engine.py` | none of its own: everything is in the store | `filter_and_resolve`, `stage_patch`, `validate_patch`, `record_rule_observation`, `advance_round`, `promote_eligible`, `update_cycle`, `retrieve` | each method is one `BEGIN IMMEDIATE` transaction; callers chain several | a caller stops between transactions, resumes, repeats, reports late | ownership of rules by patches, exact rollback, one verdict per patch, promotion and removal only as earned |
| **Store** `meta_memory/store.py`, `types.py` | tables `rules`, `patches`, `precedents`, `evidence`, `metadata` | put, get, list, delete; unique keys; `INSERT OR IGNORE` | shared by processes | duplicates | unique evidence and precedents |
| **Online memory** `lcb_mmh_online/memory.py`, `store.py` | applications, online evidence | `register_application`, `retry_deferred`, `record_evidence`, `advance_batch`, `promote_eligible` | drives the engine and writes its tables directly | registration in several transactions, deferral, many observations per verdict | no lost or doubled evidence, tables that agree, verdicts that are earned |
| **Budget ledger** `lcb_mmh_online/budget.py` | table `budget_entries`, caps | `reserve`, `commit`, `release` | many processes on one file | crash while holding, overrun | the caps hold at every moment, a charge is final |
| **Observation cache** `lcb_mmh_online/cache.py` | table `observation_cache` | `get`, `put` | charges the ledger | failure between charge and put | a hit was paid for, once |
| **Online adapter** `lcb_mmh_online/adapter.py`, `legacy_shim.py` | artifacts, source map | `validate_pending`, `register_candidate`, `finish_round` | online memory, ledger, cache | early returns, clamped cost | a reservation ends |
| **LiveCodeBench adapter** `livecodebench/mmh_adapter.py` | JSON associations | `register_candidate`, `validate_pending`, `finish_round` | engine; two files, no common transaction | crash between the files | the JSON file never runs ahead of the store |
| **TTHE loops** `lcb_optimize.py`, `ds1000_optimize.py`, `swe_optimize.py`, `text_to_sql/optimize.py` and their proposers | incumbent, branches, pool, log | batch, propose, judge, resume | model calls, adapter | sessions that time out, restarts, operator-named prefixes | the score is that of one run |
| **tau3 study** `tau3_mmh/full_study.py`, `guidelines.py`, `supervise_study.py` | memories, start snapshots, evaluations, proposals, audit log, round markers, `status.json` | `run`, `adapt`, `evaluate` | engine via `GuidelineMemory`; a supervisor restarts it | replay of an interrupted round | a replay ends where the uninterrupted round would |
| **tau3 runner, round driver, sweep** `tau3_mmh/runner.py`, `round_driver.py`, `sweep.py`, `integrity.py`, `proposer.py` | memory, lifetimes, integrity report, candidate directories | `run`, `_run_round`, `propose`, `run_one` | engine | candidates cut by a limit, aborts, rounds run again | what a report says of rules is true |
| **tau3 agent task** `_ctxbudget_v2_patch/program_adapter.py`, `full_study.py`, `tau3_harness/harness.py`, `capture_proxy.py` | the run's event log, proxy log, `partial.json`, `result.json` | turns, calls, grading, `inspect_record`, `evaluate` | model, customer, environment, proxy, child process | failures and time-outs of each, restarts | infrastructure failures known by name are never scored, agent failures never retried |
| **Agent sessions, evolution** `text_to_sql/claude_wrapper.py`, `evolve.py` | queue of lines, `frontier.json`, `pending_eval.json` | `run`, iterations | a process, reader threads, files | hanging sessions, processes left behind | every iteration scores its own proposals |
| **Baseline runners** `*_react_baseline.py` | `cache.json` | measure, resume | harness files, bridges | kill and resume while files change | a report is of the code it names |
| **SWE solving and grading** `swe/swe_optimize.py`, `swe_bridge.py`, `harness_base.py`, `swe_bare.py` | pool threads, containers, verdict cache, report files | `safe_solve`, `observe`, `is_correct_batch` | containers, evaluation harness | abandoned threads, stale reports, kills | who answered is torn down, verdicts are of the patch |
| **Model calls** `ase/llm.py`, the bridges' `solver_llm` | permits, worker pool | `_complete` | every benchmark loop | hung calls, retries | calls end |
| **Solver cache** `ase/solver_cache.py` | dictionary, JSON file | `get_or_call` | threads and processes | unlocked check, last writer wins | one reply per sample |
| Response parsing `meta_memory/adapters.py` | - | `parse_patch_response` | the proposers | replies of any form | part of `RoundLoop` |
| Embeddings, traits, plans, reports, archived copies | - | pure functions, offline analysis | - | - | section 14 |

`PROJECT.json` lists these components with their status, and every hazard with
its line.

## 2. Plan

Done, in this order:

1. `FailureLog`, `StableGate`: the failure history and the edit gate it decides.
2. `MetaMemory`: the engine over its store. `MetaMemoryInduction` (the invariants)
   and `MetaMemoryProofs`: its proofs, and those of the gate.
3. `Budget`, `BudgetLedger`, `OnlineValidation`; `OnlineValidationProofs`.
4. `OnlineMemory`: extends `MetaMemory` by applications and their evidence;
   `OnlineMemoryProofs`.
5. `GuidelineMemory`, the memory as a value, used by `StudyRounds` (abstract),
   `Study` (which implements it) and `RoundLoop`; `StudyProofs` proves both drivers.
6. `HarnessLoop`: the four TTHE loops and the JSON/SQLite adapter;
   `HarnessLoopProofs`.
7. `ModelCalls`: permits, pool and reply cache; `ModelCallsProofs`.
8. `AgentTask`, extended by `TaskEvaluation`; `TaskEvaluationProofs`.
9. `ClaudeSession`, extended by `Evolve`, and `SweSolve`; `RunnerProofs` proves both.

Left, in the order of their worth: `WholeFile`-like properties of the other JSON
files; a larger composition of `TaskEvaluation` under `Study`, whose evaluations are
single choices now; the flat arm's comparison of the sweep as a property.

`map` in `PROJECT.json` ties every definition to the lines it models. Where a loop
or a helper is written several times (the four TTHE loops, three baseline
runners, three `solver_llm`), the model has it once, and each of its definitions
is mapped to one of the copies; differences that matter are constants or
disjuncts, and are named below.

## 3. The engine

`MetaMemory` has one variable per table, plus the caller's memory.

| model | code |
|---|---|
| `rules[r]`, `tier = "absent"` when there is no row | table `rules`, `Rule` |
| `patches[p]` with `staged` and `snapshot` | table `patches`, `Patch`, `staged_rule_ids`, `parent_rule_snapshots` |
| `evidence`, unique in (patch, subset, round) | table `evidence` and its `UNIQUE` key |
| `precedents[p]` | table `precedents`, unique in the patch |
| `lastRound`, 0 before the first call | metadata `last_round` |
| `accepted` | the list `filter_and_resolve` returned, in the caller's memory |
| `FilterAndResolve` | `filter_and_resolve` on a batch |
| `StagePatch`, `StageKnownPatch` | `stage_patch`, new and known patch ids |
| `Abandon` | the caller stops, or `stage_patch` raises |
| `AuditInapplicable`, `Calibrate`, `ValidateSuccess`, `ValidateFailure` | the four paths of `validate_patch` |
| `RecordRuleObservation` | `record_rule_observation` |
| `AdvanceRound`, `PromoteEligible` | the same names |

The engine's transactions interleave freely. `update_cycle` is one order of them;
the adapters and studies use others, and every prefix of every order is a
behaviour of the model because a caller may stop anywhere.

A transaction that ends in an exception rolls back: it is `Abandon` for the
caller and nothing for the store. Repeated evidence, an old round in
`advance_round`, an inapplicable health report and a promotion without an
eligible rule change nothing and are left to stuttering.

Abstracted: texts, embeddings, time stamps, error strings, `validation_count` and
`last_promotion_round`, which no decision reads; the influence estimate (any patch
that passes the checks may reach the threshold or not, `Influential`, and any
order of the survivors may result, so `Winners` is any maximal set of patches with
disjoint claims). Confidence is compared in integers (Eq. 5 multiplied out), names
are numbered in their lexical order, and a drafted rule starts with empty counters,
as every caller drafts it.

Assumptions about callers are definitions and constants, so that runs can drop
them one at a time:

- `CallerRounds`: the round passed is the last one or the next. `update_cycle`
  and the tau3 study advance first; the LiveCodeBench adapter advances last.
- `Resubmit = FALSE`: a caller looks a patch id up before submitting it
  (`full_study.py:362`, `register_candidate`). The engine alone does not.
- `SerializeEdits = TRUE`: no edit is submitted on a rule that an unresolved
  patch reads or creates, as `docs/MMH_TTHE_HANDOFF.md:109` requires.
- `FreshResults` (proofs only): no two patch ids propose the same rule id; the
  LiveCodeBench adapters name results `<patch id>:rule:<index>`.
- Health is reported for stable rules only, as all callers do.

**The gate.** `StableGate` isolates one rule's failure history under reports that
repeat, come late and overflow it, with a history variable for what was truncated.
The code keeps a sorted list; its entries are unique in (round, subset), so the
model keeps the set, and "the last n" is the set of entries fewer than n later
ones follow.

## 4. The online experiment

**Online memory.** `OnlineMemory` extends `MetaMemory`, whose tables `rules`,
`patches` and `precedents` it writes itself; `apps` and `observed` are its own two
tables, `reg`, `retrying` and `closing` what the process holds in memory.

| model | code |
|---|---|
| `Register`: `RegisterApplication` behind `ValidCard` | `register_candidate`, `validate_card`, the first transaction of `register_application` |
| `Filter`, `StageEdit`, `SaveApplication` | its later transactions |
| `StartRetry`, `RetryDeferred` | `retry_deferred`: the list, then one registration after another |
| `AuditOnly`, `Undecided`, `Decide` | the three ways through `record_evidence`, one transaction each |
| `AdvanceBatch`, `PromoteOnline` | the two transactions of `finish_round` |
| `Crash` | the process dies between any two; the tables stay |

The run's edits are a merge and a deletion of stable rules, which meet in every
way; `Uses`, `OriginTasks`, attributable or not are constants of an application.
`earlier` holds the applications of earlier executions that the stream, run again,
has not come to yet: `register_candidate` is called for them a second time, in
their own batch, decided ones among them. The code then takes the verdict back
unless the application was supported with a patch; `reopened` is the history of
these, and the properties say what still holds of them. `CacheHits` are the
applications whose comparisons may come from the cache: stored, not fresh.

**The ledger.** `BudgetLedger` is the table `budget_entries` (`entries`) and the
recorded configuration, used by several processes. What a process keeps in
memory, its own memory allocation (`allocation`) and the ids of its reservations
(`known`), dies with it (`Close`). `Open`, `Reserve`, `Commit` and `Release` are
the methods of the same names, one `BEGIN IMMEDIATE` transaction each; a refused
call changes nothing and is a stutter. Amounts are whole units, and
`SumFor(statuses, categories)` is the SQL sum.

`Budget` is what the ledger promises: a call holds part of what is left, and
settles for at most what it held. `ImplementsBudget` maps `held` to the reserved
rows and `spent` to the committed ones.

**The pass.** `OnlineValidation` extends the ledger with the three other places a
pass of `validate_pending` writes: the cache, the evidence log (`observed`) and the
applications still live. `pass[c]` is what the process holds in memory.

| model | code |
|---|---|
| `Begin` | the shim counts the eligible applications and reserves a unit for each |
| `Prepare`, `PrepareRaises` | it reads the hashes the applications were frozen with, before its `try`; what raises there leaves the reservation open |
| `Skip`, `Neutral` | an application seen before, or not comparable |
| `Hit` | a cached comparison, recorded as not fresh and free |
| `Evaluate`, `Record` | a comparison that runs: cached in one database, then recorded in another |
| `Finish` | the commit of `min(total_cost, cost_estimate)` |
| `FinishUntested` | the early return for a task without public tests |
| `Raise` | an exception inside the `try`: the shim releases the reservation |
| `Die`, `Start` | the process ends, and one opens the files again |

Abstracted: the order of the applications and the tasks of a batch (any), the
status `record_evidence` computes (a sound comparison may end its application's
life), and the two harness runs of a pair (one step). `CostsCovered` is checked for
pairs that cost the default of one unit.

## 5. The tau3 study and the other round drivers

`GuidelineMemory` is a memory file as a value: a row per rule with its patch's
status, tier, age and the rounds it won and lost, and `StageAdd`, `RecordRound`,
`Advance`, `Promote` as functions from value to value. A guideline memory only adds
rules, one ADD patch each, so rule and patch are one row. Drivers copy such values
to disk and put them back.

**Study.** On disk: `memory`, `snapshot` (`round-k-start.sqlite`), `results`,
`proposal`, `finished` (the round markers), `audit`, `status`; `proc` is the
process. `Open` restores or takes the start snapshot; `Search`, `Measure`,
`Report`, `Record`, `PromoteArm`, `Propose`, `Stage` and `Mark` are the steps of a
round in `run` and `adapt`; `Final` and `Stop` end it. `EvaluationFails` raises,
`Die` kills between any two steps, `Supervise` is `supervise_study.main`, `Rerun`
an operator's new start.

`StudyRounds` is the promise: every arm plays its rounds in order, each as a whole
on the memory the round before it left. `RoundsAtomic` is that specification of the
memory a reader may rely on, the one the round in progress started from
(`Committed`), and of the markers. An evaluation is a choice made once and kept;
`TornSnapshots` (a kill half way through `snapshot_to`) is off, as a torn snapshot
wipes the arm's memory (section 13).

**Runner, round driver, sweep.** `RoundLoop` is the loop the three share, over
`GuidelineMemory`. `Play` to `EndRound` are the phases of a round; they differ in
whom they judge (`RunnerCandidates`, `DriverCandidates`; `todo` is the set of them,
`FirstToJudge` or `NextCandidate` who is next), in `Health`, and in what survives a
run (`RunAgain`, `SweepAgain`). What ends a run early has an action each:
`Dies`, `TooManyErrors`, `ForeignScores`, `ProposerDies`, `Unscored` for a round
passed over. A proposal comes from the offline proposer, from a model's reply
(`Reply`, `Normalized`, `Atomic` are what `parse_patch_response` and
`_to_proposals` make of it) or from the sweep's synthetic world; `ArmEnds` and the
summary are `run_one` and `main` of the sweep. Test outcomes are choices.

## 6. The TTHE loops

`HarnessLoop` is `main` of the four `*_optimize.py`. `shape.loop` says what survives
the process: "plain" loops keep only the candidate files, "sql" resumes at a batch
from the records of an earlier execution (`PrefixAccepted`, `Resume`), "mmh" is
`lcb_optimize` with `MMHAdapter`.

| model | code |
|---|---|
| `StartBatch` | a batch begins: branches from `H`, `validate_pending` lists what is due |
| `ValidateOne`, `SaveState` | one patch's evidence in SQLite; the JSON file at the end |
| `Generate` (`SessionLeaves`, `CardAccepted`, `Offered`) | the sessions of a round: which files are there after each, copies of the base included, and which are offered |
| `Refuse`, `Recognise`, `StagePatch`, `Associate` | `register_candidate` in its two stores |
| `EndRound`, `Judge` (`JudgeLeaves`, `Picked`) | branches advance; the judge's answer, readable or not |
| `Age`, `Promote` | the two transactions of `finish_round` |
| `Rerun`, `Resume` | a new execution of the same run name, after a kill anywhere |

`source[c]` is the execution that wrote a file last; a batch has one task and a
patch adds one rule. The operator who resumes hands in a prefix file that the code
checks for its form only (`PrefixAccepted`); `OwnPrefix` says that its records are
those of an earlier execution's log, and is what `LogIsOneRun` needs (section 13).

## 7. Model calls and the reply cache

In `ModelCalls` a thread's request goes `Ask` (number the sample), `Lookup`
(unlocked), a call, the store under the lock, and the write of the file in the steps
of `json.dump` and `os.replace` through one temporary name. A call is *pooled*
(`ase/llm.py`: permit, `Submit`, a worker, `Expire` at the hard timeout, `Backoff`)
or *direct* (the bridges: `""` when it gives up). `StartCall` and `EndCall` are the
endpoint. Files are inodes, so that a writer that holds one open goes on writing it
after another renamed it. `Restart` kills a process and starts the next one.

## 8. Agent tasks, sessions and evolution

**Agent task.** `AgentTask` is `run` of the harness over `TauProgramContext`: a turn
asks the model through the proxy (`request`, logged by `Relay` before it is
answered), then makes its calls, to the customer or a tool, blank messages
refused. Each may fail or exceed its limit; `TimeOut` is the deadline, `Grade` and
`GraderRaises` the end. Of the event log the model keeps what tells how a run
failed: a call lost on its way leaves a name of `TRANSPORT` in it or, as httpx's
`ReadError` or the customer model's `RateLimitError` does, none (`Losses`). `hurt`
and `marred` are history variables: some call really failed, under such a name or
without. `reported` says that tau's own record of the run shows an error; what tau
writes there is its own, so it may come with any run.

`TaskEvaluation` is `Study.evaluate`: attempts over the tasks without a score, each
in a child process that may time out or leave no scores, `InspectRecord` on each
log and record (`ClassifyError` is the part that reads the record), `partial.json`
between attempts and restarts, `result.json` in the end.

**Sessions.** `ClaudeSession` is one `claude_wrapper.run`: the agent's process
writes files and lines, the reader thread queues lines (`Enqueue`), the caller
takes them (`Take`), finds the queue empty (`FindEmpty`), polls (`Poll`), kills at
the deadline (`KillSession`) and reaps. A command the agent started is a process of its
own and outlives it. `Evolve` extends it by the driver of `evolve.py` and, beside
it, a baseline runner that is killed and resumed on its cache. `ReadFails` is the
end of a driver whose list does not parse or is not what it expects; `Hang` is a
candidate whose code, run in the driver without a time limit, does not return.
`KeyedByBridge` and `KeepsErrors` tell the three runners apart.

## 9. SWE solving and grading

`SweSolve` separates the two sides of a solve: its caller (`Submit`, `GiveUp` at the
time limit, `CleanUp`, `Answer`) and its thread (started from the pool's queue,
`ContainerUp`, `ThreadEnds`), which no one stops. Executions of `swe_optimize` (with
a limit) and `swe_bare` (without) follow one another and share the verdict cache
and report files: `Evaluate` runs the official evaluation, `Record` reads its
reports by run id (and, for an instance without one, the summary of the run id,
`Graded`) and keeps verdicts by patch; `Kill` may leave half a cache file.
Not followed: threads and containers left over after the judge's pick or a kill,
and more than one batch per execution (nothing carries over but the caches).

## 10. Runs

| run | question | bounds and why they suffice |
|---|---|---|
| `stable_gate` | does the stored history stay the latest failures, and the gate shut until earned? | 4 rounds, 2 subsets, 3 slots: repeats, late reports, two failures in a round, overflow |
| `edits` | all edit operations on volatile and stable rules, a caller that may stop, health reports, promotion | 2 patches with 8 proposals between them, 5 rules, 2 observations, 2 rounds: one patch can be staged, resolved, promoted and its result edited by the other, before or after a rule turned unhealthy |
| `budget_ledger` | do the caps hold, is it a budget? | 2 processes, 3 reservations, 2 categories, 2 fractions: a refusal by every cap, a reopening; processes and ids are symmetric, the properties all of safety |
| `validation` | over passes that raise or die anywhere, is a shared comparison counted and charged once, every pass ended, and the reservation of one that reached the adapter closed? | 3 applications, 2 of one pair, 2 tasks (one untested), 2 passes |
| `online_memory` | do tables, verdicts and counters agree through crashes, deferral, retry and a stream run again? | 2 applications that conflict, 3 tasks, 2 batches, 1 crash: the deferred one is staged and judged after the first, whose merge can be promoted; a verdict takes 2 observations of 2 tasks, one of which may be from the cache; a decided application is met again |
| `study` | does a replayed round do what the uninterrupted one would; are rules probed in turn; does it end? | 2 arms, 5 rounds, 2 rules, 1 probe a round: one rule waits while the other is measured and both can be promoted; 2 tries, 1 kill, 1 rerun |
| `round_loop` | is what the runner and the sweep report true; can the round driver promote? | 4 rounds, 4 groups, 2 causes, cut at 1 candidate, 2 executions: promotion at age 2, a passed-over rule, a second run on the first one's memory |
| `tthe_loops` | is the log one run, are scored candidates registered, is the JSON file behind the store? | deep loops (2-3 batches, 1-2 rounds) and wide ones (2 branches) of each kind, 2 executions: a candidate is judged in later batches, promoted, and met again by name |
| `model_calls` | does a process give one answer to one sample; does every call end? | two threads in a process, pooled or direct, or in two processes; 1 permit and 1 worker, so that one hung call fills the pool; 2 requests, 1 retry, a restart |
| `agent_task` | are runs hurt under a known name never scored, others never excluded; is every used answer captured; does the evaluation end? | 2 tasks, 2 turns with up to 2 calls, 2 attempts, 2 starts |
| `evolve` | are the frontier and the report honest, does evolution end? | 2 iterations, 2 names, 2 versions, 1 line, a candidate that may hang; 2 measurements of 2 items and an edited bridge |
| `swe_solve` | who starves, what is torn down, what are verdicts worth? | 2 instances, 2 observed harnesses, pool of 2 with 1 in parallel, 2 containers a solve, 2 executions under one name |

All hold. Every property of a run has a mutant of the code that breaks it. Values of
every bound are in the `.cfg` files; `ComparedOn` (the tasks an application is
compared on) bounds `online_memory` only.

Deadlock is checked where the system cannot stop (`stable_gate`, `budget_ledger`);
everywhere else a caller, a person or a bound may end every behaviour. `FreshOnce`
is stated for one validating process, as one optimizer works in a run directory;
two could both miss. `AnswersAgree` leaves out samples two threads asked for at
once (`raced`) and compares processes of a shared file only with themselves.

The other `.cfg` files reproduce section 13: each checks up to three properties that
a document or comment states and the code does not keep, and TLC ends with the
counterexample (`tlc -continue` goes on to the other invariants; of several temporal
properties, list the one in question alone).

## 11. Fairness

- `OnlineValidation` (`FairSpec`): weak fairness of `Advance`. The pass is a
  sequential loop over a finite list whose executor calls return; nothing makes
  anyone begin a pass, restart, raise or die.
- `Study`: weak fairness of `StudyStep` and of `Supervise`: a process takes its next
  step, which may be to raise, and the supervisor waits for it in a loop. Kills and
  reruns are owed by nobody.
- `ModelCalls`: weak fairness of each thread's own steps, a timeout among them;
  none of `StartCall` and `EndCall`, as the endpoint owes nothing.
- `TaskEvaluation`: weak fairness of the study's loop and of each task's steps:
  every wait of a task has a timeout (request, task, child).
- `Evolve`: weak fairness of both drivers, of the session's caller and reader, and
  of time. Nothing is asked of the agent, its commands or the person, nor of the
  code of a candidate: where it is scored it may hang instead (`Hang`), and
  `EvolutionEnds` promises an end or such a candidate.
- `OnlineMemory` states fairness of the process's own steps; only the reproduction
  of a deferral that never ends uses it.
- The engine, the ledger, the TTHE loops, the round drivers and `SweSolve` are
  checked for safety only: the engine does nothing on its own, and the loops end
  when agents and time limits let them, which a bound on batches makes trivial.

## 12. Proofs

All theorems are for arbitrary constants under the assumptions the modules
declare.

| module | theorem | assumes |
|---|---|---|
| `MetaMemoryProofs` | `GateTypeCorrect`, `HistoryCorrect`, `GateIsSound` | - |
| | `TypeCorrect`, `AgesBounded` | - |
| | `ResolvedOnce`, `PrecedentsMatch` | `Resubmit = FALSE` |
| | `EditInvariant`, `RulesTrackPatches`, `PatchesConflictFree`, `StableRulesProtected` | and `SerializeEdits` |
| | `EvidenceInvariant`, `EvidenceCountedOnce`, `PromotionIsEarned` | and `FreshResults` |
| `OnlineMemoryProofs` | `VerdictsFinal`, `OneStory`, `ClaimsStayApart` | - |
| | `EvidenceLearned` | `ResultsNamedApart` |
| `OnlineValidationProofs` | `CapsHold`, `LedgerIsBudget`, `ChargesAreFinal` | - |
| | `ValidationTypeCorrect`, `PassGivesBack` | - |
| | `SharedOnce` | one validating process (`SoleValidator`) |
| | `CostsAreCovered` | `UnitCosts` |
| `HarnessLoopProofs` | `LoopsSound`, `FileNeverAhead`, `ScoresAreRecorded` | - |
| | `LogsAreOneRun` | `OwnPrefix` |
| `ModelCallsProofs` | `CallsSound`, `RepliesNotShared`, `AnswersDoAgree` | - |
| `TaskEvaluationProofs` | `EvaluationSound`, `ScoresAreClean`, `ExclusionsAreJustified`, `AnswersAreCaptured` | - |
| `StudyProofs` | `RoundsReplayed`, `RoundsAreAtomic`, `AuditIsTrue`, `NoneOvertaken` | `TornSnapshots = FALSE` |
| | `NothingIsPromoted` | `PromotionAge > 1` or `PromotionSubsets > 1` |
| | `ReportsAreTrue` | - |
| `RunnerProofs` | `SolvesSound`, `StarvedOnlyBehindGivenUp`, `AnsweredTornDown`, `VerdictsAreEarned` | - |
| | `FrontierIsEarned` | `LateWrites = FALSE` |
| | `ReportsAreHonest` | and `KeyedByBridge = TRUE` |

Every safety property that a run checks is stated by one of these theorems, with one
exception: of `TablesAgree`, `OneStory` proves the part about applications, patches
and precedents (`PatchesAgree`); that a rule has the status of its patch holds only
where no card edits a rule another application has pending, which the code does not
ask (section 13), and is left to the run. Liveness is left to the runs too.

What the modules assume of their constants is what the programs' options allow:
numbers are naturals, at least one batch, round and branch (`HarnessAssumption`), at
least one observation and a pool that holds the parallel solves (`SweAssumption`),
at least one batch of the stream (`OnlineAssumption`), a seed harness among the
names (`EvolveAssumption`), caps and usages that are amounts and at least one
allocation (`LedgerAssumption`), deployments with finitely many harnesses
(`CallsAssumption`), at least one arm (`StudyAssumption`), a schedule of at least one
round and finitely many causes (`LoopAssumption`); `NoneAssumption` and
`PassAssumption` say that the value for "no row" or "no pass" is none. The
assumptions in the table are about callers and about the environment; section 13
says what happens without them. `UnitCosts` is the estimate `validate_pending`
settles by (`adapter.py:377`). The round driver runs the defaults
(`round_driver.py:136`), which promote after three rounds and two subsets
(`types.py:182`); `NothingIsPromoted` needs only that one of the two is more than one.

**History.** `log = Latest(failed, n)` is inductive: the latest n of a set with
one more element are the latest n of the latest n with that element
(`LatestAbsorbs`). Then the n rounds the gate sees are rounds that really failed.

**Edits.** None of `RuleTracksPatch`, `ConflictFree` and `StableRemovalEarned` is
inductive. A rollback overwrites whatever its staged ids hold, so one must know
that nobody else wrote them (`PendingHolds`: the results of a pending patch are
its own, its volatile targets are away), that what comes back belongs to a
validated patch (`SnapshotsSettled`), who owns each stored version and what it
may replace (`RulesOwned`), and how the patch was staged (`StagedKind`). The
winners a caller holds must be new and disjoint (`AcceptedFresh`). Together they
are `EditInv`, proved action by action. `StableRemovalEarned` follows from it for
each step: only `ValidateSuccess` of a DELETE and `PromoteEligible` can take a
stable rule away. The initial store is any of `Seeds`, sets of validated rules.

**Evidence.** `EvidenceInv` says that each stored or restorable version of a rule
claims no more than its own patch's rows show, and that a promoted rule has the
counters promotion asks for. A rule's counters grow only together with a new row
of its patch (`FreshResults` makes that patch its source), and the cardinality of
the rows grows by one, as the unique key rejects repeats.

**Ages.** `Young` bounds age plus creation round for stored and snapshot rows
alike; a rollback brings back an older row, which is younger still.

**Online memory.** `TablesInv` ties the application, patch and precedent tables and
the registration in progress: a patch row belongs to an application and has its
edit (`PatchTable`), an edit not staged yet has no staged row (`Unfinished`), and
pending applications claim disjoint rules (`AppsApart`). It allows for what a stream
run again does: an application registered after its verdict may be anything beside
its resolved patch, as `reopened` records. A verdict rests on enough tasks because
an (application, task) pair is observed once (`ObservedOnce`), so that the stored
evidence counts tasks and not rows. For what rules learned, `Vouched(r)` is the set
of versions of rule r that the observations so far vouch for. It only grows
(`VouchedStays`), and every version in the table or in a snapshot a rollback may
restore is in it (`LearnedInv`); an observation adds one to a counter and one to the
observations behind it (`RowLearns`). `ResultsNamedApart` is what
`_build_core_patch` does: results are named `<patch id>:rule:<index>`
(`memory.py:177`).

**Sums.** A cap is about `SumFor`, a fold over a set, whose value on a larger set is
an induction over finite sets that the provers cannot instantiate. `SumStep` (an
element adds its amount) is proved without it: were a fact on sums wrong for some
finite set, it would be wrong for one without a smaller such part (`SmallestSet`), and
one unfolding contradicts that. From it follow what a new row, a charge and a release
do to each sum, hence `CapsHold` (a call that raises a sum was checked against every
cap on it, and a reopened ledger with a smaller fraction is covered by the largest) and
`LedgerIsBudget` (each method is one step of `Budget`, or none).

**Costs.** `PassInv` follows the reservation of a pass through its steps
(`BackedPasses`: it is the pass's own, still open, and has room for its cost so far
and for a unit for each application still to visit). `credit` is what a reservation
answers for, the cost of the pass that holds it or the amount of the closed row, and
`Credited` says that the credits cover the log until a reservation is released.

**Shared comparisons.** `FreshOnce` needs to know that fresh evidence is always
in the cache, so that a second application of the pair meets a hit, and that a
comparison cached but not yet recorded has told nobody (`FreshInv`). With a second
validating process the last part would fail: it could miss on the same key.

**The loops.** `LoopInv` relates the association in memory and the one in the file
to the store's row, each separately (`Follows`), since a crash makes the second the
first. Scores need more than the file: what the run holds, its incumbent, its pool
and its log, are recorded artifacts (`Registered`) that lie before the round whose
sessions still write (`Past`), so that no session can make the record untrue.

**One run.** `LogIsOneRun` follows a candidate to the incumbent its batch began with
(`Root`, a recursive function), whose facts are proved for the least round at which
they would fail (`RootStep`; within a batch a parent is of an earlier round,
`Lineage`). `OneRunInv` says that the branches in hand and the pool descend from the
incumbent (`WorkInv`), and that each record's harness is that of the record before it
or was made from it in its own batch (`Linked`); a resumed execution takes whole
batches of an earlier log only (`OwnPrefix`).

**Replies.** `CallsInv` ties the four places a reply can be in. A reply of the endpoint
belongs to one key (`OneKey`). An answer given binds the dictionary of its process
(`Remembered`) and, where no other process writes the file, the file (`Persisted`),
which lacks nothing of the dictionary but what the thread that has the lock is writing
(`Synced`, `Locked`), through a temporary file nobody else touches (`FilesApart`). So a
process that reads the file after a crash agrees with the one before it. With several
processes on one file only answers of one life are compared, and nothing is asked of
the file.

**Evaluations.** `hurt` is set by the step that fails under a name of `TRANSPORT`,
the log of the run grows with it, and `inspect_record` reads the log and the record:
`RunOK` says what the log of a run at each place of its turn shows of how it was
hurt. Nothing follows for a run that is only `marred`, which is scored (section 13).
Scores, exclusions and captured
answers (`EvaluationInv`) then follow the run through attempts and restarts; the
child process leaves no run behind (`Quiet`).

**The study.** `RoundInv` says at each step of the round in progress what the arm's
memory must be: what the start snapshot and the results and the proposal stored so
far make of it (`Opened`, `JudgedSoFar`, `Decided`), and that only the arm whose turn
it is has begun its round (`OneBegun`). A replay then recomputes the same memory, and
the marker's step is one step of `StudyRounds` (`MarkPlays`), every other a stutter.
`AuditInv` says that the lines of the round in progress are those its results and its
proposal give rise to (`LinesWritten`), whichever execution wrote them, and that a
finished row agrees with its lines (`RowAgrees`). For `NoOvertaking`, the first n in
the order of age are downward closed: who is measured is older than who waits.

**The round loop.** The round driver's memory holds at most one win a rule
(`WonOnce`), as it judges what is pending and the first decision resolves it; the
promotion gate asks for more. For the runner, `LifeInv` follows a lifetime with its
row and bounds a rule's age by the rounds since it was staged, so that what is
promoted is old enough; `TriedInv` says that, while no cut has been reported, every
live rule was put up in each closed round, and in the open one is still to judge or
was tried. Without a cut `FirstOf` takes everybody (`FirstOfAll`).

**Evolution and baselines.** The frontier is the maximum of what was scored
(`FrontierInv`), and what is scored comes from the list the open session wrote
(`OwnList`), as nobody writes where no session is open (`NobodyWrites`). A record
in the cache is of its key (`CacheInv`); a run under way, loaded from it, holds
records of its own digest only (`MeasureInv`).

**Solves and verdicts.** A queued solve waits for the pool to be full (`PoolFull`),
and those ahead of it are more than the callers that still wait (`SlotsKept`,
`SlotLost`): the difference are solves given up. `ContainersKnown` and `Cleared` do
the same for containers. `GradeInv` follows a verdict from the patch evaluated under
a run id over its report or summary to the cache (`ReportsTrue`, `SummaryTrue`,
`GoldEarned`, `GradingEarned`).

The runs check what a reader asks of the code; the type invariants, the inductive
invariants and `ChargesFinal` and `PrecedentMatchesPatch` are proved and not
repeated there. The inductive invariants held in TLC runs before they were proved.

Sums over finite sets, chains of parents and "first in an order" are inductions over
data. The library's induction theorems take an operator and cannot be used here;
each of these is proved from the well-foundedness of strict subsets or of the naturals
instead, which takes a set. Definitions are written so that this is enough: no
`RECURSIVE` operator, and candidates as sets with a first element (`FirstToJudge`,
`NextCandidate`) where the code sorts a list.

Only model-checked: `PassesEnd`, `StudyEnds`, `EveryCallEnds`, `EvaluationEnds` and
`EvolutionEnds`. Liveness under fairness, and ENABLED, are out of the prover's reach.

## 13. Where code and documents disagree

Met while modelling. A configuration in brackets reproduces the behaviour; the
models contain the code's behaviour in every case, and the properties of section 10
say where they stop.

Engine and online experiment:

- `docs/MMH_IMPLEMENTATION.md:71` opens the gate of a stable rule after five failure
  rounds over two subsets; the truncated history keeps one marker per round *and*
  subset, so it can hold too few rounds (`engine.py:235`) [`MCStableGateOpens`].
- `filter_and_resolve` overwrites the row of an id it is given again, a resolved one
  too (`engine.py:191`), and evidence that arrives while a pending edit holds a rule
  away is logged and lost (`engine.py:365`) [`MCResubmit`].
- A rollback deletes the rules it staged whoever owns them by then
  (`engine.py:389`); without serialised edits a stable rule goes with them.
- `guidelines.py:160` says the engine refuses to validate a patch in the round that
  created it; nothing in `validate_patch` does. Only its caller avoids it.
- `docs/MMH_TTHE_HANDOFF.md:149` frees unused allocation; what raises between
  `reserve` and the `try` leaves the reservation open in a process that lives on
  (`legacy_shim.py:222`) [`MCFailedPass`: `EveryPassReturnsHeld`].
- A pass that raises gives back what its finished comparisons cost
  (`legacy_shim.py:260`), and a crash between cache and evidence log loses the
  observation, as the cached repeat is not fresh (`adapter.py:296`)
  [`MCFailedPass`].
- A reopened ledger takes any memory fraction and each process keeps its own
  (`budget.py:142`); a dearer pair is committed at the estimate (`adapter.py:377`);
  a task without public tests leaves its reservation open (`adapter.py:245`).
- A stream run again with the same artifacts registers an application that was
  decided harmful as pending again, and one without a patch also when it was
  supported (`memory.py:226`), while its patch stays rolled back. The run contains
  it: `PatchesAgree` and `VerdictsEarned` say exactly what is taken back.
- A cached observation is stored (`memory.py:392`) and the next verdict counts it
  (`memory.py:421`), though the documents say that cache reuse does not inflate
  confidence (`types.py:131`, `docs/MMH_TTHE_HANDOFF.md:157`) [`MCDeferredPair`:
  `VerdictsOnFresh`]. The counters of rules do not count it
  (`LearnedFromEvidence`), and the observation that brings a verdict is fresh.
- `_pending_conflict` compares the rules two applications use and target and their
  patch ids, never the ids of result rules (`memory.py:119`), against "deferred rather
  than overwriting each other" (`memory.py:217`): an edit of another pending
  application's tentative rule, which retrieval shows, is no conflict, and the two
  patches overwrite each other [`MCDeferredPair`: `StagedApart`]. What it does compare
  stays apart (`ClaimsApart`).
- Two deferred applications block each other for ever, although
  `retry_deferred` promises a retry once the conflict resolves (`memory.py:142`)
  [`MCDeferredPair`: `DeferralEnds`].

TTHE loops and their adapter:

- A later execution rewrites candidate files an association still judges, against
  "evaluate frozen parent/candidate pairs" (`mmh_adapter.py:322`)
  [`MCFrozenArtifacts`].
- A crash between staging and the JSON write leaves a rule whose registration is
  refused ever after (`mmh_adapter.py:299`); a patch rejected once and staged again
  keeps its association pending for ever.
- "Keeping H in the pool IS the gate" (`swe_optimize.py:199`,
  `text_to_sql/optimize.py:440`) fails for a batch on which H does not load; a batch
  that could not be scored leaves a gap past which the sql loop cannot be resumed.
- The sql loop resumes from any JSON whose records are numbered from one and end in
  the harness named (`text_to_sql/optimize.py:310`): what it then reports need not be
  one run's score [`MCHarnessLoop` with `OwnPrefix = FALSE`: `LogIsOneRun`].
- "After R rounds the judge sees only the final G branches"
  (`text_to_sql/optimize.py:219`); it picks among all observed harnesses.
- A proposer cut by its time limit leaves a copy of its base that counts as a child.

tau3:

- The snapshot a round starts from is not written atomically: a kill half way wipes
  the arm's memory at the next start (`full_study.py:404`), hence
  `TornSnapshots = FALSE` in `study`.
- Candidate directories of a run started again are not apart
  (`round_driver.py:353`), and the summary of a sweep reads traits of runs it
  excludes (`sweep.py:396`) [`MCNamesApart`]. The round driver passes over a round
  whose evaluation left no per-task records, in silence.
- The sweep's flat arm "promotes on sight" (`sweep.py:202`) only what evidence has
  validated before.
- Two messages to the customer in one turn: the second reply overwrites that the
  first said goodbye (`program_adapter.py:275`) [`MCChattyTurns`:
  `GoodbyeRespected`].
- `TRANSPORT` is a list of thirteen markers (`full_study.py:31`). httpx's `ReadError`,
  whose message is often empty, `WriteTimeout` and `PoolTimeout`, and the customer
  model's `RateLimitError`, `Timeout` and `APIError` are not among them: a run they
  spoiled is scored, the "fabricated negative evidence" `tau3_binding.py` warns of
  [`MCChattyTurns`: `NoLossScored`].
- A model call that hangs in the last seconds of a task is cut by the deadline
  without a model error and scored as the agent's failure.

Calls, sessions, baselines:

- Processes share the temporary name of the reply cache, so a half-written file can
  be renamed into place, against the comment on `os.replace`, and overlapping
  requests get different answers (`solver_cache.py:81`) [`MCHalfWritten`].
- The reply of a direct call that gave up, `""`, is cached like any other, and with
  it a wrong answer, against "a transient error can never be frozen into the
  reference" (`lcb_react_baseline.py:14`). A global cap on calls is exceeded by
  abandoned ones.
- A process a session leaves behind can still write its files after the time-out,
  which kills only the agent (`claude_wrapper.py:624`); the last lines of a session
  can miss the log (`claude_wrapper.py:633`) [`MCStrayWriter`].
- "Gold [...] NEVER enters selection or the proposer's view" (`evolve.py:5`); the
  prompt names `frontier.json` and `evolution_summary.jsonl`, which contain it
  (`evolve.py:78`). An evolution started again resets the frontier. A half-written
  `pending_eval.json` ends the driver, and so does an entry that is not an object or
  has no name (`evolve.py:172`). A candidate whose code does not return holds the
  driver for ever: it runs in its own threads, which are waited for
  (`evaluator.py:71`).
- The sql and lcb runners' keys leave out the bridge [`MCOldBridge`]; `cache.json`
  is not written atomically, so a kill can block resuming.

SWE:

- "Always tears down the harness's Docker container" (`swe_optimize.py:32`) fails
  for a solve that was given up: its thread may start a container later, and a
  queued one still runs. `swe_bare.py:77` skips the clean-up when the trace cannot
  be written.
- Reports and summaries are read under a run id without a time
  (`swe_bridge.py:226-237`), so an old report, an old entry of a summary or a failed evaluation is kept as a verdict for ever; half a
  `gold_cache.json` stops every later grading.
- "An instance absent from the cache simply does not count" (`swe_optimize.py:228`);
  it is counted as failed.

## 14. What is not modelled

- Archived copies and patch snapshots (`_ling_analysis`, most of
  `_ctxbudget_v2_patch`), some seven thousand lines: frozen duplicates of code that
  is modelled.
- Benchmark plans, traits, integrity digests and analysis scripts: pure functions of
  finished files, without state.
- Embeddings, prompts, rendering of harness files, execution of candidate code under
  subprocess limits, loading of data sets: data and I/O; their outcomes are choices.
- `ValidationScheduler`, `get_or_compute`, `spend` and the other validators of
  `adapters.py`: only tests call them.
- The flat arm and the runners of the online experiment: they drive operations that
  are modelled in an order the models include.
