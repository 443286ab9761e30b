----------------------------- MODULE RoundLoop -----------------------------
(***************************************************************************)
(* The two drivers that play a schedule round by round in one process:     *)
(* ExperimentRunner (src/experiments/tau3_mmh/runner.py), whose memory is  *)
(* its own, and RoundDriver (round_driver.py, its mmh arm), whose memory   *)
(* is a file.  Neither resumes: run again, both start at round 1, the      *)
(* round driver on the memory the last execution left.  The sweep          *)
(* (sweep.py) drives the runner over a synthetic world, first with the     *)
(* promotion gate (its tiered arm) and then without (its flat arm), and    *)
(* reports on both.                                                        *)
(*                                                                         *)
(* They differ in whom they judge: the runner every pending rule and some  *)
(* that mature, the round driver some pending rules only.  The outcomes of *)
(* evaluations are choices.                                                *)
(***************************************************************************)
EXTENDS GuidelineMemory

CONSTANTS
  MaxCandidates,    \* max_candidates_per_round
  FailureRounds,    \* bound: the rounds whose failures lead to proposals
  SweepFailures,    \* the same bound for the sweep
  MaxProposals,     \* OfflineProposer.max_per_round
  Spurious,         \* causes of the sweep whose repair repairs nothing
  MaxExecutions     \* bound on how often the driver is run

ASSUME LoopAssumption == MaxRound > 0 /\ IsFiniteSet(Cause) /\ MaxCandidates \in Nat

VARIABLES
  driver,      \* "runner", "round_driver", or an arm of the sweep
  mem,         \* the guideline memory
  at, step, todo,   \* the round, its step and the candidates still to judge
  report,      \* the integrity report: defects and warnings with their round
  rates,       \* how many rounds had a success rate, and whether all had one
  tried,       \* validation attempts, as <<rule, round>>
  decided,     \* whether any of them was a decision
  life,        \* the runner's lifetimes
  execution,   \* the number of the execution
  names,       \* the round driver's candidate directories and who used them
  ended,       \* what this sweep says of the arms it has run
  traits       \* what the trait files in the sweep's directory come from

loopVars == <<driver, mem, at, step, todo, report, rates, tried, decided, life, execution, names,
          ended, traits>>
sweepVars == <<ended, traits>>

SweepArms == {"tiered", "flat"}
InSweep == driver \in SweepArms
DrivesRunner == driver # "round_driver"

Verdict == {"none", "analysable", "compromised"}

NoRates == [kind |-> "empty", rounds |-> 0]
NoLife == [staged |-> 0, promoted |-> 0, rolled_back |-> 0]

Warnings == {"validation_call_failed", "candidate_budget_deferred"}
Analysable == {i \in report : i[1] \notin Warnings} = {}

\* _candidate_name: out_dir, the round, and the candidate if there is one.
NoCandidate == <<0, 0>>
CandidateName(r) == <<at, r>>

\* The scores of an evaluation are read from the directory of its name.
Evaluated(r) ==
  IF DrivesRunner THEN UNCHANGED names
  ELSE names' = names \cup {<<CandidateName(r), execution>>}

-----------------------------------------------------------------------------
(* A round *)

\* The success rate of a round's scored tasks (an errored task is not scored)
\* and what it makes of the series: its failures repeat one rate or do not.
Series(failing) ==
  CASE rates.kind = "empty" -> {IF failing THEN "all at one rate" ELSE "all perfect"}
    [] rates.kind = "all at one rate" /\ failing -> {"all at one rate", "varied"}
    [] rates.kind = "all perfect" /\ ~failing -> {"all perfect"}
    [] OTHER -> {"varied"}

RoundsOfProposals == IF InSweep THEN SweepFailures ELSE FailureRounds

\* The memory ages, then the tasks run with the rules in force.
Play ==
  /\ step = "play"
  /\ mem' = Advance(mem, at)
  /\ Evaluated(NoCandidate)
  /\ \E failing \in BOOLEAN :
       /\ \E kind \in Series(failing) : rates' = [kind |-> kind, rounds |-> rates.rounds + 1]
       /\ step' = IF failing /\ at \in RoundsOfProposals THEN "stage" ELSE "select"
  /\ UNCHANGED <<driver, at, todo, report, tried, decided, life, execution>>

Dies ==
  /\ step' = "aborted"
  /\ UNCHANGED <<driver, at, todo, report, rates, tried, decided, life, execution, names>>

\* Too many of a round's tasks errored, or its evaluation raised: the execution
\* ends without a verdict on its integrity.  The sweep's world has no errors.
TooManyErrors ==
  /\ ~InSweep /\ step = "play"
  /\ mem' = Advance(mem, at)
  /\ Dies

\* Scores that describe other tasks are nobody's evidence, in a round or in a
\* validation; neither is an evaluation that times out.  The runner survives a
\* validation that raises.
ForeignScores ==
  /\ driver = "round_driver"
  /\ \/ step = "play" /\ mem' = Advance(mem, at)
     \/ step = "judge" /\ todo # {} /\ UNCHANGED mem
  /\ Dies

\* The model that is asked for a proposal does not answer.
ProposerDies ==
  /\ driver = "round_driver" /\ step = "stage"
  /\ UNCHANGED mem
  /\ Dies

\* Failures the memory has no live rule for; the pilot signs them all alike.
Unanswered ==
  {c \in Cause : \A r \in Pending(mem) \cup Validated(mem) : r[2] # c}

\* MixedProposer: the regime's own cause and a spurious one, whatever is in
\* force already.
MixedProposals == {{c, s} : c \in Cause \ Spurious, s \in Spurious}

OfflineProposals ==
  {P \in SUBSET Unanswered : Cardinality(P) <= IF driver = "runner" THEN MaxProposals ELSE 1}

\* What the validator of a model's reply tells apart: the existing rules it
\* targets, whether the new rule is whole, and the parts of a split.
Reply ==
  [operation : {"ADD", "DELETE", "REFINE", "SPLIT", "MERGE", "NONE", "unknown"},
   target : {"new", "one", "two"}, rule : {"whole", "partial", "null"}, parts : 0..2]

\* The target of an addition is beside the point.
Normalized(reply) == IF reply.operation = "ADD" THEN [reply EXCEPT !.target = "new"] ELSE reply

\* parse_patch_response: one atomic operation, or nothing.
Atomic(reply) ==
  /\ (reply.operation = "ADD") = (reply.target = "new")
  /\ reply.operation = "MERGE" => reply.target = "two"
  /\ IF reply.operation = "DELETE" THEN reply.rule = "null" ELSE reply.rule = "whole"
  /\ IF reply.operation = "SPLIT" THEN reply.parts >= 2 ELSE reply.parts = 0
  /\ reply.operation \notin {"NONE", "unknown"}

\* LLMProposer: only an addition is staged unseen.  The model may repeat a cause
\* that is answered, and the environment of each execution names its proposer.
LlmProposals ==
  UNION {IF Atomic(Normalized(reply)) /\ reply.operation = "ADD" THEN {{c} : c \in Cause}
         ELSE {{}} : reply \in Reply}

Proposals ==
  CASE InSweep -> MixedProposals
    [] driver = "runner" -> OfflineProposals
    [] OTHER -> OfflineProposals \cup LlmProposals

\* Stage this round's proposals, before anything is validated.
StageProposals ==
  /\ step = "stage"
  /\ \E P \in Proposals :
       /\ mem' = [mem EXCEPT !.row = [r \in Rule |->
                    IF r[1] = at /\ r[2] \in P THEN StageAdd(mem, r).row[r] ELSE mem.row[r]]]
       /\ life' = IF driver = "round_driver" THEN life
                  ELSE [r \in Rule |-> IF r[1] = at /\ r[2] \in P
                                       THEN [life[r] EXCEPT !.staged = at] ELSE life[r]]
  /\ step' = "select"
  /\ UNCHANGED <<driver, at, todo, report, rates, tried, decided, execution, names>>

\* The runner: all that are pending, and the first that mature.
RunnerCandidates == Pending(mem) \cup FirstOf(Volatile(mem), MaxCandidates, IdBefore)

\* Mutant of DriverCandidates: rules that mature are judged too.
DriverCandidatesMaturing == FirstOf(Pending(mem) \cup Volatile(mem), MaxCandidates, IdBefore)

\* The round driver: the first that are pending.
DriverCandidates == FirstOf(Pending(mem), MaxCandidates, IdBefore)

\* Whether max_candidates_per_round leaves somebody out.
PassedOver ==
  IF DrivesRunner THEN Cardinality(Volatile(mem)) > MaxCandidates
  ELSE Cardinality(Pending(mem)) > MaxCandidates

\* A cut is a defect of the runner's run and a warning in the round driver's.
Select ==
  /\ step = "select"
  /\ todo' = IF DrivesRunner THEN RunnerCandidates ELSE DriverCandidates
  /\ report' = IF ~PassedOver THEN report
               ELSE report \cup {<<IF DrivesRunner THEN "candidate_budget_exceeded"
                                   ELSE "candidate_budget_deferred", at>>}
  /\ step' = "judge"
  /\ UNCHANGED <<driver, mem, at, rates, tried, decided, life, execution, names>>

\* Mutant of RolledBack: every patch that is resolved.
ResolvedOnly(r, m) == m.row[r].patch # "pending"

RolledBack(r, m) == m.row[r].patch = "rolled_back"

\* A clear majority decides.
Decide(r) ==
  \E success \in BOOLEAN :
    LET m == RecordRound(mem, r, at, success) IN
    /\ mem' = m
    /\ decided' = TRUE
    /\ life' = IF DrivesRunner /\ mem.row[r].patch = "pending" /\ RolledBack(r, m)
               THEN [life EXCEPT ![r].rolled_back = at] ELSE life
    /\ UNCHANGED report

\* A split is no evidence; the round driver knows no split.
Split ==
  /\ DrivesRunner
  /\ UNCHANGED <<mem, decided, life, report>>

\* Neither is a call that fails or scores nothing.
CallFails ==
  /\ ~InSweep
  /\ report' = report \cup {<<"validation_call_failed", at>>}
  /\ UNCHANGED <<mem, decided, life>>

\* Those that are pending come before those that mature, both in the order of
\* their ids.
JudgedBefore(m, r, s) ==
  \/ r \in Pending(m) /\ s \notin Pending(m)
  \/ (r \in Pending(m) <=> s \in Pending(m)) /\ IdBefore(r, s)

\* The next to judge.  Judging one changes no other one's row, so those left are
\* still in the order they were listed in.
NextCandidate == CHOOSE r \in todo : \A s \in todo \ {r} : JudgedBefore(mem, r, s)

\* One candidate on the held-out tasks.
Judge ==
  /\ step = "judge" /\ todo # {}
  /\ Evaluated(NextCandidate)
  /\ tried' = tried \cup {<<NextCandidate, at>>}
  /\ todo' = todo \ {NextCandidate}
  /\ Decide(NextCandidate) \/ Split \/ CallFails
  /\ UNCHANGED <<driver, at, step, rates, execution>>

\* What makes a run that played all its rounds useless: scores that never
\* differ, no guideline in force at its end, and no candidate ever decided.
Degenerate == rates.rounds >= 4 /\ rates.kind # "varied"
NeverInjected(m) == DrivesRunner /\ at >= 4 /\ Active(m) = {}
NeverDecided == DrivesRunner /\ tried # {} /\ ~decided

Health(m) ==
  {<<defect, 0>> : defect \in
     {d \in {"degenerate_score_series", "no_guidelines_injected", "no_validation_decisions"} :
        \/ d = "degenerate_score_series" /\ Degenerate
        \/ d = "no_guidelines_injected" /\ NeverInjected(m)
        \/ d = "no_validation_decisions" /\ NeverDecided}}

\* The flat arm's thresholds are zero; a rule must still be validated.
PromoteFlat(m) ==
  [m EXCEPT !.row = [r \in Rule |->
     IF r \in Volatile(m) THEN [m.row[r] EXCEPT !.stable = TRUE] ELSE m.row[r]]]

NextRound ==
  IF at < MaxRound THEN at' = at + 1 /\ step' = "play" /\ UNCHANGED report
  ELSE step' = "end" /\ report' = report \cup Health(mem') /\ UNCHANGED at

\* Promote, record the round, and go to the next one or to the verdict.
EndRound ==
  /\ step = "judge" /\ todo = {}
  /\ mem' = IF driver = "flat" THEN PromoteFlat(mem) ELSE Promote(mem)
  /\ life' = IF driver = "round_driver" THEN life
             ELSE [r \in Rule |-> IF r \in Stable(mem') \ Stable(mem)
                                  THEN [life[r] EXCEPT !.promoted = at] ELSE life[r]]
  /\ NextRound
  /\ UNCHANGED <<driver, todo, rates, tried, decided, execution, names>>

\* Scores without a single task: the round driver passes over the round.
Unscored ==
  /\ driver = "round_driver" /\ step = "play"
  /\ mem' = Advance(mem, at)
  /\ Evaluated(NoCandidate)
  /\ NextRound
  /\ UNCHANGED <<driver, todo, rates, tried, decided, life, execution>>

\* What every run starts with but its memory.
Fresh ==
  /\ at' = 1 /\ step' = "play" /\ todo' = {}
  /\ report' = {} /\ rates' = NoRates /\ tried' = {} /\ decided' = FALSE
  /\ life' = [r \in Rule |-> NoLife]

\* The driver is killed, or has ended, and is run again: a new report, and the
\* memory of the file.
RunAgain ==
  /\ ~InSweep
  /\ execution < MaxExecutions /\ execution' = execution + 1
  /\ Fresh
  /\ mem' = IF driver = "runner" THEN EmptyMemory ELSE mem
  /\ UNCHANGED <<driver, names, sweepVars>>

\* An arm's run has its summary and its trait file, and the next arm begins.
ArmEnds ==
  /\ InSweep /\ step = "end"
  /\ LET verdict == IF Analysable THEN "analysable" ELSE "compromised" IN
     /\ ended' = [ended EXCEPT ![driver] = verdict]
     /\ traits' = [traits EXCEPT ![driver] = verdict]
  /\ IF driver = "tiered"
     THEN driver' = "flat" /\ Fresh /\ mem' = EmptyMemory
     ELSE step' = "summary"
          /\ UNCHANGED <<driver, mem, at, todo, report, rates, tried, decided, life>>
  /\ UNCHANGED <<execution, names>>

\* What the sweep's summary compares, and what its trait analysis reads.
Aggregated == {a \in SweepArms : ended[a] = "analysable"}
TraitRuns == IF Aggregated = {} THEN {} ELSE {a \in SweepArms : traits[a] # "none"}

\* A sweep over the same directory, of both arms or of the flat one alone.
SweepAgain ==
  /\ InSweep
  /\ execution < MaxExecutions /\ execution' = execution + 1
  /\ driver' \in SweepArms
  /\ Fresh /\ mem' = EmptyMemory
  /\ ended' = [a \in SweepArms |-> "none"]
  /\ UNCHANGED <<names, traits>>

LoopInit ==
  /\ driver \in {"runner", "round_driver", "tiered"}
  /\ mem = EmptyMemory
  /\ at = 1 /\ step = "play" /\ todo = {}
  /\ report = {} /\ rates = NoRates /\ tried = {} /\ decided = FALSE
  /\ life = [r \in Rule |-> NoLife]
  /\ execution = 1 /\ names = {}
  /\ ended = [a \in SweepArms |-> "none"] /\ traits = ended

RoundStep == Play \/ TooManyErrors \/ ForeignScores \/ ProposerDies \/ Unscored \/ StageProposals \/ Select \/ Judge \/ EndRound

LoopNext ==
  \/ RoundStep /\ UNCHANGED sweepVars
  \/ RunAgain \/ ArmEnds \/ SweepAgain

LoopSpec == LoopInit /\ [][LoopNext]_loopVars

-----------------------------------------------------------------------------
(* Properties *)

(* What a finished run of the runner reports is true: a lifetime says that *)
(* a rule was promoted or rolled back exactly if it was, no promoted rule  *)
(* lived less than the promotion age, and in a run without defects every   *)
(* rule that could have taken evidence was put up for it in every round    *)
(* (ExperimentRunner._run_round, GuidelineLifetime.lifespan_rounds).       *)
ReportTrue ==
  DrivesRunner /\ step = "end" =>
    /\ \A r \in Rule :
         /\ life[r].staged > 0 <=> mem.row[r].patch # "absent"
         /\ life[r].promoted > 0 <=> mem.row[r].stable
         /\ life[r].rolled_back > 0 <=> mem.row[r].patch = "rolled_back"
         /\ life[r].promoted > 0 =>
              life[r].promoted >= life[r].staged + IF driver = "flat" THEN 0 ELSE PromotionAge
    /\ Analysable =>
         \A r \in Rule : \A k \in life[r].staged..MaxRound :
           life[r].staged > 0 /\ life[r].rolled_back = 0
             /\ (life[r].promoted > 0 => k <= life[r].promoted) => <<r, k>> \in tried

(* "A rule that stopped being validated the moment it resolved could never *)
(* reach the age threshold" (runner.py): the round driver stops there, so  *)
(* whatever it is run and however often, no rule wins twice or loses after *)
(* a win, and nothing is ever promoted (RoundDriver._apply_evidence).      *)
DriverNeverPromotes ==
  driver = "round_driver" =>
    \A r \in Rule : Cardinality(mem.row[r].won) + Cardinality(mem.row[r].lost) <= 1
                    /\ ~mem.row[r].stable

(* "Two runs -- or a re-run after a crash -- can never share a candidate   *)
(* directory" (RoundDriver._candidate_name).                               *)
NamesApart == \A x, y \in names : x[1] = y[1] => x[2] = y[2]

(* "Refuse to aggregate compromised runs [...] so it is excluded and        *)
(* reported" (sweep.py:304-386): the trait analysis of the same summary    *)
(* reads every trait file in the directory (_load_traits).                 *)
SummaryExcludes == step = "summary" => TraitRuns \subseteq Aggregated
=============================================================================
