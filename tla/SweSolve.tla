------------------------------ MODULE SweSolve ------------------------------
(***************************************************************************)
(* Solving and grading SWE-bench instances (src/swe): the optimisation     *)
(* loop's solves under a time limit (swe_optimize.py, safe_solve and       *)
(* observe), the baseline's without one (swe_bare.py), the container a     *)
(* harness starts when it first needs the repository (harness_base.py),    *)
(* and the official evaluation whose verdicts are kept by patch            *)
(* (swe_bridge.py, is_correct_batch).                                      *)
(*                                                                         *)
(* A solve has two sides: the caller, who waits for it and cleans up, and  *)
(* the thread that runs it, which a caller that gave up does not stop.     *)
(* Executions follow one another; each may be killed.  What HarnessLoop    *)
(* says of batches and judges is left out: a harness is observed, and one  *)
(* of those observed is graded.                                            *)
(***************************************************************************)
EXTENDS Naturals, FiniteSets, Sequences, SequencesExt, Functions

CONSTANTS
  Batch,          \* the number of instances of the batch
  Parallel,       \* instances observed at a time
  Pool,           \* threads of _SOLVE_POOL
  Observations,   \* bound on the harnesses observed in one execution
  Containers,     \* bound on the containers one solve starts
  Names,          \* values of --run-name
  Patches,        \* patches that are not empty
  Resolving,      \* those of them that resolve their instance
  MaxExecutions   \* bound on the executions

ASSUME SweAssumption ==
  /\ {Batch, Parallel, Pool, Observations, Containers, MaxExecutions} \subseteq Nat
  /\ Observations >= 1 /\ Parallel <= Pool
  /\ Resolving \subseteq Patches /\ "" \notin Patches

VARIABLES
  program, name, execution,   \* which program runs, under which name, the how manyth time
  step,        \* "observe", "evaluate" or "record", in the end "ended" or "killed"
  observing,   \* the harness being observed
  solve,       \* the solves of this execution
  queue,       \* the pool's queue
  up,          \* the containers that are up, as <<solve, how manyth>>
  patch,       \* the patches to grade, of the harness the judge picked
  verdict,     \* what this execution says of its patches
  reports,     \* the evaluation's report files, by run id and instance
  summary,     \* the resolved ids of its summary files, as <<run id, instance>>
  gold, torn,  \* gold_cache.json, and whether a kill left half of it
  bare,        \* bare_cache.json
  evaluated, silent   \* the evaluations asked for; those that left no word

runVars == <<program, name, execution>>
solveVars == <<observing, solve, queue, up>>
gradeVars == <<patch, verdict, reports, summary, gold, torn, bare, evaluated, silent>>
vars == <<runVars, step, solveVars, gradeVars>>

Instances == 1..Batch
Solve == (1..Observations) \X Instances

\* A harness before it has solved: no thread, no container.
NewSolve == [thread |-> "none", caller |-> "none", env |-> 0, made |-> 0]

Over == step \in {"ended", "killed"}

NothingSolved ==
  /\ solve' = [j \in Solve |-> NewSolve]
  /\ observing' = 1 /\ queue' = <<>> /\ up' = {}

Running == {j \in Solve : solve[j].thread \in {"ready", "starting"}}
Waiting == {j \in Solve : solve[j].caller = "waiting"}
GivenUp == {j \in Solve : solve[j].caller = "timed_out"}

-----------------------------------------------------------------------------
(* Solving *)

\* Mutant of Slots: the whole batch at once.
SlotsOfBatch == Batch

\* How many solves of a batch go on at a time.
Slots == Parallel

\* A solve is submitted to the pool, which starts it if a thread is free; the
\* baseline runs it in the caller's thread.
Submit ==
  /\ step = "observe" /\ Cardinality(Waiting) < Slots
  /\ \E i \in Instances :
       LET j == <<observing, i>> IN
       /\ solve[j].caller = "none"
       /\ \A k \in 1..(i - 1) : solve[<<observing, k>>].caller # "none"
       /\ IF program = "bare" \/ Cardinality(Running) < Pool
          THEN /\ solve' = [solve EXCEPT ![j].caller = "waiting", ![j].thread = "ready"]
               /\ UNCHANGED queue
          ELSE /\ solve' = [solve EXCEPT ![j].caller = "waiting", ![j].thread = "queued"]
               /\ queue' = Append(queue, j)
  /\ UNCHANGED <<runVars, step, observing, up, gradeVars>>

\* _get_env: a harness without a container starts one, which takes a while.
NeedsRepo(j) ==
  /\ solve[j].thread = "ready" /\ solve[j].env = 0 /\ solve[j].made < Containers
  /\ solve' = [solve EXCEPT ![j].thread = "starting"]
  /\ UNCHANGED <<runVars, step, observing, queue, up, gradeVars>>

\* make_env returns, whoever still waits; with a container, a command that
\* finds it gone is an error text and the harness goes on.
ContainerUp(j) ==
  /\ solve[j].thread = "starting"
  /\ solve' = [solve EXCEPT ![j].thread = "ready", ![j].env = solve[j].made + 1,
                            ![j].made = @ + 1]
  /\ up' = up \cup {<<j, solve[j].made + 1>>}
  /\ UNCHANGED <<runVars, step, observing, queue, gradeVars>>

\* solve returns or raises, or no container can be started; a thread of the
\* pool that is free takes the next of the queue.
ThreadEnds(j) ==
  /\ j \in Running
  /\ IF queue = <<>>
     THEN /\ solve' = [solve EXCEPT ![j].thread = "ended"]
          /\ UNCHANGED queue
     ELSE /\ solve' = [solve EXCEPT ![j].thread = "ended", ![Head(queue)].thread = "ready"]
          /\ queue' = Tail(queue)
  /\ UNCHANGED <<runVars, step, observing, up, gradeVars>>

\* cleanup: tear down the container the harness has now, if it has one.
CleanUp(j, caller) ==
  /\ solve' = [solve EXCEPT ![j].caller = caller, ![j].env = 0]
  /\ up' = up \ {<<j, solve[j].env>>}

\* result(timeout) raises; the future stays where it is.
GiveUp(j) ==
  /\ program = "optimize" /\ solve[j].caller = "waiting" /\ solve[j].thread # "ended"
  /\ CleanUp(j, "timed_out")
  /\ UNCHANGED <<runVars, step, observing, queue, gradeVars>>

\* Mutant of Answer: no finally, so a solve that raises is not cleaned up.
AnswerCleanedOnReturn(j) ==
  /\ solve[j].caller = "waiting" /\ solve[j].thread = "ended"
  /\ \E raised \in BOOLEAN :
       IF raised THEN solve' = [solve EXCEPT ![j].caller = "answered"] /\ UNCHANGED up
       ELSE CleanUp(j, "answered")
  /\ UNCHANGED <<runVars, step, observing, queue, gradeVars>>

\* The answer comes in time.  The baseline cleans up after writing the trace,
\* and not if that fails.
Answer(j) ==
  /\ solve[j].caller = "waiting" /\ solve[j].thread = "ended"
  /\ \/ CleanUp(j, "answered")
     \/ program = "bare" /\ solve' = [solve EXCEPT ![j].caller = "answered"] /\ UNCHANGED up
  /\ UNCHANGED <<runVars, step, observing, queue, gradeVars>>

Observed(o) == \A i \in Instances : solve[<<o, i>>].caller \in {"answered", "timed_out"}

\* Another harness is observed.
ObserveNext ==
  /\ step = "observe" /\ Observed(observing)
  /\ program = "optimize" /\ observing < Observations
  /\ observing' = observing + 1
  /\ UNCHANGED <<runVars, step, solve, queue, up, gradeVars>>

-----------------------------------------------------------------------------
(* Grading *)

\* Mutant of Key: the instance alone.
KeyByInstance(i, p) == <<i, "any">>

\* A verdict is kept under the instance and a hash of the patch.
Key(i, p) == <<i, p>>

\* run_id: the run's name, in the loop with the batch; no time.
RunId == <<program, name>>

\* What the evaluation finds of an instance: its report, or the patch.
Resolved(i) ==
  IF <<RunId, i>> \in DOMAIN reports THEN reports[<<RunId, i>>] ELSE patch[i] \in Resolving

ToEvaluate(p) == {i \in Instances : p[i] # "" /\ Key(i, p[i]) \notin DOMAIN gold}

\* The judge picks one of the harnesses observed.  A solve that was given up,
\* that raised or that submitted nothing has an empty patch, which no
\* evaluation sees; a verdict already known is not asked for again.  Bound:
\* an execution has one batch, and what is left of its threads and containers
\* is not followed from here on.
Pick ==
  /\ step = "observe" /\ Observed(observing) /\ ~torn
  /\ \E o \in 1..observing : \E p \in [Instances -> Patches \cup {""}] :
       /\ \A i \in Instances : <<o, i>> \in GivenUp => p[i] = ""
       /\ patch' = p
       /\ verdict' = [i \in Instances |->
            p[i] # "" /\ Key(i, p[i]) \in DOMAIN gold /\ gold[Key(i, p[i])]]
       /\ step' = IF ToEvaluate(p) = {} THEN "record" ELSE "evaluate"
       /\ evaluated' = evaluated \cup {<<RunId, i, p[i]>> : i \in ToEvaluate(p)}
  /\ NothingSolved
  /\ UNCHANGED <<runVars, reports, summary, gold, torn, bare, silent>>

\* run_evaluation: for each instance it writes a report, or finds one of its
\* run id there and leaves it, or fails, which nobody checks.  In the end it
\* writes the summary of the run id anew, unless it has failed before; what that
\* says of instances with a report is never looked up.
Evaluate ==
  /\ step = "evaluate" /\ step' = "record"
  /\ \E fails \in SUBSET ToEvaluate(patch) :
       LET runs == ToEvaluate(patch) \ fails IN
       reports' = [k \in DOMAIN reports \cup {<<RunId, i>> : i \in runs} |->
         IF k[1] = RunId /\ k[2] \in runs THEN Resolved(k[2]) ELSE reports[k]]
  /\ \/ summary' = summary
     \/ \E told \in SUBSET {i \in ToEvaluate(patch) :
                             <<RunId, i>> \notin DOMAIN reports' /\ Resolved(i)} :
          summary' = {r \in summary : r[1] # RunId} \cup {<<RunId, i>> : i \in told}
  /\ UNCHANGED <<runVars, solveVars, patch, verdict, gold, torn, bare, evaluated, silent>>

\* The verdicts are read from the reports; one without a report is resolved if
\* the summary of the run id says so.  All are kept in gold_cache.json.
Graded(i) ==
  IF <<RunId, i>> \in DOMAIN reports THEN reports[<<RunId, i>>] ELSE <<RunId, i>> \in summary

\* The baseline's verdicts are what every later run is compared with.
Baseline(v) == IF program = "bare" THEN v ELSE bare

Record ==
  /\ step = "record" /\ step' = "ended"
  /\ LET todo == ToEvaluate(patch) IN
     /\ verdict' = [i \in Instances |-> IF i \in todo THEN Graded(i) ELSE verdict[i]]
     /\ gold' = [k \in DOMAIN gold \cup {Key(i, patch[i]) : i \in todo} |->
          IF k \in DOMAIN gold THEN gold[k] ELSE Graded(k[1])]
     /\ silent' = silent \cup {<<i, patch[i]>> : i \in
                                {x \in todo : <<RunId, x>> \notin DOMAIN reports \cup summary}}
  /\ bare' = Baseline(verdict')
  /\ UNCHANGED <<runVars, solveVars, patch, reports, summary, torn, evaluated>>

-----------------------------------------------------------------------------
(* Executions *)

\* The process ends and its threads with it; its containers stay up, and are
\* not followed.  A kill while gold_cache.json is written leaves half of it,
\* which no execution can read.
Kill ==
  /\ ~Over /\ step' = "killed"
  /\ torn' \in IF step = "record" THEN BOOLEAN ELSE {torn}
  /\ NothingSolved
  /\ UNCHANGED <<runVars, patch, verdict, reports, summary, gold, bare, evaluated, silent>>

Unreadable ==
  /\ step = "observe" /\ Observed(observing) /\ torn
  /\ step' = "killed"
  /\ NothingSolved
  /\ UNCHANGED <<runVars, gradeVars>>

Start ==
  /\ Over /\ execution < MaxExecutions
  /\ execution' = execution + 1
  /\ program' \in {"optimize", "bare"} /\ name' \in Names
  /\ step' = "observe"
  /\ patch' = [i \in Instances |-> ""] /\ verdict' = [i \in Instances |-> FALSE]
  /\ UNCHANGED <<solveVars, reports, summary, gold, torn, bare, evaluated, silent>>

Init ==
  /\ program \in {"optimize", "bare"} /\ name \in Names /\ execution = 1
  /\ step = "observe" /\ observing = 1 /\ queue = <<>>
  /\ solve = [j \in Solve |-> NewSolve]
  /\ up = {} /\ torn = FALSE
  /\ patch = [i \in Instances |-> ""] /\ verdict = [i \in Instances |-> FALSE]
  /\ reports = <<>> /\ summary = {} /\ gold = <<>> /\ evaluated = {} /\ silent = {}
  /\ bare = [i \in Instances |-> FALSE]

Thread(j) == step = "observe" /\ (NeedsRepo(j) \/ ContainerUp(j) \/ ThreadEnds(j))
Caller(j) == step = "observe" /\ (GiveUp(j) \/ Answer(j))

Next ==
  \/ Submit \/ ObserveNext \/ Pick \/ Evaluate \/ Record
  \/ Kill \/ Unreadable \/ Start
  \/ \E j \in Solve : Thread(j) \/ Caller(j)

Spec == Init /\ [][Next]_vars

-----------------------------------------------------------------------------
(* Properties *)

(* A solve times out unstarted, and is scored as a failure it never was,   *)
(* only behind threads of solves given up before: with Parallel callers    *)
(* and a pool of Pool threads at least Pool - Parallel + 1 of them still   *)
(* run (swe_optimize.py:22-35, _SOLVE_POOL and observe's executor).        *)
StarvedBehindGivenUp ==
  \A j \in GivenUp : solve[j].thread = "queued" =>
    Cardinality(GivenUp \cap Running) > Pool - Parallel

(* "Always tears down the harness's Docker container afterwards"           *)
(* (safe_solve): while the loop observes, every container of a solve that  *)
(* its caller is done with belongs to one that was given up.               *)
AnsweredAreTornDown ==
  program = "optimize" =>
    \A j \in Solve : \A n \in 1..Containers :
      <<j, n>> \in up => solve[j].caller \in {"waiting", "timed_out"}

(* A verdict an execution reports is what the evaluation says of that very *)
(* patch, unless an evaluation of it left neither a report nor a word in   *)
(* the summary, or one under the same run id has judged another patch of   *)
(* the instance (is_correct_batch keeps verdicts by patch and reads        *)
(* reports and summaries by run id).                                       *)
VerdictsEarned ==
  step = "ended" =>
    \A i \in Instances : \A p \in Patches :
      patch[i] = p /\ verdict[i] # (p \in Resolving) =>
        \/ ~verdict[i] /\ <<i, p>> \in silent
        \/ \E id \in {e[1] : e \in evaluated} : \E q \in Patches \ {p} :
             {<<id, i, p>>, <<id, i, q>>} \subseteq evaluated
=============================================================================
