--------------------------- MODULE TaskEvaluation ---------------------------
(***************************************************************************)
(* Study.evaluate of _ctxbudget_v2_patch/full_study.py: the tasks of an    *)
(* evaluation run in a child process, at most three times over; the log of *)
(* each run decides whether its reward is a score or the run is excluded   *)
(* as an infrastructure failure and tried again.  Scores are kept in       *)
(* partial.json from attempt to attempt and over restarts of the study,    *)
(* and in result.json once all are there.                                  *)
(***************************************************************************)
EXTENDS AgentTask, FiniteSets

CONSTANTS
  MaxAttempts,
  MaxStarts      \* bound on how often the study is started

VARIABLES
  study,         \* the process of the study: where it is, which attempt, which start
  completed,     \* its scores in memory
  partial,       \* partial.json
  result,        \* result.json
  excluded       \* the runs of this attempt that infrastructure.jsonl leaves out

vars == <<run, request, captured, study, completed, partial, result, excluded>>

NoScore == [start |-> 0, attempt |-> 0, failed |-> FALSE, marred |-> FALSE]
NoScores == [t \in Task |-> NoScore]
NoResult == [t \in {} |-> NoScore]
Pending == {t \in Task : completed[t] = NoScore}

-----------------------------------------------------------------------------
(* Which runs count.                                                       *)

\* The last model error before an event.
ModelErrorBefore(events, i) ==
  LET last == {j \in 1..(i - 1) :
                 /\ events[j].type = "model_error"
                 /\ \A k \in (j + 1)..(i - 1) : events[k].type # "model_error"}
  IN  IF last = {} THEN "none" ELSE events[CHOOSE j \in last : TRUE].error

\* The error has one of the names of TRANSPORT in it.
TransportNamed(error) == error \in {"transport", "http"}

\* Mutant: the classification before the patch, which knows transport only.
ContextUnknown(events, i) == FALSE

\* An HTTPStatusError is the model's own failure when the server said that the
\* context is exhausted.
ContextExhausted(events, i) ==
  events[i].error = "http" /\ ModelErrorBefore(events, i) = "context"

\* The record of the runner reports an error, has a marker of one in it or shows
\* no sign that the task ran.
ClassifyError(r) == r.reported

Graded(r) == \E i \in DOMAIN r.events : r.events[i].type = "grading"

\* Mutant: an error of a tool is the agent's to deal with.
InspectAgentErrors(r) ==
  \/ ClassifyError(r) \/ ~Graded(r)
  \/ \E i \in DOMAIN r.events :
       /\ TransportNamed(r.events[i].error)
       /\ r.events[i].type = "agent_error" /\ ~ContextExhausted(r.events, i)

InspectRecord(r) ==
  \/ ClassifyError(r) \/ ~Graded(r)
  \/ \E i \in DOMAIN r.events :
       /\ TransportNamed(r.events[i].error)
       /\ \/ r.events[i].type = "observation"
          \/ r.events[i].type = "agent_error" /\ ~ContextExhausted(r.events, i)

-----------------------------------------------------------------------------
At(place) == study.at = place
GoTo(place) == study' = [study EXCEPT !.at = place]
EndRuns == /\ run' = [t \in Task |-> NoRun]
           /\ request' = [t \in Task |-> NoRequest]
           /\ captured' = {} /\ excluded' = {}
files == <<partial, result>>

\* Mutant: partial.json is not read back.
EvaluateAfresh ==
  /\ At("idle")
  /\ study' = [study EXCEPT !.at = "loop", !.attempt = 1]
  /\ completed' = NoScores
  /\ UNCHANGED <<run, request, captured, excluded, files>>

\* evaluate is called: an evaluation that is in result.json is not run again.
Evaluate ==
  /\ At("idle")
  /\ IF result # NoResult
     THEN GoTo("returned") /\ UNCHANGED completed
     ELSE /\ study' = [study EXCEPT !.at = "loop", !.attempt = 1]
          /\ completed' = partial
  /\ UNCHANGED <<run, request, captured, excluded, files>>

\* The child process runs what is not completed.
Attempt ==
  /\ At("loop")
  /\ study.attempt <= MaxAttempts /\ Pending # {}
  /\ GoTo("running")
  /\ run' = [t \in Task |-> IF t \in Pending THEN Begun ELSE run[t]]
  /\ captured' = {} /\ excluded' = {}
  /\ UNCHANGED <<request, completed, partial, result>>

\* Mutant: an attempt without scores does not count.
ScoresMissingAgain ==
  /\ At("running")
  /\ GoTo("loop")
  /\ EndRuns
  /\ UNCHANGED <<completed, files>>

\* It ends without its scores: the attempt counts.
ScoresMissing ==
  /\ At("running")
  /\ study' = [study EXCEPT !.at = "loop", !.attempt = @ + 1]
  /\ EndRuns
  /\ UNCHANGED <<completed, files>>

\* Or it exceeds a day, or its scores are not of the pending tasks: evaluate raises.
ChildTimesOut ==
  /\ At("running")
  /\ GoTo("failed")
  /\ EndRuns
  /\ UNCHANGED <<completed, files>>

Scored ==
  /\ At("running")
  /\ \A t \in Pending : run[t].at = "over"
  /\ GoTo("inspect")
  /\ UNCHANGED <<run, request, captured, completed, excluded, files>>

Failed(r) == r.hurt \/ r.reported
Record(t) == [start |-> study.start, attempt |-> study.attempt,
              failed |-> Failed(run[t]), marred |-> run[t].marred]

Inspect(t) ==
  /\ At("inspect")
  /\ run[t].at = "over"
  /\ run' = [run EXCEPT ![t] = NoRun]
  /\ IF InspectRecord(run[t])
     THEN /\ excluded' = excluded \cup
               {[failed |-> Failed(run[t]), graded |-> Graded(run[t])]}
          /\ UNCHANGED completed
     ELSE /\ completed' = [completed EXCEPT ![t] = Record(t)]
          /\ UNCHANGED excluded
  /\ UNCHANGED <<request, captured, study, files>>

\* A record without a finite reward.
RewardMissing ==
  /\ At("inspect")
  /\ \E t \in Task : run[t].at = "over" /\ ~InspectRecord(run[t])
  /\ GoTo("failed")
  /\ EndRuns
  /\ UNCHANGED <<completed, files>>

SavePartial ==
  /\ At("inspect")
  /\ \A t \in Task : run[t].at = "absent"
  /\ partial' = completed
  /\ study' = [study EXCEPT !.at = "loop", !.attempt = @ + 1]
  /\ UNCHANGED <<run, request, captured, completed, result, excluded>>

\* The scores are complete, or three attempts were not enough.
Conclude ==
  /\ At("loop")
  /\ study.attempt > MaxAttempts \/ Pending = {}
  /\ IF Pending = {} THEN GoTo("returned") /\ result' = completed
     ELSE GoTo("failed") /\ UNCHANGED result
  /\ UNCHANGED <<run, request, captured, completed, partial, excluded>>

\* The study dies, or is started again after it returned or raised.
Restart ==
  /\ ~At("idle")
  /\ study.start < MaxStarts
  /\ study' = [at |-> "idle", attempt |-> 0, start |-> study.start + 1]
  /\ completed' = NoScores
  /\ EndRuns
  /\ UNCHANGED files

-----------------------------------------------------------------------------
Init ==
  /\ TaskInit
  /\ study = [at |-> "idle", attempt |-> 0, start |-> 1]
  /\ completed = NoScores /\ partial = NoScores /\ result = NoResult
  /\ excluded = {}

TaskStep(t) == RunTask(t) /\ UNCHANGED <<study, completed, excluded, files>>
TaskLoss(t) == Disconnect(t) /\ UNCHANGED <<study, completed, excluded, files>>

StudyStep ==
  \/ Evaluate \/ Attempt \/ Scored \/ SavePartial \/ Conclude
  \/ \E t \in Task : Inspect(t)

Next ==
  \/ StudyStep \/ ScoresMissing \/ ChildTimesOut \/ RewardMissing \/ Restart
  \/ \E t \in Task : TaskStep(t) \/ TaskLoss(t)

\* Every wait of a task has a timeout: of a request, of the task, of the child.
\* The study is a loop; a supervisor starts it.
Fairness == WF_vars(StudyStep) /\ \A t \in Task : WF_vars(TaskStep(t))

Spec == Init /\ [][Next]_vars /\ Fairness

-----------------------------------------------------------------------------
(* Properties.                                                             *)

\* No run counts in which a call of the agent failed on its way to the model, the
\* customer or the environment under a name TRANSPORT has, however the agent went on,
\* nor one whose record reports an error (inspect_record).
ScoredRunsClean ==
  \A t \in Task : completed[t] # NoScore => ~completed[t].failed

\* And only such runs, and runs without an official grade, are left out: what the
\* agent itself did wrong, a context it exhausted included, is never tried again.
ExclusionsJustified == \A e \in excluded : e.failed \/ ~e.graded

\* An unrun task must not be scored, which would be "fabricated negative evidence"
\* (classify_error).  Not kept by the code: a call that failed on its way under a
\* name TRANSPORT does not have leaves its run in the scores.
NoLossScored ==
  \A t \in Task : completed[t] # NoScore => ~completed[t].failed /\ ~completed[t].marred

\* An answer an agent has used is in the log of the proxy, whatever dies meanwhile.
AnswersCaptured ==
  \A t \in Task : run[t].at \in {"call"} \cup Call =>
    <<t, run[t].turn>> \in captured

\* Every evaluation returns or raises.
EvaluationEnds == <>(study.at \in {"returned", "failed"})

\* An agent whose customer has said goodbye stops for that reason, unless it fails.
\* It does not hold where a turn has two messages for the customer: the reply to
\* the second overwrites what the first one said.
GoodbyeRespected ==
  \A t \in Task : run[t].at = "grade" /\ run[t].goodbye => run[t].status # "max_turns"
=============================================================================
