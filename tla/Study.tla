------------------------------- MODULE Study -------------------------------
(***************************************************************************)
(* The resumable study (src/experiments/tau3_mmh/full_study.py) under its  *)
(* supervisor (supervise_study.py): one process plays the rounds of every  *)
(* arm; it may raise in an evaluation or be killed anywhere, and the next  *)
(* process goes on with what is on disk.                                   *)
(*                                                                         *)
(* On disk: memory.sqlite per arm, the snapshot a round starts from, the   *)
(* results of its evaluations, its proposals, the audit log and a marker   *)
(* for every completed round.  The files of a completed round are never    *)
(* read again, so only those of the round in progress are kept here.       *)
(*                                                                         *)
(* An evaluation is a choice, made once: three attempts and the tasks an   *)
(* earlier process got done are inside it.  The search tasks matter as     *)
(* far as one of them fails.                                               *)
(***************************************************************************)
EXTENDS GuidelineMemory, Sequences, FiniteSetsExt

CONSTANTS
  Arms, MaxProbes,
  ProposalRounds,   \* bound: the rounds in which the proposer may answer
  MaxTries,         \* the supervisor's attempts
  MaxReruns,        \* bound on the reruns by an operator
  MaxDeaths,        \* bound on the killed processes
  TornSnapshots     \* may a process be killed while it writes a snapshot?

ASSUME StudyAssumption ==
  /\ Arms \in Seq({Arms[i] : i \in DOMAIN Arms}) /\ Arms # <<>>
  /\ {MaxProbes, MaxTries, MaxReruns, MaxDeaths} \subseteq Nat
  /\ 1 \in Cause       \* what every failure of the pilot is signed as

VARIABLES
  memory,     \* memory.sqlite of each arm
  snapshot,   \* round-k-start.sqlite of the round in progress
  results,    \* result.json of the evaluations of that round
  proposal,   \* proposals-k.json: "unasked" or what became of it
  finished,   \* the last round-k.json of each arm
  audit,      \* audit.jsonl, as a set: repeated lines are the same line
  proc,       \* the process: its step and the candidates still to judge
  status,     \* status.json
  tries, reruns, deaths

disk == <<memory, snapshot, results, proposal, finished, audit>>
control == <<status, tries, reruns, deaths>>
vars == <<disk, proc, control>>

NoSnapshot == [kind |-> "none"]
Torn == [kind |-> "torn"]
Saved(m) == [kind |-> "saved", of |-> m]

\* A database restored from a torn snapshot has no tables.
Wiped == EmptyMemory

Proc(step, todo) == [step |-> step, todo |-> todo]

\* Every finished round is recovered from its markers, so the memories a
\* reader of the study may rely on are those a round started from.
Committed == [a \in DOMAIN memory |->
  IF snapshot[a].kind = "saved" THEN snapshot[a].of ELSE memory[a]]

Rounds_ == INSTANCE StudyRounds WITH mem <- Committed, done <- finished
RoundsAtomic == Rounds_!RoundsSpec

Arm == Rounds_!Arm
Learning(a) == Rounds_!Learning(a)

\* The arms take turns in an order that rotates with the round.
Turn(k) == [i \in DOMAIN Arms |-> Arms[((k + i - 1) % Len(Arms)) + 1]]

Complete == \A a \in Arm : finished[a] = MaxRound

\* The round and the arm run() comes to: the first without a marker.
Round == 1 + Min({finished[a] : a \in Arm})
Now == Turn(Round)[Min({i \in DOMAIN Arms : finished[Turn(Round)[i]] < Round})]

-----------------------------------------------------------------------------
(* The process *)

Goto(step, todo) == proc' = Proc(step, todo)

\* An exception reaches run(), which writes it to status.json.
Stop(why) == Goto("down", {}) /\ status' = why

\* Mutant of Open: an interrupted round goes on with the memory it left.
OpenUnrestored ==
  /\ proc.step = "open" /\ ~Complete
  /\ snapshot' = [snapshot EXCEPT ![Now] = IF @ = NoSnapshot THEN Saved(memory[Now]) ELSE @]
  /\ memory' = [memory EXCEPT ![Now] = Advance(@, Round)]
  /\ Goto("search", {})
  /\ UNCHANGED <<results, proposal, finished, audit, control>>

\* run() at its next round: a snapshot means that the round was interrupted,
\* and is restored; without one it is taken.  Then the memory ages.
Open ==
  /\ proc.step = "open" /\ ~Complete
  /\ LET m == IF snapshot[Now].kind = "saved" THEN snapshot[Now].of ELSE memory[Now] IN
     IF snapshot[Now].kind = "torn"
     THEN /\ memory' = [memory EXCEPT ![Now] = Wiped]
          /\ Stop("other")                            \* no such table
          /\ UNCHANGED snapshot
     ELSE /\ snapshot' = [snapshot EXCEPT ![Now] = Saved(m)]
          /\ memory' = [memory EXCEPT ![Now] = Advance(m, Round)]
          /\ Goto("search", {})
          /\ UNCHANGED status
  /\ UNCHANGED <<results, proposal, finished, audit, tries, reruns, deaths>>

\* The results of a round are labelled by the candidate measured; those of the
\* search tasks have a label that is no rule.
SearchTasks == <<0, 0>>

\* Mutant of Evaluate: a replay measures again.
EvaluateAfresh(label, outcomes) ==
  \E outcome \in outcomes :
    /\ results' = [l \in DOMAIN results \cup {label} |->
                     IF l = label THEN outcome ELSE results[l]]
    /\ status' = "running"

\* evaluate: a stored result is returned, a new one stored.
Evaluate(label, outcomes) ==
  \E outcome \in IF label \in DOMAIN results THEN {results[label]} ELSE outcomes :
    /\ results' = [l \in DOMAIN results \cup {label} |->
                     IF l = label THEN outcome ELSE results[l]]
    /\ status' = IF label \in DOMAIN results THEN status ELSE "running"

\* Mutant of Candidates: the rules that mature are cut in the order of their ids.
CandidatesById(m) ==
  LET earlier(S) == {r \in S : CreatedIn(r) < Round}
  IN  earlier(Pending(m)) \cup FirstOf(earlier(Volatile(m)), MaxProbes, IdBefore)

\* candidate_rules, in the order of its list: pending rules, so that one that is
\* validated now is not also one that matures, then those that mature; in both
\* the oldest first.
Candidates(m) ==
  LET earlier(S) == {r \in S : CreatedIn(r) < Round}
      older(r, s) == Rounds_!Before(m, r, s)
  IN  earlier(Pending(m)) \cup FirstOf(earlier(Volatile(m)), MaxProbes, older)
Precedes(m, r, s) ==
  \/ r \in Pending(m) /\ s \notin Pending(m)
  \/ (r \in Pending(m) <=> s \in Pending(m)) /\ Rounds_!Before(m, r, s)

\* The first of S in the order of the list.
FirstToJudge(m, S) == CHOOSE r \in S : \A s \in S \ {r} : Precedes(m, r, s)

\* The next to judge.  Judging one changes no other one's row, so those left are
\* still in the order they were listed in.
Candidate == FirstToJudge(memory[Now], proc.todo)

\* The search tasks with the rules in force; the baseline has no more to do.
Search ==
  /\ proc.step = "search"
  /\ Evaluate(SearchTasks, {"clean", "failing"})
  /\ IF Learning(Now) THEN Goto("judge", Candidates(memory[Now])) ELSE Goto("mark", {})
  /\ UNCHANGED <<memory, snapshot, proposal, finished, audit, tries, reruns, deaths>>

\* adapt: control and treatment of the next candidate, whose difference goes
\* to the audit log first.
Measure ==
  /\ proc.step = "judge" /\ proc.todo # {}
  /\ Evaluate(Candidate, Rounds_!Delta)
  /\ Goto("report", proc.todo)
  /\ UNCHANGED <<memory, snapshot, proposal, finished, audit, tries, reruns, deaths>>

Line(event, r, decision) ==
  [arm |-> Now, round |-> Round, event |-> event, rule |-> r, decision |-> decision]

Report ==
  /\ proc.step = "report"
  /\ audit' = audit \cup {Line("validation", Candidate, results[Candidate])}
  /\ Goto("record", proc.todo)
  /\ UNCHANGED <<memory, snapshot, results, proposal, finished, control>>

\* The rule is put back with the round it was measured in, and takes its
\* evidence.  The row written back is the one read at the start of adapt; no
\* candidate changes another one's row, so it is still the current one.
Record ==
  /\ proc.step = "record"
  /\ memory' = [memory EXCEPT ![Now] =
       Rounds_!Judged(@, Candidate, Round, results[Candidate])]
  /\ Goto("judge", proc.todo \ {Candidate})
  /\ UNCHANGED <<snapshot, results, proposal, finished, audit, control>>

PromoteArm ==
  /\ proc.step = "judge" /\ proc.todo = {}
  /\ IF Now = "mmh"
     THEN LET promoted == Stable(Promote(memory[Now])) \ Stable(memory[Now]) IN
          /\ memory' = [memory EXCEPT ![Now] = Promote(@)]
          /\ audit' = audit \cup {Line("promotion", r, 0) : r \in promoted}
     ELSE UNCHANGED <<memory, audit>>
  /\ Goto("propose", {})
  /\ UNCHANGED <<snapshot, results, proposal, finished, control>>

\* The proposals of the round, read back if an earlier process had them.  Of
\* several only the first is taken.  Whether the influence filter passes it
\* follows from the memory, the same at every replay.
Propose ==
  /\ proc.step = "propose"
  /\ \E fate \in Rounds_!Fate :
       /\ proposal = "unasked" =>
            (fate # "none" => results[SearchTasks] = "failing" /\ Round \in ProposalRounds)
       /\ proposal # "unasked" => fate = proposal
       /\ proposal' = fate
  /\ Goto("stage", {})
  /\ UNCHANGED <<memory, snapshot, results, finished, audit, control>>

Stage ==
  /\ proc.step = "stage"
  /\ memory' = [memory EXCEPT ![Now] = Rounds_!Taken(@, Round, proposal)]
  /\ audit' = IF proposal = "none" THEN audit
              ELSE audit \cup {Line(proposal, Rounds_!Proposed(Round), 0)}
  /\ Goto("mark", {})
  /\ UNCHANGED <<snapshot, results, proposal, finished, control>>

\* The marker, written last.
Mark ==
  /\ proc.step = "mark"
  /\ finished' = [finished EXCEPT ![Now] = Round]
  /\ snapshot' = [snapshot EXCEPT ![Now] = NoSnapshot]
  /\ results' = <<>> /\ proposal' = "unasked"
  /\ Goto("open", {})
  /\ UNCHANGED <<memory, audit, control>>

\* The final splits on the frozen memories, and the summary.
Final ==
  /\ proc.step = "open" /\ Complete
  /\ Goto("complete", {}) /\ status' = "complete"
  /\ UNCHANGED <<disk, tries, reruns, deaths>>

\* An evaluation that still misses tasks after its attempts, or reports
\* others than it was given.
Evaluating ==
  \/ proc.step = "search" /\ SearchTasks \notin DOMAIN results
  \/ proc.step = "judge" /\ proc.todo # {} /\ Candidate \notin DOMAIN results
  \/ proc.step = "open" /\ Complete

EvaluationFails ==
  /\ Evaluating
  /\ \E why \in {"unresolved", "other"} : Stop(why)
  /\ UNCHANGED <<disk, tries, reruns, deaths>>

\* The process is killed.  status.json says what it said last, "running" once
\* an evaluation has begun.  A snapshot that is being written stays cut short.
Die ==
  /\ proc.step \notin {"down", "attention", "complete"}
  /\ deaths < MaxDeaths /\ deaths' = deaths + 1
  /\ \/ UNCHANGED <<snapshot, status>>
     \/ Evaluating /\ status' = "running" /\ UNCHANGED snapshot
     \/ /\ TornSnapshots /\ proc.step = "open" /\ ~Complete
        /\ snapshot[Now] = NoSnapshot
        /\ snapshot' = [snapshot EXCEPT ![Now] = Torn]
        /\ UNCHANGED status
  /\ Goto("down", {})
  /\ UNCHANGED <<memory, results, proposal, finished, audit, tries, reruns>>

-----------------------------------------------------------------------------
(* The supervisor *)

\* Mutant of Supervise: the attempts are not counted.
SuperviseForever ==
  /\ proc.step = "down"
  /\ IF status = "unresolved" THEN Goto("open", {}) ELSE Goto("attention", {})
  /\ UNCHANGED <<disk, control>>

\* supervise_study.main: only a stop that status.json calls unresolved is
\* tried again.
Supervise ==
  /\ proc.step = "down"
  /\ IF status = "unresolved" /\ tries < MaxTries
     THEN Goto("open", {}) /\ tries' = tries + 1
     ELSE Goto("attention", {}) /\ UNCHANGED tries
  /\ UNCHANGED <<disk, status, reruns, deaths>>

\* Somebody looks at it and runs it again.
Rerun ==
  /\ proc.step = "attention"
  /\ reruns < MaxReruns /\ reruns' = reruns + 1
  /\ tries' = 1
  /\ Goto("open", {})
  /\ UNCHANGED <<disk, status, deaths>>

StudyInit ==
  /\ memory = [a \in Arm |-> EmptyMemory]
  /\ snapshot = [a \in Arm |-> NoSnapshot]
  /\ results = <<>> /\ proposal = "unasked"
  /\ finished = [a \in Arm |-> 0]
  /\ audit = {}
  /\ proc = Proc("open", {})
  /\ status = "none" /\ tries = 1 /\ reruns = 0 /\ deaths = 0

StudyStep ==
  \/ Open \/ Search \/ Measure \/ Report \/ Record \/ PromoteArm
  \/ Propose \/ Stage \/ Mark \/ Final \/ EvaluationFails

StudyNext == StudyStep \/ Supervise \/ Die \/ Rerun

\* The process takes its next step, which may be to raise; the supervisor
\* waits for it and acts.  Nobody has to kill it or run it again.
StudyFairness == WF_vars(StudyStep) /\ WF_vars(Supervise)

StudySpec == StudyInit /\ [][StudyNext]_vars /\ StudyFairness

-----------------------------------------------------------------------------
(* Properties *)

(* "Restore an interrupted round before replaying cached evaluations":     *)
(* RoundsAtomic says that every completed round left what one              *)
(* uninterrupted round leaves, whatever was interrupted and replayed       *)
(* (Study.run, adapt).                                                     *)

Lines(a, event) == {l \in audit : l.arm = a /\ l.event = event /\ l.round <= finished[a]}
MeasuredWith(a, r, deltas) ==
  {l.round : l \in {x \in Lines(a, "validation") : x.rule = r /\ x.decision \in deltas}}

(* The audit log, which is appended to again by every replay, and the      *)
(* memory, which is rewound, tell the same story of every completed round: *)
(* one decision per rule and round, the evidence a live rule holds, why a  *)
(* rule was rolled back, and what was staged and promoted (adapt; analyze  *)
(* counts these lines).                                                    *)
AuditAgrees ==
  \A a \in Arm, r \in Rule :
    LET row == Committed[a].row[r]
        wins == MeasuredWith(a, r, {1}) losses == MeasuredWith(a, r, {-1})
        ties == MeasuredWith(a, r, {0})
    IN  /\ wins \cap losses = {} /\ ties \cap (wins \cup losses) = {}
        /\ row.patch \in {"pending", "validated"} =>
             /\ row.won = wins /\ row.lost = losses
             /\ row.measured = Max({0} \cup wins \cup losses \cup ties)
        /\ row.patch = "rolled_back" <=> wins = {} /\ losses # {}
        /\ row.patch # "absent" <=>
             \E l \in Lines(a, "staged") \cup Lines(a, "rejected") : l.rule = r
        /\ row.stable <=> \E l \in Lines(a, "promotion") : l.rule = r

\* The completed rounds in which a rule was measured while it matured.
Probes(a, r) ==
  LET wins == MeasuredWith(a, r, {1})
  IN  {k \in MeasuredWith(a, r, Rounds_!Delta) : wins # {} /\ k > Min(wins)}

(* "Choose validation candidates without starving older rules": while a    *)
(* rule that matures waits for its next measurement, no other rule is      *)
(* measured twice (candidate_rules).                                       *)
NoOvertaking ==
  \A a \in Arm, s \in Rule : \A r \in Volatile(Committed[a]) \ {s} :
    Cardinality({k \in Probes(a, s) : k > Committed[a].row[r].measured}) <= 1

(* A study that raises, is killed or is restarted comes to an end: it      *)
(* completes, or asks for attention (supervise_study.main).                *)
StudyEnds == []<>(proc.step \in {"complete", "attention"})
=============================================================================
