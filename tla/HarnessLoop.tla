---------------------------- MODULE HarnessLoop ----------------------------
(***************************************************************************)
(* Test-time harness evolution.  The same loop is written four times:      *)
(* lcb_optimize.py, ds1000_optimize.py, swe_optimize.py and                *)
(* text_to_sql/optimize.py.  A harness H carries from batch to batch; in a *)
(* batch, branches start from H, agents rewrite them round by round, a     *)
(* judge picks among all that ran on the batch, and the pick is scored.    *)
(*                                                                         *)
(* They differ in what survives the process.  "plain" loops keep nothing   *)
(* but the candidate files; "sql" is resumed at a batch from the records   *)
(* of an earlier execution; "mmh" (lcb_optimize with MMHAdapter,           *)
(* mmh_adapter.py) keeps a JSON file of candidates beside an SQLite store  *)
(* of their patches, and no transaction spans the two.                     *)
(*                                                                         *)
(* Agents, judge and test results are choices.  A batch has one task, and  *)
(* every patch adds one rule: what edits do to rules is MetaMemory's.      *)
(***************************************************************************)
EXTENDS Integers, Sequences, FiniteSetsExt, SequencesExt

CONSTANTS
  Shapes,            \* loops to run: kind, number of batches, rounds and branches
  MaxExecutions,     \* bound on how often a loop is started
  OwnPrefix,         \* whether operators resume from an earlier execution's records only
  PromotionAge, PromotionSubsets,
  PriorSuccess, PriorFailure, ConfidencePercent

ASSUME HarnessAssumption ==
  /\ Shapes \subseteq [loop : {"plain", "sql", "mmh"},
                      batches : Nat \ {0}, rounds : Nat \ {0}, group : Nat \ {0}]
  /\ {MaxExecutions, PromotionAge, PromotionSubsets} \subseteq Nat
  /\ {PriorSuccess, PriorFailure, ConfidencePercent} \subseteq Nat
  /\ OwnPrefix \in BOOLEAN

VARIABLES
  shape,
  H, batch, rnd, branches, pool, step,   \* main's locals
  todo,                \* candidates still to validate or to register
  log, idle,           \* the scored batches, and those the harness could not run
  execution,
  source,              \* files under agents/: the execution that wrote them last
  parent,              \* and the bases this run made them from
  memory, saved,       \* associations in memory and in the JSON file
  patch, lastRound     \* the SQLite store

loop == <<H, batch, rnd, branches, pool, step, todo, log, idle>>
vars == <<shape, loop, execution, source, parent, memory, saved, patch, lastRound>>

MMH == shape.loop = "mmh"
Branch == 1..shape.group

\* A candidate's file carries its batch, round and branch; the seed is bare.
Name == UNION {(1..s.batches) \X (1..s.rounds) \X (1..s.group) : s \in Shapes}
Seed == <<0, 0, 0>>
Children(S) == {<<batch, rnd, g>> : g \in S}

NoAssociation == [status |-> "absent", source |-> 0, seen |-> {}]
NoPatch ==
  [status |-> "absent", created |-> 0, evidence |-> {}, won |-> {},
   live |-> FALSE, stable |-> FALSE, age |-> 0]

\* Candidates in the order of the JSON file.
Before(c, d) == \/ c[1] < d[1]
                \/ c[1] = d[1] /\ c[2] < d[2]
                \/ c[1] = d[1] /\ c[2] = d[2] /\ c[3] < d[3]
First(S) == {c \in S : \A d \in S \ {c} : Before(c, d)}

-----------------------------------------------------------------------------
(* Opening a batch *)

\* Mutant of Incumbents: branches go on where the last batch left them.
IncumbentsCarriedOver == IF branches = <<>> THEN [g \in Branch |-> H] ELSE branches

Incumbents == [g \in Branch |-> H]

\* A harness that does not load for the batch is not run on it.
Loaded(c) == {{c}, {}}

\* Mutant of Due: a rule may be judged on its own batch.
DueAnytime(c) ==
  /\ memory[c].status \in {"pending", "validated"}
  /\ batch \notin memory[c].seen

\* A task is evidence for older candidates only, and once.
Due(c) ==
  /\ memory[c].status \in {"pending", "validated"}
  /\ c[1] < batch
  /\ batch \notin memory[c].seen

StartBatch ==
  /\ step = "batch"
  /\ branches' = Incumbents /\ rnd' = 1
  /\ pool' \in Loaded(H)
  /\ todo' = IF MMH THEN {c \in Name : Due(c)} ELSE {}
  /\ step' = IF MMH THEN "validate" ELSE "generate"
  /\ UNCHANGED <<shape, H, batch, log, idle, execution, source, parent, memory, saved,
                 patch, lastRound>>

\* validate_patch: the first evidence resolves, a failure takes the rule away.
WithEvidence(p, improved) ==
  IF batch \in p.evidence THEN p
  ELSE [p EXCEPT !.evidence = @ \cup {batch},
                 !.won = IF improved /\ p.live THEN @ \cup {batch} ELSE @,
                 !.live = @ /\ ~(p.status = "pending" /\ ~improved),
                 !.status = IF p.status # "pending" THEN @
                            ELSE IF improved THEN "validated" ELSE "rolled_back"]

\* The association follows a patch that is resolved.
Following(a, p) ==
  [a EXCEPT !.seen = @ \cup {batch},
            !.status = IF p.status \in {"rolled_back", "validated"} THEN p.status ELSE @]

\* One candidate on a new task: skipped when the context does not match, else
\* compared with its parent, and its evidence committed.  A candidate whose
\* file is gone passes nothing.
ValidateOne ==
  /\ step = "validate"
  /\ \E c \in First(todo) :
     /\ \/ UNCHANGED <<memory, patch>>
        \/ \E improved \in IF source[c] = 0 THEN {FALSE} ELSE BOOLEAN :
             LET p == WithEvidence(patch[c], improved) IN
             /\ patch' = [patch EXCEPT ![c] = p]
             /\ memory' = [memory EXCEPT ![c] = Following(@, p)]
     /\ todo' = todo \ {c}
  /\ UNCHANGED <<shape, H, batch, rnd, branches, pool, step, log, idle, execution,
                 source, parent, saved, lastRound>>

\* What the pass learned is written to the JSON file once, at its end.
SaveState ==
  /\ step = "validate" /\ todo = {}
  /\ saved' = memory
  /\ step' = "generate"
  /\ UNCHANGED <<shape, H, batch, rnd, branches, pool, todo, log, idle, execution,
                 source, parent, memory, patch, lastRound>>

-----------------------------------------------------------------------------
(* A round of generation *)

\* What a session leaves when it ends, is killed or never starts: the file it was
\* given as a copy of its base, edited or not, one that does not load, or none;
\* and its card.  An agent may come to what an earlier execution's wrote, which
\* only mmh can tell.
NoFile == [version |-> 0, loads |-> FALSE, card |-> FALSE]
SessionLeaves ==
  {NoFile} \cup [version : {execution}, loads : BOOLEAN, card : BOOLEAN]
           \cup [version : IF MMH THEN 1..execution ELSE {}, loads : {TRUE}, card : {TRUE}]

\* The sql and the mmh sessions must describe their edit, its base and its peers
\* on a card that is well formed.
CardAccepted(leaves) == shape.loop \in {"sql", "mmh"} => leaves.card

\* The branches whose child is there, is described where it must be, and loads.
Offered(left) ==
  {g \in Branch : left[g].version # 0 /\ CardAccepted(left[g]) /\ left[g].loads}

\* sample_branches unlinks the files of the round before the agents start.
Rewritten(left) ==
  [c \in Name |-> IF c \in Children(Branch) THEN left[c[3]].version ELSE source[c]]

\* A harness is run on every task of the batch once, and its traces kept.
Observed(S) == pool \cup S

\* A failed child leaves its branch at the base.
Advanced(accepted) ==
  [g \in Branch |-> IF <<batch, rnd, g>> \in accepted THEN <<batch, rnd, g>> ELSE branches[g]]

NextRound == IF rnd < shape.rounds THEN rnd' = rnd + 1 /\ step' = "generate"
             ELSE step' = "judge" /\ UNCHANGED rnd

Generate ==
  /\ step = "generate"
  /\ \E left \in [Branch -> SessionLeaves] :
       LET offered == Children(Offered(left)) IN
       /\ source' = Rewritten(left)
       /\ parent' = [c \in Name |-> IF c \in offered THEN branches[c[3]] ELSE parent[c]]
       /\ IF MMH THEN todo' = offered /\ step' = "register" /\ UNCHANGED <<rnd, branches, pool>>
          ELSE /\ branches' = Advanced(offered)
               /\ pool' = Observed(offered)
               /\ NextRound
               /\ UNCHANGED todo
  /\ UNCHANGED <<shape, H, batch, log, idle, execution, memory, saved, patch, lastRound>>

\* Mutant of Known: a candidate is known by its name.
KnownByName(c) == memory[c].status # "absent"

\* A candidate name identifies one artifact.
Known(c) == memory[c].status # "absent" /\ memory[c].source = source[c]

Accept(c) ==
  /\ branches' = [branches EXCEPT ![c[3]] = c]
  /\ pool' = Observed({c})

\* The name is taken by another artifact, or the patch is refused: its rule is
\* there already, or its influence is too small.  The refusal is stored.
Refuse ==
  /\ step = "register"
  /\ \E c \in First(todo) :
     /\ ~Known(c)
     /\ patch' = IF memory[c].status # "absent" THEN patch
                 ELSE [patch EXCEPT ![c].status = "rejected"]
     /\ todo' = todo \ {c}
  /\ UNCHANGED <<shape, H, batch, rnd, branches, pool, step, log, idle, execution,
                 source, parent, memory, saved, lastRound>>

\* The same artifact again, in a later execution.
Recognise ==
  /\ step = "register"
  /\ \E c \in First(todo) : Known(c) /\ Accept(c) /\ todo' = todo \ {c}
  /\ UNCHANGED <<shape, H, batch, rnd, step, log, idle, execution, source, parent,
                 memory, saved, patch, lastRound>>

\* The patch is staged in the store; a row it has there is left as it is.
StagePatch ==
  /\ step = "register"
  /\ \E c \in First(todo) :
     /\ memory[c].status = "absent" /\ ~patch[c].live
     /\ patch' = IF patch[c].status # "absent" THEN patch
                 ELSE [patch EXCEPT ![c] = [NoPatch EXCEPT !.status = "pending",
                                              !.created = batch, !.live = TRUE]]
  /\ step' = "associate"
  /\ UNCHANGED <<shape, H, batch, rnd, branches, pool, todo, log, idle, execution,
                 source, parent, memory, saved, lastRound>>

\* Then the association is written to the JSON file.
Associate ==
  /\ step = "associate"
  /\ \E c \in First(todo) :
     /\ memory' = [memory EXCEPT ![c] = [status |-> "pending", source |-> source[c], seen |-> {}]]
     /\ saved' = memory'
     /\ Accept(c)
     /\ todo' = todo \ {c}
  /\ step' = "register"
  /\ UNCHANGED <<shape, H, batch, rnd, log, idle, execution, source, parent, patch, lastRound>>

EndRound ==
  /\ step = "register" /\ todo = {}
  /\ NextRound
  /\ UNCHANGED <<shape, H, batch, branches, pool, todo, log, idle, execution, source,
                 parent, memory, saved, patch, lastRound>>

-----------------------------------------------------------------------------
(* Closing a batch *)

\* The file a judge's session leaves: one name, if it is of a candidate.
JudgeLeaves == {{}} \cup {{h} : h \in pool}

\* One candidate needs no judge; a judge that fails keeps the incumbent.
Picked ==
  IF Cardinality(pool) = 1 THEN pool
  ELSE UNION {IF choice = {} THEN {H} ELSE choice : choice \in JudgeLeaves}

NextBatch == IF batch < shape.batches THEN batch' = batch + 1 /\ step' = "batch"
             ELSE step' = "end" /\ UNCHANGED batch

\* The pick carries over; it is scored by what it did on the batch, if it ran.
Judge ==
  /\ step = "judge"
  /\ \E h \in Picked :
       /\ H' = h
       /\ IF h \in pool THEN log' = Append(log, [batch |-> batch, harness |-> h]) /\ UNCHANGED idle
          ELSE idle' = idle \cup {batch} /\ UNCHANGED log
  /\ IF MMH THEN step' = "age" /\ UNCHANGED batch ELSE NextBatch
  /\ UNCHANGED <<shape, rnd, branches, pool, todo, execution, source, parent, memory,
                 saved, patch, lastRound>>

\* advance_round: rules age by the rounds since the last one, never twice.
Aged(p) == IF p.live /\ ~p.stable /\ lastRound \in 1..batch - 1
           THEN [p EXCEPT !.age = @ + batch - lastRound] ELSE p

Age ==
  /\ step = "age"
  /\ patch' = [c \in Name |-> Aged(patch[c])]
  /\ lastRound' = IF batch > lastRound THEN batch ELSE lastRound
  /\ step' = "promote"
  /\ UNCHANGED <<shape, H, batch, rnd, branches, pool, todo, log, idle, execution,
                 source, parent, memory, saved>>

Promotable(p) ==
  /\ p.live /\ p.status = "validated"
  /\ 100 * (PriorSuccess + Cardinality(p.won))
       >= ConfidencePercent * (PriorSuccess + PriorFailure + Cardinality(p.evidence))
  /\ p.age >= PromotionAge /\ Cardinality(p.won) >= PromotionAge
  /\ Cardinality(p.evidence) >= PromotionSubsets

Promote ==
  /\ step = "promote"
  /\ patch' = [c \in Name |-> IF Promotable(patch[c]) THEN [patch[c] EXCEPT !.stable = TRUE]
                              ELSE patch[c]]
  /\ NextBatch
  /\ UNCHANGED <<shape, H, rnd, branches, pool, todo, log, idle, execution, source,
                 parent, memory, saved, lastRound>>

-----------------------------------------------------------------------------
(* Starting again *)

Begin(harness, first, prefix) ==
  /\ execution < MaxExecutions /\ execution' = execution + 1
  /\ H' = harness /\ batch' = first /\ log' = prefix /\ idle' = {}
  /\ rnd' = 1 /\ branches' = <<>> /\ pool' = {} /\ todo' = {} /\ step' = "batch"
  /\ memory' = saved
  /\ UNCHANGED <<shape, saved, patch, lastRound>>

\* The process is killed, or has ended, and the loop is run again under the
\* same name; --fresh deletes the candidate files first.
Rerun ==
  /\ Begin(Seed, 1, <<>>)
  /\ source' \in {source, [c \in Name |-> 0]}
  /\ parent' = [c \in Name |-> Seed]

\* What --start-batch, --initial-harness and --prefix-results must agree on.
PrefixAccepted(prefix, first, harness) ==
  /\ Len(prefix) = first - 1
  /\ \A i \in DOMAIN prefix : prefix[i].batch = i
  /\ Last(prefix).harness = harness

\* The prefix file: records of the last execution's log, or any the operator
\* makes up, which the checks do not tell from them.
Records ==
  IF OwnPrefix THEN ToSet(log)
  ELSE [batch : 1..shape.batches, harness : {Seed} \cup Name]
PrefixFiles == SeqOf(Records, shape.batches)

\* The operator writes a prefix file and starts after it.
Resume ==
  /\ shape.loop = "sql"
  /\ \E prefix \in PrefixFiles,
        first \in 2..shape.batches, harness \in {Seed} \cup {c \in Name : source[c] # 0} :
       /\ PrefixAccepted(prefix, first, harness)
       /\ Begin(harness, first, prefix)
  /\ UNCHANGED <<source, parent>>

HarnessInit ==
  /\ shape \in Shapes
  /\ H = Seed /\ batch = 1 /\ rnd = 1 /\ branches = <<>> /\ pool = {} /\ step = "batch"
  /\ todo = {} /\ log = <<>> /\ idle = {} /\ execution = 1
  /\ source = [c \in Name |-> 0] /\ parent = [c \in Name |-> Seed]
  /\ memory = [c \in Name |-> NoAssociation] /\ saved = memory
  /\ patch = [c \in Name |-> NoPatch] /\ lastRound = 0

HarnessNext ==
  \/ StartBatch \/ ValidateOne \/ SaveState
  \/ Generate \/ Refuse \/ Recognise \/ StagePatch \/ Associate \/ EndRound
  \/ Judge \/ Age \/ Promote
  \/ Rerun \/ Resume

HarnessSpec == HarnessInit /\ [][HarnessNext]_vars

-----------------------------------------------------------------------------
(* Properties *)

\* The incumbent a candidate's branch started from.
Root ==
  LET R[c \in Name] == IF parent[c][1] = c[1] THEN R[parent[c]] ELSE parent[c] IN R

Done == IF step \in {"age", "promote", "end"} THEN batch ELSE batch - 1

(* The score is that of one run, however it was resumed: every batch that  *)
(* is done was scored once, or could not be, in order, and the harness of  *)
(* each is the one before it or a descendant made in that batch ("the      *)
(* selected H accumulates across batches", text_to_sql/optimize.py) - if   *)
(* what it is resumed from was written by a run (OwnPrefix).               *)
LogIsOneRun ==
  /\ {log[i].batch : i \in DOMAIN log} = (1..Done) \ idle
  /\ \A i \in DOMAIN log :
       LET previous == IF i = 1 THEN [batch |-> 0, harness |-> Seed] ELSE log[i - 1] IN
       /\ previous.batch < log[i].batch
       /\ \/ log[i].harness = previous.harness
          \/ log[i].harness[1] = log[i].batch /\ Root[log[i].harness] = previous.harness

(* With a memory, a candidate that was scored is one whose patch and very  *)
(* artifact the JSON file records, so later tasks will judge what was      *)
(* scored; a name an earlier execution used is not taken over ("A          *)
(* candidate name identifies one immutable artifact", mmh_adapter.py).     *)
ScoredIsRegistered ==
  MMH => \A i \in DOMAIN log :
    log[i].harness # Seed =>
      /\ saved[log[i].harness].status # "absent"
      /\ saved[log[i].harness].source = source[log[i].harness]

(* The JSON file is never ahead of the store, wherever the process died:   *)
(* a verdict it shows is the patch's, a task it remembers was counted, and *)
(* all evidence is from batches after the one that made the candidate      *)
(* ("does not judge or promote a rule on the originating batch").          *)
StateFollowsStore ==
  \A c \in Name :
    /\ saved[c].status # "absent" => patch[c].status # "absent"
    /\ saved[c].status \in {"validated", "rolled_back"} => patch[c].status = saved[c].status
    /\ saved[c].seen \subseteq patch[c].evidence
    /\ \A b \in patch[c].evidence : b > c[1]
    /\ patch[c].stable => Cardinality(patch[c].won) >= PromotionAge

(* "Evaluate frozen parent/candidate pairs" (mmh_adapter.py): while an     *)
(* association still takes evidence, its file is the one it recorded.      *)
FrozenArtifacts ==
  \A c \in Name : memory[c].status \in {"pending", "validated"} => source[c] = memory[c].source
=============================================================================
