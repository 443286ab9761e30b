------------------------------- MODULE Evolve -------------------------------
(***************************************************************************)
(* Evolution of text-to-SQL harnesses by sessions of an agent              *)
(* (text_to_sql/evolve.py), and the baseline runs that measure a harness   *)
(* (text_to_sql/react_baseline.py, livecodebench/lcb_react_baseline.py,    *)
(* ds1000/ds1000_react_baseline.py), which resume from a cache keyed by    *)
(* the digest of the harness file and, ds1000's, of the bridge it calls.   *)
(* One person runs one or the other and may edit the bridge in between;    *)
(* each may be killed, and the files stay.                                 *)
(***************************************************************************)
EXTENDS ClaudeSession

CONSTANTS
  Seed,          \* the harness that is always there
  Fitness,
  MaxIterations,
  Harness,       \* the harness the baseline runs measure
  Item,          \* the items of a baseline run
  KeepsErrors,   \* whether the runner caches an error too; lcb's does not
  KeyedByBridge, \* whether its digest covers the bridge; only ds1000's does
  MaxBridges,    \* bound on the versions of the bridge
  MaxEvolves,    \* bounds on how often each of the two is started
  MaxMeasures

ASSUME EvolveAssumption ==
  /\ Seed \in Name /\ Harness \in Name
  /\ Fitness \subseteq Nat
  /\ KeepsErrors \in BOOLEAN /\ KeyedByBridge \in BOOLEAN /\ LateWrites \in BOOLEAN

VARIABLES
  evolve,        \* the driver: where, which iteration, what is left to score, its best
  frontier,      \* frontier.json and the harness report.md is about, which a driver
                 \* that starts overwrites
  scored,        \* what the driver has scored since it started
  measure,       \* the process of a baseline run
  cache,         \* cache.json: digest, item -> record
  bridge,        \* the version of the bridge
  starts

files == <<stray, code, pending>>
evolution == <<evolve, frontier, scored>>
measuring == <<measure, cache, bridge>>
evolveVars == <<session, files, evolution, measuring, starts>>

NoBest == [name |-> "-", fitness |-> 0]
Best(n, f) == [name |-> n, fitness |-> f]
NoFrontier == [best |-> NoBest, report |-> "-"]
NoEvolve == [at |-> "idle", it |-> 0, todo |-> {}, best |-> NoBest]
E(place) == evolve.at = place

NoCode == [harness |-> 0, bridge |-> 0]
NoRecord == NoCode     \* of a record matters what it was measured on
NoMeasure == [at |-> "idle", code |-> NoCode,
              records |-> [i \in Item |-> NoRecord], loaded |-> [i \in Item |-> NoCode]]
NoCache == [state |-> "whole", records |-> [k \in {} |-> NoRecord]]
B(place) == measure.at = place

Free == E("idle") /\ B("idle")

-----------------------------------------------------------------------------
(* evolve.py                                                               *)

\* The module of a candidate is there, and what an evaluation of it may find.
Loads(n) == code[n] > 0
Evaluations(n) == {Best(n, f) : f \in Fitness}

\* The seed is scored and put on the frontier, whatever was there.
StartEvolve ==
  /\ Free
  /\ starts.evolve < MaxEvolves
  /\ starts' = [starts EXCEPT !.evolve = @ + 1]
  /\ \E e \in Evaluations(Seed) :
       /\ evolve' = [at |-> "propose", it |-> 1, todo |-> {}, best |-> e]
       /\ frontier' = [best |-> e, report |-> Seed]
       /\ scored' = {e}
  /\ UNCHANGED <<session, files, measuring>>

\* The driver is gone, and what it was told with it.
Gone == evolve' = NoEvolve /\ frontier' = NoFrontier /\ scored' = {}

\* Mutant: the list of the last iteration stays where it is.
ProposeOverOldList ==
  /\ E("propose") /\ evolve.it <= MaxIterations
  /\ evolve' = [evolve EXCEPT !.at = "session"]
  /\ session' \in {Open, Missing}
  /\ UNCHANGED <<files, frontier, scored, measuring, starts>>

\* The list of the last iteration is removed before a session begins.
Propose ==
  /\ E("propose") /\ evolve.it <= MaxIterations
  /\ evolve' = [evolve EXCEPT !.at = "session"]
  /\ pending' = NoPending
  /\ session' \in {Open, Missing}
  /\ UNCHANGED <<stray, code, frontier, scored, measuring, starts>>

EndEvolve ==
  /\ E("propose") /\ evolve.it > MaxIterations
  /\ Gone
  /\ UNCHANGED <<session, files, measuring, starts>>

NextIteration == [evolve EXCEPT !.at = "propose", !.it = @ + 1, !.todo = {}]

\* However the session ended its list counts if there is one.
Read ==
  /\ E("session") /\ S("over")
  /\ \/ /\ pending.state = "none"
        /\ evolve' = NextIteration
     \/ /\ pending.state = "whole"
        /\ evolve' = [evolve EXCEPT !.at = "score", !.todo = pending.names]
  /\ Leave(evolve.it)
  /\ UNCHANGED <<code, pending, frontier, scored, measuring, starts>>

\* A torn one does not parse, and a whole one may have an entry that is not an
\* object or has no name: either is the end of the driver.
ReadFails ==
  /\ E("session") /\ S("over")
  /\ pending.state \in {"torn", "whole"}
  /\ Gone
  /\ Leave(evolve.it)
  /\ UNCHANGED <<code, pending, measuring, starts>>

\* Only a better one is the new best, and the next session is told of it.
Improve(e) ==
  IF e.fitness > evolve.best.fitness
  THEN /\ frontier' = [best |-> e, report |-> e.name]
       /\ evolve' = [evolve EXCEPT !.todo = @ \ {e.name}, !.best = e]
  ELSE /\ evolve' = [evolve EXCEPT !.todo = @ \ {e.name}]
       /\ UNCHANGED frontier

Score ==
  /\ E("score")
  /\ \E n \in evolve.todo :
       /\ Loads(n)
       /\ \E e \in Evaluations(n) : scored' = scored \cup {e} /\ Improve(e)
  /\ UNCHANGED <<session, files, measuring, starts>>

\* The code of a candidate runs in the driver, on threads that are waited for as
\* long as it takes: one that does not return holds the driver for ever.
Hang ==
  /\ E("score")
  /\ \E n \in evolve.todo : Loads(n)
  /\ evolve' = [evolve EXCEPT !.at = "hung"]
  /\ UNCHANGED <<session, files, frontier, scored, measuring, starts>>

\* One that is missing, or does not load, or raises, is logged as invalid.
Invalid ==
  /\ E("score")
  /\ \E n \in evolve.todo : evolve' = [evolve EXCEPT !.todo = @ \ {n}]
  /\ UNCHANGED <<session, files, frontier, scored, measuring, starts>>

EndIteration ==
  /\ E("score") /\ evolve.todo = {}
  /\ evolve' = NextIteration
  /\ UNCHANGED <<session, files, frontier, scored, measuring, starts>>

\* The driver is killed, or left by a candidate's own exit; the agent of a driver
\* that is killed may go on.
EvolveDies ==
  /\ ~E("idle")
  /\ Gone
  /\ Leave(evolve.it)
  /\ UNCHANGED <<code, pending, measuring, starts>>

-----------------------------------------------------------------------------
(* The baseline runners.                                                   *)

\* Mutant: the cache knows a record by its item alone.
KeyByItem(measured, i) == i

RecordKey(measured, i) ==
  <<measured.harness, IF KeyedByBridge THEN measured.bridge ELSE 0, i>>

\* The digest is taken once; what the cache has of it is not measured again.
\* A torn cache is refused.
StartMeasure ==
  /\ Free
  /\ starts.measure < MaxMeasures
  /\ starts' = [starts EXCEPT !.measure = @ + 1]
  /\ cache.state = "whole"
  /\ Loads(Harness)
  /\ LET now == [harness |-> code[Harness], bridge |-> bridge]
     IN  measure' =
           [NoMeasure EXCEPT
              !.at = "run", !.code = now,
              !.records = [i \in Item |->
                 IF RecordKey(now, i) \in DOMAIN cache.records
                 THEN cache.records[RecordKey(now, i)] ELSE NoRecord]]
  /\ UNCHANGED <<session, files, evolution, cache, bridge>>

Unmeasured == {i \in Item : measure.records[i] = NoRecord}

\* A worker loads the harness as it is now, and runs it on the item.
SolveItem(i) ==
  /\ B("run")
  /\ i \in Unmeasured /\ measure.loaded[i] = NoCode
  /\ measure' = [measure EXCEPT
                   !.loaded[i] = [harness |-> code[Harness], bridge |-> measure.code.bridge]]
  /\ UNCHANGED <<session, files, evolution, cache, bridge, starts>>

Remember(i, record) ==
  [k \in DOMAIN cache.records \cup {RecordKey(measure.code, i)} |->
     IF k = RecordKey(measure.code, i) THEN record ELSE cache.records[k]]

\* The main thread keeps the record; writing the cache starts with an empty file.
Keep(i) ==
  /\ B("run")
  /\ measure.loaded[i] # NoCode /\ i \in Unmeasured
  /\ \E error \in BOOLEAN :
       LET record == measure.loaded[i]
           kept == ~error \/ KeepsErrors
       IN  /\ measure' = [measure EXCEPT !.records[i] = record,
                                         !.at = IF kept THEN "write" ELSE @]
           /\ cache' = IF kept THEN [state |-> "torn", records |-> Remember(i, record)]
                       ELSE cache
  /\ UNCHANGED <<session, files, evolution, bridge, starts>>

Written ==
  /\ B("write")
  /\ measure' = [measure EXCEPT !.at = "run"]
  /\ cache' = [cache EXCEPT !.state = "whole"]
  /\ UNCHANGED <<session, files, evolution, bridge, starts>>

\* result.json: the records, under the digest.
Report ==
  /\ B("run") /\ Unmeasured = {}
  /\ measure' = NoMeasure
  /\ UNCHANGED <<session, files, evolution, cache, bridge, starts>>

MeasureDies ==
  /\ ~B("idle")
  /\ measure' = NoMeasure
  /\ UNCHANGED <<session, files, evolution, cache, bridge, starts>>

\* The person edits the bridge.
EditBridge ==
  /\ Free
  /\ bridge < MaxBridges
  /\ bridge' = bridge + 1
  /\ UNCHANGED <<session, files, evolution, measure, cache, starts>>

-----------------------------------------------------------------------------
EvolveInit ==
  /\ session = NoSession /\ stray = {}
  /\ code \in {c \in [Name -> 0 .. 1] : c[Seed] = 1}
  /\ pending = NoPending
  /\ evolve = NoEvolve /\ frontier = NoFrontier /\ scored = {}
  /\ measure = NoMeasure /\ cache = NoCache
  /\ bridge = 1
  /\ starts = [evolve |-> 0, measure |-> 0]

EvolveStep ==
  Propose \/ EndEvolve \/ Read \/ ReadFails \/ Score \/ Invalid \/ EndIteration
MeasureStep == (\E i \in Item : SolveItem(i) \/ Keep(i)) \/ Written \/ Report

InSession(step) == step /\ UNCHANGED <<evolution, measuring, starts>>
SessionCaller == InSession(CallStep)
Reader == InSession(Enqueue)
Clock == InSession(TimePasses)
Agent == InSession(AgentStep(evolve.it, Name \ {Seed}))

EvolveNext ==
  \/ StartEvolve \/ EvolveStep \/ Hang \/ EvolveDies
  \/ StartMeasure \/ MeasureStep \/ MeasureDies \/ EditBridge
  \/ SessionCaller \/ Reader \/ Clock \/ Agent

\* Both programs are loops, the reader is a thread, and time passes.  Nothing is
\* asked of the agent, its commands or the person, nor of the code of a candidate,
\* which may hang instead of being scored.
Fairness ==
  /\ WF_evolveVars(EvolveStep) /\ WF_evolveVars(MeasureStep)
  /\ WF_evolveVars(SessionCaller) /\ WF_evolveVars(Reader) /\ WF_evolveVars(Clock)

EvolveSpec == EvolveInit /\ [][EvolveNext]_evolveVars /\ Fairness

-----------------------------------------------------------------------------
(* Properties.                                                             *)

\* What a session is shown as the best harness is the best the driver has scored,
\* and the report is about it (frontier.json, report.md).
FrontierTrue ==
  ~E("idle") =>
    /\ frontier.best = evolve.best /\ frontier.report = frontier.best.name
    /\ frontier.best \in scored
    /\ \A e \in scored : e.fitness <= frontier.best.fitness

\* The list an iteration scores was written by its own session.  What an earlier
\* session left running may break this.
OwnProposals == E("score") => pending.by = evolve.it

\* The frontier is earned: the best of candidates that were proposed for it.
FrontierEarned == FrontierTrue /\ OwnProposals

\* A session that ended by itself is logged with every file it told of.  A line
\* that comes between an empty queue and the poll breaks this.
LogComplete ==
  (S("over") /\ session.exit = "own") =>
    Logged.files = FilesWritten(session.lines)

\* Every record a baseline reports was measured on the harness its digest names
\* and on the bridge of the day, though runs are killed and resumed and files are
\* edited in between.  It does not hold of runners whose digest leaves out the bridge.
ReportHonest ==
  (B("run") /\ Unmeasured = {}) =>
    \A i \in Item : measure.records[i] = measure.code

\* An evolution ends, unless the code of a candidate does not return: a session
\* that hangs is killed, and a command that keeps its output open is not waited for.
EvolutionEnds == E("propose") ~> (E("idle") \/ E("hung"))
=============================================================================
