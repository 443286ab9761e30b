-------------------------- MODULE OnlineValidation --------------------------
(***************************************************************************)
(* One validation pass of the online memory: the shim reserves one unit    *)
(* for every live application (legacy_shim.py:197-261), the adapter        *)
(* compares the frozen parent and candidate of each on one public task,    *)
(* reusing cached comparisons, and commits what the pass cost              *)
(* (adapter.py:213-378).  Only the adapter's call is inside the shim's     *)
(* try: what raises before it leaves the reservation open.  Each cache     *)
(* write, evidence record and ledger call is a transaction of its own      *)
(* database, hence a step of its own, and the process may raise or die     *)
(* between any two of them.  The next pass, of a new process or of the     *)
(* same, finds what they wrote.                                            *)
(*                                                                         *)
(* Abstracted: which later task validates which batch (any task, any       *)
(* order), the order of the applications, the status computation of        *)
(* record_evidence (a decisive observation may make its application        *)
(* harmful), and the two evaluations of a pair, which are one call.        *)
(***************************************************************************)
EXTENDS BudgetLedger

CONSTANTS
  Application,  \* registered applications, all of an earlier batch
  Pair,         \* artifact hashes of a parent and a candidate
  PairOf,       \* the pair of each application; several may share one
  Task,         \* public tasks
  Untested,     \* tasks without public tests
  Costs,        \* what an evaluated pair may cost, after the default
  MayRaise,     \* a database or a malformed result may raise during a pass
  MayDie        \* the process may die during a pass

Validation == "memory_validation"

ASSUME ValidationAssumption ==
  /\ IsFiniteSet(Application)
  /\ PairOf \in [Application -> Pair]
  /\ Untested \subseteq Task
  /\ Costs \subseteq Nat
  /\ Validation \in MemoryCategory
  /\ {MayRaise, MayDie} \subseteq BOOLEAN

VARIABLES
  cache,     \* table observation_cache: key -> "sound", "broken" or "none"
  observed,  \* table online_evidence: application, task -> kind and cost, or None
  live,      \* applications pending, supported or deferred
  pass       \* the pass each client is in, or None

vars == <<entries, allocation, known, cache, observed, live, pass>>
passVars == <<cache, observed, live, pass>>

Key == Pair \X Task
KeyOf(a, t) == <<PairOf[a], t>>

Observation ==
  [kind : {"fresh", "cached", "neutral"}, cost : Nat]

\* A comparison that ran and is cached but not yet recorded as evidence.
Result == [app : Application, sound : BOOLEAN, cost : Nat]

Pass ==
  [task : Task, todo : SUBSET Application, reservation : Entry, estimate : Nat,
   cost : Nat, result : Result \cup {None}, guarded : BOOLEAN]

ASSUME PassAssumption == None \notin Pass

Init ==
  /\ LedgerInit
  /\ cache = [k \in Key |-> "none"]
  /\ observed = [a \in Application |-> [t \in Task |-> None]]
  /\ live = Application
  /\ pass = [c \in Client |-> None]

\* Between two applications of the pass.
Visiting(c, a) ==
  /\ pass[c] # None /\ pass[c].guarded
  /\ pass[c].result = None
  /\ a \in pass[c].todo

Leave(c, a) == [pass EXCEPT ![c].todo = @ \ {a}]

\* INSERT OR IGNORE on (application, task, tests, configuration).
Observe(a, t, kind, cost) ==
  observed' = IF observed[a][t] = None
              THEN [observed EXCEPT ![a][t] = [kind |-> kind, cost |-> cost]]
              ELSE observed

\* cache.get and cache.put.
Lookup(k) == cache[k]
Store(k, sound) == cache' = [cache EXCEPT ![k] = IF sound THEN "sound" ELSE "broken"]

-----------------------------------------------------------------------------
(* The pass *)

\* legacy_shim.validate_pending: nothing is compared without a reservation.
Begin(c, t, e) ==
  /\ pass[c] = None /\ allocation[c] # None
  /\ live # {}
  /\ Reserve(c, Validation, Cardinality(live), e)
  /\ pass' = [pass EXCEPT ![c] =
       [task |-> t, todo |-> live, reservation |-> e,
        estimate |-> Cardinality(live), cost |-> 0, result |-> None, guarded |-> FALSE]]
  /\ UNCHANGED <<cache, observed, live>>

\* The hashes the applications were frozen with are read, and the try begins.
Prepare(c) ==
  /\ pass[c] # None /\ ~pass[c].guarded
  /\ pass' = [pass EXCEPT ![c].guarded = TRUE]
  /\ UNCHANGED <<cache, observed, live, ledgerVars>>

\* Reading them raises: nothing releases the reservation.
PrepareRaises(c) ==
  /\ MayRaise
  /\ pass[c] # None /\ ~pass[c].guarded
  /\ pass' = [pass EXCEPT ![c] = None]
  /\ UNCHANGED <<cache, observed, live, ledgerVars>>

\* Faulty: an application that cannot be compared now is kept for later.
SkipLater(c, a) ==
  /\ Visiting(c, a)
  /\ UNCHANGED vars

\* Seen on this task before, or of unknown applicability, or (without public
\* tests) not pending: nothing is written.
Skip(c, a) ==
  /\ Visiting(c, a)
  /\ pass' = Leave(c, a)
  /\ UNCHANGED <<cache, observed, live, ledgerVars>>

\* Inapplicable, mutated artifacts, a failed executor or no public tests.
Neutral(c, a) ==
  /\ Visiting(c, a)
  /\ observed[a][pass[c].task] = None \/ pass[c].task \in Untested
  /\ Observe(a, pass[c].task, "neutral", 0)
  /\ pass' = Leave(c, a)
  /\ UNCHANGED <<cache, live, ledgerVars>>

\* The cache has the pair on this task: not fresh evidence, and free.
Hit(c, a) ==
  /\ Visiting(c, a)
  /\ LET t == pass[c].task  value == Lookup(KeyOf(a, t))
     IN /\ t \notin Untested
        /\ observed[a][t] = None
        /\ value # "none"
        /\ Observe(a, t, IF value = "sound" THEN "cached" ELSE "neutral", 0)
  /\ pass' = Leave(c, a)
  /\ UNCHANGED <<cache, live, ledgerVars>>

\* Faulty: the comparison is recorded and never cached.
EvaluateUncached(c, a) ==
  /\ Visiting(c, a)
  /\ LET t == pass[c].task
     IN /\ t \notin Untested
        /\ observed[a][t] = None
        /\ Lookup(KeyOf(a, t)) = "none"
        /\ \E sound \in BOOLEAN, n \in Costs :
             pass' = [pass EXCEPT ![c].result = [app |-> a, sound |-> sound, cost |-> n]]
  /\ UNCHANGED <<cache, observed, live, ledgerVars>>

\* A miss: both harnesses run and their results are cached, sound or broken.
Evaluate(c, a) ==
  /\ Visiting(c, a)
  /\ LET t == pass[c].task
     IN /\ t \notin Untested
        /\ observed[a][t] = None
        /\ Lookup(KeyOf(a, t)) = "none"
        /\ \E sound \in BOOLEAN, n \in Costs :
             /\ pass' = [pass EXCEPT ![c].result = [app |-> a, sound |-> sound, cost |-> n]]
             /\ Store(KeyOf(a, t), sound)
  /\ UNCHANGED <<observed, live, ledgerVars>>

\* Faulty: only the last comparison is charged.
RecordLastCost(c) ==
  /\ pass[c] # None /\ pass[c].result # None
  /\ LET r == pass[c].result
     IN /\ Observe(r.app, pass[c].task,
                   IF r.sound THEN "fresh" ELSE "neutral", IF r.sound THEN r.cost ELSE 0)
        /\ pass' = [pass EXCEPT ![c].todo = @ \ {r.app}, ![c].result = None,
                                ![c].cost = IF r.sound THEN r.cost ELSE 0]
  /\ UNCHANGED <<cache, live, ledgerVars>>

\* record_evidence of a comparison that ran now; a broken one is neutral and
\* free.  A regression may resolve the application as harmful.
Record(c) ==
  /\ pass[c] # None /\ pass[c].result # None
  /\ LET r == pass[c].result
         charge == IF r.sound THEN r.cost ELSE 0
     IN /\ Observe(r.app, pass[c].task, IF r.sound THEN "fresh" ELSE "neutral", charge)
        /\ pass' = [pass EXCEPT ![c].todo = @ \ {r.app}, ![c].result = None,
                                ![c].cost = @ + charge]
        /\ live' \in IF r.sound THEN {live, live \ {r.app}} ELSE {live}
  /\ UNCHANGED <<cache, ledgerVars>>

\* Faulty: a pass that cost nothing leaves its reservation alone.
FinishCharged(c) ==
  /\ pass[c] # None /\ pass[c].result = None /\ pass[c].todo = {}
  /\ pass[c].task \notin Untested
  /\ IF pass[c].cost = 0
     THEN UNCHANGED ledgerVars
     ELSE Commit(c, pass[c].reservation, Min({pass[c].cost, pass[c].estimate}))
  /\ pass' = [pass EXCEPT ![c] = None]
  /\ UNCHANGED <<cache, observed, live>>

\* ledger.commit(reservation_id, min(total_cost, cost_estimate))
Finish(c) ==
  /\ pass[c] # None /\ pass[c].result = None /\ pass[c].todo = {}
  /\ pass[c].task \notin Untested
  /\ Commit(c, pass[c].reservation, Min({pass[c].cost, pass[c].estimate}))
  /\ pass' = [pass EXCEPT ![c] = None]
  /\ UNCHANGED <<cache, observed, live>>

\* A task without public tests: the adapter returns before it would commit.
FinishUntested(c) ==
  /\ pass[c] # None /\ pass[c].todo = {}
  /\ pass[c].task \in Untested
  /\ pass' = [pass EXCEPT ![c] = None]
  /\ UNCHANGED <<cache, observed, live, ledgerVars>>

\* An exception leaves the adapter: the shim releases the reservation.
Raise(c) ==
  /\ MayRaise
  /\ pass[c] # None /\ pass[c].guarded
  /\ Release(c, pass[c].reservation)
  /\ pass' = [pass EXCEPT ![c] = None]
  /\ UNCHANGED <<cache, observed, live>>

\* The process dies, and what it held in memory with it.
Die(c) ==
  /\ MayDie
  /\ Close(c)
  /\ pass' = [pass EXCEPT ![c] = None]
  /\ UNCHANGED <<cache, observed, live>>

\* A process opens the ledger, for the first time or again.
Start(c) == \E m \in Allocations : Open(c, m) /\ UNCHANGED passVars

\* The steps a pass takes by itself.
Advance(c) ==
  \/ \E a \in Application : Skip(c, a) \/ Neutral(c, a) \/ Hit(c, a) \/ Evaluate(c, a)
  \/ Prepare(c) \/ Record(c) \/ Finish(c) \/ FinishUntested(c)

Next ==
  \E c \in Client :
    \/ Start(c)
    \/ \E t \in Task, e \in Entry : Begin(c, t, e)
    \/ Advance(c)
    \/ PrepareRaises(c) \/ Raise(c)
    \/ Die(c)

Spec == Init /\ [][Next]_vars

\* The pass is a sequential loop over finitely many applications whose
\* executor calls return; nothing makes anyone begin one.
FairSpec == Spec /\ \A c \in Client : WF_vars(Advance(c))

-----------------------------------------------------------------------------
(* Properties *)

\* The cache, the evidence log and the pass in memory are well formed.
ValidationTypeOK ==
  /\ cache \in [Key -> {"sound", "broken", "none"}]
  /\ observed \in [Application -> [Task -> Observation \cup {None}]]
  /\ live \in SUBSET Application
  /\ pass \in [Client -> Pass \cup {None}]

Fresh(a, t) == observed[a][t] # None /\ observed[a][t].kind = "fresh"
Cached(a, t) == observed[a][t] # None /\ observed[a][t].kind = "cached"

\* A comparison shared by several applications, repeated on the same task or
\* replayed after a restart gives fresh, charged evidence at most once
\* (docs/MMH_TTHE_HANDOFF.md:157, adapter.py:339-342).
FreshOnce ==
  \A a, b \in Application, t \in Task :
    Fresh(a, t) /\ Fresh(b, t) /\ PairOf[a] = PairOf[b] => a = b

\* The comparison is stored, and no application has it as fresh evidence.
Untold(a, t) ==
  /\ cache[KeyOf(a, t)] # "none"
  /\ \A b \in Application : PairOf[b] = PairOf[a] => ~Fresh(b, t)

\* What keeps FreshOnce with one validating process: fresh evidence is always
\* cached, and a comparison waiting to be recorded is cached and told nobody.
FreshInv ==
  /\ FreshOnce
  /\ \A a \in Application, t \in Task : Fresh(a, t) => cache[KeyOf(a, t)] # "none"
  /\ \A c \in Client :
       pass[c] # None /\ pass[c].result # None
         => Untold(pass[c].result.app, pass[c].task)

\* A comparison that ran to a verdict is fresh evidence for one application:
\* whoever finds it in the cache, somebody was told (README.md:103-117).
ComparisonCounts ==
  \A a \in Application, t \in Task :
    Cached(a, t) => \E b \in Application : PairOf[b] = PairOf[a] /\ Fresh(b, t)

costs ==
  [o \in Application \X Task |->
     IF observed[o[1]][o[2]] = None THEN 0 ELSE observed[o[1]][o[2]].cost]

EvidenceCost ==
  SumFunctionOnSet(costs, {o \in Application \X Task : observed[o[1]][o[2]] # None})

\* The ledger accounts for every cost the evidence log reports: spent, or
\* still held for the pass that reported it (budget.py:3-6).
EveryCostCovered == EvidenceCost <= SumFor(Counted, {Validation})

\* So it does over any number of deaths, until a pass fails and is released.
CostsCovered == RowsOf({"released"}, Category) = {} => EveryCostCovered

Reserved(e) == entries[e] # None /\ entries[e].status = "reserved"

\* The pass over a task that has tests ends, and its process lives on.
PassOver(c, e) ==
  /\ pass[c] # None /\ pass'[c] = None
  /\ allocation'[c] # None
  /\ pass[c].task \notin Untested
  /\ pass[c].reservation = e

\* Whatever raises once the adapter has been called, such a pass ends with its
\* reservation closed: unused allocation is free again
\* (docs/MMH_TTHE_HANDOFF.md:149, legacy_shim.py:252-261).
PassReturnsHeld ==
  [][\A c \in Client, e \in Entry :
       PassOver(c, e) /\ pass[c].guarded => ~Reserved(e)']_vars

\* It does not hold of every pass: between reserve and try the shim reads the
\* applications, and what raises there leaves the reservation open.
EveryPassReturnsHeld ==
  [][\A c \in Client, e \in Entry : PassOver(c, e) => ~Reserved(e)']_vars

Holding(e) == \E c \in Client : pass[c] # None /\ pass[c].reservation = e

\* Every pass ends, so nothing is held by a living process for ever.
PassesEnd == \A e \in Entry : Holding(e) ~> ~Holding(e)
=============================================================================
