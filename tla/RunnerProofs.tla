---------------------------- MODULE RunnerProofs ----------------------------
(***************************************************************************)
(* Safety of the runners that leave the work to other processes.           *)
(*                                                                         *)
(* SweSolve, for every size of batch and pool, and whatever times out,     *)
(* raises or is killed: a solve starves only behind solves that were given *)
(* up, one that answered leaves no container, and a verdict is that of its *)
(* own patch unless the evaluation was silent or was asked twice.          *)
(*                                                                         *)
(* Evolve, for all names, items, fitnesses and bounds: the frontier of an  *)
(* evolution is earned and a baseline run reports what it measured.  Both  *)
(* assume that no session leaves a writer behind (LateWrites); the second, *)
(* that the digest covers the bridge (KeyedByBridge).                      *)
(***************************************************************************)
EXTENDS SweSolve, Evolve, FiniteSetTheorems, SequenceTheorems, TLAPS

-----------------------------------------------------------------------------
(* Threads, callers and containers *)

SolveRecord ==
  [thread : {"none", "queued", "ready", "starting", "ended"},
   caller : {"none", "waiting", "timed_out", "answered"},
   env : Nat, made : Nat]

TypeOK ==
  /\ program \in {"optimize", "bare"}
  /\ observing \in 1..Observations
  /\ solve \in [Solve -> SolveRecord]
  /\ queue \in Seq(Solve)
  /\ up \subseteq Solve \X (Nat \ {0})

\* The two sides of a solve: it has a thread when it has a caller, and an answer
\* when its thread is over.
SidesAgree ==
  \A j \in Solve :
    /\ solve[j].caller = "none" <=> solve[j].thread = "none"
    /\ solve[j].caller = "answered" => solve[j].thread = "ended"

\* While its caller waits, a solve has at most the container it knows of, and none
\* while it starts one.
ContainersKnown ==
  \A j \in Solve :
    /\ solve[j].caller = "waiting" => \A n \in Nat : <<j, n>> \in up => n = solve[j].env
    /\ solve[j].caller = "waiting" /\ solve[j].thread = "starting" => solve[j].env = 0
    /\ solve[j].caller = "none" => \A n \in Nat : <<j, n>> \notin up
    /\ program = "optimize" /\ solve[j].caller = "answered" => \A n \in Nat : <<j, n>> \notin up

\* The queue holds exactly the solves that are queued, each once.
QueueHolds ==
  /\ \A k \in 1..Len(queue) : solve[queue[k]].thread = "queued"
  /\ \A k, m \in 1..Len(queue) : queue[k] = queue[m] => k = m
  /\ \A j \in Solve : solve[j].thread = "queued" => \E k \in 1..Len(queue) : queue[k] = j
  /\ program = "bare" => queue = <<>>

\* Between harnesses, and when an execution is over, nothing is solved.
Cleared ==
  step # "observe" =>
    /\ solve = [j \in Solve |-> NewSolve]
    /\ queue = <<>> /\ up = {}

\* The solves ahead of the k-th of the queue: those that run, and those before it.
Ahead(k) == Running \cup {queue[m] : m \in 1..(k - 1)}

\* The pool is full while a solve is queued; no more callers wait than there are
\* slots, and ahead of a queued solve that was given up one fewer.
PoolFull == queue # <<>> => Cardinality(Running) >= Pool
SlotsKept == Cardinality(Waiting) <= Parallel
SlotLost ==
  \A k \in 1..Len(queue) :
    queue[k] \in GivenUp => Cardinality(Waiting \cap Ahead(k)) < Parallel

SolveInv ==
  /\ TypeOK /\ SidesAgree /\ ContainersKnown /\ QueueHolds /\ Cleared
  /\ PoolFull /\ SlotsKept /\ SlotLost

\* The sizes are numbers.
LEMMA Sizes ==
  /\ Batch \in Nat /\ Parallel \in Nat /\ Pool \in Nat /\ Observations \in Nat
  /\ Containers \in Nat /\ Parallel <= Pool /\ 1 \in 1..Observations
<1>1. /\ Batch \in Nat /\ Parallel \in Nat /\ Pool \in Nat /\ Observations \in Nat
      /\ Containers \in Nat
  BY SweAssumption
<1>2. Observations >= 1 /\ Parallel <= Pool
  BY SweAssumption
<1> QED
  BY <1>1, <1>2

\* There are finitely many solves.
LEMMA SolvesFinite ==
  /\ IsFiniteSet(Solve)
  /\ \A K \in SUBSET Solve : IsFiniteSet(K) /\ Cardinality(K) \in Nat
<1>1. IsFiniteSet(1..Observations) /\ IsFiniteSet(1..Batch)
  BY Sizes, FS_Interval
<1>2. IsFiniteSet(Solve)
  BY <1>1, FS_Product DEF Solve, Instances
<1> QED
  BY <1>2, FS_Subset, FS_CardinalityType

\* The solves that run, that are waited for and that were given up are solves.
LEMMA SetsOfSolves ==
  /\ Running \subseteq Solve /\ Waiting \subseteq Solve /\ GivenUp \subseteq Solve
BY DEF Running, Waiting, GivenUp

\* What the invariant says of solves that starve and of containers.
LEMMA SolveInvImplies == SolveInv => StarvedBehindGivenUp /\ AnsweredAreTornDown
<1> SUFFICES ASSUME SolveInv  PROVE StarvedBehindGivenUp /\ AnsweredAreTornDown
  OBVIOUS
<1>1. StarvedBehindGivenUp
  <2> SUFFICES ASSUME NEW j \in GivenUp, solve[j].thread = "queued"
               PROVE  Cardinality(GivenUp \cap Running) > Pool - Parallel
    BY DEF StarvedBehindGivenUp
  <2>1. PICK k \in 1..Len(queue) : queue[k] = j
    BY SetsOfSolves DEF SolveInv, QueueHolds
  <2>2. queue # <<>>
    BY <2>1 DEF SolveInv, TypeOK
  <2> DEFINE W == Waiting \cap Running
             G == GivenUp \cap Running
  <2>3. /\ IsFiniteSet(Running) /\ IsFiniteSet(W) /\ IsFiniteSet(G)
        /\ IsFiniteSet(Waiting \cap Ahead(k))
        /\ Cardinality(Running) \in Nat /\ Cardinality(W) \in Nat /\ Cardinality(G) \in Nat
        /\ Cardinality(Waiting \cap Ahead(k)) \in Nat
    BY SolvesFinite, SetsOfSolves
  <2>4. Cardinality(W) <= Cardinality(Waiting \cap Ahead(k))
    BY <2>3, FS_Subset DEF Ahead
  <2>5. Cardinality(W) < Parallel
    <3>1. Cardinality(Waiting \cap Ahead(k)) < Parallel
      BY <2>1 DEF SolveInv, SlotLost
    <3> QED
      BY <2>3, <2>4, <3>1, Sizes
  <2>6. Running = W \cup G
    BY DEF SolveInv, TypeOK, SidesAgree, SolveRecord, Running, Waiting, GivenUp
  <2>7. Cardinality(Running) <= Cardinality(W) + Cardinality(G)
    <3>1. /\ Cardinality(W \cup G) = Cardinality(W) + Cardinality(G) - Cardinality(W \cap G)
          /\ Cardinality(W \cap G) \in Nat
      BY <2>3, FS_Union, FS_Intersection, FS_CardinalityType
    <3> HIDE DEF W, G
    <3> QED
      BY <2>3, <2>6, <3>1
  <2>8. Cardinality(Running) >= Pool
    BY <2>2 DEF SolveInv, PoolFull
  <2> HIDE DEF W
  <2> QED
    BY <2>3, <2>5, <2>7, <2>8, Sizes
<1>2. AnsweredAreTornDown
  BY DEF SolveInv, TypeOK, ContainersKnown, AnsweredAreTornDown, SolveRecord
<1> QED
  BY <1>1, <1>2

\* One more solve in a set of them.
LEMMA OneMore ==
  ASSUME NEW K \in SUBSET Solve, NEW j \in Solve, j \notin K
  PROVE  Cardinality(K \cup {j}) = Cardinality(K) + 1
BY SolvesFinite, FS_AddElement

\* A smaller set has no more solves.
LEMMA NoMore ==
  ASSUME NEW K \in SUBSET Solve, NEW T \in SUBSET K
  PROVE  Cardinality(T) <= Cardinality(K)
BY SolvesFinite, FS_Subset

\* A solve that is submitted runs, or queues up behind all that are queued.
LEMMA SubmitKeeps ==
  ASSUME SolveInv, Submit
  PROVE  SolveInv'
<1> USE DEF SolveInv
<1>1. PICK i \in Instances :
        LET j == <<observing, i>> IN
        /\ solve[j].caller = "none"
        /\ IF program = "bare" \/ Cardinality(Running) < Pool
           THEN /\ solve' = [solve EXCEPT ![j].caller = "waiting", ![j].thread = "ready"]
                /\ UNCHANGED queue
           ELSE /\ solve' = [solve EXCEPT ![j].caller = "waiting", ![j].thread = "queued"]
                /\ queue' = Append(queue, j)
  BY DEF Submit
<1> DEFINE j == <<observing, i>>
           r == solve[j]
<1>2. j \in Solve /\ r \in SolveRecord /\ r.caller = "none" /\ r.thread = "none"
  BY <1>1 DEF TypeOK, Solve, SidesAgree
<1>3. /\ step = "observe" /\ UNCHANGED <<program, step, observing, up>>
      /\ Cardinality(Waiting) < Parallel
  BY DEF Submit, Slots, runVars
<1>4. PICK thread \in {"ready", "queued"} :
        /\ solve' = [solve EXCEPT ![j].caller = "waiting", ![j].thread = thread]
        /\ thread = "ready" =>
             queue' = queue /\ (program = "bare" \/ Cardinality(Running) < Pool)
        /\ thread = "queued" =>
             /\ queue' = Append(queue, j)
             /\ program = "optimize" /\ ~(Cardinality(Running) < Pool)
  BY <1>1 DEF TypeOK
<1> HIDE DEF j
<1> DEFINE s == [r EXCEPT !.caller = "waiting", !.thread = thread]
<1>5. s \in SolveRecord /\ s.caller = "waiting" /\ s.thread = thread /\ s.env = r.env
  BY <1>2 DEF SolveRecord
<1>6. solve' = [solve EXCEPT ![j] = s]
  BY <1>2, <1>4 DEF TypeOK
<1> HIDE DEF s, r
<1>7. solve' \in [Solve -> SolveRecord] /\ solve'[j] = s
      /\ \A k \in Solve \ {j} : solve'[k] = solve[k]
  BY <1>2, <1>5, <1>6 DEF TypeOK
<1>8. /\ Waiting' = Waiting \cup {j} /\ GivenUp' = GivenUp
      /\ Running' = IF thread = "ready" THEN Running \cup {j} ELSE Running
      /\ j \notin Waiting /\ j \notin Running /\ j \notin GivenUp
  BY <1>2, <1>5, <1>7 DEF Running, Waiting, GivenUp, r
<1>9. queue \in Seq(Solve) /\ \A k \in 1..Len(queue) : queue[k] \in Solve \ {j}
  BY <1>2 DEF TypeOK, QueueHolds, r
<1>10. TypeOK'
  <2>1. queue' \in Seq(Solve)
    <3>1. CASE thread = "ready"
      BY <1>4, <1>9, <3>1
    <3>2. CASE thread = "queued"
      <4>1. Append(queue, j) \in Seq(Solve)
        BY <1>2, <1>9, AppendProperties
      <4> QED
        BY <1>4, <3>2, <4>1
    <3> QED
      BY <3>1, <3>2
  <2> QED
    BY <1>3, <1>7, <2>1 DEF TypeOK
<1>11. SidesAgree' /\ ContainersKnown' /\ Cleared'
  BY <1>2, <1>3, <1>5, <1>7 DEF SidesAgree, ContainersKnown, Cleared, TypeOK, r
<1>12. SlotsKept'
  BY <1>2, <1>3, <1>8, OneMore, SetsOfSolves, SolvesFinite, Sizes DEF SlotsKept
<1>13. CASE thread = "ready"
  <2>1. queue = <<>> /\ queue' = <<>>
    BY <1>4, <1>13, SolvesFinite, SetsOfSolves, Sizes DEF PoolFull, QueueHolds
  <2>2. Len(queue') = 0
    BY <2>1
  <2>3. QueueHolds'
    <3>1. \A k \in Solve : solve[k].thread # "queued"
      BY <2>1 DEF QueueHolds
    <3>2. \A k \in Solve : solve'[k].thread # "queued"
      BY <1>5, <1>7, <1>13, <3>1
    <3> QED
      BY <2>1, <2>2, <3>2 DEF QueueHolds
  <2> QED
    BY <1>10, <1>11, <1>12, <2>1, <2>2, <2>3 DEF PoolFull, SlotLost
<1>14. CASE thread = "queued"
  <2>1. /\ queue' = Append(queue, j) /\ program' = "optimize"
        /\ Len(queue') = Len(queue) + 1 /\ Len(queue) \in Nat
        /\ queue'[Len(queue) + 1] = j
        /\ \A k \in 1..Len(queue) : queue'[k] = queue[k]
    BY <1>3, <1>4, <1>9, <1>2, <1>14
  <2>2. QueueHolds'
    <3>1. \A k \in 1..Len(queue') : solve'[queue'[k]].thread = "queued"
      BY <1>5, <1>7, <1>9, <1>14, <2>1 DEF QueueHolds
    <3>2. \A k, m \in 1..Len(queue') : queue'[k] = queue'[m] => k = m
      BY <1>9, <2>1 DEF QueueHolds
    <3>3. \A x \in Solve : solve'[x].thread = "queued" => \E k \in 1..Len(queue') : queue'[k] = x
      BY <1>7, <2>1 DEF QueueHolds
    <3> QED
      BY <2>1, <3>1, <3>2, <3>3 DEF QueueHolds
  <2>3. PoolFull'
    <3>1. Cardinality(Running) >= Pool
      BY <1>4, <1>14, SolvesFinite, SetsOfSolves, Sizes
    <3> QED
      BY <1>8, <1>14, <3>1 DEF PoolFull
  <2>4. SlotLost'
    <3> SUFFICES ASSUME NEW k \in 1..Len(queue'), queue'[k] \in GivenUp'
                 PROVE  Cardinality(Waiting' \cap Ahead(k)') < Parallel
      BY DEF SlotLost
    <3>1. k \in 1..Len(queue) /\ queue'[k] = queue[k]
      BY <1>8, <2>1
    <3>2. Waiting' \cap Ahead(k)' = Waiting \cap Ahead(k)
      BY <1>8, <1>9, <1>14, <2>1, <3>1 DEF Ahead
    <3> QED
      BY <1>8, <3>1, <3>2 DEF SlotLost
  <2> QED
    BY <1>10, <1>11, <1>12, <2>2, <2>3, <2>4
<1> QED
  BY <1>13, <1>14

\* Where nothing has been solved there is nothing to starve or to tear down.
NothingYet ==
  /\ program \in {"optimize", "bare"} /\ observing \in 1..Observations
  /\ solve = [j \in Solve |-> NewSolve] /\ queue = <<>> /\ up = {}

LEMMA NothingYetKeeps == NothingYet => SolveInv
<1> SUFFICES ASSUME NothingYet  PROVE SolveInv
  OBVIOUS
<1>1. NewSolve \in SolveRecord /\ NewSolve.thread = "none" /\ NewSolve.caller = "none"
  BY DEF NewSolve, SolveRecord
<1>2. solve \in [Solve -> SolveRecord] /\ \A j \in Solve : solve[j] = NewSolve
  BY <1>1 DEF NothingYet
<1>3. queue = <<>> /\ queue \in Seq(Solve) /\ Len(queue) = 0
  BY DEF NothingYet
<1>4. TypeOK /\ Cleared
  BY <1>2, <1>3 DEF NothingYet, TypeOK, Cleared
<1>5. SidesAgree /\ ContainersKnown
  BY <1>1, <1>2 DEF NothingYet, SidesAgree, ContainersKnown
<1>6. QueueHolds /\ PoolFull /\ SlotLost
  BY <1>1, <1>2, <1>3 DEF QueueHolds, PoolFull, SlotLost
<1>7. SlotsKept
  <2>1. Waiting = {}
    BY <1>1, <1>2 DEF Waiting
  <2> QED
    BY <2>1, FS_EmptySet, Sizes DEF SlotsKept
<1> QED
  BY <1>4, <1>5, <1>6, <1>7 DEF SolveInv

\* The steps that leave no solve: the end of an observation, a kill, and all that
\* follows until another execution starts.
LEMMA ClearedKeeps ==
  ASSUME SolveInv, program' \in {"optimize", "bare"},
         NothingSolved \/ (step # "observe" /\ UNCHANGED solveVars)
  PROVE  SolveInv'
<1>1. NothingYet'
  <2>1. CASE NothingSolved
    BY <2>1, Sizes DEF NothingSolved, NothingYet
  <2>2. CASE step # "observe" /\ UNCHANGED solveVars
    BY <2>2 DEF SolveInv, TypeOK, Cleared, solveVars, NothingYet
  <2> QED
    BY <2>1, <2>2
<1> QED
  BY <1>1, NothingYetKeeps, PTL

\* A harness that starts a container, and has it.
LEMMA ContainerKeeps ==
  ASSUME SolveInv, NEW j \in Solve, NeedsRepo(j) \/ ContainerUp(j)
  PROVE  SolveInv'
<1> USE DEF SolveInv
<1> DEFINE r == solve[j]
<1>1. r \in SolveRecord /\ UNCHANGED <<program, step, observing, queue>>
  BY DEF TypeOK, NeedsRepo, ContainerUp, runVars
<1>2. PICK s \in SolveRecord :
        /\ solve' = [solve EXCEPT ![j] = s]
        /\ s.caller = r.caller
        /\ \/ /\ r.thread = "ready" /\ s.thread = "starting" /\ r.env = 0 /\ s.env = 0
              /\ up' = up
           \/ /\ r.thread = "starting" /\ s.thread = "ready" /\ s.env # 0
              /\ up' = up \cup {<<j, s.env>>}
  <2>1. CASE NeedsRepo(j)
    <3> DEFINE s == [r EXCEPT !.thread = "starting"]
    <3>1. /\ s \in SolveRecord /\ s.caller = r.caller /\ s.thread = "starting" /\ s.env = r.env
      BY <1>1 DEF SolveRecord
    <3>2. solve' = [solve EXCEPT ![j] = s] /\ r.thread = "ready" /\ r.env = 0 /\ up' = up
      BY <2>1 DEF NeedsRepo, TypeOK
    <3> QED
      BY <3>1, <3>2
  <2>2. CASE ContainerUp(j)
    <3> DEFINE n == r.made + 1
               s == [r EXCEPT !.thread = "ready", !.env = n, !.made = n]
    <3>1. n \in Nat \ {0}
      BY <1>1 DEF SolveRecord
    <3>2. /\ solve' = [solve EXCEPT ![j] = s] /\ r.thread = "starting"
          /\ up' = up \cup {<<j, n>>}
      BY <2>2 DEF ContainerUp, TypeOK
    <3> HIDE DEF n
    <3>3. s \in SolveRecord /\ s.caller = r.caller /\ s.thread = "ready" /\ s.env = n
      BY <1>1, <3>1 DEF SolveRecord
    <3> QED
      BY <3>1, <3>2, <3>3
  <2> QED
    BY <2>1, <2>2
<1> HIDE DEF r
<1>3. /\ solve' \in [Solve -> SolveRecord] /\ solve'[j] = s
      /\ \A k \in Solve \ {j} : solve'[k] = solve[k]
  BY <1>2 DEF TypeOK
<1>4. Waiting' = Waiting /\ GivenUp' = GivenUp /\ Running' = Running
  BY <1>2, <1>3 DEF Running, Waiting, GivenUp, r
<1>5. TypeOK'
  BY <1>1, <1>2, <1>3 DEF TypeOK, SolveRecord
<1>6. SidesAgree' /\ Cleared'
  BY <1>1, <1>2, <1>3 DEF SidesAgree, Cleared, NeedsRepo, ContainerUp, NewSolve, r
<1>7. ContainersKnown'
  <2>1. \A n \in Nat : <<j, n>> \in up => r.caller # "none"
    BY DEF ContainersKnown, r
  <2>2. r.caller \notin {"none", "answered"}
    BY <1>2 DEF SidesAgree, r
  <2>3. \A n \in Nat : <<j, n>> \in up => n # 0
    BY DEF TypeOK
  <2>4. r.caller = "waiting" /\ r.thread = "starting" => \A n \in Nat : <<j, n>> \notin up
    BY <2>3 DEF ContainersKnown, r
  <2>5. \A k \in Solve \ {j} : \A n \in Nat : <<k, n>> \in up' <=> <<k, n>> \in up
    BY <1>2
  <2>6. r.caller = "waiting" => \A n \in Nat : <<j, n>> \in up' => n = s.env
    BY <1>2, <2>4 DEF ContainersKnown, r
  <2> QED
    BY <1>1, <1>2, <1>3, <2>2, <2>5, <2>6 DEF ContainersKnown, r
<1>8. QueueHolds'
  BY <1>1, <1>2, <1>3 DEF QueueHolds, r, TypeOK
<1>9. PoolFull' /\ SlotsKept' /\ SlotLost'
  BY <1>1, <1>4 DEF PoolFull, SlotsKept, SlotLost, Ahead
<1> QED
  BY <1>5, <1>6, <1>7, <1>8, <1>9

\* A thread that ends makes room for the first of the queue.
LEMMA ThreadEndsKeeps ==
  ASSUME SolveInv, NEW j \in Solve, ThreadEnds(j)
  PROVE  SolveInv'
<1> USE DEF SolveInv
<1>1. /\ UNCHANGED <<program, step, observing, up>>
      /\ j \in Running /\ solve[j] \in SolveRecord
      /\ queue \in Seq(Solve)
  BY DEF ThreadEnds, runVars, TypeOK
<1> DEFINE e == [solve[j] EXCEPT !.thread = "ended"]
<1>2. /\ e \in SolveRecord /\ e.thread = "ended" /\ e.caller = solve[j].caller
      /\ e.env = solve[j].env
  BY <1>1 DEF SolveRecord
<1>3. solve[j].thread \in {"ready", "starting"}
  BY <1>1 DEF Running
<1>4. CASE queue = <<>>
  <2>1. solve' = [solve EXCEPT ![j] = e] /\ queue' = <<>>
    BY <1>4 DEF ThreadEnds, TypeOK
  <2> HIDE DEF e
  <2>2. /\ solve' \in [Solve -> SolveRecord] /\ solve'[j] = e
        /\ \A k \in Solve \ {j} : solve'[k] = solve[k]
    BY <1>2, <2>1 DEF TypeOK
  <2>3. Waiting' = Waiting
    BY <1>2, <2>2 DEF Waiting
  <2>4. \A k \in Solve : solve'[k].thread # "queued"
    <3>1. \A k \in Solve : solve[k].thread # "queued"
      BY <1>4 DEF QueueHolds
    <3> QED
      BY <1>2, <2>2, <3>1
  <2>5. Len(queue') = 0
    BY <2>1
  <2>6. QueueHolds' /\ PoolFull' /\ SlotLost'
    BY <2>1, <2>4, <2>5 DEF QueueHolds, PoolFull, SlotLost
  <2>7. TypeOK' /\ SidesAgree' /\ SlotsKept'
    BY <1>1, <1>2, <1>3, <1>4, <2>1, <2>2, <2>3 DEF TypeOK, SidesAgree, SlotsKept
  <2>8. ContainersKnown' /\ Cleared'
    BY <1>1, <1>2, <1>3, <2>2 DEF ContainersKnown, Cleared, NewSolve
  <2> QED
    BY <2>6, <2>7, <2>8
<1>5. CASE queue # <<>>
  <2> DEFINE h == Head(queue)
             b == [solve[h] EXCEPT !.thread = "ready"]
  <2>1. /\ h \in Solve /\ h = queue[1] /\ Len(queue) \in Nat /\ Len(queue) >= 1
        /\ Tail(queue) \in Seq(Solve) /\ Len(Tail(queue)) = Len(queue) - 1
        /\ \A k \in 1..(Len(queue) - 1) : Tail(queue)[k] = queue[k + 1]
    <3>1. Len(queue) \in Nat /\ Len(queue) # 0
      BY <1>1, <1>5, EmptySeq, LenProperties
    <3> QED
      BY <1>1, <1>5, <3>1, HeadTailProperties
  <2>2. solve[h].thread = "queued" /\ h # j
    BY <1>3, <2>1 DEF QueueHolds
  <2>3. /\ solve[h] \in SolveRecord
        /\ b \in SolveRecord /\ b.thread = "ready" /\ b.caller = solve[h].caller
        /\ b.env = solve[h].env
    <3>1. solve[h] \in SolveRecord
      BY <2>1 DEF TypeOK
    <3> HIDE DEF h
    <3> QED
      BY <3>1 DEF SolveRecord
  <2>4. /\ queue' = Tail(queue)
        /\ solve' = [solve EXCEPT ![j].thread = "ended", ![h].thread = "ready"]
    BY <1>5 DEF ThreadEnds
  <2> HIDE DEF h
  <2>5. solve' = [solve EXCEPT ![j] = e, ![h] = b]
    BY <2>1, <2>2, <2>4 DEF TypeOK
  <2> HIDE DEF e, b
  <2>6. /\ solve' \in [Solve -> SolveRecord] /\ solve'[j] = e /\ solve'[h] = b
        /\ \A k \in Solve \ {j, h} : solve'[k] = solve[k]
    BY <1>2, <2>1, <2>2, <2>3, <2>5 DEF TypeOK
  <2>7. /\ Waiting' = Waiting /\ GivenUp' = GivenUp
        /\ Running' = (Running \ {j}) \cup {h} /\ h \notin Running
    BY <1>2, <2>2, <2>1, <2>3, <2>6 DEF Running, Waiting, GivenUp
  <2>8. \A k \in 1..Len(queue') : queue'[k] = queue[k + 1] /\ k + 1 \in 1..Len(queue) /\ queue'[k] \in Solve
                                /\ queue'[k] # h /\ queue'[k] # j
    BY <1>1, <1>3, <2>1, <2>4 DEF QueueHolds
  <2>9. TypeOK' /\ SidesAgree' /\ SlotsKept'
    <3>1. TypeOK' /\ SlotsKept'
      BY <1>1, <2>1, <2>4, <2>6, <2>7 DEF TypeOK, SlotsKept
    <3>2. SidesAgree'
      BY <1>2, <1>3, <2>1, <2>2, <2>3, <2>6 DEF SidesAgree
    <3> QED
      BY <3>1, <3>2
  <2>10. ContainersKnown' /\ Cleared'
    <3>1. \A k \in Solve : solve'[k].caller = solve[k].caller /\ solve'[k].env = solve[k].env
      BY <1>2, <2>3, <2>6
    <3>2. \A k \in Solve : solve'[k].thread = "starting" => solve[k].thread = "starting"
      BY <1>2, <2>3, <2>6
    <3>3. ContainersKnown'
      BY <1>1, <3>1, <3>2 DEF ContainersKnown
    <3>4. Cleared'
      BY <1>1, <1>5 DEF Cleared
    <3> QED
      BY <3>3, <3>4
  <2>11. QueueHolds'
    <3>1. \A k \in 1..Len(queue') : solve'[queue'[k]].thread = "queued"
      BY <2>6, <2>8 DEF QueueHolds
    <3>2. \A k, m \in 1..Len(queue') : queue'[k] = queue'[m] => k = m
      BY <2>1, <2>4, <2>8 DEF QueueHolds
    <3>3. ASSUME NEW x \in Solve, solve'[x].thread = "queued"
          PROVE  \E k \in 1..Len(queue') : queue'[k] = x
      <4>1. x # h /\ solve[x].thread = "queued"
        BY <1>2, <2>3, <2>6, <3>3
      <4>2. PICK m \in 1..Len(queue) : queue[m] = x
        BY <4>1 DEF QueueHolds
      <4>3. m - 1 \in 1..Len(queue') /\ queue'[m - 1] = x
        BY <2>1, <2>4, <4>1, <4>2
      <4> QED
        BY <4>3
    <3> QED
      BY <1>1, <1>5, <3>1, <3>2, <3>3 DEF QueueHolds
  <2>12. PoolFull'
    <3>1. Cardinality(Running \ {j}) = Cardinality(Running) - 1
      BY <1>1, SolvesFinite, SetsOfSolves, FS_RemoveElement
    <3>2. Cardinality(Running') = Cardinality(Running \ {j}) + 1
      BY <2>1, <2>7, SetsOfSolves, OneMore
    <3> QED
      BY <1>5, <3>1, <3>2, SolvesFinite, SetsOfSolves DEF PoolFull
  <2>13. SlotLost'
    <3> SUFFICES ASSUME NEW k \in 1..Len(queue'), queue'[k] \in GivenUp'
                 PROVE  Cardinality(Waiting' \cap Ahead(k)') < Parallel
      BY DEF SlotLost
    <3>1. k + 1 \in 1..Len(queue) /\ queue[k + 1] \in GivenUp
      BY <2>7, <2>8
    <3>2. Waiting' \cap Ahead(k)' \subseteq Waiting \cap Ahead(k + 1)
      <4>1. \A m \in 1..(k - 1) : queue'[m] = queue[m + 1] /\ m + 1 \in 1..(k + 1 - 1)
        BY <2>8
      <4>2. h = queue[1] /\ 1 \in 1..(k + 1 - 1)
        BY <2>1
      <4> QED
        BY <2>7, <4>1, <4>2 DEF Ahead
    <3>3. Cardinality(Waiting \cap Ahead(k + 1)) < Parallel
      BY <3>1 DEF SlotLost
    <3>4. /\ Waiting \cap Ahead(k + 1) \in SUBSET Solve
          /\ Waiting' \cap Ahead(k)' \in SUBSET Solve
      BY <3>2, SetsOfSolves
    <3> QED
      BY <3>2, <3>3, <3>4, NoMore, SolvesFinite, Sizes
  <2> QED
    BY <2>9, <2>10, <2>11, <2>12, <2>13
<1> QED
  BY <1>4, <1>5

\* A caller that has its answer, or has given up, cleans up and waits no more.
LEMMA CallerKeeps ==
  ASSUME SolveInv, NEW j \in Solve, GiveUp(j) \/ Answer(j)
  PROVE  SolveInv'
<1> USE DEF SolveInv
<1> DEFINE r == solve[j]
<1>1. /\ r \in SolveRecord /\ UNCHANGED <<program, step, observing, queue>>
      /\ r.caller = "waiting"
  BY DEF TypeOK, GiveUp, Answer, runVars
<1>2. PICK s \in SolveRecord :
        /\ solve' = [solve EXCEPT ![j] = s]
        /\ s.thread = r.thread
        /\ \/ s.caller = "answered" /\ r.thread = "ended"
           \/ s.caller = "timed_out" /\ program = "optimize"
        /\ program = "optimize" => up' = up \ {<<j, r.env>>}
        /\ up' \subseteq up
        /\ \A k \in Solve \ {j} : \A n \in Nat : <<k, n>> \in up' <=> <<k, n>> \in up
  <2>1. ASSUME NEW caller \in {"timed_out", "answered"}, CleanUp(j, caller),
               IF caller = "answered" THEN r.thread = "ended" ELSE program = "optimize"
        PROVE  \E s \in SolveRecord :
                 /\ solve' = [solve EXCEPT ![j] = s]
                 /\ s.thread = r.thread
                 /\ \/ s.caller = "answered" /\ r.thread = "ended"
                    \/ s.caller = "timed_out" /\ program = "optimize"
                 /\ up' = up \ {<<j, r.env>>}
    <3> DEFINE s == [r EXCEPT !.caller = caller, !.env = 0]
    <3>1. s \in SolveRecord /\ s.thread = r.thread /\ s.caller = caller
      BY <1>1 DEF SolveRecord
    <3>2. solve' = [solve EXCEPT ![j] = s] /\ up' = up \ {<<j, r.env>>}
      BY <2>1 DEF CleanUp, TypeOK
    <3> HIDE DEF s
    <3> QED
      BY <2>1, <3>1, <3>2
  <2>2. CASE program = "bare" /\ solve' = [solve EXCEPT ![j].caller = "answered"] /\ up' = up
             /\ r.thread = "ended"
    <3> DEFINE s == [r EXCEPT !.caller = "answered"]
    <3>1. s \in SolveRecord /\ s.thread = r.thread /\ s.caller = "answered"
      BY <1>1 DEF SolveRecord
    <3>2. solve' = [solve EXCEPT ![j] = s]
      BY <2>2 DEF TypeOK
    <3> HIDE DEF s
    <3> QED
      BY <2>2, <3>1, <3>2
  <2>3. CASE GiveUp(j)
    BY <2>1, <2>3 DEF GiveUp
  <2>4. CASE Answer(j)
    BY <2>1, <2>2, <2>4 DEF Answer
  <2> QED
    BY <2>3, <2>4
<1> HIDE DEF r
<1>3. /\ solve' \in [Solve -> SolveRecord] /\ solve'[j] = s
      /\ \A k \in Solve \ {j} : solve'[k] = solve[k]
  BY <1>2 DEF TypeOK
<1>4. /\ Waiting' = Waiting \ {j} /\ j \in Waiting /\ GivenUp' \subseteq GivenUp \cup {j}
      /\ Running' = Running
  BY <1>1, <1>2, <1>3 DEF Running, Waiting, GivenUp, r
<1>5. TypeOK' /\ Cleared'
  BY <1>1, <1>2, <1>3 DEF TypeOK, Cleared, NewSolve, r
<1>6. SidesAgree' /\ QueueHolds'
  BY <1>1, <1>2, <1>3 DEF SidesAgree, QueueHolds, TypeOK, r
<1>7. ContainersKnown'
  <2>1. program = "optimize" => \A n \in Nat : <<j, n>> \notin up'
    BY <1>1, <1>2 DEF ContainersKnown, r
  <2> QED
    BY <1>1, <1>2, <1>3, <2>1 DEF ContainersKnown, r
<1>8. Cardinality(Waiting') < Parallel /\ Cardinality(Waiting') \in Nat
  <2>1. Cardinality(Waiting \ {j}) = Cardinality(Waiting) - 1
    BY <1>4, SolvesFinite, SetsOfSolves, FS_RemoveElement
  <2> QED
    BY <1>4, <2>1, SolvesFinite, SetsOfSolves, Sizes DEF SlotsKept
<1>9. PoolFull' /\ SlotsKept'
  BY <1>1, <1>4, <1>8, Sizes DEF PoolFull, SlotsKept
<1>10. SlotLost'
  <2> SUFFICES ASSUME NEW k \in 1..Len(queue')
               PROVE  Cardinality(Waiting' \cap Ahead(k)') < Parallel
    BY DEF SlotLost
  <2>1. Waiting' \in SUBSET Solve /\ Waiting' \cap Ahead(k)' \in SUBSET Waiting'
    BY <1>4, SetsOfSolves
  <2> QED
    BY <1>8, <2>1, NoMore, SolvesFinite, Sizes
<1> QED
  BY <1>5, <1>6, <1>7, <1>9, <1>10

\* The next harness is observed with the threads of the last one.
LEMMA ObserveNextKeeps ==
  ASSUME SolveInv, ObserveNext
  PROVE  SolveInv'
<1>1. /\ UNCHANGED <<program, step, solve, queue, up>> /\ observing' \in 1..Observations
  <2>1. observing' = observing + 1 /\ observing < Observations /\ observing \in 1..Observations
    BY DEF ObserveNext, SolveInv, TypeOK
  <2> QED
    BY <2>1, Sizes DEF ObserveNext, runVars
<1>2. Running' = Running /\ Waiting' = Waiting /\ GivenUp' = GivenUp
  BY <1>1 DEF Running, Waiting, GivenUp
<1> QED
  BY <1>1, <1>2
  DEF SolveInv, TypeOK, SidesAgree, ContainersKnown, QueueHolds, Cleared, PoolFull, SlotsKept,
      SlotLost, Ahead

\* Every step keeps what is said of the solves.
LEMMA SolveStep ==
  ASSUME SolveInv, [Next]_vars
  PROVE  SolveInv'
<1>1. CASE Pick \/ Kill \/ Unreadable \/ Evaluate \/ Record \/ Start
  <2>1. program' \in {"optimize", "bare"}
    BY <1>1 DEF SolveInv, TypeOK, Pick, Kill, Unreadable, Evaluate, Record, Start, runVars
  <2>2. NothingSolved \/ (step # "observe" /\ UNCHANGED solveVars)
    BY <1>1 DEF Pick, Kill, Unreadable, Evaluate, Record, Start, Over
  <2> QED
    BY <2>1, <2>2, ClearedKeeps
<1>2. CASE UNCHANGED vars
  <2>1. Running' = Running /\ Waiting' = Waiting /\ GivenUp' = GivenUp
    BY <1>2 DEF Running, Waiting, GivenUp, vars, solveVars
  <2> QED
    BY <1>2, <2>1
    DEF SolveInv, TypeOK, SidesAgree, ContainersKnown, QueueHolds, Cleared, PoolFull, SlotsKept,
        SlotLost, Ahead, vars, runVars, solveVars
<1> QED
  BY <1>1, <1>2, SubmitKeeps, ObserveNextKeeps, ContainerKeeps, ThreadEndsKeeps, CallerKeeps
  DEF Next, Thread, Caller

\* The threads, the queue and the containers of the solves agree with what their
\* callers know.
THEOREM SolvesSound == Spec => []SolveInv
<1>1. Init => SolveInv
  BY NothingYetKeeps, Sizes DEF Init, NothingYet
<1>2. SolveInv /\ [Next]_vars => SolveInv'
  BY SolveStep
<1> QED
  BY <1>1, <1>2, PTL DEF Spec

\* A solve is scored as a failure it never was only behind threads of solves given
\* up before, more than Pool - Parallel of them (swe_optimize.py:22-35).
THEOREM StarvedOnlyBehindGivenUp == Spec => []StarvedBehindGivenUp
BY SolvesSound, SolveInvImplies, PTL

\* The optimisation loop leaves no container behind but those of solves it gave up
\* (safe_solve, swe_optimize.py).
THEOREM AnsweredTornDown == Spec => []AnsweredAreTornDown
BY SolvesSound, SolveInvImplies, PTL

-----------------------------------------------------------------------------
(* Patches, reports and verdicts *)

Ids == {"optimize", "bare"} \X Names

\* Two patches of an instance were evaluated under one run id.
Clash(i, p) ==
  \E id \in Ids : \E q \in Patches \ {p} :
    <<id, i, p>> \in evaluated /\ <<id, i, q>> \in evaluated

\* A verdict that is wrong comes of an evaluation that was silent, or of a clash.
Earned(i, p, v) ==
  (v /\ p \notin Resolving) \/ (~v /\ p \in Resolving) =>
    (~v /\ <<i, p>> \in silent) \/ Clash(i, p)

GradeTypeOK ==
  /\ program \in {"optimize", "bare"} /\ name \in Names
  /\ patch \in [Instances -> Patches \cup {""}]
  /\ verdict \in [Instances -> BOOLEAN]
  /\ reports \in [DOMAIN reports -> BOOLEAN] /\ DOMAIN reports \subseteq Ids \X Instances
  /\ gold \in [DOMAIN gold -> BOOLEAN] /\ DOMAIN gold \subseteq Instances \X Patches

\* A report is the evaluation's word on a patch that was evaluated under its run id.
ReportsTrue ==
  \A id \in Ids, i \in Instances :
    <<id, i>> \in DOMAIN reports =>
      \E q \in Patches : /\ <<id, i, q>> \in evaluated
                         /\ reports[<<id, i>>] <=> q \in Resolving

\* And so is an entry of a summary.
SummaryTrue ==
  \A id \in Ids, i \in Instances :
    <<id, i>> \in summary => \E q \in Resolving : <<id, i, q>> \in evaluated

GoldEarned ==
  \A i \in Instances, p \in Patches :
    <<i, p>> \in DOMAIN gold => Earned(i, p, gold[<<i, p>>])

\* Of the patches being graded, those without a verdict are evaluated, and the
\* others have one that is earned.
GradingEarned ==
  step \in {"evaluate", "record"} =>
    \A i \in Instances :
      /\ i \in ToEvaluate(patch) => <<RunId, i, patch[i]>> \in evaluated
      /\ i \notin ToEvaluate(patch) /\ patch[i] # "" => Earned(i, patch[i], verdict[i])

EndedEarned ==
  step = "ended" => \A i \in Instances : patch[i] # "" => Earned(i, patch[i], verdict[i])

GradeInv ==
  GradeTypeOK /\ ReportsTrue /\ SummaryTrue /\ GoldEarned /\ GradingEarned /\ EndedEarned

\* What is earned stays so: evaluations and silences are not forgotten.
LEMMA EarnedStays ==
  ASSUME NEW i, NEW p, NEW v, Earned(i, p, v),
         evaluated \subseteq evaluated', silent \subseteq silent'
  PROVE  Earned(i, p, v)'
BY DEF Earned, Clash

\* The invariant is what the property says of the end of an execution.
LEMMA GradeInvImplies ==
  GradeInv => VerdictsEarned
<1> SUFFICES ASSUME GradeInv, step = "ended", NEW i \in Instances, NEW p \in Patches,
                    patch[i] = p, verdict[i] # (p \in Resolving)
             PROVE  \/ ~verdict[i] /\ <<i, p>> \in silent
                    \/ \E id \in {e[1] : e \in evaluated} : \E q \in Patches \ {p} :
                         {<<id, i, p>>, <<id, i, q>>} \subseteq evaluated
  BY DEF VerdictsEarned
<1>1. verdict[i] \in BOOLEAN /\ p # ""
  BY SweAssumption DEF GradeInv, GradeTypeOK
<1>2. Earned(i, p, verdict[i])
  BY <1>1 DEF GradeInv, EndedEarned
<1>3. (~verdict[i] /\ <<i, p>> \in silent) \/ Clash(i, p)
  <2>1. CASE p \in Resolving
    <3>1. (p \in Resolving) = TRUE
      BY <2>1
    <3>2. verdict[i] # TRUE
      BY <3>1
    <3> QED
      BY <1>1, <1>2, <2>1, <3>2 DEF Earned
  <2>2. CASE p \notin Resolving
    <3>1. (p \in Resolving) = FALSE
      BY <2>2
    <3>2. verdict[i] # FALSE
      BY <3>1
    <3> QED
      BY <1>1, <1>2, <2>2, <3>2 DEF Earned
  <2> QED
    BY <2>1, <2>2
<1>4. ASSUME Clash(i, p)
      PROVE  \E id \in {e[1] : e \in evaluated} : \E q \in Patches \ {p} :
                         {<<id, i, p>>, <<id, i, q>>} \subseteq evaluated
  <2>1. PICK id \in Ids, q \in Patches \ {p} : <<id, i, p>> \in evaluated /\ <<id, i, q>> \in evaluated
    BY <1>4 DEF Clash
  <2>2. id \in {e[1] : e \in evaluated}
    <3>1. <<id, i, p>>[1] = id
      OBVIOUS
    <3> QED
      BY <2>1, <3>1
  <2> QED
    BY <2>1, <2>2
<1> QED
  BY <1>3, <1>4

\* Nothing was graded yet.
LEMMA GradeInit == Init => GradeInv
<1> SUFFICES ASSUME Init  PROVE GradeInv
  OBVIOUS
<1>1. DOMAIN <<>> = {} /\ <<>> \in [{} -> BOOLEAN]
  <2>1. <<>> \in Seq({}) /\ Len(<<>>) = 0
    OBVIOUS
  <2>2. DOMAIN <<>> = 1..0
    BY <2>1, LenProperties
  <2> QED
    BY <2>2
<1>2. DOMAIN reports = {} /\ DOMAIN gold = {}
  BY <1>1 DEF Init
<1>3. GradeTypeOK
  BY <1>1, <1>2 DEF Init, GradeTypeOK
<1> QED
  BY <1>2, <1>3 DEF Init, GradeInv, ReportsTrue, SummaryTrue, GoldEarned, GradingEarned, EndedEarned

\* The judge's pick: what has a verdict keeps it, the rest is evaluated.
LEMMA PickKeeps ==
  ASSUME GradeInv, Pick
  PROVE  GradeInv'
<1> USE DEF GradeInv
<1>1. PICK p \in [Instances -> Patches \cup {""}] :
        /\ patch' = p
        /\ verdict' = [i \in Instances |->
             p[i] # "" /\ Key(i, p[i]) \in DOMAIN gold /\ gold[Key(i, p[i])]]
        /\ step' \in {"record", "evaluate"}
        /\ evaluated' = evaluated \cup {<<RunId, i, p[i]>> : i \in ToEvaluate(p)}
  BY DEF Pick
<1>2. UNCHANGED <<program, name, reports, summary, gold, silent>>
  BY DEF Pick, runVars
<1>3. evaluated \subseteq evaluated' /\ silent \subseteq silent'
  BY <1>1, <1>2
<1>4. verdict' \in [Instances -> BOOLEAN]
  BY <1>1
<1>5. GradeTypeOK'
  BY <1>1, <1>2, <1>4 DEF GradeTypeOK
<1>6. ReportsTrue' /\ SummaryTrue' /\ GoldEarned'
  BY <1>2, <1>3, EarnedStays DEF ReportsTrue, SummaryTrue, GoldEarned
<1>7. ASSUME NEW i \in Instances  
      PROVE  /\ i \in ToEvaluate(patch)' => <<RunId, i, patch[i]>>' \in evaluated'
             /\ i \notin ToEvaluate(patch)' /\ patch'[i] # "" => Earned(i, patch[i], verdict[i])'
  <2>1. i \in ToEvaluate(patch)' <=> i \in ToEvaluate(p)
    BY <1>1, <1>2 DEF ToEvaluate
  <2>2. CASE i \in ToEvaluate(p)
    BY <1>1, <1>2, <2>1, <2>2 DEF RunId
  <2>3. CASE i \notin ToEvaluate(p) /\ p[i] # ""
    <3>1. p[i] \in Patches /\ <<i, p[i]>> \in DOMAIN gold
      BY <2>3 DEF ToEvaluate, Key
    <3>2. verdict'[i] = gold[<<i, p[i]>>]
      BY <1>1, <2>3, <3>1 DEF Key, GradeTypeOK
    <3>3. Earned(i, p[i], gold[<<i, p[i]>>])
      BY <3>1 DEF GoldEarned
    <3> QED
      BY <1>1, <1>3, <2>1, <2>3, <3>2, <3>3, EarnedStays
  <2> QED
    BY <1>1, <2>1, <2>2, <2>3
<1> QED
  BY <1>1, <1>5, <1>6, <1>7 DEF GradingEarned, EndedEarned

\* run_evaluation: a report that is new is about the patch that was asked for.
LEMMA EvaluateKeeps ==
  ASSUME GradeInv, Evaluate
  PROVE  GradeInv'
<1> USE DEF GradeInv
<1>1. /\ UNCHANGED <<program, name, patch, verdict, gold, silent, evaluated>>
      /\ step = "evaluate" /\ step' = "record"
  BY DEF Evaluate, runVars
<1> DEFINE todo == ToEvaluate(patch)
<1>2. PICK fails \in SUBSET todo :
        LET runs == todo \ fails IN
        reports' = [k \in DOMAIN reports \cup {<<RunId, i>> : i \in runs} |->
          IF k[1] = RunId /\ k[2] \in runs THEN Resolved(k[2]) ELSE reports[k]]
  BY DEF Evaluate
<1> DEFINE runs == todo \ fails
<1>3. RunId \in Ids /\ RunId' = RunId /\ ToEvaluate(patch)' = todo
  BY <1>1 DEF RunId, Ids, GradeTypeOK, ToEvaluate
<1>4. \A i \in todo : i \in Instances /\ patch[i] \in Patches /\ <<RunId, i, patch[i]>> \in evaluated
  BY <1>1 DEF ToEvaluate, GradeTypeOK, GradingEarned
<1>11. ASSUME NEW i \in todo
       PROVE  /\ Resolved(i) \in BOOLEAN
              /\ \E q \in Patches : /\ <<RunId, i, q>> \in evaluated
                                    /\ Resolved(i) <=> q \in Resolving
  <2>1. CASE <<RunId, i>> \in DOMAIN reports
    BY <1>3, <1>4, <2>1 DEF Resolved, ReportsTrue, GradeTypeOK
  <2>2. CASE <<RunId, i>> \notin DOMAIN reports
    <3>1. Resolved(i) = (patch[i] \in Resolving)
      BY <2>2 DEF Resolved
    <3>2. CASE patch[i] \in Resolving
      <4>1. (patch[i] \in Resolving) = TRUE
        BY <3>2
      <4>2. Resolved(i) = TRUE
        BY <3>1, <4>1
      <4> QED
        BY <1>4, <3>2, <4>2
    <3>3. CASE patch[i] \notin Resolving
      <4>1. (patch[i] \in Resolving) = FALSE
        BY <3>3
      <4>2. Resolved(i) = FALSE
        BY <3>1, <4>1
      <4> QED
        BY <1>4, <3>3, <4>2
    <3> QED
      BY <3>2, <3>3
  <2> QED
    BY <2>1, <2>2
<1>12. SummaryTrue'
  <2>1. \/ summary' = summary
        \/ \E told \in SUBSET {i \in todo : <<RunId, i>> \notin DOMAIN reports' /\ Resolved(i)} :
             summary' = {r \in summary : r[1] # RunId} \cup {<<RunId, i>> : i \in told}
    BY DEF Evaluate
  <2> SUFFICES ASSUME NEW id \in Ids, NEW i \in Instances, <<id, i>> \in summary'
               PROVE  \E q \in Resolving : <<id, i, q>> \in evaluated
    BY <1>1 DEF SummaryTrue
  <2>2. CASE <<id, i>> \in summary
    BY <2>2 DEF SummaryTrue
  <2>3. CASE <<id, i>> \notin summary
    <3>1. i \in todo /\ Resolved(i) /\ id = RunId
      BY <2>1, <2>3
    <3> QED
      BY <1>11, <3>1
  <2> QED
    BY <2>2, <2>3
<1> HIDE DEF todo
<1>5. DOMAIN reports' = DOMAIN reports \cup {<<RunId, i>> : i \in runs}
  BY <1>2
<1>6. ASSUME NEW id \in Ids, NEW i \in Instances, <<id, i>> \in DOMAIN reports'
      PROVE  /\ reports'[<<id, i>>] \in BOOLEAN
             /\ \E q \in Patches : /\ <<id, i, q>> \in evaluated
                                   /\ reports'[<<id, i>>] <=> q \in Resolving
  <2>1. CASE id = RunId /\ i \in runs
    <3>1. reports'[<<id, i>>] = Resolved(i)
      BY <1>2, <1>6, <2>1
    <3> QED
      BY <1>11, <2>1, <3>1
  <2>2. CASE ~(id = RunId /\ i \in runs)
    <3>1. <<id, i>> \in DOMAIN reports
      BY <1>5, <1>6, <2>2
    <3>2. reports'[<<id, i>>] = reports[<<id, i>>]
      BY <1>2, <1>6, <2>2
    <3> QED
      BY <3>1, <3>2 DEF ReportsTrue, GradeTypeOK
  <2> QED
    BY <2>1, <2>2
<1>7. DOMAIN reports' \subseteq Ids \X Instances
  <2>1. \A i \in runs : <<RunId, i>> \in Ids \X Instances
    BY <1>3, <1>4
  <2> SUFFICES ASSUME NEW k \in DOMAIN reports'  PROVE k \in Ids \X Instances
    OBVIOUS
  <2>2. CASE k \in DOMAIN reports
    BY <2>2 DEF GradeTypeOK
  <2>3. CASE k \notin DOMAIN reports
    <3>1. PICK i \in runs : k = <<RunId, i>>
      BY <1>5, <2>3
    <3> QED
      BY <2>1, <3>1
  <2> QED
    BY <2>2, <2>3
<1>8. reports' \in [DOMAIN reports' -> BOOLEAN]
  <2>1. \A k \in DOMAIN reports' : reports'[k] \in BOOLEAN
    BY <1>6, <1>7
  <2>2. reports' = [k \in DOMAIN reports' |-> reports'[k]]
    BY <1>2
  <2> QED
    BY <2>1, <2>2
<1>9. GradeTypeOK' /\ ReportsTrue'
  <2>1. GradeTypeOK'
    BY <1>1, <1>7, <1>8 DEF GradeTypeOK
  <2>2. ReportsTrue'
    <3> SUFFICES ASSUME NEW id \in Ids, NEW i \in Instances, <<id, i>> \in DOMAIN reports'
                 PROVE  \E q \in Patches : /\ <<id, i, q>> \in evaluated'
                                           /\ reports'[<<id, i>>] <=> q \in Resolving
      BY DEF ReportsTrue, Ids
    <3>1. evaluated' = evaluated
      BY <1>1
    <3> QED
      BY <1>6, <3>1
  <2> QED
    BY <2>1, <2>2
<1>10. GoldEarned' /\ GradingEarned' /\ EndedEarned'
  BY <1>1, <1>3, EarnedStays DEF GoldEarned, GradingEarned, EndedEarned, todo
<1> QED
  BY <1>9, <1>10, <1>12

\* The verdicts are read from the reports of this run id, and kept by patch.
LEMMA RecordKeeps ==
  ASSUME GradeInv, Record
  PROVE  GradeInv'
<1> USE DEF GradeInv
<1> DEFINE todo == ToEvaluate(patch)
<1>1. /\ UNCHANGED <<program, name, patch, reports, summary, evaluated>>
      /\ step = "record" /\ step' = "ended"
      /\ verdict' = [i \in Instances |-> IF i \in todo THEN Graded(i) ELSE verdict[i]]
      /\ gold' = [k \in DOMAIN gold \cup {Key(i, patch[i]) : i \in todo} |->
           IF k \in DOMAIN gold THEN gold[k] ELSE Graded(k[1])]
      /\ silent' = silent \cup {<<i, patch[i]>> : i \in
                                 {x \in todo : <<RunId, x>> \notin DOMAIN reports \cup summary}}
  BY DEF Record, runVars
<1>2. evaluated \subseteq evaluated' /\ silent \subseteq silent'
  BY <1>1
<1>3. RunId \in Ids
  BY DEF RunId, Ids, GradeTypeOK
<1>4. \A i \in todo : i \in Instances /\ patch[i] \in Patches /\ <<RunId, i, patch[i]>> \in evaluated
  BY <1>1 DEF ToEvaluate, GradeTypeOK, GradingEarned
<1>5. ASSUME NEW i \in Instances  PROVE Graded(i) \in BOOLEAN
  <2>1. CASE <<RunId, i>> \in DOMAIN reports
    BY <2>1 DEF Graded, GradeTypeOK
  <2>2. CASE <<RunId, i>> \notin DOMAIN reports
    <3>1. Graded(i) = (<<RunId, i>> \in summary)
      BY <2>2 DEF Graded
    <3> QED
      BY <3>1
  <2> QED
    BY <2>1, <2>2
<1> HIDE DEF todo
<1>6. ASSUME NEW i \in todo  PROVE Earned(i, patch[i], Graded(i))'
  <2>1. Graded(i)' = Graded(i)
    BY <1>1 DEF Graded, RunId
  <2>4. ASSUME NEW q \in Patches, <<RunId, i, q>> \in evaluated, Graded(i) <=> q \in Resolving
        PROVE  Earned(i, patch[i], Graded(i))'
    <3>1. CASE q = patch[i]
      BY <1>1, <2>1, <2>4, <3>1 DEF Earned
    <3>2. CASE q # patch[i]
      <4>1. Clash(i, patch[i])
        BY <1>3, <1>4, <2>4, <3>2 DEF Clash
      <4> QED
        BY <1>1, <4>1 DEF Earned, Clash
    <3> QED
      BY <3>1, <3>2
  <2>2. CASE <<RunId, i>> \in DOMAIN reports
    <3>1. PICK q \in Patches : /\ <<RunId, i, q>> \in evaluated
                               /\ reports[<<RunId, i>>] <=> q \in Resolving
      BY <1>3, <1>4, <2>2 DEF ReportsTrue
    <3>2. Graded(i) <=> q \in Resolving
      BY <2>2, <3>1 DEF Graded
    <3> QED
      BY <2>4, <3>1, <3>2
  <2>5. CASE <<RunId, i>> \notin DOMAIN reports /\ <<RunId, i>> \in summary
    <3>1. PICK q \in Resolving : <<RunId, i, q>> \in evaluated
      BY <1>3, <1>4, <2>5 DEF SummaryTrue
    <3>2. q \in Patches /\ (Graded(i) <=> q \in Resolving)
      BY <2>5, <3>1, SweAssumption DEF Graded
    <3> QED
      BY <2>4, <3>1, <3>2
  <2>3. CASE <<RunId, i>> \notin DOMAIN reports \cup summary
    <3>1. ~Graded(i) /\ <<i, patch[i]>> \in silent'
      BY <1>1, <2>3 DEF Graded
    <3> QED
      BY <1>1, <2>1, <3>1 DEF Earned
  <2> QED
    BY <2>2, <2>3, <2>5
<1>7. ASSUME NEW i \in Instances, NEW p \in Patches, <<i, p>> \in DOMAIN gold'
      PROVE  gold'[<<i, p>>] \in BOOLEAN /\ Earned(i, p, gold[<<i, p>>])'
  <2>1. CASE <<i, p>> \in DOMAIN gold
    <3>1. gold'[<<i, p>>] = gold[<<i, p>>] /\ gold[<<i, p>>] \in BOOLEAN
      BY <1>1, <1>7, <2>1 DEF GradeTypeOK
    <3>2. Earned(i, p, gold[<<i, p>>])
      BY <2>1 DEF GoldEarned
    <3> QED
      BY <1>2, <3>1, <3>2, EarnedStays
  <2>2. CASE <<i, p>> \notin DOMAIN gold
    <3>1. i \in todo /\ p = patch[i]
      BY <1>1, <1>7, <2>2 DEF Key
    <3>2. gold'[<<i, p>>] = Graded(i)
      BY <1>1, <1>7, <2>2
    <3>3. Graded(i)' = Graded(i) /\ patch' = patch
      BY <1>1 DEF Graded, RunId
    <3> QED
      BY <1>5, <1>6, <3>1, <3>2, <3>3
  <2> QED
    BY <2>1, <2>2
<1>8. DOMAIN gold' \subseteq Instances \X Patches
  <2>1. \A i \in todo : Key(i, patch[i]) \in Instances \X Patches
    BY <1>4 DEF Key
  <2>2. DOMAIN gold' = DOMAIN gold \cup {Key(i, patch[i]) : i \in todo}
    BY <1>1
  <2> SUFFICES ASSUME NEW k \in DOMAIN gold'  PROVE k \in Instances \X Patches
    OBVIOUS
  <2>3. CASE k \in DOMAIN gold
    BY <2>3 DEF GradeTypeOK
  <2>4. CASE k \notin DOMAIN gold
    <3>1. PICK i \in todo : k = Key(i, patch[i])
      BY <2>2, <2>4
    <3> QED
      BY <2>1, <3>1
  <2> QED
    BY <2>3, <2>4
<1>9. gold' \in [DOMAIN gold' -> BOOLEAN]
  <2>1. \A k \in DOMAIN gold' : gold'[k] \in BOOLEAN
    BY <1>7, <1>8
  <2>2. gold' = [k \in DOMAIN gold' |-> gold'[k]]
    BY <1>1
  <2> QED
    BY <2>1, <2>2
<1>10. verdict' \in [Instances -> BOOLEAN]
  BY <1>1, <1>5 DEF GradeTypeOK
<1>11. GradeTypeOK' /\ ReportsTrue' /\ SummaryTrue' /\ GradingEarned'
  BY <1>1, <1>8, <1>9, <1>10 DEF GradeTypeOK, ReportsTrue, SummaryTrue, GradingEarned
<1>12. GoldEarned'
  BY <1>7 DEF GoldEarned
<1>13. EndedEarned'
  <2> SUFFICES ASSUME NEW i \in Instances, patch'[i] # ""  PROVE Earned(i, patch[i], verdict[i])'
    BY DEF EndedEarned
  <2>1. CASE i \in todo
    <3>1. verdict'[i] = Graded(i)' 
      BY <1>1, <2>1 DEF Graded, RunId
    <3> QED
      BY <1>6, <2>1, <3>1
  <2>2. CASE i \notin todo
    <3>1. Earned(i, patch[i], verdict[i]) /\ verdict'[i] = verdict[i] /\ patch' = patch
      BY <1>1, <2>2 DEF GradingEarned, todo
    <3> QED
      BY <1>2, <3>1, EarnedStays
  <2> QED
    BY <2>1, <2>2
<1> QED
  BY <1>11, <1>12, <1>13

\* No other step has anything to do with verdicts.
LEMMA OthersKeepGrades ==
  ASSUME GradeInv, [Next]_vars, ~Pick, ~Evaluate, ~Record
  PROVE  GradeInv'
<1>1. CASE Start
  <2>1. /\ UNCHANGED <<reports, summary, gold, evaluated, silent>> /\ step' = "observe"
        /\ program' \in {"optimize", "bare"} /\ name' \in Names
        /\ patch' \in [Instances -> Patches \cup {""}] /\ verdict' \in [Instances -> BOOLEAN]
    BY <1>1 DEF Start
  <2> QED
    BY <2>1, EarnedStays
    DEF GradeInv, GradeTypeOK, ReportsTrue, SummaryTrue, GoldEarned, GradingEarned, EndedEarned
<1>2. CASE UNCHANGED <<runVars, patch, verdict, reports, summary, gold, evaluated, silent>>
           /\ (step' \in {"observe", "killed"} \/ step' = step)
  <2>1. /\ UNCHANGED <<program, name, patch, verdict, reports, summary, gold, evaluated, silent>>
        /\ ToEvaluate(patch)' = ToEvaluate(patch) /\ RunId' = RunId
    BY <1>2 DEF runVars, ToEvaluate, RunId
  <2> QED
    BY <1>2, <2>1, EarnedStays
    DEF GradeInv, GradeTypeOK, ReportsTrue, SummaryTrue, GoldEarned, GradingEarned, EndedEarned
<1>3. Start \/ /\ UNCHANGED <<runVars, patch, verdict, reports, summary, gold, evaluated, silent>>
               /\ (step' \in {"observe", "killed"} \/ step' = step)
  BY DEF Next, Submit, ObserveNext, Kill, Unreadable, Thread, NeedsRepo, ContainerUp, ThreadEnds,
         Caller, GiveUp, Answer, vars, gradeVars
<1> QED
  BY <1>1, <1>2, <1>3

\* A verdict an execution reports is what the evaluation says of that very patch,
\* unless the evaluation left neither a report nor a word in the summary or judged two
\* patches of the instance under one run id (is_correct_batch, swe_bridge.py).
THEOREM VerdictsAreEarned == Spec => []VerdictsEarned
<1>1. Init => GradeInv
  BY GradeInit
<1>2. GradeInv /\ [Next]_vars => GradeInv'
  BY PickKeeps, EvaluateKeeps, RecordKeeps, OthersKeepGrades
<1> QED
  BY <1>1, <1>2, GradeInvImplies, PTL DEF Spec

-----------------------------------------------------------------------------
(* Sessions and baseline runs *)

Evaluation == [name : Name, fitness : Nat]
Code == [harness : Nat, bridge : Nat]

\* The files have one writer at a time: the session of the iteration.
OneWriter ==
  /\ stray = {}
  /\ ~E("session") => session = NoSession

Evolving ==
  /\ evolve \in [at : {"idle", "propose", "session", "score", "hung"}, it : Nat, todo : SUBSET Name,
                 best : Evaluation \cup {NoBest}]
  /\ ~E("idle") => evolve.best \in Evaluation

\* The list is the iteration's own from when its session opens.
OwnList ==
  /\ E("session") => pending.state = "none" \/ pending.by = evolve.it
  /\ pending.state = "whole" => pending.names \subseteq Name
  /\ OwnProposals

FrontierInv == scored \subseteq Evaluation /\ FrontierTrue

\* No record is filed under a key of another harness or bridge.
CacheInv ==
  /\ cache = [state |-> cache.state, records |-> cache.records]
  /\ \A k \in DOMAIN cache.records :
       cache.records[k] = [harness |-> k[1], bridge |-> k[2]]

MeasureTyped ==
  /\ code \in [Name -> Nat] /\ bridge \in Nat
  /\ measure \in [at : {"idle", "run", "write"}, code : Code,
                  records : [Item -> Code], loaded : [Item -> Code]]

\* A run measures one harness, which nobody touches while it does.
MeasureInv ==
  ~B("idle") =>
    /\ E("idle")
    /\ measure.code.harness = code[Harness] /\ measure.code # NoCode
    /\ \A i \in Item : /\ measure.records[i] \in {NoRecord, measure.code}
                       /\ measure.loaded[i] \in {NoCode, measure.code}

EvolveInv == OneWriter /\ Evolving /\ OwnList /\ FrontierInv
BaselineInv == MeasureTyped /\ CacheInv /\ MeasureInv

-----------------------------------------------------------------------------
(* Sessions *)

\* Where no session is open and none was left behind, nothing writes.
LEMMA NobodyWrites ==
  ASSUME OneWriter, ~E("session")
  PROVE  ~(SessionCaller \/ Reader \/ Clock \/ Agent)
<1>1. /\ session.at = "off" /\ session.agent = "off" /\ session.command = FALSE
      /\ session.queued = 0 /\ session.lines = <<>>
  BY DEF OneWriter, NoSession
<1>2. Len(session.lines) = 0
  <2>1. Len(<<>>) = 0
    BY Zenon
  <2> QED
    BY <1>1, <2>1
<1>3. ~SessionCaller
  BY <1>1 DEF SessionCaller, InSession, CallStep, KillSession, Take, FindEmpty, Poll, Reap, S
<1>4. ~Reader
  BY <1>1, <1>2 DEF Reader, InSession, Enqueue
<1>5. ~Clock
  BY <1>1 DEF Clock, InSession, TimePasses
<1>6. \A it : Writers(it) = {}
  BY <1>1 DEF OneWriter, Writers, Up
<1>7. ~Agent
  BY <1>1, <1>6 DEF Agent, InSession, AgentStep, Announce, WriteFile, OpenPending, FillPending,
                    CommandEnds, AgentExits, Up
<1> QED
  BY <1>3, <1>4, <1>5, <1>7

\* The steps of the model, with those of a session in one.
SessionStep == SessionCaller \/ Reader \/ Clock \/ Agent

LEMMA StepCases ==
  ASSUME [EvolveNext]_evolveVars
  PROVE  \/ StartEvolve \/ Propose \/ EndEvolve \/ Read \/ ReadFails \/ Score \/ Hang \/ Invalid
         \/ EndIteration \/ EvolveDies
         \/ StartMeasure \/ (\E i \in Item : SolveItem(i)) \/ (\E i \in Item : Keep(i))
         \/ Written \/ Report \/ MeasureDies \/ EditBridge
         \/ SessionStep \/ UNCHANGED evolveVars
BY DEF EvolveNext, EvolveStep, MeasureStep, SessionStep

\* What a session may change: itself, the harness files, and the list, which
\* carries its own iteration.
LEMMA SessionFrame ==
  ASSUME OneWriter, SessionStep
  PROVE  /\ E("session")
         /\ UNCHANGED <<stray, evolve, frontier, scored, measure, cache, bridge, starts>>
         /\ \/ pending' = pending
            \/ pending' = Torn(evolve.it)
            \/ \E names \in SUBSET Name : pending' = Whole(evolve.it, names)
         /\ code' = code \/ \E n \in Name : code' = [code EXCEPT ![n] = @ + 1]
<1>1. E("session")
  BY NobodyWrites DEF SessionStep
<1>2. UNCHANGED <<evolve, frontier, scored, measure, cache, bridge, starts>>
  BY DEF SessionStep, SessionCaller, Reader, Clock, Agent, InSession, evolution, measuring
<1>3. \A it : Writers(it) \subseteq {it}
  BY DEF OneWriter, Writers
<1>4. CASE SessionCaller \/ Reader \/ Clock
  BY <1>1, <1>2, <1>4 DEF SessionCaller, Reader, Clock, InSession, CallStep, KillSession, Take, FindEmpty,
         Poll, Reap, Enqueue, TimePasses
<1>5. CASE Agent
  <2>1. AgentStep(evolve.it, Name \ {Seed})
    BY <1>5 DEF Agent, InSession
  <2>2. CASE \/ Announce(Name \ {Seed}) \/ WriteFile(evolve.it, Name \ {Seed})
             \/ CommandEnds \/ AgentExits
    BY <1>1, <1>2, <2>2 DEF Announce, WriteFile, CommandEnds, AgentExits
  <2>3. CASE OpenPending(evolve.it)
    BY <1>1, <1>2, <1>3, <2>3 DEF OpenPending
  <2>4. CASE FillPending(evolve.it, Name \ {Seed})
    BY <1>1, <1>2, <1>3, <2>4 DEF FillPending
  <2> QED
    BY <2>1, <2>2, <2>3, <2>4 DEF AgentStep
<1> QED
  BY <1>4, <1>5 DEF SessionStep

-----------------------------------------------------------------------------
(* The evolution *)

LEMMA ImproveKeeps ==
  ASSUME Evolving, FrontierInv, E("score"), NEW n \in Name, NEW e \in Evaluations(n),
         scored' = scored \cup {e}, Improve(e)
  PROVE  /\ Evolving' /\ FrontierInv'
         /\ evolve'.at = "score" /\ evolve'.it = evolve.it
<1>1. e \in Evaluation
  <2>1. PICK f \in Fitness : e = [name |-> n, fitness |-> f]
    BY DEF Evaluations, Best
  <2>2. f \in Nat
    BY EvolveAssumption
  <2> QED
    BY <2>1, <2>2 DEF Evaluation
<1>2. CASE e.fitness > evolve.best.fitness
  <2>1. /\ evolve' = [evolve EXCEPT !.todo = evolve.todo \ {e.name}, !.best = e]
        /\ frontier' = [best |-> e, report |-> e.name]
    BY <1>2 DEF Improve
  <2>2. /\ evolve'.at = "score" /\ evolve'.it = evolve.it /\ evolve'.best = e
        /\ Evolving'
    BY <1>1, <2>1 DEF Evolving, E
  <2>3. \A x \in scored' : x.fitness <= e.fitness
    BY <1>1, <1>2 DEF FrontierInv, FrontierTrue, Evolving, Evaluation, E
  <2> QED
    BY <1>1, <2>1, <2>2, <2>3 DEF FrontierInv, FrontierTrue
<1>3. CASE ~(e.fitness > evolve.best.fitness)
  <2>1. /\ evolve' = [evolve EXCEPT !.todo = evolve.todo \ {e.name}]
        /\ frontier' = frontier
    BY <1>3 DEF Improve
  <2>2. /\ evolve'.at = "score" /\ evolve'.it = evolve.it /\ evolve'.best = evolve.best
        /\ Evolving'
    BY <1>1, <2>1 DEF Evolving, E
  <2>3. e.fitness <= evolve.best.fitness
    BY <1>1, <1>3 DEF Evolving, E, Evaluation
  <2> QED
    BY <1>1, <2>1, <2>2, <2>3 DEF FrontierInv, FrontierTrue, E
<1> QED
  BY <1>2, <1>3

LEMMA NextTyped ==
  ASSUME Evolving, ~E("idle"),
         evolve' = [evolve EXCEPT !.at = "propose", !.it = evolve.it + 1, !.todo = {}]
  PROVE  evolve'.at = "propose" /\ evolve'.best = evolve.best /\ Evolving'
<1> DEFINE it == evolve.it + 1
<1>1. it \in Nat /\ evolve.best \in Evaluation
  BY DEF Evolving, E
<1>2. evolve' = [evolve EXCEPT !.at = "propose", !.it = it, !.todo = {}]
  OBVIOUS
<1> HIDE DEF it
<1> QED
  BY <1>1, <1>2 DEF Evolving, E

LEMMA EvolveInvStep ==
  ASSUME LateWrites = FALSE, EvolveInv, [EvolveNext]_evolveVars
  PROVE  EvolveInv'
<1> USE DEF EvolveInv
<1>1. CASE StartEvolve
  <2>1. PICK e \in Evaluations(Seed) :
          /\ evolve' = [at |-> "propose", it |-> 1, todo |-> {}, best |-> e]
          /\ frontier' = [best |-> e, report |-> Seed]
          /\ scored' = {e}
    BY <1>1 DEF StartEvolve
  <2>2. e \in Evaluation /\ e.name = Seed
    BY EvolveAssumption DEF Evaluations, Best, Evaluation
  <2>3. UNCHANGED <<stray, session, pending>> /\ E("idle")
    BY <1>1 DEF StartEvolve, files, Free
  <2>4. e.fitness <= e.fitness
    BY <2>2 DEF Evaluation
  <2> QED
    BY <2>1, <2>2, <2>3, <2>4 DEF OneWriter, Evolving, OwnList, OwnProposals, FrontierInv,
                                  FrontierTrue, E
<1>2. CASE Propose
  <2>1. /\ evolve' = [evolve EXCEPT !.at = "session"] /\ E("propose")
        /\ pending' = NoPending /\ UNCHANGED <<stray, frontier, scored>>
    BY <1>2 DEF Propose
  <2>2. evolve'.at = "session" /\ evolve'.best = evolve.best /\ Evolving'
    BY <2>1 DEF Evolving, E
  <2> QED
    BY <2>1, <2>2 DEF OneWriter, OwnList, OwnProposals, FrontierInv, FrontierTrue, E, NoPending
<1>3. CASE EndEvolve \/ ReadFails \/ EvolveDies
  <2>1. /\ Gone /\ pending' = pending
        /\ stray' = stray
        /\ (session' = session /\ ~E("session")) \/ session' = NoSession
    BY <1>3 DEF EndEvolve, ReadFails, EvolveDies, Leave, files, E
  <2> QED
    BY <2>1 DEF Gone, NoEvolve, OneWriter, Evolving, OwnList, OwnProposals, FrontierInv,
                FrontierTrue, E
<1>4. CASE Read
  <2>1. /\ E("session") /\ session' = NoSession
        /\ UNCHANGED <<stray, pending, frontier, scored>>
        /\ \/ evolve' = NextIteration
           \/ /\ pending.state = "whole"
              /\ evolve' = [evolve EXCEPT !.at = "score", !.todo = pending.names]
    BY <1>4 DEF Read, Leave
  <2>2. CASE evolve' = NextIteration
    <3>1. evolve' = [evolve EXCEPT !.at = "propose", !.it = evolve.it + 1, !.todo = {}]
      BY <2>2 DEF NextIteration
    <3>2. evolve'.at = "propose" /\ evolve'.best = evolve.best /\ Evolving'
      BY <2>1, <3>1, NextTyped DEF E
    <3> QED
      BY <2>1, <3>2 DEF OneWriter, OwnList, OwnProposals, FrontierInv, FrontierTrue, E
  <2>3. CASE /\ pending.state = "whole"
             /\ evolve' = [evolve EXCEPT !.at = "score", !.todo = pending.names]
    <3>1. /\ evolve'.at = "score" /\ evolve'.it = evolve.it /\ evolve'.best = evolve.best
          /\ Evolving'
      BY <2>1, <2>3 DEF Evolving, E, OwnList
    <3> QED
      BY <2>1, <2>3, <3>1 DEF OneWriter, OwnList, OwnProposals, FrontierInv, FrontierTrue, E
  <2> QED
    BY <2>1, <2>2, <2>3
<1>5. CASE Score
  <2>1. PICK n \in evolve.todo : \E e \in Evaluations(n) : scored' = scored \cup {e} /\ Improve(e)
    BY <1>5 DEF Score
  <2>2. n \in Name /\ E("score") /\ UNCHANGED <<stray, session, pending>>
    BY <1>5 DEF Score, Evolving, files
  <2>3. Evolving' /\ FrontierInv' /\ evolve'.at = "score" /\ evolve'.it = evolve.it
    BY <2>1, <2>2, ImproveKeeps
  <2> QED
    BY <2>2, <2>3 DEF OneWriter, OwnList, OwnProposals, E
<1>6. CASE Invalid
  <2>1. PICK n \in evolve.todo : evolve' = [evolve EXCEPT !.todo = evolve.todo \ {n}]
    BY <1>6 DEF Invalid
  <2>2. E("score") /\ UNCHANGED <<stray, session, pending, frontier, scored>>
    BY <1>6 DEF Invalid, files
  <2>3. /\ evolve'.at = evolve.at /\ evolve'.it = evolve.it /\ evolve'.best = evolve.best
        /\ Evolving'
    BY <2>1, <2>2 DEF Evolving, E
  <2> QED
    BY <2>2, <2>3 DEF OneWriter, OwnList, OwnProposals, FrontierInv, FrontierTrue, E
<1>10. CASE Hang
  <2>1. /\ evolve' = [evolve EXCEPT !.at = "hung"] /\ E("score")
        /\ UNCHANGED <<stray, session, pending, frontier, scored>>
    BY <1>10 DEF Hang, files
  <2>2. evolve'.at = "hung" /\ evolve'.best = evolve.best /\ Evolving'
    BY <2>1 DEF Evolving, E
  <2> QED
    BY <2>1, <2>2 DEF OneWriter, OwnList, OwnProposals, FrontierInv, FrontierTrue, E
<1>7. CASE EndIteration
  <2>1. /\ evolve' = [evolve EXCEPT !.at = "propose", !.it = evolve.it + 1, !.todo = {}]
        /\ E("score") /\ UNCHANGED <<stray, session, pending, frontier, scored>>
    BY <1>7 DEF EndIteration, NextIteration, files
  <2>2. evolve'.at = "propose" /\ evolve'.best = evolve.best /\ Evolving'
    BY <2>1, NextTyped DEF E
  <2> QED
    BY <2>1, <2>2 DEF OneWriter, OwnList, OwnProposals, FrontierInv, FrontierTrue, E
<1>8. CASE \/ StartMeasure \/ (\E i \in Item : SolveItem(i)) \/ (\E i \in Item : Keep(i))
           \/ Written \/ Report \/ MeasureDies \/ EditBridge \/ UNCHANGED evolveVars
  <2>1. UNCHANGED <<evolve, frontier, scored, session, stray, pending>>
    BY <1>8 DEF StartMeasure, SolveItem, Keep, Written, Report, MeasureDies, EditBridge, evolveVars,
                evolution, files
  <2> QED
    BY <2>1 DEF OneWriter, Evolving, OwnList, OwnProposals, FrontierInv, FrontierTrue, E
<1>9. CASE SessionStep
  <2>1. /\ E("session") /\ UNCHANGED <<stray, evolve, frontier, scored>>
        /\ \/ pending' = pending
           \/ pending' = Torn(evolve.it)
           \/ \E names \in SUBSET Name : pending' = Whole(evolve.it, names)
    BY <1>9, SessionFrame
  <2> QED
    BY <2>1 DEF OneWriter, Evolving, OwnList, OwnProposals, FrontierInv, FrontierTrue, E, Torn, Whole
<1> QED
  BY <1>1, <1>2, <1>3, <1>4, <1>5, <1>6, <1>7, <1>8, <1>9, <1>10, StepCases

-----------------------------------------------------------------------------
(* The baseline runs *)

LEMMA NoCodeTyped == NoCode \in Code /\ NoRecord = NoCode
BY DEF NoCode, NoRecord, Code

\* What of a run a step may replace.
LEMMA MeasureFields ==
  ASSUME MeasureTyped, NEW m \in [Item -> Code], NEW s \in {"idle", "run", "write"}
  PROVE  /\ [measure EXCEPT !.loaded = m] \in
              [at : {"idle", "run", "write"}, code : Code,
               records : [Item -> Code], loaded : [Item -> Code]]
         /\ [measure EXCEPT !.records = m, !.at = s] \in
              [at : {"idle", "run", "write"}, code : Code,
               records : [Item -> Code], loaded : [Item -> Code]]
BY DEF MeasureTyped

LEMMA BaselineInvStep ==
  ASSUME LateWrites = FALSE, KeyedByBridge = TRUE, OneWriter, BaselineInv, [EvolveNext]_evolveVars
  PROVE  BaselineInv'
<1> USE DEF BaselineInv
<1>1. CASE StartMeasure
  <2> DEFINE now == [harness |-> code[Harness], bridge |-> bridge]
             found == [i \in Item |-> IF RecordKey(now, i) \in DOMAIN cache.records
                                      THEN cache.records[RecordKey(now, i)] ELSE NoRecord]
  <2>1. /\ measure' = [NoMeasure EXCEPT !.at = "run", !.code = now, !.records = found]
        /\ Free /\ Loads(Harness)
        /\ UNCHANGED <<evolve, code, bridge, cache>>
    BY <1>1 DEF StartMeasure, files, evolution
  <2>2. now \in Code /\ now # NoCode
    BY <2>1, EvolveAssumption DEF MeasureTyped, Code, Loads, NoCode
  <2>3. \A i \in Item : RecordKey(now, i) = <<now.harness, now.bridge, i>>
    BY DEF RecordKey
  <2>4. \A i \in Item : found[i] \in {NoRecord, now}
    BY <2>3 DEF CacheInv
  <2>5. found \in [Item -> Code]
    BY <2>2, <2>4, NoCodeTyped
  <2>6. now.harness = code[Harness]
    OBVIOUS
  <2> HIDE DEF now, found
  <2>7. measure' = [at |-> "run", code |-> now, records |-> found,
                    loaded |-> [i \in Item |-> NoCode]]
    BY <2>1 DEF NoMeasure
  <2>8. MeasureTyped'
    BY <2>1, <2>2, <2>5, <2>7, NoCodeTyped DEF MeasureTyped
  <2>9. MeasureInv'
    <3>1. /\ measure'.code = now /\ measure'.records = found
          /\ measure'.loaded = [i \in Item |-> NoCode]
      BY <2>7
    <3> QED
      BY <2>1, <2>2, <2>4, <2>6, <3>1 DEF MeasureInv, Free, E
  <2>10. CacheInv'
    BY <2>1 DEF CacheInv
  <2> QED
    BY <2>8, <2>9, <2>10
<1>2. CASE \E i \in Item : SolveItem(i)
  <2> DEFINE now == [harness |-> code[Harness], bridge |-> measure.code.bridge]
  <2>1. PICK i \in Item : SolveItem(i)
    BY <1>2
  <2>2. /\ B("run") /\ UNCHANGED <<evolve, code, bridge, cache>>
        /\ measure' = [measure EXCEPT !.loaded = [measure.loaded EXCEPT ![i] = now]]
    BY <2>1 DEF SolveItem, files, evolution
  <2>3. now = measure.code
    BY <2>2 DEF MeasureInv, MeasureTyped, Code, B
  <2> HIDE DEF now
  <2> DEFINE m == [measure.loaded EXCEPT ![i] = now]
  <2>4. m \in [Item -> Code] /\ \A j \in Item : m[j] \in {measure.loaded[j], now}
    BY <2>3 DEF MeasureTyped
  <2> HIDE DEF m
  <2>5. /\ measure'.at = measure.at /\ measure'.code = measure.code
        /\ measure'.records = measure.records /\ measure'.loaded = m
    BY <2>2 DEF m, MeasureTyped
  <2>6. MeasureTyped'
    <3>1. measure' = [measure EXCEPT !.loaded = m]
      BY <2>2 DEF m
    <3>2. measure' \in [at : {"idle", "run", "write"}, code : Code,
                        records : [Item -> Code], loaded : [Item -> Code]]
      BY <2>4, <3>1, MeasureFields, Zenon
    <3> QED
      BY <2>2, <3>2 DEF MeasureTyped
  <2> QED
    BY <2>2, <2>3, <2>4, <2>5, <2>6 DEF MeasureInv, CacheInv, B, E
<1>3. CASE \E i \in Item : Keep(i)
  <2>1. PICK i \in Item : Keep(i)
    BY <1>3
  <2>2. PICK kept \in BOOLEAN :
          /\ measure' = [measure EXCEPT
               !.records = [measure.records EXCEPT ![i] = measure.loaded[i]],
               !.at = IF kept THEN "write" ELSE measure.at]
          /\ cache' = IF kept THEN [state |-> "torn", records |-> Remember(i, measure.loaded[i])]
                      ELSE cache
    <3>1. PICK error \in BOOLEAN :
          /\ measure' = [measure EXCEPT
               !.records = [measure.records EXCEPT ![i] = measure.loaded[i]],
               !.at = IF ~error \/ KeepsErrors THEN "write" ELSE measure.at]
          /\ cache' = IF ~error \/ KeepsErrors
                      THEN [state |-> "torn", records |-> Remember(i, measure.loaded[i])]
                      ELSE cache
      BY <2>1 DEF Keep
    <3> QED
      BY <3>1
  <2>3. B("run") /\ UNCHANGED <<evolve, code, bridge>> /\ measure.loaded[i] # NoCode
    BY <2>1 DEF Keep, files, evolution
  <2>4. measure.loaded[i] = measure.code /\ measure.code \in Code
    BY <2>3 DEF MeasureInv, MeasureTyped, B
  <2> DEFINE m == [measure.records EXCEPT ![i] = measure.loaded[i]]
             s == IF kept THEN "write" ELSE measure.at
  <2>5. m \in [Item -> Code] /\ \A j \in Item : m[j] \in {measure.records[j], measure.code}
    BY <2>4 DEF MeasureTyped
  <2>6. s \in {"run", "write"} /\ s \in {"idle", "run", "write"}
    BY <2>3 DEF B
  <2>7. measure' = [measure EXCEPT !.records = m, !.at = s]
    BY <2>2, Zenon
  <2> HIDE DEF m, s
  <2>8. /\ measure'.at = s /\ measure'.code = measure.code
        /\ measure'.records = m /\ measure'.loaded = measure.loaded
    BY <2>7 DEF MeasureTyped
  <2>9. MeasureTyped'
    <3>1. measure' \in [at : {"idle", "run", "write"}, code : Code,
                        records : [Item -> Code], loaded : [Item -> Code]]
      BY <2>5, <2>6, <2>7, MeasureFields, Zenon
    <3> QED
      BY <2>3, <3>1 DEF MeasureTyped
  <2>10. CacheInv'
    <3>1. CASE cache' = cache
      BY <3>1 DEF CacheInv
    <3>2. CASE cache' = [state |-> "torn", records |-> Remember(i, measure.code)]
      <4> DEFINE key == <<measure.code.harness, measure.code.bridge, i>>
      <4>1. Remember(i, measure.code) =
              [k \in DOMAIN cache.records \cup {key} |->
                 IF k = key THEN measure.code ELSE cache.records[k]]
        BY DEF Remember, RecordKey
      <4>2. measure.code = [harness |-> key[1], bridge |-> key[2]]
        BY <2>4 DEF Code
      <4> HIDE DEF key
      <4>3. \A k \in DOMAIN cache.records \cup {key} :
              Remember(i, measure.code)[k] = [harness |-> k[1], bridge |-> k[2]]
        BY <4>1, <4>2 DEF CacheInv
      <4>4. DOMAIN Remember(i, measure.code) = DOMAIN cache.records \cup {key}
        BY <4>1
      <4> QED
        BY <3>2, <4>3, <4>4 DEF CacheInv
    <3> QED
      BY <2>2, <2>4, <3>1, <3>2
  <2> QED
    BY <2>3, <2>5, <2>6, <2>8, <2>9, <2>10 DEF MeasureInv, B, E
<1>4. CASE Written
  <2>1. /\ measure' = [measure EXCEPT !.at = "run"] /\ B("write")
        /\ cache' = [cache EXCEPT !.state = "whole"]
        /\ UNCHANGED <<evolve, code, bridge>>
    BY <1>4 DEF Written, files, evolution
  <2>2. /\ measure'.at = "run" /\ measure'.code = measure.code
        /\ measure'.records = measure.records /\ measure'.loaded = measure.loaded
        /\ MeasureTyped'
    BY <2>1 DEF MeasureTyped
  <2>3. CacheInv'
    <3>1. cache' = [state |-> "whole", records |-> cache.records]
      BY <2>1 DEF CacheInv
    <3> QED
      BY <3>1 DEF CacheInv
  <2> QED
    BY <2>1, <2>2, <2>3 DEF MeasureInv, B, E
<1>5. CASE Report \/ MeasureDies
  <2>1. measure' = NoMeasure /\ UNCHANGED <<code, bridge, cache>>
    BY <1>5 DEF Report, MeasureDies, files
  <2> QED
    BY <2>1, NoCodeTyped DEF NoMeasure, MeasureTyped, CacheInv, MeasureInv, B
<1>6. CASE EditBridge
  <2>1. B("idle") /\ bridge' = bridge + 1 /\ UNCHANGED <<code, measure, cache>>
    BY <1>6 DEF EditBridge, Free, files
  <2> QED
    BY <2>1 DEF MeasureTyped, CacheInv, MeasureInv, B
<1>7. CASE StartEvolve
  <2>1. B("idle") /\ UNCHANGED <<code, measure, cache, bridge>>
    BY <1>7 DEF StartEvolve, Free, files, measuring
  <2> QED
    BY <2>1 DEF MeasureTyped, CacheInv, MeasureInv, B
<1>8. CASE \/ Propose \/ EndEvolve \/ Read \/ ReadFails \/ Score \/ Hang \/ Invalid
           \/ EndIteration \/ EvolveDies
  <2>1. ~E("idle") /\ UNCHANGED <<code, measure, cache, bridge>>
    BY <1>8 DEF Propose, EndEvolve, Read, ReadFails, Score, Hang, Invalid, EndIteration,
                EvolveDies,
                E, files, measuring
  <2> QED
    BY <2>1 DEF MeasureTyped, CacheInv, MeasureInv, B
<1>9. CASE SessionStep
  <2>1. /\ E("session") /\ UNCHANGED <<measure, cache, bridge>>
        /\ code' = code \/ \E n \in Name : code' = [code EXCEPT ![n] = @ + 1]
    BY <1>9, SessionFrame
  <2>2. B("idle")
    BY <2>1 DEF MeasureInv, E
  <2>3. code' \in [Name -> Nat]
    BY <2>1 DEF MeasureTyped
  <2> QED
    BY <2>1, <2>2, <2>3 DEF MeasureTyped, CacheInv, MeasureInv, B
<1>10. CASE UNCHANGED evolveVars
  BY <1>10 DEF evolveVars, files, evolution, measuring, MeasureTyped, CacheInv, MeasureInv, B, E
<1> QED
  BY <1>1, <1>2, <1>3, <1>4, <1>5, <1>6, <1>7, <1>8, <1>9, <1>10, StepCases

-----------------------------------------------------------------------------

LEMMA InvariantsInit ==
  ASSUME EvolveInit
  PROVE  EvolveInv /\ BaselineInv
<1>1. EvolveInv
  BY DEF EvolveInit, EvolveInv, OneWriter, Evolving, OwnList, OwnProposals, FrontierInv, FrontierTrue,
         E, NoEvolve, NoPending
<1>2. code \in [Name -> Nat]
  BY DEF EvolveInit
<1>3. MeasureTyped /\ MeasureInv
  BY <1>2, NoCodeTyped DEF EvolveInit, NoMeasure, MeasureTyped, MeasureInv, B
<1>4. CacheInv
  <2>1. DOMAIN [k \in {} |-> NoRecord] = {}
    OBVIOUS
  <2> QED
    BY <2>1 DEF EvolveInit, NoCache, CacheInv
<1> QED
  BY <1>1, <1>3, <1>4 DEF BaselineInv

(* What a session of text_to_sql/evolve.py is shown as the best harness is *)
(* the best the driver has scored, the report is about it, and the list an *)
(* iteration scores was written by its own session - if no session leaves  *)
(* a writer behind.                                                        *)
THEOREM FrontierIsEarned ==
  ASSUME LateWrites = FALSE
  PROVE  EvolveSpec => []FrontierEarned
<1>1. EvolveInit => EvolveInv
  BY InvariantsInit
<1>2. EvolveInv /\ [EvolveNext]_evolveVars => EvolveInv'
  BY EvolveInvStep
<1>3. EvolveInv => FrontierEarned
  BY DEF EvolveInv, OwnList, FrontierInv, FrontierEarned
<1> QED
  BY <1>1, <1>2, <1>3, PTL DEF EvolveSpec

(* Every record of a baseline run was measured on the harness its digest   *)
(* names and on the bridge of the day, through deaths, resumptions and     *)
(* edits in between - if the digest covers the bridge, as ds1000's does,   *)
(* and no session leaves a writer behind.                                  *)
THEOREM ReportsAreHonest ==
  ASSUME LateWrites = FALSE, KeyedByBridge = TRUE
  PROVE  EvolveSpec => []ReportHonest
<1>1. EvolveInit => EvolveInv /\ BaselineInv
  BY InvariantsInit
<1>2. EvolveInv /\ [EvolveNext]_evolveVars => EvolveInv'
  BY EvolveInvStep
<1>3. EvolveInv /\ BaselineInv /\ [EvolveNext]_evolveVars => BaselineInv'
  BY BaselineInvStep DEF EvolveInv
<1>4. BaselineInv => ReportHonest
  BY DEF BaselineInv, MeasureInv, ReportHonest, Unmeasured, B
<1> QED
  BY <1>1, <1>2, <1>3, <1>4, PTL DEF EvolveSpec
=============================================================================
