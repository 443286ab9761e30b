---------------------------- MODULE StudyProofs ----------------------------
(***************************************************************************)
(* Safety of the tau3 drivers for every set of causes, every number of     *)
(* rounds, groups and candidates.                                          *)
(*                                                                         *)
(* The first part is the study, for any arms and any number of deaths and  *)
(* reruns: a replayed round ends where an uninterrupted one does           *)
(* (RoundsReplayed), so that the study plays its rounds one by one         *)
(* (RoundsAreAtomic), its audit log agrees with the memories               *)
(* (AuditIsTrue), and rules mature in turn (NoneOvertaken).  These assume  *)
(* by name TornSnapshots = FALSE: no process is killed while it copies the *)
(* memory file that a round starts from.                                   *)
(*                                                                         *)
(* The second part is the round loop of the runner, the round driver and   *)
(* the sweep: the round driver promotes nothing (NothingIsPromoted) and    *)
(* the runner's reports are true (ReportsAreTrue).                         *)
(***************************************************************************)
EXTENDS Study, RoundLoop, FiniteSetTheorems, WellFoundedInduction, TLAPS

-----------------------------------------------------------------------------
(* StudyRounds computes with its own copy of the memory's operators.       *)

LEMMA SameCardinality == \A S : Rounds_!Cardinality(S) = Cardinality(S)
BY DEF Rounds_!Cardinality, Cardinality

LEMMA SameRules ==
  /\ Rounds_!Rounds = Rounds
  /\ Rounds_!Rule = Rule
  /\ Rounds_!NoRow = NoRow
  /\ Rounds_!EmptyMemory = EmptyMemory
<1>1. Rounds_!Rounds = Rounds /\ Rounds_!Rule = Rule
  BY DEF Rounds_!Rounds, Rounds, Rounds_!Rule, Rule
<1>2. Rounds_!NoRow = NoRow
  BY DEF Rounds_!NoRow, NoRow
<1> QED
  BY <1>1, <1>2 DEF Rounds_!EmptyMemory, EmptyMemory

LEMMA SameSets ==
  ASSUME NEW m
  PROVE  /\ Rounds_!Pending(m) = Pending(m)
         /\ Rounds_!Validated(m) = Validated(m)
         /\ Rounds_!Volatile(m) = Volatile(m)
BY SameRules DEF Rounds_!Pending, Pending, Rounds_!Validated, Validated,
                 Rounds_!Volatile, Volatile

LEMMA SameOperations ==
  ASSUME NEW m
  PROVE  /\ \A k : Rounds_!Advance(m, k) = Advance(m, k)
         /\ \A r : Rounds_!StageAdd(m, r) = StageAdd(m, r)
         /\ \A r, k, success : Rounds_!RecordRound(m, r, k, success) = RecordRound(m, r, k, success)
         /\ Rounds_!Promote(m) = Promote(m)
<1>1. \A k : Rounds_!Advance(m, k) = Advance(m, k)
  BY SameRules, SameSets DEF Rounds_!Advance, Advance
<1>2. \A r : Rounds_!StageAdd(m, r) = StageAdd(m, r)
  BY SameRules DEF Rounds_!StageAdd, StageAdd
<1>3. \A r, k, success : Rounds_!RecordRound(m, r, k, success) = RecordRound(m, r, k, success)
  BY SameRules DEF Rounds_!RecordRound, RecordRound, Rounds_!UnderValidation, UnderValidation
<1>4. \A row : Rounds_!Confident(row) = Confident(row)
  BY SameCardinality DEF Rounds_!Confident, Confident
<1>5. \A k : Rounds_!GroupOf(k) = GroupOf(k)
  BY DEF Rounds_!GroupOf, GroupOf
<1>6. \A row : Rounds_!Blockers(row) = Blockers(row)
  BY <1>4, <1>5, SameCardinality DEF Rounds_!Blockers, Blockers
<1>7. Rounds_!Promote(m) = Promote(m)
  BY <1>6, SameRules DEF Rounds_!Promote, Promote
<1> QED
  BY <1>1, <1>2, <1>3, <1>7

LEMMA SameCandidates ==
  ASSUME NEW m
  PROVE  Candidates(m) = Rounds_!CandidateRules(m, Round)
<1>1. \A r : Rounds_!CreatedIn(r) = CreatedIn(r)
  BY DEF Rounds_!CreatedIn, CreatedIn
<1> QED
  BY <1>1, SameSets, SameCardinality DEF Candidates, Rounds_!CandidateRules, FirstOf, Rounds_!FirstOf

-----------------------------------------------------------------------------
(* Smallest elements.                                                      *)

LEMMA MinOfNaturals ==
  ASSUME NEW S \in SUBSET Nat, S # {}
  PROVE  Min(S) \in S /\ \A x \in S : Min(S) <= x
<1>1. \E x \in S : \A y \in S : ~(<<y, x>> \in OpToRel(<, Nat))
  BY NatLessThanWellFounded, WFMin
<1>2. PICK x \in S : \A y \in S : ~(<<y, x>> \in OpToRel(<, Nat))
  BY <1>1
<1>3. \A y \in S : x <= y
  <2> TAKE y \in S
  <2>1. x \in Nat /\ y \in Nat /\ <<y, x>> \in Nat \X Nat
    OBVIOUS
  <2>2. ~(y < x)
    BY <1>2, <2>1 DEF OpToRel
  <2> QED
    BY <2>1, <2>2
<1> QED
  BY <1>3 DEF Min

\* A strict order has a first element in every finite, nonempty set.
LEMMA FirstExists ==
  ASSUME NEW K, IsFiniteSet(K), K # {}, NEW R,
         \A x, y, z \in K : <<x, y>> \in R /\ <<y, z>> \in R => <<x, z>> \in R,
         \A x \in K : <<x, x>> \notin R
  PROVE  \E k \in K : \A j \in K : <<j, k>> \notin R
<1> DEFINE before(k) == {j \in K : <<j, k>> \in R}
           heads == {before(k) : k \in K}
<1>1. heads \subseteq FiniteSubsetsOf(K) /\ heads # {}
  <2>1. ASSUME NEW k \in K  PROVE before(k) \in SUBSET K /\ IsFiniteSet(before(k))
    BY FS_Subset
  <2>2. ASSUME NEW k \in K  PROVE before(k) \in FiniteSubsetsOf(K)
    BY <2>1 DEF FiniteSubsetsOf
  <2>3. PICK k \in K : TRUE
    OBVIOUS
  <2>4. before(k) \in heads
    OBVIOUS
  <2>5. ASSUME NEW h \in heads  PROVE h \in FiniteSubsetsOf(K)
    <3>1. PICK x \in K : h = before(x)
      OBVIOUS
    <3> HIDE DEF before
    <3> QED
      BY <3>1, <2>2
  <2> HIDE DEF heads
  <2> QED
    BY <2>4, <2>5
<1>2. PICK t \in heads : \A u \in heads : ~(<<u, t>> \in StrictSubsetOrdering(K))
  BY <1>1, FS_StrictSubsetOrderingWellFounded, WFMin
<1>3. PICK k \in K : t = before(k)
  BY <1>2
<1>4. ASSUME NEW j \in K, <<j, k>> \in R  PROVE FALSE
  <2>1. before(j) \subseteq before(k)
    BY <1>4
  <2>2. j \in before(k) /\ j \notin before(j)
    BY <1>4
  <2>3. <<before(j), before(k)>> \in StrictSubsetOrdering(K)
    BY <2>1, <2>2 DEF StrictSubsetOrdering
  <2> QED
    BY <2>3, <1>2, <1>3
<1> QED
  BY <1>4

-----------------------------------------------------------------------------
(* Whose turn it is.                                                       *)

LEMMA ArmsListed ==
  /\ Arm = {Arms[i] : i \in DOMAIN Arms}
  /\ Len(Arms) \in Nat /\ Len(Arms) > 0 /\ DOMAIN Arms = 1..Len(Arms)
  /\ Arm # {}
<1>1. Arm = {Arms[i] : i \in DOMAIN Arms}
  BY DEF Arm, Rounds_!Arm
<1>2. Len(Arms) \in Nat /\ Len(Arms) > 0 /\ DOMAIN Arms = 1..Len(Arms)
  BY StudyAssumption
<1> QED
  BY <1>1, <1>2

LEMMA ModUnique ==
  ASSUME NEW n \in Nat, n > 0, NEW q \in Int, NEW r \in 0..(n - 1)
  PROVE  (q * n + r) % n = r
OBVIOUS

\* Every arm has its turn in every round.
LEMMA TurnIsFair ==
  ASSUME NEW k \in Nat
  PROVE  /\ DOMAIN Turn(k) = 1..Len(Arms)
         /\ \A i \in DOMAIN Turn(k) : Turn(k)[i] \in Arm
         /\ \A a \in Arm : \E i \in DOMAIN Arms : Turn(k)[i] = a
<1> DEFINE n == Len(Arms)
<1>1. n \in Nat /\ n > 0 /\ DOMAIN Arms = 1..n
  BY ArmsListed
<1>2. DOMAIN Turn(k) = 1..n
  BY <1>1 DEF Turn
<1>3. ASSUME NEW i \in 1..n  PROVE Turn(k)[i] \in Arm
  <2>1. ((k + i - 1) % n) + 1 \in 1..n
    BY <1>1
  <2> QED
    BY <2>1, <1>1, ArmsListed DEF Turn
<1>4. ASSUME NEW a \in Arm  PROVE \E i \in DOMAIN Arms : Turn(k)[i] = a
  <2>1. PICK j \in 1..n : a = Arms[j]
    BY <1>1, ArmsListed
  <2> DEFINE d == j - 1 - k
             i == (d % n) + 1
             q == d \div n
  <2>2. d \in Int /\ d % n \in 0..(n - 1) /\ q \in Int /\ d = q * n + (d % n)
    BY <1>1
  <2>3. i \in 1..n
    BY <2>2, <1>1
  <2>4. k + i - 1 = (0 - q) * n + (j - 1)
    <3>1. k + i - 1 = k + (d - q * n)
      <4>1. q * n \in Int
        BY <2>2, <1>1
      <4> QED
        BY <2>2, <4>1
    <3>2. q * n \in Int /\ (0 - q) * n = 0 - q * n
      BY <2>2, <1>1
    <3> QED
      BY <3>1, <3>2
  <2>5. (k + i - 1) % n = j - 1
    <3>1. j - 1 \in 0..(n - 1) /\ 0 - q \in Int
      BY <2>2, <1>1
    <3>2. ((0 - q) * n + (j - 1)) % n = j - 1
      BY <3>1, <1>1, ModUnique
    <3> QED
      BY <3>2, <2>4
  <2>6. Turn(k)[i] = Arms[j]
    BY <2>5, <2>3, <1>1 DEF Turn
  <2> QED
    BY <2>1, <2>3, <2>6, <1>1
<1> QED
  BY <1>2, <1>3, <1>4

\* The round in progress, and the arm that plays it.
LEMMA RoundAndArm ==
  ASSUME finished \in [Arm -> 0..MaxRound]
  PROVE  /\ Round \in Nat /\ Round >= 1
         /\ \A a \in Arm : finished[a] >= Round - 1
         /\ Now \in Arm /\ finished[Now] = Round - 1
         /\ ~Complete => Round \in Rounds
<1> DEFINE S == {finished[a] : a \in Arm}
           open == {i \in DOMAIN Arms : finished[Turn(Round)[i]] < Round}
<1>1. S \subseteq Nat /\ S # {} /\ MaxRound \in Nat
  <2>1. MaxRound \in Nat /\ 0..MaxRound \subseteq Nat
    BY GuidelineAssumption
  <2>2. \A a \in Arm : finished[a] \in Nat
    BY <2>1
  <2>3. PICK a \in Arm : TRUE
    BY ArmsListed
  <2>4. finished[a] \in S
    OBVIOUS
  <2> QED
    BY <2>1, <2>2, <2>4
<1>2. Min(S) \in S /\ \A x \in S : Min(S) <= x
  BY <1>1, MinOfNaturals
<1>3. PICK first \in Arm : finished[first] = Min(S)
  BY <1>2
<1>4. Round = 1 + Min(S) /\ Round \in Nat /\ Round >= 1
  <2>1. Min(S) \in Nat
    BY <1>1, <1>2
  <2> QED
    BY <2>1 DEF Round
<1>5. \A a \in Arm : finished[a] >= Round - 1
  BY <1>2, <1>4, <1>1
<1>6. open \in SUBSET Nat /\ open # {}
  <2>1. PICK i \in DOMAIN Arms : Turn(Round)[i] = first
    BY <1>4, TurnIsFair
  <2>2. finished[first] < Round
    BY <1>3, <1>4, <1>1
  <2> QED
    BY <2>1, <2>2, ArmsListed
<1>7. Min(open) \in open
  BY <1>6, MinOfNaturals
<1>8. Now \in Arm /\ finished[Now] < Round
  BY <1>7, <1>4, TurnIsFair, ArmsListed DEF Now
<1>9. finished[Now] = Round - 1
  BY <1>8, <1>5, <1>4, <1>1
<1>10. ~Complete => Round \in Rounds
  <2>1. SUFFICES ASSUME ~Complete PROVE Round <= MaxRound
    BY <1>4, <1>1 DEF Rounds
  <2>2. PICK a \in Arm : finished[a] # MaxRound
    BY <2>1 DEF Complete
  <2>3. finished[a] < MaxRound /\ finished[a] >= Round - 1
    BY <2>2, <1>5, <1>1
  <2> QED
    BY <2>3, <1>4, <1>1
<1> QED
  BY <1>4, <1>5, <1>8, <1>9, <1>10

-----------------------------------------------------------------------------
(* What the operations make of a memory.                                   *)

Memory == [row : [Rule -> Row], last : Nat]

\* A memory that has seen the rounds up to k; no rule of it is older.
SeenUpTo(m, k) ==
  /\ m \in Memory /\ m.last = k
  /\ \A r \in Rule : m.row[r].age <= k

LEMMA RowTyped ==
  /\ NoRow \in Row
  /\ \A s \in PatchStatus : [NoRow EXCEPT !.patch = s] \in Row
  /\ SeenUpTo(EmptyMemory, 0)
<1>1. NoRow \in Row
  BY GuidelineAssumption DEF NoRow, Row, PatchStatus
<1>2. \A s \in PatchStatus : [NoRow EXCEPT !.patch = s] \in Row
  BY <1>1 DEF Row
<1>3. SeenUpTo(EmptyMemory, 0)
  BY <1>1 DEF EmptyMemory, SeenUpTo, Memory, NoRow
<1> QED
  BY <1>1, <1>2, <1>3

\* advance, at the next round, changes nothing but ages.
LEMMA AdvanceAges ==
  ASSUME NEW k \in Rounds, NEW m, SeenUpTo(m, k - 1)
  PROVE  /\ SeenUpTo(Advance(m, k), k)
         /\ \A r \in Rule :
              /\ Advance(m, k).row[r].patch = m.row[r].patch
              /\ Advance(m, k).row[r].stable = m.row[r].stable
              /\ Advance(m, k).row[r].measured = m.row[r].measured
              /\ Advance(m, k).row[r].won = m.row[r].won
              /\ Advance(m, k).row[r].lost = m.row[r].lost
<1> DEFINE aged(r) == [m.row[r] EXCEPT !.age = @ + (k - m.last)]
           rows == [r \in Rule |-> IF r \in Pending(m) \cup Volatile(m) /\ m.last # 0
                                   THEN aged(r) ELSE m.row[r]]
<1>1. k \in Nat /\ k >= 1 /\ k <= MaxRound /\ MaxRound \in Nat
  BY GuidelineAssumption DEF Rounds
<1>2. m \in Memory /\ m.last = k - 1
  BY DEF SeenUpTo
<1>3. Advance(m, k) = [row |-> rows, last |-> k]
  BY <1>1, <1>2 DEF Advance
<1>4. ASSUME NEW r \in Rule
      PROVE  /\ rows[r] \in Row /\ rows[r].age <= k
             /\ rows[r].patch = m.row[r].patch /\ rows[r].stable = m.row[r].stable
             /\ rows[r].measured = m.row[r].measured
             /\ rows[r].won = m.row[r].won /\ rows[r].lost = m.row[r].lost
  <2>1. m.row[r] \in Row /\ m.row[r].age <= k - 1 /\ m.row[r].age \in 0..MaxRound
    BY <1>2 DEF Memory, Row, SeenUpTo
  <2> HIDE DEF rows
  <2>2. CASE rows[r] = m.row[r]
    BY <2>1, <2>2, <1>1
  <2>3. CASE rows[r] = aged(r)
    <3>1. m.row[r].age + (k - m.last) \in 0..MaxRound /\ m.row[r].age + (k - m.last) <= k
      BY <2>1, <1>1, <1>2
    <3> QED
      BY <3>1, <2>1, <2>3 DEF Row
  <2> QED
    BY <2>2, <2>3 DEF rows
<1> HIDE DEF rows
<1>5. rows \in [Rule -> Row]
  <2>1. rows = [r \in Rule |-> rows[r]]
    BY DEF rows
  <2> QED
    BY <2>1, <1>4
<1> QED
  BY <1>1, <1>3, <1>4, <1>5 DEF SeenUpTo, Memory

\* What a measured candidate's row becomes.
JudgedRow(row, k, delta) ==
  LET touched == [row EXCEPT !.measured = k]
  IN  IF delta = 0 \/ row.patch \notin {"pending", "validated"} \/ k \in row.won \cup row.lost
      THEN touched
      ELSE IF delta > 0 THEN [touched EXCEPT !.patch = "validated", !.won = @ \cup {k}]
      ELSE IF row.patch = "pending" THEN [NoRow EXCEPT !.patch = "rolled_back"]
      ELSE [touched EXCEPT !.lost = @ \cup {k}]

\* A candidate changes its own row, as that row says.
LEMMA JudgedLocally ==
  ASSUME NEW m \in Memory, NEW r \in Rule, NEW k \in Rounds, NEW delta
  PROVE  Rounds_!Judged(m, r, k, delta)
           = [m EXCEPT !.row = [@ EXCEPT ![r] = JudgedRow(m.row[r], k, delta)]]
<1> DEFINE touched == [m EXCEPT !.row[r].measured = k]
           row == m.row[r]
<1>1. row \in Row /\ m.row \in [Rule -> Row]
  BY DEF Memory
<1>2. touched = [m EXCEPT !.row = [@ EXCEPT ![r] = [row EXCEPT !.measured = k]]]
  BY DEF Memory
<1>3. /\ touched.row[r] = [row EXCEPT !.measured = k]
      /\ touched.row[r].patch = row.patch
      /\ touched.row[r].won = row.won /\ touched.row[r].lost = row.lost
  BY <1>1, <1>2 DEF Memory, Row
<1>4. \A x : [touched EXCEPT !.row[r] = x] = [m EXCEPT !.row = [@ EXCEPT ![r] = x]]
  BY <1>1, <1>2 DEF Memory
<1>5. Rounds_!Judged(m, r, k, delta)
        = IF delta = 0 THEN touched ELSE RecordRound(touched, r, k, delta > 0)
  BY SameOperations DEF Rounds_!Judged
<1> HIDE DEF touched
<1>6. CASE delta = 0 \/ row.patch \notin {"pending", "validated"} \/ k \in row.won \cup row.lost
  <2>1. Rounds_!Judged(m, r, k, delta) = touched
    BY <1>3, <1>5, <1>6 DEF RecordRound, UnderValidation
  <2> QED
    BY <2>1, <1>2, <1>6 DEF JudgedRow
<1>7. CASE ~(delta = 0 \/ row.patch \notin {"pending", "validated"} \/ k \in row.won \cup row.lost)
  <2> DEFINE new == IF delta > 0
                    THEN [touched.row[r] EXCEPT !.patch = "validated", !.won = @ \cup {k}]
                    ELSE IF touched.row[r].patch = "pending" THEN [NoRow EXCEPT !.patch = "rolled_back"]
                    ELSE [touched.row[r] EXCEPT !.lost = @ \cup {k}]
  <2>1. Rounds_!Judged(m, r, k, delta) = [touched EXCEPT !.row[r] = new]
    BY <1>3, <1>5, <1>7 DEF RecordRound, UnderValidation
  <2>2. new = JudgedRow(row, k, delta)
    BY <1>3, <1>7 DEF JudgedRow
  <2> QED
    BY <2>1, <2>2, <1>4
<1> QED
  BY <1>6, <1>7

LEMMA JudgedTyped ==
  ASSUME NEW row \in Row, NEW k \in Rounds, NEW delta
  PROVE  JudgedRow(row, k, delta) \in Row /\ JudgedRow(row, k, delta).age <= row.age
<1>1. k \in 0..MaxRound /\ row.age \in 0..MaxRound
  BY GuidelineAssumption DEF Rounds, Row
<1> DEFINE touched == [row EXCEPT !.measured = k]
<1>2. touched \in Row /\ touched.age = row.age
  BY <1>1 DEF Row
<1>3. /\ [touched EXCEPT !.patch = "validated", !.won = @ \cup {k}] \in Row
      /\ [touched EXCEPT !.patch = "validated", !.won = @ \cup {k}].age = row.age
  BY <1>2 DEF Row, PatchStatus
<1>4. [touched EXCEPT !.lost = @ \cup {k}] \in Row /\ [touched EXCEPT !.lost = @ \cup {k}].age = row.age
  BY <1>2 DEF Row
<1>5. [NoRow EXCEPT !.patch = "rolled_back"] \in Row /\ [NoRow EXCEPT !.patch = "rolled_back"].age = 0
  BY RowTyped DEF PatchStatus, NoRow
<1> HIDE DEF touched
<1>6. \/ JudgedRow(row, k, delta) = touched
      \/ JudgedRow(row, k, delta) = [touched EXCEPT !.patch = "validated", !.won = @ \cup {k}]
      \/ JudgedRow(row, k, delta) = [touched EXCEPT !.lost = @ \cup {k}]
      \/ JudgedRow(row, k, delta) = [NoRow EXCEPT !.patch = "rolled_back"]
  BY DEF JudgedRow, touched
<1>7. row.age <= row.age /\ 0 <= row.age
  BY <1>1
<1> HIDE DEF JudgedRow
<1>8. CASE JudgedRow(row, k, delta) = touched
  BY <1>2, <1>7, <1>8
<1>9. CASE JudgedRow(row, k, delta) = [touched EXCEPT !.patch = "validated", !.won = @ \cup {k}]
  BY <1>3, <1>7, <1>9
<1>10. CASE JudgedRow(row, k, delta) = [touched EXCEPT !.lost = @ \cup {k}]
  BY <1>4, <1>7, <1>10
<1>11. CASE JudgedRow(row, k, delta) = [NoRow EXCEPT !.patch = "rolled_back"]
  BY <1>5, <1>7, <1>11
<1> QED
  BY <1>6, <1>8, <1>9, <1>10, <1>11

\* The memory after the rules of D were judged by their results.
AfterJudging(m, D, k, res) ==
  [m EXCEPT !.row = [r \in Rule |-> IF r \in D THEN JudgedRow(m.row[r], k, res[r])
                                    ELSE m.row[r]]]

LEMMA JudgingTyped ==
  ASSUME NEW k \in Rounds, NEW m, SeenUpTo(m, k), NEW D, NEW res
  PROVE  SeenUpTo(AfterJudging(m, D, k, res), k)
<1> DEFINE rows == [r \in Rule |-> IF r \in D THEN JudgedRow(m.row[r], k, res[r]) ELSE m.row[r]]
<1>1. m \in Memory /\ k \in Nat
  BY DEF SeenUpTo, Rounds
<1>2. ASSUME NEW r \in Rule  PROVE rows[r] \in Row /\ rows[r].age <= k
  <2>1. m.row[r] \in Row /\ m.row[r].age <= k /\ m.row[r].age \in Nat
    BY <1>1 DEF Memory, Row, SeenUpTo
  <2>2. JudgedRow(m.row[r], k, res[r]) \in Row
        /\ JudgedRow(m.row[r], k, res[r]).age <= m.row[r].age
    BY <2>1, JudgedTyped
  <2>3. JudgedRow(m.row[r], k, res[r]).age \in Nat
    BY <2>2 DEF Row
  <2> QED
    BY <2>1, <2>2, <2>3, <1>1
<1> HIDE DEF rows
<1>3. rows \in [Rule -> Row]
  <2>1. rows = [r \in Rule |-> rows[r]]
    BY DEF rows
  <2> QED
    BY <2>1, <1>2
<1>4. AfterJudging(m, D, k, res) = [m EXCEPT !.row = rows]
  BY DEF AfterJudging, rows
<1> QED
  BY <1>1, <1>2, <1>3, <1>4 DEF SeenUpTo, Memory

LEMMA PromoteTyped ==
  ASSUME NEW k, NEW m, SeenUpTo(m, k)
  PROVE  /\ SeenUpTo(Promote(m), k)
         /\ \A r \in Rule :
              Promote(m).row[r] = IF Blockers(m.row[r]) = {} THEN [m.row[r] EXCEPT !.stable = TRUE]
                                  ELSE m.row[r]
<1> DEFINE rows == [r \in Rule |-> IF Blockers(m.row[r]) = {} THEN [m.row[r] EXCEPT !.stable = TRUE]
                                   ELSE m.row[r]]
<1>1. m \in Memory
  BY DEF SeenUpTo
<1>2. ASSUME NEW r \in Rule  PROVE rows[r] \in Row /\ rows[r].age = m.row[r].age
  BY <1>1 DEF Memory, Row
<1>3. Promote(m) = [m EXCEPT !.row = rows]
  BY DEF Promote
<1>4. rows \in [Rule -> Row]
  BY <1>2
<1> HIDE DEF rows
<1>5. SeenUpTo(Promote(m), k)
  BY <1>1, <1>2, <1>3, <1>4 DEF SeenUpTo, Memory
<1>6. Promote(m).row = rows
  BY <1>1, <1>3 DEF Memory
<1> QED
  BY <1>5, <1>6 DEF rows

LEMMA ProposedIsRule ==
  ASSUME NEW k \in Rounds
  PROVE  Rounds_!Proposed(k) = <<k, 1>> /\ Rounds_!Proposed(k) \in Rule
BY StudyAssumption DEF Rounds_!Proposed, Rule

\* What the row named by the round becomes.
TakenRow(row, fate) ==
  IF fate = "rejected" THEN [NoRow EXCEPT !.patch = "rejected"]
  ELSE IF fate = "staged" /\ row.patch = "absent" THEN [NoRow EXCEPT !.patch = "pending"]
  ELSE row

\* Staging changes the proposed rule's row only.
LEMMA TakenLocally ==
  ASSUME NEW k \in Rounds, NEW m \in Memory, NEW fate \in Rounds_!Fate
  PROVE  Rounds_!Taken(m, k, fate)
           = [m EXCEPT !.row = [@ EXCEPT ![<<k, 1>>] = TakenRow(m.row[<<k, 1>>], fate)]]
<1> DEFINE p == <<k, 1>>
<1>1. p \in Rule /\ Rounds_!Proposed(k) = p /\ m.row \in [Rule -> Row]
  BY ProposedIsRule DEF Memory
<1>2. m = [m EXCEPT !.row = [@ EXCEPT ![p] = m.row[p]]]
  BY <1>1 DEF Memory
<1>3. CASE fate = "rejected"
  BY <1>1, <1>3, SameRules DEF Rounds_!Taken, TakenRow
<1>4. CASE fate = "staged"
  <2>1. Rounds_!Taken(m, k, fate) = StageAdd(m, p)
    BY <1>1, <1>4, SameOperations DEF Rounds_!Taken
  <2> QED
    BY <2>1, <1>2, <1>4 DEF StageAdd, TakenRow
<1>5. CASE fate = "none"
  <2>1. Rounds_!Taken(m, k, fate) = m
    BY <1>5 DEF Rounds_!Taken
  <2> QED
    BY <2>1, <1>2, <1>5 DEF TakenRow
<1> QED
  BY <1>3, <1>4, <1>5 DEF Rounds_!Fate

LEMMA TakenTyped ==
  ASSUME NEW k \in Rounds, NEW m, SeenUpTo(m, k), NEW fate \in Rounds_!Fate
  PROVE  SeenUpTo(Rounds_!Taken(m, k, fate), k)
<1> DEFINE p == <<k, 1>>
           new == TakenRow(m.row[p], fate)
           rows == [m.row EXCEPT ![p] = new]
<1>1. p \in Rule /\ k \in Nat /\ m \in Memory
  BY ProposedIsRule DEF Rounds, SeenUpTo
<1>2. m.row[p] \in Row /\ m.row[p].age <= k
  BY <1>1 DEF Memory, SeenUpTo
<1>3. new \in Row /\ new.age <= k
  <2>1. [NoRow EXCEPT !.patch = "rejected"] \in Row /\ [NoRow EXCEPT !.patch = "pending"] \in Row
    BY RowTyped DEF PatchStatus
  <2>2. [NoRow EXCEPT !.patch = "rejected"].age = 0 /\ [NoRow EXCEPT !.patch = "pending"].age = 0
    BY DEF NoRow
  <2> QED
    BY <2>1, <2>2, <1>1, <1>2 DEF TakenRow
<1> HIDE DEF new
<1>4. rows \in [Rule -> Row] /\ \A r \in Rule : rows[r] = IF r = p THEN new ELSE m.row[r]
  BY <1>1, <1>3 DEF Memory
<1>5. Rounds_!Taken(m, k, fate) = [m EXCEPT !.row = rows]
  BY <1>1, TakenLocally DEF new
<1> HIDE DEF rows
<1> QED
  BY <1>1, <1>3, <1>4, <1>5 DEF SeenUpTo, Memory

LEMMA TakenRows ==
  ASSUME NEW k \in Rounds, NEW m \in Memory, NEW fate \in Rounds_!Fate, NEW r \in Rule
  PROVE  Rounds_!Taken(m, k, fate).row[r]
           = IF r = <<k, 1>> THEN TakenRow(m.row[r], fate) ELSE m.row[r]
<1>1. <<k, 1>> \in Rule
  BY ProposedIsRule
<1> QED
  BY <1>1, TakenLocally DEF Memory

-----------------------------------------------------------------------------
(* The first candidate.                                                    *)

\* A rule is staged under the name of its round.
Named(k) == {<<j, 1>> : j \in 1..k}

LEMMA NamedFinite ==
  ASSUME NEW k \in Nat
  PROVE  IsFiniteSet(Named(k))
<1> DEFINE f == [j \in 1..k |-> <<j, 1>>]
<1>1. IsFiniteSet(1..k)
  BY FS_Interval
<1>2. f \in Surjection(1..k, Named(k))
  BY DEF Surjection, Named
<1> QED
  BY <1>1, <1>2, FS_Surjection

LEMMA PrecedesOrders ==
  ASSUME NEW m \in Memory
  PROVE  /\ \A x, y, z \in Rule : (Precedes(m, x, y) /\ Precedes(m, y, z)) => Precedes(m, x, z)
         /\ \A x \in Rule : ~Precedes(m, x, x)
         /\ \A x, y \in Rule : x # y => Precedes(m, x, y) \/ Precedes(m, y, x)
<1> DEFINE seen(x) == IF m.row[x].measured = 0 THEN x[1] ELSE m.row[x].measured
<1>1. ASSUME NEW x \in Rule
      PROVE  x[1] \in Nat /\ x[2] \in Nat /\ x = <<x[1], x[2]>> /\ seen(x) \in Nat
  <2>1. m.row[x].measured \in Nat
    BY GuidelineAssumption DEF Memory, Row
  <2>2. x[1] \in Rounds /\ x[2] \in Cause /\ x = <<x[1], x[2]>>
    BY DEF Rule
  <2>3. Rounds \subseteq Nat /\ Cause \subseteq Nat
    BY GuidelineAssumption DEF Rounds
  <2> QED
    BY <2>1, <2>2, <2>3
<1>2. ASSUME NEW x, NEW y
      PROVE  Rounds_!Before(m, x, y) <=>
               \/ seen(x) < seen(y)
               \/ (seen(x) = seen(y) /\ (x[1] < y[1] \/ (x[1] = y[1] /\ x[2] < y[2])))
  BY DEF Rounds_!Before, Rounds_!IdBefore, Rounds_!CreatedIn
<1> HIDE DEF seen
<1>3. \A x, y, z \in Rule : Precedes(m, x, y) /\ Precedes(m, y, z) => Precedes(m, x, z)
  BY <1>1, <1>2 DEF Precedes
<1>4. \A x \in Rule : ~Precedes(m, x, x)
  BY <1>1, <1>2 DEF Precedes
<1>5. ASSUME NEW x \in Rule, NEW y \in Rule, x # y
      PROVE  Precedes(m, x, y) \/ Precedes(m, y, x)
  <2>1. x[1] # y[1] \/ x[2] # y[2]
    BY <1>1, <1>5
  <2>2. Rounds_!Before(m, x, y) \/ Rounds_!Before(m, y, x)
    BY <2>1, <1>1, <1>2
  <2> QED
    BY <2>2 DEF Precedes
<1> QED
  BY <1>3, <1>4, <1>5

LEMMA FirstIsOne ==
  ASSUME NEW m \in Memory, NEW S \in SUBSET Rule, IsFiniteSet(S), S # {}
  PROVE  FirstToJudge(m, S) \in S
<1> DEFINE R == {e \in Rule \X Rule : Precedes(m, e[1], e[2])}
<1>1. \A x, y \in S : <<x, y>> \in R <=> Precedes(m, x, y)
  OBVIOUS
<1>2. \A x, y, z \in S : <<x, y>> \in R /\ <<y, z>> \in R => <<x, z>> \in R
  BY <1>1, PrecedesOrders
<1>3. \A x \in S : <<x, x>> \notin R
  BY <1>1, PrecedesOrders
<1> HIDE DEF R
<1>4. PICK k \in S : \A j \in S : <<j, k>> \notin R
  BY <1>2, <1>3, FirstExists
<1>5. \A s \in S \ {k} : Precedes(m, k, s)
  BY <1>1, <1>4, PrecedesOrders
<1> QED
  BY <1>5 DEF FirstToJudge

-----------------------------------------------------------------------------
(* The round in progress.                                                  *)

Steps == {"open", "search", "judge", "report", "record", "propose", "stage", "mark",
          "down", "attention", "complete"}
Resting == {"open", "down", "attention", "complete"}

LineType ==
  [arm : Arm, round : Rounds, event : {"validation", "promotion", "rejected", "staged"},
   rule : Rule, decision : Rounds_!Delta]

(* Files and process hold what they are for.                               *)
StudyTypeOK ==
  /\ finished \in [Arm -> 0..MaxRound]
  /\ memory \in [Arm -> Memory]
  /\ snapshot \in [Arm -> {NoSnapshot} \cup {Saved(m) : m \in Memory}]
  /\ DOMAIN results \subseteq Rule \cup {SearchTasks}
  /\ \A l \in DOMAIN results \cap Rule : results[l] \in Rounds_!Delta
  /\ proposal \in {"unasked"} \cup Rounds_!Fate
  /\ proc \in [step : Steps, todo : SUBSET Rule]
  /\ audit \subseteq LineType

\* Only the arm whose turn it is has begun a round.
OneBegun ==
  /\ \A a \in Arm : snapshot[a] # NoSnapshot => ~Complete /\ a = Now
  /\ snapshot[Now] = NoSnapshot =>
       results = <<>> /\ proposal = "unasked" /\ proc.step \in Resting

\* What the arm plays its round on, and whom it has to measure.
Opened == Advance(snapshot[Now].of, Round)
Due == Rounds_!CandidateRules(Opened, Round)

JudgedSoFar(D) == AfterJudging(Opened, D, Round, results)
Decided == IF Now = "mmh" THEN Promote(JudgedSoFar(Due)) ELSE JudgedSoFar(Due)

\* How far a round is: at every step the memory is what the rounds' start and
\* the stored results say.
InProgress ==
  /\ proc.step = "search" => memory[Now] = Opened
  /\ proc.step \in {"judge", "report", "record"} =>
       /\ Learning(Now) /\ proc.todo \subseteq Due /\ Due \ proc.todo \subseteq DOMAIN results
       /\ memory[Now] = JudgedSoFar(Due \ proc.todo)
  /\ proc.step \in {"report", "record"} => proc.todo # {} /\ Candidate \in DOMAIN results
  /\ proc.step \in {"propose", "stage"} =>
       Learning(Now) /\ Due \subseteq DOMAIN results /\ memory[Now] = Decided
  /\ proc.step = "stage" => proposal # "unasked"
  /\ proc.step = "mark" =>
       IF Learning(Now)
       THEN /\ Due \subseteq DOMAIN results /\ proposal # "unasked"
            /\ memory[Now] = Rounds_!Taken(Decided, Round, proposal)
       ELSE memory[Now] = Opened

\* The memories the finished rounds left.
Settled ==
  \A a \in Arm :
    /\ SeenUpTo(Committed[a], finished[a])
    /\ \A r \in Rule : Committed[a].row[r].patch # "absent" => r \in Named(finished[a])

RoundInv == StudyTypeOK /\ OneBegun /\ InProgress /\ Settled

LEMMA Kinds ==
  /\ NoSnapshot.kind = "none"
  /\ \A m : Saved(m).kind = "saved" /\ Saved(m).of = m /\ Saved(m) # NoSnapshot
BY DEF NoSnapshot, Saved

LEMMA CommittedAre ==
  ASSUME StudyTypeOK
  PROVE  /\ DOMAIN Committed = Arm
         /\ \A a \in Arm : Committed[a] \in Memory
         /\ \A a \in Arm : /\ snapshot[a] = NoSnapshot => Committed[a] = memory[a]
                           /\ snapshot[a] # NoSnapshot =>
                                /\ snapshot[a].kind = "saved" /\ Committed[a] = snapshot[a].of
                                /\ snapshot[a] = Saved(snapshot[a].of)
<1>1. DOMAIN memory = Arm
  BY DEF StudyTypeOK
<1>2. ASSUME NEW a \in Arm
      PROVE  /\ Committed[a] = IF snapshot[a].kind = "saved" THEN snapshot[a].of ELSE memory[a]
             /\ snapshot[a] = NoSnapshot \/ \E m \in Memory : snapshot[a] = Saved(m)
             /\ memory[a] \in Memory
  BY <1>1 DEF Committed, StudyTypeOK
<1> QED
  BY <1>1, <1>2, Kinds DEF Committed

LEMMA OpenedTyped ==
  ASSUME RoundInv, snapshot[Now] # NoSnapshot
  PROVE  /\ Now \in Arm /\ Round \in Rounds /\ ~Complete
         /\ SeenUpTo(snapshot[Now].of, Round - 1)
         /\ SeenUpTo(Opened, Round)
         /\ Committed[Now] = snapshot[Now].of /\ finished[Now] = Round - 1
         /\ Due \subseteq Named(Round - 1) /\ Due \subseteq Rule /\ IsFiniteSet(Due)
         /\ \A r \in Rule : /\ Opened.row[r].patch = snapshot[Now].of.row[r].patch
                            /\ Opened.row[r].stable = snapshot[Now].of.row[r].stable
                            /\ Opened.row[r].measured = snapshot[Now].of.row[r].measured
                            /\ Opened.row[r].won = snapshot[Now].of.row[r].won
                            /\ Opened.row[r].lost = snapshot[Now].of.row[r].lost
<1>1. Now \in Arm /\ finished[Now] = Round - 1 /\ ~Complete /\ Round \in Rounds /\ Round - 1 \in Nat
  BY RoundAndArm DEF RoundInv, StudyTypeOK, OneBegun
<1>2. Committed[Now] = snapshot[Now].of
  BY <1>1, CommittedAre DEF RoundInv
<1>3. SeenUpTo(snapshot[Now].of, Round - 1)
  BY <1>1, <1>2 DEF RoundInv, Settled
<1>4. /\ SeenUpTo(Opened, Round)
      /\ \A r \in Rule : /\ Opened.row[r].patch = snapshot[Now].of.row[r].patch
                         /\ Opened.row[r].stable = snapshot[Now].of.row[r].stable
                         /\ Opened.row[r].measured = snapshot[Now].of.row[r].measured
                         /\ Opened.row[r].won = snapshot[Now].of.row[r].won
                         /\ Opened.row[r].lost = snapshot[Now].of.row[r].lost
  BY <1>1, <1>3, AdvanceAges DEF Opened
<1>5. ASSUME NEW r \in Due  PROVE r \in Rule /\ Opened.row[r].patch # "absent"
  <2>1. r \in Pending(Opened) \cup Volatile(Opened)
    BY SameSets DEF Due, Rounds_!CandidateRules, Rounds_!FirstOf
  <2> QED
    BY <2>1 DEF Pending, Volatile, Validated
<1>6. Due \subseteq Named(Round - 1)
  BY <1>1, <1>2, <1>4, <1>5 DEF RoundInv, Settled
<1>7. IsFiniteSet(Due)
  BY <1>1, <1>6, NamedFinite, FS_Subset
<1> QED
  BY <1>1, <1>2, <1>3, <1>4, <1>5, <1>6, <1>7

LEMMA CandidateIsOne ==
  ASSUME RoundInv, proc.step \in {"judge", "report", "record"}, proc.todo # {}
  PROVE  Candidate \in proc.todo /\ Candidate \in Due /\ Candidate \in Rule
<1>1. snapshot[Now] # NoSnapshot
  BY DEF RoundInv, OneBegun, Resting
<1>2. proc.todo \subseteq Due /\ IsFiniteSet(Due) /\ Due \subseteq Rule /\ Now \in Arm
  BY <1>1, OpenedTyped DEF RoundInv, InProgress
<1>3. IsFiniteSet(proc.todo) /\ memory[Now] \in Memory
  BY <1>2, FS_Subset DEF RoundInv, StudyTypeOK
<1>4. Candidate \in proc.todo
  BY <1>2, <1>3, FirstIsOne DEF Candidate
<1> QED
  BY <1>2, <1>4

LEMMA JudgingSame ==
  ASSUME NEW m, NEW D, NEW k, NEW res1, NEW res2, \A r \in D : res1[r] = res2[r]
  PROVE  AfterJudging(m, D, k, res1) = AfterJudging(m, D, k, res2)
BY DEF AfterJudging

\* Until a round is marked it is the same arm's turn.
LEMMA SameTurn ==
  ASSUME finished' = finished
  PROVE  Now' = Now /\ Round' = Round /\ Complete' = Complete
BY DEF Now, Round, Complete, Turn

-----------------------------------------------------------------------------
(* Every step keeps the round in step with its start and its results.      *)

\* Within a round nothing that was settled moves.
LEMMA WithinRound ==
  ASSUME RoundInv, StudyTypeOK', snapshot' = snapshot, finished' = finished,
         snapshot[Now] # NoSnapshot, \A a \in Arm \ {Now} : memory'[a] = memory[a]
  PROVE  /\ OneBegun' /\ Settled'
         /\ Now' = Now /\ Round' = Round /\ Opened' = Opened /\ Due' = Due
         /\ Committed' = Committed
<1>1. Now' = Now /\ Round' = Round /\ Complete' = Complete
  BY SameTurn
<1>2. Opened' = Opened
  BY <1>1 DEF Opened
<1>3. Due' = Due
  BY <1>1, <1>2 DEF Due
<1>4. OneBegun'
  BY <1>1 DEF RoundInv, OneBegun
<1>5. DOMAIN memory = Arm /\ DOMAIN memory' = Arm
  BY DEF RoundInv, StudyTypeOK
<1>6. snapshot[Now].kind = "saved"
  BY OpenedTyped, CommittedAre DEF RoundInv
<1>7. Committed' = Committed
  <2>1. \A a \in Arm : (IF snapshot[a].kind = "saved" THEN snapshot[a].of ELSE memory[a])
                     = (IF snapshot'[a].kind = "saved" THEN snapshot'[a].of ELSE memory'[a])
    BY <1>6
  <2> QED
    BY <2>1, <1>5 DEF Committed
<1>8. Settled'
  BY <1>7 DEF RoundInv, Settled
<1> QED
  BY <1>1, <1>2, <1>3, <1>4, <1>7, <1>8

\* A process that stops, waits or starts leaves the files alone.
LEMMA AtRest ==
  ASSUME RoundInv, UNCHANGED disk, NEW s \in Resting, proc' = Proc(s, {})
  PROVE  RoundInv' /\ Committed' = Committed
<1>1. proc'.step = s /\ proc'.todo = {} /\ proc' \in [step : Steps, todo : SUBSET Rule]
  BY DEF Proc, Steps, Resting
<1>2. StudyTypeOK'
  BY <1>1 DEF RoundInv, StudyTypeOK, disk
<1>3. Now' = Now /\ Round' = Round /\ Complete' = Complete
  BY SameTurn DEF disk
<1>4. OneBegun'
  BY <1>1, <1>3 DEF RoundInv, OneBegun, disk
<1>5. InProgress'
  BY <1>1 DEF InProgress, Resting
<1>6. Committed' = Committed
  BY DEF Committed, disk
<1>7. Settled'
  BY <1>6 DEF RoundInv, Settled, disk
<1> QED
  BY <1>2, <1>4, <1>5, <1>6, <1>7 DEF RoundInv

\* A stored result stays, and a new one is of its kind.
LEMMA EvaluateKeeps ==
  ASSUME StudyTypeOK, NEW label \in Rule \cup {SearchTasks}, NEW outcomes,
         label \in Rule => outcomes \subseteq Rounds_!Delta, Evaluate(label, outcomes)
  PROVE  /\ DOMAIN results' = DOMAIN results \cup {label}
         /\ DOMAIN results' \subseteq Rule \cup {SearchTasks}
         /\ \A l \in DOMAIN results : results'[l] = results[l]
         /\ \A l \in DOMAIN results' \cap Rule : results'[l] \in Rounds_!Delta
<1>1. PICK outcome \in IF label \in DOMAIN results THEN {results[label]} ELSE outcomes :
        results' = [l \in DOMAIN results \cup {label} |->
                      IF l = label THEN outcome ELSE results[l]]
  BY DEF Evaluate
<1>2. DOMAIN results' = DOMAIN results \cup {label}
  BY <1>1
<1>3. \A l \in DOMAIN results : results'[l] = results[l]
  BY <1>1
<1>4. label \in Rule => results'[label] \in Rounds_!Delta
  BY <1>1 DEF StudyTypeOK
<1>5. \A l \in DOMAIN results' \cap Rule : results'[l] \in Rounds_!Delta
  BY <1>2, <1>3, <1>4 DEF StudyTypeOK
<1> QED
  BY <1>2, <1>3, <1>5 DEF StudyTypeOK

LEMMA OpenKeeps ==
  ASSUME RoundInv, Open
  PROVE  RoundInv' /\ Committed' = Committed
<1> DEFINE m == IF snapshot[Now].kind = "saved" THEN snapshot[Now].of ELSE memory[Now]
<1>1. Now \in Arm /\ finished[Now] = Round - 1 /\ Round \in Rounds /\ ~Complete
  BY RoundAndArm DEF RoundInv, StudyTypeOK, Open
<1>2. /\ snapshot[Now].kind # "torn" /\ m = Committed[Now] /\ m \in Memory
      /\ SeenUpTo(m, Round - 1)
  <2>1. \/ snapshot[Now] = NoSnapshot
        \/ snapshot[Now] # NoSnapshot /\ snapshot[Now].kind = "saved"
    BY <1>1, CommittedAre DEF RoundInv
  <2>2. snapshot[Now].kind # "torn" /\ m = Committed[Now]
    BY <2>1, <1>1, CommittedAre, Kinds DEF RoundInv
  <2> QED
    BY <2>2, <1>1, CommittedAre DEF RoundInv, Settled
<1>3. /\ snapshot' = [snapshot EXCEPT ![Now] = Saved(m)]
      /\ memory' = [memory EXCEPT ![Now] = Advance(m, Round)]
      /\ proc' = Proc("search", {})
      /\ UNCHANGED <<results, proposal, finished, audit>>
  BY <1>2 DEF Open, Goto
<1> HIDE DEF m
<1>4. Now' = Now /\ Round' = Round /\ Complete' = Complete
  BY <1>3, SameTurn
<1>5. Advance(m, Round) \in Memory
  BY <1>1, <1>2, AdvanceAges DEF SeenUpTo
<1>6. proc' \in [step : Steps, todo : SUBSET Rule] /\ proc'.step = "search"
  BY <1>3 DEF Proc, Steps
<1>7. StudyTypeOK'
  BY <1>1, <1>2, <1>3, <1>5, <1>6 DEF RoundInv, StudyTypeOK
<1>8. snapshot'[Now] = Saved(m) /\ memory'[Now] = Advance(m, Round)
      /\ \A a \in Arm \ {Now} : snapshot'[a] = snapshot[a] /\ memory'[a] = memory[a]
  BY <1>1, <1>3 DEF RoundInv, StudyTypeOK
<1>9. OneBegun'
  BY <1>1, <1>4, <1>8, Kinds DEF RoundInv, OneBegun
<1>10. Opened' = Advance(m, Round)
  BY <1>4, <1>8, Kinds DEF Opened
<1>11. InProgress'
  BY <1>4, <1>6, <1>8, <1>10 DEF InProgress
<1>12. Committed' = Committed
  <2>1. DOMAIN memory = Arm /\ DOMAIN memory' = Arm
    BY <1>7 DEF RoundInv, StudyTypeOK
  <2>2. \A a \in Arm : (IF snapshot[a].kind = "saved" THEN snapshot[a].of ELSE memory[a])
                     = (IF snapshot'[a].kind = "saved" THEN snapshot'[a].of ELSE memory'[a])
    BY <1>8, Kinds DEF m
  <2> QED
    BY <2>1, <2>2 DEF Committed
<1>13. Settled'
  BY <1>3, <1>12 DEF RoundInv, Settled
<1> QED
  BY <1>7, <1>9, <1>11, <1>12, <1>13 DEF RoundInv

LEMMA SearchKeeps ==
  ASSUME RoundInv, Search
  PROVE  RoundInv' /\ Committed' = Committed
<1>1. snapshot[Now] # NoSnapshot /\ memory[Now] = Opened
  BY DEF RoundInv, OneBegun, InProgress, Search, Resting
<1>2. Now \in Arm /\ SeenUpTo(Opened, Round) /\ Due \subseteq Rule
  BY <1>1, OpenedTyped
<1>3. Candidates(memory[Now]) = Due
  BY <1>1, SameCandidates DEF Due
<1>4. SearchTasks \notin Rule
  BY DEF SearchTasks, Rule, Rounds
<1>5. /\ DOMAIN results' \subseteq Rule \cup {SearchTasks}
      /\ \A l \in DOMAIN results : results'[l] = results[l]
      /\ \A l \in DOMAIN results' \cap Rule : results'[l] \in Rounds_!Delta
  BY <1>4, EvaluateKeeps DEF RoundInv, Search
<1>6. /\ proc' = IF Learning(Now) THEN Proc("judge", Due) ELSE Proc("mark", {})
      /\ UNCHANGED <<memory, snapshot, proposal, finished, audit>>
  BY <1>3 DEF Search, Goto
<1>7. StudyTypeOK'
  <2>1. proc' \in [step : Steps, todo : SUBSET Rule]
    BY <1>2, <1>6 DEF Proc, Steps
  <2> QED
    BY <2>1, <1>5, <1>6 DEF RoundInv, StudyTypeOK
<1>8. /\ OneBegun' /\ Settled' /\ Committed' = Committed
      /\ Now' = Now /\ Round' = Round /\ Opened' = Opened /\ Due' = Due
  BY <1>1, <1>6, <1>7, WithinRound
<1>9. InProgress'
  <2>1. CASE Learning(Now)
    <3>1. proc'.step = "judge" /\ proc'.todo = Due
      BY <2>1, <1>6 DEF Proc
    <3>2. Opened \in Memory
      BY <1>2 DEF SeenUpTo
    <3>3. AfterJudging(Opened, {}, Round, results') = Opened
      BY <3>2 DEF AfterJudging, Memory
    <3>4. JudgedSoFar(Due \ proc.todo)' = AfterJudging(Opened', Due' \ proc'.todo, Round', results')
      BY DEF JudgedSoFar
    <3>5. Due' \ proc'.todo = {}
      BY <3>1, <1>8
    <3>6. JudgedSoFar(Due \ proc.todo)' = Opened
      BY <3>3, <3>4, <3>5, <1>8
    <3>7. Learning(Now)'
      BY <2>1, <1>8 DEF Learning, Rounds_!Learning
    <3> QED
      BY <3>1, <3>5, <3>6, <3>7, <1>1, <1>6, <1>8 DEF InProgress
  <2>2. CASE ~Learning(Now)
    <3>1. proc'.step = "mark"
      BY <2>2, <1>6 DEF Proc
    <3>2. ~Learning(Now)'
      BY <2>2, <1>8 DEF Learning, Rounds_!Learning
    <3> QED
      BY <3>1, <3>2, <1>1, <1>6, <1>8 DEF InProgress
  <2> QED
    BY <2>1, <2>2
<1> QED
  BY <1>7, <1>8, <1>9 DEF RoundInv

LEMMA MeasureKeeps ==
  ASSUME RoundInv, Measure
  PROVE  RoundInv' /\ Committed' = Committed
<1> DEFINE D == Due \ proc.todo
<1>1. snapshot[Now] # NoSnapshot /\ memory[Now] = JudgedSoFar(D) /\ proc.todo \subseteq Due
      /\ D \subseteq DOMAIN results /\ Learning(Now)
  BY DEF RoundInv, OneBegun, InProgress, Measure, Resting
<1>2. Candidate \in Rule
  BY CandidateIsOne DEF Measure
<1>3. /\ DOMAIN results' = DOMAIN results \cup {Candidate}
      /\ DOMAIN results' \subseteq Rule \cup {SearchTasks}
      /\ \A l \in DOMAIN results : results'[l] = results[l]
      /\ \A l \in DOMAIN results' \cap Rule : results'[l] \in Rounds_!Delta
  BY <1>2, EvaluateKeeps DEF RoundInv, Measure
<1>4. /\ proc'.step = "report" /\ proc'.todo = proc.todo /\ proc' = Proc("report", proc.todo)
      /\ UNCHANGED <<memory, snapshot, proposal, finished, audit>> /\ proc.todo # {}
  BY DEF Measure, Goto, Proc
<1>5. StudyTypeOK'
  <2>1. proc' \in [step : Steps, todo : SUBSET Rule]
    BY <1>4 DEF Proc, Steps, RoundInv, StudyTypeOK
  <2> QED
    BY <2>1, <1>3, <1>4 DEF RoundInv, StudyTypeOK
<1>6. /\ OneBegun' /\ Settled' /\ Committed' = Committed
      /\ Now' = Now /\ Round' = Round /\ Opened' = Opened /\ Due' = Due
  BY <1>1, <1>4, <1>5, WithinRound
<1>7. JudgedSoFar(Due \ proc.todo)' = JudgedSoFar(D)
  <2>1. JudgedSoFar(Due \ proc.todo)' = AfterJudging(Opened, D, Round, results')
    BY <1>4, <1>6 DEF JudgedSoFar
  <2>2. \A r \in D : results'[r] = results[r]
    BY <1>1, <1>3
  <2> QED
    BY <2>1, <2>2, JudgingSame DEF JudgedSoFar
<1>8. Candidate' = Candidate /\ Learning(Now)' = Learning(Now)
  BY <1>4, <1>6 DEF Candidate, Learning, Rounds_!Learning
<1>9. InProgress'
  BY <1>1, <1>3, <1>4, <1>6, <1>7, <1>8 DEF InProgress
<1> QED
  BY <1>5, <1>6, <1>9 DEF RoundInv

LEMMA JudgingOne ==
  ASSUME NEW k \in Rounds, NEW m, SeenUpTo(m, k), NEW D, NEW c \in Rule \ D, NEW res
  PROVE  Rounds_!Judged(AfterJudging(m, D, k, res), c, k, res[c]) = AfterJudging(m, D \cup {c}, k, res)
<1> DEFINE j == AfterJudging(m, D, k, res)
           rows(S) == [r \in Rule |-> IF r \in S THEN JudgedRow(m.row[r], k, res[r]) ELSE m.row[r]]
<1>1. j \in Memory /\ m \in Memory
  BY JudgingTyped DEF SeenUpTo
<1>2. Rounds_!Judged(j, c, k, res[c]) = [j EXCEPT !.row = [@ EXCEPT ![c] = JudgedRow(j.row[c], k, res[c])]]
  BY <1>1, JudgedLocally
<1>3. j = [m EXCEPT !.row = rows(D)] /\ j.row = rows(D)
  BY <1>1 DEF AfterJudging, Memory
<1>4. AfterJudging(m, D \cup {c}, k, res) = [m EXCEPT !.row = rows(D \cup {c})]
  BY DEF AfterJudging
<1>5. j.row[c] = m.row[c]
  BY <1>3
<1>6. [rows(D) EXCEPT ![c] = JudgedRow(m.row[c], k, res[c])] = rows(D \cup {c})
  OBVIOUS
<1> HIDE DEF rows, j
<1>7. [j EXCEPT !.row = rows(D \cup {c})] = [m EXCEPT !.row = rows(D \cup {c})]
  BY <1>1, <1>3 DEF Memory
<1> QED
  BY <1>2, <1>3, <1>4, <1>5, <1>6, <1>7 DEF j

LEMMA LineTyped ==
  ASSUME Now \in Arm, Round \in Rounds, NEW event \in {"validation", "promotion", "rejected", "staged"},
         NEW r \in Rule, NEW delta \in Rounds_!Delta
  PROVE  Line(event, r, delta) \in LineType
BY DEF Line, LineType

LEMMA ReportKeeps ==
  ASSUME RoundInv, Report
  PROVE  RoundInv' /\ Committed' = Committed
<1> DEFINE D == Due \ proc.todo
<1>1. snapshot[Now] # NoSnapshot /\ memory[Now] = JudgedSoFar(D) /\ proc.todo \subseteq Due
      /\ D \subseteq DOMAIN results /\ Learning(Now) /\ proc.todo # {} /\ Candidate \in DOMAIN results
  BY DEF RoundInv, OneBegun, InProgress, Report, Resting
<1>2. Candidate \in Rule /\ results[Candidate] \in Rounds_!Delta
  BY <1>1, CandidateIsOne DEF Report, RoundInv, StudyTypeOK
<1>3. /\ proc'.step = "record" /\ proc'.todo = proc.todo /\ proc' = Proc("record", proc.todo)
      /\ UNCHANGED <<memory, snapshot, results, proposal, finished>>
      /\ audit' = audit \cup {Line("validation", Candidate, results[Candidate])}
  BY DEF Report, Goto, Proc
<1>4. StudyTypeOK'
  <2>1. proc' \in [step : Steps, todo : SUBSET Rule]
    BY <1>3 DEF Proc, Steps, RoundInv, StudyTypeOK
  <2>2. Line("validation", Candidate, results[Candidate]) \in LineType
    BY <1>1, <1>2, OpenedTyped, LineTyped
  <2>3. audit' \subseteq LineType
    BY <2>2, <1>3 DEF RoundInv, StudyTypeOK
  <2> QED
    BY <2>1, <2>3, <1>3 DEF RoundInv, StudyTypeOK
<1>5. /\ OneBegun' /\ Settled' /\ Committed' = Committed
      /\ Now' = Now /\ Round' = Round /\ Opened' = Opened /\ Due' = Due
  BY <1>1, <1>3, <1>4, WithinRound
<1>6. JudgedSoFar(Due \ proc.todo)' = JudgedSoFar(D)
  BY <1>3, <1>5 DEF JudgedSoFar
<1>7. Candidate' = Candidate /\ Learning(Now)' = Learning(Now)
  BY <1>3, <1>5 DEF Candidate, Learning, Rounds_!Learning
<1>8. InProgress'
  BY <1>1, <1>3, <1>5, <1>6, <1>7 DEF InProgress
<1> QED
  BY <1>4, <1>5, <1>8 DEF RoundInv

LEMMA RecordKeeps ==
  ASSUME RoundInv, Record
  PROVE  RoundInv' /\ Committed' = Committed
<1> DEFINE D == Due \ proc.todo
           c == Candidate
<1>1. snapshot[Now] # NoSnapshot /\ memory[Now] = JudgedSoFar(D) /\ proc.todo \subseteq Due
      /\ D \subseteq DOMAIN results /\ Learning(Now) /\ proc.todo # {} /\ c \in DOMAIN results
  BY DEF RoundInv, OneBegun, InProgress, Record, Resting
<1>2. c \in Rule /\ c \in proc.todo /\ c \in Due
  BY <1>1, CandidateIsOne DEF Record
<1>3. Now \in Arm /\ Round \in Rounds /\ SeenUpTo(Opened, Round)
  BY <1>1, OpenedTyped
<1>4. /\ proc'.step = "judge" /\ proc'.todo = proc.todo \ {c} /\ proc' = Proc("judge", proc.todo \ {c})
      /\ UNCHANGED <<snapshot, results, proposal, finished, audit>>
      /\ memory' = [memory EXCEPT ![Now] = Rounds_!Judged(memory[Now], c, Round, results[c])]
  BY DEF Record, Goto, Proc
<1>5. Rounds_!Judged(memory[Now], c, Round, results[c]) = JudgedSoFar(D \cup {c})
  <2>1. c \in Rule \ D
    BY <1>2
  <2> HIDE DEF D, c
  <2> QED
    BY <2>1, <1>1, <1>3, JudgingOne DEF JudgedSoFar
<1>6. JudgedSoFar(D \cup {c}) \in Memory
  BY <1>3, JudgingTyped DEF JudgedSoFar, SeenUpTo
<1>7. memory'[Now] = JudgedSoFar(D \cup {c}) /\ memory' \in [Arm -> Memory]
      /\ \A a \in Arm \ {Now} : memory'[a] = memory[a]
  BY <1>3, <1>4, <1>5, <1>6 DEF RoundInv, StudyTypeOK
<1>8. StudyTypeOK'
  <2>1. proc' \in [step : Steps, todo : SUBSET Rule]
    BY <1>4 DEF Proc, Steps, RoundInv, StudyTypeOK
  <2> QED
    BY <2>1, <1>4, <1>7 DEF RoundInv, StudyTypeOK
<1>9. /\ OneBegun' /\ Settled' /\ Committed' = Committed
      /\ Now' = Now /\ Round' = Round /\ Opened' = Opened /\ Due' = Due
  BY <1>1, <1>4, <1>7, <1>8, WithinRound
<1>10. Due \ (proc.todo \ {c}) = D \cup {c}
  BY <1>2
<1>11. JudgedSoFar(Due \ proc.todo)' = JudgedSoFar(D \cup {c})
  BY <1>4, <1>9, <1>10 DEF JudgedSoFar
<1>12. Learning(Now)' = Learning(Now)
  BY <1>9 DEF Learning, Rounds_!Learning
<1>13. InProgress'
  BY <1>1, <1>4, <1>7, <1>9, <1>10, <1>11, <1>12 DEF InProgress
<1> QED
  BY <1>8, <1>9, <1>13 DEF RoundInv

LEMMA DecidedTyped ==
  ASSUME RoundInv, snapshot[Now] # NoSnapshot
  PROVE  SeenUpTo(JudgedSoFar(Due), Round) /\ SeenUpTo(Decided, Round)
<1>1. SeenUpTo(Opened, Round) /\ Round \in Rounds
  BY OpenedTyped
<1>2. SeenUpTo(JudgedSoFar(Due), Round)
  BY <1>1, JudgingTyped DEF JudgedSoFar
<1> QED
  BY <1>2, PromoteTyped DEF Decided

LEMMA PromoteArmKeeps ==
  ASSUME RoundInv, PromoteArm
  PROVE  RoundInv' /\ Committed' = Committed
<1>1. snapshot[Now] # NoSnapshot /\ memory[Now] = JudgedSoFar(Due)
      /\ Due \subseteq DOMAIN results /\ Learning(Now) /\ proc.todo = {}
  BY DEF RoundInv, OneBegun, InProgress, PromoteArm, Resting
<1>2. Now \in Arm /\ Round \in Rounds /\ SeenUpTo(Decided, Round)
  BY <1>1, OpenedTyped, DecidedTyped
<1>3. /\ proc'.step = "propose" /\ proc' = Proc("propose", {})
      /\ UNCHANGED <<snapshot, results, proposal, finished>>
  BY DEF PromoteArm, Goto, Proc
<1>4. memory'[Now] = Decided /\ memory' \in [Arm -> Memory]
      /\ \A a \in Arm \ {Now} : memory'[a] = memory[a]
  <2>1. CASE Now = "mmh"
    <3>1. memory' = [memory EXCEPT ![Now] = Promote(memory[Now])]
      BY <2>1 DEF PromoteArm
    <3>2. Promote(memory[Now]) = Decided /\ Decided \in Memory
      BY <2>1, <1>1, <1>2 DEF Decided, SeenUpTo
    <3> QED
      BY <3>1, <3>2, <1>2 DEF RoundInv, StudyTypeOK
  <2>2. CASE Now # "mmh"
    <3>1. memory' = memory
      BY <2>2 DEF PromoteArm
    <3>2. memory[Now] = Decided
      BY <2>2, <1>1 DEF Decided
    <3> QED
      BY <3>1, <3>2 DEF RoundInv, StudyTypeOK
  <2> QED
    BY <2>1, <2>2
<1>5. audit' \subseteq LineType
  <2>1. \A r \in Rule : Line("promotion", r, 0) \in LineType
    BY <1>2, LineTyped DEF Rounds_!Delta
  <2>2. \A m : Stable(m) \subseteq Rule
    BY DEF Stable, Validated
  <2> QED
    BY <2>1, <2>2 DEF PromoteArm, RoundInv, StudyTypeOK
<1>6. StudyTypeOK'
  <2>1. proc' \in [step : Steps, todo : SUBSET Rule]
    BY <1>3 DEF Proc, Steps
  <2> QED
    BY <2>1, <1>3, <1>4, <1>5 DEF RoundInv, StudyTypeOK
<1>7. /\ OneBegun' /\ Settled' /\ Committed' = Committed
      /\ Now' = Now /\ Round' = Round /\ Opened' = Opened /\ Due' = Due
  BY <1>1, <1>3, <1>4, <1>6, WithinRound
<1>8. Decided' = Decided
  BY <1>3, <1>7 DEF Decided, JudgedSoFar
<1>9. Learning(Now)' = Learning(Now)
  BY <1>7 DEF Learning, Rounds_!Learning
<1>10. InProgress'
  BY <1>1, <1>3, <1>4, <1>7, <1>8, <1>9 DEF InProgress
<1> QED
  BY <1>6, <1>7, <1>10 DEF RoundInv

LEMMA ProposeKeeps ==
  ASSUME RoundInv, Propose
  PROVE  RoundInv' /\ Committed' = Committed
<1>1. snapshot[Now] # NoSnapshot /\ memory[Now] = Decided
      /\ Due \subseteq DOMAIN results /\ Learning(Now)
  BY DEF RoundInv, OneBegun, InProgress, Propose, Resting
<1>2. /\ proc'.step = "stage" /\ proc' = Proc("stage", {})
      /\ UNCHANGED <<memory, snapshot, results, finished, audit>>
      /\ proposal' \in Rounds_!Fate
  BY DEF Propose, Goto, Proc
<1>3. proposal' # "unasked"
  BY <1>2 DEF Rounds_!Fate
<1>4. StudyTypeOK'
  <2>1. proc' \in [step : Steps, todo : SUBSET Rule]
    BY <1>2 DEF Proc, Steps
  <2> QED
    BY <2>1, <1>2 DEF RoundInv, StudyTypeOK
<1>5. /\ OneBegun' /\ Settled' /\ Committed' = Committed
      /\ Now' = Now /\ Round' = Round /\ Opened' = Opened /\ Due' = Due
  BY <1>1, <1>2, <1>4, WithinRound
<1>6. Decided' = Decided
  BY <1>2, <1>5 DEF Decided, JudgedSoFar
<1>7. Learning(Now)' = Learning(Now)
  BY <1>5 DEF Learning, Rounds_!Learning
<1>8. InProgress'
  BY <1>1, <1>2, <1>3, <1>5, <1>6, <1>7 DEF InProgress
<1> QED
  BY <1>4, <1>5, <1>8 DEF RoundInv

LEMMA StageKeeps ==
  ASSUME RoundInv, Stage
  PROVE  RoundInv' /\ Committed' = Committed
<1>1. snapshot[Now] # NoSnapshot /\ memory[Now] = Decided
      /\ Due \subseteq DOMAIN results /\ Learning(Now) /\ proposal # "unasked"
  BY DEF RoundInv, OneBegun, InProgress, Stage, Resting
<1>2. Now \in Arm /\ Round \in Rounds /\ SeenUpTo(Decided, Round) /\ proposal \in Rounds_!Fate
  BY <1>1, OpenedTyped, DecidedTyped DEF RoundInv, StudyTypeOK
<1>3. /\ proc'.step = "mark" /\ proc' = Proc("mark", {})
      /\ UNCHANGED <<snapshot, results, proposal, finished>>
      /\ memory' = [memory EXCEPT ![Now] = Rounds_!Taken(memory[Now], Round, proposal)]
  BY DEF Stage, Goto, Proc
<1> DEFINE t == Rounds_!Taken(Decided, Round, proposal)
<1>4. t \in Memory
  BY <1>2, TakenTyped DEF SeenUpTo
<1> HIDE DEF t
<1>5. memory'[Now] = t /\ memory' \in [Arm -> Memory]
      /\ \A a \in Arm \ {Now} : memory'[a] = memory[a]
  <2>1. memory' = [memory EXCEPT ![Now] = t]
    BY <1>1, <1>3 DEF t
  <2> QED
    BY <2>1, <1>2, <1>4 DEF RoundInv, StudyTypeOK
<1>6. audit' \subseteq LineType
  <2>1. proposal # "none" => Line(proposal, Rounds_!Proposed(Round), 0) \in LineType
    BY <1>2, LineTyped, ProposedIsRule DEF Rounds_!Delta, Rounds_!Fate
  <2> QED
    BY <2>1 DEF Stage, RoundInv, StudyTypeOK
<1>7. StudyTypeOK'
  <2>1. proc' \in [step : Steps, todo : SUBSET Rule]
    BY <1>3 DEF Proc, Steps
  <2> QED
    BY <2>1, <1>3, <1>5, <1>6 DEF RoundInv, StudyTypeOK
<1>8. /\ OneBegun' /\ Settled' /\ Committed' = Committed
      /\ Now' = Now /\ Round' = Round /\ Opened' = Opened /\ Due' = Due
  BY <1>1, <1>3, <1>5, <1>7, WithinRound
<1>9. Decided' = Decided
  BY <1>3, <1>8 DEF Decided, JudgedSoFar
<1>10. Learning(Now)' = Learning(Now)
  BY <1>8 DEF Learning, Rounds_!Learning
<1>11. InProgress'
  BY <1>1, <1>3, <1>5, <1>8, <1>9, <1>10 DEF InProgress, t
<1> QED
  BY <1>7, <1>8, <1>11 DEF RoundInv

\* The rows a round decides, before its proposal.
LEMMA DecidedRows ==
  ASSUME RoundInv, snapshot[Now] # NoSnapshot, NEW r \in Rule
  PROVE  LET judged == IF r \in Due THEN JudgedRow(Opened.row[r], Round, results[r])
                       ELSE Opened.row[r]
         IN  /\ judged \in Row /\ JudgedSoFar(Due).row[r] = judged
             /\ Decided.row[r] = IF Now = "mmh" /\ Blockers(judged) = {}
                                 THEN [judged EXCEPT !.stable = TRUE] ELSE judged
<1> DEFINE judged == IF r \in Due THEN JudgedRow(Opened.row[r], Round, results[r])
                     ELSE Opened.row[r]
<1>1. SeenUpTo(Opened, Round) /\ SeenUpTo(JudgedSoFar(Due), Round)
  BY OpenedTyped, DecidedTyped
<1>2. JudgedSoFar(Due).row[r] = judged
  BY <1>1 DEF JudgedSoFar, AfterJudging, SeenUpTo, Memory
<1>3. judged \in Row
  BY <1>1, <1>2 DEF SeenUpTo, Memory
<1> HIDE DEF judged
<1>4. Decided.row[r] = IF Now = "mmh" /\ Blockers(judged) = {}
                       THEN [judged EXCEPT !.stable = TRUE] ELSE judged
  BY <1>1, <1>2, PromoteTyped DEF Decided
<1>5. judged \in Row /\ JudgedSoFar(Due).row[r] = judged
      /\ Decided.row[r] = IF Now = "mmh" /\ Blockers(judged) = {}
                          THEN [judged EXCEPT !.stable = TRUE] ELSE judged
  BY <1>2, <1>3, <1>4
<1> QED
  BY <1>5 DEF judged

LEMMA JudgedKeepsLife ==
  ASSUME NEW row \in Row, NEW k, NEW delta
  PROVE  JudgedRow(row, k, delta).patch = "absent" <=> row.patch = "absent"
BY DEF JudgedRow, Row, NoRow

LEMMA MarkedRound ==
  ASSUME RoundInv, Mark
  PROVE  /\ snapshot[Now] # NoSnapshot /\ Now \in Arm /\ Round \in Rounds
         /\ SeenUpTo(memory[Now], Round)
         /\ \A r \in Rule : memory[Now].row[r].patch # "absent" => r \in Named(Round)
<1>1. snapshot[Now] # NoSnapshot
  BY DEF RoundInv, OneBegun, Mark, Resting
<1>2. /\ Now \in Arm /\ Round \in Rounds /\ Round \in Nat /\ SeenUpTo(Opened, Round)
      /\ Committed[Now] = snapshot[Now].of /\ finished[Now] = Round - 1
  BY <1>1, OpenedTyped DEF Rounds
<1>3. Named(Round - 1) \subseteq Named(Round) /\ <<Round, 1>> \in Named(Round)
  BY <1>2 DEF Named, Rounds
<1>4. \A r \in Rule : Opened.row[r].patch # "absent" => r \in Named(Round)
  BY <1>1, <1>2, <1>3, OpenedTyped DEF RoundInv, Settled
<1>5. CASE Learning(Now)
  <2> DEFINE t == Rounds_!Taken(Decided, Round, proposal)
  <2>1. memory[Now] = t /\ proposal \in Rounds_!Fate /\ SeenUpTo(Decided, Round)
    BY <1>1, <1>5, DecidedTyped DEF RoundInv, InProgress, Mark, StudyTypeOK
  <2>2. SeenUpTo(t, Round) /\ \A r \in Rule \ {<<Round, 1>>} : t.row[r] = Decided.row[r]
    <3>1. proposal \in Rounds_!Fate /\ SeenUpTo(Decided, Round) /\ Round \in Rounds
      BY <2>1, <1>2
    <3>2. SeenUpTo(t, Round)
      BY <3>1, TakenTyped
    <3>3. ASSUME NEW r \in Rule, r # <<Round, 1>>  PROVE t.row[r] = Decided.row[r]
      BY <3>1, <3>3, TakenRows DEF SeenUpTo
    <3> QED
      BY <3>2, <3>3
  <2> HIDE DEF t
  <2>3. ASSUME NEW r \in Rule, Decided.row[r].patch # "absent"  PROVE r \in Named(Round)
    <3>1. Opened.row[r] \in Row
      BY <1>2 DEF SeenUpTo, Memory
    <3> DEFINE judged == IF r \in Due THEN JudgedRow(Opened.row[r], Round, results[r])
                         ELSE Opened.row[r]
    <3>2. judged \in Row /\ Decided.row[r] = IF Now = "mmh" /\ Blockers(judged) = {}
                                             THEN [judged EXCEPT !.stable = TRUE] ELSE judged
      BY <1>1, DecidedRows
    <3>3. judged.patch = "absent" <=> Opened.row[r].patch = "absent"
      BY <3>1, JudgedKeepsLife
    <3> HIDE DEF judged
    <3>4. Decided.row[r].patch = judged.patch
      BY <3>2 DEF Row
    <3> QED
      BY <2>3, <3>3, <3>4, <1>4
  <2>4. ASSUME NEW r \in Rule, memory[Now].row[r].patch # "absent"  PROVE r \in Named(Round)
    <3>1. CASE r = <<Round, 1>>
      BY <3>1, <1>3
    <3>2. CASE r # <<Round, 1>>
      <4>1. memory[Now].row[r] = Decided.row[r]
        BY <3>2, <2>1, <2>2
      <4> QED
        BY <4>1, <2>3, <2>4
    <3> QED
      BY <3>1, <3>2
  <2> QED
    BY <1>1, <1>2, <2>1, <2>2, <2>4
<1>6. CASE ~Learning(Now)
  <2>1. memory[Now] = Opened
    BY <1>6 DEF RoundInv, InProgress, Mark
  <2> QED
    BY <2>1, <1>1, <1>2, <1>4
<1> QED
  BY <1>5, <1>6

\* The marker commits the memory its arm has reached.
LEMMA MarkKeeps ==
  ASSUME RoundInv, Mark
  PROVE  /\ RoundInv'
         /\ finished' = [finished EXCEPT ![Now] = Round]
         /\ Committed' = [Committed EXCEPT ![Now] = memory[Now]]
<1>1. /\ snapshot[Now] # NoSnapshot /\ Now \in Arm /\ Round \in Rounds
      /\ SeenUpTo(memory[Now], Round)
      /\ \A r \in Rule : memory[Now].row[r].patch # "absent" => r \in Named(Round)
  BY MarkedRound
<1>2. /\ finished' = [finished EXCEPT ![Now] = Round]
      /\ snapshot' = [snapshot EXCEPT ![Now] = NoSnapshot]
      /\ results' = <<>> /\ proposal' = "unasked"
      /\ proc' = Proc("open", {}) /\ proc'.step = "open" /\ memory' = memory /\ audit' = audit
  BY DEF Mark, Goto, Proc
<1>3. StudyTypeOK'
  <2>1. proc' \in [step : Steps, todo : SUBSET Rule]
    BY <1>2 DEF Proc, Steps
  <2>2. Round \in 0..MaxRound
    BY <1>1, GuidelineAssumption DEF Rounds
  <2>3. finished' \in [Arm -> 0..MaxRound]
    BY <2>2, <1>2 DEF RoundInv, StudyTypeOK
  <2>4. snapshot' \in [Arm -> {NoSnapshot} \cup {Saved(m) : m \in Memory}]
    BY <1>2 DEF RoundInv, StudyTypeOK
  <2>5. DOMAIN results' = {}
    BY <1>2
  <2> QED
    BY <2>1, <2>3, <2>4, <2>5, <1>2 DEF RoundInv, StudyTypeOK
<1>4. \A a \in Arm : snapshot'[a] = NoSnapshot
  BY <1>1, <1>2 DEF RoundInv, StudyTypeOK, OneBegun
<1>5. OneBegun'
  BY <1>2, <1>4 DEF OneBegun, Resting
<1>6. InProgress'
  BY <1>2 DEF InProgress
<1>7. /\ DOMAIN Committed = Arm /\ DOMAIN Committed' = Arm
      /\ \A a \in Arm : Committed'[a] = memory[a]
      /\ \A a \in Arm \ {Now} : Committed[a] = memory[a]
  <2>1. DOMAIN memory = Arm
    BY DEF RoundInv, StudyTypeOK
  <2>2. \A a \in Arm : Committed'[a] = memory[a]
    BY <2>1, <1>2, <1>4, Kinds DEF Committed
  <2>3. \A a \in Arm \ {Now} : snapshot[a] = NoSnapshot
    BY DEF RoundInv, OneBegun
  <2>4. \A a \in Arm \ {Now} : Committed[a] = memory[a]
    BY <2>3, CommittedAre DEF RoundInv
  <2> QED
    BY <2>1, <2>2, <2>4, <1>2 DEF Committed
<1>8. Committed' = [Committed EXCEPT ![Now] = memory[Now]]
  <2>1. Committed' = [a \in Arm |-> Committed'[a]]
    BY <1>7 DEF Committed
  <2>2. Committed = [a \in Arm |-> Committed[a]]
    BY <1>7 DEF Committed
  <2> HIDE DEF Committed
  <2>3. \A a \in Arm : Committed'[a] = [Committed EXCEPT ![Now] = memory[Now]][a]
    BY <1>1, <1>7
  <2>4. [Committed EXCEPT ![Now] = memory[Now]] = [a \in Arm |-> [Committed EXCEPT ![Now] = memory[Now]][a]]
    BY <1>7
  <2> QED
    BY <2>1, <2>3, <2>4
<1>9. Settled'
  <2>1. ASSUME NEW a \in Arm
        PROVE  /\ SeenUpTo(Committed'[a], finished'[a])
               /\ \A r \in Rule : Committed'[a].row[r].patch # "absent" => r \in Named(finished'[a])
    <3>1. CASE a = Now
      <4>1. Committed'[a] = memory[Now] /\ finished'[a] = Round
        BY <3>1, <1>1, <1>2, <1>7 DEF RoundInv, StudyTypeOK
      <4> QED
        BY <4>1, <1>1
    <3>2. CASE a # Now
      <4>1. Committed'[a] = Committed[a] /\ finished'[a] = finished[a]
        BY <3>2, <1>1, <1>2, <1>7 DEF RoundInv, StudyTypeOK
      <4> QED
        BY <4>1 DEF RoundInv, Settled
    <3> QED
      BY <3>1, <3>2
  <2> QED
    BY <2>1 DEF Settled
<1> QED
  BY <1>2, <1>3, <1>5, <1>6, <1>8, <1>9 DEF RoundInv

-----------------------------------------------------------------------------
(* A marked round is one round of StudyRounds.                             *)

LEMMA MarkPlays ==
  ASSUME RoundInv, Mark
  PROVE  \E deltas \in [Pending(Committed[Now]) \cup Validated(Committed[Now]) -> Rounds_!Delta],
            fate \in Rounds_!Fate :
           memory[Now] = Rounds_!Played(Now, Committed[Now], Round, deltas, fate)
<1> DEFINE S == Committed[Now]
           live == Pending(S) \cup Validated(S)
           deltas == [r \in live |-> IF r \in DOMAIN results THEN results[r] ELSE 0]
           fate == IF proposal = "unasked" THEN "none" ELSE proposal
           measured == [Opened EXCEPT !.row = [r \in Rule |->
                          IF r \in Due THEN Rounds_!Judged(Opened, r, Round, deltas[r]).row[r]
                          ELSE Opened.row[r]]]
<1>1. /\ snapshot[Now] # NoSnapshot /\ Now \in Arm /\ Round \in Rounds
      /\ S = snapshot[Now].of /\ SeenUpTo(Opened, Round)
  BY MarkedRound, OpenedTyped
<1>2. Due \subseteq live
  <2>1. ASSUME NEW r \in Due  PROVE r \in live
    <3>1. r \in Pending(Opened) \cup Volatile(Opened)
      BY SameSets DEF Due, Rounds_!CandidateRules, Rounds_!FirstOf
    <3>2. r \in Rule /\ Opened.row[r].patch \in {"pending", "validated"}
      BY <3>1 DEF Pending, Volatile, Validated
    <3>3. S.row[r].patch = Opened.row[r].patch
      BY <3>2, <1>1, OpenedTyped
    <3> QED
      BY <3>2, <3>3 DEF Pending, Validated
  <2> QED
    BY <2>1
<1>3. deltas \in [live -> Rounds_!Delta]
  <2>1. live \subseteq Rule
    BY DEF Pending, Validated
  <2>2. \A r \in live : (IF r \in DOMAIN results THEN results[r] ELSE 0) \in Rounds_!Delta
    BY <2>1 DEF RoundInv, StudyTypeOK, Rounds_!Delta
  <2> QED
    BY <2>2
<1>4. fate \in Rounds_!Fate
  BY DEF RoundInv, StudyTypeOK, Rounds_!Fate
<1>5. Opened = Rounds_!Advance(S, Round) /\ Rounds_!Rule = Rule
  BY <1>1, SameOperations, SameRules DEF Opened
<1>6. \A r \in Due : deltas[r] = IF r \in DOMAIN results THEN results[r] ELSE 0
  BY <1>2
<1> HIDE DEF deltas, live, S
<1>7. measured = AfterJudging(Opened, Due, Round, deltas)
  <2>1. ASSUME NEW r \in Rule
        PROVE  Rounds_!Judged(Opened, r, Round, deltas[r]).row[r] = JudgedRow(Opened.row[r], Round, deltas[r])
    <3>1. Opened \in Memory
      BY <1>1 DEF SeenUpTo
    <3> QED
      BY <3>1, <1>1, JudgedLocally DEF Memory
  <2> QED
    BY <2>1 DEF AfterJudging
<1> HIDE DEF measured
<1>8. Rounds_!Played(Now, S, Round, deltas, fate)
        = IF ~Learning(Now) THEN Opened
          ELSE Rounds_!Taken(IF Now = "mmh" THEN Promote(measured) ELSE measured, Round, fate)
  <2>1. Rounds_!Promote(measured) = Promote(measured)
    BY SameOperations
  <2> QED
    BY <2>1, <1>5 DEF Rounds_!Played, Due, measured, Learning
<1>9. CASE Learning(Now)
  <2>1. Due \subseteq DOMAIN results /\ proposal # "unasked"
        /\ memory[Now] = Rounds_!Taken(Decided, Round, proposal)
    BY <1>9 DEF RoundInv, InProgress, Mark
  <2>2. \A r \in Due : deltas[r] = results[r]
    BY <2>1, <1>6
  <2>3. measured = JudgedSoFar(Due)
    BY <2>2, <1>7, JudgingSame DEF JudgedSoFar
  <2>4. memory[Now] = Rounds_!Played(Now, S, Round, deltas, fate)
    BY <2>1, <2>3, <1>8, <1>9 DEF Decided
  <2> QED
    BY <2>4, <1>3, <1>4 DEF S, live
<1>10. CASE ~Learning(Now)
  <2>1. memory[Now] = Opened
    BY <1>10 DEF RoundInv, InProgress, Mark
  <2>2. memory[Now] = Rounds_!Played(Now, S, Round, deltas, fate)
    BY <2>1, <1>8, <1>10
  <2> QED
    BY <2>2, <1>3, <1>4 DEF S, live
<1> QED
  BY <1>9, <1>10

LEMMA RoundInvStep ==
  ASSUME TornSnapshots = FALSE, RoundInv, [StudyNext]_vars
  PROVE  /\ RoundInv'
         /\ \/ Mark
            \/ Committed' = Committed /\ finished' = finished
<1>1. CASE Open
  BY <1>1, OpenKeeps DEF Open
<1>2. CASE Search
  BY <1>2, SearchKeeps DEF Search
<1>3. CASE Measure
  BY <1>3, MeasureKeeps DEF Measure
<1>4. CASE Report
  BY <1>4, ReportKeeps DEF Report
<1>5. CASE Record
  BY <1>5, RecordKeeps DEF Record
<1>6. CASE PromoteArm
  BY <1>6, PromoteArmKeeps DEF PromoteArm
<1>7. CASE Propose
  BY <1>7, ProposeKeeps DEF Propose
<1>8. CASE Stage
  BY <1>8, StageKeeps DEF Stage
<1>9. CASE Mark
  BY <1>9, MarkKeeps
<1>10. CASE Final \/ EvaluationFails \/ Supervise \/ Die \/ Rerun
  <2>1. UNCHANGED disk
    BY <1>10 DEF Final, EvaluationFails, Supervise, Die, Rerun, disk
  <2>2. \E s \in Resting : proc' = Proc(s, {})
    BY <1>10 DEF Final, EvaluationFails, Supervise, Die, Rerun, Goto, Stop, Resting
  <2> QED
    BY <2>1, <2>2, AtRest DEF disk
<1>11. CASE UNCHANGED vars
  <2>1. UNCHANGED <<memory, snapshot, results, proposal, finished, audit, proc>>
    BY <1>11 DEF vars, disk
  <2>2. Now' = Now /\ Round' = Round /\ Complete' = Complete
    BY <2>1, SameTurn
  <2>3. Committed' = Committed
    BY <2>1 DEF Committed
  <2>4. StudyTypeOK' /\ OneBegun' /\ Settled'
    BY <2>1, <2>2, <2>3 DEF RoundInv, StudyTypeOK, OneBegun, Settled
  <2>5. Opened' = Opened
    BY <2>1, <2>2 DEF Opened
  <2>6. Due' = Due
    BY <2>2, <2>5 DEF Due
  <2>7. /\ Decided' = Decided /\ JudgedSoFar(Due \ proc.todo)' = JudgedSoFar(Due \ proc.todo)
        /\ Candidate' = Candidate /\ Learning(Now)' = Learning(Now)
    BY <2>1, <2>2, <2>5, <2>6 DEF Decided, JudgedSoFar, Candidate, Learning, Rounds_!Learning
  <2>8. InProgress'
    BY <2>1, <2>2, <2>5, <2>6, <2>7 DEF RoundInv, InProgress
  <2> QED
    BY <2>1, <2>3, <2>4, <2>8 DEF RoundInv
<1> QED
  BY <1>1, <1>2, <1>3, <1>4, <1>5, <1>6, <1>7, <1>8, <1>9, <1>10, <1>11 DEF StudyNext, StudyStep

LEMMA RoundInvInit ==
  ASSUME StudyInit
  PROVE  RoundInv
<1>1. SeenUpTo(EmptyMemory, 0) /\ EmptyMemory \in Memory
  BY RowTyped DEF SeenUpTo
<1>2. proc \in [step : Steps, todo : SUBSET Rule] /\ proc.step = "open"
  BY DEF StudyInit, Proc, Steps
<1>3. finished \in [Arm -> 0..MaxRound]
  BY GuidelineAssumption DEF StudyInit
<1>4. StudyTypeOK
  <2>1. DOMAIN results = {}
    BY DEF StudyInit
  <2> QED
    BY <1>1, <1>2, <1>3, <2>1 DEF StudyInit, StudyTypeOK
<1>5. \A a \in Arm : snapshot[a] = NoSnapshot
  BY DEF StudyInit
<1>6. OneBegun
  BY <1>2, <1>5 DEF StudyInit, OneBegun, Resting
<1>7. InProgress
  BY <1>2 DEF InProgress
<1>8. \A a \in Arm : Committed[a] = EmptyMemory /\ finished[a] = 0
  BY <1>4, <1>5, CommittedAre DEF StudyInit
<1>9. \A r \in Rule : EmptyMemory.row[r].patch = "absent"
  BY DEF EmptyMemory, NoRow
<1>10. Settled
  BY <1>1, <1>8, <1>9 DEF Settled
<1> QED
  BY <1>4, <1>6, <1>7, <1>10 DEF RoundInv

(* Files and process keep their types, and at every step of a round the    *)
(* memory is what the round's start and the stored results say, whatever   *)
(* was interrupted and replayed (Study.run, adapt).                        *)
THEOREM RoundsReplayed ==
  ASSUME TornSnapshots = FALSE
  PROVE  StudySpec => []RoundInv
<1>1. StudyInit => RoundInv
  BY RoundInvInit
<1>2. RoundInv /\ [StudyNext]_vars => RoundInv'
  BY RoundInvStep
<1> QED
  BY <1>1, <1>2, PTL DEF StudySpec

(* Every completed round left what one uninterrupted round leaves: the     *)
(* study implements StudyRounds, in which a round is one step (Study.run). *)
THEOREM RoundsAreAtomic ==
  ASSUME TornSnapshots = FALSE
  PROVE  StudySpec => RoundsAtomic
<1>1. StudyInit => Rounds_!RoundsInit
  <2> SUFFICES ASSUME StudyInit PROVE Rounds_!RoundsInit
    OBVIOUS
  <2>1. RoundInv
    BY RoundInvInit
  <2>2. DOMAIN Committed = Arm /\ \A a \in Arm : Committed[a] = EmptyMemory
    BY <2>1, CommittedAre DEF RoundInv, StudyInit
  <2>3. Committed = [a \in Arm |-> EmptyMemory]
    <3>1. Committed = [a \in DOMAIN Committed |-> Committed[a]]
      BY DEF Committed
    <3> HIDE DEF Committed
    <3> QED
      BY <3>1, <2>2
  <2> QED
    BY <2>3, SameRules DEF Rounds_!RoundsInit, StudyInit, Arm
<1>2. RoundInv /\ [StudyNext]_vars
        => [\E a \in Arm : Rounds_!PlayRound(a)]_<<Committed, finished>>
  <2> SUFFICES ASSUME RoundInv, [StudyNext]_vars, Mark
               PROVE  \E a \in Arm : Rounds_!PlayRound(a)
    BY RoundInvStep
  <2>1. Now \in Arm /\ Round \in Rounds /\ finished[Now] = Round - 1
        /\ \A b \in Arm : finished[b] >= Round - 1
    BY MarkedRound, RoundAndArm DEF RoundInv, StudyTypeOK
  <2>2. finished[Now] + 1 = Round
    BY <2>1 DEF Rounds
  <2>3. /\ finished' = [finished EXCEPT ![Now] = Round]
        /\ Committed' = [Committed EXCEPT ![Now] = memory[Now]]
    BY MarkKeeps
  <2>4. PICK deltas \in [Pending(Committed[Now]) \cup Validated(Committed[Now]) -> Rounds_!Delta],
             fate \in Rounds_!Fate :
          memory[Now] = Rounds_!Played(Now, Committed[Now], Round, deltas, fate)
    BY MarkPlays
  <2>5. Committed' = [Committed EXCEPT ![Now] = Rounds_!Played(Now, Committed[Now], Round, deltas, fate)]
    BY <2>3, <2>4
  <2>6. Rounds_!Rounds = Rounds /\ Rounds_!Pending(Committed[Now]) = Pending(Committed[Now])
        /\ Rounds_!Validated(Committed[Now]) = Validated(Committed[Now])
    BY SameRules, SameSets
  <2>7. Rounds_!PlayRound(Now)
    BY <2>1, <2>2, <2>3, <2>5, <2>6 DEF Rounds_!PlayRound, Arm
  <2> QED
    BY <2>1, <2>7
<1> QED
  BY <1>1, <1>2, RoundsReplayed, PTL DEF StudySpec, RoundsAtomic, Rounds_!RoundsSpec, Arm

-----------------------------------------------------------------------------
(* The audit log.                                                          *)

LEMMA MaxIs ==
  ASSUME NEW S \in SUBSET Nat, NEW x \in S, \A y \in S : x >= y
  PROVE  Max(S) = x
<1>1. \A z \in S : (\A y \in S : z >= y) => z = x
  OBVIOUS
<1> QED
  BY <1>1 DEF Max

\* What a row and its lines must have in common: the rounds it won, lost and
\* tied, whether it was ever named, and whether its promotion was reported.
RowAgrees(row, wins, losses, ties, isNamed, isPromoted) ==
  /\ wins \cap losses = {} /\ ties \cap (wins \cup losses) = {}
  /\ row.patch \in {"pending", "validated"} =>
       /\ row.won = wins /\ row.lost = losses
       /\ row.measured = Max({0} \cup wins \cup losses \cup ties)
  /\ row.patch = "rolled_back" <=> wins = {} /\ losses # {}
  /\ row.patch # "absent" <=> isNamed
  /\ row.stable <=> isPromoted

\* A hypothesis has no decisive evidence, a validated rule a success.
RowShape(row) ==
  /\ row.patch = "pending" => row.won = {} /\ row.lost = {}
  /\ row.patch = "validated" => row.won # {}
  /\ row.stable => row.patch = "validated"

AddIf(S, k, b) == IF b THEN S \cup {k} ELSE S

LEMMA RowJudged ==
  ASSUME NEW row \in Row, NEW k \in Rounds, NEW delta \in Rounds_!Delta,
         NEW w \in SUBSET (1..(k - 1)), NEW l \in SUBSET (1..(k - 1)), NEW t \in SUBSET (1..(k - 1)),
         NEW isNamed, NEW isPromoted,
         RowAgrees(row, w, l, t, isNamed, isPromoted), RowShape(row),
         row.patch \in {"pending", "validated"}, ~row.stable
  PROVE  /\ RowAgrees(JudgedRow(row, k, delta), AddIf(w, k, delta = 1), AddIf(l, k, delta = -1),
                      AddIf(t, k, delta = 0), isNamed, isPromoted)
         /\ RowShape(JudgedRow(row, k, delta)) /\ ~JudgedRow(row, k, delta).stable
<1>1. k \in Nat /\ k >= 1 /\ k \notin w /\ k \notin l /\ k \notin t
  BY DEF Rounds
<1>2. row.won = w /\ row.lost = l
  BY DEF RowAgrees
<1> DEFINE row2 == JudgedRow(row, k, delta)
           w2 == AddIf(w, k, delta = 1)
           l2 == AddIf(l, k, delta = -1)
           t2 == AddIf(t, k, delta = 0)
           seen == {0} \cup w2 \cup l2 \cup t2
<1>3. Max(seen) = k
  <2>1. \A y \in w \cup l \cup t : y \in Nat /\ k >= y
    BY <1>1
  <2>2. seen \in SUBSET Nat /\ k \in seen /\ \A y \in seen : k >= y
    BY <1>1, <2>1 DEF AddIf, Rounds_!Delta
  <2> QED
    BY <2>2, MaxIs
<1>4. w2 \cap l2 = {} /\ t2 \cap (w2 \cup l2) = {}
  BY <1>1 DEF AddIf, RowAgrees
<1> HIDE DEF seen
<1>5. CASE delta = 0
  <2>1. row2 = [row EXCEPT !.measured = k]
    BY <1>5 DEF JudgedRow
  <2>2. /\ row2.patch = row.patch /\ row2.won = row.won /\ row2.lost = row.lost
        /\ row2.stable = row.stable /\ row2.measured = k
    BY <2>1 DEF Row
  <2>3. w2 = w /\ l2 = l
    BY <1>5 DEF AddIf
  <2> HIDE DEF row2, w2, l2, t2
  <2>4. RowAgrees(row2, w2, l2, t2, isNamed, isPromoted)
    BY <1>3, <1>4, <2>2, <2>3 DEF RowAgrees, seen
  <2>5. RowShape(row2) /\ ~row2.stable
    BY <2>2 DEF RowShape
  <2> QED
    BY <2>4, <2>5 DEF row2, w2, l2, t2
<1>6. CASE delta = 1
  <2>1. row2 = [[row EXCEPT !.measured = k] EXCEPT !.patch = "validated", !.won = @ \cup {k}]
    BY <1>1, <1>2, <1>6 DEF JudgedRow
  <2>2. /\ row2.patch = "validated" /\ row2.won = row.won \cup {k} /\ row2.lost = row.lost
        /\ row2.stable = row.stable /\ row2.measured = k
    BY <2>1 DEF Row
  <2>3. w2 = w \cup {k} /\ l2 = l
    BY <1>6 DEF AddIf
  <2> HIDE DEF row2, w2, l2, t2
  <2>4. RowAgrees(row2, w2, l2, t2, isNamed, isPromoted)
    BY <1>2, <1>3, <1>4, <2>2, <2>3 DEF RowAgrees, seen
  <2>5. RowShape(row2) /\ ~row2.stable
    BY <2>2 DEF RowShape
  <2> QED
    BY <2>4, <2>5 DEF row2, w2, l2, t2
<1>7. CASE delta = -1 /\ row.patch = "pending"
  <2>1. row2 = [NoRow EXCEPT !.patch = "rolled_back"]
    BY <1>1, <1>2, <1>7 DEF JudgedRow
  <2>2. row2.patch = "rolled_back" /\ ~row2.stable
    BY <2>1 DEF NoRow
  <2>3. w2 = {} /\ l2 = l \cup {k}
    BY <1>2, <1>7 DEF AddIf, RowShape
  <2> HIDE DEF row2, w2, l2, t2
  <2>4. RowAgrees(row2, w2, l2, t2, isNamed, isPromoted)
    BY <1>2, <1>4, <1>7, <2>2, <2>3 DEF RowAgrees
  <2>5. RowShape(row2) /\ ~row2.stable
    BY <2>2 DEF RowShape
  <2> QED
    BY <2>4, <2>5 DEF row2, w2, l2, t2
<1>8. CASE delta = -1 /\ row.patch = "validated"
  <2>1. row2 = [[row EXCEPT !.measured = k] EXCEPT !.lost = @ \cup {k}]
    BY <1>1, <1>2, <1>8 DEF JudgedRow
  <2>2. /\ row2.patch = "validated" /\ row2.won = row.won /\ row2.lost = row.lost \cup {k}
        /\ row2.stable = row.stable /\ row2.measured = k
    BY <1>8, <2>1 DEF Row
  <2>3. w2 = w /\ l2 = l \cup {k} /\ w # {}
    BY <1>2, <1>8 DEF AddIf, RowShape
  <2> HIDE DEF row2, w2, l2, t2
  <2>4. RowAgrees(row2, w2, l2, t2, isNamed, isPromoted)
    BY <1>2, <1>3, <1>4, <1>8, <2>2, <2>3 DEF RowAgrees, seen
  <2>5. RowShape(row2) /\ ~row2.stable
    BY <1>2, <2>2, <2>3 DEF RowShape
  <2> QED
    BY <2>4, <2>5 DEF row2, w2, l2, t2
<1> QED
  BY <1>5, <1>6, <1>7, <1>8 DEF Rounds_!Delta

LEMMA RowPromoted ==
  ASSUME NEW row \in Row, NEW w, NEW l, NEW t, NEW isNamed, NEW isPromoted,
         RowAgrees(row, w, l, t, isNamed, isPromoted), RowShape(row), Blockers(row) = {}
  PROVE  /\ RowAgrees([row EXCEPT !.stable = TRUE], w, l, t, isNamed, TRUE)
         /\ RowShape([row EXCEPT !.stable = TRUE])
         /\ row.patch = "validated" /\ ~row.stable
<1>1. row.patch = "validated" /\ ~row.stable
  BY DEF Blockers
<1> QED
  BY <1>1 DEF RowAgrees, RowShape, Row

LEMMA RowTaken ==
  ASSUME NEW row \in Row, NEW fate \in Rounds_!Fate, NEW isNamed, NEW isPromoted,
         RowAgrees(row, {}, {}, {}, isNamed, isPromoted), RowShape(row), row.patch = "absent"
  PROVE  /\ RowAgrees(TakenRow(row, fate), {}, {}, {}, fate # "none", isPromoted)
         /\ RowShape(TakenRow(row, fate))
<1>1. Max({0} \cup {} \cup {} \cup {}) = 0
  <2>1. Max({0}) = 0
    BY MaxIs
  <2>2. {0} \cup {} \cup {} \cup {} = {0}
    OBVIOUS
  <2> QED
    BY <2>1, <2>2
<1>2. ~row.stable /\ ~isPromoted
  BY DEF RowShape, RowAgrees
<1>3. CASE fate = "none"
  BY <1>3 DEF TakenRow, RowAgrees, RowShape
<1>4. CASE fate = "rejected"
  <2>1. TakenRow(row, fate).patch = "rejected" /\ ~TakenRow(row, fate).stable
    BY <1>4 DEF TakenRow, NoRow
  <2> QED
    BY <1>2, <1>4, <2>1 DEF RowAgrees, RowShape
<1>5. CASE fate = "staged"
  <2>1. /\ TakenRow(row, fate).patch = "pending" /\ ~TakenRow(row, fate).stable
        /\ TakenRow(row, fate).won = {} /\ TakenRow(row, fate).lost = {}
        /\ TakenRow(row, fate).measured = 0
    BY <1>5 DEF TakenRow, NoRow
  <2> QED
    BY <1>1, <1>2, <1>5, <2>1 DEF RowAgrees, RowShape
<1> QED
  BY <1>3, <1>4, <1>5 DEF Rounds_!Fate

\* A line of the round in progress says what its results and its proposal say.
LineOfRound(l) ==
  /\ l.arm = Now /\ l.round = Round /\ snapshot[Now] # NoSnapshot /\ Learning(Now)
  /\ l.event = "validation" =>
       l.rule \in Due /\ l.rule \in DOMAIN results /\ l.decision = results[l.rule]
  /\ l.event = "promotion" =>
       /\ Due \subseteq DOMAIN results
       /\ l.rule \in Stable(Decided) \ Stable(JudgedSoFar(Due))
  /\ l.event \in {"rejected", "staged"} =>
       proposal = l.event /\ l.rule = <<Round, 1>>

(* No line runs ahead of the round in progress.                            *)
LinesKnown == \A l \in audit : l.round <= finished[l.arm] \/ LineOfRound(l)

(* A rule is proposed in the round it is named after and measured later.   *)
LinesDated ==
  \A l \in audit : /\ l.event = "validation" => l.rule[1] < l.round
                   /\ l.event \in {"rejected", "staged"} => l.rule = <<l.round, 1>>

(* What the process has done in this round is in the log.                  *)
LinesWritten ==
  /\ proc.step \in {"judge", "report", "record"} =>
       \A r \in Due \ proc.todo : Line("validation", r, results[r]) \in audit
  /\ proc.step = "record" => Line("validation", Candidate, results[Candidate]) \in audit
  /\ proc.step \in {"propose", "stage", "mark"} /\ Learning(Now) =>
       /\ \A r \in Due : Line("validation", r, results[r]) \in audit
       /\ \A r \in Stable(Decided) \ Stable(JudgedSoFar(Due)) : Line("promotion", r, 0) \in audit
  /\ proc.step = "mark" /\ Learning(Now) /\ proposal # "none" =>
       Line(proposal, <<Round, 1>>, 0) \in audit

NamedIn(a, r) == \E l \in Lines(a, "staged") \cup Lines(a, "rejected") : l.rule = r
PromotedIn(a, r) == \E l \in Lines(a, "promotion") : l.rule = r

(* The settled memories and the lines of the finished rounds agree.        *)
Told ==
  \A a \in Arm, r \in Rule :
    /\ RowAgrees(Committed[a].row[r], MeasuredWith(a, r, {1}), MeasuredWith(a, r, {-1}),
                 MeasuredWith(a, r, {0}), NamedIn(a, r), PromotedIn(a, r))
    /\ RowShape(Committed[a].row[r])

AuditInv == LinesKnown /\ LinesDated /\ LinesWritten /\ Told

LEMMA ToldAgrees == Told => AuditAgrees
BY DEF Told, RowAgrees, NamedIn, PromotedIn, AuditAgrees

\* Lines of the round in progress are none of a finished one.
LEMMA LinesOfFinished ==
  ASSUME RoundInv, finished' = finished, Committed' = Committed, Told, NEW added,
         audit' = audit \cup added, \A l \in added : l.arm \in Arm /\ l.round > finished[l.arm]
                                                     /\ l.round \in Rounds
  PROVE  Told'
<1>1. ASSUME NEW a, NEW e  PROVE Lines(a, e)' = Lines(a, e)
  <2>1. \A l \in added : ~(l.round <= finished[l.arm])
    BY DEF RoundInv, StudyTypeOK, Rounds
  <2> QED
    BY <2>1 DEF Lines
<1>2. ASSUME NEW a, NEW r, NEW D  PROVE MeasuredWith(a, r, D)' = MeasuredWith(a, r, D)
  BY <1>1 DEF MeasuredWith
<1>3. ASSUME NEW a, NEW r
      PROVE  NamedIn(a, r)' = NamedIn(a, r) /\ PromotedIn(a, r)' = PromotedIn(a, r)
  BY <1>1 DEF NamedIn, PromotedIn
<1> QED
  BY <1>2, <1>3 DEF Told

\* What a line says of the round in progress stays true while results and
\* proposal are only added.
LEMMA LinesStay ==
  ASSUME LinesKnown, finished' = finished,
         \A l \in DOMAIN results : l \in DOMAIN results' /\ results'[l] = results[l],
         proposal # "unasked" => proposal' = proposal,
         snapshot[Now] # NoSnapshot =>
           snapshot'[Now] # NoSnapshot /\ Opened' = Opened /\ Due' = Due,
         NEW l \in audit
  PROVE  l.round <= finished'[l.arm] \/ LineOfRound(l)'
<1>1. Now' = Now /\ Round' = Round
  BY SameTurn
<1>2. SUFFICES ASSUME LineOfRound(l) PROVE LineOfRound(l)'
  BY DEF LinesKnown
<1>3. snapshot[Now] # NoSnapshot /\ snapshot'[Now] # NoSnapshot /\ Opened' = Opened /\ Due' = Due
  BY <1>2 DEF LineOfRound
<1>4. Learning(Now)' = Learning(Now)
  BY <1>1 DEF Learning, Rounds_!Learning
<1>5. ASSUME Due \subseteq DOMAIN results
      PROVE  JudgedSoFar(Due)' = JudgedSoFar(Due) /\ Decided' = Decided
  <2>1. \A r \in Due : results[r] = results'[r]
    BY <1>5
  <2>2. JudgedSoFar(Due)' = AfterJudging(Opened, Due, Round, results')
    BY <1>1, <1>3 DEF JudgedSoFar
  <2>3. JudgedSoFar(Due)' = JudgedSoFar(Due)
    BY <2>1, <2>2, JudgingSame DEF JudgedSoFar
  <2> QED
    BY <1>1, <2>3 DEF Decided
<1>6. CASE l.event = "validation"
  BY <1>1, <1>2, <1>3, <1>4, <1>6 DEF LineOfRound
<1>7. CASE l.event = "promotion"
  BY <1>1, <1>2, <1>3, <1>4, <1>5, <1>7 DEF LineOfRound
<1>8. CASE l.event \in {"rejected", "staged"}
  BY <1>1, <1>2, <1>3, <1>4, <1>8 DEF LineOfRound
<1>9. CASE l.event \notin {"validation", "promotion", "rejected", "staged"}
  BY <1>1, <1>2, <1>3, <1>4, <1>9 DEF LineOfRound
<1> QED
  BY <1>6, <1>7, <1>8, <1>9

\* Steps that write no line and finish no round.
LEMMA QuietStep ==
  ASSUME RoundInv, AuditInv, RoundInv', finished' = finished, Committed' = Committed,
         audit' = audit, LinesWritten',
         \A l \in DOMAIN results : l \in DOMAIN results' /\ results'[l] = results[l],
         proposal # "unasked" => proposal' = proposal,
         snapshot[Now] # NoSnapshot =>
           snapshot'[Now] # NoSnapshot /\ Opened' = Opened /\ Due' = Due
  PROVE  AuditInv'
<1>1. LinesKnown'
  BY LinesStay DEF AuditInv, LinesKnown
<1>2. LinesDated'
  BY DEF AuditInv, LinesDated
<1>3. Told'
  <2> DEFINE added == {}
  <2>1. audit' = audit \cup added /\ \A l \in added : l.arm \in Arm /\ l.round > finished[l.arm]
                                                        /\ l.round \in Rounds
    OBVIOUS
  <2>2. Told
    BY DEF AuditInv
  <2> HIDE DEF added
  <2> QED
    BY <2>1, <2>2, LinesOfFinished
<1> QED
  BY <1>1, <1>2, <1>3 DEF AuditInv

LEMMA AtRestTold ==
  ASSUME RoundInv, AuditInv, UNCHANGED disk, NEW s \in Resting, proc' = Proc(s, {})
  PROVE  AuditInv'
<1>1. RoundInv' /\ Committed' = Committed
  BY AtRest
<1>2. proc'.step \in Resting
  BY DEF Proc
<1>3. LinesWritten'
  BY <1>2 DEF LinesWritten, Resting
<1>4. Now' = Now /\ Round' = Round
  BY SameTurn DEF disk
<1>5. Opened' = Opened
  BY <1>4 DEF Opened, disk
<1>6. Due' = Due
  BY <1>4, <1>5 DEF Due
<1> QED
  BY <1>1, <1>3, <1>4, <1>5, <1>6, QuietStep DEF disk

LEMMA OpenTold ==
  ASSUME RoundInv, AuditInv, Open
  PROVE  AuditInv'
<1>1. RoundInv' /\ Committed' = Committed
  BY OpenKeeps
<1>2. Now \in Arm /\ ~Complete
  BY RoundAndArm DEF RoundInv, StudyTypeOK, Open
<1>3. finished' = finished /\ audit' = audit /\ results' = results /\ proposal' = proposal
  BY DEF Open
<1>4. Now' = Now /\ Round' = Round
  BY <1>3, SameTurn
<1>5. snapshot[Now] # NoSnapshot => snapshot'[Now] = snapshot[Now]
  <2>1. SUFFICES ASSUME snapshot[Now] # NoSnapshot PROVE snapshot'[Now] = snapshot[Now]
    OBVIOUS
  <2>2. snapshot[Now].kind = "saved" /\ snapshot[Now] = Saved(snapshot[Now].of)
    BY <1>2, <2>1, CommittedAre DEF RoundInv
  <2>3. snapshot' = [snapshot EXCEPT ![Now] = Saved(snapshot[Now].of)]
    BY <2>2 DEF Open
  <2> QED
    BY <2>2, <2>3
<1>6. snapshot[Now] # NoSnapshot =>
        snapshot'[Now] # NoSnapshot /\ Opened' = Opened /\ Due' = Due
  <2>1. SUFFICES ASSUME snapshot[Now] # NoSnapshot
                 PROVE  snapshot'[Now] # NoSnapshot /\ Opened' = Opened /\ Due' = Due
    OBVIOUS
  <2>2. Opened' = Opened
    BY <1>4, <1>5, <2>1 DEF Opened
  <2> QED
    BY <1>4, <1>5, <2>1, <2>2 DEF Due
<1>7. LinesWritten'
  <2>1. proc'.step \in {"search", "down"}
    BY DEF Open, Goto, Stop, Proc
  <2> QED
    BY <2>1 DEF LinesWritten
<1> QED
  BY <1>1, <1>3, <1>6, <1>7, QuietStep

\* The same turn, start, candidates and results leave the same decisions.
LEMMA SameDecided ==
  ASSUME RoundInv, snapshot[Now] # NoSnapshot, snapshot' = snapshot, finished' = finished
  PROVE  /\ Now' = Now /\ Round' = Round /\ Opened' = Opened /\ Due' = Due
         /\ Learning(Now)' = Learning(Now)
         /\ snapshot'[Now] # NoSnapshot
         /\ results' = results => JudgedSoFar(Due)' = JudgedSoFar(Due) /\ Decided' = Decided
<1>1. Now' = Now /\ Round' = Round
  BY SameTurn
<1>2. Opened' = Opened
  BY <1>1 DEF Opened
<1>3. Due' = Due
  BY <1>1, <1>2 DEF Due
<1>4. results' = results => JudgedSoFar(Due)' = JudgedSoFar(Due)
  BY <1>1, <1>2, <1>3 DEF JudgedSoFar
<1>5. results' = results => Decided' = Decided
  BY <1>1, <1>4 DEF Decided
<1> QED
  BY <1>1, <1>2, <1>3, <1>4, <1>5 DEF Learning, Rounds_!Learning

LEMMA SearchTold ==
  ASSUME RoundInv, AuditInv, Search
  PROVE  AuditInv'
<1>1. RoundInv' /\ Committed' = Committed
  BY SearchKeeps
<1>2. snapshot[Now] # NoSnapshot /\ memory[Now] = Opened
  BY DEF RoundInv, OneBegun, InProgress, Search, Resting
<1>3. finished' = finished /\ audit' = audit /\ proposal' = proposal /\ snapshot' = snapshot
  BY DEF Search
<1>4. \A l \in DOMAIN results : l \in DOMAIN results' /\ results'[l] = results[l]
  BY DEF Search, Evaluate
<1>5. /\ Now' = Now /\ Opened' = Opened /\ Due' = Due /\ snapshot'[Now] # NoSnapshot
      /\ Learning(Now)' = Learning(Now)
  BY <1>2, <1>3, SameDecided
<1>6. LinesWritten'
  <2>1. proc' = IF Learning(Now) THEN Proc("judge", Due) ELSE Proc("mark", {})
    BY <1>2, SameCandidates DEF Search, Goto, Due
  <2>2. CASE Learning(Now)
    <3>1. proc'.step = "judge" /\ proc'.todo = Due
      BY <2>1, <2>2 DEF Proc
    <3>2. Due' \ proc'.todo = {}
      BY <3>1, <1>5
    <3> QED
      BY <3>1, <3>2 DEF LinesWritten
  <2>3. CASE ~Learning(Now)
    <3>1. proc'.step = "mark" /\ ~Learning(Now)'
      BY <2>1, <2>3, <1>5 DEF Proc
    <3> QED
      BY <3>1 DEF LinesWritten
  <2> QED
    BY <2>2, <2>3
<1> QED
  BY <1>1, <1>3, <1>4, <1>5, <1>6, QuietStep

LEMMA MeasureTold ==
  ASSUME RoundInv, AuditInv, Measure
  PROVE  AuditInv'
<1>1. RoundInv' /\ Committed' = Committed
  BY MeasureKeeps
<1>2. snapshot[Now] # NoSnapshot /\ Due \ proc.todo \subseteq DOMAIN results
  BY DEF RoundInv, OneBegun, InProgress, Measure, Resting
<1>3. finished' = finished /\ audit' = audit /\ proposal' = proposal /\ snapshot' = snapshot
      /\ proc'.step = "report" /\ proc'.todo = proc.todo /\ proc.step = "judge"
  BY DEF Measure, Goto, Proc
<1>4. \A l \in DOMAIN results : l \in DOMAIN results' /\ results'[l] = results[l]
  BY DEF Measure, Evaluate
<1>5. /\ Now' = Now /\ Round' = Round /\ Opened' = Opened /\ Due' = Due /\ snapshot'[Now] # NoSnapshot
  BY <1>2, <1>3, SameDecided
<1>6. LinesWritten'
  <2>1. \A r \in Due \ proc.todo : Line("validation", r, results[r]) \in audit
    BY <1>3 DEF AuditInv, LinesWritten
  <2>2. \A r \in Due' \ proc'.todo : Line("validation", r, results[r])' \in audit'
    BY <1>2, <1>3, <1>4, <1>5, <2>1 DEF Line
  <2> QED
    BY <1>3, <2>2 DEF LinesWritten, Line
<1> QED
  BY <1>1, <1>3, <1>4, <1>5, <1>6, QuietStep

\* A line says which arm's round it is of, and of what.
LEMMA LineIs ==
  ASSUME NEW event, NEW r, NEW decision
  PROVE  /\ Line(event, r, decision).arm = Now /\ Line(event, r, decision).round = Round
         /\ Line(event, r, decision).event = event /\ Line(event, r, decision).rule = r
         /\ Line(event, r, decision).decision = decision
BY DEF Line

\* Steps that write lines of the round in progress.
LEMMA WritingStep ==
  ASSUME RoundInv, AuditInv, finished' = finished, Committed' = Committed, LinesWritten',
         snapshot' = snapshot, snapshot[Now] # NoSnapshot, results' = results,
         proposal' = proposal, NEW added, audit' = audit \cup added,
         \A l \in added : LineOfRound(l)
  PROVE  AuditInv'
<1>1. /\ Now' = Now /\ Round' = Round /\ Opened' = Opened /\ Due' = Due
      /\ Learning(Now)' = Learning(Now) /\ snapshot'[Now] # NoSnapshot
      /\ JudgedSoFar(Due)' = JudgedSoFar(Due) /\ Decided' = Decided
  BY SameDecided
<1>2. Now \in Arm /\ Round \in Rounds /\ finished[Now] = Round - 1 /\ Due \subseteq Named(Round - 1)
  BY OpenedTyped
<1>3. ASSUME NEW l, LineOfRound(l)  PROVE LineOfRound(l)'
  BY <1>1, <1>3 DEF LineOfRound
<1>4. LinesKnown'
  <2>1. ASSUME NEW l \in audit'  PROVE l.round <= finished'[l.arm] \/ LineOfRound(l)'
    <3>1. CASE l \in audit
      BY <1>3, <3>1 DEF AuditInv, LinesKnown
    <3>2. CASE l \in added
      BY <1>3, <3>2
    <3> QED
      BY <2>1, <3>1, <3>2
  <2> QED
    BY <2>1 DEF LinesKnown
<1>5. LinesDated'
  <2>1. ASSUME NEW l \in added
        PROVE  /\ l.event = "validation" => l.rule[1] < l.round
               /\ l.event \in {"rejected", "staged"} => l.rule = <<l.round, 1>>
    <3>1. LineOfRound(l)
      BY <2>1
    <3>2. \A r \in Due : r[1] < Round
      BY <1>2 DEF Named, Rounds
    <3> QED
      BY <3>1, <3>2 DEF LineOfRound
  <2>2. \A l \in audit' : l \in audit \/ l \in added
    OBVIOUS
  <2> QED
    BY <2>1, <2>2 DEF AuditInv, LinesDated
<1>6. Told'
  <2>1. \A l \in added : l.arm \in Arm /\ l.round > finished[l.arm] /\ l.round \in Rounds
    BY <1>2 DEF LineOfRound, Rounds
  <2>2. Told
    BY DEF AuditInv
  <2> QED
    BY <2>1, <2>2, LinesOfFinished
<1> QED
  BY <1>4, <1>5, <1>6 DEF AuditInv

LEMMA ReportTold ==
  ASSUME RoundInv, AuditInv, Report
  PROVE  AuditInv'
<1>1. RoundInv' /\ Committed' = Committed
  BY ReportKeeps
<1>2. snapshot[Now] # NoSnapshot /\ Learning(Now) /\ proc.todo # {}
      /\ Candidate \in DOMAIN results /\ proc.step = "report"
  BY DEF RoundInv, OneBegun, InProgress, Report, Resting
<1>3. Candidate \in Due
  BY <1>2, CandidateIsOne
<1> DEFINE new == Line("validation", Candidate, results[Candidate])
<1>4. /\ audit' = audit \cup {new} /\ proc'.step = "record" /\ proc'.todo = proc.todo
      /\ UNCHANGED <<memory, snapshot, results, proposal, finished>>
  BY DEF Report, Goto, Proc
<1>5. /\ Now' = Now /\ Round' = Round /\ Due' = Due
  BY <1>2, <1>4, SameDecided
<1>6. Candidate' = Candidate
  BY <1>4, <1>5 DEF Candidate
<1>7. LinesWritten'
  <2>1. \A r \in Due \ proc.todo : Line("validation", r, results[r]) \in audit
    BY <1>2 DEF AuditInv, LinesWritten
  <2>2. \A r \in Due' \ proc'.todo : Line("validation", r, results[r])' \in audit'
    BY <1>4, <1>5, <2>1 DEF Line
  <2>3. Line("validation", Candidate, results[Candidate])' \in audit'
    BY <1>4, <1>5, <1>6 DEF Line
  <2> QED
    BY <1>4, <2>2, <2>3 DEF LinesWritten, Line
<1>8. LineOfRound(new)
  BY <1>2, <1>3, LineIs DEF LineOfRound
<1> DEFINE added == {new}
<1>9. audit' = audit \cup added /\ \A l \in added : LineOfRound(l)
  BY <1>4, <1>8
<1> HIDE DEF added
<1> QED
  BY <1>1, <1>2, <1>4, <1>7, <1>9, WritingStep

LEMMA RecordTold ==
  ASSUME RoundInv, AuditInv, Record
  PROVE  AuditInv'
<1>1. RoundInv' /\ Committed' = Committed
  BY RecordKeeps
<1>2. snapshot[Now] # NoSnapshot /\ proc.step = "record"
  BY DEF RoundInv, OneBegun, Record, Resting
<1>3. /\ proc'.step = "judge" /\ proc'.todo = proc.todo \ {Candidate}
      /\ UNCHANGED <<snapshot, results, proposal, finished, audit>>
  BY DEF Record, Goto, Proc
<1>4. /\ Now' = Now /\ Round' = Round /\ Opened' = Opened /\ Due' = Due /\ snapshot'[Now] # NoSnapshot
  BY <1>2, <1>3, SameDecided
<1>5. LinesWritten'
  <2>1. \A r \in Due \ proc.todo : Line("validation", r, results[r]) \in audit
    BY <1>2 DEF AuditInv, LinesWritten
  <2>2. Line("validation", Candidate, results[Candidate]) \in audit
    BY <1>2 DEF AuditInv, LinesWritten
  <2>3. \A r \in Due' \ proc'.todo : r \in Due \ proc.todo \/ r = Candidate
    BY <1>3, <1>4
  <2>4. \A r \in Due' \ proc'.todo : Line("validation", r, results[r])' \in audit'
    BY <1>3, <1>4, <2>1, <2>2, <2>3 DEF Line
  <2> QED
    BY <1>3, <2>4 DEF LinesWritten, Line
<1> QED
  BY <1>1, <1>3, <1>4, <1>5, QuietStep

LEMMA PromoteArmTold ==
  ASSUME RoundInv, AuditInv, PromoteArm
  PROVE  AuditInv'
<1>1. RoundInv' /\ Committed' = Committed
  BY PromoteArmKeeps
<1>2. snapshot[Now] # NoSnapshot /\ memory[Now] = JudgedSoFar(Due)
      /\ Due \subseteq DOMAIN results /\ Learning(Now) /\ proc.todo = {} /\ proc.step = "judge"
  BY DEF RoundInv, OneBegun, InProgress, PromoteArm, Resting
<1> DEFINE promoted == Stable(Decided) \ Stable(JudgedSoFar(Due))
           added == {Line("promotion", r, 0) : r \in promoted}
<1>3. proc'.step = "propose" /\ UNCHANGED <<snapshot, results, proposal, finished>>
  BY DEF PromoteArm, Goto, Proc
<1>4. audit' = audit \cup added
  <2>1. CASE Now = "mmh"
    BY <1>2, <2>1 DEF PromoteArm, Decided
  <2>2. CASE Now # "mmh"
    <3>1. promoted = {}
      BY <2>2 DEF Decided
    <3>2. audit' = audit
      BY <2>2 DEF PromoteArm
    <3> QED
      BY <3>1, <3>2
  <2> QED
    BY <2>1, <2>2
<1>5. /\ Now' = Now /\ Round' = Round /\ Due' = Due /\ Learning(Now)' = Learning(Now)
      /\ JudgedSoFar(Due)' = JudgedSoFar(Due) /\ Decided' = Decided
  BY <1>2, <1>3, SameDecided
<1>6. LinesWritten'
  <2>1. \A r \in Due : Line("validation", r, results[r]) \in audit
    BY <1>2 DEF AuditInv, LinesWritten
  <2>2. \A r \in Due' : Line("validation", r, results[r])' \in audit'
    BY <1>3, <1>4, <1>5, <2>1 DEF Line
  <2>3. \A r \in promoted : Line("promotion", r, 0)' \in audit'
    BY <1>4, <1>5 DEF Line
  <2>4. (Stable(Decided) \ Stable(JudgedSoFar(Due)))' = promoted
    BY <1>5 DEF Stable, Volatile, Validated
  <2> HIDE DEF promoted, added
  <2> QED
    BY <1>3, <2>2, <2>3, <2>4 DEF LinesWritten, Line
<1>7. \A l \in added : LineOfRound(l)
  <2>1. ASSUME NEW r \in promoted  PROVE LineOfRound(Line("promotion", r, 0))
    BY <1>2, LineIs DEF LineOfRound
  <2> QED
    BY <2>1
<1> HIDE DEF added
<1> QED
  BY <1>1, <1>2, <1>3, <1>4, <1>6, <1>7, WritingStep

LEMMA ProposeTold ==
  ASSUME RoundInv, AuditInv, Propose
  PROVE  AuditInv'
<1>1. RoundInv' /\ Committed' = Committed
  BY ProposeKeeps
<1>2. snapshot[Now] # NoSnapshot /\ proc.step = "propose" /\ Learning(Now)
  BY DEF RoundInv, OneBegun, InProgress, Propose, Resting
<1>3. /\ proc'.step = "stage" /\ UNCHANGED <<snapshot, results, finished, audit>>
      /\ proposal # "unasked" => proposal' = proposal
  BY DEF Propose, Goto, Proc
<1>4. /\ Now' = Now /\ Round' = Round /\ Opened' = Opened /\ Due' = Due /\ snapshot'[Now] # NoSnapshot
      /\ Decided' = Decided /\ JudgedSoFar(Due)' = JudgedSoFar(Due)
  BY <1>2, <1>3, SameDecided
<1>5. LinesWritten'
  <2>1. /\ \A r \in Due : Line("validation", r, results[r]) \in audit
        /\ \A r \in Stable(Decided) \ Stable(JudgedSoFar(Due)) : Line("promotion", r, 0) \in audit
    BY <1>2 DEF AuditInv, LinesWritten
  <2>2. \A r \in Due' : Line("validation", r, results[r])' \in audit'
    BY <1>3, <1>4, <2>1 DEF Line
  <2>3. (Stable(Decided) \ Stable(JudgedSoFar(Due)))' = Stable(Decided) \ Stable(JudgedSoFar(Due))
    BY <1>4 DEF Stable, Volatile, Validated
  <2>4. \A r \in Stable(Decided) \ Stable(JudgedSoFar(Due)) : Line("promotion", r, 0)' \in audit'
    BY <1>3, <1>4, <2>1 DEF Line
  <2> QED
    BY <1>3, <2>2, <2>3, <2>4 DEF LinesWritten, Line
<1> QED
  BY <1>1, <1>3, <1>4, <1>5, QuietStep

LEMMA StageTold ==
  ASSUME RoundInv, AuditInv, Stage
  PROVE  AuditInv'
<1>1. RoundInv' /\ Committed' = Committed
  BY StageKeeps
<1>2. snapshot[Now] # NoSnapshot /\ proc.step = "stage" /\ Learning(Now) /\ proposal # "unasked"
  BY DEF RoundInv, OneBegun, InProgress, Stage, Resting
<1>3. Round \in Rounds /\ proposal \in {"none", "rejected", "staged"}
  BY <1>2, OpenedTyped DEF RoundInv, StudyTypeOK, Rounds_!Fate
<1> DEFINE added == IF proposal = "none" THEN {} ELSE {Line(proposal, <<Round, 1>>, 0)}
<1>4. /\ proc'.step = "mark" /\ UNCHANGED <<snapshot, results, proposal, finished>>
      /\ audit' = audit \cup added
  BY <1>3, ProposedIsRule DEF Stage, Goto, Proc
<1>5. /\ Now' = Now /\ Round' = Round /\ Due' = Due /\ Learning(Now)' = Learning(Now)
      /\ JudgedSoFar(Due)' = JudgedSoFar(Due) /\ Decided' = Decided
  BY <1>2, <1>4, SameDecided
<1>6. LinesWritten'
  <2>1. /\ \A r \in Due : Line("validation", r, results[r]) \in audit
        /\ \A r \in Stable(Decided) \ Stable(JudgedSoFar(Due)) : Line("promotion", r, 0) \in audit
    BY <1>2 DEF AuditInv, LinesWritten
  <2>2. \A r \in Due' : Line("validation", r, results[r])' \in audit'
    BY <1>4, <1>5, <2>1 DEF Line
  <2>3. (Stable(Decided) \ Stable(JudgedSoFar(Due)))' = Stable(Decided) \ Stable(JudgedSoFar(Due))
    BY <1>5 DEF Stable, Volatile, Validated
  <2>4. \A r \in Stable(Decided) \ Stable(JudgedSoFar(Due)) : Line("promotion", r, 0)' \in audit'
    BY <1>4, <1>5, <2>1 DEF Line
  <2>5. proposal # "none" => Line(proposal, <<Round, 1>>, 0)' \in audit'
    BY <1>4, <1>5 DEF Line
  <2> QED
    BY <1>4, <1>5, <2>2, <2>3, <2>4, <2>5 DEF LinesWritten, Line
<1>7. \A l \in added : LineOfRound(l)
  <2>1. proposal # "none" => LineOfRound(Line(proposal, <<Round, 1>>, 0))
    BY <1>2, <1>3, LineIs DEF LineOfRound
  <2> QED
    BY <2>1
<1> HIDE DEF added
<1> QED
  BY <1>1, <1>2, <1>4, <1>6, <1>7, WritingStep

\* What a round makes of a row and of its lines, before the proposal.
LEMMA RowDecided ==
  ASSUME NEW row \in Row, NEW k \in Rounds,
         NEW w \in SUBSET (1..(k - 1)), NEW l \in SUBSET (1..(k - 1)), NEW t \in SUBSET (1..(k - 1)),
         NEW isNamed, NEW isPromoted,
         RowAgrees(row, w, l, t, isNamed, isPromoted), RowShape(row),
         NEW due \in BOOLEAN, NEW delta,
         due => delta \in Rounds_!Delta /\ row.patch \in {"pending", "validated"} /\ ~row.stable,
         NEW judged, judged = IF due THEN JudgedRow(row, k, delta) ELSE row,
         NEW ready \in BOOLEAN, ready => Blockers(judged) = {},
         NEW outcome, outcome = IF ready THEN [judged EXCEPT !.stable = TRUE] ELSE judged
  PROVE  /\ RowAgrees(outcome, AddIf(w, k, due /\ delta = 1), AddIf(l, k, due /\ delta = -1),
                      AddIf(t, k, due /\ delta = 0), isNamed, isPromoted \/ ready)
         /\ RowShape(outcome)
<1> DEFINE w2 == AddIf(w, k, due /\ delta = 1)
           l2 == AddIf(l, k, due /\ delta = -1)
           t2 == AddIf(t, k, due /\ delta = 0)
<1>1. RowAgrees(judged, w2, l2, t2, isNamed, isPromoted) /\ RowShape(judged) /\ judged \in Row
  <2>1. CASE due
    <3>1. w2 = AddIf(w, k, delta = 1) /\ l2 = AddIf(l, k, delta = -1) /\ t2 = AddIf(t, k, delta = 0)
      BY <2>1 DEF AddIf
    <3>2. judged = JudgedRow(row, k, delta) /\ delta \in Rounds_!Delta
          /\ row.patch \in {"pending", "validated"} /\ ~row.stable
      BY <2>1
    <3>3. judged \in Row
      BY <3>2, JudgedTyped
    <3> HIDE DEF w2, l2, t2
    <3> QED
      BY <3>1, <3>2, <3>3, RowJudged
  <2>2. CASE ~due
    BY <2>2 DEF AddIf
  <2> QED
    BY <2>1, <2>2
<1> HIDE DEF w2, l2, t2
<1>2. CASE ready
  <2>1. RowAgrees(outcome, w2, l2, t2, isNamed, TRUE) /\ RowShape(outcome)
    BY <1>1, <1>2, RowPromoted
  <2>2. RowAgrees(outcome, w2, l2, t2, isNamed, isPromoted \/ ready)
    BY <1>2, <2>1 DEF RowAgrees
  <2> QED
    BY <2>1, <2>2 DEF w2, l2, t2
<1>3. CASE ~ready
  <2>1. RowAgrees(outcome, w2, l2, t2, isNamed, isPromoted \/ ready)
    BY <1>1, <1>3 DEF RowAgrees
  <2> QED
    BY <1>1, <1>3, <2>1 DEF w2, l2, t2
<1> QED
  BY <1>2, <1>3

\* Agreement looks at no age, and only at whether a fact holds.
LEMMA RowAgreesSame ==
  ASSUME NEW row1, NEW row2, NEW w, NEW l, NEW t, NEW n1, NEW n2, NEW p1, NEW p2,
         row1.patch = row2.patch, row1.stable = row2.stable, row1.measured = row2.measured,
         row1.won = row2.won, row1.lost = row2.lost, n1 <=> n2, p1 <=> p2,
         RowAgrees(row1, w, l, t, n1, p1), RowShape(row1)
  PROVE  RowAgrees(row2, w, l, t, n2, p2) /\ RowShape(row2)
BY DEF RowAgrees, RowShape

\* The lines a marker adds to those of the finished rounds.
LEMMA MarkedLines ==
  ASSUME RoundInv, AuditInv, Mark, NEW n, n = Now
  PROVE  /\ \A a \in Arm \ {n} : \A e : Lines(a, e)' = Lines(a, e)
         /\ \A e : Lines(n, e)' =
              Lines(n, e) \cup {l \in audit : l.arm = n /\ l.event = e /\ l.round = Round}
         /\ \A l \in audit : l.arm = n /\ l.round = Round => LineOfRound(l)
<1>1. n \in Arm /\ Round \in Rounds /\ finished[n] = Round - 1
  BY MarkedRound, OpenedTyped
<1>2. finished' = [finished EXCEPT ![n] = Round] /\ audit' = audit
  BY DEF Mark
<1>3. \A a \in Arm \ {n} : finished'[a] = finished[a]
  BY <1>2 DEF RoundInv, StudyTypeOK
<1>4. finished'[n] = Round
  BY <1>1, <1>2 DEF RoundInv, StudyTypeOK
<1>5. \A l \in audit : l.round \in Nat
  BY DEF RoundInv, StudyTypeOK, LineType, Rounds
<1>6. \A l \in audit : l.round <= Round <=> l.round <= Round - 1 \/ l.round = Round
  BY <1>1, <1>5 DEF Rounds
<1>7. \A a \in Arm \ {n} : \A e : Lines(a, e)' = Lines(a, e)
  BY <1>2, <1>3 DEF Lines
<1>8. \A e : Lines(n, e)' =
        Lines(n, e) \cup {l \in audit : l.arm = n /\ l.event = e /\ l.round = Round}
  <2>1. ASSUME NEW e
        PROVE  {l \in audit : l.arm = n /\ l.event = e /\ l.round <= Round} =
                 {l \in audit : l.arm = n /\ l.event = e /\ l.round <= Round - 1}
                   \cup {l \in audit : l.arm = n /\ l.event = e /\ l.round = Round}
    BY <1>6
  <2>2. ASSUME NEW e
        PROVE  /\ {l \in audit : l.arm = n /\ l.event = e /\ l.round <= finished[l.arm]} =
                    {l \in audit : l.arm = n /\ l.event = e /\ l.round <= Round - 1}
               /\ {l \in audit' : l.arm = n /\ l.event = e /\ l.round <= finished'[l.arm]} =
                    {l \in audit : l.arm = n /\ l.event = e /\ l.round <= Round}
    BY <1>1, <1>2, <1>4
  <2> QED
    BY <2>1, <2>2 DEF Lines
<1>9. \A l \in audit : l.arm = n /\ l.round = Round => LineOfRound(l)
  <2>1. ~(Round <= Round - 1)
    BY <1>1 DEF Rounds
  <2> QED
    BY <1>1, <2>1 DEF AuditInv, LinesKnown
<1> QED
  BY <1>7, <1>8, <1>9

\* What they say of a rule.
LEMMA MarkedFacts ==
  ASSUME RoundInv, AuditInv, Mark, NEW n, n = Now, Learning(n), NEW r \in Rule
  PROVE  /\ \A D : MeasuredWith(n, r, D)' =
              AddIf(MeasuredWith(n, r, D), Round, r \in Due /\ results[r] \in D)
         /\ NamedIn(n, r)' <=> NamedIn(n, r) \/ (r = <<Round, 1>> /\ proposal # "none")
         /\ PromotedIn(n, r)' <=>
              PromotedIn(n, r) \/ r \in Stable(Decided) \ Stable(JudgedSoFar(Due))
<1> DEFINE new(e) == {l \in audit : l.arm = n /\ l.event = e /\ l.round = Round}
<1>2. \A e : Lines(n, e)' = Lines(n, e) \cup new(e)
  BY MarkedLines
<1>3. \A e : \A l \in new(e) : LineOfRound(l) /\ l.event = e /\ l.round = Round
  BY MarkedLines
<1>4. /\ proc.step = "mark" /\ proposal \in {"none", "rejected", "staged"}
  BY DEF RoundInv, InProgress, Mark, StudyTypeOK, Rounds_!Fate
<1>5. /\ \A s \in Due : Line("validation", s, results[s]) \in new("validation")
      /\ \A s \in Stable(Decided) \ Stable(JudgedSoFar(Due)) : Line("promotion", s, 0) \in new("promotion")
      /\ proposal # "none" => Line(proposal, <<Round, 1>>, 0) \in new(proposal)
  BY <1>4, LineIs DEF AuditInv, LinesWritten
<1>6. \A e, s, d : Line(e, s, d).rule = s /\ Line(e, s, d).decision = d /\ Line(e, s, d).round = Round
  BY LineIs
<1>7. \A l \in new("validation") : l.rule \in Due /\ l.decision = results[l.rule] /\ l.round = Round
  BY <1>3 DEF LineOfRound
<1>8. \A l \in new("promotion") : l.rule \in Stable(Decided) \ Stable(JudgedSoFar(Due))
  BY <1>3 DEF LineOfRound
<1>9. \A e \in {"rejected", "staged"} : \A l \in new(e) : proposal = e /\ l.rule = <<Round, 1>>
  BY <1>3 DEF LineOfRound
<1> HIDE DEF new
<1>10. ASSUME NEW D
       PROVE  MeasuredWith(n, r, D)' = AddIf(MeasuredWith(n, r, D), Round, r \in Due /\ results[r] \in D)
  <2>1. MeasuredWith(n, r, D)' =
          {l.round : l \in {x \in Lines(n, "validation") \cup new("validation") :
                              x.rule = r /\ x.decision \in D}}
    BY <1>2 DEF MeasuredWith
  <2>2. CASE r \in Due /\ results[r] \in D
    <3>1. Line("validation", r, results[r]) \in {x \in new("validation") : x.rule = r /\ x.decision \in D}
      BY <2>2, <1>5, <1>6
    <3>2. \A x \in new("validation") : x.round = Round
      BY <1>7
    <3> QED
      BY <2>1, <2>2, <3>1, <3>2 DEF MeasuredWith, AddIf
  <2>3. CASE ~(r \in Due /\ results[r] \in D)
    <3>1. \A x \in new("validation") : ~(x.rule = r /\ x.decision \in D)
      BY <2>3, <1>7
    <3> QED
      BY <2>1, <2>3, <3>1 DEF MeasuredWith, AddIf
  <2> QED
    BY <2>2, <2>3
<1>11. NamedIn(n, r)' <=> NamedIn(n, r) \/ (r = <<Round, 1>> /\ proposal # "none")
  <2>1. NamedIn(n, r)' <=>
          \E l \in Lines(n, "staged") \cup Lines(n, "rejected") \cup new("staged") \cup new("rejected") :
            l.rule = r
    BY <1>2 DEF NamedIn
  <2>2. (\E l \in new("staged") \cup new("rejected") : l.rule = r) <=> r = <<Round, 1>> /\ proposal # "none"
    BY <1>4, <1>5, <1>6, <1>9
  <2> QED
    BY <2>1, <2>2 DEF NamedIn
<1>12. PromotedIn(n, r)' <=> PromotedIn(n, r) \/ r \in Stable(Decided) \ Stable(JudgedSoFar(Due))
  <2>1. PromotedIn(n, r)' <=> \E l \in Lines(n, "promotion") \cup new("promotion") : l.rule = r
    BY <1>2 DEF PromotedIn
  <2>2. (\E l \in new("promotion") : l.rule = r) <=> r \in Stable(Decided) \ Stable(JudgedSoFar(Due))
    BY <1>5, <1>6, <1>8
  <2> QED
    BY <2>1, <2>2 DEF PromotedIn
<1> QED
  BY <1>10, <1>11, <1>12

\* The lines of the finished rounds are of those rounds.
LEMMA LinesPast ==
  ASSUME RoundInv, AuditInv, snapshot[Now] # NoSnapshot, NEW n, n = Now, NEW r \in Rule, NEW D
  PROVE  /\ MeasuredWith(n, r, D) \in SUBSET (1..(Round - 1))
         /\ r[1] = Round => MeasuredWith(n, r, D) = {}
<1>1. n \in Arm /\ Round \in Rounds /\ finished[n] = Round - 1
  BY OpenedTyped
<1>2. ASSUME NEW l \in Lines(n, "validation"), l.rule = r
      PROVE  l.round \in 1..(Round - 1) /\ r[1] < l.round
  BY <1>1, <1>2 DEF Lines, RoundInv, StudyTypeOK, LineType, Rounds, AuditInv, LinesDated
<1>3. MeasuredWith(n, r, D) \in SUBSET (1..(Round - 1))
  BY <1>2 DEF MeasuredWith
<1>4. ASSUME r[1] = Round  PROVE MeasuredWith(n, r, D) = {}
  <2>1. ~ \E l \in Lines(n, "validation") : l.rule = r
    BY <1>1, <1>2, <1>4 DEF Rounds
  <2> QED
    BY <2>1 DEF MeasuredWith
<1> QED
  BY <1>3, <1>4

\* The row the round reached agrees with the lines it added.
LEMMA MarkedRow ==
  ASSUME RoundInv, AuditInv, Mark, NEW n, n = Now, Learning(n), NEW r \in Rule
  PROVE  /\ RowAgrees(memory[n].row[r], MeasuredWith(n, r, {1})', MeasuredWith(n, r, {-1})',
                      MeasuredWith(n, r, {0})', NamedIn(n, r)', PromotedIn(n, r)')
         /\ RowShape(memory[n].row[r])
<1>1. /\ snapshot[Now] # NoSnapshot /\ n \in Arm /\ Round \in Rounds
      /\ SeenUpTo(Opened, Round) /\ Committed[n] = snapshot[n].of /\ finished[n] = Round - 1
      /\ Due \subseteq Named(Round - 1)
  BY MarkedRound, OpenedTyped
<1>2. /\ proposal \in Rounds_!Fate /\ Due \subseteq DOMAIN results
      /\ memory[n] = Rounds_!Taken(Decided, Round, proposal)
  BY DEF RoundInv, InProgress, Mark, StudyTypeOK
<1> DEFINE w == MeasuredWith(n, r, {1})
           l == MeasuredWith(n, r, {-1})
           t == MeasuredWith(n, r, {0})
           isNamed == NamedIn(n, r)
           isPromoted == PromotedIn(n, r)
           row == Opened.row[r]
           due == r \in Due
           delta == results[r]
           judged == IF due THEN JudgedRow(row, Round, delta) ELSE row
           ready == Now = "mmh" /\ Blockers(judged) = {}
           outcome == IF ready THEN [judged EXCEPT !.stable = TRUE] ELSE judged
           w2 == AddIf(w, Round, due /\ delta = 1)
           l2 == AddIf(l, Round, due /\ delta = -1)
           t2 == AddIf(t, Round, due /\ delta = 0)
           n2 == NamedIn(n, r)'
           p2 == PromotedIn(n, r)'
<1>3. RowAgrees(row, w, l, t, isNamed, isPromoted) /\ RowShape(row)
  <2>1. RowAgrees(Committed[n].row[r], w, l, t, isNamed, isPromoted) /\ RowShape(Committed[n].row[r])
    BY <1>1 DEF AuditInv, Told
  <2>2. /\ row.patch = Committed[n].row[r].patch /\ row.stable = Committed[n].row[r].stable
        /\ row.measured = Committed[n].row[r].measured
        /\ row.won = Committed[n].row[r].won /\ row.lost = Committed[n].row[r].lost
    BY <1>1, OpenedTyped
  <2> HIDE DEF w, l, t, isNamed, isPromoted, row
  <2> QED
    BY <2>1, <2>2, RowAgreesSame
<1>4. /\ w \in SUBSET (1..(Round - 1)) /\ l \in SUBSET (1..(Round - 1)) /\ t \in SUBSET (1..(Round - 1))
      /\ r[1] = Round => w = {} /\ l = {} /\ t = {}
  BY <1>1, LinesPast
<1>5. row \in Row /\ judged \in Row /\ Decided.row[r] = outcome /\ JudgedSoFar(Due).row[r] = judged
  BY <1>1, DecidedRows DEF SeenUpTo, Memory
<1>6. due => delta \in Rounds_!Delta /\ row.patch \in {"pending", "validated"} /\ ~row.stable
  <2>1. SUFFICES ASSUME r \in Due
                 PROVE  results[r] \in Rounds_!Delta /\ row.patch \in {"pending", "validated"} /\ ~row.stable
    OBVIOUS
  <2>2. results[r] \in Rounds_!Delta
    BY <1>2, <2>1 DEF RoundInv, StudyTypeOK
  <2>3. r \in Pending(Opened) \cup Volatile(Opened)
    BY <2>1, SameSets DEF Due, Rounds_!CandidateRules, Rounds_!FirstOf
  <2> QED
    BY <2>2, <2>3, <1>3 DEF Pending, Volatile, Validated, RowShape
<1>7. /\ MeasuredWith(n, r, {1})' = w2 /\ MeasuredWith(n, r, {-1})' = l2 /\ MeasuredWith(n, r, {0})' = t2
      /\ n2 <=> isNamed \/ (r = <<Round, 1>> /\ proposal # "none")
      /\ p2 <=> isPromoted \/ r \in Stable(Decided) \ Stable(JudgedSoFar(Due))
  BY MarkedFacts
<1>8. memory[n].row[r] = IF r = <<Round, 1>> THEN TakenRow(outcome, proposal) ELSE outcome
  BY <1>1, <1>2, <1>5, DecidedTyped, TakenRows DEF SeenUpTo
<1>9. r = <<Round, 1>> => row.patch = "absent" /\ ~due
  <2>1. <<Round, 1>> \notin Named(Round - 1)
    BY <1>1 DEF Named, Rounds
  <2>2. row.patch = Committed[n].row[r].patch
    BY <1>1, OpenedTyped
  <2> QED
    BY <1>1, <2>1, <2>2 DEF RoundInv, Settled
<1>10. r \in Stable(Decided) \ Stable(JudgedSoFar(Due)) <=>
         (outcome.patch = "validated" /\ outcome.stable) /\ ~(judged.patch = "validated" /\ judged.stable)
  BY <1>5 DEF Stable, Volatile, Validated
<1>11. due \in BOOLEAN /\ ready \in BOOLEAN /\ (ready => Blockers(judged) = {})
  OBVIOUS
<1> HIDE DEF w, l, t, isNamed, isPromoted, row, due, delta, n2, p2
<1>12. judged = IF due THEN JudgedRow(row, Round, delta) ELSE row
  OBVIOUS
<1> HIDE DEF judged
<1>13. outcome = IF ready THEN [judged EXCEPT !.stable = TRUE] ELSE judged
  OBVIOUS
<1> HIDE DEF ready, outcome
<1>14. RowAgrees(outcome, w2, l2, t2, isNamed, isPromoted \/ ready) /\ RowShape(outcome)
  BY <1>1, <1>3, <1>4, <1>5, <1>6, <1>11, <1>12, <1>13, RowDecided
<1> HIDE DEF w2, l2, t2
<1>15. ready <=> r \in Stable(Decided) \ Stable(JudgedSoFar(Due))
  <2>1. CASE ready
    <3>1. judged.patch = "validated" /\ ~judged.stable
      BY <2>1, <1>11 DEF Blockers
    <3>2. outcome.patch = "validated" /\ outcome.stable
      BY <2>1, <3>1, <1>5, <1>13 DEF Row
    <3> QED
      BY <2>1, <3>1, <3>2, <1>10
  <2>2. CASE ~ready
    BY <2>2, <1>10, <1>13
  <2> QED
    BY <2>1, <2>2
<1>16. p2 <=> isPromoted \/ ready
  BY <1>7, <1>15
<1>17. CASE r = <<Round, 1>>
  <2>1. row.patch = "absent" /\ ~due /\ w2 = {} /\ l2 = {} /\ t2 = {}
    BY <1>4, <1>9, <1>17 DEF AddIf, w2, l2, t2
  <2>2. judged = row /\ ~ready
    <3>1. judged = row
      BY <2>1, <1>12
    <3>2. "status" \in Blockers(judged)
      BY <3>1, <2>1 DEF Blockers
    <3> QED
      BY <3>1, <3>2, <1>11
  <2>3. outcome = row
    BY <2>2, <1>13
  <2>4. ~isNamed
    BY <1>3, <2>1 DEF RowAgrees
  <2>5. /\ RowAgrees(TakenRow(row, proposal), {}, {}, {}, proposal # "none", isPromoted \/ ready)
        /\ RowShape(TakenRow(row, proposal))
    <3> DEFINE p3 == isPromoted \/ ready
    <3>1. RowAgrees(row, {}, {}, {}, isNamed, p3) /\ RowShape(row)
      BY <1>14, <2>1, <2>3
    <3> HIDE DEF p3
    <3>2. /\ RowAgrees(TakenRow(row, proposal), {}, {}, {}, proposal # "none", p3)
          /\ RowShape(TakenRow(row, proposal))
      BY <3>1, <1>2, <1>5, <2>1, RowTaken
    <3> QED
      BY <3>2 DEF p3
  <2>6. n2 <=> proposal # "none"
    BY <1>7, <1>17, <2>4
  <2>7. RowAgrees(TakenRow(row, proposal), {}, {}, {}, n2, p2)
    BY <2>5, <2>6, <1>16 DEF RowAgrees
  <2> QED
    BY <2>1, <2>3, <2>5, <2>7, <1>7, <1>8, <1>17 DEF n2, p2
<1>18. CASE r # <<Round, 1>>
  <2>1. n2 <=> isNamed
    BY <1>7, <1>18
  <2>2. RowAgrees(outcome, w2, l2, t2, n2, p2)
    BY <1>14, <2>1, <1>16 DEF RowAgrees
  <2> QED
    BY <2>2, <1>7, <1>8, <1>14, <1>18 DEF n2, p2
<1> QED
  BY <1>17, <1>18

\* A marker changes nothing elsewhere, and no facts of an arm that learns nothing.
LEMMA MarkedElsewhere ==
  ASSUME RoundInv, AuditInv, Mark, NEW a \in Arm, a # Now \/ ~Learning(a), NEW r \in Rule
  PROVE  /\ \A e : Lines(a, e)' = Lines(a, e)
         /\ Committed'[a].row[r].patch = Committed[a].row[r].patch
         /\ Committed'[a].row[r].stable = Committed[a].row[r].stable
         /\ Committed'[a].row[r].measured = Committed[a].row[r].measured
         /\ Committed'[a].row[r].won = Committed[a].row[r].won
         /\ Committed'[a].row[r].lost = Committed[a].row[r].lost
<1>1. Now \in Arm /\ Round \in Rounds /\ finished[Now] = Round - 1 /\ snapshot[Now] # NoSnapshot
  BY MarkedRound, OpenedTyped
<1>2. Committed' = [Committed EXCEPT ![Now] = memory[Now]]
  BY MarkKeeps
<1>3. CASE a # Now
  <2>1. \A e : Lines(a, e)' = Lines(a, e)
    BY <1>3, MarkedLines
  <2>2. Committed'[a] = Committed[a]
    BY <1>2, <1>3, CommittedAre DEF RoundInv
  <2> QED
    BY <2>1, <2>2
<1>4. CASE a = Now /\ ~Learning(a)
  <2>1. \A l \in audit : ~(l.arm = a /\ l.round = Round)
    BY <1>4, MarkedLines DEF LineOfRound
  <2>2. \A e : Lines(a, e)' =
          Lines(a, e) \cup {l \in audit : l.arm = a /\ l.event = e /\ l.round = Round}
    BY <1>4, MarkedLines
  <2>3. \A e : Lines(a, e)' = Lines(a, e)
    BY <2>1, <2>2
  <2>4. Committed'[a] = Opened /\ Committed[a] = snapshot[Now].of
    BY <1>1, <1>2, <1>4, CommittedAre DEF RoundInv, InProgress, Mark
  <2> QED
    BY <1>1, <2>3, <2>4, OpenedTyped
<1> QED
  BY <1>3, <1>4

LEMMA MarkTold ==
  ASSUME RoundInv, AuditInv, Mark
  PROVE  AuditInv'
<1>1. Now \in Arm /\ Round \in Rounds /\ finished[Now] = Round - 1 /\ snapshot[Now] # NoSnapshot
  BY MarkedRound, OpenedTyped
<1>2. /\ finished' = [finished EXCEPT ![Now] = Round] /\ audit' = audit
      /\ Committed' = [Committed EXCEPT ![Now] = memory[Now]] /\ proc'.step = "open"
  BY MarkKeeps DEF Mark, Goto, Proc
<1>3. LinesKnown'
  <2>1. \A l \in audit : l.arm \in Arm /\ l.round \in Nat
    BY DEF RoundInv, StudyTypeOK, LineType, Rounds
  <2>2. \A a \in Arm : finished[a] \in Nat /\ finished'[a] = IF a = Now THEN Round ELSE finished[a]
    BY <1>1, <1>2 DEF RoundInv, StudyTypeOK
  <2>3. ASSUME NEW l \in audit  PROVE l.round <= finished'[l.arm]
    <3>1. CASE l.round <= finished[l.arm]
      BY <1>1, <2>1, <2>2, <3>1 DEF Rounds
    <3>2. CASE LineOfRound(l)
      BY <1>1, <2>1, <2>2, <3>2 DEF LineOfRound
    <3> QED
      BY <3>1, <3>2 DEF AuditInv, LinesKnown
  <2> QED
    BY <1>2, <2>3 DEF LinesKnown
<1>4. LinesDated'
  BY <1>2 DEF AuditInv, LinesDated
<1>5. LinesWritten'
  BY <1>2 DEF LinesWritten
<1>6. ASSUME NEW a \in Arm, NEW r \in Rule
      PROVE  /\ RowAgrees(Committed'[a].row[r], MeasuredWith(a, r, {1})', MeasuredWith(a, r, {-1})',
                          MeasuredWith(a, r, {0})', NamedIn(a, r)', PromotedIn(a, r)')
             /\ RowShape(Committed'[a].row[r])
  <2>1. /\ RowAgrees(Committed[a].row[r], MeasuredWith(a, r, {1}), MeasuredWith(a, r, {-1}),
                     MeasuredWith(a, r, {0}), NamedIn(a, r), PromotedIn(a, r))
        /\ RowShape(Committed[a].row[r])
    BY DEF AuditInv, Told
  <2>2. CASE a = Now /\ Learning(a)
    <3>1. Committed'[a] = memory[a]
      BY <1>1, <1>2, <2>2, CommittedAre DEF RoundInv
    <3> QED
      BY <2>2, <3>1, MarkedRow
  <2>3. CASE a # Now \/ ~Learning(a)
    <3>1. \A e : Lines(a, e)' = Lines(a, e)
      BY <2>3, MarkedElsewhere
    <3>2. \A D : MeasuredWith(a, r, D)' = MeasuredWith(a, r, D)
      BY <3>1 DEF MeasuredWith
    <3>3. NamedIn(a, r)' = NamedIn(a, r) /\ PromotedIn(a, r)' = PromotedIn(a, r)
      BY <3>1 DEF NamedIn, PromotedIn
    <3>4. /\ Committed'[a].row[r].patch = Committed[a].row[r].patch
          /\ Committed'[a].row[r].stable = Committed[a].row[r].stable
          /\ Committed'[a].row[r].measured = Committed[a].row[r].measured
          /\ Committed'[a].row[r].won = Committed[a].row[r].won
          /\ Committed'[a].row[r].lost = Committed[a].row[r].lost
      BY <2>3, MarkedElsewhere
    <3> DEFINE old == Committed[a].row[r]
               new == Committed'[a].row[r]
               w == MeasuredWith(a, r, {1})
               l == MeasuredWith(a, r, {-1})
               t == MeasuredWith(a, r, {0})
               isNamed == NamedIn(a, r)
               isPromoted == PromotedIn(a, r)
    <3>5. RowAgrees(new, w, l, t, isNamed, isPromoted) /\ RowShape(new)
      <4>1. RowAgrees(old, w, l, t, isNamed, isPromoted) /\ RowShape(old)
        BY <2>1
      <4> HIDE DEF old, new, w, l, t, isNamed, isPromoted
      <4>2. /\ old.patch = new.patch /\ old.stable = new.stable /\ old.measured = new.measured
            /\ old.won = new.won /\ old.lost = new.lost
        BY <3>4 DEF old, new
      <4> QED
        BY <4>1, <4>2, RowAgreesSame
    <3> QED
      BY <3>2, <3>3, <3>5
  <2> QED
    BY <2>2, <2>3
<1>7. Told'
  BY <1>6 DEF Told
<1> QED
  BY <1>3, <1>4, <1>5, <1>7 DEF AuditInv

LEMMA AuditInvStep ==
  ASSUME TornSnapshots = FALSE, RoundInv, AuditInv, [StudyNext]_vars
  PROVE  AuditInv'
<1>1. CASE Open
  BY <1>1, OpenTold
<1>2. CASE Search
  BY <1>2, SearchTold
<1>3. CASE Measure
  BY <1>3, MeasureTold
<1>4. CASE Report
  BY <1>4, ReportTold
<1>5. CASE Record
  BY <1>5, RecordTold
<1>6. CASE PromoteArm
  BY <1>6, PromoteArmTold
<1>7. CASE Propose
  BY <1>7, ProposeTold
<1>8. CASE Stage
  BY <1>8, StageTold
<1>9. CASE Mark
  BY <1>9, MarkTold
<1>10. CASE Final \/ EvaluationFails \/ Supervise \/ Die \/ Rerun
  <2>1. UNCHANGED disk
    BY <1>10 DEF Final, EvaluationFails, Supervise, Die, Rerun, disk
  <2>2. \E s \in Resting : proc' = Proc(s, {})
    BY <1>10 DEF Final, EvaluationFails, Supervise, Die, Rerun, Goto, Stop, Resting
  <2> QED
    BY <2>1, <2>2, AtRestTold
<1>11. CASE UNCHANGED vars
  <2>1. UNCHANGED <<memory, snapshot, results, proposal, finished, audit, proc>>
    BY <1>11 DEF vars, disk
  <2>2. Now' = Now /\ Round' = Round /\ Complete' = Complete
    BY <2>1, SameTurn
  <2>3. Committed' = Committed
    BY <2>1 DEF Committed
  <2>4. Opened' = Opened
    BY <2>1, <2>2 DEF Opened
  <2>5. Due' = Due
    BY <2>2, <2>4 DEF Due
  <2>6. /\ Decided' = Decided /\ JudgedSoFar(Due)' = JudgedSoFar(Due)
        /\ Candidate' = Candidate /\ Learning(Now)' = Learning(Now)
    BY <2>1, <2>2, <2>4, <2>5 DEF Decided, JudgedSoFar, Candidate, Learning, Rounds_!Learning
  <2>7. (Stable(Decided) \ Stable(JudgedSoFar(Due)))' = Stable(Decided) \ Stable(JudgedSoFar(Due))
    BY <2>6 DEF Stable, Volatile, Validated
  <2>8. \A e, r, d : Line(e, r, d)' = Line(e, r, d)
    BY <2>2 DEF Line
  <2>9. LinesWritten'
    BY <2>1, <2>2, <2>5, <2>6, <2>7, <2>8 DEF AuditInv, LinesWritten, Line
  <2>10. RoundInv'
    BY RoundInvStep
  <2> QED
    BY <2>1, <2>2, <2>3, <2>4, <2>5, <2>9, <2>10, QuietStep
<1> QED
  BY <1>1, <1>2, <1>3, <1>4, <1>5, <1>6, <1>7, <1>8, <1>9, <1>10, <1>11 DEF StudyNext, StudyStep

LEMMA AuditInvInit ==
  ASSUME StudyInit
  PROVE  AuditInv
<1>1. audit = {} /\ proc.step = "open"
  BY DEF StudyInit, Proc
<1>2. LinesKnown /\ LinesDated /\ LinesWritten
  BY <1>1 DEF LinesKnown, LinesDated, LinesWritten
<1>3. \A a \in Arm : Committed[a] = EmptyMemory
  BY RoundInvInit, CommittedAre DEF RoundInv, StudyInit
<1>4. ASSUME NEW a, NEW r
      PROVE  /\ \A D : MeasuredWith(a, r, D) = {}
             /\ ~NamedIn(a, r) /\ ~PromotedIn(a, r)
  BY <1>1 DEF MeasuredWith, NamedIn, PromotedIn, Lines
<1>5. RowAgrees(NoRow, {}, {}, {}, FALSE, FALSE) /\ RowShape(NoRow)
  BY DEF RowAgrees, RowShape, NoRow
<1>6. \A r \in Rule : EmptyMemory.row[r] = NoRow
  BY DEF EmptyMemory
<1>7. ASSUME NEW a \in Arm, NEW r \in Rule
      PROVE  /\ RowAgrees(Committed[a].row[r], MeasuredWith(a, r, {1}), MeasuredWith(a, r, {-1}),
                          MeasuredWith(a, r, {0}), NamedIn(a, r), PromotedIn(a, r))
             /\ RowShape(Committed[a].row[r])
  BY <1>3, <1>4, <1>5, <1>6 DEF RowAgrees
<1> QED
  BY <1>2, <1>7 DEF AuditInv, Told

(* The audit log, appended to again by every replay, and the memory, which *)
(* is rewound, tell the same story of every completed round (adapt).       *)
THEOREM AuditIsTrue ==
  ASSUME TornSnapshots = FALSE
  PROVE  StudySpec => []AuditAgrees
<1>1. StudyInit => AuditInv
  BY AuditInvInit
<1>2. RoundInv /\ AuditInv /\ [StudyNext]_vars => AuditInv'
  BY AuditInvStep
<1>3. AuditInv => AuditAgrees
  BY ToldAgrees DEF AuditInv
<1> QED
  BY <1>1, <1>2, <1>3, RoundsReplayed, PTL DEF StudySpec

-----------------------------------------------------------------------------
(* The order of measurements.                                              *)

LEMMA MaxOfBounded ==
  ASSUME NEW n \in Nat, NEW S \in SUBSET (0..n), S # {}
  PROVE  Max(S) \in S /\ \A x \in S : x <= Max(S)
<1> DEFINE T == {n - x : x \in S}
<1>1. T \in SUBSET Nat /\ T # {}
  <2>1. \A x \in S : n - x \in Nat
    OBVIOUS
  <2>2. PICK x \in S : TRUE
    OBVIOUS
  <2>3. n - x \in T
    BY <2>2
  <2> QED
    BY <2>1, <2>3
<1>2. Min(T) \in T /\ \A y \in T : Min(T) <= y
  BY <1>1, MinOfNaturals
<1>3. PICK x \in S : Min(T) = n - x
  BY <1>2
<1>4. \A z \in S : z <= x
  <2>1. ASSUME NEW z \in S  PROVE z <= x
    <3>1. n - z \in T
      OBVIOUS
    <3>2. n - x <= n - z
      BY <3>1, <1>2, <1>3
    <3> QED
      BY <3>2
  <2> QED
    BY <2>1
<1> QED
  BY <1>4 DEF Max

\* A rule that was measured is remembered with the last round of it.
LEMMA LastMeasured ==
  ASSUME NEW row \in Row, NEW k \in Nat, NEW w \in SUBSET (1..k), NEW l \in SUBSET (1..k),
         NEW t \in SUBSET (1..k), NEW isNamed, NEW isPromoted,
         RowAgrees(row, w, l, t, isNamed, isPromoted), row.patch = "validated"
  PROVE  row.measured \in Nat /\ \A j \in w \cup l \cup t : j <= row.measured
<1> DEFINE S == {0} \cup w \cup l \cup t
<1>1. S \in SUBSET (0..k) /\ S # {} /\ w \cup l \cup t \subseteq S
  OBVIOUS
<1>2. row.measured = Max(S)
  BY DEF RowAgrees
<1> HIDE DEF S
<1>3. Max(S) \in S /\ \A x \in S : x <= Max(S)
  BY <1>1, MaxOfBounded
<1>4. row.measured \in S /\ \A j \in S : j <= row.measured
  BY <1>2, <1>3
<1>5. row.measured \in Nat
  <2>1. \A x \in S : x \in Nat
    BY DEF S
  <2>2. row.measured \in S
    BY <1>4
  <2> QED
    BY <2>1, <2>2
<1>6. ASSUME NEW j \in w \cup l \cup t  PROVE j <= row.measured
  BY <1>1, <1>4
<1> QED
  BY <1>5, <1>6

\* One that matures and is measured comes before one that matures and is not.
LEMMA OlderIsDue ==
  ASSUME RoundInv, snapshot[Now] # NoSnapshot, NEW s \in Due, s \in Volatile(Opened),
         NEW r \in Volatile(Opened), r \notin Due
  PROVE  Rounds_!Before(Opened, s, r)
<1>1. /\ Round \in Rounds /\ Round - 1 \in Nat /\ Opened \in Memory
      /\ Now \in Arm /\ finished[Now] = Round - 1
  BY OpenedTyped DEF SeenUpTo, Rounds
<1> DEFINE V == {x \in Volatile(Opened) : x[1] < Round}
           ahead(x) == {y \in V : Rounds_!Before(Opened, y, x)}
<1>2. V \subseteq Rule /\ \A x \in V : x \notin Pending(Opened)
  BY DEF Volatile, Validated, Pending
<1>3. \A x \in Rule : x \in Due <=>
        \/ x \in Pending(Opened) /\ x[1] < Round
        \/ x \in V /\ Cardinality(ahead(x)) < MaxProbes
  BY SameSets, SameCardinality
     DEF Due, Rounds_!CandidateRules, Rounds_!FirstOf, Rounds_!CreatedIn, Pending
<1>4. \A x \in Volatile(Opened) : x \in Named(Round - 1) /\ x[1] < Round
  <2>1. \A x \in Volatile(Opened) : x \in Rule /\ Opened.row[x].patch # "absent"
    BY DEF Volatile, Validated
  <2>2. \A x \in Volatile(Opened) : Committed[Now].row[x].patch # "absent"
    BY <2>1, OpenedTyped
  <2>3. \A x \in Volatile(Opened) : x \in Named(Round - 1)
    BY <1>1, <2>1, <2>2 DEF RoundInv, Settled
  <2>4. \A x \in Named(Round - 1) : x[1] < Round
    BY <1>1 DEF Named, Rounds
  <2> QED
    BY <2>3, <2>4
<1>5. s \in V /\ r \in V /\ s # r
  BY <1>4
<1>6. \A x, y \in V : Rounds_!Before(Opened, x, y) <=> Precedes(Opened, x, y)
  BY <1>2 DEF Precedes
<1>7. IsFiniteSet(ahead(s)) /\ IsFiniteSet(ahead(r))
  <2>1. ahead(s) \subseteq Named(Round - 1) /\ ahead(r) \subseteq Named(Round - 1)
    BY <1>4
  <2> HIDE DEF ahead
  <2> QED
    BY <2>1, <1>1, NamedFinite, FS_Subset
<1>8. Cardinality(ahead(s)) < MaxProbes /\ ~(Cardinality(ahead(r)) < MaxProbes)
  <2> HIDE DEF ahead, V
  <2> QED
    BY <1>2, <1>3, <1>5
<1>9. SUFFICES ASSUME Precedes(Opened, r, s) PROVE FALSE
  BY <1>1, <1>2, <1>5, <1>6, PrecedesOrders
<1>10. ahead(r) \subseteq ahead(s)
  <2>1. ASSUME NEW y \in V, Precedes(Opened, y, r)  PROVE Precedes(Opened, y, s)
    BY <1>1, <1>2, <1>5, <1>9, <2>1, PrecedesOrders
  <2> QED
    BY <2>1, <1>5, <1>6
<1> HIDE DEF ahead, V
<1>11. /\ Cardinality(ahead(r)) <= Cardinality(ahead(s))
       /\ Cardinality(ahead(r)) \in Nat /\ Cardinality(ahead(s)) \in Nat
  BY <1>7, <1>10, FS_Subset, FS_CardinalityType
<1> QED
  BY <1>8, <1>11, StudyAssumption

\* A rule that matures after the marker was measured in the round, or is as it was.
LEMMA MarkedVolatile ==
  ASSUME RoundInv, AuditInv, Mark, NEW n, n = Now, Learning(n), NEW r \in Volatile(memory[n])
  PROVE  /\ r \in Due => memory[n].row[r].measured = Round
         /\ r \notin Due => /\ r \in Volatile(Opened) /\ r \in Volatile(Committed[n])
                           /\ memory[n].row[r].measured = Committed[n].row[r].measured
                           /\ Opened.row[r].measured = Committed[n].row[r].measured
<1>1. /\ snapshot[Now] # NoSnapshot /\ n \in Arm /\ Round \in Rounds /\ r \in Rule
      /\ SeenUpTo(Opened, Round) /\ Committed[n] = snapshot[n].of /\ finished[n] = Round - 1
  BY MarkedRound, OpenedTyped DEF Volatile, Validated
<1>2. /\ proposal \in Rounds_!Fate /\ memory[n] = Rounds_!Taken(Decided, Round, proposal)
  BY DEF RoundInv, InProgress, Mark, StudyTypeOK
<1>3. memory[n].row[r].patch = "validated" /\ ~memory[n].row[r].stable
  BY DEF Volatile, Validated
<1> DEFINE row == Opened.row[r]
           judged == IF r \in Due THEN JudgedRow(row, Round, results[r]) ELSE row
<1>4. /\ row \in Row /\ judged \in Row
      /\ Decided.row[r] = IF Now = "mmh" /\ Blockers(judged) = {}
                          THEN [judged EXCEPT !.stable = TRUE] ELSE judged
  BY <1>1, DecidedRows DEF SeenUpTo, Memory
<1>5. memory[n].row[r] = IF r = <<Round, 1>> THEN TakenRow(Decided.row[r], proposal)
                         ELSE Decided.row[r]
  BY <1>1, <1>2, DecidedTyped, TakenRows DEF SeenUpTo
<1> HIDE DEF judged
<1>6. memory[n].row[r] = Decided.row[r]
  BY <1>3, <1>5 DEF TakenRow, NoRow
<1>7. memory[n].row[r] = judged
  BY <1>3, <1>4, <1>6 DEF Row
<1>8. CASE r \in Due
  <2>1. judged = JudgedRow(row, Round, results[r]) /\ judged.patch = "validated"
    BY <1>3, <1>7, <1>8 DEF judged
  <2>2. judged.measured = Round
    BY <2>1, <1>4 DEF JudgedRow, Row, NoRow
  <2> QED
    BY <2>2, <1>7, <1>8
<1>9. CASE r \notin Due
  <2>1. memory[n].row[r] = row
    BY <1>7, <1>9 DEF judged
  <2>2. /\ row.patch = Committed[n].row[r].patch /\ row.stable = Committed[n].row[r].stable
        /\ row.measured = Committed[n].row[r].measured
    BY <1>1, OpenedTyped
  <2> QED
    BY <1>1, <1>3, <1>9, <2>1, <2>2 DEF Volatile, Validated
<1> QED
  BY <1>8, <1>9

\* Only a candidate that matures already is measured anew while it matures.
LEMMA ProbesGrow ==
  ASSUME RoundInv, AuditInv, Mark, NEW n, n = Now, Learning(n), NEW s \in Rule,
         NEW k \in Probes(n, s)'
  PROVE  /\ k \in 1..Round
         /\ k \in Probes(n, s) \/ (k = Round /\ s \in Due /\ MeasuredWith(n, s, {1}) # {})
<1> DEFINE W == MeasuredWith(n, s, {1})
           D == MeasuredWith(n, s, Rounds_!Delta)
           W2 == AddIf(W, Round, s \in Due /\ results[s] \in {1})
           D2 == AddIf(D, Round, s \in Due /\ results[s] \in Rounds_!Delta)
<1>1. snapshot[Now] # NoSnapshot /\ Round \in Nat /\ Round >= 1
  BY MarkedRound DEF Rounds
<1>2. W \in SUBSET (1..(Round - 1)) /\ D \in SUBSET (1..(Round - 1))
  BY <1>1, LinesPast
<1>3. MeasuredWith(n, s, {1})' = W2 /\ MeasuredWith(n, s, Rounds_!Delta)' = D2
  BY MarkedFacts DEF Rounds_!Delta
<1>4. k \in D2 /\ W2 # {} /\ k > Min(W2)
  BY <1>3 DEF Probes, Rounds_!Delta
<1>5. k \in 1..Round
  BY <1>1, <1>2, <1>4 DEF AddIf
<1>6. Min(W2) \in W2 /\ \A x \in W2 : Min(W2) <= x
  <2>1. W2 \in SUBSET Nat
    BY <1>1, <1>2 DEF AddIf
  <2> HIDE DEF W2
  <2> QED
    BY <2>1, <1>4, MinOfNaturals
<1>7. W # {}
  <2>1. SUFFICES ASSUME W = {} PROVE FALSE
    OBVIOUS
  <2>2. Min(W2) = Round
    BY <2>1, <1>6 DEF AddIf
  <2> QED
    BY <2>2, <1>1, <1>4, <1>5
<1>8. Min(W) \in W /\ \A x \in W : Min(W) <= x
  <2>1. W \in SUBSET Nat
    BY <1>1, <1>2
  <2> HIDE DEF W
  <2> QED
    BY <2>1, <1>7, MinOfNaturals
<1>9. Min(W2) \in W /\ Min(W2) \in Nat /\ Min(W) \in Nat
  <2>1. Min(W) \in W2 /\ Min(W2) <= Min(W) /\ Min(W) <= Round - 1 /\ Min(W) \in Nat
    BY <1>1, <1>2, <1>6, <1>8 DEF AddIf
  <2>2. Min(W2) \in W \/ Min(W2) = Round
    BY <1>6 DEF AddIf
  <2> QED
    BY <2>1, <2>2, <1>1, <1>2
<1>10. k > Min(W)
  BY <1>4, <1>5, <1>8, <1>9
<1>11. k \in D => k \in Probes(n, s)
  BY <1>7, <1>10 DEF Probes
<1>12. k \notin D => k = Round /\ s \in Due
  BY <1>4 DEF AddIf
<1> QED
  BY <1>5, <1>7, <1>11, <1>12

LEMMA AtMostOne ==
  ASSUME NEW S, NEW k, S \subseteq {k}
  PROVE  Cardinality(S) <= 1
<1>1. IsFiniteSet({k}) /\ Cardinality({k}) = 1
  BY FS_Singleton
<1>2. Cardinality(S) <= Cardinality({k})
  BY <1>1, FS_Subset
<1> QED
  BY <1>1, <1>2

\* While one waits no other is measured twice, after the marker of its arm's round.
LEMMA OvertakingMarked ==
  ASSUME RoundInv, AuditInv, NoOvertaking, Mark, NEW n, n = Now, Learning(n),
         NEW s \in Rule, NEW r \in Volatile(memory[n]) \ {s}
  PROVE  Cardinality({k \in Probes(n, s)' : k > memory[n].row[r].measured}) <= 1
<1>1. /\ snapshot[Now] # NoSnapshot /\ n \in Arm /\ Round \in Nat /\ Round >= 1 /\ r \in Rule
      /\ Committed[n] \in Memory /\ Opened \in Memory
  BY MarkedRound, OpenedTyped, CommittedAre DEF RoundInv, Rounds, Volatile, Validated, SeenUpTo
<1> DEFINE late2 == {k \in Probes(n, s)' : k > memory[n].row[r].measured}
<1>2. \A k \in Probes(n, s)' :
        /\ k \in 1..Round
        /\ k \in Probes(n, s) \/ (k = Round /\ s \in Due /\ MeasuredWith(n, s, {1}) # {})
  BY ProbesGrow
<1>3. CASE r \in Due
  <2>1. memory[n].row[r].measured = Round
    BY <1>3, MarkedVolatile
  <2>2. late2 = {}
    BY <1>1, <1>2, <2>1
  <2> HIDE DEF late2
  <2>3. late2 \subseteq {Round}
    BY <2>2
  <2>4. Cardinality(late2) <= 1
    BY <2>3, AtMostOne
  <2> QED
    BY <2>4 DEF late2
<1>4. CASE r \notin Due
  <2> DEFINE seen == Committed[n].row[r].measured
             late == {k \in Probes(n, s) : k > seen}
  <2>1. /\ r \in Volatile(Opened) /\ r \in Volatile(Committed[n])
        /\ memory[n].row[r].measured = seen /\ Opened.row[r].measured = seen
    BY <1>4, MarkedVolatile
  <2>2. CASE s \in Due /\ MeasuredWith(n, s, {1}) # {}
    <3>1. s \in Volatile(Opened)
      <4>1. /\ RowAgrees(Committed[n].row[s], MeasuredWith(n, s, {1}), MeasuredWith(n, s, {-1}),
                         MeasuredWith(n, s, {0}), NamedIn(n, s), PromotedIn(n, s))
            /\ RowShape(Committed[n].row[s])
        BY <1>1 DEF AuditInv, Told
      <4>2. Committed[n].row[s].patch # "pending"
        BY <2>2, <4>1 DEF RowAgrees, RowShape
      <4>3. Opened.row[s].patch # "pending"
        BY <1>1, <4>2, OpenedTyped
      <4>4. s \in Pending(Opened) \cup Volatile(Opened)
        BY <2>2, SameSets DEF Due, Rounds_!CandidateRules, Rounds_!FirstOf
      <4> QED
        BY <4>3, <4>4 DEF Pending
    <3>2. Rounds_!Before(Opened, s, r)
      BY <1>1, <1>4, <2>1, <2>2, <3>1, OlderIsDue
    <3>3. ASSUME NEW x \in {s, r}
          PROVE  /\ Opened.row[x].measured = Committed[n].row[x].measured
                 /\ Committed[n].row[x].measured \in Nat /\ Committed[n].row[x].measured # 0
                 /\ \A k \in Probes(n, x) : k <= Committed[n].row[x].measured
      <4> DEFINE w == MeasuredWith(n, x, {1})
                 l == MeasuredWith(n, x, {-1})
                 t == MeasuredWith(n, x, {0})
                 row == Committed[n].row[x]
                 isNamed == NamedIn(n, x)
                 isPromoted == PromotedIn(n, x)
      <4>1. x \in Rule /\ Opened.row[x].patch = "validated"
        BY <2>1, <3>1 DEF Volatile, Validated
      <4>2. /\ row.patch = "validated" /\ Opened.row[x].measured = row.measured /\ row \in Row
        BY <1>1, <4>1, OpenedTyped DEF Memory
      <4>3. RowAgrees(row, w, l, t, isNamed, isPromoted) /\ RowShape(row)
        BY <1>1, <4>1 DEF AuditInv, Told
      <4> DEFINE last == Round - 1
      <4>4. /\ last \in Nat /\ w \in SUBSET (1..last) /\ l \in SUBSET (1..last)
            /\ t \in SUBSET (1..last)
        BY <1>1, <4>1, LinesPast
      <4>5. MeasuredWith(n, x, Rounds_!Delta) = w \cup l \cup t
        BY DEF MeasuredWith, Rounds_!Delta
      <4>6. Probes(n, x) \subseteq w \cup l \cup t
        BY <4>5 DEF Probes
      <4> HIDE DEF w, l, t, row, isNamed, isPromoted, last
      <4>7. row.measured \in Nat /\ \A j \in w \cup l \cup t : j <= row.measured
        BY <4>2, <4>3, <4>4, LastMeasured
      <4>8. w # {}
        BY <4>2, <4>3 DEF RowAgrees, RowShape
      <4>9. row.measured # 0
        <5>1. PICK j \in w : TRUE
          BY <4>8
        <5>2. j >= 1 /\ j <= row.measured /\ j \in Nat
          BY <4>4, <4>7, <5>1
        <5> QED
          BY <5>2, <4>7
      <4> QED
        BY <4>2, <4>6, <4>7, <4>9 DEF row
    <3>4. Committed[n].row[s].measured <= seen
      <4>1. Opened.row[s].measured # 0 /\ Opened.row[r].measured # 0
        BY <3>3
      <4>2. \/ Opened.row[s].measured < Opened.row[r].measured
            \/ Opened.row[s].measured = Opened.row[r].measured
        BY <3>2, <4>1 DEF Rounds_!Before
      <4> QED
        BY <3>3, <4>2
    <3>5. \A k \in Probes(n, s) : k <= Committed[n].row[s].measured
      BY <3>3
    <3>6. late2 \subseteq {Round}
      <4>1. ASSUME NEW k \in late2  PROVE k = Round
        <5>1. k \in Probes(n, s)' /\ k > seen /\ k \in 1..Round
          BY <1>2, <2>1
        <5>2. k \notin Probes(n, s)
          BY <3>3, <3>4, <3>5, <5>1
        <5> QED
          BY <1>2, <5>1, <5>2
      <4> QED
        BY <4>1
    <3> HIDE DEF late2
    <3>7. Cardinality(late2) <= 1
      BY <3>6, AtMostOne
    <3> QED
      BY <3>7 DEF late2
  <2>3. CASE ~(s \in Due /\ MeasuredWith(n, s, {1}) # {})
    <3>1. late2 \subseteq late
      BY <1>2, <2>1, <2>3
    <3>2. Cardinality(late) <= 1
      BY <1>1, <2>1 DEF NoOvertaking
    <3>3. late \subseteq 1..Round /\ IsFiniteSet(1..Round)
      <4>1. Probes(n, s) \subseteq MeasuredWith(n, s, Rounds_!Delta)
        BY DEF Probes
      <4>2. MeasuredWith(n, s, Rounds_!Delta) \in SUBSET (1..(Round - 1))
        BY <1>1, LinesPast
      <4> QED
        BY <1>1, <4>1, <4>2, FS_Interval
    <3> HIDE DEF late, late2
    <3>4. IsFiniteSet(late) /\ Cardinality(late) \in Nat
      BY <3>3, FS_Subset, FS_CardinalityType
    <3>5. Cardinality(late2) <= Cardinality(late) /\ Cardinality(late2) \in Nat
      BY <3>1, <3>4, FS_Subset, FS_CardinalityType
    <3>6. Cardinality(late2) <= 1
      BY <3>2, <3>4, <3>5
    <3> QED
      BY <3>6 DEF late2
  <2> QED
    BY <2>2, <2>3
<1> QED
  BY <1>3, <1>4

\* Between markers no line of a finished round is written.
LEMMA LinesSettled ==
  ASSUME TornSnapshots = FALSE, RoundInv, [StudyNext]_vars, ~Mark, NEW a, NEW e
  PROVE  Lines(a, e)' = Lines(a, e)
<1>1. finished' = finished
  BY RoundInvStep
<1>2. CASE audit' = audit
  BY <1>1, <1>2 DEF Lines
<1>3. CASE Report \/ PromoteArm \/ Stage
  <2>1. snapshot[Now] # NoSnapshot
    BY <1>3 DEF RoundInv, OneBegun, Report, PromoteArm, Stage, Resting
  <2>2. finished[Now] = Round - 1 /\ Round \in Nat
    BY <2>1, OpenedTyped DEF Rounds
  <2>3. \A l \in audit' : l \in audit \/ (l.arm = Now /\ l.round = Round)
    BY <1>3 DEF Report, PromoteArm, Stage, Line
  <2>4. audit \subseteq audit'
    BY <1>3 DEF Report, PromoteArm, Stage
  <2>5. \A l \in audit' : l.arm = a /\ l.round <= finished[a] => l \in audit
    BY <2>2, <2>3
  <2> QED
    BY <1>1, <2>4, <2>5 DEF Lines
<1>4. audit' = audit \/ Report \/ PromoteArm \/ Stage
  BY DEF StudyNext, StudyStep, Open, Search, Measure, Record, Propose, Mark, Final,
         EvaluationFails, Supervise, Die, Rerun, disk, vars
<1> QED
  BY <1>2, <1>3, <1>4

LEMMA NoOvertakingStep ==
  ASSUME TornSnapshots = FALSE, RoundInv, AuditInv, NoOvertaking, [StudyNext]_vars
  PROVE  NoOvertaking'
<1>1. SUFFICES ASSUME NEW a \in Arm, NEW s \in Rule, NEW r \in Volatile(Committed'[a]) \ {s}
               PROVE  Cardinality({k \in Probes(a, s)' : k > Committed'[a].row[r].measured}) <= 1
  BY DEF NoOvertaking, Volatile, Validated
<1>2. r \in Rule
  BY DEF Volatile, Validated
<1>3. CASE Mark /\ a = Now /\ Learning(a)
  <2>1. Committed'[a] = memory[a]
    BY <1>3, MarkKeeps, CommittedAre DEF RoundInv
  <2> QED
    BY <1>2, <1>3, <2>1, OvertakingMarked
<1>4. CASE ~(Mark /\ a = Now /\ Learning(a))
  <2>1. \A e : Lines(a, e)' = Lines(a, e)
    <3>1. CASE Mark
      BY <1>2, <1>4, <3>1, MarkedElsewhere
    <3>2. CASE ~Mark
      BY <3>2, LinesSettled
    <3> QED
      BY <3>1, <3>2
  <2>2. \A D : MeasuredWith(a, s, D)' = MeasuredWith(a, s, D)
    BY <2>1 DEF MeasuredWith
  <2>3. Probes(a, s)' = Probes(a, s)
    BY <2>2 DEF Probes, Rounds_!Delta
  <2>4. /\ Committed'[a].row[r].patch = Committed[a].row[r].patch
        /\ Committed'[a].row[r].stable = Committed[a].row[r].stable
        /\ Committed'[a].row[r].measured = Committed[a].row[r].measured
    <3>1. CASE Mark
      BY <1>2, <1>4, <3>1, MarkedElsewhere
    <3>2. CASE ~Mark
      BY <3>2, RoundInvStep
    <3> QED
      BY <3>1, <3>2
  <2>5. r \in Volatile(Committed[a]) \ {s}
    BY <2>4 DEF Volatile, Validated
  <2> QED
    BY <2>3, <2>4, <2>5 DEF NoOvertaking
<1> QED
  BY <1>3, <1>4

(* While a rule that matures waits for its next measurement, no other rule *)
(* is measured twice (candidate_rules).                                    *)
THEOREM NoneOvertaken ==
  ASSUME TornSnapshots = FALSE
  PROVE  StudySpec => []NoOvertaking
<1>1. StudyInit => AuditInv /\ NoOvertaking
  <2> SUFFICES ASSUME StudyInit PROVE NoOvertaking
    BY AuditInvInit
  <2>1. \A a \in Arm : Committed[a] = EmptyMemory
    BY RoundInvInit, CommittedAre DEF RoundInv, StudyInit
  <2>2. Volatile(EmptyMemory) = {}
    BY DEF Volatile, Validated, EmptyMemory, NoRow
  <2> QED
    BY <2>1, <2>2 DEF NoOvertaking
<1>2. RoundInv /\ AuditInv /\ [StudyNext]_vars => AuditInv'
  BY AuditInvStep
<1>3. RoundInv /\ AuditInv /\ NoOvertaking /\ [StudyNext]_vars => NoOvertaking'
  BY NoOvertakingStep
<1> QED
  BY <1>1, <1>2, <1>3, RoundsReplayed, PTL DEF StudySpec

-----------------------------------------------------------------------------
(* The round loop: what its steps make of a row.                           *)

\* A memory that has seen the rounds up to some of the schedule's.
LoopMemory(m) == m.last \in 0..MaxRound /\ SeenUpTo(m, m.last)

\* Rows that differ in their age only.
SameButAge(a, b) ==
  a.patch = b.patch /\ a.stable = b.stable /\ a.won = b.won /\ a.lost = b.lost

\* advance at any round of the schedule; the rows age at the next one.
LEMMA AdvancedLoop ==
  ASSUME NEW k \in Rounds, NEW m, LoopMemory(m)
  PROVE  /\ LoopMemory(Advance(m, k))
         /\ \A r \in Rule :
              /\ SameButAge(Advance(m, k).row[r], m.row[r])
              /\ m.last = k - 1 =>
                   /\ Advance(m, k).row[r].age <= m.row[r].age + 1
                   /\ m.last = 0 => Advance(m, k).row[r].age = m.row[r].age
         /\ m.last = k - 1 => Advance(m, k).last = k
<1> DEFINE aged(r) == [m.row[r] EXCEPT !.age = @ + (k - m.last)]
           rows == [r \in Rule |-> IF r \in Pending(m) \cup Volatile(m) /\ m.last # 0
                                   THEN aged(r) ELSE m.row[r]]
<1>1. /\ k \in Nat /\ k >= 1 /\ k <= MaxRound /\ MaxRound \in Nat
      /\ m \in Memory /\ m.last \in Nat /\ m.last <= MaxRound
  BY GuidelineAssumption DEF Rounds, LoopMemory, SeenUpTo
<1>2. CASE m.last # 0 /\ k <= m.last
  <2>1. Advance(m, k) = m
    BY <1>2 DEF Advance
  <2>2. m.last # k - 1
    BY <1>1, <1>2
  <2> QED
    BY <2>1, <2>2 DEF SameButAge
<1>3. CASE ~(m.last # 0 /\ k <= m.last)
  <2>1. Advance(m, k) = [row |-> rows, last |-> k]
    BY <1>3 DEF Advance
  <2>2. m.last < k
    BY <1>1, <1>3
  <2>3. ASSUME NEW r \in Rule
        PROVE  /\ rows[r] \in Row /\ rows[r].age <= k
               /\ SameButAge(rows[r], m.row[r])
               /\ m.last = k - 1 => rows[r].age <= m.row[r].age + 1
               /\ m.last = 0 => rows[r].age = m.row[r].age
    <3>1. m.row[r] \in Row /\ m.row[r].age <= m.last /\ m.row[r].age \in Nat
      BY <1>1 DEF Memory, Row, LoopMemory, SeenUpTo
    <3> HIDE DEF rows
    <3>2. CASE rows[r] = m.row[r]
      BY <3>1, <3>2, <2>2, <1>1 DEF SameButAge
    <3>3. CASE rows[r] = aged(r) /\ m.last # 0
      <4>1. /\ m.row[r].age + (k - m.last) \in 0..MaxRound
            /\ m.row[r].age + (k - m.last) <= k
            /\ m.last = k - 1 => m.row[r].age + (k - m.last) <= m.row[r].age + 1
        BY <3>1, <2>2, <1>1
      <4> QED
        BY <4>1, <3>1, <3>3 DEF Row, SameButAge
    <3> QED
      BY <3>2, <3>3 DEF rows
  <2> HIDE DEF rows
  <2>4. rows \in [Rule -> Row]
    <3>1. rows = [r \in Rule |-> rows[r]]
      BY DEF rows
    <3> QED
      BY <3>1, <2>3
  <2>5. LoopMemory([row |-> rows, last |-> k])
    BY <2>3, <2>4, <1>1 DEF LoopMemory, SeenUpTo, Memory
  <2> QED
    BY <2>1, <2>3, <2>5
<1> QED
  BY <1>2, <1>3

\* What one round's evidence makes of a row.
RecordedRow(row, k, success) ==
  IF row.patch \notin {"pending", "validated"} \/ k \in row.won \cup row.lost THEN row
  ELSE IF success THEN [row EXCEPT !.patch = "validated", !.won = @ \cup {k}]
  ELSE IF row.patch = "pending" THEN [NoRow EXCEPT !.patch = "rolled_back"]
  ELSE [row EXCEPT !.lost = @ \cup {k}]

LEMMA RecordedTyped ==
  ASSUME NEW row \in Row, NEW k \in Rounds, NEW success \in BOOLEAN
  PROVE  /\ RecordedRow(row, k, success) \in Row
         /\ RecordedRow(row, k, success).age <= row.age
<1>1. row.age \in Nat
  BY GuidelineAssumption DEF Row
<1>2. /\ [row EXCEPT !.patch = "validated", !.won = @ \cup {k}] \in Row
      /\ [row EXCEPT !.patch = "validated", !.won = @ \cup {k}].age = row.age
  BY DEF Row, PatchStatus
<1>3. [row EXCEPT !.lost = @ \cup {k}] \in Row /\ [row EXCEPT !.lost = @ \cup {k}].age = row.age
  BY DEF Row
<1>4. [NoRow EXCEPT !.patch = "rolled_back"] \in Row /\ [NoRow EXCEPT !.patch = "rolled_back"].age = 0
  BY RowTyped DEF PatchStatus, NoRow
<1>5. row.age <= row.age /\ 0 <= row.age
  BY <1>1
<1>6. CASE RecordedRow(row, k, success) = row
  BY <1>5, <1>6
<1>7. CASE RecordedRow(row, k, success) = [row EXCEPT !.patch = "validated", !.won = @ \cup {k}]
  BY <1>2, <1>5, <1>7
<1>8. CASE RecordedRow(row, k, success) = [row EXCEPT !.lost = @ \cup {k}]
  BY <1>3, <1>5, <1>8
<1>9. CASE RecordedRow(row, k, success) = [NoRow EXCEPT !.patch = "rolled_back"]
  BY <1>4, <1>5, <1>9
<1> QED
  BY <1>6, <1>7, <1>8, <1>9 DEF RecordedRow

\* A rule judged changes its own row.
LEMMA RecordedLocally ==
  ASSUME NEW m, LoopMemory(m), NEW r \in Rule, NEW k \in Rounds, NEW success \in BOOLEAN
  PROVE  /\ LoopMemory(RecordRound(m, r, k, success))
         /\ RecordRound(m, r, k, success).last = m.last
         /\ \A s \in Rule : RecordRound(m, r, k, success).row[s]
                              = IF s = r THEN RecordedRow(m.row[r], k, success) ELSE m.row[s]
<1> DEFINE new == RecordedRow(m.row[r], k, success)
           rows == [m.row EXCEPT ![r] = new]
<1>1. /\ m \in Memory /\ m.row[r] \in Row /\ m.row[r].age \in Nat /\ m.last \in Nat
      /\ \A s \in Rule : m.row[s].age <= m.last
  BY GuidelineAssumption DEF LoopMemory, SeenUpTo, Memory, Row
<1>2. new \in Row /\ new.age <= m.last
  <2>1. new \in Row /\ new.age <= m.row[r].age /\ m.row[r].age <= m.last
    BY <1>1, RecordedTyped
  <2>2. new.age \in Nat
    BY <2>1, GuidelineAssumption DEF Row
  <2> QED
    BY <2>1, <2>2, <1>1
<1>3. RecordRound(m, r, k, success) = [m EXCEPT !.row = rows]
  <2>1. m = [m EXCEPT !.row = [@ EXCEPT ![r] = m.row[r]]]
    BY <1>1 DEF Memory
  <2> QED
    BY <2>1, <1>1 DEF RecordRound, RecordedRow, UnderValidation, Memory
<1> HIDE DEF new
<1>4. rows \in [Rule -> Row] /\ \A s \in Rule : rows[s] = IF s = r THEN new ELSE m.row[s]
  BY <1>1, <1>2 DEF Memory
<1> HIDE DEF rows
<1>5. /\ [m EXCEPT !.row = rows] \in Memory
      /\ [m EXCEPT !.row = rows].row = rows /\ [m EXCEPT !.row = rows].last = m.last
  BY <1>1, <1>4 DEF Memory
<1>6. LoopMemory([m EXCEPT !.row = rows])
  BY <1>1, <1>2, <1>4, <1>5 DEF LoopMemory, SeenUpTo
<1> QED
  BY <1>3, <1>4, <1>5, <1>6 DEF new

\* A round that ends promotes rules, and changes nothing else.
Matured(row, flat) ==
  IF flat THEN row.patch = "validated" /\ ~row.stable ELSE Blockers(row) = {}
PromotedAtEnd(m, flat) == IF flat THEN PromoteFlat(m) ELSE Promote(m)

LEMMA PromotedRows ==
  ASSUME NEW m, LoopMemory(m), NEW flat \in BOOLEAN
  PROVE  /\ LoopMemory(PromotedAtEnd(m, flat)) /\ PromotedAtEnd(m, flat).last = m.last
         /\ \A r \in Rule : PromotedAtEnd(m, flat).row[r]
              = IF Matured(m.row[r], flat) THEN [m.row[r] EXCEPT !.stable = TRUE] ELSE m.row[r]
<1> DEFINE rows == [r \in Rule |-> IF Matured(m.row[r], flat) THEN [m.row[r] EXCEPT !.stable = TRUE]
                                   ELSE m.row[r]]
<1>1. m \in Memory /\ \A r \in Rule : m.row[r] \in Row
  BY DEF LoopMemory, SeenUpTo, Memory
<1>2. ASSUME NEW r \in Rule  PROVE rows[r] \in Row /\ rows[r].age = m.row[r].age
  BY <1>1 DEF Row
<1>3. PromotedAtEnd(m, flat) = [m EXCEPT !.row = rows]
  <2>1. \A r \in Rule : r \in Volatile(m) <=> m.row[r].patch = "validated" /\ ~m.row[r].stable
    BY DEF Volatile, Validated
  <2>2. CASE flat
    <3>1. rows = [r \in Rule |-> IF r \in Volatile(m) THEN [m.row[r] EXCEPT !.stable = TRUE]
                                 ELSE m.row[r]]
      BY <2>1, <2>2 DEF Matured
    <3> QED
      BY <3>1, <2>2 DEF PromotedAtEnd, PromoteFlat
  <2>3. CASE ~flat
    BY <2>3 DEF PromotedAtEnd, Promote, Matured
  <2> QED
    BY <2>2, <2>3
<1>4. rows \in [Rule -> Row]
  BY <1>2
<1>5. \A r \in Rule : rows[r] = IF Matured(m.row[r], flat) THEN [m.row[r] EXCEPT !.stable = TRUE]
                                ELSE m.row[r]
  OBVIOUS
<1> HIDE DEF rows
<1>6. /\ [m EXCEPT !.row = rows] \in Memory
      /\ [m EXCEPT !.row = rows].row = rows /\ [m EXCEPT !.row = rows].last = m.last
  BY <1>1, <1>4 DEF Memory
<1>7. LoopMemory([m EXCEPT !.row = rows])
  BY <1>1, <1>2, <1>6 DEF LoopMemory, SeenUpTo
<1> QED
  BY <1>3, <1>5, <1>6, <1>7

\* The proposals of a round, staged.
WithStaged(m, k, P) ==
  [m EXCEPT !.row = [r \in Rule |->
     IF r[1] = k /\ r[2] \in P THEN StageAdd(m, r).row[r] ELSE m.row[r]]]

LEMMA StagedRows ==
  ASSUME NEW m, LoopMemory(m), NEW k, NEW P
  PROVE  /\ LoopMemory(WithStaged(m, k, P)) /\ WithStaged(m, k, P).last = m.last
         /\ \A r \in Rule : WithStaged(m, k, P).row[r]
              = IF r[1] = k /\ r[2] \in P /\ m.row[r].patch = "absent"
                THEN [NoRow EXCEPT !.patch = "pending"] ELSE m.row[r]
<1> DEFINE rows == [r \in Rule |-> IF r[1] = k /\ r[2] \in P THEN StageAdd(m, r).row[r]
                                   ELSE m.row[r]]
           fresh == [NoRow EXCEPT !.patch = "pending"]
<1>1. m \in Memory /\ m.last \in Nat /\ \A r \in Rule : m.row[r] \in Row /\ m.row[r].age <= m.last
  BY GuidelineAssumption DEF LoopMemory, SeenUpTo, Memory
<1>2. fresh \in Row /\ fresh.age = 0 /\ 0 <= m.last
  BY RowTyped, <1>1 DEF PatchStatus, NoRow
<1> HIDE DEF fresh
<1>3. ASSUME NEW r \in Rule
      PROVE  rows[r] = IF r[1] = k /\ r[2] \in P /\ m.row[r].patch = "absent"
                       THEN fresh ELSE m.row[r]
  <2>1. m.row[r].patch = "absent" => StageAdd(m, r).row[r] = fresh
    BY <1>1 DEF StageAdd, fresh, Memory
  <2>2. m.row[r].patch # "absent" => StageAdd(m, r).row[r] = m.row[r]
    BY DEF StageAdd
  <2> QED
    BY <2>1, <2>2
<1>4. WithStaged(m, k, P) = [m EXCEPT !.row = rows]
  BY DEF WithStaged
<1>5. rows \in [Rule -> Row]
  <2>1. rows = [r \in Rule |-> rows[r]]
    OBVIOUS
  <2> HIDE DEF rows
  <2>2. \A r \in Rule : rows[r] \in Row
    BY <1>1, <1>2, <1>3
  <2> QED
    BY <2>1, <2>2
<1> HIDE DEF rows
<1>6. /\ [m EXCEPT !.row = rows] \in Memory
      /\ [m EXCEPT !.row = rows].row = rows /\ [m EXCEPT !.row = rows].last = m.last
  BY <1>1, <1>5 DEF Memory
<1>7. LoopMemory([m EXCEPT !.row = rows])
  BY <1>1, <1>2, <1>3, <1>6 DEF LoopMemory, SeenUpTo
<1> QED
  BY <1>3, <1>4, <1>6, <1>7 DEF fresh

-----------------------------------------------------------------------------
(* The round loop: whom it judges next.                                    *)

LEMMA RulesFinite == IsFiniteSet(Rule)
<1>1. IsFiniteSet(Rounds)
  BY GuidelineAssumption, FS_Interval DEF Rounds
<1> QED
  BY <1>1, LoopAssumption, FS_Product DEF Rule

LEMMA RuleParts ==
  ASSUME NEW r \in Rule
  PROVE  r = <<r[1], r[2]>> /\ r[1] \in Nat /\ r[1] \in Rounds /\ r[2] \in Nat /\ r[1] > 0
<1>1. r[1] \in Rounds /\ r[2] \in Cause /\ r = <<r[1], r[2]>>
  BY DEF Rule
<1> QED
  BY <1>1, GuidelineAssumption DEF Rounds

LEMMA NextIsOne ==
  ASSUME todo \in SUBSET Rule, todo # {}
  PROVE  NextCandidate \in todo
<1> DEFINE R == {e \in Rule \X Rule : JudgedBefore(mem, e[1], e[2])}
<1>1. \A x, y \in todo : <<x, y>> \in R <=> JudgedBefore(mem, x, y)
  OBVIOUS
<1>2. \A x, y, z \in Rule : JudgedBefore(mem, x, y) /\ JudgedBefore(mem, y, z)
                              => JudgedBefore(mem, x, z)
  BY RuleParts DEF JudgedBefore, IdBefore
<1>3. \A x \in Rule : ~JudgedBefore(mem, x, x)
  BY RuleParts DEF JudgedBefore, IdBefore
<1>4. ASSUME NEW x \in Rule, NEW y \in Rule, x # y
      PROVE  JudgedBefore(mem, x, y) \/ JudgedBefore(mem, y, x)
  <2>1. x[1] # y[1] \/ x[2] # y[2]
    BY <1>4, RuleParts
  <2>2. IdBefore(x, y) \/ IdBefore(y, x)
    BY <2>1, RuleParts DEF IdBefore
  <2> QED
    BY <2>2 DEF JudgedBefore
<1>5. /\ \A x, y, z \in todo : <<x, y>> \in R /\ <<y, z>> \in R => <<x, z>> \in R
      /\ \A x \in todo : <<x, x>> \notin R
  BY <1>1, <1>2, <1>3
<1> HIDE DEF R
<1>6. PICK k \in todo : \A j \in todo : <<j, k>> \notin R
  BY <1>5, RulesFinite, FS_Subset, FirstExists
<1>7. \A s \in todo \ {k} : JudgedBefore(mem, k, s)
  BY <1>1, <1>4, <1>6
<1> QED
  BY <1>7 DEF NextCandidate

\* A limit that passes over nobody takes everybody.
LEMMA FirstOfAll ==
  ASSUME NEW S \in SUBSET Rule, ~(Cardinality(S) > MaxCandidates)
  PROVE  FirstOf(S, MaxCandidates, IdBefore) = S
<1>1. ASSUME NEW r \in S  PROVE Cardinality({s \in S : IdBefore(s, r)}) < MaxCandidates
  <2> DEFINE ahead == {s \in S : IdBefore(s, r)}
  <2>1. r \notin ahead
    BY RuleParts DEF IdBefore
  <2>2. IsFiniteSet(S) /\ ahead \in SUBSET S
    BY RulesFinite, FS_Subset
  <2>3. Cardinality(ahead) <= Cardinality(S) /\ Cardinality(ahead) # Cardinality(S)
    BY <2>1, <2>2, FS_Subset
  <2>4. IsFiniteSet(ahead) /\ Cardinality(ahead) \in Nat /\ Cardinality(S) \in Nat
    BY <2>2, FS_Subset, FS_CardinalityType
  <2> QED
    BY <2>3, <2>4, LoopAssumption
<1> QED
  BY <1>1 DEF FirstOf

-----------------------------------------------------------------------------
(* The round loop: its types.                                              *)

LoopSteps == {"play", "stage", "select", "judge", "end", "aborted", "summary"}
LoopTypeOK ==
  /\ driver \in SweepArms \cup {"runner", "round_driver"}
  /\ LoopMemory(mem)
  /\ at \in Rounds /\ step \in LoopSteps
  /\ todo \in SUBSET Rule

LEMMA EmptyLoop == LoopMemory(EmptyMemory) /\ EmptyMemory.last = 0
  BY RowTyped, GuidelineAssumption DEF LoopMemory, EmptyMemory

\* Judging is one rule that is still to judge, whose row becomes what the
\* evidence makes of it or stays.
LEMMA JudgeIs ==
  ASSUME LoopTypeOK, Judge
  PROVE  /\ NextCandidate \in todo /\ todo' = todo \ {NextCandidate}
         /\ step = "judge" /\ UNCHANGED <<driver, at, step>>
         /\ tried' = tried \cup {<<NextCandidate, at>>}
         /\ \A i \in report' : i \in report \/ i[1] = "validation_call_failed"
         /\ report \subseteq report'
         /\ \/ UNCHANGED <<mem, life>>
            \/ \E success \in BOOLEAN :
                 /\ mem' = RecordRound(mem, NextCandidate, at, success)
                 /\ life' = IF DrivesRunner /\ mem.row[NextCandidate].patch = "pending"
                                 /\ mem'.row[NextCandidate].patch = "rolled_back"
                            THEN [life EXCEPT ![NextCandidate].rolled_back = at] ELSE life
BY NextIsOne DEF LoopTypeOK, Judge, Decide, Split, CallFails, RolledBack

LEMMA EndRoundIs ==
  ASSUME EndRound
  PROVE  mem' = PromotedAtEnd(mem, driver = "flat")
BY DEF EndRound, PromotedAtEnd

LEMMA NextRoundTyped ==
  ASSUME at \in Rounds, NextRound
  PROVE  at' \in Rounds /\ step' \in LoopSteps
BY GuidelineAssumption DEF NextRound, Rounds, LoopSteps

LEMMA LoopTyped ==
  ASSUME LoopTypeOK, [LoopNext]_loopVars
  PROVE  LoopTypeOK'
<1> USE DEF LoopTypeOK
<1>1. LoopMemory(Advance(mem, at))
  BY AdvancedLoop
<1>2. CASE Play
  <2>1. step' \in LoopSteps
    BY <1>2 DEF Play, LoopSteps
  <2> QED
    BY <1>1, <1>2, <2>1 DEF Play
<1>3. CASE TooManyErrors
  BY <1>1, <1>3 DEF TooManyErrors, Dies, LoopSteps
<1>4. CASE ForeignScores
  BY <1>1, <1>4 DEF ForeignScores, Dies, LoopSteps
<1>5. CASE ProposerDies
  BY <1>5 DEF ProposerDies, Dies, LoopSteps
<1>6. CASE Unscored
  BY <1>1, <1>6, NextRoundTyped DEF Unscored
<1>7. CASE StageProposals
  <2>1. PICK P : mem' = WithStaged(mem, at, P)
    BY <1>7 DEF StageProposals, WithStaged
  <2> QED
    BY <1>7, <2>1, StagedRows DEF StageProposals, LoopSteps
<1>8. CASE Select
  <2>1. todo' \in SUBSET Rule
    BY <1>8 DEF Select, RunnerCandidates, DriverCandidates, FirstOf, Pending, Volatile, Validated
  <2> QED
    BY <1>8, <2>1 DEF Select, LoopSteps
<1>9. CASE Judge
  <2>1. LoopMemory(mem')
    BY <1>9, JudgeIs, RecordedLocally
  <2> QED
    BY <1>9, <2>1, JudgeIs
<1>10. CASE EndRound
  <2>1. LoopMemory(mem')
    BY <1>10, EndRoundIs, PromotedRows
  <2> QED
    BY <1>10, <2>1, NextRoundTyped DEF EndRound
<1>11. ASSUME Fresh  PROVE at' \in Rounds /\ step' \in LoopSteps /\ todo' \in SUBSET Rule
  BY <1>11, LoopAssumption, GuidelineAssumption DEF Fresh, Rounds, LoopSteps
<1>12. CASE RunAgain
  BY <1>11, <1>12, EmptyLoop DEF RunAgain
<1>13. CASE ArmEnds
  <2>1. driver' \in SweepArms
    BY <1>13 DEF ArmEnds, InSweep, SweepArms
  <2> QED
    BY <1>11, <1>13, <2>1, EmptyLoop DEF ArmEnds, LoopSteps
<1>14. CASE SweepAgain
  BY <1>11, <1>14, EmptyLoop DEF SweepAgain
<1>15. CASE UNCHANGED loopVars
  BY <1>15 DEF loopVars
<1> QED
  BY <1>2, <1>3, <1>4, <1>5, <1>6, <1>7, <1>8, <1>9, <1>10, <1>12, <1>13, <1>14, <1>15
     DEF LoopNext, RoundStep

LEMMA LoopTypedInit == LoopInit => LoopTypeOK
<1>1. LoopInit => at \in Rounds
  BY LoopAssumption, GuidelineAssumption DEF LoopInit, Rounds
<1> QED
  BY <1>1, EmptyLoop DEF LoopInit, LoopTypeOK, LoopSteps, SweepArms

-----------------------------------------------------------------------------
(* The round driver never promotes.                                        *)

\* What a row of the round driver's memory shows: at most one win.
WonOnce(row) ==
  /\ ~row.stable /\ row.lost = {}
  /\ IF row.patch = "validated" THEN \E k \in Rounds : row.won = {k} ELSE row.won = {}

DriverInv ==
  driver = "round_driver" =>
    /\ \A r \in Rule : WonOnce(mem.row[r])
    /\ todo \subseteq Pending(mem)

LEMMA WonOnceFacts ==
  /\ \A k \in Rounds : \A row \in Row : \A success \in BOOLEAN :
       WonOnce(row) /\ row.patch = "pending" => WonOnce(RecordedRow(row, k, success))
  /\ \A s \in {"absent", "pending", "rolled_back"} : WonOnce([NoRow EXCEPT !.patch = s])
<1>1. ASSUME NEW s \in {"absent", "pending", "rolled_back"}  PROVE WonOnce([NoRow EXCEPT !.patch = s])
  BY DEF WonOnce, NoRow
<1>2. ASSUME NEW k \in Rounds, NEW row \in Row, NEW success \in BOOLEAN,
             WonOnce(row), row.patch = "pending"
      PROVE  WonOnce(RecordedRow(row, k, success))
  <2>1. row.won = {} /\ row.lost = {} /\ ~row.stable
    BY <1>2 DEF WonOnce
  <2>2. WonOnce([row EXCEPT !.patch = "validated", !.won = @ \cup {k}])
    BY <2>1 DEF WonOnce, Row
  <2> QED
    BY <1>1, <1>2, <2>1, <2>2 DEF RecordedRow
<1> QED
  BY <1>1, <1>2

\* One win is too little for promotion.
LEMMA OneWinBlocked ==
  ASSUME PromotionAge > 1 \/ PromotionSubsets > 1, NEW row \in Row, WonOnce(row)
  PROVE  Blockers(row) # {}
<1>1. CASE row.patch # "validated"
  <2>1. "status" \in Blockers(row)
    BY <1>1 DEF Blockers
  <2> QED
    BY <2>1
<1>2. CASE row.patch = "validated"
  <2>1. PICK k \in Rounds : row.won = {k} /\ row.lost = {}
    BY <1>2 DEF WonOnce
  <2>2. Cardinality(row.won) = 1
    BY <2>1, FS_Singleton
  <2>3. {GroupOf(j) : j \in row.won \cup row.lost} = {GroupOf(k)}
    BY <2>1
  <2>4. Cardinality({GroupOf(j) : j \in row.won \cup row.lost}) = 1
    BY <2>3, FS_Singleton
  <2>5. CASE PromotionAge > 1
    <3>1. "successful_lifespan" \in Blockers(row)
      BY <2>2, <2>5, GuidelineAssumption DEF Blockers
    <3> QED
      BY <3>1
  <2>6. CASE PromotionSubsets > 1
    <3>1. "independent_subsets" \in Blockers(row)
      BY <2>4, <2>6, GuidelineAssumption DEF Blockers
    <3> QED
      BY <3>1
  <2> QED
    BY <2>5, <2>6
<1> QED
  BY <1>1, <1>2

LEMMA DriverInvStep ==
  ASSUME PromotionAge > 1 \/ PromotionSubsets > 1,
         LoopTypeOK, DriverInv, [LoopNext]_loopVars
  PROVE  DriverInv'
<1>1. SUFFICES ASSUME driver' = "round_driver"
               PROVE  /\ \A r \in Rule : WonOnce(mem'.row[r])
                      /\ todo' \subseteq Pending(mem')
  BY DEF DriverInv
<1>2. driver = "round_driver" /\ ~InSweep
  <2>1. CASE SweepAgain
    BY <1>1, <2>1 DEF SweepAgain, SweepArms
  <2>2. CASE ArmEnds
    BY <1>1, <2>2 DEF ArmEnds, InSweep, SweepArms
  <2>3. CASE UNCHANGED driver
    BY <1>1, <2>3 DEF InSweep, SweepArms
  <2> QED
    BY <2>1, <2>2, <2>3 DEF LoopNext, loopVars, RoundStep, RunAgain, Play, TooManyErrors,
         ForeignScores, ProposerDies, Unscored, StageProposals, Select, Judge, EndRound, Dies
<1>3. /\ \A r \in Rule : WonOnce(mem.row[r]) /\ mem.row[r] \in Row
      /\ todo \subseteq Pending(mem) /\ at \in Rounds
  BY <1>2 DEF DriverInv, LoopTypeOK, LoopMemory, SeenUpTo, Memory
<1>4. ASSUME UNCHANGED todo,
             mem' = Advance(mem, at) \/ UNCHANGED mem
      PROVE  (\A r \in Rule : WonOnce(mem'.row[r])) /\ todo' \subseteq Pending(mem')
  <2>1. \A r \in Rule : SameButAge(mem'.row[r], mem.row[r])
    BY <1>4, AdvancedLoop DEF LoopTypeOK, SameButAge
  <2> QED
    BY <1>3, <1>4, <2>1 DEF SameButAge, WonOnce, Pending
<1>5. CASE Play
  BY <1>4, <1>5 DEF Play
<1>6. CASE TooManyErrors \/ ForeignScores \/ ProposerDies
  BY <1>4, <1>6 DEF TooManyErrors, ForeignScores, ProposerDies, Dies
<1>7. CASE Unscored
  BY <1>4, <1>7 DEF Unscored
<1>8. CASE StageProposals
  <2>1. PICK P : mem' = WithStaged(mem, at, P)
    BY <1>8 DEF StageProposals, WithStaged
  <2>2. \A r \in Rule : \/ mem'.row[r] = mem.row[r]
                        \/ mem'.row[r] = [NoRow EXCEPT !.patch = "pending"]
    BY <2>1, StagedRows DEF LoopTypeOK
  <2>3. \A r \in Rule : WonOnce(mem'.row[r])
    BY <2>2, <1>3, WonOnceFacts
  <2>4. [NoRow EXCEPT !.patch = "pending"].patch = "pending"
    BY DEF NoRow
  <2>5. Pending(mem) \subseteq Pending(mem')
    BY <2>2, <2>4 DEF Pending
  <2>6. todo' = todo
    BY <1>8 DEF StageProposals
  <2> QED
    BY <1>3, <2>3, <2>5, <2>6
<1>9. CASE Select
  <2>1. mem' = mem /\ todo' = DriverCandidates
    BY <1>2, <1>9 DEF Select, DrivesRunner
  <2> QED
    BY <1>3, <2>1 DEF DriverCandidates, FirstOf
<1>10. CASE Judge
  <2>1. NextCandidate \in todo /\ todo' = todo \ {NextCandidate}
    BY <1>10, JudgeIs
  <2>2. NextCandidate \in Rule /\ mem.row[NextCandidate].patch = "pending"
    BY <1>3, <2>1 DEF Pending
  <2>3. CASE UNCHANGED mem
    BY <1>3, <2>1, <2>3 DEF Pending
  <2>4. CASE \E success \in BOOLEAN : mem' = RecordRound(mem, NextCandidate, at, success)
    <3>1. PICK success \in BOOLEAN : mem' = RecordRound(mem, NextCandidate, at, success)
      BY <2>4
    <3>2. \A s \in Rule : mem'.row[s] = IF s = NextCandidate
                                        THEN RecordedRow(mem.row[s], at, success) ELSE mem.row[s]
      BY <1>3, <2>2, <3>1, RecordedLocally DEF LoopTypeOK
    <3>3. \A s \in Rule : WonOnce(mem'.row[s])
      BY <1>3, <2>2, <3>2, WonOnceFacts
    <3>4. \A s \in todo' : s \in Rule /\ mem'.row[s].patch = "pending"
      BY <1>3, <2>1, <3>2 DEF Pending
    <3> QED
      BY <3>3, <3>4 DEF Pending
  <2> QED
    BY <1>10, <2>3, <2>4, JudgeIs
<1>11. CASE EndRound
  <2>1. mem' = PromotedAtEnd(mem, FALSE)
    BY <1>2, <1>11, EndRoundIs
  <2>2. \A r \in Rule : mem'.row[r] = mem.row[r]
    <3>1. \A r \in Rule : ~Matured(mem.row[r], FALSE)
      BY <1>3, OneWinBlocked DEF Matured
    <3> QED
      BY <2>1, <3>1, PromotedRows DEF LoopTypeOK
  <2>3. todo' = todo
    BY <1>11 DEF EndRound
  <2> QED
    BY <1>3, <2>2, <2>3 DEF Pending
<1>12. CASE RunAgain
  <2>1. mem' = mem /\ todo' = {}
    BY <1>2, <1>12 DEF RunAgain, Fresh
  <2> QED
    BY <1>3, <2>1
<1>13. CASE UNCHANGED loopVars
  BY <1>4, <1>13 DEF loopVars
<1> QED
  BY <1>2, <1>5, <1>6, <1>7, <1>8, <1>9, <1>10, <1>11, <1>12, <1>13
     DEF LoopNext, RoundStep, ArmEnds, SweepAgain

(* The round driver, whatever happens to it and however often it is run    *)
(* on the memory it left, promotes no rule: it judges only what is pending *)
(* and promotion asks for more than one win (RoundDriver._apply_evidence). *)
(* MMHConfig's defaults ask for three rounds and two subsets.              *)
THEOREM NothingIsPromoted ==
  ASSUME PromotionAge > 1 \/ PromotionSubsets > 1
  PROVE  LoopSpec => []DriverNeverPromotes
<1>1. LoopInit => LoopTypeOK /\ DriverInv
  <2>1. \A r \in Rule : WonOnce(EmptyMemory.row[r])
    BY DEF EmptyMemory, WonOnce, NoRow
  <2> QED
    BY <2>1, LoopTypedInit DEF LoopInit, DriverInv
<1>2. LoopTypeOK /\ DriverInv /\ [LoopNext]_loopVars => (LoopTypeOK /\ DriverInv)'
  BY LoopTyped, DriverInvStep
<1>3. DriverInv => DriverNeverPromotes
  <2>1. \A r \in Rule : WonOnce(mem.row[r]) =>
          /\ Cardinality(mem.row[r].won) + Cardinality(mem.row[r].lost) <= 1
          /\ ~mem.row[r].stable
    <3> SUFFICES ASSUME NEW r \in Rule, WonOnce(mem.row[r])
                 PROVE  /\ Cardinality(mem.row[r].won) + Cardinality(mem.row[r].lost) <= 1
                        /\ ~mem.row[r].stable
      OBVIOUS
    <3>1. Cardinality(mem.row[r].lost) = 0 /\ Cardinality(mem.row[r].won) \in {0, 1}
      BY FS_EmptySet, FS_Singleton DEF WonOnce
    <3> QED
      BY <3>1 DEF WonOnce
  <2> QED
    BY <2>1 DEF DriverInv, DriverNeverPromotes
<1> QED
  BY <1>1, <1>2, <1>3, PTL DEF LoopSpec

-----------------------------------------------------------------------------
(* The runner's report is true.                                            *)

\* A run of the runner's that has not been cut short.
Underway == DrivesRunner /\ step \in {"play", "stage", "select", "judge", "end"}

\* The last round that has ended.
Closed == IF step = "end" THEN at ELSE at - 1

Live == {"pending", "validated"}

Life == [staged : Nat, promoted : Nat, rolled_back : Nat]

\* A lifetime says of its rule r what the rule's row says.
Lived(row, l, r, flat) ==
  /\ l \in Life
  /\ row.patch # "rejected"
  /\ l.staged = IF row.patch = "absent" THEN 0 ELSE r[1]
  /\ l.promoted > 0 <=> row.stable
  /\ row.stable => row.patch = "validated"
  /\ l.rolled_back > 0 <=> row.patch = "rolled_back"
  /\ l.promoted > 0 => r[1] + (IF flat THEN 0 ELSE PromotionAge) <= l.promoted

\* No rule is older than its round, by a memory that has seen n of them, and
\* none was promoted after round c.
Timed(row, l, r, n, c) ==
  /\ row.patch # "absent" => r[1] <= n
  /\ row.patch \in Live => row.age <= n - r[1]
  /\ l.promoted <= c

LifeInv ==
  Underway =>
    /\ mem.last = IF step = "play" THEN at - 1 ELSE at
    /\ step = "end" => at = MaxRound
    /\ life \in [Rule -> Life]
    /\ \A r \in Rule : /\ Lived(mem.row[r], life[r], r, driver = "flat")
                       /\ Timed(mem.row[r], life[r], r, mem.last, Closed)

\* A rule was put up for evidence in every round up to c that it could take it.
Offered(row, l, r, c, T) ==
  row.patch \in Live =>
    \A k \in r[1]..c : (l.promoted > 0 => k <= l.promoted) => <<r, k>> \in T

NoneCut == \A i \in report : i[1] # "candidate_budget_exceeded"

TriedInv ==
  Underway /\ NoneCut =>
    /\ \A r \in Rule : Offered(mem.row[r], life[r], r, Closed, tried)
    /\ step = "judge" => \A r \in Pending(mem) \cup Volatile(mem) : r \in todo \/ <<r, at>> \in tried

LEMMA LoopRows ==
  ASSUME LoopTypeOK
  PROVE  /\ mem.last \in Nat /\ at \in Nat /\ at >= 1 /\ at <= MaxRound /\ MaxRound \in Nat
         /\ \A r \in Rule : mem.row[r] \in Row /\ mem.row[r].age \in Nat
BY GuidelineAssumption DEF LoopTypeOK, LoopMemory, SeenUpTo, Memory, Row, Rounds

\* Nothing is promoted or rolled back before it is seen.
LEMMA LivedRecorded ==
  ASSUME NEW row \in Row, NEW r, NEW l, NEW flat, NEW k \in Nat, k > 0, NEW success \in BOOLEAN,
         Lived(row, l, r, flat),
         NEW new, new = RecordedRow(row, k, success),
         NEW ll, ll = IF row.patch = "pending" /\ new.patch = "rolled_back"
                      THEN [l EXCEPT !.rolled_back = k] ELSE l
  PROVE  /\ Lived(new, ll, r, flat) /\ ll.promoted = l.promoted
         /\ new.patch \in Live => row.patch \in Live
         /\ new.patch # "absent" => row.patch # "absent"
         /\ new.stable = row.stable
<1>1. CASE new = row
  <2>1. ll = l
    BY <1>1
  <2> QED
    BY <1>1, <2>1
<1>2. CASE row.patch \in Live /\ new = [row EXCEPT !.patch = "validated", !.won = @ \cup {k}]
  <2>1. new.patch = "validated" /\ new.stable = row.stable
    BY <1>2 DEF Row
  <2>2. ll = l
    BY <2>1
  <2> QED
    BY <1>2, <2>1, <2>2 DEF Lived, Live
<1>3. CASE row.patch = "pending" /\ new = [NoRow EXCEPT !.patch = "rolled_back"]
  <2>1. new.patch = "rolled_back" /\ new.stable = FALSE
    BY <1>3 DEF NoRow
  <2>2. ll = [l EXCEPT !.rolled_back = k]
    BY <1>3, <2>1
  <2>3. /\ ll \in Life /\ ll.promoted = l.promoted /\ ll.staged = l.staged
        /\ ll.rolled_back = k
    BY <2>2 DEF Lived, Life
  <2>4. ~row.stable
    BY <1>3 DEF Lived
  <2> QED
    BY <1>3, <2>1, <2>3, <2>4 DEF Lived, Live, Row
<1>4. CASE row.patch = "validated" /\ new = [row EXCEPT !.lost = @ \cup {k}]
  <2>1. new.patch = "validated" /\ new.stable = row.stable
    BY <1>4 DEF Row
  <2>2. ll = l
    BY <2>1
  <2> QED
    BY <1>4, <2>1, <2>2 DEF Lived, Live
<1> QED
  BY <1>1, <1>2, <1>3, <1>4 DEF RecordedRow, Live

\* What one judgement does to rows and lifetimes.
LEMMA JudgedRows ==
  ASSUME LoopTypeOK, LifeInv, DrivesRunner, Judge
  PROVE  /\ mem'.last = mem.last /\ life' \in [Rule -> Life]
         /\ \A r \in Rule :
              /\ Lived(mem'.row[r], life'[r], r, driver = "flat")
              /\ life'[r].promoted = life[r].promoted
              /\ mem'.row[r].patch \in Live => mem.row[r].patch \in Live
              /\ mem'.row[r].patch # "absent" => mem.row[r].patch # "absent"
              /\ mem'.row[r].stable = mem.row[r].stable
              /\ mem'.row[r].age <= mem.row[r].age
<1> DEFINE c == NextCandidate
<1>1. c \in Rule /\ step = "judge"
  BY JudgeIs DEF LoopTypeOK
<1>2. /\ life \in [Rule -> Life]
      /\ \A r \in Rule : Lived(mem.row[r], life[r], r, driver = "flat")
      /\ \A r \in Rule : mem.row[r] \in Row /\ mem.row[r].age \in Nat
      /\ at \in Rounds /\ at \in Nat /\ at > 0
  BY <1>1, LoopRows DEF LifeInv, Underway, LoopTypeOK
<1>3. CASE UNCHANGED <<mem, life>>
  <2>1. \A r \in Rule : mem.row[r].age <= mem.row[r].age
    BY <1>2
  <2> QED
    BY <1>2, <1>3, <2>1
<1>4. CASE \E success \in BOOLEAN :
             /\ mem' = RecordRound(mem, c, at, success)
             /\ life' = IF DrivesRunner /\ mem.row[c].patch = "pending"
                             /\ mem'.row[c].patch = "rolled_back"
                        THEN [life EXCEPT ![c].rolled_back = at] ELSE life
  <2>1. PICK success \in BOOLEAN :
             /\ mem' = RecordRound(mem, c, at, success)
             /\ life' = IF DrivesRunner /\ mem.row[c].patch = "pending"
                             /\ mem'.row[c].patch = "rolled_back"
                        THEN [life EXCEPT ![c].rolled_back = at] ELSE life
    BY <1>4
  <2> HIDE DEF c
  <2>2. /\ mem'.last = mem.last
        /\ \A s \in Rule : mem'.row[s] = IF s = c THEN RecordedRow(mem.row[c], at, success)
                                         ELSE mem.row[s]
    BY <1>1, <1>2, <2>1, RecordedLocally DEF LoopTypeOK
  <2> DEFINE ll == IF mem.row[c].patch = "pending" /\ mem'.row[c].patch = "rolled_back"
                   THEN [life[c] EXCEPT !.rolled_back = at] ELSE life[c]
  <2>3. /\ ll \in Life
        /\ \A r \in Rule : life'[r] = IF r = c THEN ll ELSE life[r]
        /\ life' \in [Rule -> Life]
    BY <1>1, <1>2, <2>1 DEF Life
  <2> HIDE DEF ll
  <2>4. /\ Lived(mem'.row[c], ll, c, driver = "flat") /\ ll.promoted = life[c].promoted
        /\ mem'.row[c].patch \in Live => mem.row[c].patch \in Live
        /\ mem'.row[c].patch # "absent" => mem.row[c].patch # "absent"
        /\ mem'.row[c].stable = mem.row[c].stable
    <3>1. mem'.row[c] = RecordedRow(mem.row[c], at, success) /\ mem.row[c] \in Row
      BY <1>1, <1>2, <2>2
    <3>2. Lived(mem.row[c], life[c], c, driver = "flat")
      BY <1>1, <1>2
    <3> QED
      BY <1>2, <3>1, <3>2, LivedRecorded DEF ll
  <2>5. mem'.row[c].age <= mem.row[c].age
    BY <1>1, <1>2, <2>2, RecordedTyped
  <2>6. \A r \in Rule : mem.row[r].age <= mem.row[r].age
    BY <1>2
  <2> QED
    BY <1>1, <1>2, <2>2, <2>3, <2>4, <2>5, <2>6
<1> QED
  BY <1>3, <1>4, JudgeIs

\* The end of a round promotes what has matured and dates it.
LEMMA EndedRows ==
  ASSUME LoopTypeOK, LifeInv, DrivesRunner, EndRound
  PROVE  /\ mem'.last = mem.last /\ life' \in [Rule -> Life]
         /\ \A r \in Rule :
              /\ Lived(mem'.row[r], life'[r], r, driver = "flat")
              /\ mem'.row[r].patch = mem.row[r].patch /\ mem'.row[r].age = mem.row[r].age
              /\ life'[r].promoted <= at
              /\ \/ life'[r].promoted = life[r].promoted
                 \/ life[r].promoted = 0 /\ life'[r].promoted = at
<1>1. step = "judge" /\ Closed = at - 1 /\ mem.last = at
  BY DEF EndRound, LifeInv, Underway, Closed
<1>2. /\ life \in [Rule -> Life]
      /\ \A r \in Rule : /\ Lived(mem.row[r], life[r], r, driver = "flat")
                         /\ Timed(mem.row[r], life[r], r, at, at - 1)
      /\ at \in Nat /\ at > 0
      /\ \A r \in Rule : mem.row[r] \in Row /\ mem.row[r].age \in Nat
  BY <1>1, LoopRows DEF LifeInv, Underway
<1> DEFINE flat == driver = "flat"
           ripe(r) == Matured(mem.row[r], flat)
<1>3. /\ mem'.last = mem.last
      /\ \A r \in Rule : mem'.row[r] = IF ripe(r) THEN [mem.row[r] EXCEPT !.stable = TRUE]
                                       ELSE mem.row[r]
  BY EndRoundIs, PromotedRows DEF LoopTypeOK
<1>4. ASSUME NEW r \in Rule, ripe(r)
      PROVE  /\ mem.row[r].patch = "validated" /\ ~mem.row[r].stable
             /\ ~flat => mem.row[r].age >= PromotionAge
  <2>1. CASE flat
    BY <1>4, <2>1 DEF Matured
  <2>2. CASE ~flat
    <3>1. Blockers(mem.row[r]) = {}
      BY <1>4, <2>2 DEF Matured
    <3>2. /\ "not_volatile" \notin Blockers(mem.row[r]) /\ "status" \notin Blockers(mem.row[r])
          /\ "elapsed_age" \notin Blockers(mem.row[r])
      BY <3>1
    <3>3. ~mem.row[r].stable /\ mem.row[r].patch = "validated" /\ ~(mem.row[r].age < PromotionAge)
      BY <3>2 DEF Blockers
    <3> QED
      BY <3>3, <1>2, GuidelineAssumption
  <2> QED
    BY <2>1, <2>2
<1>5. \A r \in Rule : r \in Stable(mem') \ Stable(mem) <=> ripe(r)
  <2>1. \A r \in Rule : /\ r \in Stable(mem) <=> mem.row[r].patch = "validated" /\ mem.row[r].stable
                        /\ r \in Stable(mem') <=> mem'.row[r].patch = "validated" /\ mem'.row[r].stable
    <3>1. \A r \in Rule : mem.row[r] \in Row /\ mem'.row[r] \in Row
      BY <1>2, <1>3 DEF Row
    <3> QED
      BY <3>1 DEF Stable, Volatile, Validated, Row
  <2>2. ASSUME NEW r \in Rule, ripe(r)
        PROVE  mem'.row[r].patch = "validated" /\ mem'.row[r].stable
    <3>1. mem'.row[r] = [mem.row[r] EXCEPT !.stable = TRUE]
      BY <1>3, <2>2
    <3> QED
      BY <3>1, <1>2, <1>4, <2>2 DEF Row
  <2> HIDE DEF ripe
  <2> QED
    BY <1>3, <1>4, <2>1, <2>2
<1> HIDE DEF ripe
<1>6. /\ life' \in [Rule -> Life]
      /\ \A r \in Rule : life'[r] = IF ripe(r) THEN [life[r] EXCEPT !.promoted = at] ELSE life[r]
  <2>1. life' = [r \in Rule |-> IF r \in Stable(mem') \ Stable(mem)
                                THEN [life[r] EXCEPT !.promoted = at] ELSE life[r]]
    BY DEF EndRound, DrivesRunner
  <2>2. \A r \in Rule : [life[r] EXCEPT !.promoted = at] \in Life
    BY <1>2 DEF Life
  <2> QED
    BY <2>1, <2>2, <1>2, <1>5
<1>7. ASSUME NEW r \in Rule
      PROVE  /\ Lived(mem'.row[r], life'[r], r, driver = "flat")
             /\ mem'.row[r].patch = mem.row[r].patch /\ mem'.row[r].age = mem.row[r].age
             /\ life'[r].promoted <= at
             /\ \/ life'[r].promoted = life[r].promoted
                \/ life[r].promoted = 0 /\ life'[r].promoted = at
  <2>1. CASE ~ripe(r)
    <3>1. mem'.row[r] = mem.row[r] /\ life'[r] = life[r]
      BY <1>3, <1>6, <2>1
    <3>2. life[r].promoted \in Nat /\ life[r].promoted <= at - 1
      BY <1>2 DEF Life, Timed
    <3> QED
      BY <3>1, <3>2, <1>2
  <2>2. CASE ripe(r)
    <3>1. /\ mem'.row[r] = [mem.row[r] EXCEPT !.stable = TRUE]
          /\ life'[r] = [life[r] EXCEPT !.promoted = at]
      BY <1>3, <1>6, <2>2
    <3>2. /\ mem.row[r] \in Row /\ life[r] \in Life
          /\ Lived(mem.row[r], life[r], r, flat) /\ Timed(mem.row[r], life[r], r, at, at - 1)
          /\ r[1] \in Nat
      BY <1>2, RuleParts
    <3>3. /\ mem'.row[r].patch = "validated" /\ mem'.row[r].stable = TRUE
          /\ mem'.row[r].age = mem.row[r].age
      BY <3>1, <3>2, <1>4, <2>2 DEF Row
    <3>4. /\ life'[r] \in Life /\ life'[r].promoted = at
          /\ life'[r].staged = life[r].staged /\ life'[r].rolled_back = life[r].rolled_back
      BY <3>1, <3>2, <1>2 DEF Life
    <3>5. life[r].promoted = 0
      BY <3>2, <1>4, <2>2 DEF Lived, Life
    <3>6. r[1] + (IF flat THEN 0 ELSE PromotionAge) <= at
      BY <3>2, <1>2, <1>4, <2>2, GuidelineAssumption DEF Timed, Live
    <3>7. Lived(mem'.row[r], life'[r], r, flat)
      BY <3>2, <3>3, <3>4, <3>6, <1>2, <1>4, <2>2 DEF Lived
    <3> QED
      BY <3>3, <3>4, <3>5, <3>7, <1>2, <1>4, <2>2
  <2> QED
    BY <2>1, <2>2
<1> QED
  BY <1>3, <1>6, <1>7

\* Where a run that is under way comes from: the same run, or a fresh one.
FreshRun == at' = 1 /\ step' = "play" /\ mem' = EmptyMemory /\ life' = [r \in Rule |-> NoLife]

LEMMA UnderwaySteps ==
  ASSUME LoopTypeOK, [LoopNext]_loopVars, Underway'
  PROVE  \/ FreshRun
         \/ /\ Underway /\ driver' = driver /\ DrivesRunner
            /\ Play \/ StageProposals \/ Select \/ Judge \/ EndRound \/ UNCHANGED loopVars
<1>1. driver' # "round_driver" /\ step' \notin {"aborted", "summary"}
  BY DEF Underway, DrivesRunner
<1>2. CASE Play \/ StageProposals \/ Select \/ Judge \/ EndRound
  BY <1>1, <1>2 DEF Play, StageProposals, Select, Judge, EndRound, Underway, DrivesRunner
<1>3. CASE TooManyErrors \/ ForeignScores \/ ProposerDies
  BY <1>1, <1>3 DEF TooManyErrors, ForeignScores, ProposerDies, Dies
<1>4. CASE Unscored
  BY <1>1, <1>4 DEF Unscored
<1>5. CASE RunAgain
  <2>1. driver = "runner"
    BY <1>1, <1>5 DEF RunAgain, InSweep, SweepArms, LoopTypeOK
  <2> QED
    BY <1>5, <2>1 DEF RunAgain, Fresh, FreshRun
<1>6. CASE ArmEnds
  BY <1>1, <1>6 DEF ArmEnds, Fresh, FreshRun
<1>7. CASE SweepAgain
  BY <1>7 DEF SweepAgain, Fresh, FreshRun
<1>8. CASE UNCHANGED loopVars
  BY <1>8 DEF loopVars, Underway, DrivesRunner
<1> QED
  BY <1>2, <1>3, <1>4, <1>5, <1>6, <1>7, <1>8 DEF LoopNext, RoundStep

LEMMA FreshLife ==
  ASSUME FreshRun
  PROVE  LifeInv' /\ \A r \in Rule : mem'.row[r].patch = "absent"
<1>1. /\ mem'.last = 0 /\ at' = 1 /\ step' = "play" /\ Closed' = 0
      /\ \A r \in Rule : mem'.row[r] = NoRow /\ life'[r] = NoLife
      /\ life' \in [Rule -> Life]
  BY DEF FreshRun, EmptyMemory, Closed, Life, NoLife
<1>2. ASSUME NEW r \in Rule, NEW flat
      PROVE  Lived(NoRow, NoLife, r, flat) /\ Timed(NoRow, NoLife, r, 0, 0)
  BY DEF Lived, Timed, Life, NoLife, NoRow, Live
<1> QED
  BY <1>1, <1>2 DEF LifeInv, NoRow

\* What playing, staging and selecting do to rows and lifetimes.
LEMMA QuietRows ==
  ASSUME LoopTypeOK, LifeInv, Underway, Play \/ StageProposals \/ Select \/ UNCHANGED loopVars
  PROVE  /\ UNCHANGED <<driver, at, tried>>
         /\ mem'.last = IF Play THEN mem.last + 1 ELSE mem.last
         /\ life' \in [Rule -> Life]
         /\ \A r \in Rule :
              \/ /\ life'[r] = life[r]
                 /\ mem'.row[r].patch = mem.row[r].patch /\ mem'.row[r].stable = mem.row[r].stable
                 /\ mem'.row[r].age <= IF Play THEN mem.row[r].age + 1 ELSE mem.row[r].age
              \/ /\ StageProposals /\ r[1] = at
                 /\ mem.row[r].patch = "absent" /\ mem'.row[r] = [NoRow EXCEPT !.patch = "pending"]
                 /\ life'[r] = [life[r] EXCEPT !.staged = at]
<1>1. /\ mem.last = IF step = "play" THEN at - 1 ELSE at
      /\ life \in [Rule -> Life]
      /\ \A r \in Rule : Lived(mem.row[r], life[r], r, driver = "flat")
      /\ \A r \in Rule : mem.row[r] \in Row /\ mem.row[r].age \in Nat
      /\ at \in Rounds /\ at \in Nat /\ mem.last \in Nat
  BY LoopRows DEF LifeInv, LoopTypeOK
<1>2. \A r \in Rule : mem.row[r].age <= mem.row[r].age
  BY <1>1
<1>3. CASE Play
  <2>1. step = "play" /\ mem' = Advance(mem, at) /\ UNCHANGED <<driver, at, tried, life>>
    BY <1>3 DEF Play
  <2>2. /\ mem'.last = at
        /\ \A r \in Rule : /\ SameButAge(mem'.row[r], mem.row[r])
                           /\ mem'.row[r].age <= mem.row[r].age + 1
    BY <1>1, <2>1, AdvancedLoop DEF LoopTypeOK
  <2> QED
    BY <1>1, <1>3, <2>1, <2>2 DEF SameButAge
<1>4. CASE StageProposals
  <2>1. PICK P : /\ mem' = WithStaged(mem, at, P)
                 /\ life' = [r \in Rule |-> IF r[1] = at /\ r[2] \in P
                                            THEN [life[r] EXCEPT !.staged = at] ELSE life[r]]
    BY <1>4 DEF StageProposals, WithStaged, Underway, DrivesRunner
  <2>2. /\ mem'.last = mem.last
        /\ \A r \in Rule : mem'.row[r]
             = IF r[1] = at /\ r[2] \in P /\ mem.row[r].patch = "absent"
               THEN [NoRow EXCEPT !.patch = "pending"] ELSE mem.row[r]
    BY <2>1, StagedRows DEF LoopTypeOK
  <2>3. \A r \in Rule : [life[r] EXCEPT !.staged = at] \in Life
    BY <1>1 DEF Life
  <2>4. life' \in [Rule -> Life]
    BY <1>1, <2>1, <2>3
  <2>5. ASSUME NEW r \in Rule, mem.row[r].patch # "absent", r[1] = at
        PROVE  [life[r] EXCEPT !.staged = at] = life[r]
    BY <1>1, <2>5 DEF Lived, Life
  <2>6. step = "stage" /\ UNCHANGED <<driver, at, tried>> /\ ~Play
    BY <1>4 DEF StageProposals, Play
  <2>7. ASSUME NEW r \in Rule
        PROVE  \/ life'[r] = life[r] /\ mem'.row[r] = mem.row[r]
               \/ /\ r[1] = at
                  /\ mem.row[r].patch = "absent" /\ mem'.row[r] = [NoRow EXCEPT !.patch = "pending"]
                  /\ life'[r] = [life[r] EXCEPT !.staged = at]
    BY <2>1, <2>2, <2>5
  <2> QED
    BY <1>2, <1>4, <2>2, <2>4, <2>6, <2>7
<1>5. CASE Select \/ UNCHANGED loopVars
  <2>1. UNCHANGED <<driver, at, tried, mem, life>>
    BY <1>5 DEF Select, loopVars
  <2>2. ~Play
    BY <1>5 DEF Play, Select, loopVars
  <2> QED
    BY <1>1, <1>2, <2>1, <2>2
<1> QED
  BY <1>3, <1>4, <1>5

LEMMA LifeInvStep ==
  ASSUME LoopTypeOK, LifeInv, [LoopNext]_loopVars
  PROVE  LifeInv'
<1> SUFFICES ASSUME Underway', ~FreshRun  PROVE LifeInv'
  BY FreshLife DEF LifeInv
<1> DEFINE flat == driver = "flat"
<1>1. /\ Underway /\ driver' = driver /\ DrivesRunner
      /\ Play \/ StageProposals \/ Select \/ Judge \/ EndRound \/ UNCHANGED loopVars
  BY UnderwaySteps
<1>2. /\ mem.last = IF step = "play" THEN at - 1 ELSE at
      /\ step = "end" => at = MaxRound
      /\ \A r \in Rule : Lived(mem.row[r], life[r], r, flat)
      /\ \A r \in Rule : Timed(mem.row[r], life[r], r, mem.last, Closed)
      /\ \A r \in Rule : mem.row[r] \in Row /\ mem.row[r].age \in Nat /\ life[r] \in Life
      /\ at \in Nat /\ at > 0 /\ at <= MaxRound /\ MaxRound \in Nat /\ mem.last \in Nat
      /\ Closed \in Nat
  BY <1>1, LoopRows DEF LifeInv, Closed
<1>3. \A r \in Rule : mem'.row[r] \in Row /\ mem'.row[r].age \in Nat
  <2>1. LoopTypeOK'
    BY LoopTyped
  <2> QED
    BY <2>1, GuidelineAssumption DEF LoopTypeOK, LoopMemory, SeenUpTo, Memory, Row
<1>4. CASE Play \/ StageProposals \/ Select \/ UNCHANGED loopVars
  <2>1. /\ mem'.last = IF step' = "play" THEN at' - 1 ELSE at'
        /\ step' = "end" => at' = MaxRound
        /\ Closed' = Closed /\ mem'.last >= mem.last /\ mem'.last \in Nat
        /\ StageProposals => mem'.last = at
        /\ Play => mem'.last = mem.last + 1
        /\ ~Play => mem'.last = mem.last
    <3>1. /\ at' = at /\ mem'.last = IF Play THEN mem.last + 1 ELSE mem.last
      BY <1>1, <1>4, QuietRows
    <3>2. CASE Play
      BY <1>2, <3>1, <3>2 DEF Play, Closed, StageProposals
    <3>3. CASE ~Play /\ (StageProposals \/ Select)
      BY <1>2, <3>1, <3>3 DEF StageProposals, Select, Closed
    <3>4. CASE ~Play /\ UNCHANGED loopVars
      BY <1>2, <3>1, <3>4 DEF StageProposals, loopVars, Closed
    <3> QED
      BY <1>4, <3>2, <3>3, <3>4
  <2>2. ASSUME NEW r \in Rule
        PROVE  Lived(mem'.row[r], life'[r], r, flat) /\ Timed(mem'.row[r], life'[r], r, mem'.last, Closed')
    <3>1. CASE /\ life'[r] = life[r]
               /\ mem'.row[r].patch = mem.row[r].patch /\ mem'.row[r].stable = mem.row[r].stable
               /\ mem'.row[r].age <= IF Play THEN mem.row[r].age + 1 ELSE mem.row[r].age
      <4>1. Lived(mem.row[r], life[r], r, flat) /\ Timed(mem.row[r], life[r], r, mem.last, Closed)
        BY <1>2
      <4>2. Lived(mem'.row[r], life'[r], r, flat)
        BY <3>1, <4>1 DEF Lived
      <4>3. Timed(mem'.row[r], life'[r], r, mem'.last, Closed')
        <5>1. /\ mem'.row[r].age \in Nat /\ mem.row[r].age \in Nat /\ r[1] \in Nat
              /\ mem.last \in Nat
          BY <1>2, <1>3, RuleParts
        <5>2. CASE Play
          BY <2>1, <3>1, <4>1, <5>1, <5>2 DEF Timed
        <5>3. CASE ~Play
          BY <2>1, <3>1, <4>1, <5>1, <5>3 DEF Timed
        <5> QED
          BY <5>2, <5>3
      <4> QED
        BY <4>2, <4>3
    <3>2. CASE /\ StageProposals /\ r[1] = at
               /\ mem.row[r].patch = "absent" /\ mem'.row[r] = [NoRow EXCEPT !.patch = "pending"]
               /\ life'[r] = [life[r] EXCEPT !.staged = at]
      <4>1. Lived(mem.row[r], life[r], r, flat) /\ Timed(mem.row[r], life[r], r, mem.last, Closed)
        BY <1>2
      <4>2. mem'.row[r].patch = "pending" /\ mem'.row[r].stable = FALSE /\ mem'.row[r].age = 0
        BY <3>2 DEF NoRow
      <4>3. /\ life'[r] \in Life /\ life'[r].staged = at
            /\ life'[r].promoted = life[r].promoted /\ life'[r].rolled_back = life[r].rolled_back
        BY <1>2, <3>2 DEF Life
      <4>4. Lived(mem'.row[r], life'[r], r, flat)
        BY <3>2, <4>1, <4>2, <4>3 DEF Lived
      <4>5. Timed(mem'.row[r], life'[r], r, mem'.last, Closed')
        BY <1>2, <2>1, <3>2, <4>1, <4>2, <4>3 DEF Timed
      <4> QED
        BY <4>4, <4>5
    <3> QED
      BY <1>1, <1>4, <3>1, <3>2, QuietRows
  <2>3. life' \in [Rule -> Life]
    BY <1>1, <1>4, QuietRows
  <2> QED
    BY <1>1, <2>1, <2>2, <2>3 DEF LifeInv
<1>5. CASE Judge
  <2>1. /\ step' = "judge" /\ step = "judge" /\ at' = at /\ Closed' = Closed
        /\ mem'.last = mem.last /\ mem.last = at /\ life' \in [Rule -> Life]
    BY <1>1, <1>2, <1>5, JudgeIs, JudgedRows DEF Closed
  <2>2. ASSUME NEW r \in Rule
        PROVE  Lived(mem'.row[r], life'[r], r, flat) /\ Timed(mem'.row[r], life'[r], r, mem'.last, Closed')
    <3>1. /\ Lived(mem'.row[r], life'[r], r, flat)
          /\ life'[r].promoted = life[r].promoted
          /\ mem'.row[r].patch \in Live => mem.row[r].patch \in Live
          /\ mem'.row[r].patch # "absent" => mem.row[r].patch # "absent"
          /\ mem'.row[r].age <= mem.row[r].age
      BY <1>1, <1>5, JudgedRows
    <3>2. Timed(mem.row[r], life[r], r, mem.last, Closed)
      BY <1>2
    <3>3. mem'.row[r].age \in Nat /\ mem.row[r].age \in Nat /\ r[1] \in Nat
      BY <1>2, <1>3, RuleParts
    <3> QED
      BY <1>2, <2>1, <3>1, <3>2, <3>3 DEF Timed
  <2> QED
    BY <1>1, <2>1, <2>2 DEF LifeInv
<1>6. CASE EndRound
  <2>1. step = "judge" /\ mem'.last = mem.last /\ mem.last = at /\ life' \in [Rule -> Life]
    BY <1>1, <1>2, <1>6, EndedRows DEF EndRound
  <2>2. /\ mem'.last = IF step' = "play" THEN at' - 1 ELSE at'
        /\ step' = "end" => at' = MaxRound
        /\ Closed' = at
    BY <1>2, <1>6, <2>1 DEF EndRound, NextRound, Closed
  <2>3. ASSUME NEW r \in Rule
        PROVE  Lived(mem'.row[r], life'[r], r, flat) /\ Timed(mem'.row[r], life'[r], r, mem'.last, Closed')
    <3>1. /\ Lived(mem'.row[r], life'[r], r, flat)
          /\ mem'.row[r].patch = mem.row[r].patch /\ mem'.row[r].age = mem.row[r].age
          /\ life'[r].promoted <= at
      BY <1>1, <1>6, EndedRows
    <3>2. Timed(mem.row[r], life[r], r, mem.last, Closed)
      BY <1>2
    <3> QED
      BY <2>1, <2>2, <3>1, <3>2 DEF Timed
  <2> QED
    BY <1>1, <2>1, <2>2, <2>3 DEF LifeInv
<1> QED
  BY <1>1, <1>4, <1>5, <1>6

LEMMA TriedInvStep ==
  ASSUME LoopTypeOK, LifeInv, TriedInv, [LoopNext]_loopVars
  PROVE  TriedInv'
<1> SUFFICES ASSUME Underway', NoneCut', ~FreshRun
             PROVE  /\ \A r \in Rule : Offered(mem'.row[r], life'[r], r, Closed', tried')
                    /\ step' = "judge" => \A r \in Pending(mem') \cup Volatile(mem') :
                         r \in todo' \/ <<r, at'>> \in tried'
  <2>1. FreshRun => \A r \in Rule : /\ Offered(mem'.row[r], life'[r], r, Closed', tried')
                                    /\ r \notin Pending(mem') \cup Volatile(mem')
    BY FreshLife DEF Offered, Live, Pending, Volatile, Validated
  <2>2. Pending(mem') \cup Volatile(mem') \subseteq Rule
    BY DEF Pending, Volatile, Validated
  <2> QED
    BY <2>1, <2>2 DEF TriedInv
<1>1. /\ Underway /\ driver' = driver /\ DrivesRunner
      /\ Play \/ StageProposals \/ Select \/ Judge \/ EndRound \/ UNCHANGED loopVars
  BY UnderwaySteps
<1>2. /\ \A r \in Rule : Lived(mem.row[r], life[r], r, driver = "flat")
      /\ \A r \in Rule : Timed(mem.row[r], life[r], r, mem.last, Closed)
      /\ \A r \in Rule : mem.row[r] \in Row /\ life[r] \in Life
      /\ at \in Nat /\ at > 0
  BY <1>1, LoopRows DEF LifeInv
<1>3. \A r \in Rule : /\ r \in Pending(mem) \cup Volatile(mem) <=> mem.row[r].patch \in Live /\ ~mem.row[r].stable
                      /\ r \in Pending(mem') \cup Volatile(mem') =>
                           mem'.row[r].patch \in Live
                           /\ (mem'.row[r].patch = "pending" \/ ~mem'.row[r].stable)
  <2>1. \A r \in Rule : mem.row[r].patch = "pending" => ~mem.row[r].stable
    BY <1>2 DEF Lived
  <2> QED
    BY <2>1 DEF Pending, Volatile, Validated, Live
<1>4. Pending(mem') \cup Volatile(mem') \subseteq Rule /\ Pending(mem) \cup Volatile(mem) \subseteq Rule
  BY DEF Pending, Volatile, Validated
<1>5. CASE Play \/ StageProposals \/ Select \/ UNCHANGED loopVars
  <2>1. /\ UNCHANGED <<driver, at, tried>> /\ Closed' = Closed
        /\ \A i \in report : i \in report'
    <3>1. \A i \in report : i \in report'
      BY <1>5 DEF Play, StageProposals, Select, loopVars
    <3>2. at' = at /\ driver' = driver /\ tried' = tried
      BY <1>1, <1>5, QuietRows
    <3>3. Closed' = Closed
      BY <1>5, <3>2 DEF Play, StageProposals, Select, loopVars, Closed
    <3> QED
      BY <3>1, <3>2, <3>3
  <2>2. \A r \in Rule : Offered(mem.row[r], life[r], r, Closed, tried)
    BY <1>1, <2>1 DEF TriedInv, NoneCut
  <2>3. ASSUME NEW r \in Rule
        PROVE  Offered(mem'.row[r], life'[r], r, Closed', tried')
    <3>1. CASE life'[r] = life[r] /\ mem'.row[r].patch = mem.row[r].patch
      BY <2>1, <2>2, <3>1 DEF Offered
    <3>2. CASE StageProposals /\ r[1] = at
      <4>1. Closed' = at - 1
        BY <2>1, <3>2 DEF StageProposals, Closed
      <4>2. r[1]..Closed' = {}
        BY <1>2, <3>2, <4>1
      <4> QED
        BY <4>2 DEF Offered
    <3> QED
      BY <1>1, <1>5, <3>1, <3>2, QuietRows
  <2>4. ASSUME step' = "judge", NEW r \in Pending(mem') \cup Volatile(mem')
        PROVE  r \in todo' \/ <<r, at'>> \in tried'
    <3>1. CASE Select
      <4>1. ~PassedOver
        <5>1. PassedOver => <<"candidate_budget_exceeded", at>> \in report'
          BY <1>1, <3>1 DEF Select
        <5>2. <<"candidate_budget_exceeded", at>>[1] = "candidate_budget_exceeded"
          OBVIOUS
        <5> QED
          BY <5>1, <5>2 DEF NoneCut
      <4>2. FirstOf(Volatile(mem), MaxCandidates, IdBefore) = Volatile(mem)
        BY <1>1, <1>4, <4>1, FirstOfAll DEF PassedOver
      <4>3. todo' = Pending(mem) \cup Volatile(mem) /\ mem' = mem
        BY <1>1, <3>1, <4>2 DEF Select, RunnerCandidates
      <4> QED
        BY <2>4, <4>3
    <3>2. CASE UNCHANGED loopVars
      BY <1>1, <2>1, <2>4, <3>2 DEF TriedInv, NoneCut, loopVars
    <3> QED
      BY <1>5, <2>4, <3>1, <3>2 DEF Play, StageProposals
  <2> QED
    BY <2>3, <2>4
<1>6. CASE Judge
  <2>1. /\ step' = step /\ step = "judge" /\ at' = at /\ Closed' = Closed
        /\ todo' = todo \ {NextCandidate} /\ tried' = tried \cup {<<NextCandidate, at>>}
        /\ NoneCut
    BY <1>6, JudgeIs DEF Closed, NoneCut
  <2>2. /\ \A r \in Rule : Offered(mem.row[r], life[r], r, Closed, tried)
        /\ \A r \in Pending(mem) \cup Volatile(mem) : r \in todo \/ <<r, at>> \in tried
    BY <1>1, <2>1 DEF TriedInv
  <2>3. \A r \in Rule :
          /\ life'[r].promoted = life[r].promoted
          /\ mem'.row[r].patch \in Live => mem.row[r].patch \in Live
          /\ mem'.row[r].stable = mem.row[r].stable
          /\ Lived(mem'.row[r], life'[r], r, driver = "flat")
    BY <1>1, <1>6, JudgedRows
  <2>4. \A r \in Rule : Offered(mem'.row[r], life'[r], r, Closed', tried')
    BY <2>1, <2>2, <2>3 DEF Offered
  <2>5. \A r \in Pending(mem') \cup Volatile(mem') : r \in Pending(mem) \cup Volatile(mem)
    <3>1. \A r \in Rule : mem'.row[r].patch = "pending" => ~mem'.row[r].stable
      BY <2>3 DEF Lived
    <3> QED
      BY <1>3, <1>4, <2>3, <3>1
  <2> QED
    BY <2>1, <2>2, <2>4, <2>5
<1>7. CASE EndRound
  <2>1. /\ step = "judge" /\ todo = {} /\ tried' = tried /\ Closed = at - 1
        /\ \A i \in report : i \in report'
    BY <1>7 DEF EndRound, NextRound, Closed
  <2>2. Closed' = at /\ step' # "judge"
    BY <1>2, <1>7 DEF EndRound, NextRound, Closed
  <2>3. /\ \A r \in Rule : Offered(mem.row[r], life[r], r, Closed, tried)
        /\ \A r \in Pending(mem) \cup Volatile(mem) : <<r, at>> \in tried
    BY <1>1, <2>1 DEF TriedInv, NoneCut
  <2>4. ASSUME NEW r \in Rule, mem'.row[r].patch \in Live, NEW k \in r[1]..Closed',
               life'[r].promoted > 0 => k <= life'[r].promoted
        PROVE  <<r, k>> \in tried'
    <3>1. /\ mem'.row[r].patch = mem.row[r].patch
          /\ \/ life'[r].promoted = life[r].promoted
             \/ life[r].promoted = 0 /\ life'[r].promoted = at
      BY <1>1, <1>7, EndedRows
    <3>2. /\ life[r].promoted \in Nat /\ life[r].promoted <= at - 1
          /\ r[1] \in Nat /\ k \in Nat /\ k <= at /\ r[1] <= k
          /\ life[r].promoted > 0 <=> mem.row[r].stable
      BY <1>2, <2>1, <2>2, <2>4, RuleParts DEF Timed, Lived, Life
    <3>3. CASE k <= at - 1
      <4>1. k \in r[1]..Closed /\ (life[r].promoted > 0 => k <= life[r].promoted)
        BY <1>2, <2>1, <2>4, <3>1, <3>2, <3>3
      <4> QED
        BY <2>1, <2>3, <2>4, <3>1, <4>1 DEF Offered
    <3>4. CASE k = at
      <4>1. life[r].promoted = 0
        BY <1>2, <2>4, <3>1, <3>2, <3>4
      <4>2. r \in Pending(mem) \cup Volatile(mem)
        BY <1>3, <2>4, <3>1, <3>2, <4>1
      <4> QED
        BY <2>1, <2>3, <3>4, <4>2
    <3> QED
      BY <1>2, <3>2, <3>3, <3>4
  <2> QED
    BY <2>2, <2>4 DEF Offered
<1> QED
  BY <1>1, <1>5, <1>6, <1>7

(* What a finished run of the runner, or of an arm of the sweep, reports   *)
(* of its rules is what happened to them: who was staged, promoted and     *)
(* rolled back, that nobody was promoted before its age, and, if it        *)
(* reports no defect, that every rule that could take evidence was put up  *)
(* for it in every round (ExperimentRunner._run_round).                    *)
THEOREM ReportsAreTrue == LoopSpec => []ReportTrue
<1>1. LoopInit => LoopTypeOK /\ LifeInv /\ TriedInv
  <2> SUFFICES ASSUME LoopInit  PROVE LifeInv /\ TriedInv
    BY LoopTypedInit
  <2>1. /\ mem.last = 0 /\ at = 1 /\ step = "play" /\ Closed = 0
        /\ \A r \in Rule : mem.row[r] = NoRow /\ life[r] = NoLife
        /\ life \in [Rule -> Life]
    BY DEF LoopInit, EmptyMemory, Closed, Life, NoLife
  <2>2. ASSUME NEW r \in Rule, NEW flat
        PROVE  /\ Lived(NoRow, NoLife, r, flat) /\ Timed(NoRow, NoLife, r, 0, 0)
               /\ Offered(NoRow, NoLife, r, 0, tried)
    BY DEF Lived, Timed, Offered, Life, NoLife, NoRow, Live
  <2>3. LifeInv
    BY <2>1, <2>2 DEF LifeInv
  <2>4. TriedInv
    BY <2>1, <2>2 DEF TriedInv
  <2> QED
    BY <2>3, <2>4
<1>2. LoopTypeOK /\ LifeInv /\ TriedInv /\ [LoopNext]_loopVars => (LoopTypeOK /\ LifeInv /\ TriedInv)'
  BY LoopTyped, LifeInvStep, TriedInvStep
<1>3. LoopTypeOK /\ LifeInv /\ TriedInv => ReportTrue
  <2> SUFFICES ASSUME LoopTypeOK, LifeInv, TriedInv, DrivesRunner, step = "end"
               PROVE  ReportTrue
    BY DEF ReportTrue
  <2>1. Underway /\ Closed = MaxRound
    BY DEF Underway, Closed, LifeInv
  <2>2. ASSUME NEW r \in Rule
        PROVE  /\ Lived(mem.row[r], life[r], r, driver = "flat")
               /\ mem.row[r].patch \in PatchStatus /\ life[r] \in Life
               /\ r[1] \in Nat /\ r[1] > 0
    BY <2>1, LoopRows, RuleParts DEF LifeInv, Row
  <2>3. ASSUME NEW r \in Rule
        PROVE  /\ life[r].staged > 0 <=> mem.row[r].patch # "absent"
               /\ life[r].promoted > 0 <=> mem.row[r].stable
               /\ life[r].rolled_back > 0 <=> mem.row[r].patch = "rolled_back"
               /\ life[r].promoted > 0 =>
                    life[r].promoted >= life[r].staged + IF driver = "flat" THEN 0 ELSE PromotionAge
    BY <2>2, GuidelineAssumption DEF Lived, Life
  <2>4. ASSUME Analysable, NEW r \in Rule, NEW k \in life[r].staged..MaxRound,
               life[r].staged > 0, life[r].rolled_back = 0,
               life[r].promoted > 0 => k <= life[r].promoted
        PROVE  <<r, k>> \in tried
    <3>1. NoneCut
      BY <2>4 DEF Analysable, NoneCut, Warnings
    <3>2. life[r].staged = r[1] /\ mem.row[r].patch \in Live
      BY <2>2, <2>3, <2>4 DEF Lived, Live, PatchStatus
    <3> QED
      BY <2>1, <2>4, <3>1, <3>2 DEF TriedInv, Offered
  <2> QED
    BY <2>3, <2>4 DEF ReportTrue
<1> QED
  BY <1>1, <1>2, <1>3, PTL DEF LoopSpec
=============================================================================
