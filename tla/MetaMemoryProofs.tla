-------------------------- MODULE MetaMemoryProofs --------------------------
(***************************************************************************)
(* Safety of MetaMemory for every rule set, proposal set, configuration    *)
(* and bound: types and ages, whatever callers do; then the patch table    *)
(* and the edits of stable rules; then what a promoted rule can show for   *)
(* itself; last, the gate of StableGate. Theorems that need a discipline   *)
(* of the callers assume it by name: Resubmit = FALSE (a patch id is       *)
(* looked up before it is submitted, as the adapters and study drivers     *)
(* do), SerializeEdits = TRUE, and FreshResults (no rule id is the result  *)
(* of two patches).                                                        *)
(***************************************************************************)
EXTENDS MetaMemoryInduction, StableGate, FiniteSetTheorems, WellFoundedInduction, TLAPS

LEMMA RowsTyped ==
  /\ FreshRule \in RuleRow
  /\ NoRule \in RuleRow
  /\ NoSnapshot \in [RuleId -> RuleRow]
  /\ NoPatchRow \in PatchRow
<1>1. FreshRule \in RuleRow
  BY DEF FreshRule, RuleRow
<1>2. NoRule \in RuleRow
  BY DEF FreshRule, RuleRow, NoRule
<1>3. NoSnapshot \in [RuleId -> RuleRow]
  BY <1>2 DEF NoSnapshot
<1>4. NoPatchRow \in PatchRow
  BY <1>3 DEF NoPatchRow, PatchRow, Operations
<1> QED
  BY <1>1, <1>2, <1>3, <1>4

LEMMA UnstagedTyped ==
  ASSUME NEW q \in Proposal, NEW s \in {"pending", "deferred", "rejected"}
  PROVE  Unstaged(q, s) \in PatchRow
BY RowsTyped DEF Unstaged, PatchRow, Proposal, NoPatchRow

LEMMA CountersTyped ==
  ASSUME NEW row \in RuleRow, NEW a \in Nat, NEW b \in Nat, NEW c \in SUBSET Rounds,
         NEW d \in SUBSET SubsetId, NEW f \in BOOLEAN
  PROVE  [row EXCEPT !.successes = a, !.failures = b, !.wonIn = c,
                     !.subsets = d, !.recovered = f] \in RuleRow
BY DEF RuleRow

LEMMA CountedTyped ==
  ASSUME NEW row \in RuleRow, NEW e \in ValidationEvidence
  PROVE  /\ Counted(row, e) \in RuleRow
         /\ [Counted(row, e) EXCEPT !.status = "validated"] \in RuleRow
<1> DEFINE a == IF e.success THEN row.successes + 1 ELSE row.successes
           b == IF e.success THEN row.failures ELSE row.failures + 1
           c == IF e.success THEN row.wonIn \cup {e.round} ELSE row.wonIn
           d == row.subsets \cup {e.subset}
           f == row.recovered \/ e.recovered
<1>1. a \in Nat /\ b \in Nat
  BY DEF RuleRow
<1>2. c \in SUBSET Rounds /\ d \in SUBSET SubsetId
  BY DEF RuleRow, ValidationEvidence
<1>3. f \in BOOLEAN
  OBVIOUS
<1>4. Counted(row, e) = [row EXCEPT !.successes = a, !.failures = b, !.wonIn = c,
                                    !.subsets = d, !.recovered = f]
  BY Zenon DEF Counted
<1> HIDE DEF a, b, c, d, f
<1>5. Counted(row, e) \in RuleRow
  <2>1. [row EXCEPT !.successes = a, !.failures = b, !.wonIn = c,
                    !.subsets = d, !.recovered = f] \in RuleRow
    BY <1>1, <1>2, <1>3, CountersTyped, Zenon
  <2> QED
    BY <2>1, <1>4, Zenon
<1>6. ASSUME NEW r \in RuleRow  PROVE [r EXCEPT !.status = "validated"] \in RuleRow
  BY DEF RuleRow
<1> QED
  BY <1>5, <1>6

\* Counting evidence touches the counters and nothing else.
LEMMA CountedKeeps ==
  ASSUME NEW row \in RuleRow, NEW e \in ValidationEvidence
  PROVE  /\ Counted(row, e).age = row.age
         /\ Counted(row, e).created = row.created
         /\ Counted(row, e).tier = row.tier
         /\ Counted(row, e).status = row.status
         /\ Counted(row, e).source = row.source
         /\ Counted(row, e).replaces = row.replaces
         /\ Counted(row, e).needs = row.needs
         /\ Counted(row, e).history = row.history
BY DEF Counted, RuleRow

LEMMA EvidenceTyped ==
  ASSUME NEW p \in PatchId, NEW subset \in SubsetId, NEW round \in Rounds,
         NEW o \in Observations
  PROVE  Evidence(p, subset, round, o) \in ValidationEvidence
BY MetaMemoryAssumption DEF Evidence, ValidationEvidence

LEMMA ObservedTyped ==
  ASSUME NEW S, NEW h \in SUBSET S, NEW marker \in S, NEW success \in BOOLEAN
  PROVE  Observed(h, marker, success) \in SUBSET S
BY DEF Observed, Latest

LEMMA RoundsTyped ==
  /\ Rounds \subseteq Nat
  /\ CallerRounds \subseteq Rounds
  /\ TypeOK => \A round \in CallerRounds : round <= lastRound + 1 /\ round >= lastRound
BY MetaMemoryAssumption DEF Rounds, CallerRounds, TypeOK

LEMMA StagedRuleTyped ==
  ASSUME TypeOK, NEW q \in Proposal, NEW round \in Rounds
  PROVE  /\ StagedRule(q, round) \in RuleRow
         /\ StagedRule(q, round).age = 0
         /\ StagedRule(q, round).created = round
BY RowsTyped, RoundsTyped DEF StagedRule, RuleRow, Proposal, StableTargets, FreshRule

-----------------------------------------------------------------------------
LEMMA InitTypes == Init => TypeOK
<1> SUFFICES ASSUME Init  PROVE TypeOK
  OBVIOUS
<1>1. rules \in [RuleId -> RuleRow]
  <2>1. [FreshRule EXCEPT !.tier = "stable"] \in RuleRow
    BY RowsTyped DEF RuleRow
  <2> QED
    BY <2>1, RowsTyped DEF Init
<1> QED
  BY <1>1, RowsTyped, MetaMemoryAssumption DEF Init, TypeOK, Outcomes

\* filter_and_resolve only writes rows that are not staged.
LEMMA FilterRows ==
  ASSUME TypeOK, NEW batch \in Batches, FilterAndResolve(batch), NEW p \in PatchId
  PROVE  \/ patches'[p] = patches[p]
         \/ \E q \in batch \ accepted', s \in {"deferred", "rejected"} :
               q.id = p /\ patches'[p] = Unstaged(q, s)
<1>0. PICK survivors \in SUBSET {q \in batch : Acceptable(q)} :
        \E won \in Winners(survivors) :
          /\ accepted' = won
          /\ patches' =
               [x \in PatchId |->
                  IF \E q \in batch \ won : q.id = x
                  THEN LET q == CHOOSE q \in batch \ won : q.id = x
                       IN  Unstaged(q, IF q \in survivors THEN "deferred" ELSE "rejected")
                  ELSE patches[x]]
  BY DEF FilterAndResolve, Influential
<1>1. PICK won \in Winners(survivors) :
        /\ accepted' = won
        /\ patches' =
             [x \in PatchId |->
                IF \E q \in batch \ won : q.id = x
                THEN LET q == CHOOSE q \in batch \ won : q.id = x
                     IN  Unstaged(q, IF q \in survivors THEN "deferred" ELSE "rejected")
                ELSE patches[x]]
  BY <1>0
<1>2. CASE \E q \in batch \ won : q.id = p
  <2> DEFINE q == CHOOSE q \in batch \ won : q.id = p
  <2>1. q \in batch \ won /\ q.id = p
    BY <1>2
  <2>2. patches'[p] = Unstaged(q, IF q \in survivors THEN "deferred" ELSE "rejected")
    BY <1>1, <1>2
  <2> HIDE DEF q
  <2> QED
    BY <1>1, <2>1, <2>2
<1>3. CASE ~\E q \in batch \ won : q.id = p
  BY <1>1, <1>3
<1> QED
  BY <1>2, <1>3

LEMMA FilterTypes ==
  ASSUME TypeOK, NEW batch \in Batches, FilterAndResolve(batch)
  PROVE  TypeOK'
<1>1. batch \subseteq Proposals /\ Proposals \subseteq Proposal
  BY MetaMemoryAssumption DEF Batches
<1>2. accepted' \in SUBSET Proposals
  BY <1>1 DEF FilterAndResolve, Influential, Winners
<1>3. ASSUME NEW p \in PatchId  PROVE patches'[p] \in PatchRow
  BY <1>1, FilterRows, UnstagedTyped DEF TypeOK
<1>4. patches' = [p \in PatchId |-> patches'[p]]
  BY DEF FilterAndResolve
<1> QED
  BY <1>2, <1>3, <1>4 DEF FilterAndResolve, TypeOK

LEMMA StageTypes ==
  ASSUME TypeOK, NEW q \in accepted, NEW round \in CallerRounds, StagePatch(q, round)
  PROVE  TypeOK'
<1>1. q \in Proposal /\ round \in Rounds /\ round \in Nat
  BY MetaMemoryAssumption, RoundsTyped DEF TypeOK
<1>2. rules' \in [RuleId -> RuleRow]
  BY <1>1, StagedRuleTyped, RowsTyped DEF StagePatch, TypeOK
<1>3. [r \in RuleId |-> IF r \in q.targets THEN rules[r] ELSE NoRule] \in [RuleId -> RuleRow]
  BY RowsTyped DEF TypeOK
<1>4. StagedIds(q) \in SUBSET RuleId
  BY <1>1 DEF StagedIds, Claims, Proposal
<1>5. patches' \in [PatchId -> PatchRow]
  <2> DEFINE row == [Unstaged(q, "pending") EXCEPT
                       !.created = round,
                       !.staged = StagedIds(q),
                       !.snapshot = [r \in RuleId |-> IF r \in q.targets THEN rules[r] ELSE NoRule]]
  <2>1. row \in PatchRow
    BY <1>1, <1>3, <1>4, UnstagedTyped DEF PatchRow
  <2>2. patches' = [patches EXCEPT ![q.id] = row]
    BY DEF StagePatch
  <2> HIDE DEF row
  <2> QED
    BY <2>1, <2>2 DEF TypeOK
<1> QED
  BY <1>2, <1>5 DEF StagePatch, TypeOK

LEMMA ValidateTypes ==
  ASSUME TypeOK, NEW e \in ValidationEvidence,
         AuditInapplicable(e) \/ Calibrate(e) \/ ValidateSuccess(e) \/ ValidateFailure(e)
  PROVE  TypeOK'
<1>0. e.patch \in PatchId /\ e.round \in Nat
  BY RoundsTyped DEF ValidationEvidence
<1>1. ASSUME AddEvidence(e)  PROVE evidence' \in SUBSET ValidationEvidence
  BY <1>1 DEF AddEvidence, TypeOK
<1>2. ASSUME NEW r \in RuleId
      PROVE  /\ Counted(rules[r], e) \in RuleRow
             /\ [Counted(rules[r], e) EXCEPT !.status = "validated"] \in RuleRow
             /\ rules[r] \in RuleRow
  BY CountedTyped DEF TypeOK
<1>3. ASSUME NEW verdict \in {"validated", "rolled_back"}, Resolve(e, verdict)
      PROVE  patches' \in [PatchId -> PatchRow]
  <2>1. [patches[e.patch] EXCEPT !.status = verdict, !.resolved = e.round] \in PatchRow
    BY <1>0 DEF TypeOK, PatchRow
  <2>2. patches' = [patches EXCEPT ![e.patch] =
                      [patches[e.patch] EXCEPT !.status = verdict, !.resolved = e.round]]
    BY <1>0, <1>3 DEF Resolve, TypeOK
  <2> QED
    BY <2>1, <2>2 DEF TypeOK
<1>4. ASSUME NEW outcome \in Outcomes, AddPrecedent(e.patch, outcome)
      PROVE  precedents' \in [PatchId -> Outcomes]
  BY <1>4 DEF AddPrecedent, TypeOK
<1>5. CASE AuditInapplicable(e)
  BY <1>1, <1>5 DEF AuditInapplicable, TypeOK
<1>6. CASE Calibrate(e)
  <2>1. rules' \in [RuleId -> RuleRow]
    BY <1>2, <1>6 DEF Calibrate
  <2> QED
    BY <1>1, <1>6, <2>1 DEF Calibrate, TypeOK
<1>7. CASE ValidateSuccess(e)
  <2>1. rules' \in [RuleId -> RuleRow]
    BY <1>2, <1>7, RowsTyped DEF ValidateSuccess
  <2>2. patches' \in [PatchId -> PatchRow]
    BY <1>3, <1>7 DEF ValidateSuccess
  <2>3. precedents' \in [PatchId -> Outcomes]
    BY <1>4, <1>7 DEF ValidateSuccess, Outcomes
  <2> QED
    BY <1>1, <1>7, <2>1, <2>2, <2>3 DEF ValidateSuccess, TypeOK
<1>8. CASE ValidateFailure(e)
  <2>1. patches[e.patch].snapshot \in [RuleId -> RuleRow]
    BY <1>0 DEF TypeOK, PatchRow
  <2>2. rules' \in [RuleId -> RuleRow]
    BY <1>2, <1>8, <2>1 DEF ValidateFailure
  <2>3. patches' \in [PatchId -> PatchRow]
    BY <1>3, <1>8 DEF ValidateFailure
  <2>4. precedents' \in [PatchId -> Outcomes]
    BY <1>4, <1>8 DEF ValidateFailure, Outcomes
  <2> QED
    BY <1>1, <1>8, <2>2, <2>3, <2>4 DEF ValidateFailure, TypeOK
<1> QED
  BY <1>5, <1>6, <1>7, <1>8

LEMMA ObserveTypes ==
  ASSUME TypeOK, NEW r \in RuleId, NEW round \in CallerRounds, NEW subset \in SubsetId,
         NEW success \in BOOLEAN,
         RecordRuleObservation(r, [round |-> round, subset |-> subset], success)
  PROVE  TypeOK'
<1> DEFINE marker == [round |-> round, subset |-> subset]
<1>1. marker \in [round : Rounds, subset : SubsetId]
  BY RoundsTyped
<1>2. rules[r] \in RuleRow /\ rules[r].history \in SUBSET [round : Rounds, subset : SubsetId]
  BY DEF TypeOK, RuleRow
<1>3. Observed(rules[r].history, marker, success) \in SUBSET [round : Rounds, subset : SubsetId]
  BY <1>1, <1>2, ObservedTyped
<1> HIDE DEF marker
<1>4. [rules[r] EXCEPT !.history = Observed(rules[r].history, marker, success)] \in RuleRow
  BY <1>2, <1>3 DEF RuleRow
<1>5. rules' = [rules EXCEPT ![r] =
                  [rules[r] EXCEPT !.history = Observed(rules[r].history, marker, success)]]
  BY DEF RecordRuleObservation, marker
<1> QED
  BY <1>4, <1>5 DEF RecordRuleObservation, TypeOK

LEMMA AdvanceTypes ==
  ASSUME TypeOK, NEW round \in Rounds, AdvanceRound(round)
  PROVE  TypeOK'
<1>1. lastRound' \in 0..MaxRound
  BY MetaMemoryAssumption DEF AdvanceRound, Rounds
<1>2. ASSUME NEW r \in RuleId
      PROVE  [rules[r] EXCEPT !.age = rules[r].age + (round - lastRound)] \in RuleRow
  <2>1. rules[r] \in RuleRow /\ rules[r].age \in Nat
    BY DEF TypeOK, RuleRow
  <2>2. rules[r].age + (round - lastRound) \in Nat
    BY <2>1, MetaMemoryAssumption DEF AdvanceRound, Rounds, TypeOK
  <2> QED
    BY <2>1, <2>2 DEF RuleRow
<1>3. rules' \in [RuleId -> RuleRow]
  BY <1>2 DEF AdvanceRound, TypeOK
<1> QED
  BY <1>1, <1>3 DEF AdvanceRound, TypeOK

LEMMA PromoteTypes ==
  ASSUME TypeOK, PromoteEligible
  PROVE  TypeOK'
<1>1. ASSUME NEW r \in RuleId
      PROVE  [rules[r] EXCEPT !.tier = "stable"] \in RuleRow
  BY DEF TypeOK, RuleRow
<1>2. rules' \in [RuleId -> RuleRow]
  BY <1>1, RowsTyped DEF PromoteEligible, TypeOK
<1> QED
  BY <1>2 DEF PromoteEligible, TypeOK

(* The tables hold rows of the engine's types whatever the callers do.     *)
THEOREM TypeCorrect == Spec => []TypeOK
<1>1. TypeOK /\ [Next]_vars => TypeOK'
  <2> SUFFICES ASSUME TypeOK, [Next]_vars  PROVE TypeOK'
    OBVIOUS
  <2>1. ASSUME NEW batch \in Batches, FilterAndResolve(batch)  PROVE TypeOK'
    BY <2>1, FilterTypes
  <2>2. CASE Stage
    <3>1. ASSUME NEW q \in accepted, NEW round \in CallerRounds, StagePatch(q, round)
          PROVE  TypeOK'
      BY <3>1, StageTypes
    <3>2. ASSUME NEW q \in accepted, StageKnownPatch(q)  PROVE TypeOK'
      BY <3>2 DEF StageKnownPatch, TypeOK
    <3> QED
      BY <2>2, <3>1, <3>2 DEF Stage
  <2>3. CASE Abandon
    BY <2>3 DEF Abandon, TypeOK
  <2>4. CASE ValidatePatch
    BY <2>4, EvidenceTyped, RoundsTyped, ValidateTypes DEF ValidatePatch
  <2>5. CASE Observe
    BY <2>5, ObserveTypes DEF Observe
  <2>6. ASSUME NEW round \in Rounds, AdvanceRound(round)  PROVE TypeOK'
    BY <2>6, AdvanceTypes
  <2>7. CASE PromoteEligible
    BY <2>7, PromoteTypes
  <2>8. CASE UNCHANGED vars
    BY <2>8 DEF TypeOK, vars
  <2> QED
    BY <2>1, <2>2, <2>3, <2>4, <2>5, <2>6, <2>7, <2>8 DEF Next
<1> QED
  BY <1>1, InitTypes, PTL DEF Spec

-----------------------------------------------------------------------------
\* Facts of the row constants that SMT does not compute by itself.
LEMMA NoRuleYoung ==
  TypeOK => Young(NoRule)
BY MetaMemoryAssumption DEF TypeOK, Young, NoRule, FreshRule

LEMMA UnstagedSnapshot ==
  ASSUME NEW q \in Proposal, NEW s
  PROVE  Unstaged(q, s).snapshot = NoSnapshot
BY DEF Unstaged, NoPatchRow

LEMMA FilterSnapshots ==
  ASSUME TypeOK, NEW batch \in Batches, FilterAndResolve(batch), NEW p \in PatchId
  PROVE  patches'[p] = patches[p] \/ patches'[p].snapshot = NoSnapshot
BY FilterRows, UnstagedSnapshot, MetaMemoryAssumption DEF Batches

(* No rule ages faster than the rounds pass, through resumed rounds, jumps *)
(* of the round counter, rollbacks and re-staging (advance_round).         *)
THEOREM AgesBounded == Spec => []AgeBounded
<1>1. Init => AgeInv
  <2> SUFFICES ASSUME Init  PROVE AgeInv
    OBVIOUS
  <2>1. \A r \in RuleId : Young(rules[r])
    BY DEF Init, Young, NoRule, FreshRule
  <2>2. \A q \in PatchId : patches[q].snapshot = NoSnapshot
    BY DEF Init, NoPatchRow
  <2>3. Young(NoRule)
    BY DEF Init, Young, NoRule, FreshRule
  <2> QED
    BY <2>1, <2>2, <2>3 DEF AgeInv, NoSnapshot
<1>2. TypeOK /\ AgeInv /\ [Next]_vars => AgeInv'
  <2> SUFFICES ASSUME TypeOK, AgeInv, [Next]_vars  PROVE AgeInv'
    OBVIOUS
  <2>0. /\ lastRound \in Nat
        /\ \A r \in RuleId : rules[r] \in RuleRow /\ rules[r].age \in Nat /\ rules[r].created \in Nat
    <3>1. lastRound \in Nat
      BY MetaMemoryAssumption DEF TypeOK
    <3>2. \A r \in RuleId : rules[r] \in RuleRow
      BY DEF TypeOK
    <3> QED
      BY <3>1, <3>2 DEF RuleRow
  <2>1. ASSUME NEW batch \in Batches, FilterAndResolve(batch)  PROVE AgeInv'
    <3>1. UNCHANGED <<rules, lastRound>>
      BY <2>1 DEF FilterAndResolve
    <3>2. ASSUME NEW p \in PatchId
          PROVE  \/ patches'[p] = patches[p]
                 \/ patches'[p].snapshot = NoSnapshot
      BY <2>1, FilterSnapshots
    <3> QED
      BY <3>1, <3>2, NoRuleYoung DEF AgeInv, Young, NoSnapshot
  <2>2. ASSUME NEW q \in accepted, NEW round \in CallerRounds, StagePatch(q, round)
        PROVE  AgeInv'
    <3>1. q \in Proposal /\ round \in Rounds /\ round \in Nat /\ round <= lastRound + 1
      BY MetaMemoryAssumption, RoundsTyped DEF TypeOK
    <3>2. Young(StagedRule(q, round))
      BY <3>1, StagedRuleTyped, <2>0 DEF Young
    <3>3. \A r \in RuleId : Young(rules'[r])
      BY <2>2, <3>2, NoRuleYoung DEF StagePatch, AgeInv
    <3>4. ASSUME NEW p \in PatchId, NEW r \in RuleId  PROVE Young(patches'[p].snapshot[r])
      BY <2>2, NoRuleYoung DEF StagePatch, AgeInv, TypeOK, PatchRow, Unstaged
    <3> QED
      BY <3>3, <3>4, <2>2 DEF AgeInv, Young, StagePatch
  <2>3. CASE \E q \in accepted : StageKnownPatch(q)
    BY <2>3 DEF StageKnownPatch, AgeInv, Young
  <2>4. CASE Abandon
    BY <2>4 DEF Abandon, AgeInv, Young
  <2>5. ASSUME NEW e \in ValidationEvidence,
               AuditInapplicable(e) \/ Calibrate(e) \/ ValidateSuccess(e) \/ ValidateFailure(e)
        PROVE  AgeInv'
    <3>0. e.patch \in PatchId
      BY DEF ValidationEvidence
    <3>1. \A r \in RuleId : Young(Counted(rules[r], e))
                             /\ Young([Counted(rules[r], e) EXCEPT !.status = "validated"])
      <4> SUFFICES ASSUME NEW r \in RuleId
                   PROVE  Young(Counted(rules[r], e))
                          /\ Young([Counted(rules[r], e) EXCEPT !.status = "validated"])
        OBVIOUS
      <4>1. Counted(rules[r], e) \in RuleRow
        BY <2>0, CountedTyped
      <4>2. Counted(rules[r], e).age = rules[r].age /\ Counted(rules[r], e).created = rules[r].created
        BY <2>0, CountedKeeps
      <4> QED
        BY <4>1, <4>2 DEF Young, AgeInv, RuleRow
    <3>2. lastRound' = lastRound
      BY <2>5 DEF AuditInapplicable, Calibrate, ValidateSuccess, ValidateFailure
    <3>3. \A r \in RuleId : Young(rules'[r])
      BY <2>5, <3>0, <3>1, NoRuleYoung
         DEF AuditInapplicable, Calibrate, ValidateSuccess, ValidateFailure, AgeInv
    <3>4. \A p \in PatchId : patches'[p].snapshot = patches[p].snapshot
      BY <2>5
         DEF AuditInapplicable, Calibrate, ValidateSuccess, ValidateFailure, Resolve, TypeOK, PatchRow
    <3> QED
      BY <3>2, <3>3, <3>4 DEF AgeInv, Young
  <2>6. CASE Observe
    <3>1. PICK r \in RuleId, round \in CallerRounds, subset \in SubsetId, success \in BOOLEAN :
            RecordRuleObservation(r, [round |-> round, subset |-> subset], success)
      BY <2>6 DEF Observe
    <3>2. \A x \in RuleId : rules'[x].age = rules[x].age /\ rules'[x].created = rules[x].created
      BY <3>1, <2>0 DEF RecordRuleObservation, RuleRow, TypeOK
    <3> QED
      BY <3>1, <3>2 DEF AgeInv, Young, RecordRuleObservation
  <2>7. ASSUME NEW round \in Rounds, AdvanceRound(round)  PROVE AgeInv'
    <3>1. round \in Nat /\ lastRound' = round /\ round > lastRound
      BY <2>7, RoundsTyped DEF AdvanceRound
    <3>2. ASSUME NEW r \in RuleId
          PROVE  /\ rules'[r].created = rules[r].created
                 /\ \/ rules'[r].age = rules[r].age
                    \/ rules'[r].age = rules[r].age + (round - lastRound)
      BY <2>0, <2>7 DEF AdvanceRound, RuleRow
    <3>3. \A r \in RuleId : rules'[r].age + rules'[r].created <= round + 1
      BY <2>0, <3>1, <3>2 DEF AgeInv, Young
    <3>4. \A p \in PatchId, r \in RuleId :
            /\ patches[p].snapshot[r].age \in Nat
            /\ patches[p].snapshot[r].created \in Nat
      BY DEF TypeOK, PatchRow, RuleRow
    <3>5. patches' = patches
      BY <2>7 DEF AdvanceRound
    <3> QED
      BY <2>0, <3>1, <3>3, <3>4, <3>5 DEF AgeInv, Young
  <2>8. CASE PromoteEligible
    <3>1. ASSUME NEW r \in RuleId
          PROVE  rules'[r] = NoRule \/ (rules'[r].age = rules[r].age /\ rules'[r].created = rules[r].created)
      BY <2>0, <2>8 DEF PromoteEligible, RuleRow
    <3> QED
      BY <2>8, <3>1, NoRuleYoung DEF AgeInv, Young, PromoteEligible
  <2>9. CASE UNCHANGED vars
    BY <2>9 DEF AgeInv, Young, vars
  <2> QED
    BY <2>1, <2>2, <2>3, <2>4, <2>5, <2>6, <2>7, <2>8, <2>9, EvidenceTyped, RoundsTyped
       DEF Next, Stage, ValidatePatch
<1>3. AgeInv => AgeBounded
  BY DEF AgeInv, AgeBounded, Young
<1> QED
  BY <1>1, <1>2, <1>3, TypeCorrect, PTL DEF Spec

-----------------------------------------------------------------------------
(* Steps of the patch table *)

\* What the callers submit is new when they look patch ids up.
LEMMA SubmittedFresh ==
  ASSUME TypeOK, Resubmit = FALSE, NEW batch \in Batches, FilterAndResolve(batch)
  PROVE  \A q \in batch : q \in Proposal /\ patches[q.id].status = "absent"
BY MetaMemoryAssumption DEF FilterAndResolve, Submittable, Batches

LEMMA FilteredRow ==
  ASSUME TypeOK, Resubmit = FALSE, NEW batch \in Batches, FilterAndResolve(batch),
         NEW p \in PatchId
  PROVE  \/ patches'[p] = patches[p]
         \/ /\ patches[p].status = "absent"
            /\ patches'[p].status \in {"deferred", "rejected"}
            /\ \E q \in Proposals : q.id = p /\ patches'[p].results = q.results
            /\ p \notin {q.id : q \in accepted'}
<1>1. CASE patches'[p] = patches[p]
  BY <1>1
<1>2. ASSUME NEW q \in batch \ accepted', NEW s \in {"deferred", "rejected"},
             q.id = p, patches'[p] = Unstaged(q, s)
      PROVE  /\ patches[p].status = "absent"
             /\ patches'[p].status \in {"deferred", "rejected"}
             /\ \E x \in Proposals : x.id = p /\ patches'[p].results = x.results
             /\ p \notin {x.id : x \in accepted'}
  <2>1. q \in Proposals /\ patches[p].status = "absent"
    BY <1>2, SubmittedFresh DEF Batches
  <2>2. patches'[p].status = s /\ patches'[p].results = q.results
    BY <1>2 DEF Unstaged, NoPatchRow
  <2>3. accepted' \subseteq batch
    BY DEF FilterAndResolve, Influential, Winners
  <2>4. p \notin {x.id : x \in accepted'}
    BY <1>2, <2>3 DEF Batches
  <2> QED
    BY <1>2, <2>1, <2>2, <2>4
<1> QED
  BY <1>1, <1>2, FilterRows

\* The row of a patch changes only when the patch is filtered or staged for
\* the first time or when it is resolved.
LEMMA ResolvedRow ==
  ASSUME TypeOK, NEW e \in ValidationEvidence, NEW verdict, Resolve(e, verdict)
  PROVE  /\ \A p \in PatchId \ {e.patch} : patches'[p] = patches[p]
         /\ patches'[e.patch].status = verdict
         /\ patches'[e.patch].op = patches[e.patch].op
         /\ patches'[e.patch].targets = patches[e.patch].targets
         /\ patches'[e.patch].results = patches[e.patch].results
         /\ patches'[e.patch].staged = patches[e.patch].staged
         /\ patches'[e.patch].snapshot = patches[e.patch].snapshot
<1>1. e.patch \in PatchId /\ patches[e.patch] \in PatchRow
  BY DEF ValidationEvidence, TypeOK
<1>2. patches' = [patches EXCEPT ![e.patch] =
                    [patches[e.patch] EXCEPT !.status = verdict, !.resolved = e.round]]
  BY <1>1 DEF Resolve, TypeOK
<1> QED
  BY <1>1, <1>2 DEF TypeOK, PatchRow

LEMMA StagedRow ==
  ASSUME TypeOK, NEW q \in accepted, NEW round, StagePatch(q, round)
  PROVE  /\ q \in Proposal
         /\ patches[q.id].status = "absent"
         /\ \A p \in PatchId \ {q.id} : patches'[p] = patches[p]
         /\ patches'[q.id].status = "pending"
         /\ patches'[q.id].op = q.op
         /\ patches'[q.id].targets = q.targets
         /\ patches'[q.id].results = q.results
         /\ patches'[q.id].staged = StagedIds(q)
         /\ patches'[q.id].snapshot =
              [r \in RuleId |-> IF r \in q.targets THEN rules[r] ELSE NoRule]
<1>1. q \in Proposal /\ q.id \in PatchId
  BY MetaMemoryAssumption DEF TypeOK, Proposal
<1> QED
  BY <1>1 DEF StagePatch, TypeOK, Unstaged, NoPatchRow

\* The steps of the engine and its callers.
LEMMA StepCases ==
  ASSUME TypeOK, [Next]_vars
  PROVE  \/ \E batch \in Batches : FilterAndResolve(batch)
         \/ \E q \in accepted, round \in CallerRounds : StagePatch(q, round)
         \/ \E q \in accepted : StageKnownPatch(q)
         \/ Abandon
         \/ \E e \in ValidationEvidence : AuditInapplicable(e)
         \/ \E e \in ValidationEvidence : Calibrate(e)
         \/ \E e \in ValidationEvidence : ValidateSuccess(e)
         \/ \E e \in ValidationEvidence : ValidateFailure(e)
         \/ Observe
         \/ \E round \in Rounds : AdvanceRound(round)
         \/ PromoteEligible
         \/ UNCHANGED vars
<1>1. ASSUME ValidatePatch
      PROVE  \E e \in ValidationEvidence :
               AuditInapplicable(e) \/ Calibrate(e) \/ ValidateSuccess(e) \/ ValidateFailure(e)
  BY <1>1, EvidenceTyped, RoundsTyped DEF ValidatePatch
<1> QED
  BY <1>1 DEF Next, Stage

\* Steps that leave the patch table and the precedents alone.
LEMMA QuietSteps ==
  /\ \A q : StageKnownPatch(q) => UNCHANGED <<patches, precedents>>
  /\ Abandon => UNCHANGED <<patches, precedents>>
  /\ \A e : AuditInapplicable(e) \/ Calibrate(e) => UNCHANGED <<patches, precedents>>
  /\ Observe => UNCHANGED <<patches, precedents>>
  /\ \A round : AdvanceRound(round) => UNCHANGED <<patches, precedents>>
  /\ PromoteEligible => UNCHANGED <<patches, precedents>>
  /\ UNCHANGED vars => UNCHANGED <<patches, precedents>>
BY DEF StageKnownPatch, Abandon, AuditInapplicable, Calibrate, Observe, RecordRuleObservation,
       AdvanceRound, PromoteEligible, vars

\* A row changes only before staging and by the verdict on a pending patch.
LEMMA FinalRows ==
  ASSUME TypeOK, [Next]_vars, Resubmit = FALSE, NEW p \in PatchId
  PROVE  /\ patches[p].status = "pending" =>
              patches'[p].status \in {"pending", "validated", "rolled_back"}
         /\ patches[p].status \in {"validated", "rolled_back"} => patches'[p] = patches[p]
<1>1. ASSUME NEW batch \in Batches, FilterAndResolve(batch)
      PROVE  patches'[p] = patches[p] \/ patches[p].status = "absent"
  BY <1>1, FilteredRow
<1>2. ASSUME NEW q \in accepted, NEW round \in CallerRounds, StagePatch(q, round)
      PROVE  patches'[p] = patches[p] \/ patches[p].status = "absent"
  BY <1>2, StagedRow
<1>3. ASSUME NEW e \in ValidationEvidence, ValidateSuccess(e) \/ ValidateFailure(e)
      PROVE  \/ patches'[p] = patches[p]
             \/ /\ patches[p].status = "pending"
                /\ patches'[p].status \in {"validated", "rolled_back"}
  <2>1. PICK verdict \in {"validated", "rolled_back"} : Resolve(e, verdict)
    BY <1>3 DEF ValidateSuccess, ValidateFailure
  <2>2. patches[e.patch].status = "pending"
    BY <1>3 DEF ValidateSuccess, ValidateFailure
  <2> QED
    BY <2>1, <2>2, ResolvedRow
<1> QED
  BY <1>1, <1>2, <1>3, StepCases, QuietSteps

(* A pending patch leaves that state only by a verdict, and a verdict is   *)
(* final, for callers that look patch ids up (validate_patch, stage_patch).*)
THEOREM ResolvedOnce ==
  ASSUME Resubmit = FALSE
  PROVE  Spec => ResolveOnce
<1>1. TypeOK /\ [Next]_vars =>
        \A p \in PatchId :
          /\ patches[p].status = "pending" =>
               patches'[p].status \in {"pending", "validated", "rolled_back"}
          /\ patches[p].status \in {"validated", "rolled_back"} => patches'[p] = patches[p]
  BY FinalRows
<1> QED
  BY <1>1, TypeCorrect, PTL DEF Spec, ResolveOnce

(* The precedent log holds one outcome for each resolved patch, the one it *)
(* was resolved with, and none for any other (add_precedent).              *)
THEOREM PrecedentsMatch ==
  ASSUME Resubmit = FALSE
  PROVE  Spec => []PrecedentMatchesPatch
<1>1. Init => PrecedentMatchesPatch
  BY DEF Init, PrecedentMatchesPatch, NoPatchRow
<1>2. TypeOK /\ PrecedentMatchesPatch /\ [Next]_vars => PrecedentMatchesPatch'
  <2> SUFFICES ASSUME TypeOK, PrecedentMatchesPatch, [Next]_vars
               PROVE  PrecedentMatchesPatch'
    OBVIOUS
  <2>1. ASSUME NEW batch \in Batches, FilterAndResolve(batch)
        PROVE  PrecedentMatchesPatch'
    <3>1. ASSUME NEW p \in PatchId
          PROVE  \/ patches'[p] = patches[p]
                 \/ /\ patches[p].status = "absent"
                    /\ patches'[p].status \in {"deferred", "rejected"}
      BY <2>1, FilteredRow
    <3> QED
      BY <2>1, <3>1 DEF PrecedentMatchesPatch, FilterAndResolve
  <2>2. ASSUME NEW q \in accepted, NEW round \in CallerRounds, StagePatch(q, round)
        PROVE  PrecedentMatchesPatch'
    BY <2>2, StagedRow DEF PrecedentMatchesPatch, StagePatch
  <2>3. ASSUME NEW e \in ValidationEvidence, ValidateSuccess(e)
        PROVE  PrecedentMatchesPatch'
    BY <2>3, ResolvedRow
       DEF ValidateSuccess, PrecedentMatchesPatch, AddPrecedent, TypeOK, ValidationEvidence
  <2>4. ASSUME NEW e \in ValidationEvidence, ValidateFailure(e)
        PROVE  PrecedentMatchesPatch'
    BY <2>4, ResolvedRow
       DEF ValidateFailure, PrecedentMatchesPatch, AddPrecedent, TypeOK, ValidationEvidence
  <2>5. CASE UNCHANGED <<patches, precedents>>
    BY <2>5 DEF PrecedentMatchesPatch
  <2> QED
    BY <2>1, <2>2, <2>3, <2>4, <2>5, StepCases, QuietSteps
<1> QED
  BY <1>1, <1>2, TypeCorrect, PTL DEF Spec

-----------------------------------------------------------------------------
(* The edits of disciplined callers *)

\* Once a patch has a row, what it edits and what it may restore is fixed.
LEMMA RowsKept ==
  ASSUME TypeOK, [Next]_vars, Resubmit = FALSE, NEW p \in PatchId,
         patches[p].status # "absent"
  PROVE  /\ patches'[p].status # "absent"
         /\ patches'[p].op = patches[p].op
         /\ patches'[p].targets = patches[p].targets
         /\ patches'[p].results = patches[p].results
         /\ patches'[p].staged = patches[p].staged
         /\ patches'[p].snapshot = patches[p].snapshot
<1>1. ASSUME NEW batch \in Batches, FilterAndResolve(batch)  PROVE patches'[p] = patches[p]
  BY <1>1, FilteredRow
<1>2. ASSUME NEW q \in accepted, NEW round \in CallerRounds, StagePatch(q, round)
      PROVE  patches'[p] = patches[p]
  BY <1>2, StagedRow
<1>3. ASSUME NEW e \in ValidationEvidence, NEW verdict \in {"validated", "rolled_back"},
             Resolve(e, verdict)
      PROVE  /\ patches'[p].status # "absent"
             /\ patches'[p].op = patches[p].op
             /\ patches'[p].targets = patches[p].targets
             /\ patches'[p].results = patches[p].results
             /\ patches'[p].staged = patches[p].staged
             /\ patches'[p].snapshot = patches[p].snapshot
  BY <1>3, ResolvedRow
<1>4. ASSUME NEW e \in ValidationEvidence, ValidateSuccess(e) \/ ValidateFailure(e)
      PROVE  \E verdict \in {"validated", "rolled_back"} : Resolve(e, verdict)
  BY <1>4 DEF ValidateSuccess, ValidateFailure
<1> QED
  BY <1>1, <1>2, <1>3, <1>4, StepCases, QuietSteps

\* A version of a rule stays owned while its patch has a row.
LEMMA OwnedKept ==
  ASSUME TypeOK, [Next]_vars, Resubmit = FALSE, NEW r \in RuleId, NEW row \in RuleRow,
         Owned(r, row),
         row.tier # "absent" /\ row.source # NoPatch => patches[row.source].status # "absent"
  PROVE  Owned(r, row)'
<1> SUFFICES ASSUME row.tier # "absent", row.source # NoPatch
             PROVE  /\ r \in patches'[row.source].results
                    /\ row.replaces # {} => patches'[row.source].op = "MERGE"
                    /\ \A t \in row.replaces : StagedAgainst(row.source, t)'
  BY DEF Owned
<1>1. row.source \in PatchId
  BY DEF RuleRow
<1> QED
  BY <1>1, RowsKept DEF Owned, StagedAgainst

\* What a patch that stays pending may restore stays settled.
LEMMA SnapshotKept ==
  ASSUME TypeOK, EditInv, [Next]_vars, Resubmit = FALSE,
         NEW p \in PendingPatches, NEW r \in RuleId
  PROVE  Settled(r, patches[p].snapshot[r])'
<1>1. PICK row \in RuleRow : row = patches[p].snapshot[r]
  BY DEF TypeOK, PatchRow, PendingPatches
<1>2. patches'[p].snapshot[r] = row
  BY <1>1, RowsKept DEF PendingPatches
<1>3. Settled(r, row)
  BY <1>1 DEF EditInv, SnapshotsSettled
<1>4. Settled(r, row)'
  <2> SUFFICES ASSUME row.tier # "absent"
               PROVE  /\ Owned(r, row)'
                      /\ row.source # NoPatch => patches'[row.source].status = "validated"
    BY <1>3 DEF Settled
  <2>1. Owned(r, row)'
    BY <1>3, OwnedKept DEF Settled
  <2>2. row.source # NoPatch => patches'[row.source].status = "validated"
    BY <1>3, FinalRows DEF Settled, RuleRow
  <2> QED
    BY <2>1, <2>2
<1> QED
  BY <1>2, <1>4 DEF Settled, Owned

\* Steps that write no patch row and only counters of rules keep EditInv.
LEMMA CounterSteps ==
  ASSUME TypeOK, EditInv, patches' = patches, accepted' \subseteq accepted,
         \A r \in RuleId : /\ rules'[r].tier = rules[r].tier
                           /\ rules'[r].status = rules[r].status
                           /\ rules'[r].source = rules[r].source
                           /\ rules'[r].replaces = rules[r].replaces
  PROVE  EditInv'
<1>1. PendingPatches' = PendingPatches
  BY DEF PendingPatches
<1>2. AcceptedFresh' /\ ConflictFree'
  BY <1>1 DEF EditInv, AcceptedFresh, ConflictFree
<1>3. StagedKind'
  BY DEF EditInv, StagedKind, Staged, AgainstStable, AgainstVolatile, StagedAgainst
<1>4. RulesOwned'
  BY DEF EditInv, RulesOwned, Owned, StagedAgainst
<1>5. RuleTracksPatch'
  BY DEF EditInv, RuleTracksPatch, Live
<1>6. SnapshotsSettled'
  <2>1. ASSUME NEW r, NEW row, Settled(r, row)  PROVE Settled(r, row)'
    BY <2>1 DEF Settled, Owned, StagedAgainst
  <2>2. ASSUME NEW p \in PendingPatches, NEW r \in RuleId
        PROVE  Settled(r, patches[p].snapshot[r])
    BY DEF EditInv, SnapshotsSettled
  <2> QED
    BY <1>1, <2>1, <2>2 DEF SnapshotsSettled
<1>7. PendingHolds'
  <2>1. \A p \in PendingPatches : patches[p].results \subseteq RuleId /\ patches[p].staged \subseteq RuleId
    BY DEF TypeOK, PatchRow, PendingPatches
  <2> QED
    BY <1>1, <2>1 DEF EditInv, PendingHolds
<1> QED
  BY <1>2, <1>3, <1>4, <1>5, <1>6, <1>7 DEF EditInv

\* The engine's steps that only count, age or observe.
LEMMA CountingKeepsEdits ==
  ASSUME TypeOK, EditInv,
         \/ \E q \in accepted : StageKnownPatch(q)
         \/ Abandon
         \/ \E e \in ValidationEvidence : AuditInapplicable(e)
         \/ \E e \in ValidationEvidence : Calibrate(e)
         \/ Observe
         \/ \E round \in Rounds : AdvanceRound(round)
         \/ UNCHANGED vars
  PROVE  EditInv'
<1>0. \A r \in RuleId : rules[r] \in RuleRow
  BY DEF TypeOK
<1>1. CASE \E q \in accepted : StageKnownPatch(q)
  BY <1>1, CounterSteps DEF StageKnownPatch
<1>2. CASE Abandon
  BY <1>2, CounterSteps DEF Abandon
<1>3. CASE \E e \in ValidationEvidence : AuditInapplicable(e)
  BY <1>3, CounterSteps DEF AuditInapplicable
<1>4. ASSUME NEW e \in ValidationEvidence, Calibrate(e)  PROVE EditInv'
  <2>1. \A r \in RuleId : /\ rules'[r].tier = rules[r].tier
                          /\ rules'[r].status = rules[r].status
                          /\ rules'[r].source = rules[r].source
                          /\ rules'[r].replaces = rules[r].replaces
    BY <1>0, <1>4, CountedKeeps DEF Calibrate
  <2> QED
    BY <1>4, <2>1, CounterSteps DEF Calibrate
<1>5. CASE Observe
  <2>1. \A r \in RuleId : /\ rules'[r].tier = rules[r].tier
                          /\ rules'[r].status = rules[r].status
                          /\ rules'[r].source = rules[r].source
                          /\ rules'[r].replaces = rules[r].replaces
    BY <1>0, <1>5 DEF Observe, RecordRuleObservation, TypeOK, RuleRow
  <2> QED
    BY <1>5, <2>1, CounterSteps DEF Observe, RecordRuleObservation
<1>6. ASSUME NEW round \in Rounds, AdvanceRound(round)  PROVE EditInv'
  <2>1. \A r \in RuleId : /\ rules'[r].tier = rules[r].tier
                          /\ rules'[r].status = rules[r].status
                          /\ rules'[r].source = rules[r].source
                          /\ rules'[r].replaces = rules[r].replaces
    BY <1>0, <1>6 DEF AdvanceRound, RuleRow
  <2> QED
    BY <1>6, <2>1, CounterSteps DEF AdvanceRound
<1>7. CASE UNCHANGED vars
  BY <1>7, CounterSteps DEF vars
<1> QED
  BY <1>1, <1>2, <1>3, <1>4, <1>5, <1>6, <1>7

\* Filtering writes rows of new patches and hands over disjoint winners.
LEMMA FilterKeepsEdits ==
  ASSUME TypeOK, EditInv, Resubmit = FALSE, SerializeEdits = TRUE,
         NEW batch \in Batches, FilterAndResolve(batch)
  PROVE  EditInv'
<1>0. [Next]_vars
  BY DEF Next
<1>1. \A q \in batch : /\ q \in Proposal
                       /\ patches[q.id].status = "absent"
                       /\ \A p \in PendingPatches : Claims(q) \cap Claims(patches[p]) = {}
  BY SubmittedFresh DEF FilterAndResolve, Submittable, PendingPatches
<1>2. /\ accepted' \subseteq batch
      /\ \A q1, q2 \in accepted' : q1 # q2 => Claims(q1) \cap Claims(q2) = {}
  BY DEF FilterAndResolve, Influential, Winners
<1>3. \A p \in PatchId :
        \/ patches'[p] = patches[p]
        \/ /\ patches[p].status = "absent"
           /\ patches'[p].status \in {"deferred", "rejected"}
           /\ p \notin {q.id : q \in accepted'}
  BY FilteredRow
<1>4. rules' = rules
  BY DEF FilterAndResolve
<1>5. /\ PendingPatches' = PendingPatches
      /\ \A p \in PendingPatches : patches'[p] = patches[p]
  BY <1>3 DEF PendingPatches
<1>6. AcceptedFresh'
  <2>1. \A q \in accepted' : patches'[q.id].status = "absent"
    BY <1>1, <1>2, <1>3 DEF Proposal
  <2>2. \A q1, q2 \in accepted' : q1 # q2 => q1.id # q2.id
    BY <1>2 DEF Batches
  <2> QED
    BY <1>2, <2>1, <2>2 DEF AcceptedFresh, Claims
<1>7. ConflictFree'
  BY <1>1, <1>2, <1>5 DEF EditInv, ConflictFree, Claims
<1>8. StagedKind'
  <2> SUFFICES ASSUME NEW p \in PatchId, Staged(p)'
               PROVE  patches'[p] = patches[p]
    BY <1>4 DEF EditInv, StagedKind, Staged, AgainstStable, AgainstVolatile, StagedAgainst, Claims
  <2> QED
    BY <1>3 DEF Staged
<1>9. \A r \in RuleId : /\ rules[r] \in RuleRow
                        /\ Live(r) /\ rules[r].source # NoPatch =>
                             /\ patches[rules[r].source].status \in {"pending", "validated"}
                             /\ patches'[rules[r].source] = patches[rules[r].source]
  BY <1>3 DEF EditInv, RuleTracksPatch, TypeOK, RuleRow
<1>10. RulesOwned'
  BY <1>0, <1>4, <1>9, OwnedKept DEF EditInv, RulesOwned, Live
<1>11. RuleTracksPatch'
  BY <1>4, <1>9 DEF EditInv, RuleTracksPatch, Live
<1>12. SnapshotsSettled'
  BY <1>0, <1>5, SnapshotKept DEF SnapshotsSettled
<1>13. PendingHolds'
  BY <1>4, <1>5 DEF EditInv, PendingHolds
<1> QED
  BY <1>6, <1>7, <1>8, <1>10, <1>11, <1>12, <1>13 DEF EditInv

\* A stored rule that is counted or validated stays owned.
LEMMA StoredKept ==
  ASSUME TypeOK, EditInv, [Next]_vars, Resubmit = FALSE, NEW r \in RuleId,
         rules[r].tier # "absent" /\ rules'[r].tier # "absent",
         rules'[r].source = rules[r].source,
         rules'[r].replaces = rules[r].replaces,
         rules'[r].status = rules[r].status \/ rules'[r].status = "validated"
  PROVE  Owned(r, rules[r])'
<1>1. PICK row \in RuleRow : row = rules[r]
  BY DEF TypeOK
<1>2. row.source # NoPatch => patches[row.source].status # "absent"
  BY <1>1 DEF EditInv, RuleTracksPatch, Live, RuleRow
<1>3. Owned(r, row)
  BY <1>1 DEF EditInv, RulesOwned
<1>4. Owned(r, row)'
  BY <1>2, <1>3, OwnedKept
<1> QED
  BY <1>1, <1>4 DEF Owned, StagedAgainst

\* What a pending patch holds is among its claims, and no other pending
\* patch claims it.
LEMMA HeldApart ==
  ASSUME TypeOK, EditInv, NEW p1 \in PendingPatches, NEW p2 \in PendingPatches, p1 # p2,
         NEW r \in patches[p1].results \cup patches[p1].staged
  PROVE  /\ r \in RuleId
         /\ r \notin Claims(patches[p2])
         /\ r \notin patches[p2].results
         /\ r \notin patches[p2].targets
         /\ r \notin patches[p2].staged
<1>1. \A p \in PendingPatches :
        /\ patches[p].results \cup patches[p].staged \subseteq Claims(patches[p])
        /\ Claims(patches[p]) \subseteq RuleId
  BY DEF EditInv, StagedKind, Staged, AgainstStable, AgainstVolatile, PendingPatches, Claims,
         TypeOK, PatchRow
<1>2. r \in Claims(patches[p1]) /\ r \notin Claims(patches[p2])
  BY <1>1 DEF EditInv, ConflictFree
<1> QED
  BY <1>1, <1>2 DEF Claims

\* Staging writes the rules a patch claims, which nobody else holds.
LEMMA StageKeepsEdits ==
  ASSUME TypeOK, EditInv, Resubmit = FALSE,
         NEW q \in accepted, NEW round \in CallerRounds, StagePatch(q, round)
  PROVE  EditInv'
<1>0. [Next]_vars
  BY DEF Next, Stage
<1>1. /\ q \in Proposal
      /\ q.id \in PatchId
      /\ q.id # NoPatch
      /\ q.targets \subseteq RuleId
      /\ q.results \subseteq RuleId
      /\ accepted' = accepted \ {q}
  BY MetaMemoryAssumption, StagedRow DEF Proposal, StagePatch
<1>2. /\ patches[q.id].status = "absent"
      /\ \A p \in PatchId \ {q.id} : patches'[p] = patches[p]
      /\ patches'[q.id].status = "pending"
      /\ patches'[q.id].op = q.op
      /\ patches'[q.id].targets = q.targets
      /\ patches'[q.id].results = q.results
      /\ patches'[q.id].staged = StagedIds(q)
      /\ patches'[q.id].snapshot = [r \in RuleId |-> IF r \in q.targets THEN rules[r] ELSE NoRule]
  BY StagedRow
<1>3. PendingPatches' = PendingPatches \cup {q.id} /\ q.id \notin PendingPatches
  BY <1>1, <1>2 DEF PendingPatches
<1>4. \A p \in PendingPatches : Claims(q) \cap Claims(patches[p]) = {}
  BY <1>3 DEF EditInv, ConflictFree
<1>5. Acceptable(q) /\ WellFormed(q)
  BY DEF StagePatch
<1>6. ASSUME NEW r \in RuleId
      PROVE  /\ r \in q.results => rules'[r] = StagedRule(q, round)
             /\ r \notin q.results /\ r \in StagedIds(q) => rules'[r] = NoRule
             /\ r \notin q.results /\ r \notin StagedIds(q) => rules'[r] = rules[r]
  BY DEF StagePatch
<1>7. NoRule.tier = "absent" /\ StagedIds(q) \subseteq Claims(q) /\ q.results \subseteq StagedIds(q)
  BY DEF NoRule, FreshRule, StagedIds, Claims
<1>8. /\ StagedRule(q, round).tier = "volatile"
      /\ StagedRule(q, round).status = "pending"
      /\ StagedRule(q, round).source = q.id
      /\ StagedRule(q, round).replaces = StableTargets(q)
  BY DEF StagedRule, FreshRule
<1>9. \/ StableTargets(q) = {}
      \/ /\ q.op \in {"DELETE", "MERGE"}
         /\ \A r \in q.targets : rules[r].tier = "stable" /\ StableEditAllowed(rules[r].history)
         /\ q.results \cap q.targets = {}
         /\ StagedIds(q) = q.results
  BY <1>5 DEF Acceptable, StableTargets, Stable, WellFormed, StagedIds
<1>10. q.op = "DELETE" => q.results = {}
  BY <1>5 DEF WellFormed
<1>11. StableTargets(q) # {} => \A r \in q.targets : StagedAgainst(q.id, r)'
  BY <1>1, <1>2, <1>9 DEF StagedAgainst
<1>12. AcceptedFresh'
  BY <1>1, <1>2, MetaMemoryAssumption DEF EditInv, AcceptedFresh, TypeOK, Proposal, Claims
<1>13. ConflictFree'
  <2>1. ASSUME NEW p1 \in PendingPatches', NEW p2 \in PendingPatches', p1 # p2
        PROVE  Claims(patches'[p1]) \cap Claims(patches'[p2]) = {}
    BY <1>2, <1>3, <1>4, <2>1 DEF EditInv, ConflictFree, Claims, PendingPatches
  <2>2. ASSUME NEW x \in accepted', NEW p \in PendingPatches', p # x.id
        PROVE  Claims(x) \cap Claims(patches'[p]) = {}
    <3>1. CASE p = q.id
      BY <1>1, <1>2, <3>1 DEF EditInv, AcceptedFresh, Claims
    <3>2. CASE p # q.id
      BY <1>1, <1>2, <1>3, <2>2, <3>2 DEF EditInv, ConflictFree, PendingPatches
    <3> QED
      BY <3>1, <3>2
  <2> QED
    BY <2>1, <2>2 DEF ConflictFree, Claims
<1>14. StagedKind'
  <2>1. ASSUME NEW p \in PatchId \ {q.id}, Staged(p)'
        PROVE  /\ AgainstStable(p)' \/ AgainstVolatile(p)'
               /\ \A r \in RuleId \ patches'[p].targets : patches'[p].snapshot[r] = NoRule
               /\ patches'[p].op = "DELETE" => patches'[p].results = {}
    <3>1. patches'[p] = patches[p] /\ Staged(p)
      BY <1>2, <2>1 DEF Staged
    <3> QED
      BY <3>1 DEF EditInv, StagedKind, AgainstStable, AgainstVolatile, StagedAgainst, Claims
  <2>2. AgainstStable(q.id)' \/ AgainstVolatile(q.id)'
    <3>1. CASE StableTargets(q) = {}
      <4>1. \A r \in q.targets : rules[r].tier = "volatile"
        BY <1>1, <1>5, <3>1 DEF Acceptable, StableTargets, Stable, Live, TypeOK, RuleRow
      <4>2. AgainstVolatile(q.id)'
        BY <1>1, <1>2, <3>1, <4>1 DEF AgainstVolatile, StagedIds, Claims
      <4> QED
        BY <4>2
    <3>2. CASE StableTargets(q) # {}
      BY <1>2, <1>9, <1>11, <3>2 DEF AgainstStable
    <3> QED
      BY <3>1, <3>2
  <2>3. /\ \A r \in RuleId \ q.targets : patches'[q.id].snapshot[r] = NoRule
        /\ patches'[q.id].op = "DELETE" => patches'[q.id].results = {}
    BY <1>2, <1>10
  <2> QED
    BY <1>2, <2>1, <2>2, <2>3 DEF StagedKind
<1>15. ASSUME NEW r \in RuleId, rules[r].tier # "absent"
       PROVE  rules[r].source # q.id
  BY <1>2, <1>15, <1>1 DEF EditInv, RuleTracksPatch, Live, TypeOK, RuleRow
<1>16. RulesOwned'
  <2> SUFFICES ASSUME NEW r \in RuleId, rules'[r].tier # "absent"
               PROVE  Owned(r, rules[r])'
    BY DEF RulesOwned, Owned
  <2>1. CASE r \in q.results
    <3>1. rules'[r] = StagedRule(q, round)
      BY <1>6, <2>1
    <3>2. StableTargets(q) # {} => q.op = "MERGE"
      BY <1>9, <1>10, <2>1
    <3> QED
      BY <1>1, <1>2, <1>8, <1>11, <2>1, <3>1, <3>2 DEF Owned, StableTargets
  <2>2. CASE r \notin q.results
    <3>1. rules'[r] = rules[r] /\ rules[r].tier # "absent"
      BY <1>6, <1>7, <2>2
    <3> QED
      BY <1>0, <3>1, StoredKept
  <2> QED
    BY <2>1, <2>2
<1>17. RuleTracksPatch'
  <2> SUFFICES ASSUME NEW r \in RuleId, rules'[r].tier # "absent", rules'[r].source # NoPatch
               PROVE  patches'[rules'[r].source].status = rules'[r].status
    BY DEF RuleTracksPatch, Live
  <2>1. CASE r \in q.results
    BY <1>2, <1>6, <1>8, <2>1
  <2>2. CASE r \notin q.results
    <3>1. rules'[r] = rules[r] /\ rules[r].tier # "absent"
      BY <1>6, <1>7, <2>2
    <3> QED
      BY <1>2, <1>15, <3>1 DEF EditInv, RuleTracksPatch, Live, TypeOK, RuleRow
  <2> QED
    BY <2>1, <2>2
<1>18. SnapshotsSettled'
  <2>1. ASSUME NEW r \in RuleId  PROVE Settled(r, patches[q.id].snapshot[r])'
    <3>1. PICK row \in RuleRow : row = rules[r]
      BY DEF TypeOK
    <3>2. CASE row.tier = "absent" \/ r \notin q.targets
      BY <1>2, <1>7, <3>1, <3>2 DEF Settled
    <3>3. CASE row.tier # "absent" /\ r \in q.targets
      <4>1. row.source # NoPatch =>
              /\ row.source \in PatchId
              /\ row.source # q.id
              /\ patches[row.source].status = row.status
              /\ r \in patches[row.source].results
        BY <1>15, <3>1, <3>3
           DEF EditInv, RuleTracksPatch, RulesOwned, Owned, Live, RuleRow
      <4>2. row.source # NoPatch => row.status # "pending"
        BY <1>4, <3>3, <4>1 DEF PendingPatches, Claims
      <4>3. row.status = "validated"
        BY <3>1, <3>3, <4>2 DEF EditInv, RulesOwned, Owned, RuleRow
      <4>4. Owned(r, row)'
        BY <1>0, <3>1, <4>1, OwnedKept DEF EditInv, RulesOwned, RuleRow
      <4>5. patches'[q.id].snapshot[r] = row
        BY <1>2, <3>1, <3>3
      <4>6. row.source # NoPatch => patches'[row.source].status = "validated"
        BY <1>2, <4>1, <4>3
      <4> QED
        BY <4>3, <4>4, <4>5, <4>6 DEF Settled, Owned, StagedAgainst
    <3> QED
      BY <3>2, <3>3
  <2> QED
    BY <1>0, <1>3, <2>1, SnapshotKept DEF SnapshotsSettled
<1>19. PendingHolds'
  <2>1. ASSUME NEW p \in PendingPatches
        PROVE  /\ patches'[p] = patches[p]
               /\ \A r \in patches[p].results \cup patches[p].staged :
                    r \in RuleId /\ rules'[r] = rules[r]
    <3>1. patches'[p] = patches[p]
      BY <1>2, <1>3 DEF PendingPatches
    <3>2. /\ patches[p].results \cup patches[p].staged \subseteq Claims(patches[p])
          /\ Claims(patches[p]) \subseteq RuleId
      BY DEF EditInv, StagedKind, Staged, AgainstStable, AgainstVolatile, PendingPatches, Claims,
             TypeOK, PatchRow
    <3>3. \A r \in Claims(patches[p]) : r \notin Claims(q)
      BY <1>4
    <3> QED
      BY <1>6, <1>7, <3>1, <3>2, <3>3
  <2>2. /\ \A r \in patches'[q.id].results : /\ rules'[r].tier = "volatile"
                                             /\ rules'[r].status = "pending"
                                             /\ rules'[r].source = q.id
        /\ \A r \in patches'[q.id].staged \ patches'[q.id].results : rules'[r].tier = "absent"
    <3>1. StagedIds(q) \subseteq RuleId
      BY <1>1, <1>7 DEF Claims
    <3> QED
      BY <1>1, <1>2, <1>6, <1>7, <1>8, <3>1
  <2> QED
    BY <1>3, <2>1, <2>2 DEF EditInv, PendingHolds
<1> QED
  BY <1>12, <1>13, <1>14, <1>16, <1>17, <1>18, <1>19 DEF EditInv

\* A verdict ends one pending patch and leaves the others as they are.
LEMMA VerdictPatches ==
  ASSUME TypeOK, EditInv, NEW e \in ValidationEvidence, NEW verdict \in {"validated", "rolled_back"},
         patches[e.patch].status = "pending", Resolve(e, verdict), accepted' = accepted
  PROVE  /\ PendingPatches' = PendingPatches \ {e.patch}
         /\ \A p \in PatchId \ {e.patch} : patches'[p] = patches[p]
         /\ patches'[e.patch].status = verdict
         /\ AcceptedFresh'
         /\ ConflictFree'
         /\ StagedKind'
<1>1. e.patch \in PatchId
  BY DEF ValidationEvidence
<1>2. /\ \A p \in PatchId \ {e.patch} : patches'[p] = patches[p]
      /\ patches'[e.patch].status = verdict
      /\ patches'[e.patch].op = patches[e.patch].op
      /\ patches'[e.patch].targets = patches[e.patch].targets
      /\ patches'[e.patch].results = patches[e.patch].results
      /\ patches'[e.patch].staged = patches[e.patch].staged
      /\ patches'[e.patch].snapshot = patches[e.patch].snapshot
  BY ResolvedRow
<1>3. PendingPatches' = PendingPatches \ {e.patch}
  BY <1>1, <1>2 DEF PendingPatches
<1>4. AcceptedFresh'
  BY <1>2, MetaMemoryAssumption DEF EditInv, AcceptedFresh, Claims, TypeOK, Proposal
<1>5. ConflictFree'
  BY <1>2, <1>3 DEF EditInv, ConflictFree, Claims, PendingPatches
<1>6. ASSUME NEW p \in PatchId, Staged(p)'
      PROVE  /\ AgainstStable(p)' \/ AgainstVolatile(p)'
             /\ \A r \in RuleId \ patches'[p].targets : patches'[p].snapshot[r] = NoRule
             /\ patches'[p].op = "DELETE" => patches'[p].results = {}
  <2>1. /\ Staged(p)
        /\ patches'[p].op = patches[p].op
        /\ patches'[p].targets = patches[p].targets
        /\ patches'[p].results = patches[p].results
        /\ patches'[p].staged = patches[p].staged
        /\ patches'[p].snapshot = patches[p].snapshot
    BY <1>2, <1>6 DEF Staged
  <2> QED
    BY <2>1 DEF EditInv, StagedKind, AgainstStable, AgainstVolatile, StagedAgainst, Claims
<1> QED
  BY <1>2, <1>3, <1>4, <1>5, <1>6 DEF StagedKind

\* A success shows the results of its patch and no other pending rule.
LEMMA SuccessKeepsEdits ==
  ASSUME TypeOK, EditInv, [Next]_vars, Resubmit = FALSE,
         NEW e \in ValidationEvidence, ValidateSuccess(e)
  PROVE  EditInv'
<1>0. [Next]_vars
  OBVIOUS
<1>1. e.patch \in PendingPatches /\ patches[e.patch] \in PatchRow
  BY DEF ValidateSuccess, PendingPatches, ValidationEvidence, TypeOK
<1>2. /\ PendingPatches' = PendingPatches \ {e.patch}
      /\ \A p \in PatchId \ {e.patch} : patches'[p] = patches[p]
      /\ patches'[e.patch].status = "validated"
      /\ AcceptedFresh' /\ ConflictFree' /\ StagedKind'
  BY VerdictPatches DEF ValidateSuccess
<1>3. ASSUME NEW r \in RuleId
      PROVE  /\ rules[r] \in RuleRow
             /\ r \in Receivers(e) =>
                  /\ rules[r].tier # "absent"
                  /\ r \in patches[e.patch].results
                  /\ rules'[r].tier = rules[r].tier
                  /\ rules'[r].status = "validated"
                  /\ rules'[r].source = rules[r].source
                  /\ rules'[r].replaces = rules[r].replaces
             /\ r \notin Receivers(e) => rules'[r] = rules[r] \/ rules'[r].tier = "absent"
             /\ r \notin Receivers(e) /\ r \notin patches[e.patch].targets => rules'[r] = rules[r]
  <2>1. rules[r] \in RuleRow
    BY DEF TypeOK
  <2>2. NoRule.tier = "absent"
    BY DEF NoRule, FreshRule
  <2>3. CASE r \in Receivers(e)
    <3>1. rules'[r] = [Counted(rules[r], e) EXCEPT !.status = "validated"]
      BY <2>3 DEF ValidateSuccess
    <3>2. Counted(rules[r], e) \in RuleRow
      BY <2>1, CountedTyped
    <3> QED
      BY <2>1, <2>3, <3>1, <3>2, CountedKeeps DEF Receivers, Live, RuleRow
  <2>4. CASE r \notin Receivers(e)
    BY <2>1, <2>2, <2>4 DEF ValidateSuccess
  <2> QED
    BY <2>3, <2>4
<1>4. RulesOwned'
  <2> SUFFICES ASSUME NEW r \in RuleId, rules'[r].tier # "absent"
               PROVE  Owned(r, rules[r])'
    BY DEF RulesOwned, Owned
  <2> QED
    BY <1>0, <1>3, StoredKept
<1>5. RuleTracksPatch'
  <2> SUFFICES ASSUME NEW r \in RuleId, rules'[r].tier # "absent", rules'[r].source # NoPatch
               PROVE  patches'[rules'[r].source].status = rules'[r].status
    BY DEF RuleTracksPatch, Live
  <2>1. CASE r \in Receivers(e)
    BY <1>1, <1>2, <1>3, <2>1 DEF EditInv, PendingHolds
  <2>2. CASE r \notin Receivers(e)
    <3>1. rules'[r] = rules[r] /\ rules[r].source \in PatchId /\ rules[r].tier # "absent"
      BY <1>3, <2>2 DEF RuleRow
    <3>2. rules[r].source # e.patch
      BY <2>2, <3>1 DEF EditInv, RulesOwned, Owned, Receivers, Live
    <3> QED
      BY <1>2, <3>1, <3>2 DEF EditInv, RuleTracksPatch, Live
  <2> QED
    BY <2>1, <2>2
<1>6. SnapshotsSettled'
  BY <1>0, <1>2, SnapshotKept DEF SnapshotsSettled
<1>7. PendingHolds'
  <2>1. ASSUME NEW p \in PendingPatches', NEW r \in patches[p].results \cup patches[p].staged
        PROVE  r \in RuleId /\ rules'[r] = rules[r]
    BY <1>1, <1>2, <1>3, <2>1, HeldApart
  <2> QED
    BY <1>2, <2>1 DEF EditInv, PendingHolds, PendingPatches
<1> QED
  BY <1>2, <1>4, <1>5, <1>6, <1>7 DEF EditInv

\* A failure restores what its patch staged and no rule of another patch.
LEMMA FailureKeepsEdits ==
  ASSUME TypeOK, EditInv, [Next]_vars, Resubmit = FALSE,
         NEW e \in ValidationEvidence, ValidateFailure(e)
  PROVE  EditInv'
<1>0. [Next]_vars
  OBVIOUS
<1>1. e.patch \in PendingPatches /\ patches[e.patch] \in PatchRow
  BY DEF ValidateFailure, PendingPatches, ValidationEvidence, TypeOK
<1>2. /\ PendingPatches' = PendingPatches \ {e.patch}
      /\ \A p \in PatchId \ {e.patch} : patches'[p] = patches[p]
      /\ patches'[e.patch].status = "rolled_back"
      /\ AcceptedFresh' /\ ConflictFree' /\ StagedKind'
  BY VerdictPatches DEF ValidateFailure
<1>3. \A r \in RuleId :
        /\ r \in patches[e.patch].staged => rules'[r] = patches[e.patch].snapshot[r]
        /\ r \notin patches[e.patch].staged => rules'[r] = rules[r]
  BY DEF ValidateFailure
<1>4. ASSUME NEW r \in RuleId
      PROVE  Settled(r, patches[e.patch].snapshot[r])'
  BY <1>0, <1>1, SnapshotKept
<1>5. patches'[e.patch].snapshot = patches[e.patch].snapshot
  BY <1>0, <1>1, RowsKept DEF PendingPatches
<1>6. patches[e.patch].results \subseteq patches[e.patch].staged
  BY <1>1 DEF EditInv, StagedKind, Staged, AgainstStable, AgainstVolatile, PendingPatches, Claims
<1>7. RulesOwned'
  <2> SUFFICES ASSUME NEW r \in RuleId, rules'[r].tier # "absent"
               PROVE  Owned(r, rules[r])'
    BY DEF RulesOwned, Owned
  <2>1. CASE r \in patches[e.patch].staged
    <3>1. rules'[r] = patches'[e.patch].snapshot[r]
      BY <1>3, <1>5, <2>1
    <3> QED
      BY <1>4, <3>1 DEF Settled, Owned
  <2>2. CASE r \notin patches[e.patch].staged
    BY <1>0, <1>3, <2>2, StoredKept
  <2> QED
    BY <2>1, <2>2
<1>8. RuleTracksPatch'
  <2> SUFFICES ASSUME NEW r \in RuleId, rules'[r].tier # "absent", rules'[r].source # NoPatch
               PROVE  patches'[rules'[r].source].status = rules'[r].status
    BY DEF RuleTracksPatch, Live
  <2>1. CASE r \in patches[e.patch].staged
    BY <1>3, <1>4, <1>5, <2>1 DEF Settled
  <2>2. CASE r \notin patches[e.patch].staged
    <3>1. rules'[r] = rules[r] /\ rules[r].source \in PatchId /\ rules[r].tier # "absent"
      BY <1>3, <2>2 DEF TypeOK, RuleRow
    <3>2. rules[r].source # e.patch
      BY <1>6, <2>2, <3>1 DEF EditInv, RulesOwned, Owned
    <3> QED
      BY <1>2, <3>1, <3>2 DEF EditInv, RuleTracksPatch, Live
  <2> QED
    BY <2>1, <2>2
<1>9. SnapshotsSettled'
  BY <1>0, <1>2, SnapshotKept DEF SnapshotsSettled
<1>10. PendingHolds'
  <2>1. ASSUME NEW p \in PendingPatches', NEW r \in patches[p].results \cup patches[p].staged
        PROVE  r \in RuleId /\ rules'[r] = rules[r]
    BY <1>1, <1>2, <1>3, <2>1, HeldApart
  <2> QED
    BY <1>2, <2>1 DEF EditInv, PendingHolds, PendingPatches
<1> QED
  BY <1>2, <1>7, <1>8, <1>9, <1>10 DEF EditInv

\* Promotion moves and displaces validated rules only.
LEMMA PromotionKeepsEdits ==
  ASSUME TypeOK, EditInv, Resubmit = FALSE, PromoteEligible
  PROVE  EditInv'
<1>0. [Next]_vars /\ patches' = patches /\ accepted' = accepted
  BY DEF Next, PromoteEligible
<1>1. PendingPatches' = PendingPatches
  BY <1>0 DEF PendingPatches
<1>2. ASSUME NEW r \in RuleId
      PROVE  /\ rules[r] \in RuleRow
             /\ \/ rules'[r] = rules[r]
                \/ rules'[r].tier = "absent"
                \/ /\ rules[r].tier = "volatile"
                   /\ rules'[r].status = rules[r].status
                   /\ rules'[r].source = rules[r].source
                   /\ rules'[r].replaces = rules[r].replaces
             /\ rules[r].tier = "volatile" /\ rules[r].status = "pending" => rules'[r] = rules[r]
             /\ rules[r].tier = "absent" => rules'[r].tier = "absent"
  <2>1. rules[r] \in RuleRow /\ NoRule.tier = "absent"
    BY DEF TypeOK, NoRule, FreshRule
  <2>2. r \in EligibleRules => rules[r].tier = "volatile" /\ rules[r].status = "validated"
    BY DEF EligibleRules, Eligible
  <2>3. r \in Displaced => r \in EligibleRules \/ rules[r].tier = "stable"
    BY DEF Displaced, Stable
  <2> QED
    BY <2>1, <2>2, <2>3 DEF PromoteEligible, RuleRow
<1>3. AcceptedFresh' /\ ConflictFree' /\ StagedKind'
  BY <1>0, <1>1
     DEF EditInv, AcceptedFresh, ConflictFree, StagedKind, Staged, AgainstStable, AgainstVolatile,
         StagedAgainst, Claims
<1>4. RulesOwned'
  <2> SUFFICES ASSUME NEW r \in RuleId, rules'[r].tier # "absent"
               PROVE  Owned(r, rules[r])'
    BY DEF RulesOwned, Owned
  <2> QED
    BY <1>0, <1>2, StoredKept
<1>5. RuleTracksPatch'
  BY <1>0, <1>2 DEF EditInv, RuleTracksPatch, Live
<1>6. SnapshotsSettled'
  BY <1>0, <1>1, SnapshotKept DEF SnapshotsSettled
<1>7. PendingHolds'
  <2>1. \A p \in PendingPatches : patches[p].results \subseteq RuleId /\ patches[p].staged \subseteq RuleId
    BY DEF TypeOK, PatchRow, PendingPatches
  <2> QED
    BY <1>0, <1>1, <1>2, <2>1 DEF EditInv, PendingHolds
<1> QED
  BY <1>3, <1>4, <1>5, <1>6, <1>7 DEF EditInv

(* The ownership of rules, the claims of patches and what a pending patch  *)
(* may restore, as disciplined callers keep them at every moment.          *)
THEOREM EditInvariant ==
  ASSUME Resubmit = FALSE, SerializeEdits = TRUE
  PROVE  Spec => []EditInv
<1>1. Init => EditInv
  <2> SUFFICES ASSUME Init  PROVE EditInv
    OBVIOUS
  <2>1. \A p \in PatchId : patches[p] = NoPatchRow /\ NoPatchRow.status = "absent"
    BY DEF Init, NoPatchRow
  <2>2. PendingPatches = {}
    BY <2>1 DEF PendingPatches
  <2>3. \A r \in RuleId : /\ rules[r].source = NoPatch
                          /\ rules[r].replaces = {}
                          /\ rules[r].status = "validated"
    BY DEF Init, FreshRule, NoRule
  <2>4. AcceptedFresh /\ ConflictFree /\ SnapshotsSettled /\ PendingHolds
    BY <2>2 DEF Init, AcceptedFresh, ConflictFree, SnapshotsSettled, PendingHolds
  <2>5. StagedKind
    BY <2>1 DEF StagedKind, Staged
  <2>6. RulesOwned /\ RuleTracksPatch
    BY <2>3 DEF RulesOwned, Owned, RuleTracksPatch
  <2> QED
    BY <2>4, <2>5, <2>6 DEF EditInv
<1>2. TypeOK /\ EditInv /\ [Next]_vars => EditInv'
  BY StepCases, FilterKeepsEdits, StageKeepsEdits, CountingKeepsEdits, SuccessKeepsEdits,
     FailureKeepsEdits, PromotionKeepsEdits
<1> QED
  BY <1>1, <1>2, TypeCorrect, PTL DEF Spec

(* A live rule is pending exactly while the patch that made it is: no      *)
(* rollback, restoration or late evidence leaves a rule of a rolled back   *)
(* patch behind (stage_patch, _restore_snapshot, validate_patch).          *)
THEOREM RulesTrackPatches ==
  ASSUME Resubmit = FALSE, SerializeEdits = TRUE
  PROVE  Spec => []RuleTracksPatch
<1>1. EditInv => RuleTracksPatch
  BY DEF EditInv
<1> QED
  BY <1>1, EditInvariant, PTL

(* Unresolved patches and waiting winners never share a rule, across       *)
(* batches and abandoned ones (filter_and_resolve's claims).               *)
THEOREM PatchesConflictFree ==
  ASSUME Resubmit = FALSE, SerializeEdits = TRUE
  PROVE  Spec => []ConflictFree
<1>1. EditInv => ConflictFree
  BY DEF EditInv
<1> QED
  BY <1>1, EditInvariant, PTL

-----------------------------------------------------------------------------
(* Stable rules *)

\* Of the engine's steps only these two take a rule out of the stable tier.
LEMMA RemovalEarned ==
  ASSUME TypeOK, EditInv, [Next]_vars, Resubmit = FALSE,
         NEW r \in RuleId, Stable(r), rules'[r].tier # "stable"
  PROVE  \E p \in PatchId :
           /\ StagedAgainst(p, r)
           /\ \/ /\ patches[p].op = "DELETE"
                 /\ patches[p].status = "pending"
                 /\ patches'[p].status = "validated"
              \/ /\ patches[p].op = "MERGE"
                 /\ patches[p].status = "validated"
                 /\ patches[p].results \cap EligibleRules # {}
<1>0. rules[r] \in RuleRow /\ rules[r].tier = "stable" /\ NoRule.tier = "absent"
  BY DEF TypeOK, Stable, NoRule, FreshRule
<1>1. ASSUME NEW batch \in Batches, FilterAndResolve(batch)  PROVE FALSE
  BY <1>0, <1>1 DEF FilterAndResolve
<1>2. ASSUME NEW q \in accepted, NEW round \in CallerRounds, StagePatch(q, round)  PROVE FALSE
  <2>1. r \in StagedIds(q) \/ r \in q.results
    BY <1>0, <1>2 DEF StagePatch
  <2>2. r \in q.results => r \in q.targets
    BY <1>0, <1>2 DEF StagePatch, Acceptable, Live
  <2>3. r \in q.targets
    BY <2>1, <2>2 DEF StagedIds, Claims
  <2>4. r \in StableTargets(q)
    BY <2>3 DEF StableTargets
  <2>5. StagedIds(q) = q.results /\ r \in q.results
    BY <2>1, <2>4 DEF StagedIds
  <2> QED
    BY <1>2, <2>3, <2>4, <2>5 DEF StagePatch, Acceptable, WellFormed
<1>3. CASE UNCHANGED rules
  BY <1>0, <1>3
<1>4. ASSUME NEW e \in ValidationEvidence, Calibrate(e)  PROVE FALSE
  BY <1>0, <1>4, CountedKeeps DEF Calibrate
<1>5. ASSUME NEW e \in ValidationEvidence, ValidateSuccess(e)
      PROVE  \E p \in PatchId : /\ StagedAgainst(p, r)
                                /\ patches[p].op = "DELETE"
                                /\ patches[p].status = "pending"
                                /\ patches'[p].status = "validated"
  <2>1. e.patch \in PendingPatches
    BY <1>5 DEF ValidateSuccess, PendingPatches, ValidationEvidence
  <2>2. r \notin patches[e.patch].results
    BY <1>0, <2>1 DEF EditInv, PendingHolds
  <2>3. patches[e.patch].op = "DELETE" /\ r \in patches[e.patch].targets
    BY <1>0, <1>5, <2>2 DEF ValidateSuccess, Receivers
  <2>4. r \notin patches[e.patch].staged
    BY <1>0, <2>1, <2>2 DEF EditInv, PendingHolds
  <2>5. AgainstStable(e.patch)
    BY <2>1, <2>3, <2>4 DEF EditInv, StagedKind, Staged, AgainstVolatile, PendingPatches, Claims
  <2>6. patches'[e.patch].status = "validated"
    BY <1>5, ResolvedRow DEF ValidateSuccess
  <2> QED
    BY <2>1, <2>3, <2>5, <2>6 DEF AgainstStable, PendingPatches
<1>6. ASSUME NEW e \in ValidationEvidence, ValidateFailure(e)  PROVE FALSE
  <2>1. e.patch \in PendingPatches
    BY <1>6 DEF ValidateFailure, PendingPatches, ValidationEvidence
  <2>2. r \in patches[e.patch].staged
    BY <1>0, <1>6 DEF ValidateFailure
  <2> QED
    BY <1>0, <2>1, <2>2 DEF EditInv, PendingHolds
<1>7. CASE Observe
  BY <1>0, <1>7 DEF Observe, RecordRuleObservation, TypeOK, RuleRow
<1>8. ASSUME NEW round \in Rounds, AdvanceRound(round)  PROVE FALSE
  BY <1>0, <1>8 DEF AdvanceRound, RuleRow
<1>9. CASE PromoteEligible
  <2>1. r \notin EligibleRules
    BY <1>0 DEF EligibleRules, Eligible
  <2>2. r \in Displaced
    BY <1>0, <1>9, <2>1 DEF PromoteEligible
  <2>3. PICK m \in EligibleRules : r \in rules[m].replaces
    BY <2>2 DEF Displaced
  <2>4. m \in RuleId /\ rules[m].tier = "volatile" /\ rules[m].status = "validated"
    BY DEF EligibleRules, Eligible
  <2> DEFINE p == rules[m].source
  <2>5. /\ p \in PatchId
        /\ m \in patches[p].results
        /\ patches[p].op = "MERGE"
        /\ StagedAgainst(p, r)
    BY <2>3, <2>4 DEF EditInv, RulesOwned, Owned, TypeOK, RuleRow
  <2>6. patches[p].status = "validated"
    BY <2>4, <2>5, MetaMemoryAssumption DEF EditInv, RuleTracksPatch, Live
  <2> QED
    BY <2>3, <2>5, <2>6
<1>10. \/ \E q \in accepted : StageKnownPatch(q)
       \/ Abandon
       \/ \E e \in ValidationEvidence : AuditInapplicable(e)
       \/ UNCHANGED vars
       => UNCHANGED rules
  BY DEF StageKnownPatch, Abandon, AuditInapplicable, vars
<1> QED
  BY <1>1, <1>2, <1>3, <1>4, <1>5, <1>6, <1>7, <1>8, <1>9, <1>10, StepCases

(* A stable rule leaves the stable tier only when a DELETE staged against  *)
(* its repeated failures is validated, or when the replacement of a MERGE  *)
(* staged against them earns promotion (validate_patch, promote_eligible). *)
THEOREM StableRulesProtected ==
  ASSUME Resubmit = FALSE, SerializeEdits = TRUE
  PROVE  Spec => StableRemovalEarned
<1>1. TypeOK /\ EditInv /\ [Next]_vars =>
        \A r \in RuleId :
          Stable(r) /\ rules'[r].tier # "stable" =>
            \E p \in PatchId :
              /\ StagedAgainst(p, r)
              /\ \/ /\ patches[p].op = "DELETE"
                    /\ patches[p].status = "pending"
                    /\ patches'[p].status = "validated"
                 \/ /\ patches[p].op = "MERGE"
                    /\ patches[p].status = "validated"
                    /\ patches[p].results \cap EligibleRules # {}
  BY RemovalEarned
<1> QED
  BY <1>1, TypeCorrect, EditInvariant, PTL DEF Spec, StableRemovalEarned

-----------------------------------------------------------------------------
(* Evidence *)

LEMMA FiniteCounters ==
  ASSUME NEW row \in RuleRow
  PROVE  IsFiniteSet(row.wonIn) /\ IsFiniteSet(row.subsets)
<1>1. IsFiniteSet(Rounds)
  BY FS_Interval, MetaMemoryAssumption DEF Rounds
<1> QED
  BY <1>1, FS_Subset, MetaMemoryAssumption DEF RuleRow

\* Evidence is only ever added, a row at a time.
LEMMA EvidenceGrows ==
  ASSUME TypeOK, IsFiniteSet(evidence), [Next]_vars
  PROVE  evidence \subseteq evidence' /\ IsFiniteSet(evidence')
<1>1. ASSUME NEW e \in ValidationEvidence, AddEvidence(e)
      PROVE  evidence \subseteq evidence' /\ IsFiniteSet(evidence')
  BY <1>1, FS_AddElement DEF AddEvidence
<1>2. ASSUME NEW e \in ValidationEvidence,
             AuditInapplicable(e) \/ Calibrate(e) \/ ValidateSuccess(e) \/ ValidateFailure(e)
      PROVE  AddEvidence(e)
  BY <1>2 DEF AuditInapplicable, Calibrate, ValidateSuccess, ValidateFailure
<1>3. ASSUME \/ \E batch \in Batches : FilterAndResolve(batch)
             \/ \E q \in accepted, round \in CallerRounds : StagePatch(q, round)
             \/ \E q \in accepted : StageKnownPatch(q)
             \/ Abandon
             \/ Observe
             \/ \E round \in Rounds : AdvanceRound(round)
             \/ PromoteEligible
             \/ UNCHANGED vars
      PROVE  evidence' = evidence
  BY <1>3 DEF FilterAndResolve, StagePatch, StageKnownPatch, Abandon, Observe,
              RecordRuleObservation, AdvanceRound, PromoteEligible, vars
<1> QED
  BY <1>1, <1>2, <1>3, StepCases

\* More evidence backs what was backed before.
LEMMA BackedKept ==
  ASSUME TypeOK, IsFiniteSet(evidence), [Next]_vars, NEW row \in RuleRow, Backed(row)
  PROVE  Backed(row)'
<1> SUFFICES ASSUME row.tier # "absent", row.source # NoPatch
             PROVE  Backed(row)'
  BY DEF Backed
<1> DEFINE won == Rows(row.source, TRUE)
           lost == Rows(row.source, FALSE)
<1>1. /\ won \subseteq won' /\ lost \subseteq lost'
      /\ IsFiniteSet(won') /\ IsFiniteSet(lost')
  <2>1. won \subseteq won' /\ lost \subseteq lost'
    BY EvidenceGrows DEF Rows
  <2>2. won' \subseteq evidence' /\ lost' \subseteq evidence'
    BY DEF Rows
  <2> QED
    BY <2>1, <2>2, EvidenceGrows, FS_Subset
<1>2. /\ Cardinality(won) <= Cardinality(won') /\ Cardinality(won) \in Nat
      /\ Cardinality(lost) <= Cardinality(lost') /\ Cardinality(lost) \in Nat
      /\ Cardinality(won') \in Nat /\ Cardinality(lost') \in Nat
  BY <1>1, FS_Subset, FS_CardinalityType
<1>3. /\ row.successes <= Cardinality(won)
      /\ row.failures <= Cardinality(lost)
      /\ row.wonIn \subseteq {e.round : e \in won}
      /\ row.subsets \subseteq {e.subset : e \in won \cup lost}
      /\ row.recovered => \E e \in won \cup lost : e.recovered
  BY DEF Backed
<1>4. row.successes \in Nat /\ row.failures \in Nat
  BY DEF RuleRow
<1> HIDE DEF won, lost
<1>5. /\ row.successes <= Cardinality(won')
      /\ row.failures <= Cardinality(lost')
  BY <1>2, <1>3, <1>4
<1>6. /\ row.wonIn \subseteq {e.round : e \in won'}
      /\ row.subsets \subseteq {e.subset : e \in won' \cup lost'}
      /\ row.recovered => \E e \in won' \cup lost' : e.recovered
  BY <1>1, <1>3
<1> QED
  BY <1>5, <1>6 DEF Backed, won, lost

\* A new row backs the counters it adds to.
LEMMA BackedCounted ==
  ASSUME TypeOK, IsFiniteSet(evidence), NEW row \in RuleRow, Backed(row),
         NEW e \in ValidationEvidence, AddEvidence(e), e.applicable,
         row.source = e.patch, row.tier # "absent"
  PROVE  Backed(Counted(row, e))'
<1> DEFINE won == Rows(e.patch, TRUE)
           lost == Rows(e.patch, FALSE)
           new == Counted(row, e)
<1>0. e.patch # NoPatch /\ e.success \in BOOLEAN
  BY MetaMemoryAssumption DEF ValidationEvidence
<1>1. /\ row.successes <= Cardinality(won)
      /\ row.failures <= Cardinality(lost)
      /\ row.wonIn \subseteq {f.round : f \in won}
      /\ row.subsets \subseteq {f.subset : f \in won \cup lost}
      /\ row.recovered => \E f \in won \cup lost : f.recovered
  BY <1>0 DEF Backed
<1>2. /\ won' = IF e.success THEN won \cup {e} ELSE won
      /\ lost' = IF e.success THEN lost ELSE lost \cup {e}
      /\ e \notin won /\ e \notin lost
  BY <1>0 DEF AddEvidence, Rows
<1>3. IsFiniteSet(won) /\ IsFiniteSet(lost)
  <2>1. won \subseteq evidence /\ lost \subseteq evidence
    BY DEF Rows
  <2> QED
    BY <2>1, FS_Subset
<1>4. /\ Cardinality(won') = IF e.success THEN Cardinality(won) + 1 ELSE Cardinality(won)
      /\ Cardinality(lost') = IF e.success THEN Cardinality(lost) ELSE Cardinality(lost) + 1
      /\ Cardinality(won) \in Nat /\ Cardinality(lost) \in Nat
  <2>1. Cardinality(won) \in Nat /\ Cardinality(lost) \in Nat
    BY <1>3, FS_CardinalityType
  <2> HIDE DEF won, lost
  <2>2. CASE e.success
    BY <1>2, <1>3, <2>1, <2>2, FS_AddElement
  <2>3. CASE ~e.success
    BY <1>2, <1>3, <2>1, <2>3, FS_AddElement
  <2> QED
    BY <1>0, <2>2, <2>3
<1>5. /\ new.successes = IF e.success THEN row.successes + 1 ELSE row.successes
      /\ new.failures = IF e.success THEN row.failures ELSE row.failures + 1
      /\ new.wonIn = IF e.success THEN row.wonIn \cup {e.round} ELSE row.wonIn
      /\ new.subsets = row.subsets \cup {e.subset}
      /\ new.source = e.patch
      /\ row.successes \in Nat /\ row.failures \in Nat
  BY CountedKeeps DEF Counted, RuleRow
<1>6. new.recovered => row.recovered \/ e.recovered
  BY Zenon DEF Counted, RuleRow
<1> HIDE DEF new, won, lost
<1>7. new.successes <= Cardinality(won') /\ new.failures <= Cardinality(lost')
  BY <1>1, <1>4, <1>5
<1>8. /\ new.wonIn \subseteq {f.round : f \in won'}
      /\ new.subsets \subseteq {f.subset : f \in won' \cup lost'}
  BY <1>1, <1>2, <1>5
<1>9. new.recovered => \E f \in won' \cup lost' : f.recovered
  BY <1>1, <1>2, <1>6
<1>10. ASSUME NEW x, x = new  PROVE Backed(x)'
  BY <1>5, <1>7, <1>8, <1>9, <1>10 DEF Backed, won, lost
<1> QED
  BY <1>10 DEF new

\* Evidence of a patch is credited to the rules that patch made.
LEMMA CreditsOwnRules ==
  ASSUME TypeOK, EditInv, ResultsProposed, FreshResults,
         NEW p \in PatchId, patches[p].status # "absent",
         NEW r \in patches[p].results, r \in RuleId,
         rules[r].tier # "absent", rules[r].source # NoPatch
  PROVE  rules[r].source = p
<1>1. /\ rules[r].source \in PatchId
      /\ patches[rules[r].source].status # "absent"
      /\ r \in patches[rules[r].source].results
  BY DEF EditInv, RulesOwned, Owned, RuleTracksPatch, Live, TypeOK, RuleRow
<1>2. PICK q1 \in Proposals : q1.id = p /\ q1.results = patches[p].results
  BY DEF ResultsProposed
<1>3. PICK q2 \in Proposals :
        q2.id = rules[r].source /\ q2.results = patches[rules[r].source].results
  BY <1>1 DEF ResultsProposed
<1> QED
  BY <1>1, <1>2, <1>3 DEF FreshResults

\* The same counters are backed by the same evidence.
LEMMA BackedStored ==
  ASSUME TypeOK, EvidenceInv, [Next]_vars, NEW r \in RuleId,
         rules[r].tier # "absent",
         rules'[r].source = rules[r].source,
         rules'[r].successes = rules[r].successes,
         rules'[r].failures = rules[r].failures,
         rules'[r].wonIn = rules[r].wonIn,
         rules'[r].subsets = rules[r].subsets,
         rules'[r].recovered = rules[r].recovered
  PROVE  Backed(rules[r])'
<1>1. PICK row \in RuleRow : row = rules[r]
  BY DEF TypeOK
<1>2. Backed(row)'
  BY <1>1, BackedKept DEF EvidenceInv
<1> QED
  BY <1>1, <1>2 DEF Backed

LEMMA ResultsProposedKept ==
  ASSUME TypeOK, EvidenceInv, [Next]_vars, Resubmit = FALSE
  PROVE  ResultsProposed'
<1> SUFFICES ASSUME NEW p \in PatchId, patches'[p].status # "absent"
             PROVE  \E q \in Proposals : q.id = p /\ q.results = patches'[p].results
  BY DEF ResultsProposed
<1>1. CASE patches[p].status # "absent"
  <2>1. patches'[p].results = patches[p].results
    BY <1>1, RowsKept
  <2> QED
    BY <1>1, <2>1 DEF EvidenceInv, ResultsProposed
<1>2. CASE patches[p].status = "absent"
  <2>1. ASSUME NEW batch \in Batches, FilterAndResolve(batch)
        PROVE  \E q \in Proposals : q.id = p /\ q.results = patches'[p].results
    <3>1. patches'[p] # patches[p]
      BY <1>2
    <3>2. \/ patches'[p] = patches[p]
          \/ \E q \in Proposals : q.id = p /\ patches'[p].results = q.results
      BY <2>1, FilteredRow
    <3>3. PICK q \in Proposals : q.id = p /\ patches'[p].results = q.results
      BY <3>1, <3>2
    <3> QED
      BY <3>3
  <2>2. ASSUME NEW q \in accepted, NEW round \in CallerRounds, StagePatch(q, round)
        PROVE  \E x \in Proposals : x.id = p /\ x.results = patches'[p].results
    <3>1. q \in Proposals /\ p = q.id
      BY <1>2, <2>2, StagedRow DEF TypeOK
    <3> QED
      BY <2>2, <3>1, StagedRow
  <2>3. ASSUME NEW e \in ValidationEvidence, ValidateSuccess(e) \/ ValidateFailure(e)
        PROVE  FALSE
    <3>1. PICK verdict \in {"validated", "rolled_back"} : Resolve(e, verdict)
      BY <2>3 DEF ValidateSuccess, ValidateFailure
    <3>2. patches[e.patch].status = "pending"
      BY <2>3 DEF ValidateSuccess, ValidateFailure
    <3>3. patches'[p] = patches[p]
      BY <1>2, <3>1, <3>2, ResolvedRow
    <3> QED
      BY <1>2, <3>3
  <2> QED
    BY <1>2, <2>1, <2>2, <2>3, StepCases, QuietSteps
<1> QED
  BY <1>1, <1>2

\* Restored versions are backed by the evidence that was there before.
LEMMA SnapshotsBackedKept ==
  ASSUME TypeOK, EditInv, EvidenceInv, [Next]_vars, Resubmit = FALSE
  PROVE  \A p \in PendingPatches', r \in RuleId : Backed(patches[p].snapshot[r])'
<1> SUFFICES ASSUME NEW p \in PendingPatches', NEW r \in RuleId
             PROVE  Backed(patches[p].snapshot[r])'
  OBVIOUS
<1>0. p \in PatchId /\ patches'[p].status = "pending"
  BY DEF PendingPatches
<1>1. CASE p \in PendingPatches
  <2>1. PICK row \in RuleRow : row = patches[p].snapshot[r]
    BY <1>0 DEF TypeOK, PatchRow
  <2>2. patches'[p].snapshot[r] = row
    BY <1>0, <1>1, <2>1, RowsKept DEF PendingPatches
  <2>3. Backed(row)'
    BY <1>1, <2>1, BackedKept DEF EvidenceInv
  <2> QED
    BY <2>2, <2>3 DEF Backed
<1>2. CASE p \notin PendingPatches
  <2>1. patches[p].status # "pending"
    BY <1>0, <1>2 DEF PendingPatches
  <2>2. ASSUME NEW batch \in Batches, FilterAndResolve(batch)  PROVE FALSE
    BY <1>0, <2>1, <2>2, FilteredRow
  <2>3. ASSUME NEW e \in ValidationEvidence, ValidateSuccess(e) \/ ValidateFailure(e)
        PROVE  FALSE
    <3>1. PICK verdict \in {"validated", "rolled_back"} : Resolve(e, verdict)
      BY <2>3 DEF ValidateSuccess, ValidateFailure
    <3> QED
      BY <1>0, <2>1, <3>1, ResolvedRow
  <2>4. PICK q \in accepted, round \in CallerRounds : StagePatch(q, round)
    BY <1>0, <2>1, <2>2, <2>3, StepCases, QuietSteps
  <2>5. p = q.id
    BY <1>0, <2>1, <2>4, StagedRow
  <2>6. PICK row \in RuleRow : row = rules[r]
    BY DEF TypeOK
  <2>7. Backed(row)'
    BY <2>6, BackedKept DEF EvidenceInv
  <2>8. patches'[p].snapshot[r] = IF r \in q.targets THEN row ELSE NoRule
    BY <2>4, <2>5, <2>6, StagedRow
  <2>9. CASE r \in q.targets
    BY <2>7, <2>8, <2>9 DEF Backed
  <2>10. CASE r \notin q.targets
    BY <2>8, <2>10 DEF Backed, NoRule, FreshRule
  <2> QED
    BY <2>9, <2>10
<1> QED
  BY <1>1, <1>2

\* A rule counted with its own patch's new evidence stays backed; so does a
\* seeded rule, of which nothing is claimed.
LEMMA CountedBacked ==
  ASSUME TypeOK, EditInv, EvidenceInv, FreshResults,
         NEW e \in ValidationEvidence, AddEvidence(e), e.applicable,
         NEW r \in Receivers(e), r \in RuleId, NEW x, x = Counted(rules[r], e)
  PROVE  Backed(x)'
<1>1. PICK row \in RuleRow : row = rules[r]
  BY DEF TypeOK
<1>2. row.tier # "absent" /\ r \in patches[e.patch].results /\ x = Counted(row, e)
  BY <1>1 DEF Receivers, Live
<1>3. e.patch \in PatchId /\ patches[e.patch].status # "absent"
  BY DEF ValidationEvidence, AddEvidence
<1>4. CASE row.source = NoPatch
  BY <1>2, <1>4, CountedKeeps DEF Backed
<1>5. CASE row.source # NoPatch
  <2>1. row.source = e.patch
    BY <1>1, <1>2, <1>3, <1>5, CreditsOwnRules DEF EvidenceInv
  <2>2. Backed(row)
    BY <1>1 DEF EvidenceInv
  <2>3. Backed(Counted(row, e))'
    BY <1>2, <2>1, <2>2, BackedCounted DEF EvidenceInv
  <2> QED
    BY <1>2, <2>3
<1> QED
  BY <1>4, <1>5

LEMMA RulesBackedKept ==
  ASSUME TypeOK, EditInv, EvidenceInv, [Next]_vars, Resubmit = FALSE, FreshResults
  PROVE  \A r \in RuleId : Backed(rules[r])'
<1> SUFFICES ASSUME NEW r \in RuleId, rules'[r].tier # "absent"
             PROVE  Backed(rules[r])'
  BY DEF Backed
<1>0. rules[r] \in RuleRow /\ NoRule.tier = "absent"
  BY DEF TypeOK, NoRule, FreshRule
<1>1. ASSUME rules'[r] = rules[r]  PROVE Backed(rules[r])'
  BY <1>1, BackedStored
<1>2. ASSUME NEW q \in accepted, NEW round \in CallerRounds, StagePatch(q, round)
      PROVE  Backed(rules[r])'
  <2>1. CASE r \in q.results
    <3>1. PICK row : row = StagedRule(q, round)
      OBVIOUS
    <3>2. /\ row.wonIn = {} /\ row.subsets = {}
          /\ row.successes = 0 /\ row.failures = 0
          /\ row.recovered = FALSE
      BY <3>1 DEF StagedRule, FreshRule
    <3>3. /\ Rows(row.source, TRUE)' \subseteq evidence'
          /\ Rows(row.source, FALSE)' \subseteq evidence'
      BY DEF Rows
    <3>4. IsFiniteSet(Rows(row.source, TRUE)') /\ IsFiniteSet(Rows(row.source, FALSE)')
      BY <3>3, EvidenceGrows, FS_Subset DEF EvidenceInv
    <3>5. /\ Cardinality(Rows(row.source, TRUE)') >= 0
          /\ Cardinality(Rows(row.source, FALSE)') >= 0
      <4>1. ASSUME NEW S, IsFiniteSet(S)  PROVE Cardinality(S) >= 0
        BY <4>1, FS_CardinalityType
      <4> QED
        BY <3>4, <4>1, Zenon
    <3>6. Backed(row)'
      BY <3>2, <3>5 DEF Backed
    <3>7. rules'[r] = row
      BY <1>2, <2>1, <3>1 DEF StagePatch
    <3> QED
      BY <3>6, <3>7 DEF Backed
  <2>2. CASE r \notin q.results
    BY <1>0, <1>1, <1>2, <2>2 DEF StagePatch
  <2> QED
    BY <2>1, <2>2
<1>3. ASSUME NEW e \in ValidationEvidence, Calibrate(e)  PROVE Backed(rules[r])'
  <2>1. CASE r \in Receivers(e)
    <3>1. PICK x : x = Counted(rules[r], e)
      OBVIOUS
    <3>2. rules'[r] = x
      BY <1>3, <2>1, <3>1 DEF Calibrate
    <3>3. Backed(x)'
      BY <1>3, <2>1, <3>1, CountedBacked DEF Calibrate
    <3> QED
      BY <3>2, <3>3 DEF Backed
  <2>2. CASE r \notin Receivers(e)
    BY <1>1, <1>3, <2>2 DEF Calibrate
  <2> QED
    BY <2>1, <2>2
<1>4. ASSUME NEW e \in ValidationEvidence, ValidateSuccess(e)  PROVE Backed(rules[r])'
  <2>1. CASE r \in Receivers(e)
    <3>1. PICK x : x = Counted(rules[r], e)
      OBVIOUS
    <3>2. rules'[r] = [x EXCEPT !.status = "validated"]
      BY <1>4, <2>1, <3>1 DEF ValidateSuccess
    <3>3. x \in RuleRow
      BY <1>0, <3>1, CountedTyped
    <3>4. Backed(x)'
      BY <1>4, <2>1, <3>1, CountedBacked DEF ValidateSuccess
    <3>5. /\ rules'[r].tier = x.tier /\ rules'[r].source = x.source
          /\ rules'[r].successes = x.successes /\ rules'[r].failures = x.failures
          /\ rules'[r].wonIn = x.wonIn /\ rules'[r].subsets = x.subsets
          /\ rules'[r].recovered = x.recovered
      BY <3>2, <3>3 DEF RuleRow
    <3> QED
      BY <3>4, <3>5 DEF Backed
  <2>2. CASE r \notin Receivers(e)
    BY <1>0, <1>1, <1>4, <2>2 DEF ValidateSuccess
  <2> QED
    BY <2>1, <2>2
<1>5. ASSUME NEW e \in ValidationEvidence, ValidateFailure(e)  PROVE Backed(rules[r])'
  <2>1. CASE r \in patches[e.patch].staged
    <3>1. e.patch \in PendingPatches
      BY <1>5 DEF ValidateFailure, PendingPatches, ValidationEvidence
    <3>2. PICK row \in RuleRow : row = patches[e.patch].snapshot[r]
      BY <3>1 DEF TypeOK, PatchRow, PendingPatches
    <3>3. rules'[r] = row
      BY <1>5, <2>1, <3>2 DEF ValidateFailure
    <3>4. Backed(row)'
      BY <3>1, <3>2, BackedKept DEF EvidenceInv
    <3> QED
      BY <3>3, <3>4 DEF Backed
  <2>2. CASE r \notin patches[e.patch].staged
    BY <1>1, <1>5, <2>2 DEF ValidateFailure
  <2> QED
    BY <2>1, <2>2
<1>6. CASE Observe
  <2>1. /\ rules'[r].tier = rules[r].tier
        /\ rules'[r].source = rules[r].source
        /\ rules'[r].successes = rules[r].successes
        /\ rules'[r].failures = rules[r].failures
        /\ rules'[r].wonIn = rules[r].wonIn
        /\ rules'[r].subsets = rules[r].subsets
        /\ rules'[r].recovered = rules[r].recovered
    BY <1>0, <1>6 DEF Observe, RecordRuleObservation, TypeOK, RuleRow
  <2> QED
    BY <2>1, BackedStored
<1>7. ASSUME NEW round \in Rounds, AdvanceRound(round)  PROVE Backed(rules[r])'
  BY <1>0, <1>7, BackedStored DEF AdvanceRound, RuleRow
<1>8. CASE PromoteEligible
  <2>1. rules[r].tier # "absent"
    BY <1>0, <1>8 DEF PromoteEligible, EligibleRules, Eligible
  <2>2. /\ rules'[r].source = rules[r].source
        /\ rules'[r].successes = rules[r].successes
        /\ rules'[r].failures = rules[r].failures
        /\ rules'[r].wonIn = rules[r].wonIn
        /\ rules'[r].subsets = rules[r].subsets
        /\ rules'[r].recovered = rules[r].recovered
    BY <1>0, <1>8 DEF PromoteEligible, RuleRow
  <2> QED
    BY <2>1, <2>2, BackedStored
<1>9. ASSUME \/ \E batch \in Batches : FilterAndResolve(batch)
             \/ \E q \in accepted : StageKnownPatch(q)
             \/ Abandon
             \/ \E e \in ValidationEvidence : AuditInapplicable(e)
             \/ UNCHANGED vars
      PROVE  Backed(rules[r])'
  BY <1>1, <1>9 DEF FilterAndResolve, StageKnownPatch, Abandon, AuditInapplicable, vars
<1> QED
  BY <1>2, <1>3, <1>4, <1>5, <1>6, <1>7, <1>8, <1>9, StepCases

\* Counters of a stable rule only grow, and only promotion makes one stable.
LEMMA EarnedKept ==
  ASSUME TypeOK, EditInv, EvidenceInv, [Next]_vars
  PROVE  EarnedByCounters'
<1> SUFFICES ASSUME NEW r \in RuleId, rules'[r].tier = "stable", rules'[r].source # NoPatch
             PROVE  /\ Cardinality(rules'[r].wonIn) >= PromotionAge
                    /\ Cardinality(rules'[r].subsets) >= PromotionSubsets
                    /\ rules'[r].needs => rules'[r].recovered
  BY DEF EarnedByCounters, Stable
<1> DEFINE Earned(row) == /\ Cardinality(row.wonIn) >= PromotionAge
                          /\ Cardinality(row.subsets) >= PromotionSubsets
                          /\ row.needs => row.recovered
<1>0. rules[r] \in RuleRow /\ NoRule.tier = "absent"
  BY DEF TypeOK, NoRule, FreshRule
<1>1. ASSUME rules[r].tier = "stable",
             rules'[r].source = rules[r].source,
             rules[r].wonIn \subseteq rules'[r].wonIn, IsFiniteSet(rules'[r].wonIn),
             rules[r].subsets \subseteq rules'[r].subsets, IsFiniteSet(rules'[r].subsets),
             rules'[r].needs = rules[r].needs,
             rules[r].recovered => rules'[r].recovered
      PROVE  Earned(rules'[r])
  <2>1. Earned(rules[r])
    BY <1>1 DEF EvidenceInv, EarnedByCounters, Stable
  <2>2. /\ Cardinality(rules[r].wonIn) <= Cardinality(rules'[r].wonIn)
        /\ Cardinality(rules[r].wonIn) \in Nat /\ Cardinality(rules'[r].wonIn) \in Nat
        /\ Cardinality(rules[r].subsets) <= Cardinality(rules'[r].subsets)
        /\ Cardinality(rules[r].subsets) \in Nat /\ Cardinality(rules'[r].subsets) \in Nat
    BY <1>1, FS_Subset, FS_CardinalityType
  <2> QED
    BY <1>1, <2>1, <2>2, MetaMemoryAssumption
<1>2. ASSUME rules'[r] = rules[r]  PROVE Earned(rules'[r])
  BY <1>2 DEF EvidenceInv, EarnedByCounters, Stable
<1>3. ASSUME NEW q \in accepted, NEW round \in CallerRounds, StagePatch(q, round)
      PROVE  Earned(rules'[r])
  <2>1. StagedRule(q, round).tier = "volatile"
    BY DEF StagedRule, FreshRule
  <2>2. rules'[r] = rules[r]
    BY <1>0, <1>3, <2>1 DEF StagePatch
  <2> QED
    BY <1>2, <2>2
<1>4. ASSUME NEW e \in ValidationEvidence, Calibrate(e)  PROVE Earned(rules'[r])
  <2>1. CASE r \in Receivers(e)
    <3>1. rules'[r] = Counted(rules[r], e)
      BY <1>4, <2>1 DEF Calibrate
    <3>2. /\ rules'[r].tier = rules[r].tier
          /\ rules'[r].source = rules[r].source
          /\ rules'[r].needs = rules[r].needs
      BY <1>0, <3>1, CountedKeeps
    <3>3. rules'[r] \in RuleRow
      BY <1>0, <3>1, CountedTyped
    <3>4. /\ rules[r].wonIn \subseteq rules'[r].wonIn
          /\ rules[r].subsets \subseteq rules'[r].subsets
      BY <1>0, <3>1 DEF Counted, RuleRow
    <3>5. rules[r].recovered => rules'[r].recovered
      BY <1>0, <3>1, Zenon DEF Counted, RuleRow
    <3> QED
      BY <1>1, <3>2, <3>3, <3>4, <3>5, FiniteCounters
  <2>2. CASE r \notin Receivers(e)
    BY <1>2, <1>4, <2>2 DEF Calibrate
  <2> QED
    BY <2>1, <2>2
<1>5. ASSUME NEW e \in ValidationEvidence, ValidateSuccess(e)  PROVE Earned(rules'[r])
  <2>1. e.patch \in PendingPatches
    BY <1>5 DEF ValidateSuccess, PendingPatches, ValidationEvidence
  <2>2. CASE r \in Receivers(e)
    <3>1. rules[r].tier = "volatile"
      BY <2>1, <2>2 DEF EditInv, PendingHolds, Receivers
    <3>2. Counted(rules[r], e) \in RuleRow /\ Counted(rules[r], e).tier = "volatile"
      BY <1>0, <3>1, CountedTyped, CountedKeeps
    <3>3. rules'[r] = [Counted(rules[r], e) EXCEPT !.status = "validated"]
      BY <1>5, <2>2 DEF ValidateSuccess
    <3> QED
      BY <3>2, <3>3 DEF RuleRow
  <2>3. CASE r \notin Receivers(e)
    BY <1>0, <1>2, <1>5, <2>3 DEF ValidateSuccess
  <2> QED
    BY <2>2, <2>3
<1>6. ASSUME NEW e \in ValidationEvidence, ValidateFailure(e)  PROVE Earned(rules'[r])
  <2>1. e.patch \in PendingPatches
    BY <1>6 DEF ValidateFailure, PendingPatches, ValidationEvidence
  <2>2. CASE r \in patches[e.patch].staged
    <3>1. rules'[r] = patches[e.patch].snapshot[r]
      BY <1>6, <2>2 DEF ValidateFailure
    <3>2. patches[e.patch].snapshot[r].tier # "stable"
      <4>1. r \notin patches[e.patch].targets => patches[e.patch].snapshot[r] = NoRule
        BY <2>1 DEF EditInv, StagedKind, Staged, PendingPatches
      <4>2. CASE AgainstStable(e.patch)
        BY <1>0, <2>2, <4>1, <4>2 DEF AgainstStable
      <4>3. CASE AgainstVolatile(e.patch)
        BY <1>0, <4>1, <4>3 DEF AgainstVolatile
      <4> QED
        BY <2>1, <4>2, <4>3 DEF EditInv, StagedKind, Staged, PendingPatches
    <3> QED
      BY <3>1, <3>2
  <2>3. CASE r \notin patches[e.patch].staged
    BY <1>2, <1>6, <2>3 DEF ValidateFailure
  <2> QED
    BY <2>2, <2>3
<1>7. ASSUME /\ rules'[r].tier = rules[r].tier
             /\ rules'[r].source = rules[r].source
             /\ rules'[r].wonIn = rules[r].wonIn
             /\ rules'[r].subsets = rules[r].subsets
             /\ rules'[r].needs = rules[r].needs
             /\ rules'[r].recovered = rules[r].recovered
      PROVE  Earned(rules'[r])
  BY <1>0, <1>1, <1>7, FiniteCounters
<1>10. CASE Observe
  <2>1. /\ rules'[r].tier = rules[r].tier
        /\ rules'[r].source = rules[r].source
        /\ rules'[r].wonIn = rules[r].wonIn
        /\ rules'[r].subsets = rules[r].subsets
        /\ rules'[r].needs = rules[r].needs
        /\ rules'[r].recovered = rules[r].recovered
    BY <1>0, <1>10 DEF Observe, RecordRuleObservation, TypeOK, RuleRow
  <2> QED
    BY <1>7, <2>1
<1>11. ASSUME NEW round \in Rounds, AdvanceRound(round)  PROVE Earned(rules'[r])
  <2>1. /\ rules'[r].tier = rules[r].tier
        /\ rules'[r].source = rules[r].source
        /\ rules'[r].wonIn = rules[r].wonIn
        /\ rules'[r].subsets = rules[r].subsets
        /\ rules'[r].needs = rules[r].needs
        /\ rules'[r].recovered = rules[r].recovered
    BY <1>0, <1>11 DEF AdvanceRound, RuleRow
  <2> QED
    BY <1>7, <2>1
<1>8. CASE PromoteEligible
  <2>1. CASE r \in EligibleRules
    <3>1. /\ rules'[r].wonIn = rules[r].wonIn
          /\ rules'[r].subsets = rules[r].subsets
          /\ rules'[r].needs = rules[r].needs
          /\ rules'[r].recovered = rules[r].recovered
      BY <1>0, <1>8, <2>1 DEF PromoteEligible, RuleRow
    <3> QED
      BY <2>1, <3>1 DEF EligibleRules, Eligible
  <2>2. CASE r \notin EligibleRules
    BY <1>0, <1>2, <1>8, <2>2 DEF PromoteEligible
  <2> QED
    BY <2>1, <2>2
<1>9. ASSUME \/ \E batch \in Batches : FilterAndResolve(batch)
             \/ \E q \in accepted : StageKnownPatch(q)
             \/ Abandon
             \/ \E e \in ValidationEvidence : AuditInapplicable(e)
             \/ UNCHANGED vars
      PROVE  Earned(rules'[r])
  BY <1>2, <1>9 DEF FilterAndResolve, StageKnownPatch, Abandon, AuditInapplicable, vars
<1> QED
  BY <1>3, <1>4, <1>5, <1>6, <1>8, <1>9, <1>10, <1>11, StepCases

-----------------------------------------------------------------------------
(* The evidence log backs every stored rule and every version a rollback   *)
(* may restore (add_evidence, _apply_evidence, _restore_snapshot).         *)
THEOREM EvidenceInvariant ==
  ASSUME Resubmit = FALSE, SerializeEdits = TRUE, FreshResults
  PROVE  Spec => []EvidenceInv
<1>1. Init => EvidenceInv
  <2> SUFFICES ASSUME Init  PROVE EvidenceInv
    OBVIOUS
  <2>1. \A p \in PatchId : patches[p].status = "absent"
    BY DEF Init, NoPatchRow
  <2>2. \A r \in RuleId : rules[r].source = NoPatch
    BY DEF Init, FreshRule, NoRule
  <2>3. IsFiniteSet(evidence)
    BY FS_EmptySet DEF Init
  <2> QED
    BY <2>1, <2>2, <2>3
       DEF EvidenceInv, ResultsProposed, PendingPatches, Backed, EarnedByCounters
<1>2. TypeOK /\ EditInv /\ EvidenceInv /\ [Next]_vars => EvidenceInv'
  <2> SUFFICES ASSUME TypeOK, EditInv, EvidenceInv, [Next]_vars  PROVE EvidenceInv'
    OBVIOUS
  <2>1. IsFiniteSet(evidence')
    BY EvidenceGrows DEF EvidenceInv
  <2>2. ResultsProposed'
    BY ResultsProposedKept
  <2>3. \A r \in RuleId : Backed(rules[r])'
    BY RulesBackedKept
  <2>4. \A p \in PendingPatches', r \in RuleId : Backed(patches[p].snapshot[r])'
    BY SnapshotsBackedKept
  <2>5. EarnedByCounters'
    BY EarnedKept
  <2> QED
    BY <2>1, <2>2, <2>3, <2>4, <2>5 DEF EvidenceInv
<1> QED
  BY <1>1, <1>2, TypeCorrect, EditInvariant, PTL DEF Spec

(* No observation is counted twice, through duplicate reports, rollbacks   *)
(* and restored snapshots (add_evidence, _apply_evidence).                 *)
THEOREM EvidenceCountedOnce ==
  ASSUME Resubmit = FALSE, SerializeEdits = TRUE, FreshResults
  PROVE  Spec => []EvidenceNeverInflated
<1>1. EvidenceInv => EvidenceNeverInflated
  BY DEF EvidenceInv, Backed, EvidenceNeverInflated, Live
<1> QED
  BY <1>1, EvidenceInvariant, PTL

(* A rule the engine promoted has, in the evidence log, successes in       *)
(* PromotionAge distinct rounds, evidence from PromotionSubsets distinct   *)
(* subsets, and the recovery it needed (_eligible_for_promotion).          *)
THEOREM PromotionIsEarned ==
  ASSUME Resubmit = FALSE, SerializeEdits = TRUE, FreshResults
  PROVE  Spec => []PromotionEarned
<1>1. TypeOK /\ EvidenceInv => PromotionEarned
  <2> SUFFICES ASSUME TypeOK, EvidenceInv,
                      NEW r \in RuleId, Stable(r), rules[r].source # NoPatch
               PROVE  LET won == Rows(rules[r].source, TRUE)
                          all == won \cup Rows(rules[r].source, FALSE)
                      IN  /\ Cardinality({e.round : e \in won}) >= PromotionAge
                          /\ Cardinality({e.subset : e \in all}) >= PromotionSubsets
                          /\ rules[r].needs => \E e \in all : e.recovered
    BY DEF PromotionEarned
  <2> DEFINE won == Rows(rules[r].source, TRUE)
             all == won \cup Rows(rules[r].source, FALSE)
             wonRounds == {e.round : e \in won}
             allSubsets == {e.subset : e \in all}
  <2>1. /\ rules[r].wonIn \subseteq wonRounds
        /\ rules[r].subsets \subseteq allSubsets
        /\ rules[r].recovered => \E e \in all : e.recovered
    BY DEF EvidenceInv, Backed, Stable
  <2>2. wonRounds \subseteq Rounds /\ allSubsets \subseteq SubsetId
    BY DEF TypeOK, Rows, ValidationEvidence
  <2>3. IsFiniteSet(wonRounds) /\ IsFiniteSet(allSubsets)
    <3>1. IsFiniteSet(Rounds)
      BY FS_Interval, MetaMemoryAssumption DEF Rounds
    <3> QED
      BY <2>2, <3>1, FS_Subset, MetaMemoryAssumption
  <2> HIDE DEF wonRounds, allSubsets
  <2>4. /\ Cardinality(rules[r].wonIn) <= Cardinality(wonRounds)
        /\ Cardinality(rules[r].subsets) <= Cardinality(allSubsets)
        /\ Cardinality(wonRounds) \in Nat /\ Cardinality(allSubsets) \in Nat
        /\ Cardinality(rules[r].wonIn) \in Nat /\ Cardinality(rules[r].subsets) \in Nat
    BY <2>1, <2>3, FS_Subset, FS_CardinalityType
  <2>5. /\ Cardinality(rules[r].wonIn) >= PromotionAge
        /\ Cardinality(rules[r].subsets) >= PromotionSubsets
        /\ rules[r].needs => rules[r].recovered
    BY DEF EvidenceInv, EarnedByCounters
  <2>6. Cardinality(wonRounds) >= PromotionAge /\ Cardinality(allSubsets) >= PromotionSubsets
    BY <2>4, <2>5, MetaMemoryAssumption
  <2> QED
    BY <2>1, <2>5, <2>6 DEF wonRounds, allSubsets
<1> QED
  BY <1>1, TypeCorrect, EvidenceInvariant, PTL
-----------------------------------------------------------------------------
(* The gate of StableGate: the failure history of one stable rule, for     *)
(* every set of rounds and subsets and every threshold.                    *)

\* Every finite, nonempty set of markers has a last one.
LEMMA LastExists ==
  ASSUME NEW K \in SUBSET Marker, IsFiniteSet(K), K # {}
  PROVE  \E k \in K : \A j \in K : ~Earlier(k, j)
<1> DEFINE after(k) == {j \in K : Earlier(k, j)}
           tails == {after(k) : k \in K}
<1>1. tails \subseteq FiniteSubsetsOf(K) /\ tails # {}
  <2>1. ASSUME NEW k \in K  PROVE after(k) \in SUBSET K /\ IsFiniteSet(after(k))
    <3>1. after(k) \in SUBSET K
      OBVIOUS
    <3> QED
      BY <3>1, FS_Subset
  <2>2. ASSUME NEW k \in K  PROVE after(k) \in FiniteSubsetsOf(K)
    BY <2>1 DEF FiniteSubsetsOf
  <2> QED
    BY <2>2
<1>2. PICK t \in tails : \A u \in tails : ~(<<u, t>> \in StrictSubsetOrdering(K))
  BY <1>1, FS_StrictSubsetOrderingWellFounded, WFMin
<1>3. PICK k \in K : t = after(k)
  BY <1>2
<1>4. ASSUME NEW j \in K, Earlier(k, j)  PROVE FALSE
  <2>1. after(j) \subseteq after(k)
    BY <1>4 DEF Earlier, Marker
  <2>2. j \in after(k) /\ j \notin after(j)
    BY <1>4 DEF Earlier, Marker
  <2>3. <<after(j), after(k)>> \in StrictSubsetOrdering(K)
    BY <2>1, <2>2 DEF StrictSubsetOrdering
  <2> QED
    BY <2>3, <1>2, <1>3
<1> QED
  BY <1>4

LEMMA LatestSubset ==
  ASSUME NEW S, NEW n
  PROVE  Latest(S, n) \subseteq S
BY DEF Latest

\* Truncating the history before or after a report arrives makes no
\* difference: what was evicted would be evicted again.
LEMMA LatestAbsorbs ==
  ASSUME NEW F \in SUBSET Marker, IsFiniteSet(F), NEW m \in Marker, NEW n \in Nat
  PROVE  Latest(Latest(F, n) \cup {m}, n) = Latest(F \cup {m}, n)
<1> DEFINE L == Latest(F, n)
           after(S, x) == {k \in S : Earlier(x, k)}
<1>1. L \subseteq F /\ IsFiniteSet(L) /\ IsFiniteSet(F \cup {m}) /\ IsFiniteSet(L \cup {m})
  BY LatestSubset, FS_Subset, FS_AddElement
<1>2. ASSUME NEW S, IsFiniteSet(S), NEW T \in SUBSET S
      PROVE  /\ Cardinality(S) \in Nat
             /\ Cardinality(T) \in Nat
             /\ Cardinality(T) <= Cardinality(S)
  BY <1>2, FS_Subset, FS_CardinalityType
<1>3. ASSUME NEW S, NEW x  PROVE after(S, x) \subseteq S
  OBVIOUS
<1>4. ASSUME NEW x \in Latest(F \cup {m}, n)
      PROVE  x \in Latest(L \cup {m}, n)
  <2>1. Cardinality(after(F \cup {m}, x)) < n
    BY <1>4 DEF Latest
  <2>2. x = m \/ x \in L
    <3>1. SUFFICES ASSUME x \in F PROVE x \in L
      BY <1>4, LatestSubset
    <3>2. after(F, x) \subseteq after(F \cup {m}, x) /\ IsFiniteSet(after(F \cup {m}, x))
      BY <1>1, <1>3, FS_Subset
    <3>3. Cardinality(after(F, x)) < n
      BY <3>2, <2>1, <1>2
    <3> QED
      BY <3>1, <3>3 DEF Latest
  <2>3. after(L \cup {m}, x) \subseteq after(F \cup {m}, x) /\ IsFiniteSet(after(F \cup {m}, x))
    BY <1>1, <1>3, FS_Subset
  <2>4. Cardinality(after(L \cup {m}, x)) < n
    BY <2>3, <2>1, <1>2
  <2> QED
    BY <2>2, <2>4 DEF Latest
<1>5. ASSUME NEW x \in Latest(L \cup {m}, n)
      PROVE  x \in Latest(F \cup {m}, n)
  <2> DEFINE lost == after(F, x) \ L
  <2>1. Cardinality(after(L \cup {m}, x)) < n /\ x \in F \cup {m}
    BY <1>5, <1>1 DEF Latest
  <2>2. CASE lost = {}
    <3>1. after(F \cup {m}, x) = after(L \cup {m}, x)
      BY <2>2, <1>1
    <3> QED
      BY <3>1, <2>1 DEF Latest
  <2>3. CASE lost # {}
    <3>1. lost \in SUBSET Marker /\ IsFiniteSet(lost)
      BY FS_Subset
    <3>2. PICK k \in lost : \A j \in lost : ~Earlier(k, j)
      BY <3>1, <2>3, LastExists
    <3>3. k \in F /\ Earlier(x, k) /\ ~(Cardinality(after(F, k)) < n)
      BY <3>2 DEF Latest
    <3>4. after(F, k) \subseteq after(L \cup {m}, x)
      <4>1. ASSUME NEW j \in after(F, k)  PROVE j \in L /\ Earlier(x, j)
        <5>1. Earlier(x, j)
          BY <3>3, <4>1, <2>1 DEF Earlier, Marker
        <5> QED
          BY <5>1, <3>2, <4>1
      <4> QED
        BY <4>1
    <3>5. IsFiniteSet(after(L \cup {m}, x))
      BY <1>1, <1>3, FS_Subset
    <3>6. Cardinality(after(F, k)) <= Cardinality(after(L \cup {m}, x))
          /\ Cardinality(after(F, k)) \in Nat
          /\ Cardinality(after(L \cup {m}, x)) \in Nat
      BY <3>4, <3>5, <1>2
    <3> QED
      BY <3>3, <3>6, <2>1
  <2> QED
    BY <2>2, <2>3
<1> QED
  BY <1>4, <1>5

-----------------------------------------------------------------------------
(* The stored history and the failures behind it are sets of reports       *)
(* (record_rule_observation).                                              *)
THEOREM GateTypeCorrect == GateSpec => []GateTypeOK
<1>1. GateInit => GateTypeOK
  BY DEF GateInit, GateTypeOK
<1>2. GateTypeOK /\ [GateNext]_gateVars => GateTypeOK'
  <2> SUFFICES ASSUME GateTypeOK, [GateNext]_gateVars  PROVE GateTypeOK'
    OBVIOUS
  <2>1. ASSUME NEW marker \in Report, NEW success \in BOOLEAN,
               ReportHealth(marker, success)
        PROVE  GateTypeOK'
    <3>1. Observed(log, marker, success) \subseteq log \cup {marker}
      BY LatestSubset DEF Observed
    <3> QED
      BY <2>1, <3>1 DEF ReportHealth, GateTypeOK
  <2>2. CASE UNCHANGED gateVars
    BY <2>2 DEF GateTypeOK, gateVars
  <2> QED
    BY <2>1, <2>2 DEF GateNext
<1> QED
  BY <1>1, <1>2, PTL DEF GateSpec

\* A set of reports is a finite set of markers.
LEMMA ReportsFinite ==
  /\ Report \subseteq Marker
  /\ IsFiniteSet(Report)
<1>1. Report \subseteq Marker
  BY ReportAssumption DEF Report, Marker
<1>2. IsFiniteSet(ReportRounds \X Subsets)
  BY ReportAssumption, FS_Product
<1>3. IsFiniteSet(Report)
  <2> DEFINE f == [pair \in ReportRounds \X Subsets |-> [round |-> pair[1], subset |-> pair[2]]]
  <2>1. f \in Surjection(ReportRounds \X Subsets, Report)
    <3>1. f \in [ReportRounds \X Subsets -> Report]
      BY DEF Report
    <3>2. ASSUME NEW m \in Report  PROVE \E pair \in ReportRounds \X Subsets : f[pair] = m
      <4>1. <<m.round, m.subset>> \in ReportRounds \X Subsets
        BY DEF Report
      <4>2. f[<<m.round, m.subset>>] = m
        BY <4>1 DEF Report
      <4> QED
        BY <4>1, <4>2
    <3> QED
      BY <3>1, <3>2 DEF Surjection
  <2> QED
    BY <1>2, <2>1, FS_Surjection
<1> QED
  BY <1>1, <1>3

(* Whatever the order, repetition or lateness of the reports, the stored   *)
(* history is exactly the latest failures since the last success           *)
(* (record_rule_observation's dedupe, sort and truncation).                *)
THEOREM HistoryCorrect == GateSpec => []HistoryIsLatestFailures
<1>1. GateInit => HistoryIsLatestFailures
  BY DEF GateInit, HistoryIsLatestFailures, Latest
<1>2. GateTypeOK /\ HistoryIsLatestFailures /\ [GateNext]_gateVars => HistoryIsLatestFailures'
  <2> SUFFICES ASSUME GateTypeOK, HistoryIsLatestFailures, [GateNext]_gateVars
               PROVE  HistoryIsLatestFailures'
    OBVIOUS
  <2>1. ASSUME NEW marker \in Report, NEW success \in BOOLEAN,
               ReportHealth(marker, success)
        PROVE  HistoryIsLatestFailures'
    <3>1. CASE success
      BY <2>1, <3>1 DEF ReportHealth, HistoryIsLatestFailures, Observed, Latest
    <3>2. CASE ~success
      <4>1. failed \in SUBSET Marker /\ IsFiniteSet(failed) /\ marker \in Marker
        BY ReportsFinite, FS_Subset DEF GateTypeOK
      <4>2. log' = Latest(Latest(failed, StableFailureRounds) \cup {marker}, StableFailureRounds)
        BY <2>1, <3>2 DEF ReportHealth, HistoryIsLatestFailures, Observed
      <4>3. log' = Latest(failed \cup {marker}, StableFailureRounds)
        BY <4>1, <4>2, LatestAbsorbs, StableFailureAssumption
      <4> QED
        BY <2>1, <3>2, <4>3 DEF ReportHealth, HistoryIsLatestFailures
    <3> QED
      BY <3>1, <3>2
  <2>2. CASE UNCHANGED gateVars
    BY <2>2 DEF HistoryIsLatestFailures, gateVars
  <2> QED
    BY <2>1, <2>2 DEF GateNext
<1> QED
  BY <1>1, <1>2, GateTypeCorrect, PTL DEF GateSpec

(* The gate never opens early: an edit of a stable rule is accepted only   *)
(* after failures in enough distinct rounds and across enough subsets      *)
(* since the rule's last success (_stable_edit_allowed).                   *)
THEOREM GateIsSound == GateSpec => []GateSound
<1>1. GateTypeOK /\ HistoryIsLatestFailures => GateSound
  <2> SUFFICES ASSUME GateTypeOK, HistoryIsLatestFailures,
                      StableFailureRounds > 0, StableEditAllowed(log)
               PROVE  EnoughFailures
    BY DEF GateSound
  <2> DEFINE recent == Latest(log, StableFailureRounds)
  <2>1. /\ Cardinality(RoundsOf(recent)) >= StableFailureRounds
        /\ Cardinality(SubsetsOf(recent)) >= StableFailureSubsets
    BY StableFailureAssumption DEF StableEditAllowed
  <2>2. recent \subseteq failed
    BY LatestSubset DEF HistoryIsLatestFailures
  <2>3. /\ RoundsOf(recent) \subseteq RoundsOf(failed)
        /\ SubsetsOf(recent) \subseteq SubsetsOf(failed)
    BY <2>2 DEF RoundsOf, SubsetsOf
  <2>4. RoundsOf(failed) \subseteq ReportRounds /\ SubsetsOf(failed) \subseteq Subsets
    BY DEF GateTypeOK, Report, RoundsOf, SubsetsOf
  <2>5. IsFiniteSet(RoundsOf(failed)) /\ IsFiniteSet(SubsetsOf(failed))
    BY <2>4, ReportAssumption, FS_Subset
  <2>6. /\ Cardinality(RoundsOf(recent)) <= Cardinality(RoundsOf(failed))
        /\ Cardinality(SubsetsOf(recent)) <= Cardinality(SubsetsOf(failed))
        /\ Cardinality(RoundsOf(recent)) \in Nat
        /\ Cardinality(SubsetsOf(recent)) \in Nat
        /\ Cardinality(RoundsOf(failed)) \in Nat
        /\ Cardinality(SubsetsOf(failed)) \in Nat
    BY <2>3, <2>5, FS_Subset, FS_CardinalityType
  <2> QED
    BY <2>1, <2>6, StableFailureAssumption DEF EnoughFailures
<1> QED
  BY <1>1, GateTypeCorrect, HistoryCorrect, PTL
=============================================================================
