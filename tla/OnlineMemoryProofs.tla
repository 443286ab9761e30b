-------------------------- MODULE OnlineMemoryProofs --------------------------
(***************************************************************************)
(* Safety of OnlineMemory for every set of applications, edits and seeds,  *)
(* every policy and any number of crashes.                                 *)
(***************************************************************************)
EXTENDS OnlineMemory, MetaMemoryProofs, FunctionTheorems

Steps == {"filter", "stage", "keep", "defer"}

(* What the tables and the process's memory hold.                          *)
Typed ==
  /\ OnlineTypeOK
  /\ precedents \in [PatchId -> Outcomes]
  /\ IsFiniteSet(observed)

LEMMA IdleStep == Idle.step = "idle"
BY DEF Idle

LEMMA RoundsNat == Rounds \subseteq Nat /\ Rounds \subseteq 0..MaxRound /\ MaxRound \in Nat
BY MetaMemoryAssumption DEF Rounds

LEMMA RoundsFinite == IsFiniteSet(Rounds)
<1>1. MaxRound \in Int
  BY RoundsNat
<1> QED
  BY <1>1, FS_Interval DEF Rounds

LEMMA EditTyped ==
  ASSUME NEW a \in App, Edit[a] # NoEdit
  PROVE  Edit[a] \in Proposal /\ Edit[a].id = a /\ a \in PatchId
BY OnlineAssumption

LEMMA RegTyped ==
  ASSUME Typed, reg.step # "idle"
  PROVE  /\ reg \in [app : App, step : Steps]
         /\ reg.app \in App /\ reg.step \in Steps
<1>1. reg # Idle
  BY IdleStep
<1> QED
  BY <1>1 DEF Typed, OnlineTypeOK, Steps

LEMMA RowTyped ==
  ASSUME Typed, NEW r \in RuleId, NEW p \in PatchId
  PROVE  /\ rules[r] \in RuleRow
         /\ patches[p] \in PatchRow
         /\ patches[p].snapshot[r] \in RuleRow
<1>1. rules[r] \in RuleRow /\ patches[p] \in PatchRow
  BY DEF Typed, OnlineTypeOK
<1> QED
  BY <1>1 DEF PatchRow

LEMMA StagedTyped ==
  ASSUME NEW q \in Proposal, NEW round \in Nat
  PROVE  /\ StagedRule(q, round) \in RuleRow
         /\ StagedRule(q, round).tier = "volatile"
         /\ StagedRule(q, round).status = "pending"
         /\ StagedRule(q, round).source = q.id
         /\ StagedRule(q, round).successes = 0
         /\ StagedRule(q, round).failures = 0
         /\ StagedRule(q, round).wonIn = {}
         /\ StagedRule(q, round).recovered = FALSE
BY RowsTyped, MetaMemoryAssumption
   DEF StagedRule, RuleRow, Proposal, StableTargets, FreshRule

\* What an observation that counts does to one rule.
LEMMA WithEvidenceTyped ==
  ASSUME NEW row \in RuleRow, NEW o \in Observation
  PROVE  /\ WithEvidence(row, o) \in RuleRow
         /\ WithEvidence(row, o).tier = row.tier
         /\ WithEvidence(row, o).status = row.status
         /\ WithEvidence(row, o).source = row.source
         /\ WithEvidence(row, o).needs = row.needs
         /\ WithEvidence(row, o).successes =
              IF o.outcome = "improvement" /\ ~o.replay THEN row.successes + 1 ELSE row.successes
         /\ WithEvidence(row, o).failures =
              IF o.outcome = "regression" THEN row.failures + 1 ELSE row.failures
         /\ WithEvidence(row, o).wonIn =
              IF o.outcome = "improvement" /\ ~o.replay
              THEN row.wonIn \cup {o.batch} ELSE row.wonIn
         /\ WithEvidence(row, o).recovered = (row.recovered \/ o.replay)
<1> DEFINE a == IF o.outcome = "improvement" /\ ~o.replay THEN row.successes + 1 ELSE row.successes
           b == IF o.outcome = "regression" THEN row.failures + 1 ELSE row.failures
           c == IF o.outcome = "improvement" /\ ~o.replay
                THEN row.wonIn \cup {o.batch} ELSE row.wonIn
           d == row.subsets \cup {o.task}
           f == row.recovered \/ o.replay
<1>1. a \in Nat /\ b \in Nat
  BY DEF RuleRow
<1>2. c \in SUBSET Rounds /\ d \in SUBSET SubsetId
  BY DEF RuleRow, Observation
<1>3. f \in BOOLEAN
  OBVIOUS
<1>4. WithEvidence(row, o) = [row EXCEPT !.recovered = f, !.successes = a, !.failures = b,
                                         !.wonIn = c, !.subsets = d]
  BY Zenon DEF WithEvidence
<1> HIDE DEF a, b, c, d, f
<1>5. /\ [row EXCEPT !.recovered = f, !.successes = a, !.failures = b,
                     !.wonIn = c, !.subsets = d] \in RuleRow
      /\ [row EXCEPT !.recovered = f, !.successes = a, !.failures = b,
                     !.wonIn = c, !.subsets = d].tier = row.tier
      /\ [row EXCEPT !.recovered = f, !.successes = a, !.failures = b,
                     !.wonIn = c, !.subsets = d].status = row.status
      /\ [row EXCEPT !.recovered = f, !.successes = a, !.failures = b,
                     !.wonIn = c, !.subsets = d].source = row.source
      /\ [row EXCEPT !.recovered = f, !.successes = a, !.failures = b,
                     !.wonIn = c, !.subsets = d].needs = row.needs
      /\ [row EXCEPT !.recovered = f, !.successes = a, !.failures = b,
                     !.wonIn = c, !.subsets = d].successes = a
      /\ [row EXCEPT !.recovered = f, !.successes = a, !.failures = b,
                     !.wonIn = c, !.subsets = d].failures = b
      /\ [row EXCEPT !.recovered = f, !.successes = a, !.failures = b,
                     !.wonIn = c, !.subsets = d].wonIn = c
      /\ [row EXCEPT !.recovered = f, !.successes = a, !.failures = b,
                     !.wonIn = c, !.subsets = d].recovered = f
  BY <1>1, <1>2, <1>3 DEF RuleRow
<1> DEFINE new == [row EXCEPT !.recovered = f, !.successes = a, !.failures = b,
                              !.wonIn = c, !.subsets = d]
<1>6. WithEvidence(row, o) = new
  BY <1>4
<1>7. /\ new \in RuleRow /\ new.tier = row.tier /\ new.status = row.status
      /\ new.source = row.source /\ new.needs = row.needs
      /\ new.successes = a /\ new.failures = b /\ new.wonIn = c /\ new.recovered = f
  BY <1>5
<1> HIDE DEF new
<1> QED
  BY <1>6, <1>7 DEF a, b, c, f

LEMMA WithHealthTyped ==
  ASSUME NEW row \in RuleRow, NEW o \in Observation
  PROVE  \E h \in SUBSET [round : Rounds, subset : SubsetId] :
           WithHealth(row, o) = [row EXCEPT !.history = h]
<1> DEFINE marker == [round |-> o.batch, subset |-> o.task]
           h == Observed(row.history, marker, o.outcome = "improvement")
<1>1. marker \in [round : Rounds, subset : SubsetId]
  BY DEF Observation
<1>2. row.history \in SUBSET [round : Rounds, subset : SubsetId]
  BY DEF RuleRow
<1>3. h \in SUBSET [round : Rounds, subset : SubsetId]
  BY <1>1, <1>2 DEF Observed, Latest
<1> HIDE DEF h
<1>4. CASE row.tier = "stable" /\ ~o.replay
  BY <1>3, <1>4, Zenon DEF WithHealth, h, marker
<1>5. CASE ~(row.tier = "stable" /\ ~o.replay)
  <2>1. WithHealth(row, o) = row
    BY <1>5, Zenon DEF WithHealth
  <2>2. row = [row EXCEPT !.history = row.history]
    BY DEF RuleRow
  <2> QED
    BY <1>2, <2>1, <2>2
<1> QED
  BY <1>4, <1>5

\* A row with the counters of another and the same place in the tables.
SameRow(new, old) ==
  /\ new \in RuleRow
  /\ new.tier = old.tier /\ new.status = old.status
  /\ new.source = old.source /\ new.needs = old.needs

SameCounts(new, old) ==
  /\ new.successes = old.successes /\ new.failures = old.failures
  /\ new.wonIn = old.wonIn /\ new.recovered = old.recovered

LEMMA HealthKeeps ==
  ASSUME NEW row \in RuleRow, NEW o \in Observation
  PROVE  SameRow(WithHealth(row, o), row) /\ SameCounts(WithHealth(row, o), row)
<1>1. PICK h \in SUBSET [round : Rounds, subset : SubsetId] :
        WithHealth(row, o) = [row EXCEPT !.history = h]
  BY WithHealthTyped
<1> QED
  BY <1>1 DEF SameRow, SameCounts, RuleRow

\* An observation changes a rule's place in the tables not at all, and its
\* counters only if the application vouches for the rule.
LEMMA RulesAfterRow ==
  ASSUME Typed, NEW o \in Observation, NEW r \in RuleId
  PROVE  /\ SameRow(RulesAfter(o)[r], rules[r])
         /\ \/ SameCounts(RulesAfter(o)[r], rules[r])
            \/ /\ o.outcome # "neutral" /\ r \in EvidenceRules(o.app)
               /\ SameCounts(RulesAfter(o)[r], WithEvidence(rules[r], o))
<1> DEFINE counted == IF r \in EvidenceRules(o.app) /\ Live(r)
                      THEN WithEvidence(rules[r], o) ELSE rules[r]
<1>0. rules[r] \in RuleRow
  BY DEF Typed, OnlineTypeOK
<1>1. SameRow(counted, rules[r])
  BY <1>0, WithEvidenceTyped DEF SameRow
<1>2. RulesAfter(o)[r] = IF o.outcome = "neutral" THEN rules[r]
                         ELSE IF r \in MonitoredRules(o.app) THEN WithHealth(counted, o)
                         ELSE counted
  BY DEF RulesAfter
<1>3. \/ counted = rules[r]
      \/ r \in EvidenceRules(o.app) /\ counted = WithEvidence(rules[r], o)
  OBVIOUS
<1> HIDE DEF counted
<1>4. SameRow(WithHealth(counted, o), counted) /\ SameCounts(WithHealth(counted, o), counted)
  BY <1>1, HealthKeeps DEF SameRow
<1> QED
  BY <1>0, <1>1, <1>2, <1>3, <1>4 DEF SameRow, SameCounts

-----------------------------------------------------------------------------
LEMMA TypesStart == OnlineInit => Typed
<1> SUFFICES ASSUME OnlineInit  PROVE Typed
  OBVIOUS
<1>1. rules \in [RuleId -> RuleRow]
  <2>1. [FreshRule EXCEPT !.tier = "stable"] \in RuleRow
    BY RowsTyped DEF RuleRow
  <2> QED
    BY <2>1, RowsTyped DEF OnlineInit, Init
<1>2. patches \in [PatchId -> PatchRow] /\ precedents \in [PatchId -> Outcomes]
  BY RowsTyped DEF OnlineInit, Init, Outcomes
<1>3. apps \in [App -> [status : Statuses, created : 0..MaxRound]]
  BY RoundsNat DEF OnlineInit, Statuses
<1>4. batch \in Rounds /\ lastBatch \in 0..MaxRound
  BY RoundsNat, OnlineAssumption DEF OnlineInit, Rounds
<1>5. IsFiniteSet(observed)
  BY FS_EmptySet DEF OnlineInit
<1> QED
  BY <1>1, <1>2, <1>3, <1>4, <1>5 DEF OnlineInit, Typed, OnlineTypeOK

\* One write of an application row.
LEMMA AdmitTyped ==
  ASSUME Typed, NEW a \in App, NEW created \in 0..MaxRound, Admit(a, created)
  PROVE  /\ apps' \in [App -> [status : Statuses, created : 0..MaxRound]]
         /\ reg' \in {Idle} \cup [app : App, step : Steps]
<1>1. [status |-> IF PendingConflict(a) THEN "deferred" ELSE "pending", created |-> created]
        \in [status : Statuses, created : 0..MaxRound]
  BY DEF Statuses
<1> QED
  BY <1>1 DEF Admit, Typed, OnlineTypeOK, Steps

LEMMA SetStatusTyped ==
  ASSUME Typed, NEW a \in App, NEW s \in Statuses, SetStatus(a, s)
  PROVE  apps' \in [App -> [status : Statuses, created : 0..MaxRound]]
<1>1. [apps[a] EXCEPT !.status = s] \in [status : Statuses, created : 0..MaxRound]
  BY DEF Typed, OnlineTypeOK
<1>2. apps' = [apps EXCEPT ![a] = [apps[a] EXCEPT !.status = s]]
  BY DEF SetStatus, Typed, OnlineTypeOK
<1> QED
  BY <1>1, <1>2 DEF Typed, OnlineTypeOK

\* Only edits are registered step by step, of applications still pending; the
\* caller holds the patch it has filtered and not staged.
Registering ==
  /\ reg.step # "idle" => Edit[reg.app] # NoEdit /\ apps[reg.app].status = "pending"
  /\ \A a \in retrying : apps[a].status = "deferred"
  /\ accepted = IF reg.step = "stage" THEN {Edit[reg.app]} ELSE {}

LEMMA RegEdit ==
  ASSUME Typed, Registering, reg.step # "idle"
  PROVE  /\ reg.app \in App /\ reg.app \in PatchId /\ reg.step \in Steps
         /\ Edit[reg.app] # NoEdit
         /\ Edit[reg.app] \in Proposal /\ Edit[reg.app].id = reg.app
         /\ apps[reg.app].status = "pending" /\ apps[reg.app].created \in Nat
<1>1. reg.app \in App /\ reg.step \in Steps /\ Edit[reg.app] # NoEdit
  BY RegTyped DEF Registering
<1>2. apps[reg.app].created \in 0..MaxRound
  BY <1>1 DEF Typed, OnlineTypeOK
<1>3. apps[reg.app].created \in Nat
  BY <1>2, RoundsNat
<1> QED
  BY <1>1, <1>3, EditTyped DEF Registering

LEMMA FilterTyped ==
  ASSUME Typed, Registering, Filter
  PROVE  Typed'
<1>0. reg.step = "filter" /\ reg.step # "idle"
  BY DEF Filter
<1>1. reg \in [app : App, step : Steps]
  BY <1>0, RegTyped
<1>2. reg' \in [app : App, step : Steps]
  BY <1>1 DEF Filter, Steps
<1>3. patches' \in [PatchId -> PatchRow]
  <2>1. CASE Acceptable(Edit[reg.app])
    BY <2>1 DEF Filter, Typed, OnlineTypeOK
  <2>2. CASE ~Acceptable(Edit[reg.app])
    <3>1. patches' = [patches EXCEPT ![Edit[reg.app].id] = Unstaged(Edit[reg.app], "rejected")]
      BY <2>2 DEF Filter
    <3>2. Unstaged(Edit[reg.app], "rejected") \in PatchRow
      BY <1>0, RegEdit, UnstagedTyped
    <3> QED
      BY <3>1, <3>2 DEF Typed, OnlineTypeOK
  <2> QED
    BY <2>1, <2>2
<1> QED
  BY <1>2, <1>3 DEF Filter, Typed, OnlineTypeOK, Steps

\* The row stage_patch writes.
EditRow(q, round) ==
  [Unstaged(q, "pending") EXCEPT
     !.created = round, !.staged = StagedIds(q),
     !.snapshot = [r \in RuleId |-> IF r \in q.targets THEN rules[r] ELSE NoRule]]

LEMMA EditRowTyped ==
  ASSUME Typed, NEW q \in Proposal, NEW round \in Nat
  PROVE  /\ EditRow(q, round) \in PatchRow
         /\ EditRow(q, round).status = "pending"
         /\ EditRow(q, round).op = q.op
         /\ EditRow(q, round).targets = q.targets
         /\ EditRow(q, round).results = q.results
         /\ EditRow(q, round).staged = StagedIds(q)
         /\ \A r \in RuleId : EditRow(q, round).snapshot[r] =
                                IF r \in q.targets THEN rules[r] ELSE NoRule
<1> DEFINE snap == [r \in RuleId |-> IF r \in q.targets THEN rules[r] ELSE NoRule]
<1>1. snap \in [RuleId -> RuleRow]
  BY RowsTyped DEF Typed, OnlineTypeOK
<1>2. StagedIds(q) \in SUBSET RuleId
  BY DEF StagedIds, Claims, Proposal
<1>3. Unstaged(q, "pending") \in PatchRow
  BY UnstagedTyped
<1>4. /\ Unstaged(q, "pending").status = "pending" /\ Unstaged(q, "pending").op = q.op
      /\ Unstaged(q, "pending").targets = q.targets
      /\ Unstaged(q, "pending").results = q.results
  BY DEF Unstaged, NoPatchRow
<1>5. EditRow(q, round) = [Unstaged(q, "pending") EXCEPT
                               !.created = round, !.staged = StagedIds(q), !.snapshot = snap]
  BY DEF EditRow
<1>6. \A r \in RuleId : snap[r] = IF r \in q.targets THEN rules[r] ELSE NoRule
  OBVIOUS
<1> HIDE DEF snap
<1>7. ASSUME NEW row \in PatchRow, NEW ids \in SUBSET RuleId
      PROVE  LET new == [row EXCEPT !.created = round, !.staged = ids, !.snapshot = snap]
             IN  /\ new \in PatchRow
                 /\ new.status = row.status /\ new.op = row.op
                 /\ new.targets = row.targets /\ new.results = row.results
                 /\ new.staged = ids /\ new.snapshot = snap
  BY <1>1 DEF PatchRow
<1> DEFINE base == Unstaged(q, "pending")
           new == [base EXCEPT !.created = round, !.staged = StagedIds(q), !.snapshot = snap]
<1>8. base \in PatchRow /\ base.status = "pending" /\ base.op = q.op
      /\ base.targets = q.targets /\ base.results = q.results
  BY <1>3, <1>4
<1>9. EditRow(q, round) = new
  BY <1>5
<1> HIDE DEF base
<1>10. /\ new \in PatchRow
       /\ new.status = base.status /\ new.op = base.op
       /\ new.targets = base.targets /\ new.results = base.results
       /\ new.staged = StagedIds(q) /\ new.snapshot = snap
  BY <1>2, <1>7, <1>8
<1> HIDE DEF new
<1> QED
  BY <1>6, <1>8, <1>9, <1>10

LEMMA StageTyped ==
  ASSUME Typed, NEW q \in Proposal, NEW round \in Nat, StagePatch(q, round)
  PROVE  /\ rules' \in [RuleId -> RuleRow]
         /\ patches' \in [PatchId -> PatchRow]
<1>1. rules' \in [RuleId -> RuleRow]
  BY StagedTyped, RowsTyped DEF StagePatch, Typed, OnlineTypeOK
<1>2. patches' = [patches EXCEPT ![q.id] = EditRow(q, round)]
  BY DEF StagePatch, EditRow
<1> QED
  BY <1>1, <1>2, EditRowTyped DEF Typed, OnlineTypeOK

LEMMA StageEditTyped ==
  ASSUME Typed, Registering, StageEdit
  PROVE  Typed'
<1>0. reg.step = "stage" /\ reg.step # "idle"
  BY DEF StageEdit
<1>1. reg \in [app : App, step : Steps]
  BY <1>0, RegTyped
<1>2. reg' \in [app : App, step : Steps]
  BY <1>1 DEF StageEdit, Steps
<1>3. rules' \in [RuleId -> RuleRow] /\ patches' \in [PatchId -> PatchRow]
  <2>1. CASE StagePatch(Edit[reg.app], apps[Edit[reg.app].id].created)
    BY <1>0, <2>1, RegEdit, StageTyped
  <2>2. CASE ~StagePatch(Edit[reg.app], apps[Edit[reg.app].id].created)
    BY <2>2 DEF StageEdit, StageKnownPatch, Typed, OnlineTypeOK
  <2> QED
    BY <2>1, <2>2
<1>4. precedents' = precedents
  BY DEF StageEdit, StagePatch, StageKnownPatch
<1> QED
  BY <1>2, <1>3, <1>4 DEF StageEdit, Typed, OnlineTypeOK, Steps

LEMMA ObservationTyped ==
  ASSUME NEW o \in Reports
  PROVE  /\ o \in Observation /\ o.app \in App /\ o.app \in PatchId
         /\ o.batch \in Nat /\ o.batch = batch
         /\ o.replay = Replay(o.app, o.task, o.outcome)
BY RoundsNat, OnlineAssumption DEF Reports, Observation

LEMMA RulesAfterTyped ==
  ASSUME Typed, NEW o \in Observation
  PROVE  RulesAfter(o) \in [RuleId -> RuleRow]
<1>1. \A r \in RuleId : RulesAfter(o)[r] \in RuleRow
  BY RulesAfterRow DEF SameRow
<1>2. RulesAfter(o) = [r \in RuleId |-> RulesAfter(o)[r]]
  BY DEF RulesAfter
<1> QED
  BY <1>1, <1>2

LEMMA ResolveTyped ==
  ASSUME Typed, NEW o \in Observation, NEW verdict \in {"supported", "harmful"},
         o.app \in PatchId, o.batch \in Nat, ResolvePatch(o, verdict)
  PROVE  /\ rules' \in [RuleId -> RuleRow]
         /\ patches' \in [PatchId -> PatchRow]
         /\ precedents' \in [PatchId -> Outcomes]
<1>0. RulesAfter(o) \in [RuleId -> RuleRow] /\ NoRule \in RuleRow
  BY RulesAfterTyped, RowsTyped
<1>1. CASE Edit[o.app] = NoEdit \/ patches[o.app].status # "pending"
  BY <1>0, <1>1 DEF ResolvePatch, Typed, OnlineTypeOK
<1>2. CASE ~(Edit[o.app] = NoEdit \/ patches[o.app].status # "pending")
  <2>1. Validated(o.app, RulesAfter(o)) \in [RuleId -> RuleRow]
    <3>1. \A row \in RuleRow : [row EXCEPT !.status = "validated"] \in RuleRow
      BY DEF RuleRow
    <3> QED
      BY <1>0, <3>1 DEF Validated
  <2>2. Restored(o.app, RulesAfter(o)) \in [RuleId -> RuleRow]
    <3>1. \A r \in RuleId : patches[o.app].snapshot[r] \in RuleRow
      BY RowTyped
    <3> QED
      BY <1>0, <3>1 DEF Restored
  <2>3. patches' \in [PatchId -> PatchRow]
    <3> DEFINE s == IF verdict = "supported" THEN "validated" ELSE "rolled_back"
               row == [patches[o.app] EXCEPT !.status = s, !.resolved = o.batch]
    <3>0. patches[o.app] \in PatchRow /\ s \in {"validated", "rolled_back"}
      BY DEF Typed, OnlineTypeOK
    <3>1. row \in PatchRow
      <4> HIDE DEF s
      <4> QED
        BY <3>0 DEF PatchRow
    <3>2. patches' = [patches EXCEPT ![o.app] = row]
      BY <1>2 DEF ResolvePatch, Typed, OnlineTypeOK
    <3> HIDE DEF row
    <3> QED
      BY <3>1, <3>2 DEF Typed, OnlineTypeOK
  <2>4. precedents' \in [PatchId -> Outcomes]
    BY <1>2 DEF ResolvePatch, AddPrecedent, Outcomes, Typed
  <2> QED
    BY <1>2, <2>1, <2>2, <2>3, <2>4 DEF ResolvePatch
<1> QED
  BY <1>1, <1>2

LEMMA VerdictValues ==
  ASSUME NEW seen
  PROVE  Verdict(seen) \in {"pending", "supported", "harmful"}
BY Zenon DEF Verdict

\* The three ways through record_evidence.
LEMMA RecordWays ==
  ASSUME NEW o \in Reports, RecordEvidence(o)
  PROVE  \/ UNCHANGED <<rules, patches, precedents, apps>>
         \/ /\ ~AuditOnly(o)
            /\ rules' = RulesAfter(o)
            /\ UNCHANGED <<patches, precedents, apps>>
         \/ /\ ~AuditOnly(o)
            /\ apps[o.app].status = "pending"
            /\ \E verdict \in {"supported", "harmful"} :
                 /\ verdict = Verdict(Decisive(o.app, observed'))
                 /\ SetStatus(o.app, verdict)
                 /\ ResolvePatch(o, verdict)
<1> DEFINE verdict == Verdict(Decisive(o.app, observed'))
<1>1. verdict \in {"pending", "supported", "harmful"}
  BY VerdictValues
<1>2. CASE AuditOnly(o)
  BY <1>2 DEF RecordEvidence
<1>3. CASE ~AuditOnly(o) /\ Undecided(o)
  BY <1>3 DEF RecordEvidence
<1>4. CASE ~AuditOnly(o) /\ ~Undecided(o)
  <2>1. Decide(o)
    BY <1>4 DEF RecordEvidence
  <2>2. CASE apps[o.app].status = "pending" /\ verdict # "pending"
    BY <1>1, <1>4, <2>1, <2>2 DEF Decide
  <2>3. CASE ~(apps[o.app].status = "pending" /\ verdict # "pending")
    BY <1>4, <2>1, <2>3 DEF Decide
  <2> QED
    BY <2>2, <2>3
<1> QED
  BY <1>2, <1>3, <1>4

LEMMA RecordTyped ==
  ASSUME Typed, NEW o \in Reports, RecordEvidence(o)
  PROVE  Typed'
<1>0. o \in Observation /\ o.app \in App /\ o.app \in PatchId /\ o.batch \in Nat
  BY ObservationTyped
<1>1. observed' \subseteq Observation /\ IsFiniteSet(observed')
  BY <1>0, FS_AddElement DEF RecordEvidence, Typed, OnlineTypeOK
<1>2. /\ rules' \in [RuleId -> RuleRow]
      /\ patches' \in [PatchId -> PatchRow]
      /\ precedents' \in [PatchId -> Outcomes]
      /\ apps' \in [App -> [status : Statuses, created : 0..MaxRound]]
  <2>1. CASE UNCHANGED <<rules, patches, precedents, apps>>
    BY <2>1 DEF Typed, OnlineTypeOK
  <2>2. CASE rules' = RulesAfter(o) /\ UNCHANGED <<patches, precedents, apps>>
    BY <1>0, <2>2, RulesAfterTyped DEF Typed, OnlineTypeOK
  <2>3. ASSUME NEW verdict \in {"supported", "harmful"},
               SetStatus(o.app, verdict), ResolvePatch(o, verdict)
        PROVE  <1>2!1 /\ <1>2!2 /\ <1>2!3 /\ <1>2!4
    BY <1>0, <2>3, SetStatusTyped, ResolveTyped DEF Statuses
  <2> QED
    BY <2>1, <2>2, <2>3, RecordWays
<1> QED
  BY <1>1, <1>2 DEF RecordEvidence, Typed, OnlineTypeOK

LEMMA AdvanceTyped ==
  ASSUME Typed, AdvanceBatch
  PROVE  Typed'
<1>1. ASSUME NEW r \in RuleId, batch > lastBatch
      PROVE  [rules[r] EXCEPT !.age = rules[r].age + (batch - lastBatch)] \in RuleRow
  <2>1. rules[r] \in RuleRow /\ rules[r].age \in Nat
    BY DEF Typed, OnlineTypeOK, RuleRow
  <2>2. rules[r].age + (batch - lastBatch) \in Nat
    BY <1>1, <2>1, RoundsNat DEF Typed, OnlineTypeOK
  <2> QED
    BY <2>1, <2>2 DEF RuleRow
<1>2. rules' \in [RuleId -> RuleRow] /\ lastBatch' \in 0..MaxRound
  <2>1. CASE batch <= lastBatch
    BY <2>1 DEF AdvanceBatch, Typed, OnlineTypeOK
  <2>2. CASE ~(batch <= lastBatch)
    <3>1. batch > lastBatch /\ batch \in 0..MaxRound
      BY <2>2, RoundsNat DEF Typed, OnlineTypeOK
    <3> QED
      BY <1>1, <2>2, <3>1 DEF AdvanceBatch, Typed, OnlineTypeOK
  <2> QED
    BY <2>1, <2>2
<1> QED
  BY <1>2 DEF AdvanceBatch, Typed, OnlineTypeOK

LEMMA PromoteTyped ==
  ASSUME Typed, PromoteOnline
  PROVE  Typed'
<1>1. ASSUME NEW r \in RuleId
      PROVE  [rules[r] EXCEPT !.tier = "stable"] \in RuleRow
  <2>1. rules[r] \in RuleRow
    BY DEF Typed, OnlineTypeOK
  <2> QED
    BY <2>1 DEF RuleRow
<1>2. rules' \in [RuleId -> RuleRow]
  BY <1>1, RowsTyped DEF PromoteOnline, Typed, OnlineTypeOK
<1>3. batch' \in Rounds
  BY RoundsNat, OnlineAssumption DEF PromoteOnline, Typed, OnlineTypeOK, Rounds
<1> QED
  BY <1>2, <1>3 DEF PromoteOnline, Typed, OnlineTypeOK

LEMMA TypesKept ==
  ASSUME Typed, Registering, [OnlineNext]_ovars
  PROVE  Typed'
<1>1. ASSUME NEW a \in App, RegisterCandidate(a)  PROVE Typed'
  <2>1. CASE Edit[a] # NoEdit /\ apps[a].status \in {"pending", "supported"}
    BY <1>1, <2>1 DEF RegisterCandidate, RegisterApplication, vars, Typed, OnlineTypeOK
  <2>2. CASE Admit(a, batch)
    <3>1. batch \in 0..MaxRound
      BY RoundsNat DEF Typed, OnlineTypeOK
    <3> QED
      BY <1>1, <2>2, <3>1, AdmitTyped DEF RegisterCandidate, vars, Typed, OnlineTypeOK, Steps
  <2> QED
    BY <1>1, <2>1, <2>2 DEF RegisterCandidate, RegisterApplication
<1>2. CASE Filter
  BY <1>2, FilterTyped
<1>3. CASE StageEdit
  BY <1>3, StageEditTyped
<1>4. CASE SaveApplication
  <2>1. reg.app \in App
    BY <1>4, RegTyped DEF SaveApplication
  <2>2. apps' \in [App -> [status : Statuses, created : 0..MaxRound]]
    BY <1>4, <2>1, SetStatusTyped DEF SaveApplication, Statuses
  <2> QED
    BY <1>4, <2>2 DEF SaveApplication, vars, Typed, OnlineTypeOK
<1>5. CASE StartRetry
  BY <1>5 DEF StartRetry, vars, Typed, OnlineTypeOK
<1>6. CASE RetryDeferred
  <2>1. PICK a \in retrying : retrying' = retrying \ {a} /\ Admit(a, apps[a].created)
    BY <1>6 DEF RetryDeferred
  <2>2. a \in App /\ apps[a].created \in 0..MaxRound
    BY DEF Typed, OnlineTypeOK
  <2> QED
    BY <1>6, <2>1, <2>2, AdmitTyped DEF RetryDeferred, vars, Typed, OnlineTypeOK, Steps
<1>7. ASSUME NEW o \in Reports, RecordEvidence(o)  PROVE Typed'
  BY <1>7, RecordTyped
<1>8. CASE AdvanceBatch
  BY <1>8, AdvanceTyped
<1>9. CASE PromoteOnline
  BY <1>9, PromoteTyped
<1>10. CASE Crash
  <2>1. batch' \in Rounds
    BY <1>10, RoundsNat, OnlineAssumption DEF Crash, Rounds
  <2>2. earlier' \subseteq App
    BY <1>10 DEF Crash
  <2> QED
    BY <1>10, <2>1, <2>2 DEF Crash, Typed, OnlineTypeOK
<1>11. CASE UNCHANGED ovars
  BY <1>11 DEF ovars, online, vars, Typed, OnlineTypeOK
<1> QED
  BY <1>1, <1>2, <1>3, <1>4, <1>5, <1>6, <1>7, <1>8, <1>9, <1>10, <1>11
     DEF OnlineNext, Register, Record, FinishRound

-----------------------------------------------------------------------------
\* A stored patch is the edit of its application, and both stand the same
\* until the application is registered again.
PatchTable ==
  \A p \in PatchId :
    /\ patches[p].status # "absent" =>
         /\ p \in App /\ Edit[p] # NoEdit
         /\ patches[p].op = Edit[p].op
         /\ patches[p].targets = Edit[p].targets
         /\ patches[p].results = Edit[p].results
    /\ patches[p].status # "deferred"
    /\ patches[p].status = "pending" => apps[p].status = "pending"
    /\ patches[p].status = "validated" =>
         apps[p].status = "supported" /\ precedents[p] = "success"
    /\ patches[p].status = "rolled_back" =>
         precedents[p] = "failure" /\ (apps[p].status = "harmful" \/ p \in reopened)
    /\ patches[p].status = "rejected" => precedents[p] = "none" \/ p \in reopened
    /\ patches[p].status \in {"absent", "pending"} => precedents[p] = "none"

\* A registration that has not staged its edit finds no standing row of it.
Unfinished ==
  reg.step \in {"filter", "stage", "defer"} =>
    patches[reg.app].status \in {"absent", "rejected", "rolled_back"}

\* Pending applications claim no common rule.
AppsApart ==
  \A a, b \in App :
    a # b /\ apps[a].status = "pending" /\ apps[b].status = "pending" =>
      ClaimedRules(a) \cap ClaimedRules(b) = {}

(* What the tables keep, whatever the stream and the crashes do.           *)
TablesInv == Registering /\ PatchTable /\ Unfinished /\ AppsApart

LEMMA TablesStart == OnlineInit => TablesInv
<1> SUFFICES ASSUME OnlineInit  PROVE TablesInv
  OBVIOUS
<1>1. \A p \in PatchId : patches[p].status = "absent" /\ precedents[p] = "none"
  BY DEF OnlineInit, Init, NoPatchRow
<1>2. \A a \in App : apps[a].status = "absent"
  BY DEF OnlineInit
<1>3. reg.step = "idle" /\ accepted = {} /\ retrying = {}
  BY IdleStep DEF OnlineInit, Init
<1> QED
  BY <1>1, <1>2, <1>3 DEF TablesInv, Registering, PatchTable, Unfinished, AppsApart

\* Nothing but the rules changes.
LEMMA TablesStay ==
  ASSUME TablesInv, UNCHANGED <<apps, patches, precedents, reg, retrying, accepted, reopened>>
  PROVE  TablesInv'
BY DEF TablesInv, Registering, PatchTable, Unfinished, AppsApart, ClaimedRules

\* An application is admitted, first or again, and after a verdict too: it is
\* then known as reopened.
LEMMA AdmitKeeps ==
  ASSUME Typed, TablesInv, reg = Idle, NEW a \in App, NEW created \in 0..MaxRound,
         Admit(a, created), retrying' \subseteq retrying \ {a}, UNCHANGED vars,
         reopened \subseteq reopened',
         \/ apps[a].status \in {"absent", "deferred"}
         \/ apps[a].status \in {"pending", "supported"} /\ Edit[a] = NoEdit
         \/ apps[a].status = "harmful" /\ a \in reopened'
  PROVE  TablesInv'
<1>1. /\ apps'[a].status = IF PendingConflict(a) THEN "deferred" ELSE "pending"
      /\ \A b \in App \ {a} : apps'[b] = apps[b]
  BY DEF Admit, Typed, OnlineTypeOK
<1>2. \A p \in PatchId :
        /\ patches[p].status \in {"pending", "validated"} => p # a
        /\ patches[p].status = "rolled_back" => p # a \/ p \in reopened'
  BY DEF TablesInv, PatchTable
<1>3. a \in PatchId /\ patches[a].status \in {"absent", "rejected", "rolled_back"}
  <2>1. a \in PatchId /\ patches[a] \in PatchRow
    BY OnlineAssumption DEF Typed, OnlineTypeOK
  <2> QED
    BY <1>2, <2>1 DEF TablesInv, PatchTable, PatchRow
<1>4. PatchTable'
  <2> SUFFICES ASSUME NEW p \in PatchId
               PROVE  (PatchTable!(p))'
    BY DEF PatchTable
  <2>1. patches'[p] = patches[p] /\ precedents'[p] = precedents[p]
    BY DEF vars
  <2>2. PatchTable!(p)
    BY DEF TablesInv, PatchTable
  <2>3. /\ patches[p].status \in {"pending", "validated"} => apps'[p] = apps[p]
        /\ patches[p].status = "rolled_back" => apps'[p] = apps[p] \/ p \in reopened'
    BY <1>1, <1>2, <2>2
  <2> QED
    BY <2>1, <2>2, <2>3
<1>5. Registering' /\ Unfinished'
  <2>1. \A b \in retrying' : apps'[b].status = "deferred"
    BY <1>1 DEF TablesInv, Registering, Typed, OnlineTypeOK
  <2>2. accepted' = {}
    BY IdleStep DEF TablesInv, Registering, vars
  <2>3. CASE PendingConflict(a) \/ Edit[a] = NoEdit
    BY <2>1, <2>2, <2>3, IdleStep DEF Admit, Registering, Unfinished
  <2>4. CASE ~(PendingConflict(a) \/ Edit[a] = NoEdit)
    <3>1. reg' = [app |-> a, step |-> "filter"]
      BY <2>4 DEF Admit
    <3> QED
      BY <1>1, <1>3, <2>1, <2>2, <2>4, <3>1 DEF Registering, Unfinished, vars
  <2> QED
    BY <2>3, <2>4
<1>6. AppsApart'
  <2>1. \A b \in App \ {a} : apps'[a].status = "pending" /\ apps[b].status = "pending" =>
                              ClaimedRules(a) \cap ClaimedRules(b) = {}
    BY <1>1 DEF PendingConflict, Unresolved
  <2> QED
    BY <1>1, <2>1 DEF TablesInv, AppsApart, ClaimedRules
<1> QED
  BY <1>4, <1>5, <1>6 DEF TablesInv

LEMMA FilterKeeps ==
  ASSUME Typed, TablesInv, Filter
  PROVE  TablesInv'
<1> DEFINE q == Edit[reg.app]
<1>0. reg.step = "filter" /\ reg.step # "idle"
  BY DEF Filter
<1>1. /\ reg \in [app : App, step : Steps] /\ reg.app \in App /\ reg.app \in PatchId
      /\ q # NoEdit /\ q \in Proposal /\ q.id = reg.app
      /\ apps[reg.app].status = "pending"
  BY <1>0, RegTyped, RegEdit DEF TablesInv
<1>2. reg'.app = reg.app /\ reg'.step \in {"stage", "defer"}
  BY <1>1 DEF Filter
<1>3. patches[reg.app].status \in {"absent", "rejected", "rolled_back"}
  BY <1>0 DEF TablesInv, Unfinished
<1>4. CASE Acceptable(q)
  <2>1. UNCHANGED <<apps, patches, precedents, retrying, reopened>> /\ accepted' = {q} /\ reg'.step = "stage"
    BY <1>1, <1>4 DEF Filter
  <2> QED
    BY <1>1, <1>2, <1>3, <2>1
       DEF TablesInv, Registering, PatchTable, Unfinished, AppsApart, ClaimedRules
<1>5. CASE ~Acceptable(q)
  <2>1. /\ UNCHANGED <<apps, precedents, retrying, accepted, reopened>> /\ reg'.step = "defer"
        /\ patches' = [patches EXCEPT ![reg.app] = Unstaged(q, "rejected")]
    BY <1>1, <1>5 DEF Filter
  <2>2. /\ Unstaged(q, "rejected").status = "rejected" /\ Unstaged(q, "rejected").op = q.op
        /\ Unstaged(q, "rejected").targets = q.targets
        /\ Unstaged(q, "rejected").results = q.results
    BY DEF Unstaged, NoPatchRow
  <2>3. /\ patches'[reg.app] = Unstaged(q, "rejected")
        /\ \A p \in PatchId \ {reg.app} : patches'[p] = patches[p]
    BY <1>1, <2>1 DEF Typed, OnlineTypeOK
  <2>4. precedents[reg.app] = "none" \/ reg.app \in reopened
    BY <1>1, <1>3 DEF TablesInv, PatchTable
  <2>5. PatchTable'
    <3> SUFFICES ASSUME NEW p \in PatchId
                 PROVE  (PatchTable!(p))'
      BY DEF PatchTable
    <3>1. CASE p = reg.app
      BY <1>1, <2>1, <2>2, <2>3, <2>4, <3>1
    <3>2. CASE p # reg.app
      BY <2>1, <2>3, <3>2 DEF TablesInv, PatchTable
    <3> QED
      BY <3>1, <3>2
  <2>6. Registering' /\ Unfinished' /\ AppsApart'
    BY <1>0, <1>1, <1>2, <2>1, <2>2, <2>3
       DEF TablesInv, Registering, Unfinished, AppsApart, ClaimedRules
  <2> QED
    BY <2>5, <2>6 DEF TablesInv
<1> QED
  BY <1>4, <1>5

LEMMA StageKeeps ==
  ASSUME Typed, TablesInv, StageEdit
  PROVE  TablesInv'
<1> DEFINE q == Edit[reg.app]
           round == apps[q.id].created
<1>0. reg.step = "stage" /\ reg.step # "idle"
  BY DEF StageEdit
<1>1. /\ reg \in [app : App, step : Steps] /\ reg.app \in App /\ reg.app \in PatchId
      /\ q # NoEdit /\ q \in Proposal /\ q.id = reg.app /\ round \in Nat
      /\ apps[reg.app].status = "pending" /\ accepted = {q}
  <2>1. accepted = {q}
    BY <1>0 DEF TablesInv, Registering
  <2> QED
    BY <1>0, <2>1, RegTyped, RegEdit DEF TablesInv
<1>2. patches[reg.app].status \in {"absent", "rejected", "rolled_back"}
  BY <1>0 DEF TablesInv, Unfinished
<1>3. reg'.app = reg.app /\ reg'.step \in {"keep", "defer"}
  BY <1>1 DEF StageEdit
<1>4. UNCHANGED <<apps, retrying, reopened>> /\ accepted' = {} /\ precedents' = precedents
  BY <1>1 DEF StageEdit, StagePatch, StageKnownPatch
<1>5. Registering' /\ AppsApart'
  BY <1>1, <1>3, <1>4 DEF TablesInv, Registering, AppsApart, ClaimedRules
<1>6. CASE StagePatch(q, round) /\ reg'.step = "keep"
  <2>1. patches' = [patches EXCEPT ![reg.app] = EditRow(q, round)]
    BY <1>1, <1>6 DEF StagePatch, EditRow
  <2> DEFINE row == EditRow(q, round)
  <2>2. /\ row.status = "pending" /\ row.op = q.op
        /\ row.targets = q.targets /\ row.results = q.results
    BY <1>1, EditRowTyped
  <2>3. /\ patches'[reg.app] = row
        /\ \A p \in PatchId \ {reg.app} : patches'[p] = patches[p]
    BY <1>1, <2>1 DEF Typed, OnlineTypeOK
  <2> HIDE DEF row
  <2>4. precedents[reg.app] = "none"
    BY <1>1, <1>6 DEF TablesInv, PatchTable, StagePatch
  <2>5. PatchTable'
    <3> SUFFICES ASSUME NEW p \in PatchId
                 PROVE  (PatchTable!(p))'
      BY DEF PatchTable
    <3>1. CASE p = reg.app
      BY <1>1, <1>4, <2>2, <2>3, <2>4, <3>1
    <3>2. CASE p # reg.app
      BY <1>4, <2>3, <3>2 DEF TablesInv, PatchTable
    <3> QED
      BY <3>1, <3>2
  <2>6. Unfinished'
    BY <1>6 DEF Unfinished
  <2> QED
    BY <1>5, <2>5, <2>6 DEF TablesInv
<1>7. CASE UNCHANGED patches
  BY <1>2, <1>3, <1>4, <1>5, <1>7 DEF TablesInv, PatchTable, Unfinished
<1> QED
  BY <1>1, <1>6, <1>7 DEF StageEdit, StageKnownPatch

LEMMA SaveKeeps ==
  ASSUME Typed, TablesInv, SaveApplication
  PROVE  TablesInv'
<1>0. reg.step \in {"keep", "defer"} /\ reg.step # "idle" /\ reg.step # "stage"
  BY DEF SaveApplication
<1>1. reg.app \in App /\ apps[reg.app].status = "pending"
  BY <1>0, RegEdit DEF TablesInv
<1>2. /\ apps'[reg.app].status = IF reg.step = "keep" THEN "pending" ELSE "deferred"
      /\ \A b \in App \ {reg.app} : apps'[b] = apps[b]
      /\ UNCHANGED <<patches, precedents, retrying, accepted, reopened>> /\ reg' = Idle
  BY <1>1 DEF SaveApplication, SetStatus, vars, Typed, OnlineTypeOK
<1>3. \A b \in App :
        \/ apps'[b].status = apps[b].status
        \/ b = reg.app /\ reg.step = "defer" /\ apps'[b].status = "deferred"
  BY <1>0, <1>1, <1>2
<1>4. Registering'
  BY <1>0, <1>1, <1>2, IdleStep DEF TablesInv, Registering, Typed, OnlineTypeOK
<1>5. PatchTable'
  <2> SUFFICES ASSUME NEW p \in PatchId
               PROVE  (PatchTable!(p))'
    BY DEF PatchTable
  <2>1. PatchTable!(p) /\ patches'[p] = patches[p] /\ precedents'[p] = precedents[p]
    BY <1>2 DEF TablesInv, PatchTable
  <2>2. /\ patches[p].status \in {"pending", "validated"} =>
             p \in App /\ ~(p = reg.app /\ reg.step = "defer")
        /\ patches[p].status = "rolled_back" =>
             p \in App /\ (p # reg.app \/ p \in reopened)
    BY <1>1, <2>1 DEF TablesInv, Unfinished
  <2> QED
    BY <1>2, <1>3, <2>1, <2>2
<1>6. Unfinished' /\ AppsApart'
  BY <1>2, <1>3, IdleStep DEF TablesInv, Unfinished, AppsApart, ClaimedRules
<1> QED
  BY <1>4, <1>5, <1>6 DEF TablesInv

LEMMA RecordKeeps ==
  ASSUME Typed, TablesInv, NEW o \in Reports, RecordEvidence(o)
  PROVE  TablesInv'
<1>0. o \in Observation /\ o.app \in App /\ o.app \in PatchId
  BY ObservationTyped
<1>1. reg.step = "idle" /\ retrying = {} /\ UNCHANGED <<reg, retrying, accepted, reopened>>
  BY IdleStep DEF RecordEvidence
<1>2. CASE UNCHANGED <<patches, precedents, apps>>
  BY <1>1, <1>2, TablesStay
<1>3. ASSUME NEW verdict \in {"supported", "harmful"}, apps[o.app].status = "pending",
             SetStatus(o.app, verdict), ResolvePatch(o, verdict)
      PROVE  TablesInv'
  <2>1. /\ apps'[o.app].status = verdict
        /\ \A b \in App \ {o.app} : apps'[b] = apps[b]
    BY <1>0, <1>3 DEF SetStatus, Typed, OnlineTypeOK
  <2>2. Registering' /\ Unfinished' /\ AppsApart'
    BY <1>1, <2>1 DEF TablesInv, Registering, Unfinished, AppsApart, ClaimedRules
  <2>3. CASE Edit[o.app] = NoEdit \/ patches[o.app].status # "pending"
    <3>1. UNCHANGED <<patches, precedents>>
      BY <1>3, <2>3 DEF ResolvePatch
    <3>2. /\ patches[o.app].status \notin {"pending", "validated"}
          /\ patches[o.app].status = "rolled_back" => o.app \in reopened
      BY <1>0, <1>3, <2>3 DEF TablesInv, PatchTable
    <3>3. PatchTable'
      <4> SUFFICES ASSUME NEW p \in PatchId
                   PROVE  (PatchTable!(p))'
        BY DEF PatchTable
      <4>1. PatchTable!(p) /\ patches'[p] = patches[p] /\ precedents'[p] = precedents[p]
        BY <3>1 DEF TablesInv, PatchTable
      <4> QED
        BY <1>1, <2>1, <3>2, <4>1
    <3> QED
      BY <2>2, <3>3 DEF TablesInv
  <2>4. CASE ~(Edit[o.app] = NoEdit \/ patches[o.app].status # "pending")
    <3> DEFINE s == IF verdict = "supported" THEN "validated" ELSE "rolled_back"
               c == IF verdict = "supported" THEN "success" ELSE "failure"
               row == [patches[o.app] EXCEPT !.status = s, !.resolved = o.batch]
    <3>1. precedents[o.app] = "none"
      BY <1>0, <2>4 DEF TablesInv, PatchTable
    <3>2. /\ patches' = [patches EXCEPT ![o.app] = row]
          /\ precedents' = [precedents EXCEPT ![o.app] = c]
      BY <1>0, <1>3, <2>4, <3>1 DEF ResolvePatch, AddPrecedent, Typed, OnlineTypeOK
    <3>3. /\ row.status = s /\ row.op = patches[o.app].op
          /\ row.targets = patches[o.app].targets /\ row.results = patches[o.app].results
      BY <1>0 DEF Typed, OnlineTypeOK, PatchRow
    <3>4. /\ patches'[o.app] = row /\ precedents'[o.app] = c
          /\ \A p \in PatchId \ {o.app} : patches'[p] = patches[p] /\ precedents'[p] = precedents[p]
      BY <1>0, <3>2 DEF Typed, OnlineTypeOK
    <3> HIDE DEF row
    <3>5. PatchTable'
      <4> SUFFICES ASSUME NEW p \in PatchId
                   PROVE  (PatchTable!(p))'
        BY DEF PatchTable
      <4>1. CASE p = o.app
        BY <1>0, <2>1, <2>4, <3>3, <3>4, <4>1 DEF TablesInv, PatchTable
      <4>2. CASE p # o.app
        BY <1>1, <2>1, <3>4, <4>2 DEF TablesInv, PatchTable
      <4> QED
        BY <4>1, <4>2
    <3> QED
      BY <2>2, <3>5 DEF TablesInv
  <2> QED
    BY <2>3, <2>4
<1> QED
  BY <1>2, <1>3, RecordWays

LEMMA TablesKept ==
  ASSUME Typed, TablesInv, [OnlineNext]_ovars
  PROVE  TablesInv'
<1>1. ASSUME NEW a \in App, RegisterCandidate(a)  PROVE TablesInv'
  <2>0. /\ reg = Idle /\ retrying = {} /\ retrying' = {} /\ UNCHANGED vars
        /\ RegisterApplication(a)
        /\ reopened' = reopened \cup {b \in {a} : Decided(b) /\ apps'[b] # apps[b]}
        /\ apps[a].status \in Statuses
    BY <1>1 DEF RegisterCandidate, Typed, OnlineTypeOK
  <2>1. CASE Edit[a] # NoEdit /\ apps[a].status \in {"pending", "supported"}
    BY <2>0, <2>1, TablesStay DEF RegisterApplication, vars, Decided
  <2>2. CASE ~(Edit[a] # NoEdit /\ apps[a].status \in {"pending", "supported"})
    <3>1. Admit(a, batch) /\ batch \in 0..MaxRound
      BY <2>0, <2>2, RoundsNat DEF RegisterApplication, Typed, OnlineTypeOK
    <3>2. apps[a].status = "harmful" => a \in reopened'
      <4>1. apps'[a].status \in {"pending", "deferred"}
        BY <3>1 DEF Admit, Typed, OnlineTypeOK
      <4> QED
        BY <2>0, <4>1 DEF Decided
    <3> QED
      BY <2>0, <2>2, <3>1, <3>2, AdmitKeeps DEF Statuses
  <2> QED
    BY <2>1, <2>2
<1>2. CASE Filter
  BY <1>2, FilterKeeps
<1>3. CASE StageEdit
  BY <1>3, StageKeeps
<1>4. CASE SaveApplication
  BY <1>4, SaveKeeps
<1>5. CASE StartRetry
  BY <1>5 DEF StartRetry, vars, TablesInv, Registering, PatchTable, Unfinished, AppsApart,
              ClaimedRules
<1>6. CASE RetryDeferred
  <2>1. PICK a \in retrying : retrying' = retrying \ {a} /\ Admit(a, apps[a].created)
    BY <1>6 DEF RetryDeferred
  <2>2. /\ a \in App /\ apps[a].created \in 0..MaxRound /\ apps[a].status = "deferred"
        /\ reg = Idle /\ UNCHANGED <<vars, reopened>>
    BY <1>6 DEF RetryDeferred, Typed, OnlineTypeOK, TablesInv, Registering
  <2> QED
    BY <2>1, <2>2, AdmitKeeps
<1>7. ASSUME NEW o \in Reports, RecordEvidence(o)  PROVE TablesInv'
  BY <1>7, RecordKeeps
<1>8. CASE AdvanceBatch
  BY <1>8, TablesStay DEF AdvanceBatch
<1>9. CASE PromoteOnline
  BY <1>9, TablesStay DEF PromoteOnline
<1>10. CASE Crash
  <2>1. /\ UNCHANGED <<apps, patches, precedents, reopened>> /\ reg'.step = "idle"
        /\ retrying' = {} /\ accepted' = {}
    BY <1>10, IdleStep DEF Crash
  <2> QED
    BY <2>1 DEF TablesInv, Registering, PatchTable, Unfinished, AppsApart, ClaimedRules
<1>11. CASE UNCHANGED ovars
  BY <1>11, TablesStay DEF ovars, online, vars
<1> QED
  BY <1>1, <1>2, <1>3, <1>4, <1>5, <1>6, <1>7, <1>8, <1>9, <1>10, <1>11
     DEF OnlineNext, Register, Record, FinishRound

LEMMA TablesHold == OnlineSpec => [](Typed /\ TablesInv)
<1>1. OnlineInit => Typed /\ TablesInv
  BY TypesStart, TablesStart
<1>2. (Typed /\ TablesInv) /\ [OnlineNext]_ovars => (Typed /\ TablesInv)'
  BY TypesKept, TablesKept DEF TablesInv
<1> QED
  BY <1>1, <1>2, PTL DEF OnlineSpec

-----------------------------------------------------------------------------
\* One observation per application and task, and replays told by their task.
ObservedOnce ==
  /\ \A o \in observed : o.replay = Replay(o.app, o.task, o.outcome)
  /\ \A o1, o2 \in observed : o1.app = o2.app /\ o1.task = o2.task => o1 = o2

LEMMA ObservedStep ==
  ASSUME Typed, [OnlineNext]_ovars
  PROVE  \/ observed' = observed
         \/ \E o \in Reports :
              /\ o \notin observed /\ observed' = observed \cup {o}
              /\ \A e \in observed : ~(e.app = o.app /\ e.task = o.task)
              /\ RecordEvidence(o)
<1>1. ASSUME NEW o \in Reports, RecordEvidence(o)
      PROVE  /\ o \notin observed /\ observed' = observed \cup {o}
             /\ \A e \in observed : ~(e.app = o.app /\ e.task = o.task)
  BY <1>1 DEF RecordEvidence
<1> QED
  BY <1>1 DEF OnlineNext, Register, RegisterCandidate, Filter, StageEdit, SaveApplication,
              StartRetry, RetryDeferred, Record, FinishRound, AdvanceBatch, PromoteOnline,
              Crash, ovars, online

LEMMA ObservedOnceKept ==
  ASSUME Typed, ObservedOnce, [OnlineNext]_ovars
  PROVE  ObservedOnce'
<1>1. CASE observed' = observed
  BY <1>1 DEF ObservedOnce, Replay
<1>2. ASSUME NEW o \in Reports, observed' = observed \cup {o},
             \A e \in observed : ~(e.app = o.app /\ e.task = o.task)
      PROVE  ObservedOnce'
  BY <1>2, ObservationTyped DEF ObservedOnce, Replay
<1> QED
  BY <1>1, <1>2, ObservedStep

\* What decides about application a, as VerdictsEarned counts it.
Seen(a) ==
  {o \in observed : o.app = a /\ o.outcome # "neutral"
                   /\ o.task \notin
                      (IF o.outcome = "improvement" THEN OriginTasks[a] ELSE {})}

LEMMA SeenDecides ==
  ASSUME ObservedOnce, NEW a \in App
  PROVE  Decisive(a, observed) = Seen(a)
BY DEF Decisive, Seen, ObservedOnce, Replay

\* Enough observations of one application are enough tasks: no task counts
\* twice.
SeenCounted ==
  \A a \in App :
    Cardinality({<<o.task, o.batch>> : o \in Seen(a)}) = Cardinality(Seen(a))

LEMMA SeenApart == Typed /\ ObservedOnce => SeenCounted
<1> SUFFICES ASSUME Typed, ObservedOnce, NEW a \in App
             PROVE  Cardinality({<<o.task, o.batch>> : o \in Seen(a)}) = Cardinality(Seen(a))
  BY DEF SeenCounted
<1> DEFINE S == Seen(a)
           T == {<<o.task, o.batch>> : o \in S}
           f == [o \in S |-> <<o.task, o.batch>>]
<1>1. IsFiniteSet(S)
  BY FS_Subset DEF Seen, Typed
<1>2. \A o1, o2 \in S : o1.task = o2.task => o1 = o2
  BY DEF Seen, ObservedOnce
<1>3. f \in [S -> T]
  OBVIOUS
<1>4. \A o1, o2 \in S : f[o1] = f[o2] => o1 = o2
  BY <1>2
<1>5. \A t \in T : \E o \in S : f[o] = t
  OBVIOUS
<1> HIDE DEF S, T, f
<1>6. f \in Surjection(S, T) /\ f \in Injection(S, T)
  BY <1>3, <1>4, <1>5, Fun_IsInj, Fun_IsSurj
<1>7. Cardinality(S) = Cardinality(T)
  BY <1>1, <1>6, FS_Surjection
<1> QED
  BY <1>7 DEF S, T

\* What one step may do to a verdict.
Justified(a) ==
  /\ Decided(a) /\ apps'[a] # apps[a] =>
       /\ a \in earlier \ earlier'
       /\ ~Decided(a)'
       /\ Edit[a] # NoEdit => apps[a].status = "harmful"
  /\ Decided(a)' /\ apps'[a] # apps[a] =>
       /\ \E o \in observed' \ observed : o.app = a /\ o.fresh /\ a \in Attributable
       /\ EnoughEvidence(Seen(a)')

LEMMA VerdictStep ==
  ASSUME Typed, TablesInv, [OnlineNext]_ovars, ObservedOnce', NEW a \in App
  PROVE  Justified(a)
<1>1. ASSUME NEW b \in App, NEW created \in 0..MaxRound, Admit(b, created),
             Decided(b) => /\ b \in earlier \ earlier'
                           /\ Edit[b] # NoEdit => apps[b].status = "harmful"
      PROVE  Justified(a)
  <2>1. /\ apps'[b].status \in {"pending", "deferred"}
        /\ a # b => apps'[a] = apps[a]
    BY <1>1 DEF Admit, Typed, OnlineTypeOK
  <2> QED
    BY <1>1, <2>1 DEF Justified, Decided
<1>2. CASE UNCHANGED apps
  BY <1>2 DEF Justified
<1>3. ASSUME NEW b \in App, RegisterCandidate(b)  PROVE Justified(a)
  <2>1. /\ RegisterApplication(b) /\ earlier' = earlier \ {b}
        /\ Decided(b) => b \in earlier
    BY <1>3 DEF RegisterCandidate, Decided
  <2>2. batch \in 0..MaxRound
    BY RoundsNat DEF Typed, OnlineTypeOK
  <2>3. CASE UNCHANGED apps
    BY <1>2, <2>3
  <2>4. CASE /\ Admit(b, batch)
             /\ ~(Edit[b] # NoEdit /\ apps[b].status \in {"pending", "supported"})
    BY <1>1, <2>1, <2>2, <2>4 DEF Decided
  <2> QED
    BY <2>1, <2>3, <2>4 DEF RegisterApplication
<1>4. CASE SaveApplication
  <2>1. reg.app \in App /\ apps[reg.app].status = "pending"
    BY <1>4, RegEdit DEF TablesInv, SaveApplication
  <2>2. /\ apps'[reg.app].status \in {"pending", "deferred"}
        /\ a # reg.app => apps'[a] = apps[a]
    BY <1>4, <2>1 DEF SaveApplication, SetStatus, Typed, OnlineTypeOK
  <2> QED
    BY <2>1, <2>2 DEF Justified, Decided
<1>5. CASE RetryDeferred
  <2>1. PICK b \in retrying : Admit(b, apps[b].created)
    BY <1>5 DEF RetryDeferred
  <2>2. b \in App /\ apps[b].status = "deferred" /\ apps[b].created \in 0..MaxRound
    BY DEF Typed, OnlineTypeOK, TablesInv, Registering
  <2> QED
    BY <1>1, <2>1, <2>2 DEF Decided
<1>6. ASSUME NEW o \in Reports, RecordEvidence(o)  PROVE Justified(a)
  <2>1. ASSUME NEW verdict \in {"supported", "harmful"}, apps[o.app].status = "pending",
               verdict = Verdict(Decisive(o.app, observed')), SetStatus(o.app, verdict),
               ~AuditOnly(o)
        PROVE  Justified(a)
    <3>1. o.app \in App
      BY ObservationTyped
    <3>2. Decisive(o.app, observed') = Seen(o.app)'
      BY <3>1, ObservedOnce' DEF Decisive, Seen, ObservedOnce, Replay
    <3>3. EnoughEvidence(Seen(o.app)')
      BY <2>1, <3>2, Zenon DEF Verdict
    <3>4. apps[o.app].status = "pending" /\ (a # o.app => apps'[a] = apps[a])
      BY <2>1, <3>1 DEF SetStatus, Typed, OnlineTypeOK
    <3>5. o \in observed' \ observed /\ o.fresh /\ o.app \in Attributable
      BY <1>6, <2>1 DEF RecordEvidence, AuditOnly
    <3>6. CASE a = o.app
      BY <3>3, <3>4, <3>5, <3>6 DEF Justified, Decided
    <3>7. CASE a # o.app
      BY <3>4, <3>7 DEF Justified, Decided
    <3> QED
      BY <3>6, <3>7
  <2>2. \/ UNCHANGED apps
        \/ /\ apps[o.app].status = "pending" /\ ~AuditOnly(o)
           /\ \E verdict \in {"supported", "harmful"} :
                verdict = Verdict(Decisive(o.app, observed')) /\ SetStatus(o.app, verdict)
    BY <1>6, RecordWays
  <2> QED
    BY <1>2, <2>1, <2>2
<1> QED
  BY <1>2, <1>3, <1>4, <1>5, <1>6
     DEF OnlineNext, Register, Filter, StageEdit, StartRetry, Record, FinishRound,
         AdvanceBatch, PromoteOnline, Crash, ovars, online

(* A verdict comes with a fresh observation of an attributable application *)
(* and rests on enough stored ones of enough tasks and batches, of which   *)
(* none is the replay of the failure the candidate was made for.  Nothing  *)
(* takes it back but a stream run again that meets the application again,  *)
(* and that never if it was supported with a patch (record_evidence,       *)
(* register_application).                                                  *)
THEOREM VerdictsFinal == OnlineSpec => VerdictsEarned
<1>1. OnlineInit => ObservedOnce
  BY DEF OnlineInit, ObservedOnce
<1>2. Typed /\ ObservedOnce /\ [OnlineNext]_ovars => ObservedOnce'
  BY ObservedOnceKept
<1>3. Typed /\ TablesInv /\ Typed' /\ ObservedOnce' /\ [OnlineNext]_ovars =>
        [\A a \in App :
           LET seen == {o \in observed' : o.app = a /\ o.outcome # "neutral"
                                          /\ o.task \notin
                                             (IF o.outcome = "improvement" THEN OriginTasks[a] ELSE {})}
           IN  /\ Decided(a) /\ apps'[a] # apps[a] =>
                    /\ a \in earlier \ earlier'
                    /\ ~Decided(a)'
                    /\ Edit[a] # NoEdit => apps[a].status = "harmful"
               /\ Decided(a)' /\ apps'[a] # apps[a] =>
                    /\ \E o \in observed' \ observed : o.app = a /\ o.fresh /\ a \in Attributable
                    /\ Cardinality({<<o.task, o.batch>> : o \in seen}) >= MinDecisive
                    /\ Cardinality({o.task : o \in seen}) >= DistinctTasks
                    /\ Cardinality({o.batch : o \in seen}) >= DistinctBatches]_ovars
  <2> SUFFICES ASSUME Typed, TablesInv, Typed', ObservedOnce', [OnlineNext]_ovars,
                      NEW a \in App
               PROVE  LET seen == Seen(a)'
                      IN  /\ Decided(a) /\ apps'[a] # apps[a] =>
                               /\ a \in earlier \ earlier'
                               /\ ~Decided(a)'
                               /\ Edit[a] # NoEdit => apps[a].status = "harmful"
                          /\ Decided(a)' /\ apps'[a] # apps[a] =>
                               /\ \E o \in observed' \ observed :
                                    o.app = a /\ o.fresh /\ a \in Attributable
                               /\ Cardinality({<<o.task, o.batch>> : o \in seen}) >= MinDecisive
                               /\ Cardinality({o.task : o \in seen}) >= DistinctTasks
                               /\ Cardinality({o.batch : o \in seen}) >= DistinctBatches
    BY DEF Seen
  <2>1. SeenCounted'
    BY SeenApart, PTL
  <2> QED
    BY <2>1, VerdictStep DEF Justified, EnoughEvidence, SeenCounted
<1>4. OnlineSpec => [](Typed /\ TablesInv)
  BY TablesHold
<1> QED
  BY <1>1, <1>2, <1>3, <1>4, PTL DEF OnlineSpec, VerdictsEarned

-----------------------------------------------------------------------------
\* The result rules of a patch carry its id in their names
\* (_build_core_patch), so no two edits create a rule of the same name, nor
\* one a store is seeded with.
ResultsNamedApart ==
  /\ \A a, b \in App :
       a # b /\ Edit[a] # NoEdit /\ Edit[b] # NoEdit => Edit[a].results \cap Edit[b].results = {}
  /\ \A a \in App, seed \in Seeds :
       Edit[a] # NoEdit => Edit[a].results \cap (seed.volatile \cup seed.stable) = {}

\* A stored version of rule r names the application that made it.
MadeBy(r, row) ==
  row.source \in App /\ Edit[row.source] # NoEdit /\ r \in Edit[row.source].results

Won(r) == Improvements({o \in Sources(r) : ~o.replay})
Lost(r) == {o \in {o \in Sources(r) : ~o.replay} : o.outcome = "regression"}

\* The versions of rule r that the observations so far vouch for.
Vouched(r) ==
  {row \in RuleRow :
     row.tier # "absent" /\ row.source # NoPatch =>
       /\ MadeBy(r, row)
       /\ row.successes <= Cardinality(Won(r))
       /\ row.failures <= Cardinality(Lost(r))
       /\ row.wonIn \subseteq {o.batch : o \in Won(r)}
       /\ row.recovered => \E o \in Sources(r) : o.replay
       /\ row.status = "validated" => apps[row.source].status = "supported"
       /\ row.tier = "stable" =>
            /\ row.status = "validated"
            /\ Cardinality(row.wonIn) >= PromotionBatches
            /\ row.needs => row.recovered}

(* What the tables hold of a rule, now or for a rollback, is vouched for.  *)
LearnedInv ==
  \A r \in RuleId :
    /\ rules[r] \in Vouched(r)
    /\ \A p \in PendingPatches : patches[p].snapshot[r] \in Vouched(r)

LEMMA NoRuleVouched ==
  ASSUME NEW r \in RuleId
  PROVE  NoRule \in Vouched(r)
<1>1. NoRule.tier = "absent"
  BY DEF NoRule, FreshRule
<1> QED
  BY <1>1, RowsTyped DEF Vouched

LEMMA LearnedStart == OnlineInit => LearnedInv
<1> SUFFICES ASSUME OnlineInit, NEW r \in RuleId
             PROVE  /\ rules[r] \in Vouched(r)
                    /\ \A p \in PendingPatches : patches[p].snapshot[r] \in Vouched(r)
  BY DEF LearnedInv
<1>1. PendingPatches = {}
  BY DEF OnlineInit, Init, NoPatchRow, PendingPatches
<1>2. rules[r].source = NoPatch
  BY DEF OnlineInit, Init, FreshRule, NoRule
<1>3. rules[r] \in RuleRow
  BY TypesStart DEF Typed, OnlineTypeOK
<1> QED
  BY <1>1, <1>2, <1>3 DEF Vouched

LEMMA EvidenceFinite ==
  ASSUME IsFiniteSet(observed), NEW r \in RuleId
  PROVE  /\ IsFiniteSet(Won(r)) /\ IsFiniteSet(Lost(r))
         /\ Cardinality(Won(r)) \in Nat /\ Cardinality(Lost(r)) \in Nat
<1>1. Won(r) \subseteq observed /\ Lost(r) \subseteq observed
  BY DEF Won, Lost, Improvements, Sources
<1> QED
  BY <1>1, FS_Subset, FS_CardinalityType

\* What is vouched for stays so while evidence comes in and verdicts stand.
LEMMA VouchedStays ==
  ASSUME Typed, IsFiniteSet(observed'), observed \subseteq observed', NEW r \in RuleId,
         \A a \in App : Edit[a] # NoEdit /\ apps[a].status = "supported" =>
                      apps'[a].status = "supported"
  PROVE  \A row \in Vouched(r) : row \in Vouched(r)'
<1>1. Sources(r) \subseteq Sources(r)' /\ Won(r) \subseteq Won(r)' /\ Lost(r) \subseteq Lost(r)'
  BY DEF Sources, Won, Lost, Improvements
<1>2. IsFiniteSet(Won(r)') /\ IsFiniteSet(Lost(r)')
  <2>1. Won(r)' \subseteq observed' /\ Lost(r)' \subseteq observed'
    BY DEF Won, Lost, Improvements, Sources
  <2> QED
    BY <2>1, FS_Subset
<1>3. /\ Cardinality(Won(r)) <= Cardinality(Won(r)')
      /\ Cardinality(Lost(r)) <= Cardinality(Lost(r)')
  BY <1>1, <1>2, FS_Subset
<1>4. /\ Cardinality(Won(r)) \in Nat /\ Cardinality(Lost(r)) \in Nat
      /\ Cardinality(Won(r)') \in Nat /\ Cardinality(Lost(r)') \in Nat
  BY <1>2, EvidenceFinite, FS_CardinalityType DEF Typed
<1> SUFFICES ASSUME NEW row \in Vouched(r)  PROVE row \in Vouched(r)'
  OBVIOUS
<1>5. row \in RuleRow /\ row.successes \in Nat /\ row.failures \in Nat
  BY DEF Vouched, RuleRow
<1>6. CASE row.tier # "absent" /\ row.source # NoPatch
  <2>1. /\ MadeBy(r, row)
        /\ row.successes <= Cardinality(Won(r)) /\ row.failures <= Cardinality(Lost(r))
        /\ row.wonIn \subseteq {o.batch : o \in Won(r)}
        /\ row.recovered => \E o \in Sources(r) : o.replay
        /\ row.status = "validated" => apps[row.source].status = "supported"
        /\ row.tier = "stable" =>
             /\ row.status = "validated"
             /\ Cardinality(row.wonIn) >= PromotionBatches
             /\ row.needs => row.recovered
    BY <1>6 DEF Vouched
  <2>2. /\ row.successes <= Cardinality(Won(r)') /\ row.failures <= Cardinality(Lost(r)')
    BY <1>3, <1>4, <1>5, <2>1
  <2>3. row.wonIn \subseteq {o.batch : o \in Won(r)'}
    BY <1>1, <2>1
  <2>4. row.recovered => \E o \in Sources(r)' : o.replay
    BY <1>1, <2>1
  <2>5. row.status = "validated" => apps'[row.source].status = "supported"
    BY <2>1 DEF MadeBy
  <2> QED
    BY <1>5, <2>1, <2>2, <2>3, <2>4, <2>5 DEF Vouched, MadeBy
<1>7. CASE ~(row.tier # "absent" /\ row.source # NoPatch)
  BY <1>5, <1>7 DEF Vouched
<1> QED
  BY <1>6, <1>7

LEMMA RowStaysVouched ==
  ASSUME NEW r \in RuleId, NEW row \in Vouched(r), NEW new,
         SameRow(new, row), SameCounts(new, row)
  PROVE  new \in Vouched(r)
BY DEF Vouched, SameRow, SameCounts, MadeBy

\* A rule learns from an observation: what it counts is one more of its
\* sources.
LEMMA RowLearns ==
  ASSUME Typed, NEW o \in Reports, o \notin observed, observed' = observed \cup {o},
         ~AuditOnly(o), NEW r \in RuleId, NEW row \in Vouched(r), row \in Vouched(r)',
         r \in Uses[o.app] \/ (Edit[o.app] # NoEdit /\ r \in Edit[o.app].results),
         o.outcome # "neutral", NEW new,
         SameRow(new, row), SameCounts(new, WithEvidence(row, o))
  PROVE  new \in Vouched(r)'
<1>0. /\ o \in Observation /\ o.app \in App /\ o.batch \in Rounds /\ o.replay \in BOOLEAN
      /\ o.outcome \in {"improvement", "regression"}
      /\ o.replay => o.outcome = "improvement"
  BY ObservationTyped DEF Observation, Outcome, Replay
<1>1. o \in Sources(r)' /\ Sources(r) \subseteq Sources(r)'
  BY <1>0 DEF Sources, AuditOnly
<1>2. row \in RuleRow /\ row.successes \in Nat /\ row.failures \in Nat
      /\ row.wonIn \in SUBSET Rounds /\ row.recovered \in BOOLEAN
  BY DEF Vouched, RuleRow
<1>3. /\ new \in RuleRow
      /\ new.tier = row.tier /\ new.status = row.status
      /\ new.source = row.source /\ new.needs = row.needs
      /\ new.successes =
           IF o.outcome = "improvement" /\ ~o.replay THEN row.successes + 1 ELSE row.successes
      /\ new.failures = IF o.outcome = "regression" THEN row.failures + 1 ELSE row.failures
      /\ new.wonIn = IF o.outcome = "improvement" /\ ~o.replay
                     THEN row.wonIn \cup {o.batch} ELSE row.wonIn
      /\ new.recovered = (row.recovered \/ o.replay)
  BY <1>0, <1>2, WithEvidenceTyped DEF SameRow, SameCounts
<1>4. CASE ~(row.tier # "absent" /\ row.source # NoPatch)
  BY <1>3, <1>4 DEF Vouched
<1>5. CASE row.tier # "absent" /\ row.source # NoPatch
  <2>1. /\ MadeBy(r, row)
        /\ row.successes <= Cardinality(Won(r)) /\ row.failures <= Cardinality(Lost(r))
    BY <1>5 DEF Vouched
  <2>2. /\ row.successes <= Cardinality(Won(r)') /\ row.failures <= Cardinality(Lost(r)')
        /\ row.wonIn \subseteq {e.batch : e \in Won(r)'}
        /\ row.recovered => \E e \in Sources(r)' : e.replay
        /\ row.status = "validated" => apps'[row.source].status = "supported"
        /\ row.tier = "stable" =>
             /\ row.status = "validated"
             /\ Cardinality(row.wonIn) >= PromotionBatches
             /\ row.needs => row.recovered
    BY <1>5 DEF Vouched
  <2>3. /\ IsFiniteSet(Won(r)) /\ IsFiniteSet(Lost(r))
        /\ Cardinality(Won(r)) \in Nat /\ Cardinality(Lost(r)) \in Nat
        /\ o \notin Won(r) /\ o \notin Lost(r)
    BY EvidenceFinite DEF Typed, Won, Lost, Improvements, Sources
  <2>4. new.successes <= Cardinality(Won(r)')
    <3>1. CASE o.outcome = "improvement" /\ ~o.replay
      <4>1. Won(r)' = Won(r) \cup {o}
        BY <1>1, <3>1 DEF Won, Improvements, Sources
      <4>2. Cardinality(Won(r)') = Cardinality(Won(r)) + 1
        BY <2>3, <4>1, FS_AddElement
      <4> QED
        BY <1>2, <1>3, <2>1, <2>3, <3>1, <4>2
    <3>2. CASE ~(o.outcome = "improvement" /\ ~o.replay)
      BY <1>3, <2>2, <3>2
    <3> QED
      BY <3>1, <3>2
  <2>5. new.failures <= Cardinality(Lost(r)')
    <3>1. CASE o.outcome = "regression"
      <4>1. Lost(r)' = Lost(r) \cup {o}
        BY <1>0, <1>1, <3>1 DEF Lost, Sources
      <4>2. Cardinality(Lost(r)') = Cardinality(Lost(r)) + 1
        BY <2>3, <4>1, FS_AddElement
      <4> QED
        BY <1>2, <1>3, <2>1, <2>3, <3>1, <4>2
    <3>2. CASE o.outcome # "regression"
      BY <1>3, <2>2, <3>2
    <3> QED
      BY <3>1, <3>2
  <2>6. new.wonIn \subseteq {e.batch : e \in Won(r)'}
    <3>1. CASE o.outcome = "improvement" /\ ~o.replay
      <4>1. o \in Won(r)'
        BY <1>1, <3>1 DEF Won, Improvements
      <4> QED
        BY <1>3, <2>2, <3>1, <4>1
    <3>2. CASE ~(o.outcome = "improvement" /\ ~o.replay)
      BY <1>3, <2>2, <3>2
    <3> QED
      BY <3>1, <3>2
  <2>7. new.recovered => \E e \in Sources(r)' : e.replay
    BY <1>0, <1>1, <1>2, <1>3, <2>2
  <2>8. /\ new.status = "validated" => apps'[new.source].status = "supported"
        /\ new.tier = "stable" => new.status = "validated" /\ (new.needs => new.recovered)
    BY <1>3, <2>2
  <2>9. new.tier = "stable" => Cardinality(new.wonIn) >= PromotionBatches
    <3>1. row.wonIn \subseteq new.wonIn /\ IsFiniteSet(new.wonIn)
      <4>1. IsFiniteSet(Rounds)
        BY RoundsFinite
      <4>2. new.wonIn \subseteq Rounds
        BY <1>3 DEF RuleRow
      <4> QED
        BY <1>3, <4>1, <4>2, FS_Subset
    <3>2. /\ Cardinality(row.wonIn) <= Cardinality(new.wonIn)
          /\ Cardinality(row.wonIn) \in Nat /\ Cardinality(new.wonIn) \in Nat
      BY <3>1, FS_Subset, FS_CardinalityType
    <3> QED
      BY <1>3, <2>2, <3>2, OnlineAssumption
  <2>10. MadeBy(r, new)
    BY <1>3, <2>1 DEF MadeBy
  <2> QED
    BY <1>3, <2>4, <2>5, <2>6, <2>7, <2>8, <2>9, <2>10 DEF Vouched, MadeBy
<1> QED
  BY <1>4, <1>5

\* The rules an application speaks for are those its observations are
\* sources of.
LEMMA SpeaksFor ==
  ASSUME TablesInv, NEW a \in App, NEW r \in EvidenceRules(a)
  PROVE  r \in Uses[a] \/ (Edit[a] # NoEdit /\ r \in Edit[a].results)
<1>1. a \in PatchId
  BY OnlineAssumption
<1> QED
  BY <1>1 DEF EvidenceRules, TablesInv, PatchTable

LEMMA RulesAfterVouched ==
  ASSUME Typed, TablesInv, LearnedInv, NEW o \in Reports, RecordEvidence(o), ~AuditOnly(o),
         NEW r \in RuleId,
         \A row \in Vouched(r) : row \in Vouched(r)'
  PROVE  RulesAfter(o)[r] \in Vouched(r)'
<1>1. rules[r] \in Vouched(r) /\ rules[r] \in Vouched(r)'
  BY DEF LearnedInv
<1>2. o \in Observation /\ o.app \in App /\ o \notin observed /\ observed' = observed \cup {o}
  BY ObservationTyped DEF RecordEvidence
<1>3. SameRow(RulesAfter(o)[r], rules[r])
  BY <1>2, RulesAfterRow
<1>4. CASE SameCounts(RulesAfter(o)[r], rules[r])
  BY <1>1, <1>3, <1>4, RowStaysVouched
<1>5. CASE /\ o.outcome # "neutral" /\ r \in EvidenceRules(o.app)
           /\ SameCounts(RulesAfter(o)[r], WithEvidence(rules[r], o))
  <2>1. r \in Uses[o.app] \/ (Edit[o.app] # NoEdit /\ r \in Edit[o.app].results)
    BY <1>2, <1>5, SpeaksFor
  <2> QED
    BY <1>1, <1>2, <1>3, <1>5, <2>1, RowLearns
<1> QED
  BY <1>2, <1>4, <1>5, RulesAfterRow

\* What a verdict makes of a rule.
LEMMA ResolveVouched ==
  ASSUME ResultsNamedApart, Typed, TablesInv, LearnedInv, NEW o \in Reports,
         RecordEvidence(o), ~AuditOnly(o), NEW verdict \in {"supported", "harmful"},
         SetStatus(o.app, verdict), ResolvePatch(o, verdict), NEW r \in RuleId,
         \A row \in Vouched(r) : row \in Vouched(r)'
  PROVE  rules'[r] \in Vouched(r)'
<1>0. o.app \in App /\ o.app \in PatchId
  BY ObservationTyped
<1>1. RulesAfter(o)[r] \in Vouched(r)'
  BY RulesAfterVouched
<1>2. NoRule \in Vouched(r)'
  BY NoRuleVouched
<1>3. CASE Edit[o.app] = NoEdit \/ patches[o.app].status # "pending"
  BY <1>1, <1>3 DEF ResolvePatch
<1>4. CASE Edit[o.app] # NoEdit /\ patches[o.app].status = "pending" /\ verdict = "supported"
  <2> DEFINE seen == RulesAfter(o)
             row == [seen[r] EXCEPT !.status = "validated"]
  <2>1. /\ patches[o.app].results = Edit[o.app].results
        /\ apps'[o.app].status = "supported"
    BY <1>0, <1>4 DEF TablesInv, PatchTable, SetStatus, Typed, OnlineTypeOK
  <2>2. rules'[r] \in {NoRule, seen[r]} \/
        (r \in patches[o.app].results /\ seen[r].tier # "absent" /\ rules'[r] = row)
    BY <1>4 DEF ResolvePatch, Validated
  <2> HIDE DEF seen
  <2>3. ASSUME r \in patches[o.app].results, seen[r].tier # "absent"
        PROVE  row \in Vouched(r)'
    <3>1. seen[r] \in RuleRow
      BY <1>1 DEF Vouched, seen
    <3>2. /\ row \in RuleRow /\ row.tier = seen[r].tier /\ row.source = seen[r].source
          /\ row.successes = seen[r].successes /\ row.failures = seen[r].failures
          /\ row.wonIn = seen[r].wonIn /\ row.recovered = seen[r].recovered
          /\ row.needs = seen[r].needs /\ row.status = "validated"
      BY <3>1 DEF RuleRow
    <3> HIDE DEF row
    <3>3. ASSUME seen[r].source # NoPatch
          PROVE  apps'[seen[r].source].status = "supported"
      <4>1. MadeBy(r, seen[r])
        BY <1>1, <2>3, <3>3 DEF Vouched, MadeBy, seen
      <4>2. seen[r].source = o.app
        BY <1>0, <1>4, <2>1, <2>3, <4>1 DEF ResultsNamedApart, MadeBy
      <4> QED
        BY <2>1, <4>2
    <3> QED
      BY <1>1, <3>2, <3>3 DEF Vouched, MadeBy, seen
  <2> QED
    BY <1>1, <1>2, <2>2, <2>3 DEF seen
<1>5. CASE Edit[o.app] # NoEdit /\ patches[o.app].status = "pending" /\ verdict = "harmful"
  <2>1. rules'[r] \in {patches[o.app].snapshot[r], RulesAfter(o)[r]}
    BY <1>5 DEF ResolvePatch, Restored
  <2>2. patches[o.app].snapshot[r] \in Vouched(r)
    BY <1>0, <1>5 DEF LearnedInv, PendingPatches
  <2> QED
    BY <1>1, <2>1, <2>2
<1> QED
  BY <1>3, <1>4, <1>5

\* What the patch table can still restore.
LEMMA SnapshotsFrom ==
  ASSUME Typed, TablesInv, [OnlineNext]_ovars, NEW p \in PatchId, patches'[p].status = "pending"
  PROVE  \/ /\ patches[p].status = "pending"
            /\ patches'[p].snapshot = patches[p].snapshot
            /\ patches'[p].staged = patches[p].staged
         \/ /\ reg.step = "stage" /\ p = reg.app
            /\ StagePatch(Edit[p], apps[p].created)
            /\ patches'[p].staged = StagedIds(Edit[p])
            /\ \A r \in RuleId : patches'[p].snapshot[r] =
                 IF r \in Edit[p].targets THEN rules[r] ELSE NoRule
<1> DEFINE Goal ==
      \/ /\ patches[p].status = "pending"
         /\ patches'[p].snapshot = patches[p].snapshot
         /\ patches'[p].staged = patches[p].staged
      \/ /\ reg.step = "stage" /\ p = reg.app
         /\ StagePatch(Edit[p], apps[p].created)
         /\ patches'[p].staged = StagedIds(Edit[p])
         /\ \A r \in RuleId : patches'[p].snapshot[r] =
              IF r \in Edit[p].targets THEN rules[r] ELSE NoRule
<1> SUFFICES Goal
  OBVIOUS
<1>1. CASE UNCHANGED patches
  BY <1>1
<1>2. CASE Filter
  <2>1. /\ reg.app \in PatchId /\ Edit[reg.app].id = reg.app
    BY <1>2, RegEdit DEF TablesInv, Filter
  <2>2. Unstaged(Edit[reg.app], "rejected").status = "rejected"
    BY DEF Unstaged, NoPatchRow
  <2>3. UNCHANGED patches \/ patches' = [patches EXCEPT ![reg.app] = Unstaged(Edit[reg.app], "rejected")]
    BY <1>2, <2>1 DEF Filter
  <2> QED
    BY <2>1, <2>2, <2>3 DEF Typed, OnlineTypeOK
<1>3. CASE StageEdit
  <2> DEFINE q == Edit[reg.app]
             round == apps[reg.app].created
  <2>1. /\ reg.step = "stage" /\ reg.app \in PatchId /\ q \in Proposal /\ q.id = reg.app
        /\ round \in Nat
    BY <1>3, RegEdit DEF TablesInv, StageEdit
  <2>2. UNCHANGED patches \/ StagePatch(q, round)
    BY <1>3, <2>1 DEF StageEdit, StageKnownPatch
  <2>3. ASSUME StagePatch(q, round), p = reg.app
        PROVE  Goal
    <3>1. patches'[p] = EditRow(q, round)
      BY <2>1, <2>3 DEF StagePatch, EditRow, Typed, OnlineTypeOK
    <3> QED
      BY <2>1, <2>3, <3>1, EditRowTyped
  <2>4. ASSUME StagePatch(q, round), p # reg.app
        PROVE  Goal
    BY <2>1, <2>4 DEF StagePatch, Typed, OnlineTypeOK
  <2> QED
    BY <1>1, <2>2, <2>3, <2>4
<1>4. ASSUME NEW o \in Reports, RecordEvidence(o)
      PROVE  Goal
  <2>1. ASSUME NEW verdict \in {"supported", "harmful"}, ResolvePatch(o, verdict)
        PROVE  UNCHANGED patches \/ patches' = [patches EXCEPT
                 ![o.app].status = IF verdict = "supported" THEN "validated" ELSE "rolled_back",
                 ![o.app].resolved = o.batch]
    BY <2>1 DEF ResolvePatch
  <2>2. ASSUME NEW s \in {"validated", "rolled_back"}, NEW batchid,
               patches' = [patches EXCEPT ![o.app].status = s, ![o.app].resolved = batchid]
        PROVE  Goal
    BY <2>2, RowTyped DEF Typed, OnlineTypeOK, PatchRow
  <2> QED
    BY <1>1, <1>4, <2>1, <2>2, RecordWays
<1>5. CASE UNCHANGED vars \/ AdvanceBatch \/ PromoteOnline \/ Crash
  BY <1>1, <1>5 DEF vars, AdvanceBatch, PromoteOnline, Crash
<1> QED
  BY <1>2, <1>3, <1>4, <1>5
     DEF OnlineNext, Register, RegisterCandidate, SaveApplication, StartRetry, RetryDeferred,
         Record, FinishRound, ovars, vars

\* The two transactions of finish_round.
LEMMA AgedRow ==
  ASSUME Typed, AdvanceBatch, NEW r \in RuleId, rules'[r] \in RuleRow
  PROVE  SameRow(rules'[r], rules[r]) /\ SameCounts(rules'[r], rules[r])
<1>1. rules[r] \in RuleRow
  BY DEF Typed, OnlineTypeOK
<1>2. \/ rules'[r] = rules[r]
      \/ rules'[r] = [rules[r] EXCEPT !.age = rules[r].age + (batch - lastBatch)]
  BY DEF AdvanceBatch
<1>3. ASSUME NEW row \in RuleRow, NEW n, NEW new, new \in RuleRow, new = [row EXCEPT !.age = n]
      PROVE  SameRow(new, row) /\ SameCounts(new, row)
  BY <1>3 DEF SameRow, SameCounts, RuleRow
<1> QED
  BY <1>1, <1>2, <1>3 DEF SameRow, SameCounts

LEMMA PromotedRow ==
  ASSUME Typed, PromoteOnline, NEW r \in RuleId
  PROVE  \/ rules'[r] = NoRule \/ rules'[r] = rules[r]
         \/ /\ r \in PromotableOnline /\ rules'[r] \in RuleRow
            /\ rules'[r].tier = "stable" /\ rules'[r].status = rules[r].status
            /\ rules'[r].source = rules[r].source /\ rules'[r].needs = rules[r].needs
            /\ SameCounts(rules'[r], rules[r])
<1>1. rules[r] \in RuleRow
  BY DEF Typed, OnlineTypeOK
<1>2. \/ rules'[r] = NoRule \/ rules'[r] = rules[r]
      \/ r \in PromotableOnline /\ rules'[r] = [rules[r] EXCEPT !.tier = "stable"]
  BY DEF PromoteOnline
<1> QED
  BY <1>1, <1>2 DEF SameCounts, RuleRow

LEMMA LearnedKept ==
  ASSUME ResultsNamedApart, Typed, TablesInv, LearnedInv,
         [OnlineNext]_ovars, Typed', ObservedOnce'
  PROVE  LearnedInv'
<1>1. ASSUME NEW r \in RuleId
      PROVE  \A row \in Vouched(r) : row \in Vouched(r)'
  <2>1. observed \subseteq observed' /\ IsFiniteSet(observed')
    BY ObservedStep DEF Typed
  <2>2. \A a \in App : Edit[a] # NoEdit /\ apps[a].status = "supported" =>
                        apps'[a].status = "supported"
    BY VerdictStep DEF Justified, Decided
  <2> QED
    BY <2>1, <2>2, VouchedStays
<1>2. ASSUME NEW r \in RuleId
      PROVE  rules[r] \in Vouched(r)' /\ NoRule \in Vouched(r)'
  BY <1>1, <1>2, NoRuleVouched DEF LearnedInv
<1>3. ASSUME NEW r \in RuleId
      PROVE  rules'[r] \in Vouched(r)'
  <2>1. CASE UNCHANGED rules
    BY <1>2, <2>1
  <2>2. CASE StageEdit
    <3> DEFINE q == Edit[reg.app]
               round == apps[reg.app].created
    <3>1. /\ reg.step = "stage" /\ reg.app \in App /\ q # NoEdit /\ q \in Proposal
          /\ q.id = reg.app /\ round \in Nat
      BY <2>2, RegEdit DEF TablesInv, StageEdit
    <3>2. CASE StagePatch(q, round)
      <4>1. r \in q.results => StagedRule(q, round) \in Vouched(r)
        <5> DEFINE row == StagedRule(q, round)
        <5>1. /\ row \in RuleRow /\ row.tier = "volatile" /\ row.status = "pending"
              /\ row.source = q.id /\ row.successes = 0 /\ row.failures = 0
              /\ row.wonIn = {} /\ row.recovered = FALSE
          BY <3>1, StagedTyped
        <5>2. Cardinality(Won(r)) \in Nat /\ Cardinality(Lost(r)) \in Nat
          BY EvidenceFinite DEF Typed
        <5> HIDE DEF row
        <5>3. r \in q.results => row \in Vouched(r)
          BY <3>1, <5>1, <5>2 DEF Vouched, MadeBy
        <5> QED
          BY <5>3 DEF row
      <4>2. rules'[r] = IF r \in q.results THEN StagedRule(q, round)
                        ELSE IF r \in StagedIds(q) THEN NoRule ELSE rules[r]
        BY <3>2 DEF StagePatch
      <4> QED
        BY <1>1, <1>2, <4>1, <4>2
    <3>3. CASE ~StagePatch(q, round)
      BY <2>1, <2>2, <3>1, <3>3 DEF StageEdit, StageKnownPatch
    <3> QED
      BY <3>2, <3>3
  <2>3. ASSUME NEW o \in Reports, RecordEvidence(o)
        PROVE  rules'[r] \in Vouched(r)'
    <3>1. CASE ~AuditOnly(o) /\ rules' = RulesAfter(o)
      BY <1>1, <2>3, <3>1, RulesAfterVouched
    <3>2. ASSUME ~AuditOnly(o), NEW verdict \in {"supported", "harmful"},
                 SetStatus(o.app, verdict), ResolvePatch(o, verdict)
          PROVE  rules'[r] \in Vouched(r)'
      BY <1>1, <2>3, <3>2, ResolveVouched
    <3> QED
      BY <2>1, <2>3, <3>1, <3>2, RecordWays
  <2>4. CASE AdvanceBatch
    <3>1. rules'[r] \in RuleRow
      BY DEF Typed, OnlineTypeOK
    <3>2. SameRow(rules'[r], rules[r]) /\ SameCounts(rules'[r], rules[r])
      BY <2>4, <3>1, AgedRow
    <3>3. rules[r] \in Vouched(r)
      BY DEF LearnedInv
    <3> QED
      BY <1>1, <3>2, <3>3, RowStaysVouched
  <2>5. CASE PromoteOnline
    <3>1. CASE rules'[r] = NoRule \/ rules'[r] = rules[r]
      BY <1>2, <3>1
    <3>2. CASE /\ r \in PromotableOnline /\ rules'[r] \in RuleRow
               /\ rules'[r].tier = "stable" /\ rules'[r].status = rules[r].status
               /\ rules'[r].source = rules[r].source /\ rules'[r].needs = rules[r].needs
               /\ SameCounts(rules'[r], rules[r])
      <4>1. /\ rules[r].tier = "volatile" /\ rules[r].status = "validated"
            /\ Cardinality(rules[r].wonIn) >= PromotionBatches
            /\ rules[r].needs => rules[r].recovered
        BY <3>2 DEF PromotableOnline
      <4> QED
        BY <1>2, <3>2, <4>1 DEF Vouched, SameCounts, MadeBy
    <3> QED
      BY <2>5, <3>1, <3>2, PromotedRow
  <2> QED
    BY <2>1, <2>2, <2>3, <2>4, <2>5
       DEF OnlineNext, Register, RegisterCandidate, Filter, SaveApplication, StartRetry,
           RetryDeferred, Record, FinishRound, Crash, ovars, vars
<1>4. ASSUME NEW r \in RuleId, NEW p \in PendingPatches'
      PROVE  patches'[p].snapshot[r] \in Vouched(r)'
  <2>1. p \in PatchId /\ patches'[p].status = "pending"
    BY DEF PendingPatches
  <2>2. CASE patches[p].status = "pending" /\ patches'[p].snapshot = patches[p].snapshot
    BY <1>1, <2>1, <2>2 DEF LearnedInv, PendingPatches
  <2>3. CASE \A x \in RuleId : patches'[p].snapshot[x] =
              IF x \in Edit[p].targets THEN rules[x] ELSE NoRule
    BY <1>2, <2>3
  <2> QED
    BY <2>1, <2>2, <2>3, SnapshotsFrom
<1> QED
  BY <1>3, <1>4 DEF LearnedInv

LEMMA LearnedImplies ==
  Typed /\ LearnedInv => LearnedFromEvidence
<1> SUFFICES ASSUME Typed, LearnedInv, NEW r \in RuleId, Live(r), rules[r].source # NoPatch
             PROVE  /\ rules[r].successes <= Cardinality(Won(r))
                    /\ rules[r].failures <= Cardinality(Lost(r))
                    /\ Stable(r) =>
                         /\ Cardinality({o.batch : o \in Won(r)}) >= PromotionBatches
                         /\ rules[r].needs => \E o \in Sources(r) : o.replay
                         /\ apps[rules[r].source].status = "supported"
  BY DEF LearnedFromEvidence, Won, Lost
<1>1. rules[r] \in Vouched(r) /\ rules[r].tier # "absent"
  BY DEF LearnedInv, Live
<1>2. ASSUME Stable(r)
      PROVE  Cardinality({o.batch : o \in Won(r)}) >= PromotionBatches
  <2> DEFINE B == {o.batch : o \in Won(r)}
  <2>1. rules[r].wonIn \subseteq B /\ Cardinality(rules[r].wonIn) >= PromotionBatches
    BY <1>1, <1>2 DEF Vouched, Stable
  <2>2. IsFiniteSet(B)
    <3>1. B \subseteq Rounds
      BY DEF Won, Improvements, Sources, Typed, OnlineTypeOK, Observation
    <3>2. IsFiniteSet(Rounds)
      BY RoundsFinite
    <3> HIDE DEF B
    <3> QED
      BY <3>1, <3>2, FS_Subset
  <2> HIDE DEF B
  <2>3. /\ Cardinality(rules[r].wonIn) <= Cardinality(B)
        /\ Cardinality(rules[r].wonIn) \in Nat /\ Cardinality(B) \in Nat
    BY <2>1, <2>2, FS_Subset, FS_CardinalityType
  <2>4. Cardinality(B) >= PromotionBatches
    BY <2>1, <2>3, OnlineAssumption
  <2> QED
    BY <2>4 DEF B
<1> QED
  BY <1>1, <1>2 DEF Vouched, Stable

(* "A task contributes one observation": what a live rule counts is backed *)
(* by distinct fresh observations of later tasks, and a rule of the stream *)
(* that became stable has its successes in enough batches, the recovery it *)
(* needed and a supported application behind it - also after rollbacks,    *)
(* deferrals, retries and a stream that is run again (record_evidence,     *)
(* promote_eligible).                                                      *)
THEOREM EvidenceLearned ==
  ASSUME ResultsNamedApart
  PROVE  OnlineSpec => []LearnedFromEvidence
<1>1. OnlineInit => LearnedInv /\ ObservedOnce
  BY LearnedStart DEF OnlineInit, ObservedOnce
<1>2. Typed /\ ObservedOnce /\ [OnlineNext]_ovars => ObservedOnce'
  BY ObservedOnceKept
<1>3. Typed /\ TablesInv /\ LearnedInv /\ [OnlineNext]_ovars /\ Typed' /\ ObservedOnce' => LearnedInv'
  BY LearnedKept
<1>4. OnlineSpec => [](Typed /\ TablesInv)
  BY TablesHold
<1> QED
  BY <1>1, <1>2, <1>3, <1>4, LearnedImplies, PTL DEF OnlineSpec

-----------------------------------------------------------------------------
(* Applications, patches and precedents tell one story after every crash   *)
(* and retry: a patch is validated or rolled back only with its            *)
(* application, and its precedent says the same; only an application that  *)
(* a stream run again has registered after its verdict stands apart from   *)
(* its rolled back patch (record_evidence, register_application).          *)
THEOREM OneStory == OnlineSpec => []PatchesAgree
<1>1. TablesInv => PatchesAgree
  <2>1. App \subseteq PatchId
    BY OnlineAssumption
  <2> QED
    BY <2>1 DEF TablesInv, PatchTable, PatchesAgree
<1> QED
  BY <1>1, TablesHold, PTL

(* Registration defers what would share a rule, by the rules an            *)
(* application uses and edits: no two that are pending claim a common one, *)
(* whatever is retried, resolved, crashes or is registered again           *)
(* (_pending_conflict).                                                    *)
THEOREM ClaimsStayApart == OnlineSpec => []ClaimsApart
<1>1. TablesInv => ClaimsApart
  BY DEF TablesInv, AppsApart, ClaimsApart
<1> QED
  BY <1>1, TablesHold, PTL

=============================================================================
