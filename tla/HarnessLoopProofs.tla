-------------------------- MODULE HarnessLoopProofs --------------------------
(***************************************************************************)
(* That the JSON file never runs ahead of the store, that what is scored is *)
(* what the file records, and that the log is that of one run, for every    *)
(* shape of the loop and any number of executions.                          *)
(***************************************************************************)
EXTENDS HarnessLoop, FiniteSetTheorems, TLAPS

Association ==
  [status : {"absent", "pending", "validated", "rolled_back"}, source : Nat, seen : SUBSET Nat]

PatchRow ==
  [status : {"absent", "pending", "validated", "rolled_back", "rejected"}, created : Nat,
   evidence : SUBSET Nat, won : SUBSET Nat, live : BOOLEAN, stable : BOOLEAN, age : Nat]

Typed ==
  /\ shape \in Shapes
  /\ batch \in 1..shape.batches /\ rnd \in 1..shape.rounds
  /\ todo \subseteq Name
  /\ execution \in Nat /\ lastRound \in Nat
  /\ source \in [Name -> Nat]
  /\ memory \in [Name -> Association] /\ saved \in [Name -> Association]
  /\ patch \in [Name -> PatchRow]

\* An association, in memory or in the file, says nothing the store does not.
Follows(a, p) ==
  /\ a.status # "absent" => p.status # "absent"
  /\ a.status \in {"validated", "rolled_back"} => p.status = a.status
  /\ a.seen \subseteq p.evidence
  /\ a.status = "absent" => a.seen = {}

\* Memory and file know the same artifacts, whatever they know of them.
SameArtifact(a, b) == a.source = b.source /\ (a.status = "absent" <=> b.status = "absent")

\* What the store's row of a candidate made in batch b rests on.
Grounded(p, b) ==
  /\ \A e \in p.evidence : e > b
  /\ IsFiniteSet(p.won)
  /\ p.stable => Cardinality(p.won) >= PromotionAge

StoreInv ==
  \A c \in Name : /\ Follows(memory[c], patch[c]) /\ Follows(saved[c], patch[c])
                  /\ SameArtifact(memory[c], saved[c])
                  /\ Grounded(patch[c], c[1])

\* What the candidates still to be handled were listed for.
TodoInv ==
  /\ step = "validate" => \A c \in todo : memory[c].status # "absent" /\ c[1] < batch
  /\ step = "associate" => \A c \in First(todo) : patch[c].status # "absent"
  /\ step \in {"register", "associate"} => todo \subseteq Children(Branch)

Registered(h) == h # Seed => saved[h].status # "absent" /\ saved[h].source = source[h]

\* A file no session of the round that is open, or of a later one, may rewrite.
Past(h) ==
  \/ h[1] < batch
  \/ /\ h[1] = batch /\ step \notin {"batch", "validate"}
     /\ h[2] < rnd \/ (h[2] = rnd /\ step # "generate")

Good == {h \in Name \cup {Seed} : Registered(h) /\ Past(h)}

RunInv ==
  MMH => /\ H \in Good
         /\ pool \subseteq Good
         /\ log \in Seq([batch : Nat, harness : Name \cup {Seed}])
         /\ \A i \in DOMAIN log : log[i].harness \in Good

LoopInv == Typed /\ StoreInv /\ TodoInv /\ RunInv

-----------------------------------------------------------------------------
(* Names, their order, and the rows *)

LEMMA ShapeTyped ==
  ASSUME NEW s \in Shapes
  PROVE  s.batches \in Nat \ {0} /\ s.rounds \in Nat \ {0} /\ s.group \in Nat \ {0}
BY HarnessAssumption

LEMMA NameTyped ==
  ASSUME NEW c \in Name
  PROVE  /\ c[1] \in Nat \ {0} /\ c[2] \in Nat \ {0} /\ c[3] \in Nat \ {0}
         /\ c = <<c[1], c[2], c[3]>>
<1>1. PICK s \in Shapes : c \in (1..s.batches) \X (1..s.rounds) \X (1..s.group)
  BY DEF Name
<1> QED
  BY <1>1, ShapeTyped

LEMMA ChildrenNamed ==
  ASSUME Typed, NEW S \in SUBSET Branch
  PROVE  Children(S) \subseteq Name
<1>1. \A g \in Branch : <<batch, rnd, g>> \in (1..shape.batches) \X (1..shape.rounds) \X (1..shape.group)
  BY ShapeTyped DEF Typed, Branch
<1> QED
  BY <1>1 DEF Typed, Children, Name

\* Candidates are handled one at a time, in one order.
LEMMA FirstUnique ==
  ASSUME NEW S \in SUBSET Name, NEW c \in First(S), NEW d \in First(S)
  PROVE  c = d
<1>1. c \in Name /\ d \in Name
  BY DEF First
<1>2. c # d => Before(c, d) /\ Before(d, c)
  BY DEF First
<1>3. ~(Before(c, d) /\ Before(d, c))
  BY <1>1, NameTyped DEF Before
<1> QED
  BY <1>2, <1>3

LEMMA NoRowsTyped == NoAssociation \in Association /\ NoPatch \in PatchRow
BY DEF NoAssociation, Association, NoPatch, PatchRow

LEMMA FollowingTyped ==
  ASSUME NEW a \in Association, NEW p \in PatchRow, batch \in Nat
  PROVE  Following(a, p) \in Association
BY DEF Following, Association, PatchRow

LEMMA WithEvidenceTyped ==
  ASSUME NEW p \in PatchRow, NEW improved \in BOOLEAN, batch \in Nat
  PROVE  WithEvidence(p, improved) \in PatchRow
<1> DEFINE e == p.evidence \cup {batch}
           w == IF improved /\ p.live THEN p.won \cup {batch} ELSE p.won
           l == p.live /\ ~(p.status = "pending" /\ ~improved)
           s == IF p.status # "pending" THEN p.status
                ELSE IF improved THEN "validated" ELSE "rolled_back"
<1>1. e \in SUBSET Nat /\ w \in SUBSET Nat /\ l \in BOOLEAN
  BY DEF PatchRow
<1>2. s \in {"absent", "pending", "validated", "rolled_back", "rejected"}
  BY DEF PatchRow
<1>3. WithEvidence(p, improved) =
        IF batch \in p.evidence THEN p
        ELSE [p EXCEPT !.evidence = e, !.won = w, !.live = l, !.status = s]
  BY Zenon DEF WithEvidence
<1> HIDE DEF e, w, l, s
<1>4. [p EXCEPT !.evidence = e, !.won = w, !.live = l, !.status = s] \in PatchRow
  BY <1>1, <1>2 DEF PatchRow
<1> QED
  BY <1>3, <1>4

\* What a new task's evidence does to a row: it never takes back a verdict.
LEMMA WithEvidenceFields ==
  ASSUME NEW p \in PatchRow, NEW improved \in BOOLEAN, NEW q, q = WithEvidence(p, improved)
  PROVE  /\ q.evidence = p.evidence \cup {batch}
         /\ q.won \in {p.won, p.won \cup {batch}}
         /\ q.stable = p.stable
         /\ p.status # "pending" => q.status = p.status
         /\ p.status = "pending" => q.status \in {"pending", "validated", "rolled_back"}
BY DEF WithEvidence, PatchRow

LEMMA AgedTyped ==
  ASSUME NEW p \in PatchRow, batch \in Nat, lastRound \in Nat
  PROVE  /\ Aged(p) \in PatchRow
         /\ Aged(p).status = p.status /\ Aged(p).evidence = p.evidence
         /\ Aged(p).won = p.won /\ Aged(p).stable = p.stable
<1>1. lastRound \in 1..batch - 1 => p.age + batch - lastRound \in Nat
  BY DEF PatchRow
<1> QED
  BY <1>1 DEF Aged, PatchRow

-----------------------------------------------------------------------------
(* Types *)

LEMMA BatchTyped ==
  ASSUME Typed
  PROVE  batch \in Nat \ {0} /\ rnd \in Nat \ {0} /\ shape.batches \in Nat /\ shape.rounds \in Nat
BY ShapeTyped DEF Typed

LEMMA BeginTyped ==
  ASSUME Typed, NEW h, NEW first \in 1..shape.batches, NEW prefix, Begin(h, first, prefix),
         source' \in [Name -> Nat]
  PROVE  Typed'
BY ShapeTyped DEF Typed, Begin

LEMMA NextBatchTyped ==
  ASSUME Typed, NextBatch
  PROVE  batch' \in 1..shape.batches
BY ShapeTyped DEF Typed, NextBatch

LEMMA NextRoundTyped ==
  ASSUME Typed, NextRound
  PROVE  rnd' \in 1..shape.rounds
BY ShapeTyped DEF Typed, NextRound

LEMMA RewrittenTyped ==
  ASSUME Typed, NEW left \in [Branch -> SessionLeaves]
  PROVE  Rewritten(left) \in [Name -> Nat]
<1>1. \A x \in SessionLeaves : x.version \in Nat
  <2>1. \A n \in 1..execution : n \in Nat
    OBVIOUS
  <2>2. execution \in Nat
    BY DEF Typed
  <2>3. \A x \in [version : {execution}, loads : BOOLEAN, card : BOOLEAN] : x.version \in Nat
    BY <2>2
  <2>4. \A x \in [version : IF MMH THEN 1..execution ELSE {}, loads : {TRUE}, card : {TRUE}] :
           x.version \in Nat
    <3>1. \A x \in [version : IF MMH THEN 1..execution ELSE {}, loads : {TRUE}, card : {TRUE}] :
             x.version \in 1..execution
      BY Zenon
    <3> QED
      BY <3>1, <2>1
  <2>5. NoFile.version \in Nat
    BY DEF NoFile
  <2> QED
    BY <2>3, <2>4, <2>5, Zenon DEF SessionLeaves
<1>2. ASSUME NEW c \in Name, c \in Children(Branch)  PROVE left[c[3]].version \in Nat
  BY <1>2, <1>1 DEF Children
<1> QED
  BY <1>2 DEF Rewritten, Typed

LEMMA TypeStep ==
  ASSUME Typed, [HarnessNext]_vars
  PROVE  Typed'
<1> USE ShapeTyped, BatchTyped
<1>1. CASE StartBatch
  BY <1>1 DEF StartBatch, Typed
<1>2. CASE ValidateOne
  <2>1. PICK c \in First(todo) :
          /\ \/ UNCHANGED <<memory, patch>>
             \/ \E improved \in BOOLEAN :
                  /\ patch' = [patch EXCEPT ![c] = WithEvidence(patch[c], improved)]
                  /\ memory' = [memory EXCEPT
                       ![c] = Following(memory[c], WithEvidence(patch[c], improved))]
          /\ todo' = todo \ {c}
    BY <1>2 DEF ValidateOne
  <2>2. c \in Name
    BY DEF First, Typed
  <2>3. memory' \in [Name -> Association] /\ patch' \in [Name -> PatchRow]
    <3>1. memory[c] \in Association /\ patch[c] \in PatchRow
      BY <2>2 DEF Typed
    <3>2. CASE UNCHANGED <<memory, patch>>
      BY <3>2 DEF Typed
    <3>3. ASSUME NEW improved \in BOOLEAN,
                 patch' = [patch EXCEPT ![c] = WithEvidence(patch[c], improved)],
                 memory' = [memory EXCEPT
                   ![c] = Following(memory[c], WithEvidence(patch[c], improved))]
          PROVE  memory' \in [Name -> Association] /\ patch' \in [Name -> PatchRow]
      <4>1. WithEvidence(patch[c], improved) \in PatchRow
        BY <3>1, WithEvidenceTyped
      <4>2. Following(memory[c], WithEvidence(patch[c], improved)) \in Association
        BY <3>1, <4>1, FollowingTyped
      <4> QED
        BY <3>3, <4>1, <4>2 DEF Typed
    <3> QED
      BY <2>1, <3>2, <3>3
  <2> QED
    BY <1>2, <2>1, <2>3 DEF ValidateOne, Typed
<1>3. CASE SaveState
  BY <1>3 DEF SaveState, Typed
<1>4. CASE Generate
  <2>1. PICK left \in [Branch -> SessionLeaves] :
          /\ source' = Rewritten(left)
          /\ IF MMH THEN todo' = Children(Offered(left)) /\ UNCHANGED rnd
             ELSE NextRound /\ UNCHANGED todo
    BY <1>4 DEF Generate
  <2>2. Children(Offered(left)) \subseteq Name
    BY ChildrenNamed DEF Offered
  <2>3. rnd' \in 1..shape.rounds
    BY <2>1, NextRoundTyped DEF Typed
  <2> QED
    BY <1>4, <2>1, <2>2, <2>3, RewrittenTyped DEF Generate, Typed
<1>5. CASE Refuse
  <2>1. PICK c \in First(todo) :
          /\ \/ patch' = patch
             \/ patch' = [patch EXCEPT ![c].status = "rejected"]
          /\ todo' = todo \ {c}
    BY <1>5 DEF Refuse
  <2>2. c \in Name
    BY DEF First, Typed
  <2>3. [patch[c] EXCEPT !.status = "rejected"] \in PatchRow
    BY <2>2 DEF Typed, PatchRow
  <2>4. patch' \in [Name -> PatchRow]
    BY <2>1, <2>2, <2>3 DEF Typed
  <2> QED
    BY <1>5, <2>1, <2>4 DEF Refuse, Typed
<1>6. CASE Recognise
  BY <1>6 DEF Recognise, Typed
<1>7. CASE StagePatch
  <2> DEFINE row == [NoPatch EXCEPT !.status = "pending", !.created = batch, !.live = TRUE]
  <2>1. row \in PatchRow
    BY NoRowsTyped DEF NoPatch, PatchRow
  <2>2. \E c \in First(todo) : patch' = patch \/ patch' = [patch EXCEPT ![c] = row]
    BY <1>7 DEF StagePatch
  <2> HIDE DEF row
  <2>3. patch' \in [Name -> PatchRow]
    BY <2>1, <2>2 DEF Typed
  <2> QED
    BY <1>7, <2>3 DEF StagePatch, Typed
<1>8. CASE Associate
  <2>1. PICK c \in First(todo) :
          /\ memory' = [memory EXCEPT
               ![c] = [status |-> "pending", source |-> source[c], seen |-> {}]]
          /\ saved' = memory'
          /\ todo' = todo \ {c}
    BY <1>8 DEF Associate
  <2>2. c \in Name
    BY DEF First, Typed
  <2>3. [status |-> "pending", source |-> source[c], seen |-> {}] \in Association
    BY <2>2 DEF Typed, Association
  <2>4. memory' \in [Name -> Association]
    BY <2>1, <2>3 DEF Typed
  <2> QED
    BY <1>8, <2>1, <2>4 DEF Associate, Typed
<1>9. CASE EndRound
  BY <1>9, NextRoundTyped DEF EndRound, Typed
<1>10. CASE Judge
  <2>1. batch' \in 1..shape.batches
    BY <1>10, NextBatchTyped DEF Judge, Typed
  <2> QED
    BY <1>10, <2>1 DEF Judge, Typed
<1>11. CASE Age
  <2>1. patch' \in [Name -> PatchRow]
    BY <1>11, AgedTyped DEF Age, Typed
  <2> QED
    BY <1>11, <2>1 DEF Age, Typed
<1>12. CASE Promote
  <2>1. ASSUME NEW p \in PatchRow  PROVE [p EXCEPT !.stable = TRUE] \in PatchRow
    BY DEF PatchRow
  <2>2. patch' \in [Name -> PatchRow]
    BY <1>12, <2>1 DEF Promote, Typed
  <2> QED
    BY <1>12, <2>2, NextBatchTyped DEF Promote, Typed
<1>13. CASE Rerun
  <2>1. source' \in [Name -> Nat]
    BY <1>13 DEF Rerun, Typed
  <2>2. 1 \in 1..shape.batches
    BY DEF Typed
  <2> QED
    BY <1>13, <2>1, <2>2, BeginTyped DEF Rerun
<1>14. CASE Resume
  <2>1. PICK first \in 1..shape.batches : \E h, prefix : Begin(h, first, prefix)
      <3>1. \A first \in 2..shape.batches : first \in 1..shape.batches
      OBVIOUS
    <3> QED
      BY <1>14, <3>1 DEF Resume
  <2> QED
    BY <1>14, <2>1, BeginTyped DEF Resume, Typed
<1>15. CASE UNCHANGED vars
  BY <1>15 DEF vars, loop, Typed
<1> QED
  BY <1>1, <1>2, <1>3, <1>4, <1>5, <1>6, <1>7, <1>8, <1>9, <1>10, <1>11, <1>12, <1>13,
     <1>14, <1>15 DEF HarnessNext

-----------------------------------------------------------------------------
(* The store and the two associations *)

\* A step that touches one candidate leaves what holds of the others.
LEMMA OthersKept ==
  ASSUME Typed, StoreInv, NEW c \in Name,
         \A d \in Name \ {c} : /\ memory'[d] = memory[d] /\ saved'[d] = saved[d]
                               /\ patch'[d] = patch[d],
         Follows(memory'[c], patch'[c]), Follows(saved'[c], patch'[c]),
         SameArtifact(memory'[c], saved'[c]), Grounded(patch'[c], c[1])
  PROVE  StoreInv'
<1> SUFFICES ASSUME NEW d \in Name
             PROVE  /\ Follows(memory'[d], patch'[d]) /\ Follows(saved'[d], patch'[d])
                    /\ SameArtifact(memory'[d], saved'[d])
                    /\ Grounded(patch'[d], d[1])
  BY Zenon DEF StoreInv
<1> QED
  BY DEF StoreInv

LEMMA StagedGrounded ==
  ASSUME NEW p, p.evidence = {}, p.won = {}, ~p.stable, NEW b
  PROVE  Grounded(p, b)
BY FS_EmptySet DEF Grounded

LEMMA EvidenceGrounds ==
  ASSUME NEW p \in PatchRow, NEW improved \in BOOLEAN, NEW b \in Nat, batch \in Nat, b < batch,
         NEW q, q = WithEvidence(p, improved), Grounded(p, b)
  PROVE  Grounded(q, b)
<1>1. /\ q.evidence = p.evidence \cup {batch}
      /\ q.won \in {p.won, p.won \cup {batch}}
      /\ q.stable = p.stable
  BY WithEvidenceFields
<1>2. \A e \in q.evidence : e > b
  BY <1>1 DEF Grounded
<1>3. IsFiniteSet(p.won)
  BY DEF Grounded
<1>4. IsFiniteSet(p.won \cup {batch}) /\ Cardinality(p.won \cup {batch}) >= Cardinality(p.won)
  <2>1. IsFiniteSet(p.won \cup {batch})
    BY <1>3, FS_AddElement
  <2>2. p.won \subseteq p.won \cup {batch}
    OBVIOUS
  <2>3. /\ Cardinality(p.won) <= Cardinality(p.won \cup {batch})
        /\ Cardinality(p.won) \in Nat /\ Cardinality(p.won \cup {batch}) \in Nat
    BY <2>1, <2>2, <1>3, FS_Subset, FS_CardinalityType
  <2> QED
    BY <2>1, <2>3
<1>5. IsFiniteSet(q.won) /\ Cardinality(q.won) >= Cardinality(p.won)
  <2>1. CASE q.won = p.won
    <3>1. Cardinality(p.won) \in Nat
      BY <1>3, FS_CardinalityType
    <3> QED
      BY <2>1, <1>3, <3>1
  <2>2. CASE q.won = p.won \cup {batch}
    BY <2>2, <1>4
  <2> QED
    BY <1>1, <2>1, <2>2
<1>6. Cardinality(q.won) \in Nat /\ Cardinality(p.won) \in Nat /\ PromotionAge \in Nat
  BY <1>3, <1>5, FS_CardinalityType, HarnessAssumption
<1>7. p.stable => Cardinality(p.won) >= PromotionAge
  BY DEF Grounded
<1>8. q.stable => Cardinality(q.won) >= PromotionAge
  BY <1>1, <1>5, <1>6, <1>7
<1> QED
  BY <1>2, <1>5, <1>8 DEF Grounded

\* A verdict on a row is final, and the association shows no other.
LEMMA EvidenceFollows ==
  ASSUME NEW a \in Association, NEW p \in PatchRow, NEW improved \in BOOLEAN,
         NEW q, q = WithEvidence(p, improved), Follows(a, p)
  PROVE  /\ Follows(a, q)
         /\ a.status # "absent" => /\ Follows(Following(a, q), q)
                                   /\ SameArtifact(Following(a, q), a)
<1>1. /\ q.evidence = p.evidence \cup {batch}
      /\ p.status # "pending" => q.status = p.status
      /\ p.status = "pending" => q.status \in {"pending", "validated", "rolled_back"}
  BY WithEvidenceFields
<1>2. Follows(a, q)
  BY <1>1 DEF Follows, Association
<1> DEFINE f == Following(a, q)
<1>3. /\ f.source = a.source
      /\ f.seen = a.seen \cup {batch}
      /\ f.status = IF q.status \in {"rolled_back", "validated"} THEN q.status ELSE a.status
  BY DEF Following, Association
<1>4. batch \in q.evidence
  BY <1>1
<1> HIDE DEF f
<1>5. a.status # "absent" => Follows(f, q)
  BY <1>1, <1>2, <1>3, <1>4 DEF Follows, Association
<1>6. a.status # "absent" => SameArtifact(f, a)
  BY <1>3 DEF SameArtifact
<1> QED
  BY <1>2, <1>5, <1>6 DEF f

LEMMA StoreStep ==
  ASSUME Typed, StoreInv, TodoInv, [HarnessNext]_vars
  PROVE  StoreInv'
<1> USE BatchTyped
<1>1. ASSUME memory' = saved, UNCHANGED <<saved, patch>>  PROVE StoreInv'
  BY <1>1 DEF StoreInv, SameArtifact
<1>2. ASSUME UNCHANGED <<memory, saved, patch>>  PROVE StoreInv'
  BY <1>2 DEF StoreInv
<1>3. CASE ValidateOne
  <2>1. PICK c \in First(todo) :
          \/ UNCHANGED <<memory, patch>>
          \/ \E improved \in BOOLEAN :
               /\ patch' = [patch EXCEPT ![c] = WithEvidence(patch[c], improved)]
               /\ memory' = [memory EXCEPT
                    ![c] = Following(memory[c], WithEvidence(patch[c], improved))]
    BY <1>3 DEF ValidateOne
  <2>2. saved' = saved
    BY <1>3 DEF ValidateOne
  <2>3. c \in Name /\ memory[c].status # "absent" /\ c[1] < batch
    BY <1>3 DEF First, Typed, TodoInv, ValidateOne
  <2>4. ASSUME NEW improved \in BOOLEAN,
               patch' = [patch EXCEPT ![c] = WithEvidence(patch[c], improved)],
               memory' = [memory EXCEPT
                 ![c] = Following(memory[c], WithEvidence(patch[c], improved))]
        PROVE  StoreInv'
    <3> DEFINE q == WithEvidence(patch[c], improved)
    <3>1. /\ memory[c] \in Association /\ saved[c] \in Association /\ patch[c] \in PatchRow
          /\ Follows(memory[c], patch[c]) /\ Follows(saved[c], patch[c])
          /\ SameArtifact(memory[c], saved[c]) /\ Grounded(patch[c], c[1])
      BY <2>3 DEF Typed, StoreInv
    <3>2. patch'[c] = q /\ memory'[c] = Following(memory[c], q)
      BY <2>3, <2>4 DEF Typed
    <3>3. \A d \in Name \ {c} : memory'[d] = memory[d] /\ patch'[d] = patch[d]
      BY <2>3, <2>4 DEF Typed
    <3>4. c[1] \in Nat
      BY <2>3, NameTyped
    <3> HIDE DEF q
    <3>5. Follows(saved[c], q) /\ Follows(Following(memory[c], q), q)
          /\ SameArtifact(Following(memory[c], q), memory[c])
      BY <2>3, <3>1, EvidenceFollows DEF q
    <3>6. Grounded(q, c[1])
      BY <2>3, <3>1, <3>4, EvidenceGrounds DEF q
    <3>7. SameArtifact(Following(memory[c], q), saved[c])
      BY <3>1, <3>5 DEF SameArtifact
    <3> QED
      BY <2>2, <2>3, <3>2, <3>3, <3>5, <3>6, <3>7, OthersKept
  <2> QED
    BY <1>2, <2>1, <2>2, <2>4
<1>4. CASE SaveState
  BY <1>4 DEF SaveState, StoreInv, SameArtifact
<1>5. CASE Refuse
  <2>1. PICK c \in First(todo) :
          \/ patch' = patch
          \/ memory[c].status = "absent" /\ patch' = [patch EXCEPT ![c].status = "rejected"]
    BY <1>5 DEF Refuse
  <2>2. memory' = memory /\ saved' = saved
    BY <1>5 DEF Refuse
  <2>3. c \in Name
    BY DEF First, Typed
  <2>4. ASSUME memory[c].status = "absent", patch' = [patch EXCEPT ![c].status = "rejected"]
        PROVE  StoreInv'
    <3>1. /\ patch[c] \in PatchRow /\ saved[c].status = "absent"
          /\ Follows(memory[c], patch[c]) /\ Follows(saved[c], patch[c])
          /\ SameArtifact(memory[c], saved[c]) /\ Grounded(patch[c], c[1])
      BY <2>3, <2>4 DEF Typed, StoreInv, SameArtifact
    <3>2. /\ patch'[c].status = "rejected" /\ patch'[c].evidence = patch[c].evidence
          /\ patch'[c].won = patch[c].won /\ patch'[c].stable = patch[c].stable
      BY <2>3, <2>4, <3>1 DEF Typed, PatchRow
    <3>3. \A d \in Name \ {c} : patch'[d] = patch[d]
      BY <2>3, <2>4 DEF Typed
    <3>4. Follows(memory[c], patch'[c]) /\ Follows(saved[c], patch'[c])
      BY <2>4, <3>1, <3>2 DEF Follows
    <3>5. Grounded(patch'[c], c[1])
      BY <3>1, <3>2 DEF Grounded
    <3> QED
      BY <2>2, <2>3, <3>1, <3>3, <3>4, <3>5, OthersKept
  <2> QED
    BY <1>2, <2>1, <2>2, <2>4
<1>6. CASE StagePatch
  <2> DEFINE row == [NoPatch EXCEPT !.status = "pending", !.created = batch, !.live = TRUE]
  <2>1. PICK c \in First(todo) :
          /\ memory[c].status = "absent"
          /\ \/ patch' = patch
             \/ patch[c].status = "absent" /\ patch' = [patch EXCEPT ![c] = row]
    BY <1>6 DEF StagePatch
  <2>2. memory' = memory /\ saved' = saved
    BY <1>6 DEF StagePatch
  <2>3. c \in Name
    BY DEF First, Typed
  <2>4. row.status = "pending" /\ row.evidence = {} /\ row.won = {} /\ row.stable = FALSE
    BY DEF NoPatch
  <2> HIDE DEF row
  <2>5. ASSUME patch' = [patch EXCEPT ![c] = row]  PROVE StoreInv'
    <3>1. /\ saved[c].status = "absent" /\ saved[c].seen = {} /\ memory[c].seen = {}
          /\ SameArtifact(memory[c], saved[c])
      BY <2>1, <2>3 DEF StoreInv, SameArtifact, Follows
    <3>2. patch'[c] = row /\ \A d \in Name \ {c} : patch'[d] = patch[d]
      BY <2>3, <2>5 DEF Typed
    <3>3. Follows(memory[c], row) /\ Follows(saved[c], row)
      BY <2>1, <2>4, <3>1 DEF Follows
    <3>4. Grounded(row, c[1])
      BY <2>4, StagedGrounded
    <3> QED
      BY <2>2, <2>3, <3>1, <3>2, <3>3, <3>4, OthersKept
  <2> QED
    BY <1>2, <2>1, <2>2, <2>5
<1>7. CASE Associate
  <2>1. PICK c \in First(todo) :
          /\ memory' = [memory EXCEPT
               ![c] = [status |-> "pending", source |-> source[c], seen |-> {}]]
          /\ saved' = memory'
    BY <1>7 DEF Associate
  <2>2. patch' = patch
    BY <1>7 DEF Associate
  <2>3. c \in Name /\ patch[c].status # "absent"
    BY <1>7 DEF First, Typed, TodoInv, Associate
  <2>4. /\ memory'[c] = [status |-> "pending", source |-> source[c], seen |-> {}]
        /\ \A d \in Name \ {c} : memory'[d] = memory[d]
    BY <2>1, <2>3 DEF Typed
  <2>5. Follows(memory'[c], patch[c])
    BY <2>3, <2>4 DEF Follows
  <2>6. \A d \in Name : Follows(memory'[d], patch[d])
    BY <2>4, <2>5 DEF StoreInv
  <2> QED
    BY <2>1, <2>2, <2>6 DEF StoreInv, SameArtifact
<1>8. CASE Age
  <2>1. \A d \in Name : /\ patch'[d].status = patch[d].status
                        /\ patch'[d].evidence = patch[d].evidence
                        /\ patch'[d].won = patch[d].won /\ patch'[d].stable = patch[d].stable
    BY <1>8, AgedTyped DEF Age, Typed
  <2>2. memory' = memory /\ saved' = saved
    BY <1>8 DEF Age
  <2> QED
    BY <2>1, <2>2 DEF StoreInv, Follows, SameArtifact, Grounded
<1>9. CASE Promote
  <2>1. ASSUME NEW d \in Name
        PROVE  /\ patch'[d].status = patch[d].status
               /\ patch'[d].evidence = patch[d].evidence
               /\ patch'[d].won = patch[d].won
               /\ patch'[d].stable = patch[d].stable \/ Cardinality(patch[d].won) >= PromotionAge
    <3>1. patch[d] \in PatchRow
      BY DEF Typed
    <3>2. patch'[d] = IF Promotable(patch[d]) THEN [patch[d] EXCEPT !.stable = TRUE] ELSE patch[d]
      BY <1>9 DEF Promote
    <3> QED
      BY <3>1, <3>2 DEF PatchRow, Promotable
  <2>2. memory' = memory /\ saved' = saved
    BY <1>9 DEF Promote
  <2> QED
    BY <2>1, <2>2 DEF StoreInv, Follows, SameArtifact, Grounded
<1>10. CASE Rerun
  BY <1>1, <1>10 DEF Rerun, Begin
<1>11. CASE Resume
  BY <1>1, <1>11 DEF Resume, Begin
<1>12. CASE \/ StartBatch \/ Generate \/ Recognise \/ EndRound \/ Judge \/ UNCHANGED vars
  BY <1>2, <1>12 DEF StartBatch, Generate, Recognise, EndRound, Judge, vars
<1> QED
  BY <1>3, <1>4, <1>5, <1>6, <1>7, <1>8, <1>9, <1>10, <1>11, <1>12 DEF HarnessNext

-----------------------------------------------------------------------------
(* What is still to be handled *)

LEMMA TodoStep ==
  ASSUME Typed, StoreInv, TodoInv, [HarnessNext]_vars
  PROVE  TodoInv'
<1> USE BatchTyped
<1>1. CASE StartBatch
  <2>1. \A c \in todo' : memory[c].status # "absent" /\ c[1] < batch
    BY <1>1 DEF StartBatch, Due
  <2> QED
    BY <1>1, <2>1 DEF StartBatch, TodoInv
<1>2. CASE ValidateOne
  <2>1. PICK c \in First(todo) :
          /\ todo' = todo \ {c}
          /\ \/ UNCHANGED <<memory, patch>>
             \/ \E improved \in BOOLEAN :
                  memory' = [memory EXCEPT
                       ![c] = Following(memory[c], WithEvidence(patch[c], improved))]
    BY <1>2 DEF ValidateOne
  <2>2. todo \subseteq Name /\ \A d \in todo : memory[d].status # "absent" /\ d[1] < batch
    BY <1>2 DEF Typed, TodoInv, ValidateOne
  <2>3. \A d \in todo' : memory'[d] = memory[d]
    BY <2>1, <2>2 DEF Typed
  <2> QED
    BY <1>2, <2>1, <2>2, <2>3 DEF ValidateOne, TodoInv
<1>3. CASE Generate
  <2>1. /\ step' # "validate" /\ step' # "associate"
        /\ step' = "register" => todo' \subseteq Children(Branch)
    BY <1>3 DEF Generate, NextRound, Offered, Children
  <2>2. step' = "register" => Children(Branch)' = Children(Branch)
    <3>1. batch' = batch /\ shape' = shape
      BY <1>3 DEF Generate
    <3>2. step' = "register" => rnd' = rnd
      BY <1>3 DEF Generate, NextRound
    <3> QED
      BY <3>1, <3>2 DEF Children, Branch
  <2> QED
    BY <2>1, <2>2 DEF TodoInv
<1>4. CASE Refuse \/ Recognise \/ Associate
  <2>1. step' = "register" /\ todo' \subseteq todo /\ UNCHANGED <<batch, rnd, shape>>
    BY <1>4 DEF Refuse, Recognise, Associate
  <2>2. step \in {"register", "associate"}
    BY <1>4 DEF Refuse, Recognise, Associate
  <2> QED
    BY <2>1, <2>2 DEF TodoInv, Children, Branch
<1>5. CASE StagePatch
  <2> DEFINE row == [NoPatch EXCEPT !.status = "pending", !.created = batch, !.live = TRUE]
  <2>1. PICK c \in First(todo) :
          patch' = IF patch[c].status # "absent" THEN patch ELSE [patch EXCEPT ![c] = row]
    BY <1>5 DEF StagePatch
  <2>2. /\ step = "register" /\ step' = "associate"
        /\ UNCHANGED <<shape, batch, rnd, todo>>
    BY <1>5 DEF StagePatch
  <2>3. row.status = "pending"
    BY DEF NoPatch
  <2> HIDE DEF row
  <2>4. patch'[c].status # "absent"
    BY <2>1, <2>3 DEF First, Typed
  <2>5. \A d \in First(todo) : patch'[d].status # "absent"
    BY <2>4, FirstUnique DEF Typed
  <2> QED
    BY <2>2, <2>5 DEF TodoInv, Children, Branch, First, Before
<1>6. CASE EndRound
  BY <1>6 DEF EndRound, NextRound, TodoInv
<1>7. CASE Judge
  BY <1>7 DEF Judge, NextBatch, TodoInv
<1>8. CASE SaveState \/ Age
  BY <1>8 DEF SaveState, Age, TodoInv
<1>9. CASE Promote
  BY <1>9 DEF Promote, NextBatch, TodoInv
<1>10. CASE Rerun
  BY <1>10 DEF Rerun, Begin, TodoInv
<1>11. CASE Resume
  BY <1>11 DEF Resume, Begin, TodoInv
<1>12. CASE UNCHANGED vars
  BY <1>12 DEF vars, loop, TodoInv, Children, Branch, First, Before
<1> QED
  BY <1>1, <1>2, <1>3, <1>4, <1>5, <1>6, <1>7, <1>8, <1>9, <1>10, <1>11, <1>12 DEF HarnessNext

-----------------------------------------------------------------------------
(* The run with a memory *)

\* What was good stays good when its files, its records and the order of rounds
\* go on as they should.
LEMMA GoodKept ==
  ASSUME NEW h \in Good,
         h # Seed => source'[h] = source[h] /\ saved'[h].source = saved[h].source
                     /\ (saved[h].status # "absent" => saved'[h].status # "absent"),
         Past(h) => Past(h)'
  PROVE  h \in Good'
<1>1. Registered(h) /\ Past(h) /\ h \in Name \cup {Seed}
  BY Zenon DEF Good
<1>2. (h # Seed) => (saved'[h].status # "absent" /\ saved'[h].source = source'[h])
  BY <1>1 DEF Registered
<1>3. Seed' = Seed /\ Name' = Name
  BY DEF Seed, Name
<1> QED
  BY <1>1, <1>2, <1>3 DEF Good, Registered

LEMMA RunStep ==
  ASSUME Typed, StoreInv, TodoInv, RunInv, [HarnessNext]_vars
  PROVE  RunInv'
<1> USE BatchTyped
<1>0. shape' = shape
  BY DEF HarnessNext, StartBatch, ValidateOne, SaveState, Generate, Refuse, Recognise, StagePatch,
         Associate, EndRound, Judge, Age, Promote, Rerun, Resume, Begin, vars
<1> SUFFICES ASSUME MMH
             PROVE  /\ H' \in Good'
                    /\ pool' \subseteq Good'
                    /\ log' \in Seq([batch : Nat, harness : Name \cup {Seed}])
                    /\ \A i \in DOMAIN log' : log'[i].harness \in Good'
  BY <1>0 DEF RunInv, MMH
<1> DEFINE Entry == [batch : Nat, harness : Name \cup {Seed}]
<1>1. /\ H \in Good /\ pool \subseteq Good
      /\ log \in Seq(Entry)
      /\ \A i \in DOMAIN log : log[i].harness \in Good
  BY DEF RunInv
<1>2. \A h \in Good : /\ h \in Name \cup {Seed} /\ Past(h)
                        /\ h[1] \in Nat /\ h[2] \in Nat
  BY NameTyped DEF Good, Seed
<1> HIDE DEF Entry
<1>3. \A c \in Name : SameArtifact(memory[c], saved[c])
  BY DEF StoreInv
<1>4. ASSUME UNCHANGED <<source, saved>>, \A h \in Good : Past(h) => Past(h)'
      PROVE  Good \subseteq Good'
  BY <1>4, GoodKept DEF Good
<1>5. ASSUME UNCHANGED source, saved' = memory, \A h \in Good : Past(h) => Past(h)'
      PROVE  Good \subseteq Good'
  <2> SUFFICES ASSUME NEW h \in Good  PROVE h \in Good'
    OBVIOUS
  <2>1. h # Seed => SameArtifact(memory[h], saved[h])
    BY <1>3 DEF Good
  <2> QED
    BY <1>5, <2>1, GoodKept DEF SameArtifact
<1>6. CASE StartBatch
  <2>1. Good \subseteq Good'
    BY <1>2, <1>4, <1>6 DEF StartBatch, Past
  <2>2. pool' \subseteq {H} /\ H' = H /\ log' = log
    BY <1>6 DEF StartBatch, Loaded
  <2> QED
    BY <1>1, <2>1, <2>2 DEF Entry
<1>7. CASE ValidateOne
  BY <1>1, <1>4, <1>7 DEF ValidateOne, Past, Entry
<1>8. CASE SaveState
  <2>1. Good \subseteq Good'
    BY <1>2, <1>5, <1>8 DEF SaveState, Past
  <2> QED
    BY <1>1, <2>1, <1>8 DEF SaveState, Entry
<1>9. CASE Generate
  <2>1. /\ step = "generate" /\ step' = "register"
        /\ UNCHANGED <<H, batch, rnd, pool, log, saved>>
        /\ \E left : source' = Rewritten(left)
    BY <1>9 DEF Generate
  <2>2. ASSUME NEW h \in Good  PROVE h \in Good'
    <3>1. h \in Name => h \notin Children(Branch)
      BY <1>2, <2>1, <2>2 DEF Past, Children
    <3>2. h \in Name => source'[h] = source[h]
      BY <2>1, <3>1 DEF Rewritten
    <3>3. Past(h) => Past(h)'
      BY <1>2, <2>1, <2>2 DEF Past
    <3> QED
      BY <2>1, <2>2, <3>2, <3>3, GoodKept DEF Good
  <2> QED
    BY <1>1, <2>1, <2>2 DEF Entry
<1>10. CASE Refuse
  BY <1>1, <1>4, <1>10 DEF Refuse, Past, Entry
<1>11. CASE Recognise
  <2>1. PICK c \in First(todo) : Known(c) /\ pool' = pool \cup {c}
    BY <1>11 DEF Recognise, Accept, Observed
  <2>2. /\ step = "register"
        /\ UNCHANGED <<H, batch, rnd, step, log, source, saved>>
    BY <1>11 DEF Recognise
  <2>3. Good \subseteq Good'
    BY <1>4, <2>2 DEF Past
  <2>4. c \in Name /\ c \in Children(Branch)
    BY <2>2 DEF First, Typed, TodoInv
  <2>5. Registered(c)
    BY <1>3, <2>1, <2>4 DEF Known, SameArtifact, Registered
  <2>6. Past(c)
    BY <2>2, <2>4 DEF Children, Past
  <2> QED
    BY <1>1, <2>1, <2>2, <2>3, <2>4, <2>5, <2>6 DEF Good, Entry
<1>12. CASE StagePatch
  <2>1. Good \subseteq Good'
    BY <1>2, <1>4, <1>12 DEF StagePatch, Past
  <2> QED
    BY <1>1, <1>12, <2>1 DEF StagePatch, Entry
<1>13. CASE Associate
  <2>1. PICK c \in First(todo) :
          /\ memory' = [memory EXCEPT
               ![c] = [status |-> "pending", source |-> source[c], seen |-> {}]]
          /\ saved' = memory'
          /\ pool' = pool \cup {c}
    BY <1>13 DEF Associate, Accept, Observed
  <2>2. /\ step = "associate" /\ step' = "register"
        /\ UNCHANGED <<H, batch, rnd, log, source>>
    BY <1>13 DEF Associate
  <2>3. c \in Name /\ c \in Children(Branch)
    BY <2>2 DEF First, Typed, TodoInv
  <2>4. /\ saved'[c].status = "pending" /\ saved'[c].source = source[c]
        /\ \A d \in Name \ {c} : saved'[d] = memory[d]
    BY <2>1, <2>3 DEF Typed
  <2>5. \A h : Past(h) => Past(h)'
    BY <2>2 DEF Past
  <2>6. Past(c)
    BY <2>2, <2>3 DEF Children, Past
  <2>7. c \in Good'
    BY <2>2, <2>3, <2>4, <2>5, <2>6 DEF Good, Registered, Name, Seed
  <2>8. ASSUME NEW h \in Good, h # c  PROVE h \in Good'
    <3>1. h # Seed => SameArtifact(memory[h], saved[h]) /\ saved'[h] = memory[h]
      BY <1>3, <2>4, <2>8 DEF Good
    <3> QED
      BY <2>2, <2>5, <2>8, <3>1, GoodKept DEF SameArtifact
  <2> QED
    BY <1>1, <2>1, <2>2, <2>7, <2>8 DEF Entry
<1>14. CASE EndRound
  <2>1. Good \subseteq Good'
    BY <1>2, <1>4, <1>14 DEF EndRound, NextRound, Past
  <2> QED
    BY <1>1, <1>14, <2>1 DEF EndRound, Entry
<1>15. CASE Judge
  <2>1. PICK h \in Picked :
          /\ H' = h
          /\ IF h \in pool THEN log' = Append(log, [batch |-> batch, harness |-> h])
             ELSE log' = log
    BY <1>15 DEF Judge
  <2>2. /\ step = "judge" /\ step' = "age"
        /\ UNCHANGED <<batch, rnd, pool, source, saved>>
    BY <1>15 DEF Judge
  <2>3. h \in pool \cup {H}
    BY <2>1 DEF Picked, JudgeLeaves
  <2>4. h \in Good
    BY <1>1, <2>3
  <2>5. Good \subseteq Good'
    BY <1>2, <1>4, <2>2 DEF Past
  <2>6. [batch |-> batch, harness |-> h] \in Entry
    BY <2>4 DEF Entry, Good
  <2>7. CASE log' = log
    BY <1>1, <2>1, <2>2, <2>4, <2>5, <2>7 DEF Entry
  <2>8. CASE log' = Append(log, [batch |-> batch, harness |-> h])
    <3>1. log' \in Seq(Entry)
      BY <1>1, <2>6, <2>8
    <3>2. \A i \in DOMAIN log' : log'[i] = IF i \in DOMAIN log THEN log[i]
                                           ELSE [batch |-> batch, harness |-> h]
      BY <1>1, <2>6, <2>8
    <3>3. \A i \in DOMAIN log' : log'[i].harness \in Good
      BY <1>1, <2>4, <3>2
    <3> QED
      BY <1>1, <2>1, <2>2, <2>4, <2>5, <3>1, <3>3 DEF Entry
  <2> QED
    BY <2>1, <2>7, <2>8
<1>16. CASE Age
  <2>1. Good \subseteq Good'
    BY <1>2, <1>4, <1>16 DEF Age, Past
  <2> QED
    BY <1>1, <1>16, <2>1 DEF Age, Entry
<1>17. CASE Promote
  <2>1. Good \subseteq Good'
    BY <1>2, <1>4, <1>17 DEF Promote, NextBatch, Past
  <2> QED
    BY <1>1, <1>17, <2>1 DEF Promote, Entry
<1>18. CASE Rerun
  <2>1. /\ H' = Seed /\ batch' = 1 /\ pool' = {} /\ log' = <<>>
    BY <1>18 DEF Rerun, Begin
  <2>2. Seed \in Good'
    BY <2>1 DEF Good, Registered, Past, Seed
  <2>3. log' \in Seq(Entry) /\ DOMAIN log' = {}
    BY <2>1
  <2> QED
    BY <2>1, <2>2, <2>3 DEF Entry
<1>19. CASE Resume
  BY <1>19 DEF Resume, MMH
<1>20. CASE UNCHANGED vars
  BY <1>1, <1>4, <1>20 DEF vars, loop, Past, Entry
<1> QED
  BY <1>6, <1>7, <1>8, <1>9, <1>10, <1>11, <1>12, <1>13, <1>14, <1>15, <1>16, <1>17, <1>18,
     <1>19, <1>20 DEF HarnessNext

-----------------------------------------------------------------------------

LEMMA LoopInit ==
  ASSUME HarnessInit
  PROVE  LoopInv
<1>1. Typed
  BY ShapeTyped, NoRowsTyped DEF HarnessInit, Typed
<1>2. StoreInv
  <2>1. Grounded(NoPatch, 0) /\ \A b : Grounded(NoPatch, b)
    BY StagedGrounded DEF NoPatch
  <2>2. Follows(NoAssociation, NoPatch) /\ SameArtifact(NoAssociation, NoAssociation)
    BY DEF Follows, NoAssociation, NoPatch, SameArtifact
  <2> QED
    BY <2>1, <2>2 DEF HarnessInit, StoreInv
<1>3. TodoInv
  BY DEF HarnessInit, TodoInv
<1>4. RunInv
  <2>1. Seed \in Good
    BY DEF HarnessInit, Good, Registered, Past, Seed
  <2>2. <<>> \in Seq([batch : Nat, harness : Name \cup {Seed}]) /\ DOMAIN <<>> = {}
    OBVIOUS
  <2> QED
    BY <2>1, <2>2 DEF HarnessInit, RunInv
<1> QED
  BY <1>1, <1>2, <1>3, <1>4 DEF LoopInv

(* All of the invariant: the types, what the JSON file and memory say of   *)
(* the store, what the listed candidates are, and that every harness the   *)
(* run holds or has scored is recorded and past rewriting.                 *)
THEOREM LoopsSound == HarnessSpec => []LoopInv
<1>1. HarnessInit => LoopInv
  BY LoopInit
<1>2. LoopInv /\ [HarnessNext]_vars => LoopInv'
  BY TypeStep, StoreStep, TodoStep, RunStep DEF LoopInv
<1> QED
  BY <1>1, <1>2, PTL DEF HarnessSpec

(* Wherever the process dies, the JSON file of lcb_optimize shows no       *)
(* verdict and no task the SQLite store has not, no task judges a          *)
(* candidate of its own batch or a later one, and a stable rule won on     *)
(* enough batches.                                                         *)
THEOREM FileNeverAhead == HarnessSpec => []StateFollowsStore
<1>1. LoopInv => StateFollowsStore
  BY DEF LoopInv, StoreInv, Follows, Grounded, StateFollowsStore
<1> QED
  BY <1>1, LoopsSound, PTL

(* With a memory, what is scored is recorded in the JSON file as the very  *)
(* artifact that was run, however often the loop was killed and started    *)
(* again under the same name.                                              *)
THEOREM ScoresAreRecorded == HarnessSpec => []ScoredIsRegistered
<1>1. LoopInv => ScoredIsRegistered
  BY DEF LoopInv, RunInv, Good, Registered, ScoredIsRegistered
<1> QED
  BY <1>1, LoopsSound, PTL

-----------------------------------------------------------------------------
(* Where a candidate's line began *)

LEMMA LeastNat ==
  ASSUME NEW N, N \subseteq Nat, N # {}
  PROVE  \E n \in N : \A m \in N : n <= m
<1>1. PICK n \in N : \A m \in N : <<m, n>> \notin OpToRel(<, Nat)
  BY NatLessThanWellFounded, WFMin
<1>2. \A m \in N : ~(m < n)
  BY <1>1 DEF OpToRel
<1> QED
  BY <1>2

Made == Name \cup {Seed}

\* Within a batch, a candidate comes from one of an earlier round.
Lineage ==
  /\ parent \in [Name -> Made]
  /\ \A c \in Name : parent[c][1] = c[1] => parent[c] \in Name /\ parent[c][2] < c[2]

\* What Root says of the candidates of the first rounds.
Early(n) == {c \in Name : c[2] < n}
RootOf(R, c) == IF parent[c][1] = c[1] THEN R[parent[c]] ELSE parent[c]
Roots(R, S) == R = [c \in S |-> RootOf(R, c)]

LEMMA RootUnfolded == Root = CHOOSE R : Roots(R, Name)
BY Zenon DEF Root, Roots, RootOf

LEMMA EarlyParent ==
  ASSUME Lineage, NEW n \in Nat, NEW c \in Early(n), parent[c][1] = c[1]
  PROVE  /\ parent[c] \in Early(n) /\ parent[c][2] < c[2]
         /\ \A m \in Nat : c[2] <= m => parent[c] \in Early(m)
BY NameTyped DEF Lineage, Early

LEMMA RootsAgree ==
  ASSUME Lineage, NEW P, NEW Q, NEW m \in Nat, NEW n \in Nat, m <= n,
         Roots(P, Early(m)), Roots(Q, Early(n)), NEW c \in Early(m)
  PROVE  P[c] = Q[c]
<1> DEFINE Bad == {d \in Early(m) : P[d] # Q[d]}
           N == {d[2] : d \in Bad}
<1> SUFFICES ASSUME c \in Bad PROVE FALSE
  OBVIOUS
<1>1. N \subseteq Nat /\ N # {}
  BY NameTyped DEF Early
<1>2. PICK k \in N : \A j \in N : k <= j
  BY <1>1, LeastNat
<1>3. PICK d \in Bad : d[2] = k
  BY <1>2
<1>4. d \in Early(m) /\ d \in Early(n) /\ d[2] \in Nat
  BY NameTyped DEF Early
<1>5. P[d] = RootOf(P, d) /\ Q[d] = RootOf(Q, d)
  BY <1>4 DEF Roots
<1>6. CASE parent[d][1] = d[1]
  <2>1. parent[d] \in Early(m) /\ parent[d][2] < d[2]
    BY <1>4, <1>6, EarlyParent
  <2>2. parent[d] \notin Bad
    <3>1. parent[d][2] \in Nat
      BY <2>1, NameTyped DEF Early
    <3> QED
      BY <1>2, <1>3, <1>4, <2>1, <3>1
  <2> QED
    BY <1>3, <1>5, <1>6, <2>1, <2>2 DEF RootOf
<1>7. CASE parent[d][1] # d[1]
  BY <1>3, <1>5, <1>7 DEF RootOf
<1> QED
  BY <1>6, <1>7

LEMMA RootsExist ==
  ASSUME Lineage, NEW n \in Nat
  PROVE  \E R : Roots(R, Early(n))
<1> DEFINE N == {m \in Nat : ~ \E R : Roots(R, Early(m))}
<1> SUFFICES ASSUME N # {} PROVE FALSE
  OBVIOUS
<1>1. PICK m \in N : \A k \in N : m <= k
  BY LeastNat
<1>2. m # 0
  <2>1. Early(0) = {}
    BY NameTyped DEF Early
  <2> DEFINE R == [c \in {} |-> RootOf(<<>>, c)]
  <2>2. R = [c \in {} |-> RootOf(R, c)]
    OBVIOUS
  <2>3. Roots(R, Early(0))
    BY <2>1, <2>2 DEF Roots
  <2> QED
    BY <2>3
<1>3. m - 1 \in Nat /\ m - 1 \notin N
  BY <1>1, <1>2
<1>4. PICK P : Roots(P, Early(m - 1))
  BY <1>3
<1> DEFINE R == [c \in Early(m) |-> RootOf(P, c)]
<1>5. ASSUME NEW c \in Early(m)  PROVE RootOf(R, c) = RootOf(P, c)
  <2>1. CASE parent[c][1] = c[1]
    <3>1. parent[c] \in Early(m) /\ parent[c] \in Early(m - 1)
      <4>1. c[2] <= m - 1
        BY <1>1, NameTyped DEF Early
      <4> QED
        BY <1>1, <1>3, <2>1, <4>1, EarlyParent
    <3>2. P[parent[c]] = RootOf(P, parent[c])
      BY <1>4, <3>1 DEF Roots
    <3>3. R[parent[c]] = RootOf(P, parent[c])
      BY <3>1
    <3> QED
      BY <2>1, <3>2, <3>3 DEF RootOf
  <2>2. CASE parent[c][1] # c[1]
    BY <2>2 DEF RootOf
  <2> QED
    BY <2>1, <2>2
<1>6. R = [c \in Early(m) |-> RootOf(R, c)]
  <2>1. [c \in Early(m) |-> RootOf(P, c)] = [c \in Early(m) |-> RootOf(R, c)]
    BY <1>5, Zenon
  <2> QED
    BY <2>1
<1>7. Roots(R, Early(m))
  BY <1>6 DEF Roots
<1> QED
  BY <1>1, <1>7

RootSteps == \A c \in Name : Root[c] = RootOf(Root, c)

LEMMA RootStep == Lineage => RootSteps
<1> SUFFICES ASSUME Lineage PROVE RootSteps
  OBVIOUS
<1> DEFINE Fit(n) == CHOOSE R : Roots(R, Early(n))
           G == [c \in Name |-> Fit(c[2] + 1)[c]]
<1>1. \A n \in Nat : Roots(Fit(n), Early(n))
  BY RootsExist, Zenon
<1> HIDE DEF Fit
<1>2. ASSUME NEW c \in Name  PROVE G[c] = RootOf(G, c)
  <2> DEFINE n == c[2] + 1
  <2>1. n \in Nat /\ c[2] \in Nat /\ c \in Early(n)
    BY NameTyped DEF Early
  <2>2. Fit(n)[c] = RootOf(Fit(n), c)
    BY <1>1, <2>1 DEF Roots
  <2>3. CASE parent[c][1] = c[1]
    <3> DEFINE d == parent[c]
    <3>1. d \in Name /\ d[2] < c[2] /\ d[2] \in Nat /\ d[2] + 1 \in Nat /\ d \in Early(d[2] + 1)
      BY <2>1, <2>3, EarlyParent, NameTyped DEF Early
    <3>2. Roots(Fit(d[2] + 1), Early(d[2] + 1)) /\ Roots(Fit(n), Early(n)) /\ d[2] + 1 <= n
      BY <1>1, <2>1, <3>1
    <3>3. Fit(d[2] + 1)[d] = Fit(n)[d]
      BY <2>1, <3>1, <3>2, RootsAgree
    <3> QED
      BY <2>2, <2>3, <3>1, <3>3 DEF RootOf
  <2>4. CASE parent[c][1] # c[1]
    BY <2>2, <2>4 DEF RootOf
  <2> QED
    BY <2>3, <2>4
<1>3. Roots(G, Name)
  <2>1. [c \in Name |-> G[c]] = [c \in Name |-> RootOf(G, c)]
    BY <1>2, Zenon
  <2>2. G = [c \in Name |-> G[c]]
    OBVIOUS
  <2> HIDE DEF G
  <2> QED
    BY <2>1, <2>2 DEF Roots
<1>4. Roots(Root, Name)
  BY <1>3, RootUnfolded, Zenon
<1> QED
  BY <1>4 DEF Roots, RootSteps

\* Rewriting later files leaves the roots of the earlier ones.
LEMMA RootsKept ==
  ASSUME Lineage, Lineage', NEW b \in Nat, NEW n \in Nat,
         \A d \in Name : d[1] < b \/ (d[1] = b /\ d[2] < n) => parent'[d] = parent[d],
         NEW c \in Name, c[1] < b \/ (c[1] = b /\ c[2] < n)
  PROVE  Root'[c] = Root[c]
<1> DEFINE Old(d) == d[1] < b \/ (d[1] = b /\ d[2] < n)
           Bad == {d \in Name : Old(d) /\ Root'[d] # Root[d]}
           N == {d[2] : d \in Bad}
<1> SUFFICES ASSUME c \in Bad PROVE FALSE
  OBVIOUS
<1>1. N \subseteq Nat /\ N # {}
  BY NameTyped
<1>2. PICK k \in N : \A j \in N : k <= j
  BY <1>1, LeastNat
<1>3. PICK d \in Bad : d[2] = k
  BY <1>2
<1>4. RootSteps /\ RootSteps'
  BY RootStep, PTL
<1>5. /\ Root[d] = IF parent[d][1] = d[1] THEN Root[parent[d]] ELSE parent[d]
      /\ Root'[d] = IF parent[d][1] = d[1] THEN Root'[parent[d]] ELSE parent[d]
  BY <1>4 DEF RootSteps, RootOf
<1>6. CASE parent[d][1] = d[1]
  <2>1. parent[d] \in Name /\ parent[d][2] < d[2]
    BY <1>6 DEF Lineage
  <2>2. parent[d][2] \in Nat /\ d[2] \in Nat /\ d[1] \in Nat
    BY <2>1, NameTyped
  <2>3. Old(parent[d])
    BY <1>6, <2>1, <2>2
  <2>4. parent[d] \notin Bad
    <3>1. \A x \in Bad : k <= x[2]
      BY <1>2
    <3> HIDE DEF Bad
    <3> QED
      BY <1>3, <2>1, <2>2, <3>1
  <2>5. Root'[parent[d]] = Root[parent[d]]
    BY <2>1, <2>3, <2>4
  <2> QED
    BY <1>3, <1>5, <1>6, <2>5
<1>7. CASE parent[d][1] # d[1]
  BY <1>3, <1>5, <1>7
<1> QED
  BY <1>6, <1>7

-----------------------------------------------------------------------------
(* One run *)

Working == step \in {"validate", "generate", "register", "associate", "judge"}

\* A harness that ran on the open batch: the incumbent, or made from it.
Descends(h) == h = H \/ (h \in Name /\ h[1] = batch /\ Past(h) /\ Root[h] = H)

Line == {branches[g] : g \in Branch} \cup pool

WorkInv ==
  /\ Working \/ step \in {"batch", "age", "promote", "end"}
  /\ Working => DOMAIN branches = Branch /\ \A h \in Line : Descends(h)
  /\ step \in {"register", "associate"} => \A c \in todo : Root[c] = H

Linked(i) ==
  LET previous == IF i = 1 THEN [batch |-> 0, harness |-> Seed] ELSE log[i - 1] IN
  /\ previous.batch < log[i].batch
  /\ \/ log[i].harness = previous.harness
     \/ log[i].harness[1] = log[i].batch /\ Root[log[i].harness] = previous.harness

LogInv ==
  /\ log \in Seq([batch : Nat, harness : Made])
  /\ idle \subseteq 1..Done
  /\ H \in Made /\ H[1] <= Done
  /\ H = IF log = <<>> THEN Seed ELSE log[Len(log)].harness
  /\ {log[i].batch : i \in DOMAIN log} = (1..Done) \ idle
  /\ \A i \in DOMAIN log : log[i].harness[1] <= log[i].batch /\ Linked(i)
  /\ \A i, j \in DOMAIN log : i < j => log[i].batch < log[j].batch

OneRunInv == Lineage /\ LogInv /\ WorkInv

LEMMA LogTyped ==
  ASSUME LogInv
  PROVE  /\ DOMAIN log = 1..Len(log) /\ Len(log) \in Nat
         /\ \A i \in DOMAIN log :
              /\ log[i] \in [batch : Nat, harness : Made]
              /\ log[i].batch \in Nat /\ log[i].batch \in 1..Done
              /\ log[i].harness \in Made /\ log[i].harness[1] <= log[i].batch
              /\ Linked(i)
<1>1. log \in Seq([batch : Nat, harness : Made])
  BY DEF LogInv
<1>2. DOMAIN log = 1..Len(log) /\ Len(log) \in Nat
      /\ \A i \in DOMAIN log : log[i] \in [batch : Nat, harness : Made]
  <2> DEFINE R == [batch : Nat, harness : Made]
  <2>1. log \in Seq(R)
    BY <1>1
  <2> HIDE DEF R
  <2>2. DOMAIN log = 1..Len(log) /\ Len(log) \in Nat /\ \A i \in DOMAIN log : log[i] \in R
    BY <2>1
  <2> QED
    BY <2>2 DEF R
<1>3. {log[i].batch : i \in DOMAIN log} = (1..Done) \ idle
  BY DEF LogInv
<1>4. \A i \in DOMAIN log : log[i].batch \in 1..Done
  BY <1>3
<1>5. \A i \in DOMAIN log : log[i].harness[1] <= log[i].batch /\ Linked(i)
  BY DEF LogInv
<1> QED
  BY <1>2, <1>4, <1>5

LEMMA MadeTyped ==
  ASSUME NEW h \in Made
  PROVE  h[1] \in Nat
BY NameTyped DEF Made, Seed

LEMMA DoneTyped ==
  ASSUME Typed
  PROVE  Done \in Nat /\ Done <= batch /\ (Working => Done = batch - 1)
BY BatchTyped DEF Done, Working

\* Nothing is scored and no file is written.
LEMMA LogKept ==
  ASSUME LogInv, UNCHANGED <<log, idle, H, parent>>, Done' = Done
  PROVE  LogInv'
<1>1. Root' = Root
  BY DEF Root
<1>2. \A i \in DOMAIN log : Linked(i)' <=> Linked(i)
  BY <1>1 DEF Linked
<1> QED
  BY <1>2 DEF LogInv

LEMMA LineKept ==
  ASSUME WorkInv, Working, UNCHANGED <<H, batch, parent>>, DOMAIN branches' = Branch',
         \A h \in Line' : h \in Line \/ h = H \/ (h \in Name /\ h[1] = batch /\ Root[h] = H
                                                    /\ Past(h)'),
         \A h \in Name : Past(h) => Past(h)',
         Working', step' \in {"register", "associate"} => \A c \in todo' : Root[c] = H
  PROVE  WorkInv'
<1>1. Root' = Root
  BY DEF Root
<1>2. ASSUME NEW h \in Line'  PROVE Descends(h)'
  BY <1>1, <1>2 DEF WorkInv, Descends
<1> QED
  BY <1>1, <1>2 DEF WorkInv

LEMMA GenerateKeeps ==
  ASSUME LoopInv, OneRunInv, Generate
  PROVE  OneRunInv'
<1>0. /\ Typed /\ step = "generate" /\ Working /\ Done = batch - 1
      /\ batch \in Nat \ {0} /\ rnd \in Nat \ {0}
      /\ DOMAIN branches = Branch /\ \A h \in Line : Descends(h)
  BY BatchTyped, DoneTyped DEF LoopInv, OneRunInv, WorkInv, Generate, Working
<1>1. PICK left \in [Branch -> SessionLeaves] :
        /\ parent' = [c \in Name |-> IF c \in Children(Offered(left)) THEN branches[c[3]]
                                     ELSE parent[c]]
        /\ IF MMH THEN /\ todo' = Children(Offered(left)) /\ step' = "register"
                       /\ UNCHANGED <<rnd, branches, pool>>
           ELSE /\ branches' = Advanced(Children(Offered(left)))
                /\ pool' = Observed(Children(Offered(left)))
                /\ NextRound
                /\ UNCHANGED todo
  BY DEF Generate
<1> DEFINE offered == Children(Offered(left))
<1>2. UNCHANGED <<shape, H, batch, log, idle>> /\ Branch' = Branch
  BY DEF Generate, Branch
<1>3. offered \subseteq Name
  BY <1>0, ChildrenNamed DEF Offered
<1>4. \A c \in offered : c[1] = batch /\ c[2] = rnd /\ c[3] \in Branch /\ c = <<batch, rnd, c[3]>>
  BY DEF Children, Offered
<1> HIDE DEF offered
<1>5. \A g \in Branch : branches[g] \in Line
  BY DEF Line
<1>6. H \in Made /\ H[1] < batch /\ H[1] \in Nat
  BY <1>0, MadeTyped DEF OneRunInv, LogInv
<1>7. \A h \in Line : /\ h \in Made
                      /\ h # H => h \in Name /\ h[1] = batch /\ h[2] < rnd /\ Root[h] = H
  <2>1. ASSUME NEW h \in Line, h # H
        PROVE  h \in Name /\ h[1] = batch /\ h[2] < rnd /\ Root[h] = H
    BY <1>0, <2>1 DEF Descends, Past
  <2> QED
    BY <1>6, <2>1 DEF Made
<1>8. Lineage'
  <2>1. \A c \in Name : parent'[c] \in Made
    BY <1>1, <1>4, <1>5, <1>7 DEF OneRunInv, Lineage, offered
  <2>2. ASSUME NEW c \in Name, parent'[c][1] = c[1]
        PROVE  parent'[c] \in Name /\ parent'[c][2] < c[2]
    <3>1. CASE c \in offered
      <4>1. parent'[c] = branches[c[3]] /\ branches[c[3]] \in Line
        BY <1>1, <1>4, <1>5, <3>1 DEF offered
      <4>2. branches[c[3]] # H
        BY <1>4, <1>6, <2>2, <3>1, <4>1
      <4> QED
        BY <1>4, <1>7, <3>1, <4>1, <4>2
    <3>2. CASE c \notin offered
      BY <1>1, <2>2, <3>2 DEF OneRunInv, Lineage, offered
    <3> QED
      BY <3>1, <3>2
  <2> QED
    BY <1>1, <2>1, <2>2 DEF Lineage
<1>9. \A c \in Name : c[1] < batch \/ (c[1] = batch /\ c[2] < rnd) => Root'[c] = Root[c]
  <2>1. \A d \in Name : d[1] < batch \/ (d[1] = batch /\ d[2] < rnd) => parent'[d] = parent[d]
    BY <1>0, <1>1, <1>4, NameTyped DEF offered
  <2> QED
    BY <1>0, <1>8, <2>1, RootsKept DEF OneRunInv
<1>10. \A c \in offered : Root'[c] = H
  <2> SUFFICES ASSUME NEW c \in offered PROVE Root'[c] = H
    OBVIOUS
  <2> DEFINE h == branches[c[3]]
  <2>1. h \in Line /\ parent'[c] = h /\ c \in Name /\ c[1] = batch
    BY <1>1, <1>3, <1>4, <1>5 DEF offered
  <2>2. RootSteps'
    BY <1>8, RootStep, PTL
  <2>3. Root'[c] = IF h[1] = batch THEN Root'[h] ELSE h
    BY <2>1, <2>2 DEF RootSteps, RootOf
  <2>4. CASE h = H
    BY <1>6, <2>3, <2>4
  <2>5. CASE h # H
    BY <1>7, <1>9, <2>1, <2>3, <2>5
  <2> QED
    BY <2>4, <2>5
<1>11. /\ step' \in {"register", "generate", "judge"}
       /\ step' = "generate" => rnd' = rnd + 1
       /\ step' # "generate" => rnd' = rnd
  BY <1>1 DEF NextRound
<1>12. Done' = Done
  BY <1>0, <1>2, <1>11 DEF Done
<1>13. LogInv'
  <2>1. ASSUME NEW i \in DOMAIN log  PROVE Linked(i)'
    <3>1. log[i].harness \in Made /\ log[i].batch \in Nat /\ log[i].batch < batch
          /\ Linked(i)
      BY <1>0, LogTyped DEF OneRunInv
    <3>2. ASSUME log[i].harness[1] = log[i].batch, log[i].harness \in Name
          PROVE  Root'[log[i].harness] = Root[log[i].harness]
      BY <1>9, <3>1, <3>2
    <3>3. CASE log[i].harness \in Name
      BY <1>2, <3>1, <3>2, <3>3 DEF Linked
    <3>4. CASE log[i].harness = Seed
      <4>1. log[i].harness[1] = 0 /\ log[i].batch # 0
        BY <3>4, LogTyped DEF Seed, OneRunInv
      <4> QED
        BY <1>2, <3>1, <4>1 DEF Linked
    <3> QED
      BY <3>1, <3>3, <3>4 DEF Made
  <2> QED
    BY <1>2, <1>12, <2>1 DEF OneRunInv, LogInv
<1>14. \A h \in Line' : h \in Line \cup offered
  <2>1. CASE MMH
    BY <1>1, <1>2, <2>1 DEF Line
  <2>2. CASE ~MMH
    BY <1>1, <1>2, <2>2 DEF Line, Advanced, Observed, offered
  <2> QED
    BY <2>1, <2>2
<1>15. ~MMH => \A h \in Line' : Descends(h)'
  <2> SUFFICES ASSUME ~MMH, NEW h \in Line' PROVE Descends(h)'
    OBVIOUS
  <2>1. CASE h \in offered
    <3>1. h \in Name /\ h[1] = batch /\ h[2] = rnd /\ Root'[h] = H
      BY <1>3, <1>4, <1>10, <2>1
    <3>2. step' \in {"generate", "judge"}
      BY <1>1 DEF NextRound
    <3> QED
      BY <1>0, <1>2, <1>11, <3>1, <3>2 DEF Descends, Past
  <2>2. CASE h \in Line
    <3>1. CASE h = H
      BY <1>2, <3>1 DEF Descends
    <3>2. CASE h # H
      <4>1. h \in Name /\ h[1] = batch /\ h[2] < rnd /\ Root'[h] = H /\ h[2] \in Nat
        BY <1>7, <1>9, <2>2, <3>2, NameTyped
      <4>2. step' \in {"generate", "judge"}
        BY <1>1 DEF NextRound
      <4>3. Past(h)'
        BY <1>0, <1>2, <1>11, <4>1, <4>2 DEF Past
      <4> QED
        BY <1>2, <4>1, <4>3 DEF Descends
    <3> QED
      BY <3>1, <3>2
  <2> QED
    BY <1>14, <2>1, <2>2
<1>16. MMH => \A h \in Line' : Descends(h)'
  <2> SUFFICES ASSUME MMH, NEW h \in Line' PROVE Descends(h)'
    OBVIOUS
  <2>1. h \in Line /\ step' = "register"
    BY <1>1, <1>2 DEF Line
  <2> QED
    BY <1>0, <1>2, <1>7, <1>9, <1>11, <2>1 DEF Descends, Past
<1>17. DOMAIN branches' = Branch'
  BY <1>0, <1>1, <1>2 DEF Advanced
<1>18. step' \in {"register", "associate"} => \A c \in todo' : Root'[c] = H'
  <2>1. step' \in {"register", "associate"} => MMH
    BY <1>1 DEF NextRound
  <2> QED
    BY <1>1, <1>2, <1>10, <2>1 DEF offered
<1>19. WorkInv'
  BY <1>11, <1>15, <1>16, <1>17, <1>18 DEF WorkInv, Working
<1> QED
  BY <1>8, <1>13, <1>19 DEF OneRunInv

LEMMA StartBatchKeeps ==
  ASSUME LoopInv, OneRunInv, StartBatch
  PROVE  OneRunInv'
<1>1. UNCHANGED <<parent, log, idle, H, batch, shape>> /\ step = "batch"
      /\ step' \in {"validate", "generate"}
  BY DEF StartBatch
<1>2. Done' = Done
  BY <1>1 DEF Done
<1>3. Lineage'
  BY <1>1 DEF OneRunInv, Lineage
<1>4. LogInv'
  BY <1>1, <1>2, LogKept DEF OneRunInv
<1>5. DOMAIN branches' = Branch' /\ \A h \in Line' : h = H
  BY <1>1 DEF StartBatch, Incumbents, Loaded, Line, Branch
<1>6. WorkInv'
  BY <1>1, <1>5 DEF WorkInv, Working, Descends
<1> QED
  BY <1>3, <1>4, <1>6 DEF OneRunInv

\* Steps within a batch that run no candidate.
LEMMA QuietKeeps ==
  ASSUME LoopInv, OneRunInv, ValidateOne \/ SaveState \/ Refuse \/ StagePatch \/ EndRound
  PROVE  OneRunInv'
<1>1. /\ UNCHANGED <<parent, log, idle, H, batch, shape, branches, pool>>
      /\ todo' \subseteq todo
  BY DEF ValidateOne, SaveState, Refuse, StagePatch, EndRound
<1>2. \/ step = "validate" /\ step' \in {"validate", "generate"} /\ rnd' = rnd
      \/ step \in {"register", "associate"} /\ step' \in {"register", "associate"} /\ rnd' = rnd
      \/ step = "register" /\ step' = "generate" /\ rnd' = rnd + 1
      \/ step = "register" /\ step' = "judge" /\ rnd' = rnd
  BY DEF ValidateOne, SaveState, Refuse, StagePatch, EndRound, NextRound
<1>3. Done' = Done /\ Working /\ Working'
  BY <1>1, <1>2 DEF Done, Working
<1>4. Lineage'
  BY <1>1 DEF OneRunInv, Lineage
<1>5. LogInv'
  BY <1>1, <1>3, LogKept DEF OneRunInv
<1>6. \A h \in Name : Past(h) => Past(h)'
  <2>1. rnd \in Nat /\ batch \in Nat
    BY BatchTyped DEF LoopInv
  <2> QED
    BY <1>1, <1>2, <2>1, NameTyped DEF Past
<1>7. Line' = Line /\ DOMAIN branches' = Branch'
  BY <1>1, <1>3 DEF Line, Branch, OneRunInv, WorkInv
<1>8. step' \in {"register", "associate"} => \A c \in todo' : Root[c] = H
  BY <1>1, <1>2 DEF OneRunInv, WorkInv
<1>9. WorkInv'
  BY <1>1, <1>3, <1>6, <1>7, <1>8, LineKept DEF OneRunInv
<1> QED
  BY <1>4, <1>5, <1>9 DEF OneRunInv

\* A candidate is registered, in this execution or an earlier one.
LEMMA AcceptKeeps ==
  ASSUME LoopInv, OneRunInv, Recognise \/ Associate
  PROVE  OneRunInv'
<1>1. /\ UNCHANGED <<parent, log, idle, H, batch, shape, rnd>>
      /\ step \in {"register", "associate"} /\ step' = "register"
  BY DEF Recognise, Associate
<1>2. PICK c \in First(todo) : Accept(c) /\ todo' = todo \ {c}
  BY DEF Recognise, Associate
<1>3. Done' = Done /\ Working /\ Working'
  BY <1>1 DEF Done, Working
<1>4. Lineage'
  BY <1>1 DEF OneRunInv, Lineage
<1>5. LogInv'
  BY <1>1, <1>3, LogKept DEF OneRunInv
<1>6. c \in Name /\ c[1] = batch /\ c[2] = rnd /\ c[3] \in Branch /\ Root[c] = H
  BY <1>1 DEF First, LoopInv, Typed, TodoInv, Children, OneRunInv, WorkInv
<1>7. DOMAIN branches' = Branch' /\ \A h \in Line' : h \in Line \/ h = c
  BY <1>1, <1>2, <1>3, <1>6 DEF Accept, Observed, Line, Branch, OneRunInv, WorkInv
<1>8. \A h \in Name : Past(h) => Past(h)'
  BY <1>1 DEF Past
<1>9. Past(c)'
  BY <1>1, <1>6 DEF Past
<1>10. \A d \in todo' : Root[d] = H
  BY <1>1, <1>2 DEF OneRunInv, WorkInv
<1>11. WorkInv'
  BY <1>1, <1>3, <1>6, <1>7, <1>8, <1>9, <1>10, LineKept DEF OneRunInv
<1> QED
  BY <1>4, <1>5, <1>11 DEF OneRunInv

\* The batch is scored, or could not be.
LEMMA JudgeKeeps ==
  ASSUME LoopInv, OneRunInv, Judge
  PROVE  OneRunInv'
<1>0. /\ Typed /\ step = "judge" /\ Working /\ Done = batch - 1 /\ batch \in Nat \ {0}
      /\ H \in Made /\ H[1] <= Done /\ H[1] \in Nat
  BY BatchTyped, DoneTyped, MadeTyped DEF LoopInv, OneRunInv, LogInv, Judge, Working
<1>1. PICK h \in Picked :
        /\ H' = h
        /\ IF h \in pool THEN log' = Append(log, [batch |-> batch, harness |-> h]) /\ UNCHANGED idle
           ELSE idle' = idle \cup {batch} /\ UNCHANGED log
  BY DEF Judge
<1>2. UNCHANGED <<parent, shape>> /\ Root' = Root
  BY DEF Judge, Root
<1>3. step' \in {"batch", "age", "end"} /\ Done' = batch
  BY <1>0 DEF Judge, NextBatch, Done
<1>4. Lineage'
  BY <1>2 DEF OneRunInv, Lineage
<1>5. h \in pool \/ h = H
  BY DEF Picked, JudgeLeaves
<1>6. h = H \/ (h \in Name /\ h[1] = batch /\ Root[h] = H)
  BY <1>0, <1>5 DEF OneRunInv, WorkInv, Line, Descends
<1>7. h \in Made /\ h[1] <= batch
  BY <1>0, <1>6 DEF Made
<1>8. ASSUME h \in pool  PROVE LogInv'
  <2> DEFINE score == [batch |-> batch, harness |-> h]
  <2>0. PICK n \in Nat : n = Len(log) + 1
    BY LogTyped DEF OneRunInv
  <2>1. log' = Append(log, score) /\ idle' = idle
    BY <1>1, <1>8
  <2>2. score \in [batch : Nat, harness : Made] /\ log \in Seq([batch : Nat, harness : Made])
    BY <1>0, <1>7 DEF OneRunInv, LogInv
  <2>3. /\ log' \in Seq([batch : Nat, harness : Made]) /\ Len(log') = n
        /\ DOMAIN log' = 1..n /\ DOMAIN log = 1..Len(log) /\ Len(log) \in Nat
        /\ log'[n] = score /\ \A i \in DOMAIN log : log'[i] = log[i]
    <3> DEFINE R == [batch : Nat, harness : Made]
    <3>1. score \in R /\ log \in Seq(R) /\ log' = Append(log, score)
      BY <2>1, <2>2
    <3> HIDE DEF score, R
    <3>2. /\ log' \in Seq(R) /\ Len(log') = n
          /\ DOMAIN log' = 1..n /\ DOMAIN log = 1..Len(log) /\ Len(log) \in Nat
          /\ log'[n] = score /\ \A i \in DOMAIN log : log'[i] = log[i]
      BY <2>0, <3>1
    <3> QED
      BY <3>2 DEF R
  <2>4. \A i \in DOMAIN log : /\ log[i].batch \in Nat /\ log[i].batch < batch
                              /\ log[i].harness[1] <= log[i].batch /\ Linked(i)
    BY <1>0, LogTyped DEF OneRunInv
  <2>5. \A i \in DOMAIN log : Linked(i)'
    <3> SUFFICES ASSUME NEW i \in DOMAIN log PROVE Linked(i)'
      OBVIOUS
    <3>1. log'[i] = log[i] /\ (i # 1 => i - 1 \in DOMAIN log /\ log'[i - 1] = log[i - 1])
      BY <2>3
    <3> QED
      BY <1>2, <2>4, <3>1 DEF Linked
  <2>6. Linked(n)'
    <3>1. H = IF n = 1 THEN Seed ELSE log'[n - 1].harness
      <4>1. H = IF log = <<>> THEN Seed ELSE log[Len(log)].harness
        BY DEF OneRunInv, LogInv
      <4>2. log = <<>> <=> n = 1
        BY <2>0, <2>2, <2>3
      <4>3. n # 1 => n - 1 = Len(log) /\ Len(log) \in DOMAIN log
        BY <2>0, <2>3
      <4> QED
        BY <2>3, <4>1, <4>2, <4>3
    <3>2. n # 1 => log'[n - 1].batch < batch
      BY <2>0, <2>3, <2>4
    <3> QED
      BY <1>0, <1>2, <1>6, <2>3, <3>1, <3>2 DEF Linked
  <2>12. /\ log'[n].batch = batch /\ log'[n].harness = h /\ log' # <<>>
         /\ DOMAIN log' = DOMAIN log \cup {n} /\ n \notin DOMAIN log
         /\ \A i \in DOMAIN log : i < n /\ log'[i].batch = log[i].batch
    <3>1. log'[n].batch = batch /\ log'[n].harness = h
      BY <2>3
    <3>2. DOMAIN log' = DOMAIN log \cup {n} /\ n \notin DOMAIN log /\ n \in DOMAIN log'
          /\ \A i \in DOMAIN log : i < n
      BY <2>0, <2>3
    <3>3. log' # <<>>
      BY <3>2
    <3> QED
      BY <2>3, <3>1, <3>2, <3>3
  <2>7. {log'[i].batch : i \in DOMAIN log'} = (1..batch) \ idle
    <3>2. {log'[i].batch : i \in DOMAIN log'} = {log[i].batch : i \in DOMAIN log} \cup {batch}
      BY <2>12
    <3>3. {log[i].batch : i \in DOMAIN log} = (1..batch - 1) \ idle /\ idle \subseteq 1..batch - 1
      BY <1>0 DEF OneRunInv, LogInv
    <3>4. 1..batch = (1..batch - 1) \cup {batch} /\ batch \notin 1..batch - 1
      BY <1>0
    <3> QED
      BY <3>2, <3>3, <3>4
  <2>8. \A i \in DOMAIN log' : log'[i].harness[1] <= log'[i].batch /\ Linked(i)'
    BY <1>7, <2>0, <2>3, <2>4, <2>5, <2>6
  <2>9. \A i, j \in DOMAIN log' : i < j => log'[i].batch < log'[j].batch
    <3>1. \A i, j \in DOMAIN log : i < j => log[i].batch < log[j].batch
      BY DEF OneRunInv, LogInv
    <3>2. \A i \in DOMAIN log : i < n /\ ~(n < i) /\ ~(n < n)
      BY <2>0, <2>3
    <3> QED
      BY <2>4, <2>12, <3>1, <3>2
  <2>10. H' = IF log' = <<>> THEN Seed ELSE log'[Len(log')].harness
    BY <1>1, <2>3, <2>12
  <2>11. idle' \subseteq 1..Done' /\ H' \in Made /\ H'[1] <= Done'
    <3>1. idle \subseteq 1..batch - 1
      BY <1>0 DEF OneRunInv, LogInv
    <3> QED
      BY <1>0, <1>1, <1>3, <1>7, <2>1, <3>1
  <2> QED
    BY <1>3, <2>1, <2>3, <2>7, <2>8, <2>9, <2>10, <2>11 DEF LogInv
<1>9. ASSUME h \notin pool  PROVE LogInv'
  <2>1. H' = H /\ log' = log /\ idle' = idle \cup {batch}
    BY <1>1, <1>5, <1>9
  <2>2. \A i \in DOMAIN log : Linked(i)' <=> Linked(i)
    BY <1>2, <2>1 DEF Linked
  <2>3. {log[i].batch : i \in DOMAIN log} = (1..batch - 1) \ idle /\ idle \subseteq 1..batch - 1
    BY <1>0 DEF OneRunInv, LogInv
  <2>4. (1..batch - 1) \ idle = (1..batch) \ (idle \cup {batch}) /\ idle \cup {batch} \subseteq 1..batch
    BY <1>0, <2>3
  <2>5. {log'[i].batch : i \in DOMAIN log'} = (1..Done') \ idle' /\ idle' \subseteq 1..Done'
    BY <1>3, <2>1, <2>3, <2>4
  <2>6. H' \in Made /\ H'[1] <= Done'
    BY <1>0, <1>3, <2>1
  <2> QED
    BY <2>1, <2>2, <2>5, <2>6 DEF OneRunInv, LogInv
<1>10. WorkInv'
  BY <1>3 DEF WorkInv, Working
<1> QED
  BY <1>4, <1>8, <1>9, <1>10 DEF OneRunInv

LEMMA AfterJudgeKeeps ==
  ASSUME LoopInv, OneRunInv, Age \/ Promote
  PROVE  OneRunInv'
<1>1. UNCHANGED <<parent, log, idle, H>> /\ step' \in {"promote", "batch", "end"}
  BY DEF Age, Promote, NextBatch
<1>2. Done' = Done
  BY BatchTyped DEF Age, Promote, NextBatch, Done, LoopInv
<1>3. Lineage'
  BY <1>1 DEF OneRunInv, Lineage
<1>4. LogInv'
  BY <1>1, <1>2, LogKept DEF OneRunInv
<1>5. WorkInv'
  BY <1>1 DEF WorkInv, Working
<1> QED
  BY <1>3, <1>4, <1>5 DEF OneRunInv

LEMMA RerunKeeps ==
  ASSUME LoopInv, OneRunInv, Rerun
  PROVE  OneRunInv'
<1>1. /\ parent' = [c \in Name |-> Seed] /\ log' = <<>> /\ idle' = {} /\ H' = Seed
      /\ batch' = 1 /\ step' = "batch"
  BY DEF Rerun, Begin
<1>2. Lineage'
  BY <1>1, NameTyped DEF Lineage, Made, Seed
<1>3. Done' = 0
  BY <1>1 DEF Done
<1>4. 1..0 = {} /\ DOMAIN <<>> = {}
  OBVIOUS
<1>5. LogInv'
  BY <1>1, <1>3, <1>4 DEF LogInv, Made, Seed
<1>6. WorkInv'
  BY <1>1 DEF WorkInv, Working
<1> QED
  BY <1>2, <1>5, <1>6 DEF OneRunInv

\* Records that number the batches from the first are the log's first ones.
LEMMA ResumeKeeps ==
  ASSUME OwnPrefix, LoopInv, OneRunInv, Resume
  PROVE  OneRunInv'
<1>1. PICK prefix \in PrefixFiles, first \in 2..shape.batches,
           harness \in {Seed} \cup {c \in Name : source[c] # 0} :
        PrefixAccepted(prefix, first, harness) /\ Begin(harness, first, prefix)
  BY DEF Resume
<1>2. /\ parent' = parent /\ log' = prefix /\ idle' = {} /\ H' = harness
      /\ batch' = first /\ step' = "batch"
  BY <1>1 DEF Resume, Begin
<1>3. Root' = Root
  BY <1>2 DEF Root
<1>4. Done' = first - 1 /\ first - 1 \in Nat \ {0}
  BY <1>2 DEF Done
<1> DEFINE n == first - 1
<1>5. /\ prefix \in [1..n -> ToSet(log)] /\ Len(prefix) = n /\ DOMAIN prefix = 1..n
      /\ \A i \in 1..n : prefix[i].batch = i
      /\ prefix[n].harness = harness
  <2>1. PICK m \in 0..shape.batches : prefix \in [1..m -> ToSet(log)]
    BY DEF PrefixFiles, Records, SeqOf
  <2>2. prefix \in Seq(ToSet(log)) /\ Len(prefix) = m /\ DOMAIN prefix = 1..m
    BY <2>1
  <2>3. Len(prefix) = n
    BY <1>1 DEF PrefixAccepted
  <2>4. m = n
    BY <2>2, <2>3
  <2>5. prefix[n].harness = harness
    BY <1>1, <2>3 DEF PrefixAccepted, Last
  <2>6. \A i \in DOMAIN prefix : prefix[i].batch = i
    BY <1>1 DEF PrefixAccepted
  <2> QED
    BY <2>1, <2>2, <2>3, <2>4, <2>5, <2>6
<1> HIDE DEF n
<1>6. ASSUME NEW i \in 1..n
      PROVE  \E k \in DOMAIN log : prefix[i] = log[k] /\ log[k].batch = i
  BY <1>5 DEF ToSet
<1>7. n \in Nat \ {0} /\ Done' = n
  BY <1>4 DEF n
<1>8. /\ DOMAIN log = 1..Len(log) /\ Len(log) \in Nat
      /\ \A k \in DOMAIN log :
           /\ log[k] \in [batch : Nat, harness : Made]
           /\ log[k].batch \in Nat /\ log[k].batch >= 1
           /\ log[k].harness \in Made /\ log[k].harness[1] <= log[k].batch
           /\ Linked(k)
  BY LogTyped DEF OneRunInv
<1>9. \A j, k \in DOMAIN log : j < k => log[j].batch < log[k].batch
  BY DEF OneRunInv, LogInv
<1>10. ASSUME NEW i \in 1..n  PROVE Linked(i)'
  <2>1. PICK k \in DOMAIN log : prefix[i] = log[k] /\ log[k].batch = i
    BY <1>6
  <2>2. CASE i = 1
    <3>1. k = 1
      <4>1. ~(1 < k)
        <5> SUFFICES ASSUME 1 < k PROVE FALSE
          OBVIOUS
        <5>1. 1 \in DOMAIN log
          BY <1>8
        <5>2. log[1].batch < log[k].batch
          BY <1>9, <5>1
        <5> QED
          BY <1>8, <2>1, <2>2, <5>1, <5>2
      <4> QED
        BY <1>8, <4>1
    <3>2. Linked(1)
      BY <1>8, <3>1
    <3> QED
      BY <1>2, <1>3, <2>1, <2>2, <3>1, <3>2 DEF Linked
  <2>3. CASE i # 1
    <3>1. i - 1 \in 1..n
      BY <1>7, <2>3
    <3>2. PICK j \in DOMAIN log : prefix[i - 1] = log[j] /\ log[j].batch = i - 1
      BY <1>6, <3>1
    <3>3. j < k
      <4>1. ~(k < j) /\ k # j
        BY <1>7, <1>9, <2>1, <3>2
      <4> QED
        BY <1>8, <4>1
    <3>4. ~(j + 1 < k)
      <4> SUFFICES ASSUME j + 1 < k PROVE FALSE
        OBVIOUS
      <4>1. j + 1 \in DOMAIN log
        BY <1>8, <3>3
      <4>2. log[j].batch < log[j + 1].batch /\ log[j + 1].batch < log[k].batch
        BY <1>8, <1>9, <4>1
      <4> QED
        BY <1>8, <2>1, <3>2, <4>1, <4>2
    <3>5. j = k - 1 /\ k # 1
      BY <1>8, <3>3, <3>4
    <3>6. Linked(k)
      BY <1>8
    <3> QED
      BY <1>2, <1>3, <2>1, <2>3, <3>2, <3>5, <3>6 DEF Linked
  <2> QED
    BY <2>2, <2>3
<1>11. log' \in Seq([batch : Nat, harness : Made])
  <2>1. ToSet(log) \subseteq [batch : Nat, harness : Made]
    BY <1>8 DEF ToSet
  <2>2. prefix \in [1..n -> [batch : Nat, harness : Made]]
    BY <1>5, <2>1
  <2> DEFINE R == [batch : Nat, harness : Made]
  <2>3. prefix \in [1..n -> R]
    BY <2>2
  <2> HIDE DEF R
  <2>4. prefix \in Seq(R)
    BY <1>7, <2>3
  <2> QED
    BY <1>2, <2>4 DEF R
<1>12. {log'[i].batch : i \in DOMAIN log'} = (1..Done') \ idle'
  BY <1>2, <1>5, <1>7
<1>13. H' \in Made /\ H'[1] <= Done' /\ H' = IF log' = <<>> THEN Seed ELSE log'[Len(log')].harness
  <2>1. n \in 1..n
    BY <1>7
  <2>2. PICK k \in DOMAIN log : prefix[n] = log[k] /\ log[k].batch = n
    BY <1>6, <2>1
  <2>3. harness \in Made /\ harness[1] <= n
    BY <1>5, <1>8, <2>2
  <2>4. prefix # <<>>
    BY <1>5, <1>7
  <2> QED
    BY <1>2, <1>5, <1>7, <2>3, <2>4
<1>14. \A i \in DOMAIN log' : log'[i].harness[1] <= log'[i].batch /\ Linked(i)'
  <2> SUFFICES ASSUME NEW i \in 1..n PROVE prefix[i].harness[1] <= prefix[i].batch
    BY <1>2, <1>5, <1>10
  <2> QED
    BY <1>6, <1>8
<1>15. \A i, j \in DOMAIN log' : i < j => log'[i].batch < log'[j].batch
  BY <1>2, <1>5
<1>16. LogInv'
  BY <1>2, <1>11, <1>12, <1>13, <1>14, <1>15 DEF LogInv
<1>17. Lineage' /\ WorkInv'
  BY <1>2 DEF OneRunInv, Lineage, WorkInv, Working
<1> QED
  BY <1>16, <1>17 DEF OneRunInv

\* However the loop was killed, resumed or started again, its log reads as one
\* run's: every batch done was scored once or could not be, in order, and each
\* pick is the one before it or was made from it in that batch
\* (text_to_sql/optimize.py:288-333).
THEOREM LogsAreOneRun ==
  ASSUME OwnPrefix
  PROVE  HarnessSpec => []LogIsOneRun
<1>1. HarnessInit => OneRunInv
  <2> SUFFICES ASSUME HarnessInit PROVE OneRunInv
    OBVIOUS
  <2>1. /\ parent = [c \in Name |-> Seed] /\ log = <<>> /\ idle = {} /\ H = Seed
        /\ batch = 1 /\ step = "batch"
    BY DEF HarnessInit
  <2>2. Lineage
    BY <2>1, NameTyped DEF Lineage, Made, Seed
  <2>3. Done = 0 /\ 1..0 = {} /\ DOMAIN <<>> = {}
    BY <2>1 DEF Done
  <2>4. LogInv
    BY <2>1, <2>3 DEF LogInv, Made, Seed
  <2> QED
    BY <2>1, <2>2, <2>4 DEF OneRunInv, WorkInv, Working
<1>2. LoopInv /\ OneRunInv /\ [HarnessNext]_vars => OneRunInv'
  <2> SUFFICES ASSUME LoopInv, OneRunInv, [HarnessNext]_vars PROVE OneRunInv'
    OBVIOUS
  <2>1. CASE UNCHANGED vars
    <3>1. Root' = Root /\ Done' = Done
      BY <2>1 DEF vars, loop, Root, Done
    <3>2. LogInv' /\ Lineage'
      BY <2>1, <3>1, LogKept DEF vars, loop, OneRunInv, Lineage
    <3>3. WorkInv'
      BY <2>1, <3>1 DEF vars, loop, OneRunInv, WorkInv, Working, Line, Branch, Descends, Past
    <3> QED
      BY <3>2, <3>3 DEF OneRunInv
  <2> QED
    BY <2>1, GenerateKeeps, StartBatchKeeps, QuietKeeps, AcceptKeeps, JudgeKeeps,
       AfterJudgeKeeps, RerunKeeps, ResumeKeeps DEF HarnessNext
<1>3. OneRunInv => LogIsOneRun
  BY DEF OneRunInv, LogInv, Linked, LogIsOneRun
<1> QED
  BY <1>1, <1>2, <1>3, LoopsSound, PTL DEF HarnessSpec
=============================================================================
