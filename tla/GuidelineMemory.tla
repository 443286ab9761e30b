-------------------------- MODULE GuidelineMemory --------------------------
(***************************************************************************)
(* The guideline memory of the tau3 experiments                            *)
(* (src/experiments/tau3_mmh/guidelines.py) as a value: what one memory    *)
(* file holds, and what each of its operations makes of it.  The drivers   *)
(* keep such values on disk, copy them and put them back.                  *)
(*                                                                         *)
(* The engine below it is MetaMemory; a guideline memory only adds rules,  *)
(* one ADD patch each, so rule and patch are one row here.  A round has    *)
(* one validation group, so the evidence of a rule, unique in (patch,      *)
(* group, round), is the set of rounds it won and the set it lost, and its *)
(* counters and groups are read off them.                                  *)
(***************************************************************************)
EXTENDS Integers, FiniteSets

CONSTANTS
  MaxRound,           \* the rounds of the schedule
  Cause,              \* failure causes, numbered in lexical order
  Groups,             \* the number of validation groups, used in turn
  PromotionAge,       \* MMHConfig.promotion_age
  PromotionSubsets,   \* MMHConfig.promotion_subsets
  PriorSuccess,       \* the confidence prior
  PriorFailure,
  ConfidencePercent   \* MMHConfig.promotion_confidence, in percent

ASSUME GuidelineAssumption ==
  /\ MaxRound \in Nat /\ Groups \in Nat \ {0}
  /\ Cause \subseteq Nat
  /\ {PromotionAge, PromotionSubsets, PriorSuccess, PriorFailure, ConfidencePercent} \subseteq Nat

Rounds == 1..MaxRound

\* A guideline id is g-<round>-<cause>, its patch add:<round>:<guideline id>.
Rule == Rounds \X Cause
CreatedIn(r) == r[1]

IdBefore(r, s) == r[1] < s[1] \/ (r[1] = s[1] /\ r[2] < s[2])

\* The group validated in a round.
GroupOf(k) == (k - 1) % Groups

PatchStatus == {"absent", "rejected", "pending", "validated", "rolled_back"}

Row ==
  [patch : PatchStatus, stable : BOOLEAN, age : 0..MaxRound, measured : 0..MaxRound,
   won : SUBSET Rounds, lost : SUBSET Rounds]

NoRow ==
  [patch |-> "absent", stable |-> FALSE, age |-> 0, measured |-> 0, won |-> {}, lost |-> {}]

\* A memory: its rows, and the metadata last_round (0 before the first).
EmptyMemory == [row |-> [r \in Rule |-> NoRow], last |-> 0]

Pending(m) == {r \in Rule : m.row[r].patch = "pending"}
Validated(m) == {r \in Rule : m.row[r].patch = "validated"}
Volatile(m) == {r \in Validated(m) : ~m.row[r].stable}
Stable(m) == Validated(m) \ Volatile(m)

\* active: what a prompt may carry; hypotheses may not.
Active(m) == Validated(m)

-----------------------------------------------------------------------------
(* Operations *)

\* advance: every volatile rule ages by the rounds since the last one; a
\* round already seen, and the first one, age nothing.
Advance(m, k) ==
  IF m.last # 0 /\ k <= m.last THEN m
  ELSE [row |-> [r \in Rule |->
                   IF r \in Pending(m) \cup Volatile(m) /\ m.last # 0
                   THEN [m.row[r] EXCEPT !.age = @ + (k - m.last)] ELSE m.row[r]],
        last |-> k]

\* stage_add: a patch id already stored is returned as it is.
StageAdd(m, r) ==
  IF m.row[r].patch # "absent" THEN m
  ELSE [m EXCEPT !.row[r] = [NoRow EXCEPT !.patch = "pending"]]

\* _patches_under_validation: pending patches, and those validated that the
\* promotion gate still wants evidence of.
UnderValidation(m, r) == m.row[r].patch \in {"pending", "validated"}

\* record_round for one rule: new evidence counts once, and the first
\* decisive one resolves the patch; a rolled back addition is gone.
RecordRound(m, r, k, success) ==
  LET row == m.row[r] IN
  IF ~UnderValidation(m, r) \/ k \in row.won \cup row.lost THEN m
  ELSE [m EXCEPT !.row[r] =
          IF success THEN [row EXCEPT !.patch = "validated", !.won = @ \cup {k}]
          ELSE IF row.patch = "pending" THEN [NoRow EXCEPT !.patch = "rolled_back"]
          ELSE [row EXCEPT !.lost = @ \cup {k}]]

Confident(row) ==
  100 * (PriorSuccess + Cardinality(row.won)) >=
    ConfidencePercent * (PriorSuccess + PriorFailure + Cardinality(row.won) + Cardinality(row.lost))

\* blockers: the gate conditions a rule fails; with none it is promoted.
Blockers(row) ==
  {b \in {"not_volatile", "status", "confidence", "elapsed_age", "successful_lifespan",
          "independent_subsets"} :
     CASE b = "not_volatile" -> row.stable
       [] b = "status" -> row.patch # "validated"
       [] b = "confidence" -> ~Confident(row)
       [] b = "elapsed_age" -> row.age < PromotionAge
       [] b = "successful_lifespan" -> Cardinality(row.won) < PromotionAge
       [] OTHER -> Cardinality({GroupOf(k) : k \in row.won \cup row.lost}) < PromotionSubsets}

\* promote
Promote(m) ==
  [m EXCEPT !.row = [r \in Rule |->
     IF Blockers(m.row[r]) = {} THEN [m.row[r] EXCEPT !.stable = TRUE] ELSE m.row[r]]]

\* The first n of S in the order Before(_, _).
FirstOf(S, n, Before(_, _)) == {r \in S : Cardinality({s \in S : Before(s, r)}) < n}
=============================================================================
