---------------------------- MODULE StudyRounds ----------------------------
(***************************************************************************)
(* What the study of src/experiments/tau3_mmh/full_study.py promises of    *)
(* its memories: every arm plays its rounds one after the other, each      *)
(* round once and as a whole, on the memory the round before it left.      *)
(***************************************************************************)
EXTENDS GuidelineMemory

CONSTANTS
  Arms,        \* the arms, in the order ARMS lists them
  MaxProbes    \* CANDIDATE_EVALS_PER_ROUND

Arm == {Arms[i] : i \in DOMAIN Arms}
Learning(a) == a # "baseline"

VARIABLES
  mem,         \* the memory of each arm
  done         \* its completed rounds

\* The order of candidate_rules: oldest evidence first, then the oldest rule.
Before(m, r, s) ==
  LET seen(x) == IF m.row[x].measured = 0 THEN CreatedIn(x) ELSE m.row[x].measured
  IN  seen(r) < seen(s) \/ (seen(r) = seen(s) /\ IdBefore(r, s))

\* candidate_rules: every pending rule of an earlier round, and the oldest
\* few that mature.
CandidateRules(m, k) ==
  LET earlier(S) == {r \in S : CreatedIn(r) < k}
  IN  earlier(Pending(m))
        \cup FirstOf(earlier(Volatile(m)), MaxProbes, LAMBDA r, s : Before(m, r, s))

\* What a measured candidate leaves: when it was measured, and the evidence
\* of a difference that is not zero.
Judged(m, r, k, delta) ==
  LET touched == [m EXCEPT !.row[r].measured = k]
  IN  IF delta = 0 THEN touched ELSE RecordRound(touched, r, k, delta > 0)

\* A proposal: none, one the influence filter rejects, or one that is staged.
Fate == {"none", "rejected", "staged"}

\* The proposer names its guideline after the round.
Proposed(k) == <<k, 1>>

Taken(m, k, fate) ==
  CASE fate = "none" -> m
    [] fate = "rejected" -> [m EXCEPT !.row[Proposed(k)] = [NoRow EXCEPT !.patch = "rejected"]]
    [] OTHER -> StageAdd(m, Proposed(k))

\* A round of a learning arm, every candidate measured on the same memory;
\* only the arm with tiers promotes.
Played(a, m, k, deltas, fate) ==
  LET opened == Advance(m, k)
      judged == [opened EXCEPT !.row = [r \in Rule |->
                   IF r \in CandidateRules(opened, k)
                   THEN Judged(opened, r, k, deltas[r]).row[r] ELSE opened.row[r]]]
  IN  IF ~Learning(a) THEN opened
      ELSE Taken(IF a = "mmh" THEN Promote(judged) ELSE judged, k, fate)

Delta == {-1, 0, 1}

PlayRound(a) ==
  LET k == done[a] + 1 IN
  /\ k \in Rounds
  /\ \A b \in Arm : done[b] >= done[a]
  /\ done' = [done EXCEPT ![a] = k]
  /\ \E deltas \in [Pending(mem[a]) \cup Validated(mem[a]) -> Delta], fate \in Fate :
       mem' = [mem EXCEPT ![a] = Played(a, mem[a], k, deltas, fate)]

RoundsInit == mem = [a \in Arm |-> EmptyMemory] /\ done = [a \in Arm |-> 0]
RoundsSpec == RoundsInit /\ [][\E a \in Arm : PlayRound(a)]_<<mem, done>>
=============================================================================
