------------------------------- MODULE Budget -------------------------------
(***************************************************************************)
(* What an inference budget promises its users                             *)
(* (experiments/lcb_mmh_online/budget.py:1-7): calls hold part of it while *)
(* they run, are charged at most what they held, and nothing spent ever    *)
(* comes back or exceeds the denominator.                                  *)
(***************************************************************************)
EXTENDS Integers

CONSTANT TotalBudget

VARIABLES spent, held
vars == <<spent, held>>

Init == spent = 0 /\ held = 0

\* A call starts: it holds n of what is left.
Hold ==
  \E n \in 1..(TotalBudget - spent - held) : held' = held + n /\ UNCHANGED spent

\* A call that held n ends and is charged m of it.
Settle ==
  \E n \in 0..held : \E m \in 0..n : held' = held - n /\ spent' = spent + m

Next == Hold \/ Settle

Spec == Init /\ [][Next]_vars
=============================================================================
