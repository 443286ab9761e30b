---------------------------- MODULE MCModelCalls ----------------------------
(***************************************************************************)
(* Two harnesses in one process, with a pooled or a direct solver, and two *)
(* processes with one harness each that share the cache file.              *)
(***************************************************************************)
EXTENDS ModelCalls

MCDeployments ==
  {[calls |-> "pooled", home |-> <<1, 1>>, lives |-> 2],
   [calls |-> "direct", home |-> <<1, 1>>, lives |-> 2],
   [calls |-> "direct", home |-> <<1, 2>>, lives |-> 1]}
=============================================================================
