--------------------------- MODULE MCHarnessLoop ---------------------------
(* The loops of a run: deep ones, where later batches judge the candidates  *)
(* of earlier ones, and wide ones, where branches differ.                   *)
EXTENDS HarnessLoop

Shape(kind, batches, rounds, group) ==
  [loop |-> kind, batches |-> batches, rounds |-> rounds, group |-> group]

LoopShapes ==
  {Shape("plain", 2, 2, 1), Shape("plain", 2, 1, 2), Shape("sql", 3, 1, 1), Shape("sql", 2, 1, 2),
   Shape("mmh", 3, 1, 1), Shape("mmh", 1, 1, 2)}
=============================================================================
