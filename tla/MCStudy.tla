------------------------------ MODULE MCStudy ------------------------------
(* Constants for the runs of Study. *)
EXTENDS Study

TieredArms == <<"baseline", "mmh">>
=============================================================================
