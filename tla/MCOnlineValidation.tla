------------------------- MODULE MCOnlineValidation -------------------------
(* Constants for the runs of OnlineValidation: two applications of one     *)
(* pair of artifacts and, in the larger runs, one of another.              *)
EXTENDS OnlineValidation

NoCap == [cat \in {} |-> 0]

SharedPair == [a \in Application |-> IF a = "other" THEN "y" ELSE "x"]
=============================================================================
