------------------------------ MODULE MCTimer ------------------------------
(* Values for the constants of Timer that a .cfg cannot express. *)
EXTENDS Timer

MCTimes == {-1, 0, 1}
=============================================================================
