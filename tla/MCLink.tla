------------------------------- MODULE MCLink -------------------------------
(* Module Link with a ring in which two or three packets lie. *)
EXTENDS Link
=============================================================================
