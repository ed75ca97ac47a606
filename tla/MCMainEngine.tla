---------------------------- MODULE MCMainEngine ----------------------------
(* The instance of MainEngine TLC checks. *)
EXTENDS MainEngine

CONSTANTS r1, r2
=============================================================================
