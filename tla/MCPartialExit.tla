---------------------------- MODULE MCPartialExit ----------------------------
(* The instance of PartialExit that TLC checks.                               *)
EXTENDS PartialExit

CONSTANTS v1, v2
=============================================================================
