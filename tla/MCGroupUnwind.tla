---------------------------- MODULE MCGroupUnwind ----------------------------
(* The instances of GroupUnwind that TLC checks.                              *)
EXTENDS GroupUnwind
=============================================================================
