---------------------------- MODULE MCCycleRuntime ----------------------------
(* The instance of CycleRuntime that TLC checks.                              *)
EXTENDS CycleRuntime

CONSTANTS r1
=============================================================================
