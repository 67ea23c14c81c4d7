--------------------------- MODULE MCControlPlane ---------------------------
(* Instance of ControlPlane for TLC: the bounds come from the configurations. *)
EXTENDS ControlPlane
=============================================================================
