--------------------------- MODULE MCOwnerRequests ---------------------------
(* The instance of OwnerRequests that TLC checks.                             *)
EXTENDS OwnerRequests

CONSTANTS freeze, resume, v1, v2
=============================================================================
