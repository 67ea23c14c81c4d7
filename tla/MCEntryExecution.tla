--------------------------- MODULE MCEntryExecution ---------------------------
(* The instances of EntryExecution that TLC checks.                           *)
EXTENDS EntryExecution, TLC

CONSTANTS d1, d2

\* Logical actions are only compared for equality.
DecisionSymmetry == Permutations(Decisions)
=============================================================================
