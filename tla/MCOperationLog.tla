--------------------------- MODULE MCOperationLog ---------------------------
(* Instances of OperationLog for TLC. *)
EXTENDS OperationLog, TLC

OperationLogSymmetry == Permutations(Processes) \cup Permutations(Requests)
=============================================================================
