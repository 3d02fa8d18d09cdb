---------------------------- MODULE MCPendingWork ----------------------------
(* PendingWork with interchangeable field names. *)
EXTENDS PendingWork

FieldSymmetry == Permutations(Names)
=============================================================================
