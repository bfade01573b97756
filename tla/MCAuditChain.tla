---------------------------- MODULE MCAuditChain ----------------------------
(* Instances of AuditChain for TLC. *)
EXTENDS AuditChain, TLC

ConnSymmetry == Permutations(Conn) \cup Permutations(RowId)
=============================================================================
