---------------------------- MODULE MCAuditChain ----------------------------
(* Small instances of AuditChain. *)
EXTENDS AuditChain, TLC

Symmetry == Permutations(Writers)
=============================================================================
