--------------------------- MODULE MCAuditLedger ---------------------------
(* Two concurrent calls against a small backlog limit. *)
EXTENDS AuditLedger, TLC
Symmetry == Permutations(Writers)
=============================================================================
