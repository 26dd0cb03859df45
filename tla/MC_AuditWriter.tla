--------------------------- MODULE MC_AuditWriter ---------------------------
(* Small instances of AuditWriter for TLC. *)
EXTENDS AuditWriter

CONSTANTS c1, c2
=============================================================================
