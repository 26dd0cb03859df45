---------------------------- MODULE MC_SSHPool ----------------------------
(* Two callers of one pool key, clients that carry one session each. *)
EXTENDS SSHPool

CONSTANTS p1, p2, e1, e2, c1, c2

=============================================================================
