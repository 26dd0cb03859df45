---------------------------- MODULE MC_Gateway ----------------------------
(* A small gateway: one agent with two tunnel handlers, and two of three
   firewall changes: one that cuts SSH off, a default policy, and one of low
   risk. *)
EXTENDS Gateway

CONSTANTS cut, policy, low

=============================================================================
