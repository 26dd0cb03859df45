------------------------------ MODULE Gateway ------------------------------
(***************************************************************************)
(* What the gateway does for hosts it does not log in to as a user: the    *)
(* tunnels of reverse-connect agents, and the anti-lockout core of the     *)
(* firewall manager.  They share no state that either writes, so their     *)
(* interleavings add nothing: a behaviour is one of a part that is in use  *)
(* while nothing has been asked of the other.                              *)
(***************************************************************************)
EXTENDS AgentGateway, SafeApply

gatewayVars == <<agentVars, safeVars>>

Init == AgentInit /\ SafeInit

ServesAgents == SafeInit /\ AgentNext /\ UNCHANGED safeVars

ChangesFirewall == AgentInit /\ SafeNext /\ UNCHANGED agentVars

Next == ServesAgents \/ ChangesFirewall

\* The state of the agent gateway and of the firewall manager keeps its shape: see
\* AgentTypeOK and SafeTypeOK.
TypeOK == AgentTypeOK /\ SafeTypeOK

\* A part of which nothing has been asked owes nothing.
Spec == Init /\ [][Next]_gatewayVars /\ AgentFairness /\ SafeFairness

=============================================================================
