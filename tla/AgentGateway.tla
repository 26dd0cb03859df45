---------------------------- MODULE AgentGateway ----------------------------
(***************************************************************************)
(* Reverse-connect agents: the handlers that enroll an agent, renew its    *)
(* certificate and run its tunnel (agent_gateway_handler.go), the          *)
(* administrator's activate, revoke and delete (agent_handler.go), the     *)
(* registry that routes dials to tunnels (agentgw/registry.go), the rows   *)
(* (agent_repo.go) and the reaper that marks rows offline.                 *)
(*                                                                         *)
(* Each handler is a goroutine; every call of the registry is atomic under *)
(* its lock, every statement of the repository is one write.  One gateway, *)
(* one domain; an agent has one current certificate.                       *)
(***************************************************************************)
EXTENDS Integers, FiniteSets

CONSTANTS
    Agents,
    Tunnels,        \* identities of tunnel handlers, reused once one has returned
    NoTunnel,
    MaxAdminOps,    \* bound: activations, revocations and deletions
    MaxRenews,      \* bound: renewals
    MaxCrashes      \* bound: restarts of the gateway

ASSUME AgentAssumption ==
    /\ Agents # {} /\ NoTunnel \notin Tunnels
    /\ IsFiniteSet(Agents) /\ IsFiniteSet(Tunnels)
    /\ MaxAdminOps \in Nat /\ MaxRenews \in Nat /\ MaxCrashes \in Nat

VARIABLES
    row,            \* the status column; "none" before the row exists, "deleted" after
    seen,           \* last_seen_at is recent enough for the reaper
    cert,           \* the certificate the row's fingerprint names, and the CRL
    renewal,        \* where an enrollment or renewal of the agent has got
    read,           \* the status in the row that enrollment or renewal holds
    admin,          \* where the administrators' requests have got
    activated,      \* the agent was activated at some time
    handler,        \* where a tunnel handler has got
    agentOf,        \* whose tunnel it is
    tunClosed,      \* its yamux session has ended
    byAgent,        \* Registry.byAgent
    byDomain,       \* Registry.byDomain, of the one domain
    adminOps, renews, crashes   \* count against the bounds

agentVars == <<row, seen, cert, renewal, read, admin, activated, handler, agentOf, tunClosed,
               byAgent, byDomain, adminOps, renews, crashes>>

rowVars == <<row, seen, cert, activated>>
requestVars == <<renewal, read, admin>>
tunnelVars == <<handler, agentOf, tunClosed, byAgent, byDomain>>
boundVars == <<adminOps, renews, crashes>>

-----------------------------------------------------------------------------

Missing == {"none", "deleted"}

RowStatuses == Missing \cup {"pending", "online", "offline", "revoked"}

AdminSteps ==
    {"activate", "revoke", "revoke_certs", "delete", "delete_certs", "delete_row"}

Schedulable(a) == row[a] \in {"online", "offline"}

\* A status write with WHERE id = ? : nothing happens to a row that is missing.
Write(a, status) == row' = [row EXCEPT ![a] = IF @ \in Missing THEN @ ELSE status]

\* Touch: seen now, and online whatever the row said.
Touch(a) == Write(a, "online") /\ seen' = [seen EXCEPT ![a] = TRUE]

\* What a dial into the domain may pick.
Routable(a) == byDomain[a] # NoTunnel /\ ~tunClosed[byDomain[a]]

AgentInit ==
    /\ row = [a \in Agents |-> "none"]
    /\ seen = [a \in Agents |-> FALSE]
    /\ cert = [a \in Agents |-> "none"]
    /\ renewal = [a \in Agents |-> "no"]
    /\ read = [a \in Agents |-> "none"]
    /\ admin = [a \in Agents |-> {}]
    /\ activated = {}
    /\ handler = [t \in Tunnels |-> "idle"]
    /\ agentOf = [t \in Tunnels |-> CHOOSE a \in Agents : TRUE]
    /\ tunClosed = [t \in Tunnels |-> TRUE]
    /\ byAgent = [a \in Agents |-> NoTunnel]
    /\ byDomain = [a \in Agents |-> NoTunnel]
    /\ adminOps = 0 /\ renews = 0 /\ crashes = 0

-----------------------------------------------------------------------------
(* Enrollment and renewal: both end by saving the whole row they hold.     *)

\* Enroll, up to the certificate's issue.
Enroll(a) ==
    /\ row[a] = "none"
    /\ row' = [row EXCEPT ![a] = "pending"]
    /\ read' = [read EXCEPT ![a] = "pending"]
    /\ renewal' = [renewal EXCEPT ![a] = "good"]
    /\ UNCHANGED <<seen, cert, activated, admin, tunnelVars, boundVars>>

RenewAuth(a) ==
    /\ cert[a] = "good" /\ Schedulable(a)
    /\ renewal[a] = "no"
    /\ renews < MaxRenews
    /\ renews' = renews + 1
    /\ renewal' = [renewal EXCEPT ![a] = "authed"]
    /\ read' = [read EXCEPT ![a] = row[a]]
    /\ UNCHANGED <<rowVars, admin, tunnelVars, adminOps, crashes>>

\* The new certificate is issued, the old one goes on the CRL.
RenewIssue(a) ==
    /\ renewal[a] = "authed"
    /\ renewal' = [renewal EXCEPT ![a] = "good"]
    /\ cert' = [cert EXCEPT ![a] = "revoked"]
    /\ UNCHANGED <<row, seen, activated, read, admin, tunnelVars, boundVars>>

\* Update is gorm's Save: every column, and an insert if the row has gone.  The
\* last_seen_at that was read is recent only if the present one is.
SaveRow(a) ==
    /\ renewal[a] \in {"good", "revoked"}
    /\ row' = [row EXCEPT ![a] = read[a]]
    /\ \E recent \in {FALSE, seen[a]} : seen' = [seen EXCEPT ![a] = recent]
    /\ cert' = [cert EXCEPT ![a] = renewal[a]]
    /\ renewal' = [renewal EXCEPT ![a] = "no"]
    /\ UNCHANGED <<activated, read, admin, tunnelVars, boundVars>>

-----------------------------------------------------------------------------
(* The handler of a tunnel, and the registry.                              *)

\* The certificate is checked against the CRL and the row's status.
AcceptTunnel(t, a) ==
    /\ handler[t] = "idle"
    /\ cert[a] = "good" /\ Schedulable(a)
    /\ handler' = [handler EXCEPT ![t] = "authed"]
    /\ agentOf' = [agentOf EXCEPT ![t] = a]
    /\ tunClosed' = [tunClosed EXCEPT ![t] = FALSE]
    /\ UNCHANGED <<rowVars, requestVars, byAgent, byDomain, boundVars>>

\* A tunnel that the agent had before is closed and replaced.
Register(t) ==
    /\ handler[t] = "authed"
    /\ handler' = [handler EXCEPT ![t] = "registered"]
    /\ LET a == agentOf[t] IN
        /\ tunClosed' = [x \in Tunnels |-> x = byAgent[a] \/ tunClosed[x]]
        /\ byAgent' = [byAgent EXCEPT ![a] = t]
        /\ byDomain' = [byDomain EXCEPT ![a] = t]
    /\ UNCHANGED <<rowVars, requestVars, agentOf, boundVars>>

\* The first touch, then one for every beat: the select may take a tick even when
\* the tunnel has just ended.
Heartbeat(t) ==
    /\ handler[t] \in {"registered", "beating"}
    /\ handler' = [handler EXCEPT ![t] = "beating"]
    /\ Touch(agentOf[t])
    /\ UNCHANGED <<cert, activated, requestVars, agentOf, tunClosed, byAgent, byDomain, boundVars>>

\* Unregister and the removal in Disconnect: by agent, whichever tunnel it has.
\* Mutant: the index by domain is left alone.
ForgetAgentOnly(a) ==
    /\ byAgent' = [byAgent EXCEPT ![a] = NoTunnel]
    /\ UNCHANGED byDomain

Forget(a) ==
    /\ byAgent' = [byAgent EXCEPT ![a] = NoTunnel]
    /\ byDomain' = [byDomain EXCEPT ![a] = NoTunnel]

\* Mutant: the handler returns without Unregister.
TunnelEndsRegistered(t) ==
    /\ handler[t] = "beating" /\ tunClosed[t]
    /\ handler' = [handler EXCEPT ![t] = "leaving"]
    /\ UNCHANGED <<rowVars, requestVars, agentOf, tunClosed, byAgent, byDomain, boundVars>>

\* Mutant: the handler returns on a failed touch, with its tunnel open.
TunnelEndsOpen(t) ==
    /\ handler[t] = "beating"
    /\ handler' = [handler EXCEPT ![t] = "leaving"]
    /\ Forget(agentOf[t])
    /\ UNCHANGED <<rowVars, requestVars, agentOf, tunClosed, boundVars>>

TunnelEnds(t) ==
    /\ handler[t] = "beating" /\ tunClosed[t]
    /\ handler' = [handler EXCEPT ![t] = "leaving"]
    /\ Forget(agentOf[t])
    /\ UNCHANGED <<rowVars, requestVars, agentOf, tunClosed, boundVars>>

MarkOffline(t) ==
    /\ handler[t] = "leaving"
    /\ handler' = [handler EXCEPT ![t] = "idle"]
    /\ Write(agentOf[t], "offline")
    /\ UNCHANGED <<seen, cert, activated, requestVars, agentOf, tunClosed, byAgent, byDomain,
                   boundVars>>

\* The agent goes, or the network drops, or keepalives find nobody.
TunnelDrops(t) ==
    /\ handler[t] # "idle" /\ ~tunClosed[t]
    /\ tunClosed' = [tunClosed EXCEPT ![t] = TRUE]
    /\ UNCHANGED <<rowVars, requestVars, handler, agentOf, byAgent, byDomain, boundVars>>

-----------------------------------------------------------------------------
(* The administrators, whose requests may overlap; those of one kind that  *)
(* have got equally far count as one.                                      *)

Asks(a, step) ==
    /\ row[a] \notin Missing
    /\ adminOps < MaxAdminOps
    /\ adminOps' = adminOps + 1
    /\ admin' = [admin EXCEPT ![a] = @ \cup {step}]
    /\ UNCHANGED <<renewal, read, renews, crashes>>

GoesOn(a, from, to) ==
    /\ from \in admin[a]
    /\ admin' = [admin EXCEPT ![a] = (@ \ {from}) \cup to]
    /\ UNCHANGED boundVars

\* Activate reads the row, then writes its status.
Activate(a) ==
    /\ row[a] = "pending"
    /\ Asks(a, "activate")
    /\ UNCHANGED <<rowVars, tunnelVars>>

ActivateWrites(a) ==
    /\ GoesOn(a, "activate", {})
    /\ Write(a, "offline")
    /\ activated' = activated \cup {a}
    /\ UNCHANGED <<seen, cert, renewal, read, tunnelVars>>

Revoke(a) ==
    /\ Asks(a, "revoke")
    /\ Write(a, "revoked")
    /\ UNCHANGED <<seen, cert, activated, tunnelVars>>

Delete(a) ==
    /\ Asks(a, "delete")
    /\ UNCHANGED <<rowVars, tunnelVars>>

\* Registry.Disconnect, called by both.
Disconnect(a) ==
    /\ \/ GoesOn(a, "revoke", {"revoke_certs"})
       \/ GoesOn(a, "delete", {"delete_certs"})
    /\ tunClosed' = [t \in Tunnels |-> t = byAgent[a] \/ tunClosed[t]]
    /\ Forget(a)
    /\ UNCHANGED <<rowVars, renewal, read, handler, agentOf>>

\* RevokeSubject puts every certificate of the agent on the CRL; its error is
\* ignored.
RevokeSubject(a) ==
    /\ \/ GoesOn(a, "revoke_certs", {})
       \/ GoesOn(a, "delete_certs", {"delete_row"})
    /\ \/ /\ cert' = [cert EXCEPT ![a] = IF @ = "good" THEN "revoked" ELSE @]
          /\ renewal' = [renewal EXCEPT ![a] = IF @ = "good" THEN "revoked" ELSE @]
       \/ UNCHANGED <<cert, renewal>>
    /\ UNCHANGED <<row, seen, activated, read, tunnelVars>>

DeleteRow(a) ==
    /\ GoesOn(a, "delete_row", {})
    /\ Write(a, "deleted")
    /\ UNCHANGED <<seen, cert, activated, renewal, read, tunnelVars>>

-----------------------------------------------------------------------------
(* Time and faults.                                                        *)

LiveTunnel(a) ==
    \E t \in Tunnels : agentOf[t] = a /\ ~tunClosed[t] /\ handler[t] \in {"registered", "beating"}

\* 90 seconds without a touch; a live tunnel touches every 30.
SeenLongAgo(a) ==
    /\ seen[a] /\ ~LiveTunnel(a)
    /\ seen' = [seen EXCEPT ![a] = FALSE]
    /\ UNCHANGED <<row, cert, activated, requestVars, tunnelVars, boundVars>>

\* Mutant: any status is overwritten.
MarkOfflineStaleAny(a) ==
    /\ row[a] \notin Missing /\ ~seen[a]
    /\ row' = [row EXCEPT ![a] = "offline"]
    /\ UNCHANGED <<seen, cert, activated, requestVars, tunnelVars, boundVars>>

\* Mutant: the comparison with the cutoff is the wrong way round.
MarkOfflineStaleRecent(a) ==
    /\ row[a] = "online" /\ seen[a]
    /\ row' = [row EXCEPT ![a] = "offline"]
    /\ UNCHANGED <<seen, cert, activated, requestVars, tunnelVars, boundVars>>

\* The reaper's pass, for one row: MarkOfflineStale.
MarkOfflineStale(a) ==
    /\ row[a] = "online" /\ ~seen[a]
    /\ row' = [row EXCEPT ![a] = "offline"]
    /\ UNCHANGED <<seen, cert, activated, requestVars, tunnelVars, boundVars>>

\* The gateway restarts: handlers, requests and registry are gone, rows stay.
Crash ==
    /\ crashes < MaxCrashes
    /\ crashes' = crashes + 1
    /\ handler' = [t \in Tunnels |-> "idle"]
    /\ tunClosed' = [t \in Tunnels |-> TRUE]
    /\ byAgent' = [a \in Agents |-> NoTunnel]
    /\ byDomain' = [a \in Agents |-> NoTunnel]
    /\ renewal' = [a \in Agents |-> "no"]
    /\ admin' = [a \in Agents |-> {}]
    /\ UNCHANGED <<rowVars, read, agentOf, adminOps, renews>>

-----------------------------------------------------------------------------

Cleanup(t) == TunnelEnds(t) \/ MarkOffline(t)

Serves(t) == Register(t) \/ (handler[t] = "registered" /\ Heartbeat(t)) \/ Cleanup(t)

Reaps(a) == SeenLongAgo(a) \/ MarkOfflineStale(a)

AdminNext(a) ==
    \/ Activate(a) \/ ActivateWrites(a)
    \/ Revoke(a) \/ Delete(a) \/ Disconnect(a) \/ RevokeSubject(a) \/ DeleteRow(a)

AgentNext ==
    \/ \E a \in Agents :
        \/ Enroll(a) \/ RenewAuth(a) \/ RenewIssue(a) \/ SaveRow(a)
        \/ AdminNext(a)
        \/ Reaps(a)
    \/ \E t \in Tunnels :
        \/ \E a \in Agents : AcceptTunnel(t, a)
        \/ Register(t) \/ Heartbeat(t) \/ Cleanup(t) \/ TunnelDrops(t)
    \/ Crash

\* Goroutines are scheduled, tickers tick.  Nobody owes a connection or a request.
AgentFairness ==
    /\ \A t \in Tunnels : WF_agentVars(Serves(t))
    /\ \A a \in Agents : WF_agentVars(Reaps(a))

AgentSpec == AgentInit /\ [][AgentNext]_agentVars /\ AgentFairness

-----------------------------------------------------------------------------
(* Properties.                                                             *)

\* Rows, handlers and registry keep their shape, and a Tunnel handler that is on
\* its way out has closed its tunnel, so pick never hands it a new session.
AgentTypeOK ==
    /\ row \in [Agents -> RowStatuses]
    /\ seen \in [Agents -> BOOLEAN]
    /\ cert \in [Agents -> {"none", "good", "revoked"}]
    /\ renewal \in [Agents -> {"no", "authed", "good", "revoked"}]
    /\ read \in [Agents -> RowStatuses]
    /\ admin \in [Agents -> SUBSET AdminSteps]
    /\ activated \subseteq Agents
    /\ handler \in [Tunnels -> {"idle", "authed", "registered", "beating", "leaving"}]
    /\ agentOf \in [Tunnels -> Agents]
    /\ tunClosed \in [Tunnels -> BOOLEAN]
    /\ byAgent \in [Agents -> Tunnels \cup {NoTunnel}]
    /\ byDomain \in [Agents -> Tunnels \cup {NoTunnel}]
    /\ \A t \in Tunnels : handler[t] \in {"idle", "leaving"} => tunClosed[t]
    /\ adminOps \in 0..MaxAdminOps /\ renews \in 0..MaxRenews /\ crashes \in 0..MaxCrashes

\* No agent carries a session before an administrator has activated it, whatever
\* the reaper, a heartbeat, a renewal or the save of an enrollment writes into its
\* row (the human check that model/agent.go and Activate describe).
ActivationFirst ==
    \A a \in Agents : Routable(a) => a \in activated

\* A route never outlives its handler: both indexes of the registry name the same
\* tunnel, of that agent, and its handler has yet to take it out again.
NoGhostRoute ==
    \A a \in Agents : \A t \in Tunnels :
        t \in {byAgent[a], byDomain[a]} =>
            /\ byAgent[a] = t /\ byDomain[a] = t
            /\ agentOf[t] = a
            /\ handler[t] \in {"registered", "beating"}

\* A tunnel that has ended, replaced ones included, leaves the registry.
DeadTunnelsLeave ==
    \A t \in Tunnels :
        tunClosed[t] /\ t = byAgent[agentOf[t]] ~> ~tunClosed[t] \/ t # byAgent[agentOf[t]]

\* A row does not say online for ever without a tunnel, though the gateway that
\* should have marked it offline crashed (the reaper of stale rows).
OnlineIsBacked ==
    \A a \in Agents :
        row[a] = "online" /\ ~LiveTunnel(a) ~> row[a] # "online" \/ LiveTunnel(a)

\* "AgentRevoked: administratively disabled; tunnel refused, cert revoked."  No
\* step but a deletion takes a row out of revoked again; the save of an enrollment
\* or a renewal and the write of an activation that were under way are not even
\* counted.
RevokedStaysRevoked ==
    [][\A a \in Agents :
        row[a] = "revoked" /\ renewal[a] = "no" /\ "activate" \notin admin[a] =>
            row'[a] \in {"revoked", "deleted"}]_agentVars

=============================================================================
