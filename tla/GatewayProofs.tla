--------------------------- MODULE GatewayProofs ---------------------------
(***************************************************************************)
(* Proofs about AgentGateway and SafeApply, for every set of agents,       *)
(* tunnels and changes and every bound, and about Gateway, of which each   *)
(* is a part.                                                              *)
(***************************************************************************)
EXTENDS Gateway, TLAPS

\* A counter below its bound may be increased.
LEMMA CountUp ==
    ASSUME NEW m \in Nat, NEW n \in 0..m, n < m
    PROVE  n + 1 \in 0..m
  OBVIOUS

-----------------------------------------------------------------------------
(* The agents' rows, handlers and registry keep their shape.               *)

\* The status writes keep the rows well typed.
LEMMA WriteType ==
    ASSUME AgentTypeOK, NEW a \in Agents, NEW s \in RowStatuses, Write(a, s)
    PROVE  row' \in [Agents -> RowStatuses]
  BY DEF AgentTypeOK, Write

\* A gateway that starts has well-formed rows, routes and handlers.
LEMMA AgentTypeInit == AgentInit => AgentTypeOK
<1>1. (CHOOSE a \in Agents : TRUE) \in Agents
  BY AgentAssumption
<1> QED BY <1>1, AgentAssumption DEF AgentInit, AgentTypeOK, RowStatuses, Missing

\* Enrollments, renewals and the reaper.
LEMMA AgentTypeRows ==
    ASSUME AgentTypeOK, NEW a \in Agents,
           Enroll(a) \/ RenewAuth(a) \/ RenewIssue(a) \/ SaveRow(a) \/ Reaps(a)
    PROVE  AgentTypeOK'
<1> USE DEF AgentTypeOK, rowVars, requestVars, tunnelVars, boundVars, RowStatuses, Missing
<1>1. CASE Enroll(a)
  BY <1>1 DEF Enroll
<1>2. CASE RenewAuth(a)
  <2>1. renews' \in 0..MaxRenews
    BY <1>2, AgentAssumption, CountUp DEF RenewAuth
  <2> QED BY <1>2, <2>1 DEF RenewAuth
<1>3. CASE RenewIssue(a)
  BY <1>3 DEF RenewIssue
<1>4. CASE SaveRow(a)
  <2>1. seen' \in [Agents -> BOOLEAN]
    <3>1. seen \in [Agents -> BOOLEAN]
      OBVIOUS
    <3>2. seen' = [seen EXCEPT ![a] = FALSE] \/ seen' = [seen EXCEPT ![a] = seen[a]]
      BY <1>4 DEF SaveRow
    <3> HIDE DEF AgentTypeOK
    <3> QED BY <3>1, <3>2
  <2> QED BY <1>4, <2>1 DEF SaveRow
<1>5. CASE SeenLongAgo(a)
  BY <1>5 DEF SeenLongAgo
<1>6. CASE MarkOfflineStale(a)
  BY <1>6 DEF MarkOfflineStale
<1> QED BY <1>1, <1>2, <1>3, <1>4, <1>5, <1>6 DEF Reaps

\* The administrator's requests.
LEMMA AgentTypeAdmin ==
    ASSUME AgentTypeOK, NEW a \in Agents, AdminNext(a)
    PROVE  AgentTypeOK'
<1> USE DEF AgentTypeOK, rowVars, requestVars, tunnelVars, boundVars, RowStatuses, Missing,
            GoesOn, AdminSteps
<1>a. ASSUME NEW step, Asks(a, step)
      PROVE  adminOps' \in 0..MaxAdminOps
  BY <1>a, AgentAssumption, CountUp DEF Asks
<1>1. CASE Activate(a)
  BY <1>1, <1>a DEF Activate, Asks
<1>2. CASE ActivateWrites(a)
  BY <1>2 DEF ActivateWrites, Write
<1>3. CASE Revoke(a)
  <2>1. row' \in [Agents -> RowStatuses]
    BY <1>3, WriteType DEF Revoke
  <2> QED BY <1>3, <1>a, <2>1 DEF Revoke, Asks
<1>4. CASE Delete(a)
  BY <1>4, <1>a DEF Delete, Asks
<1>5. CASE Disconnect(a)
  BY <1>5 DEF Disconnect, Forget
<1>6. CASE RevokeSubject(a)
  <2>1. admin' \in [Agents -> SUBSET AdminSteps] /\ UNCHANGED boundVars
    BY <1>6 DEF RevokeSubject, AdminSteps
  <2>2. CASE UNCHANGED <<cert, renewal>>
    BY <1>6, <2>1, <2>2 DEF RevokeSubject
  <2>3. CASE /\ cert' = [cert EXCEPT ![a] = IF @ = "good" THEN "revoked" ELSE @]
             /\ renewal' = [renewal EXCEPT ![a] = IF @ = "good" THEN "revoked" ELSE @]
    <3>1. cert' \in [Agents -> {"none", "good", "revoked"}]
      BY <2>3
    <3>2. renewal' \in [Agents -> {"no", "authed", "good", "revoked"}]
      BY <2>3
    <3> QED BY <1>6, <2>1, <3>1, <3>2 DEF RevokeSubject
  <2> QED BY <1>6, <2>2, <2>3 DEF RevokeSubject
<1>7. CASE DeleteRow(a)
  BY <1>7 DEF DeleteRow, Write
<1> QED BY <1>1, <1>2, <1>3, <1>4, <1>5, <1>6, <1>7 DEF AdminNext

\* The handlers of tunnels.
LEMMA AgentTypeTunnels ==
    ASSUME AgentTypeOK, NEW t \in Tunnels,
           \/ \E a \in Agents : AcceptTunnel(t, a)
           \/ Register(t) \/ Heartbeat(t) \/ Cleanup(t) \/ TunnelDrops(t)
    PROVE  AgentTypeOK'
<1> USE DEF AgentTypeOK, rowVars, requestVars, tunnelVars, boundVars, RowStatuses, Missing
<1>1. ASSUME NEW a \in Agents, AcceptTunnel(t, a)
      PROVE  AgentTypeOK'
  <2>1. tunClosed' \in [Tunnels -> BOOLEAN] /\ agentOf' \in [Tunnels -> Agents]
    BY <1>1 DEF AcceptTunnel
  <2>2. \A x \in Tunnels : handler'[x] \in {"idle", "leaving"} => tunClosed'[x]
    BY <1>1 DEF AcceptTunnel
  <2> QED BY <1>1, <2>1, <2>2 DEF AcceptTunnel
<1>2. CASE Register(t)
  <2>1. tunClosed' \in [Tunnels -> BOOLEAN]
    BY <1>2 DEF Register
  <2>2. byAgent' \in [Agents -> Tunnels \cup {NoTunnel}]
        /\ byDomain' \in [Agents -> Tunnels \cup {NoTunnel}]
    BY <1>2 DEF Register
  <2>3. \A x \in Tunnels : handler'[x] \in {"idle", "leaving"} => tunClosed'[x]
    BY <1>2 DEF Register
  <2> QED BY <1>2, <2>1, <2>2, <2>3 DEF Register
<1>3. CASE Heartbeat(t)
  BY <1>3 DEF Heartbeat, Touch, Write
<1>4. CASE TunnelEnds(t)
  BY <1>4 DEF TunnelEnds, Forget
<1>5. CASE MarkOffline(t)
  BY <1>5 DEF MarkOffline, Write
<1>6. CASE TunnelDrops(t)
  BY <1>6 DEF TunnelDrops
<1> QED BY <1>1, <1>2, <1>3, <1>4, <1>5, <1>6 DEF Cleanup

\* So does it after every step of the agents and their tunnels.
LEMMA AgentTypeStep == AgentTypeOK /\ [AgentNext]_agentVars => AgentTypeOK'
<1> SUFFICES ASSUME AgentTypeOK, [AgentNext]_agentVars PROVE AgentTypeOK'
  OBVIOUS
<1>1. CASE Crash
  <2>1. crashes' \in 0..MaxCrashes
    BY <1>1, AgentAssumption, CountUp DEF Crash, AgentTypeOK
  <2> QED BY <1>1, <2>1 DEF Crash, AgentTypeOK, rowVars
<1>2. CASE UNCHANGED agentVars
  BY <1>2 DEF agentVars, AgentTypeOK
<1> QED BY <1>1, <1>2, AgentTypeRows, AgentTypeAdmin, AgentTypeTunnels DEF AgentNext

-----------------------------------------------------------------------------
(* Routes and their handlers.                                              *)

\* The registry and the handlers decide what NoGhostRoute says.
LEMMA GhostStep ==
    ASSUME AgentTypeOK, NoGhostRoute, [AgentNext]_agentVars
    PROVE  NoGhostRoute'
<1> USE DEF AgentTypeOK, NoGhostRoute, rowVars, requestVars, tunnelVars, boundVars
<1>1. ASSUME NEW t \in Tunnels, NEW a \in Agents, AcceptTunnel(t, a)
      PROVE  NoGhostRoute'
  \* An idle handler has no route, so its new owner takes none over.
  <2>1. \A b \in Agents : t \notin {byAgent[b], byDomain[b]}
    BY <1>1 DEF AcceptTunnel
  <2> QED BY <1>1, <2>1 DEF AcceptTunnel
<1>2. ASSUME NEW t \in Tunnels, Register(t)
      PROVE  NoGhostRoute'
  <2> DEFINE a == agentOf[t]
  <2>1. a \in Agents /\ a = agentOf'[t] /\ handler'[t] = "registered"
    BY <1>2 DEF Register
  <2>2. \A x \in Tunnels : x # t => handler'[x] = handler[x] /\ agentOf'[x] = agentOf[x]
    BY <1>2 DEF Register
  <2>3. /\ byAgent' = [byAgent EXCEPT ![a] = t]
        /\ byDomain' = [byDomain EXCEPT ![a] = t]
    BY <1>2 DEF Register
  <2>4. \A b \in Agents : t \notin {byAgent[b], byDomain[b]}
    BY <1>2 DEF Register
  <2> HIDE DEF a
  <2> QED BY <2>1, <2>2, <2>3, <2>4
<1>3. ASSUME NEW t \in Tunnels, TunnelEnds(t)
      PROVE  NoGhostRoute'
  <2>1. \A b \in Agents : t \in {byAgent[b], byDomain[b]} => b = agentOf[t]
    OBVIOUS
  <2> QED BY <1>3, <2>1, AgentAssumption DEF TunnelEnds, Forget
<1>4. ASSUME NEW t \in Tunnels, Heartbeat(t)
      PROVE  NoGhostRoute'
  BY <1>4 DEF Heartbeat
<1>5. ASSUME NEW t \in Tunnels, MarkOffline(t) \/ TunnelDrops(t)
      PROVE  NoGhostRoute'
  BY <1>5 DEF MarkOffline, TunnelDrops
<1>6. ASSUME NEW a \in Agents, Disconnect(a)
      PROVE  NoGhostRoute'
  BY <1>6, AgentAssumption DEF Disconnect, Forget
<1>7. CASE Crash
  BY <1>7, AgentAssumption DEF Crash
<1>8. ASSUME UNCHANGED <<handler, agentOf, byAgent, byDomain>>
      PROVE  NoGhostRoute'
  BY <1>8
<1>9. ASSUME NEW a \in Agents,
             \/ Enroll(a) \/ RenewAuth(a) \/ RenewIssue(a) \/ SaveRow(a) \/ Reaps(a)
             \/ Activate(a) \/ ActivateWrites(a) \/ Revoke(a) \/ Delete(a) \/ RevokeSubject(a)
             \/ DeleteRow(a)
      PROVE  UNCHANGED <<handler, agentOf, byAgent, byDomain>>
  BY <1>9 DEF Enroll, RenewAuth, RenewIssue, SaveRow, Reaps, SeenLongAgo,
              MarkOfflineStale, Activate, ActivateWrites, Revoke, Delete, RevokeSubject, DeleteRow
<1>10. CASE UNCHANGED agentVars
  BY <1>8, <1>10 DEF agentVars
<1> QED BY <1>1, <1>2, <1>3, <1>4, <1>5, <1>6, <1>7, <1>8, <1>9, <1>10
        DEF AgentNext, AdminNext, Cleanup

-----------------------------------------------------------------------------
(* Activation.                                                             *)

\* Whoever holds or writes a status that lets the agent in was preceded by an
\* activation: the row, the copy that an enrollment or a renewal will save, and
\* every handler that was let in.
ActivationInv ==
    /\ \A a \in Agents : Schedulable(a) => a \in activated
    /\ \A a \in Agents : read[a] \in {"online", "offline"} => a \in activated
    /\ \A t \in Tunnels : handler[t] # "idle" => agentOf[t] \in activated

\* No step makes an agent schedulable that was never activated, not even the
\* save of a row that was read before.
LEMMA ActivationStep ==
    ASSUME AgentTypeOK, ActivationInv, [AgentNext]_agentVars
    PROVE  ActivationInv'
<1> USE DEF AgentTypeOK, ActivationInv, Schedulable, rowVars, requestVars, tunnelVars, boundVars
<1>1. ASSUME NEW a \in Agents, Enroll(a) \/ RenewAuth(a) \/ RenewIssue(a) \/ SaveRow(a)
      PROVE  ActivationInv'
  BY <1>1 DEF Enroll, RenewAuth, RenewIssue, SaveRow
<1>2. ASSUME NEW a \in Agents, AdminNext(a)
      PROVE  ActivationInv'
  <2>1. CASE ActivateWrites(a)
    BY <2>1 DEF ActivateWrites, Write
  <2>2. CASE Revoke(a) \/ DeleteRow(a)
    BY <2>2 DEF Revoke, Asks, DeleteRow, Write
  <2>3. CASE Activate(a) \/ Delete(a) \/ RevokeSubject(a)
    BY <2>3 DEF Activate, Delete, Asks, RevokeSubject
  <2>4. CASE Disconnect(a)
    BY <2>4 DEF Disconnect
  <2> QED BY <1>2, <2>1, <2>2, <2>3, <2>4 DEF AdminNext
<1>3. ASSUME NEW a \in Agents, Reaps(a)
      PROVE  ActivationInv'
  BY <1>3 DEF Reaps, SeenLongAgo, MarkOfflineStale
<1>4. ASSUME NEW t \in Tunnels, NEW a \in Agents, AcceptTunnel(t, a)
      PROVE  ActivationInv'
  BY <1>4 DEF AcceptTunnel
<1>5. ASSUME NEW t \in Tunnels, Register(t) \/ TunnelEnds(t) \/ TunnelDrops(t)
      PROVE  ActivationInv'
  BY <1>5 DEF Register, TunnelEnds, TunnelDrops
<1>6. ASSUME NEW t \in Tunnels, Heartbeat(t) \/ MarkOffline(t)
      PROVE  ActivationInv'
  <2>1. agentOf[t] \in Agents /\ agentOf[t] \in activated
    BY <1>6 DEF Heartbeat, MarkOffline
  <2>2. \A b \in Agents : b # agentOf[t] => row'[b] = row[b]
    BY <1>6 DEF Heartbeat, MarkOffline, Touch, Write
  <2>3. UNCHANGED <<activated, read, agentOf>>
    BY <1>6 DEF Heartbeat, MarkOffline
  <2>4. \A x \in Tunnels : handler'[x] # "idle" => handler[x] # "idle"
    BY <1>6 DEF Heartbeat, MarkOffline
  <2> QED BY <2>1, <2>2, <2>3, <2>4
<1>7. CASE Crash
  BY <1>7 DEF Crash
<1>8. CASE UNCHANGED agentVars
  BY <1>8 DEF agentVars
<1> QED BY <1>1, <1>2, <1>3, <1>4, <1>5, <1>6, <1>7, <1>8 DEF AgentNext, Cleanup

\* A route leads to a handler that is not idle, hence to an agent that was let in.
LEMMA ActivationEnough ==
    ASSUME AgentTypeOK, NoGhostRoute, ActivationInv
    PROVE  ActivationFirst
  BY DEF AgentTypeOK, NoGhostRoute, ActivationInv, ActivationFirst, Routable

-----------------------------------------------------------------------------
(* What holds of the agents' part of the gateway.                          *)

\* All that is inductive about the agents.
AgentInv == AgentTypeOK /\ NoGhostRoute /\ ActivationInv

\* The agents' part starts well, and stays so.
LEMMA AgentInvariant == AgentInit /\ [][AgentNext]_agentVars => []AgentInv
<1>1. AgentInit => AgentInv
  <2> SUFFICES ASSUME AgentInit PROVE AgentInv
    OBVIOUS
  <2>1. NoGhostRoute
    BY AgentAssumption DEF AgentInit, NoGhostRoute
  <2>2. ActivationInv
    BY DEF AgentInit, ActivationInv, Schedulable
  <2> QED BY <2>1, <2>2, AgentTypeInit DEF AgentInv
<1>2. AgentInv /\ [AgentNext]_agentVars => AgentInv'
  BY AgentTypeStep, GhostStep, ActivationStep DEF AgentInv
<1> QED BY <1>1, <1>2, PTL

\* A route of the registry never outlives the handler of its tunnel: Register,
\* Unregister and Disconnect keep both indexes in step with the handlers, for
\* every number of agents and tunnels, reconnections and restarts.
THEOREM RoutesHaveHandlers == AgentSpec => []NoGhostRoute
<1>1. AgentInv => NoGhostRoute
  BY DEF AgentInv
<1> QED BY <1>1, AgentInvariant, PTL DEF AgentSpec

\* No agent carries a session before an administrator activated it, whatever the
\* reaper, heartbeats, renewals and late saves write into its row.
THEOREM ActivationComesFirst == AgentSpec => []ActivationFirst
<1>1. AgentInv => ActivationFirst
  BY ActivationEnough DEF AgentInv
<1> QED BY <1>1, AgentInvariant, PTL DEF AgentSpec

-----------------------------------------------------------------------------
(* The firewall manager: types, and what may be under way.                 *)

\* Only changes of high risk have a watchdog, an armed rollback or a verdict, none
\* is judged before its SafeApply has returned, one that has taken its snapshot
\* has an id, and a marker is that of a change whose SafeApply has returned.
WatchedInv ==
    /\ \A c \in Changes :
        /\ progress[c] \in {"saved", "armed", "failing"} => c \in HighRisk
        /\ progress[c] \in {"new", "checked"} => snap[c] = NoChange
        /\ progress[c] \in {"saved", "armed", "failing"} => snap[c] # NoChange
        /\ c \in HighRisk /\ progress[c] = "changed" => snap[c] # NoChange
        /\ watchdog[c] # "none" => c \in HighRisk /\ snap[c] # NoChange
        /\ verdicts[c] # {} => c \in HighRisk
        /\ verdicts[c] # {} \/ armed = c => progress[c] = "over" /\ snap[c] # NoChange
    /\ \A id \in committed : \E d \in Changes : snap[d] = id /\ progress[d] = "over"

\* No snapshot holds a change that cuts SSH off, for none is taken while one is in
\* force.
SnapshotsOpen == \A c \in Changes : saved[c] \cap Cutting = {}

SafeBase == SafeTypeOK /\ WatchedInv /\ SnapshotsOpen

\* A host starts with no change, no job and no snapshot.
LEMMA SafeBaseInit == SafeInit => SafeBase
<1> SUFFICES ASSUME SafeInit PROVE SafeBase
  OBVIOUS
<1>1. SafeTypeOK
  <2>1. verdicts \in [Changes -> SUBSET {"commit", "rollback"}]
    BY DEF SafeInit
  <2> QED BY <2>1, SafeAssumption DEF SafeInit, SafeTypeOK
<1>2. WatchedInv /\ SnapshotsOpen
  BY SafeAssumption DEF SafeInit, WatchedInv, SnapshotsOpen
<1> QED BY <1>1, <1>2 DEF SafeBase

\* Stopping a timer changes the state of one job at most, to "over".
LEMMA StopsType ==
    ASSUME SafeTypeOK, NEW c \in Changes, Stops(c)
    PROVE  /\ watchdog' \in [Changes -> {"none", "running", "restoring", "over"}]
           /\ \A d \in Changes :
                /\ watchdog'[d] # watchdog[d] => watchdog[d] = "running" /\ watchdog'[d] = "over"
                /\ watchdog'[d] # watchdog[d] => snap[d] = snap[c]
<1>1. CASE UNCHANGED watchdog
  BY <1>1 DEF SafeTypeOK
<1>2. ASSUME NEW e \in Changes, snap[e] = snap[c],
             watchdog' = [watchdog EXCEPT ![e] = IF @ = "running" THEN "over" ELSE @]
      PROVE  /\ watchdog' \in [Changes -> {"none", "running", "restoring", "over"}]
             /\ \A d \in Changes :
                /\ watchdog'[d] # watchdog[d] => watchdog[d] = "running" /\ watchdog'[d] = "over"
                /\ watchdog'[d] # watchdog[d] => snap[d] = snap[c]
  BY <1>2 DEF SafeTypeOK
<1> QED BY <1>1, <1>2 DEF Stops

\* What the script leaves behind: the rules there were, or some of the snapshot's.
LEMMA RestoreType ==
    ASSUME SafeBase, NEW c \in Changes, snap[c] # NoChange, RunsRestore(c)
    PROVE  /\ rules' \subseteq Changes /\ gaps' \subseteq Changes /\ gaps \subseteq gaps'
           /\ rules' \cap Cutting \subseteq rules \cap Cutting
           /\ c \in rules' /\ c \in Captured \cap Cutting => c \in gaps'
<1> USE SafeAssumption DEF SafeBase, SafeTypeOK, SnapshotsOpen
<1>1. snap[c] \in Changes
  OBVIOUS
<1>2. CASE rules' = Restored(c) /\ UNCHANGED gaps
  <2>1. saved[snap[c]] \subseteq Changes /\ saved[snap[c]] \cap Cutting = {}
    BY <1>1
  <2> QED BY <1>2, <2>1 DEF Restored
<1>3. CASE (rules' = rules \/ rules' = {}) /\ gaps' = gaps \cup {c}
  BY <1>3
<1> QED BY <1>2, <1>3 DEF RunsRestore

\* The script and the timer, on the host.
LEMMA TriggerType ==
    ASSUME SafeBase, NEW c \in Changes, snap[c] # NoChange, triggerRollback(c)
    PROVE  /\ rules' \subseteq Changes /\ gaps' \subseteq Changes /\ gaps \subseteq gaps'
           /\ rules' \cap Cutting = {}
           /\ watchdog' \in [Changes -> {"none", "running", "restoring", "over"}]
           /\ \A d \in Changes :
                watchdog'[d] # watchdog[d] => watchdog[d] = "running" /\ snap[d] = snap[c]
           /\ UNCHANGED <<snap, saved, kept, committed>>
<1>1. CASE UNCHANGED <<rules, gaps>>
  BY <1>1, StopsType DEF triggerRollback, SafeBase, SafeTypeOK, SshOpen
<1>2. CASE RunsRestore(c)
  BY <1>2, StopsType, RestoreType DEF triggerRollback, SafeBase, SshOpen
<1> QED BY <1>1, <1>2 DEF triggerRollback

\* SafeApply of one change.
LEMMA SafeBaseApply ==
    ASSUME SafeBase, NEW c \in Changes, CheckArmed(c) \/ Applies(c)
    PROVE  SafeBase'
<1> USE SafeAssumption DEF SafeBase, SafeTypeOK, WatchedInv, SnapshotsOpen, hostVars, Reaches
<1>1. CASE CheckArmed(c)
  BY <1>1 DEF CheckArmed
<1>2. CASE snapshotRuleset(c)
  <2>1. PICK id \in SnapshotIds(c) :
            /\ snap' = [snap EXCEPT ![c] = id]
            /\ saved' = [saved EXCEPT ![id] = rules] \/ saved' = saved
            /\ kept' = kept \cup {id} \/ kept' = kept \ {id}
            /\ gaps' = gaps \/ gaps' = gaps \cup {c}
    BY <1>2 DEF snapshotRuleset
  <2>2. id \in HighRisk
    BY <1>2, <2>1 DEF snapshotRuleset, SnapshotIds
  <2>3. SafeTypeOK'
    BY <1>2, <2>1, <2>2 DEF snapshotRuleset
  <2>4. SnapshotsOpen'
    BY <1>2, <2>1, <2>2 DEF snapshotRuleset, SshOpen
  <2>5. \A x \in committed' : \E d \in Changes : snap'[d] = x /\ progress'[d] = "over"
    <3> TAKE x \in committed'
    <3>1. PICK d \in Changes : snap[d] = x /\ progress[d] = "over"
      BY <1>2 DEF snapshotRuleset
    <3>2. d # c
      BY <1>2, <3>1 DEF snapshotRuleset
    <3> QED BY <1>2, <2>1, <3>1, <3>2 DEF snapshotRuleset
  <2>6. WatchedInv'
    BY <1>2, <2>1, <2>2, <2>5 DEF snapshotRuleset
  <2> QED BY <2>3, <2>4, <2>6
<1>3. CASE armRollback(c)
  <2>1. watchdog' = [watchdog EXCEPT ![c] = "running"] \/ watchdog' = watchdog
    BY <1>3 DEF armRollback
  <2>2. gaps' = gaps \/ gaps' = gaps \cup {c}
    BY <1>3 DEF armRollback
  <2>3. \E to \in {"armed", "over"} : Reaches(c, "saved", to)
    BY <1>3 DEF armRollback
  <2> QED BY <1>3, <2>1, <2>2, <2>3 DEF armRollback
<1>4. CASE GivesUp(c)
  <2>1. \E from \in {"checked", "saved"} : Reaches(c, from, "over")
    BY <1>4 DEF GivesUp
  <2> QED BY <1>4, <2>1 DEF GivesUp
<1>5. CASE runCmds(c)
  <2>1. /\ rules' = rules \/ rules' = rules \cup {c}
        /\ UNCHANGED <<tool, snap, saved, kept, watchdog, committed, gaps, armed, verdicts,
                       overlapped>>
        /\ progress[c] = IF c \in HighRisk THEN "armed" ELSE "checked"
        /\ \E to \in {"changed", Failed(c)} : progress' = [progress EXCEPT ![c] = to]
    BY <1>5 DEF runCmds
  <2>2. \E to \in {"changed", "failing", "over"} :
            /\ progress' = [progress EXCEPT ![c] = to]
            /\ to = "failing" => c \in HighRisk
    BY <2>1 DEF Failed
  <2> QED BY <2>1, <2>2
<1>6. CASE RollsBack(c)
  <2>1. /\ progress[c] = "failing" /\ progress' = [progress EXCEPT ![c] = "over"]
        /\ armed' = NoChange /\ snap[c] # NoChange
        /\ UNCHANGED <<tool, verdicts, overlapped>>
    BY <1>6 DEF RollsBack
  <2>2. CASE UNCHANGED hostVars
    BY <2>1, <2>2
  <2>3. CASE triggerRollback(c)
    BY <2>1, <2>3, TriggerType DEF triggerRollback
  <2> QED BY <1>6, <2>2, <2>3 DEF RollsBack
<1>7. CASE setArmed(c)
  BY <1>7 DEF setArmed
<1> QED BY <1>1, <1>2, <1>3, <1>4, <1>5, <1>6, <1>7 DEF Applies

\* The operator's verdicts and the jobs on the host.
LEMMA SafeBaseJudge ==
    ASSUME SafeBase, NEW c \in Changes,
           Judges(c) \/ Host(c) \/ \E verdict \in {"commit", "rollback"} : Asked(c, verdict)
    PROVE  SafeBase'
<1> USE SafeAssumption DEF SafeBase, SafeTypeOK, WatchedInv, SnapshotsOpen, hostVars
<1>0. ASSUME Judges(c)
      PROVE  /\ progress[c] = "over" /\ snap[c] # NoChange /\ c \in HighRisk
             /\ \E verdict \in {"commit", "rollback"} :
                    verdicts' = [verdicts EXCEPT ![c] = @ \ {verdict}]
             /\ armed' \in {armed, NoChange}
             /\ UNCHANGED <<tool, progress, overlapped>>
  BY <1>0 DEF Judges, CommitApply, RollbackNow, Answered
<1>1. ASSUME Judges(c), UNCHANGED hostVars
      PROVE  SafeBase'
  BY <1>0, <1>1
<1>2. ASSUME Judges(c), Commits(c)
      PROVE  SafeBase'
  <2>1. /\ committed' = committed \/ committed' = committed \cup {snap[c]}
        /\ gaps' = gaps \/ gaps' = gaps \cup {c}
        /\ UNCHANGED <<rules, snap, saved, kept>>
    BY <1>2 DEF Commits
  <2>2. /\ watchdog' \in [Changes -> {"none", "running", "restoring", "over"}]
        /\ \A d \in Changes : watchdog'[d] # "none" => watchdog[d] # "none"
    BY <1>2, StopsType DEF Commits
  <2> QED BY <1>0, <1>2, <2>1, <2>2
<1>3. ASSUME Judges(c), triggerRollback(c)
      PROVE  SafeBase'
  BY <1>0, <1>3, TriggerType
<1>4. CASE WatchdogFires(c)
  BY <1>4 DEF WatchdogFires
<1>5. CASE Restores(c)
  BY <1>5, RestoreType DEF Restores
<1>6. ASSUME NEW verdict \in {"commit", "rollback"}, Asked(c, verdict)
      PROVE  SafeBase'
  BY <1>6 DEF Asked
<1> QED BY <1>1, <1>2, <1>3, <1>4, <1>5, <1>6 DEF Judges, Host, CommitApply, RollbackNow, Answered

\* Shapes, jobs and snapshots are kept by every step.
LEMMA SafeBaseStep == SafeBase /\ [SafeNext]_safeVars => SafeBase'
<1> SUFFICES ASSUME SafeBase, [SafeNext]_safeVars PROVE SafeBase'
  OBVIOUS
<1> USE DEF SafeBase, SafeTypeOK, WatchedInv, SnapshotsOpen, hostVars
<1>1. CASE clearArmedIfExpired
  BY <1>1, SafeAssumption DEF clearArmedIfExpired
<1>2. CASE Restart
  BY <1>2, SafeAssumption DEF Restart
<1>3. CASE UNCHANGED safeVars
  BY <1>3 DEF safeVars
<1> QED BY <1>1, <1>2, <1>3, SafeBaseApply, SafeBaseJudge DEF SafeNext

-----------------------------------------------------------------------------
(* A lockout is undone.                                                    *)

\* CutIsWatched is not inductive alone: when the commands of a change run, its job
\* must already be there.
CutInv ==
    /\ CutIsWatched
    /\ \A c \in Changes :
        progress[c] = "armed" /\ c \notin gaps /\ ~Shared(c) => watchdog[c] = "running"

\* A step that gets through to the host, and so finds SSH open and leaves it so,
\* keeps CutInv if it stops jobs of one id only, and not its own before the time.
LEMMA CutReached ==
    ASSUME SafeBase, CutInv, NEW c \in Changes, rules' \cap Cutting = {}, gaps \subseteq gaps',
           UNCHANGED snap,
           \A d \in Changes : progress'[d] = "armed" => progress[d] = "armed" /\ d # c,
           \A d \in Changes : watchdog'[d] # watchdog[d] => snap[d] = snap[c]
    PROVE  CutInv'
<1>1. CutIsWatched'
  BY DEF CutIsWatched
<1>2. ASSUME NEW d \in Changes, progress'[d] = "armed", d \notin gaps', ~Shared(d)'
      PROVE  watchdog'[d] = "running"
  <2>1. ~Shared(d) /\ d # c
    BY <1>2 DEF Shared
  <2>2. watchdog'[d] = watchdog[d]
    BY <2>1 DEF Shared
  <2> QED BY <1>2, <2>1, <2>2 DEF CutInv
<1> QED BY <1>1, <1>2 DEF CutInv

\* A protected change that cuts SSH off is never in force without its watchdog.
LEMMA CutStep ==
    ASSUME SafeBase, CutInv, [SafeNext]_safeVars
    PROVE  CutInv'
<1> USE SafeAssumption DEF SafeBase, SafeTypeOK, WatchedInv
<1>0. ASSUME UNCHANGED <<tool, hostVars>>,
             \A d \in Changes : progress'[d] = "armed" => progress[d] = "armed"
      PROVE  CutInv'
  BY <1>0 DEF CutInv, CutIsWatched, Protected, Shared, Captured, hostVars
<1>1. ASSUME NEW c \in Changes, CheckArmed(c) \/ Applies(c)
      PROVE  CutInv'
  <2>1. CASE CheckArmed(c) \/ GivesUp(c) \/ setArmed(c)
    BY <1>0, <2>1 DEF CheckArmed, GivesUp, setArmed, Reaches
  <2>2. CASE snapshotRuleset(c)
    <3>1. rules' \cap Cutting = {} /\ UNCHANGED watchdog /\ gaps \subseteq gaps'
      BY <2>2 DEF snapshotRuleset, SshOpen
    <3>2. snap[c] = NoChange /\ progress[c] = "checked"
      BY <2>2 DEF snapshotRuleset, Reaches
    <3>3. \A d \in Changes \ {c} : snap'[d] = snap[d] /\ progress'[d] = progress[d]
      BY <2>2 DEF snapshotRuleset, Reaches
    <3>4. progress'[c] = "saved"
      BY <2>2 DEF snapshotRuleset, Reaches
    <3>5. ASSUME NEW d \in Changes, progress'[d] = "armed", d \notin gaps', ~Shared(d)'
          PROVE  watchdog'[d] = "running"
      <4>1. d # c /\ progress[d] = "armed" /\ snap[d] # NoChange
        BY <3>3, <3>4, <3>5
      <4>2. ~Shared(d)
        BY <3>2, <3>3, <3>5, <4>1 DEF Shared
      <4> QED BY <3>1, <3>5, <4>1, <4>2 DEF CutInv
    <3> QED BY <3>1, <3>5 DEF CutInv, CutIsWatched
  <2>3. CASE armRollback(c)
    <3>1. rules' \cap Cutting = {} /\ gaps \subseteq gaps' /\ UNCHANGED snap
      BY <2>3 DEF armRollback, SshOpen
    <3>2. \A d \in Changes \ {c} : progress'[d] = progress[d] /\ watchdog'[d] = watchdog[d]
      BY <2>3 DEF armRollback, Reaches
    <3>3. watchdog'[c] = "running" \/ c \in gaps'
      BY <2>3 DEF armRollback
    <3>4. \A d \in Changes : Shared(d)' <=> Shared(d)
      BY <3>1 DEF Shared
    <3> QED BY <3>1, <3>2, <3>3, <3>4 DEF CutInv, CutIsWatched
  <2>4. CASE runCmds(c)
    <3>1. /\ UNCHANGED <<tool, snap, watchdog, committed, gaps>>
          /\ \A d \in Changes : progress'[d] = "armed" => progress[d] = "armed"
          /\ progress[c] = IF c \in HighRisk THEN "armed" ELSE "checked"
          /\ rules' = rules \/ (SshOpen /\ rules' = rules \cup {c})
      BY <2>4 DEF runCmds, Reaches, Failed
    <3>2. \A d \in Changes : (Shared(d)' <=> Shared(d)) /\ (Protected(d)' <=> Protected(d))
      BY <3>1 DEF Shared, Protected, Captured
    <3>3. CASE rules' = rules
      BY <3>1, <3>2, <3>3 DEF CutInv, CutIsWatched
    <3>4. CASE SshOpen /\ rules' = rules \cup {c}
      <4>1. \A d \in rules' \cap Cutting : d = c
        BY <3>4 DEF SshOpen
      <4>2. ASSUME Protected(c), ~Shared(c)
            PROVE  watchdog[c] = "running" /\ snap[c] \notin committed
        <5>1. progress[c] = "armed" /\ c \notin gaps
          BY <3>1, <4>2 DEF Protected
        <5>2. snap[c] \notin committed
          \* A marker of the same id would be that of another change.
          BY <4>2, <5>1 DEF Shared
        <5> QED BY <4>2, <5>1, <5>2 DEF CutInv
      <4> QED BY <3>1, <3>2, <4>1, <4>2 DEF CutInv, CutIsWatched
    <3> QED BY <3>1, <3>3, <3>4
  <2>5. CASE RollsBack(c)
    <3>1. /\ progress[c] = "failing" /\ progress' = [progress EXCEPT ![c] = "over"]
          /\ UNCHANGED tool
      BY <2>5 DEF RollsBack, Reaches
    <3>2. CASE UNCHANGED hostVars
      BY <1>0, <3>1, <3>2
    <3>3. CASE triggerRollback(c)
      BY <3>1, <3>3, TriggerType, CutReached
    <3> QED BY <2>5, <3>2, <3>3 DEF RollsBack
  <2> QED BY <1>1, <2>1, <2>2, <2>3, <2>4, <2>5 DEF Applies
<1>2. ASSUME NEW c \in Changes, Judges(c)
      PROVE  CutInv'
  <2>1. progress[c] = "over" /\ snap[c] # NoChange /\ UNCHANGED <<tool, progress>>
    BY <1>2 DEF Judges, CommitApply, RollbackNow, Answered
  <2>2. CASE UNCHANGED hostVars
    BY <1>0, <2>1, <2>2
  <2>3. CASE Commits(c)
    <3>1. rules' \cap Cutting = {} /\ gaps \subseteq gaps' /\ UNCHANGED snap
      BY <2>3 DEF Commits, SshOpen
    <3> QED BY <2>1, <2>3, <3>1, StopsType, CutReached DEF Commits
  <2>4. CASE triggerRollback(c)
    BY <2>1, <2>4, TriggerType, CutReached
  <2> QED BY <1>2, <2>2, <2>3, <2>4 DEF Judges, CommitApply, RollbackNow, Answered
<1>3. ASSUME NEW c \in Changes, WatchdogFires(c)
      PROVE  CutInv'
  <2>1. /\ UNCHANGED <<tool, rules, snap, committed, progress>> /\ gaps \subseteq gaps'
        /\ watchdog[c] = "running"
        /\ watchdog'[c] = IF snap[c] \in committed THEN "over" ELSE "restoring"
        /\ \A d \in Changes \ {c} : watchdog'[d] = watchdog[d]
        /\ progress[c] = "armed" => c \in gaps'
    BY <1>3 DEF WatchdogFires, HasMarker
  <2>2. \A d \in Changes : (Shared(d)' <=> Shared(d)) /\ (Protected(d)' => Protected(d))
    BY <2>1 DEF Shared, Protected, Captured
  <2> QED BY <2>1, <2>2 DEF CutInv, CutIsWatched
<1>4. ASSUME NEW c \in Changes, Restores(c)
      PROVE  CutInv'
  <2>1. /\ UNCHANGED <<tool, snap, committed, progress>> /\ gaps \subseteq gaps'
        /\ watchdog[c] = "restoring" /\ \A d \in Changes \ {c} : watchdog'[d] = watchdog[d]
        /\ rules' \cap Cutting \subseteq rules \cap Cutting
        /\ c \in rules' /\ c \in Captured \cap Cutting => c \in gaps'
    BY <1>4, RestoreType DEF Restores
  <2>2. \A d \in Changes : (Shared(d)' <=> Shared(d)) /\ (Protected(d)' => Protected(d))
    BY <2>1 DEF Shared, Protected, Captured
  <2>3. c \in rules' \cap Cutting => ~Protected(c)'
    BY <2>1 DEF Protected, Captured
  <2>4. CutIsWatched'
    BY <2>1, <2>2, <2>3 DEF CutInv, CutIsWatched
  <2>5. ASSUME NEW d \in Changes, progress'[d] = "armed", d \notin gaps', ~Shared(d)'
        PROVE  watchdog'[d] = "running"
    <3>1. watchdog[d] = "running"
      BY <2>1, <2>2, <2>5 DEF CutInv
    <3> QED BY <2>1, <3>1
  <2> QED BY <2>4, <2>5 DEF CutInv
<1>5. ASSUME NEW c \in Changes, NEW verdict, Asked(c, verdict)
      PROVE  CutInv'
  BY <1>0, <1>5 DEF Asked
<1>6. CASE clearArmedIfExpired
  BY <1>0, <1>6 DEF clearArmedIfExpired
<1>7. CASE Restart
  BY <1>0, <1>7 DEF Restart
<1>8. CASE UNCHANGED safeVars
  BY <1>0, <1>8 DEF safeVars
<1> QED BY <1>1, <1>2, <1>3, <1>4, <1>5, <1>6, <1>7, <1>8 DEF SafeNext, Host

\* While the node is locked out, every protected change that did it has a job on
\* the host that is about to undo it, whatever tool the host has, and whatever
\* fails, overlaps, commits or restarts.  A change is unprotected only in the ways
\* that Protected and Shared name: the risk assessment or the snapshot does not
\* cover it, a command failed unnoticed, the window was too short, or two applies
\* of one second share an id.
THEOREM LockoutIsWatched == SafeSpec => []CutIsWatched
<1>1. SafeInit => SafeBase /\ CutInv
  <2>1. SafeInit => CutInv
    BY DEF SafeInit, CutInv, CutIsWatched
  <2> QED BY <2>1, SafeBaseInit
<1>2. (SafeBase /\ CutInv) /\ [SafeNext]_safeVars => (SafeBase /\ CutInv)'
  BY SafeBaseStep, CutStep
<1>3. CutInv => CutIsWatched
  BY DEF CutInv
<1> QED BY <1>1, <1>2, <1>3, PTL DEF SafeSpec

-----------------------------------------------------------------------------
(* A committed change stays.                                               *)

\* A change that may still set the rules to its snapshot, or whose verdict may.
MayRestore(c) ==
    \/ progress[c] \in {"saved", "armed", "changed", "failing"}
    \/ armed = c
    \/ "rollback" \in verdicts[c]
    \/ watchdog[c] = "restoring"
    \/ watchdog[c] = "running" /\ snap[c] \notin committed

\* As long as no apply began while another could still change the rules, one
\* change at a time is under way, it has an id of its own, and its snapshot, where
\* it was written, lacks nothing but itself: a change that was committed before is
\* in it.
AloneInv ==
    ~overlapped =>
        /\ \A c, d \in Changes :
            (Unsettled(c) \/ armed = c) /\ (Unsettled(d) \/ armed = d) => c = d
        /\ \A c \in Changes : snap[c] \in {c, NoChange}
        /\ \A c \in HighRisk :
            MayRestore(c) /\ snap[c] \in kept => rules \subseteq saved[snap[c]] \cup {c}

\* A restore of the one change under way leaves rules that its snapshot covers.
LEMMA AloneRestore ==
    ASSUME SafeBase, AloneInv, ~overlapped, NEW c \in HighRisk, MayRestore(c), snap[c] # NoChange,
           RunsRestore(c)
    PROVE  snap[c] \in kept => rules' \subseteq saved[snap[c]] \cup {c}
  BY SafeAssumption DEF AloneInv, RunsRestore, Restored

\* A step on the host that stops jobs, adds markers and changes the rules only as
\* the change under way may, keeps AloneInv.
LEMMA AloneReached ==
    ASSUME SafeBase, AloneInv, NEW c \in HighRisk, Unsettled(c) \/ armed = c \/ rules' = rules,
           snap[c] \in kept => rules' \subseteq saved[snap[c]] \cup {c} \/ rules' = rules,
           UNCHANGED <<snap, saved, kept, overlapped>>, committed \subseteq committed',
           \A d \in Changes : watchdog'[d] # watchdog[d] =>
                \/ watchdog'[d] = "over"
                \/ watchdog'[d] = "restoring" /\ watchdog[d] = "running" /\ snap[d] \notin committed,
           armed' \in {armed, NoChange},
           \A d \in Changes : verdicts'[d] \subseteq verdicts[d],
           \A d \in Changes : progress'[d] = progress[d] \/ progress'[d] = "over"
    PROVE  AloneInv'
<1> SUFFICES ASSUME ~overlapped PROVE AloneInv'
  BY DEF AloneInv
<1> USE SafeAssumption DEF SafeBase, SafeTypeOK
<1>1. \A d \in Changes : Unsettled(d)' => Unsettled(d)
  BY DEF Unsettled
<1>2. \A d \in Changes : (armed = d)' => armed = d
  OBVIOUS
<1>3. \A d \in Changes : MayRestore(d)' => MayRestore(d)
  BY <1>2 DEF MayRestore
<1>4. \A d \in Changes : MayRestore(d) => Unsettled(d) \/ armed = d
  BY DEF MayRestore, Unsettled
<1>5. ASSUME NEW d \in HighRisk, MayRestore(d)', snap'[d] \in kept'
      PROVE  rules' \subseteq saved'[snap'[d]] \cup {d}
  <2>1. MayRestore(d) /\ (Unsettled(d) \/ armed = d)
    BY <1>3, <1>4, <1>5
  <2>2. rules \subseteq saved[snap[d]] \cup {d}
    BY <1>5, <2>1 DEF AloneInv
  <2>3. rules' = rules \/ d = c
    BY <2>1 DEF AloneInv
  <2> QED BY <1>5, <2>2, <2>3
<1> QED BY <1>1, <1>2, <1>5 DEF AloneInv

\* SafeApply of one change keeps AloneInv: it starts alone, or the history says so.
LEMMA AloneApply ==
    ASSUME SafeBase, AloneInv, NEW c \in Changes, CheckArmed(c) \/ Applies(c)
    PROVE  AloneInv'
<1> SUFFICES ASSUME ~overlapped' PROVE AloneInv'
  BY DEF AloneInv
<1> USE SafeAssumption DEF SafeBase, SafeTypeOK, WatchedInv, hostVars, Reaches
<1>0. ~overlapped
  BY DEF CheckArmed, Applies, snapshotRuleset, armRollback, GivesUp, runCmds, RollsBack, setArmed
<1>1. CASE CheckArmed(c)
  <2>1. armed = NoChange /\ \A d \in Changes \ {c} : ~Unsettled(d)
    BY <1>1 DEF CheckArmed
  <2>2. /\ progress[c] = "new" /\ progress' = [progress EXCEPT ![c] = "checked"]
        /\ UNCHANGED <<rules, snap, saved, kept, watchdog, committed, armed, verdicts>>
    BY <1>1 DEF CheckArmed
  <2>3. \A d \in Changes : Unsettled(d)' \/ (armed = d)' => d = c
    BY <2>1, <2>2 DEF Unsettled
  <2>4. \A d \in Changes : MayRestore(d)' => MayRestore(d)
    BY <2>2 DEF MayRestore
  <2> QED BY <1>0, <2>2, <2>3, <2>4 DEF AloneInv
<1>a. \A d \in Changes : MayRestore(d) => Unsettled(d) \/ armed = d
  BY DEF MayRestore, Unsettled
<1>2. CASE snapshotRuleset(c)
  <2>1. /\ c \in HighRisk /\ progress[c] = "checked" /\ snap[c] = NoChange
        /\ progress' = [progress EXCEPT ![c] = "saved"]
        /\ UNCHANGED <<rules, watchdog, committed, armed, verdicts>>
    BY <1>2 DEF snapshotRuleset
  <2>2. \A d \in Changes : Unsettled(d) \/ armed = d => d = c
    BY <1>0, <2>1 DEF AloneInv, Unsettled
  <2>3. SnapshotIds(c) = {c}
    <3>1. \A d \in HighRisk : progress[d] \notin {"saved", "armed", "changed", "failing"}
      BY <2>1, <2>2 DEF Unsettled
    <3> QED BY <3>1 DEF SnapshotIds
  <2>4. /\ snap' = [snap EXCEPT ![c] = c]
        /\ \/ saved' = [saved EXCEPT ![c] = rules]
           \/ kept' = kept \ {c}
    BY <1>2, <2>3 DEF snapshotRuleset
  <2>5. \A d \in Changes : Unsettled(d)' \/ (armed = d)' => d = c
    BY <2>1, <2>2, <2>4 DEF Unsettled
  <2>6. \A d \in HighRisk : MayRestore(d)' => d = c
    BY <2>1, <2>2, <2>4, <2>5 DEF MayRestore, Unsettled
  <2>7. snap'[c] \in kept' => rules' \subseteq saved'[snap'[c]] \cup {c}
    BY <2>1, <2>4
  <2> QED BY <1>0, <2>4, <2>5, <2>6, <2>7 DEF AloneInv
<1>3. CASE armRollback(c)
  <2>1. /\ progress[c] = "saved" /\ UNCHANGED <<rules, snap, saved, kept, committed, armed, verdicts>>
        /\ \A d \in Changes \ {c} : progress'[d] = progress[d] /\ watchdog'[d] = watchdog[d]
    BY <1>3 DEF armRollback
  <2>2. Unsettled(c) /\ MayRestore(c) /\ c \in HighRisk
    BY <2>1 DEF Unsettled, MayRestore
  <2>3. \A d \in Changes \ {c} : /\ Unsettled(d)' => Unsettled(d)
                                 /\ MayRestore(d)' => MayRestore(d)
    BY <2>1 DEF Unsettled, MayRestore
  <2>4. \A d \in Changes : Unsettled(d)' \/ (armed = d)' => d = c
    BY <1>0, <2>1, <2>2, <2>3 DEF AloneInv
  <2>5. \A d \in HighRisk : MayRestore(d)' => MayRestore(d)
    BY <2>2, <2>3
  <2> QED BY <1>0, <2>1, <2>4, <2>5 DEF AloneInv
<1>4. CASE GivesUp(c)
  <2>1. /\ \A d \in Changes : Unsettled(d)' => Unsettled(d)
        /\ \A d \in Changes : MayRestore(d)' => MayRestore(d)
    BY <1>4 DEF GivesUp, Unsettled, MayRestore
  <2> QED BY <1>0, <1>4, <2>1 DEF GivesUp, AloneInv
<1>5. CASE runCmds(c)
  <2>1. /\ progress[c] = IF c \in HighRisk THEN "armed" ELSE "checked"
        /\ UNCHANGED <<snap, saved, kept, watchdog, committed, armed, verdicts>>
        /\ rules' \subseteq rules \cup {c}
        /\ \A d \in Changes \ {c} : progress'[d] = progress[d]
    BY <1>5 DEF runCmds
  <2>2. Unsettled(c) /\ (c \in HighRisk => MayRestore(c))
    BY <2>1 DEF Unsettled, MayRestore
  <2>3. \A d \in Changes \ {c} : /\ Unsettled(d)' => Unsettled(d)
                                 /\ MayRestore(d)' => MayRestore(d)
    BY <2>1 DEF Unsettled, MayRestore
  <2>4. \A d \in Changes : Unsettled(d)' \/ (armed = d)' => d = c
    BY <1>0, <2>1, <2>2, <2>3 DEF AloneInv
  <2>5. \A d \in HighRisk : MayRestore(d)' => MayRestore(d) /\ d = c
    BY <1>0, <1>a, <2>2, <2>3 DEF AloneInv
  <2> QED BY <1>0, <2>1, <2>4, <2>5 DEF AloneInv
<1>6. CASE RollsBack(c)
  <2>1. /\ progress[c] = "failing" /\ progress' = [progress EXCEPT ![c] = "over"]
        /\ armed' = NoChange /\ UNCHANGED <<verdicts, overlapped>>
    BY <1>6 DEF RollsBack
  <2>2. Unsettled(c) /\ MayRestore(c) /\ c \in HighRisk /\ snap[c] # NoChange
    BY <2>1 DEF Unsettled, MayRestore
  <2>3. CASE UNCHANGED hostVars
    BY <2>1, <2>2, <2>3, AloneReached
  <2>4. CASE triggerRollback(c)
    <3>1. /\ UNCHANGED <<snap, saved, kept, committed>>
          /\ \A d \in Changes : watchdog'[d] # watchdog[d] => watchdog'[d] = "over"
      BY <2>4, StopsType DEF triggerRollback
    <3>2. snap[c] \in kept => rules' \subseteq saved[snap[c]] \cup {c} \/ rules' = rules
      BY <1>0, <2>2, <2>4, AloneRestore DEF triggerRollback
    <3> QED BY <2>1, <2>2, <3>1, <3>2, AloneReached
  <2> QED BY <1>6, <2>3, <2>4 DEF RollsBack
<1>7. CASE setArmed(c)
  <2>1. /\ progress[c] = "changed" /\ progress' = [progress EXCEPT ![c] = "over"]
        /\ armed' \in {c, armed}
        /\ UNCHANGED <<rules, snap, saved, kept, watchdog, committed, verdicts, overlapped>>
    BY <1>7 DEF setArmed
  <2>2. Unsettled(c) /\ MayRestore(c)
    BY <2>1 DEF Unsettled, MayRestore
  <2>3. \A d \in Changes : /\ Unsettled(d)' => Unsettled(d)
                           /\ MayRestore(d)' => MayRestore(d)
    BY <2>1, <2>2 DEF Unsettled, MayRestore
  <2> QED BY <1>0, <2>1, <2>2, <2>3 DEF AloneInv
<1> QED BY <1>1, <1>2, <1>3, <1>4, <1>5, <1>6, <1>7 DEF Applies

\* What is known of an apply that nothing overlapped is kept by every step.
LEMMA AloneStep ==
    ASSUME SafeBase, AloneInv, [SafeNext]_safeVars
    PROVE  AloneInv'
<1> SUFFICES ASSUME ~overlapped' PROVE AloneInv'
  BY DEF AloneInv
<1> USE SafeAssumption DEF SafeBase, SafeTypeOK, WatchedInv, hostVars
<1>1. ASSUME NEW c \in Changes, Judges(c)
      PROVE  AloneInv'
  <2>1. /\ c \in HighRisk /\ snap[c] # NoChange
        /\ armed' \in {armed, NoChange} /\ UNCHANGED <<progress, overlapped>>
        /\ \A d \in Changes : verdicts'[d] \subseteq verdicts[d]
    BY <1>1 DEF Judges, CommitApply, RollbackNow, Answered
  <2>2. CASE UNCHANGED hostVars
    BY <2>1, <2>2, AloneReached
  <2>3. CASE Commits(c)
    <3>1. /\ UNCHANGED <<rules, snap, saved, kept>> /\ committed \subseteq committed'
          /\ \A d \in Changes : watchdog'[d] # watchdog[d] => watchdog'[d] = "over"
      BY <2>3, StopsType DEF Commits
    <3> QED BY <2>1, <3>1, AloneReached
  <2>4. CASE "rollback" \in verdicts[c] /\ triggerRollback(c)
    <3>1. /\ UNCHANGED <<snap, saved, kept, committed>>
          /\ \A d \in Changes : watchdog'[d] # watchdog[d] => watchdog'[d] = "over"
      BY <2>4, StopsType DEF triggerRollback
    <3>2. Unsettled(c) /\ MayRestore(c)
      BY <2>4 DEF Unsettled, MayRestore
    <3>3. snap[c] \in kept => rules' \subseteq saved[snap[c]] \cup {c} \/ rules' = rules
      BY <2>1, <2>4, <3>2, AloneRestore DEF triggerRollback
    <3> QED BY <2>1, <3>1, <3>2, <3>3, AloneReached
  <2> QED BY <1>1, <2>2, <2>3, <2>4 DEF Judges, CommitApply, RollbackNow, Answered
<1>2. ASSUME NEW c \in Changes, WatchdogFires(c)
      PROVE  AloneInv'
  <2>1. /\ c \in HighRisk
        /\ UNCHANGED <<rules, snap, saved, kept, committed, armed, progress, verdicts, overlapped>>
        /\ \A d \in Changes : watchdog'[d] # watchdog[d] =>
                \/ watchdog'[d] = "over"
                \/ watchdog'[d] = "restoring" /\ watchdog[d] = "running" /\ snap[d] \notin committed
    BY <1>2 DEF WatchdogFires, HasMarker
  <2> QED BY <2>1, AloneReached
<1>3. ASSUME NEW c \in Changes, Restores(c)
      PROVE  AloneInv'
  <2>1. /\ c \in HighRisk /\ snap[c] # NoChange /\ RunsRestore(c) /\ Unsettled(c) /\ MayRestore(c)
        /\ UNCHANGED <<snap, saved, kept, committed, armed, progress, verdicts, overlapped>>
        /\ \A d \in Changes : watchdog'[d] # watchdog[d] => watchdog'[d] = "over"
    BY <1>3 DEF Restores, Unsettled, MayRestore
  <2>2. snap[c] \in kept => rules' \subseteq saved[snap[c]] \cup {c} \/ rules' = rules
    BY <2>1, AloneRestore
  <2> QED BY <2>1, <2>2, AloneReached
<1>4. ASSUME NEW c \in Changes, NEW verdict \in {"commit", "rollback"}, Asked(c, verdict)
      PROVE  AloneInv'
  <2>1. /\ armed = c /\ MayRestore(c)
        /\ UNCHANGED <<rules, snap, saved, kept, watchdog, committed, armed, progress, overlapped>>
        /\ \A d \in Changes \ {c} : verdicts'[d] = verdicts[d]
    BY <1>4 DEF Asked, MayRestore
  <2>2. \A d \in Changes \ {c} : Unsettled(d)' => Unsettled(d)
    BY <2>1 DEF Unsettled
  <2>3. \A d \in Changes : MayRestore(d)' => MayRestore(d)
    BY <2>1 DEF MayRestore
  <2> QED BY <2>1, <2>2, <2>3 DEF AloneInv
<1>5. CASE clearArmedIfExpired \/ Restart
  <2>1. /\ armed' = NoChange
        /\ UNCHANGED <<rules, snap, saved, kept, watchdog, committed, overlapped>>
        /\ \A d \in Changes : verdicts'[d] \subseteq verdicts[d]
        /\ \A d \in Changes : progress'[d] = progress[d] \/ progress'[d] = "over"
    BY <1>5 DEF clearArmedIfExpired, Restart
  <2>2. \A d \in Changes : /\ Unsettled(d)' => Unsettled(d)
                           /\ MayRestore(d)' => MayRestore(d)
    BY <2>1 DEF Unsettled, MayRestore
  <2> QED BY <2>1, <2>2 DEF AloneInv
<1>6. CASE UNCHANGED safeVars
  BY <1>6 DEF safeVars, AloneInv, Unsettled, MayRestore
<1> QED BY <1>1, <1>2, <1>3, <1>4, <1>5, <1>6, AloneApply DEF SafeNext, Host

\* What CommittedStays says of one step.
LEMMA CommittedStep ==
    ASSUME SafeBase, AloneInv, [SafeNext]_safeVars,
           NEW c \in rules, snap[c] \in committed, ~overlapped, watchdog[c] # "restoring"
    PROVE  c \in rules' \/ (tool = "nftables" /\ rules' = {} /\ gaps' # {})
<1> USE SafeAssumption DEF SafeBase, SafeTypeOK, WatchedInv, hostVars
<1>0. ASSUME NEW d \in HighRisk, d # c, MayRestore(d), RunsRestore(d)
      PROVE  c \in rules' \/ (tool = "nftables" /\ rules' = {} /\ gaps' # {})
  BY <1>0 DEF AloneInv, RunsRestore, Restored
<1>1. ASSUME NEW d \in Changes, triggerRollback(d),
             progress[d] = "failing" \/ "rollback" \in verdicts[d]
      PROVE  c \in rules' \/ (tool = "nftables" /\ rules' = {} /\ gaps' # {})
  <2>1. CASE UNCHANGED <<rules, gaps>>
    BY <2>1
  <2>2. CASE ~HasMarker(d) /\ RunsRestore(d)
    <3>1. d \in HighRisk /\ d # c /\ MayRestore(d)
      BY <1>1, <2>2 DEF HasMarker, MayRestore
    <3> QED BY <1>0, <2>2, <3>1
  <2> QED BY <1>1, <2>1, <2>2 DEF triggerRollback
<1>2. ASSUME NEW d \in Changes, Restores(d)
      PROVE  c \in rules' \/ (tool = "nftables" /\ rules' = {} /\ gaps' # {})
  <2>1. d \in HighRisk /\ d # c /\ MayRestore(d) /\ RunsRestore(d)
    BY <1>2 DEF Restores, MayRestore
  <2> QED BY <1>0, <2>1
<1>3. ASSUME NEW d \in Changes, RollsBack(d)
      PROVE  c \in rules' \/ (tool = "nftables" /\ rules' = {} /\ gaps' # {})
  BY <1>1, <1>3 DEF RollsBack, Reaches
<1>4. ASSUME NEW d \in Changes, RollbackNow(d)
      PROVE  c \in rules' \/ (tool = "nftables" /\ rules' = {} /\ gaps' # {})
  BY <1>1, <1>4 DEF RollbackNow, Answered
<1>5. ASSUME NEW d \in Changes,
             \/ CheckArmed(d) \/ snapshotRuleset(d) \/ armRollback(d) \/ GivesUp(d) \/ runCmds(d)
             \/ setArmed(d) \/ CommitApply(d) \/ WatchdogFires(d)
             \/ \E verdict \in {"commit", "rollback"} : Asked(d, verdict)
      PROVE  c \in rules'
  BY <1>5 DEF CheckArmed, snapshotRuleset, armRollback, GivesUp, runCmds, setArmed, CommitApply,
              Answered, Commits, WatchdogFires, Asked
<1>6. CASE clearArmedIfExpired \/ Restart \/ UNCHANGED safeVars
  BY <1>6 DEF clearArmedIfExpired, Restart, safeVars
<1> QED BY <1>2, <1>3, <1>4, <1>5, <1>6 DEF SafeNext, Applies, Judges, Host

\* A committed change stays in force, although its own timer may still fire and
\* other changes are applied, fail and are rolled back after it, with every tool;
\* excepted are a restore that had begun before the commit, applies that
\* overlapped, and a flush by nft that no snapshot follows.
THEOREM CommitIsKept == SafeSpec => CommittedStays
<1>1. SafeInit => SafeBase /\ AloneInv
  <2>1. SafeInit => AloneInv
    BY SafeAssumption DEF SafeInit, AloneInv, Unsettled, MayRestore
  <2> QED BY <2>1, SafeBaseInit
<1>2. (SafeBase /\ AloneInv) /\ [SafeNext]_safeVars => (SafeBase /\ AloneInv)'
  BY SafeBaseStep, AloneStep
<1>3. (SafeBase /\ AloneInv) /\ [SafeNext]_safeVars =>
        [\A c \in rules :
            snap[c] \in committed =>
                \/ c \in rules' \/ overlapped \/ watchdog[c] = "restoring"
                \/ tool = "nftables" /\ rules' = {} /\ gaps' # {}]_safeVars
  BY CommittedStep
<1> QED BY <1>1, <1>2, <1>3, PTL DEF SafeSpec, CommittedStays

-----------------------------------------------------------------------------
(* The gateway, of which the agents and the firewall are parts.            *)

\* A behaviour of the gateway is one of each of its parts.
LEMMA PartsOfGateway ==
    Spec => /\ AgentInit /\ [][AgentNext]_agentVars
            /\ SafeInit /\ [][SafeNext]_safeVars
<1>1. [Next]_gatewayVars => [AgentNext]_agentVars /\ [SafeNext]_safeVars
  BY DEF Next, ServesAgents, ChangesFirewall, gatewayVars
<1> QED BY <1>1, PTL DEF Spec, Init

\* The state of the agent gateway and of the firewall manager keeps its shape.
THEOREM GatewayTypeCorrect == Spec => []TypeOK
<1>1. AgentInv => AgentTypeOK
  BY DEF AgentInv
<1>2. SafeInit /\ [][SafeNext]_safeVars => []SafeTypeOK
  <2>1. SafeBase => SafeTypeOK
    BY DEF SafeBase
  <2> QED BY <2>1, SafeBaseInit, SafeBaseStep, PTL
<1> QED BY <1>1, <1>2, AgentInvariant, PartsOfGateway, PTL DEF TypeOK

=============================================================================
