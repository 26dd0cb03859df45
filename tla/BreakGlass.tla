----------------------------- MODULE BreakGlass -----------------------------
(***************************************************************************)
(* Emergency access (internal/breakglass): the life of ONE activation, its *)
(* approval request and approval grant, the asset grants minted for it and *)
(* the requester's live session on the node.                               *)
(*                                                                         *)
(* The service takes no lock: a handler reads the activation row, works on *)
(* its copy through several repository and approval calls, and writes the  *)
(* whole row back.  One action is one such call; loc[p].row is the copy.   *)
(* The approval service is the environment, and does no more than          *)
(* RequestLife allows, which is what module Approval implements.           *)
(***************************************************************************)
EXTENDS Integers, FiniteSets

CONSTANTS
    Handlers,       \* concurrent API handlers (Activate, Revoke, Get, SubmitReview)
    Reconcilers,    \* one reconciler goroutine per gateway instance
    Policies,       \* what the governing policy and the approval template may say
    Requested,      \* window lengths a requester may ask for; 0 = the full cap
    Overrides,      \* window lengths an approver may set; 0 = as requested
    Floor,          \* "safety floor if the upstream window collapsed"
    MaxMints,       \* bound: asset grants
    MaxFaults,      \* bound: failed calls and crashes
    MaxTime         \* bound: the clock

Procs == Handlers \cup Reconcilers

\* One policy with the global settings folded in: failOpen stands for
\* policy.AllowFailOpen && cfg.AllowFailOpen, cap for the smaller of the two
\* caps, auto and templateCap for the approval template.
Policy == [failOpen: BOOLEAN, dual: BOOLEAN, review: BOOLEAN, cap: Nat \ {0},
           auto: BOOLEAN, templateCap: Nat]

ASSUME BreakGlassAssumption ==
    /\ Handlers \cap Reconcilers = {}
    /\ IsFiniteSet(Handlers) /\ IsFiniteSet(Reconcilers)
    /\ Policies # {} /\ Policies \subseteq Policy
    /\ Requested \subseteq Nat /\ Overrides \subseteq Nat /\ Floor \in Nat \ {0}
    /\ MaxMints \in Nat /\ MaxFaults \in Nat /\ MaxTime \in Nat

Statuses == {"absent", "pending", "active", "expired", "revoked", "rejected",
             "under_review", "closed"}

VARIABLES
    now,        \* the clock
    pol,        \* the policy that governs the node
    act,        \* the break_glass_activations row
    req,        \* the status of its approval request
    win,        \* the window the request asks for
    grant,      \* the approval grant of the request
    assets,     \* the asset_grants rows minted for the activation
    minted,     \* how many were ever minted
    records,    \* how many "activate" events the critical audit queue accepted
    live,       \* the requester has a live session on the node
    loc,        \* loc[p]: what process p is doing, and its copy of the row
    faults      \* failures so far

vars == <<now, pol, act, req, win, grant, assets, minted, records, live, loc, faults>>
approvalVars == <<req, win, grant>>

Row == [status: Statuses, mode: {"pre_approved", "fail_open"}, review: BOOLEAN,
        linked: BOOLEAN, granted: BOOLEAN, asset: Nat, notAfter: Nat]
ReqStates == {"absent", "pending", "approved", "auto_approved", "rejected",
              "cancelled", "expired"}
Window == [from: Nat, until: Nat]
Grant == [status: {"none", "active", "expired", "revoked"}, from: Nat, until: Nat]
PCs == {"idle", "file", "filed", "grant", "status", "link", "audit", "window", "mint",
        "activate", "unwind", "reject", "reload", "detail", "cancel", "access",
        "ungrant", "sever", "end", "review", "sweep"}
Local == [pc: PCs, row: Row, dur: Nat, lapsed: BOOLEAN, sweep: BOOLEAN]

NoActivation == [status |-> "absent", mode |-> "pre_approved", review |-> FALSE,
                 linked |-> FALSE, granted |-> FALSE, asset |-> 0, notAfter |-> 0]
Idle == [pc |-> "idle", row |-> NoActivation, dur |-> 0, lapsed |-> FALSE, sweep |-> FALSE]

Init ==
    /\ now = 0 /\ pol \in Policies
    /\ act = NoActivation /\ req = "absent"
    /\ win = [from |-> 0, until |-> 0]
    /\ grant = [status |-> "none", from |-> 0, until |-> 0]
    /\ assets = {} /\ minted = 0 /\ records = 0
    /\ live = FALSE
    /\ loc = [p \in Procs |-> Idle]
    /\ faults = 0

Life == INSTANCE RequestLife WITH status <- req, granted <- (grant.status # "none")

Goto(p, pc) == loc' = [loc EXCEPT ![p] = [@ EXCEPT !.pc = pc]]

\* The end of a call; in a sweep, the end of its first half.
Return(p) ==
    loc' = [loc EXCEPT ![p] = IF @.sweep THEN [Idle EXCEPT !.pc = "sweep"] ELSE Idle]

\* SaveActivation: the whole row, as the process has it.
Save(row) == act' = row

Least(a, b) == IF a < b THEN a ELSE b

cappedDuration(requested) ==
    IF requested <= 0 \/ requested > pol.cap THEN pol.cap ELSE requested

---------------------------------------------------------------------------
(* Service.Activate *)

\* Once the critical audit queue has accepted the request event, the row is
\* inserted as pending.  (A queue that refuses it ends the call: no effect.)
Activate(p, failOpenAsked, d) ==
    LET failOpen == failOpenAsked /\ pol.failOpen /\ ~pol.dual
        row == [NoActivation EXCEPT !.status = "pending",
                  !.mode = IF failOpen THEN "fail_open" ELSE "pre_approved",
                  !.review = pol.review \/ failOpen]
    IN  /\ loc[p].pc = "idle" /\ act.status = "absent"
        /\ act' = row
        /\ loc' = [loc EXCEPT ![p] = [Idle EXCEPT !.pc = "file", !.row = row,
                                                  !.dur = cappedDuration(d)]]
        /\ UNCHANGED <<now, pol, approvalVars, assets, minted, records, live, faults>>

\* The approval request is inserted: IssueEmergencyGrant for fail-open,
\* CreateRequest otherwise.
FileRequest(p) ==
    /\ loc[p].pc = "file"
    /\ win' = [from |-> now, until |-> now + loc[p].dur]
    /\ Goto(p, IF loc[p].row.mode = "fail_open" \/ pol.auto THEN "grant" ELSE "filed")
    /\ UNCHANGED <<now, pol, act, grant, assets, minted, records, live, faults>>
    /\ Life!File

\* CreateRequest returns; an error in it rejects the activation.
Filed(p, ok) ==
    /\ loc[p].pc = "filed"
    /\ Goto(p, IF ok THEN "link" ELSE "reject")
    /\ UNCHANGED <<now, pol, act, approvalVars, assets, minted, records, live, faults>>

\* finalApprove inside the call: the grant, then the status (whose
\* compare-and-swap succeeds exactly if the request is still pending).
CallGrant(p) ==
    LET from == IF loc[p].row.mode = "fail_open" THEN now ELSE win.from
        asked == from + loc[p].dur
        cap == IF loc[p].row.mode = "fail_open" THEN loc[p].dur ELSE pol.templateCap
    IN  /\ loc[p].pc = "grant"
        /\ grant' = [status |-> "active", from |-> from,
                     until |-> IF cap > 0 THEN Least(asked, from + cap) ELSE asked]
        /\ Life!Issue
        /\ loc' = [loc EXCEPT ![p] = [@ EXCEPT !.pc = "status",
                                               !.dur = grant'.until - grant'.from]]
        /\ UNCHANGED <<now, pol, act, win, assets, minted, records, live, faults>>

CallStatus(p) ==
    /\ loc[p].pc = "status"
    /\ Goto(p, "audit")
    /\ UNCHANGED <<now, pol, act, win, grant, assets, minted, records, live, faults>>
    /\ IF req = "pending" THEN Life!Finish("auto_approved") ELSE UNCHANGED req

\* The request waits for its approvers.
Link(p) ==
    /\ loc[p].pc = "link"
    /\ Save([loc[p].row EXCEPT !.linked = TRUE])
    /\ Return(p)
    /\ UNCHANGED <<now, pol, approvalVars, assets, minted, records, live, faults>>

---------------------------------------------------------------------------
(* Service.activateWithGrant *)

\* Mutant: the audit queue's refusal is only logged.
ActivateAuditLenient(p, ok) ==
    /\ loc[p].pc = "audit"
    /\ records' = IF ok THEN records + 1 ELSE records
    /\ loc' = [loc EXCEPT ![p] = [@ EXCEPT !.pc = "window", !.row.linked = TRUE,
                                    !.row.granted = TRUE, !.row.notAfter = now + loc[p].dur]]
    /\ UNCHANGED <<now, pol, act, approvalVars, assets, minted, live, faults>>

\* The window starts over now; the audit event comes before any access.
ActivateAudit(p, ok) ==
    LET row == [loc[p].row EXCEPT !.linked = TRUE, !.granted = TRUE,
                                  !.notAfter = now + loc[p].dur]
    IN  /\ loc[p].pc = "audit"
        /\ records' = IF ok THEN records + 1 ELSE records
        /\ loc' = [loc EXCEPT ![p] = [@ EXCEPT !.pc = IF ok THEN "window" ELSE "unwind",
                                               !.row = row]]
        /\ UNCHANGED <<now, pol, act, approvalVars, assets, minted, live, faults>>

\* The approval grant's window follows, if it is still active.
SetGrantWindow(p) ==
    /\ loc[p].pc = "window"
    /\ grant' = IF grant.status = "active"
                THEN [grant EXCEPT !.from = loc[p].row.notAfter - loc[p].dur,
                                   !.until = loc[p].row.notAfter]
                ELSE grant
    /\ Goto(p, "mint")
    /\ UNCHANGED <<now, pol, act, req, win, assets, minted, records, live, faults>>

\* Grants.Create, and Asset.Invalidate.
MintAssetGrant(p) ==
    /\ loc[p].pc = "mint" /\ minted < MaxMints
    /\ minted' = minted + 1
    /\ assets' = assets \cup {[id |-> minted + 1, until |-> loc[p].row.notAfter,
                               from |-> loc[p].row.notAfter - loc[p].dur]}
    /\ loc' = [loc EXCEPT ![p] = [@ EXCEPT !.pc = "activate", !.row.asset = minted + 1]]
    /\ UNCHANGED <<now, pol, act, approvalVars, records, live, faults>>

SaveActive(p) ==
    /\ loc[p].pc = "activate"
    /\ Save([loc[p].row EXCEPT !.status = "active"])
    /\ Return(p)
    /\ UNCHANGED <<now, pol, approvalVars, assets, minted, records, live, faults>>

Revoked == IF grant.status = "active" THEN [grant EXCEPT !.status = "revoked"] ELSE grant

\* The audit or the mint failed: take the approval grant back.
Unwind(p) ==
    /\ loc[p].pc = "unwind"
    /\ grant' = Revoked
    /\ Goto(p, "reject")
    /\ UNCHANGED <<now, pol, act, req, win, assets, minted, records, live, faults>>

Reject(p) ==
    /\ loc[p].pc = "reject"
    /\ Save([loc[p].row EXCEPT !.status = "rejected"])
    /\ Return(p)
    /\ UNCHANGED <<now, pol, approvalVars, assets, minted, records, live, faults>>

---------------------------------------------------------------------------
(* Service.Get and Service.reconcile *)

Get(p) ==
    /\ loc[p].pc = "idle" /\ act.status = "pending"
    /\ loc' = [loc EXCEPT ![p] = [Idle EXCEPT !.pc = "reload", !.row = act]]
    /\ UNCHANGED <<now, pol, act, approvalVars, assets, minted, records, live, faults>>

SweepPending(r) ==
    /\ loc[r].pc = "idle"
    /\ loc' = [loc EXCEPT ![r] = IF act.status = "pending"
                 THEN [Idle EXCEPT !.pc = "reload", !.row = act, !.sweep = TRUE]
                 ELSE [Idle EXCEPT !.pc = "sweep"]]
    /\ UNCHANGED <<now, pol, act, approvalVars, assets, minted, records, live, faults>>

\* reconcilePending goes on with the freshest row it could get.
ReconcileRow(p, row) ==
    IF row.status = "pending" /\ row.asset = 0 /\ row.linked
    THEN loc' = [loc EXCEPT ![p] = [@ EXCEPT !.pc = "detail", !.row = row]]
    ELSE Return(p)

Reload(p) ==
    /\ loc[p].pc = "reload"
    /\ ReconcileRow(p, act)
    /\ UNCHANGED <<now, pol, act, approvalVars, assets, minted, records, live, faults>>

\* Mutant: any grant will do, whatever became of the request.
ReconcilePendingAnyGrant(p) ==
    /\ loc[p].pc = "detail"
    /\ IF grant.status # "none"
       THEN loc' = [loc EXCEPT ![p] = [@ EXCEPT !.pc = "audit", !.dur = grant.until - grant.from]]
       ELSE IF req \in {"rejected", "cancelled", "expired"} THEN Goto(p, "reject")
       ELSE Return(p)
    /\ UNCHANGED <<now, pol, act, approvalVars, assets, minted, records, live, faults>>

\* Mutant: a request that expired or was cancelled is left for later.
ReconcilePendingOnlyRejected(p) ==
    LET dur == IF grant.until > grant.from THEN grant.until - grant.from ELSE Floor
    IN  /\ loc[p].pc = "detail"
        /\ IF req \in {"approved", "auto_approved"}
           THEN loc' = [loc EXCEPT ![p] = [@ EXCEPT !.pc = "audit", !.dur = dur]]
           ELSE IF req = "rejected" THEN Goto(p, "reject") ELSE Return(p)
        /\ UNCHANGED <<now, pol, act, approvalVars, assets, minted, records, live, faults>>

\* GetRequest, and the switch over the request's status.
ReconcilePending(p) ==
    LET dur == IF grant.until > grant.from THEN grant.until - grant.from ELSE Floor
    IN  /\ loc[p].pc = "detail"
        /\ CASE req \in {"approved", "auto_approved"} ->
                  loc' = [loc EXCEPT ![p] = [@ EXCEPT !.pc = "audit", !.dur = dur]]
             [] req \in {"rejected", "cancelled", "expired"} -> Goto(p, "reject")
             [] OTHER -> Return(p)
        /\ UNCHANGED <<now, pol, act, approvalVars, assets, minted, records, live, faults>>

\* Mutant: the comparison with the clock is turned round.
SweepActiveEarly(r) ==
    /\ loc[r].pc = "sweep"
    /\ loc' = [loc EXCEPT ![r] = IF act.status = "active" /\ now < act.notAfter
                 THEN [Idle EXCEPT !.pc = "access", !.row = act, !.lapsed = TRUE] ELSE Idle]
    /\ UNCHANGED <<now, pol, act, approvalVars, assets, minted, records, live, faults>>

\* The second half of a sweep: an active activation whose window is over.
SweepActive(r) ==
    /\ loc[r].pc = "sweep"
    /\ loc' = [loc EXCEPT ![r] = IF act.status = "active" /\ now >= act.notAfter
                 THEN [Idle EXCEPT !.pc = "access", !.row = act, !.lapsed = TRUE] ELSE Idle]
    /\ UNCHANGED <<now, pol, act, approvalVars, assets, minted, records, live, faults>>

---------------------------------------------------------------------------
(* Service.Revoke, Service.expire and Service.SubmitReview *)

Revoke(p) ==
    /\ loc[p].pc = "idle" /\ act.status \in {"active", "pending"}
    /\ loc' = [loc EXCEPT ![p] = [Idle EXCEPT !.row = act,
                 !.pc = IF act.status = "active" THEN "access"
                        ELSE IF act.linked THEN "cancel" ELSE "end"]]
    /\ UNCHANGED <<now, pol, act, approvalVars, assets, minted, records, live, faults>>

\* Approval.Cancel; its error is ignored.
CancelRequest(p) ==
    /\ loc[p].pc = "cancel"
    /\ Goto(p, "end")
    /\ UNCHANGED <<now, pol, act, win, grant, assets, minted, records, live, faults>>
    /\ IF req = "pending" THEN Life!Finish("cancelled") ELSE UNCHANGED req

\* revokeAccess deletes the asset grant the copy of the row names ...
DeleteAsset(p) ==
    /\ loc[p].pc = "access"
    /\ assets' = {a \in assets : a.id # loc[p].row.asset}
    /\ loc' = [loc EXCEPT ![p] = [@ EXCEPT !.pc = "ungrant", !.row.asset = 0]]
    /\ UNCHANGED <<now, pol, act, approvalVars, minted, records, live, faults>>

\* ... and revokes the approval grant.
RevokeGrant(p) ==
    /\ loc[p].pc = "ungrant"
    /\ grant' = IF loc[p].row.granted THEN Revoked ELSE grant
    /\ Goto(p, "sever")
    /\ UNCHANGED <<now, pol, act, req, win, assets, minted, records, live, faults>>

terminateSessions(p) ==
    /\ loc[p].pc = "sever"
    /\ live' = FALSE
    /\ Goto(p, "end")
    /\ UNCHANGED <<now, pol, act, approvalVars, assets, minted, records, faults>>

\* Only an activation that was in force owes a review.
End(p) ==
    LET row == loc[p].row
        status == IF row.status = "active" /\ row.review THEN "under_review"
                  ELSE IF loc[p].lapsed THEN "expired" ELSE "revoked"
    IN  /\ loc[p].pc = "end"
        /\ Save([row EXCEPT !.status = status])
        /\ Return(p)
        /\ UNCHANGED <<now, pol, approvalVars, assets, minted, records, live, faults>>

\* The reviewer is not the requester (a check of the input).
SubmitReview(p) ==
    /\ loc[p].pc = "idle" /\ act.status = "under_review"
    /\ loc' = [loc EXCEPT ![p] = [Idle EXCEPT !.pc = "review", !.row = act]]
    /\ UNCHANGED <<now, pol, act, approvalVars, assets, minted, records, live, faults>>

SaveReview(p) ==
    /\ loc[p].pc = "review"
    /\ Save([loc[p].row EXCEPT !.status = "closed"])
    /\ Return(p)
    /\ UNCHANGED <<now, pol, approvalVars, assets, minted, records, live, faults>>

---------------------------------------------------------------------------
(* The approval service, the user's sessions, failures *)

\* An approver's final decision inserts the grant ...
ApproverGrants(d) ==
    LET from == IF d > 0 THEN now ELSE win.from
        asked == IF d > 0 THEN now + d ELSE win.until
        cap == pol.templateCap
    IN  /\ act.mode = "pre_approved" /\ ~pol.auto /\ grant.status = "none"
        /\ grant' = [status |-> "active", from |-> from,
                     until |-> IF cap > 0 THEN Least(asked, from + cap) ELSE asked]
        /\ Life!Issue
        /\ UNCHANGED <<now, pol, act, win, assets, minted, records, live, loc, faults>>

\* ... and then the status; or the request ends in another way.
RequestEnds(s) ==
    /\ s \in {"approved", "rejected"} => act.mode = "pre_approved" /\ ~pol.auto
    /\ s = "expired" => win.until < now
    /\ UNCHANGED <<now, pol, act, win, grant, assets, minted, records, live, loc, faults>>
    /\ Life!Finish(s)

\* The approval reconciler expires the grant, or an administrator revokes it.
GrantEnds(s) ==
    /\ grant.status = "active" /\ (s = "expired" => grant.until < now)
    /\ grant' = [grant EXCEPT !.status = s]
    /\ UNCHANGED <<now, pol, act, req, win, assets, minted, records, live, loc, faults>>

HasAccess == \E a \in assets : now <= a.until

\* The user opens a session while the asset check lets him, or leaves it.
Connect ==
    /\ live' = ~live
    /\ live' => HasAccess
    /\ UNCHANGED <<now, pol, act, approvalVars, assets, minted, records, loc, faults>>

\* A call whose error is only logged: the handler goes on as if it had worked.
ErrorIgnored(p) ==
    /\ faults < MaxFaults /\ faults' = faults + 1
    /\ \/ loc[p].pc = "window" /\ Goto(p, "mint")
       \/ loc[p].pc = "unwind" /\ Goto(p, "reject")
       \/ loc[p].pc = "cancel" /\ Goto(p, "end")
       \/ /\ loc[p].pc = "access"
          /\ loc' = [loc EXCEPT ![p] = [@ EXCEPT !.pc = "ungrant", !.row.asset = 0]]
       \/ loc[p].pc = "ungrant" /\ Goto(p, "sever")
       \/ loc[p].pc = "sever" /\ Goto(p, "end")
       \/ loc[p].pc = "reload" /\ ReconcileRow(p, loc[p].row)
       \/ p \in Reconcilers /\ loc[p].pc = "idle" /\ Goto(p, "sweep")
    /\ UNCHANGED <<now, pol, act, approvalVars, assets, minted, records, live>>

\* A call whose error the handler reacts to.
ErrorHandled(p) ==
    /\ faults < MaxFaults /\ faults' = faults + 1
    /\ \/ loc[p].pc \in {"file", "grant", "status"} /\ Goto(p, "reject")
       \/ loc[p].pc = "mint" /\ Goto(p, "unwind")
       \/ /\ loc[p].pc \in {"link", "activate", "reject", "detail", "end", "review"}
          /\ Return(p)
    /\ UNCHANGED <<now, pol, act, approvalVars, assets, minted, records, live>>

Crash(p) ==
    /\ loc[p].pc # "idle" /\ faults < MaxFaults /\ faults' = faults + 1
    /\ loc' = [loc EXCEPT ![p] = Idle]
    /\ UNCHANGED <<now, pol, act, approvalVars, assets, minted, records, live>>

Tick ==
    /\ now < MaxTime
    /\ now' = now + 1
    /\ UNCHANGED <<pol, act, approvalVars, assets, minted, records, live, loc, faults>>

---------------------------------------------------------------------------

Call(p) ==
    \/ \E asked \in BOOLEAN, d \in Requested : Activate(p, asked, d)
    \/ Get(p) \/ Revoke(p) \/ SubmitReview(p)

Step(p) ==
    \/ FileRequest(p) \/ \E ok \in BOOLEAN : Filed(p, ok)
    \/ CallGrant(p) \/ CallStatus(p) \/ Link(p)
    \/ \E ok \in BOOLEAN : ActivateAudit(p, ok)
    \/ SetGrantWindow(p) \/ MintAssetGrant(p) \/ SaveActive(p) \/ Unwind(p) \/ Reject(p)
    \/ Reload(p) \/ ReconcilePending(p)
    \/ CancelRequest(p) \/ DeleteAsset(p) \/ RevokeGrant(p) \/ terminateSessions(p)
    \/ End(p) \/ SaveReview(p)

Sweep(r) == SweepPending(r) \/ SweepActive(r)

Environment ==
    \/ \E d \in Overrides : ApproverGrants(d)
    \/ \E s \in {"approved", "rejected", "cancelled", "expired"} : RequestEnds(s)
    \/ \E s \in {"expired", "revoked"} : GrantEnds(s)
    \/ Connect \/ Tick

Next ==
    \/ \E p \in Handlers : Call(p)
    \/ \E r \in Reconcilers : Sweep(r)
    \/ \E p \in Procs : Step(p) \/ ErrorIgnored(p) \/ ErrorHandled(p) \/ Crash(p)
    \/ Environment

Spec == Init /\ [][Next]_vars

\* The ticker of every gateway instance fires again and again, and its sweep
\* runs to its end; nothing is assumed of handlers or approvers.
FairSpec ==
    Spec /\ WF_vars(Tick) /\ \A r \in Reconcilers : WF_vars(Sweep(r) \/ Step(r))

---------------------------------------------------------------------------
(* Properties *)

\* Every row and every local copy has the shape the code gives it.
TypeOK ==
    /\ now \in Nat /\ pol \in Policies /\ act \in Row /\ req \in ReqStates
    /\ win \in Window /\ grant \in Grant
    /\ assets \subseteq [id: Nat, from: Nat, until: Nat]
    /\ minted \in Nat /\ records \in Nat /\ live \in BOOLEAN
    /\ loc \in [Procs -> Local] /\ faults \in Nat

\* "The window can never be open without an activate record": every asset
\* grant ever minted has an accepted critical audit event of its own, also
\* when several instances promote the same activation.
AuditGatesAccess == minted <= records

\* Emergency access that neither the policy's fail-open nor an auto-approving
\* template explains was approved: the request reads approved.
AccessNeedsApproval ==
    minted > 0 => act.mode = "fail_open" \/ pol.auto \/ req = "approved"

\* An activation whose window is over does not stay active.
LapsedEnds ==
    (act.status = "active" /\ act.notAfter <= now) ~>
        ~(act.status = "active" /\ act.notAfter <= now)

\* A pending activation whose request was decided follows it: it is promoted
\* or rejected.
DecidedEnds ==
    (act.status = "pending" /\ act.linked /\ req \in Life!Terminal) ~> act.status # "pending"

AllIdle == \A p \in Procs : loc[p].pc = "idle"

\* The comment on Revoke: the kill-switch "severs access and live sessions
\* immediately", so a revoked activation leaves no access behind.
KillSwitchSevers ==
    act.status = "revoked" /\ AllIdle => ~HasAccess

\* The comment on BreakGlassActivation: "once closed it is immutable".
ClosedIsImmutable == [][act.status = "closed" => act' = act]_vars

=============================================================================
