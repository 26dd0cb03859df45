------------------------------ MODULE Approval ------------------------------
(***************************************************************************)
(* The approval service of internal/approval: the life of ONE request from *)
(* CreateRequest to its last grant.  Requests share no rows, so one        *)
(* request, decided by many concurrent handlers, carries the whole         *)
(* protocol.                                                               *)
(*                                                                         *)
(* Nothing in the code holds a lock or a transaction across two repository *)
(* calls: every call commits by itself.  An API handler (a Worker) is      *)
(* therefore a program counter and the values it has read so far, and one  *)
(* action is one committed repository call.  The background reconciler of  *)
(* every gateway instance is a second kind of process.  Ledger appends,    *)
(* whose errors the code ignores, happen in the step of the row write they *)
(* accompany; the hash chain itself is not part of this module.            *)
(***************************************************************************)
EXTENDS Integers, Sequences, FiniteSets

CONSTANTS
    Users,          \* people who may hold an approval task
    Roles,          \* role names a stage may list
    Members,        \* Members[r]: the users ApproverLookup resolves role r to
    Admins,         \* what adminFallback resolves to
    Templates,      \* the definitions the matched template may have
    Workers,        \* concurrent API handlers (over all gateway instances)
    Reconcilers,    \* one reconciler goroutine per gateway instance
    Ops,            \* the optional operations an instance exercises
    NoTask,         \* a value that is not a task
    Windows,        \* window lengths a requester may ask for
    Durations,      \* DurationSec values an approver may send; 0 = unset
    MaxStages,      \* bound: stages of a template
    MaxGen,         \* bound: tasks of one user in one stage, minus one
    MaxFaults,      \* bound: failed repository calls and crashes
    MaxTime         \* bound: the clock

Modes == {"any", "all", "quorum"}
StageSpec == [mode: Modes, quorumN: Nat, users: SUBSET Users,
              roles: SUBSET Roles, timeout: Nat]
Template == [stages: Seq(StageSpec), cap: Nat]

ASSUME ConstantsAssumption ==
    /\ Members \in [Roles -> SUBSET Users] /\ Admins \subseteq Users
    /\ Templates # {} /\ Templates \subseteq Template
    /\ MaxStages \in Nat /\ \A d \in Templates : Len(d.stages) <= MaxStages
    /\ Windows \subseteq Nat /\ Durations \subseteq Nat
    /\ MaxGen \in Nat /\ MaxFaults \in Nat /\ MaxTime \in Nat

TaskIds == [stage: 0..(MaxStages - 1), user: Users, gen: 0..MaxGen]

ASSUME NoTaskAssumption == NoTask \notin TaskIds
ASSUME UsersAssumption == IsFiniteSet(Users)

Terminal == {"approved", "auto_approved", "rejected", "cancelled", "expired"}
TaskStates == {"pending", "approved", "rejected", "delegated", "expired", "skipped"}
GrantStates == {"active", "expired", "revoked"}

VARIABLES
    now,        \* the clock
    tpl,        \* the template row: read again whenever a stage completes
    req,        \* the approval_requests row
    tasks,      \* the approval_tasks rows; state "absent" = not inserted
    grants,     \* the approval_grants rows of the request: at most one
    ledger,     \* the kinds of event appended so far
    loc,        \* loc[p]: what worker p is doing
    rec,        \* rec[r]: what reconciler r is doing
    faults      \* failures so far

vars == <<now, tpl, req, tasks, grants, ledger, loc, rec, faults>>

---------------------------------------------------------------------------
(* Rows and local states *)

Request == [status: Terminal \cup {"absent", "pending"}, version: Nat,
            stage: Int, start: Nat, end: Nat, cap: Nat]
Task == [state: TaskStates \cup {"absent"}, mode: Modes, quorumN: Nat, expires: Nat]
Grant == [from: Nat, until: Nat, status: GrantStates, stage: Int]

Kinds == {"request_created", "policy_matched", "auto_approved", "request_approved",
          "request_rejected", "request_cancelled", "request_expired", "task_created",
          "task_approved", "task_rejected", "task_delegated", "task_expired",
          "stage_advanced", "grant_revoked", "grant_expired"}
PCs == {"idle", "evaluate", "check", "write", "tally", "skip", "next",
        "advance", "spawn", "grant", "resolve", "cancel", "cancelskip",
        "delegate", "delegated"}
Local == [pc: PCs, task: TaskIds \cup {NoTask}, approve: BOOLEAN,
          dur: Nat, ver: Nat, stage: Int, stages: Seq(StageSpec),
          cap: Nat, goal: Terminal, to: Users \cup {NoTask}]
Sweep == [pc: {"idle", "grants", "tasks", "requests", "request", "skip"},
          grants: SUBSET Nat, tasks: SUBSET TaskIds, ver: Nat, stage: Int]

NoRequest == [status |-> "absent", version |-> 0, stage |-> 0,
              start |-> 0, end |-> 0, cap |-> 0]
NoRow == [state |-> "absent", mode |-> "any", quorumN |-> 0, expires |-> 0]
Idle == [pc |-> "idle", task |-> NoTask, approve |-> FALSE, dur |-> 0,
         ver |-> 0, stage |-> 0, stages |-> <<>>, cap |-> 0,
         goal |-> "approved", to |-> NoTask]
Asleep == [pc |-> "idle", grants |-> {}, tasks |-> {}, ver |-> 0, stage |-> 0]

Init ==
    /\ now = 0
    /\ tpl \in Templates
    /\ req = NoRequest
    /\ tasks = [t \in TaskIds |-> NoRow]
    /\ grants = <<>>
    /\ ledger = {}
    /\ loc = [p \in Workers |-> Idle]
    /\ rec = [r \in Reconcilers |-> Asleep]
    /\ faults = 0

Log(kind) == ledger' = ledger \cup {kind}
Goto(p, pc) == loc' = [loc EXCEPT ![p] = [@ EXCEPT !.pc = pc]]
Return(p) == loc' = [loc EXCEPT ![p] = Idle]

---------------------------------------------------------------------------
(* Repository calls: each one is a single committed UPDATE or INSERT *)

\* Mutant: the row keeps its version.
UpdateRequestStatusSameVersion(ver, s) ==
    IF req.version = ver THEN [req EXCEPT !.status = s, !.stage = -1] ELSE req

\* Mutant: the WHERE clause names only the id.
UpdateRequestStatusBlind(ver, s) ==
    [req EXCEPT !.status = s, !.stage = -1, !.version = ver + 1]

\* UPDATE ... WHERE id = ? AND version = oldVersion
UpdateRequestStatus(ver, s) ==
    IF req.version = ver
    THEN [req EXCEPT !.status = s, !.stage = -1, !.version = ver + 1]
    ELSE req

AdvanceStage(ver, n) ==
    IF req.version = ver THEN [req EXCEPT !.stage = n, !.version = ver + 1] ELSE req

\* Mutant: the WHERE clause names only the id.
UpdateTaskDecisionBlind(t, s) == [tasks EXCEPT ![t].state = s]

\* UPDATE ... WHERE id = ? AND state = 'pending'
UpdateTaskDecision(t, s) ==
    IF tasks[t].state = "pending" THEN [tasks EXCEPT ![t].state = s] ELSE tasks

SkipRemainingTasks(s) ==
    [t \in TaskIds |-> IF t.stage = s /\ tasks[t].state = "pending"
                       THEN [tasks[t] EXCEPT !.state = "skipped"] ELSE tasks[t]]

CreateTasks(ids, row) == [t \in TaskIds |-> IF t \in ids THEN row ELSE tasks[t]]

\* The id a new task of user u in stage s gets: rows are never deleted.
Fresh(s, u) ==
    {t \in TaskIds : t.stage = s /\ t.user = u /\ tasks[t].state = "absent"
        /\ \A g \in 0..MaxGen : g < t.gen => tasks[[t EXCEPT !.gen = g]].state # "absent"}

StageTasks(s) == {t \in TaskIds : t.stage = s /\ tasks[t].state # "absent"}

---------------------------------------------------------------------------
(* The workflow engine *)

\* SpawnStage: static users and role members, system admins if that is nobody.
Approvers(spec) ==
    LET listed == spec.users \cup UNION {Members[r] : r \in spec.roles}
    IN  IF listed = {} THEN Admins ELSE listed

Votes(ts, states) == Cardinality({t \in ts : tasks[t].state \in states})

\* The three combinator modes; skipped and expired tasks count on no side.
stageOutcomeFor(mode, quorumN, ts) ==
    LET approved == Votes(ts, {"approved"})
        rejected == Votes(ts, {"rejected"})
        pending  == Votes(ts, {"pending", "delegated"})
        total    == approved + rejected + pending
        n        == IF quorumN <= 0 THEN 1 ELSE quorumN
    IN  CASE total = 0 -> "still_running"
          [] total # 0 /\ mode = "any" ->
                IF approved > 0 THEN "approved"
                ELSE IF pending = 0 THEN "rejected" ELSE "still_running"
          [] total # 0 /\ mode = "all" ->
                IF rejected > 0 THEN "rejected"
                ELSE IF pending = 0 THEN "approved" ELSE "still_running"
          [] total # 0 /\ mode = "quorum" ->
                IF approved >= n THEN "approved"
                ELSE IF rejected > total - n THEN "rejected" ELSE "still_running"

---------------------------------------------------------------------------
(* Service.CreateRequest *)

\* The pending row is inserted first; version 0, stage 0.
CreateRequest(p, w) ==
    /\ loc[p].pc = "idle" /\ req.status = "absent"
    /\ req' = [NoRequest EXCEPT !.status = "pending", !.start = now, !.end = now + w]
    /\ Log("request_created")
    /\ loc' = [loc EXCEPT ![p] = [Idle EXCEPT !.pc = "evaluate"]]
    /\ UNCHANGED <<now, tpl, tasks, grants, rec, faults>>

\* policy.Evaluate: no template matches, and the request is rejected.
NoTemplate(p) ==
    /\ loc[p].pc = "evaluate"
    /\ Log("request_rejected")
    /\ loc' = [loc EXCEPT ![p] = [@ EXCEPT !.pc = "resolve", !.goal = "rejected"]]
    /\ UNCHANGED <<now, tpl, req, tasks, grants, rec, faults>>

\* policy.Evaluate: a template matches.  Its cap is a history field of the row.
PolicyMatched(p, auto) ==
    /\ loc[p].pc = "evaluate"
    /\ req' = [req EXCEPT !.cap = tpl.cap]
    /\ Log("policy_matched")
    /\ \/ /\ auto
          /\ loc' = [loc EXCEPT ![p] = [@ EXCEPT !.pc = "grant", !.cap = tpl.cap,
                                                 !.stage = -1, !.goal = "auto_approved"]]
       \/ /\ ~auto /\ tpl.stages = <<>>
          /\ Return(p)
       \/ /\ ~auto /\ tpl.stages # <<>>
          /\ loc' = [loc EXCEPT ![p] = [@ EXCEPT !.pc = "spawn", !.stages = tpl.stages,
                                                 !.stage = 0]]
    /\ UNCHANGED <<now, tpl, tasks, grants, rec, faults>>

\* Engine.SpawnStage for the stage and the stage spec the worker holds.
SpawnStage(p) ==
    LET spec == loc[p].stages[loc[p].stage + 1]
        who  == Approvers(spec)
        ids  == UNION {Fresh(loc[p].stage, u) : u \in who}
    IN  /\ loc[p].pc = "spawn"
        /\ \A u \in who : Fresh(loc[p].stage, u) # {}
        /\ tasks' = CreateTasks(ids,
              [state |-> "pending", mode |-> spec.mode, quorumN |-> spec.quorumN,
               expires |-> IF spec.timeout > 0 THEN now + spec.timeout ELSE 0])
        /\ IF who = {} THEN UNCHANGED ledger ELSE Log("task_created")
        /\ Return(p)
        /\ UNCHANGED <<now, tpl, req, grants, rec, faults>>

---------------------------------------------------------------------------
(* Service.Decide and Engine.Decide *)

\* FindTask and FindRequest; a request that is not pending refuses the call.
DecideLoad(p, t, approve, dur) ==
    /\ loc[p].pc = "idle" /\ tasks[t].state # "absent"
    /\ req.status = "pending"
    /\ loc' = [loc EXCEPT ![p] = [Idle EXCEPT !.pc = "check", !.task = t,
                 !.approve = approve, !.dur = dur, !.ver = req.version]]
    /\ UNCHANGED <<now, tpl, req, tasks, grants, ledger, rec, faults>>

\* The engine reads the task once more; a decided task ends the call.
DecideCheck(p) ==
    /\ loc[p].pc = "check"
    /\ IF tasks[loc[p].task].state = "pending" THEN Goto(p, "write") ELSE Return(p)
    /\ UNCHANGED <<now, tpl, req, tasks, grants, ledger, rec, faults>>

\* The verdict is written if the task is still pending; won or lost, the
\* event is appended and the stage is tallied.
DecideWrite(p) ==
    LET t == loc[p].task
        verdict == IF loc[p].approve THEN "approved" ELSE "rejected"
    IN  /\ loc[p].pc = "write"
        /\ tasks' = UpdateTaskDecision(t, verdict)
        /\ Log(IF loc[p].approve THEN "task_approved" ELSE "task_rejected")
        /\ Goto(p, "tally")
        /\ UNCHANGED <<now, tpl, req, grants, rec, faults>>

\* TasksForStage and stageOutcomeFor, with the mode of the decided task.
DecideTally(p) ==
    LET t == loc[p].task
        outcome == stageOutcomeFor(tasks[t].mode, tasks[t].quorumN, StageTasks(t.stage))
    IN  /\ loc[p].pc = "tally"
        /\ IF outcome = "still_running" THEN Return(p)
           ELSE loc' = [loc EXCEPT ![p] = [@ EXCEPT !.pc = "skip", !.goal = outcome]]
        /\ UNCHANGED <<now, tpl, req, tasks, grants, ledger, rec, faults>>

\* Mutant: a rejected stage advances like an approved one.
DecideSkipEither(p) ==
    /\ loc[p].pc = "skip"
    /\ tasks' = SkipRemainingTasks(loc[p].task.stage)
    /\ Goto(p, "next")
    /\ UNCHANGED <<now, tpl, req, grants, ledger, rec, faults>>

\* The stage is decided: close the pending peers.
DecideSkip(p) ==
    /\ loc[p].pc = "skip"
    /\ tasks' = SkipRemainingTasks(loc[p].task.stage)
    /\ IF loc[p].goal = "rejected"
       THEN Log("request_rejected") /\ Goto(p, "resolve")
       ELSE UNCHANGED ledger /\ Goto(p, "next")
    /\ UNCHANGED <<now, tpl, req, grants, rec, faults>>

\* Mutant: the status is written before the grant exists.
DecideNextStatusFirst(p) ==
    LET n == loc[p].task.stage + 1 IN
    /\ loc[p].pc = "next"
    /\ Log("stage_advanced")
    /\ loc' = [loc EXCEPT ![p] =
                  [@ EXCEPT !.pc = IF n >= Len(tpl.stages) THEN "resolve" ELSE "advance",
                            !.stages = tpl.stages, !.stage = n]]
    /\ UNCHANGED <<now, tpl, req, tasks, grants, rec, faults>>

\* loadStage: the template as it is now says whether a stage follows.
DecideNext(p) ==
    LET n == loc[p].task.stage + 1 IN
    /\ loc[p].pc = "next"
    /\ Log("stage_advanced")
    /\ loc' = [loc EXCEPT ![p] =
                  IF n >= Len(tpl.stages) THEN [@ EXCEPT !.pc = "grant", !.stage = n - 1]
                  ELSE [@ EXCEPT !.pc = "advance", !.stages = tpl.stages, !.stage = n]]
    /\ UNCHANGED <<now, tpl, req, tasks, grants, rec, faults>>

\* The version check fails: "lost optimistic lock on advance".
DecideAdvance(p) ==
    /\ loc[p].pc = "advance"
    /\ req' = AdvanceStage(loc[p].ver, loc[p].stage)
    /\ IF req.version = loc[p].ver THEN Goto(p, "spawn") ELSE Return(p)
    /\ UNCHANGED <<now, tpl, tasks, grants, ledger, rec, faults>>

---------------------------------------------------------------------------
(* Service.finalApprove *)

Least(a, b) == IF a < b THEN a ELSE b

\* The window of the grant: the requested one, or the approver's duration
\* from now on, never longer than the cap counted from its start.
GrantWindow(dur, cap) ==
    LET from == IF dur > 0 THEN now ELSE req.start
        asked == IF dur > 0 THEN now + dur ELSE req.end
    IN  [from |-> from, until |-> IF cap > 0 THEN Least(asked, from + cap) ELSE asked]

\* CreateGrant.  Decide reads the template's cap again; auto-approval uses the
\* policy decision's.  request_id has a unique index: with a grant in place, be
\* it a dead handler's, the insert fails, and finalApprove with it.
IssueGrant(p) ==
    LET cap == IF loc[p].goal = "approved" THEN tpl.cap ELSE loc[p].cap
        w == GrantWindow(loc[p].dur, cap)
    IN  /\ loc[p].pc = "grant"
        /\ \/ /\ grants = <<>>
              /\ grants' = <<[from |-> w.from, until |-> w.until,
                             status |-> "active", stage |-> loc[p].stage]>>
              /\ Goto(p, "resolve")
           \/ /\ grants # <<>>
              /\ Return(p)
              /\ UNCHANGED grants
        /\ UNCHANGED <<now, tpl, req, tasks, ledger, rec, faults>>

\* UpdateRequestStatus: whether the version check succeeded is not looked at.
Resolve(p) ==
    /\ loc[p].pc = "resolve"
    /\ req' = UpdateRequestStatus(loc[p].ver, loc[p].goal)
    /\ CASE loc[p].goal = "approved" -> Log("request_approved")
         [] loc[p].goal = "auto_approved" -> Log("auto_approved")
         [] OTHER -> UNCHANGED ledger
    /\ Return(p)
    /\ UNCHANGED <<now, tpl, tasks, grants, rec, faults>>

---------------------------------------------------------------------------
(* Service.Cancel and Engine.Delegate *)

CancelLoad(p) ==
    /\ loc[p].pc = "idle" /\ req.status = "pending"
    /\ loc' = [loc EXCEPT ![p] = [Idle EXCEPT !.pc = "cancel", !.ver = req.version,
                 !.stage = req.stage, !.goal = "cancelled"]]
    /\ UNCHANGED <<now, tpl, req, tasks, grants, ledger, rec, faults>>

CancelWrite(p) ==
    /\ loc[p].pc = "cancel"
    /\ req' = UpdateRequestStatus(loc[p].ver, "cancelled")
    /\ Goto(p, "cancelskip")
    /\ UNCHANGED <<now, tpl, tasks, grants, ledger, rec, faults>>

CancelSkip(p) ==
    /\ loc[p].pc = "cancelskip"
    /\ tasks' = SkipRemainingTasks(loc[p].stage)
    /\ Log("request_cancelled")
    /\ Return(p)
    /\ UNCHANGED <<now, tpl, req, grants, rec, faults>>

DelegateLoad(p, t, to) ==
    /\ loc[p].pc = "idle" /\ tasks[t].state = "pending" /\ to # t.user
    /\ loc' = [loc EXCEPT ![p] = [Idle EXCEPT !.pc = "delegate", !.task = t, !.to = to]]
    /\ UNCHANGED <<now, tpl, req, tasks, grants, ledger, rec, faults>>

DelegateWrite(p) ==
    /\ loc[p].pc = "delegate"
    /\ tasks' = UpdateTaskDecision(loc[p].task, "delegated")
    /\ IF tasks[loc[p].task].state = "pending" THEN Goto(p, "delegated") ELSE Return(p)
    /\ UNCHANGED <<now, tpl, req, grants, ledger, rec, faults>>

\* The delegate's own task: same stage, mode, quorum and deadline.
DelegateSpawn(p) ==
    LET t == loc[p].task IN
    /\ loc[p].pc = "delegated"
    /\ Fresh(t.stage, loc[p].to) # {}
    /\ tasks' = CreateTasks(Fresh(t.stage, loc[p].to), [tasks[t] EXCEPT !.state = "pending"])
    /\ Log("task_delegated")
    /\ Return(p)
    /\ UNCHANGED <<now, tpl, req, grants, rec, faults>>

---------------------------------------------------------------------------
(* Grants and templates *)

RevokeGrant(i) ==
    /\ grants[i].status = "active"
    /\ grants' = [grants EXCEPT ![i].status = "revoked"]
    /\ Log("grant_revoked")
    /\ UNCHANGED <<now, tpl, req, tasks, loc, rec, faults>>

\* The break-glass layer starts the window of an active grant over.
SetGrantWindow(i, dur) ==
    /\ grants[i].status = "active" /\ dur > 0
    /\ grants' = [grants EXCEPT ![i] = [@ EXCEPT !.from = now, !.until = now + dur]]
    /\ UNCHANGED <<now, tpl, req, tasks, ledger, loc, rec, faults>>

\* An administrator edits the template of a request in flight.
UpdateTemplate(d) ==
    /\ d # tpl
    /\ tpl' = d
    /\ UNCHANGED <<now, req, tasks, grants, ledger, loc, rec, faults>>

---------------------------------------------------------------------------
(* Reconciler.sweep: three passes, each a read and then one write per row *)

\* Mutant: the comparison with the clock is turned round.
FindExpiredGrantsEarly ==
    {i \in DOMAIN grants : grants[i].status = "active" /\ grants[i].until > now}

FindExpiredGrants ==
    {i \in DOMAIN grants : grants[i].status = "active" /\ grants[i].until < now}

FindOverdueTasks ==
    {t \in TaskIds : tasks[t].state = "pending" /\ tasks[t].expires > 0
                     /\ tasks[t].expires < now}

\* Mutant: the comparison with the clock is turned round.
FindExpiredEarly == req.status = "pending" /\ req.end > now

FindExpired == req.status = "pending" /\ req.end < now

SweepGrants(r) ==
    /\ rec[r].pc = "idle"
    /\ rec' = [rec EXCEPT ![r] = [@ EXCEPT !.pc = "grants", !.grants = FindExpiredGrants]]
    /\ UNCHANGED <<now, tpl, req, tasks, grants, ledger, loc, faults>>

ExpireGrant(r, i) ==
    /\ rec[r].pc = "grants" /\ i \in rec[r].grants
    /\ grants' = IF grants[i].status = "active"
                 THEN [grants EXCEPT ![i].status = "expired"] ELSE grants
    /\ Log("grant_expired")
    /\ rec' = [rec EXCEPT ![r].grants = @ \ {i}]
    /\ UNCHANGED <<now, tpl, req, tasks, loc, faults>>

SweepTasks(r) ==
    /\ rec[r].pc = "grants" /\ rec[r].grants = {}
    /\ rec' = [rec EXCEPT ![r] = [@ EXCEPT !.pc = "tasks", !.tasks = FindOverdueTasks]]
    /\ UNCHANGED <<now, tpl, req, tasks, grants, ledger, loc, faults>>

\* The stage is not tallied again here: the next decision does that.
ExpireTask(r, t) ==
    /\ rec[r].pc = "tasks" /\ t \in rec[r].tasks
    /\ tasks' = UpdateTaskDecision(t, "expired")
    /\ Log("task_expired")
    /\ rec' = [rec EXCEPT ![r].tasks = @ \ {t}]
    /\ UNCHANGED <<now, tpl, req, grants, loc, faults>>

SweepRequests(r) ==
    /\ rec[r].pc = "tasks" /\ rec[r].tasks = {}
    /\ rec' = [rec EXCEPT ![r] = IF FindExpired
                 THEN [Asleep EXCEPT !.pc = "request", !.ver = req.version, !.stage = req.stage]
                 ELSE Asleep]
    /\ UNCHANGED <<now, tpl, req, tasks, grants, ledger, loc, faults>>

ExpireRequest(r) ==
    /\ rec[r].pc = "request"
    /\ req' = UpdateRequestStatus(rec[r].ver, "expired")
    /\ rec' = [rec EXCEPT ![r].pc = "skip"]
    /\ UNCHANGED <<now, tpl, tasks, grants, ledger, loc, faults>>

ExpireSkip(r) ==
    /\ rec[r].pc = "skip"
    /\ tasks' = SkipRemainingTasks(rec[r].stage)
    /\ Log("request_expired")
    /\ rec' = [rec EXCEPT ![r] = Asleep]
    /\ UNCHANGED <<now, tpl, req, grants, loc, faults>>

---------------------------------------------------------------------------
(* Failures: a repository call returns an error, or the process dies *)

WorkerFails(p) ==
    /\ loc[p].pc # "idle" /\ faults < MaxFaults
    /\ faults' = faults + 1
    /\ Return(p)
    /\ UNCHANGED <<now, tpl, req, tasks, grants, ledger, rec>>

\* A dead reconciler starts over; an error only ends the pass it happens in.
SweepFails(r) ==
    /\ rec[r].pc # "idle" /\ faults < MaxFaults
    /\ faults' = faults + 1
    /\ \/ rec' = [rec EXCEPT ![r] = Asleep]
       \/ /\ rec[r].pc \in {"grants", "tasks"}
          /\ rec' = [rec EXCEPT ![r] = [@ EXCEPT !.grants = {}, !.tasks = {}]]
    /\ UNCHANGED <<now, tpl, req, tasks, grants, ledger, loc>>

Tick ==
    /\ now < MaxTime
    /\ now' = now + 1
    /\ UNCHANGED <<tpl, req, tasks, grants, ledger, loc, rec, faults>>

---------------------------------------------------------------------------

\* What a worker does by itself once its call has begun.
WorkerStep(p) ==
    \/ NoTemplate(p) \/ \E auto \in BOOLEAN : PolicyMatched(p, auto)
    \/ SpawnStage(p) \/ DecideCheck(p) \/ DecideWrite(p) \/ DecideTally(p)
    \/ DecideSkip(p) \/ DecideNext(p) \/ DecideAdvance(p)
    \/ IssueGrant(p) \/ Resolve(p) \/ CancelWrite(p) \/ CancelSkip(p)
    \/ DelegateWrite(p) \/ DelegateSpawn(p)

Call(p) ==
    \/ \E w \in Windows : CreateRequest(p, w)
    \/ \E t \in TaskIds, a \in BOOLEAN, d \in Durations : DecideLoad(p, t, a, d)
    \/ "cancel" \in Ops /\ CancelLoad(p)
    \/ "delegate" \in Ops /\ \E t \in TaskIds, u \in Users : DelegateLoad(p, t, u)

Admin ==
    \/ "revoke" \in Ops /\ \E i \in DOMAIN grants : RevokeGrant(i)
    \/ "rewindow" \in Ops /\ \E i \in DOMAIN grants, d \in Durations : SetGrantWindow(i, d)
    \/ "template" \in Ops /\ \E d \in Templates : UpdateTemplate(d)

Reconcile(r) ==
    \/ SweepGrants(r) \/ SweepTasks(r) \/ SweepRequests(r)
    \/ \E i \in rec[r].grants : ExpireGrant(r, i)
    \/ \E t \in rec[r].tasks : ExpireTask(r, t)
    \/ ExpireRequest(r) \/ ExpireSkip(r)

Next ==
    \/ \E p \in Workers : Call(p) \/ WorkerStep(p) \/ WorkerFails(p)
    \/ \E r \in Reconcilers : Reconcile(r) \/ SweepFails(r)
    \/ Admin \/ Tick

Spec == Init /\ [][Next]_vars

\* time.Ticker fires again and again, and a sweep runs to its end.
FairSpec == Spec /\ WF_vars(Tick) /\ \A r \in Reconcilers : WF_vars(Reconcile(r))

---------------------------------------------------------------------------
(* Properties *)

\* Every row and every local state has the shape the code gives it.
TypeOK ==
    /\ now \in Nat /\ tpl \in Templates /\ req \in Request
    /\ tasks \in [TaskIds -> Task] /\ grants \in Seq(Grant)
    /\ ledger \subseteq Kinds
    /\ loc \in [Workers -> Local] /\ rec \in [Reconcilers -> Sweep]
    /\ faults \in Nat

\* What a handler holds at each step: a task while it decides or delegates,
\* and a stage that exists in the plan it read before it spawns one.
Holds(l) ==
    /\ l.pc \in {"check", "write", "tally", "skip", "next", "delegate", "delegated"}
          => l.task \in TaskIds
    /\ l.pc \in {"advance", "spawn"} => l.stage \in 0..(Len(l.stages) - 1)
    /\ l.pc \in {"delegate", "delegated"} => l.to \in Users

HandlerOK == \A p \in Workers : Holds(loc[p])

\* The steps that will still compare the version read when the call began.
HoldsVersion == {"evaluate", "check", "write", "tally", "skip", "next",
                 "advance", "grant", "resolve", "cancel"}

\* A handler that read the request as pending and whose version still
\* matches may rely on the request still being pending: the version check
\* of UpdateRequestStatus and AdvanceStage stands in for a status check the
\* UPDATE does not make.
VersionGuardsStatus ==
    /\ \A p \in Workers : loc[p].pc \in HoldsVersion =>
          /\ loc[p].ver <= req.version
          /\ loc[p].ver = req.version => req.status = "pending"
    /\ \A r \in Reconcilers : rec[r].pc = "request" =>
          /\ rec[r].ver <= req.version
          /\ rec[r].ver = req.version => req.status = "pending"

\* The current stage is -1 exactly in a terminal state, whichever handler
\* wrote last (the comment on ApprovalRequest.CurrentStage).
StageClosedIffTerminal == req.status \in Terminal <=> req.stage = -1

\* A request that reads approved always has a grant behind it, even if a
\* handler died half way: finalApprove inserts the grant first.
ApprovedHasGrant ==
    req.status \in {"approved", "auto_approved"} => grants # <<>>

ApprovedIn(s) == \E t \in TaskIds : t.stage = s /\ tasks[t].state = "approved"
EarnedThrough(n) == \A s \in 0..n : ApprovedIn(s)

\* No stage is reached, and no grant issued, unless in every stage before it
\* somebody's approval was recorded - through races, retries, delegation,
\* timeouts and edits of the template.
StagesEarned ==
    /\ \A t \in TaskIds : tasks[t].state # "absent" =>
          EarnedThrough(t.stage - 1)
    /\ \A i \in DOMAIN grants : EarnedThrough(grants[i].stage)

\* A terminal request never changes its status again, whatever handlers and
\* reconcilers that read it earlier still do.
TerminalIsFinal ==
    [][req.status \in Terminal => req'.status = req.status /\ req'.version = req.version]_vars

\* A task that left "pending" keeps its verdict: late approvers, skips and
\* timeouts do not overwrite it.
VerdictIsFinal ==
    [][\A t \in TaskIds : tasks[t].state \notin {"absent", "pending"}
            => tasks'[t].state = tasks[t].state]_vars

\* The comment on ApprovalGrant: it is "the time-bound permission slip issued
\* when a Request is approved".  A request that ended in any other way, while a
\* decision was on its way or after a handler's death, leaves no usable grant.
RefusedHasNoGrant ==
    req.status \in {"rejected", "cancelled", "expired"} =>
        \A i \in DOMAIN grants : grants[i].status # "active" \/ grants[i].until < now

\* The comment on escalateOverdueTasks: in mode `all` "a single expired task
\* fails the request", so its stage never leads to a grant.
ExpiredTaskFailsAll ==
    \A t \in TaskIds : tasks[t].state = "expired" /\ tasks[t].mode = "all" =>
        \A i \in DOMAIN grants : grants[i].stage < t.stage

\* Every request that was filed reaches a terminal state, also if nobody
\* decides, no approver exists or handlers die: the reconciler sees to it
\* (for requests whose window the bounded clock can outlive).
EveryRequestEnds ==
    (req.status = "pending" /\ req.end < MaxTime) ~> req.status \in Terminal

Elapsed(i) == i \in DOMAIN grants /\ grants[i].status = "active" /\ grants[i].until < now

\* A grant whose window is over does not stay active for good, unless its
\* window is set again.
ElapsedGrantsClose == Elapsed(1) ~> ~Elapsed(1)

Life == INSTANCE RequestLife WITH status <- req.status, granted <- (grants # <<>>)

\* To the rest of the gateway a request is what RequestLife says: it ends
\* once, and approved only with a grant behind it, however many handlers,
\* reconcilers and failures take part.
ImplementsRequestLife == Life!Spec
=============================================================================
