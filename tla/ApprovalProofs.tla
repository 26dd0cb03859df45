-------------------------- MODULE ApprovalProofs --------------------------
(***************************************************************************)
(* Proofs about Approval, for every set of users, workers and reconcilers, *)
(* every template and every bound.                                         *)
(***************************************************************************)
EXTENDS Approval, TLAPS, FiniteSetTheorems

TypeInv == TypeOK /\ HandlerOK

---------------------------------------------------------------------------
(* The repository calls keep the rows well typed *)

\* UpdateRequestStatus and AdvanceStage yield a request row.
LEMMA RequestWrites ==
    ASSUME TypeOK, NEW v \in Nat, NEW s \in Terminal, NEW n \in Int
    PROVE  /\ UpdateRequestStatus(v, s) \in Request
           /\ AdvanceStage(v, n) \in Request
<1> USE DEF TypeOK, Request
<1>1. -1 \in Int /\ v + 1 \in Nat
  OBVIOUS
<1>2. UpdateRequestStatus(v, s) \in Request
  BY <1>1 DEF UpdateRequestStatus
<1>3. AdvanceStage(v, n) \in Request
  BY <1>1 DEF AdvanceStage
<1> QED BY <1>2, <1>3

\* UpdateTaskDecision, SkipRemainingTasks and CreateTasks yield task rows.
LEMMA TaskWrites ==
    ASSUME TypeOK
    PROVE  /\ \A t, s : s \in TaskStates => UpdateTaskDecision(t, s) \in [TaskIds -> Task]
           /\ \A s : SkipRemainingTasks(s) \in [TaskIds -> Task]
           /\ \A ids : \A row \in Task : CreateTasks(ids, row) \in [TaskIds -> Task]
<1>1. \A t, s : s \in TaskStates => UpdateTaskDecision(t, s) \in [TaskIds -> Task]
  BY DEF TypeOK, Task, UpdateTaskDecision
<1>2. \A s : SkipRemainingTasks(s) \in [TaskIds -> Task]
  BY DEF TypeOK, Task, TaskStates, SkipRemainingTasks
<1>3. \A ids : \A row \in Task : CreateTasks(ids, row) \in [TaskIds -> Task]
  BY DEF TypeOK, CreateTasks
<1> QED BY <1>1, <1>2, <1>3

\* A tally has one of three outcomes.
LEMMA OutcomeType ==
    ASSUME NEW mode \in Modes, NEW n, NEW ts
    PROVE  stageOutcomeFor(mode, n, ts) \in {"still_running", "approved", "rejected"}
  BY DEF stageOutcomeFor, Modes
---------------------------------------------------------------------------
(* Type correctness *)

\* The initial local states and the empty row have their types.
LEMMA IdleType == Idle \in Local /\ Asleep \in Sweep /\ NoRequest \in Request
  BY DEF Idle, Local, PCs, Terminal, Asleep, Sweep, NoRequest, Request

\* A worker whose next local state is well typed and holds what it needs.
LEMMA LocalStep ==
    ASSUME TypeInv, NEW p \in Workers, NEW l \in Local, Holds(l)
    PROVE  loc' = [loc EXCEPT ![p] = l] => loc' \in [Workers -> Local] /\ HandlerOK'
  BY DEF TypeInv, TypeOK, HandlerOK

\* A worker that returns holds nothing.
LEMMA ReturnStep ==
    ASSUME TypeInv, NEW p \in Workers, Return(p)
    PROVE  loc' \in [Workers -> Local] /\ HandlerOK'
<1>1. Holds(Idle)
  BY DEF Holds, Idle
<1> QED BY <1>1, IdleType, LocalStep DEF Return

\* A worker that only moves on, to a step it already holds the values for.
LEMMA GotoStep ==
    ASSUME TypeInv, NEW p \in Workers, NEW pc \in PCs,
           Holds([loc[p] EXCEPT !.pc = pc]), Goto(p, pc)
    PROVE  loc' \in [Workers -> Local] /\ HandlerOK'
<1>1. [loc[p] EXCEPT !.pc = pc] \in Local
  BY DEF TypeInv, TypeOK, Local
<1> QED BY <1>1, LocalStep DEF Goto

\* An appended event keeps the ledger a set of event kinds.
LEMMA LedgerWrites ==
    ASSUME TypeOK
    PROVE  \A kind \in Kinds : Log(kind) => ledger' \subseteq Kinds
  BY DEF TypeOK, Log

\* Every call keeps the types, and leaves the worker with what it needs next.
LEMMA CallType ==
    ASSUME TypeInv, NEW p \in Workers, Call(p)
    PROVE  TypeInv'
<1> USE DEF TypeInv, TypeOK
<1>1. ASSUME NEW w \in Windows, CreateRequest(p, w)
      PROVE  TypeInv'
  <2>1. now + w \in Nat
    BY <1>1, ConstantsAssumption
  <2>2. req' \in Request
    BY <1>1, <2>1, IdleType DEF CreateRequest, Request
  <2>3. [Idle EXCEPT !.pc = "evaluate"] \in Local /\ Holds([Idle EXCEPT !.pc = "evaluate"])
    BY IdleType DEF Holds, PCs, Local
  <2>4. loc' \in [Workers -> Local] /\ HandlerOK'
    BY <1>1, <2>3, LocalStep DEF CreateRequest
  <2>5. ledger' \subseteq Kinds
    BY <1>1, LedgerWrites DEF CreateRequest, Kinds
  <2> QED BY <1>1, <2>2, <2>4, <2>5 DEF CreateRequest
<1>2. ASSUME NEW t \in TaskIds, NEW a \in BOOLEAN, NEW d \in Durations, DecideLoad(p, t, a, d)
      PROVE  TypeInv'
  <2> DEFINE l == [Idle EXCEPT !.pc = "check", !.task = t, !.approve = a,
                               !.dur = d, !.ver = req.version]
  <2>1. l \in Local
    BY ConstantsAssumption, IdleType DEF Local, PCs, Request
  <2>2. Holds(l)
    BY DEF Holds, Idle
  <2>3. loc' \in [Workers -> Local] /\ HandlerOK'
    BY <1>2, <2>1, <2>2, LocalStep DEF DecideLoad
  <2> QED BY <1>2, <2>3 DEF DecideLoad
<1>3. ASSUME CancelLoad(p)
      PROVE  TypeInv'
  <2> DEFINE l == [Idle EXCEPT !.pc = "cancel", !.ver = req.version,
                               !.stage = req.stage, !.goal = "cancelled"]
  <2>1. l \in Local
    BY IdleType DEF Local, PCs, Request, Terminal
  <2>2. Holds(l)
    BY DEF Holds, Idle
  <2>3. loc' \in [Workers -> Local] /\ HandlerOK'
    BY <1>3, <2>1, <2>2, LocalStep DEF CancelLoad
  <2> QED BY <1>3, <2>3 DEF CancelLoad
<1>4. ASSUME NEW t \in TaskIds, NEW u \in Users, DelegateLoad(p, t, u)
      PROVE  TypeInv'
  <2> DEFINE l == [Idle EXCEPT !.pc = "delegate", !.task = t, !.to = u]
  <2>1. l \in Local
    BY IdleType DEF Local, PCs
  <2>2. Holds(l)
    BY DEF Holds, Idle
  <2>3. loc' \in [Workers -> Local] /\ HandlerOK'
    BY <1>4, <2>1, <2>2, LocalStep DEF DelegateLoad
  <2> QED BY <1>4, <2>3 DEF DelegateLoad
<1> QED BY <1>1, <1>2, <1>3, <1>4 DEF Call

\* Every step of a worker inside its call keeps the types.
LEMMA WorkerType ==
    ASSUME TypeInv, NEW p \in Workers, WorkerStep(p)
    PROVE  TypeInv'
<1> USE DEF TypeInv, TypeOK
<1>a. tpl \in Template
  BY ConstantsAssumption
<1>b. loc[p] \in Local /\ Holds(loc[p])
  BY DEF HandlerOK
<1>c. tpl.cap \in Nat /\ tpl.stages \in Seq(StageSpec)
  BY <1>a DEF Template
<1>1. CASE NoTemplate(p)
  <2> DEFINE l == [loc[p] EXCEPT !.pc = "resolve", !.goal = "rejected"]
  <2>1. l \in Local /\ Holds(l)
    BY <1>b DEF Local, PCs, Terminal, Holds
  <2>2. loc' \in [Workers -> Local] /\ HandlerOK'
    BY <1>1, <2>1, LocalStep DEF NoTemplate
  <2> QED BY <1>1, <2>2, LedgerWrites DEF NoTemplate, Kinds
<1>2. ASSUME NEW auto \in BOOLEAN, PolicyMatched(p, auto)
      PROVE  TypeInv'
  <2>1. req' \in Request
    BY <1>2, <1>a DEF PolicyMatched, Request, Template
  <2>2. ledger' \subseteq Kinds
    BY <1>2, LedgerWrites DEF PolicyMatched, Kinds
  <2>3. loc' \in [Workers -> Local] /\ HandlerOK'
    <3>1. CASE auto
      <4> DEFINE l == [loc[p] EXCEPT !.pc = "grant", !.cap = tpl.cap,
                                     !.stage = -1, !.goal = "auto_approved"]
      <4>1. -1 \in Int /\ "grant" \in PCs /\ "auto_approved" \in Terminal
        BY DEF PCs, Terminal
      <4>2. l \in Local
        BY <1>b, <1>c, <4>1 DEF Local
      <4>3. Holds(l)
        BY <1>b DEF Local, Holds
      <4> QED BY <1>2, <3>1, <4>2, <4>3, LocalStep DEF PolicyMatched
    <3>2. CASE ~auto /\ tpl.stages = <<>>
      BY <1>2, <3>2, ReturnStep DEF PolicyMatched
    <3>3. CASE ~auto /\ tpl.stages # <<>>
      <4> DEFINE l == [loc[p] EXCEPT !.pc = "spawn", !.stages = tpl.stages, !.stage = 0]
      <4>0. 0 \in Int /\ "spawn" \in PCs
        BY DEF PCs
      <4>1. l \in Local
        BY <1>b, <1>c, <4>0 DEF Local
      <4>2. 0 \in 0..(Len(tpl.stages) - 1)
        BY <1>a, <3>3 DEF Template
      <4>3. Holds(l)
        BY <1>b, <4>2 DEF Holds, Local
      <4> QED BY <1>2, <3>3, <4>1, <4>3, LocalStep DEF PolicyMatched
    <3> QED BY <1>2, <3>1, <3>2, <3>3
  <2> QED BY <1>2, <2>1, <2>2, <2>3 DEF PolicyMatched
<1>3. CASE SpawnStage(p)
  <2> DEFINE spec == loc[p].stages[loc[p].stage + 1]
             row == [state |-> "pending", mode |-> spec.mode, quorumN |-> spec.quorumN,
                     expires |-> IF spec.timeout > 0 THEN now + spec.timeout ELSE 0]
  <2>1. loc[p].stage + 1 \in 1..Len(loc[p].stages) /\ loc[p].stages \in Seq(StageSpec)
    BY <1>3, <1>b DEF SpawnStage, Holds, Local
  <2>2. spec \in StageSpec
    BY <2>1
  <2>3. row \in Task
    BY <2>2 DEF StageSpec, Task, TaskStates
  <2>4. tasks' \in [TaskIds -> Task]
    BY <1>3, <2>3, TaskWrites DEF SpawnStage
  <2>5. loc' \in [Workers -> Local] /\ HandlerOK'
    BY <1>3, ReturnStep DEF SpawnStage
  <2>6. ledger' \subseteq Kinds
    BY <1>3, LedgerWrites DEF SpawnStage, Kinds
  <2> QED BY <1>3, <2>4, <2>5, <2>6 DEF SpawnStage
<1>4. CASE DecideCheck(p)
  <2>1. "write" \in PCs /\ Holds([loc[p] EXCEPT !.pc = "write"])
    BY <1>4, <1>b DEF DecideCheck, Holds, PCs, Local
  <2>2. loc' \in [Workers -> Local] /\ HandlerOK'
    BY <1>4, <2>1, ReturnStep, GotoStep DEF DecideCheck
  <2> QED BY <1>4, <2>2 DEF DecideCheck
<1>5. CASE DecideWrite(p)
  <2>1. tasks' \in [TaskIds -> Task]
    BY <1>5, TaskWrites DEF DecideWrite, TaskStates
  <2>2. "tally" \in PCs /\ Holds([loc[p] EXCEPT !.pc = "tally"])
    BY <1>5, <1>b DEF DecideWrite, Holds, PCs, Local
  <2>3. loc' \in [Workers -> Local] /\ HandlerOK'
    BY <1>5, <2>2, GotoStep DEF DecideWrite
  <2>4. ledger' \subseteq Kinds
    BY <1>5, LedgerWrites DEF DecideWrite, Kinds
  <2> QED BY <1>5, <2>1, <2>3, <2>4 DEF DecideWrite
<1>6. CASE DecideTally(p)
  <2> DEFINE t == loc[p].task
             outcome == stageOutcomeFor(tasks[t].mode, tasks[t].quorumN, StageTasks(t.stage))
  <2>1. t \in TaskIds
    BY <1>6, <1>b DEF DecideTally, Holds
  <2>2. outcome \in {"still_running", "approved", "rejected"}
    BY <2>1, OutcomeType DEF Task
  <2>3. CASE outcome = "still_running"
    <3>1. loc' \in [Workers -> Local] /\ HandlerOK'
      BY <1>6, <2>3, ReturnStep DEF DecideTally
    <3> QED BY <1>6, <3>1 DEF DecideTally
  <2>4. CASE outcome # "still_running"
    <3>1. loc' = [loc EXCEPT ![p] = [loc[p] EXCEPT !.pc = "skip", !.goal = outcome]]
      BY <1>6, <2>4 DEF DecideTally
    <3>2. outcome \in Terminal
      BY <2>2, <2>4 DEF Terminal
    <3> HIDE DEF outcome
    <3> DEFINE l == [loc[p] EXCEPT !.pc = "skip", !.goal = outcome]
    <3>3. l \in Local
      BY <1>b, <3>2 DEF Local, PCs
    <3>4. Holds(l)
      BY <1>b, <2>1 DEF Holds, Local
    <3>5. loc' \in [Workers -> Local] /\ HandlerOK'
      BY <3>1, <3>3, <3>4, LocalStep
    <3> QED BY <1>6, <3>5 DEF DecideTally
  <2> QED BY <2>3, <2>4
<1>7. CASE DecideSkip(p)
  <2>1. tasks' \in [TaskIds -> Task]
    BY <1>7, TaskWrites DEF DecideSkip
  <2>2. /\ "resolve" \in PCs /\ Holds([loc[p] EXCEPT !.pc = "resolve"])
        /\ "next" \in PCs /\ Holds([loc[p] EXCEPT !.pc = "next"])
    BY <1>7, <1>b DEF DecideSkip, Holds, PCs, Local
  <2>3. loc' \in [Workers -> Local] /\ HandlerOK'
    BY <1>7, <2>2, GotoStep DEF DecideSkip
  <2>4. ledger' \subseteq Kinds
    BY <1>7, LedgerWrites DEF DecideSkip, Kinds
  <2> QED BY <1>7, <2>1, <2>3, <2>4 DEF DecideSkip
<1>8. CASE DecideNext(p)
  <2> DEFINE n == loc[p].task.stage + 1
             final == n >= Len(tpl.stages)
             a == [loc[p] EXCEPT !.pc = "grant", !.stage = n - 1]
             b == [loc[p] EXCEPT !.pc = "advance", !.stages = tpl.stages, !.stage = n]
  <2>1. loc[p].task \in TaskIds
    BY <1>8, <1>b DEF DecideNext, Holds
  <2>2. n \in Nat /\ Len(tpl.stages) \in Nat
    BY <1>a, <2>1, ConstantsAssumption DEF TaskIds, Template
  <2>3. loc' = [loc EXCEPT ![p] = IF final THEN a ELSE b]
    BY <1>8 DEF DecideNext
  <2> HIDE DEF n
  <2>4. a \in Local /\ Holds(a)
    <3>1. n - 1 \in Int /\ "grant" \in PCs
      BY <2>2 DEF PCs
    <3>2. a \in Local
      BY <1>b, <3>1 DEF Local
    <3>3. Holds(a)
      BY <1>b DEF Holds, Local
    <3> QED BY <3>2, <3>3
  <2>5. b \in Local
    <3>1. n \in Int /\ "advance" \in PCs
      BY <2>2 DEF PCs
    <3> QED BY <1>b, <1>c, <3>1 DEF Local
  <2>6. ~final => Holds(b)
    BY <1>b, <2>2 DEF Holds, Local
  <2>7. loc' \in [Workers -> Local] /\ HandlerOK'
    BY <2>3, <2>4, <2>5, <2>6, LocalStep
  <2>8. ledger' \subseteq Kinds
    BY <1>8, LedgerWrites DEF DecideNext, Kinds
  <2> QED BY <1>8, <2>7, <2>8 DEF DecideNext
<1>9. CASE DecideAdvance(p)
  <2>1. req' \in Request
    BY <1>9, <1>b, RequestWrites DEF DecideAdvance, Local, Terminal
  <2>2. "spawn" \in PCs /\ Holds([loc[p] EXCEPT !.pc = "spawn"])
    BY <1>9, <1>b DEF DecideAdvance, Holds, PCs, Local
  <2>3. loc' \in [Workers -> Local] /\ HandlerOK'
    BY <1>9, <2>2, ReturnStep, GotoStep DEF DecideAdvance
  <2> QED BY <1>9, <2>1, <2>3 DEF DecideAdvance
<1>10. CASE IssueGrant(p)
  <2>1. CASE grants = <<>>
    <3>1. grants' \in Seq(Grant)
      <4> DEFINE cap == IF loc[p].goal = "approved" THEN tpl.cap ELSE loc[p].cap
                 w == GrantWindow(loc[p].dur, cap)
      <4>1. cap \in Nat /\ loc[p].dur \in Nat
        BY <1>a, <1>b DEF Template, Local
      <4>2. grants' = <<[from |-> w.from, until |-> w.until,
                         status |-> "active", stage |-> loc[p].stage]>>
        BY <1>10, <2>1 DEF IssueGrant
      <4> HIDE DEF cap
      <4>3. w \in [from: Nat, until: Nat]
        BY <4>1 DEF GrantWindow, Least, Request
      <4> HIDE DEF w
      <4>4. [from |-> w.from, until |-> w.until, status |-> "active",
             stage |-> loc[p].stage] \in Grant
        BY <4>3, <1>b DEF Grant, GrantStates, Local
      <4> QED BY <4>2, <4>4
    <3>2. "resolve" \in PCs /\ Holds([loc[p] EXCEPT !.pc = "resolve"])
      BY <1>b DEF Holds, PCs, Local
    <3>3. loc' \in [Workers -> Local] /\ HandlerOK'
      BY <1>10, <2>1, <3>2, GotoStep DEF IssueGrant
    <3> QED BY <1>10, <3>1, <3>3 DEF IssueGrant
  <2>2. CASE grants # <<>>
    <3>1. loc' \in [Workers -> Local] /\ HandlerOK'
      BY <1>10, <2>2, ReturnStep DEF IssueGrant
    <3>2. grants' = grants
      BY <1>10, <2>2 DEF IssueGrant
    <3> QED BY <1>10, <3>1, <3>2 DEF IssueGrant
  <2> QED BY <2>1, <2>2
<1>11. CASE Resolve(p)
  <2>1. req' \in Request
    BY <1>11, <1>b, RequestWrites DEF Resolve, Local
  <2>2. loc' \in [Workers -> Local] /\ HandlerOK'
    BY <1>11, ReturnStep DEF Resolve
  <2>3. ledger' \subseteq Kinds
    BY <1>11, LedgerWrites DEF Resolve, Kinds
  <2> QED BY <1>11, <2>1, <2>2, <2>3 DEF Resolve
<1>12. CASE CancelWrite(p)
  <2>1. req' \in Request
    BY <1>12, <1>b, RequestWrites DEF CancelWrite, Local, Terminal
  <2>2. "cancelskip" \in PCs /\ Holds([loc[p] EXCEPT !.pc = "cancelskip"])
    BY <1>b DEF Holds, PCs, Local
  <2>3. loc' \in [Workers -> Local] /\ HandlerOK'
    BY <1>12, <2>2, GotoStep DEF CancelWrite
  <2> QED BY <1>12, <2>1, <2>3 DEF CancelWrite
<1>13. CASE CancelSkip(p)
  <2>1. tasks' \in [TaskIds -> Task]
    BY <1>13, TaskWrites DEF CancelSkip
  <2>2. loc' \in [Workers -> Local] /\ HandlerOK'
    BY <1>13, ReturnStep DEF CancelSkip
  <2>3. ledger' \subseteq Kinds
    BY <1>13, LedgerWrites DEF CancelSkip, Kinds
  <2> QED BY <1>13, <2>1, <2>2, <2>3 DEF CancelSkip
<1>14. CASE DelegateWrite(p)
  <2>1. tasks' \in [TaskIds -> Task]
    BY <1>14, TaskWrites DEF DelegateWrite, TaskStates
  <2>2. "delegated" \in PCs /\ Holds([loc[p] EXCEPT !.pc = "delegated"])
    BY <1>14, <1>b DEF DelegateWrite, Holds, PCs, Local
  <2>3. loc' \in [Workers -> Local] /\ HandlerOK'
    BY <1>14, <2>2, ReturnStep, GotoStep DEF DelegateWrite
  <2> QED BY <1>14, <2>1, <2>3 DEF DelegateWrite
<1>15. CASE DelegateSpawn(p)
  <2>1. loc[p].task \in TaskIds
    BY <1>15, <1>b DEF DelegateSpawn, Holds
  <2>2. [tasks[loc[p].task] EXCEPT !.state = "pending"] \in Task
    BY <2>1 DEF Task, TaskStates
  <2>3. tasks' \in [TaskIds -> Task]
    BY <1>15, <2>2, TaskWrites DEF DelegateSpawn
  <2>4. loc' \in [Workers -> Local] /\ HandlerOK'
    BY <1>15, ReturnStep DEF DelegateSpawn
  <2>5. ledger' \subseteq Kinds
    BY <1>15, LedgerWrites DEF DelegateSpawn, Kinds
  <2> QED BY <1>15, <2>3, <2>4, <2>5 DEF DelegateSpawn
<1> QED BY <1>1, <1>2, <1>3, <1>4, <1>5, <1>6, <1>7, <1>8, <1>9, <1>10, <1>11, <1>12,
           <1>13, <1>14, <1>15 DEF WorkerStep

\* The reconciler's passes and the remaining actions keep the types.
LEMMA OtherType ==
    ASSUME TypeInv,
           \/ \E p \in Workers : WorkerFails(p)
           \/ \E r \in Reconcilers : Reconcile(r) \/ SweepFails(r)
           \/ Admin \/ Tick
    PROVE  TypeInv'
<1> USE DEF TypeInv, TypeOK
<1>1. ASSUME NEW p \in Workers, WorkerFails(p)
      PROVE  TypeInv'
  <2>1. loc' \in [Workers -> Local] /\ HandlerOK'
    BY <1>1, ReturnStep DEF WorkerFails
  <2> QED BY <1>1, <2>1 DEF WorkerFails
<1>2. ASSUME NEW r \in Reconcilers, Reconcile(r)
      PROVE  TypeInv'
  <2>1. rec[r] \in Sweep
    OBVIOUS
  <2>2. CASE SweepGrants(r)
    <3>1. FindExpiredGrants \subseteq Nat
      BY DEF FindExpiredGrants
    <3> QED BY <2>2, <2>1, <3>1 DEF SweepGrants, Sweep, HandlerOK
  <2>3. CASE SweepTasks(r)
    <3>1. FindOverdueTasks \subseteq TaskIds
      BY DEF FindOverdueTasks
    <3> QED BY <2>3, <2>1, <3>1 DEF SweepTasks, Sweep, HandlerOK
  <2>4. CASE SweepRequests(r)
    <3>1. [Asleep EXCEPT !.pc = "request", !.ver = req.version, !.stage = req.stage] \in Sweep
      BY IdleType DEF Sweep, Request
    <3>2. rec' \in [Reconcilers -> Sweep]
      BY <2>4, <3>1, IdleType DEF SweepRequests
    <3> QED BY <2>4, <3>2 DEF SweepRequests, HandlerOK
  <2>5. ASSUME NEW i \in rec[r].grants, ExpireGrant(r, i)
        PROVE  TypeInv'
    <3>1. grants' \in Seq(Grant)
      <4>1. CASE i \in DOMAIN grants
        <5>1. grants[i] \in Grant
          BY <4>1
        <5>2. [grants[i] EXCEPT !.status = "expired"] \in Grant
          BY <5>1 DEF Grant, GrantStates
        <5> QED BY <2>5, <4>1, <5>2 DEF ExpireGrant
      <4>2. CASE i \notin DOMAIN grants
        <5>1. [grants EXCEPT ![i].status = "expired"] = grants
          BY <4>2
        <5> QED BY <2>5, <5>1 DEF ExpireGrant
      <4> QED BY <4>1, <4>2
    <3>2. rec' \in [Reconcilers -> Sweep]
      BY <2>5, <2>1 DEF ExpireGrant, Sweep
    <3>3. ledger' \subseteq Kinds
      BY <2>5, LedgerWrites DEF ExpireGrant, Kinds
    <3> QED BY <2>5, <3>1, <3>2, <3>3 DEF ExpireGrant, HandlerOK
  <2>6. ASSUME NEW t \in rec[r].tasks, ExpireTask(r, t)
        PROVE  TypeInv'
    <3>1. tasks' \in [TaskIds -> Task]
      BY <2>6, TaskWrites DEF ExpireTask, TaskStates
    <3>2. rec' \in [Reconcilers -> Sweep]
      BY <2>6, <2>1 DEF ExpireTask, Sweep
    <3>3. ledger' \subseteq Kinds
      BY <2>6, LedgerWrites DEF ExpireTask, Kinds
    <3> QED BY <2>6, <3>1, <3>2, <3>3 DEF ExpireTask, HandlerOK
  <2>7. CASE ExpireRequest(r)
    <3>1. req' \in Request
      BY <2>7, <2>1, RequestWrites DEF ExpireRequest, Sweep, Terminal
    <3>2. rec' \in [Reconcilers -> Sweep]
      BY <2>7, <2>1 DEF ExpireRequest, Sweep
    <3> QED BY <2>7, <3>1, <3>2 DEF ExpireRequest, HandlerOK
  <2>8. CASE ExpireSkip(r)
    <3>1. tasks' \in [TaskIds -> Task]
      BY <2>8, TaskWrites DEF ExpireSkip
    <3>2. rec' \in [Reconcilers -> Sweep]
      BY <2>8, IdleType DEF ExpireSkip
    <3>3. ledger' \subseteq Kinds
      BY <2>8, LedgerWrites DEF ExpireSkip, Kinds
    <3> QED BY <2>8, <3>1, <3>2, <3>3 DEF ExpireSkip, HandlerOK
  <2> QED BY <1>2, <2>2, <2>3, <2>4, <2>5, <2>6, <2>7, <2>8 DEF Reconcile
<1>3. ASSUME NEW r \in Reconcilers, SweepFails(r)
      PROVE  TypeInv'
  <2>1. rec' \in [Reconcilers -> Sweep]
    <3>1. [rec[r] EXCEPT !.grants = {}, !.tasks = {}] \in Sweep
      BY DEF Sweep
    <3> QED BY <1>3, <3>1, IdleType DEF SweepFails
  <2>2. faults' \in Nat
    <3>1. faults' = faults + 1
      BY <1>3 DEF SweepFails
    <3> QED BY <3>1
  <2>3. UNCHANGED <<now, tpl, req, tasks, grants, ledger, loc>>
    BY <1>3 DEF SweepFails
  <2> QED BY <2>1, <2>2, <2>3 DEF HandlerOK
<1>4. ASSUME NEW i \in DOMAIN grants, RevokeGrant(i)
      PROVE  TypeInv'
  <2>0. grants[i] \in Grant
    OBVIOUS
  <2>1. [grants[i] EXCEPT !.status = "revoked"] \in Grant
    BY <2>0 DEF Grant, GrantStates
  <2>2. grants' \in Seq(Grant)
    BY <1>4, <2>1 DEF RevokeGrant
  <2>3. ledger' \subseteq Kinds
    BY <1>4, LedgerWrites DEF RevokeGrant, Kinds
  <2> QED BY <1>4, <2>2, <2>3 DEF RevokeGrant, HandlerOK
<1>5. ASSUME NEW i \in DOMAIN grants, NEW d \in Durations, SetGrantWindow(i, d)
      PROVE  TypeInv'
  <2>1. now + d \in Nat
    BY ConstantsAssumption
  <2>0. grants[i] \in Grant
    OBVIOUS
  <2>2. [grants[i] EXCEPT !.from = now, !.until = now + d] \in Grant
    BY <2>0, <2>1 DEF Grant
  <2>3. grants' \in Seq(Grant)
    BY <1>5, <2>2 DEF SetGrantWindow
  <2> QED BY <1>5, <2>3 DEF SetGrantWindow, HandlerOK
<1>6. ASSUME NEW d \in Templates, UpdateTemplate(d)
      PROVE  TypeInv'
  BY <1>6 DEF UpdateTemplate, HandlerOK
<1>7. CASE Tick
  BY <1>7 DEF Tick, HandlerOK
<1>8. CASE Admin
  BY <1>4, <1>5, <1>6, <1>8 DEF Admin
<1> QED BY <1>1, <1>2, <1>3, <1>7, <1>8

\* The initial state has its type.
LEMMA InitType == Init => TypeInv
<1>1. NoRow \in Task
  BY DEF NoRow, Task, Modes
<1> QED BY <1>1, IdleType DEF Init, TypeInv, TypeOK, HandlerOK, Holds, Idle

\* Rows and handlers are well typed in every reachable state.
THEOREM TypeCorrect == Spec => []TypeInv
<1>1. Init => TypeInv
  BY InitType
<1>2. TypeInv /\ [Next]_vars => TypeInv'
  <2> SUFFICES ASSUME TypeInv, [Next]_vars PROVE TypeInv'
    OBVIOUS
  <2>1. CASE UNCHANGED vars
    BY <2>1 DEF vars, TypeInv, TypeOK, HandlerOK
  <2>2. CASE Next
    BY <2>2, CallType, WorkerType, OtherType DEF Next
  <2> QED BY <2>1, <2>2
<1> QED BY <1>1, <1>2, PTL DEF Spec
---------------------------------------------------------------------------
(* The version counter stands in for a status check *)

VersionInv ==
    /\ TypeInv
    /\ VersionGuardsStatus
    /\ req.status = "absent" => req.version = 0

\* If the version only grows, a step that does not change it leaves a pending
\* request pending, and every handler that holds a version held it before or
\* has just read it from a pending request, then the guard is preserved.
LEMMA VersionStep ==
    ASSUME VersionInv, TypeInv',
           \/ req'.version > req.version
           \/ req'.version = req.version /\ (req.status = "pending" => req'.status = "pending"),
           \A p \in Workers : loc'[p].pc \in HoldsVersion =>
              \/ loc[p].pc \in HoldsVersion /\ loc'[p].ver = loc[p].ver
              \/ loc'[p].ver = req'.version /\ req'.status = "pending",
           \A r \in Reconcilers : rec'[r].pc = "request" =>
              \/ rec[r].pc = "request" /\ rec'[r].ver = rec[r].ver
              \/ rec'[r].ver = req'.version /\ req'.status = "pending"
    PROVE  VersionGuardsStatus'
<1>1. req.version \in Nat /\ req'.version \in Nat
  BY DEF VersionInv, TypeInv, TypeOK, Request
<1>2. /\ \A p \in Workers : loc[p].ver \in Nat /\ loc'[p].ver \in Nat
      /\ \A r \in Reconcilers : rec[r].ver \in Nat /\ rec'[r].ver \in Nat
  BY DEF VersionInv, TypeInv, TypeOK, Local, Sweep
<1>3. ASSUME NEW p \in Workers, loc'[p].pc \in HoldsVersion
      PROVE  /\ loc'[p].ver <= req'.version
             /\ loc'[p].ver = req'.version => req'.status = "pending"
  BY <1>1, <1>2, <1>3 DEF VersionInv, VersionGuardsStatus
<1>4. ASSUME NEW r \in Reconcilers, rec'[r].pc = "request"
      PROVE  /\ rec'[r].ver <= req'.version
             /\ rec'[r].ver = req'.version => req'.status = "pending"
  BY <1>1, <1>2, <1>4 DEF VersionInv, VersionGuardsStatus
<1> QED BY <1>3, <1>4 DEF VersionGuardsStatus

\* The effect of a compare-and-swap on the status and the version.
LEMMA SwapEffect ==
    ASSUME TypeOK, NEW v \in Nat, NEW s, NEW n
    PROVE  /\ req.version = v => /\ UpdateRequestStatus(v, s).status = s
                                 /\ UpdateRequestStatus(v, s).version = v + 1
                                 /\ UpdateRequestStatus(v, s).stage = -1
                                 /\ AdvanceStage(v, n).status = req.status
                                 /\ AdvanceStage(v, n).version = v + 1
                                 /\ AdvanceStage(v, n).stage = n
           /\ req.version # v => UpdateRequestStatus(v, s) = req /\ AdvanceStage(v, n) = req
  BY DEF TypeOK, Request, UpdateRequestStatus, AdvanceStage
\* What has to be shown of a step: the guard survives, and so do the link
\* between status and stage and every terminal status.
RequestStep ==
    /\ VersionInv'
    /\ StageClosedIffTerminal'
    /\ req.status \in Terminal => req'.status = req.status /\ req'.version = req.version

\* A step that leaves status, version and stage alone, and in which no
\* handler starts to rely on a version it did not read now or before.
LEMMA QuietStep ==
    ASSUME VersionInv, StageClosedIffTerminal, TypeInv',
           req'.status = req.status, req'.version = req.version, req'.stage = req.stage,
           \A p \in Workers : loc'[p].pc \in HoldsVersion =>
              \/ loc[p].pc \in HoldsVersion /\ loc'[p].ver = loc[p].ver
              \/ loc'[p].ver = req'.version /\ req'.status = "pending",
           \A r \in Reconcilers : rec'[r].pc = "request" =>
              \/ rec[r].pc = "request" /\ rec'[r].ver = rec[r].ver
              \/ rec'[r].ver = req'.version /\ req'.status = "pending"
    PROVE  RequestStep
<1>1. VersionGuardsStatus'
  BY VersionStep
<1> QED BY <1>1 DEF RequestStep, VersionInv, StageClosedIffTerminal

\* A compare-and-swap by a handler that holds a version and then lets it go.
LEMMA SwapStep ==
    ASSUME VersionInv, StageClosedIffTerminal, TypeInv',
           NEW v \in Nat, v = req.version => req.status = "pending",
           \/ \E s \in Terminal : req' = UpdateRequestStatus(v, s)
           \/ \E n \in Nat : req' = AdvanceStage(v, n),
           \A p \in Workers : loc'[p].pc \in HoldsVersion =>
              loc[p].pc \in HoldsVersion /\ loc'[p].ver = loc[p].ver,
           \A r \in Reconcilers : rec'[r].pc = "request" =>
              rec[r].pc = "request" /\ rec'[r].ver = rec[r].ver
    PROVE  RequestStep
<1>0. TypeOK /\ req.version \in Nat
  BY DEF VersionInv, TypeInv, TypeOK, Request
<1>1. CASE v # req.version
  <2>1. req' = req
    BY <1>0, <1>1, SwapEffect
  <2> QED BY <2>1, QuietStep
<1>2. CASE v = req.version
  <2>1. /\ req.status = "pending" /\ req'.version = req.version + 1
        /\ \/ req'.status = "pending" /\ req'.stage \in Nat
           \/ req'.status \in Terminal /\ req'.stage = -1
    BY <1>0, <1>2, SwapEffect
  <2>2. VersionGuardsStatus'
    BY <1>0, <2>1, VersionStep
  <2> QED BY <2>1, <2>2 DEF RequestStep, VersionInv, StageClosedIffTerminal, Terminal
<1> QED BY <1>1, <1>2

\* No worker comes to hold a version it did not hold before.
Keeps == \A q \in Workers : loc'[q].pc \in HoldsVersion =>
             loc[q].pc \in HoldsVersion /\ loc'[q].ver = loc[q].ver

\* Returning lets go of the version; moving on keeps it.
LEMMA MoveKeeps ==
    ASSUME TypeOK, NEW p \in Workers
    PROVE  /\ Return(p) => Keeps
           /\ \A l : /\ loc' = [loc EXCEPT ![p] = l]
                     /\ l.pc \in HoldsVersion => loc[p].pc \in HoldsVersion /\ l.ver = loc[p].ver
                    => Keeps
           /\ \A pc : Goto(p, pc) /\ (pc \in HoldsVersion => loc[p].pc \in HoldsVersion) => Keeps
<1>1. Idle.pc \notin HoldsVersion
  BY DEF Idle, HoldsVersion
<1>2. \A l : /\ loc' = [loc EXCEPT ![p] = l]
             /\ l.pc \in HoldsVersion => loc[p].pc \in HoldsVersion /\ l.ver = loc[p].ver
           => Keeps
  BY DEF TypeOK, Keeps
<1>3. \A pc : [loc[p] EXCEPT !.pc = pc].pc = pc /\ [loc[p] EXCEPT !.pc = pc].ver = loc[p].ver
  BY DEF TypeOK, Local
<1>4. Return(p) => Keeps
  BY <1>1 DEF Return, TypeOK, Keeps
<1>5. ASSUME NEW pc, Goto(p, pc), pc \in HoldsVersion => loc[p].pc \in HoldsVersion
      PROVE  Keeps
  <2> DEFINE l == [loc[p] EXCEPT !.pc = pc]
  <2>1. loc' = [loc EXCEPT ![p] = l]
    BY <1>5 DEF Goto
  <2>2. l.pc = pc /\ l.ver = loc[p].ver
    BY <1>3
  <2> HIDE DEF l
  <2> QED BY <1>5, <2>1, <2>2 DEF TypeOK, Keeps
<1>6. \A pc : Goto(p, pc) /\ (pc \in HoldsVersion => loc[p].pc \in HoldsVersion) => Keeps
  BY <1>5
<1> QED BY <1>2, <1>4, <1>6, Zenon

\* Every step of the specification is such a step.
LEMMA RequestNext ==
    ASSUME VersionInv, StageClosedIffTerminal, TypeInv', [Next]_vars
    PROVE  RequestStep
<1> USE DEF HoldsVersion
<1>t. /\ loc \in [Workers -> Local] /\ rec \in [Reconcilers -> Sweep] /\ req \in Request
      /\ HandlerOK /\ TypeOK
  BY DEF VersionInv, TypeInv, TypeOK
<1>u. /\ \A p \in Workers : loc[p] \in Local /\ loc[p].ver \in Nat
      /\ \A r \in Reconcilers : rec[r] \in Sweep /\ rec[r].ver \in Nat
  BY <1>t DEF Local, Sweep
<1>v. /\ \A p \in Workers : loc[p].pc \in HoldsVersion =>
            (loc[p].ver = req.version => req.status = "pending")
      /\ \A r \in Reconcilers : rec[r].pc = "request" =>
            (rec[r].ver = req.version => req.status = "pending")
  BY DEF VersionInv, VersionGuardsStatus
<1>1. ASSUME NEW p \in Workers, Call(p)
      PROVE  RequestStep
  <2>1. ASSUME NEW w \in Windows, CreateRequest(p, w)
        PROVE  RequestStep
    <3>1. req.version = 0 /\ req.status = "absent"
      BY <2>1 DEF CreateRequest, VersionInv
    <3>2. req'.version = 0 /\ req'.status = "pending" /\ req'.stage = 0
      BY <2>1 DEF CreateRequest, NoRequest
    <3>3. rec' = rec /\ loc' = [loc EXCEPT ![p] = [Idle EXCEPT !.pc = "evaluate"]]
      BY <2>1 DEF CreateRequest
    <3>4. [Idle EXCEPT !.pc = "evaluate"].ver = 0
      BY DEF Idle
    <3>5. VersionGuardsStatus'
      BY <1>t, <3>1, <3>2, <3>3, <3>4, VersionStep
    <3> QED BY <3>1, <3>2, <3>5 DEF RequestStep, VersionInv, StageClosedIffTerminal, Terminal
  <2>2. ASSUME NEW t \in TaskIds, NEW a \in BOOLEAN, NEW d \in Durations, DecideLoad(p, t, a, d)
        PROVE  RequestStep
    BY <1>t, <2>2, QuietStep DEF DecideLoad, Idle
  <2>3. CASE CancelLoad(p)
    BY <1>t, <2>3, QuietStep DEF CancelLoad, Idle
  <2>4. ASSUME NEW t \in TaskIds, NEW u \in Users, DelegateLoad(p, t, u)
        PROVE  RequestStep
    BY <1>t, <2>4, QuietStep DEF DelegateLoad, Idle
  <2> QED BY <1>1, <2>1, <2>2, <2>3, <2>4 DEF Call
<1>2. ASSUME NEW p \in Workers, WorkerStep(p)
      PROVE  RequestStep
  <2>1. CASE NoTemplate(p)
    BY <1>t, <1>u, <2>1, QuietStep DEF NoTemplate, Local
  <2>2. ASSUME NEW auto \in BOOLEAN, PolicyMatched(p, auto)
        PROVE  RequestStep
    <3>1. req'.status = req.status /\ req'.version = req.version /\ req'.stage = req.stage
      BY <1>t, <2>2 DEF PolicyMatched, Request
    <3>2. rec' = rec /\ loc[p].pc = "evaluate"
      BY <2>2 DEF PolicyMatched
    <3>3. Keeps
      <4>1. CASE auto
        <5> DEFINE l == [loc[p] EXCEPT !.pc = "grant", !.cap = tpl.cap,
                                       !.stage = -1, !.goal = "auto_approved"]
        <5>1. l.ver = loc[p].ver
          BY <1>u DEF Local
        <5> QED BY <1>t, <2>2, <3>2, <4>1, <5>1, MoveKeeps DEF PolicyMatched
      <4>2. CASE ~auto /\ tpl.stages # <<>>
        <5> DEFINE l == [loc[p] EXCEPT !.pc = "spawn", !.stages = tpl.stages, !.stage = 0]
        <5>1. l.pc = "spawn"
          BY <1>u DEF Local
        <5> QED BY <1>t, <2>2, <4>2, <5>1, MoveKeeps DEF PolicyMatched
      <4> QED BY <1>t, <2>2, <4>1, <4>2, MoveKeeps DEF PolicyMatched
    <3> QED BY <1>t, <3>1, <3>2, <3>3, QuietStep DEF Keeps
  <2>3. CASE SpawnStage(p)
    BY <1>t, <2>3, QuietStep DEF SpawnStage, Return, Idle
  <2>4. CASE DecideCheck(p)
    <3>1. Keeps
      BY <1>t, <2>4, MoveKeeps DEF DecideCheck
    <3> QED BY <2>4, <3>1, QuietStep DEF DecideCheck, Keeps
  <2>5. CASE DecideWrite(p)
    BY <1>t, <1>u, <2>5, QuietStep DEF DecideWrite, Goto, Local
  <2>6. CASE DecideTally(p)
    <3>1. rec' = rec /\ req' = req /\ loc[p].pc = "tally"
      BY <2>6 DEF DecideTally
    <3>2. \A o : [loc[p] EXCEPT !.pc = "skip", !.goal = o].ver = loc[p].ver
      BY <1>u DEF Local
    <3>3. Keeps
      BY <1>t, <2>6, <3>1, <3>2, MoveKeeps DEF DecideTally
    <3> QED BY <3>1, <3>3, QuietStep DEF Keeps
  <2>7. CASE DecideSkip(p)
    <3>1. Keeps
      BY <1>t, <2>7, MoveKeeps DEF DecideSkip
    <3> QED BY <2>7, <3>1, QuietStep DEF DecideSkip, Keeps
  <2>8. CASE DecideNext(p)
    <3>1. rec' = rec /\ req' = req /\ loc[p].pc = "next"
      BY <2>8 DEF DecideNext
    <3>2. \A n : /\ [loc[p] EXCEPT !.pc = "grant", !.stage = n].ver = loc[p].ver
                /\ [loc[p] EXCEPT !.pc = "advance", !.stages = tpl.stages, !.stage = n].ver
                     = loc[p].ver
      BY <1>u DEF Local
    <3>3. Keeps
      BY <1>t, <2>8, <3>1, <3>2, MoveKeeps DEF DecideNext
    <3> QED BY <3>1, <3>3, QuietStep DEF Keeps
  <2>9. CASE DecideAdvance(p)
    <3>1. rec' = rec /\ req' = AdvanceStage(loc[p].ver, loc[p].stage) /\ loc[p].pc = "advance"
      BY <2>9 DEF DecideAdvance
    <3>2. loc[p].stage \in Nat
      BY <1>t, <1>u, <3>1 DEF HandlerOK, Holds, Local
    <3>3. Keeps
      BY <1>t, <2>9, MoveKeeps DEF DecideAdvance
    <3> QED BY <1>t, <1>u, <1>v, <3>1, <3>2, <3>3, SwapStep DEF Keeps
  <2>10. CASE IssueGrant(p)
    <3>1. Keeps
      BY <1>t, <2>10, MoveKeeps DEF IssueGrant
    <3> QED BY <2>10, <3>1, QuietStep DEF IssueGrant, Keeps
  <2>11. CASE Resolve(p)
    <3>1. rec' = rec /\ req' = UpdateRequestStatus(loc[p].ver, loc[p].goal)
          /\ loc[p].pc = "resolve" /\ loc' = [loc EXCEPT ![p] = Idle]
      BY <2>11 DEF Resolve, Return
    <3>2. loc[p].goal \in Terminal /\ Idle.pc = "idle"
      BY <1>u DEF Local, Idle
    <3> QED BY <1>t, <1>u, <1>v, <3>1, <3>2, SwapStep
  <2>12. CASE CancelWrite(p)
    <3>1. rec' = rec /\ req' = UpdateRequestStatus(loc[p].ver, "cancelled")
          /\ loc[p].pc = "cancel" /\ loc' = [loc EXCEPT ![p] = [loc[p] EXCEPT !.pc = "cancelskip"]]
      BY <2>12 DEF CancelWrite, Goto
    <3>2. "cancelled" \in Terminal /\ [loc[p] EXCEPT !.pc = "cancelskip"].pc = "cancelskip"
      BY <1>u DEF Terminal, Local
    <3> QED BY <1>t, <1>u, <1>v, <3>1, <3>2, SwapStep
  <2>13. CASE CancelSkip(p)
    BY <1>t, <2>13, QuietStep DEF CancelSkip, Return, Idle
  <2>14. CASE DelegateWrite(p)
    <3>1. Keeps
      BY <1>t, <2>14, MoveKeeps DEF DelegateWrite
    <3> QED BY <2>14, <3>1, QuietStep DEF DelegateWrite, Keeps
  <2>15. CASE DelegateSpawn(p)
    BY <1>t, <2>15, QuietStep DEF DelegateSpawn, Return, Idle
  <2> QED BY <1>2, <2>1, <2>2, <2>3, <2>4, <2>5, <2>6, <2>7, <2>8, <2>9, <2>10, <2>11,
             <2>12, <2>13, <2>14, <2>15 DEF WorkerStep
<1>3. ASSUME NEW r \in Reconcilers, Reconcile(r)
      PROVE  RequestStep
  <2>1. CASE SweepGrants(r)
    BY <1>t, <1>u, <2>1, QuietStep DEF SweepGrants, Sweep
  <2>2. CASE SweepTasks(r)
    BY <1>t, <1>u, <2>2, QuietStep DEF SweepTasks, Sweep
  <2>3. CASE SweepRequests(r)
    BY <1>t, <2>3, QuietStep DEF SweepRequests, FindExpired, Asleep
  <2>4. ASSUME NEW i \in rec[r].grants, ExpireGrant(r, i)
        PROVE  RequestStep
    BY <1>t, <1>u, <2>4, QuietStep DEF ExpireGrant, Sweep
  <2>5. ASSUME NEW t \in rec[r].tasks, ExpireTask(r, t)
        PROVE  RequestStep
    BY <1>t, <1>u, <2>5, QuietStep DEF ExpireTask, Sweep
  <2>6. CASE ExpireRequest(r)
    <3>1. loc' = loc /\ req' = UpdateRequestStatus(rec[r].ver, "expired")
          /\ rec[r].pc = "request" /\ rec' = [rec EXCEPT ![r].pc = "skip"]
      BY <2>6 DEF ExpireRequest
    <3>2. "expired" \in Terminal
      BY DEF Terminal
    <3>3. \A q \in Reconcilers : rec'[q].pc = "request" => rec'[q] = rec[q]
      BY <1>t, <1>u, <3>1 DEF Sweep
    <3> QED BY <1>t, <1>u, <1>v, <3>1, <3>2, <3>3, SwapStep
  <2>7. CASE ExpireSkip(r)
    BY <1>t, <2>7, QuietStep DEF ExpireSkip, Asleep
  <2> QED BY <1>3, <2>1, <2>2, <2>3, <2>4, <2>5, <2>6, <2>7 DEF Reconcile
<1>4. ASSUME NEW p \in Workers, WorkerFails(p)
      PROVE  RequestStep
  BY <1>t, <1>4, QuietStep DEF WorkerFails, Return, Idle
<1>5. ASSUME NEW r \in Reconcilers, SweepFails(r)
      PROVE  RequestStep
  <2>1. loc' = loc /\ req' = req
    BY <1>5 DEF SweepFails
  <2>2. Asleep.pc # "request" /\ [rec[r] EXCEPT !.grants = {}, !.tasks = {}].pc = rec[r].pc
    BY <1>u DEF Asleep, Sweep
  <2>3. \A q \in Reconcilers : rec'[q].pc = "request" => rec'[q] = rec[q]
    BY <1>t, <1>5, <2>2 DEF SweepFails
  <2> QED BY <2>1, <2>3, QuietStep
<1>6. CASE Admin \/ Tick \/ UNCHANGED vars
  <2>1. loc' = loc /\ req' = req /\ rec' = rec
    BY <1>6 DEF Admin, RevokeGrant, SetGrantWindow, UpdateTemplate, Tick, vars
  <2> QED BY <2>1, QuietStep
<1> QED BY <1>1, <1>2, <1>3, <1>4, <1>5, <1>6 DEF Next

\* Before the first request nobody holds a version.
LEMMA InitVersion == Init => VersionInv /\ StageClosedIffTerminal
  BY InitType DEF Init, VersionInv, VersionGuardsStatus, HoldsVersion, Idle, Asleep,
     NoRequest, StageClosedIffTerminal, Terminal

\* In every reachable state a version that still matches means that the
\* request is still pending, and its stage is -1 exactly if it is terminal.
THEOREM VersionCorrect == Spec => [](VersionGuardsStatus /\ StageClosedIffTerminal)
<1>1. Init => VersionInv /\ StageClosedIffTerminal
  BY InitVersion
<1>2. VersionInv /\ StageClosedIffTerminal /\ TypeInv' /\ [Next]_vars
        => VersionInv' /\ StageClosedIffTerminal'
  BY RequestNext DEF RequestStep
<1>3. VersionInv => VersionGuardsStatus
  BY DEF VersionInv
<1> QED BY <1>1, <1>2, <1>3, TypeCorrect, PTL DEF Spec

\* A terminal request never changes its status or its version again.
THEOREM TerminalFinal == Spec => TerminalIsFinal
<1>1. Init => VersionInv /\ StageClosedIffTerminal
  BY InitVersion
<1>2. VersionInv /\ StageClosedIffTerminal /\ TypeInv' /\ [Next]_vars
        => /\ VersionInv' /\ StageClosedIffTerminal'
           /\ [req.status \in Terminal => req'.status = req.status /\ req'.version = req.version]_vars
  BY RequestNext DEF RequestStep
<1> QED BY <1>1, <1>2, TypeCorrect, PTL DEF Spec, TerminalIsFinal
---------------------------------------------------------------------------
(* Verdicts are final *)

\* What a write to the task table may do to a row that exists.
Keeping(f) ==
    \A t \in TaskIds :
      /\ tasks[t].state \notin {"absent", "pending"} => f[t].state = tasks[t].state
      /\ tasks[t].state # "absent" => f[t].state # "absent"

\* The compare-and-swap on the task state, and the skip of the pending rows,
\* leave decided rows alone and insert none.
LEMMA DecisionKeeps ==
    ASSUME TypeOK, NEW u, NEW s \in TaskStates, NEW n
    PROVE  /\ Keeping(UpdateTaskDecision(u, s)) /\ Keeping(SkipRemainingTasks(n))
           /\ \A t \in TaskIds : tasks[t].state = "absent" =>
                 /\ UpdateTaskDecision(u, s)[t].state = "absent"
                 /\ SkipRemainingTasks(n)[t].state = "absent"
  BY DEF TypeOK, Keeping, UpdateTaskDecision, SkipRemainingTasks, TaskStates, Task

\* Inserted rows are new ones.
LEMMA CreateKeeps ==
    ASSUME TypeOK, NEW ids \in SUBSET TaskIds, NEW row,
           \A t \in ids : tasks[t].state = "absent"
    PROVE  Keeping(CreateTasks(ids, row))
  BY DEF TypeOK, Keeping, CreateTasks

\* Every step keeps what the task table says.
LEMMA TasksKept ==
    ASSUME TypeInv, [Next]_vars
    PROVE  Keeping(tasks')
<1> USE DEF TypeInv
<1>0. tasks' = tasks => Keeping(tasks')
  BY DEF Keeping
<1>1. ASSUME NEW p \in Workers, Call(p) \/ WorkerFails(p)
      PROVE  Keeping(tasks')
  BY <1>0, <1>1 DEF Call, CreateRequest, DecideLoad, CancelLoad, DelegateLoad, WorkerFails
<1>2. ASSUME NEW p \in Workers, WorkerStep(p)
      PROVE  Keeping(tasks')
  <2>1. CASE SpawnStage(p)
    BY <2>1, CreateKeeps DEF SpawnStage, Fresh
  <2>2. CASE DecideWrite(p)
    BY <2>2, DecisionKeeps DEF DecideWrite, TaskStates
  <2>3. CASE DecideSkip(p) \/ CancelSkip(p)
    BY <2>3, DecisionKeeps DEF DecideSkip, CancelSkip, TaskStates
  <2>4. CASE DelegateWrite(p)
    BY <2>4, DecisionKeeps DEF DelegateWrite, TaskStates
  <2>5. CASE DelegateSpawn(p)
    BY <2>5, CreateKeeps DEF DelegateSpawn, Fresh
  <2>6. CASE \/ NoTemplate(p) \/ \E auto \in BOOLEAN : PolicyMatched(p, auto)
             \/ DecideCheck(p) \/ DecideTally(p) \/ DecideNext(p) \/ DecideAdvance(p)
             \/ IssueGrant(p) \/ Resolve(p) \/ CancelWrite(p)
    BY <1>0, <2>6 DEF NoTemplate, PolicyMatched, DecideCheck, DecideTally, DecideNext,
       DecideAdvance, IssueGrant, Resolve, CancelWrite
  <2> QED BY <1>2, <2>1, <2>2, <2>3, <2>4, <2>5, <2>6 DEF WorkerStep
<1>3. ASSUME NEW r \in Reconcilers, Reconcile(r) \/ SweepFails(r)
      PROVE  Keeping(tasks')
  <2>1. ASSUME NEW t \in rec[r].tasks, ExpireTask(r, t)
        PROVE  Keeping(tasks')
    BY <2>1, DecisionKeeps DEF ExpireTask, TaskStates
  <2>2. CASE ExpireSkip(r)
    BY <2>2, DecisionKeeps DEF ExpireSkip, TaskStates
  <2>3. CASE \/ SweepGrants(r) \/ SweepTasks(r) \/ SweepRequests(r) \/ ExpireRequest(r)
             \/ SweepFails(r) \/ \E i \in rec[r].grants : ExpireGrant(r, i)
    BY <1>0, <2>3 DEF SweepGrants, SweepTasks, SweepRequests, ExpireRequest, SweepFails, ExpireGrant
  <2> QED BY <1>3, <2>1, <2>2, <2>3 DEF Reconcile
<1>4. CASE Admin \/ Tick \/ UNCHANGED vars
  BY <1>0, <1>4 DEF Admin, RevokeGrant, SetGrantWindow, UpdateTemplate, Tick, vars
<1> QED BY <1>1, <1>2, <1>3, <1>4 DEF Next

\* A decided task keeps its verdict for ever.
THEOREM VerdictFinal == Spec => VerdictIsFinal
<1>1. TypeInv /\ [Next]_vars =>
        [\A t \in TaskIds : tasks[t].state \notin {"absent", "pending"}
            => tasks'[t].state = tasks[t].state]_vars
  BY TasksKept DEF Keeping
<1> QED BY <1>1, TypeCorrect, PTL DEF Spec, VerdictIsFinal

---------------------------------------------------------------------------
(* No stage without an approval in the stage before it *)

\* There are finitely many task ids, so votes can be counted.
LEMMA TaskIdsFinite == IsFiniteSet(TaskIds)
<1> DEFINE P == ((0..(MaxStages - 1)) \X Users) \X (0..MaxGen)
           f == [x \in P |-> [stage |-> x[1][1], user |-> x[1][2], gen |-> x[2]]]
<1>1. IsFiniteSet(P)
  <2>1. IsFiniteSet(0..(MaxStages - 1)) /\ IsFiniteSet(0..MaxGen)
    BY ConstantsAssumption, FS_Interval
  <2>2. IsFiniteSet((0..(MaxStages - 1)) \X Users)
    BY <2>1, UsersAssumption, FS_Product
  <2> QED BY <2>1, <2>2, FS_Product
<1>2. f \in Surjection(P, TaskIds)
  <2>1. f \in [P -> TaskIds]
    BY DEF TaskIds
  <2>2. ASSUME NEW t \in TaskIds PROVE \E x \in P : f[x] = t
    <3> DEFINE x == <<<<t.stage, t.user>>, t.gen>>
    <3>1. x \in P
      BY DEF TaskIds
    <3>2. f[x] = t
      BY <3>1 DEF TaskIds
    <3> QED BY <3>1, <3>2
  <2> QED BY <2>1, <2>2 DEF Surjection
<1> QED BY <1>1, <1>2, FS_Surjection

\* A stage tallied approved holds at least one approval.
LEMMA ApprovedOutcome ==
    ASSUME NEW mode \in Modes, NEW n \in Nat, NEW ts \in SUBSET TaskIds,
           stageOutcomeFor(mode, n, ts) = "approved"
    PROVE  \E t \in ts : tasks[t].state = "approved"
<1> DEFINE A == {t \in ts : tasks[t].state \in {"approved"}}
           R == {t \in ts : tasks[t].state \in {"rejected"}}
           Q == {t \in ts : tasks[t].state \in {"pending", "delegated"}}
<1>1. IsFiniteSet(A) /\ IsFiniteSet(R) /\ IsFiniteSet(Q)
  BY TaskIdsFinite, FS_Subset
<1>2. Cardinality(A) \in Nat /\ Cardinality(R) \in Nat /\ Cardinality(Q) \in Nat
  BY <1>1, FS_CardinalityType
<1>3. Cardinality(A) # 0
  BY <1>2 DEF stageOutcomeFor, Votes, Modes
<1>4. A # {}
  BY <1>3, FS_EmptySet
<1> QED BY <1>4

\* The steps at which a worker works on a task row it has read.
HoldsTask == {"check", "write", "tally", "delegate", "delegated"}

\* What a worker's position tells about the stages behind it.
Earned(l) ==
    /\ l.pc \in HoldsTask => tasks[l.task].state # "absent"
    /\ l.pc = "skip" /\ l.goal # "rejected" => EarnedThrough(l.task.stage)
    /\ l.pc = "next" => EarnedThrough(l.task.stage)
    /\ l.pc \in {"advance", "spawn"} => EarnedThrough(l.stage - 1)
    /\ l.pc = "grant" => EarnedThrough(l.stage)

EarnedInv == TypeInv /\ StagesEarned /\ \A p \in Workers : Earned(loc[p])

\* Approvals are never lost, so what was earned stays earned.
LEMMA EarnedKept ==
    ASSUME TypeInv, Keeping(tasks'), NEW n
    PROVE  EarnedThrough(n) => EarnedThrough(n)'
<1>1. \A s : ApprovedIn(s) => ApprovedIn(s)'
  BY DEF ApprovedIn, Keeping
<1> QED BY <1>1 DEF EarnedThrough

\* A step keeps EarnedInv if every task row it inserts, every grant it adds
\* and every new position of a worker was earned before the step.
LEMMA EarnedStep ==
    ASSUME EarnedInv, TypeInv', Keeping(tasks'),
           \A t \in TaskIds : tasks'[t].state # "absent" =>
              tasks[t].state # "absent" \/ EarnedThrough(t.stage - 1),
           \A i \in DOMAIN grants' :
              \/ i \in DOMAIN grants /\ grants'[i].stage = grants[i].stage
              \/ EarnedThrough(grants'[i].stage),
           \A q \in Workers : Earned(loc'[q])
    PROVE  EarnedInv'
<1> USE DEF EarnedInv
<1>1. \A n : EarnedThrough(n) => EarnedThrough(n)'
  BY EarnedKept
<1>2. ASSUME NEW t \in TaskIds, tasks'[t].state # "absent"
      PROVE  EarnedThrough(t.stage - 1)'
  BY <1>1, <1>2 DEF StagesEarned
<1>3. ASSUME NEW i \in DOMAIN grants'
      PROVE  EarnedThrough(grants[i].stage)'
  <2>1. EarnedThrough(grants'[i].stage)
    BY <1>3 DEF StagesEarned
  <2> QED BY <1>1, <2>1
<1>4. ASSUME NEW q \in Workers
      PROVE  Earned(loc[q])'
  <2>1. loc'[q].pc \in HoldsTask => tasks'[loc'[q].task].state # "absent"
    <3>1. loc'[q].pc \in HoldsTask => loc'[q].task \in TaskIds
      BY DEF TypeInv, HandlerOK, Holds, HoldsTask
    <3> QED BY <3>1 DEF Keeping, Earned
  <2> QED BY <1>1, <2>1 DEF Earned
<1>5. StagesEarned'
  BY <1>2, <1>3 DEF StagesEarned
<1> QED BY <1>4, <1>5

\* The same for a step of one worker that inserts no row.
LEMMA EarnedLocal ==
    ASSUME EarnedInv, TypeInv', Keeping(tasks'),
           \A t \in TaskIds : tasks[t].state = "absent" => tasks'[t].state = "absent",
           grants' = grants, NEW p \in Workers, NEW l, Earned(l),
           loc' = [loc EXCEPT ![p] = l]
    PROVE  EarnedInv'
<1>1. \A q \in Workers : Earned(loc'[q])
  BY DEF EarnedInv, TypeInv, TypeOK
<1> QED BY <1>1, EarnedStep

\* An idle worker has promised nothing.
LEMMA IdleEarned == Earned(Idle)
  BY DEF Earned, HoldsTask, Idle

\* Every step of the system keeps EarnedInv.
LEMMA EarnedNext ==
    ASSUME EarnedInv, TypeInv', [Next]_vars
    PROVE  EarnedInv'
<1>k. Keeping(tasks')
  BY TasksKept DEF EarnedInv
<1>t. /\ TypeInv /\ TypeOK /\ loc \in [Workers -> Local] /\ tasks \in [TaskIds -> Task]
      /\ \A p \in Workers : loc[p] \in Local /\ Holds(loc[p]) /\ Earned(loc[p])
  BY DEF EarnedInv, TypeInv, TypeOK, HandlerOK
<1>n. \A n \in Int : n < 0 => EarnedThrough(n)
  BY DEF EarnedThrough
<1> DEFINE NoInsert == \A t \in TaskIds : tasks[t].state = "absent" => tasks'[t].state = "absent"
<1>1. ASSUME NEW p \in Workers, Call(p) \/ WorkerFails(p)
      PROVE  EarnedInv'
  <2>1. ASSUME NEW w \in Windows, CreateRequest(p, w)
        PROVE  EarnedInv'
    <3>1. Earned([Idle EXCEPT !.pc = "evaluate"])
      BY DEF Earned, HoldsTask, Idle
    <3> QED BY <1>k, <2>1, <3>1, EarnedLocal DEF CreateRequest
  <2>2. ASSUME NEW t \in TaskIds, NEW a \in BOOLEAN, NEW d \in Durations, DecideLoad(p, t, a, d)
        PROVE  EarnedInv'
    <3>1. Earned([Idle EXCEPT !.pc = "check", !.task = t, !.approve = a, !.dur = d,
                              !.ver = req.version])
      BY <2>2 DEF Earned, HoldsTask, Idle, DecideLoad
    <3> QED BY <1>k, <2>2, <3>1, EarnedLocal DEF DecideLoad
  <2>3. CASE CancelLoad(p)
    <3>1. Earned([Idle EXCEPT !.pc = "cancel", !.ver = req.version, !.stage = req.stage,
                              !.goal = "cancelled"])
      BY DEF Earned, HoldsTask, Idle
    <3> QED BY <1>k, <2>3, <3>1, EarnedLocal DEF CancelLoad
  <2>4. ASSUME NEW t \in TaskIds, NEW u \in Users, DelegateLoad(p, t, u)
        PROVE  EarnedInv'
    <3>1. Earned([Idle EXCEPT !.pc = "delegate", !.task = t, !.to = u])
      BY <2>4 DEF Earned, HoldsTask, Idle, DelegateLoad
    <3> QED BY <1>k, <2>4, <3>1, EarnedLocal DEF DelegateLoad
  <2>5. CASE WorkerFails(p)
    BY <1>k, <2>5, IdleEarned, EarnedLocal DEF WorkerFails, Return
  <2> QED BY <1>1, <2>1, <2>2, <2>3, <2>4, <2>5 DEF Call
<1>2. ASSUME NEW p \in Workers, WorkerStep(p)
      PROVE  EarnedInv'
  <2>g. ASSUME grants' = grants, NoInsert, NEW pc, Goto(p, pc),
               Earned([loc[p] EXCEPT !.pc = pc])
        PROVE  EarnedInv'
    BY <1>k, <2>g, EarnedLocal DEF Goto
  <2>r. ASSUME grants' = grants, NoInsert, Return(p)
        PROVE  EarnedInv'
    BY <1>k, <2>r, IdleEarned, EarnedLocal DEF Return
  <2>q. Earned(loc[p]) /\ Holds(loc[p]) /\ loc[p] \in Local
    BY <1>t
  <2>1. CASE NoTemplate(p)
    <3>1. Earned([loc[p] EXCEPT !.pc = "resolve", !.goal = "rejected"])
      BY <2>q DEF Earned, HoldsTask, Local
    <3> QED BY <1>k, <2>1, <3>1, EarnedLocal DEF NoTemplate
  <2>2. ASSUME NEW auto \in BOOLEAN, PolicyMatched(p, auto)
        PROVE  EarnedInv'
    <3>0. grants' = grants /\ tasks' = tasks
      BY <2>2 DEF PolicyMatched
    <3>1. CASE auto
      <4>1. Earned([loc[p] EXCEPT !.pc = "grant", !.cap = tpl.cap,
                                  !.stage = -1, !.goal = "auto_approved"])
        BY <1>n, <2>q DEF Earned, HoldsTask, Local
      <4> QED BY <1>k, <2>2, <3>0, <3>1, <4>1, EarnedLocal DEF PolicyMatched
    <3>2. CASE ~auto /\ tpl.stages = <<>>
      BY <2>2, <2>r, <3>0, <3>2 DEF PolicyMatched
    <3>3. CASE ~auto /\ tpl.stages # <<>>
      <4>1. Earned([loc[p] EXCEPT !.pc = "spawn", !.stages = tpl.stages, !.stage = 0])
        BY <1>n, <2>q DEF Earned, HoldsTask, Local
      <4> QED BY <1>k, <2>2, <3>0, <3>3, <4>1, EarnedLocal DEF PolicyMatched
    <3> QED BY <3>1, <3>2, <3>3
  <2>3. CASE SpawnStage(p)
    <3>1. EarnedThrough(loc[p].stage - 1)
      BY <2>3, <2>q DEF SpawnStage, Earned, HoldsTask
    <3>2. \A t \in TaskIds : tasks'[t].state # "absent" =>
             tasks[t].state # "absent" \/ t.stage = loc[p].stage
      BY <2>3 DEF SpawnStage, CreateTasks, Fresh
    <3>3. grants' = grants /\ loc' = [loc EXCEPT ![p] = Idle]
      BY <2>3 DEF SpawnStage, Return
    <3>4. \A q \in Workers : Earned(loc'[q])
      BY <1>t, <3>3, IdleEarned
    <3> QED BY <1>k, <3>1, <3>2, <3>3, <3>4, EarnedStep
  <2>4. CASE DecideCheck(p)
    <3>1. Earned([loc[p] EXCEPT !.pc = "write"])
      BY <2>4, <2>q DEF Earned, HoldsTask, Local, DecideCheck
    <3> QED BY <2>4, <2>g, <2>r, <3>1 DEF DecideCheck
  <2>5. CASE DecideWrite(p)
    <3>1. Earned([loc[p] EXCEPT !.pc = "tally"])
      BY <2>5, <2>q DEF Earned, HoldsTask, Local, DecideWrite
    <3>2. NoInsert
      BY <1>t, <2>5, DecisionKeeps DEF DecideWrite, TaskStates
    <3> QED BY <2>5, <2>g, <3>1, <3>2 DEF DecideWrite
  <2>6. CASE DecideTally(p)
    <3> DEFINE t == loc[p].task
               o == stageOutcomeFor(tasks[t].mode, tasks[t].quorumN, StageTasks(t.stage))
               l == [loc[p] EXCEPT !.pc = "skip", !.goal = o]
    <3>0. t \in TaskIds /\ tasks[t].mode \in Modes /\ tasks[t].quorumN \in Nat
          /\ grants' = grants /\ tasks' = tasks
      <4>1. t \in TaskIds
        BY <2>6, <2>q DEF DecideTally, Holds
      <4>2. tasks[t] \in Task
        BY <1>t, <4>1
      <4> QED BY <2>6, <4>1, <4>2 DEF Task, DecideTally
    <3>1. CASE o = "still_running"
      BY <2>6, <2>r, <3>0, <3>1 DEF DecideTally
    <3>2. CASE o # "still_running"
      <4>1. o = "approved" => ApprovedIn(t.stage)
        <5>1. StageTasks(t.stage) \in SUBSET TaskIds
          BY DEF StageTasks
        <5>2. o = "approved" => \E u \in StageTasks(t.stage) : tasks[u].state = "approved"
          BY <3>0, <5>1, ApprovedOutcome
        <5> QED BY <5>2 DEF StageTasks, ApprovedIn
      <4>2. t.stage \in Nat
        BY <3>0, ConstantsAssumption DEF TaskIds
      <4>3. o = "approved" => EarnedThrough(t.stage)
        <5>0. SUFFICES ASSUME o = "approved" PROVE EarnedThrough(t.stage)
          OBVIOUS
        <5>1. tasks[t].state # "absent"
          <6>1. tasks[t].state # "absent"
            BY <2>6, <2>q DEF Earned, HoldsTask, DecideTally
          <6> QED BY <6>1
        <5>2. EarnedThrough(t.stage - 1)
          BY <3>0, <5>1 DEF EarnedInv, StagesEarned
        <5>3. \A s \in 0..t.stage : s \in 0..(t.stage - 1) \/ s = t.stage
          BY <4>2
        <5> QED BY <4>1, <5>0, <5>2, <5>3 DEF EarnedThrough
      <4>4. o # "rejected" => o = "approved"
        BY <3>0, <3>2, OutcomeType
      <4>5. l.pc = "skip" /\ l.goal = o /\ l.task = t
        BY <2>q DEF Local
      <4>6. Earned(l)
        BY <4>3, <4>4, <4>5 DEF Earned, HoldsTask
      <4> QED BY <1>k, <2>6, <3>0, <3>2, <4>6, EarnedLocal DEF DecideTally
    <3> QED BY <3>1, <3>2
  <2>7. CASE DecideSkip(p)
    <3>1. NoInsert /\ grants' = grants
      BY <1>t, <2>7, DecisionKeeps DEF DecideSkip, TaskStates
    <3>2. Earned([loc[p] EXCEPT !.pc = "resolve"])
      BY <2>q DEF Earned, HoldsTask, Local
    <3>3. CASE loc[p].goal = "rejected"
      BY <2>7, <2>g, <3>1, <3>2, <3>3 DEF DecideSkip
    <3>4. CASE loc[p].goal # "rejected"
      <4>1. Earned([loc[p] EXCEPT !.pc = "next"])
        BY <2>7, <2>q, <3>4 DEF Earned, HoldsTask, Local, DecideSkip
      <4> QED BY <2>7, <2>g, <3>1, <3>4, <4>1 DEF DecideSkip
    <3> QED BY <3>3, <3>4
  <2>8. CASE DecideNext(p)
    <3> DEFINE n == loc[p].task.stage + 1
    <3>1. EarnedThrough(n - 1) /\ n - 1 = loc[p].task.stage
      <4>1. loc[p].task.stage \in Int
        BY <2>8, <2>q, ConstantsAssumption DEF DecideNext, Holds, TaskIds
      <4> QED BY <2>8, <2>q, <4>1 DEF DecideNext, Earned, HoldsTask
    <3>2. Earned([loc[p] EXCEPT !.pc = "grant", !.stage = n - 1])
      BY <2>q, <3>1 DEF Earned, HoldsTask, Local
    <3>3. Earned([loc[p] EXCEPT !.pc = "advance", !.stages = tpl.stages, !.stage = n])
      BY <2>q, <3>1 DEF Earned, HoldsTask, Local
    <3>4. NoInsert /\ grants' = grants
      BY <2>8 DEF DecideNext
    <3> QED BY <1>k, <2>8, <3>2, <3>3, <3>4, EarnedLocal DEF DecideNext
  <2>9. CASE DecideAdvance(p)
    <3>1. Earned([loc[p] EXCEPT !.pc = "spawn"])
      BY <2>9, <2>q DEF Earned, HoldsTask, Local, DecideAdvance
    <3> QED BY <2>9, <2>g, <2>r, <3>1 DEF DecideAdvance
  <2>10. CASE IssueGrant(p)
    <3>1. EarnedThrough(loc[p].stage)
      BY <2>10, <2>q DEF IssueGrant, Earned, HoldsTask
    <3>2. \A i \in DOMAIN grants' :
             \/ i \in DOMAIN grants /\ grants'[i].stage = grants[i].stage
             \/ grants'[i].stage = loc[p].stage
      BY <1>t, <2>10 DEF IssueGrant, TypeOK
    <3>3. Earned([loc[p] EXCEPT !.pc = "resolve"])
      BY <2>q DEF Earned, HoldsTask, Local
    <3>4. tasks' = tasks /\ \A q \in Workers : Earned(loc'[q])
      <4>1. tasks' = tasks
        BY <2>10 DEF IssueGrant
      <4>2. CASE grants = <<>>
        BY <1>t, <2>10, <3>3, <4>1, <4>2 DEF IssueGrant, Goto
      <4>3. CASE grants # <<>>
        BY <1>t, <2>10, <4>1, <4>3, IdleEarned DEF IssueGrant, Return
      <4> QED BY <4>2, <4>3
    <3>5. \A i \in DOMAIN grants' :
             \/ i \in DOMAIN grants /\ grants'[i].stage = grants[i].stage
             \/ EarnedThrough(grants'[i].stage)
      BY <3>1, <3>2
    <3> QED BY <1>k, <3>4, <3>5, EarnedStep
  <2>11. CASE Resolve(p)
    BY <2>11, <2>r DEF Resolve
  <2>12. CASE CancelWrite(p)
    <3>1. Earned([loc[p] EXCEPT !.pc = "cancelskip"])
      BY <2>q DEF Earned, HoldsTask, Local
    <3> QED BY <2>12, <2>g, <3>1 DEF CancelWrite
  <2>13. CASE CancelSkip(p)
    <3>1. NoInsert
      BY <1>t, <2>13, DecisionKeeps DEF CancelSkip, TaskStates
    <3> QED BY <2>13, <2>r, <3>1 DEF CancelSkip
  <2>14. CASE DelegateWrite(p)
    <3>1. Earned([loc[p] EXCEPT !.pc = "delegated"])
      BY <2>14, <2>q DEF Earned, HoldsTask, Local, DelegateWrite
    <3>2. NoInsert /\ grants' = grants
      BY <1>t, <2>14, DecisionKeeps DEF DelegateWrite, TaskStates
    <3> QED BY <2>14, <2>g, <2>r, <3>1, <3>2 DEF DelegateWrite
  <2>15. CASE DelegateSpawn(p)
    <3>1. loc[p].task \in TaskIds /\ tasks[loc[p].task].state # "absent"
      BY <2>15, <2>q DEF DelegateSpawn, Holds, Earned, HoldsTask
    <3>2. EarnedThrough(loc[p].task.stage - 1)
      BY <3>1 DEF EarnedInv, StagesEarned
    <3>3. \A t \in TaskIds : tasks'[t].state # "absent" =>
             tasks[t].state # "absent" \/ t.stage = loc[p].task.stage
      BY <2>15 DEF DelegateSpawn, CreateTasks, Fresh
    <3>4. grants' = grants /\ loc' = [loc EXCEPT ![p] = Idle]
      BY <2>15 DEF DelegateSpawn, Return
    <3>5. \A q \in Workers : Earned(loc'[q])
      BY <1>t, <3>4, IdleEarned
    <3> QED BY <1>k, <3>2, <3>3, <3>4, <3>5, EarnedStep
  <2> QED BY <1>2, <2>1, <2>2, <2>3, <2>4, <2>5, <2>6, <2>7, <2>8, <2>9, <2>10, <2>11,
             <2>12, <2>13, <2>14, <2>15 DEF WorkerStep
<1>3. ASSUME loc' = loc, NoInsert,
             \A i \in DOMAIN grants' : i \in DOMAIN grants /\ grants'[i].stage = grants[i].stage
      PROVE  EarnedInv'
  BY <1>k, <1>t, <1>3, EarnedStep
<1>g. \A i \in DOMAIN grants : grants[i] \in Grant
  BY <1>t DEF TypeOK
<1>4. ASSUME NEW r \in Reconcilers, Reconcile(r) \/ SweepFails(r)
      PROVE  EarnedInv'
  <2>1. ASSUME NEW i \in rec[r].grants, ExpireGrant(r, i)
        PROVE  EarnedInv'
    <3>1. \A j \in DOMAIN grants' : j \in DOMAIN grants /\ grants'[j].stage = grants[j].stage
      BY <1>g, <1>t, <2>1 DEF ExpireGrant, Grant, TypeOK
    <3> QED BY <1>3, <2>1, <3>1 DEF ExpireGrant
  <2>2. ASSUME NEW t \in rec[r].tasks, ExpireTask(r, t)
        PROVE  EarnedInv'
    <3>1. NoInsert
      BY <1>t, <2>2, DecisionKeeps DEF ExpireTask, TaskStates
    <3> QED BY <1>3, <2>2, <3>1 DEF ExpireTask
  <2>3. CASE ExpireSkip(r)
    <3>1. NoInsert
      BY <1>t, <2>3, DecisionKeeps DEF ExpireSkip, TaskStates
    <3> QED BY <1>3, <2>3, <3>1 DEF ExpireSkip
  <2>4. CASE SweepGrants(r) \/ SweepTasks(r) \/ SweepRequests(r) \/ ExpireRequest(r) \/ SweepFails(r)
    BY <1>3, <2>4 DEF SweepGrants, SweepTasks, SweepRequests, ExpireRequest, SweepFails
  <2> QED BY <1>4, <2>1, <2>2, <2>3, <2>4 DEF Reconcile
<1>5. CASE Admin
  <2>1. ASSUME NEW i \in DOMAIN grants, RevokeGrant(i)
        PROVE  EarnedInv'
    <3>1. \A j \in DOMAIN grants' : j \in DOMAIN grants /\ grants'[j].stage = grants[j].stage
      BY <1>g, <1>t, <2>1 DEF RevokeGrant, Grant, TypeOK
    <3> QED BY <1>3, <2>1, <3>1 DEF RevokeGrant
  <2>2. ASSUME NEW i \in DOMAIN grants, NEW d \in Durations, SetGrantWindow(i, d)
        PROVE  EarnedInv'
    <3>1. \A j \in DOMAIN grants' : j \in DOMAIN grants /\ grants'[j].stage = grants[j].stage
      BY <1>g, <1>t, <2>2 DEF SetGrantWindow, Grant, TypeOK
    <3> QED BY <1>3, <2>2, <3>1 DEF SetGrantWindow
  <2>3. ASSUME NEW d \in Templates, UpdateTemplate(d)
        PROVE  EarnedInv'
    BY <1>3, <2>3 DEF UpdateTemplate
  <2> QED BY <1>5, <2>1, <2>2, <2>3 DEF Admin
<1>6. CASE Tick \/ UNCHANGED vars
  BY <1>3, <1>6 DEF Tick, vars
<1> QED BY <1>1, <1>2, <1>4, <1>5, <1>6 DEF Next

\* No request row, no task row, no grant: nothing has to be earned yet.
LEMMA InitEarned == Init => StagesEarned /\ \A p \in Workers : Earned(loc[p])
<1> SUFFICES ASSUME Init PROVE StagesEarned /\ \A p \in Workers : Earned(loc[p])
  OBVIOUS
<1>1. \A t \in TaskIds : tasks[t].state = "absent"
  BY DEF Init, NoRow
<1>2. DOMAIN grants = {}
  BY DEF Init
<1>3. \A p \in Workers : loc[p] = Idle
  BY DEF Init
<1> QED BY <1>1, <1>2, <1>3, IdleEarned DEF StagesEarned

\* No stage is opened and no grant issued before every earlier stage holds
\* an approval, whatever handlers, reconcilers and template edits do.
THEOREM StagesEarnedCorrect == Spec => []StagesEarned
<1>1. Init /\ TypeInv => EarnedInv
  BY InitEarned DEF EarnedInv
<1>2. EarnedInv /\ TypeInv' /\ [Next]_vars => EarnedInv'
  BY EarnedNext
<1>3. EarnedInv => StagesEarned
  BY DEF EarnedInv
<1> QED BY <1>1, <1>2, <1>3, TypeCorrect, PTL DEF Spec

---------------------------------------------------------------------------
(* An approved request has a grant *)

Granting == {"approved", "auto_approved"}

\* A worker about to write an approving status has seen a grant inserted.
Backed(l) == l.pc = "resolve" /\ l.goal \in Granting => grants # <<>>

BackedInv == ApprovedHasGrant /\ \A p \in Workers : Backed(loc[p])

\* Grants are never deleted; so it is enough that a new approving status and
\* a new promise of one come with a grant.
LEMMA BackedStep ==
    ASSUME BackedInv, grants # <<>> => grants' # <<>>,
           req'.status \in Granting => req.status \in Granting \/ grants # <<>>,
           \A q \in Workers : loc'[q].pc = "resolve" /\ loc'[q].goal \in Granting =>
               loc'[q] = loc[q] \/ grants' # <<>>
    PROVE  BackedInv'
  BY DEF BackedInv, ApprovedHasGrant, Backed, Granting

\* A worker's move to l, in a step that leaves the grants and the status alone.
LEMMA BackedMove ==
    ASSUME TypeInv, BackedInv, grants' = grants, req'.status = req.status,
           NEW p \in Workers, NEW l, ~(l.pc = "resolve" /\ l.goal \in Granting),
           loc' = [loc EXCEPT ![p] = l]
    PROVE  BackedInv'
<1>1. \A q \in Workers : loc'[q] = loc[q] \/ loc'[q] = l
  BY DEF TypeInv, TypeOK
<1> QED BY <1>1, BackedStep

\* The status after a compare-and-swap is the old one or the one asked for.
LEMMA SwapStatus ==
    ASSUME req \in Request, NEW v, NEW s, NEW n
    PROVE  /\ UpdateRequestStatus(v, s).status \in {req.status, s}
           /\ AdvanceStage(v, n).status = req.status
  BY DEF UpdateRequestStatus, AdvanceStage, Request

\* Every step of the system keeps BackedInv.
LEMMA BackedNext ==
    ASSUME BackedInv, TypeInv, [Next]_vars
    PROVE  BackedInv'
<1>t. /\ loc \in [Workers -> Local] /\ req \in Request /\ grants \in Seq(Grant)
      /\ \A p \in Workers : loc[p] \in Local
  BY DEF TypeInv, TypeOK
<1>r. ASSUME NEW p \in Workers, Return(p), grants' = grants, req'.status = req.status
      PROVE  BackedInv'
  BY <1>r, BackedMove DEF Return, Idle
<1>g. ASSUME NEW p \in Workers, NEW pc, pc # "resolve", Goto(p, pc),
             grants' = grants, req'.status = req.status
      PROVE  BackedInv'
  <2>1. [loc[p] EXCEPT !.pc = pc].pc = pc
    BY <1>t DEF Local
  <2> QED BY <1>g, <2>1, BackedMove DEF Goto
<1>1. ASSUME NEW p \in Workers, Call(p) \/ WorkerFails(p)
      PROVE  BackedInv'
  <2>1. ASSUME NEW w \in Windows, CreateRequest(p, w)
        PROVE  BackedInv'
    <3>1. req'.status \notin Granting
      BY <2>1 DEF CreateRequest, NoRequest, Granting
    <3>2. \A q \in Workers : loc'[q] = loc[q] \/ loc'[q] = [Idle EXCEPT !.pc = "evaluate"]
      BY <1>t, <2>1 DEF CreateRequest
    <3>3. grants' = grants /\ [Idle EXCEPT !.pc = "evaluate"].pc = "evaluate"
      BY <2>1 DEF CreateRequest, Idle
    <3> QED BY <3>1, <3>2, <3>3, BackedStep
  <2>2. ASSUME NEW t \in TaskIds, NEW a \in BOOLEAN, NEW d \in Durations, DecideLoad(p, t, a, d)
        PROVE  BackedInv'
    BY <2>2, BackedMove DEF DecideLoad, Idle
  <2>3. CASE CancelLoad(p)
    BY <2>3, BackedMove DEF CancelLoad, Idle
  <2>4. ASSUME NEW t \in TaskIds, NEW u \in Users, DelegateLoad(p, t, u)
        PROVE  BackedInv'
    BY <2>4, BackedMove DEF DelegateLoad, Idle
  <2>5. CASE WorkerFails(p)
    BY <1>r, <2>5 DEF WorkerFails
  <2> QED BY <1>1, <2>1, <2>2, <2>3, <2>4, <2>5 DEF Call
<1>2. ASSUME NEW p \in Workers, WorkerStep(p)
      PROVE  BackedInv'
  <2>q. loc[p] \in Local /\ Backed(loc[p])
    BY <1>t DEF BackedInv
  <2>1. CASE NoTemplate(p)
    <3>1. [loc[p] EXCEPT !.pc = "resolve", !.goal = "rejected"].goal \notin Granting
      BY <2>q DEF Local, Granting
    <3> QED BY <2>1, <3>1, BackedMove DEF NoTemplate
  <2>2. ASSUME NEW auto \in BOOLEAN, PolicyMatched(p, auto)
        PROVE  BackedInv'
    <3>1. req'.status = req.status /\ grants' = grants
      BY <1>t, <2>2 DEF PolicyMatched, Request
    <3>2. [loc[p] EXCEPT !.pc = "grant", !.cap = tpl.cap, !.stage = -1,
                         !.goal = "auto_approved"].pc = "grant"
      BY <2>q DEF Local
    <3>3. [loc[p] EXCEPT !.pc = "spawn", !.stages = tpl.stages, !.stage = 0].pc = "spawn"
      BY <2>q DEF Local
    <3>4. CASE auto
      BY <2>2, <3>1, <3>2, <3>4, BackedMove DEF PolicyMatched
    <3>5. CASE ~auto /\ tpl.stages # <<>>
      BY <2>2, <3>1, <3>3, <3>5, BackedMove DEF PolicyMatched
    <3> QED BY <1>r, <2>2, <3>1, <3>4, <3>5 DEF PolicyMatched
  <2>3. CASE SpawnStage(p) \/ CancelSkip(p) \/ DelegateSpawn(p)
    BY <1>r, <2>3 DEF SpawnStage, CancelSkip, DelegateSpawn
  <2>4. CASE DecideCheck(p) \/ DecideWrite(p)
    BY <1>r, <1>g, <2>4 DEF DecideCheck, DecideWrite
  <2>5. CASE DecideTally(p)
    <3>1. \A o : [loc[p] EXCEPT !.pc = "skip", !.goal = o].pc = "skip"
      BY <2>q DEF Local
    <3> QED BY <1>r, <2>5, <3>1, BackedMove DEF DecideTally
  <2>6. CASE DecideSkip(p)
    <3>1. loc[p].goal = "rejected" =>
             [loc[p] EXCEPT !.pc = "resolve"].goal \notin Granting
      BY <2>q DEF Local, Granting
    <3> QED BY <1>g, <2>6, <3>1, BackedMove DEF DecideSkip, Goto
  <2>7. CASE DecideNext(p)
    <3>1. \A n : /\ [loc[p] EXCEPT !.pc = "grant", !.stage = n].pc = "grant"
                /\ [loc[p] EXCEPT !.pc = "advance", !.stages = tpl.stages, !.stage = n].pc
                     = "advance"
      BY <2>q DEF Local
    <3> QED BY <2>7, <3>1, BackedMove DEF DecideNext
  <2>8. CASE DecideAdvance(p)
    BY <1>r, <1>g, <1>t, <2>8, SwapStatus DEF DecideAdvance
  <2>9. CASE IssueGrant(p)
    <3>1. grants' # <<>> /\ req' = req
      <4>1. CASE grants = <<>>
        <5>1. PICK g : grants' = <<g>>
          BY <2>9, <4>1 DEF IssueGrant
        <5> QED BY <2>9, <5>1 DEF IssueGrant
      <4>2. CASE grants # <<>>
        BY <2>9, <4>2 DEF IssueGrant
      <4> QED BY <4>1, <4>2
    <3> QED BY <3>1, BackedStep
  <2>10. CASE Resolve(p)
    <3>1. req'.status \in {req.status, loc[p].goal} /\ grants' = grants
      BY <1>t, <2>10, SwapStatus DEF Resolve
    <3>2. loc[p].goal \in Granting => grants # <<>>
      BY <2>10, <2>q DEF Resolve, Backed
    <3>3. \A q \in Workers : loc'[q] = loc[q] \/ loc'[q] = Idle
      BY <1>t, <2>10 DEF Resolve, Return
    <3>4. Idle.pc # "resolve"
      BY DEF Idle
    <3> QED BY <3>1, <3>2, <3>3, <3>4, BackedStep
  <2>11. CASE CancelWrite(p)
    <3>1. req'.status \in {req.status, "cancelled"} /\ grants' = grants
      BY <1>t, <2>11, SwapStatus DEF CancelWrite
    <3>2. \A q \in Workers : loc'[q] = loc[q] \/ loc'[q].pc = "cancelskip"
      BY <1>t, <2>q, <2>11 DEF CancelWrite, Goto, Local
    <3> QED BY <3>1, <3>2, BackedStep DEF Granting
  <2>12. CASE DelegateWrite(p)
    BY <1>r, <1>g, <2>12 DEF DelegateWrite
  <2> QED BY <1>2, <2>1, <2>2, <2>3, <2>4, <2>5, <2>6, <2>7, <2>8, <2>9, <2>10, <2>11,
             <2>12 DEF WorkerStep
<1>3. ASSUME loc' = loc, req'.status \in Granting => req.status \in Granting,
             grants # <<>> => grants' # <<>>
      PROVE  BackedInv'
  BY <1>3, BackedStep
<1>d. ASSUME NEW i, NEW g PROVE grants # <<>> => [grants EXCEPT ![i] = g] # <<>>
  <2>1. grants # <<>> => 1 \in DOMAIN grants
    BY <1>t
  <2> QED BY <2>1
<1>4. ASSUME NEW r \in Reconcilers, Reconcile(r) \/ SweepFails(r)
      PROVE  BackedInv'
  <2>1. ASSUME NEW i \in rec[r].grants, ExpireGrant(r, i)
        PROVE  BackedInv'
    BY <1>3, <1>d, <2>1 DEF ExpireGrant
  <2>2. CASE ExpireRequest(r)
    <3>1. req'.status \in {req.status, "expired"}
      BY <1>t, <2>2, SwapStatus DEF ExpireRequest
    <3> QED BY <1>3, <2>2, <3>1 DEF ExpireRequest, Granting
  <2>3. CASE \/ SweepGrants(r) \/ SweepTasks(r) \/ SweepRequests(r) \/ ExpireSkip(r)
             \/ SweepFails(r) \/ \E t \in rec[r].tasks : ExpireTask(r, t)
    BY <1>3, <2>3 DEF SweepGrants, SweepTasks, SweepRequests, ExpireSkip, SweepFails, ExpireTask
  <2> QED BY <1>4, <2>1, <2>2, <2>3 DEF Reconcile
<1>5. CASE Admin \/ Tick \/ UNCHANGED vars
  BY <1>3, <1>d, <1>5 DEF Admin, RevokeGrant, SetGrantWindow, UpdateTemplate, Tick, vars
<1> QED BY <1>1, <1>2, <1>4, <1>5 DEF Next

\* A request that reads approved has a grant, also when a handler died
\* between its two writes.
THEOREM ApprovedBacked == Spec => []ApprovedHasGrant
<1>1. Init => BackedInv
  BY DEF Init, BackedInv, ApprovedHasGrant, Backed, NoRequest, Idle
<1>2. BackedInv /\ TypeInv /\ [Next]_vars => BackedInv'
  BY BackedNext
<1>3. BackedInv => ApprovedHasGrant
  BY DEF BackedInv
<1> QED BY <1>1, <1>2, <1>3, TypeCorrect, PTL DEF Spec

---------------------------------------------------------------------------
(* The approval service implements RequestLife *)

\* Overwriting an element does not make a sequence empty.
LEMMA StillGranted ==
    ASSUME grants \in Seq(Grant), NEW i, NEW g
    PROVE  ([grants EXCEPT ![i] = g] # <<>>) = (grants # <<>>)
<1>1. DOMAIN [grants EXCEPT ![i] = g] = DOMAIN grants
  OBVIOUS
<1>2. grants # <<>> => 1 \in DOMAIN grants
  OBVIOUS
<1>3. grants = <<>> => DOMAIN grants = {}
  OBVIOUS
<1>4. CASE grants = <<>>
  <2>1. [grants EXCEPT ![i] = g] = grants
    BY <1>4
  <2> QED BY <2>1
<1>5. CASE grants # <<>>
  BY <1>1, <1>2, <1>5
<1> QED BY <1>4, <1>5

\* A compare-and-swap of the status by a handler that holds a version.
LEMMA LifeSwap ==
    ASSUME VersionInv, NEW v \in Nat, v = req.version => req.status = "pending",
           NEW s \in Terminal, s \in Granting => grants # <<>>,
           req' = UpdateRequestStatus(v, s), grants' = grants
    PROVE  [Life!Next]_<<req.status, (grants # <<>>)>>
<1>1. TypeOK
  BY DEF VersionInv, TypeInv
<1>2. CASE v = req.version
  <2>1. req.status = "pending" /\ req'.status = s
    BY <1>1, <1>2, SwapEffect
  <2>2. s \in Life!Terminal /\ (s \in Life!Granting => grants # <<>>)
    BY DEF Terminal, Granting, Life!Terminal, Life!Granting
  <2> QED BY <2>1, <2>2 DEF Life!Next, Life!Finish
<1>3. CASE v # req.version
  BY <1>1, <1>3, SwapEffect
<1> QED BY <1>2, <1>3

\* Every step of the service is a step of RequestLife, or invisible to it.
LEMMA LifeNext ==
    ASSUME VersionInv, BackedInv, [Next]_vars
    PROVE  [Life!Next]_<<req.status, (grants # <<>>)>>
<1> DEFINE Seen == [Life!Next]_<<req.status, (grants # <<>>)>>
<1>t. /\ TypeOK /\ HandlerOK /\ grants \in Seq(Grant) /\ req \in Request
      /\ loc \in [Workers -> Local]
      /\ \A p \in Workers : loc[p] \in Local /\ loc[p].ver \in Nat /\ loc[p].goal \in Terminal
      /\ \A r \in Reconcilers : rec[r].ver \in Nat
  BY DEF VersionInv, TypeInv, TypeOK, Local, Sweep
<1>v. /\ \A p \in Workers : loc[p].pc \in HoldsVersion =>
            /\ loc[p].ver <= req.version
            /\ loc[p].ver = req.version => req.status = "pending"
      /\ \A r \in Reconcilers : rec[r].pc = "request" =>
            (rec[r].ver = req.version => req.status = "pending")
  BY DEF VersionInv, VersionGuardsStatus
<1>q. ASSUME req'.status = req.status, (grants' # <<>>) = (grants # <<>>)
      PROVE  Seen
  BY <1>q
<1>1. ASSUME NEW p \in Workers, Call(p) \/ WorkerStep(p) \/ WorkerFails(p)
      PROVE  Seen
  <2>1. ASSUME NEW w \in Windows, CreateRequest(p, w)
        PROVE  Seen
    <3>1. req.status = "absent" /\ req'.status = "pending" /\ grants' = grants
      BY <2>1 DEF CreateRequest, NoRequest
    <3> QED BY <3>1 DEF Life!Next, Life!File
  <2>2. CASE IssueGrant(p)
    <3>1. req' = req /\ grants' # <<>> /\ loc[p].pc \in HoldsVersion
      <4>1. req' = req /\ loc[p].pc \in HoldsVersion
        BY <2>2 DEF IssueGrant, HoldsVersion
      <4>2. CASE grants = <<>>
        <5>1. PICK g : grants' = <<g>>
          BY <2>2, <4>2 DEF IssueGrant
        <5> QED BY <4>1, <5>1
      <4>3. CASE grants # <<>>
        BY <2>2, <4>1, <4>3 DEF IssueGrant
      <4> QED BY <4>2, <4>3
    <3>2. req.status # "absent"
      <4>1. loc[p].ver \in Nat /\ req.version \in Nat
        BY <1>t DEF Request
      <4> QED BY <1>v, <3>1, <4>1 DEF VersionInv
    <3> QED BY <3>1, <3>2 DEF Life!Next, Life!Issue
  <2>3. CASE Resolve(p)
    <3>1. /\ req' = UpdateRequestStatus(loc[p].ver, loc[p].goal) /\ grants' = grants
          /\ loc[p].pc = "resolve" /\ loc[p].pc \in HoldsVersion
      BY <2>3 DEF Resolve, HoldsVersion
    <3>2. loc[p].goal \in Granting => grants # <<>>
      BY <3>1 DEF BackedInv, Backed
    <3> QED BY <1>t, <1>v, <3>1, <3>2, LifeSwap
  <2>4. CASE CancelWrite(p)
    <3>1. /\ req' = UpdateRequestStatus(loc[p].ver, "cancelled") /\ grants' = grants
          /\ loc[p].pc \in HoldsVersion
      BY <2>4 DEF CancelWrite, HoldsVersion
    <3>2. "cancelled" \in Terminal /\ "cancelled" \notin Granting
      BY DEF Terminal, Granting
    <3> QED BY <1>t, <1>v, <3>1, <3>2, LifeSwap
  <2>5. CASE DecideAdvance(p)
    <3>1. req'.status = req.status /\ grants' = grants
      BY <1>t, <2>5, SwapStatus DEF DecideAdvance
    <3> QED BY <1>q, <3>1
  <2>6. ASSUME NEW auto \in BOOLEAN, PolicyMatched(p, auto)
        PROVE  Seen
    <3>1. req'.status = req.status /\ grants' = grants
      BY <1>t, <2>6 DEF PolicyMatched, Request
    <3> QED BY <1>q, <3>1
  <2>7. CASE \/ \E t \in TaskIds, a \in BOOLEAN, d \in Durations : DecideLoad(p, t, a, d)
             \/ CancelLoad(p) \/ \E t \in TaskIds, u \in Users : DelegateLoad(p, t, u)
             \/ NoTemplate(p) \/ SpawnStage(p) \/ DecideCheck(p) \/ DecideWrite(p)
             \/ DecideTally(p) \/ DecideSkip(p) \/ DecideNext(p) \/ CancelSkip(p)
             \/ DelegateWrite(p) \/ DelegateSpawn(p) \/ WorkerFails(p)
    <3>1. req' = req /\ grants' = grants
      BY <2>7 DEF DecideLoad, CancelLoad, DelegateLoad, NoTemplate, SpawnStage, DecideCheck,
         DecideWrite, DecideTally, DecideSkip, DecideNext, CancelSkip, DelegateWrite,
         DelegateSpawn, WorkerFails
    <3> QED BY <1>q, <3>1
  <2> QED BY <1>1, <2>1, <2>2, <2>3, <2>4, <2>5, <2>6, <2>7 DEF Call, WorkerStep
<1>2. ASSUME NEW r \in Reconcilers, Reconcile(r) \/ SweepFails(r)
      PROVE  Seen
  <2>1. CASE ExpireRequest(r)
    <3>1. /\ req' = UpdateRequestStatus(rec[r].ver, "expired") /\ grants' = grants
          /\ rec[r].pc = "request"
      BY <2>1 DEF ExpireRequest
    <3>2. "expired" \in Terminal /\ "expired" \notin Granting
      BY DEF Terminal, Granting
    <3> QED BY <1>t, <1>v, <3>1, <3>2, LifeSwap
  <2>2. ASSUME NEW i \in rec[r].grants, ExpireGrant(r, i)
        PROVE  Seen
    <3>1. req' = req /\ (grants' # <<>>) = (grants # <<>>)
      BY <1>t, <2>2, StillGranted DEF ExpireGrant
    <3> QED BY <1>q, <3>1
  <2>3. CASE \/ SweepGrants(r) \/ SweepTasks(r) \/ SweepRequests(r) \/ ExpireSkip(r)
             \/ SweepFails(r) \/ \E t \in rec[r].tasks : ExpireTask(r, t)
    <3>1. req' = req /\ grants' = grants
      BY <2>3 DEF SweepGrants, SweepTasks, SweepRequests, ExpireSkip, SweepFails, ExpireTask
    <3> QED BY <1>q, <3>1
  <2> QED BY <1>2, <2>1, <2>2, <2>3 DEF Reconcile
<1>3. CASE Admin \/ Tick \/ UNCHANGED vars
  <2>1. req' = req /\ (grants' # <<>>) = (grants # <<>>)
    BY <1>3, <1>t, StillGranted DEF Admin, RevokeGrant, SetGrantWindow, UpdateTemplate, Tick, vars
  <2> QED BY <1>q, <2>1
<1> QED BY <1>1, <1>2, <1>3 DEF Next

\* The approval service implements RequestLife for any number of handlers,
\* gateway instances, users and stages.
THEOREM ServiceImplementsLife == Spec => ImplementsRequestLife
<1>1. Init => Life!Init
  BY DEF Init, Life!Init, NoRequest
<1>2. VersionInv /\ BackedInv /\ [Next]_vars => [Life!Next]_<<req.status, (grants # <<>>)>>
  BY LifeNext
<1>3. Init => VersionInv /\ StageClosedIffTerminal /\ BackedInv
  BY InitVersion DEF Init, BackedInv, ApprovedHasGrant, Backed, NoRequest, Idle
<1>4. VersionInv /\ StageClosedIffTerminal /\ BackedInv /\ TypeInv' /\ [Next]_vars
        => VersionInv' /\ StageClosedIffTerminal' /\ BackedInv'
  BY RequestNext, BackedNext DEF RequestStep, VersionInv
<1> QED BY <1>1, <1>2, <1>3, <1>4, TypeCorrect, PTL DEF Spec, ImplementsRequestLife, Life!Spec
===========================================================================
