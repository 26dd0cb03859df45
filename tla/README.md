# Wayfort: verification project

Wayfort is a bastion / privileged-access gateway in Go with a web console in TypeScript. Users reach
SSH, RDP, database and other nodes through it; access may need an approval, may be taken in an
emergency ("break-glass"), and is recorded in a tamper-evident audit log. Several gateway instances
may run against one PostgreSQL database; agents behind NAT dial in; hosts are changed over pooled SSH
connections. This directory holds TLA+ modules of the parts whose correctness depends on what
concurrent actors do to shared rows, queues, sockets and timers, the TLC configurations that check
them, and TLAPS proofs of what matters most.

## 1. The system and its hard parts

| Component | State it keeps | Operations | Talks to | What is hard |
|---|---|---|---|---|
| Approval service (`internal/approval`: `service.go`, `workflow.go`, `reconciler.go`; `internal/repo/approval_repo.go`) | request row with a version, task rows per stage, grant rows, hash-chained ledger | CreateRequest, Decide, Delegate, Cancel, RevokeGrant, SetGrantWindow, IssueEmergencyGrant; reconciler ticker | called by break-glass, the API, enforcement | every operation is a sequence of separate database calls without a transaction; one reconciler per instance; the version compare-and-swap is the only guard |
| Break-glass service (`internal/breakglass`) | activation row; the asset grants it minted | Activate (fail-open or pre-approved), Get, Revoke, SubmitReview; reconciler ticker | approval service, audit writer, asset grants, session owners | reads a row, works through several services, writes the whole row back; no lock, no version |
| Audit writer, chain, checkpoints (`internal/audit`) | two bounded queues, a batch, the tip of the chain; `audit_logs`, `audit_checkpoints` | Log, LogCritical, Run (the worker), WriteGenesis, WriteDaily | everyone logs; the integrity report reads | back-pressure, failed inserts, shutdown, restart in the middle of the chain, seals taken while the worker inserts |
| Reverse-connect agents (`internal/agentgw`, `internal/api/agent*_handler.go`) | agent rows, certificates, live tunnels by agent and by domain | Enroll, Renew, Tunnel with heartbeats, Activate, Revoke, Delete, the reaper | agents behind NAT, the dialer | a reconnect against the clean-up of the old connection; administrators against handlers that read the row before |
| SSH pool (`internal/sshpool`) | an entry with clients and reference counts per key | Acquire, release, sweep, shutdown, watch | bastion hosts | two mutexes, dialling under one of them, counting outside both |
| Firewall safe-apply (`internal/firewall/safeapply.go`) | armed change per node in memory; ruleset, snapshots, rollback jobs and commit markers on the host | SafeApply, CommitApply, RollbackNow | node over SSH | commit-confirm against a timer on another machine; a change may cut the connection it is made over |
| Web terminal tab (`web/src/components/terminal`, `lib/ws/webssh-client.ts`) | effect runs, their sockets, shared refs, a countdown, the status machine | open, disconnect, reconnect, settings, close | `internal/webssh` over a WebSocket | late imports, late events of sockets of earlier runs, timers that a ref no longer holds |
| Remote desktop tab (`web/src/components/desktop`, `lib/desktop`) | connect() calls, sessions asked of the gateway, a frame socket, a countdown | open, disconnect, reconnect, settings, close | `internal/desktop` | two awaits before a session exists; one drop told by several events |
| RDP and VNC display (`web/src/lib/hooks/use-rdp.ts`, `lib/rdp/client.ts`) | start() calls with a token, a client, a retry timer | open, reconnect, quality, disconnect, close | `internal/protocols` through Guacamole | a teardown that is awaited before the token is taken |
| Drive uploads and API client (`useDriveTransfers.ts`, `lib/api/client.ts`) | upload rows, slots, directories made, the access token | enqueue, cancel, retry, clear; refresh and replay | the HTTP API | a shared refresh, replays, cancels at every wait |
| Approval ledger, enforcement, policy, hub | per-request hash chain; subscriptions | Append, VerifyChain, CheckEnforced, WatchGrant | approval service, gateways | appends of several instances |
| Port forwarding, live watch, session windows, guard, desktop workers, web SSH relays, AI, secrets, auth, files, host operations, other web pages | see `PROJECT.json`, `components` | | | mostly I/O, codecs, CRUD, rendering and pure parsing |

What makes each of the modelled components correct:

* **Approval** — a request ends once; its verdicts are never overwritten; it advances only over
  stages somebody approved; approved implies a grant; it always ends; grants close.
* **Break-glass** — access never exists before its audit record; access that no policy explains was
  approved; elapsed access ends; a killed activation leaves no access.
* **Audit** — every row continues the chain; what is in the table verifies; what was accepted is written; seals refer
  to the chain.
* **Agents** — nobody routes to a tunnel that ended or to an agent no human activated; a row does not
  say online for ever without a tunnel; revoked stays revoked.
* **Pool** — a client is not closed under who uses it; nothing dials for an entry shut down; every
  Acquire returns; idle clients are closed.
* **Firewall** — a host that is locked out has a job that will undo it; what is not committed is undone;
  what is committed stays.  The code keeps the first two only for what its snapshot covers (section 2).
* **Console** — what a tab shows is so; what a tab was told of is its own or has been asked to end; a
  disconnect sticks; nothing spins for ever; cancelled uploads send nothing.

`PROJECT.json` lists the hazards, each at its line, with the property that would catch it. Section 6
names the smaller ones.

## 2. Modules

| Module | Models | Composed by |
|---|---|---|
| `RequestLife` | the abstract promise of the approval service about one request: it ends once, and approved only with a grant behind it | `Approval` (refines it), `BreakGlass` (relies on it) |
| `Approval` | one request in the approval service, call by call | `MC_Approval`, `ApprovalProofs` |
| `BreakGlass` | one activation in the break-glass service; its environment is `RequestLife` | `MC_BreakGlass`, `BreakGlassProofs` |
| `AuditWriter` | queues, worker, chain, checkpoints, restarts of one instance | `MC_AuditWriter`, `AuditProofs` |
| `AgentGateway` | agents, their rows and certificates, the registry of tunnels | `Gateway` |
| `SafeApply` | one node's firewall changes and their rollback jobs | `Gateway` |
| `Gateway` | agents and firewall together | `MC_Gateway`, `GatewayProofs` |
| `Lists` | filtering a list in place, as `pruneDead`, the sweep and the upload panel do | `SSHPool`, `DriveTransfers`, `ListProofs` |
| `SSHPool` | one key of the pool | `MC_SSHPool`, `SSHPoolProofs` |
| `Terminal`, `Desktop`, `RdpDisplay`, `DriveTransfers` | the four parts of the console above | `Console` |
| `Console` | the web console | `MC_Console`, `ConsoleProofs` (on `TabProofs` and `ListProofs`) |

The approval side is composed by contract: `Approval` implements `RequestLife` (checked by TLC, proved
by TLAPS), and `BreakGlass` assumes no more of the request than `RequestLife` (its actions that touch
the request are `Life!File`, `Life!Issue` and `Life!Finish`). `Console` and `Gateway` are sums: their
parts share no variable, no property of theirs relates two parts, and so every interleaving of two parts
projects on behaviours of each alone. The next-state relation therefore lets one part run while the
others are in their initial states, and the state space is the sum of the parts' and not their product.

### Approval

`req`, `tasks`, `grants`, `tpl` are the rows; `ledger` is the set of event kinds appended; `loc[p]` is a handler's
program counter with the values it read earlier (version, task, stages of the template, outcome); `rec[r]` is a
reconciler's sweep. One action is one repository call with the code up to the next one, so handlers of one or
several instances interleave exactly where the code lets them. `UpdateRequestStatus` and `AdvanceStage` are the two
version compare-and-swaps; `finalApprove` inserts the grant first and updates the request afterwards, ignoring
whether the swap won. The unique index on the grant's `request_id` (`model/approval.go`) makes a second insert fail,
and `finalApprove` returns that error before the swap: so there is one grant per request, a concurrent final
decision loses at the insert, and after a crash between insert and swap no decision can approve the request any more
(it still ends, by a rejection, a cancellation or its expiry). Abstracted: users and roles are small sets; a stage
is (mode, quorum, users, roles, timeout); reasons, payloads and notifications are left out; the template match is a
choice of a template. `WorkerFails` and `SweepFails` are an error or a crash at any call.

`IssueEmergencyGrant` inserts its request as pending with stage -1, so `StageClosedIffTerminal` is
about requests filed by `CreateRequest` only; the emergency path is in `BreakGlass`.

### Break-glass

`act` is the activation row, `loc[p].row` the copy a process works on, `Save` the whole-row write.
`assets` are the asset grants in force and `minted` how many there ever were; `records` counts the
"activate" events the critical queue accepted; `live` says whether the user has a session. A policy
with the global switches folded in is an element of the constant `Policies`. The approval request,
its window and its grant are driven by the calls of the service and by the environment actions
`ApproverGrants`, `RequestEnds`, `GrantEnds`. A request has one grant at most, as the unique index
ensures. `Connect` is the gateway's access check, `asset.Resolver.Check`.
`ErrorIgnored`, `ErrorHandled` and `Crash` are failures at every call, split by what the code does about them.

### Audit writer

A hash is the sequence of events it covers: that is what a collision-free digest of (previous hash,
entry) determines, so equality of hashes means what it means in the code. An event carries the instant it
happened at, in units of the clock; the hash covers it whole, and `Stored`, what the timestamp column gives back,
cuts it off to a multiple of `Resolution`. `Flush` is atomic: the worker is a single goroutine, producers only
append to queues meanwhile (which commutes), and a crash inside it leaves either the rows or nothing,
after which the tip is read from the database again. "ambiguous" is an insert that was committed but
reported as failed, "seed" a start that cannot read the tip and takes the empty one (`main.go` ignores that
error). After either nobody knows whether the Chainer's tip is the table's: `doubt` is the history variable that
says so, and `forks` the rows that were stamped first in such a state. A start reads the tip and writes the
genesis checkpoint before the worker runs.
The checkpoint of the current day is one row; rows of earlier days are never written again and are
left out. Critical callers may block, be woken or give up. After `Run` returned (`drained`) the
process and its HTTP handlers still live for a while, and may still log.

### Agents

`row` is the status column, `seen` whether `last_seen_at` is recent, `cert` the agent's certificate. `renewal[a]`
and `read[a]` are an enrollment or a renewal under way with the row it loaded: `SaveRow` writes that whole row back,
`last_seen_at` included, as `Renew` does. `handler[t]` is the goroutine of one tunnel: after `AcceptTunnel` (the
checks) come `Register`, heartbeats that `Touch` the row, and on the way out `TunnelEnds`, `Forget` (`Unregister`
takes the agent's id, so it removes whatever tunnel is there now) and `MarkOffline`. `admin[a]` is the set of
administrators' requests under way, each between its writes; they may overlap. A crash of the gateway empties the
registry and ends every handler; the rows stay. One gateway and one domain, so that an agent's tunnel is in
`byDomain` under its own name; the choice of the least loaded tunnel is left out.

### SSH pool

A step is what a goroutine does between two points where it may block, or two accesses to a slot's atomic fields
that no common lock protects. `poolLocked` is the pool's mutex (held across steps only by the janitor), `locked`
the entries' (held across steps by a caller that dials and by a sweep). A caller is handed its client under
the entry's mutex (`picked`), counts it (`Count`) and stores `lastUsed` (`StoreLastUsed`) with no lock, and
stores it again after the release. The sweep takes the mutex (`SweepLocks`) and then goes through the slots:
`LoadRefs`, `LoadLastUsed` and `CloseIdle` are steps of their own, between which callers count and store. `dead` is
the flag a watcher or a close sets, `stale` that `lastUsed` is behind the sweep's cutoff. `late` is a history
variable: who had been handed a client, and had not counted it, when the sweep took the mutex. Those callers can
lose their client, even after they have counted it, and `EvictionSparesUsers` says that nobody else can.
Identities of entries and clients are reused once nothing can reach them. `pruneDead` and the
sweep filter the slots with `Without` of `Lists`.

### Firewall safe-apply

A ruleset is the set of changes in force. Every call of `runFW` is one step that may fail before or after the
host has acted, and none reaches the host while a change that cuts SSH is in force. What the code does not
ensure is in the model:

* The snapshot covers what `Captured` says: on ufw the user rules and not the default policies nor whether ufw is
  enabled, on firewalld nothing. A restore leaves the rest as it is.
* Every script drops its errors and `runFW` drops an error that came with output, so for the changes in `Silent` a
  snapshot, an arming, a command, a commit or a restore may have failed although the call succeeded. `kept`
  says whose snapshot was written; the history variable `gaps` holds the changes for which something failed
  unnoticed.
* Snapshot ids have the resolution of a second: `snap[c]` may be the id of another apply that is under
  way, and the two then share files, commit marker and unit.
* The rollback window comes from the request and is compared with nothing: `WatchdogFires` is possible as soon as
  the job runs, before the change's own commands too (which puts the change into `gaps`).

`watchdog[c]` is the transient job on the host; it looks for the commit marker once and then restores, in two
steps. `armed` is forgotten by a restart. `overlapped` is a history variable: a second high-risk change began
before the first was settled, which the check of `armed` is meant to exclude and does not, because it is set
after the change. `Protected` is what remains of the promise: a change of high risk that the snapshot covers and
that is not in `gaps`. `CutIsWatched` and `UncommittedUndone` are about those; `UndoneUnlessCommitted` is the
promise as the comment states it, and is refuted.

### Terminal

Each run of the React effect has a life of its own (`run[r]`: importing, addons, connecting, open, closing):
cleaning a run up disposes it, but its imports still settle and its socket's events still arrive
(`wire[r]`). `cur` is the run that is not disposed, `conn` the ref that the buttons use. `shell[r]` is the
gateway's end. `timer` is the timer the ref holds, `leaked` those it has lost.

### Desktop

`call[k]` is one call of `connect()`, with its two awaits (the probe and the POST that makes the session); `mine`
and `epochIsMine` are the two things `isCurrentSession` compares. `held` are the sessions the browser was told
of and has not asked to end. A session whose reply is lost is a refusal to the browser; the gateway reaps it.

### RDP display

A call of `start()`, its token and its client share a number. `startOf[a]` is how far it got: waiting for the
teardown of its predecessor (`tearing`), for `connect()` (`connecting`), or for the destruction of a client it
does not keep (`discarding`); `voided` counts the teardowns nobody waits for. A teardown that finds no
client runs through at once. `Closes` is the callback of a Guacamole client that closes, with the token test.
`destroy()` always waits, because a recording's clean-up reads the browser's storage.

### Drive transfers

`fileStatus` and `transfers` are the store, `stage[f]` what `runOne` awaits (the mkdir or the upload),
`cred[f]` how its request stands with the token it carries; a 401 makes it wait for the refresh that all share,
and be replayed once. Promise reactions run before the next event, so an answer and the pump it causes are
one step (`React`). Every file is enqueued under an id of its own (`genId`), hence the assumption that a
batch lists no file twice.

## 3. Runs

Every run bounds time, failures and the number of rows by constants named `Max...`; they appear as
guards of the actions that consume them (or as the size of a table of rows). Identities (`Runs`, `Calls`,
`Tunnels`, `Clients`, ...) are reused, so they bound what exists at once and not how often.

| Run | Question | Bounds and why they are enough |
|---|---|---|
| `approval_decide` | Do races of decide, delegate and cancel ever overwrite a verdict, a terminal request or skip a stage? | two handlers, two approvers, a third user to delegate to, an any-stage then an all-stage; a user gets one task per stage (`MaxGen`), so each stage can be delegated once: two handlers give every pair of steps in both orders, and a straggler of stage 0 can act in stage 1 |
| `approval_reconcile` | Is approved backed by a grant, does the service implement `RequestLife`, does every request end and every elapsed grant close, with two reconcilers, an administrator who moves windows and edits the template, and a failure? | one handler, two instances, one failed call or crash anywhere, three instants of time, so that the clock outlives every window |
| `approval_refused` | (refuted) a refused request has no usable grant | two handlers, one of which cancels, on one stage |
| `breakglass` | Is access always audited first and always explained, does elapsed access end and does a decided activation follow its request? | a handler and a reconciler, which may promote the same activation; three policies, one failed call or crash anywhere, three instants; mints are bounded above what one failure can cause, so the bound never stops a promotion. Several handlers are in the theorems |
| `breakglass_kill` | (refuted) the kill-switch leaves no access | two handlers, one reconciler, no failure |
| `audit_chain` | Does every row continue the chain, are seals on it, and is everything accepted written? | queues of one, batches of two, three events, two starts, a clock finer than the column, two faults of any kind (an insert that fails, or is committed unnoticed, an unreadable tip, a failed genesis checkpoint, a crash): each queue overflows, a caller blocks, and a batch fails between two that land |
| `audit_verify` | (refuted) a freshly stamped chain verifies | the same writer without faults, two instants within one unit of the column |
| `gateway` | Do routes and rows follow the tunnels, and does no firewall change that the snapshot covers lock the gateway out for good? | one agent with two tunnel handlers (a reconnect meets one clean-up), two administrators' requests, one renewal, one crash; two of three changes (cutting, high risk, low risk) on an nftables host, any number of restarts, calls that fail at will, and unnoticed for the cutting change. the front-ends differ in `Captured` and in what a failed restore leaves; the theorems are about every front-end |
| `firewall_undone` | (refuted) what nobody commits is undone | one policy change on a ufw host, nothing fails |
| `agents_revoked` | (refuted) revoked stays revoked | the same agent |
| `pool` | Do eviction, shutdown and two mutexes spare users and callers? | two callers, two entries, two clients of one session each: every limit is reached by one caller while the other waits, and one caller counts while the sweep looks at the client of the other |
| `console` | Is what the tabs show so, is nothing left behind, does every wait end? | terminal: four effect runs at once, two backoffs (with one, no timer can leak), one click, one session; desktop: four calls, two backoffs, two clicks, two reports of the worker; RDP: three starts, one retry, two clicks; drive: three files in two batches on two slots, three actions, two lapses of the token |

A passing run's properties each have a mutant in `PROJECT.json`: a version of one definition with a
plausible bug, with which TLC refutes the property.

### Fairness

* `Approval!FairSpec`: the clock ticks, and each reconciler's step is weakly fair. `time.Ticker` fires
  for as long as the process runs and a sweep is a loop with no unbounded wait. Nothing is assumed of
  handlers: they may stop anywhere.
* `BreakGlass!FairSpec`: the same for the clock and the reconciler.
* `AuditWriter!FairSpec`: the worker's loop proceeds while a queue or the batch holds something (its
  ticker flushes). Nothing is assumed of callers, shutdown or checkpoints.
* `AgentFairness`: a tunnel handler's goroutine goes on, and the reaper of rows runs (a ticker in `main.go`).
  Nothing is assumed of agents, administrators or renewals.
* `PoolFairness`: goroutines run, dials end by their timeout, the janitor ticks. `FindEntry` and `pickOrSpawn` wait
  for a mutex, and are strongly fair: Go's mutex hands itself to a waiter that starved for a millisecond. `Proceeds`
  (dials, counting, storing) is weakly fair.
* `SafeFairness`: an apply goes on, and the rollback job on the host runs when its time has come. Nobody owes a
  commit or a rollback.
* `TermFairness`: imports settle, the browser delivers what it has received, timers fire, the gateway's dial
  timeout ends every dialling.
* `DeskFairness`: timers fire, a request gets its answer or a network error, and a start ends or its socket does.
  The gateway sets no limit to a start; the worker does (`TcpConnectTimeout` and `TcpAckTimeout` in
  `freerdp-worker/rdp/client.go`). That a worker which hangs without a word loses its socket is assumed.
* `DriveFairness`: requests and refreshes get an answer or a network error. An upload has no timeout of its own, so
  this is the browser's and its TCP stack's to provide: on a connection that goes silent for ever a row uploads for
  ever.
* In all three neither the user nor a living session owes anything.

Deadlock checking is off where the models stop when their bounds are used up and every actor is done; it is on
for `pool`, where waiting on two mutexes is the question.

### What the runs show

Everything in the passing runs holds. The findings in `PROJECT.json` quote the comment or test each refuted
property formalises:

* `approval_refused`: a request that is cancelled, or expires, between the insert of the grant and the
  update of the status keeps an active grant.
* `breakglass_kill`: Revoke of an activation that is being promoted leaves the minted asset grant in place.
* `agents_revoked`: a tunnel past its checks when its agent is revoked registers afterwards and writes online, then
  offline, over the revocation.
* `audit_verify`: the hash covers nanoseconds and the column keeps microseconds, so the integrity report calls an
  untouched log broken at its first row.
* `firewall_undone`: a default policy set on a ufw host is in no snapshot, so its rollback does not undo it.

## 4. Proofs

TLAPS checks the following for every value of the constants (any number of handlers, instances,
approvers, stages and callers, any templates, capacities and bounds):

| Theorem of `ApprovalProofs` | Says |
|---|---|
| `TypeCorrect` | `Spec => []TypeInv`, where `TypeInv` is `TypeOK` and `HandlerOK`: what a handler holds at each step (a task, a stage that exists in the plan it read) |
| `VersionCorrect` | `VersionGuardsStatus` and `StageClosedIffTerminal` |
| `TerminalFinal` | `TerminalIsFinal` |
| `VerdictFinal` | `VerdictIsFinal` |
| `StagesEarnedCorrect` | `StagesEarned` |
| `ApprovedBacked` | `ApprovedHasGrant` |
| `ServiceImplementsLife` | `ImplementsRequestLife`: the refinement of `RequestLife` |

| Theorem of `AuditProofs` | Says |
|---|---|
| `TypeCorrect` | `TypeOK`, with the capacities of queues and batch |
| `ChainContinuous` | `ChainContinues`, without a condition |
| `SealsCorrect` | `SealOnChain`, without a condition |

| Theorem of `BreakGlassProofs` | Says |
|---|---|
| `BreakGlassTypeCorrect` | `TypeOK` of `BreakGlass` |
| `AuditComesFirst` | `AuditGatesAccess` |
| `AccessIsApproved` | `AccessNeedsApproval` |

| Theorem of `GatewayProofs` | Says |
|---|---|
| `GatewayTypeCorrect` | `TypeOK` of `Gateway` |
| `RoutesHaveHandlers` | `NoGhostRoute` |
| `ActivationComesFirst` | `ActivationFirst` |
| `LockoutIsWatched` | `CutIsWatched`, whatever the windows, failures and overlaps |
| `CommitIsKept` | `CommittedStays` |

| Theorem of `SSHPoolProofs` | Says |
|---|---|
| `ReferencesAreExact` | `PoolTypeOK`, in which `refs` is the cardinality of the set of users |
| `ShutdownIsFinal` | `DisposedStaysClosed` |
| `SweepSparesUsers` | `EvictionSparesUsers` |

| Theorem of `ConsoleProofs` | Says |
|---|---|
| `ConsoleTypeCorrect` | `TypeOK` of `Console` |
| `ShownIsBacked`, `DisconnectionIsKept` | `StatusIsBacked`, `ClosedStaysClosed` of the terminal |
| `SessionsAreOwned`, `OneSocket`, `DisconnectHolds` | `NoOrphanSession`, `OneConnection`, `DisconnectSticks` of the desktop |
| `RdpShowsWhatIs`, `RdpFreesClients` | `ShownIsSo`, `RdpLetsGo` of the RDP display |
| `PumpFills`, `CancelIsFinal` | `PumpKeepsUp`, `CancelWins` of the upload queue |

| Theorem of `ListProofs` | Says |
|---|---|
| `WithoutHolds` | `Without(list, gone)` is a list over the same set that holds exactly the elements of `list` outside `gone` |
| `WithoutInjective` | it keeps the elements of a list pairwise different |

With these, every safety invariant, action property and refinement that a passing run checks is also proved.

**Assumptions.** Only the named assumptions of the modules on their constants, which TLC evaluates in
every run. The sets of processes, identities and rows are finite, and of any size.

**Arguments in `ApprovalProofs`.** `TypeInv` is inductive with `HandlerOK`, because the type of a step
depends on what earlier steps stored. `VersionInv` is inductive relative to it: every process that still
holds a version holds one at most as large as the row's, and equality means that the request is still
pending; both compare-and-swaps increase the version, so the loser of a race never matches again. The
stage is -1 exactly when the status is terminal because both are written by the same swap.
`TerminalIsFinal` follows: a swap that succeeds met a pending request. For the tasks, `Keeping` says of
each write that a row which left `pending` is kept. `StagesEarned` needs the strengthening `EarnedInv`:
each handler on its way to advance or to grant stands on a stage that has an approved task, along with
all before it, and each holder of a task holds an existing one. `ApprovedHasGrant` needs that a
handler about to write approved has inserted its grant (`BackedInv`). Refinement is step by step: the
insert maps to `Issue`, a successful swap to `Finish`, everything else stutters.

**Arguments in `AuditProofs`.** `StampType` and `HashNext` say what the rows of a batch are: entry k has
the hash of the old tip followed by the first k events. With them `BatchContinues` shows that appending a
batch keeps every row on the chain, the batch's first row aside when the tip was in doubt. The invariant
that carries it is `ChainInv`: `ChainContinues` and, while a process lives and the tip is not in doubt, the
Chainer's tip is the hash of the last row (`TipKnown`); without the latter a batch could continue from a stale tip
unnoticed. For the
seals, rows are only ever appended (`StepExtends`), so what the checkpointer has read stays true
(`SealSurvives`); `SealInv` says of each step of the checkpointer what it has read so far.

**Arguments in `BreakGlassProofs`.** `AuditGatesAccess` compares two counters that different steps of
different processes increase, so the invariant counts who stands between them: `minted` and the processes
in flight (past the audit call, before the mint) together do not exceed `records` (`AuditInv`); an accepted
event adds one to both sides, a mint moves one from in flight to minted, and a failure or a crash only takes
one away. For `AccessNeedsApproval`, `ModeInv` says where each process is allowed to be: who grants by himself
has a fail-open mode or an automatic template; who is past the look at the request has an explanation, which
stays true, because no copy that is saved carries another mode and `RequestLife` lets an approved request
only stay so. `WindowFits` is what keeps the start of a window that is cut short from being negative.
Most steps move a process among points where none of this is at stake; `Quiet` describes them once, and the lemmas
`Quiet...` show that they keep everything.

**Arguments in `GatewayProofs`.** `NoGhostRoute` is inductive by itself, given the types. `ActivationFirst` is
not: a renewal saves the row it loaded, and a handler writes online for an agent it checked long ago. `ActivationInv`
says of every row that is pending in such a process that its agent was activated. For `CutIsWatched` one needs that
no snapshot holds a change that cuts SSH off, because no snapshot can be taken while one is in force
(`SnapshotsOpen`), that only high-risk changes have jobs and verdicts and none is judged,
or has a marker of its own, before its apply is over (`WatchedInv`), and that an armed apply which is alone with its
id and in no gap still has its job running (`CutInv`). `CommittedStays` rests on `AloneInv`: while applies have not
overlapped, one change at a time is under way, with an id of its own, and whatever may still restore a snapshot has
one that lacks no more than its own change.

**Arguments in `SSHPoolProofs`.** `Counted` is a statement about cardinalities: `Count` adds one caller to the set
of users, `release` takes one out, and every other step leaves the set as it is (`UsersKept`). `DisposedStaysClosed`
needs `DialsLocked` (who dials holds the lock of its entry, alone, and so does a sweep in its loop) and
`MappedIsOpen` (the entry in the pool's map is not disposed, so a new caller finds a living one). For
`EvictionSparesUsers`, `LateInv` follows the sweep: as long as it has the mutex nobody is handed a client of its
entry, so who holds one uncounted is in `late`; when `LoadRefs` finds 0 nobody has counted, and from then to the close
only callers of `late` can. `Apart` (no client is in two entries) keeps a caller at another entry from interfering.

**Arguments in `TabProofs` and `ConsoleProofs`.** Each part of the console has its own inductive invariant; the console
is their sum, so every step of it is a step or a stutter of each part (`PartsOfConsole`).

* Terminal (`TermInv`): what can be on a socket's wire is one of six short sequences, by the state of the run and of
  the gateway's end (`WireFits`); so READY is never behind an end, and a tab that shows a session has had it delivered.
  `ClosedInv` says that whoever disconnected has no timer and no socket that could still report a drop.
* Desktop (`DeskInv`): there is at most one timer, at most one call of the present epoch under way, and while there is
  one, no timer, no client and no session (`OnePending`); that is what `scheduleReconnect`'s guard and
  `closeCurrentSession` provide.
* RDP (`RdpInv`): a kept client belongs to a `start()` that is over, and no `start()` has a token ahead of the counter
  (`StartsInOrder`), so a fresh token is never an old client's.
* Uploads (`DriveInv`): the rows of the panel are exactly the files that were enqueued, each once (`RowsFit`), a
  request is under way exactly while `runOne` awaits it (`CredFits`), and a queued file has no aborted
  controller (`QueuedIsClean`). `React` is described once by what it leaves (`ReactDoes`) and every action
  that ends in it is an instance. That pump fills the slots is a count of the first elements of an injective
  list (`FirstFew`).

**Arguments in `ListProofs`.** `Without` is a recursive function on `0..Len(list)`; that it exists and what it returns
is shown by taking the least number for which a claim fails (`Induction`, on a set of numbers instead of an operator,
from the well-foundedness of the naturals). A filter written as a RECURSIVE operator or as `SelectSeq` would not have
been within reach, which is why `SSHPool` and `DriveTransfers` use this one.

**Only model-checked.** Liveness: `EveryRequestEnds`, `ElapsedGrantsClose`, `LapsedEnds`,
`DecidedEnds`, `AcceptedIsRecorded`, `DeadTunnelsLeave`, `OnlineIsBacked`, `UncommittedUndone`,
`AcquireReturns`, `IdleReclaimed`, `EveryWaitEnds` (which is `ConnectingSettles`, `DeskSettles` and `QueueDrains`). They
depend on fairness, and the provers do not reason about fairness and ENABLED here. The refuted properties are
counterexamples of TLC.

## 5. Plan

Done: approval, break-glass, audit, agents, pool, firewall and the stateful parts of the console, with the runs
above, and proofs of all their safety properties. What is left for the proofs:

1. The safety half of the liveness properties, where one exists: for instance that a locked-out host's job, once
   it has looked at the marker, can only restore (`UncommittedUndone`), or that the holder of a pool mutex never
   waits for another one that is taken in the opposite order (`AcquireReturns`).
2. That the break-glass service implements an abstract promise of its own (an activation as seen by the session
   owners), as `Approval` does with `RequestLife`.
3. Shorter proofs: the type lemmas of the tabs repeat a pattern that a few facts on updated functions would carry.

## 6. Not modelled, and known hazards without a property

Left out: network relays and codecs (web SSH, frame codecs, SFTP), parsers and command builders for hosts, AI
providers, cryptography and KMS providers, mail. They are I/O, pure text processing or external services.
The approval ledger is abstracted to the kinds of events appended; enforcement, port forwarding, live watch,
session windows and the desktop manager have some state of their own and are candidates for later modules.

Most of the console's TypeScript, by far the largest part of the repository, is rendering: pages, tables, forms,
types and one wrapper per HTTP endpoint. It has no protocol of its own to model, so the mapped share of those lines
is small; modelled are the components that own connections, timers and queues.

Observed while modelling and without a run. Where a property is named in parentheses, the module states it and TLC
refutes it on a small instance of that module (the first one with `JustAllStage` and a reconciler); the others need
a second server, another instance, or code outside the models:

* A task of an all-stage that times out counts neither for nor against it (`ExpiredTaskFailsAll` in `Approval`).
* A stale whole-row save of `expire` or `SubmitReview` re-opens a closed activation (`ClosedIsImmutable` in
  `BreakGlass`); two instances promoting one activation mint two asset grants, and a crash after the mint mints
  again; the approver's override may exceed the break-glass policy's cap; dual authorisation does not
  stop an automatic template; a failed delete of an asset grant is ignored.
* A failed batch takes accepted critical events with it, and so does an event logged after `Run` returned
  (`CriticalNeverLost` in `AuditWriter`); an insert that is committed but reported as failed forks the chain; a restart
  moves the genesis anchor of a pinned instance.
* The timer of `useRDP` replaces a session that works (`OnlyDropsReconnect` in `RdpDisplay`): the client
  that reconnect() tears down still has the present token when it closes, so its "disconnected" arms the retry, which
  1.5 seconds later tears the new session down, and so on for as long as the new one connects in time. Two overlapping
  teardowns can forget a client that connected in between. After Disconnect the Reconnect button does nothing.
* A late `Unregister` removes the live tunnel of an agent that has reconnected, until it reconnects again.
* A pool entry that an Acquire has found, and the sweep then deletes as empty, keeps its client out of
  the janitor's sight.
* The sweep can close a client under a caller that was handed it and had not counted it yet (what
  `EvictionSparesUsers` admits).
* A firewall rollback window shorter than the change's own commands restores too early and leaves the change without
  a job; two applies in one second share a snapshot, a marker and a unit; a commit between the job's look at the marker
  and its restore reports success for rules that go; a host that reboots inside the window keeps the change.
* After a crash between `finalApprove`'s insert and its swap the request cannot be approved any more, and a grant whose
  request is approved may end before break-glass mints access from it.
* The reconciler may expire a grant whose window was just moved; a template edited while a request waits
  changes its cap; tasks spawned after a cancel's skip stay pending; several instances may fork a ledger chain.
* In the console: a failed mkdir is remembered as made until the batch ends; a network error during a refresh
  logs the user out; a desktop tab that shows closed may still be counting down; commands queued for a terminal may
  go to a socket that has ended.
