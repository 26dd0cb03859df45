----------------------------- MODULE SafeApply -----------------------------
(***************************************************************************)
(* The anti-lockout core of the firewall manager (firewall/safeapply.go),  *)
(* for one node: SafeApply, CommitApply and RollbackNow in the gateway,    *)
(* the watchdogs and commit markers on the host.                           *)
(*                                                                         *)
(* A ruleset is the set of changes in force.  Some changes cut the SSH     *)
(* port off; every command goes over an SSH connection of its own, so that *)
(* none reaches the host while such a change is in force.  A call of runFW *)
(* is one step; it may fail before or after the host has acted on it, or   *)
(* report success for a command that failed: the scripts drop their        *)
(* errors, and runFW drops its own when there is any output.  The window   *)
(* is the caller's and may end at any time.  The host does not reboot, and *)
(* an import is in the format of the host's tool.                          *)
(***************************************************************************)
EXTENDS Integers, FiniteSets

CONSTANTS
    Changes,            \* the changes asked for, each once
    HighRisk,           \* those that isHighRisk reports
    Cutting,            \* those that cut the SSH port off
    Defaults,           \* those that set default policies, or enable ufw
    NoChange,
    Tools,              \* the front-ends that the host may have
    Silent,             \* the changes whose commands may fail on the host unnoticed
    MaxApplies          \* bound: how many of the changes are applied

ASSUME SafeAssumption ==
    /\ IsFiniteSet(Changes) /\ NoChange \notin Changes
    /\ HighRisk \subseteq Changes /\ Cutting \subseteq Changes /\ Defaults \subseteq Changes
    /\ Tools \subseteq {"ufw", "nftables", "iptables", "firewalld"}
    /\ Silent \subseteq Changes
    /\ MaxApplies \in Nat

VARIABLES
    tool,           \* the host's front-end
    rules,          \* the changes in force on the host
    snap,           \* the id of a change's snapshot, named after its first user
    saved,          \* the ruleset in the snapshot files of an id
    kept,           \* the ids whose snapshot was really written
    watchdog,       \* the rollback job of a change, on the host
    committed,      \* the ids with a commit marker on the host
    armed,          \* Manager.armed, of the node
    progress,       \* where SafeApply of a change has got
    verdicts,       \* commits and rollbacks of a change that have read armed
    overlapped,     \* history: an apply began while another could still change the rules
    gaps            \* history: changes for which a command failed unnoticed, or whose
                    \* window ended before the commands

hostVars == <<rules, snap, saved, kept, watchdog, committed, gaps>>
safeVars == <<tool, hostVars, armed, progress, verdicts, overlapped>>

-----------------------------------------------------------------------------

SshOpen == rules \cap Cutting = {}

\* What a snapshot of the tool covers: ufw's holds the user rules only, firewalld
\* has none.
Captured ==
    CASE tool = "ufw" -> Changes \ Defaults
      [] tool = "firewalld" -> {}
      [] OTHER -> Changes

\* Mutant: the test for the marker is missing.
MarkerIgnored(c) == FALSE

\* Mutant: the test for the marker is the wrong way round.
MarkerInverted(c) == snap[c] \notin committed

\* The test at the head of the restore script.
HasMarker(c) == snap[c] \in committed

SafeInit ==
    /\ tool \in Tools
    /\ rules = {}
    /\ snap = [c \in Changes |-> NoChange]
    /\ kept = {}
    /\ gaps = {}
    /\ saved = [c \in Changes |-> {}]
    /\ watchdog = [c \in Changes |-> "none"]
    /\ committed = {}
    /\ armed = NoChange
    /\ progress = [c \in Changes |-> "new"]
    /\ verdicts = [c \in Changes |-> {}]
    /\ overlapped = FALSE

\* Changes that may still set the rules: their SafeApply or a rollback is under
\* way, or their watchdog has yet to act.
Unsettled(c) ==
    \/ progress[c] \in {"checked", "saved", "armed", "changed", "failing"}
    \/ "rollback" \in verdicts[c]
    \/ watchdog[c] = "restoring"
    \/ watchdog[c] = "running" /\ snap[c] \notin committed

-----------------------------------------------------------------------------
(* SafeApply.                                                              *)

Reaches(c, from, to) ==
    /\ progress[c] = from
    /\ progress' = [progress EXCEPT ![c] = to]

\* The risk is assessed and armed is read, but not set.
CheckArmed(c) ==
    /\ Reaches(c, "new", "checked")
    /\ armed = NoChange
    /\ Cardinality({d \in Changes : progress[d] # "new"}) < MaxApplies
    /\ overlapped' = (overlapped \/ \E d \in Changes \ {c} : Unsettled(d))
    /\ UNCHANGED <<tool, hostVars, armed, verdicts>>

\* Ids have the resolution of a second: an apply may get that of another which is
\* still under way.
SnapshotIds(c) ==
    {c} \cup {snap[d] : d \in {x \in HighRisk :
                                progress[x] \in {"saved", "armed", "changed", "failing"}}}

\* The SSH guard is inserted and the ruleset saved, in files that others of the
\* same id share; an error of the copy is dropped.
snapshotRuleset(c) ==
    /\ c \in HighRisk /\ SshOpen
    /\ Reaches(c, "checked", "saved")
    /\ \E id \in SnapshotIds(c) :
        /\ snap' = [snap EXCEPT ![c] = id]
        /\ \/ /\ saved' = [saved EXCEPT ![id] = rules]
              /\ kept' = kept \cup {id}
              /\ UNCHANGED gaps
           \/ /\ c \in Silent
              /\ kept' = kept \ {id}
              /\ gaps' = gaps \cup {c}
              /\ UNCHANGED saved
    /\ UNCHANGED <<tool, rules, watchdog, committed, armed, verdicts, overlapped>>

\* The job runs, even when the answer that says so is lost; or it does not, and
\* the answer does not say so.
armRollback(c) ==
    /\ SshOpen
    /\ \/ /\ Reaches(c, "saved", "armed") \/ Reaches(c, "saved", "over")
          /\ watchdog' = [watchdog EXCEPT ![c] = "running"]
          /\ UNCHANGED gaps
       \/ /\ c \in Silent
          /\ Reaches(c, "saved", "armed")
          /\ gaps' = gaps \cup {c}
          /\ UNCHANGED watchdog
    /\ UNCHANGED <<tool, rules, snap, saved, kept, committed, armed, verdicts, overlapped>>

\* A call fails before the change: SafeApply returns its error.
GivesUp(c) ==
    /\ \/ Reaches(c, "checked", "over")
       \/ Reaches(c, "saved", "over")
    /\ UNCHANGED <<tool, hostVars, armed, verdicts, overlapped>>

Failed(c) == IF c \in HighRisk THEN "failing" ELSE "over"

\* Mutant: the change is made before the watchdog is armed.
runCmdsUnwatched(c) ==
    LET from == IF c \in HighRisk THEN "saved" ELSE "checked" IN
    /\ \/ /\ SshOpen
          /\ rules' = rules \cup {c}
          /\ Reaches(c, from, "changed") \/ Reaches(c, from, Failed(c))
       \/ /\ Reaches(c, from, Failed(c))
          /\ UNCHANGED rules
    /\ UNCHANGED <<tool, snap, saved, kept, watchdog, committed, gaps, armed, verdicts, overlapped>>

\* runCmds, which may fail before or after the change has taken effect, or report
\* success without any.
runCmds(c) ==
    LET from == IF c \in HighRisk THEN "armed" ELSE "checked" IN
    /\ \/ /\ SshOpen
          /\ rules' = rules \cup {c}
          /\ Reaches(c, from, "changed") \/ Reaches(c, from, Failed(c))
       \/ /\ \/ Reaches(c, from, Failed(c))
             \/ c \in Silent /\ SshOpen /\ Reaches(c, from, "changed")
          /\ UNCHANGED rules
    /\ UNCHANGED <<tool, snap, saved, kept, watchdog, committed, gaps, armed, verdicts, overlapped>>

\* The rules that a snapshot puts back; what it does not cover stays.
Restored(c) == (saved[snap[c]] \cap Captured) \cup (rules \ Captured)

\* The body of the restore script.  Where it fails, nobody is told: the rules stay,
\* and nft may have flushed them.
RunsRestore(c) ==
    \/ /\ snap[c] \in kept
       /\ rules' = Restored(c)
       /\ UNCHANGED gaps
    \/ /\ c \in Silent \/ snap[c] \notin kept
       /\ rules' = rules \/ (tool = "nftables" /\ rules' = {})
       /\ gaps' = gaps \cup {c}

\* The unit or the pid file of the id leads to one job at most; stopping a timer
\* does not stop a restore that has begun.
Stops(c) ==
    \/ UNCHANGED watchdog
    \/ \E d \in Changes :
        /\ snap[d] = snap[c]
        /\ watchdog' = [watchdog EXCEPT ![d] = IF @ = "running" THEN "over" ELSE @]

\* On the host: the script, then the timer.
triggerRollback(c) ==
    /\ SshOpen
    /\ \/ HasMarker(c) /\ UNCHANGED <<rules, gaps>>
       \/ ~HasMarker(c) /\ RunsRestore(c)
    /\ Stops(c)
    /\ UNCHANGED <<snap, saved, kept, committed>>

\* A failed change of high risk is rolled back, or was meant to be; armed is
\* cleared, whoever set it.
RollsBack(c) ==
    /\ Reaches(c, "failing", "over")
    /\ triggerRollback(c) \/ UNCHANGED hostVars
    /\ armed' = NoChange
    /\ UNCHANGED <<tool, verdicts, overlapped>>

setArmed(c) ==
    /\ Reaches(c, "changed", "over")
    /\ armed' = IF c \in HighRisk THEN c ELSE armed
    /\ UNCHANGED <<tool, hostVars, verdicts, overlapped>>

-----------------------------------------------------------------------------
(* The operator's verdict: armed is read first, the host is asked, armed   *)
(* is cleared.                                                             *)

Asked(c, verdict) ==
    /\ armed = c
    /\ verdict \notin verdicts[c]
    /\ verdicts' = [verdicts EXCEPT ![c] = @ \cup {verdict}]
    /\ UNCHANGED <<tool, hostVars, armed, progress, overlapped>>

\* The call ends; armed is cleared, whoever set it, unless the call failed, which
\* it may do after the host has acted on it.
Answered(c, verdict, effect) ==
    /\ verdict \in verdicts[c]
    /\ verdicts' = [verdicts EXCEPT ![c] = @ \ {verdict}]
    /\ \/ effect /\ armed' \in {armed, NoChange}
       \/ UNCHANGED <<hostVars, armed>>
    /\ UNCHANGED <<tool, progress, overlapped>>

\* The marker, unless touch fails unnoticed, then the timer, which may go on running.
Commits(c) ==
    /\ SshOpen
    /\ \/ /\ committed' = committed \cup {snap[c]}
          /\ UNCHANGED gaps
       \/ /\ c \in Silent
          /\ gaps' = gaps \cup {c}
          /\ UNCHANGED committed
    /\ Stops(c)
    /\ UNCHANGED <<rules, snap, saved, kept>>

CommitApply(c) == Answered(c, "commit", Commits(c))

RollbackNow(c) == Answered(c, "rollback", triggerRollback(c))

-----------------------------------------------------------------------------
(* The host, time and faults.                                              *)

\* The window ends, before the commands have if it is short.
WatchdogFires(c) ==
    /\ watchdog[c] = "running"
    /\ watchdog' = [watchdog EXCEPT ![c] = IF HasMarker(c) THEN "over" ELSE "restoring"]
    /\ gaps' = IF progress[c] = "armed" THEN gaps \cup {c} ELSE gaps
    /\ UNCHANGED <<tool, rules, snap, saved, kept, committed, armed, progress, verdicts, overlapped>>

\* The script has looked for the marker, and goes on.
Restores(c) ==
    /\ watchdog[c] = "restoring"
    /\ watchdog' = [watchdog EXCEPT ![c] = "over"]
    /\ RunsRestore(c)
    /\ UNCHANGED <<tool, snap, saved, kept, committed, armed, progress, verdicts, overlapped>>

\* Ten seconds after the watchdog was due.
clearArmedIfExpired ==
    /\ armed # NoChange
    /\ watchdog[armed] # "running"
    /\ armed' = NoChange
    /\ UNCHANGED <<tool, hostVars, progress, verdicts, overlapped>>

Restart ==
    /\ armed' = NoChange
    /\ progress' = [c \in Changes |-> IF progress[c] = "new" THEN "new" ELSE "over"]
    /\ verdicts' = [c \in Changes |-> {}]
    /\ UNCHANGED <<tool, hostVars, overlapped>>

-----------------------------------------------------------------------------

\* A request that has been let through goes on to its end.
Applies(c) ==
    \/ snapshotRuleset(c) \/ armRollback(c) \/ GivesUp(c) \/ runCmds(c) \/ RollsBack(c)
    \/ setArmed(c)

Judges(c) == CommitApply(c) \/ RollbackNow(c)

Host(c) == WatchdogFires(c) \/ Restores(c)

SafeNext ==
    \/ \E c \in Changes :
        \/ CheckArmed(c) \/ Applies(c) \/ Judges(c) \/ Host(c)
        \/ \E verdict \in {"commit", "rollback"} : Asked(c, verdict)
    \/ clearArmedIfExpired
    \/ Restart

\* Calls end by their timeouts; the host's jobs run.  Operators owe nothing.
SafeFairness ==
    \A c \in Changes : WF_safeVars(Applies(c)) /\ WF_safeVars(Host(c))

SafeSpec == SafeInit /\ [][SafeNext]_safeVars /\ SafeFairness

-----------------------------------------------------------------------------
(* Properties.                                                             *)

\* The node's rules, snapshots and watchdogs and the one armed rollback of the
\* Manager keep their shape; only high-risk changes get a watchdog to commit.
SafeTypeOK ==
    /\ tool \in Tools
    /\ rules \subseteq Changes
    /\ snap \in [Changes -> HighRisk \cup {NoChange}]
    /\ saved \in [Changes -> SUBSET Changes]
    /\ kept \subseteq HighRisk
    /\ watchdog \in [Changes -> {"none", "running", "restoring", "over"}]
    /\ committed \subseteq HighRisk
    /\ armed \in HighRisk \cup {NoChange}
    /\ progress \in [Changes -> {"new", "checked", "saved", "armed", "changed", "failing", "over"}]
    /\ verdicts \in [Changes -> SUBSET {"commit", "rollback"}]
    /\ overlapped \in BOOLEAN
    /\ gaps \subseteq Changes

Shared(c) == \E d \in Changes \ {c} : snap[d] = snap[c]

\* What SafeApply protects: a change that isHighRisk recognises and the snapshot
\* covers, whose commands did not fail unnoticed or outlast the window.
Protected(c) == c \in HighRisk \cap Captured /\ c \notin gaps

\* While the node is locked out, a job on the host is about to undo every change
\* that did it and that SafeApply protects, and no commit marker holds it back,
\* unless two applies share one id; though applies overlap, calls fail half-way,
\* operators commit and roll back and the gateway restarts ("so the management
\* path can never be cut").
CutIsWatched ==
    \A c \in rules \cap Cutting :
        Protected(c) /\ ~Shared(c) =>
            \/ watchdog[c] = "restoring"
            \/ watchdog[c] = "running" /\ snap[c] \notin committed

\* A protected change does not stay without its commit, so that its lockout ends;
\* one that leaves SSH open, or shares its id, may stay when applies overlapped.
UncommittedUndone ==
    \A c \in HighRisk :
        c \in rules /\ Protected(c)
        ~> \/ c \notin rules \/ ~Protected(c) \/ snap[c] \in committed
           \/ overlapped /\ (c \notin Cutting \/ Shared(c))

\* A committed change stays, though its timer may still fire and another rollback
\* may be under way, unless the restore had begun before the commit, or nft has
\* flushed all there was and a snapshot failed it.
CommittedStays ==
    [][\A c \in rules :
        snap[c] \in committed =>
            \/ c \in rules' \/ overlapped \/ watchdog[c] = "restoring"
            \/ tool = "nftables" /\ rules' = {} /\ gaps' # {}]_safeVars

\* "armRollback — schedule a host-side watchdog that restores the snapshot after N
\* seconds UNLESS a commit file appears": what SafeApply is said to ensure of every
\* change of high risk.
UndoneUnlessCommitted ==
    \A c \in HighRisk : c \in rules ~> c \notin rules \/ snap[c] \in committed

=============================================================================
