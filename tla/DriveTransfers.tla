--------------------------- MODULE DriveTransfers ---------------------------
(***************************************************************************)
(* The upload queue of the remote desktop's file panel                     *)
(* (useDriveTransfers.ts), over the API client's uploads and its           *)
(* single-flight token refresh (lib/api/client.ts).                        *)
(*                                                                         *)
(* A file that is being uploaded first has its directory made, unless an   *)
(* earlier file of the batch saw to it, and is then sent.  Either request  *)
(* may find the access token lapsed; it then waits for one refresh that    *)
(* all such requests share and is replayed once, or the page goes to the   *)
(* login form.  A user's cancel stops a file that is being sent at once;   *)
(* one that waits learns of it when its wait is over.                      *)
(*                                                                         *)
(* Promise reactions run before the next event, so an answer and the pump  *)
(* it leads to are one step.  Sizes and progress are left out.             *)
(***************************************************************************)
EXTENDS Integers, FiniteSets, SequencesExt, Lists

CONSTANTS
    Files,
    Batches,        \* what the user may drop on the panel: files, each a row of its own
    DirOf,          \* destPath of each file
    NoDir,          \* the root of the drive, which needs no mkdir
    Concurrency,    \* CONCURRENCY
    MaxDriveClicks, \* bound: what the user does
    MaxLapses       \* bound: how often an access token lapses

ASSUME DriveAssumption ==
    /\ IsFiniteSet(Files)
    /\ Batches \subseteq Seq(Files)
    /\ \A batch \in Batches : IsInjective(batch)   \* genId
    /\ DOMAIN DirOf = Files
    /\ Concurrency \in Nat \ {0}
    /\ MaxDriveClicks \in Nat
    /\ MaxLapses \in Nat

VARIABLES
    transfers,      \* the rows of the panel, in order
    fileStatus,     \* the status of a file's row, "new" without one
    stage,          \* what runOne of an uploading file awaits
    cred,           \* how its request stands with the access token it carries
    retried,        \* its request is a replay
    aborted,        \* its AbortController was told to abort
    ensuredDirs,
    token,          \* the stored access token: "fresh", "lapsed" or "none"
    page,           \* "here", "leaving" once the login form was asked for, "left"
    lapses,         \* counts lapses, for MaxLapses
    driveClicks     \* counts the user's actions, for MaxDriveClicks

driveVars == <<transfers, fileStatus, stage, cred, retried, aborted, ensuredDirs, token, page,
               lapses, driveClicks>>

-----------------------------------------------------------------------------

FileStatuses == {"new", "queued", "uploading", "done", "error", "canceled"}

Active == {"queued", "uploading"}

\* "old": the token was good when the request left, and has lapsed since; the
\* gateway may have judged it before or after.
Creds == {"none", "good", "old", "bad", "refresh"}

Here == page # "left"

Refreshing == \E f \in Files : cred[f] = "refresh"

DriveInit ==
    /\ transfers = <<>>
    /\ fileStatus = [f \in Files |-> "new"]
    /\ stage = [f \in Files |-> "none"]
    /\ cred = [f \in Files |-> "none"]
    /\ retried = [f \in Files |-> FALSE]
    /\ aborted = [f \in Files |-> FALSE]
    /\ ensuredDirs = {}
    /\ token = "fresh"
    /\ page = "here"
    /\ lapses = 0
    /\ driveClicks = 0

-----------------------------------------------------------------------------

\* Mutant: the last slot is never used.
PickedOneLess(rows, status) ==
    LET queued == Without(rows, {f \in Files : status[f] # "queued"})
        free == Concurrency - Cardinality({f \in Files : status[f] = "uploading"})
    IN {queued[i] : i \in {j \in DOMAIN queued : j < free}}

\* The queued rows that pump starts, in the order of the panel.
Picked(rows, status) ==
    LET queued == Without(rows, {f \in Files : status[f] # "queued"})
        free == Concurrency - Cardinality({f \in Files : status[f] = "uploading"})
    IN {queued[i] : i \in {j \in DOMAIN queued : j <= free}}

\* pump finds nothing queued or uploading.
Idle(status) == \A f \in Files : status[f] \notin Active

\* What a reaction does: the files of DOMAIN outcome leave or enter the queue with
\* that status, and pump is called; those of "sent" have seen to their directory,
\* well or badly, and send their upload; those of "again" replay their request.
\* pump first forgets the directories if nothing is queued or uploading.  "rows"
\* and "t" are the rows and the token that the reaction finds.
React(rows, t, outcome, sent, again) ==
    LET moved == DOMAIN outcome
        status == [f \in Files |-> IF f \in moved THEN outcome[f] ELSE fileStatus[f]]
        made == ensuredDirs \cup {DirOf[f] : f \in {g \in moved \cup sent : stage[g] = "mkdir"}}
        dirs == IF moved # {} /\ Idle(status) THEN {} ELSE made
        picked == IF moved # {} THEN Picked(rows, status) ELSE {}
        first(f) == IF DirOf[f] \in dirs \cup {NoDir} THEN "upload" ELSE "mkdir"
    IN /\ transfers' = rows
       /\ token' = t
       /\ fileStatus' = [f \in Files |-> IF f \in picked THEN "uploading" ELSE status[f]]
       /\ stage' = [f \in Files |-> CASE f \in picked -> first(f)
                                       [] f \in sent -> "upload"
                                       [] f \in moved \ picked -> "none"
                                       [] OTHER -> stage[f]]
       /\ cred' = [f \in Files |-> CASE f \in picked \cup sent \cup again ->
                                          IF t = "fresh" THEN "good" ELSE "bad"
                                      [] f \in moved \ picked -> "none"
                                      [] OTHER -> cred[f]]
       /\ retried' = [f \in Files |-> f \in again \/ (retried[f] /\ f \notin moved \cup sent)]
       /\ ensuredDirs' = dirs

Nobody == [f \in {} |-> "new"]

\* The request of f is over: runOne goes on to the upload, whatever became of the
\* directory, unless the file was aborted; or the upload has ended.
Over(f, how, t) ==
    IF stage[f] = "mkdir" /\ ~aborted[f]
    THEN React(transfers, t, Nobody, {f}, {})
    ELSE React(transfers, t, [g \in {f} |-> IF stage[f] = "mkdir" THEN "canceled" ELSE how], {}, {})

-----------------------------------------------------------------------------
(* Answers.                                                                *)

\* Any answer but 401, or none.  A gateway that judged the token when it had
\* lapsed saves nothing.
Answered(f, how) ==
    /\ Here
    /\ cred[f] \in {"good", "old", "bad"}
    /\ how = "done" => cred[f] # "bad"
    /\ Over(f, how, token)
    /\ UNCHANGED <<aborted, page, lapses, driveClicks>>

\* 401 for the first time: the request waits for the refresh in flight or, if
\* there is a refresh token, for one it starts.
WaitsForRefresh(f) ==
    /\ Here
    /\ cred[f] \in {"old", "bad"}
    /\ ~retried[f]
    /\ Refreshing \/ token # "none"
    /\ cred' = [cred EXCEPT ![f] = "refresh"]
    /\ UNCHANGED <<transfers, fileStatus, stage, retried, aborted, ensuredDirs, token, page,
                   lapses, driveClicks>>

\* 401 on a replay, or with no refresh token: the tokens are cleared and the page
\* is told to go to the login form (redirectToLogin).
Unauthorized(f) ==
    /\ Here
    /\ cred[f] \in {"old", "bad"}
    /\ retried[f] \/ ~(Refreshing \/ token # "none")
    /\ page' = "leaving"
    /\ Over(f, "error", "none")
    /\ UNCHANGED <<aborted, lapses, driveClicks>>

Waiting(st) == {f \in Files : cred[f] = "refresh" /\ stage[f] = st}

\* Mutant: the signal is not looked at before an upload is sent again.
DroppedNone == {}

Dropped == {f \in Waiting("upload") : aborted[f]}

\* Every waiting request is replayed with the new token, but an upload that was
\* aborted meanwhile.
RefreshSucceeds ==
    /\ Here
    /\ Refreshing
    /\ React(transfers, "fresh", [f \in Dropped |-> "canceled"], {},
             Waiting("mkdir") \cup (Waiting("upload") \ Dropped))
    /\ UNCHANGED <<aborted, page, lapses, driveClicks>>

\* The refresh is refused, or does not get through: every waiting request fails,
\* and the first to learn of it asks for the login form.
RefreshFails ==
    /\ Here
    /\ Refreshing
    /\ page' = "leaving"
    /\ LET stopped == {f \in Waiting("mkdir") : aborted[f]} IN
        React(transfers, "none",
              [f \in stopped \cup Waiting("upload") |->
                    IF f \in stopped THEN "canceled" ELSE "error"],
              Waiting("mkdir") \ stopped, {})
    /\ UNCHANGED <<aborted, lapses, driveClicks>>

TokenLapses ==
    /\ Here
    /\ token = "fresh" /\ lapses < MaxLapses
    /\ token' = "lapsed"
    /\ lapses' = lapses + 1
    /\ cred' = [f \in Files |-> IF cred[f] = "good" THEN "old" ELSE cred[f]]
    /\ UNCHANGED <<transfers, fileStatus, stage, retried, aborted, ensuredDirs, page,
                   driveClicks>>

\* The browser gets to the navigation, and with the page its uploads are gone.
PageUnloads ==
    /\ page = "leaving"
    /\ page' = "left"
    /\ UNCHANGED <<transfers, fileStatus, stage, cred, retried, aborted, ensuredDirs, token,
                   lapses, driveClicks>>

-----------------------------------------------------------------------------
(* The user.                                                               *)

DriveClick ==
    /\ Here
    /\ driveClicks < MaxDriveClicks
    /\ driveClicks' = driveClicks + 1
    /\ UNCHANGED <<page, lapses>>

enqueue(files) ==
    /\ DriveClick
    /\ \A i \in DOMAIN files : fileStatus[files[i]] = "new"
    /\ aborted' = [f \in Files |-> f \notin ToSet(files) /\ aborted[f]]
    /\ React(transfers \o files, token, [f \in ToSet(files) |-> "queued"], {}, {})

\* Aborting an upload that is being sent ends its runOne.
Stops(f) == stage[f] = "upload" /\ cred[f] # "refresh"

\* cancel and cancelAll of the rows "fs".  cancelAll does not pump by itself; rows
\* are queued only while every slot is taken, so that nothing is missed.
Cancels(fs) ==
    /\ DriveClick
    /\ fs # {}
    /\ aborted' = [f \in Files |-> aborted[f] \/ (f \in fs /\ fileStatus[f] = "uploading")]
    /\ React(transfers, token,
             [f \in {g \in fs : fileStatus[g] = "queued" \/ Stops(g)} |-> "canceled"], {}, {})

cancel(f) == fileStatus[f] \in Active /\ Cancels({f})

cancelAll == Cancels({f \in Files : fileStatus[f] \in Active})

Retries(fs) ==
    /\ DriveClick
    /\ fs # {}
    /\ aborted' = [f \in Files |-> f \notin fs /\ aborted[f]]
    /\ React(transfers, token, [f \in fs |-> "queued"], {}, {})

\* The panel offers it on the rows that failed.
retry(f) == fileStatus[f] = "error" /\ Retries({f})

retryFailed == Retries({f \in Files : fileStatus[f] = "error"})

clearFinished ==
    /\ DriveClick
    /\ LET kept == {f \in Files : fileStatus[f] \in Active} IN
        /\ transfers' = Without(transfers, Files \ kept)
        /\ transfers' # transfers
        /\ fileStatus' = [f \in Files |-> IF f \in kept THEN fileStatus[f] ELSE "new"]
        /\ aborted' = [f \in Files |-> f \in kept /\ aborted[f]]
    /\ UNCHANGED <<stage, cred, retried, ensuredDirs, token>>

-----------------------------------------------------------------------------

Answers401(f) == WaitsForRefresh(f) \/ Unauthorized(f)

Requests(f) == Answers401(f) \/ \E how \in {"done", "error"} : Answered(f, how)

Refresh == RefreshSucceeds \/ RefreshFails

DriveNext ==
    \/ \E batch \in Batches : enqueue(batch)
    \/ Refresh
    \/ TokenLapses
    \/ PageUnloads
    \/ cancelAll
    \/ retryFailed
    \/ clearFinished
    \/ \E f \in Files : Requests(f) \/ cancel(f) \/ retry(f)

\* Requests and refreshes get an answer or a network error, and a page that is told
\* to leave does.  An upload sets no timeout of its own: that a connection that went
\* silent fails in the end is left to the browser and its TCP stack.
DriveFairness ==
    /\ \A f \in Files : WF_driveVars(Requests(f))
    /\ WF_driveVars(Refresh)
    /\ WF_driveVars(PageUnloads)

DriveSpec == DriveInit /\ [][DriveNext]_driveVars /\ DriveFairness

-----------------------------------------------------------------------------
(* Properties.                                                             *)

\* The store and what runOne keeps outside of it stay in step: a file is shown
\* uploading exactly while a runOne works for it.
DriveTypeOK ==
    /\ transfers \in Seq(Files)
    /\ fileStatus \in [Files -> FileStatuses]
    /\ stage \in [Files -> {"none", "mkdir", "upload"}]
    /\ cred \in [Files -> Creds]
    /\ retried \in [Files -> BOOLEAN]
    /\ aborted \in [Files -> BOOLEAN]
    /\ ensuredDirs \subseteq {DirOf[f] : f \in Files}
    /\ token \in {"fresh", "lapsed", "none"}
    /\ page \in {"here", "leaving", "left"}
    /\ lapses \in 0..MaxLapses
    /\ driveClicks \in 0..MaxDriveClicks
    /\ \A f \in Files : (stage[f] # "none") = (fileStatus[f] = "uploading")

\* No slot idles while a row waits, no more rows are uploading than there are
\* slots, and the directories of a batch are forgotten with its last row, so that
\* a later one or a retry makes them anew: whichever of success, failure, cancel,
\* retry or a failed refresh frees a slot (pump, called wherever a row is freed or
\* queued).
PumpKeepsUp ==
    LET uploading == Cardinality({f \in Files : fileStatus[f] = "uploading"}) IN
    /\ uploading <= Concurrency
    /\ (\E f \in Files : fileStatus[f] = "queued") => uploading = Concurrency
    /\ Idle(fileStatus) => ensuredDirs = {}

\* A cancelled file has nothing under way, and is never shown as done: not when
\* its cancel fell into the mkdir, nor when it fell into the wait for a refresh
\* (apiUpload looks at the signal before it sends).
CancelWins ==
    \A f \in Files : aborted[f] =>
        /\ fileStatus[f] # "done"
        /\ stage[f] = "upload" => cred[f] = "refresh"

\* The queue empties, or the page goes: lapses, refreshes that fail, replays and
\* cancels leave no row behind that is queued or uploading for ever.
QueueDrains ==
    ~Idle(fileStatus) ~> page = "left" \/ Idle(fileStatus)

=============================================================================
