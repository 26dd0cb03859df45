------------------------------ MODULE Terminal ------------------------------
(***************************************************************************)
(* The interactive terminal of the web console (webssh-terminal.tsx, with  *)
(* the status machine of terminal-connection.ts and the socket wrapper     *)
(* WebSSHConnection of webssh-client.ts).                                  *)
(*                                                                         *)
(* The component connects in a React effect.  Each run of the effect loads *)
(* the terminal's scripts, loads its optional add-ons and then opens one   *)
(* WebSocket; the runs of one component share its refs: the connection,    *)
(* the reconnect timer, the attempt counter and the user-closed flag.  A   *)
(* run that has been torn down is "disposed", but its pending imports and  *)
(* the events of its socket still arrive.  A run is disposed exactly when  *)
(* it is not the current one.                                              *)
(*                                                                         *)
(* React renders between two events, so that a handler sees the status the *)
(* event before it left.  Timers may fire in any order: their delays are   *)
(* not modelled.  A closed tab is not followed further.                    *)
(***************************************************************************)
EXTENDS Integers, Sequences, FiniteSets

CONSTANTS
    Runs,           \* identities of effect runs, reused once a run is over
    NoRun,          \* no run
    Backoffs,       \* how many automatic attempts there are
    MaxClicks,      \* bound: the user's clicks on the toolbar
    MaxSessions     \* bound: how often the host answers at all

ASSUME TermAssumption ==
    /\ NoRun \notin Runs
    /\ IsFiniteSet(Runs)
    /\ Backoffs \in Nat \ {0}
    /\ MaxClicks \in Nat
    /\ MaxSessions \in Nat

VARIABLES
    mounted,        \* "new" before the tab opens, "yes", "gone" after it closes
    run,            \* how far each run of the effect, and its socket, has got
    cur,            \* the run that is not disposed
    conn,           \* connRef: the run whose socket the buttons act on
    wire,           \* what the browser has yet to hand to a socket's handlers
    shell,          \* the gateway's side of a socket
    timer,          \* reconnectTimerRef holds a timer
    leaked,         \* timers still running that the ref no longer holds
    attempt,        \* reconnectAttemptRef
    userClosed,     \* userClosedRef
    autoReconnect,  \* the user's setting; FALSE for ever in the sandbox
    status,         \* what the tab shows
    loadError,      \* the scripts could not be loaded, and a toast said so
    clicks,         \* counts the user's clicks, for MaxClicks
    sessions        \* counts the sessions the host opened, for MaxSessions

termVars == <<mounted, run, cur, conn, wire, shell, timer, leaked, attempt, userClosed,
              autoReconnect, status, loadError, clicks, sessions>>

-----------------------------------------------------------------------------

Statuses == {"connecting", "open", "reconnecting", "closed", "error"}

RunStates == {"over", "importing", "addons", "connecting", "open", "closing"}

Frames == {"ready", "close", "fin"}

\* A socket on which WebSSHConnection.close still has something to close.
Closable(r) == run[r] \in {"connecting", "open"}

\* Runs whose identity a new run may take.
Spare == {r \in Runs : run[r] = "over" /\ r # conn /\ r # cur}

Transient == {"connecting", "reconnecting"}

TermInit ==
    /\ mounted = "new"
    /\ run = [r \in Runs |-> "over"]
    /\ cur = NoRun
    /\ conn = NoRun
    /\ wire = [r \in Runs |-> <<>>]
    /\ shell = [r \in Runs |-> "none"]
    /\ timer = FALSE
    /\ leaked = 0
    /\ attempt = 0
    /\ userClosed = FALSE
    /\ autoReconnect = TRUE
    /\ status = "connecting"
    /\ loadError = FALSE
    /\ clicks = 0
    /\ sessions = 0

-----------------------------------------------------------------------------
(* Runs of the effect.                                                     *)

\* The states of the runs once connRef's socket has been closed.
HungUp == [x \in Runs |-> IF x = conn /\ Closable(x) THEN "closing" ELSE run[x]]

\* A fresh run of the effect after the clean-up of the one before it: the timer
\* that the ref holds is cleared, the socket that connRef holds is closed.
Restart ==
    /\ Spare # {}
    /\ LET r == CHOOSE x \in Spare : TRUE IN
        /\ run' = [HungUp EXCEPT ![r] = "importing"]
        /\ shell' = [shell EXCEPT ![r] = "none"]
        /\ cur' = r
        /\ status' = "connecting"

OpenTab ==
    /\ mounted = "new"
    /\ mounted' = "yes"
    /\ Restart
    /\ UNCHANGED <<conn, wire, timer, leaked, attempt, userClosed, autoReconnect, loadError,
                   clicks, sessions>>

\* The first imports are followed by the only check of the disposed flag.
ScriptsLoaded(r) ==
    /\ run[r] = "importing"
    /\ run' = [run EXCEPT ![r] = IF r = cur THEN "addons" ELSE "over"]
    /\ UNCHANGED <<mounted, cur, conn, wire, shell, timer, leaked, attempt, userClosed,
                   autoReconnect, status, loadError, clicks, sessions>>

\* A script that cannot be loaded ends the run with a toast; the status stays.
ScriptsFail(r) ==
    /\ run[r] = "importing"
    /\ run' = [run EXCEPT ![r] = "over"]
    /\ loadError' = TRUE
    /\ UNCHANGED <<mounted, cur, conn, wire, shell, timer, leaked, attempt, userClosed,
                   autoReconnect, status, clicks, sessions>>

\* Once the add-ons are in, the run opens its socket, disposed or not.
OpenSocket(r) ==
    /\ run[r] = "addons"
    /\ run' = [run EXCEPT ![r] = "connecting"]
    /\ conn' = r
    /\ userClosed' = FALSE
    /\ UNCHANGED <<mounted, cur, wire, shell, timer, leaked, attempt, autoReconnect, status,
                   loadError, clicks, sessions>>

-----------------------------------------------------------------------------
(* The gateway, at the other end of a socket.                              *)

Gateway(r, next, frames) ==
    /\ shell' = [shell EXCEPT ![r] = next]
    /\ wire' = [wire EXCEPT ![r] = frames]
    /\ UNCHANGED <<mounted, run, cur, conn, timer, leaked, attempt, userClosed, autoReconnect,
                   status, loadError, clicks>>

\* The upgrade succeeds and the gateway starts to log in at the host.
Accepts(r) ==
    /\ run[r] = "connecting" /\ shell[r] = "none"
    /\ run' = [run EXCEPT ![r] = "open"]
    /\ shell' = [shell EXCEPT ![r] = "dialing"]
    /\ UNCHANGED <<mounted, cur, conn, wire, timer, leaked, attempt, userClosed, autoReconnect,
                   status, loadError, clicks, sessions>>

\* No route to the gateway, or the upgrade is refused.
Refuses(r) ==
    /\ run[r] \in {"connecting", "closing"} /\ shell[r] = "none"
    /\ Gateway(r, "ended", Append(wire[r], "fin"))
    /\ UNCHANGED sessions

HostAnswers(r) ==
    /\ shell[r] = "dialing"
    /\ sessions < MaxSessions
    /\ sessions' = sessions + 1
    /\ Gateway(r, "live", Append(wire[r], "ready"))

\* The host cannot be reached, the grant ends, an administrator cuts the session:
\* the socket is closed without a close frame.
CutOff(r) ==
    /\ shell[r] \in {"dialing", "live"}
    /\ Gateway(r, "ended", Append(wire[r], "fin"))
    /\ UNCHANGED sessions

\* The shell exits: a close frame, then the gateway closes the socket.
ShellExits(r) ==
    /\ shell[r] = "live"
    /\ Gateway(r, "ended", wire[r] \o <<"close", "fin">>)
    /\ UNCHANGED sessions

\* The network drops with frames still on their way.
NetworkDrops(r) ==
    /\ shell[r] \in {"dialing", "live"}
    /\ wire[r] # <<>>
    /\ Gateway(r, "ended", <<"fin">>)
    /\ UNCHANGED sessions

\* The browser closed the socket: the gateway ends the session and answers.
SeesClose(r) ==
    /\ run[r] = "closing"
    /\ shell[r] \in {"dialing", "live"}
    /\ Gateway(r, "ended", Append(wire[r], "fin"))
    /\ UNCHANGED sessions

-----------------------------------------------------------------------------
(* The handlers of a socket.                                               *)

\* What onClose does.  A timer set while the ref already holds one leaks the
\* first; a disposed run ignores the event.
OnClose(r) ==
    IF r # cur
    THEN UNCHANGED <<status, timer, leaked, attempt>>
    ELSE IF userClosed
    THEN /\ status' = "closed"
         /\ UNCHANGED <<timer, leaked, attempt>>
    ELSE IF autoReconnect /\ attempt < Backoffs
    THEN /\ status' = "reconnecting"
         /\ attempt' = attempt + 1
         /\ timer' = TRUE
         /\ leaked' = IF timer THEN leaked + 1 ELSE leaked
    ELSE /\ status' = "error"
         /\ UNCHANGED <<timer, leaked, attempt>>

\* Mutant: no check of the disposed flag.
OnReadyDisposed(r) == status' = "open" /\ attempt' = 0

OnReady(r) ==
    IF r # cur
    THEN UNCHANGED <<status, attempt>>
    ELSE status' = "open" /\ attempt' = 0

Taken(r) == wire' = [wire EXCEPT ![r] = Tail(@)]

\* Frames that come after close() are dropped by the browser.
DeliverReady(r) ==
    /\ wire[r] # <<>> /\ Head(wire[r]) = "ready"
    /\ Taken(r)
    /\ IF run[r] = "open" THEN OnReady(r) ELSE UNCHANGED <<status, attempt>>
    /\ UNCHANGED <<mounted, run, cur, conn, shell, timer, leaked, userClosed, autoReconnect,
                   loadError, clicks, sessions>>

DeliverClose(r) ==
    /\ wire[r] # <<>> /\ Head(wire[r]) = "close"
    /\ Taken(r)
    /\ IF run[r] = "open" THEN OnClose(r) ELSE UNCHANGED <<status, timer, leaked, attempt>>
    /\ UNCHANGED <<mounted, run, cur, conn, shell, userClosed, autoReconnect, loadError, clicks,
                   sessions>>

\* The end of the socket is told even to the handlers of one that was closed here.
DeliverEnd(r) ==
    /\ wire[r] # <<>> /\ Head(wire[r]) = "fin"
    /\ run' = [run EXCEPT ![r] = "over"]
    /\ wire' = [wire EXCEPT ![r] = <<>>]
    /\ shell' = [shell EXCEPT ![r] = "none"]
    /\ OnClose(r)
    /\ UNCHANGED <<mounted, cur, conn, userClosed, autoReconnect, loadError, clicks, sessions>>

-----------------------------------------------------------------------------
(* Timers and the user.                                                    *)

\* The callback forgets the ref's timer, whichever timer it belongs to, and asks
\* for a new run.
TimerFires ==
    /\ timer
    /\ timer' = FALSE
    /\ Restart
    /\ UNCHANGED <<mounted, conn, wire, leaked, attempt, userClosed, autoReconnect, loadError,
                   clicks, sessions>>

LeakedTimerFires ==
    /\ leaked > 0
    /\ leaked' = IF timer THEN leaked ELSE leaked - 1
    /\ timer' = FALSE
    /\ Restart
    /\ UNCHANGED <<mounted, conn, wire, attempt, userClosed, autoReconnect, loadError, clicks,
                   sessions>>

Click ==
    /\ mounted = "yes"
    /\ clicks < MaxClicks
    /\ clicks' = clicks + 1

handleReconnect ==
    /\ Click
    /\ attempt' = 0
    /\ timer' = FALSE
    /\ Restart
    /\ UNCHANGED <<mounted, conn, wire, leaked, userClosed, autoReconnect, loadError, sessions>>

\* Mutant: the timer is not cleared.
handleDisconnectLeavesTimer ==
    /\ Click
    /\ userClosed' = TRUE
    /\ run' = HungUp
    /\ status' = IF status = "reconnecting" THEN "closed" ELSE status
    /\ UNCHANGED <<mounted, cur, conn, wire, shell, timer, leaked, attempt, autoReconnect,
                   loadError, sessions>>

handleDisconnect ==
    /\ Click
    /\ timer' = FALSE
    /\ userClosed' = TRUE
    /\ run' = HungUp
    /\ status' = IF status = "reconnecting" THEN "closed" ELSE status
    /\ UNCHANGED <<mounted, cur, conn, wire, shell, leaked, attempt, autoReconnect, loadError,
                   sessions>>

SetAutoReconnect ==
    /\ Click
    /\ autoReconnect' = ~autoReconnect
    /\ UNCHANGED <<mounted, run, cur, conn, wire, shell, timer, leaked, attempt, userClosed,
                   status, loadError, sessions>>

CloseTab ==
    /\ mounted = "yes"
    /\ mounted' = "gone"
    /\ cur' = NoRun
    /\ timer' = FALSE
    /\ run' = HungUp
    /\ UNCHANGED <<conn, wire, shell, leaked, attempt, userClosed, autoReconnect, status,
                   loadError, clicks, sessions>>

-----------------------------------------------------------------------------

Following == mounted = "yes"

Script(r) == Following /\ (ScriptsLoaded(r) \/ ScriptsFail(r) \/ OpenSocket(r))

Browser(r) == Following /\ (DeliverReady(r) \/ DeliverClose(r) \/ DeliverEnd(r))

Gateways(r) ==
    /\ Following
    /\ \/ Accepts(r) \/ Refuses(r) \/ HostAnswers(r) \/ CutOff(r) \/ ShellExits(r)
       \/ NetworkDrops(r) \/ SeesClose(r)

\* What the gateway owes every socket: an answer to the upgrade, an end to the
\* dialling, and an end to a session whose browser has gone.
Answers(r) == (run[r] = "closing" \/ shell[r] \in {"none", "dialing"}) /\ Gateways(r)

Timers == Following /\ (TimerFires \/ LeakedTimerFires)

User == handleReconnect \/ handleDisconnect \/ SetAutoReconnect \/ CloseTab

TermNext ==
    \/ OpenTab
    \/ Timers
    \/ User
    \/ \E r \in Runs : Script(r) \/ Browser(r) \/ Gateways(r)

\* Imports settle, the browser delivers what it received, timers fire, and the
\* gateway's own timeouts end every dialling.  The user owes nothing.
TermFairness ==
    /\ \A r \in Runs :
        /\ WF_termVars(Script(r))
        /\ WF_termVars(Browser(r))
        /\ WF_termVars(Answers(r))
    /\ WF_termVars(Timers)

TermSpec == TermInit /\ [][TermNext]_termVars /\ TermFairness

-----------------------------------------------------------------------------
(* Properties.                                                             *)

\* The reducer's status, the retry counter, the refs and the effect runs of a
\* WebSSHTerminal keep their shape, and the counter never passes the backoff table.
TermTypeOK ==
    /\ mounted \in {"new", "yes", "gone"}
    /\ run \in [Runs -> RunStates]
    /\ cur \in Runs \cup {NoRun}
    /\ conn \in Runs \cup {NoRun}
    /\ wire \in [Runs -> Seq(Frames)]
    /\ shell \in [Runs -> {"none", "dialing", "live", "ended"}]
    /\ timer \in BOOLEAN
    /\ leaked \in Nat
    /\ attempt \in 0..Backoffs
    /\ userClosed \in BOOLEAN
    /\ autoReconnect \in BOOLEAN
    /\ status \in Statuses
    /\ loadError \in BOOLEAN
    /\ clicks \in 0..MaxClicks
    /\ sessions \in 0..MaxSessions

\* What the tab shows is so.  A live session is that of the current run: its socket
\* has announced READY and its end has not been delivered, whatever the sockets
\* of earlier runs still send (the disposed guards of onReady and onClose).  A
\* countdown has a timer that ends it (scheduleReconnect, handleDisconnect).
StatusIsBacked ==
    mounted = "yes" =>
        /\ status = "open" =>
            /\ run[cur] \in {"open", "closing"}
            /\ shell[cur] \in {"live", "ended"}
            /\ \A i \in DOMAIN wire[cur] : wire[cur][i] # "ready"
        /\ status = "reconnecting" => timer \/ leaked > 0

\* Once a disconnection shows as closed, only the user opens a session again:
\* neither a late event of any socket nor a timer does.  Two things may, and are
\* left out: a timer that leaked before (handleDisconnect clears the one the ref
\* holds), and a disposed run that took the refs over and cleared userClosedRef.
ClosedStaysClosed ==
    [][mounted = "yes" /\ status = "closed" /\ leaked = 0 /\ conn = cur =>
        status' = "closed" \/ clicks' # clicks]_termVars

\* A tab does not connect for ever: it opens, closes, reports an error, or the
\* toast has said that its scripts cannot be loaded (the reconnect loop that the
\* guard of onClose is there to prevent).
ConnectingSettles ==
    mounted = "yes" /\ status \in Transient ~>
        mounted = "gone" \/ loadError \/ status \notin Transient

=============================================================================
