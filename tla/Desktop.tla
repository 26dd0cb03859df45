------------------------------ MODULE Desktop ------------------------------
(***************************************************************************)
(* The remote desktop of the web console (desktop-display.tsx, with the    *)
(* status machine of desktop-connection.ts and the socket wrapper          *)
(* FrameClient of frame-client.ts).                                        *)
(*                                                                         *)
(* An effect run calls connect(), which probes the browser's decoders,     *)
(* asks the gateway for a session and opens one socket on it.  Both steps  *)
(* are awaited, and the user may disconnect, reconnect or close the tab    *)
(* meanwhile: connect() checks after each of them that its run is still    *)
(* the one the tab belongs to.  Drops start a countdown to a new connect() *)
(* of the same run.                                                        *)
(*                                                                         *)
(* Rendering, input, audio, clipboard and the WebRTC track are left out:   *)
(* they hang on a session but do not start, end or replace one.            *)
(***************************************************************************)
EXTENDS Integers, FiniteSets

CONSTANTS
    Calls,          \* identities of connect() calls, reused once a call is over
    NoCall,
    DeskBackoffs,   \* how many automatic attempts there are
    MaxDeskClicks,  \* bound: the user's clicks on the toolbar
    MaxReports      \* bound: status messages the worker sends

ASSUME DeskAssumption ==
    /\ NoCall \notin Calls
    /\ IsFiniteSet(Calls)
    /\ DeskBackoffs \in Nat \ {0}
    /\ MaxDeskClicks \in Nat
    /\ MaxReports \in Nat

VARIABLES
    deskMounted,    \* "new" before the tab opens, "yes", "gone" after it closes
    call,           \* how far each call of connect() has got
    mine,           \* the calls made by the present run of the effect: not cancelled
    epochIsMine,    \* sessionEpochRef still has the epoch of the present run
    held,           \* sessions the browser was told of and has not asked to end
    sessionId,      \* sessionIdRef: the call whose session it is
    client,         \* clientRef: the call whose FrameClient it is
    ws,             \* the socket of a FrameClient, as long as it is not closed here
    timers,         \* reconnect timers still running
    deskAttempt,    \* reconnectAttemptRef
    reconnectOnDrop,\* the user's setting
    deskStatus,     \* what the stage shows
    deskClicks,     \* counts the clicks, for MaxDeskClicks
    reports         \* counts the worker's messages, for MaxReports

deskVars == <<deskMounted, call, mine, epochIsMine, held, sessionId, client, ws, timers,
              deskAttempt, reconnectOnDrop, deskStatus, deskClicks, reports>>

-----------------------------------------------------------------------------

\* "starting" stands for loading-script, connecting and handshake.
DeskStatuses == {"starting", "connected", "reconnecting", "closed", "error"}

DeskTransient == {"starting", "reconnecting"}

\* "up": the gateway made the session, its reply is on the way.
CallStages == {"over", "probe", "post", "up", "refused"}

\* "failing": the error event was handled, the close event is still to come.
WsStages == {"over", "connecting", "open", "failing"}

SpareCalls == {k \in Calls : call[k] = "over" /\ ws[k] = "over" /\ k \notin held \cup {client}}

\* Mutant: the epoch is not compared.
isCurrentSessionOfRun(k) == k \in mine

isCurrentSession(k) == k \in mine /\ epochIsMine

DeskInit ==
    /\ deskMounted = "new"
    /\ call = [k \in Calls |-> "over"]
    /\ mine = {}
    /\ epochIsMine = FALSE
    /\ held = {}
    /\ sessionId = NoCall
    /\ client = NoCall
    /\ ws = [k \in Calls |-> "over"]
    /\ timers = 0
    /\ deskAttempt = 0
    /\ reconnectOnDrop = TRUE
    /\ deskStatus = "starting"
    /\ deskClicks = 0
    /\ reports = 0

-----------------------------------------------------------------------------
(* connect() and what it awaits.                                           *)

\* closeCurrentSession(true): the client is closed, the session asked to end.
closeCurrentSession ==
    /\ ws' = [k \in Calls |-> IF k = client THEN "over" ELSE ws[k]]
    /\ client' = NoCall
    /\ held' = held \ {sessionId}
    /\ sessionId' = NoCall

\* connect() up to its first await, for a run whose calls so far are "calls".
connect(calls) ==
    /\ SpareCalls # {}
    /\ LET k == CHOOSE x \in SpareCalls : TRUE IN
        /\ call' = [call EXCEPT ![k] = "probe"]
        /\ mine' = calls \cup {k}
    /\ closeCurrentSession
    /\ deskStatus' = "starting"

OpenDesktop ==
    /\ deskMounted = "new"
    /\ deskMounted' = "yes"
    /\ epochIsMine' = TRUE
    /\ deskAttempt' = 0
    /\ connect({})
    /\ UNCHANGED <<timers, reconnectOnDrop, deskClicks, reports>>

Ends(k) == call' = [call EXCEPT ![k] = "over"]

\* collectClientCapabilities is over.
Probed(k) ==
    /\ call[k] = "probe"
    /\ call' = [call EXCEPT ![k] = IF isCurrentSession(k) THEN "post" ELSE "over"]
    /\ UNCHANGED <<deskMounted, mine, epochIsMine, held, sessionId, client, ws, timers,
                   deskAttempt, reconnectOnDrop, deskStatus, deskClicks, reports>>

\* The gateway answers POST /start.  A reply that is lost is a refusal to the
\* browser; the gateway reaps a session that nobody attaches to.
GatewayAnswers(k) ==
    /\ call[k] = "post"
    /\ \E a \in {"up", "refused"} : call' = [call EXCEPT ![k] = a]
    /\ UNCHANGED <<deskMounted, mine, epochIsMine, held, sessionId, client, ws, timers,
                   deskAttempt, reconnectOnDrop, deskStatus, deskClicks, reports>>

\* Mutant: no check after the await.
SessionStartedUnchecked(k) ==
    /\ call[k] = "up"
    /\ Ends(k)
    /\ sessionId' = k
    /\ client' = k
    /\ held' = held \cup {k}
    /\ ws' = [ws EXCEPT ![k] = "connecting"]
    /\ UNCHANGED <<deskMounted, mine, epochIsMine, timers, deskAttempt, reconnectOnDrop,
                   deskStatus, deskClicks, reports>>

\* The reply reaches connect(): attach to the session, or end it at once.
SessionStarted(k) ==
    /\ call[k] = "up"
    /\ Ends(k)
    /\ IF isCurrentSession(k)
       THEN /\ sessionId' = k
            /\ client' = k
            /\ held' = held \cup {k}
            /\ ws' = [ws EXCEPT ![k] = "connecting"]
       ELSE UNCHANGED <<sessionId, client, held, ws>>
    /\ UNCHANGED <<deskMounted, mine, epochIsMine, timers, deskAttempt, reconnectOnDrop,
                   deskStatus, deskClicks, reports>>

\* Mutant: a connect() without a catch.
StartRefusedSilently(k) ==
    /\ call[k] = "refused"
    /\ Ends(k)
    /\ UNCHANGED <<deskMounted, mine, epochIsMine, held, sessionId, client, ws, timers,
                   deskAttempt, reconnectOnDrop, deskStatus, deskClicks, reports>>

\* connect() rejects; its catch tells the user, unless the run is over.
StartRefused(k) ==
    /\ call[k] = "refused"
    /\ Ends(k)
    /\ deskStatus' = IF isCurrentSession(k) THEN "error" ELSE deskStatus
    /\ UNCHANGED <<deskMounted, mine, epochIsMine, held, sessionId, client, ws, timers,
                   deskAttempt, reconnectOnDrop, deskClicks, reports>>

-----------------------------------------------------------------------------
(* The handlers of a FrameClient: none of them runs once it was closed.    *)

\* Mutant: a drop told twice starts two timers.
scheduleReconnectTwice(k, shown) ==
    IF ~isCurrentSession(k) \/ ~reconnectOnDrop
    THEN /\ deskStatus' = shown
         /\ UNCHANGED <<timers, deskAttempt>>
    ELSE IF deskAttempt >= DeskBackoffs
    THEN /\ deskStatus' = "error"
         /\ UNCHANGED <<timers, deskAttempt>>
    ELSE /\ deskStatus' = "reconnecting"
         /\ deskAttempt' = deskAttempt + 1
         /\ timers' = timers + 1

\* Mutant: one attempt beyond the backoffs.
scheduleReconnectBeyond(k, shown) ==
    IF ~isCurrentSession(k) \/ ~reconnectOnDrop \/ timers > 0
    THEN /\ deskStatus' = shown
         /\ UNCHANGED <<timers, deskAttempt>>
    ELSE IF deskAttempt > DeskBackoffs
    THEN /\ deskStatus' = "error"
         /\ UNCHANGED <<timers, deskAttempt>>
    ELSE /\ deskStatus' = "reconnecting"
         /\ deskAttempt' = deskAttempt + 1
         /\ timers' = timers + 1

\* scheduleReconnect, "shown" being the status it finds.
scheduleReconnect(k, shown) ==
    IF ~isCurrentSession(k) \/ ~reconnectOnDrop \/ timers > 0
    THEN /\ deskStatus' = shown
         /\ UNCHANGED <<timers, deskAttempt>>
    ELSE IF deskAttempt >= DeskBackoffs
    THEN /\ deskStatus' = "error"
         /\ UNCHANGED <<timers, deskAttempt>>
    ELSE /\ deskStatus' = "reconnecting"
         /\ deskAttempt' = deskAttempt + 1
         /\ timers' = timers + 1

\* onStatus.  A session that the worker closes or that fails keeps its socket.
onStatus(k, phase) ==
    IF ~isCurrentSession(k)
    THEN UNCHANGED <<deskStatus, timers, deskAttempt>>
    ELSE IF phase = "closed"
    THEN scheduleReconnect(k, "closed")
    ELSE /\ deskStatus' = phase
         /\ deskAttempt' = IF phase = "connected" THEN 0 ELSE deskAttempt
         /\ UNCHANGED timers

Handled == UNCHANGED <<deskMounted, call, mine, epochIsMine, held, sessionId, client,
                       reconnectOnDrop, deskClicks>>

WsOpens(k) ==
    /\ ws[k] = "connecting"
    /\ ws' = [ws EXCEPT ![k] = "open"]
    /\ onStatus(k, "starting")
    /\ Handled
    /\ UNCHANGED reports

\* The worker's status, relayed by the gateway.
Reports(k, phase) ==
    /\ ws[k] = "open"
    /\ reports < MaxReports
    /\ reports' = reports + 1
    /\ onStatus(k, phase)
    /\ Handled
    /\ UNCHANGED ws

WsError(k) ==
    /\ ws[k] \in {"connecting", "open"}
    /\ ws' = [ws EXCEPT ![k] = "failing"]
    /\ IF isCurrentSession(k) /\ reconnectOnDrop
       THEN scheduleReconnect(k, deskStatus)
       ELSE /\ deskStatus' = IF isCurrentSession(k) THEN "error" ELSE deskStatus
            /\ UNCHANGED <<timers, deskAttempt>>
    /\ Handled
    /\ UNCHANGED reports

\* The close event: the only one when the gateway closes the socket in order.
WsCloses(k) ==
    /\ ws[k] \in {"open", "failing"}
    /\ ws' = [ws EXCEPT ![k] = "over"]
    /\ onStatus(k, "closed")
    /\ Handled
    /\ UNCHANGED reports

-----------------------------------------------------------------------------
(* The timer and the user.                                                 *)

ReconnectTimerFires ==
    /\ timers > 0
    /\ timers' = timers - 1
    /\ IF epochIsMine /\ deskMounted = "yes"
       THEN connect(mine)
       ELSE UNCHANGED <<call, mine, ws, client, held, sessionId, deskStatus>>
    /\ UNCHANGED <<deskMounted, epochIsMine, deskAttempt, reconnectOnDrop, deskClicks, reports>>

DeskClick ==
    /\ deskMounted = "yes"
    /\ deskClicks < MaxDeskClicks
    /\ deskClicks' = deskClicks + 1

\* The clean-up of a run clears the timer that its variable holds.
clearReconnectTimer == timers' = IF timers > 0 THEN timers - 1 ELSE 0

\* A new run of the effect, after the clean-up of the one before.
DeskReconnect ==
    /\ DeskClick
    /\ clearReconnectTimer
    /\ epochIsMine' = TRUE
    /\ deskAttempt' = 0
    /\ connect({})
    /\ UNCHANGED <<deskMounted, reconnectOnDrop, reports>>

\* The toolbar's Disconnect: it takes the epoch away from the run, and leaves
\* the timer to its callback.
DeskDisconnect ==
    /\ DeskClick
    /\ epochIsMine' = FALSE
    /\ closeCurrentSession
    /\ deskStatus' = "closed"
    /\ UNCHANGED <<deskMounted, call, mine, timers, deskAttempt, reconnectOnDrop, reports>>

SetReconnectOnDrop ==
    /\ DeskClick
    /\ reconnectOnDrop' = ~reconnectOnDrop
    /\ UNCHANGED <<deskMounted, call, mine, epochIsMine, held, sessionId, client, ws, timers,
                   deskAttempt, deskStatus, reports>>

CloseDesktop ==
    /\ deskMounted = "yes"
    /\ deskMounted' = "gone"
    /\ mine' = {}
    /\ clearReconnectTimer
    /\ closeCurrentSession
    /\ deskAttempt' = 0
    /\ UNCHANGED <<call, epochIsMine, reconnectOnDrop, deskStatus, deskClicks, reports>>

-----------------------------------------------------------------------------

CallSteps(k) == Probed(k) \/ GatewayAnswers(k) \/ SessionStarted(k) \/ StartRefused(k)

DeskUser == DeskReconnect \/ DeskDisconnect \/ SetReconnectOnDrop \/ CloseDesktop

DeskNext ==
    \/ OpenDesktop
    \/ ReconnectTimerFires
    \/ DeskUser
    \/ \E k \in Calls :
        \/ CallSteps(k)
        \/ WsOpens(k) \/ WsError(k) \/ WsCloses(k)
        \/ \E phase \in DeskStatuses : Reports(k, phase)

\* What becomes of a socket while the tab shows a start under way: it opens, fails
\* or closes, or the worker reports how the start ended.
GatewaySettles(k) ==
    \/ WsOpens(k) \/ WsError(k) \/ WsCloses(k)
    \/ \E phase \in DeskStatuses \ DeskTransient : Reports(k, phase)

\* Timers fire, and a request gets its answer or a network error.  The gateway sets
\* no limit to a start: the worker does, by its timeouts for connecting and for
\* unacknowledged data, and a worker that says nothing more must end its socket
\* (assumed; nothing in the browser or the gateway does it).  The user owes nothing.
DeskFairness ==
    /\ \A k \in Calls :
        /\ WF_deskVars(CallSteps(k))
        /\ WF_deskVars(deskStatus \in DeskTransient /\ GatewaySettles(k))
        /\ WF_deskVars(ws[k] = "failing" /\ WsCloses(k))
    /\ WF_deskVars(ReconnectTimerFires)

DeskSpec == DeskInit /\ [][DeskNext]_deskVars /\ DeskFairness

-----------------------------------------------------------------------------
(* Properties.                                                             *)

\* The same of a DesktopDisplay: scheduleReconnect stops counting where
\* RECONNECT_DELAYS_MS ends, although one drop may be reported several times.
DeskTypeOK ==
    /\ deskMounted \in {"new", "yes", "gone"}
    /\ call \in [Calls -> CallStages]
    /\ mine \subseteq Calls
    /\ epochIsMine \in BOOLEAN
    /\ held \subseteq Calls
    /\ sessionId \in Calls \cup {NoCall}
    /\ client \in Calls \cup {NoCall}
    /\ ws \in [Calls -> WsStages]
    /\ timers \in Nat
    /\ deskAttempt \in 0..DeskBackoffs
    /\ reconnectOnDrop \in BOOLEAN
    /\ deskStatus \in DeskStatuses
    /\ deskClicks \in 0..MaxDeskClicks
    /\ reports \in 0..MaxReports

\* No session is forgotten: one the gateway has told the browser of is the tab's
\* own, or has been asked to end, whichever await its reply came out of (the
\* check after startSession, closeCurrentSession before each connect).
NoOrphanSession ==
    \A k \in held : sessionId = k /\ deskMounted = "yes"

\* A tab drives one socket at a time: drops that are told twice, retries and
\* clicks never leave two calls that each open one (the guard of
\* scheduleReconnect on its timer, closeCurrentSession).
OneConnection ==
    /\ \A k \in Calls : ws[k] # "over" => client = k
    /\ Cardinality({k \in Calls : isCurrentSession(k) /\ call[k] # "over"}) <= 1

\* After Disconnect the tab stays disconnected until the user asks again, though
\* a call was still waiting for its session or a timer was counting down.
DisconnectSticks ==
    deskMounted = "yes" /\ ~epochIsMine =>
        /\ deskStatus = "closed"
        /\ sessionId = NoCall
        /\ \A k \in Calls : ws[k] = "over"

\* A tab does not stay on the way to a session for ever: it connects, closes or
\* says what failed.
DeskSettles ==
    deskMounted = "yes" /\ deskStatus \in DeskTransient ~>
        deskMounted = "gone" \/ deskStatus \notin DeskTransient

=============================================================================
