----------------------------- MODULE RdpDisplay -----------------------------
(***************************************************************************)
(* The Guacamole-based RDP and VNC display of the web console (use-rdp.ts, *)
(* its RDPClient, rdp-display.tsx).                                        *)
(*                                                                         *)
(* start() first tears the client it replaces down, which awaits the       *)
(* clean-up of a recording, and only then takes a token of its own; it     *)
(* connects a new RDPClient, and keeps or destroys it when that is done.   *)
(* The tab may be disconnected, restarted or closed during either wait.    *)
(* A client that ends tells the tab, if it has the present token, and a    *)
(* timer then starts the next one.                                         *)
(*                                                                         *)
(* The plugins, the viewport, input and clipboard are left out: they hang  *)
(* on a client.  One tab shows one node, so the effect does not rerun.     *)
(***************************************************************************)
EXTENDS Integers

CONSTANTS
    MaxStarts,      \* bound: calls of start() that get as far as a teardown
    MaxReconnect,   \* MAX_RECONNECT: retries without a connection between them
    MaxRdpClicks    \* bound: the user's clicks on the toolbar

ASSUME RdpAssumption ==
    /\ MaxStarts \in Nat \ {0}
    /\ MaxReconnect \in Nat \ {0}
    /\ MaxRdpClicks \in Nat

\* A call of start(), the token it takes and the client it makes share a number.
Starts == 1..MaxStarts

NoStart == 0

VARIABLES
    rdpMounted,     \* "new" before the tab opens, "yes", "gone" after it closes
    rdpDisposed,    \* disposedRef
    starts,         \* how many calls of start() there were
    startOf,        \* how far each of them has got
    tears,          \* the client its teardown waits for
    voided,         \* teardowns of a client that nobody waits for
    session,        \* sessionTokenRef
    clientRef,      \* the client the toolbar acts on
    guac,           \* the Guacamole client of an RDPClient
    lost,           \* clients whose tunnel has died
    rdpTimer,       \* reconnectTimerRef holds a timer
    rdpTries,       \* reconnectAttemptsRef
    phase,          \* what the tab shows
    rdpClicks       \* counts the clicks, for MaxRdpClicks

rdpVars == <<rdpMounted, rdpDisposed, starts, startOf, tears, voided, session, clientRef,
             guac, lost, rdpTimer, rdpTries, phase, rdpClicks>>

-----------------------------------------------------------------------------

StartStages == {"over", "tearing", "connecting", "discarding"}

\* "none" before connect(), "waiting" for the first frame.
GuacStates == {"none", "waiting", "connected", "closed"}

\* "connecting" stands for loading-script, connecting; handshake is "waiting".
Phases == {"idle", "connecting", "handshake", "connected", "disconnected", "error"}

Open(c) == guac[c] \in {"waiting", "connected"}

RdpInit ==
    /\ rdpMounted = "new"
    /\ rdpDisposed = FALSE
    /\ starts = 0
    /\ startOf = [a \in Starts |-> "over"]
    /\ tears = [a \in Starts |-> NoStart]
    /\ voided = [c \in Starts |-> 0]
    /\ session = NoStart
    /\ clientRef = NoStart
    /\ guac = [c \in Starts |-> "none"]
    /\ lost = {}
    /\ rdpTimer = FALSE
    /\ rdpTries = 0
    /\ phase = "idle"
    /\ rdpClicks = 0

-----------------------------------------------------------------------------
(* What a client tells the tab.                                            *)

scheduleReconnectIfTransient ==
    IF rdpDisposed \/ rdpTries >= MaxReconnect
    THEN UNCHANGED <<rdpTimer, rdpTries>>
    ELSE /\ rdpTimer' = TRUE
         /\ rdpTries' = rdpTries + 1

\* The client closes, here or by the server: the tab hears of it at once, if
\* the token is still the client's.
Closes(c) ==
    /\ guac' = [guac EXCEPT ![c] = "closed"]
    /\ IF session = c
       THEN phase' = "disconnected" /\ scheduleReconnectIfTransient
       ELSE UNCHANGED <<phase, rdpTimer, rdpTries>>

\* Mutant: a client is listened to whatever the token.
FirstFrameOfAny(c) ==
    /\ guac[c] = "waiting" /\ c \notin lost
    /\ guac' = [guac EXCEPT ![c] = "connected"]
    /\ phase' = "connected"
    /\ rdpTries' = 0
    /\ UNCHANGED <<rdpMounted, rdpDisposed, starts, startOf, tears, voided, session, clientRef,
                   lost, rdpTimer, rdpClicks>>

\* The first sync: the desktop is there.
FirstFrame(c) ==
    /\ guac[c] = "waiting" /\ c \notin lost
    /\ guac' = [guac EXCEPT ![c] = "connected"]
    /\ IF session = c
       THEN phase' = "connected" /\ rdpTries' = 0
       ELSE UNCHANGED <<phase, rdpTries>>
    /\ UNCHANGED <<rdpMounted, rdpDisposed, starts, startOf, tears, voided, session, clientRef,
                   lost, rdpTimer, rdpClicks>>

\* The network or the gateway ends the tunnel: an error, nothing retries.
TunnelDies(c) ==
    /\ Open(c) /\ c \notin lost
    /\ lost' = lost \cup {c}
    /\ phase' = IF session = c THEN "error" ELSE phase
    /\ UNCHANGED <<rdpMounted, rdpDisposed, starts, startOf, tears, voided, session, clientRef,
                   guac, rdpTimer, rdpTries, rdpClicks>>

\* guacd sends disconnect, or error and the client closes itself after it.
ServerEnds(c) ==
    /\ Open(c) /\ c \notin lost
    /\ Closes(c)
    /\ UNCHANGED <<rdpMounted, rdpDisposed, starts, startOf, tears, voided, session, clientRef,
                   lost, rdpClicks>>

-----------------------------------------------------------------------------
(* start() and teardown().                                                 *)

\* start() behind its teardown: it takes the token, and the client connects if
\* the tab is still there to mount it in.
TakesToken(a) ==
    /\ session' = a
    /\ IF rdpMounted = "gone"
       THEN phase' = "error" /\ startOf' = [startOf EXCEPT ![a] = "over"]
       ELSE phase' = "connecting" /\ startOf' = [startOf EXCEPT ![a] = "connecting"]

\* start() up to its first wait.  The timer must be cleared with it.
start ==
    /\ starts < MaxStarts
    /\ starts' = starts + 1
    /\ IF clientRef = NoStart
       THEN TakesToken(starts + 1) /\ UNCHANGED tears
       ELSE /\ startOf' = [startOf EXCEPT ![starts + 1] = "tearing"]
            /\ tears' = [tears EXCEPT ![starts + 1] = clientRef]
            /\ UNCHANGED <<session, phase>>

\* The client is destroyed: the first of several destroy() closes it.
Destroyed(c) ==
    IF Open(c)
    THEN Closes(c)
    ELSE UNCHANGED <<guac, phase, rdpTimer, rdpTries>>

\* The teardown that start() waits for is over.  The client that closed in it
\* had the token of before, and the phase it left is painted over.
TornDown(a) ==
    /\ startOf[a] = "tearing"
    /\ LET c == tears[a] IN
        IF Open(c)
        THEN /\ guac' = [guac EXCEPT ![c] = "closed"]
             /\ IF session = c
                THEN scheduleReconnectIfTransient
                ELSE UNCHANGED <<rdpTimer, rdpTries>>
        ELSE UNCHANGED <<guac, rdpTimer, rdpTries>>
    /\ clientRef' = NoStart
    /\ tears' = [tears EXCEPT ![a] = NoStart]
    /\ TakesToken(a)
    /\ UNCHANGED <<rdpMounted, rdpDisposed, starts, voided, lost, rdpClicks>>

\* A teardown that nobody waited for is over.
VoidTornDown(c) ==
    /\ voided[c] > 0
    /\ voided' = [voided EXCEPT ![c] = @ - 1]
    /\ clientRef' = NoStart
    /\ Destroyed(c)
    /\ UNCHANGED <<rdpMounted, rdpDisposed, starts, startOf, tears, session, lost, rdpClicks>>

\* Mutant: start() keeps a client that was overtaken only if another start did it.
ConnectedWhenDisposed(a) ==
    /\ startOf[a] = "connecting"
    /\ guac' = [guac EXCEPT ![a] = "waiting"]
    /\ phase' = IF session = a THEN "handshake" ELSE phase
    /\ IF session # a
       THEN startOf' = [startOf EXCEPT ![a] = "discarding"] /\ UNCHANGED clientRef
       ELSE startOf' = [startOf EXCEPT ![a] = "over"] /\ clientRef' = a
    /\ UNCHANGED <<rdpMounted, rdpDisposed, starts, tears, voided, session, lost, rdpTimer,
                   rdpTries, rdpClicks>>

\* connect() is done: the client waits for its first frame, and start() keeps it
\* if the tab was not disconnected and no other start() took the token.
Connected(a) ==
    /\ startOf[a] = "connecting"
    /\ guac' = [guac EXCEPT ![a] = "waiting"]
    /\ phase' = IF session = a THEN "handshake" ELSE phase
    /\ IF rdpDisposed \/ session # a
       THEN startOf' = [startOf EXCEPT ![a] = "discarding"] /\ UNCHANGED clientRef
       ELSE startOf' = [startOf EXCEPT ![a] = "over"] /\ clientRef' = a
    /\ UNCHANGED <<rdpMounted, rdpDisposed, starts, tears, voided, session, lost, rdpTimer,
                   rdpTries, rdpClicks>>

\* The script, the compositor or a plugin fails.
ConnectFails(a) ==
    /\ startOf[a] = "connecting"
    /\ startOf' = [startOf EXCEPT ![a] = "over"]
    /\ phase' = IF session = a THEN "error" ELSE phase
    /\ UNCHANGED <<rdpMounted, rdpDisposed, starts, tears, voided, session, clientRef, guac,
                   lost, rdpTimer, rdpTries, rdpClicks>>

\* The client that start() did not keep is destroyed.
Discarded(a) ==
    /\ startOf[a] = "discarding"
    /\ startOf' = [startOf EXCEPT ![a] = "over"]
    /\ Destroyed(a)
    /\ UNCHANGED <<rdpMounted, rdpDisposed, starts, tears, voided, session, clientRef, lost,
                   rdpClicks>>

-----------------------------------------------------------------------------
(* The user and the timer.                                                 *)

OpenRdp ==
    /\ rdpMounted = "new"
    /\ rdpMounted' = "yes"
    /\ start
    /\ UNCHANGED <<rdpDisposed, voided, clientRef, guac, lost, rdpTimer, rdpTries, rdpClicks>>

RdpTimerFires ==
    /\ rdpTimer
    /\ rdpTimer' = FALSE
    /\ start
    /\ UNCHANGED <<rdpMounted, rdpDisposed, voided, clientRef, guac, lost, rdpTries, rdpClicks>>

RdpClick ==
    /\ rdpMounted = "yes"
    /\ rdpClicks < MaxRdpClicks
    /\ rdpClicks' = rdpClicks + 1

\* After a disconnect the button does no more than reset the count.
reconnect ==
    /\ RdpClick
    /\ rdpTries' = 0
    /\ IF rdpDisposed
       THEN UNCHANGED <<starts, startOf, tears, session, phase, rdpTimer>>
       ELSE start /\ rdpTimer' = FALSE
    /\ UNCHANGED <<rdpMounted, rdpDisposed, voided, clientRef, guac, lost>>

setQuality ==
    /\ RdpClick
    /\ rdpDisposed' = FALSE
    /\ rdpTries' = 0
    /\ start
    /\ rdpTimer' = FALSE
    /\ UNCHANGED <<rdpMounted, voided, clientRef, guac, lost>>

\* void teardown().
voidTeardown ==
    /\ rdpTimer' = FALSE
    /\ voided' = IF clientRef = NoStart THEN voided ELSE [voided EXCEPT ![clientRef] = @ + 1]

disconnect ==
    /\ RdpClick
    /\ rdpDisposed' = TRUE
    /\ voidTeardown
    /\ phase' = "disconnected"
    /\ UNCHANGED <<rdpMounted, starts, startOf, tears, session, clientRef, guac, lost, rdpTries>>

CloseRdp ==
    /\ rdpMounted = "yes"
    /\ rdpMounted' = "gone"
    /\ rdpDisposed' = TRUE
    /\ voidTeardown
    /\ UNCHANGED <<starts, startOf, tears, session, clientRef, guac, lost, rdpTries, phase,
                   rdpClicks>>

-----------------------------------------------------------------------------

RdpUser == reconnect \/ setQuality \/ disconnect \/ CloseRdp

RdpServer == \E c \in Starts : FirstFrame(c) \/ TunnelDies(c) \/ ServerEnds(c)

RdpNext ==
    \/ OpenRdp
    \/ RdpTimerFires
    \/ RdpUser
    \/ RdpServer
    \/ \E a \in Starts :
        TornDown(a) \/ VoidTornDown(a) \/ Discarded(a) \/ Connected(a) \/ ConnectFails(a)

-----------------------------------------------------------------------------
(* Properties.                                                             *)

\* The state of the hook has its shape; MAX_RECONNECT bounds the retries.
RdpTypeOK ==
    /\ rdpMounted \in {"new", "yes", "gone"}
    /\ rdpDisposed \in BOOLEAN
    /\ starts \in 0..MaxStarts
    /\ startOf \in [Starts -> StartStages]
    /\ tears \in [Starts -> 0..MaxStarts]
    /\ voided \in [Starts -> Nat]
    /\ session \in 0..MaxStarts
    /\ clientRef \in 0..MaxStarts
    /\ guac \in [Starts -> GuacStates]
    /\ lost \subseteq Starts
    /\ rdpTimer \in BOOLEAN
    /\ rdpTries \in 0..MaxReconnect
    /\ phase \in Phases
    /\ rdpClicks \in 0..MaxRdpClicks

\* A tab that shows a connection has one: the client with the present token is
\* connected and its tunnel alive, though clients of earlier start() calls are
\* still closing, opening or being discarded (the comparison of tokens in every
\* callback of start).
ShownIsSo == phase = "connected" => guac[session] = "connected" /\ session \notin lost

\* A teardown that has yet to close the client.
BeingTornDown(c) ==
    voided[c] > 0 \/ \E a \in Starts : startOf[a] = "tearing" /\ tears[a] = c

\* A tab that was disconnected or closed lets go of its session: it does not keep
\* an open client that no teardown is about to close, though start() calls that
\* were under way bring clients up afterwards (the check behind connect()).
RdpLetsGo ==
    rdpDisposed /\ clientRef # NoStart /\ Open(clientRef) => BeingTornDown(clientRef)

\* A session is not replaced behind the user's back: the reconnect timer only
\* starts a client where there is none that works (the comment of useRDP, "we
\* never recreate the client mid-mount", changes "require an explicit
\* reconnect").  It does not hold: a client that start() tears down closes
\* while the token is still its own, and so arms the timer that will replace its
\* successor.
OnlyDropsReconnect ==
    [][RdpTimerFires => clientRef = NoStart \/ guac[clientRef] # "connected" \/ clientRef \in lost]_rdpVars

=============================================================================
