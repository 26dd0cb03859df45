----------------------------- MODULE TabProofs -----------------------------
(***************************************************************************)
(* Proofs about the tabs of the web console: RdpDisplay, Desktop and       *)
(* Terminal, for every number of runs, calls, starts, retries and clicks.  *)
(***************************************************************************)
EXTENDS Terminal, Desktop, RdpDisplay, FiniteSetTheorems, SequenceTheorems, TLAPS

\* A counter below its bound may be increased.
LEMMA CountUp ==
    ASSUME NEW m \in Nat, NEW n \in 0..m, n < m
    PROVE  n + 1 \in 0..m
  OBVIOUS

-----------------------------------------------------------------------------
(* RdpDisplay.                                                             *)

\* A kept client belongs to a start() that is over; no start() is ahead of its call.
StartsInOrder ==
    /\ clientRef # NoStart => clientRef <= starts /\ startOf[clientRef] = "over"
    /\ \A a \in Starts : startOf[a] # "over" => a <= starts

\* A tab that shows a connection has a token.
ShownHasToken == phase = "connected" => session \in Starts

\* Zero is no start, the next one is.
LEMMA StartNumbers ==
    /\ NoStart \notin Starts /\ NoStart \in 0..MaxStarts
    /\ \A a \in Starts : a \in 0..MaxStarts
    /\ \A n \in 0..MaxStarts : n < MaxStarts => n + 1 \in Starts
    /\ \A n \in 0..MaxStarts : n # NoStart => n \in Starts
  BY RdpAssumption DEF Starts, NoStart

\* What start() leaves has its shape.
LEMMA StartType ==
    ASSUME RdpTypeOK, start
    PROVE  /\ starts' \in 0..MaxStarts /\ startOf' \in [Starts -> StartStages]
           /\ tears' \in [Starts -> 0..MaxStarts] /\ session' \in 0..MaxStarts
           /\ phase' \in Phases
<1>1. PICK a \in Starts : a = starts + 1
  BY StartNumbers DEF start, RdpTypeOK
<1>2. a \in 0..MaxStarts /\ starts' = a
  BY <1>1, StartNumbers DEF start
<1>3. \E s \in {"over", "connecting", "tearing"} : startOf' = [startOf EXCEPT ![a] = s]
  BY <1>1 DEF start, TakesToken
<1>4. tears' \in {tears, [tears EXCEPT ![a] = clientRef]}
  BY <1>1 DEF start, TakesToken
<1>5. session' \in {session, a}
  BY <1>1 DEF start, TakesToken
<1>6. phase' \in {phase, "error", "connecting"}
  BY DEF start, TakesToken
<1> QED BY <1>2, <1>3, <1>4, <1>5, <1>6 DEF RdpTypeOK, StartStages, Phases

\* So has what a client that closes leaves.
LEMMA ClosesType ==
    ASSUME RdpTypeOK, scheduleReconnectIfTransient
    PROVE  rdpTimer' \in BOOLEAN /\ rdpTries' \in 0..MaxReconnect
<1>1. ~(rdpTries >= MaxReconnect) => rdpTries + 1 \in 0..MaxReconnect
  BY RdpAssumption DEF RdpTypeOK
<1> QED BY <1>1 DEF RdpTypeOK, scheduleReconnectIfTransient

\* So has what a client that is destroyed leaves.
LEMMA DestroyedType ==
    ASSUME RdpTypeOK, NEW c \in Starts, Destroyed(c) \/ Closes(c)
    PROVE  /\ guac' \in [Starts -> GuacStates] /\ phase' \in Phases
           /\ rdpTimer' \in BOOLEAN /\ rdpTries' \in 0..MaxReconnect
  BY ClosesType DEF RdpTypeOK, Destroyed, Closes, GuacStates, Phases

\* The shapes of the hook's refs.
LEMMA RdpTypeStep ==
    RdpTypeOK /\ [RdpNext]_rdpVars => RdpTypeOK'
<1> SUFFICES ASSUME RdpTypeOK, [RdpNext]_rdpVars PROVE RdpTypeOK'
  OBVIOUS
<1> USE DEF RdpTypeOK
<1>c. RdpClick => rdpClicks' \in 0..MaxRdpClicks
  BY RdpAssumption, CountUp DEF RdpClick
<1>t. 0 \in 0..MaxReconnect
  BY RdpAssumption
<1>1. CASE OpenRdp
  BY <1>1, StartType DEF OpenRdp
<1>2. CASE RdpTimerFires
  BY <1>2, StartType DEF RdpTimerFires
<1>3. CASE reconnect
  BY <1>3, <1>c, <1>t, StartType DEF reconnect
<1>4. CASE setQuality
  BY <1>4, <1>c, <1>t, StartType DEF setQuality
<1>v. voidTeardown => voided' \in [Starts -> Nat] /\ rdpTimer' \in BOOLEAN
  <2> SUFFICES ASSUME voidTeardown PROVE voided' \in [Starts -> Nat] /\ rdpTimer' \in BOOLEAN
    OBVIOUS
  <2>1. clientRef # NoStart => voided[clientRef] + 1 \in Nat
    BY StartNumbers
  <2> QED BY <2>1 DEF voidTeardown
<1>5. CASE disconnect
  BY <1>5, <1>c, <1>v DEF disconnect, Phases
<1>6. CASE CloseRdp
  BY <1>6, <1>v DEF CloseRdp
<1>7. ASSUME NEW c \in Starts, FirstFrame(c) \/ TunnelDies(c)
      PROVE  RdpTypeOK'
  BY <1>7, <1>t DEF FirstFrame, TunnelDies, GuacStates, Phases
<1>8. ASSUME NEW c \in Starts, ServerEnds(c)
      PROVE  RdpTypeOK'
  BY <1>8, DestroyedType DEF ServerEnds
<1>9. ASSUME NEW a \in Starts, TornDown(a)
      PROVE  RdpTypeOK'
  <2>1. guac' \in [Starts -> GuacStates] /\ rdpTimer' \in BOOLEAN /\ rdpTries' \in 0..MaxReconnect
    BY <1>9, ClosesType DEF TornDown, GuacStates
  <2>2. a \in 0..MaxStarts /\ NoStart \in 0..MaxStarts
    BY StartNumbers
  <2>3. startOf' \in [Starts -> StartStages] /\ session' = a /\ phase' \in Phases
    BY <1>9 DEF TornDown, TakesToken, StartStages, Phases
  <2> QED BY <1>9, <2>1, <2>2, <2>3 DEF TornDown
<1>10. ASSUME NEW c \in Starts, VoidTornDown(c)
       PROVE  RdpTypeOK'
  <2>1. voided' \in [Starts -> Nat]
    <3>1. voided[c] - 1 \in Nat
      BY <1>10 DEF VoidTornDown
    <3> QED BY <1>10, <3>1 DEF VoidTornDown
  <2> QED BY <1>10, <2>1, DestroyedType, StartNumbers DEF VoidTornDown
<1>11. ASSUME NEW a \in Starts, Discarded(a)
       PROVE  RdpTypeOK'
  BY <1>11, DestroyedType DEF Discarded, StartStages
<1>12. ASSUME NEW a \in Starts, Connected(a) \/ ConnectFails(a)
       PROVE  RdpTypeOK'
  BY <1>12, StartNumbers DEF Connected, ConnectFails, StartStages, GuacStates, Phases
<1>13. CASE UNCHANGED rdpVars
  BY <1>13 DEF rdpVars
<1> QED BY <1>1, <1>2, <1>3, <1>4, <1>5, <1>6, <1>7, <1>8, <1>9, <1>10, <1>11, <1>12, <1>13
           DEF RdpNext, RdpUser, RdpServer

\* A start() that is under way is no kept client.
LEMMA OrderStep ==
    RdpTypeOK /\ StartsInOrder /\ [RdpNext]_rdpVars => StartsInOrder'
<1> SUFFICES ASSUME RdpTypeOK, StartsInOrder, [RdpNext]_rdpVars PROVE StartsInOrder'
  OBVIOUS
<1> USE StartNumbers, RdpAssumption DEF RdpTypeOK, StartsInOrder
<1>1. CASE OpenRdp
  BY <1>1 DEF OpenRdp, start, TakesToken
<1>2. CASE RdpTimerFires
  BY <1>2 DEF RdpTimerFires, start, TakesToken
<1>3. CASE reconnect
  BY <1>3 DEF reconnect, RdpClick, start, TakesToken
<1>4. CASE setQuality
  BY <1>4 DEF setQuality, RdpClick, start, TakesToken
<1>5. CASE disconnect
  BY <1>5 DEF disconnect, RdpClick, voidTeardown
<1>6. CASE CloseRdp
  BY <1>6 DEF CloseRdp, voidTeardown
<1>7. ASSUME NEW c \in Starts, FirstFrame(c)
      PROVE  StartsInOrder'
  BY <1>7 DEF FirstFrame
<1>8. ASSUME NEW c \in Starts, TunnelDies(c)
      PROVE  StartsInOrder'
  BY <1>8 DEF TunnelDies
<1>9. ASSUME NEW c \in Starts, ServerEnds(c)
      PROVE  StartsInOrder'
  BY <1>9 DEF ServerEnds, Closes, scheduleReconnectIfTransient
<1>10. ASSUME NEW a \in Starts, TornDown(a)
      PROVE  StartsInOrder'
  BY <1>10 DEF TornDown, TakesToken, scheduleReconnectIfTransient
<1>11. ASSUME NEW a \in Starts, VoidTornDown(a)
      PROVE  StartsInOrder'
  BY <1>11 DEF VoidTornDown, Destroyed, Closes, scheduleReconnectIfTransient
<1>12. ASSUME NEW a \in Starts, Discarded(a)
      PROVE  StartsInOrder'
  BY <1>12 DEF Discarded, Destroyed, Closes, scheduleReconnectIfTransient
<1>13. ASSUME NEW a \in Starts, Connected(a)
      PROVE  StartsInOrder'
  BY <1>13 DEF Connected
<1>14. ASSUME NEW a \in Starts, ConnectFails(a)
      PROVE  StartsInOrder'
  BY <1>14 DEF ConnectFails
<1>15. CASE UNCHANGED rdpVars
  BY <1>15 DEF rdpVars
<1> QED BY <1>1, <1>2, <1>3, <1>4, <1>5, <1>6, <1>7, <1>8, <1>9, <1>10, <1>11, <1>12, <1>13, <1>14, <1>15
           DEF RdpNext, RdpUser, RdpServer

\* Only the client with the token changes what is shown.
LEMMA ShownStep ==
    RdpTypeOK /\ ShownHasToken /\ ShownIsSo /\ [RdpNext]_rdpVars => (ShownHasToken /\ ShownIsSo)'
<1> SUFFICES ASSUME RdpTypeOK, ShownHasToken, ShownIsSo, [RdpNext]_rdpVars PROVE (ShownHasToken /\ ShownIsSo)'
  OBVIOUS
<1> USE DEF RdpTypeOK, ShownHasToken, ShownIsSo
<1>1. CASE OpenRdp
  BY <1>1 DEF OpenRdp, start, TakesToken
<1>2. CASE RdpTimerFires
  BY <1>2 DEF RdpTimerFires, start, TakesToken
<1>3. CASE reconnect
  BY <1>3 DEF reconnect, RdpClick, start, TakesToken
<1>4. CASE setQuality
  BY <1>4 DEF setQuality, RdpClick, start, TakesToken
<1>5. CASE disconnect
  BY <1>5 DEF disconnect, RdpClick, voidTeardown
<1>6. CASE CloseRdp
  BY <1>6 DEF CloseRdp, voidTeardown
<1>7. ASSUME NEW c \in Starts, FirstFrame(c)
      PROVE  (ShownHasToken /\ ShownIsSo)'
  BY <1>7 DEF FirstFrame
<1>8. ASSUME NEW c \in Starts, TunnelDies(c)
      PROVE  (ShownHasToken /\ ShownIsSo)'
  BY <1>8 DEF TunnelDies
<1>9. ASSUME NEW c \in Starts, ServerEnds(c)
      PROVE  (ShownHasToken /\ ShownIsSo)'
  BY <1>9 DEF ServerEnds, Closes, scheduleReconnectIfTransient
<1>10. ASSUME NEW a \in Starts, TornDown(a)
      PROVE  (ShownHasToken /\ ShownIsSo)'
  BY <1>10 DEF TornDown, TakesToken, scheduleReconnectIfTransient
<1>11. ASSUME NEW a \in Starts, VoidTornDown(a)
      PROVE  (ShownHasToken /\ ShownIsSo)'
  BY <1>11 DEF VoidTornDown, Destroyed, Closes, scheduleReconnectIfTransient
<1>12. ASSUME NEW a \in Starts, Discarded(a)
      PROVE  (ShownHasToken /\ ShownIsSo)'
  BY <1>12 DEF Discarded, Destroyed, Closes, scheduleReconnectIfTransient
<1>13. ASSUME NEW a \in Starts, Connected(a)
      PROVE  (ShownHasToken /\ ShownIsSo)'
  BY <1>13 DEF Connected
<1>14. ASSUME NEW a \in Starts, ConnectFails(a)
      PROVE  (ShownHasToken /\ ShownIsSo)'
  BY <1>14 DEF ConnectFails
<1>15. CASE UNCHANGED rdpVars
  BY <1>15 DEF rdpVars
<1> QED BY <1>1, <1>2, <1>3, <1>4, <1>5, <1>6, <1>7, <1>8, <1>9, <1>10, <1>11, <1>12, <1>13, <1>14, <1>15
           DEF RdpNext, RdpUser, RdpServer

\* A disposed tab keeps no open client but one that is being torn down.
LEMMA LetsGoStep ==
    RdpTypeOK /\ StartsInOrder /\ RdpLetsGo /\ [RdpNext]_rdpVars => RdpLetsGo'
<1> SUFFICES ASSUME RdpTypeOK, StartsInOrder, RdpLetsGo, [RdpNext]_rdpVars PROVE RdpLetsGo'
  OBVIOUS
<1> USE StartNumbers, RdpAssumption DEF RdpTypeOK, StartsInOrder, RdpLetsGo, BeingTornDown, Open
<1>1. CASE OpenRdp
  BY <1>1 DEF OpenRdp, start, TakesToken
<1>2. CASE RdpTimerFires
  BY <1>2 DEF RdpTimerFires, start, TakesToken
<1>3. CASE reconnect
  BY <1>3 DEF reconnect, RdpClick, start, TakesToken
<1>4. CASE setQuality
  BY <1>4 DEF setQuality, RdpClick, start, TakesToken
<1>5. CASE disconnect
  BY <1>5 DEF disconnect, RdpClick, voidTeardown
<1>6. CASE CloseRdp
  BY <1>6 DEF CloseRdp, voidTeardown
<1>7. ASSUME NEW c \in Starts, FirstFrame(c)
      PROVE  RdpLetsGo'
  BY <1>7 DEF FirstFrame
<1>8. ASSUME NEW c \in Starts, TunnelDies(c)
      PROVE  RdpLetsGo'
  BY <1>8 DEF TunnelDies
<1>9. ASSUME NEW c \in Starts, ServerEnds(c)
      PROVE  RdpLetsGo'
  BY <1>9 DEF ServerEnds, Closes, scheduleReconnectIfTransient
<1>10. ASSUME NEW a \in Starts, TornDown(a)
      PROVE  RdpLetsGo'
  BY <1>10 DEF TornDown, TakesToken, scheduleReconnectIfTransient
<1>11. ASSUME NEW a \in Starts, VoidTornDown(a)
      PROVE  RdpLetsGo'
  BY <1>11 DEF VoidTornDown, Destroyed, Closes, scheduleReconnectIfTransient
<1>12. ASSUME NEW a \in Starts, Discarded(a)
      PROVE  RdpLetsGo'
  BY <1>12 DEF Discarded, Destroyed, Closes, scheduleReconnectIfTransient
<1>13. ASSUME NEW a \in Starts, Connected(a)
      PROVE  RdpLetsGo'
  BY <1>13 DEF Connected
<1>14. ASSUME NEW a \in Starts, ConnectFails(a)
      PROVE  RdpLetsGo'
  BY <1>14 DEF ConnectFails
<1>15. CASE UNCHANGED rdpVars
  BY <1>15 DEF rdpVars
<1> QED BY <1>1, <1>2, <1>3, <1>4, <1>5, <1>6, <1>7, <1>8, <1>9, <1>10, <1>11, <1>12, <1>13, <1>14, <1>15
           DEF RdpNext, RdpUser, RdpServer

RdpInv == RdpTypeOK /\ StartsInOrder /\ ShownHasToken /\ ShownIsSo /\ RdpLetsGo

\* The tab starts well, and stays so.
LEMMA RdpInvariant == RdpInit /\ [][RdpNext]_rdpVars => []RdpInv
<1>1. RdpInit => RdpInv
  <2> SUFFICES ASSUME RdpInit PROVE RdpInv
    OBVIOUS
  <2>1. RdpTypeOK
    <3>1. NoStart \in 0..MaxStarts /\ NoStart = 0 /\ 0 \in 0..MaxReconnect /\ 0 \in 0..MaxRdpClicks
      BY RdpAssumption DEF NoStart
    <3> QED BY <3>1 DEF RdpInit, RdpTypeOK, StartStages, GuacStates, Phases
  <2>2. StartsInOrder /\ ShownHasToken /\ ShownIsSo /\ RdpLetsGo
    BY DEF RdpInit, StartsInOrder, ShownHasToken, ShownIsSo, RdpLetsGo
  <2> QED BY <2>1, <2>2 DEF RdpInv
<1>2. RdpInv /\ [RdpNext]_rdpVars => RdpInv'
  BY RdpTypeStep, OrderStep, ShownStep, LetsGoStep DEF RdpInv
<1> QED BY <1>1, <1>2, PTL

-----------------------------------------------------------------------------
(* Desktop.                                                                *)

\* The calls of the present run that are still on their way to a session.
Pending == {k \in Calls : isCurrentSession(k) /\ call[k] # "over"}

\* One timer at most, none without a tab, and no calls of a run either.
OneTimer == timers <= 1 /\ (deskMounted # "yes" => timers = 0 /\ mine = {})

SocketIsClient == \A k \in Calls : ws[k] # "over" => client = k

\* A call that is under way is the only one, no timer would start a second, and
\* the session before it has been let go.
OnePending ==
    /\ \A j, k \in Pending : j = k
    /\ Pending # {} => timers = 0 /\ client = NoCall /\ sessionId = NoCall

DeskInv ==
    DeskTypeOK /\ OneTimer /\ SocketIsClient /\ OnePending /\ NoOrphanSession /\ DisconnectSticks

\* connect() takes an identity that is free.
LEMMA ConnectTakes ==
    ASSUME NEW calls, connect(calls)
    PROVE  \E k \in Calls :
             /\ call[k] = "over" /\ call' = [call EXCEPT ![k] = "probe"]
             /\ mine' = calls \cup {k} /\ closeCurrentSession /\ deskStatus' = "starting"
<1> DEFINE k == CHOOSE x \in SpareCalls : TRUE
<1>1. k \in SpareCalls
  BY DEF connect
<1> QED BY <1>1 DEF connect, SpareCalls

\* What connect() leaves has its shape.
LEMMA ConnectType ==
    ASSUME DeskTypeOK, NEW calls \in SUBSET Calls, connect(calls)
    PROVE  /\ call' \in [Calls -> CallStages] /\ mine' \subseteq Calls
           /\ ws' \in [Calls -> WsStages] /\ client' \in Calls \cup {NoCall}
           /\ held' \subseteq Calls /\ sessionId' \in Calls \cup {NoCall}
           /\ deskStatus' \in DeskStatuses
<1>1. PICK k \in Calls :
             /\ call[k] = "over" /\ call' = [call EXCEPT ![k] = "probe"]
             /\ mine' = calls \cup {k} /\ closeCurrentSession /\ deskStatus' = "starting"
  BY ConnectTakes
<1> QED BY <1>1 DEF DeskTypeOK, closeCurrentSession, CallStages, WsStages, DeskStatuses

\* The four handlers of a socket, told alike: the socket is that of the client,
\* only the present run sets a timer, if there is none, or changes the status.
LEMMA HandlerHolds ==
    ASSUME DeskTypeOK, NEW k \in Calls,
           \/ WsOpens(k) \/ WsError(k) \/ WsCloses(k)
           \/ \E p \in DeskStatuses : Reports(k, p)
    PROVE  /\ ws[k] # "over" /\ \E w \in WsStages : ws' = [ws EXCEPT ![k] = w]
           /\ timers' = timers \/ (isCurrentSession(k) /\ timers = 0 /\ timers' = 1)
           /\ isCurrentSession(k) \/ deskStatus' = deskStatus
           /\ deskStatus' \in DeskStatuses /\ deskAttempt' \in 0..DeskBackoffs
           /\ Handled /\ reports' \in 0..MaxReports
<1> DEFINE Told ==
             /\ timers' = timers \/ (isCurrentSession(k) /\ timers = 0 /\ timers' = 1)
             /\ isCurrentSession(k) \/ deskStatus' = deskStatus
             /\ deskStatus' \in DeskStatuses /\ deskAttempt' \in 0..DeskBackoffs
<1>a. ASSUME NEW shown \in DeskStatuses, isCurrentSession(k), scheduleReconnect(k, shown)
      PROVE  Told
  <2>1. ~(deskAttempt >= DeskBackoffs) => deskAttempt + 1 \in 0..DeskBackoffs
    BY DeskAssumption DEF DeskTypeOK
  <2>2. ~(timers > 0) => timers = 0
    BY DEF DeskTypeOK
  <2> QED BY <1>a, <2>1, <2>2 DEF scheduleReconnect, DeskTypeOK, DeskStatuses
<1>b. ASSUME NEW p \in DeskStatuses, onStatus(k, p)
      PROVE  Told
  <2>1. 0 \in 0..DeskBackoffs /\ "closed" \in DeskStatuses
    BY DeskAssumption DEF DeskStatuses
  <2>2. CASE isCurrentSession(k) /\ p = "closed"
    BY <1>a, <1>b, <2>1, <2>2 DEF onStatus
  <2> QED BY <1>b, <2>1, <2>2 DEF onStatus, DeskTypeOK
<1> HIDE DEF Told
<1>1. CASE WsOpens(k)
  <2>1. Told
    BY <1>1, <1>b DEF WsOpens, DeskStatuses
  <2> QED BY <1>1, <2>1 DEF WsOpens, WsStages, DeskTypeOK, Told
<1>2. CASE WsError(k)
  <2>1. CASE isCurrentSession(k) /\ reconnectOnDrop
    <3>1. Told
      BY <1>2, <1>a, <2>1 DEF WsError, DeskTypeOK
    <3> QED BY <1>2, <3>1 DEF WsError, WsStages, DeskTypeOK, Told
  <2>2. CASE ~(isCurrentSession(k) /\ reconnectOnDrop)
    BY <1>2, <2>2 DEF WsError, WsStages, DeskTypeOK, DeskStatuses
  <2> QED BY <2>1, <2>2
<1>3. CASE WsCloses(k)
  <2>1. Told
    BY <1>3, <1>b DEF WsCloses, DeskStatuses
  <2> QED BY <1>3, <2>1 DEF WsCloses, WsStages, DeskTypeOK, Told
<1>4. ASSUME NEW p \in DeskStatuses, Reports(k, p)
      PROVE  /\ Told /\ ws[k] = "open" /\ UNCHANGED ws /\ Handled
             /\ reports' \in 0..MaxReports
  <2>1. Told
    BY <1>4, <1>b DEF Reports
  <2>2. reports' \in 0..MaxReports
    BY <1>4, DeskAssumption, CountUp DEF Reports, DeskTypeOK
  <2> QED BY <1>4, <2>1, <2>2 DEF Reports
<1>5. ASSUME UNCHANGED ws, ws[k] = "open"
      PROVE  \E w \in WsStages : ws' = [ws EXCEPT ![k] = w]
  BY <1>5 DEF WsStages, DeskTypeOK
<1> QED BY <1>1, <1>2, <1>3, <1>4, <1>5 DEF Told

\* The shapes of the refs, and the bound of the retries.
LEMMA DeskTypeStep ==
    ASSUME DeskTypeOK, [DeskNext]_deskVars
    PROVE  DeskTypeOK'
<1>c. DeskClick => deskClicks' \in 0..MaxDeskClicks
  BY DeskAssumption, CountUp DEF DeskClick, DeskTypeOK
<1>t. /\ (timers > 0 => timers - 1 \in Nat) /\ 0 \in Nat
      /\ 0 \in 0..DeskBackoffs /\ {} \in SUBSET Calls /\ mine \in SUBSET Calls
  BY DeskAssumption DEF DeskTypeOK
<1>d. closeCurrentSession =>
           /\ ws' \in [Calls -> WsStages] /\ client' \in Calls \cup {NoCall}
           /\ held' \subseteq Calls /\ sessionId' \in Calls \cup {NoCall}
  BY DEF DeskTypeOK, closeCurrentSession, WsStages
<1>1. CASE OpenDesktop
  BY <1>1, <1>t, ConnectType DEF OpenDesktop, DeskTypeOK
<1>2. CASE ReconnectTimerFires
  <2>1. timers' \in Nat
    BY <1>2, <1>t DEF ReconnectTimerFires
  <2> QED BY <1>2, <1>t, <2>1, ConnectType DEF ReconnectTimerFires, DeskTypeOK
<1>3. CASE DeskReconnect
  BY <1>3, <1>c, <1>t, ConnectType DEF DeskReconnect, clearReconnectTimer, DeskTypeOK, DeskClick
<1>4. CASE DeskDisconnect
  BY <1>4, <1>c, <1>d DEF DeskDisconnect, DeskTypeOK, DeskStatuses
<1>5. CASE SetReconnectOnDrop
  BY <1>5, <1>c DEF SetReconnectOnDrop, DeskTypeOK
<1>6. CASE CloseDesktop
  BY <1>6, <1>d, <1>t DEF CloseDesktop, clearReconnectTimer, DeskTypeOK
<1>7. ASSUME NEW k \in Calls, CallSteps(k)
      PROVE  DeskTypeOK'
  BY <1>7 DEF CallSteps, Probed, GatewayAnswers, SessionStarted, StartRefused, Ends, DeskTypeOK,
              CallStages, WsStages, DeskStatuses
<1>8. ASSUME NEW k \in Calls,
             \/ WsOpens(k) \/ WsError(k) \/ WsCloses(k)
             \/ \E p \in DeskStatuses : Reports(k, p)
      PROVE  DeskTypeOK'
  BY <1>8, HandlerHolds DEF Handled, DeskTypeOK
<1>9. CASE UNCHANGED deskVars
  BY <1>9 DEF deskVars, DeskTypeOK
<1> QED BY <1>1, <1>2, <1>3, <1>4, <1>5, <1>6, <1>7, <1>8, <1>9 DEF DeskNext, DeskUser

\* What connect() does to the promises: one call of the run is pending, and the
\* session before it is gone.
LEMMA ConnectKeeps ==
    ASSUME DeskInv, NEW calls \in SUBSET Calls, connect(calls), timers' = 0,
           epochIsMine', deskMounted' = "yes",
           \A k \in calls : isCurrentSession(k) /\ k \notin Pending
    PROVE  (OneTimer /\ SocketIsClient /\ OnePending /\ NoOrphanSession /\ DisconnectSticks)'
<1>1. PICK k \in Calls :
             /\ call[k] = "over" /\ call' = [call EXCEPT ![k] = "probe"]
             /\ mine' = calls \cup {k} /\ closeCurrentSession
  BY ConnectTakes
<1>2. OneTimer' /\ DisconnectSticks'
  BY DEF OneTimer, DisconnectSticks
<1>3. SocketIsClient' /\ NoOrphanSession'
  BY <1>1 DEF closeCurrentSession, SocketIsClient, NoOrphanSession, DeskInv, DeskTypeOK
<1>4. \A j \in Pending' : j = k
  BY <1>1 DEF Pending, isCurrentSession, DeskInv, DeskTypeOK
<1>5. OnePending'
  BY <1>1, <1>4 DEF OnePending, closeCurrentSession
<1> QED BY <1>2, <1>3, <1>5

\* A step of connect() after an await.
LEMMA CallKeeps ==
    ASSUME DeskInv, NEW k \in Calls, CallSteps(k)
    PROVE  (OneTimer /\ SocketIsClient /\ OnePending /\ NoOrphanSession /\ DisconnectSticks)'
<1> USE DEF DeskInv
<1>1. /\ UNCHANGED <<deskMounted, mine, epochIsMine, timers>> /\ call[k] # "over"
      /\ \E c \in CallStages : call' = [call EXCEPT ![k] = c]
      /\ isCurrentSession(k) \/ UNCHANGED <<sessionId, client, held, ws, deskStatus>>
  BY DEF CallSteps, Probed, GatewayAnswers, SessionStarted, StartRefused, Ends, CallStages
<1>2. OneTimer'
  BY <1>1 DEF OneTimer
<1>3. Pending' \subseteq Pending
  BY <1>1 DEF Pending, isCurrentSession, DeskTypeOK
<1>4. CASE UNCHANGED <<sessionId, client, held, ws>>
  <2>1. SocketIsClient' /\ NoOrphanSession'
    BY <1>1, <1>4 DEF SocketIsClient, NoOrphanSession
  <2>2. OnePending'
    BY <1>1, <1>3, <1>4 DEF OnePending
  <2>3. DisconnectSticks'
    BY <1>1, <1>4 DEF DisconnectSticks, isCurrentSession
  <2> QED BY <1>2, <2>1, <2>2, <2>3
<1>5. CASE SessionStarted(k) /\ isCurrentSession(k)
  <2>1. k \in Pending
    BY <1>5 DEF Pending, SessionStarted
  <2>2. client = NoCall /\ sessionId = NoCall
    BY <2>1 DEF OnePending
  <2>3. Pending' = {}
    BY <1>3, <1>5, <2>1 DEF OnePending, Pending, SessionStarted, Ends, DeskTypeOK
  <2>4. SocketIsClient' /\ NoOrphanSession'
    <3>1. \A j \in Calls : ws[j] = "over"
      BY <2>2, DeskAssumption DEF SocketIsClient
    <3>2. held = {} /\ deskMounted = "yes"
      BY <1>5, <2>2, DeskAssumption DEF NoOrphanSession, DeskTypeOK, OneTimer, isCurrentSession
    <3> QED BY <1>1, <1>5, <3>1, <3>2 DEF SessionStarted, SocketIsClient, NoOrphanSession, DeskTypeOK
  <2>5. OnePending'
    BY <2>3 DEF OnePending
  <2>6. DisconnectSticks'
    BY <1>1, <1>5 DEF DisconnectSticks, isCurrentSession
  <2> QED BY <1>2, <2>4, <2>5, <2>6
<1>6. CASE ~(SessionStarted(k) /\ isCurrentSession(k))
  BY <1>4, <1>6 DEF CallSteps, Probed, GatewayAnswers, SessionStarted, StartRefused
<1> QED BY <1>5, <1>6

\* A handler of a socket: it sets a timer only where no call is pending.
LEMMA HandlerKeeps ==
    ASSUME DeskInv, NEW k \in Calls,
           \/ WsOpens(k) \/ WsError(k) \/ WsCloses(k)
           \/ \E p \in DeskStatuses : Reports(k, p)
    PROVE  (OneTimer /\ SocketIsClient /\ OnePending /\ NoOrphanSession /\ DisconnectSticks)'
<1> USE DEF DeskInv
<1>1. /\ ws[k] # "over" /\ \E w \in WsStages : ws' = [ws EXCEPT ![k] = w]
      /\ timers' = timers \/ (isCurrentSession(k) /\ timers = 0 /\ timers' = 1)
      /\ isCurrentSession(k) \/ deskStatus' = deskStatus
      /\ Handled
  BY HandlerHolds
<1>2. client = k /\ client # NoCall
  BY <1>1, DeskAssumption DEF SocketIsClient
<1>3. Pending' = Pending /\ Pending = {}
  BY <1>1, <1>2 DEF OnePending, Pending, isCurrentSession, Handled
<1>4. OneTimer'
  BY <1>1 DEF OneTimer, Handled, isCurrentSession, DeskTypeOK
<1>5. SocketIsClient' /\ NoOrphanSession'
  BY <1>1, <1>2 DEF SocketIsClient, NoOrphanSession, Handled, DeskTypeOK
<1>6. OnePending'
  BY <1>3 DEF OnePending
<1>7. DisconnectSticks'
  BY <1>1 DEF DisconnectSticks, Handled
<1> QED BY <1>4, <1>5, <1>6, <1>7

\* Every step keeps what the tab promises of its sessions and sockets.
LEMMA DeskStep ==
    ASSUME DeskInv, [DeskNext]_deskVars
    PROVE  (OneTimer /\ SocketIsClient /\ OnePending /\ NoOrphanSession /\ DisconnectSticks)'
<1> USE DEF DeskInv
<1>t. timers \in Nat /\ timers <= 1
  BY DEF DeskTypeOK, OneTimer
<1>1. CASE OpenDesktop
  <2>1. timers' = 0
    BY <1>1 DEF OpenDesktop, OneTimer
  <2> QED BY <1>1, <2>1, ConnectKeeps DEF OpenDesktop
<1>2. CASE ReconnectTimerFires
  <2>1. timers' = 0 /\ Pending = {} /\ deskMounted = "yes" /\ UNCHANGED deskMounted
    BY <1>2, <1>t DEF ReconnectTimerFires, OneTimer, OnePending
  <2>2. CASE epochIsMine
    <3>1. mine \in SUBSET Calls /\ connect(mine) /\ epochIsMine'
      BY <1>2, <2>1, <2>2 DEF ReconnectTimerFires, DeskTypeOK
    <3>2. \A k \in mine : isCurrentSession(k) /\ k \notin Pending
      BY <2>1, <2>2 DEF isCurrentSession
    <3> QED BY <2>1, <3>1, <3>2, ConnectKeeps
  <2>3. CASE ~epochIsMine
    BY <1>2, <2>1, <2>3 DEF ReconnectTimerFires, OneTimer, SocketIsClient, OnePending, Pending,
                            isCurrentSession, NoOrphanSession, DisconnectSticks
  <2> QED BY <2>2, <2>3
<1>3. CASE DeskReconnect
  <2>1. timers' = 0
    BY <1>3, <1>t DEF DeskReconnect, clearReconnectTimer
  <2> QED BY <1>3, <2>1, ConnectKeeps DEF DeskReconnect, DeskClick
<1>d. closeCurrentSession => SocketIsClient' /\ NoOrphanSession' /\ held' = {}
                               /\ client' = NoCall /\ sessionId' = NoCall
                               /\ \A k \in Calls : ws'[k] = "over"
  BY DEF closeCurrentSession, SocketIsClient, NoOrphanSession, DeskTypeOK
<1>4. CASE DeskDisconnect
  <2>1. Pending' = {}
    BY <1>4 DEF DeskDisconnect, Pending, isCurrentSession
  <2> QED BY <1>4, <1>d, <2>1 DEF DeskDisconnect, DeskClick, OneTimer, OnePending, DisconnectSticks
<1>5. CASE SetReconnectOnDrop
  BY <1>5 DEF SetReconnectOnDrop, OneTimer, SocketIsClient, OnePending, Pending,
              isCurrentSession, NoOrphanSession, DisconnectSticks
<1>6. CASE CloseDesktop
  <2>1. Pending' = {}
    BY <1>6 DEF CloseDesktop, Pending, isCurrentSession
  <2> QED BY <1>6, <1>d, <1>t, <2>1 DEF CloseDesktop, clearReconnectTimer, OneTimer, OnePending, DisconnectSticks
<1>7. ASSUME NEW k \in Calls, CallSteps(k)
      PROVE  (OneTimer /\ SocketIsClient /\ OnePending /\ NoOrphanSession /\ DisconnectSticks)'
  BY <1>7, CallKeeps
<1>8. ASSUME NEW k \in Calls,
             \/ WsOpens(k) \/ WsError(k) \/ WsCloses(k)
             \/ \E p \in DeskStatuses : Reports(k, p)
      PROVE  (OneTimer /\ SocketIsClient /\ OnePending /\ NoOrphanSession /\ DisconnectSticks)'
  BY <1>8, HandlerKeeps
<1>9. CASE UNCHANGED deskVars
  BY <1>9 DEF deskVars, OneTimer, SocketIsClient, OnePending, Pending,
              isCurrentSession, NoOrphanSession, DisconnectSticks
<1> QED BY <1>1, <1>2, <1>3, <1>4, <1>5, <1>6, <1>7, <1>8, <1>9 DEF DeskNext, DeskUser

\* The desktop tab starts well, and stays so.
LEMMA DeskInvariant == DeskInit /\ [][DeskNext]_deskVars => []DeskInv
<1>1. DeskInit => DeskInv
  <2> SUFFICES ASSUME DeskInit PROVE DeskInv
    OBVIOUS
  <2>1. DeskTypeOK
    <3>1. 0 \in 0..DeskBackoffs /\ 0 \in 0..MaxDeskClicks /\ 0 \in 0..MaxReports /\ 0 \in Nat
      BY DeskAssumption
    <3> QED BY <3>1 DEF DeskInit, DeskTypeOK, CallStages, WsStages, DeskStatuses
  <2>2. OneTimer /\ SocketIsClient /\ OnePending /\ NoOrphanSession /\ DisconnectSticks
    BY DEF DeskInit, OneTimer, SocketIsClient, OnePending, Pending, isCurrentSession,
           NoOrphanSession, DisconnectSticks
  <2> QED BY <2>1, <2>2 DEF DeskInv
<1>2. DeskInv /\ [DeskNext]_deskVars => DeskInv'
  BY DeskTypeStep, DeskStep DEF DeskInv
<1> QED BY <1>1, <1>2, PTL

\* At most one pending call, said with a cardinality.
LEMMA OneConnectionHolds == DeskInv => OneConnection
<1> SUFFICES ASSUME DeskInv PROVE OneConnection
  OBVIOUS
<1>1. Cardinality(Pending) <= 1
  <2>1. CASE Pending = {}
    BY <2>1, FS_EmptySet
  <2>2. CASE Pending # {}
    <3>1. PICK k \in Pending : TRUE
      BY <2>2
    <3>2. Pending = {k}
      BY <3>1 DEF DeskInv, OnePending
    <3> QED BY <3>2, FS_Singleton
  <2> QED BY <2>1, <2>2
<1> QED BY <1>1 DEF OneConnection, Pending, DeskInv, SocketIsClient

-----------------------------------------------------------------------------
(* Terminal.                                                               *)

\* What a socket may have on its way, by the state of the gateway's side.
EndedWires ==
    {<<"fin">>, <<"ready", "fin">>, <<"close", "fin">>, <<"ready", "close", "fin">>}

Wires == {<<>>, <<"ready">>} \cup EndedWires

\* A run in state "st", its gateway in state "sh" with the frames "w" on their way.
Fits(st, sh, w) ==
    /\ st \in {"over", "importing", "addons"} => sh = "none"
    /\ st = "connecting" => sh \in {"none", "ended"}
    /\ sh \in {"none", "dialing"} => w = <<>>
    /\ sh = "live" => w \in {<<>>, <<"ready">>}
    /\ sh = "ended" => w \in EndedWires

WireFits ==
    /\ wire \in [Runs -> Wires]
    /\ \A r \in Runs : Fits(run[r], shell[r], wire[r])

\* An open tab has a run.
CurIsRun == mounted = "yes" => cur \in Runs

\* A user who disconnected has no timer, and where the refs are those of the
\* current run its socket is closed; a tab that shows an end has had a socket.
ClosedInv ==
    /\ userClosed => ~timer
    /\ mounted = "yes" =>
        /\ userClosed /\ conn = cur => ~Closable(cur)
        /\ status \in {"closed", "reconnecting", "error"} => run[cur] \in {"open", "closing", "over"}
        /\ status = "closed" /\ conn = cur => userClosed

TermInv == TermTypeOK /\ WireFits /\ CurIsRun /\ StatusIsBacked /\ ClosedInv

\* What is appended to a wire.
LEMMA WireGrows ==
    /\ Append(<<>>, "ready") = <<"ready">>
    /\ Append(<<>>, "fin") = <<"fin">>
    /\ Append(<<"ready">>, "fin") = <<"ready", "fin">>
    /\ <<>> \o <<"close", "fin">> = <<"close", "fin">>
    /\ <<"ready">> \o <<"close", "fin">> = <<"ready", "close", "fin">>
<1>1. Append(<<>>, "ready") = <<"ready">> /\ Append(<<>>, "fin") = <<"fin">>
  OBVIOUS
<1>2. Append(<<"ready">>, "fin") = <<"ready", "fin">>
  <2>1. /\ <<"ready">> \in Seq(Frames) /\ <<"ready", "fin">> \in Seq(Frames)
        /\ Append(<<"ready">>, "fin") \in Seq(Frames)
    BY DEF Frames
  <2>2. Len(Append(<<"ready">>, "fin")) = 2 /\ Len(<<"ready", "fin">>) = 2
    OBVIOUS
  <2>3. ASSUME NEW i \in 1..2 PROVE Append(<<"ready">>, "fin")[i] = <<"ready", "fin">>[i]
    OBVIOUS
  <2> QED BY <2>1, <2>2, <2>3, SeqEqual
<1>3. <<>> \o <<"close", "fin">> = <<"close", "fin">>
  OBVIOUS
<1>4. <<"ready">> \o <<"close", "fin">> = <<"ready", "close", "fin">>
  <2>1. /\ <<"ready">> \in Seq(Frames) /\ <<"close", "fin">> \in Seq(Frames)
        /\ <<"ready", "close", "fin">> \in Seq(Frames)
        /\ <<"ready">> \o <<"close", "fin">> \in Seq(Frames)
    BY DEF Frames
  <2>2. Len(<<"ready">> \o <<"close", "fin">>) = 3 /\ Len(<<"ready", "close", "fin">>) = 3
    OBVIOUS
  <2>3. ASSUME NEW i \in 1..3
        PROVE  (<<"ready">> \o <<"close", "fin">>)[i] = <<"ready", "close", "fin">>[i]
    OBVIOUS
  <2> QED BY <2>1, <2>2, <2>3, SeqEqual
<1> QED BY <1>1, <1>2, <1>3, <1>4

\* What is taken from it.
LEMMA WireShrinks ==
    ASSUME NEW w \in Wires, w # <<>>
    PROVE  /\ Head(w) = "ready" => Tail(w) \in {<<>>, <<"fin">>, <<"close", "fin">>}
                                   /\ (w \in EndedWires => Tail(w) \in EndedWires)
                                   /\ (w = <<"ready">> => Tail(w) = <<>>)
           /\ Head(w) = "close" => w = <<"close", "fin">> /\ Tail(w) = <<"fin">>
           /\ Head(w) = "fin" => w \in EndedWires
<1>1. /\ Head(<<"ready">>) = "ready" /\ Tail(<<"ready">>) = <<>>
      /\ Head(<<"ready", "fin">>) = "ready" /\ Tail(<<"ready", "fin">>) = <<"fin">>
      /\ Head(<<"ready", "close", "fin">>) = "ready"
      /\ Tail(<<"ready", "close", "fin">>) = <<"close", "fin">>
  OBVIOUS
<1>2. /\ Head(<<"fin">>) = "fin"
      /\ Head(<<"close", "fin">>) = "close" /\ Tail(<<"close", "fin">>) = <<"fin">>
  OBVIOUS
<1>3. <<"ready">> \notin EndedWires
  BY DEF EndedWires
<1>4. CASE w = <<"ready">>
  BY <1>1, <1>3, <1>4
<1>5. CASE w \in {<<"ready", "fin">>, <<"ready", "close", "fin">>}
  BY <1>1, <1>3, <1>5 DEF EndedWires
<1>6. CASE w \in {<<"fin">>, <<"close", "fin">>}
  BY <1>2, <1>6 DEF EndedWires
<1> QED BY <1>4, <1>5, <1>6 DEF Wires, EndedWires

\* Where READY may still be on its way.
LEMMA ReadyWires ==
    /\ \A w \in {<<>>, <<"fin">>, <<"close", "fin">>} : \A i \in DOMAIN w : w[i] # "ready"
    /\ \A w \in Wires : (\A i \in DOMAIN w : w[i] # "ready") =>
                            w \in {<<>>, <<"fin">>, <<"close", "fin">>}
<1>1. \A w \in {<<>>, <<"fin">>, <<"close", "fin">>} : \A i \in DOMAIN w : w[i] # "ready"
  OBVIOUS
<1>2. ASSUME NEW w \in {<<"ready">>, <<"ready", "fin">>, <<"ready", "close", "fin">>}
      PROVE  \E i \in DOMAIN w : w[i] = "ready"
  <2>1. 1 \in DOMAIN w /\ w[1] = "ready"
    OBVIOUS
  <2> QED BY <2>1
<1> QED BY <1>1, <1>2 DEF Wires, EndedWires

\* The wires are sequences of frames.
LEMMA WiresAreFrames == Wires \subseteq Seq(Frames)
  BY DEF Wires, EndedWires, Frames

\* A fresh run takes an identity that is free.
LEMMA RestartTakes ==
    ASSUME Restart
    PROVE  \E r \in Runs :
             /\ run[r] = "over" /\ r # conn /\ r # cur
             /\ run' = [HungUp EXCEPT ![r] = "importing"]
             /\ shell' = [shell EXCEPT ![r] = "none"]
             /\ cur' = r /\ status' = "connecting"
<1> DEFINE r == CHOOSE x \in Spare : TRUE
<1>1. r \in Spare
  BY DEF Restart
<1> QED BY <1>1 DEF Restart, Spare

\* Hanging up leaves every run in a state, and its gateway as it fits.
LEMMA HungUpFits ==
    ASSUME TermTypeOK, WireFits
    PROVE  /\ HungUp \in [Runs -> RunStates]
           /\ \A r \in Runs : Fits(HungUp[r], shell[r], wire[r])
  BY DEF TermTypeOK, WireFits, HungUp, RunStates, Fits

\* The gateway's steps, told alike.
LEMMA GatewayMoves ==
    ASSUME TermTypeOK, WireFits, NEW r \in Runs, Gateways(r)
    PROVE  \E st \in RunStates, sh \in {"dialing", "live", "ended"}, w \in Wires :
             /\ run' = [run EXCEPT ![r] = st] /\ shell' = [shell EXCEPT ![r] = sh]
             /\ wire' = [wire EXCEPT ![r] = w] /\ Fits(st, sh, w)
             /\ st = run[r] \/ (run[r] = "connecting" /\ shell[r] = "none" /\ st = "open")
             /\ shell[r] \in {"live", "ended"} =>
                    /\ shell[r] = "live" /\ sh = "ended"
                    /\ wire[r] = <<>> => w \in {<<"fin">>, <<"close", "fin">>}
                    /\ wire[r] # <<>> => wire[r] = <<"ready">>
             /\ UNCHANGED <<mounted, cur, conn, timer, leaked, attempt, userClosed, autoReconnect,
                            status, loadError, clicks>>
<1> DEFINE Pre(sh, w) ==
             /\ sh \in {"dialing", "live", "ended"} /\ w \in Wires /\ Fits(run[r], sh, w)
             /\ shell[r] \in {"live", "ended"} =>
                    /\ shell[r] = "live" /\ sh = "ended"
                    /\ wire[r] = <<>> => w \in {<<"fin">>, <<"close", "fin">>}
                    /\ wire[r] # <<>> => wire[r] = <<"ready">>
<1>f. /\ shell[r] \in {"none", "dialing"} => wire[r] = <<>>
      /\ shell[r] = "live" => wire[r] \in {<<>>, <<"ready">>}
      /\ shell[r] \in {"dialing", "live"} => run[r] \in {"open", "closing"}
      /\ run[r] \in RunStates
  BY DEF WireFits, Fits, TermTypeOK, RunStates
<1>w. ASSUME NEW sh, NEW w, Gateway(r, sh, w), Pre(sh, w)
      PROVE  \E st \in RunStates, sh1 \in {"dialing", "live", "ended"}, w1 \in Wires :
             /\ run' = [run EXCEPT ![r] = st] /\ shell' = [shell EXCEPT ![r] = sh1]
             /\ wire' = [wire EXCEPT ![r] = w1] /\ Fits(st, sh1, w1)
             /\ st = run[r] \/ (run[r] = "connecting" /\ shell[r] = "none" /\ st = "open")
             /\ shell[r] \in {"live", "ended"} =>
                    /\ shell[r] = "live" /\ sh1 = "ended"
                    /\ wire[r] = <<>> => w1 \in {<<"fin">>, <<"close", "fin">>}
                    /\ wire[r] # <<>> => wire[r] = <<"ready">>
             /\ UNCHANGED <<mounted, cur, conn, timer, leaked, attempt, userClosed, autoReconnect,
                            status, loadError, clicks>>
  <2>1. run' = [run EXCEPT ![r] = run[r]] /\ run[r] \in RunStates
    BY <1>w DEF Gateway, TermTypeOK
  <2> QED BY <1>w, <2>1 DEF Gateway
<1>e. ASSUME NEW w \in EndedWires, run[r] \in {"connecting", "open", "closing"},
             shell[r] \in {"none", "dialing", "live"},
             shell[r] = "live" /\ wire[r] = <<>> => w \in {<<"fin">>, <<"close", "fin">>}
      PROVE  Pre("ended", w)
  BY <1>e, <1>f DEF Fits, Wires
<1>1. CASE Accepts(r)
  <2>1. wire' = [wire EXCEPT ![r] = <<>>]
    BY <1>1, <1>f DEF Accepts, WireFits
  <2> QED BY <1>1, <1>f, <2>1 DEF Accepts, Fits, RunStates, Wires
<1>2. CASE Refuses(r)
  <2>1. Append(wire[r], "fin") \in EndedWires
    BY <1>2, <1>f, WireGrows DEF Refuses, EndedWires
  <2> QED BY <1>2, <1>e, <1>w, <2>1 DEF Refuses
<1>3. CASE HostAnswers(r)
  <2>1. Append(wire[r], "ready") = <<"ready">>
    BY <1>3, <1>f, WireGrows DEF HostAnswers
  <2>2. Pre("live", <<"ready">>)
    BY <1>3, <1>f DEF HostAnswers, Fits, Wires
  <2>3. Gateway(r, "live", <<"ready">>)
    BY <1>3, <2>1 DEF HostAnswers
  <2> QED BY <1>w, <2>2, <2>3
<1>4. ASSUME shell[r] \in {"dialing", "live"}, Gateway(r, "ended", Append(wire[r], "fin"))
      PROVE  Pre("ended", Append(wire[r], "fin"))
  <2>1. /\ Append(wire[r], "fin") \in EndedWires
        /\ wire[r] = <<>> => Append(wire[r], "fin") = <<"fin">>
    BY <1>4, <1>f, WireGrows DEF EndedWires
  <2> QED BY <1>4, <1>e, <1>f, <2>1
<1>5. CASE ShellExits(r)
  <2>1. /\ wire[r] \o <<"close", "fin">> \in EndedWires
        /\ wire[r] = <<>> => wire[r] \o <<"close", "fin">> = <<"close", "fin">>
    BY <1>5, <1>f, WireGrows DEF ShellExits, EndedWires
  <2>2. Pre("ended", wire[r] \o <<"close", "fin">>)
    BY <1>5, <1>e, <1>f, <2>1 DEF ShellExits
  <2> QED BY <1>5, <1>w, <2>2 DEF ShellExits
<1>6. CASE NetworkDrops(r)
  <2>1. Pre("ended", <<"fin">>)
    BY <1>6, <1>e, <1>f DEF NetworkDrops, EndedWires
  <2> QED BY <1>6, <1>w, <2>1 DEF NetworkDrops
<1>7. CASE CutOff(r) \/ SeesClose(r)
  <2>1. shell[r] \in {"dialing", "live"} /\ Gateway(r, "ended", Append(wire[r], "fin"))
    BY <1>7 DEF CutOff, SeesClose
  <2> QED BY <1>4, <1>w, <2>1
<1> QED BY <1>1, <1>2, <1>3, <1>5, <1>6, <1>7 DEF Gateways

\* A fresh run: everything the tab promises holds of its beginning.
LEMMA RestartKeeps ==
    ASSUME TermInv, Restart, UNCHANGED <<conn, wire>>, mounted' = "yes", userClosed' => ~timer'
    PROVE  (WireFits /\ CurIsRun /\ StatusIsBacked /\ ClosedInv)'
<1> USE DEF TermInv
<1>1. PICK r \in Runs :
             /\ run[r] = "over" /\ r # conn /\ r # cur
             /\ run' = [HungUp EXCEPT ![r] = "importing"]
             /\ shell' = [shell EXCEPT ![r] = "none"]
             /\ cur' = r /\ status' = "connecting"
  BY RestartTakes
<1>2. wire[r] = <<>>
  BY <1>1 DEF WireFits, Fits
<1>3. WireFits'
  <2>1. ASSUME NEW q \in Runs, q # r
        PROVE  Fits(run'[q], shell'[q], wire'[q])
    BY <1>1, <2>1, HungUpFits DEF TermTypeOK
  <2>2. Fits(run'[r], shell'[r], wire'[r])
    BY <1>1, <1>2, HungUpFits DEF TermTypeOK, Fits
  <2> QED BY <2>1, <2>2 DEF WireFits
<1>4. CurIsRun' /\ StatusIsBacked'
  BY <1>1 DEF CurIsRun, StatusIsBacked
<1>5. ClosedInv'
  BY <1>1 DEF ClosedInv
<1> QED BY <1>3, <1>4, <1>5

\* Loading the scripts and opening the socket.
LEMMA ScriptKeeps ==
    ASSUME TermInv, NEW r \in Runs, Script(r)
    PROVE  (WireFits /\ CurIsRun /\ StatusIsBacked /\ ClosedInv)'
<1> USE DEF TermInv
<1>1. /\ UNCHANGED <<mounted, cur, wire, shell, timer, leaked, status>> /\ mounted = "yes"
      /\ run[r] \in {"importing", "addons"}
      /\ \E st \in {"over", "addons", "connecting"} : run' = [run EXCEPT ![r] = st]
      /\ UNCHANGED <<conn, userClosed>> \/ (run[r] = "addons" /\ conn' = r /\ ~userClosed')
  BY DEF Script, ScriptsLoaded, ScriptsFail, OpenSocket, Following
<1>2. cur \in Runs
  BY <1>1 DEF CurIsRun
<1>3. WireFits'
  <2>1. shell[r] = "none"
    BY <1>1 DEF WireFits, Fits
  <2> QED BY <1>1, <2>1 DEF WireFits, Fits, TermTypeOK
<1>4. CurIsRun' /\ StatusIsBacked'
  BY <1>1, <1>2 DEF CurIsRun, StatusIsBacked, TermTypeOK
<1>5. r = cur => status \notin {"closed", "reconnecting", "error"}
  BY <1>1 DEF ClosedInv
<1>6. r # cur => run'[cur] = run[cur]
  BY <1>1, <1>2 DEF TermTypeOK
<1>7. ClosedInv'
  <2>1. UNCHANGED <<conn, userClosed>> => run'[r] \in {"over", "addons"} \/ ~userClosed
    BY DEF Script, ScriptsLoaded, ScriptsFail, OpenSocket, TermTypeOK
  <2>2. userClosed' => ~timer'
    BY <1>1 DEF ClosedInv
  <2>3. userClosed' /\ conn' = cur' => run'[cur'] \notin {"connecting", "open"}
    BY <1>1, <1>6, <2>1 DEF ClosedInv, Closable
  <2>4. status' \in {"closed", "reconnecting", "error"} => run'[cur'] \in {"open", "closing", "over"}
    BY <1>1, <1>5, <1>6 DEF ClosedInv
  <2>5. status' = "closed" /\ conn' = cur' => userClosed'
    BY <1>1, <1>5 DEF ClosedInv
  <2> QED BY <2>2, <2>3, <2>4, <2>5 DEF ClosedInv, Closable
<1> QED BY <1>3, <1>4, <1>7

\* The gateway's side.
LEMMA GatewayKeeps ==
    ASSUME TermInv, NEW r \in Runs, Gateways(r)
    PROVE  (WireFits /\ CurIsRun /\ StatusIsBacked /\ ClosedInv)'
<1> USE DEF TermInv
<1>1. PICK st \in RunStates, sh \in {"dialing", "live", "ended"}, w \in Wires :
             /\ run' = [run EXCEPT ![r] = st] /\ shell' = [shell EXCEPT ![r] = sh]
             /\ wire' = [wire EXCEPT ![r] = w] /\ Fits(st, sh, w)
             /\ st = run[r] \/ (run[r] = "connecting" /\ shell[r] = "none" /\ st = "open")
             /\ shell[r] \in {"live", "ended"} =>
                    /\ shell[r] = "live" /\ sh = "ended"
                    /\ wire[r] = <<>> => w \in {<<"fin">>, <<"close", "fin">>}
                    /\ wire[r] # <<>> => wire[r] = <<"ready">>
             /\ UNCHANGED <<mounted, cur, conn, timer, leaked, attempt, userClosed, autoReconnect,
                            status, loadError, clicks>>
  BY GatewayMoves
<1>2. mounted = "yes" /\ cur \in Runs
  BY DEF Gateways, Following, CurIsRun
<1>3. WireFits'
  <2>1. ASSUME NEW q \in Runs
        PROVE  Fits(run'[q], shell'[q], wire'[q])
    BY <1>1 DEF WireFits, TermTypeOK
  <2>2. wire' \in [Runs -> Wires]
    BY <1>1 DEF WireFits
  <2> QED BY <2>1, <2>2 DEF WireFits
<1>4. CurIsRun'
  BY <1>1 DEF CurIsRun
<1>5. StatusIsBacked'
  <2>1. CASE r # cur \/ status # "open"
    BY <1>1, <1>2, <2>1 DEF StatusIsBacked, TermTypeOK
  <2>2. CASE r = cur /\ status = "open"
    <3>1. /\ run[r] \in {"open", "closing"} /\ shell[r] \in {"live", "ended"}
          /\ \A i \in DOMAIN wire[r] : wire[r][i] # "ready"
      BY <1>2, <2>2 DEF StatusIsBacked
    <3>2. wire[r] \in {<<>>, <<"fin">>, <<"close", "fin">>}
      BY <3>1, ReadyWires DEF WireFits
    <3>3. wire[r] = <<>>
      <4>1. <<"ready">> \notin {<<"fin">>, <<"close", "fin">>}
        OBVIOUS
      <4> QED BY <1>1, <3>1, <3>2, <4>1
    <3>4. \A i \in DOMAIN w : w[i] # "ready"
      BY <1>1, <3>1, <3>3, ReadyWires
    <3>5. wire'[cur] = w /\ shell'[cur] = "ended" /\ run'[cur] \in {"open", "closing"}
      BY <1>1, <2>2, <3>1 DEF TermTypeOK
    <3> QED BY <1>1, <2>2, <3>4, <3>5 DEF StatusIsBacked
  <2> QED BY <2>1, <2>2
<1>6. ClosedInv'
  BY <1>1, <1>2 DEF ClosedInv, Closable, TermTypeOK
<1> QED BY <1>3, <1>4, <1>5, <1>6

\* What onClose may do: nothing for a disposed run; otherwise it shows an end, and
\* the only one that sets a timer is the one the user did not ask for.
LEMMA OnCloseHolds ==
    ASSUME TermTypeOK, NEW r \in Runs, OnClose(r)
    PROVE  /\ r # cur => UNCHANGED <<status, timer, leaked, attempt>>
           /\ r = cur => /\ status' \in {"closed", "reconnecting", "error"}
                         /\ status' = "closed" <=> userClosed
                         /\ status' = "reconnecting" => timer'
                         /\ userClosed => UNCHANGED timer
           /\ timer' \in BOOLEAN /\ leaked' \in Nat /\ attempt' \in 0..Backoffs
           /\ status' \in Statuses
<1>1. attempt < Backoffs => attempt + 1 \in 0..Backoffs
  BY TermAssumption DEF TermTypeOK
<1>2. leaked + 1 \in Nat
  BY DEF TermTypeOK
<1> QED BY <1>1, <1>2 DEF OnClose, TermTypeOK, Statuses

\* The events the browser hands to the handlers.
LEMMA BrowserKeeps ==
    ASSUME TermInv, NEW r \in Runs, Browser(r)
    PROVE  (WireFits /\ CurIsRun /\ StatusIsBacked /\ ClosedInv)'
<1> USE DEF TermInv
<1>0. mounted = "yes" /\ cur \in Runs /\ UNCHANGED <<mounted, cur, conn, userClosed>>
  BY DEF Browser, Following, CurIsRun, DeliverReady, DeliverClose, DeliverEnd
<1>1. CASE DeliverReady(r)
  <2>1. /\ wire[r] \in Wires /\ wire[r] # <<>> /\ Head(wire[r]) = "ready"
        /\ wire' = [wire EXCEPT ![r] = Tail(wire[r])] /\ UNCHANGED <<run, shell, timer, leaked>>
    BY <1>1 DEF DeliverReady, Taken, WireFits
  <2>2. /\ Tail(wire[r]) \in {<<>>, <<"fin">>, <<"close", "fin">>}
        /\ wire[r] \in EndedWires => Tail(wire[r]) \in EndedWires
        /\ wire[r] = <<"ready">> => Tail(wire[r]) = <<>>
    BY <2>1, WireShrinks
  <2>3. shell[r] \in {"live", "ended"} /\ Fits(run[r], shell[r], Tail(wire[r]))
    BY <2>1, <2>2 DEF WireFits, Fits, TermTypeOK
  <2>4. WireFits'
    <3>1. ASSUME NEW q \in Runs
          PROVE  Fits(run'[q], shell'[q], wire'[q])
      BY <2>1, <2>3 DEF WireFits
    <3>2. wire' \in [Runs -> Wires]
      BY <2>1, <2>2 DEF WireFits, Wires, EndedWires
    <3> QED BY <3>1, <3>2 DEF WireFits
  <2>5. status' = status \/ (r = cur /\ run[r] = "open" /\ status' = "open")
    BY <1>1 DEF DeliverReady, OnReady
  <2>6. wire'[r] = Tail(wire[r]) /\ \A i \in DOMAIN wire'[r] : wire'[r][i] # "ready"
    <3>1. wire'[r] = Tail(wire[r])
      BY <2>1 DEF WireFits
    <3> QED BY <2>2, <3>1, ReadyWires
  <2>7. StatusIsBacked'
    BY <1>0, <2>1, <2>3, <2>5, <2>6 DEF StatusIsBacked, WireFits
  <2>8. ClosedInv'
    BY <1>0, <2>1, <2>5 DEF ClosedInv, Closable
  <2> QED BY <1>0, <2>4, <2>7, <2>8 DEF CurIsRun
<1>2. CASE DeliverClose(r)
  <2>1. /\ wire[r] \in Wires /\ wire[r] # <<>> /\ Head(wire[r]) = "close"
        /\ wire' = [wire EXCEPT ![r] = Tail(wire[r])] /\ UNCHANGED <<run, shell>>
    BY <1>2 DEF DeliverClose, Taken, WireFits
  <2>2. wire[r] = <<"close", "fin">> /\ Tail(wire[r]) = <<"fin">>
    BY <2>1, WireShrinks
  <2>3. shell[r] = "ended" /\ <<"fin">> \in EndedWires
    <3>1. <<"close", "fin">> # <<>> /\ <<"close", "fin">> # <<"ready">>
      OBVIOUS
    <3> QED BY <2>2, <3>1 DEF WireFits, Fits, TermTypeOK, EndedWires
  <2>4. WireFits'
    <3>1. ASSUME NEW q \in Runs
          PROVE  Fits(run'[q], shell'[q], wire'[q])
      BY <2>1, <2>2, <2>3 DEF WireFits, Fits
    <3>2. wire' \in [Runs -> Wires]
      BY <2>1, <2>2, <2>3 DEF WireFits, Wires
    <3> QED BY <3>1, <3>2 DEF WireFits
  <2>5. \/ UNCHANGED <<status, timer, leaked>>
        \/ /\ r = cur /\ run[r] = "open"
           /\ status' \in {"closed", "reconnecting", "error"}
           /\ status' = "closed" <=> userClosed
           /\ status' = "reconnecting" => timer'
           /\ userClosed => UNCHANGED timer
    BY <1>2, OnCloseHolds DEF DeliverClose
  <2>6. \A i \in DOMAIN wire'[r] : wire'[r][i] # "ready"
    <3>1. wire'[r] = <<"fin">>
      BY <2>1, <2>2 DEF WireFits
    <3> QED BY <3>1, ReadyWires
  <2>7. StatusIsBacked'
    BY <1>0, <2>1, <2>5, <2>6 DEF StatusIsBacked, WireFits
  <2>8. ClosedInv'
    BY <1>0, <2>1, <2>5 DEF ClosedInv, Closable
  <2> QED BY <1>0, <2>4, <2>7, <2>8 DEF CurIsRun
<1>3. CASE DeliverEnd(r)
  <2>1. /\ run' = [run EXCEPT ![r] = "over"] /\ wire' = [wire EXCEPT ![r] = <<>>]
        /\ shell' = [shell EXCEPT ![r] = "none"]
    BY <1>3 DEF DeliverEnd
  <2>2. WireFits'
    <3>1. ASSUME NEW q \in Runs
          PROVE  Fits(run'[q], shell'[q], wire'[q])
      BY <2>1 DEF WireFits, Fits, TermTypeOK
    <3>2. wire' \in [Runs -> Wires]
      BY <2>1 DEF WireFits, Wires
    <3> QED BY <3>1, <3>2 DEF WireFits
  <2>3. /\ r # cur => UNCHANGED <<status, timer, leaked, attempt>>
        /\ r = cur => /\ status' \in {"closed", "reconnecting", "error"}
                      /\ status' = "closed" <=> userClosed
                      /\ status' = "reconnecting" => timer'
                      /\ userClosed => UNCHANGED timer
    BY <1>3, OnCloseHolds DEF DeliverEnd
  <2>4. StatusIsBacked'
    BY <1>0, <2>1, <2>3 DEF StatusIsBacked, WireFits, TermTypeOK
  <2>5. ClosedInv'
    BY <1>0, <2>1, <2>3 DEF ClosedInv, Closable, TermTypeOK
  <2> QED BY <1>0, <2>2, <2>4, <2>5 DEF CurIsRun
<1> QED BY <1>1, <1>2, <1>3 DEF Browser

\* Every step keeps what the terminal promises.
LEMMA TermStep ==
    ASSUME TermInv, [TermNext]_termVars
    PROVE  (WireFits /\ CurIsRun /\ StatusIsBacked /\ ClosedInv)'
<1> USE DEF TermInv
<1>1. CASE OpenTab
  BY <1>1, RestartKeeps DEF OpenTab, ClosedInv
<1>2. CASE Timers
  BY <1>2, RestartKeeps DEF Timers, Following, TimerFires, LeakedTimerFires
<1>3. CASE handleReconnect
  BY <1>3, RestartKeeps DEF handleReconnect, Click
<1>h. /\ \A x \in Runs : HungUp[x] = IF x = conn /\ Closable(x) THEN "closing" ELSE run[x]
      /\ \A x \in Runs : x = conn => HungUp[x] \notin {"connecting", "open"}
      /\ \A x \in Runs : run[x] \in {"open", "closing"} => HungUp[x] \in {"open", "closing"}
      /\ \A x \in Runs : run[x] \in {"open", "closing", "over"} => HungUp[x] \in {"open", "closing", "over"}
  BY DEF HungUp, Closable
<1>4. CASE handleDisconnect
  <2>1. /\ mounted = "yes" /\ cur \in Runs /\ run' = HungUp /\ ~timer' /\ userClosed'
        /\ status' = IF status = "reconnecting" THEN "closed" ELSE status
        /\ UNCHANGED <<mounted, cur, conn, wire, shell, leaked>>
    BY <1>4 DEF handleDisconnect, Click, CurIsRun
  <2>2. WireFits'
    BY <2>1, HungUpFits DEF WireFits
  <2>3. CurIsRun' /\ StatusIsBacked'
    BY <1>h, <2>1 DEF CurIsRun, StatusIsBacked
  <2>4. ClosedInv'
    BY <1>h, <2>1 DEF ClosedInv, Closable
  <2> QED BY <2>2, <2>3, <2>4
<1>5. CASE SetAutoReconnect
  BY <1>5 DEF SetAutoReconnect, WireFits, CurIsRun, StatusIsBacked, ClosedInv, Closable
<1>6. CASE CloseTab
  <2>1. run' = HungUp /\ ~timer' /\ mounted' = "gone" /\ UNCHANGED <<wire, shell>>
    BY <1>6 DEF CloseTab
  <2>2. WireFits'
    BY <2>1, HungUpFits DEF WireFits
  <2> QED BY <2>1, <2>2 DEF CurIsRun, StatusIsBacked, ClosedInv
<1>7. CASE UNCHANGED termVars
  BY <1>7 DEF termVars, WireFits, CurIsRun, StatusIsBacked, ClosedInv, Closable
<1> QED BY <1>1, <1>2, <1>3, <1>4, <1>5, <1>6, <1>7, ScriptKeeps, BrowserKeeps, GatewayKeeps
           DEF TermNext, User

\* The shapes of the refs, and the bound of the attempts.
LEMMA TermTypeStep ==
    ASSUME TermInv, [TermNext]_termVars, WireFits'
    PROVE  TermTypeOK'
<1> USE DEF TermInv
<1>w. wire' \in [Runs -> Seq(Frames)]
  BY WiresAreFrames DEF WireFits
<1>c. Click => clicks' \in 0..MaxClicks
  BY TermAssumption, CountUp DEF Click, TermTypeOK
<1>t. leaked > 0 => leaked - 1 \in Nat
  BY DEF TermTypeOK
<1>z. 0 \in 0..Backoffs
  BY TermAssumption
<1>h. HungUp \in [Runs -> RunStates]
  BY HungUpFits
<1>r. Restart => /\ run' \in [Runs -> RunStates] /\ cur' \in Runs \cup {NoRun}
                 /\ shell' \in [Runs -> {"none", "dialing", "live", "ended"}]
                 /\ status' \in Statuses
  <2> SUFFICES ASSUME Restart
               PROVE  /\ run' \in [Runs -> RunStates] /\ cur' \in Runs \cup {NoRun}
                      /\ shell' \in [Runs -> {"none", "dialing", "live", "ended"}]
                      /\ status' \in Statuses
    OBVIOUS
  <2>1. PICK r \in Runs :
             /\ run' = [HungUp EXCEPT ![r] = "importing"]
             /\ shell' = [shell EXCEPT ![r] = "none"]
             /\ cur' = r /\ status' = "connecting"
    BY RestartTakes
  <2> QED BY <1>h, <2>1 DEF TermTypeOK, RunStates, Statuses
<1>1. CASE OpenTab
  BY <1>1, <1>r, <1>w DEF OpenTab, TermTypeOK
<1>2. CASE TimerFires
  BY <1>2, <1>r, <1>w DEF TimerFires, TermTypeOK
<1>3. CASE LeakedTimerFires
  BY <1>3, <1>r, <1>t, <1>w DEF LeakedTimerFires, TermTypeOK
<1>4. CASE handleReconnect
  BY <1>4, <1>c, <1>r, <1>w, <1>z DEF handleReconnect, TermTypeOK
<1>5. CASE handleDisconnect
  BY <1>5, <1>c, <1>h, <1>w DEF handleDisconnect, TermTypeOK, Statuses
<1>6. CASE SetAutoReconnect
  BY <1>6, <1>c, <1>w DEF SetAutoReconnect, TermTypeOK
<1>7. CASE CloseTab
  BY <1>7, <1>h, <1>w DEF CloseTab, TermTypeOK
<1>8. ASSUME NEW r \in Runs, ScriptsLoaded(r) \/ ScriptsFail(r) \/ OpenSocket(r)
      PROVE  TermTypeOK'
  BY <1>8, <1>w DEF ScriptsLoaded, ScriptsFail, OpenSocket, TermTypeOK, RunStates
<1>9. ASSUME NEW r \in Runs, DeliverReady(r)
      PROVE  TermTypeOK'
  BY <1>9, <1>w, <1>z DEF DeliverReady, OnReady, TermTypeOK, Statuses
<1>10. ASSUME NEW r \in Runs, DeliverClose(r)
       PROVE  TermTypeOK'
  BY <1>10, <1>w, OnCloseHolds DEF DeliverClose, TermTypeOK
<1>11. ASSUME NEW r \in Runs, DeliverEnd(r)
       PROVE  TermTypeOK'
  BY <1>11, <1>w, OnCloseHolds DEF DeliverEnd, TermTypeOK, RunStates
<1>12. ASSUME NEW r \in Runs, Gateways(r)
       PROVE  TermTypeOK'
  <2>1. sessions' \in 0..MaxSessions
    BY <1>12, TermAssumption, CountUp
       DEF Gateways, Accepts, Refuses, HostAnswers, CutOff, ShellExits, NetworkDrops, SeesClose, TermTypeOK
  <2>2. PICK st \in RunStates, sh \in {"dialing", "live", "ended"} :
             /\ run' = [run EXCEPT ![r] = st] /\ shell' = [shell EXCEPT ![r] = sh]
             /\ UNCHANGED <<mounted, cur, conn, timer, leaked, attempt, userClosed, autoReconnect,
                            status, loadError, clicks>>
    BY <1>12, GatewayMoves
  <2> QED BY <1>w, <2>1, <2>2 DEF TermTypeOK
<1>13. CASE UNCHANGED termVars
  BY <1>13 DEF termVars, TermTypeOK
<1> QED BY <1>1, <1>2, <1>3, <1>4, <1>5, <1>6, <1>7, <1>8, <1>9, <1>10, <1>11, <1>12, <1>13
           DEF TermNext, Timers, User, Script, Browser

\* The terminal tab starts well, and stays so.
LEMMA TermInvariant == TermInit /\ [][TermNext]_termVars => []TermInv
<1>1. TermInit => TermInv
  <2> SUFFICES ASSUME TermInit PROVE TermInv
    OBVIOUS
  <2>1. WireFits
    BY DEF TermInit, WireFits, Wires, Fits
  <2>2. TermTypeOK
    <3>1. 0 \in 0..Backoffs /\ 0 \in 0..MaxClicks /\ 0 \in 0..MaxSessions /\ 0 \in Nat
      BY TermAssumption
    <3>2. wire \in [Runs -> Seq(Frames)]
      BY <2>1, WiresAreFrames DEF WireFits
    <3> QED BY <3>1, <3>2 DEF TermInit, TermTypeOK, RunStates, Statuses
  <2>3. CurIsRun /\ StatusIsBacked /\ ClosedInv
    BY DEF TermInit, CurIsRun, StatusIsBacked, ClosedInv
  <2> QED BY <2>1, <2>2, <2>3 DEF TermInv
<1>2. TermInv /\ [TermNext]_termVars => TermInv'
  BY TermStep, TermTypeStep DEF TermInv
<1> QED BY <1>1, <1>2, PTL

\* A step out of "closed" is a click, where no timer leaked and the refs are those
\* of the current run.
LEMMA ClosedStep ==
    ASSUME TermInv, [TermNext]_termVars, mounted = "yes", status = "closed", leaked = 0, conn = cur
    PROVE  status' = "closed" \/ clicks' # clicks
<1> USE DEF TermInv
<1>1. userClosed /\ ~timer /\ run[cur] \notin {"connecting", "open"}
  BY DEF ClosedInv, Closable
<1>2. ~OpenTab /\ ~Timers
  <2>1. ~OpenTab
    BY DEF OpenTab
  <2>2. ~TimerFires
    BY <1>1 DEF TimerFires
  <2>3. ~LeakedTimerFires
    BY DEF LeakedTimerFires
  <2> QED BY <2>1, <2>2, <2>3 DEF Timers
<1>3. Click => clicks' # clicks
  BY DEF Click, TermTypeOK
<1>4. User => status' = status \/ clicks' # clicks
  BY <1>3 DEF User, handleReconnect, handleDisconnect, SetAutoReconnect, CloseTab
<1>5. ASSUME NEW r \in Runs, Script(r) \/ Gateways(r)
      PROVE  status' = status
  BY <1>5, GatewayMoves DEF Script, ScriptsLoaded, ScriptsFail, OpenSocket
<1>6. ASSUME NEW r \in Runs, Browser(r)
      PROVE  status' = "closed"
  BY <1>1, <1>6, OnCloseHolds DEF Browser, DeliverReady, DeliverClose, DeliverEnd, OnReady
<1> QED BY <1>2, <1>4, <1>5, <1>6 DEF TermNext, termVars

=============================================================================
