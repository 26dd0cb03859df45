-------------------------- MODULE BreakGlassProofs --------------------------
(***************************************************************************)
(* Proofs about BreakGlass, for every finite set of handlers and of        *)
(* reconcilers, every set of policies and every bound.                     *)
(***************************************************************************)
EXTENDS BreakGlass, FiniteSetTheorems, TLAPS

-----------------------------------------------------------------------------
(* The parts of the inductive invariant.                                   *)

\* The processes between their audit event and their mint.
InFlight == {p \in Procs : loc[p].pc \in {"window", "mint"}}

\* What they take the window's start from: its end is not before its length.
WindowFits == \A p \in InFlight : loc[p].dur <= loc[p].row.notAfter

\* Each of them has an audit event of its own to spend.
AuditInv == minted + Cardinality(InFlight) <= records

\* A process that works on no copy of the row.
Unasked == {"idle", "sweep"}

\* No approver has to agree.
Needless == act.mode = "fail_open" \/ pol.auto

Explained == Needless \/ req = "approved"

\* Before the activation there is nothing; after it every copy has the row's mode;
\* who grants by himself may; who is past the look at the request has an explanation.
ModeInv ==
    /\ act.status = "absent" => /\ minted = 0 /\ req = "absent"
                                /\ \A p \in Procs : loc[p].pc \in Unasked
    /\ \A p \in Procs : loc[p].pc \notin Unasked =>
         loc[p].row.mode = act.mode /\ loc[p].row.status # "absent"
    /\ \A p \in Procs : loc[p].pc \in {"grant", "status"} => Needless
    /\ req = "auto_approved" => Needless
    /\ minted > 0 => Explained
    /\ \A p \in Procs : loc[p].pc \in {"audit", "window", "mint"} => Explained

-----------------------------------------------------------------------------
(* The local state of a process.                                           *)

\* The idle process is well typed.
LEMMA IdleType == Idle \in Local /\ Idle.pc = "idle" /\ NoActivation \in Row
  BY DEF Idle, Local, PCs, NoActivation, Row, Statuses

\* What a process does to its own state, it does to nobody else's.
LEMMA Moves ==
    ASSUME TypeOK, NEW p \in Procs, NEW x \in Local, loc' = [loc EXCEPT ![p] = x]
    PROVE  /\ loc' \in [Procs -> Local] /\ loc'[p] = x
           /\ \A q \in Procs \ {p} : loc'[q] = loc[q]
  BY DEF TypeOK

\* Goto changes the place only.
LEMMA Goes ==
    ASSUME TypeOK, NEW p \in Procs, NEW pc \in PCs, Goto(p, pc)
    PROVE  \E x \in Local :
             /\ loc' = [loc EXCEPT ![p] = x] /\ x.pc = pc
             /\ x.row = loc[p].row /\ x.dur = loc[p].dur
<1> DEFINE x == [loc[p] EXCEPT !.pc = pc]
<1>1. loc[p] \in Local
  BY DEF TypeOK
<1>2. x \in Local /\ x.pc = pc /\ x.row = loc[p].row /\ x.dur = loc[p].dur
  BY <1>1 DEF Local
<1>3. loc' = [loc EXCEPT ![p] = x]
  BY DEF Goto, TypeOK
<1> QED BY <1>2, <1>3

\* Return leaves the process idle or in the second half of its sweep.
LEMMA Returns ==
    ASSUME TypeOK, NEW p \in Procs, Return(p)
    PROVE  \E x \in Local : loc' = [loc EXCEPT ![p] = x] /\ x.pc \in Unasked
<1> DEFINE x == IF loc[p].sweep THEN [Idle EXCEPT !.pc = "sweep"] ELSE Idle
<1>1. [Idle EXCEPT !.pc = "sweep"] \in Local /\ [Idle EXCEPT !.pc = "sweep"].pc = "sweep"
  BY IdleType DEF Local, PCs
<1>2. x \in Local /\ x.pc \in Unasked
  BY <1>1, IdleType DEF Unasked
<1>3. loc' = [loc EXCEPT ![p] = x]
  BY DEF Return, TypeOK
<1> QED BY <1>2, <1>3

\* A process that starts with the row it has read.
LEMMA Starts ==
    ASSUME TypeOK, NEW pc \in PCs, NEW row \in Row, NEW d \in Nat, NEW lapsed \in BOOLEAN,
           NEW sweep \in BOOLEAN
    PROVE  LET x == [Idle EXCEPT !.pc = pc, !.row = row, !.dur = d, !.lapsed = lapsed,
                                 !.sweep = sweep]
           IN  x \in Local /\ x.pc = pc /\ x.row = row /\ x.dur = d
  BY DEF Idle, Local

-----------------------------------------------------------------------------
(* The steps that neither grant, nor look at the request, nor mint.        *)

Critical == {"grant", "status", "audit", "window", "mint"}

\* Process p ends its call, goes on with its copy of the row, or takes a new copy.
QuietMove(p, x) ==
    \/ x.pc \in Unasked
    \/ /\ loc[p].pc \notin Unasked /\ x.pc \notin Critical
       /\ x.row.mode = loc[p].row.mode /\ x.row.status = loc[p].row.status
    \/ act.status # "absent" /\ x.pc \notin Critical /\ x.row = act

\* What such a step may do to the rows.
QuietRows(p) ==
    /\ UNCHANGED <<pol, minted, records>>
    /\ act' \in Row
    /\ \/ act' = act
       \/ /\ loc[p].pc \notin Unasked
          /\ act'.mode = loc[p].row.mode /\ act'.status # "absent"
    /\ req' \in ReqStates
    /\ req' = req \/ (req = "pending" /\ req' # "auto_approved")

Quiet(p) ==
    /\ QuietRows(p)
    /\ \E x \in Local : loc' = [loc EXCEPT ![p] = x] /\ QuietMove(p, x)

\* Nobody enters the stretch between audit and mint in a quiet step.
LEMMA QuietFlight ==
    ASSUME TypeOK, WindowFits, NEW p \in Procs, Quiet(p)
    PROVE  /\ loc' \in [Procs -> Local] /\ InFlight' \subseteq InFlight
           /\ WindowFits'
<1>1. PICK x \in Local : loc' = [loc EXCEPT ![p] = x] /\ QuietMove(p, x)
  BY DEF Quiet
<1>2. x.pc \notin {"window", "mint"}
  BY <1>1 DEF QuietMove, Unasked, Critical
<1>3. /\ loc' \in [Procs -> Local] /\ loc'[p] = x
      /\ \A q \in Procs \ {p} : loc'[q] = loc[q]
  BY <1>1, Moves
<1>4. \A q \in InFlight' : q \in InFlight /\ loc'[q] = loc[q]
  BY <1>2, <1>3 DEF InFlight
<1> QED BY <1>3, <1>4 DEF WindowFits

\* A quiet step keeps the modes and the explanation.
LEMMA QuietMode ==
    ASSUME TypeOK, ModeInv, NEW p \in Procs, Quiet(p)
    PROVE  ModeInv'
<1>1. PICK x \in Local : loc' = [loc EXCEPT ![p] = x] /\ QuietMove(p, x)
  BY DEF Quiet
<1>2. /\ loc'[p] = x
      /\ \A q \in Procs \ {p} : loc'[q] = loc[q]
  BY <1>1, Moves
<1>3. \/ act' = act
      \/ act.status # "absent" /\ act'.status # "absent" /\ act'.mode = act.mode
  <2>1. loc[p].pc \notin Unasked => act.status # "absent" /\ loc[p].row.mode = act.mode
    BY DEF ModeInv
  <2> QED BY <2>1 DEF Quiet, QuietRows
<1>4. (Needless => Needless') /\ (Explained => Explained')
  BY <1>3 DEF Needless, Explained, Quiet, QuietRows
<1>5. \/ x.pc \in Unasked
      \/ /\ act.status # "absent" /\ x.pc \notin Critical
         /\ x.row.mode = act.mode /\ x.row.status # "absent"
  BY <1>1 DEF QuietMove, ModeInv
<1>6. act'.status = "absent" => /\ minted' = 0 /\ req' = "absent"
                                /\ \A q \in Procs : loc'[q].pc \in Unasked
  BY <1>2, <1>3, <1>5 DEF ModeInv, Quiet, QuietRows
<1>7. \A q \in Procs : loc'[q].pc \notin Unasked =>
         loc'[q].row.mode = act'.mode /\ loc'[q].row.status # "absent"
  BY <1>2, <1>3, <1>5 DEF ModeInv
<1>8. /\ \A q \in Procs : loc'[q].pc \in {"grant", "status"} => Needless'
      /\ \A q \in Procs : loc'[q].pc \in {"audit", "window", "mint"} => Explained'
  BY <1>2, <1>4, <1>5 DEF ModeInv, Critical, Unasked
<1>9. (req' = "auto_approved" => Needless') /\ (minted' > 0 => Explained')
  BY <1>4 DEF ModeInv, Quiet, QuietRows
<1> QED BY <1>6, <1>7, <1>8, <1>9 DEF ModeInv

\* The calls: each takes a copy of the row.
LEMMA QuietCalls ==
    ASSUME TypeOK, NEW p \in Procs, Get(p) \/ Revoke(p) \/ SubmitReview(p) \/ Sweep(p)
    PROVE  Quiet(p)
<1> USE DEF approvalVars, Unasked, Critical, PCs, QuietMove
<1>0. act \in Row /\ req \in ReqStates
  BY DEF TypeOK
<1>1. QuietRows(p)
  <2>1. UNCHANGED <<pol, minted, records, act, req>>
    BY DEF Get, Revoke, SubmitReview, Sweep, SweepPending, SweepActive
  <2> QED BY <1>0, <2>1 DEF QuietRows
<1>2. \E x \in Local : loc' = [loc EXCEPT ![p] = x] /\ QuietMove(p, x)
  <2>1. CASE Get(p)
    <3> DEFINE x == [Idle EXCEPT !.pc = "reload", !.row = act]
    <3>1. x \in Local /\ x.pc = "reload" /\ x.row = act
      BY <1>0, IdleType DEF Idle, Local
    <3> QED BY <2>1, <3>1 DEF Get
  <2>2. CASE Revoke(p)
    <3> DEFINE to == IF act.status = "active" THEN "access"
                     ELSE IF act.linked THEN "cancel" ELSE "end"
               x == [Idle EXCEPT !.row = act, !.pc = to]
    <3>1. to \in {"access", "cancel", "end"}
      OBVIOUS
    <3>2. x \in Local /\ x.pc = to /\ x.row = act
      BY <1>0, <3>1, IdleType DEF Idle, Local
    <3> QED BY <2>2, <3>1, <3>2 DEF Revoke
  <2>3. CASE SubmitReview(p)
    <3> DEFINE x == [Idle EXCEPT !.pc = "review", !.row = act]
    <3>1. x \in Local /\ x.pc = "review" /\ x.row = act
      BY <1>0, IdleType DEF Idle, Local
    <3> QED BY <2>3, <3>1 DEF SubmitReview
  <2>4. CASE SweepPending(p)
    <3> DEFINE x == [Idle EXCEPT !.pc = "reload", !.row = act, !.sweep = TRUE]
               y == [Idle EXCEPT !.pc = "sweep"]
    <3>1. /\ x \in Local /\ x.pc = "reload" /\ x.row = act
          /\ y \in Local /\ y.pc = "sweep"
      BY <1>0, IdleType DEF Idle, Local
    <3> QED BY <2>4, <3>1 DEF SweepPending
  <2>5. CASE SweepActive(p)
    <3> DEFINE x == [Idle EXCEPT !.pc = "access", !.row = act, !.lapsed = TRUE]
    <3>1. /\ x \in Local /\ x.pc = "access" /\ x.row = act
          /\ Idle \in Local /\ Idle.pc = "idle"
      BY <1>0, IdleType DEF Idle, Local
    <3> QED BY <2>5, <3>1 DEF SweepActive
  <2> QED BY <2>1, <2>2, <2>3, <2>4, <2>5 DEF Sweep
<1> QED BY <1>1, <1>2 DEF Quiet

\* The steps that go on with the copy and write no row.
LEMMA QuietGoto ==
    ASSUME TypeOK, NEW p \in Procs, NEW pc \in PCs \ Critical, Goto(p, pc),
           pc \notin Unasked => loc[p].pc \notin Unasked, QuietRows(p)
    PROVE  Quiet(p)
<1>1. PICK x \in Local : /\ loc' = [loc EXCEPT ![p] = x] /\ x.pc = pc
                          /\ x.row = loc[p].row /\ x.dur = loc[p].dur
  BY Goes
<1> QED BY <1>1 DEF Quiet, QuietMove

\* The steps that return.
LEMMA QuietReturn ==
    ASSUME TypeOK, NEW p \in Procs, Return(p), QuietRows(p)
    PROVE  Quiet(p)
<1>1. PICK x \in Local : loc' = [loc EXCEPT ![p] = x] /\ x.pc \in Unasked
  BY Returns
<1> QED BY <1>1 DEF Quiet, QuietMove

\* A saved row is the copy with another status.
LEMMA QuietSave ==
    ASSUME TypeOK, NEW p \in Procs, NEW row \in Row, loc[p].pc \notin Unasked,
           row.mode = loc[p].row.mode, row.status # "absent", act' = row,
           UNCHANGED <<pol, minted, records, req>>, Return(p)
    PROVE  Quiet(p)
  BY QuietReturn DEF QuietRows, TypeOK

\* The steps of the handlers that are quiet.
LEMMA QuietSteps ==
    ASSUME TypeOK, ModeInv, NEW p \in Procs,
           \/ \E ok \in BOOLEAN : Filed(p, ok)
           \/ Link(p) \/ SaveActive(p) \/ Unwind(p) \/ Reject(p) \/ Reload(p)
           \/ CancelRequest(p) \/ DeleteAsset(p) \/ RevokeGrant(p) \/ terminateSessions(p)
           \/ End(p) \/ SaveReview(p)
    PROVE  Quiet(p)
<1>a. loc[p] \in Local /\ loc[p].row \in Row /\ act \in Row /\ req \in ReqStates
  BY DEF TypeOK, Local
<1>b. ASSUME UNCHANGED <<pol, minted, records, act, req>>
      PROVE  QuietRows(p)
  BY <1>a, <1>b DEF QuietRows
<1>c. ASSUME loc[p].pc \notin Unasked, NEW status \in Statuses \ {"absent"},
             act' = [loc[p].row EXCEPT !.status = status],
             UNCHANGED <<pol, minted, records, req>>, Return(p)
      PROVE  Quiet(p)
  <2> DEFINE row == [loc[p].row EXCEPT !.status = status]
  <2>1. row \in Row /\ row.mode = loc[p].row.mode /\ row.status = status
    BY <1>a DEF Row
  <2> HIDE DEF row
  <2> QED BY <1>c, <2>1, QuietSave DEF row
<1> USE DEF approvalVars, Unasked, Critical, PCs, Save
<1>1. ASSUME NEW ok \in BOOLEAN, Filed(p, ok)
      PROVE  Quiet(p)
  BY <1>1, <1>b, QuietGoto DEF Filed
<1>2. CASE Link(p)
  <2> DEFINE row == [loc[p].row EXCEPT !.linked = TRUE]
  <2>1. row \in Row /\ row.mode = loc[p].row.mode /\ row.status = loc[p].row.status
    BY <1>a DEF Row
  <2>2. loc[p].pc \notin Unasked /\ loc[p].row.status # "absent"
    BY <1>2 DEF Link, ModeInv
  <2> HIDE DEF row
  <2> QED BY <1>2, <2>1, <2>2, QuietSave DEF Link, row
<1>3. CASE SaveActive(p)
  BY <1>3, <1>c DEF SaveActive, Statuses
<1>4. CASE Unwind(p)
  BY <1>4, <1>b, QuietGoto DEF Unwind
<1>5. CASE Reject(p)
  BY <1>5, <1>c DEF Reject, Statuses
<1>6. CASE Reload(p)
  <2>1. QuietRows(p)
    BY <1>6, <1>b DEF Reload
  <2>2. CASE Return(p)
    BY <2>1, <2>2, QuietReturn
  <2>3. CASE /\ act.status = "pending"
             /\ loc' = [loc EXCEPT ![p] = [loc[p] EXCEPT !.pc = "detail", !.row = act]]
    <3> DEFINE x == [loc[p] EXCEPT !.pc = "detail", !.row = act]
    <3>1. x \in Local /\ x.pc = "detail" /\ x.row = act
      BY <1>a DEF Local
    <3> QED BY <2>1, <2>3, <3>1 DEF Quiet, QuietMove
  <2> QED BY <1>6, <2>2, <2>3 DEF Reload, ReconcileRow, TypeOK
<1>7. CASE CancelRequest(p)
  <2>1. /\ loc[p].pc = "cancel" /\ Goto(p, "end") /\ UNCHANGED <<pol, minted, records, act>>
        /\ req' = req \/ (req = "pending" /\ req' = "cancelled")
    BY <1>7 DEF CancelRequest, Life!Finish
  <2>2. QuietRows(p)
    BY <1>a, <2>1 DEF QuietRows, ReqStates
  <2> QED BY <2>1, <2>2, QuietGoto
<1>8. CASE DeleteAsset(p)
  <2> DEFINE x == [loc[p] EXCEPT !.pc = "ungrant", !.row.asset = 0]
  <2>1. /\ x \in Local /\ x.pc = "ungrant" /\ x.row.mode = loc[p].row.mode
        /\ x.row.status = loc[p].row.status
    BY <1>a DEF Local, Row
  <2>2. loc' = [loc EXCEPT ![p] = x] /\ loc[p].pc = "access"
    BY <1>8 DEF DeleteAsset, TypeOK
  <2>3. QuietRows(p)
    BY <1>8, <1>b DEF DeleteAsset
  <2> HIDE DEF x
  <2> QED BY <2>1, <2>2, <2>3 DEF Quiet, QuietMove
<1>9. CASE RevokeGrant(p)
  BY <1>9, <1>b, QuietGoto DEF RevokeGrant
<1>10. CASE terminateSessions(p)
  BY <1>10, <1>b, QuietGoto DEF terminateSessions
<1>11. CASE End(p)
  <2> DEFINE status == IF loc[p].row.status = "active" /\ loc[p].row.review THEN "under_review"
                       ELSE IF loc[p].lapsed THEN "expired" ELSE "revoked"
  <2>1. status \in Statuses \ {"absent"}
    BY DEF Statuses
  <2>2. /\ loc[p].pc = "end" /\ act' = [loc[p].row EXCEPT !.status = status]
        /\ UNCHANGED <<pol, minted, records, req>> /\ Return(p)
    BY <1>11 DEF End
  <2> HIDE DEF status
  <2> QED BY <2>1, <2>2, <1>c
<1>12. CASE SaveReview(p)
  BY <1>12, <1>c DEF SaveReview, Statuses
<1> QED BY <1>1, <1>2, <1>3, <1>4, <1>5, <1>6, <1>7, <1>8, <1>9, <1>10, <1>11, <1>12

\* Errors and crashes: they change no row.  Only the failed write of the grant's
\* window leads on to the mint.
LEMMA QuietFailures ==
    ASSUME TypeOK, NEW p \in Procs, ErrorIgnored(p) \/ ErrorHandled(p) \/ Crash(p)
    PROVE  Quiet(p) \/ (loc[p].pc = "window" /\ Goto(p, "mint"))
<1>a. loc[p] \in Local /\ loc[p].row \in Row /\ act \in Row /\ req \in ReqStates
  BY DEF TypeOK, Local
<1> USE DEF approvalVars, Unasked, Critical, PCs
<1>b. QuietRows(p)
  <2>1. UNCHANGED <<pol, minted, records, act, req>>
    BY DEF ErrorIgnored, ErrorHandled, Crash
  <2> QED BY <1>a, <2>1 DEF QuietRows
<1>1. CASE ErrorIgnored(p)
  <2>1. CASE \/ loc[p].pc = "unwind" /\ Goto(p, "reject")
             \/ loc[p].pc = "cancel" /\ Goto(p, "end")
             \/ loc[p].pc = "ungrant" /\ Goto(p, "sever")
             \/ loc[p].pc = "sever" /\ Goto(p, "end")
             \/ loc[p].pc = "idle" /\ Goto(p, "sweep")
    BY <2>1, <1>b, QuietGoto
  <2>2. CASE /\ loc[p].pc = "access"
             /\ loc' = [loc EXCEPT ![p] = [@ EXCEPT !.pc = "ungrant", !.row.asset = 0]]
    <3> DEFINE x == [loc[p] EXCEPT !.pc = "ungrant", !.row.asset = 0]
    <3>1. /\ x \in Local /\ x.pc = "ungrant" /\ x.row.mode = loc[p].row.mode
          /\ x.row.status = loc[p].row.status
      BY <1>a DEF Local, Row
    <3>2. loc' = [loc EXCEPT ![p] = x]
      BY <2>2 DEF TypeOK
    <3> HIDE DEF x
    <3> QED BY <1>b, <2>2, <3>1, <3>2 DEF Quiet, QuietMove
  <2>3. CASE loc[p].pc = "reload" /\ ReconcileRow(p, loc[p].row)
    <3>1. CASE Return(p)
      BY <1>b, <3>1, QuietReturn
    <3>2. CASE loc' = [loc EXCEPT ![p] = [loc[p] EXCEPT !.pc = "detail", !.row = loc[p].row]]
      <4> DEFINE x == [loc[p] EXCEPT !.pc = "detail", !.row = loc[p].row]
      <4>1. x \in Local /\ x.pc = "detail" /\ x.row = loc[p].row
        BY <1>a DEF Local
      <4> HIDE DEF x
      <4> QED BY <1>b, <2>3, <3>2, <4>1 DEF Quiet, QuietMove, x
    <3> QED BY <2>3, <3>1, <3>2 DEF ReconcileRow, TypeOK
  <2> QED BY <1>1, <2>1, <2>2, <2>3 DEF ErrorIgnored
<1>2. CASE ErrorHandled(p)
  <2>1. CASE loc[p].pc \in {"file", "grant", "status"} /\ Goto(p, "reject")
    BY <1>b, <2>1, QuietGoto
  <2>2. CASE loc[p].pc = "mint" /\ Goto(p, "unwind")
    BY <1>b, <2>2, QuietGoto
  <2>3. CASE Return(p)
    BY <1>b, <2>3, QuietReturn
  <2> QED BY <1>2, <2>1, <2>2, <2>3 DEF ErrorHandled
<1>3. CASE Crash(p)
  BY <1>3, <1>b, IdleType DEF Crash, Quiet, QuietMove
<1> QED BY <1>1, <1>2, <1>3

-----------------------------------------------------------------------------
(* The audit events and the processes in flight.                           *)

\* There are finitely many processes.
LEMMA FlightFinite ==
    /\ IsFiniteSet(Procs)
    /\ \A S : S \subseteq Procs => IsFiniteSet(S) /\ Cardinality(S) \in Nat
<1>1. IsFiniteSet(Procs)
  BY BreakGlassAssumption, FS_Union DEF Procs
<1>2. ASSUME NEW S, S \subseteq Procs
      PROVE  IsFiniteSet(S) /\ Cardinality(S) \in Nat
  <2>1. IsFiniteSet(S)
    BY <1>1, <1>2, FS_Subset
  <2> QED BY <2>1, FS_CardinalityType
<1> QED BY <1>1, <1>2

\* A step that adds nobody to the flight, no mint and takes back no event.
LEMMA FlightShrinks ==
    ASSUME AuditInv, minted \in Nat, records \in Nat,
           InFlight' \subseteq InFlight, UNCHANGED <<minted, records>>
    PROVE  AuditInv'
<1>1. InFlight \subseteq Procs /\ InFlight' \subseteq Procs
  BY DEF InFlight
<1>2. /\ IsFiniteSet(InFlight) /\ Cardinality(InFlight) \in Nat
      /\ Cardinality(InFlight') \in Nat
  BY <1>1, FlightFinite
<1>3. Cardinality(InFlight') <= Cardinality(InFlight)
  BY <1>2, FS_Subset
<1> QED BY <1>2, <1>3 DEF AuditInv

\* A process that moves from outside to outside leaves the flight as it is.
LEMMA FlightElsewhere ==
    ASSUME TypeOK, WindowFits, NEW p \in Procs, NEW x \in Local, loc' = [loc EXCEPT ![p] = x],
           x.pc \notin {"window", "mint"}
    PROVE  InFlight' \subseteq InFlight /\ WindowFits'
<1>1. /\ loc'[p] = x
      /\ \A q \in Procs \ {p} : loc'[q] = loc[q]
  BY Moves
<1>2. \A q \in InFlight' : q \in InFlight /\ loc'[q] = loc[q]
  BY <1>1 DEF InFlight
<1> QED BY <1>2 DEF WindowFits

-----------------------------------------------------------------------------
(* Types.                                                                  *)

\* What the quiet steps do to the remaining variables.
LEMMA QuietTypes ==
    ASSUME TypeOK, WindowFits, NEW p \in Procs, Quiet(p),
           UNCHANGED now, win' \in Window, grant' \in Grant,
           assets' \subseteq assets, live' \in BOOLEAN, faults' \in Nat
    PROVE  TypeOK' /\ WindowFits'
<1>1. loc' \in [Procs -> Local] /\ WindowFits'
  BY QuietFlight
<1> QED BY <1>1 DEF TypeOK, Quiet, QuietRows

\* Taking a grant back keeps its shape.
LEMMA RevokedType == TypeOK => Revoked \in Grant
  BY DEF TypeOK, Revoked, Grant

\* The parts together.
BreakGlassInv == TypeOK /\ WindowFits /\ AuditInv /\ ModeInv

\* The quiet steps keep them all.
LEMMA QuietKeeps ==
    ASSUME BreakGlassInv, NEW p \in Procs, Quiet(p),
           UNCHANGED now, win' \in Window, grant' \in Grant,
           assets' \subseteq assets, live' \in BOOLEAN, faults' \in Nat
    PROVE  BreakGlassInv'
<1>1. TypeOK' /\ WindowFits'
  BY QuietTypes DEF BreakGlassInv
<1>2. InFlight' \subseteq InFlight /\ UNCHANGED <<minted, records>>
  BY QuietFlight DEF BreakGlassInv, Quiet, QuietRows
<1>3. AuditInv'
  BY <1>2, FlightShrinks DEF BreakGlassInv, TypeOK
<1>4. ModeInv'
  BY QuietMode DEF BreakGlassInv
<1> QED BY <1>1, <1>3, <1>4 DEF BreakGlassInv

\* The calls and the quiet steps of the handlers and the reconcilers.
LEMMA KeptByQuiet ==
    ASSUME BreakGlassInv, NEW p \in Procs,
           \/ Get(p) \/ Revoke(p) \/ SubmitReview(p) \/ Sweep(p)
           \/ \E ok \in BOOLEAN : Filed(p, ok)
           \/ Link(p) \/ SaveActive(p) \/ Unwind(p) \/ Reject(p) \/ Reload(p)
           \/ CancelRequest(p) \/ DeleteAsset(p) \/ RevokeGrant(p) \/ terminateSessions(p)
           \/ End(p) \/ SaveReview(p)
    PROVE  BreakGlassInv'
<1>1. TypeOK /\ ModeInv
  BY DEF BreakGlassInv
<1>2. Quiet(p)
  BY <1>1, QuietCalls, QuietSteps
<1>3. win \in Window /\ grant \in Grant /\ live \in BOOLEAN /\ faults \in Nat
  BY <1>1 DEF TypeOK
<1>4. UNCHANGED <<now, win, faults>>
  BY DEF approvalVars, Get, Revoke, SubmitReview, Sweep, SweepPending, SweepActive, Filed, Link,
         SaveActive, Unwind, Reject, Reload, CancelRequest, DeleteAsset, RevokeGrant,
         terminateSessions, End, SaveReview
<1>5. grant' \in {grant, Revoked} /\ live' \in {live, FALSE} /\ assets' \subseteq assets
  BY DEF approvalVars, Get, Revoke, SubmitReview, Sweep, SweepPending, SweepActive, Filed, Link,
         SaveActive, Unwind, Reject, Reload, CancelRequest, DeleteAsset, RevokeGrant,
         terminateSessions, End, SaveReview
<1> QED BY <1>1, <1>2, <1>3, <1>4, <1>5, RevokedType, QuietKeeps

-----------------------------------------------------------------------------
(* The steps that grant, look at the request, write the audit event, mint. *)

\* A process moves to a place outside the flight and keeps the mode of its row.
LEMMA ModeMoves ==
    ASSUME TypeOK, ModeInv, NEW p \in Procs, NEW x \in Local, loc' = [loc EXCEPT ![p] = x],
           loc[p].pc \notin Unasked, x.row.mode = loc[p].row.mode,
           x.row.status = loc[p].row.status,
           UNCHANGED <<act, pol>>,
           req' = req \/ req \in {"absent", "pending"},
           req' = "auto_approved" => req = "auto_approved" \/ Needless,
           x.pc \in {"grant", "status"} => Needless,
           x.pc \in {"audit", "window", "mint"} => Explained,
           minted' > 0 => Explained
    PROVE  ModeInv'
<1>1. /\ loc'[p] = x
      /\ \A q \in Procs \ {p} : loc'[q] = loc[q]
  BY Moves
<1>2. act.status # "absent" /\ x.row.mode = act.mode /\ x.row.status # "absent"
  BY DEF ModeInv
<1>3. (Needless <=> Needless') /\ (Explained => Explained')
  BY DEF Needless, Explained
<1>4. \A q \in Procs : loc'[q].pc \notin Unasked =>
         loc'[q].row.mode = act'.mode /\ loc'[q].row.status # "absent"
  BY <1>1, <1>2 DEF ModeInv
<1>5. /\ \A q \in Procs : loc'[q].pc \in {"grant", "status"} => Needless'
      /\ \A q \in Procs : loc'[q].pc \in {"audit", "window", "mint"} => Explained'
  BY <1>1, <1>3 DEF ModeInv
<1>6. (req' = "auto_approved" => Needless') /\ (minted' > 0 => Explained')
  BY <1>3 DEF ModeInv
<1> QED BY <1>2, <1>4, <1>5, <1>6 DEF ModeInv

\* The cap is a length.
LEMMA CappedType ==
    ASSUME TypeOK, NEW d \in Requested
    PROVE  cappedDuration(d) \in Nat
<1>1. pol \in Policy /\ d \in Nat
  BY BreakGlassAssumption DEF TypeOK
<1> QED BY <1>1 DEF cappedDuration, Policy

\* Activate: nothing was there before.
LEMMA KeptByActivate ==
    ASSUME BreakGlassInv, NEW p \in Procs, NEW asked \in BOOLEAN, NEW d \in Requested,
           Activate(p, asked, d)
    PROVE  BreakGlassInv'
<1>0. TypeOK /\ WindowFits /\ AuditInv /\ ModeInv /\ pol \in Policy
  BY BreakGlassAssumption DEF BreakGlassInv, TypeOK
<1> DEFINE failOpen == asked /\ pol.failOpen /\ ~pol.dual
           row == [NoActivation EXCEPT !.status = "pending",
                     !.mode = IF failOpen THEN "fail_open" ELSE "pre_approved",
                     !.review = pol.review \/ failOpen]
           x == [Idle EXCEPT !.pc = "file", !.row = row, !.dur = cappedDuration(d)]
<1>1. row \in Row /\ row.status = "pending"
  BY <1>0 DEF NoActivation, Row, Statuses, Policy
<1>2. x \in Local /\ x.pc = "file" /\ x.row = row
  <2> HIDE DEF row
  <2> QED BY <1>0, <1>1, CappedType DEF Idle, Local, PCs
<1>3. /\ act.status = "absent" /\ act' = row /\ loc' = [loc EXCEPT ![p] = x]
      /\ UNCHANGED <<now, pol, req, win, grant, assets, minted, records, live, faults>>
  BY DEF Activate, approvalVars
<1> HIDE DEF x, row
<1>4. InFlight' \subseteq InFlight /\ WindowFits'
  BY <1>0, <1>2, <1>3, FlightElsewhere
<1>5. AuditInv'
  BY <1>0, <1>3, <1>4, FlightShrinks DEF TypeOK
<1>6. /\ loc' \in [Procs -> Local] /\ loc'[p] = x
      /\ \A q \in Procs \ {p} : loc'[q] = loc[q]
  BY <1>0, <1>2, <1>3, Moves
<1>7. TypeOK'
  BY <1>0, <1>1, <1>3, <1>6 DEF TypeOK
<1>8. /\ minted = 0 /\ req = "absent"
      /\ \A q \in Procs \ {p} : loc'[q].pc \in Unasked
  BY <1>0, <1>3, <1>6 DEF ModeInv
<1>9. ModeInv'
  BY <1>1, <1>2, <1>3, <1>6, <1>8 DEF ModeInv, Unasked
<1> QED BY <1>4, <1>5, <1>7, <1>9 DEF BreakGlassInv

\* The request is filed; the call goes on to the grant only if nobody has to approve.
LEMMA KeptByFile ==
    ASSUME BreakGlassInv, NEW p \in Procs, FileRequest(p)
    PROVE  BreakGlassInv'
<1>0. TypeOK /\ WindowFits /\ AuditInv /\ ModeInv
  BY DEF BreakGlassInv
<1> DEFINE to == IF loc[p].row.mode = "fail_open" \/ pol.auto THEN "grant" ELSE "filed"
<1>1. /\ loc[p].pc = "file" /\ win' = [from |-> now, until |-> now + loc[p].dur]
      /\ Goto(p, to)
      /\ UNCHANGED <<now, pol, act, grant, assets, minted, records, live, faults>>
      /\ req = "absent" /\ req' = "pending"
  BY DEF FileRequest, Life!File
<1>2. to \in PCs /\ to \in {"grant", "filed"}
  BY DEF PCs
<1>3. to = "grant" => Needless
  BY <1>0, <1>1 DEF ModeInv, Needless, Unasked
<1> HIDE DEF to
<1>4. PICK x \in Local : /\ loc' = [loc EXCEPT ![p] = x] /\ x.pc = to
                          /\ x.row = loc[p].row /\ x.dur = loc[p].dur
  BY <1>0, <1>1, <1>2, Goes
<1>5. InFlight' \subseteq InFlight /\ WindowFits'
  BY <1>0, <1>2, <1>4, FlightElsewhere
<1>6. AuditInv'
  BY <1>0, <1>1, <1>5, FlightShrinks DEF TypeOK
<1>7. win' \in Window
  <2>1. now \in Nat /\ loc[p].dur \in Nat
    BY <1>0 DEF TypeOK, Local
  <2> QED BY <1>1, <2>1 DEF Window
<1>8. TypeOK'
  BY <1>0, <1>1, <1>4, <1>7, Moves DEF TypeOK, ReqStates
<1>9. loc[p].pc \notin Unasked /\ (minted' > 0 => Explained)
  BY <1>0, <1>1 DEF ModeInv, Unasked
<1>10. ModeInv'
  BY <1>0, <1>1, <1>2, <1>3, <1>4, <1>9, ModeMoves
<1> QED BY <1>5, <1>6, <1>8, <1>10 DEF BreakGlassInv

\* A window cut to a cap does not end before it starts.
LEMMA CutWindow ==
    ASSUME NEW from \in Nat, NEW until \in Nat, from <= until, NEW cap \in Nat
    PROVE  LET cut == IF cap > 0 THEN Least(until, from + cap) ELSE until
           IN  cut \in Nat /\ from <= cut
  BY DEF Least

\* The grant inside the call.
LEMMA KeptByGrant ==
    ASSUME BreakGlassInv, NEW p \in Procs, CallGrant(p)
    PROVE  BreakGlassInv'
<1>0. TypeOK /\ WindowFits /\ AuditInv /\ ModeInv /\ pol \in Policy
  BY BreakGlassAssumption DEF BreakGlassInv, TypeOK
<1> DEFINE from == IF loc[p].row.mode = "fail_open" THEN now ELSE win.from
           asked == from + loc[p].dur
           cap == IF loc[p].row.mode = "fail_open" THEN loc[p].dur ELSE pol.templateCap
           until == IF cap > 0 THEN Least(asked, from + cap) ELSE asked
           x == [loc[p] EXCEPT !.pc = "status", !.dur = until - from]
<1>1. loc[p] \in Local /\ loc[p].dur \in Nat /\ from \in Nat /\ cap \in Nat
  BY <1>0 DEF TypeOK, Local, Window, Policy
<1>2. asked \in Nat /\ from <= asked
  BY <1>1
<1>3. until \in Nat /\ from <= until
  <2> HIDE DEF from, asked, cap
  <2> QED BY <1>1, <1>2, CutWindow
<1>4. /\ loc[p].pc = "grant" /\ grant' = [status |-> "active", from |-> from, until |-> until]
      /\ UNCHANGED <<now, pol, act, req, win, assets, minted, records, live, faults>>
  BY DEF CallGrant, Life!Issue
<1>5. loc' = [loc EXCEPT ![p] = x]
  BY <1>0, <1>4 DEF CallGrant, TypeOK
<1> HIDE DEF from, until
<1>6. until - from \in Nat
  BY <1>1, <1>3
<1>7. x \in Local /\ x.pc = "status" /\ x.row = loc[p].row
  BY <1>1, <1>6 DEF Local, PCs
<1> HIDE DEF x
<1>8. grant' \in Grant
  BY <1>1, <1>3, <1>4 DEF Grant
<1>9. InFlight' \subseteq InFlight /\ WindowFits'
  BY <1>0, <1>5, <1>7, FlightElsewhere
<1>10. AuditInv'
  BY <1>0, <1>4, <1>9, FlightShrinks DEF TypeOK
<1>11. TypeOK'
  BY <1>0, <1>4, <1>5, <1>7, <1>8, Moves DEF TypeOK
<1>12. loc[p].pc \notin Unasked /\ Needless /\ (minted' > 0 => Explained)
  BY <1>0, <1>4 DEF ModeInv, Unasked
<1>13. ModeInv'
  BY <1>0, <1>4, <1>5, <1>7, <1>12, ModeMoves
<1> QED BY <1>9, <1>10, <1>11, <1>13 DEF BreakGlassInv

\* The status inside the call.
LEMMA KeptByStatus ==
    ASSUME BreakGlassInv, NEW p \in Procs, CallStatus(p)
    PROVE  BreakGlassInv'
<1>0. TypeOK /\ WindowFits /\ AuditInv /\ ModeInv
  BY DEF BreakGlassInv
<1>1. /\ loc[p].pc = "status" /\ Goto(p, "audit")
      /\ UNCHANGED <<now, pol, act, win, grant, assets, minted, records, live, faults>>
      /\ req' = req \/ (req = "pending" /\ req' = "auto_approved")
  BY DEF CallStatus, Life!Finish
<1>2. PICK x \in Local : /\ loc' = [loc EXCEPT ![p] = x] /\ x.pc = "audit"
                          /\ x.row = loc[p].row /\ x.dur = loc[p].dur
  BY <1>0, <1>1, Goes DEF PCs
<1>3. InFlight' \subseteq InFlight /\ WindowFits'
  BY <1>0, <1>2, FlightElsewhere
<1>4. AuditInv'
  BY <1>0, <1>1, <1>3, FlightShrinks DEF TypeOK
<1>5. TypeOK'
  BY <1>0, <1>1, <1>2, Moves DEF TypeOK, ReqStates
<1>6. loc[p].pc \notin Unasked /\ Needless /\ Explained
  BY <1>0, <1>1 DEF ModeInv, Unasked, Explained
<1>7. ModeInv'
  BY <1>0, <1>1, <1>2, <1>6, ModeMoves
<1> QED BY <1>3, <1>4, <1>5, <1>7 DEF BreakGlassInv

\* reconcilePending goes on only with a request that was approved.
LEMMA KeptByReconcile ==
    ASSUME BreakGlassInv, NEW p \in Procs, ReconcilePending(p)
    PROVE  BreakGlassInv'
<1>0. TypeOK /\ WindowFits /\ AuditInv /\ ModeInv
  BY DEF BreakGlassInv
<1> DEFINE dur == IF grant.until > grant.from THEN grant.until - grant.from ELSE Floor
           x == [loc[p] EXCEPT !.pc = "audit", !.dur = dur]
<1>1. dur \in Nat
  BY <1>0, BreakGlassAssumption DEF TypeOK, Grant
<1>2. /\ loc[p].pc = "detail"
      /\ UNCHANGED <<now, pol, act, req, win, grant, assets, minted, records, live, faults>>
  BY DEF ReconcilePending, approvalVars
<1>3. QuietRows(p)
  BY <1>0, <1>2 DEF TypeOK, QuietRows
<1>4. ASSUME Quiet(p)
      PROVE  BreakGlassInv'
  BY <1>0, <1>2, <1>4, QuietKeeps DEF TypeOK
<1>5. CASE Goto(p, "reject")
  <2>1. Quiet(p)
    BY <1>0, <1>2, <1>3, <1>5, QuietGoto DEF PCs, Critical, Unasked
  <2> QED BY <1>4, <2>1
<1>6. CASE Return(p)
  BY <1>0, <1>3, <1>4, <1>6, QuietReturn
<1>7. CASE req \in {"approved", "auto_approved"}
  <2>1. loc' = [loc EXCEPT ![p] = x] /\ loc[p] \in Local
    BY <1>0, <1>7 DEF ReconcilePending, TypeOK
  <2> HIDE DEF dur
  <2>2. x \in Local /\ x.pc = "audit" /\ x.row = loc[p].row
    BY <1>1, <2>1 DEF Local, PCs
  <2> HIDE DEF x
  <2>3. InFlight' \subseteq InFlight /\ WindowFits'
    BY <1>0, <2>1, <2>2, FlightElsewhere
  <2>4. AuditInv'
    BY <1>0, <1>2, <2>3, FlightShrinks DEF TypeOK
  <2>5. TypeOK'
    BY <1>0, <1>2, <2>1, <2>2, Moves DEF TypeOK
  <2>6. loc[p].pc \notin Unasked /\ Explained
    BY <1>0, <1>2, <1>7 DEF ModeInv, Unasked, Explained
  <2>7. ModeInv'
    BY <1>0, <1>2, <2>1, <2>2, <2>6, ModeMoves
  <2> QED BY <2>3, <2>4, <2>5, <2>7 DEF BreakGlassInv
<1> QED BY <1>5, <1>6, <1>7 DEF ReconcilePending

\* The audit event: it pays for the mint that may follow.
LEMMA KeptByAudit ==
    ASSUME BreakGlassInv, NEW p \in Procs, NEW ok \in BOOLEAN, ActivateAudit(p, ok)
    PROVE  BreakGlassInv'
<1>0. TypeOK /\ WindowFits /\ AuditInv /\ ModeInv
  BY DEF BreakGlassInv
<1> DEFINE row == [loc[p].row EXCEPT !.linked = TRUE, !.granted = TRUE,
                                     !.notAfter = now + loc[p].dur]
           to == IF ok THEN "window" ELSE "unwind"
           x == [loc[p] EXCEPT !.pc = to, !.row = row]
<1>1. loc[p] \in Local /\ loc[p].row \in Row /\ now \in Nat /\ loc[p].dur \in Nat
  BY <1>0 DEF TypeOK, Local
<1>2. /\ row \in Row /\ row.notAfter = now + loc[p].dur
      /\ row.mode = loc[p].row.mode /\ row.status = loc[p].row.status
  <2> DEFINE over == now + loc[p].dur
  <2>1. over \in Nat
    BY <1>1
  <2> HIDE DEF over
  <2>2. row = [loc[p].row EXCEPT !.linked = TRUE, !.granted = TRUE, !.notAfter = over]
    BY DEF over
  <2> HIDE DEF row
  <2>3. row \in Row
    BY <1>1, <2>1, <2>2 DEF Row
  <2>4. /\ row.notAfter = over /\ row.mode = loc[p].row.mode
        /\ row.status = loc[p].row.status
    BY <1>1, <2>2 DEF Row
  <2> QED BY <2>3, <2>4 DEF over
<1>3. /\ loc[p].pc = "audit" /\ loc' = [loc EXCEPT ![p] = x]
      /\ records' = IF ok THEN records + 1 ELSE records
      /\ UNCHANGED <<now, pol, act, req, win, grant, assets, minted, live, faults>>
  BY <1>0 DEF ActivateAudit, approvalVars, TypeOK
<1>4. to \in PCs
  BY DEF PCs
<1> HIDE DEF row
<1>5. x \in Local /\ x.pc = to /\ x.row = row /\ x.dur = loc[p].dur
  BY <1>1, <1>2, <1>4 DEF Local
<1> HIDE DEF x
<1>6. /\ loc' \in [Procs -> Local] /\ loc'[p] = x
      /\ \A q \in Procs \ {p} : loc'[q] = loc[q]
  BY <1>0, <1>3, <1>5, Moves
<1>7. TypeOK'
  BY <1>0, <1>3, <1>6 DEF TypeOK
<1>8. loc[p].pc \notin Unasked /\ Explained
  BY <1>0, <1>3 DEF ModeInv, Unasked
<1>9. ModeInv'
  BY <1>0, <1>2, <1>3, <1>5, <1>8, ModeMoves
<1>10. CASE ~ok
  <2>1. InFlight' \subseteq InFlight /\ WindowFits'
    BY <1>0, <1>3, <1>5, <1>10, FlightElsewhere
  <2>2. AuditInv'
    BY <1>0, <1>3, <1>10, <2>1, FlightShrinks DEF TypeOK
  <2> QED BY <1>7, <1>9, <2>1, <2>2 DEF BreakGlassInv
<1>11. CASE ok
  <2>1. InFlight' = InFlight \cup {p} /\ p \notin InFlight
    BY <1>3, <1>5, <1>6, <1>11 DEF InFlight
  <2>2. loc'[p].dur <= loc'[p].row.notAfter
    BY <1>1, <1>2, <1>5, <1>6
  <2>3. WindowFits'
    BY <1>0, <1>6, <2>1, <2>2 DEF WindowFits, InFlight
  <2>4. IsFiniteSet(InFlight) /\ Cardinality(InFlight) \in Nat
    BY FlightFinite DEF InFlight
  <2>5. Cardinality(InFlight') = Cardinality(InFlight) + 1
    BY <2>1, <2>4, FS_AddElement
  <2>6. AuditInv'
    BY <1>0, <1>3, <1>11, <2>4, <2>5 DEF AuditInv, TypeOK
  <2> QED BY <1>7, <1>9, <2>3, <2>6 DEF BreakGlassInv
<1> QED BY <1>10, <1>11

\* The grant's window is written, or the write fails and is only logged.
LEMMA KeptByWindow ==
    ASSUME BreakGlassInv, NEW p \in Procs, loc[p].pc = "window", Goto(p, "mint"),
           grant' \in Grant, faults' \in Nat,
           UNCHANGED <<now, pol, act, req, win, assets, minted, records, live>>
    PROVE  BreakGlassInv'
<1>0. TypeOK /\ WindowFits /\ AuditInv /\ ModeInv
  BY DEF BreakGlassInv
<1>1. PICK x \in Local : /\ loc' = [loc EXCEPT ![p] = x] /\ x.pc = "mint"
                          /\ x.row = loc[p].row /\ x.dur = loc[p].dur
  BY <1>0, Goes DEF PCs
<1>2. /\ loc' \in [Procs -> Local] /\ loc'[p] = x
      /\ \A q \in Procs \ {p} : loc'[q] = loc[q]
  BY <1>0, <1>1, Moves
<1>3. TypeOK'
  BY <1>0, <1>2 DEF TypeOK
<1>4. InFlight' = InFlight
  BY <1>1, <1>2 DEF InFlight
<1>5. WindowFits'
  BY <1>0, <1>1, <1>2, <1>4 DEF WindowFits
<1>6. AuditInv'
  BY <1>0, <1>4, FlightShrinks DEF TypeOK
<1>7. loc[p].pc \notin Unasked /\ Explained
  BY <1>0 DEF ModeInv, Unasked
<1>8. ModeInv'
  BY <1>0, <1>1, <1>7, ModeMoves
<1> QED BY <1>3, <1>5, <1>6, <1>8 DEF BreakGlassInv

\* The mint spends the event of its process.
LEMMA KeptByMint ==
    ASSUME BreakGlassInv, NEW p \in Procs, MintAssetGrant(p)
    PROVE  BreakGlassInv'
<1>0. TypeOK /\ WindowFits /\ AuditInv /\ ModeInv
  BY DEF BreakGlassInv
<1> DEFINE x == [loc[p] EXCEPT !.pc = "activate", !.row.asset = minted + 1]
           a == [id |-> minted + 1, until |-> loc[p].row.notAfter,
                 from |-> loc[p].row.notAfter - loc[p].dur]
<1>1. /\ loc[p] \in Local /\ loc[p].row \in Row /\ minted \in Nat
      /\ loc[p].row.notAfter \in Nat /\ loc[p].dur \in Nat
  BY <1>0 DEF TypeOK, Local, Row
<1>2. /\ loc[p].pc = "mint" /\ minted' = minted + 1 /\ assets' = assets \cup {a}
      /\ UNCHANGED <<now, pol, act, req, win, grant, records, live, faults>>
  BY DEF MintAssetGrant, approvalVars
<1>3. loc' = [loc EXCEPT ![p] = x]
  BY <1>0 DEF MintAssetGrant, TypeOK
<1>4. p \in InFlight /\ loc[p].dur <= loc[p].row.notAfter
  BY <1>0, <1>2 DEF InFlight, WindowFits
<1>5. a \in [id: Nat, from: Nat, until: Nat]
  <2>1. loc[p].row.notAfter - loc[p].dur \in Nat /\ minted + 1 \in Nat
    BY <1>1, <1>4
  <2> QED BY <1>1, <2>1
<1>6. /\ x \in Local /\ x.pc = "activate" /\ x.row.mode = loc[p].row.mode
      /\ x.row.status = loc[p].row.status
  <2> DEFINE n == minted + 1
  <2>1. n \in Nat
    BY <1>1
  <2> HIDE DEF n
  <2>2. x = [loc[p] EXCEPT !.pc = "activate", !.row.asset = n]
    BY DEF n
  <2> HIDE DEF x
  <2> QED BY <1>1, <2>1, <2>2 DEF Local, Row, PCs
<1> HIDE DEF x, a
<1>7. /\ loc' \in [Procs -> Local] /\ loc'[p] = x
      /\ \A q \in Procs \ {p} : loc'[q] = loc[q]
  BY <1>0, <1>3, <1>6, Moves
<1>8. TypeOK'
  BY <1>0, <1>1, <1>2, <1>5, <1>7 DEF TypeOK
<1>9. InFlight' = InFlight \ {p}
  BY <1>6, <1>7 DEF InFlight
<1>10. WindowFits'
  BY <1>0, <1>7, <1>9 DEF WindowFits, InFlight
<1>11. IsFiniteSet(InFlight) /\ Cardinality(InFlight) \in Nat
  BY FlightFinite DEF InFlight
<1>12. Cardinality(InFlight') = Cardinality(InFlight) - 1
  BY <1>4, <1>9, <1>11, FS_RemoveElement
<1>13. AuditInv'
  BY <1>0, <1>1, <1>2, <1>11, <1>12 DEF AuditInv, TypeOK
<1>14. loc[p].pc \notin Unasked /\ Explained
  BY <1>0, <1>2 DEF ModeInv, Unasked
<1>15. ModeInv'
  BY <1>0, <1>2, <1>3, <1>6, <1>14, ModeMoves
<1> QED BY <1>8, <1>10, <1>13, <1>15 DEF BreakGlassInv

\* The approval service, the user and the clock.
LEMMA KeptByEnvironment ==
    ASSUME BreakGlassInv, Environment
    PROVE  BreakGlassInv'
<1>0. TypeOK /\ WindowFits /\ AuditInv /\ ModeInv /\ pol \in Policy
  BY BreakGlassAssumption DEF BreakGlassInv, TypeOK
<1>a. ASSUME UNCHANGED <<pol, act, minted, records, loc>>,
             now' \in Nat, win' \in Window, grant' \in Grant, assets' = assets,
             live' \in BOOLEAN, faults' = faults, req' \in ReqStates,
             req' = req \/ (req = "pending" /\ req' # "auto_approved")
      PROVE  BreakGlassInv'
  <2>1. TypeOK'
    BY <1>0, <1>a DEF TypeOK
  <2>2. InFlight' = InFlight
    BY <1>a DEF InFlight
  <2>3. WindowFits' /\ AuditInv'
    BY <1>0, <1>a, <2>2 DEF WindowFits, AuditInv
  <2>4. (Needless => Needless') /\ (Explained => Explained')
    BY <1>a DEF Needless, Explained
  <2>5. req = "absent" => req' = "absent"
    BY <1>a
  <2>6. ModeInv'
    BY <1>0, <1>a, <2>4, <2>5 DEF ModeInv
  <2> QED BY <2>1, <2>3, <2>6 DEF BreakGlassInv
<1> USE DEF approvalVars
<1>b. /\ now \in Nat /\ win \in Window /\ grant \in Grant /\ live \in BOOLEAN
      /\ req \in ReqStates
  BY <1>0 DEF TypeOK
<1>1. ASSUME NEW d \in Overrides, ApproverGrants(d)
      PROVE  BreakGlassInv'
  <2> DEFINE from == IF d > 0 THEN now ELSE win.from
             asked == IF d > 0 THEN now + d ELSE win.until
             cap == pol.templateCap
             until == IF cap > 0 THEN Least(asked, from + cap) ELSE asked
  <2>1. from \in Nat /\ asked \in Nat /\ cap \in Nat
    BY <1>0, <1>b, BreakGlassAssumption DEF Window, Policy
  <2>2. until \in Nat
    BY <2>1 DEF Least
  <2>3. /\ grant' = [status |-> "active", from |-> from, until |-> until]
        /\ UNCHANGED <<now, pol, act, req, win, assets, minted, records, live, loc, faults>>
    BY <1>1 DEF ApproverGrants, Life!Issue
  <2> HIDE DEF from, until
  <2>4. grant' \in Grant
    BY <2>1, <2>2, <2>3 DEF Grant
  <2> QED BY <1>a, <1>b, <2>3, <2>4
<1>2. ASSUME NEW s \in {"approved", "rejected", "cancelled", "expired"}, RequestEnds(s)
      PROVE  BreakGlassInv'
  BY <1>a, <1>b, <1>2 DEF RequestEnds, Life!Finish, ReqStates
<1>3. ASSUME NEW s \in {"expired", "revoked"}, GrantEnds(s)
      PROVE  BreakGlassInv'
  <2>1. grant' \in Grant
    BY <1>b, <1>3 DEF GrantEnds, Grant
  <2> QED BY <1>a, <1>b, <1>3, <2>1 DEF GrantEnds
<1>4. CASE Connect
  BY <1>a, <1>b, <1>4 DEF Connect
<1>5. CASE Tick
  BY <1>a, <1>b, <1>5 DEF Tick
<1> QED BY <1>1, <1>2, <1>3, <1>4, <1>5 DEF Environment

-----------------------------------------------------------------------------
(* The theorems.                                                           *)

\* Every step keeps the parts together.
LEMMA BreakGlassStep == BreakGlassInv /\ [Next]_vars => BreakGlassInv'
<1> SUFFICES ASSUME BreakGlassInv, [Next]_vars PROVE BreakGlassInv'
  OBVIOUS
<1>0. TypeOK
  BY DEF BreakGlassInv
<1>1. ASSUME NEW p \in Handlers, Call(p)
      PROVE  BreakGlassInv'
  BY <1>1, KeptByActivate, KeptByQuiet DEF Call, Procs
<1>2. ASSUME NEW r \in Reconcilers, Sweep(r)
      PROVE  BreakGlassInv'
  BY <1>2, KeptByQuiet DEF Procs
<1>3. ASSUME NEW p \in Procs, Step(p)
      PROVE  BreakGlassInv'
  <2>1. CASE SetGrantWindow(p)
    <3>1. grant' \in Grant
      <4>1. loc[p] \in Local /\ grant \in Grant
        BY <1>0 DEF TypeOK
      <4>2. loc[p].row.notAfter \in Nat /\ loc[p].dur \in Nat
        BY <4>1 DEF Local, Row
      <4>3. loc[p].row.notAfter - loc[p].dur \in Nat
        BY <2>1, <4>2 DEF SetGrantWindow, BreakGlassInv, WindowFits, InFlight
      <4> QED BY <2>1, <4>1, <4>2, <4>3 DEF SetGrantWindow, Grant
    <3> QED BY <1>0, <2>1, <3>1, KeptByWindow DEF SetGrantWindow, TypeOK
  <2> QED BY <1>3, <2>1, KeptByQuiet, KeptByFile, KeptByGrant, KeptByStatus, KeptByReconcile,
             KeptByAudit, KeptByMint DEF Step
<1>4. ASSUME NEW p \in Procs, ErrorIgnored(p) \/ ErrorHandled(p) \/ Crash(p)
      PROVE  BreakGlassInv'
  <2>1. /\ UNCHANGED <<now, pol, act, req, win, grant, assets, minted, records, live>>
        /\ faults' \in Nat
    BY <1>0, <1>4 DEF ErrorIgnored, ErrorHandled, Crash, approvalVars, TypeOK
  <2>2. win' \in Window /\ grant' \in Grant /\ live' \in BOOLEAN
    BY <1>0, <2>1 DEF TypeOK
  <2>3. CASE Quiet(p)
    BY <2>1, <2>2, <2>3, QuietKeeps
  <2>4. CASE loc[p].pc = "window" /\ Goto(p, "mint")
    BY <2>1, <2>2, <2>4, KeptByWindow
  <2> QED BY <1>0, <1>4, <2>3, <2>4, QuietFailures
<1>5. CASE Environment
  BY <1>5, KeptByEnvironment
<1>6. CASE UNCHANGED vars
  <2>1. TypeOK' /\ WindowFits' /\ AuditInv' /\ ModeInv'
    BY <1>6 DEF vars, BreakGlassInv, TypeOK, WindowFits, AuditInv, ModeInv, InFlight,
                Explained, Needless
  <2> QED BY <2>1 DEF BreakGlassInv
<1> QED BY <1>1, <1>2, <1>3, <1>4, <1>5, <1>6 DEF Next

\* They hold at the start.
LEMMA BreakGlassStart == Init => BreakGlassInv
<1> SUFFICES ASSUME Init PROVE BreakGlassInv
  OBVIOUS
<1>1. \A p \in Procs : loc[p] = Idle
  BY DEF Init
<1>2. TypeOK
  BY IdleType DEF Init, TypeOK, ReqStates, Window, Grant
<1>3. InFlight = {}
  BY <1>1, IdleType DEF InFlight
<1>4. WindowFits /\ AuditInv
  BY <1>3, FS_EmptySet DEF WindowFits, AuditInv, Init
<1>5. ModeInv
  BY <1>1, IdleType DEF ModeInv, Init, Unasked
<1> QED BY <1>2, <1>4, <1>5 DEF BreakGlassInv

\* The break-glass service starts well, and stays so.
LEMMA BreakGlassInvariant == Spec => []BreakGlassInv
  BY BreakGlassStart, BreakGlassStep, PTL DEF Spec

\* Every row and every copy of it keeps its shape; no window length or start that
\* the service computes is negative.
THEOREM BreakGlassTypeCorrect == Spec => []TypeOK
<1>1. BreakGlassInv => TypeOK
  BY DEF BreakGlassInv
<1> QED BY <1>1, BreakGlassInvariant, PTL

\* No asset grant without an accepted audit event of its own, however many
\* handlers and instances promote the activation and whatever fails in between.
THEOREM AuditComesFirst == Spec => []AuditGatesAccess
<1>1. BreakGlassInv => AuditGatesAccess
  <2> SUFFICES ASSUME BreakGlassInv PROVE AuditGatesAccess
    OBVIOUS
  <2>1. Cardinality(InFlight) \in Nat /\ minted \in Nat /\ records \in Nat
    BY FlightFinite DEF InFlight, BreakGlassInv, TypeOK
  <2> QED BY <2>1 DEF BreakGlassInv, AuditInv, AuditGatesAccess
<1> QED BY <1>1, BreakGlassInvariant, PTL

\* Access that neither fail-open nor an auto-approving template explains was
\* approved by the approvers of the request.
THEOREM AccessIsApproved == Spec => []AccessNeedsApproval
<1>1. BreakGlassInv => AccessNeedsApproval
  BY DEF BreakGlassInv, ModeInv, AccessNeedsApproval, Explained, Needless
<1> QED BY <1>1, BreakGlassInvariant, PTL

=============================================================================
