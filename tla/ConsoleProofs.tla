--------------------------- MODULE ConsoleProofs ---------------------------
(***************************************************************************)
(* Proofs about the upload queue (DriveTransfers), and what the console as *)
(* a whole inherits from its parts, for every number of files, slots,      *)
(* batches, lapses and clicks.                                             *)
(***************************************************************************)
EXTENDS Console, TabProofs, ListProofs

\* Every file of the panel has one row.
RowsFit ==
    /\ IsInjective(transfers)
    /\ ToSet(transfers) = {f \in Files : fileStatus[f] # "new"}

\* A request is under way exactly while runOne awaits one.
CredFits == \A f \in Files : (cred[f] = "none") = (stage[f] = "none")

\* A queued file has a controller that nobody has aborted.
QueuedIsClean == \A f \in Files : fileStatus[f] = "queued" => ~aborted[f]

DriveInv ==
    DriveTypeOK /\ RowsFit /\ CredFits /\ QueuedIsClean /\ PumpKeepsUp /\ CancelWins

\* The statuses that a reaction leaves before pump starts anything.
After(outcome) ==
    [f \in Files |-> IF f \in DOMAIN outcome THEN outcome[f] ELSE fileStatus[f]]

Uploading(marks) == {f \in Files : marks[f] = "uploading"}

\* What a reaction is called with.
ReactArgs(rows, t, outcome, sent, again) ==
    /\ rows \in Seq(Files) /\ IsInjective(rows)
    /\ t \in {"fresh", "lapsed", "none"}
    /\ DOMAIN outcome \subseteq Files
    /\ \A f \in DOMAIN outcome : outcome[f] \in {"queued", "done", "error", "canceled"}
    /\ ToSet(rows) = {f \in Files : After(outcome)[f] # "new"}
    /\ \A f \in sent : f \in Files /\ f \notin DOMAIN outcome /\ stage[f] = "mkdir"
    /\ \A f \in again : f \in Files /\ f \notin DOMAIN outcome /\ f \notin sent /\ stage[f] # "none"

\* What it does to the files, "picked" being those that pump starts.
Reacted(rows, t, outcome, sent, again, picked) ==
    /\ transfers' = rows /\ token' = t
    /\ fileStatus' = [f \in Files |-> IF f \in picked THEN "uploading" ELSE After(outcome)[f]]
    /\ stage' \in [Files -> {"none", "mkdir", "upload"}]
    /\ cred' \in [Files -> Creds]
    /\ retried' \in [Files -> BOOLEAN]
    /\ ensuredDirs' \subseteq {DirOf[f] : f \in Files}
    /\ \A f \in Files :
        /\ f \in picked => stage'[f] # "none" /\ cred'[f] \in {"good", "bad"}
        /\ f \in sent \ picked => stage'[f] = "upload" /\ cred'[f] \in {"good", "bad"}
        /\ f \in DOMAIN outcome \ picked => stage'[f] = "none" /\ cred'[f] = "none"
        /\ f \in again \ picked => stage'[f] = stage[f] /\ cred'[f] \in {"good", "bad"}
        /\ f \notin picked \cup sent \cup again \cup DOMAIN outcome =>
              stage'[f] = stage[f] /\ cred'[f] = cred[f]

\* pump fills the slots in the order of the panel.
LEMMA PickedFills ==
    ASSUME NEW rows \in Seq(Files), IsInjective(rows), NEW marks \in [Files -> FileStatuses],
           ToSet(rows) = {f \in Files : marks[f] # "new"},
           Cardinality(Uploading(marks)) <= Concurrency
    PROVE  LET P == Picked(rows, marks) IN
             /\ P \subseteq {f \in Files : marks[f] = "queued"} /\ IsFiniteSet(P)
             /\ Cardinality(Uploading(marks)) + Cardinality(P) <= Concurrency
             /\ P # {f \in Files : marks[f] = "queued"} =>
                  Cardinality(Uploading(marks)) + Cardinality(P) = Concurrency
<1> DEFINE gone == {f \in Files : marks[f] # "queued"}
           q == Without(rows, gone)
           free == Concurrency - Cardinality(Uploading(marks))
           P == Picked(rows, marks)
<1>1. Cardinality(Uploading(marks)) \in Nat /\ free \in Nat
  <2>1. IsFiniteSet(Uploading(marks))
    BY DriveAssumption, FS_Subset DEF Uploading
  <2>2. Cardinality(Uploading(marks)) \in Nat
    BY <2>1, FS_CardinalityType
  <2> QED BY <2>2, DriveAssumption
<1>2. q \in Seq(Files) /\ IsInjective(q) /\ ToSet(q) = {f \in Files : marks[f] = "queued"}
  <2>1. ToSet(rows) \ gone = {f \in Files : marks[f] = "queued"}
    OBVIOUS
  <2> HIDE DEF gone
  <2>2. q \in Seq(Files) /\ IsInjective(q) /\ ToSet(q) = ToSet(rows) \ gone
    BY WithoutHolds, WithoutInjective
  <2> QED BY <2>1, <2>2
<1>3. P = {q[i] : i \in {j \in DOMAIN q : j <= free}}
  BY DEF Picked, Uploading
<1> HIDE DEF q, free, P
<1>4. /\ P \subseteq ToSet(q) /\ IsFiniteSet(P) /\ Cardinality(P) <= free
      /\ P # ToSet(q) => Cardinality(P) = free
  BY <1>1, <1>2, <1>3, FirstFew
<1>5. Cardinality(P) \in Nat
  BY <1>4, FS_CardinalityType
<1>6. /\ Cardinality(Uploading(marks)) + Cardinality(P) <= Concurrency
      /\ Cardinality(P) = free => Cardinality(Uploading(marks)) + Cardinality(P) = Concurrency
  BY <1>1, <1>4, <1>5, DriveAssumption DEF free
<1> QED BY <1>2, <1>4, <1>6 DEF P

\* A reaction, taken apart.
LEMMA ReactDoes ==
    ASSUME DriveInv, NEW rows, NEW t, NEW outcome, NEW sent, NEW again,
           ReactArgs(rows, t, outcome, sent, again), React(rows, t, outcome, sent, again)
    PROVE  \E picked \in SUBSET Files :
             /\ picked = IF DOMAIN outcome # {} THEN Picked(rows, After(outcome)) ELSE {}
             /\ \A f \in picked : After(outcome)[f] = "queued"
             /\ Reacted(rows, t, outcome, sent, again, picked)
             /\ (DOMAIN outcome # {} /\ Idle(After(outcome))) => ensuredDirs' = {}
             /\ (DOMAIN outcome = {} /\ sent = {}) => ensuredDirs' = ensuredDirs
<1> DEFINE moved == DOMAIN outcome
           marks == After(outcome)
           made == ensuredDirs \cup {DirOf[f] : f \in {g \in moved \cup sent : stage[g] = "mkdir"}}
           dirs == IF moved # {} /\ Idle(marks) THEN {} ELSE made
           picked == IF moved # {} THEN Picked(rows, marks) ELSE {}
<1>1. /\ transfers' = rows /\ token' = t
      /\ fileStatus' = [f \in Files |-> IF f \in picked THEN "uploading" ELSE marks[f]]
      /\ stage' = [f \in Files |->
            CASE f \in picked -> IF DirOf[f] \in dirs \cup {NoDir} THEN "upload" ELSE "mkdir"
              [] f \in sent -> "upload"
              [] f \in moved \ picked -> "none"
              [] OTHER -> stage[f]]
      /\ cred' = [f \in Files |->
            CASE f \in picked \cup sent \cup again -> IF t = "fresh" THEN "good" ELSE "bad"
              [] f \in moved \ picked -> "none"
              [] OTHER -> cred[f]]
      /\ retried' = [f \in Files |-> f \in again \/ (retried[f] /\ f \notin moved \cup sent)]
      /\ ensuredDirs' = dirs
  BY DEF React, After
<1>2. picked \subseteq {f \in Files : marks[f] = "queued"}
  <2>1. CASE moved = {}
    BY <2>1
  <2>2. CASE moved # {}
    <3>1. marks \in [Files -> FileStatuses]
      BY DEF After, ReactArgs, DriveInv, DriveTypeOK, FileStatuses
    <3>2. Uploading(marks) \subseteq Uploading(fileStatus)
      BY DEF Uploading, After, ReactArgs
    <3>3. /\ IsFiniteSet(Uploading(fileStatus)) /\ IsFiniteSet(Uploading(marks))
          /\ Cardinality(Uploading(marks)) <= Cardinality(Uploading(fileStatus))
      <4>1. Uploading(fileStatus) \subseteq Files
        BY DEF Uploading
      <4>2. IsFiniteSet(Uploading(fileStatus))
        BY <4>1, DriveAssumption, FS_Subset
      <4> QED BY <3>2, <4>2, FS_Subset
    <3>4. Cardinality(Uploading(marks)) <= Concurrency
      <4>1. Cardinality(Uploading(fileStatus)) <= Concurrency
        BY DEF DriveInv, PumpKeepsUp, Uploading
      <4>2. Cardinality(Uploading(fileStatus)) \in Nat /\ Cardinality(Uploading(marks)) \in Nat
        BY <3>3, FS_CardinalityType
      <4> HIDE DEF marks
      <4> QED BY <3>3, <4>1, <4>2, DriveAssumption
    <3>5. Picked(rows, marks) \subseteq {f \in Files : marks[f] = "queued"}
      <4> HIDE DEF marks
      <4> QED BY <3>1, <3>4, PickedFills DEF ReactArgs, marks
    <3> QED BY <2>2, <3>5
  <2> QED BY <2>1, <2>2
<1>3. dirs \subseteq {DirOf[f] : f \in Files}
  <2>1. moved \cup sent \subseteq Files
    BY DEF ReactArgs
  <2>2. made \subseteq {DirOf[f] : f \in Files}
    <3> HIDE DEF moved
    <3> QED BY <2>1 DEF DriveInv, DriveTypeOK
  <2> HIDE DEF made
  <2> QED BY <2>2
<1>4. (moved = {} /\ sent = {}) => dirs = ensuredDirs
  OBVIOUS
<1>5. moved \cap sent = {} /\ moved \cap again = {} /\ sent \cap again = {}
  BY DEF ReactArgs
<1>6. /\ stage \in [Files -> {"none", "mkdir", "upload"}] /\ cred \in [Files -> Creds]
      /\ retried \in [Files -> BOOLEAN]
  BY DEF DriveInv, DriveTypeOK
<1>7. Reacted(rows, t, outcome, sent, again, picked)
  <2> HIDE DEF moved, marks, made, dirs, picked
  <2>1. stage' \in [Files -> {"none", "mkdir", "upload"}] /\ cred' \in [Files -> Creds]
    BY <1>1, <1>6 DEF Creds
  <2>2. retried' \in [Files -> BOOLEAN]
    BY <1>1, <1>6
  <2>3. ASSUME NEW f \in Files
        PROVE  /\ f \in picked => stage'[f] # "none" /\ cred'[f] \in {"good", "bad"}
               /\ f \in sent \ picked => stage'[f] = "upload" /\ cred'[f] \in {"good", "bad"}
               /\ f \in moved \ picked => stage'[f] = "none" /\ cred'[f] = "none"
               /\ f \in again \ picked => stage'[f] = stage[f] /\ cred'[f] \in {"good", "bad"}
               /\ f \notin picked \cup sent \cup again \cup moved =>
                     stage'[f] = stage[f] /\ cred'[f] = cred[f]
    BY <1>1, <1>5
  <2> QED BY <1>1, <1>3, <2>1, <2>2, <2>3 DEF Reacted, moved, marks
<1> QED BY <1>1, <1>2, <1>4, <1>7

\* Reacting keeps the shapes, the rows and the promise of the pump.
LEMMA ReactKeeps ==
    ASSUME DriveInv, NEW rows, NEW t, NEW outcome, NEW sent, NEW again,
           ReactArgs(rows, t, outcome, sent, again), React(rows, t, outcome, sent, again)
    PROVE  /\ transfers' \in Seq(Files) /\ fileStatus' \in [Files -> FileStatuses]
           /\ stage' \in [Files -> {"none", "mkdir", "upload"}] /\ cred' \in [Files -> Creds]
           /\ retried' \in [Files -> BOOLEAN] /\ ensuredDirs' \subseteq {DirOf[f] : f \in Files}
           /\ token' \in {"fresh", "lapsed", "none"}
           /\ \A f \in Files : (stage'[f] # "none") = (fileStatus'[f] = "uploading")
           /\ RowsFit' /\ CredFits' /\ PumpKeepsUp'
<1> USE DEF DriveInv
<1>1. PICK picked \in SUBSET Files :
             /\ picked = IF DOMAIN outcome # {} THEN Picked(rows, After(outcome)) ELSE {}
             /\ \A f \in picked : After(outcome)[f] = "queued"
             /\ Reacted(rows, t, outcome, sent, again, picked)
             /\ (DOMAIN outcome # {} /\ Idle(After(outcome))) => ensuredDirs' = {}
             /\ (DOMAIN outcome = {} /\ sent = {}) => ensuredDirs' = ensuredDirs
  BY ReactDoes
<1> DEFINE marks == After(outcome)
<1>2. /\ marks \in [Files -> FileStatuses]
      /\ \A f \in Files : f \in DOMAIN outcome => marks[f] = outcome[f] /\ marks[f] # "uploading"
      /\ \A f \in Files : f \notin DOMAIN outcome => marks[f] = fileStatus[f]
  BY DEF After, ReactArgs, DriveTypeOK, FileStatuses
<1>3. /\ \A f \in Files : fileStatus'[f] = IF f \in picked THEN "uploading" ELSE marks[f]
      /\ fileStatus' \in [Files -> FileStatuses]
  <2>1. fileStatus' = [f \in Files |-> IF f \in picked THEN "uploading" ELSE marks[f]]
    BY <1>1 DEF Reacted
  <2> HIDE DEF marks
  <2> QED BY <1>2, <2>1 DEF FileStatuses
<1>4. \A f \in picked : marks[f] = "queued"
  BY <1>1
<1>5. ToSet(rows) = {f \in Files : marks[f] # "new"} /\ IsInjective(rows) /\ rows \in Seq(Files)
  BY DEF ReactArgs
<1> HIDE DEF marks
<1>6. RowsFit'
  <2>1. {f \in Files : fileStatus'[f] # "new"} = {f \in Files : marks[f] # "new"}
    BY <1>3, <1>4
  <2>2. transfers' = rows
    BY <1>1 DEF Reacted
  <2> QED BY <1>5, <2>1, <2>2 DEF RowsFit
<1>7. ASSUME NEW f \in Files
      PROVE  /\ (stage'[f] # "none") = (fileStatus'[f] = "uploading")
             /\ (cred'[f] = "none") = (stage'[f] = "none")
  <2>0. /\ (stage[f] # "none") = (fileStatus[f] = "uploading")
        /\ (cred[f] = "none") = (stage[f] = "none")
    BY DEF DriveTypeOK, CredFits
  <2>1. CASE f \in picked
    BY <1>1, <1>3, <2>1 DEF Reacted
  <2>2. CASE f \notin picked /\ f \in DOMAIN outcome
    BY <1>1, <1>2, <1>3, <2>2 DEF Reacted
  <2>3. CASE f \notin picked /\ f \in sent
    BY <1>1, <1>2, <1>3, <2>0, <2>3 DEF Reacted, ReactArgs
  <2>4. CASE f \notin picked /\ f \in again
    BY <1>1, <1>2, <1>3, <2>0, <2>4 DEF Reacted, ReactArgs
  <2>5. CASE f \notin picked \cup sent \cup again \cup DOMAIN outcome
    BY <1>1, <1>2, <1>3, <2>0, <2>5 DEF Reacted
  <2> QED BY <2>1, <2>2, <2>3, <2>4, <2>5
<1>8. CASE DOMAIN outcome = {}
  <2>1. picked = {} /\ \A f \in Files : marks[f] = fileStatus[f]
    BY <1>1, <1>2, <1>8
  <2>2. fileStatus' = fileStatus
    BY <1>3, <2>1 DEF DriveTypeOK
  <2>3. Idle(fileStatus) => sent = {}
    BY DEF Idle, Active, ReactArgs, DriveTypeOK
  <2>4. Idle(fileStatus) => ensuredDirs' = {}
    BY <1>1, <1>8, <2>3 DEF PumpKeepsUp
  <2>5. PumpKeepsUp'
    BY <2>2, <2>4 DEF PumpKeepsUp, Idle
  <2> QED BY <1>1, <1>3, <1>5, <1>6, <1>7, <2>5 DEF Reacted, ReactArgs, CredFits
<1>9. CASE DOMAIN outcome # {}
  <2>1. picked = Picked(rows, marks)
    BY <1>1, <1>9 DEF marks
  <2>2. Uploading(fileStatus) \subseteq Files /\ Uploading(marks) \subseteq Uploading(fileStatus)
    BY <1>2 DEF Uploading
  <2>3. /\ IsFiniteSet(Uploading(fileStatus)) /\ IsFiniteSet(Uploading(marks))
        /\ Cardinality(Uploading(marks)) <= Cardinality(Uploading(fileStatus))
    <3>1. IsFiniteSet(Uploading(fileStatus))
      BY <2>2, DriveAssumption, FS_Subset
    <3> QED BY <2>2, <3>1, FS_Subset
  <2>4. Cardinality(Uploading(fileStatus)) \in Nat /\ Cardinality(Uploading(marks)) \in Nat
    BY <2>3, FS_CardinalityType
  <2>5. Cardinality(Uploading(marks)) <= Concurrency
    <3>1. Cardinality(Uploading(fileStatus)) <= Concurrency
      BY DEF PumpKeepsUp, Uploading
    <3> QED BY <2>3, <2>4, <3>1, DriveAssumption
  <2>6. /\ picked \subseteq {f \in Files : marks[f] = "queued"} /\ IsFiniteSet(picked)
        /\ Cardinality(Uploading(marks)) + Cardinality(picked) <= Concurrency
        /\ picked # {f \in Files : marks[f] = "queued"} =>
              Cardinality(Uploading(marks)) + Cardinality(picked) = Concurrency
    BY <1>2, <1>5, <2>1, <2>5, PickedFills
  <2>7. /\ Uploading(fileStatus') = Uploading(marks) \cup picked
        /\ Uploading(marks) \cap picked = {}
    BY <1>3, <1>4 DEF Uploading
  <2>8. Cardinality(Uploading(fileStatus')) = Cardinality(Uploading(marks)) + Cardinality(picked)
    <3>1. Cardinality(Uploading(marks) \cup picked)
            = Cardinality(Uploading(marks)) + Cardinality(picked) - Cardinality(Uploading(marks) \cap picked)
      BY <2>3, <2>6, FS_Union
    <3>2. Cardinality(Uploading(marks) \cap picked) = 0
      BY <2>7, FS_EmptySet
    <3>3. Cardinality(picked) \in Nat
      BY <2>6, FS_CardinalityType
    <3> QED BY <2>4, <2>7, <3>1, <3>2, <3>3
  <2>9. (\E f \in Files : fileStatus'[f] = "queued") => picked # {f \in Files : marks[f] = "queued"}
    BY <1>3
  <2>10. Idle(fileStatus') => ensuredDirs' = {}
    <3>1. Idle(fileStatus') => Idle(marks)
      BY <1>3 DEF Idle, Active
    <3> QED BY <1>1, <1>9, <3>1 DEF marks
  <2>11. PumpKeepsUp'
    BY <2>6, <2>8, <2>9, <2>10 DEF PumpKeepsUp, Uploading
  <2> QED BY <1>1, <1>3, <1>5, <1>6, <1>7, <2>11 DEF Reacted, ReactArgs, CredFits
<1> QED BY <1>8, <1>9

\* Reacting keeps the promises to a user who cancels, if it is called for no
\* aborted file but to end it or to ask for its directory once more.
LEMMA ReactCancels ==
    ASSUME DriveInv, NEW rows, NEW t, NEW outcome, NEW sent, NEW again,
           ReactArgs(rows, t, outcome, sent, again), React(rows, t, outcome, sent, again),
           \A f \in Files : aborted'[f] =>
             /\ f \notin sent
             /\ f \in DOMAIN outcome => outcome[f] \notin {"queued", "done"}
             /\ f \notin DOMAIN outcome =>
                  /\ fileStatus[f] \notin {"queued", "done"}
                  /\ stage[f] = "upload" => cred[f] = "refresh" /\ f \notin again
    PROVE  QueuedIsClean' /\ CancelWins'
<1>1. PICK picked \in SUBSET Files :
             /\ \A f \in picked : After(outcome)[f] = "queued"
             /\ Reacted(rows, t, outcome, sent, again, picked)
  BY ReactDoes
<1>2. ASSUME NEW f \in Files, aborted'[f]
      PROVE  fileStatus'[f] \notin {"queued", "done"} /\ (stage'[f] = "upload" => cred'[f] = "refresh")
  <2>1. After(outcome)[f] \notin {"queued", "done"} /\ f \notin sent
    BY <1>2 DEF After
  <2>2. f \notin picked
    BY <1>1, <2>1
  <2>3. fileStatus'[f] = After(outcome)[f]
    BY <1>1, <2>2 DEF Reacted
  <2>4. stage'[f] = "upload" => cred'[f] = "refresh"
    <3>1. CASE f \in DOMAIN outcome
      BY <1>1, <2>2, <3>1 DEF Reacted
    <3>2. CASE f \notin DOMAIN outcome /\ f \in again
      BY <1>1, <1>2, <2>2, <3>2 DEF Reacted
    <3>3. CASE f \notin DOMAIN outcome /\ f \notin again
      BY <1>1, <1>2, <2>1, <2>2, <3>3 DEF Reacted
    <3> QED BY <3>1, <3>2, <3>3
  <2> QED BY <2>1, <2>3, <2>4
<1> QED BY <1>2 DEF QueuedIsClean, CancelWins

\* The facts above, put together for an action that reacts.
LEMMA ReactStep ==
    ASSUME DriveInv, NEW rows, NEW t, NEW outcome, NEW sent, NEW again,
           ReactArgs(rows, t, outcome, sent, again), React(rows, t, outcome, sent, again),
           \A f \in Files : aborted'[f] =>
             /\ f \notin sent
             /\ f \in DOMAIN outcome => outcome[f] \notin {"queued", "done"}
             /\ f \notin DOMAIN outcome =>
                  /\ fileStatus[f] \notin {"queued", "done"}
                  /\ stage[f] = "upload" => cred[f] = "refresh" /\ f \notin again,
           aborted' \in [Files -> BOOLEAN], page' \in {"here", "leaving", "left"},
           lapses' \in 0..MaxLapses, driveClicks' \in 0..MaxDriveClicks
    PROVE  DriveInv'
<1>1. QueuedIsClean' /\ CancelWins'
  BY ReactCancels
<1>2. DriveTypeOK' /\ RowsFit' /\ CredFits' /\ PumpKeepsUp'
  BY ReactKeeps DEF DriveTypeOK
<1> QED BY <1>1, <1>2 DEF DriveInv

\* The arguments of a reaction that adds no rows.
LEMMA ArgsHold ==
    ASSUME DriveInv, NEW t \in {"fresh", "lapsed", "none"}, NEW outcome, NEW sent, NEW again,
           DOMAIN outcome \subseteq Files,
           \A f \in DOMAIN outcome : /\ outcome[f] \in {"queued", "done", "error", "canceled"}
                                     /\ fileStatus[f] # "new",
           \A f \in sent : f \in Files /\ f \notin DOMAIN outcome /\ stage[f] = "mkdir",
           \A f \in again : f \in Files /\ f \notin DOMAIN outcome /\ f \notin sent /\ stage[f] # "none"
    PROVE  ReactArgs(transfers, t, outcome, sent, again)
<1>1. {f \in Files : fileStatus[f] # "new"} = {f \in Files : After(outcome)[f] # "new"}
  BY DEF After
<1> QED BY <1>1 DEF ReactArgs, DriveInv, DriveTypeOK, RowsFit

\* What is known of an aborted file.
LEMMA AbortedFile ==
    ASSUME DriveInv, NEW f \in Files, aborted[f]
    PROVE  fileStatus[f] \notin {"queued", "done"} /\ (stage[f] = "upload" => cred[f] = "refresh")
  BY DEF DriveInv, QueuedIsClean, CancelWins

\* A request ends.
LEMMA OverStep ==
    ASSUME DriveInv, NEW f \in Files, NEW how \in {"done", "error"},
           NEW t \in {"fresh", "lapsed", "none"}, cred[f] \in {"good", "old", "bad"},
           Over(f, how, t), UNCHANGED <<aborted, lapses, driveClicks>>,
           page' \in {"here", "leaving", "left"}
    PROVE  DriveInv'
<1>0. /\ stage[f] \in {"mkdir", "upload"} /\ fileStatus[f] # "new"
      /\ aborted' \in [Files -> BOOLEAN] /\ lapses' \in 0..MaxLapses
      /\ driveClicks' \in 0..MaxDriveClicks
  BY DEF DriveInv, DriveTypeOK, CredFits
<1>1. CASE stage[f] = "mkdir" /\ ~aborted[f]
  <2>1. DOMAIN Nobody = {}
    BY DEF Nobody
  <2>2. React(transfers, t, Nobody, {f}, {})
    BY <1>1 DEF Over
  <2>3. ReactArgs(transfers, t, Nobody, {f}, {})
    BY <1>1, <2>1, ArgsHold
  <2>4. \A g \in Files : aborted'[g] =>
             /\ g \notin {f}
             /\ g \notin DOMAIN Nobody
             /\ fileStatus[g] \notin {"queued", "done"}
             /\ stage[g] = "upload" => cred[g] = "refresh" /\ g \notin {}
    BY <1>1, <2>1, AbortedFile
  <2> QED BY <1>0, <2>2, <2>3, <2>4, ReactStep
<1>2. CASE ~(stage[f] = "mkdir" /\ ~aborted[f])
  <2> DEFINE outcome == [g \in {f} |-> IF stage[f] = "mkdir" THEN "canceled" ELSE how]
  <2>1. DOMAIN outcome = {f} /\ outcome[f] = IF stage[f] = "mkdir" THEN "canceled" ELSE how
    OBVIOUS
  <2>2. React(transfers, t, outcome, {}, {})
    BY <1>2 DEF Over
  <2> HIDE DEF outcome
  <2>3. ReactArgs(transfers, t, outcome, {}, {})
    BY <1>0, <2>1, ArgsHold
  <2>4. aborted[f] => stage[f] = "mkdir"
    BY <1>0, AbortedFile
  <2>5. \A g \in Files : aborted'[g] =>
             /\ g \notin {}
             /\ g \in DOMAIN outcome => outcome[g] \notin {"queued", "done"}
             /\ g \notin DOMAIN outcome =>
                  /\ fileStatus[g] \notin {"queued", "done"}
                  /\ stage[g] = "upload" => cred[g] = "refresh" /\ g \notin {}
    BY <2>1, <2>4, AbortedFile
  <2> QED BY <1>0, <2>2, <2>3, <2>5, ReactStep
<1> QED BY <1>1, <1>2

\* The shared refresh ends, well or badly.
LEMMA RefreshStep ==
    ASSUME DriveInv, Refresh
    PROVE  DriveInv'
<1>0. /\ aborted' \in [Files -> BOOLEAN] /\ lapses' \in 0..MaxLapses
      /\ driveClicks' \in 0..MaxDriveClicks /\ page' \in {"here", "leaving", "left"}
      /\ aborted' = aborted
  BY DEF Refresh, RefreshSucceeds, RefreshFails, DriveInv, DriveTypeOK
<1>w. \A f \in Files : stage[f] # "none" => fileStatus[f] # "new"
  BY DEF DriveInv, DriveTypeOK
<1>1. CASE RefreshSucceeds
  <2> DEFINE outcome == [f \in Dropped |-> "canceled"]
             again == Waiting("mkdir") \cup (Waiting("upload") \ Dropped)
  <2>1. /\ DOMAIN outcome = Dropped /\ \A f \in Dropped : outcome[f] = "canceled"
        /\ Dropped = {f \in Files : cred[f] = "refresh" /\ stage[f] = "upload" /\ aborted[f]}
    BY DEF Dropped, Waiting
  <2>2. /\ \A f \in again : f \in Files /\ f \notin Dropped /\ stage[f] # "none"
        /\ \A f \in again : aborted[f] => stage[f] = "mkdir"
    BY DEF Dropped, Waiting
  <2>3. React(transfers, "fresh", outcome, {}, again)
    BY <1>1 DEF RefreshSucceeds
  <2> HIDE DEF outcome, again
  <2>4. ReactArgs(transfers, "fresh", outcome, {}, again)
    BY <1>w, <2>1, <2>2, ArgsHold
  <2>5. \A g \in Files : aborted'[g] =>
             /\ g \notin {}
             /\ g \in DOMAIN outcome => outcome[g] \notin {"queued", "done"}
             /\ g \notin DOMAIN outcome =>
                  /\ fileStatus[g] \notin {"queued", "done"}
                  /\ stage[g] = "upload" => cred[g] = "refresh" /\ g \notin again
    BY <1>0, <2>1, <2>2, AbortedFile
  <2> QED BY <1>0, <2>3, <2>4, <2>5, ReactStep
<1>2. CASE RefreshFails
  <2> DEFINE stopped == {f \in Waiting("mkdir") : aborted[f]}
             outcome == [f \in stopped \cup Waiting("upload") |->
                            IF f \in stopped THEN "canceled" ELSE "error"]
             sent == Waiting("mkdir") \ stopped
  <2>1. /\ DOMAIN outcome = stopped \cup Waiting("upload")
        /\ \A f \in DOMAIN outcome : outcome[f] \in {"canceled", "error"}
    OBVIOUS
  <2>2. /\ \A f \in DOMAIN outcome : f \in Files /\ stage[f] # "none"
        /\ \A f \in sent : f \in Files /\ f \notin DOMAIN outcome /\ stage[f] = "mkdir" /\ ~aborted[f]
    BY DEF Waiting
  <2>3. React(transfers, "none", outcome, sent, {})
    BY <1>2 DEF RefreshFails
  <2> HIDE DEF stopped, outcome, sent
  <2>4. ReactArgs(transfers, "none", outcome, sent, {})
    BY <1>w, <2>1, <2>2, ArgsHold
  <2>5. \A g \in Files : aborted'[g] =>
             /\ g \notin sent
             /\ g \in DOMAIN outcome => outcome[g] \notin {"queued", "done"}
             /\ g \notin DOMAIN outcome =>
                  /\ fileStatus[g] \notin {"queued", "done"}
                  /\ stage[g] = "upload" => cred[g] = "refresh" /\ g \notin {}
    BY <1>0, <2>1, <2>2, AbortedFile
  <2> QED BY <1>0, <2>3, <2>4, <2>5, ReactStep
<1> QED BY <1>1, <1>2 DEF Refresh

\* A batch is dropped on the panel.
LEMMA EnqueueStep ==
    ASSUME DriveInv, NEW batch \in Batches, enqueue(batch)
    PROVE  DriveInv'
<1>0. /\ lapses' \in 0..MaxLapses /\ page' \in {"here", "leaving", "left"}
      /\ driveClicks' \in 0..MaxDriveClicks /\ token \in {"fresh", "lapsed", "none"}
      /\ aborted' \in [Files -> BOOLEAN]
  <2>1. driveClicks' \in 0..MaxDriveClicks
    BY DriveAssumption, CountUp DEF enqueue, DriveClick, DriveInv, DriveTypeOK
  <2> QED BY <2>1 DEF enqueue, DriveClick, DriveInv, DriveTypeOK
<1> DEFINE added == ToSet(batch)
           outcome == [f \in added |-> "queued"]
<1>1. batch \in Seq(Files) /\ IsInjective(batch)
  BY DriveAssumption
<1>2. added \subseteq Files /\ \A f \in added : fileStatus[f] = "new"
  BY <1>1 DEF enqueue, ToSet
<1>3. /\ transfers \in Seq(Files) /\ IsInjective(transfers)
      /\ ToSet(transfers) = {f \in Files : fileStatus[f] # "new"}
  BY DEF DriveInv, DriveTypeOK, RowsFit
<1>4. /\ transfers \o batch \in Seq(Files) /\ IsInjective(transfers \o batch)
      /\ ToSet(transfers \o batch) = ToSet(transfers) \cup added
  BY <1>1, <1>2, <1>3, ConcatApart
<1>5. /\ React(transfers \o batch, token, outcome, {}, {})
      /\ \A f \in Files : aborted'[f] => f \notin added /\ aborted[f]
  BY DEF enqueue
<1>6. DOMAIN outcome = added /\ \A f \in added : outcome[f] = "queued"
  OBVIOUS
<1> HIDE DEF added, outcome
<1>7. ToSet(transfers \o batch) = {f \in Files : After(outcome)[f] # "new"}
  BY <1>2, <1>3, <1>4, <1>6 DEF After
<1>8. ReactArgs(transfers \o batch, token, outcome, {}, {})
  BY <1>0, <1>2, <1>4, <1>6, <1>7 DEF ReactArgs
<1>9. \A g \in Files : aborted'[g] =>
           /\ g \notin {}
           /\ g \in DOMAIN outcome => outcome[g] \notin {"queued", "done"}
           /\ g \notin DOMAIN outcome =>
                /\ fileStatus[g] \notin {"queued", "done"}
                /\ stage[g] = "upload" => cred[g] = "refresh" /\ g \notin {}
  BY <1>5, <1>6, AbortedFile
<1> QED BY <1>0, <1>5, <1>8, <1>9, ReactStep

\* Rows are cancelled.
LEMMA CancelsStep ==
    ASSUME DriveInv, NEW fs \in SUBSET Files, Cancels(fs)
    PROVE  DriveInv'
<1>0. /\ lapses' \in 0..MaxLapses /\ page' \in {"here", "leaving", "left"}
      /\ driveClicks' \in 0..MaxDriveClicks /\ token \in {"fresh", "lapsed", "none"}
      /\ aborted' \in [Files -> BOOLEAN]
  <2>1. driveClicks' \in 0..MaxDriveClicks
    BY DriveAssumption, CountUp DEF Cancels, DriveClick, DriveInv, DriveTypeOK
  <2>2. aborted' \in [Files -> BOOLEAN]
    BY DEF Cancels, DriveInv, DriveTypeOK
  <2> QED BY <2>1, <2>2 DEF Cancels, DriveClick, DriveInv, DriveTypeOK
<1> DEFINE ended == {g \in fs : fileStatus[g] = "queued" \/ Stops(g)}
           outcome == [f \in ended |-> "canceled"]
<1>1. React(transfers, token, outcome, {}, {})
  BY DEF Cancels
<1>2. \A f \in Files : aborted'[f] => aborted[f] \/ (f \in fs /\ fileStatus[f] = "uploading")
  BY DEF Cancels
<1>3. /\ ended \subseteq Files /\ \A f \in ended : fileStatus[f] # "new"
      /\ \A f \in fs \ ended : stage[f] = "upload" => cred[f] = "refresh"
  BY DEF Stops, DriveInv, DriveTypeOK
<1>4. DOMAIN outcome = ended /\ \A f \in ended : outcome[f] = "canceled"
  OBVIOUS
<1> HIDE DEF ended, outcome
<1>5. ReactArgs(transfers, token, outcome, {}, {})
  BY <1>0, <1>3, <1>4, ArgsHold
<1>6. \A g \in Files : aborted'[g] =>
           /\ g \notin {}
           /\ g \in DOMAIN outcome => outcome[g] \notin {"queued", "done"}
           /\ g \notin DOMAIN outcome =>
                /\ fileStatus[g] \notin {"queued", "done"}
                /\ stage[g] = "upload" => cred[g] = "refresh" /\ g \notin {}
  BY <1>2, <1>3, <1>4, AbortedFile
<1> QED BY <1>0, <1>1, <1>5, <1>6, ReactStep

\* Rows that failed are queued again.
LEMMA RetriesStep ==
    ASSUME DriveInv, NEW fs \in SUBSET Files, Retries(fs), \A f \in fs : fileStatus[f] = "error"
    PROVE  DriveInv'
<1>0. /\ lapses' \in 0..MaxLapses /\ page' \in {"here", "leaving", "left"}
      /\ driveClicks' \in 0..MaxDriveClicks /\ token \in {"fresh", "lapsed", "none"}
      /\ aborted' \in [Files -> BOOLEAN]
  <2>1. driveClicks' \in 0..MaxDriveClicks
    BY DriveAssumption, CountUp DEF Retries, DriveClick, DriveInv, DriveTypeOK
  <2>2. aborted' \in [Files -> BOOLEAN]
    BY DEF Retries, DriveInv, DriveTypeOK
  <2> QED BY <2>1, <2>2 DEF Retries, DriveClick, DriveInv, DriveTypeOK
<1> DEFINE outcome == [f \in fs |-> "queued"]
<1>1. /\ React(transfers, token, outcome, {}, {})
      /\ \A f \in Files : aborted'[f] => f \notin fs /\ aborted[f]
  BY DEF Retries
<1>2. DOMAIN outcome = fs /\ \A f \in fs : outcome[f] = "queued"
  OBVIOUS
<1> HIDE DEF outcome
<1>3. ReactArgs(transfers, token, outcome, {}, {})
  BY <1>0, <1>2, ArgsHold
<1>4. \A g \in Files : aborted'[g] =>
           /\ g \notin {}
           /\ g \in DOMAIN outcome => outcome[g] \notin {"queued", "done"}
           /\ g \notin DOMAIN outcome =>
                /\ fileStatus[g] \notin {"queued", "done"}
                /\ stage[g] = "upload" => cred[g] = "refresh" /\ g \notin {}
  BY <1>1, <1>2, AbortedFile
<1> QED BY <1>0, <1>1, <1>3, <1>4, ReactStep

\* The rows that are over are cleared.
LEMMA ClearStep ==
    ASSUME DriveInv, clearFinished
    PROVE  DriveInv'
<1> USE DEF DriveInv
<1> DEFINE kept == {f \in Files : fileStatus[f] \in Active}
<1>1. /\ transfers' = Without(transfers, Files \ kept)
      /\ fileStatus' = [f \in Files |-> IF f \in kept THEN fileStatus[f] ELSE "new"]
      /\ aborted' = [f \in Files |-> f \in kept /\ aborted[f]]
      /\ UNCHANGED <<stage, cred, retried, ensuredDirs, token, page, lapses>>
  BY DEF clearFinished, DriveClick
<1>2. driveClicks' \in 0..MaxDriveClicks
  BY DriveAssumption, CountUp DEF clearFinished, DriveClick, DriveTypeOK
<1>3. /\ transfers' \in Seq(Files) /\ IsInjective(transfers')
      /\ ToSet(transfers') = ToSet(transfers) \ (Files \ kept)
  <2> HIDE DEF kept
  <2> QED BY <1>1, WithoutHolds, WithoutInjective DEF DriveTypeOK, RowsFit
<1>4. /\ \A f \in Files : fileStatus'[f] \in Active \cup {"new"}
      /\ \A f \in Files : fileStatus[f] \in Active => fileStatus'[f] = fileStatus[f]
      /\ \A f \in Files : fileStatus[f] \notin Active => fileStatus'[f] = "new"
      /\ \A f \in Files : aborted'[f] => aborted[f] /\ fileStatus[f] \in Active
  BY <1>1
<1>5. RowsFit'
  <2>1. ToSet(transfers) \ (Files \ kept) = {f \in Files : fileStatus'[f] # "new"}
    BY <1>4 DEF RowsFit, Active
  <2> QED BY <1>3, <2>1 DEF RowsFit
<1>6. DriveTypeOK'
  <2>1. fileStatus' \in [Files -> FileStatuses] /\ aborted' \in [Files -> BOOLEAN]
    BY <1>1 DEF DriveTypeOK, FileStatuses
  <2>2. \A f \in Files : (stage'[f] # "none") = (fileStatus'[f] = "uploading")
    BY <1>1, <1>4 DEF DriveTypeOK, Active
  <2> QED BY <1>1, <1>2, <1>3, <2>1, <2>2 DEF DriveTypeOK
<1>7. CredFits' /\ QueuedIsClean' /\ CancelWins'
  BY <1>1, <1>4 DEF CredFits, QueuedIsClean, CancelWins, Active
<1>8. PumpKeepsUp'
  <2>1. {f \in Files : fileStatus'[f] = "uploading"} = {f \in Files : fileStatus[f] = "uploading"}
    BY <1>4 DEF Active
  <2>2. \A f \in Files : fileStatus'[f] = "queued" => fileStatus[f] = "queued"
    BY <1>4 DEF Active
  <2>3. Idle(fileStatus') => Idle(fileStatus)
    BY <1>4 DEF Idle
  <2> QED BY <1>1, <2>1, <2>2, <2>3 DEF PumpKeepsUp
<1> QED BY <1>5, <1>6, <1>7, <1>8

\* Every step of the upload queue keeps what it promises.
LEMMA DriveStep ==
    ASSUME DriveInv, [DriveNext]_driveVars
    PROVE  DriveInv'
<1>t. token \in {"fresh", "lapsed", "none"} /\ page \in {"here", "leaving", "left"}
  BY DEF DriveInv, DriveTypeOK
<1>1. ASSUME NEW f \in Files, NEW how \in {"done", "error"}, Answered(f, how)
      PROVE  DriveInv'
  BY <1>1, <1>t, OverStep DEF Answered
<1>2. ASSUME NEW f \in Files, Unauthorized(f)
      PROVE  DriveInv'
  BY <1>2, OverStep DEF Unauthorized
<1>3. ASSUME NEW f \in Files, WaitsForRefresh(f)
      PROVE  DriveInv'
  <2>1. /\ cred' = [cred EXCEPT ![f] = "refresh"] /\ cred[f] # "none"
        /\ UNCHANGED <<transfers, fileStatus, stage, retried, aborted, ensuredDirs, token, page,
                       lapses, driveClicks>>
    BY <1>3 DEF WaitsForRefresh
  <2>2. DriveTypeOK'
    BY <2>1 DEF DriveInv, DriveTypeOK, Creds
  <2>3. CredFits' /\ QueuedIsClean' /\ CancelWins'
    BY <2>1 DEF DriveInv, DriveTypeOK, CredFits, QueuedIsClean, CancelWins
  <2> QED BY <2>1, <2>2, <2>3 DEF DriveInv, RowsFit, PumpKeepsUp, Idle
<1>4. CASE TokenLapses
  <2>1. /\ cred' = [f \in Files |-> IF cred[f] = "good" THEN "old" ELSE cred[f]]
        /\ token' = "lapsed"
        /\ UNCHANGED <<transfers, fileStatus, stage, retried, aborted, ensuredDirs, page,
                       driveClicks>>
    BY <1>4 DEF TokenLapses
  <2>2. lapses' \in 0..MaxLapses
    BY <1>4, DriveAssumption, CountUp DEF TokenLapses, DriveInv, DriveTypeOK
  <2>3. DriveTypeOK'
    BY <2>1, <2>2 DEF DriveInv, DriveTypeOK, Creds
  <2>4. CredFits' /\ QueuedIsClean' /\ CancelWins'
    BY <2>1 DEF DriveInv, CredFits, QueuedIsClean, CancelWins
  <2> QED BY <2>1, <2>3, <2>4 DEF DriveInv, RowsFit, PumpKeepsUp, Idle
<1>5. CASE PageUnloads \/ UNCHANGED driveVars
  <2>1. /\ page' \in {"here", "leaving", "left"}
        /\ UNCHANGED <<transfers, fileStatus, stage, cred, retried, aborted, ensuredDirs, token,
                       lapses, driveClicks>>
    BY <1>5, <1>t DEF PageUnloads, driveVars
  <2>2. DriveTypeOK'
    BY <2>1 DEF DriveInv, DriveTypeOK
  <2>3. CredFits' /\ QueuedIsClean' /\ CancelWins'
    BY <2>1 DEF DriveInv, CredFits, QueuedIsClean, CancelWins
  <2> QED BY <2>1, <2>2, <2>3 DEF DriveInv, RowsFit, PumpKeepsUp, Idle
<1>6. CASE cancelAll
  BY <1>6, CancelsStep DEF cancelAll
<1>7. CASE retryFailed
  BY <1>7, RetriesStep DEF retryFailed
<1>8. ASSUME NEW f \in Files, cancel(f) \/ retry(f)
      PROVE  DriveInv'
  BY <1>8, CancelsStep, RetriesStep DEF cancel, retry
<1> QED BY <1>1, <1>2, <1>3, <1>4, <1>5, <1>6, <1>7, <1>8, EnqueueStep, RefreshStep, ClearStep
           DEF DriveNext, Requests, Answers401

\* An empty panel keeps every promise.
LEMMA DriveStarts == DriveInit => DriveInv
<1> SUFFICES ASSUME DriveInit PROVE DriveInv
  OBVIOUS
<1>1. transfers = <<>> /\ ToSet(transfers) = {} /\ IsInjective(transfers) /\ transfers \in Seq(Files)
  BY DEF DriveInit, ToSet, IsInjective
<1>2. DriveTypeOK
  <2>1. 0 \in 0..MaxLapses /\ 0 \in 0..MaxDriveClicks
    BY DriveAssumption
  <2> QED BY <1>1, <2>1 DEF DriveInit, DriveTypeOK, FileStatuses, Creds
<1>3. RowsFit /\ CredFits /\ QueuedIsClean /\ CancelWins
  BY <1>1 DEF DriveInit, RowsFit, CredFits, QueuedIsClean, CancelWins
<1>4. PumpKeepsUp
  <2>1. {f \in Files : fileStatus[f] = "uploading"} = {}
    BY DEF DriveInit
  <2>2. Cardinality({f \in Files : fileStatus[f] = "uploading"}) = 0
    BY <2>1, FS_EmptySet
  <2> QED BY <2>2, DriveAssumption DEF PumpKeepsUp, DriveInit
<1> QED BY <1>2, <1>3, <1>4 DEF DriveInv

-----------------------------------------------------------------------------
(* The console.                                                            *)

\* A step of the console is one of a part, or none, for each of the parts.
LEMMA PartsOfConsole ==
    ASSUME [Next]_consoleVars
    PROVE  /\ [TermNext]_termVars /\ [DeskNext]_deskVars
           /\ [RdpNext]_rdpVars /\ [DriveNext]_driveVars
<1>1. CASE UsesTerminal
  BY <1>1 DEF UsesTerminal
<1>2. CASE UsesDesktop
  BY <1>2 DEF UsesDesktop
<1>3. CASE UsesRdp
  BY <1>3 DEF UsesRdp
<1>4. CASE UsesDrive
  BY <1>4 DEF UsesDrive
<1>5. CASE UNCHANGED consoleVars
  BY <1>5 DEF consoleVars
<1> QED BY <1>1, <1>2, <1>3, <1>4, <1>5 DEF Next

\* The inductive invariants of the parts hold in the console.
LEMMA ConsoleInvariant == Spec => [](TermInv /\ DeskInv /\ RdpInv /\ DriveInv)
<1>1. TermInit /\ [][TermNext]_termVars => []TermInv
  BY TermInvariant
<1>2. DeskInit /\ [][DeskNext]_deskVars => []DeskInv
  BY DeskInvariant
<1>3. RdpInit /\ [][RdpNext]_rdpVars => []RdpInv
  BY RdpInvariant
<1>4. DriveInv /\ [DriveNext]_driveVars => DriveInv'
  BY DriveStep
<1>5. [Next]_consoleVars => /\ [TermNext]_termVars /\ [DeskNext]_deskVars
                            /\ [RdpNext]_rdpVars /\ [DriveNext]_driveVars
  BY PartsOfConsole
<1>6. DriveInit => DriveInv
  BY DriveStarts
<1> QED BY <1>1, <1>2, <1>3, <1>4, <1>5, <1>6, PTL DEF Spec, Init

\* The state of the console keeps its shape: the attempts of a terminal and of a
\* desktop stay within their backoff tables, and a file is shown uploading exactly
\* while a runOne works for it.
THEOREM ConsoleTypeCorrect == Spec => []TypeOK
<1>1. TermInv /\ DeskInv /\ RdpInv /\ DriveInv => TypeOK
  BY DEF TermInv, DeskInv, RdpInv, DriveInv, TypeOK
<1> QED BY <1>1, ConsoleInvariant, PTL

\* What a terminal tab shows is backed by its current run or by a timer.
THEOREM ShownIsBacked == Spec => []StatusIsBacked
<1>1. TermInv => StatusIsBacked
  BY DEF TermInv
<1> QED BY <1>1, ConsoleInvariant, PTL

\* A terminal that shows closed opens no session by itself: no late event of a
\* socket and no timer that the ref holds does (handleDisconnect, onClose).
THEOREM DisconnectionIsKept == Spec => ClosedStaysClosed
<1>1. TermInv /\ [TermNext]_termVars =>
        [mounted = "yes" /\ status = "closed" /\ leaked = 0 /\ conn = cur =>
            status' = "closed" \/ clicks' # clicks]_termVars
  BY ClosedStep
<1>2. [Next]_consoleVars => [TermNext]_termVars
  BY PartsOfConsole
<1> QED BY <1>1, <1>2, ConsoleInvariant, PTL DEF Spec, ClosedStaysClosed

\* A desktop tab forgets no session that the gateway made for it.
THEOREM SessionsAreOwned == Spec => []NoOrphanSession
<1>1. DeskInv => NoOrphanSession
  BY DEF DeskInv
<1> QED BY <1>1, ConsoleInvariant, PTL

\* A desktop tab drives one socket, and one call towards the next, at a time.
THEOREM OneSocket == Spec => []OneConnection
<1>1. DeskInv => OneConnection
  BY OneConnectionHolds
<1> QED BY <1>1, ConsoleInvariant, PTL

\* A desktop that was disconnected stays so until the user asks again.
THEOREM DisconnectHolds == Spec => []DisconnectSticks
<1>1. DeskInv => DisconnectSticks
  BY DEF DeskInv
<1> QED BY <1>1, ConsoleInvariant, PTL

\* An RDP tab that shows a connection has one: the client with the present token is
\* connected and its tunnel alive (the comparison of tokens in start's callbacks).
THEOREM RdpShowsWhatIs == Spec => []ShownIsSo
<1>1. RdpInv => ShownIsSo
  BY DEF RdpInv
<1> QED BY <1>1, ConsoleInvariant, PTL

\* An RDP tab that was disconnected or closed keeps no open client that no teardown
\* is about to close (the check behind connect()).
THEOREM RdpFreesClients == Spec => []RdpLetsGo
<1>1. RdpInv => RdpLetsGo
  BY DEF RdpInv
<1> QED BY <1>1, ConsoleInvariant, PTL

\* The pump fills the slots and no more, and forgets directories when it is idle.
THEOREM PumpFills == Spec => []PumpKeepsUp
<1>1. DriveInv => PumpKeepsUp
  BY DEF DriveInv
<1> QED BY <1>1, ConsoleInvariant, PTL

\* A cancelled upload sends nothing more, and is never shown as done.
THEOREM CancelIsFinal == Spec => []CancelWins
<1>1. DriveInv => CancelWins
  BY DEF DriveInv
<1> QED BY <1>1, ConsoleInvariant, PTL

=============================================================================
