---------------------------- MODULE AuditProofs ----------------------------
(***************************************************************************)
(* Proofs about AuditWriter, for every capacity, batch size, number of     *)
(* callers and bound, every clock and every fault: the type invariant,     *)
(* that the hash chain breaks only where an insert or a start left its tip *)
(* in doubt, and that every checkpoint seals a tail of the table.          *)
(***************************************************************************)
EXTENDS AuditWriter, SequenceTheorems, TLAPS

---------------------------------------------------------------------------
(* The rows of a batch *)

\* Stamp gives one well-formed row per event of the batch.
LEMMA StampType ==
    ASSUME last \in Hash, NEW logs \in Seq(Event)
    PROVE  /\ Stamp(logs) \in Seq(AuditLog)
           /\ Len(Stamp(logs)) = Len(logs)
           /\ \A i \in 1..Len(logs) :
                Stamp(logs)[i] =
                    [ev |-> Stored(logs[i]),
                     prev |-> last \o SubSeq(logs, 1, i - 1),
                     hash |-> Append(last \o SubSeq(logs, 1, i - 1), logs[i])]
PROOF
<1> USE AuditAssumption
<1>1. Len(logs) \in Nat /\ \A i \in 1..Len(logs) : logs[i] \in Event
  BY LenProperties, ElementOfSeq
<1>2. ASSUME NEW i \in 1..Len(logs)
      PROVE  /\ Stored(logs[i]) \in [id: 1..MaxEvents, crit: BOOLEAN, at: Nat]
             /\ last \o SubSeq(logs, 1, i - 1) \in Hash
             /\ Append(last \o SubSeq(logs, 1, i - 1), logs[i]) \in Hash
  <2>1. logs[i] \in Event
    BY <1>1
  <2>2. (logs[i].at \div Resolution) * Resolution \in Nat
    <3>1. logs[i].at \in Nat /\ Resolution \in Nat \ {0}
      BY <2>1 DEF Event
    <3>2. logs[i].at \div Resolution \in Nat
      BY <3>1, Z3
    <3> QED
      BY <3>1, <3>2
  <2>3. Stored(logs[i]) \in [id: 1..MaxEvents, crit: BOOLEAN, at: Nat]
    BY <2>1, <2>2 DEF Stored, Event
  <2>4. SubSeq(logs, 1, i - 1) \in Seq(Event)
    BY <1>1, SubSeqProperties
  <2>5. last \o SubSeq(logs, 1, i - 1) \in Seq(Event)
    BY <2>4, ConcatProperties DEF Hash
  <2> QED
    BY <2>1, <2>3, <2>5, AppendProperties DEF Hash
<1>3. Stamp(logs) \in [1..Len(logs) -> AuditLog]
  BY <1>2 DEF Stamp, HashEntry, AuditLog
<1>4. Stamp(logs) \in Seq(AuditLog)
  BY <1>1, <1>3, SeqDef
<1>5. Len(Stamp(logs)) = Len(logs)
  BY <1>1, <1>3, <1>4, LenProperties
<1>6. \A i \in 1..Len(logs) :
         Stamp(logs)[i] =
            [ev |-> Stored(logs[i]),
             prev |-> last \o SubSeq(logs, 1, i - 1),
             hash |-> Append(last \o SubSeq(logs, 1, i - 1), logs[i])]
  BY DEF Stamp, HashEntry
<1> QED
  BY <1>4, <1>5, <1>6

---------------------------------------------------------------------------
(* The type invariant *)

\* What a flush, or the receipt of an event, gives the variables it writes.
FlushTyped ==
    /\ last' \in Hash
    /\ rows' \in Seq(AuditLog)
    /\ doubt' \in BOOLEAN /\ forks' \subseteq Nat
    /\ buf' \in Seq(Event) /\ Len(buf') < BatchSize
    /\ faults' \in 0..MaxFaults

\* What a flush leaves, whatever becomes of its insert, has its shape.
LEMMA FlushType ==
    ASSUME TypeOK, NEW logs \in Seq(Event), NEW outcome \in Outcomes,
           Flush(logs, outcome)
    PROVE  FlushTyped
PROOF
<1> USE AuditAssumption
<1>1. /\ last \in Hash /\ rows \in Seq(AuditLog) /\ faults \in 0..MaxFaults
      /\ doubt \in BOOLEAN /\ forks \subseteq Nat /\ Len(rows) \in Nat
  BY LenProperties DEF TypeOK
<1>2. buf' = <<>> /\ <<>> \in Seq(Event) /\ Len(<<>>) < BatchSize
  BY EmptySeq DEF Flush
<1>3. CASE logs = <<>>
  BY <1>1, <1>2, <1>3 DEF Flush, FlushTyped, chain
<1>4. CASE logs # <<>>
  <2>1. /\ Fault(outcome, outcome # "ok")
        /\ rows' = IF outcome = "insert" THEN rows ELSE rows \o Stamp(logs)
        /\ last' = IF outcome = "ok" THEN last \o logs ELSE last
    BY <1>4 DEF Flush, BatchInsert
  <2>2. rows \o Stamp(logs) \in Seq(AuditLog)
    BY <1>1, StampType, ConcatProperties
  <2>3. last \o logs \in Hash
    BY <1>1, ConcatProperties DEF Hash
  <2>4. faults' \in 0..MaxFaults
    BY <1>1, <2>1 DEF Fault
  <2>5. forks' \subseteq Nat
    BY <1>1, <1>4 DEF Flush, BatchInsert
  <2>6. doubt' \in BOOLEAN
    BY <1>1, <1>4 DEF Flush, BatchInsert, Outcomes
  <2> QED
    BY <1>1, <1>2, <2>1, <2>2, <2>3, <2>4, <2>5, <2>6 DEF FlushTyped
<1> QED
  BY <1>3, <1>4

\* So has what buffering an event leaves, a full batch being flushed.
LEMMA BufferType ==
    ASSUME TypeOK, NEW e \in Event, NEW outcome \in Outcomes, Buffer(e, outcome)
    PROVE  FlushTyped
PROOF
<1>1. Append(buf, e) \in Seq(Event) /\ Len(Append(buf, e)) \in Nat
  BY AppendProperties, LenProperties DEF TypeOK
<1>2. CASE Len(Append(buf, e)) >= BatchSize
  BY <1>1, <1>2, FlushType DEF Buffer
<1>3. CASE ~(Len(Append(buf, e)) >= BatchSize)
  <2>1. buf' = Append(buf, e) /\ UNCHANGED <<last, rows, doubt, forks, faults>>
    BY <1>3 DEF Buffer, chain
  <2>2. /\ last \in Hash /\ rows \in Seq(AuditLog) /\ faults \in 0..MaxFaults
        /\ doubt \in BOOLEAN /\ forks \subseteq Nat
    BY DEF TypeOK
  <2>3. Len(buf') < BatchSize
    BY <1>1, <1>3, <2>1, AuditAssumption
  <2> QED
    BY <1>1, <2>1, <2>2, <2>3 DEF FlushTyped
<1> QED
  BY <1>2, <1>3

\* A queue grows by one at its end.
LEMMA QueueGrows ==
    ASSUME NEW q \in Seq(Event), NEW e \in Event
    PROVE  Append(q, e) \in Seq(Event) /\ Len(Append(q, e)) = Len(q) + 1
BY AppendProperties

\* It shrinks by one at its head.
LEMMA QueueShrinks ==
    ASSUME NEW q \in Seq(Event), q # <<>>
    PROVE  /\ Head(q) \in Event
           /\ Tail(q) \in Seq(Event) /\ Len(Tail(q)) = Len(q) - 1
BY HeadTailProperties

\* An event that is offered is a new one within the bound.
LEMMA NewIsEvent ==
    ASSUME TypeOK, NEW t, CanOffer(t), NEW b \in BOOLEAN
    PROVE  New(b, t) \in Event /\ offered + 1 \in 1..MaxEvents
BY AuditAssumption DEF TypeOK, CanOffer, New, Event

\* The writer starts with its state well formed.
LEMMA InitTyped == Init => TypeOK
PROOF
<1> USE AuditAssumption
<1>1. /\ <<>> \in Seq(Event) /\ Len(<<>>) = 0 /\ <<>> \in Hash
      /\ <<>> \in Seq(AuditLog) /\ <<>> \in Seq(1..MaxEvents)
  BY EmptySeq DEF Hash
<1>2. NoSeal \in Seal
  BY <1>1 DEF NoSeal, Seal
<1> SUFFICES ASSUME Init PROVE TypeOK
  OBVIOUS
<1>3. /\ genesis \in [exists: BOOLEAN, seal: Seal] /\ today \in Seal
      /\ ckpt \in [pc: {"idle", "tail", "write"}, seal: Seal]
  BY <1>2 DEF Init, IdleCkpt
<1>4. /\ ch \in Seq(Event) /\ Len(ch) <= ChanSize
      /\ critCh \in Seq(Event) /\ Len(critCh) <= CritSize
      /\ buf \in Seq(Event) /\ Len(buf) < BatchSize
  BY <1>1 DEF Init
<1>5. waiting \in [Callers -> Event \cup {NoEvent}]
  BY DEF Init
<1>6. doubt \in BOOLEAN /\ forks \subseteq Nat
  BY DEF Init
<1> QED
  BY <1>1, <1>3, <1>4, <1>5, <1>6 DEF Init, TypeOK

\* The checkpointer reads rows, last and dropped into seals.
LEMMA SealTyped ==
    ASSUME TypeOK
    PROVE  /\ NoSeal \in Seal /\ IdleCkpt \in [pc: {"idle", "tail", "write"}, seal: Seal]
           /\ Len(rows) \in Nat
           /\ LastEntryHash \in Hash
PROOF
<1>1. <<>> \in Hash
  BY EmptySeq DEF Hash
<1>2. NoSeal \in Seal
  BY <1>1 DEF NoSeal, Seal
<1>3. rows \in Seq(AuditLog) /\ Len(rows) \in Nat
  BY LenProperties DEF TypeOK
<1>4. LastEntryHash \in Hash
  <2>1. CASE rows = <<>>
    BY <2>1, <1>1 DEF LastEntryHash
  <2>2. CASE rows # <<>>
    <3>1. Len(rows) \in 1..Len(rows)
      BY <1>3, <2>2, EmptySeq
    <3>2. rows[Len(rows)] \in AuditLog
      BY <1>3, <3>1, ElementOfSeq
    <3> QED
      BY <2>2, <3>2 DEF LastEntryHash, AuditLog
  <2> QED
    BY <2>1, <2>2
<1> QED
  BY <1>2, <1>3, <1>4 DEF IdleCkpt

\* Every step keeps it so.
LEMMA StepTyped == TypeOK /\ [Next]_vars => TypeOK'
PROOF
<1> SUFFICES ASSUME TypeOK, [Next]_vars PROVE TypeOK'
  OBVIOUS
<1> USE AuditAssumption
<1>1. ASSUME NEW t \in Instants, LogEvent(t) PROVE TypeOK'
  <2>1. CanOffer(t) /\ offered' = offered + 1 /\ offered' \in 0..MaxEvents
    BY <1>1 DEF LogEvent, CanOffer, TypeOK
  <2>2. ch' \in Seq(Event) /\ Len(ch') <= ChanSize /\ dropped' \in Nat
    <3>1. CASE Len(ch) < ChanSize
      <4>1. ch' = Append(ch, New(FALSE, t)) /\ dropped' = dropped
        BY <1>1, <3>1 DEF LogEvent
      <4>2. New(FALSE, t) \in Event
        BY <2>1, NewIsEvent
      <4>3. ch \in Seq(Event) /\ Len(ch) \in Nat /\ dropped \in Nat
        BY LenProperties DEF TypeOK
      <4>4. ch' \in Seq(Event) /\ Len(ch') = Len(ch) + 1
        BY <4>1, <4>2, <4>3, QueueGrows
      <4>5. Len(ch') <= ChanSize
        BY <3>1, <4>3, <4>4
      <4> QED
        BY <4>1, <4>3, <4>4, <4>5
    <3>2. CASE ~(Len(ch) < ChanSize)
      BY <1>1, <3>2 DEF LogEvent, TypeOK
    <3> QED
      BY <3>1, <3>2
  <2> QED
    BY <1>1, <2>1, <2>2 DEF LogEvent, TypeOK, chain, seals
<1>2. ASSUME NEW c \in Callers, NEW t \in Instants, LogCritical(c, t) PROVE TypeOK'
  <2>1. CanOffer(t) /\ offered' = offered + 1 /\ offered' \in 0..MaxEvents
    BY <1>2 DEF LogCritical, CanOffer, TypeOK
  <2>2. New(TRUE, t) \in Event /\ offered + 1 \in 1..MaxEvents
    BY <2>1, NewIsEvent
  <2>3. /\ critCh' \in Seq(Event) /\ Len(critCh') <= CritSize
        /\ waiting' \in [Callers -> Event \cup {NoEvent}]
        /\ accepted' \in Seq(1..MaxEvents)
    <3>1. CASE Len(critCh) < CritSize
      <4>1. /\ critCh' = Append(critCh, New(TRUE, t))
            /\ accepted' = Append(accepted, offered + 1)
            /\ waiting' = waiting
        BY <1>2, <3>1 DEF LogCritical
      <4>2. accepted' \in Seq(1..MaxEvents)
        BY <4>1, <2>2, AppendProperties DEF TypeOK
      <4>3. /\ critCh \in Seq(Event) /\ Len(critCh) \in Nat
            /\ waiting \in [Callers -> Event \cup {NoEvent}]
        BY LenProperties DEF TypeOK
      <4>4. critCh' \in Seq(Event) /\ Len(critCh') = Len(critCh) + 1
        BY <4>1, <2>2, <4>3, QueueGrows
      <4>5. Len(critCh') <= CritSize
        BY <3>1, <4>3, <4>4
      <4> QED
        BY <4>1, <4>2, <4>3, <4>4, <4>5
    <3>2. CASE ~(Len(critCh) < CritSize)
      <4>1. /\ waiting' = [waiting EXCEPT ![c] = New(TRUE, t)]
            /\ critCh' = critCh /\ accepted' = accepted
        BY <1>2, <3>2 DEF LogCritical
      <4>2. waiting' \in [Callers -> Event \cup {NoEvent}]
        BY <4>1, <2>2 DEF TypeOK
      <4> QED
        BY <4>1, <4>2 DEF TypeOK
    <3> QED
      BY <3>1, <3>2
  <2> QED
    BY <1>2, <2>1, <2>3 DEF LogCritical, TypeOK, chain, seals
<1>3. ASSUME NEW c \in Callers, LogCriticalWakes(c) PROVE TypeOK'
  <2>1. waiting[c] \in Event
    BY <1>3 DEF LogCriticalWakes, TypeOK
  <2>2. critCh' \in Seq(Event) /\ Len(critCh') <= CritSize
    BY <1>3, <2>1, QueueGrows, LenProperties DEF LogCriticalWakes, TypeOK
  <2>3. accepted' \in Seq(1..MaxEvents)
    <3>1. waiting[c].id \in 1..MaxEvents
      BY <2>1 DEF Event
    <3> QED
      BY <1>3, <3>1, AppendProperties DEF LogCriticalWakes, TypeOK
  <2>4. waiting' \in [Callers -> Event \cup {NoEvent}]
    BY <1>3 DEF LogCriticalWakes, TypeOK
  <2> QED
    BY <1>3, <2>2, <2>3, <2>4 DEF LogCriticalWakes, TypeOK, chain, seals, bounds
<1>4. ASSUME NEW c \in Callers, LogCriticalRefused(c) PROVE TypeOK'
  BY <1>4 DEF LogCriticalRefused, TypeOK, chain, seals, bounds, queues
<1>5. ASSUME NEW outcome \in Outcomes, ReceiveCritical(outcome) PROVE TypeOK'
  <2>1. /\ Head(critCh) \in Event /\ critCh' \in Seq(Event)
        /\ Len(critCh') <= CritSize
    BY <1>5, QueueShrinks, LenProperties DEF ReceiveCritical, TypeOK
  <2>2. FlushTyped
    BY <1>5, <2>1, BufferType DEF ReceiveCritical
  <2> QED
    BY <1>5, <2>1, <2>2 DEF ReceiveCritical, FlushTyped, TypeOK, chain, seals
<1>6. ASSUME NEW outcome \in Outcomes, Receive(outcome) PROVE TypeOK'
  <2>1. Head(ch) \in Event /\ ch' \in Seq(Event) /\ Len(ch') <= ChanSize
    BY <1>6, QueueShrinks, LenProperties DEF Receive, TypeOK
  <2>2. FlushTyped
    BY <1>6, <2>1, BufferType DEF Receive
  <2> QED
    BY <1>6, <2>1, <2>2 DEF Receive, FlushTyped, TypeOK, chain, seals
<1>7. ASSUME NEW outcome \in Outcomes, Tick(outcome) PROVE TypeOK'
  <2>1. FlushTyped
    BY <1>7, FlushType DEF Tick, TypeOK
  <2> QED
    BY <1>7, <2>1 DEF Tick, FlushTyped, TypeOK, chain, seals
<1>8. ASSUME NEW outcome \in Outcomes, Drained(outcome) PROVE TypeOK'
  <2>1. FlushTyped
    BY <1>8, FlushType DEF Drained, TypeOK
  <2> QED
    BY <1>8, <2>1 DEF Drained, FlushTyped, TypeOK, chain, seals
<1>9. CASE Stop
  BY <1>9 DEF Stop, TypeOK, chain, queues, seals, bounds
<1>10. CASE CountRows
  <2>1. ckpt' \in [pc: {"idle", "tail", "write"}, seal: Seal]
    BY <1>10, SealTyped DEF CountRows, Seal
  <2> QED
    BY <1>10, <2>1 DEF CountRows, TypeOK, chain, queues, seals, bounds
<1>11. CASE ReadTail
  <2>1. ckpt' \in [pc: {"idle", "tail", "write"}, seal: Seal]
    BY <1>11, SealTyped DEF ReadTail, Seal, TypeOK
  <2> QED
    BY <1>11, <2>1 DEF ReadTail, TypeOK, chain, queues, seals, bounds
<1>12. CASE UpsertCheckpoint
  BY <1>12, SealTyped DEF UpsertCheckpoint, TypeOK, chain, queues, bounds
<1>13. CASE CheckpointFails
  BY <1>13, SealTyped DEF CheckpointFails, TypeOK, chain, queues, seals, bounds
<1>14. ASSUME NEW s \in BOOLEAN, NEW g \in BOOLEAN, Start(s, g) PROVE TypeOK'
  <2>1. last' \in Hash
    BY <1>14, SealTyped, EmptySeq DEF Start, Hash
  <2>2. genesis' \in [exists: BOOLEAN, seal: Seal]
    BY <1>14, SealTyped DEF Start, TypeOK, Seal
  <2>3. faults' \in 0..MaxFaults /\ starts' \in 0..MaxStarts
    BY <1>14 DEF Start, TypeOK
  <2> QED
    BY <1>14, <2>1, <2>2, <2>3 DEF Start, TypeOK, chain, queues
<1>15. ASSUME Vanish, faults' \in 0..MaxFaults PROVE TypeOK'
  <2>1. <<>> \in Seq(Event) /\ Len(<<>>) = 0
    BY EmptySeq
  <2> QED
    BY <1>15, <2>1, SealTyped DEF Vanish, TypeOK, chain, seals
<1>16. CASE Exit
  BY <1>15, <1>16 DEF Exit, TypeOK
<1>17. CASE Crash
  <2>1. faults \in 0..MaxFaults /\ MaxFaults \in Nat
    BY DEF TypeOK
  <2>2. faults < MaxFaults /\ faults' = faults + 1
    BY <1>17 DEF Crash, Fault
  <2>3. faults' \in 0..MaxFaults
    BY <2>1, <2>2
  <2> QED
    BY <1>15, <1>17, <2>3 DEF Crash
<1>18. CASE UNCHANGED vars
  BY <1>18 DEF vars, TypeOK, chain, queues, seals, bounds
<1> QED
  BY <1>1, <1>2, <1>3, <1>4, <1>5, <1>6, <1>7, <1>8, <1>9, <1>10, <1>11, <1>12,
     <1>13, <1>14, <1>16, <1>17, <1>18
  DEF Next, Produce, Unblock, Worker, Checkpoint

\* The queues and the batch of Writer never exceed the capacities NewWriter
\* gives them, and every row, seal and counter has its type.
THEOREM TypeCorrect == Spec => []TypeOK
PROOF
<1>1. Init => TypeOK
  BY InitTyped
<1>2. TypeOK /\ [Next]_vars => TypeOK'
  BY StepTyped
<1> QED
  BY <1>1, <1>2, PTL DEF Spec

---------------------------------------------------------------------------
(* The hash chain *)

\* While a process lives, its Chainer's tip is the hash of the last row, unless
\* an insert of unknown outcome or a failed seed has left it in doubt.
TipKnown == proc # "down" /\ ~doubt => last = LastEntryHash

ChainInv == ChainContinues /\ TipKnown

\* Hashing the next event of a batch covers one event more.
LEMMA HashNext ==
    ASSUME NEW E, NEW u \in Seq(E), NEW logs \in Seq(E), NEW k \in 1..Len(logs)
    PROVE  Append(u \o SubSeq(logs, 1, k - 1), logs[k]) = u \o SubSeq(logs, 1, k)
PROOF
<1>1. Len(logs) \in Nat /\ logs[k] \in E
  BY LenProperties, ElementOfSeq
<1>2. SubSeq(logs, 1, k - 1) \in Seq(E) /\ <<logs[k]>> \in Seq(E)
  <2>1. \A i \in 1..(k - 1) : logs[i] \in E
    BY <1>1, ElementOfSeq
  <2> QED
    BY <1>1, <2>1, SubSeqProperties
<1>3. u \o SubSeq(logs, 1, k - 1) \in Seq(E)
  BY <1>2, ConcatProperties
<1>4. Append(u \o SubSeq(logs, 1, k - 1), logs[k])
        = (u \o SubSeq(logs, 1, k - 1)) \o <<logs[k]>>
  BY <1>1, <1>3, AppendIsConcat
<1>5. (u \o SubSeq(logs, 1, k - 1)) \o <<logs[k]>>
        = u \o (SubSeq(logs, 1, k - 1) \o <<logs[k]>>)
  <2> DEFINE t == SubSeq(logs, 1, k - 1)
             w == <<logs[k]>>
  <2>1. t \in Seq(E) /\ w \in Seq(E)
    BY <1>2
  <2> HIDE DEF t, w
  <2>2. (u \o t) \o w = u \o (t \o w)
    BY <2>1, ConcatAssociative, SMTT(30)
  <2> QED
    BY <2>2 DEF t, w
<1>6. SubSeq(logs, 1, k - 1) \o <<logs[k]>> = SubSeq(logs, 1, k)
  <2>1. 1 \in 1..Len(logs) /\ k \in 1..Len(logs)
    BY <1>1
  <2> QED
    BY <2>1, SubSeqRecursiveSecond
<1> QED
  BY <1>4, <1>5, <1>6

\* The rows of a batch continue the chain, from the second on; the first does if
\* the tip was the table's, and the last has the hash that commit makes the tip.
LEMMA BatchContinues ==
    ASSUME TypeOK, ChainContinues, NEW logs \in Seq(Event), logs # <<>>,
           rows' = rows \o Stamp(logs), forks \subseteq forks',
           last = LastEntryHash \/ Len(rows) + 1 \in forks'
    PROVE  /\ ChainContinues'
           /\ LastEntryHash' = last \o logs
PROOF
<1> DEFINE st == Stamp(logs)
<1>n. PICK n \in Nat : n = Len(rows)
  BY LenProperties DEF TypeOK
<1>1. /\ last \in Hash /\ last \in Seq(Event) /\ rows \in Seq(AuditLog)
      /\ n \in Nat /\ Len(logs) \in Nat \ {0}
  BY <1>n, LenProperties, EmptySeq DEF TypeOK, Hash
<1>2. /\ st \in Seq(AuditLog) /\ Len(st) = Len(logs)
      /\ \A i \in 1..Len(logs) :
            st[i] = [ev |-> Stored(logs[i]),
                     prev |-> last \o SubSeq(logs, 1, i - 1),
                     hash |-> Append(last \o SubSeq(logs, 1, i - 1), logs[i])]
  BY <1>1, StampType
<1>r. rows' = rows \o st
  OBVIOUS
<1> HIDE DEF st
<1>3. /\ Len(rows') = n + Len(logs)
      /\ \A i \in 1..n : rows'[i] = rows[i]
      /\ \A k \in 1..Len(logs) : rows'[n + k] = st[k]
  <2> DEFINE rs == rows \o st
  <2>1. /\ Len(rs) = n + Len(st)
        /\ \A i \in 1..(n + Len(st)) : rs[i] = IF i <= n THEN rows[i] ELSE st[i - n]
    <3>1. rows \in Seq(AuditLog) /\ st \in Seq(AuditLog) /\ Len(rows) = n
      BY <1>n, <1>1, <1>2
    <3>2. /\ Len(rows \o st) = Len(rows) + Len(st)
          /\ \A i \in 1..(Len(rows) + Len(st)) :
                (rows \o st)[i] = IF i <= Len(rows) THEN rows[i] ELSE st[i - Len(rows)]
      BY <3>1, ConcatProperties
    <3> QED BY <3>1, <3>2
  <2> HIDE DEF rs
  <2>2. \A i \in 1..n : rs[i] = rows[i]
    BY <1>1, <1>2, <2>1
  <2>3. ASSUME NEW k \in 1..Len(logs) PROVE rs[n + k] = st[k]
    <3>1. n + k \in 1..(n + Len(st)) /\ ~(n + k <= n) /\ (n + k) - n = k
      BY <1>1, <1>2
    <3> QED
      BY <2>1, <3>1
  <2>4. rows' = rs
    BY <1>r DEF rs
  <2> QED
    BY <1>2, <2>1, <2>2, <2>3, <2>4
<1>4. \A k \in 1..Len(logs) :
        /\ st[k].prev = last \o SubSeq(logs, 1, k - 1)
        /\ st[k].ev = Stored(logs[k])
        /\ st[k].hash = Append(st[k].prev, logs[k])
        /\ st[k].hash = last \o SubSeq(logs, 1, k)
  <2> TAKE k \in 1..Len(logs)
  <2>1. Append(last \o SubSeq(logs, 1, k - 1), logs[k]) = last \o SubSeq(logs, 1, k)
    BY <1>1, HashNext
  <2> DEFINE p == last \o SubSeq(logs, 1, k - 1)
             h == Append(p, logs[k])
  <2>2. st[k] = [ev |-> Stored(logs[k]), prev |-> p, hash |-> h]
    BY <1>2
  <2>3. st[k].ev = Stored(logs[k]) /\ st[k].prev = p /\ st[k].hash = h
    <3> HIDE DEF p, h
    <3> QED
      BY <2>2
  <2> QED
    BY <2>1, <2>3
<1>5. ASSUME NEW i \in 1..n PROVE Sealed(i)' /\ (Linked(i)' \/ i \in forks')
  <2>1. Sealed(i) /\ (Linked(i) \/ i \in forks) /\ rows'[i] = rows[i]
    BY <1>n, <1>1, <1>3 DEF ChainContinues
  <2>2. Sealed(i)'
    BY <2>1 DEF Sealed, Stored, HashEntry
  <2>3. ASSUME Linked(i) PROVE Linked(i)'
    <3>1. ASSUME i > 1 PROVE rows'[i - 1] = rows[i - 1]
      <4>1. i - 1 \in 1..n
        BY <1>n, <3>1
      <4> QED
        BY <1>3, <4>1
    <3> QED
      BY <2>1, <2>3, <3>1 DEF Linked
  <2> QED
    BY <2>1, <2>2, <2>3
<1>6. ASSUME NEW k \in 1..Len(logs)
      PROVE  Sealed(n + k)' /\ (Linked(n + k)' \/ n + k \in forks')
  <2>1. rows'[n + k] = st[k]
    BY <1>3
  <2>2. Sealed(n + k)'
    <3>1. logs[k] \in Event
      BY ElementOfSeq
    <3>2. [Stored(logs[k]) EXCEPT !.at = logs[k].at] = logs[k]
      BY <3>1 DEF Stored, Event
    <3>3. logs[k].at \in Instants
      BY <3>1 DEF Event
    <3>4. /\ rows'[n + k].ev = Stored(logs[k])
          /\ rows'[n + k].hash = Append(rows'[n + k].prev, logs[k])
      BY <1>4, <2>1
    <3>5. \E t \in Instants :
             LET e == [rows'[n + k].ev EXCEPT !.at = t]
             IN  rows'[n + k].ev = Stored(e) /\ rows'[n + k].hash = Append(rows'[n + k].prev, e)
      BY <3>2, <3>3, <3>4
    <3> QED
      BY <3>5 DEF Sealed, HashEntry, Stored
  <2>3. CASE k = 1
    <3>1. st[k].prev = last
      <4>1. SubSeq(logs, 1, k - 1) = <<>>
        BY <2>3, SubSeqEmpty
      <4> QED
        BY <1>1, <1>4, <4>1, ConcatEmptySeq
    <3>2. ASSUME last = LastEntryHash, n + k > 1 PROVE rows'[n + k - 1].hash = last
      <4>1. n \in 1..n /\ n + k - 1 = n /\ rows'[n] = rows[n]
        BY <1>1, <1>3, <2>3, <3>2
      <4> QED
        BY <1>n, <1>1, <3>2, <4>1, EmptySeq DEF LastEntryHash
    <3>3. n + k = Len(rows) + 1
      BY <1>n, <2>3
    <3> QED
      BY <2>1, <2>2, <3>1, <3>2, <3>3 DEF Linked
  <2>4. CASE k # 1
    <3>a. k - 1 \in 1..Len(logs) /\ (n + k) - 1 = n + (k - 1)
      BY <1>1, <2>4
    <3>b. rows'[n + (k - 1)] = st[k - 1]
      BY <1>3, <3>a
    <3>c. st[k].prev = st[k - 1].hash
      BY <1>4, <3>a
    <3>d. rows'[n + k].prev = rows'[(n + k) - 1].hash
      BY <2>1, <3>a, <3>b, <3>c
    <3> QED
      BY <2>2, <3>d DEF Linked
  <2> QED
    BY <2>3, <2>4
<1>7. ChainContinues'
  <2> SUFFICES ASSUME NEW i \in 1..Len(rows')
               PROVE  Sealed(i)' /\ (Linked(i)' \/ i \in forks')
    BY DEF ChainContinues
  <2>1. i \in 1..n \/ (i - n \in 1..Len(logs) /\ i = n + (i - n))
    BY <1>1, <1>3
  <2> QED
    BY <1>5, <1>6, <2>1
<1>8. LastEntryHash' = last \o logs
  <2>1. Len(logs) \in 1..Len(logs) /\ Len(rows') # 0 /\ rows' # <<>>
    BY <1>1, <1>3, EmptySeq
  <2>2. rows'[Len(rows')] = st[Len(logs)]
    BY <1>3, <2>1
  <2>3. st[Len(logs)].hash = last \o SubSeq(logs, 1, Len(logs))
    BY <1>4, <2>1
  <2>4. SubSeq(logs, 1, Len(logs)) = logs
    BY SubSeqFull
  <2> QED
    BY <2>1, <2>2, <2>3, <2>4 DEF LastEntryHash
<1> QED
  BY <1>7, <1>8

\* A flush continues the chain, and leaves the tip known or in doubt.
LEMMA FlushChain ==
    ASSUME TypeOK, ChainInv, proc # "down",
           NEW logs \in Seq(Event), NEW outcome \in Outcomes, Flush(logs, outcome)
    PROVE  ChainContinues' /\ (~doubt' => last' = LastEntryHash')
PROOF
<1>1. ChainContinues /\ (~doubt => last = LastEntryHash)
  BY DEF ChainInv, TipKnown
<1>2. CASE UNCHANGED <<last, rows, doubt, forks>>
  BY <1>1, <1>2 DEF ChainContinues, Sealed, Linked, LastEntryHash
<1>3. CASE logs # <<>> /\ outcome # "insert"
  <2>1. /\ rows' = rows \o Stamp(logs)
        /\ forks' = IF doubt THEN forks \cup {Len(rows) + 1} ELSE forks
    BY <1>3 DEF Flush, BatchInsert
  <2>2. last = LastEntryHash \/ Len(rows) + 1 \in forks'
    BY <1>1, <2>1
  <2>3. ChainContinues' /\ LastEntryHash' = last \o logs
    BY <1>1, <1>3, <2>1, <2>2, BatchContinues
  <2>4. outcome = "ok" => last' = last \o logs
    BY <1>3 DEF Flush
  <2>5. outcome = "ambiguous" => doubt'
    BY <1>3 DEF Flush, BatchInsert
  <2> QED
    BY <1>3, <2>3, <2>4, <2>5 DEF Outcomes
<1>4. CASE logs = <<>> \/ outcome = "insert"
  BY <1>2, <1>4 DEF Flush, BatchInsert, chain
<1> QED
  BY <1>3, <1>4

\* So does buffering an event, with the flush it may lead to.
LEMMA BufferChain ==
    ASSUME TypeOK, ChainInv, proc # "down",
           NEW e \in Event, NEW outcome \in Outcomes, Buffer(e, outcome)
    PROVE  ChainContinues' /\ (~doubt' => last' = LastEntryHash')
PROOF
<1>1. Append(buf, e) \in Seq(Event)
  BY AppendProperties DEF TypeOK
<1>2. CASE Len(Append(buf, e)) >= BatchSize
  BY <1>1, <1>2, FlushChain DEF Buffer
<1>3. CASE ~(Len(Append(buf, e)) >= BatchSize)
  BY <1>3 DEF Buffer, ChainInv, ChainContinues, Sealed, Linked, TipKnown, LastEntryHash, chain
<1> QED
  BY <1>2, <1>3

\* Every step continues the chain, and the tip, when known, is the table's.
LEMMA StepChain ==
    ASSUME TypeOK, ChainInv, [Next]_vars
    PROVE  ChainInv'
PROOF
<1>0. ASSUME UNCHANGED <<rows, forks>> PROVE ChainContinues'
  BY <1>0 DEF ChainInv, ChainContinues, Sealed, Linked
<1>1. ASSUME UNCHANGED chain, UNCHANGED proc \/ proc # "down" PROVE ChainInv'
  BY <1>0, <1>1 DEF ChainInv, TipKnown, LastEntryHash, chain
<1>2. ASSUME UNCHANGED chain, proc' = "down" PROVE ChainInv'
  BY <1>0, <1>2 DEF ChainInv, TipKnown, chain
<1>3. ASSUME ChainContinues' /\ (~doubt' => last' = LastEntryHash') PROVE ChainInv'
  BY <1>3 DEF ChainInv, TipKnown
<1>4. ASSUME NEW outcome \in Outcomes, ReceiveCritical(outcome) PROVE ChainInv'
  <2>1. Head(critCh) \in Event /\ proc # "down"
    BY <1>4, QueueShrinks DEF ReceiveCritical, Running, TypeOK
  <2> QED
    BY <1>3, <1>4, <2>1, BufferChain DEF ReceiveCritical
<1>5. ASSUME NEW outcome \in Outcomes, Receive(outcome) PROVE ChainInv'
  <2>1. Head(ch) \in Event /\ proc # "down"
    BY <1>5, QueueShrinks DEF Receive, Running, TypeOK
  <2> QED
    BY <1>3, <1>5, <2>1, BufferChain DEF Receive
<1>6. ASSUME NEW outcome \in Outcomes, Tick(outcome) PROVE ChainInv'
  <2>1. buf \in Seq(Event) /\ proc # "down"
    BY <1>6 DEF Tick, TypeOK
  <2> QED
    BY <1>3, <1>6, <2>1, FlushChain DEF Tick
<1>7. ASSUME NEW outcome \in Outcomes, Drained(outcome) PROVE ChainInv'
  <2>1. buf \in Seq(Event) /\ proc # "down"
    BY <1>7 DEF Drained, TypeOK
  <2> QED
    BY <1>3, <1>7, <2>1, FlushChain DEF Drained
<1>8. ASSUME NEW s \in BOOLEAN, NEW g \in BOOLEAN, Start(s, g) PROVE ChainInv'
  <2>1. ChainContinues'
    BY <1>0, <1>8 DEF Start
  <2>2. ~doubt' => last' = LastEntryHash'
    BY <1>8 DEF Start, LastEntryHash
  <2> QED
    BY <1>3, <2>1, <2>2
<1>9. CASE Exit \/ Crash
  BY <1>2, <1>9 DEF Exit, Crash, Vanish
<1>10. CASE Stop
  BY <1>1, <1>10 DEF Stop
<1>11. ASSUME NEW t \in Instants, LogEvent(t) PROVE ChainInv'
  BY <1>1, <1>11 DEF LogEvent
<1>12. ASSUME NEW c \in Callers, NEW t \in Instants, LogCritical(c, t) PROVE ChainInv'
  BY <1>1, <1>12 DEF LogCritical
<1>13. ASSUME NEW c \in Callers, Unblock(c) PROVE ChainInv'
  BY <1>1, <1>13 DEF Unblock, LogCriticalWakes, LogCriticalRefused
<1>14. CASE Checkpoint
  BY <1>1, <1>14
  DEF Checkpoint, CountRows, ReadTail, UpsertCheckpoint, CheckpointFails
<1>15. CASE UNCHANGED vars
  BY <1>1, <1>15 DEF vars
<1> QED
  BY <1>4, <1>5, <1>6, <1>7, <1>8, <1>9, <1>10, <1>11, <1>12, <1>13, <1>14, <1>15
  DEF Next, Produce, Worker

\* Failed inserts, crashes and restarts leave the chain whole: a row is off it
\* only where it was stamped first after an insert of unknown outcome or a start
\* that could not read the last hash, and every hash is that of the event as it
\* was logged (Chainer.Stamp and commit, Writer.Run's flush, LastEntryHash).
THEOREM ChainContinuous == Spec => []ChainContinues
PROOF
<1>1. Init => ChainInv
  <2>1. Init => rows = <<>> /\ Len(rows) = 0 /\ proc = "down"
    BY EmptySeq DEF Init
  <2> QED
    BY <2>1 DEF ChainInv, ChainContinues, TipKnown
<1>2. TypeOK /\ ChainInv /\ [Next]_vars => ChainInv'
  BY StepChain
<1>3. ChainInv => ChainContinues
  BY DEF ChainInv
<1> QED
  BY <1>1, <1>2, <1>3, TypeCorrect, PTL DEF Spec

---------------------------------------------------------------------------
(* The seals *)

\* A table that only grew.
Extends(rs, more) ==
    Len(rs) <= Len(more) /\ \A i \in 1..Len(rs) : more[i] = rs[i]

\* What the checkpointer has read stays true until it writes it.
SealInv ==
    /\ SealOnChain
    /\ ckpt.pc = "tail" => ckpt.seal.count <= Len(rows)
    /\ ckpt.pc = "write" => OnChain(ckpt.seal, rows)

\* Rows that are added leave a correct seal correct.
LEMMA SealSurvives ==
    ASSUME NEW rs \in Seq(AuditLog), NEW more \in Seq(AuditLog), Extends(rs, more),
           NEW s \in Seal, OnChain(s, rs)
    PROVE  OnChain(s, more)
PROOF
<1>1. Len(rs) \in Nat /\ Len(more) \in Nat /\ s.count \in Nat
  BY LenProperties DEF Seal
<1>2. s.count <= Len(more)
  BY <1>1 DEF Extends, OnChain
<1>3. ASSUME NEW i \in 1..Len(rs), i >= s.count, rs[i].hash = s.tail
      PROVE  OnChain(s, more)
  <2>1. i \in 1..Len(more) /\ more[i] = rs[i]
    BY <1>1 DEF Extends
  <2> QED
    BY <1>2, <1>3, <2>1 DEF OnChain
<1> QED
  BY <1>2, <1>3 DEF OnChain

\* The tip of the table is on it, and covers every count read before.
LEMMA TipOnChain ==
    ASSUME TypeOK, NEW s \in Seal, s.count <= Len(rows), s.tail = LastEntryHash
    PROVE  OnChain(s, rows)
PROOF
<1>1. rows \in Seq(AuditLog) /\ Len(rows) \in Nat /\ s.count \in Nat
  BY LenProperties DEF TypeOK, Seal
<1>2. CASE rows = <<>>
  <2>1. Len(rows) = 0
    BY <1>2, EmptySeq
  <2> QED
    BY <1>1, <1>2, <2>1 DEF OnChain, LastEntryHash
<1>3. CASE rows # <<>>
  <2>1. Len(rows) \in 1..Len(rows) /\ Len(rows) >= s.count
    BY <1>1, <1>3, EmptySeq
  <2> QED
    BY <1>3, <2>1 DEF OnChain, LastEntryHash
<1> QED
  BY <1>2, <1>3

\* A flush only adds rows.
LEMMA FlushExtends ==
    ASSUME TypeOK, NEW logs \in Seq(Event), NEW outcome, Flush(logs, outcome)
    PROVE  Extends(rows, rows')
PROOF
<1>1. /\ rows \in Seq(AuditLog) /\ Len(rows) \in Nat
      /\ Stamp(logs) \in Seq(AuditLog) /\ Len(Stamp(logs)) \in Nat
  BY StampType, LenProperties DEF TypeOK
<1>2. Extends(rows, rows \o Stamp(logs))
  BY <1>1, ConcatProperties DEF Extends
<1>3. Extends(rows, rows)
  BY <1>1 DEF Extends
<1> QED
  BY <1>2, <1>3 DEF Flush, BatchInsert, chain

\* No step of the system removes or rewrites a row.
LEMMA StepExtends ==
    ASSUME TypeOK, [Next]_vars
    PROVE  Extends(rows, rows')
PROOF
<1>1. ASSUME UNCHANGED rows PROVE Extends(rows, rows')
  <2>1. Len(rows) \in Nat
    BY LenProperties DEF TypeOK
  <2> QED
    BY <1>1, <2>1 DEF Extends
<1>2. ASSUME NEW e \in Event, NEW outcome, Buffer(e, outcome)
      PROVE  Extends(rows, rows')
  <2>1. Append(buf, e) \in Seq(Event)
    BY AppendProperties DEF TypeOK
  <2>2. CASE Len(Append(buf, e)) >= BatchSize
    BY <1>2, <2>1, <2>2, FlushExtends DEF Buffer
  <2>3. CASE ~(Len(Append(buf, e)) >= BatchSize)
    BY <1>1, <1>2, <2>3 DEF Buffer, chain
  <2> QED
    BY <2>2, <2>3
<1>3. CASE Worker
  <2>1. PICK outcome \in Outcomes : \/ ReceiveCritical(outcome) \/ Receive(outcome)
                                    \/ Tick(outcome) \/ Drained(outcome)
    BY <1>3 DEF Worker
  <2>2. CASE ReceiveCritical(outcome)
    <3>1. Head(critCh) \in Event
      BY <2>2, QueueShrinks DEF ReceiveCritical, TypeOK
    <3> QED
      BY <1>2, <2>2, <3>1 DEF ReceiveCritical
  <2>3. CASE Receive(outcome)
    <3>1. Head(ch) \in Event
      BY <2>3, QueueShrinks DEF Receive, TypeOK
    <3> QED
      BY <1>2, <2>3, <3>1 DEF Receive
  <2>4. CASE Tick(outcome) \/ Drained(outcome)
    BY <2>4, FlushExtends DEF Tick, Drained, TypeOK
  <2> QED
    BY <2>1, <2>2, <2>3, <2>4
<1>4. CASE UNCHANGED vars
  BY <1>1, <1>4 DEF vars, chain
<1>5. CASE Produce \/ \E c \in Callers : Unblock(c)
  BY <1>1, <1>5
  DEF Produce, LogEvent, LogCritical, Unblock, LogCriticalWakes, LogCriticalRefused, chain
<1>6. CASE Stop \/ Exit \/ Crash \/ \E s, g \in BOOLEAN : Start(s, g)
  BY <1>1, <1>6 DEF Stop, Exit, Crash, Vanish, Start, chain
<1>7. CASE Checkpoint
  BY <1>1, <1>7
  DEF Checkpoint, CountRows, ReadTail, UpsertCheckpoint, CheckpointFails, chain
<1> QED
  BY <1>3, <1>4, <1>5, <1>6, <1>7 DEF Next

\* No step of the worker spoils what the checkpointer has read or written.
LEMMA StepSeals ==
    ASSUME TypeOK, TypeOK', SealInv, [Next]_vars
    PROVE  SealInv'
PROOF
<1>1. /\ rows \in Seq(AuditLog) /\ rows' \in Seq(AuditLog) /\ Extends(rows, rows')
      /\ Len(rows) \in Nat /\ Len(rows') \in Nat /\ Len(rows) <= Len(rows')
  BY StepExtends, LenProperties DEF TypeOK, Extends
<1>2. \A s \in Seal : OnChain(s, rows) => OnChain(s, rows')
  BY <1>1, SealSurvives
<1>3. genesis.seal \in Seal /\ today \in Seal /\ ckpt.seal \in Seal
  BY DEF TypeOK
<1>4. /\ OnChain(genesis.seal, rows') /\ OnChain(today, rows')
      /\ ckpt.pc = "write" => OnChain(ckpt.seal, rows')
      /\ ckpt.pc = "tail" => ckpt.seal.count <= Len(rows')
  <2>1. ckpt.seal.count \in Nat
    BY <1>3 DEF Seal
  <2> QED
    BY <1>1, <1>2, <1>3, <2>1 DEF SealInv, SealOnChain
<1>5. ASSUME UNCHANGED <<genesis, today, ckpt>> PROVE SealInv'
  BY <1>4, <1>5 DEF SealInv, SealOnChain
<1>6. ASSUME UNCHANGED <<genesis, today>>, ckpt' = IdleCkpt PROVE SealInv'
  BY <1>4, <1>6 DEF SealInv, SealOnChain, IdleCkpt
<1>7. CASE Produce \/ Worker \/ Stop \/ \E c \in Callers : Unblock(c)
  BY <1>5, <1>7
  DEF Produce, LogEvent, LogCritical, Worker, ReceiveCritical, Receive, Tick, Drained,
      Stop, Unblock, LogCriticalWakes, LogCriticalRefused, seals
<1>8. CASE CountRows
  <2>1. ckpt'.pc = "tail" /\ ckpt'.seal.count = Len(rows) /\ UNCHANGED <<genesis, today>>
    BY <1>8 DEF CountRows, NoSeal, seals
  <2> QED
    BY <1>1, <1>4, <2>1 DEF SealInv, SealOnChain
<1>9. CASE ReadTail
  <2>1. /\ ckpt'.pc = "write" /\ UNCHANGED <<genesis, today, rows>>
        /\ ckpt'.seal.tail = LastEntryHash /\ ckpt'.seal.count = ckpt.seal.count
    BY <1>3, <1>9 DEF ReadTail, Seal, seals, chain
  <2>2. ckpt'.seal \in Seal /\ ckpt'.seal.count <= Len(rows)
    BY <1>9, <2>1 DEF ReadTail, SealInv, TypeOK
  <2>3. OnChain(ckpt'.seal, rows)
    BY <2>1, <2>2, TipOnChain
  <2> QED
    BY <1>4, <2>1, <2>3 DEF SealInv, SealOnChain
<1>10. CASE UpsertCheckpoint
  BY <1>4, <1>10 DEF UpsertCheckpoint, SealInv, SealOnChain, IdleCkpt
<1>11. CASE CheckpointFails
  BY <1>6, <1>11 DEF CheckpointFails, seals
<1>12. ASSUME NEW s \in BOOLEAN, NEW g \in BOOLEAN, Start(s, g) PROVE SealInv'
  <2>1. UNCHANGED <<today, ckpt, rows>>
    BY <1>12 DEF Start
  <2>2. CASE g
    BY <1>5, <1>12, <2>1, <2>2 DEF Start
  <2>3. CASE ~g
    <3>1. genesis'.seal.tail = LastEntryHash /\ genesis'.seal.count = Len(rows)
      BY <1>12, <2>3 DEF Start
    <3>2. genesis'.seal \in Seal
      BY DEF TypeOK
    <3>3. OnChain(genesis'.seal, rows)
      BY <1>1, <3>1, <3>2, TipOnChain
    <3> QED
      BY <1>4, <2>1, <3>3 DEF SealInv, SealOnChain
  <2> QED
    BY <2>2, <2>3
<1>13. CASE Exit \/ Crash
  BY <1>6, <1>13 DEF Exit, Crash, Vanish, seals
<1>14. CASE UNCHANGED vars
  BY <1>5, <1>14 DEF vars, seals
<1> QED
  BY <1>7, <1>8, <1>9, <1>10, <1>11, <1>12, <1>13, <1>14 DEF Next, Checkpoint

\* A checkpoint never seals a tail that is not in the table, nor more rows
\* than its tail covers, however its two queries interleave with the worker,
\* with failed inserts, crashes and restarts; no condition is needed
\* (Checkpointer.WriteDaily and WriteGenesis over ChainTailAndCount).
THEOREM SealsCorrect == Spec => []SealOnChain
PROOF
<1>1. Init => SealInv
  <2> SUFFICES ASSUME Init PROVE SealInv
    OBVIOUS
  <2>1. /\ genesis.seal.count = 0 /\ genesis.seal.tail = <<>>
        /\ today.count = 0 /\ today.tail = <<>>
        /\ ckpt.pc = "idle" /\ Len(rows) = 0
    BY EmptySeq DEF Init, NoSeal, IdleCkpt
  <2> QED
    BY <2>1 DEF SealInv, SealOnChain, OnChain
<1>2. TypeOK /\ TypeOK' /\ SealInv /\ [Next]_vars => SealInv'
  BY StepSeals
<1>3. SealInv => SealOnChain
  BY DEF SealInv
<1> QED
  BY <1>1, <1>2, <1>3, TypeCorrect, PTL DEF Spec

=============================================================================
