---------------------------- MODULE AuditWriter ----------------------------
(***************************************************************************)
(* The audit log (internal/audit): two bounded queues, the single worker   *)
(* that batches them into the database under a hash chain, and the         *)
(* checkpointer that seals the chain, for one instance with a pinned       *)
(* chain id, across crashes and restarts.                                  *)
(*                                                                         *)
(* A hash is modelled by the sequence of events it covers, which is what a *)
(* collision-free SHA256(prev, event) determines.  An event keeps the      *)
(* instant it happened at, because the hash covers nanoseconds and the     *)
(* timestamp column does not.                                              *)
(***************************************************************************)
EXTENDS Integers, Sequences

CONSTANTS
    Callers,        \* goroutines that log critical events
    ChanSize,       \* capacity of the normal queue
    CritSize,       \* capacity of the critical queue
    BatchSize,      \* events per batch
    Instants,       \* what the clock may read, in its own unit
    Resolution,     \* units of the clock per unit of the timestamp column
    Faults,         \* which of FaultKinds may happen
    MaxFaults,      \* bound: how many faults
    MaxEvents,      \* bound: events offered
    MaxStarts       \* bound: starts of the process

FaultKinds == {"insert", "ambiguous", "seed", "genesis", "crash"}

ASSUME AuditAssumption ==
    /\ ChanSize \in Nat \ {0} /\ CritSize \in Nat \ {0} /\ BatchSize \in Nat \ {0}
    /\ Instants \subseteq Nat /\ Resolution \in Nat \ {0}
    /\ Faults \subseteq FaultKinds
    /\ MaxFaults \in Nat /\ MaxEvents \in Nat /\ MaxStarts \in Nat

Event == [id: 1..MaxEvents, crit: BOOLEAN, at: Instants]
Hash == Seq(Event)
AuditLog == [ev: [id: 1..MaxEvents, crit: BOOLEAN, at: Nat], prev: Hash, hash: Hash]
Seal == [tail: Hash, count: Nat, dropped: Nat]
NoSeal == [tail |-> <<>>, count |-> 0, dropped |-> 0]

VARIABLES
    proc,       \* the process: "down", "up", "draining", "drained" (Run returned)
    ch,         \* Writer.ch, the normal queue
    critCh,     \* Writer.critCh, the critical queue
    buf,        \* Run's batch
    last,       \* Chainer.last
    dropped,    \* Writer.droppedTotal
    rows,       \* the audit_logs rows of this chain, by id
    genesis,    \* the genesis checkpoint, and whether it exists
    today,      \* the checkpoint of the current day
    ckpt,       \* the checkpointer: its position and what it has read
    waiting,    \* waiting[c]: the event caller c blocks on, if any
    accepted,   \* ids of the events for which LogCritical returned nil, in order
    doubt,      \* history: nobody knows whether last is the table's last hash
    forks,      \* history: the rows stamped first after such a doubt
    offered,    \* events offered so far
    starts,     \* starts of the process so far
    faults      \* faults so far

queues == <<ch, critCh, buf>>
seals == <<genesis, today>>
bounds == <<offered, starts, faults>>
chain == <<last, rows, doubt, forks>>
vars == <<proc, queues, chain, dropped, seals, ckpt, waiting, accepted, bounds>>

NoEvent == [id |-> 0]
IdleCkpt == [pc |-> "idle", seal |-> NoSeal]

Init ==
    /\ proc = "down"
    /\ ch = <<>> /\ critCh = <<>> /\ buf = <<>>
    /\ last = <<>> /\ dropped = 0
    /\ rows = <<>>
    /\ genesis = [exists |-> FALSE, seal |-> NoSeal] /\ today = NoSeal
    /\ ckpt = IdleCkpt
    /\ waiting = [c \in Callers |-> NoEvent] /\ accepted = <<>>
    /\ doubt = FALSE /\ forks = {}
    /\ offered = 0 /\ starts = 0 /\ faults = 0

\* A fault of the given kind happens if the flag says so.
Fault(kind, happens) ==
    /\ happens => kind \in Faults /\ faults < MaxFaults
    /\ faults' = IF happens THEN faults + 1 ELSE faults

---------------------------------------------------------------------------
(* Chainer *)

HashEntry(prev, e) == Append(prev, e)

\* What the database gives back: the timestamp column cuts the instant off.
Stored(e) == [e EXCEPT !.at = (@ \div Resolution) * Resolution]

\* The rows of a batch, chained in order from the last durable hash.
Stamp(logs) ==
    [i \in 1..Len(logs) |->
        LET prev == last \o SubSeq(logs, 1, i - 1)
        IN  [ev |-> Stored(logs[i]), prev |-> prev, hash |-> HashEntry(prev, logs[i])]]

LastEntryHash == IF rows = <<>> THEN <<>> ELSE rows[Len(rows)].hash

\* The integrity report's verdict on a table of rows.
VerifyChain(rs) ==
    \A i \in 1..Len(rs) :
        /\ rs[i].prev = IF i = 1 THEN rs[1].prev ELSE rs[i - 1].hash
        /\ rs[i].hash = HashEntry(rs[i].prev, rs[i].ev)

---------------------------------------------------------------------------
(* Producers.  They run until the process is gone, after Run returned too. *)

New(isCrit, t) == [id |-> offered + 1, crit |-> isCrit, at |-> t]

CanOffer(t) == proc # "down" /\ offered < MaxEvents /\ t \in Instants

\* Non-blocking: a full queue sheds the event and counts it.
LogEvent(t) ==
    /\ CanOffer(t)
    /\ offered' = offered + 1
    /\ IF Len(ch) < ChanSize
       THEN ch' = Append(ch, New(FALSE, t)) /\ UNCHANGED dropped
       ELSE dropped' = dropped + 1 /\ UNCHANGED ch
    /\ UNCHANGED <<proc, critCh, buf, chain, seals, ckpt, waiting, accepted,
                   starts, faults>>

\* The first try of LogCritical: room now, or the caller blocks.
LogCritical(c, t) ==
    /\ CanOffer(t) /\ waiting[c] = NoEvent
    /\ offered' = offered + 1
    /\ IF Len(critCh) < CritSize
       THEN /\ critCh' = Append(critCh, New(TRUE, t))
            /\ accepted' = Append(accepted, offered + 1)
            /\ UNCHANGED waiting
       ELSE /\ waiting' = [waiting EXCEPT ![c] = New(TRUE, t)]
            /\ UNCHANGED <<critCh, accepted>>
    /\ UNCHANGED <<proc, ch, buf, chain, dropped, seals, ckpt, starts, faults>>

\* There is room at last.
LogCriticalWakes(c) ==
    /\ waiting[c] # NoEvent /\ Len(critCh) < CritSize
    /\ critCh' = Append(critCh, waiting[c])
    /\ accepted' = Append(accepted, waiting[c].id)
    /\ waiting' = [waiting EXCEPT ![c] = NoEvent]
    /\ UNCHANGED <<proc, ch, buf, chain, dropped, seals, ckpt, bounds>>

\* The context or the ten seconds end first: the caller gets an error.
LogCriticalRefused(c) ==
    /\ waiting[c] # NoEvent
    /\ waiting' = [waiting EXCEPT ![c] = NoEvent]
    /\ UNCHANGED <<proc, queues, chain, dropped, seals, ckpt, accepted, bounds>>

---------------------------------------------------------------------------
(* Writer.Run, the single worker *)

Outcomes == {"ok", "insert", "ambiguous"}

\* What an insert does to the table and to what is known of it.  "ambiguous": it is
\* reported as failed (its deadline passed) though the database has committed it.
BatchInsert(logs, outcome) ==
    /\ Fault(outcome, outcome # "ok")
    /\ rows' = IF outcome = "insert" THEN rows ELSE rows \o Stamp(logs)
    /\ forks' = IF doubt /\ outcome # "insert" THEN forks \cup {Len(rows) + 1} ELSE forks
    /\ doubt' = CASE outcome = "ok" -> FALSE
                  [] outcome = "insert" -> doubt
                  [] outcome = "ambiguous" -> TRUE

\* Mutant: the batch is kept for the next flush, whether it was inserted or not.
FlushKeeps(logs, outcome) ==
    /\ IF logs = <<>>
       THEN UNCHANGED <<chain, faults>>
       ELSE /\ BatchInsert(logs, outcome)
            /\ last' = IF outcome = "ok" THEN last \o logs ELSE last
    /\ buf' = logs

\* Mutant: the tip moves before the insert is known to have worked.
FlushCommitsFirst(logs, outcome) ==
    /\ IF logs = <<>>
       THEN UNCHANGED <<chain, faults>>
       ELSE /\ BatchInsert(logs, outcome)
            /\ last' = last \o logs
    /\ buf' = <<>>

\* Stamp, BatchInsert and, on success only, commit; the batch is cleared
\* either way.
Flush(logs, outcome) ==
    /\ IF logs = <<>>
       THEN UNCHANGED <<chain, faults>>
       ELSE /\ BatchInsert(logs, outcome)
            /\ last' = IF outcome = "ok" THEN last \o logs ELSE last
    /\ buf' = <<>>

\* Append a received event, and flush a full batch.
Buffer(e, outcome) ==
    LET logs == Append(buf, e)
    IN  IF Len(logs) >= BatchSize
        THEN Flush(logs, outcome)
        ELSE buf' = logs /\ UNCHANGED <<chain, faults>>

Running == proc \in {"up", "draining"}

ReceiveCritical(outcome) ==
    /\ Running /\ critCh # <<>>
    /\ critCh' = Tail(critCh)
    /\ Buffer(Head(critCh), outcome)
    /\ UNCHANGED <<proc, ch, dropped, seals, ckpt, waiting, accepted, offered, starts>>

Receive(outcome) ==
    /\ Running /\ ch # <<>>
    /\ ch' = Tail(ch)
    /\ Buffer(Head(ch), outcome)
    /\ UNCHANGED <<proc, critCh, dropped, seals, ckpt, waiting, accepted, offered, starts>>

\* Mutant: the ticker leaves the batch to fill up.
TickIdle(outcome) ==
    /\ proc = "up" /\ Len(buf) >= BatchSize
    /\ Flush(buf, outcome)
    /\ UNCHANGED <<proc, ch, critCh, dropped, seals, ckpt, waiting, accepted, offered, starts>>

Tick(outcome) ==
    /\ proc = "up" /\ buf # <<>>
    /\ Flush(buf, outcome)
    /\ UNCHANGED <<proc, ch, critCh, dropped, seals, ckpt, waiting, accepted, offered, starts>>

\* The worker sees that its context is done.
Stop ==
    /\ proc = "up"
    /\ proc' = "draining"
    /\ UNCHANGED <<queues, chain, dropped, seals, ckpt, waiting, accepted, bounds>>

\* Both queues are empty: the last flush, and Run returns.
Drained(outcome) ==
    /\ proc = "draining" /\ critCh = <<>> /\ ch = <<>>
    /\ Flush(buf, outcome)
    /\ proc' = "drained"
    /\ UNCHANGED <<ch, critCh, dropped, seals, ckpt, waiting, accepted, offered, starts>>

---------------------------------------------------------------------------
(* Checkpointer.WriteDaily: two queries, then the upsert.  The ticker's    *)
(* goroutine ends when the root context does.                              *)

CountRows ==
    /\ proc = "up" /\ ckpt.pc = "idle"
    /\ ckpt' = [pc |-> "tail", seal |-> [NoSeal EXCEPT !.count = Len(rows)]]
    /\ UNCHANGED <<proc, queues, chain, dropped, seals, waiting, accepted, bounds>>

\* Mutant: the seal takes the tip of the batch that is still to be inserted.
ReadTailAhead ==
    /\ ckpt.pc = "tail"
    /\ ckpt' = [pc |-> "write", seal |-> [ckpt.seal EXCEPT !.tail = last \o buf,
                                                          !.dropped = dropped]]
    /\ UNCHANGED <<proc, queues, chain, dropped, seals, waiting, accepted, bounds>>

ReadTail ==
    /\ ckpt.pc = "tail"
    /\ ckpt' = [pc |-> "write", seal |-> [ckpt.seal EXCEPT !.tail = LastEntryHash,
                                                          !.dropped = dropped]]
    /\ UNCHANGED <<proc, queues, chain, dropped, seals, waiting, accepted, bounds>>

UpsertCheckpoint ==
    /\ ckpt.pc = "write"
    /\ today' = ckpt.seal
    /\ ckpt' = IdleCkpt
    /\ UNCHANGED <<proc, queues, chain, dropped, genesis, waiting, accepted, bounds>>

\* A query failed, or its context is done: no upsert.
CheckpointFails ==
    /\ ckpt.pc # "idle"
    /\ ckpt' = IdleCkpt
    /\ UNCHANGED <<proc, queues, chain, dropped, seals, waiting, accepted, bounds>>

---------------------------------------------------------------------------
(* The process *)

\* Seed the chain from the database (an error there is ignored and leaves the
\* empty seed), write the genesis checkpoint (an error is logged), then run.
Start(seedFails, genesisFails) ==
    /\ proc = "down" /\ starts < MaxStarts
    /\ seedFails \/ genesisFails => faults < MaxFaults
    /\ seedFails => "seed" \in Faults
    /\ genesisFails => "genesis" \in Faults
    /\ faults' = IF seedFails \/ genesisFails THEN faults + 1 ELSE faults
    /\ starts' = starts + 1
    /\ proc' = "up"
    /\ last' = IF seedFails THEN <<>> ELSE LastEntryHash
    /\ doubt' = seedFails
    /\ genesis' = IF genesisFails THEN genesis
                  ELSE [exists |-> TRUE, seal |-> [tail |-> LastEntryHash,
                                                   count |-> Len(rows), dropped |-> 0]]
    /\ UNCHANGED <<queues, dropped, rows, forks, today, ckpt, waiting, accepted, offered>>

\* The memory of the process is gone.
Vanish ==
    /\ proc' = "down"
    /\ ch' = <<>> /\ critCh' = <<>> /\ buf' = <<>>
    /\ dropped' = 0
    /\ ckpt' = IdleCkpt
    /\ waiting' = [c \in Callers |-> NoEvent]
    /\ UNCHANGED <<chain, seals, accepted, offered, starts>>

Exit == proc = "drained" /\ Vanish /\ UNCHANGED faults

Crash == proc # "down" /\ Vanish /\ Fault("crash", TRUE)

---------------------------------------------------------------------------

Worker ==
    \E outcome \in Outcomes :
        \/ ReceiveCritical(outcome) \/ Receive(outcome)
        \/ Tick(outcome) \/ Drained(outcome)

Produce ==
    \E t \in Instants :
        \/ LogEvent(t)
        \/ \E c \in Callers : LogCritical(c, t)

Unblock(c) == LogCriticalWakes(c) \/ LogCriticalRefused(c)

Checkpoint == CountRows \/ ReadTail \/ UpsertCheckpoint \/ CheckpointFails

Next ==
    \/ Produce \/ \E c \in Callers : Unblock(c)
    \/ Worker \/ Stop
    \/ Checkpoint
    \/ \E s, g \in BOOLEAN : Start(s, g)
    \/ Exit \/ Crash

Spec == Init /\ [][Next]_vars

\* The worker's loop runs as long as it has something to receive or to flush.
\* Nothing is assumed of the producers, of shutdown or of the checkpointer.
FairSpec == Spec /\ WF_vars(Worker)

---------------------------------------------------------------------------
(* Properties *)

\* Queues, rows and seals have the shape the code gives them, and the queues
\* and the batch stay within their capacities.
TypeOK ==
    /\ proc \in {"down", "up", "draining", "drained"}
    /\ ch \in Seq(Event) /\ Len(ch) <= ChanSize
    /\ critCh \in Seq(Event) /\ Len(critCh) <= CritSize
    /\ buf \in Seq(Event) /\ Len(buf) < BatchSize
    /\ last \in Hash /\ dropped \in Nat
    /\ rows \in Seq(AuditLog)
    /\ genesis \in [exists: BOOLEAN, seal: Seal] /\ today \in Seal
    /\ ckpt \in [pc: {"idle", "tail", "write"}, seal: Seal]
    /\ waiting \in [Callers -> Event \cup {NoEvent}]
    /\ accepted \in Seq(1..MaxEvents)
    /\ doubt \in BOOLEAN /\ forks \subseteq Nat
    /\ offered \in 0..MaxEvents /\ starts \in 0..MaxStarts /\ faults \in 0..MaxFaults

\* The test of Chainer: a "freshly stamped chain must verify", that is, the
\* integrity report finds nothing wrong with rows that nobody has touched.
ChainVerifies == VerifyChain(rows)

Linked(i) == i > 1 => rows[i].prev = rows[i - 1].hash

\* The hash of row i is that of its event before the column cut its instant off.
Sealed(i) ==
    \E t \in Instants :
        LET e == [rows[i].ev EXCEPT !.at = t]
        IN  rows[i].ev = Stored(e) /\ rows[i].hash = HashEntry(rows[i].prev, e)

\* The comments on Chainer: a batch that fails is lost "without breaking the
\* chain over the rows that did land", and a restart continues the chain.  A row
\* is off the chain only if it was stamped first after an insert whose outcome
\* nobody learned, or after a start that could not read the last hash.
ChainContinues == \A i \in 1..Len(rows) : Sealed(i) /\ (Linked(i) \/ i \in forks)

\* The rows rs hold the tail a seal names, and its count does not run ahead.
OnChain(s, rs) ==
    /\ s.count <= Len(rs)
    /\ \/ s.count = 0 /\ s.tail = <<>>
       \/ \E i \in 1..Len(rs) : i >= s.count /\ rs[i].hash = s.tail

\* What a checkpoint seals stays on the chain: its tail is the hash of a row
\* that is still there, at or beyond the sealed count.
SealOnChain == OnChain(genesis.seal, rows) /\ OnChain(today, rows)

Accepted(id) == \E i \in 1..Len(accepted) : accepted[i] = id

Recorded(id) == \E i \in 1..Len(rows) : rows[i].ev.id = id

Held(id) == \E q \in {critCh, buf} : \E i \in 1..Len(q) : q[i].id = id

\* An event whose LogCritical succeeded before Run's last look at the queues
\* is written, whatever is flooding the normal queue and although the
\* process is shutting down, unless an insert fails or the process crashes.
AcceptedIsRecorded ==
    \A id \in 1..MaxEvents : (Held(id) /\ Running) ~> (Recorded(id) \/ faults > 0)

\* The comment on LogCritical: it "never silently drops".
CriticalNeverLost ==
    \A id \in 1..MaxEvents : Accepted(id) => Recorded(id) \/ Held(id)

=============================================================================
