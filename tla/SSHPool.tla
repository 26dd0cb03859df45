------------------------------ MODULE SSHPool ------------------------------
(***************************************************************************)
(* The pool of SSH clients to bastions (sshpool/pool.go and entry.go), for *)
(* one pool key: callers that acquire and release, the janitor that sweeps *)
(* and shuts down, and the watchers of the clients.                        *)
(*                                                                         *)
(* A step is what a goroutine does between two blocking points or two      *)
(* accesses to a slot's atomic fields that hold no common lock: p.mu is    *)
(* held across steps by the janitor only, e.mu by a caller that dials and  *)
(* by a sweep.  References are counted, and lastUsed is stored, after e.mu *)
(* has been given back.  An entry or a client that nothing can reach any   *)
(* more is not followed further.                                           *)
(***************************************************************************)
EXTENDS Integers, FiniteSets, SequencesExt, Lists

CONSTANTS
    Callers,        \* goroutines that use the pool
    Entries,        \* identities of entries, reused once unreachable
    NoEntry,
    Clients,        \* identities of clients, reused once unreachable
    NoClient,
    MaxSessions     \* MaxSessionsPerClient

ASSUME PoolAssumption ==
    /\ NoEntry \notin Entries /\ NoClient \notin Clients
    /\ IsFiniteSet(Callers) /\ IsFiniteSet(Entries) /\ IsFiniteSet(Clients)
    /\ MaxSessions \in Nat \ {0}

VARIABLES
    mapped,         \* the entry that Pool.entries has for the key
    poolLocked,     \* p.mu
    locked,         \* the entries whose e.mu is held
    clients,        \* entry.clients
    disposed,       \* the entries shut down
    dead,           \* the clients marked dead: closed, or known to be
    stale,          \* the clients with lastUsed before the (next) sweep's cutoff
    refs,           \* clientSlot.refs
    caller,         \* where a caller has got
    entryOf,        \* the entry a caller found
    clientOf,       \* the client a caller was given
    janitor,        \* where Run has got
    scan,           \* the index of the slot the sweep looks at
    gone,           \* the slots the sweep leaves out of the entry
    late            \* history: handed a client, not counted, when the sweep took e.mu

slotVars == <<dead, stale, refs>>
sweepVars == <<scan, gone, late>>
poolVars == <<mapped, poolLocked, locked, clients, disposed, slotVars, caller, entryOf,
              clientOf, janitor, sweepVars>>

-----------------------------------------------------------------------------

\* The callers that client s was handed to and that have not released it, and
\* those among them that refs counts.
Holders(s) ==
    {p \in Callers : caller[p] \in {"picked", "counted", "using"} /\ clientOf[p] = s}

Users(s) == {p \in Callers : caller[p] \in {"counted", "using"} /\ clientOf[p] = s}

CallerSteps ==
    {"idle", "calling", "found", "dialing", "picked", "counted", "using", "leaving"}

JanitorSteps ==
    {"waiting", "sweeping", "loop", "age", "close", "stopping", "stopped"}

Reachable(e) == e = mapped \/ \E p \in Callers : entryOf[p] = e

SpareEntries == {e \in Entries : ~Reachable(e)}

\* What an entry is left with when caller p turns from it: nothing is kept of one
\* that nobody can reach.
Kept(p, e, list) ==
    IF e = mapped \/ \E q \in Callers \ {p} : entryOf[q] = e THEN list ELSE <<>>

Followed(s) ==
    \/ \E p \in Callers : clientOf[p] = s
    \/ \E e \in Entries : Reachable(e) /\ s \in ToSet(clients[e])

SpareClients == {s \in Clients : ~Followed(s)}

PoolInit ==
    /\ mapped = NoEntry
    /\ poolLocked = FALSE
    /\ locked = {}
    /\ clients = [e \in Entries |-> <<>>]
    /\ disposed = {}
    /\ dead = {} /\ stale = {}
    /\ refs = [s \in Clients |-> 0]
    /\ caller = [p \in Callers |-> "idle"]
    /\ entryOf = [p \in Callers |-> NoEntry]
    /\ clientOf = [p \in Callers |-> NoClient]
    /\ janitor = "waiting"
    /\ scan = 0 /\ gone = {} /\ late = {}

-----------------------------------------------------------------------------
(* Acquire and release.                                                    *)

Acquire(p) ==
    /\ caller[p] = "idle"
    /\ caller' = [caller EXCEPT ![p] = "calling"]
    /\ UNCHANGED <<mapped, poolLocked, locked, clients, disposed, slotVars, entryOf, clientOf,
                   janitor, sweepVars>>

\* Under p.mu: the entry of the key, a new one if there is none.
FindEntry(p) ==
    /\ caller[p] = "calling" /\ ~poolLocked
    /\ caller' = [caller EXCEPT ![p] = "found"]
    /\ \/ /\ mapped # NoEntry
          /\ entryOf' = [entryOf EXCEPT ![p] = mapped]
          /\ UNCHANGED <<mapped, clients, disposed>>
       \/ /\ mapped = NoEntry
          /\ \E e \in SpareEntries :
                /\ e = CHOOSE x \in SpareEntries : TRUE
                /\ mapped' = e
                /\ entryOf' = [entryOf EXCEPT ![p] = e]
                /\ clients' = [clients EXCEPT ![e] = <<>>]
                /\ disposed' = disposed \ {e}
    /\ UNCHANGED <<poolLocked, locked, slotVars, clientOf, janitor, sweepVars>>

pruneDead(e) == Without(clients[e], dead)

Full == {s \in Clients : refs[s] >= MaxSessions}

\* The first client below the limit, if any.
pickAvailable(e) ==
    LET usable == Without(pruneDead(e), Full)
    IN  IF usable = <<>> THEN NoClient ELSE Head(usable)

\* Mutant: pickOrSpawn does not look at the flag.
RefusesNever(e) == FALSE

\* The disposed flag, as pickOrSpawn finds it.
Refuses(e) == e \in disposed

\* pickOrSpawn takes e.mu, and keeps it if it has to dial.
pickOrSpawn(p) ==
    LET e == entryOf[p]
        s == pickAvailable(e)
    IN  /\ caller[p] = "found" /\ e \notin locked
        /\ clientOf' = [clientOf EXCEPT ![p] = s]
        /\ \/ /\ s # NoClient \/ Refuses(e)
              /\ caller' = [caller EXCEPT ![p] = IF s # NoClient THEN "picked" ELSE "idle"]
              /\ entryOf' = [entryOf EXCEPT ![p] = NoEntry]
              /\ clients' = [clients EXCEPT ![e] = Kept(p, e, pruneDead(e))]
              /\ UNCHANGED locked
           \/ /\ s = NoClient /\ ~Refuses(e)
              /\ caller' = [caller EXCEPT ![p] = "dialing"]
              /\ clients' = [clients EXCEPT ![e] = pruneDead(e)]
              /\ locked' = locked \cup {e}
              /\ UNCHANGED entryOf
        /\ UNCHANGED <<mapped, poolLocked, disposed, slotVars, janitor, sweepVars>>

\* Connect has returned a client.
Connected(p) ==
    LET e == entryOf[p]
        s == CHOOSE x \in SpareClients : TRUE
    IN  /\ caller[p] = "dialing" /\ SpareClients # {}
        /\ caller' = [caller EXCEPT ![p] = "picked"]
        /\ entryOf' = [entryOf EXCEPT ![p] = NoEntry]
        /\ clientOf' = [clientOf EXCEPT ![p] = s]
        /\ clients' = [clients EXCEPT ![e] = Kept(p, e, Append(@, s))]
        /\ dead' = dead \ {s}
        /\ stale' = stale \ {s}
        /\ refs' = [refs EXCEPT ![s] = 0]
        /\ locked' = locked \ {e}
        /\ UNCHANGED <<mapped, poolLocked, disposed, janitor, sweepVars>>

\* Mutant: e.mu is not given back on the error path.
ConnectFailsLocked(p) ==
    /\ caller[p] = "dialing"
    /\ caller' = [caller EXCEPT ![p] = "idle"]
    /\ entryOf' = [entryOf EXCEPT ![p] = NoEntry]
    /\ clients' = [clients EXCEPT ![entryOf[p]] = Kept(p, entryOf[p], @)]
    /\ UNCHANGED <<mapped, poolLocked, locked, disposed, slotVars, clientOf, janitor, sweepVars>>

\* The bastion refuses, the timeout passes or the caller's context ends.
ConnectFails(p) ==
    /\ caller[p] = "dialing"
    /\ caller' = [caller EXCEPT ![p] = "idle"]
    /\ entryOf' = [entryOf EXCEPT ![p] = NoEntry]
    /\ locked' = locked \ {entryOf[p]}
    /\ clients' = [clients EXCEPT ![entryOf[p]] = Kept(p, entryOf[p], @)]
    /\ UNCHANGED <<mapped, poolLocked, disposed, slotVars, clientOf, janitor, sweepVars>>

\* refs is counted, and lastUsed stored, with no lock held.
Count(p) ==
    /\ caller[p] = "picked"
    /\ caller' = [caller EXCEPT ![p] = "counted"]
    /\ refs' = [refs EXCEPT ![clientOf[p]] = @ + 1]
    /\ UNCHANGED <<mapped, poolLocked, locked, clients, disposed, dead, stale, entryOf, clientOf,
                   janitor, sweepVars>>

\* Mutant: the reference is not given back.
releaseKeepsRef(p) ==
    /\ caller[p] = "using"
    /\ caller' = [caller EXCEPT ![p] = "leaving"]
    /\ UNCHANGED <<mapped, poolLocked, locked, clients, disposed, slotVars, entryOf, clientOf,
                   janitor, sweepVars>>

release(p) ==
    /\ caller[p] = "using"
    /\ caller' = [caller EXCEPT ![p] = "leaving"]
    /\ refs' = [refs EXCEPT ![clientOf[p]] = @ - 1]
    /\ UNCHANGED <<mapped, poolLocked, locked, clients, disposed, dead, stale, entryOf, clientOf,
                   janitor, sweepVars>>

\* lastUsed.Store, the end of Acquire and the end of release.
StoreLastUsed(p) ==
    /\ stale' = stale \ {clientOf[p]}
    /\ \/ /\ caller[p] = "counted"
          /\ caller' = [caller EXCEPT ![p] = "using"]
          /\ UNCHANGED clientOf
       \/ /\ caller[p] = "leaving"
          /\ caller' = [caller EXCEPT ![p] = "idle"]
          /\ clientOf' = [clientOf EXCEPT ![p] = NoClient]
    /\ UNCHANGED <<mapped, poolLocked, locked, clients, disposed, dead, refs, entryOf, janitor,
                   sweepVars>>

-----------------------------------------------------------------------------
(* The clients: time, the network and the watchers.                        *)

\* Time passes: the cutoff of the next sweep overtakes lastUsed.  A sweep under way
\* keeps the cutoff it has computed.
Age(s) ==
    /\ janitor = "waiting"
    /\ mapped # NoEntry /\ s \in ToSet(clients[mapped])
    /\ s \notin dead \cup stale
    /\ stale' = stale \cup {s}
    /\ UNCHANGED <<mapped, poolLocked, locked, clients, disposed, dead, refs, caller,
                   entryOf, clientOf, janitor, sweepVars>>

\* watch: the connection has ended, whoever ended it, and Wait has returned.  The
\* pool never looks at a connection: until then the client is like any other.
WatcherMarks(s) ==
    /\ \E e \in Entries : Reachable(e) /\ s \in ToSet(clients[e])
    /\ s \notin dead
    /\ dead' = dead \cup {s}
    /\ UNCHANGED <<mapped, poolLocked, locked, clients, disposed, stale, refs, caller, entryOf,
                   clientOf, janitor, sweepVars>>

WatcherPrunes(e) ==
    /\ Reachable(e) /\ e \notin locked
    /\ pruneDead(e) # clients[e]
    /\ clients' = [clients EXCEPT ![e] = pruneDead(e)]
    /\ UNCHANGED <<mapped, poolLocked, locked, disposed, slotVars, caller, entryOf, clientOf,
                   janitor, sweepVars>>

-----------------------------------------------------------------------------
(* The janitor.                                                            *)

JanitorLocks(work) ==
    /\ janitor = "waiting"
    /\ janitor' = work
    /\ poolLocked' = TRUE
    /\ UNCHANGED <<mapped, locked, clients, disposed, slotVars, caller, entryOf, clientOf,
                   sweepVars>>

\* The cutoff is computed and p.mu taken.  A sweep that would find no entry is
\* left out.
Tick == mapped # NoEntry /\ JanitorLocks("sweeping")

Stop == JanitorLocks("stopping")

\* The sweep has e.mu: the loop over the slots begins.
SweepLocks ==
    /\ janitor = "sweeping" /\ mapped \notin locked
    /\ janitor' = "loop"
    /\ locked' = locked \cup {mapped}
    /\ scan' = 1 /\ gone' = {}
    /\ late' = {p \in Callers : caller[p] = "picked"}
    /\ UNCHANGED <<mapped, poolLocked, clients, disposed, slotVars, caller, entryOf, clientOf>>

Looked == clients[mapped][scan]

\* The sweep goes on to "next" with the slot it looks at, or leaves it.
SameSlot(next) ==
    /\ janitor' = next
    /\ UNCHANGED <<dead, scan, gone>>

NextSlot(drops, closes) ==
    /\ janitor' = "loop"
    /\ scan' = scan + 1
    /\ gone' = gone \cup drops
    /\ dead' = dead \cup closes

Sweeping(at) ==
    /\ janitor = at /\ scan \in DOMAIN clients[mapped]
    /\ UNCHANGED <<mapped, poolLocked, locked, clients, disposed, stale, refs, caller, entryOf,
                   clientOf, late>>

\* Mutant: the references are not looked at.
LoadRefsIgnored ==
    /\ Sweeping("loop")
    /\ \/ Looked \in dead /\ NextSlot({Looked}, {})
       \/ Looked \notin dead /\ SameSlot("age")

\* dead.Load and refs.Load: a watcher's mark between the two might as well come
\* after them, since who reads it holds e.mu.
LoadRefs ==
    /\ Sweeping("loop")
    /\ \/ Looked \in dead /\ NextSlot({Looked}, {})
       \/ Looked \notin dead /\ refs[Looked] # 0 /\ NextSlot({}, {})
       \/ Looked \notin dead /\ refs[Looked] = 0 /\ SameSlot("age")

\* Mutant: the comparison with the cutoff is the wrong way round.
LoadLastUsedInverted ==
    /\ Sweeping("age")
    /\ \/ Looked \in stale /\ NextSlot({}, {})
       \/ Looked \notin stale /\ SameSlot("close")

LoadLastUsed ==
    /\ Sweeping("age")
    /\ \/ Looked \notin stale /\ NextSlot({}, {})
       \/ Looked \in stale /\ SameSlot("close")

\* Close, and dead.Store, which only holders of e.mu act on.
CloseIdle == Sweeping("close") /\ NextSlot({Looked}, {Looked})

\* e.clients = live; an entry left empty goes from the map; both locks are given back.
SweepEnds ==
    LET left == Without(clients[mapped], gone)
    IN  /\ janitor = "loop" /\ scan \notin DOMAIN clients[mapped]
        /\ janitor' = "waiting"
        /\ poolLocked' = FALSE
        /\ locked' = locked \ {mapped}
        /\ clients' = [clients EXCEPT ![mapped] = left]
        /\ mapped' = IF left = <<>> THEN NoEntry ELSE mapped
        /\ scan' = 0 /\ gone' = {} /\ late' = {}
        /\ UNCHANGED <<disposed, slotVars, caller, entryOf, clientOf>>

sweep == SweepLocks \/ LoadRefs \/ LoadLastUsed \/ CloseIdle \/ SweepEnds

shutdown ==
    /\ janitor = "stopping" /\ mapped \notin locked
    /\ janitor' = "stopped"
    /\ poolLocked' = FALSE
    /\ \/ /\ mapped = NoEntry
          /\ UNCHANGED <<mapped, disposed, dead>>
       \/ /\ mapped # NoEntry
          /\ dead' = dead \cup ToSet(clients[mapped])
          /\ disposed' = disposed \cup {mapped}
          /\ mapped' = NoEntry
    /\ UNCHANGED <<clients, locked, stale, refs, caller, entryOf, clientOf, sweepVars>>

-----------------------------------------------------------------------------

Dials(p) == Connected(p) \/ ConnectFails(p)

\* The steps of a call that wait for a mutex, and those that do not.
Waits(p) == FindEntry(p) \/ pickOrSpawn(p)

Proceeds(p) == Dials(p) \/ Count(p) \/ StoreLastUsed(p)

Janitor == Tick \/ sweep \/ shutdown

PoolNext ==
    \/ \E p \in Callers :
        Acquire(p) \/ Waits(p) \/ Proceeds(p) \/ release(p)
    \/ \E s \in Clients : Age(s) \/ WatcherMarks(s)
    \/ \E e \in Entries : WatcherPrunes(e)
    \/ Stop
    \/ Janitor

\* Goroutines run, dials end by their timeout, the ticker ticks, lastUsed gets
\* old.  A Go mutex hands itself to a waiter that has starved, hence the strong
\* fairness of what waits for one.  Nobody owes an Acquire or a release.
PoolFairness ==
    /\ \A p \in Callers :
        /\ SF_poolVars(Waits(p))
        /\ WF_poolVars(Proceeds(p))
    /\ WF_poolVars(Janitor)

PoolSpec == PoolInit /\ [][PoolNext]_poolVars /\ PoolFairness

-----------------------------------------------------------------------------
(* Properties.                                                             *)

\* A client's refs is the number of callers that have counted it and not released
\* it, however Acquire's counting outside the locks interleaves with the sweep.
PoolTypeOK ==
    /\ mapped \in Entries \cup {NoEntry}
    /\ poolLocked \in BOOLEAN
    /\ locked \subseteq Entries
    /\ clients \in [Entries -> Seq(Clients)]
    /\ disposed \subseteq Entries
    /\ dead \subseteq Clients /\ stale \subseteq Clients
    /\ refs \in [Clients -> 0..Cardinality(Callers)]
    /\ \A s \in Clients : refs[s] = Cardinality(Users(s))
    /\ caller \in [Callers -> CallerSteps]
    /\ entryOf \in [Callers -> Entries \cup {NoEntry}]
    /\ clientOf \in [Callers -> Clients \cup {NoClient}]
    /\ janitor \in JanitorSteps
    /\ scan \in Nat /\ gone \subseteq Clients /\ late \subseteq Callers

\* The sweep closes a client under nobody but callers that had been handed it and
\* had not counted it yet when the sweep took e.mu: whoever had counted by then, and
\* whoever acquires later, keeps its client until it releases it, although the
\* sweep loads refs, loads lastUsed and closes in three steps that exclude neither
\* the counting nor the stores (sweep, Acquire's lines after pickOrSpawn).
EvictionSparesUsers ==
    [][CloseIdle => Holders(Looked) \subseteq late]_poolVars

\* An entry that shutdown has disposed of never gets a living client again, from
\* callers who found it before and wait for its lock (the disposed flag).
DisposedStaysClosed ==
    \A e \in disposed :
        /\ \A s \in ToSet(clients[e]) : Reachable(e) => s \in dead
        /\ \A p \in Callers : caller[p] = "dialing" => entryOf[p] # e

\* Every Acquire returns, with a client or an error: the two mutexes are taken in
\* one order and given back on every path (Acquire, sweep, shutdown, watch).
AcquireReturns ==
    \A p \in Callers :
        caller[p] \in {"calling", "found", "dialing", "picked", "counted"}
        ~> caller[p] \in {"idle", "using"}

\* A client of the mapped entry that nobody uses is closed in the end ("lets the
\* janitor reclaim idle clients"), or used again, or the janitor has stopped.
IdleReclaimed ==
    \A s \in Clients :
        mapped # NoEntry /\ s \in ToSet(clients[mapped]) /\ s \in stale /\ refs[s] = 0
        ~> s \in dead \/ s \notin stale \/ refs[s] > 0 \/ janitor = "stopped"

=============================================================================
