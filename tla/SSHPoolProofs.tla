--------------------------- MODULE SSHPoolProofs ---------------------------
(***************************************************************************)
(* Proofs about SSHPool, for every finite set of callers, of entries and   *)
(* of clients and every session limit.                                     *)
(***************************************************************************)
EXTENDS SSHPool, ListProofs, FiniteSetTheorems

-----------------------------------------------------------------------------
(* The parts of the inductive invariant.                                   *)

\* Every variable has its shape, and a caller that needs an entry or a client
\* has one; a sweep has an entry to sweep.
Shape ==
    /\ mapped \in Entries \cup {NoEntry}
    /\ poolLocked \in BOOLEAN
    /\ locked \subseteq Entries
    /\ clients \in [Entries -> Seq(Clients)]
    /\ disposed \subseteq Entries
    /\ dead \subseteq Clients /\ stale \subseteq Clients
    /\ refs \in [Clients -> Int]
    /\ caller \in [Callers -> CallerSteps]
    /\ entryOf \in [Callers -> Entries \cup {NoEntry}]
    /\ clientOf \in [Callers -> Clients \cup {NoClient}]
    /\ janitor \in JanitorSteps
    /\ scan \in Nat /\ gone \subseteq Clients /\ late \subseteq Callers
    /\ \A p \in Callers : caller[p] \in {"found", "dialing"} => entryOf[p] \in Entries
    /\ \A p \in Callers :
        caller[p] \in {"picked", "counted", "using", "leaving"} => clientOf[p] \in Clients
    /\ janitor \in {"sweeping", "loop", "age", "close"} => mapped # NoEntry

\* refs counts the users.
Counted == \A s \in Clients : refs[s] = Cardinality(Users(s))

\* The sweep is in its loop over the slots.
Scanning == janitor \in {"loop", "age", "close"}

\* Who dials holds e.mu, alone; a sweep in its loop holds it as well.
DialsLocked ==
    /\ \A p \in Callers : caller[p] = "dialing" => entryOf[p] \in locked
    /\ \A p, q \in Callers :
        caller[p] = "dialing" /\ caller[q] = "dialing" /\ entryOf[p] = entryOf[q] => p = q
    /\ Scanning => /\ mapped \in locked
                   /\ \A p \in Callers : caller[p] = "dialing" => entryOf[p] # mapped

\* The key never leads to an entry that was shut down.
MappedIsOpen == mapped \notin disposed

\* No client is in the lists of two entries.
Apart ==
    \A e, f \in Entries :
        Reachable(e) /\ Reachable(f) /\ e # f => ToSet(clients[e]) \cap ToSet(clients[f]) = {}

\* While the sweep has e.mu, who has been handed a client of the entry and not
\* counted it was so when the sweep took e.mu; once refs has been found 0, every
\* holder of the client under the sweep's eyes is one of those.
LateInv ==
    /\ Scanning => \A p \in Callers :
        caller[p] = "picked" /\ clientOf[p] \in ToSet(clients[mapped]) => p \in late
    /\ janitor \in {"age", "close"} =>
        /\ scan \in DOMAIN clients[mapped]
        /\ Holders(Looked) \subseteq late

PoolInv ==
    /\ Shape /\ Counted /\ DialsLocked /\ MappedIsOpen /\ DisposedStaysClosed
    /\ Apart /\ LateInv

-----------------------------------------------------------------------------
(* What the helpers return.                                                *)

\* Changing a function at one argument keeps its type.
LEMMA UpdateType ==
    ASSUME NEW S, NEW T, NEW f \in [S -> T], NEW x, NEW v \in T
    PROVE  [f EXCEPT ![x] = v] \in [S -> T]
  OBVIOUS

\* pruneDead leaves the clients that are not dead.
LEMMA PruneHolds ==
    ASSUME Shape, NEW e \in Entries
    PROVE  /\ pruneDead(e) \in Seq(Clients)
           /\ ToSet(pruneDead(e)) = ToSet(clients[e]) \ dead
  BY WithoutHolds DEF Shape, pruneDead

\* pickAvailable returns a client or nothing.
LEMMA PickHolds ==
    ASSUME Shape, NEW e \in Entries
    PROVE  /\ pickAvailable(e) \in Clients \cup {NoClient}
           /\ pickAvailable(e) # NoClient => pickAvailable(e) \in ToSet(clients[e])
<1> DEFINE usable == Without(pruneDead(e), Full)
<1>1. usable \in Seq(Clients) /\ ToSet(usable) \subseteq ToSet(clients[e])
  BY PruneHolds, WithoutHolds
<1> HIDE DEF usable
<1>2. usable # <<>> => Head(usable) \in Clients /\ Head(usable) \in ToSet(usable)
  BY <1>1 DEF ToSet
<1> QED BY <1>1, <1>2 DEF pickAvailable, usable

\* An entry that is turned from keeps its list or nothing.
LEMMA KeptHolds ==
    ASSUME NEW p, NEW e, NEW list \in Seq(Clients)
    PROVE  /\ Kept(p, e, list) \in Seq(Clients)
           /\ ToSet(Kept(p, e, list)) \subseteq ToSet(list)
<1>1. ToSet(<<>>) = {}
  BY DEF ToSet
<1> QED BY <1>1 DEF Kept

\* A new client is one that nobody follows.
LEMMA SpareHolds ==
    ASSUME SpareClients # {}
    PROVE  /\ (CHOOSE x \in SpareClients : TRUE) \in Clients
           /\ ~Followed(CHOOSE x \in SpareClients : TRUE)
  BY DEF SpareClients

\* What a sweep leaves of the entry.
LEMMA SweepHolds ==
    ASSUME Shape, mapped \in Entries
    PROVE  /\ Without(clients[mapped], gone) \in Seq(Clients)
           /\ ToSet(Without(clients[mapped], gone)) = ToSet(clients[mapped]) \ gone
           /\ ToSet(clients[mapped]) \subseteq Clients
<1>1. clients[mapped] \in Seq(Clients)
  BY DEF Shape
<1>2. ToSet(clients[mapped]) \subseteq Clients
  BY <1>1 DEF ToSet
<1> QED BY <1>1, <1>2, WithoutHolds

\* The slot the sweep looks at is one of the entry's.
LEMMA LookedHolds ==
    ASSUME Shape, mapped \in Entries, scan \in DOMAIN clients[mapped]
    PROVE  Looked \in Clients /\ Looked \in ToSet(clients[mapped])
<1>1. clients[mapped] \in Seq(Clients)
  BY DEF Shape
<1> QED BY <1>1 DEF Looked, ToSet

-----------------------------------------------------------------------------
(* Shapes.                                                                 *)

\* The pool starts well shaped.
LEMMA ShapeInit == PoolInit => Shape
<1> SUFFICES ASSUME PoolInit PROVE Shape
  OBVIOUS
<1> USE DEF PoolInit
<1>1. clients \in [Entries -> Seq(Clients)]
  <2> DEFINE lists == Seq(Clients)
  <2>1. <<>> \in lists
    OBVIOUS
  <2> HIDE DEF lists
  <2>2. clients \in [Entries -> lists]
    BY <2>1
  <2> QED BY <2>2 DEF lists
<1>2. refs \in [Clients -> Int] /\ \A p \in Callers : caller[p] = "idle"
  OBVIOUS
<1> QED BY <1>1, <1>2 DEF Shape, CallerSteps, JanitorSteps

\* A caller's steps keep the shapes.
LEMMA ShapeCaller ==
    ASSUME Shape, NEW p \in Callers,
           Acquire(p) \/ Waits(p) \/ Proceeds(p) \/ release(p)
    PROVE  Shape'
<1> USE DEF Shape, slotVars, sweepVars, CallerSteps
<1>0. <<>> \in Seq(Clients)
  OBVIOUS
<1>1. CASE Acquire(p)
  BY <1>1 DEF Acquire
<1>2. CASE FindEntry(p)
  <2>1. CASE mapped # NoEntry /\ entryOf' = [entryOf EXCEPT ![p] = mapped]
             /\ UNCHANGED <<mapped, clients, disposed>>
    BY <1>2, <2>1 DEF FindEntry
  <2>2. CASE mapped = NoEntry
    <3>1. PICK e \in SpareEntries :
            /\ mapped' = e
            /\ entryOf' = [entryOf EXCEPT ![p] = e]
            /\ clients' = [clients EXCEPT ![e] = <<>>]
            /\ disposed' = disposed \ {e}
      BY <1>2, <2>2 DEF FindEntry
    <3>2. e \in Entries
      BY DEF SpareEntries
    <3>3. mapped' # NoEntry
      BY <3>1, <3>2, PoolAssumption
    <3> QED BY <1>0, <1>2, <3>1, <3>2, <3>3 DEF FindEntry
  <2> QED BY <1>2, <2>1, <2>2 DEF FindEntry
<1>3. CASE pickOrSpawn(p)
  <2> DEFINE e == entryOf[p]
             s == pickAvailable(e)
             pruned == pruneDead(e)
             kept == Kept(p, e, pruned)
  <2>1. e \in Entries /\ caller[p] = "found"
    BY <1>3 DEF pickOrSpawn
  <2>2. s \in Clients \cup {NoClient} /\ pruned \in Seq(Clients)
    BY <2>1, PickHolds, PruneHolds
  <2>3. kept \in Seq(Clients)
    BY <2>2, KeptHolds
  <2>4. /\ clientOf' = [clientOf EXCEPT ![p] = s]
        /\ \/ /\ caller' = [caller EXCEPT ![p] = IF s # NoClient THEN "picked" ELSE "idle"]
              /\ entryOf' = [entryOf EXCEPT ![p] = NoEntry]
              /\ clients' = [clients EXCEPT ![e] = kept]
              /\ UNCHANGED locked
           \/ /\ caller' = [caller EXCEPT ![p] = "dialing"]
              /\ clients' = [clients EXCEPT ![e] = pruned]
              /\ locked' = locked \cup {e}
              /\ UNCHANGED entryOf
        /\ UNCHANGED <<mapped, poolLocked, disposed, dead, stale, refs, janitor, scan, gone, late>>
    BY <1>3 DEF pickOrSpawn
  <2> HIDE DEF e, s, pruned, kept
  <2>5. clients' \in [Entries -> Seq(Clients)]
    <3>1. clients' = [clients EXCEPT ![e] = kept] \/ clients' = [clients EXCEPT ![e] = pruned]
      BY <2>4
    <3>2. clients \in [Entries -> Seq(Clients)]
      BY DEF Shape
    <3>3. CASE clients' = [clients EXCEPT ![e] = kept]
      BY <2>3, <3>2, <3>3, UpdateType
    <3>4. CASE clients' = [clients EXCEPT ![e] = pruned]
      BY <2>2, <3>2, <3>4, UpdateType
    <3> QED BY <3>1, <3>3, <3>4
  <2>9. locked' \subseteq Entries
    BY <2>1, <2>4
  <2>6. /\ clientOf' \in [Callers -> Clients \cup {NoClient}]
        /\ entryOf' \in [Callers -> Entries \cup {NoEntry}]
        /\ caller' \in [Callers -> CallerSteps]
    BY <2>1, <2>2, <2>4
  <2>7. \A q \in Callers : caller'[q] \in {"found", "dialing"} => entryOf'[q] \in Entries
    BY <2>1, <2>4 DEF e
  <2>8. \A q \in Callers : caller'[q] \in {"picked", "counted", "using", "leaving"} =>
            clientOf'[q] \in Clients
    BY <2>1, <2>2, <2>4
  <2> QED BY <2>4, <2>5, <2>9, <2>6, <2>7, <2>8
<1>4. CASE Connected(p)
  <2> DEFINE e == entryOf[p]
             s == CHOOSE x \in SpareClients : TRUE
             list == Append(clients[e], s)
             kept == Kept(p, e, list)
  <2>1. e \in Entries /\ s \in Clients
    BY <1>4, SpareHolds DEF Connected
  <2>2. list \in Seq(Clients)
    BY <2>1
  <2>3. kept \in Seq(Clients)
    BY <2>2, KeptHolds
  <2>4. /\ caller' = [caller EXCEPT ![p] = "picked"]
        /\ entryOf' = [entryOf EXCEPT ![p] = NoEntry]
        /\ clientOf' = [clientOf EXCEPT ![p] = s]
        /\ clients' = [clients EXCEPT ![e] = kept]
        /\ dead' = dead \ {s}
        /\ stale' = stale \ {s}
        /\ refs' = [refs EXCEPT ![s] = 0]
        /\ locked' = locked \ {e}
        /\ UNCHANGED <<mapped, poolLocked, disposed, janitor, scan, gone, late>>
    BY <1>4, <2>1 DEF Connected
  <2> HIDE DEF e, s, list, kept
  <2> QED BY <2>1, <2>3, <2>4
<1>5. CASE ConnectFails(p)
  <2> DEFINE e == entryOf[p]
             kept == Kept(p, e, clients[e])
  <2>1. e \in Entries
    BY <1>5 DEF ConnectFails
  <2>2. kept \in Seq(Clients)
    BY <2>1, KeptHolds
  <2>3. clients' = [clients EXCEPT ![e] = kept]
    BY <1>5, <2>1 DEF ConnectFails
  <2> HIDE DEF e, kept
  <2>4. clients' \in [Entries -> Seq(Clients)]
    BY <2>1, <2>2, <2>3
  <2> QED BY <1>5, <2>4 DEF ConnectFails
<1>6. CASE Count(p)
  BY <1>6 DEF Count
<1>7. CASE release(p)
  BY <1>7 DEF release
<1>8. CASE StoreLastUsed(p)
  BY <1>8 DEF StoreLastUsed
<1> QED BY <1>1, <1>2, <1>3, <1>4, <1>5, <1>6, <1>7, <1>8 DEF Waits, Proceeds, Dials

\* The steps of the clients, the watchers and the janitor keep the shapes.
LEMMA ShapeStep == Shape /\ [PoolNext]_poolVars => Shape'
<1> SUFFICES ASSUME Shape, [PoolNext]_poolVars PROVE Shape'
  OBVIOUS
<1>0. CASE UNCHANGED poolVars
  BY <1>0 DEF Shape, poolVars, slotVars, sweepVars
<1>1. ASSUME NEW p \in Callers,
             Acquire(p) \/ Waits(p) \/ Proceeds(p) \/ release(p)
      PROVE  Shape'
  BY <1>1, ShapeCaller
<1>2. ASSUME NEW s \in Clients, Age(s) \/ WatcherMarks(s)
      PROVE  Shape'
  BY <1>2 DEF Shape, Age, WatcherMarks, sweepVars
<1>3. ASSUME NEW e \in Entries, WatcherPrunes(e)
      PROVE  Shape'
  <2>1. pruneDead(e) \in Seq(Clients)
    BY PruneHolds
  <2> QED BY <1>3, <2>1 DEF Shape, WatcherPrunes, slotVars, sweepVars
<1>4. CASE Stop \/ Tick
  BY <1>4 DEF Shape, Stop, Tick, JanitorLocks, slotVars, sweepVars, JanitorSteps
<1>5. CASE sweep
  <2>1. mapped \in Entries
    BY <1>5 DEF Shape, sweep, SweepLocks, LoadRefs, LoadLastUsed, CloseIdle, SweepEnds, Sweeping
  <2>2. CASE SweepLocks
    BY <2>1, <2>2 DEF SweepLocks, Shape, slotVars, JanitorSteps
  <2>3. CASE LoadRefs \/ LoadLastUsed \/ CloseIdle
    <3>1. /\ janitor' \in {"loop", "age", "close"} /\ scan' \in {scan, scan + 1}
          /\ gone' \subseteq gone \cup {Looked} /\ dead' \subseteq dead \cup {Looked}
          /\ scan \in DOMAIN clients[mapped]
          /\ UNCHANGED <<mapped, poolLocked, locked, clients, disposed, stale, refs, caller,
                         entryOf, clientOf, late>>
      BY <2>3 DEF LoadRefs, LoadLastUsed, CloseIdle, Sweeping, SameSlot, NextSlot
    <3>2. Looked \in Clients
      BY <2>1, <3>1, LookedHolds
    <3> QED BY <1>5, <2>1, <3>1, <3>2, PoolAssumption DEF Shape, JanitorSteps
  <2>4. CASE SweepEnds
    <3> DEFINE left == Without(clients[mapped], gone)
    <3>1. left \in Seq(Clients)
      BY <2>1, SweepHolds
    <3>2. /\ clients' = [clients EXCEPT ![mapped] = left]
          /\ mapped' = IF left = <<>> THEN NoEntry ELSE mapped
          /\ janitor' = "waiting" /\ poolLocked' = FALSE /\ locked' = locked \ {mapped}
          /\ scan' = 0 /\ gone' = {} /\ late' = {}
          /\ UNCHANGED <<disposed, dead, stale, refs, caller, entryOf, clientOf>>
      BY <2>4 DEF SweepEnds, slotVars
    <3> HIDE DEF left
    <3> QED BY <2>1, <3>1, <3>2 DEF Shape, JanitorSteps
  <2> QED BY <1>5, <2>2, <2>3, <2>4 DEF sweep
<1>6. CASE shutdown
  <2>1. mapped # NoEntry => mapped \in Entries /\ ToSet(clients[mapped]) \subseteq Clients
    BY SweepHolds DEF Shape
  <2> QED BY <1>6, <2>1 DEF Shape, shutdown, sweepVars, JanitorSteps
<1> QED BY <1>0, <1>1, <1>2, <1>3, <1>4, <1>5, <1>6 DEF PoolNext, Janitor

-----------------------------------------------------------------------------
(* What the steps of the janitor leave alone.                              *)

\* The loads and the close of a sweep touch no list, no lock and no caller.
LEMMA LoopSteps ==
    ASSUME LoadRefs \/ LoadLastUsed \/ CloseIdle
    PROVE  /\ Scanning /\ Scanning' /\ scan \in DOMAIN clients[mapped]
           /\ dead \subseteq dead'
           /\ UNCHANGED <<mapped, poolLocked, locked, clients, disposed, stale, refs, caller,
                          entryOf, clientOf, late>>
  BY DEF LoadRefs, LoadLastUsed, CloseIdle, Sweeping, SameSlot, NextSlot, Scanning

\* No step of the janitor touches the callers and what they count.
LEMMA JanitorFrame ==
    ASSUME Stop \/ Janitor
    PROVE  UNCHANGED <<refs, caller, entryOf, clientOf>>
  BY LoopSteps
     DEF Stop, Janitor, Tick, sweep, SweepLocks, SweepEnds, shutdown, JanitorLocks, slotVars

-----------------------------------------------------------------------------
(* The locks of the entries.                                               *)

\* e.mu is taken by a caller that dials only when it is free, and given back by
\* that caller alone.
LEMMA LockStep == Shape /\ DialsLocked /\ [PoolNext]_poolVars => DialsLocked'
<1> SUFFICES ASSUME Shape, DialsLocked, [PoolNext]_poolVars PROVE DialsLocked'
  OBVIOUS
<1> USE DEF Shape, DialsLocked, slotVars, Scanning
<1>1. ASSUME NEW p \in Callers, Acquire(p)
      PROVE  DialsLocked'
  BY <1>1 DEF Acquire
<1>2. ASSUME NEW p \in Callers, FindEntry(p)
      PROVE  DialsLocked'
  <2>1. /\ caller' = [caller EXCEPT ![p] = "found"] /\ UNCHANGED <<locked, janitor>>
        /\ \E e : entryOf' = [entryOf EXCEPT ![p] = e]
        /\ Scanning => mapped' = mapped
    BY <1>2 DEF FindEntry
  <2> QED BY <2>1
<1>3. ASSUME NEW p \in Callers, pickOrSpawn(p)
      PROVE  DialsLocked'
  <2>1. caller[p] = "found" /\ entryOf[p] \in Entries /\ entryOf[p] \notin locked
    BY <1>3 DEF pickOrSpawn
  <2>2. \/ /\ caller' = [caller EXCEPT ![p] = "dialing"]
           /\ locked' = locked \cup {entryOf[p]} /\ UNCHANGED entryOf
        \/ /\ \E to \in {"picked", "idle"} : caller' = [caller EXCEPT ![p] = to]
           /\ entryOf' = [entryOf EXCEPT ![p] = NoEntry] /\ UNCHANGED locked
    BY <1>3 DEF pickOrSpawn
  <2>6. UNCHANGED <<mapped, janitor>>
    BY <1>3 DEF pickOrSpawn
  <2>3. \A q \in Callers \ {p} :
            caller'[q] = caller[q] /\ entryOf'[q] = entryOf[q]
    BY <2>2
  <2>4. CASE caller'[p] # "dialing"
    <3>1. locked \subseteq locked'
      BY <2>2
    <3> QED BY <2>3, <2>4, <2>6, <3>1
  <2>5. CASE locked' = locked \cup {entryOf[p]} /\ UNCHANGED entryOf
    BY <2>1, <2>3, <2>5, <2>6
  <2> QED BY <2>2, <2>4, <2>5
<1>4. ASSUME NEW p \in Callers, Dials(p)
      PROVE  DialsLocked'
  <2>1. /\ caller[p] = "dialing" /\ locked' = locked \ {entryOf[p]}
        /\ \E to \in {"picked", "idle"} : caller' = [caller EXCEPT ![p] = to]
        /\ entryOf' = [entryOf EXCEPT ![p] = NoEntry]
        /\ UNCHANGED <<mapped, janitor>>
    BY <1>4 DEF Dials, Connected, ConnectFails
  <2>2. caller'[p] # "dialing"
    BY <2>1
  <2>3. \A q \in Callers \ {p} :
            caller'[q] = caller[q] /\ entryOf'[q] = entryOf[q]
    BY <2>1
  <2> QED BY <2>1, <2>2, <2>3
<1>5. ASSUME NEW p \in Callers, Count(p) \/ StoreLastUsed(p) \/ release(p)
      PROVE  DialsLocked'
  <2>1. /\ \E to \in {"counted", "using", "leaving", "idle"} :
            caller' = [caller EXCEPT ![p] = to]
        /\ UNCHANGED <<locked, entryOf, mapped, janitor>>
    BY <1>5 DEF Count, StoreLastUsed, release
  <2> QED BY <2>1
<1>6. ASSUME UNCHANGED <<locked, caller, entryOf, mapped>>, Scanning' => Scanning
      PROVE  DialsLocked'
  BY <1>6
<1>7. CASE UNCHANGED poolVars
  BY <1>6, <1>7 DEF poolVars
<1>8. ASSUME NEW s \in Clients, Age(s) \/ WatcherMarks(s)
      PROVE  DialsLocked'
  BY <1>6, <1>8 DEF Age, WatcherMarks
<1>9. ASSUME NEW e \in Entries, WatcherPrunes(e)
      PROVE  DialsLocked'
  BY <1>6, <1>9 DEF WatcherPrunes
<1>10. CASE Stop \/ Tick
  BY <1>6, <1>10 DEF Stop, Tick, JanitorLocks
<1>11. CASE SweepLocks
  BY <1>11 DEF SweepLocks
<1>12. CASE LoadRefs \/ LoadLastUsed \/ CloseIdle
  BY <1>6, <1>12, LoopSteps
<1>13. CASE SweepEnds
  <2>1. /\ Scanning /\ ~Scanning' /\ locked' = locked \ {mapped} /\ UNCHANGED <<caller, entryOf>>
    BY <1>13 DEF SweepEnds
  <2> QED BY <2>1
<1>14. CASE shutdown
  <2>1. ~Scanning' /\ UNCHANGED <<locked, caller, entryOf>>
    BY <1>14 DEF shutdown
  <2> QED BY <2>1
<1> QED BY <1>1, <1>2, <1>3, <1>4, <1>5, <1>7, <1>8, <1>9, <1>10, <1>11, <1>12, <1>13, <1>14
        DEF PoolNext, Waits, Proceeds, Janitor, sweep

-----------------------------------------------------------------------------
(* The references.                                                         *)

\* The users of a client are finitely many.
LEMMA UsersFinite ==
    ASSUME NEW s
    PROVE  /\ IsFiniteSet(Users(s))
           /\ Cardinality(Users(s)) \in 0..Cardinality(Callers)
<1>1. Users(s) \in SUBSET Callers
  BY DEF Users
<1>2. IsFiniteSet(Users(s)) /\ Cardinality(Users(s)) <= Cardinality(Callers)
  BY <1>1, PoolAssumption, FS_Subset
<1>3. Cardinality(Users(s)) \in Nat /\ Cardinality(Callers) \in Nat
  BY <1>2, PoolAssumption, FS_CardinalityType
<1> QED BY <1>2, <1>3

\* A step of a caller that is no user before or after it changes no set of users.
LEMMA UsersKept ==
    ASSUME Shape, Counted, NEW p \in Callers,
           caller[p] \notin {"counted", "using"}, caller'[p] \notin {"counted", "using"},
           \A q \in Callers \ {p} : caller'[q] = caller[q] /\ clientOf'[q] = clientOf[q],
           UNCHANGED refs
    PROVE  Counted'
<1>1. \A s \in Clients : Users(s)' = Users(s)
  BY DEF Users
<1> QED BY <1>1 DEF Counted

\* Counting outside the locks and the two exits keep refs exact.
LEMMA CountStep == Shape /\ Counted /\ [PoolNext]_poolVars => Counted'
<1> SUFFICES ASSUME Shape, Counted, [PoolNext]_poolVars PROVE Counted'
  OBVIOUS
<1>1. ASSUME NEW p \in Callers, Acquire(p) \/ FindEntry(p) \/ pickOrSpawn(p) \/ ConnectFails(p)
      PROVE  Counted'
  <2>1. /\ caller[p] \notin {"counted", "using"} /\ caller'[p] \notin {"counted", "using"}
        /\ UNCHANGED refs
    BY <1>1 DEF Shape, Acquire, FindEntry, pickOrSpawn, ConnectFails, slotVars
  <2>2. \A q \in Callers \ {p} : caller'[q] = caller[q] /\ clientOf'[q] = clientOf[q]
    BY <1>1 DEF Shape, Acquire, FindEntry, pickOrSpawn, ConnectFails, slotVars
  <2> QED BY <2>1, <2>2, UsersKept
<1>2. ASSUME NEW p \in Callers, Connected(p)
      PROVE  Counted'
  <2> DEFINE t == CHOOSE x \in SpareClients : TRUE
  <2>1. t \in Clients /\ ~Followed(t)
    BY <1>2, SpareHolds DEF Connected
  <2>2. /\ caller[p] = "dialing" /\ caller' = [caller EXCEPT ![p] = "picked"]
        /\ clientOf' = [clientOf EXCEPT ![p] = t]
        /\ refs' = [refs EXCEPT ![t] = 0]
    BY <1>2 DEF Connected
  <2> HIDE DEF t
  <2>3. \A s \in Clients : Users(s)' = Users(s)
    BY <2>2 DEF Users, Shape
  <2>4. Users(t) = {}
    BY <2>1 DEF Users, Followed
  <2>5. Cardinality(Users(t)) = 0
    BY <2>4, FS_EmptySet
  <2> QED BY <2>1, <2>2, <2>3, <2>5 DEF Counted, Shape
<1>3. ASSUME NEW p \in Callers, Count(p)
      PROVE  Counted'
  <2>0. PICK t \in Clients : t = clientOf[p]
    BY <1>3 DEF Count, Shape
  <2>1. /\ caller[p] = "picked" /\ caller' = [caller EXCEPT ![p] = "counted"]
        /\ clientOf' = clientOf /\ refs' = [refs EXCEPT ![t] = @ + 1]
    BY <1>3, <2>0 DEF Count, Shape
  <2>2. Users(t)' = Users(t) \cup {p} /\ p \notin Users(t)
    BY <2>0, <2>1 DEF Users, Shape
  <2>3. Cardinality(Users(t)') = Cardinality(Users(t)) + 1
    BY <2>2, UsersFinite, FS_AddElement
  <2>4. \A s \in Clients : s # t => Users(s)' = Users(s)
    BY <2>0, <2>1, PoolAssumption DEF Users, Shape
  <2> QED BY <2>1, <2>3, <2>4 DEF Counted, Shape
<1>4. ASSUME NEW p \in Callers, release(p)
      PROVE  Counted'
  <2>0. PICK t \in Clients : t = clientOf[p]
    BY <1>4 DEF release, Shape
  <2>1. /\ caller[p] = "using" /\ caller' = [caller EXCEPT ![p] = "leaving"]
        /\ clientOf' = clientOf
        /\ refs' = [refs EXCEPT ![t] = @ - 1]
    BY <1>4, <2>0 DEF release, Shape
  <2>2. Users(t)' = Users(t) \ {p} /\ p \in Users(t)
    BY <2>0, <2>1, PoolAssumption DEF Users, Shape
  <2>3. Cardinality(Users(t)') = Cardinality(Users(t)) - 1
    BY <2>2, UsersFinite, FS_RemoveElement
  <2>4. \A s \in Clients : s # t => Users(s)' = Users(s)
    BY <2>0, <2>1, PoolAssumption DEF Users, Shape
  <2> QED BY <2>1, <2>3, <2>4 DEF Counted, Shape
<1>5. ASSUME UNCHANGED <<refs, caller, clientOf>>
      PROVE  Counted'
  BY <1>5 DEF Counted, Users
<1>6. CASE UNCHANGED poolVars
  BY <1>5, <1>6 DEF poolVars, slotVars
<1>7. ASSUME NEW s \in Clients, Age(s) \/ WatcherMarks(s)
      PROVE  Counted'
  BY <1>5, <1>7 DEF Age, WatcherMarks
<1>8. ASSUME NEW e \in Entries, WatcherPrunes(e)
      PROVE  Counted'
  BY <1>5, <1>8 DEF WatcherPrunes, slotVars
<1>9. CASE Stop \/ Janitor
  BY <1>5, <1>9, JanitorFrame
<1>10. ASSUME NEW p \in Callers, StoreLastUsed(p)
       PROVE  Counted'
  <2>1. \A s \in Clients : Users(s)' = Users(s)
    BY <1>10, PoolAssumption DEF StoreLastUsed, Users, Shape
  <2> QED BY <1>10, <2>1 DEF StoreLastUsed, Counted
<1> QED BY <1>1, <1>2, <1>3, <1>4, <1>6, <1>7, <1>8, <1>9, <1>10
        DEF PoolNext, Waits, Proceeds, Dials

-----------------------------------------------------------------------------
(* An entry that was shut down.                                            *)

\* The flag is never set on the entry of the key.
LEMMA MappedStep == Shape /\ MappedIsOpen /\ [PoolNext]_poolVars => MappedIsOpen'
<1> SUFFICES ASSUME Shape, MappedIsOpen, [PoolNext]_poolVars PROVE MappedIsOpen'
  OBVIOUS
<1>1. ASSUME UNCHANGED <<mapped, disposed>>
      PROVE  MappedIsOpen'
  BY <1>1 DEF MappedIsOpen
<1>2. ASSUME NEW p \in Callers, FindEntry(p)
      PROVE  MappedIsOpen'
  BY <1>1, <1>2 DEF FindEntry, MappedIsOpen
<1>3. ASSUME NEW p \in Callers,
             Acquire(p) \/ pickOrSpawn(p) \/ Proceeds(p) \/ release(p)
      PROVE  MappedIsOpen'
  BY <1>1, <1>3 DEF Acquire, pickOrSpawn, Proceeds, Dials, Connected, ConnectFails, Count,
                    StoreLastUsed, release
<1>4. ASSUME NEW s \in Clients, Age(s) \/ WatcherMarks(s)
      PROVE  MappedIsOpen'
  BY <1>1, <1>4 DEF Age, WatcherMarks
<1>5. ASSUME NEW e \in Entries, WatcherPrunes(e)
      PROVE  MappedIsOpen'
  BY <1>1, <1>5 DEF WatcherPrunes
<1>6. CASE Stop \/ Tick
  BY <1>1, <1>6 DEF Stop, Tick, JanitorLocks
<1>7. CASE SweepLocks \/ LoadRefs \/ LoadLastUsed \/ CloseIdle
  BY <1>1, <1>7, LoopSteps DEF SweepLocks
<1>8. CASE SweepEnds \/ shutdown
  BY <1>8, PoolAssumption DEF SweepEnds, shutdown, Shape, MappedIsOpen
<1>9. CASE UNCHANGED poolVars
  BY <1>1, <1>9 DEF poolVars
<1> QED BY <1>2, <1>3, <1>4, <1>5, <1>6, <1>7, <1>8, <1>9
        DEF PoolNext, Waits, Janitor, sweep

\* A step that lets nobody reach more entries, revives no client and adds none to
\* an entry, and starts no dial, cannot open an entry that was shut down.
LEMMA ClosedKept ==
    ASSUME Shape, DisposedStaysClosed,
           disposed' \subseteq disposed, dead \subseteq dead',
           \A e \in disposed : Reachable(e)' => Reachable(e),
           \A e \in disposed : ToSet(clients'[e]) \subseteq ToSet(clients[e]),
           \A p \in Callers : caller'[p] = "dialing" =>
                caller[p] = "dialing" /\ entryOf'[p] = entryOf[p]
    PROVE  DisposedStaysClosed'
  BY DEF DisposedStaysClosed, Shape

\* The steps of a caller.
LEMMA ClosedCaller ==
    ASSUME Shape, DialsLocked, MappedIsOpen, DisposedStaysClosed, NEW p \in Callers,
           Acquire(p) \/ Waits(p) \/ Proceeds(p) \/ release(p)
    PROVE  DisposedStaysClosed'
<1>0. ASSUME UNCHANGED <<disposed, dead, mapped, clients, entryOf>>,
             \A q \in Callers : caller'[q] = "dialing" => caller[q] = "dialing"
      PROVE  DisposedStaysClosed'
  BY <1>0, ClosedKept DEF Reachable
<1>1. CASE Acquire(p)
  <2>1. \A q \in Callers : caller'[q] = "dialing" => caller[q] = "dialing"
    BY <1>1 DEF Acquire, Shape
  <2> QED BY <1>0, <1>1, <2>1 DEF Acquire, slotVars
<1>2. CASE FindEntry(p)
  <2>1. /\ \A q \in Callers : caller'[q] = "dialing" =>
                caller[q] = "dialing" /\ entryOf'[q] = entryOf[q]
        /\ \A q \in Callers \ {p} : entryOf'[q] = entryOf[q]
        /\ entryOf'[p] = mapped' /\ UNCHANGED dead /\ disposed' = disposed \ {mapped'}
    BY <1>2 DEF FindEntry, Shape, slotVars, MappedIsOpen
  <2>2. CASE UNCHANGED <<mapped, clients, disposed>>
    <3>1. \A e \in disposed : Reachable(e)' => Reachable(e)
      BY <2>1, <2>2 DEF Reachable, MappedIsOpen
    <3> QED BY <2>1, <2>2, <3>1, ClosedKept
  <2>3. CASE mapped = NoEntry
    <3>1. /\ mapped' \in Entries /\ ~Reachable(mapped')
          /\ clients' = [clients EXCEPT ![mapped'] = <<>>]
      BY <1>2, <2>3 DEF FindEntry, SpareEntries
    <3>2. \A e \in disposed' : e # mapped' /\ (Reachable(e)' => Reachable(e))
                               /\ clients'[e] = clients[e]
      BY <2>1, <3>1 DEF Reachable, Shape
    <3> QED BY <2>1, <3>2 DEF DisposedStaysClosed
  <2> QED BY <1>2, <2>2, <2>3 DEF FindEntry
<1>3. CASE pickOrSpawn(p)
  <2> DEFINE e == entryOf[p]
             pruned == pruneDead(e)
             kept == Kept(p, e, pruned)
  <2>1. e \in Entries /\ pruned \in Seq(Clients) /\ ToSet(pruned) \subseteq ToSet(clients[e])
    BY <1>3, PruneHolds DEF pickOrSpawn, Shape
  <2>2. ToSet(kept) \subseteq ToSet(clients[e])
    BY <2>1, KeptHolds
  <2>3. /\ UNCHANGED <<mapped, disposed, dead>> /\ caller[p] = "found"
        /\ \/ /\ clients' = [clients EXCEPT ![e] = kept]
              /\ \E to \in {"picked", "idle"} : caller' = [caller EXCEPT ![p] = to]
              /\ entryOf' = [entryOf EXCEPT ![p] = NoEntry]
           \/ /\ clients' = [clients EXCEPT ![e] = pruned]
              /\ caller' = [caller EXCEPT ![p] = "dialing"]
              /\ e \notin disposed /\ UNCHANGED entryOf
    BY <1>3 DEF pickOrSpawn, Refuses, slotVars
  <2>4. \A x \in disposed : Reachable(x)' => Reachable(x)
    BY <2>3, PoolAssumption DEF Reachable, Shape
  <2> HIDE DEF e, pruned, kept
  <2>5. \A x \in Entries : ToSet(clients'[x]) \subseteq ToSet(clients[x])
    <3> SUFFICES ASSUME NEW x \in Entries PROVE ToSet(clients'[x]) \subseteq ToSet(clients[x])
      OBVIOUS
    <3>1. x # e => clients'[x] = clients[x]
      BY <2>3 DEF Shape
    <3>2. clients'[e] = kept \/ clients'[e] = pruned
      BY <2>1, <2>3 DEF Shape
    <3> QED BY <2>1, <2>2, <3>1, <3>2
  <2>6. \A q \in Callers, x \in disposed : caller'[q] = "dialing" => entryOf'[q] # x
    BY <2>3 DEF DisposedStaysClosed, Shape, e
  <2> QED BY <2>3, <2>4, <2>5, <2>6 DEF DisposedStaysClosed, Shape
<1>4. CASE Connected(p)
  <2> DEFINE e == entryOf[p]
             s == CHOOSE x \in SpareClients : TRUE
             kept == Kept(p, e, Append(clients[e], s))
  <2>1. s \in Clients /\ ~Followed(s)
    BY <1>4, SpareHolds DEF Connected
  <2>2. /\ caller[p] = "dialing" /\ UNCHANGED <<mapped, disposed>>
        /\ caller' = [caller EXCEPT ![p] = "picked"]
        /\ entryOf' = [entryOf EXCEPT ![p] = NoEntry]
        /\ clients' = [clients EXCEPT ![e] = kept]
        /\ dead' = dead \ {s} /\ e \in Entries
    BY <1>4 DEF Connected, Shape
  <2>3. e \notin disposed
    BY <2>2 DEF DisposedStaysClosed
  <2> HIDE DEF s, kept
  <2>4. \A x \in disposed : (Reachable(x)' => Reachable(x)) /\ clients'[x] = clients[x]
    BY <2>2, <2>3, PoolAssumption DEF Reachable, Shape
  <2>5. \A x \in disposed : Reachable(x) => s \notin ToSet(clients[x])
    BY <2>1 DEF Followed, Shape
  <2>6. \A q \in Callers, x \in disposed : caller'[q] = "dialing" => entryOf'[q] # x
    BY <2>2 DEF DisposedStaysClosed, Shape
  <2> QED BY <2>2, <2>4, <2>5, <2>6 DEF DisposedStaysClosed
<1>5. CASE ConnectFails(p)
  <2> DEFINE e == entryOf[p]
             kept == Kept(p, e, clients[e])
  <2>1. /\ caller[p] = "dialing" /\ UNCHANGED <<mapped, disposed, dead>>
        /\ caller' = [caller EXCEPT ![p] = "idle"]
        /\ entryOf' = [entryOf EXCEPT ![p] = NoEntry]
        /\ clients' = [clients EXCEPT ![e] = kept]
        /\ e \in Entries
    BY <1>5 DEF ConnectFails, Shape, slotVars
  <2>2. e \notin disposed
    BY <2>1 DEF DisposedStaysClosed
  <2> HIDE DEF kept
  <2>3. \A x \in disposed : (Reachable(x)' => Reachable(x)) /\ clients'[x] = clients[x]
    BY <2>1, <2>2, PoolAssumption DEF Reachable, Shape
  <2>4. \A q \in Callers : caller'[q] = "dialing" => caller[q] = "dialing" /\ entryOf'[q] = entryOf[q]
    BY <2>1 DEF Shape
  <2> QED BY <2>1, <2>3, <2>4, ClosedKept
<1>6. CASE Count(p) \/ StoreLastUsed(p) \/ release(p)
  <2>1. \A q \in Callers : caller'[q] = "dialing" => caller[q] = "dialing"
    BY <1>6 DEF Count, StoreLastUsed, release, Shape
  <2> QED BY <1>0, <1>6, <2>1 DEF Count, StoreLastUsed, release
<1> QED BY <1>1, <1>2, <1>3, <1>4, <1>5, <1>6 DEF Waits, Proceeds, Dials

\* The other steps; shutdown sets the flag when nobody dials for the entry.
LEMMA ClosedStep ==
    Shape /\ DialsLocked /\ MappedIsOpen /\ DisposedStaysClosed /\ [PoolNext]_poolVars
        => DisposedStaysClosed'
<1> SUFFICES ASSUME Shape, DialsLocked, MappedIsOpen, DisposedStaysClosed, [PoolNext]_poolVars
             PROVE  DisposedStaysClosed'
  OBVIOUS
<1>0. ASSUME UNCHANGED <<disposed, caller, entryOf>>, dead \subseteq dead',
             mapped' = mapped \/ mapped' = NoEntry,
             \A e \in Entries : ToSet(clients'[e]) \subseteq ToSet(clients[e])
      PROVE  DisposedStaysClosed'
  <2>1. \A e \in disposed : Reachable(e)' => Reachable(e)
    BY <1>0, PoolAssumption DEF Reachable, Shape
  <2> QED BY <1>0, <2>1, ClosedKept DEF Shape
<1>1. ASSUME NEW p \in Callers,
             Acquire(p) \/ Waits(p) \/ Proceeds(p) \/ release(p)
      PROVE  DisposedStaysClosed'
  BY <1>1, ClosedCaller
<1>2. ASSUME NEW s \in Clients, Age(s) \/ WatcherMarks(s)
      PROVE  DisposedStaysClosed'
  BY <1>0, <1>2 DEF Age, WatcherMarks
<1>3. ASSUME NEW e \in Entries, WatcherPrunes(e)
      PROVE  DisposedStaysClosed'
  <2>1. ToSet(pruneDead(e)) \subseteq ToSet(clients[e])
    BY PruneHolds
  <2>2. \A x \in Entries : ToSet(clients'[x]) \subseteq ToSet(clients[x])
    BY <1>3, <2>1 DEF WatcherPrunes, Shape
  <2> QED BY <1>0, <1>3, <2>2 DEF WatcherPrunes, slotVars
<1>4. CASE Stop \/ Tick
  BY <1>0, <1>4 DEF Stop, Tick, JanitorLocks, slotVars
<1>5. CASE SweepLocks \/ LoadRefs \/ LoadLastUsed \/ CloseIdle
  BY <1>0, <1>5, LoopSteps DEF SweepLocks, slotVars
<1>8. CASE SweepEnds
  <2> DEFINE left == Without(clients[mapped], gone)
  <2>1. mapped \in Entries
    BY <1>8 DEF Shape, SweepEnds
  <2>2. ToSet(left) \subseteq ToSet(clients[mapped])
    BY <2>1, SweepHolds
  <2>3. /\ clients' = [clients EXCEPT ![mapped] = left]
        /\ mapped' = IF left = <<>> THEN NoEntry ELSE mapped
        /\ UNCHANGED <<disposed, dead, caller, entryOf>>
    BY <1>8 DEF SweepEnds, slotVars
  <2> HIDE DEF left
  <2>4. \A x \in Entries : ToSet(clients'[x]) \subseteq ToSet(clients[x])
    BY <2>2, <2>3 DEF Shape
  <2> QED BY <1>0, <2>3, <2>4
<1>6. CASE shutdown
  <2>1. UNCHANGED <<clients, caller, entryOf>> /\ mapped \notin locked /\ dead \subseteq dead'
    BY <1>6 DEF shutdown
  <2>2. CASE mapped = NoEntry
    BY <1>0, <1>6, <2>1, <2>2 DEF shutdown
  <2>3. CASE mapped # NoEntry
    <3>1. /\ dead' = dead \cup ToSet(clients[mapped])
          /\ disposed' = disposed \cup {mapped} /\ mapped' = NoEntry
      BY <1>6, <2>3 DEF shutdown
    <3>2. \A p \in Callers : caller[p] = "dialing" => entryOf[p] # mapped
      BY <2>1 DEF DialsLocked
    <3>3. \A x \in disposed : Reachable(x)' => Reachable(x)
      BY <2>1, <3>1, PoolAssumption DEF Reachable, Shape
    <3> QED BY <2>1, <3>1, <3>2, <3>3 DEF DisposedStaysClosed
  <2> QED BY <2>2, <2>3
<1>7. CASE UNCHANGED poolVars
  BY <1>0, <1>7 DEF poolVars, slotVars
<1> QED BY <1>1, <1>2, <1>3, <1>4, <1>5, <1>6, <1>7, <1>8 DEF PoolNext, Janitor, sweep

-----------------------------------------------------------------------------
(* The lists of the entries, and the sweep's eyes on one of them.          *)

\* A step that lets nobody reach more entries and adds no client keeps the lists
\* apart.
LEMMA ApartKept ==
    ASSUME Apart, \A e \in Entries : Reachable(e)' => Reachable(e),
           \A e \in Entries : ToSet(clients'[e]) \subseteq ToSet(clients[e])
    PROVE  Apart'
  BY DEF Apart

\* A new client is nobody's yet, and the lists only shrink otherwise.
LEMMA ApartStep == Shape /\ Apart /\ [PoolNext]_poolVars => Apart'
<1> SUFFICES ASSUME Shape, Apart, [PoolNext]_poolVars PROVE Apart'
  OBVIOUS
<1>0. ASSUME UNCHANGED <<clients, mapped, entryOf>>
      PROVE  Apart'
  BY <1>0 DEF Apart, Reachable
<1>1. ASSUME NEW p \in Callers, Acquire(p) \/ Count(p) \/ StoreLastUsed(p) \/ release(p)
      PROVE  Apart'
  BY <1>0, <1>1 DEF Acquire, Count, StoreLastUsed, release
<1>2. ASSUME NEW p \in Callers, FindEntry(p)
      PROVE  Apart'
  <2>1. CASE mapped # NoEntry
    <3>1. UNCHANGED <<mapped, clients>> /\ entryOf' = [entryOf EXCEPT ![p] = mapped]
      BY <1>2, <2>1 DEF FindEntry
    <3>2. \A e \in Entries : Reachable(e)' => Reachable(e)
      BY <3>1 DEF Reachable, Shape
    <3> QED BY <3>1, <3>2, ApartKept
  <2>2. CASE mapped = NoEntry
    <3>1. PICK e \in Entries : /\ mapped' = e /\ entryOf' = [entryOf EXCEPT ![p] = e]
                               /\ clients' = [clients EXCEPT ![e] = <<>>]
      BY <1>2, <2>2 DEF FindEntry, SpareEntries
    <3>2. \A f \in Entries \ {e} : (Reachable(f)' => Reachable(f)) /\ clients'[f] = clients[f]
      BY <3>1 DEF Reachable, Shape
    <3>3. ToSet(clients'[e]) = {}
      BY <3>1 DEF Shape, ToSet
    <3> QED BY <3>2, <3>3 DEF Apart
  <2> QED BY <2>1, <2>2
<1>3. ASSUME NEW p \in Callers, pickOrSpawn(p) \/ ConnectFails(p)
      PROVE  Apart'
  <2> DEFINE e == entryOf[p]
  <2>1. e \in Entries /\ UNCHANGED mapped
    BY <1>3 DEF pickOrSpawn, ConnectFails, Shape
  <2>2. entryOf' = entryOf \/ entryOf' = [entryOf EXCEPT ![p] = NoEntry]
    BY <1>3 DEF pickOrSpawn, ConnectFails
  <2>3. PICK list : clients' = [clients EXCEPT ![e] = list]
                    /\ list \in {pruneDead(e), Kept(p, e, pruneDead(e)), Kept(p, e, clients[e])}
    BY <1>3 DEF pickOrSpawn, ConnectFails, Shape
  <2>4. ToSet(list) \subseteq ToSet(clients[e])
    <3>1. pruneDead(e) \in Seq(Clients) /\ ToSet(pruneDead(e)) \subseteq ToSet(clients[e])
      BY <2>1, PruneHolds
    <3>2. clients[e] \in Seq(Clients)
      BY <2>1 DEF Shape
    <3> HIDE DEF e
    <3> QED BY <2>3, <3>1, <3>2, KeptHolds
  <2>5. \A f \in Entries : Reachable(f)' => Reachable(f)
    BY <2>1, <2>2, PoolAssumption DEF Reachable, Shape
  <2> HIDE DEF e
  <2>6. \A f \in Entries : ToSet(clients'[f]) \subseteq ToSet(clients[f])
    BY <2>1, <2>3, <2>4 DEF Shape
  <2> QED BY <2>5, <2>6, ApartKept
<1>4. ASSUME NEW p \in Callers, Connected(p)
      PROVE  Apart'
  <2> DEFINE e == entryOf[p]
             s == CHOOSE x \in SpareClients : TRUE
             list == Kept(p, e, Append(clients[e], s))
  <2>1. s \in Clients /\ ~Followed(s) /\ e \in Entries
    BY <1>4, SpareHolds DEF Connected, Shape
  <2>2. /\ clients' = [clients EXCEPT ![e] = list]
        /\ entryOf' = [entryOf EXCEPT ![p] = NoEntry] /\ UNCHANGED mapped
    BY <1>4 DEF Connected, Shape
  <2>3. ToSet(list) \subseteq ToSet(clients[e]) \cup {s}
    <3>1. clients[e] \in Seq(Clients)
      BY <2>1 DEF Shape
    <3>2. Append(clients[e], s) \in Seq(Clients)
      BY <2>1, <3>1
    <3> HIDE DEF e, s
    <3>3. ToSet(Append(clients[e], s)) = ToSet(clients[e]) \cup {s}
      BY <2>1, <3>1, AppendMembers
    <3>4. ToSet(list) \subseteq ToSet(Append(clients[e], s))
      BY <3>2, KeptHolds
    <3> QED BY <3>3, <3>4
  <2>4. \A f \in Entries : Reachable(f)' => Reachable(f)
    BY <2>2, PoolAssumption DEF Reachable, Shape
  <2>5. Reachable(e)
    BY DEF Reachable
  <2> HIDE DEF e, s, list
  <2>6. \A f \in Entries \ {e} : clients'[f] = clients[f]
    BY <2>2 DEF Shape
  <2>7. ToSet(clients'[e]) \subseteq ToSet(clients[e]) \cup {s}
    BY <2>1, <2>2, <2>3 DEF Shape
  <2>8. \A f \in Entries : Reachable(f) => s \notin ToSet(clients[f])
    BY <2>1 DEF Followed
  <2> QED BY <2>4, <2>5, <2>6, <2>7, <2>8 DEF Apart
<1>5. ASSUME NEW s \in Clients, Age(s) \/ WatcherMarks(s)
      PROVE  Apart'
  BY <1>0, <1>5 DEF Age, WatcherMarks
<1>6. ASSUME NEW e \in Entries, WatcherPrunes(e)
      PROVE  Apart'
  <2>1. \A f \in Entries : ToSet(clients'[f]) \subseteq ToSet(clients[f])
    BY <1>6, PruneHolds DEF WatcherPrunes, Shape
  <2>2. \A f \in Entries : Reachable(f)' => Reachable(f)
    BY <1>6 DEF WatcherPrunes, Reachable
  <2> QED BY <2>1, <2>2, ApartKept
<1>7. CASE Stop \/ Tick \/ SweepLocks \/ LoadRefs \/ LoadLastUsed \/ CloseIdle
  BY <1>0, <1>7, LoopSteps DEF Stop, Tick, JanitorLocks, SweepLocks
<1>8. CASE SweepEnds \/ shutdown
  <2>1. \A f \in Entries : ToSet(clients'[f]) \subseteq ToSet(clients[f])
    <3>1. CASE SweepEnds
      <4>1. /\ mapped \in Entries
            /\ clients' = [clients EXCEPT ![mapped] = Without(clients[mapped], gone)]
        BY <3>1 DEF SweepEnds, Shape
      <4>2. ToSet(Without(clients[mapped], gone)) \subseteq ToSet(clients[mapped])
        BY <4>1, SweepHolds
      <4> QED BY <4>1, <4>2 DEF Shape
    <3>2. CASE shutdown
      BY <3>2 DEF shutdown
    <3> QED BY <1>8, <3>1, <3>2
  <2>2. \A f \in Entries : Reachable(f)' => Reachable(f)
    BY <1>8, PoolAssumption DEF SweepEnds, shutdown, Reachable
  <2> QED BY <2>1, <2>2, ApartKept
<1>9. CASE UNCHANGED poolVars
  BY <1>0, <1>9 DEF poolVars
<1> QED BY <1>1, <1>2, <1>3, <1>4, <1>5, <1>6, <1>7, <1>8, <1>9
        DEF PoolNext, Waits, Proceeds, Dials, Janitor, sweep

\* A caller's step during the loop leaves the list under the sweep's lock alone.
LEMMA LateKept ==
    ASSUME Shape, LateInv, UNCHANGED <<mapped, janitor, scan, late>>,
           Scanning => clients'[mapped] = clients[mapped],
           Scanning => \A p \in Callers :
             /\ caller'[p] = "picked" /\ clientOf'[p] \in ToSet(clients[mapped]) =>
                    caller[p] = "picked" /\ clientOf'[p] = clientOf[p]
             /\ caller'[p] \in {"counted", "using"} =>
                    /\ caller[p] \in {"picked", "counted", "using"}
                    /\ clientOf'[p] = clientOf[p]
    PROVE  LateInv'
<1>1. Scanning' = Scanning
  BY DEF Scanning
<1>2. ASSUME Scanning', NEW p \in Callers, caller'[p] = "picked",
             clientOf'[p] \in ToSet(clients'[mapped'])
      PROVE  p \in late'
  BY <1>1, <1>2 DEF LateInv
<1>3. ASSUME janitor' \in {"age", "close"}
      PROVE  scan' \in DOMAIN clients'[mapped'] /\ Holders(Looked)' \subseteq late'
  <2>1. /\ Scanning /\ mapped \in Entries /\ scan \in DOMAIN clients[mapped]
        /\ Looked' = Looked /\ Holders(Looked) \subseteq late
    BY <1>3 DEF LateInv, Scanning, Looked, Shape
  <2>2. Looked \in ToSet(clients[mapped])
    BY <2>1, LookedHolds
  <2>3. Holders(Looked)' \subseteq Holders(Looked)
    BY <2>1, <2>2 DEF Holders
  <2> QED BY <2>1, <2>3
<1> QED BY <1>2, <1>3 DEF LateInv

\* Nobody is handed a client of the entry while the sweep has e.mu, and a counted
\* client is never taken for idle.
LEMMA LateStep ==
    Shape /\ Counted /\ DialsLocked /\ Apart /\ LateInv /\ [PoolNext]_poolVars => LateInv'
<1> SUFFICES ASSUME Shape, Counted, DialsLocked, Apart, LateInv, [PoolNext]_poolVars PROVE LateInv'
  OBVIOUS
<1>0. ASSUME UNCHANGED <<mapped, janitor, scan, late, caller, clientOf>>,
             Scanning => clients'[mapped] = clients[mapped]
      PROVE  LateInv'
  BY <1>0, LateKept
<1>1. ASSUME NEW p \in Callers, Acquire(p) \/ Count(p) \/ StoreLastUsed(p) \/ release(p)
      PROVE  LateInv'
  <2>1. UNCHANGED <<mapped, janitor, scan, late, clients>>
    BY <1>1 DEF Acquire, Count, StoreLastUsed, release, sweepVars
  <2>2. \A q \in Callers :
             /\ caller'[q] = "picked" => caller[q] = "picked" /\ clientOf'[q] = clientOf[q]
             /\ caller'[q] \in {"counted", "using"} =>
                    caller[q] \in {"picked", "counted", "using"} /\ clientOf'[q] = clientOf[q]
    BY <1>1 DEF Acquire, Count, StoreLastUsed, release, Shape
  <2> QED BY <2>1, <2>2, LateKept
<1>2. ASSUME NEW p \in Callers, FindEntry(p)
      PROVE  LateInv'
  <2>1. CASE mapped = NoEntry
    <3>1. ~Scanning /\ janitor' = janitor
      BY <1>2, <2>1 DEF FindEntry, Scanning, Shape
    <3> QED BY <3>1 DEF LateInv, Scanning
  <2>2. CASE mapped # NoEntry
    <3>1. UNCHANGED <<mapped, janitor, scan, late, clients, clientOf>>
      BY <1>2, <2>2 DEF FindEntry, sweepVars
    <3>2. \A q \in Callers : caller'[q] \in {"picked", "counted", "using"} => caller'[q] = caller[q]
      BY <1>2 DEF FindEntry, Shape
    <3> QED BY <3>1, <3>2, LateKept
  <2> QED BY <2>1, <2>2
<1>3. ASSUME NEW p \in Callers, pickOrSpawn(p)
      PROVE  LateInv'
  <2> DEFINE e == entryOf[p]
             s == pickAvailable(e)
  <2>1. /\ e \in Entries /\ e \notin locked /\ UNCHANGED <<mapped, janitor, scan, late>>
        /\ \A f \in Entries \ {e} : clients'[f] = clients[f]
    BY <1>3 DEF pickOrSpawn, Shape, sweepVars
  <2>2. \A q \in Callers \ {p} : caller'[q] = caller[q] /\ clientOf'[q] = clientOf[q]
    BY <1>3 DEF pickOrSpawn, Shape
  <2>3. /\ caller'[p] \in {"picked", "idle", "dialing"} /\ clientOf'[p] = s
        /\ caller'[p] = "picked" => s # NoClient
    BY <1>3 DEF pickOrSpawn, Shape
  <2>4. ASSUME Scanning
        PROVE  /\ mapped \in Entries /\ e # mapped
               /\ s # NoClient => s \notin ToSet(clients[mapped])
    <3>1. mapped \in Entries /\ e # mapped
      BY <2>1, <2>4 DEF DialsLocked, Shape
    <3>2. Reachable(mapped) /\ Reachable(e)
      BY DEF Reachable
    <3>3. s # NoClient => s \in ToSet(clients[e])
      BY <2>1, PickHolds
    <3> QED BY <2>1, <3>1, <3>2, <3>3 DEF Apart
  <2> HIDE DEF e, s
  <2> QED BY <2>1, <2>2, <2>3, <2>4, LateKept
<1>4. ASSUME NEW p \in Callers, Dials(p)
      PROVE  LateInv'
  <2>1. /\ caller[p] = "dialing" /\ entryOf[p] \in Entries
        /\ UNCHANGED <<mapped, janitor, scan, late>>
        /\ \A f \in Entries \ {entryOf[p]} : clients'[f] = clients[f]
    BY <1>4 DEF Dials, Connected, ConnectFails, Shape, sweepVars
  <2>2. \A q \in Callers \ {p} : caller'[q] = caller[q] /\ clientOf'[q] = clientOf[q]
    BY <1>4 DEF Dials, Connected, ConnectFails, Shape
  <2>3. ASSUME Scanning PROVE mapped \in Entries /\ entryOf[p] # mapped /\ Reachable(mapped)
    BY <2>1, <2>3 DEF DialsLocked, Shape, Scanning, Reachable
  <2>4. ASSUME Scanning, caller'[p] = "picked" PROVE clientOf'[p] \notin ToSet(clients[mapped])
    <3> DEFINE s == CHOOSE x \in SpareClients : TRUE
    <3>1. Connected(p)
      BY <1>4, <2>4 DEF Dials, ConnectFails, Shape
    <3>2. clientOf'[p] = s /\ ~Followed(s)
      BY <3>1, SpareHolds DEF Connected, Shape
    <3> HIDE DEF s
    <3> QED BY <2>3, <2>4, <3>2 DEF Followed
  <2>5. caller'[p] \in {"picked", "idle"}
    BY <1>4 DEF Dials, Connected, ConnectFails, Shape
  <2> QED BY <2>1, <2>2, <2>3, <2>4, <2>5, LateKept
<1>5. ASSUME NEW s \in Clients, Age(s) \/ WatcherMarks(s)
      PROVE  LateInv'
  BY <1>0, <1>5 DEF Age, WatcherMarks, sweepVars
<1>6. ASSUME NEW e \in Entries, WatcherPrunes(e)
      PROVE  LateInv'
  <2>1. Scanning => clients'[mapped] = clients[mapped]
    BY <1>6 DEF WatcherPrunes, DialsLocked, Shape
  <2> QED BY <1>0, <1>6, <2>1 DEF WatcherPrunes, sweepVars
<1>7. CASE Stop \/ Tick \/ SweepEnds \/ shutdown
  <2>1. ~Scanning' /\ janitor' \notin {"age", "close"}
    BY <1>7 DEF Stop, Tick, JanitorLocks, SweepEnds, shutdown, Scanning
  <2> QED BY <2>1 DEF LateInv
<1>8. CASE SweepLocks
  BY <1>8 DEF SweepLocks, LateInv, Scanning
<1>9. CASE LoadRefs \/ LoadLastUsed \/ CloseIdle
  <2>1. /\ Scanning /\ scan \in DOMAIN clients[mapped] /\ mapped \in Entries
        /\ UNCHANGED <<mapped, clients, caller, clientOf, late>>
    BY <1>9, LoopSteps DEF Scanning, Shape
  <2>2. Looked \in Clients /\ Looked \in ToSet(clients[mapped])
    BY <2>1, LookedHolds
  <2>3. ASSUME janitor' \in {"age", "close"} PROVE scan' = scan /\ Holders(Looked) \subseteq late
    <3>1. CASE LoadRefs
      <4>1. refs[Looked] = 0 /\ scan' = scan
        BY <2>3, <3>1 DEF LoadRefs, NextSlot, SameSlot
      <4>2. Users(Looked) = {}
        BY <2>2, <4>1, UsersFinite, FS_EmptySet DEF Counted
      <4>3. \A p \in Holders(Looked) : p \in Callers /\ caller[p] = "picked" /\ clientOf[p] = Looked
        BY <4>2 DEF Holders, Users
      <4> QED BY <2>1, <2>2, <4>1, <4>3 DEF LateInv
    <3>2. CASE LoadLastUsed \/ CloseIdle
      BY <2>3, <3>2 DEF LoadLastUsed, CloseIdle, Sweeping, NextSlot, SameSlot, LateInv
    <3> QED BY <1>9, <3>1, <3>2
  <2>4. janitor' \in {"age", "close"} => Looked' = Looked
    BY <2>1, <2>3 DEF Looked
  <2>5. \A x : Holders(x)' = Holders(x)
    BY <2>1 DEF Holders
  <2> QED BY <2>1, <2>3, <2>4, <2>5 DEF LateInv
<1>10. CASE UNCHANGED poolVars
  BY <1>0, <1>10 DEF poolVars, sweepVars
<1> QED BY <1>1, <1>2, <1>3, <1>4, <1>5, <1>6, <1>7, <1>8, <1>9, <1>10
        DEF PoolNext, Waits, Proceeds, Janitor, sweep

-----------------------------------------------------------------------------
(* The theorems.                                                           *)

\* The seven parts hold together in every reachable state.
LEMMA PoolInvariant == PoolSpec => []PoolInv
<1>1. PoolInit => PoolInv
  <2> SUFFICES ASSUME PoolInit PROVE PoolInv
    OBVIOUS
  <2>1. Shape
    BY ShapeInit
  <2>2. \A s \in Clients : Users(s) = {}
    BY DEF PoolInit, Users
  <2>3. Counted
    BY <2>2, FS_EmptySet DEF PoolInit, Counted
  <2>4. DialsLocked /\ MappedIsOpen /\ DisposedStaysClosed /\ LateInv
    BY DEF PoolInit, DialsLocked, MappedIsOpen, DisposedStaysClosed, LateInv, Scanning
  <2>5. Apart
    BY PoolAssumption DEF PoolInit, Apart, Reachable
  <2> QED BY <2>1, <2>3, <2>4, <2>5 DEF PoolInv
<1>2. PoolInv /\ [PoolNext]_poolVars => PoolInv'
  BY ShapeStep, CountStep, LockStep, MappedStep, ClosedStep, ApartStep, LateStep DEF PoolInv
<1> QED BY <1>1, <1>2, PTL DEF PoolSpec

\* The pool keeps its shape, and refs is the number of callers that have counted
\* the client and not released it: Acquire counts after every lock is given back,
\* and no interleaving of callers, watchers and janitor loses a reference.
THEOREM ReferencesAreExact == PoolSpec => []PoolTypeOK
<1>1. PoolInv => PoolTypeOK
  <2> SUFFICES ASSUME PoolInv PROVE PoolTypeOK
    OBVIOUS
  <2>1. Shape /\ Counted
    BY DEF PoolInv
  <2>2. \A s \in Clients : refs[s] \in 0..Cardinality(Callers)
    BY <2>1, UsersFinite DEF Counted
  <2>3. refs \in [Clients -> 0..Cardinality(Callers)]
    BY <2>1, <2>2 DEF Shape
  <2> QED BY <2>1, <2>3 DEF PoolTypeOK, Shape, Counted
<1> QED BY <1>1, PoolInvariant, PTL

\* An entry that shutdown has disposed of never gets a living client again, and
\* nobody dials for it.
THEOREM ShutdownIsFinal == PoolSpec => []DisposedStaysClosed
<1>1. PoolInv => DisposedStaysClosed
  BY DEF PoolInv
<1> QED BY <1>1, PoolInvariant, PTL

\* The sweep closes a client under nobody but callers that had been handed it and
\* had not counted it when the sweep took e.mu, although its loads and its Close
\* are steps of their own and the counting holds no lock.
THEOREM SweepSparesUsers == PoolSpec => EvictionSparesUsers
<1>1. PoolInv /\ [PoolNext]_poolVars => [CloseIdle => Holders(Looked) \subseteq late]_poolVars
  BY DEF PoolInv, LateInv, CloseIdle, Sweeping
<1> QED BY <1>1, PoolInvariant, PTL DEF PoolSpec, EvictionSparesUsers

=============================================================================
