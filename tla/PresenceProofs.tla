--------------------------- MODULE PresenceProofs ---------------------------
(* Theorems about Presence, for every number of sockets, instances, faults *)
(* and every lease that outlasts the heartbeats that may be missed.        *)
EXTENDS Presence, FiniteSetTheorems, SequenceTheorems, TLAPS

(* Disconnect handlers run for sockets that are closed.                    *)
DropsAreClosed == \A s \in Socks : drop[s] # "none" => s \notin live

(* Removals are under way on an instance that is about to close its        *)
(* sockets, and one that has closed them has none left.                    *)
StopsInOrder ==
    \A s \in Socks :
        /\ s \in releasing => phase[at[s]] = "releasing"
        /\ s \in live => phase[at[s]] # "closed"

(* What is left of the lease while a socket is connected to an instance    *)
(* that runs: it was whole when the instance last beat, and has lost one   *)
(* for each beat missed.                                                   *)
Unbeaten(i) == IF i \in beaten THEN 0 ELSE 1

Served(s) == Connected(s) /\ phase[at[s]] = "up"

LeaseHolds ==
    \A s \in Socks :
        Served(s) => lease + missed[at[s]] + Unbeaten(at[s]) >= Lease

PresenceInv ==
    /\ TypeOK
    /\ DropsAreClosed
    /\ StopsInOrder
    /\ LeaseHolds
    /\ PresentWhileConnected
    /\ OnlineWasAnnounced

LEMMA InitInv == Init => PresenceInv
<1> SUFFICES ASSUME Init PROVE PresenceInv
  OBVIOUS
<1>1. <<>> \in Seq(BOOLEAN)
  OBVIOUS
<1>2. news \in [Instances -> Seq(BOOLEAN)]
  BY <1>1, Zenon DEF Init
<1>3. snap \in BOOLEAN /\ view \in BOOLEAN
  BY Zenon DEF Init
<1>4. TypeOK
  BY <1>2, <1>3, PresenceAssumption DEF Init, TypeOK
<1> QED
  BY <1>4 DEF Init, PresenceInv, DropsAreClosed, StopsInOrder,
              LeaseHolds, Served, PresentWhileConnected, OnlineWasAnnounced,
              Connected

(* The announcements in flight keep their type.                            *)
LEMMA BroadcastTyped ==
    ASSUME TypeOK, NEW i \in Instances, NEW b \in BOOLEAN, Broadcast(i, b)
    PROVE  news' \in [Instances -> Seq(BOOLEAN)]
<1>1. Append(news[i], b) \in Seq(BOOLEAN)
  BY DEF TypeOK
<1> QED
  BY <1>1 DEF TypeOK, Broadcast

LEMMA HearTyped ==
    ASSUME TypeOK, NEW i \in Instances, Hear(i)
    PROVE  news' \in [Instances -> Seq(BOOLEAN)] /\ view' \in BOOLEAN
<1>1. news[i] \in Seq(BOOLEAN) /\ news[i] # <<>>
  BY DEF TypeOK, Hear
<1>2. Tail(news[i]) \in Seq(BOOLEAN) /\ Head(news[i]) \in BOOLEAN
  BY <1>1, HeadTailProperties
<1>3. view' = view \/ view' = Head(news[i])
  BY DEF Hear
<1>4. view' \in BOOLEAN
  BY <1>2, <1>3 DEF TypeOK
<1> QED
  BY <1>2, <1>4 DEF TypeOK, Hear

(* Redis reports the first socket of a user as a transition: it is about   *)
(* to be announced.                                                        *)
LEMMA FirstIsTold ==
    ASSUME TypeOK, NEW s \in Socks, AddConnection(s), conns = {}
    PROVE  setup'[s] = "say"
<1>1. Cardinality(conns') = 1
  BY FS_Singleton DEF AddConnection
<1> QED
  BY <1>1 DEF AddConnection, Announcing, TypeOK

(* Types: one step per action.                                             *)
LEMMA TypeStep ==
    ASSUME TypeOK, [Next]_vars
    PROVE  TypeOK'
<1> USE PresenceAssumption
<1> USE DEF TypeOK, sockets, timers, seen, stops
<1>1. ASSUME NEW s \in Socks, NEW i \in Instances, Open(s, i) PROVE TypeOK'
  BY <1>1 DEF Open
<1>2. ASSUME NEW s \in Socks, Handlers(s) PROVE TypeOK'
  <2>1. CASE Register(s)
    BY <2>1 DEF Register
  <2>2. CASE AddConnection(s)
    BY <2>2 DEF AddConnection, Announcing
  <2>3. CASE AnnounceOnline(s)
    <3>1. news' \in [Instances -> Seq(BOOLEAN)]
      BY <2>3, BroadcastTyped DEF AnnounceOnline
    <3> QED
      BY <2>3, <3>1 DEF AnnounceOnline
  <2>4. CASE RemoveConnection(s)
    BY <2>4 DEF RemoveConnection, Remove
  <2>5. CASE AnnounceOffline(s)
    <3>1. news' \in [Instances -> Seq(BOOLEAN)]
      BY <2>5, BroadcastTyped DEF AnnounceOffline
    <3> QED
      BY <2>5, <3>1 DEF AnnounceOffline
  <2>6. CASE ReleaseLease(s)
    BY <2>6 DEF ReleaseLease, Remove
  <2> QED
    BY <1>2, <2>1, <2>2, <2>3, <2>4, <2>5, <2>6 DEF Handlers
<1>3. ASSUME NEW s \in Socks, SetupFails(s) PROVE TypeOK'
  BY <1>3 DEF SetupFails, Silenced, Fault
<1>4. ASSUME NEW s \in Socks, Close(s) PROVE TypeOK'
  BY <1>4 DEF Close
<1>5. ASSUME NEW s \in Socks, OnDisconnectFails(s) PROVE TypeOK'
  BY <1>5 DEF OnDisconnectFails, Fault
<1>6. ASSUME NEW i \in Instances, Beat(i) PROVE TypeOK'
  BY <1>6 DEF Beat
<1>7. ASSUME NEW i \in Instances, MissBeat(i) PROVE TypeOK'
  BY <1>7 DEF MissBeat
<1>8. ASSUME NEW i \in Instances, Crash(i) PROVE TypeOK'
  BY <1>8 DEF Crash, Replaced, Silenced, Fault
<1>9. ASSUME NEW i \in Instances, StopInstance(i) PROVE TypeOK'
  BY <1>9 DEF StopInstance, Fault
<1>10. ASSUME NEW i \in Instances, ReleaseFails(i) PROVE TypeOK'
  BY <1>10 DEF ReleaseFails
<1>11. ASSUME NEW i \in Instances, Stopping(i) PROVE TypeOK'
  <2>1. CASE CloseSockets(i)
    BY <2>1 DEF CloseSockets
  <2>2. CASE Exit(i)
    BY <2>2 DEF Exit, Replaced
  <2> QED
    BY <1>11, <2>1, <2>2 DEF Stopping
<1>12. CASE Tick
  BY <1>12 DEF Tick
<1>13. CASE Watching
  <2>1. CASE WatcherJoins
    BY <2>1 DEF WatcherJoins
  <2>2. CASE ReadSnapshot
    BY <2>2 DEF ReadSnapshot
  <2>3. CASE SnapshotArrives
    BY <2>3 DEF SnapshotArrives
  <2>4. ASSUME NEW i \in Instances, Hear(i) PROVE TypeOK'
    <3>1. news' \in [Instances -> Seq(BOOLEAN)] /\ view' \in BOOLEAN
      BY <2>4, HearTyped
    <3> QED
      BY <2>4, <3>1 DEF Hear
  <2> QED
    BY <1>13, <2>1, <2>2, <2>3, <2>4 DEF Watching
<1>14. CASE WatcherDrops
  BY <1>14 DEF WatcherDrops
<1>15. CASE UNCHANGED vars
  BY <1>15 DEF vars
<1> QED
  BY <1>1, <1>2, <1>3, <1>4, <1>5, <1>6, <1>7, <1>8, <1>9, <1>10, <1>11,
     <1>12, <1>13, <1>14, <1>15 DEF Next

(* The rest of the invariant: a step that could free a connected socket    *)
(* from the set, or shorten its lease, does not.                           *)
LEMMA SafetyStep ==
    ASSUME PresenceInv, TypeOK', [Next]_vars
    PROVE  /\ DropsAreClosed' /\ StopsInOrder' /\ LeaseHolds'
           /\ PresentWhileConnected' /\ OnlineWasAnnounced'
<1> DEFINE Kept == /\ DropsAreClosed' /\ StopsInOrder' /\ LeaseHolds'
                   /\ PresentWhileConnected' /\ OnlineWasAnnounced'
<1> USE PresenceAssumption
<1> USE DEF PresenceInv, TypeOK, DropsAreClosed, StopsInOrder, LeaseHolds,
            Unbeaten, PresentWhileConnected, OnlineWasAnnounced, Served,
            Connected, sockets, timers, seen, stops
<1>1. ASSUME NEW s \in Socks, NEW i \in Instances, Open(s, i) PROVE Kept
  BY <1>1 DEF Open
<1>2. ASSUME NEW s \in Socks, Handlers(s) PROVE Kept
  <2>1. CASE Register(s)
    BY <2>1 DEF Register
  <2>2. CASE AddConnection(s)
    <3>1. OnlineWasAnnounced'
      <4>1. CASE conns = {}
        BY <2>2, <4>1, FirstIsTold
      <4>2. CASE conns # {}
        BY <2>2, <4>2 DEF AddConnection, Announcing
      <4> QED
        BY <4>1, <4>2
    <3>2. DropsAreClosed' /\ StopsInOrder'
      BY <2>2 DEF AddConnection
    <3>3. \A t \in Socks \ {s} : Served(t)' => Served(t)
      BY <2>2 DEF AddConnection, Announcing
    <3>4. LeaseHolds' /\ PresentWhileConnected'
      BY <2>2, <3>3 DEF AddConnection
    <3> QED
      BY <3>1, <3>2, <3>4
  <2>3. CASE AnnounceOnline(s)
    BY <2>3 DEF AnnounceOnline
  <2>4. CASE RemoveConnection(s)
    <3>1. \A t \in Socks : Served(t) => t \in conns' /\ lease' = lease
      BY <2>4 DEF RemoveConnection, Remove
    <3>2. OnlineWasAnnounced'
      BY <2>4 DEF RemoveConnection, Remove
    <3>3. DropsAreClosed' /\ StopsInOrder'
      BY <2>4 DEF RemoveConnection
    <3> QED
      BY <2>4, <3>1, <3>2, <3>3 DEF RemoveConnection
  <2>5. CASE AnnounceOffline(s)
    BY <2>5 DEF AnnounceOffline
  <2>6. CASE ReleaseLease(s)
    <3>1. \A t \in Socks : Served(t) => t \in conns' /\ lease' = lease
      BY <2>6 DEF ReleaseLease, Remove
    <3>2. OnlineWasAnnounced'
      BY <2>6 DEF ReleaseLease, Remove
    <3>3. DropsAreClosed' /\ StopsInOrder'
      BY <2>6 DEF ReleaseLease
    <3> QED
      BY <2>6, <3>1, <3>2, <3>3 DEF ReleaseLease
  <2> QED
    BY <1>2, <2>1, <2>2, <2>3, <2>4, <2>5, <2>6 DEF Handlers
<1>3. ASSUME NEW s \in Socks, SetupFails(s) PROVE Kept
  BY <1>3 DEF SetupFails, Silenced
<1>4. ASSUME NEW s \in Socks, Close(s) PROVE Kept
  BY <1>4 DEF Close
<1>5. ASSUME NEW s \in Socks, OnDisconnectFails(s) PROVE Kept
  BY <1>5 DEF OnDisconnectFails
<1>6. ASSUME NEW i \in Instances, Beat(i) PROVE Kept
  <2>1. \A s \in Socks : Served(s)' => Served(s) /\ s \in conns'
    BY <1>6 DEF Beat
  <2>2. ASSUME NEW s \in Socks, Served(s)
        PROVE  lease' + missed'[at[s]] + (IF at[s] \in beaten' THEN 0 ELSE 1)
                 >= Lease
    <3>1. CASE at[s] = i
      <4>1. s \in live /\ conns # {}
        BY <2>2
      <4>2. lease' = Lease
        BY <1>6, <3>1, <4>1 DEF Beat
      <4> QED
        BY <1>6, <3>1, <4>2 DEF Beat
    <3>2. CASE at[s] # i
      <4>1. missed'[at[s]] = missed[at[s]]
        BY <1>6, <3>2 DEF Beat
      <4>2. at[s] \in beaten' <=> at[s] \in beaten
        BY <1>6, <3>2 DEF Beat
      <4>3. lease' = lease \/ lease' = Lease
        BY <1>6 DEF Beat
      <4>4. /\ Lease \in Nat /\ lease \in Nat
            /\ missed[at[s]] \in Nat
        OBVIOUS
      <4>5. lease + missed[at[s]] + (IF at[s] \in beaten THEN 0 ELSE 1) >= Lease
        BY <2>2
      <4> HIDE DEF PresenceInv, TypeOK, Connected, Served
      <4>6. CASE lease' = Lease
        BY <4>1, <4>4, <4>6
      <4>7. CASE lease' = lease
        BY <4>1, <4>2, <4>5, <4>7
      <4> QED
        BY <4>3, <4>6, <4>7
    <3> QED
      BY <3>1, <3>2
  <2>3. LeaseHolds'
    BY <1>6, <2>1, <2>2 DEF Beat
  <2> QED
    BY <1>6, <2>1, <2>3 DEF Beat
<1>7. ASSUME NEW i \in Instances, MissBeat(i) PROVE Kept
  <2>1. ASSUME NEW s \in Socks, Served(s)
        PROVE  lease + missed'[at[s]] + (IF at[s] \in beaten' THEN 0 ELSE 1)
                 >= Lease
    <3>1. lease + missed[at[s]] + (IF at[s] \in beaten THEN 0 ELSE 1) >= Lease
      BY <2>1
    <3>2. Lease \in Nat /\ lease \in Nat /\ missed[at[s]] \in Nat
      OBVIOUS
    <3> HIDE DEF PresenceInv, TypeOK, Connected, Served
    <3>3. CASE at[s] = i
      <4>1. at[s] \in Instances /\ missed \in [Instances -> 0 .. MaxMisses]
        BY DEF PresenceInv, TypeOK
      <4>2. missed'[at[s]] = missed[at[s]] + 1 /\ at[s] \notin beaten
        BY <1>7, <3>3, <4>1 DEF MissBeat
      <4>3. at[s] \in beaten' /\ lease' = lease
        BY <1>7, <3>3 DEF MissBeat
      <4>4. lease + missed[at[s]] + 1 >= Lease
        BY <3>1, <4>2
      <4> QED
        BY <3>2, <4>2, <4>3, <4>4
    <3>4. CASE at[s] # i
      <4>1. /\ missed'[at[s]] = missed[at[s]]
            /\ at[s] \in beaten' <=> at[s] \in beaten
            /\ lease' = lease
        BY <1>7, <3>4 DEF MissBeat, PresenceInv, TypeOK
      <4> QED
        BY <3>1, <4>1
    <3> QED
      BY <3>3, <3>4
  <2>2. LeaseHolds'
    BY <1>7, <2>1 DEF MissBeat
  <2>3. DropsAreClosed' /\ StopsInOrder'
    BY <1>7 DEF MissBeat
  <2>4. PresentWhileConnected' /\ OnlineWasAnnounced'
    BY <1>7 DEF MissBeat
  <2> QED
    BY <2>2, <2>3, <2>4
<1>8. ASSUME NEW i \in Instances, Crash(i) PROVE Kept
  <2>1. ASSUME NEW s \in Socks, s \in live'
        PROVE  /\ s \in live /\ at[s] # i
               /\ setup'[s] = setup[s] /\ drop'[s] = drop[s]
               /\ phase'[at[s]] = phase[at[s]]
               /\ missed'[at[s]] = missed[at[s]]
               /\ at[s] \in beaten' <=> at[s] \in beaten
    BY <1>8, <2>1 DEF Crash, Replaced, On
  <2>2. DropsAreClosed' /\ StopsInOrder'
    BY <1>8 DEF Crash, Replaced, On
  <2>3. LeaseHolds' /\ PresentWhileConnected'
    BY <1>8, <2>1 DEF Crash
  <2>4. OnlineWasAnnounced'
    BY <1>8 DEF Crash, Replaced, Silenced, On
  <2> QED
    BY <2>2, <2>3, <2>4
<1>9. ASSUME NEW i \in Instances, StopInstance(i) PROVE Kept
  BY <1>9 DEF StopInstance, On
<1>10. ASSUME NEW i \in Instances, ReleaseFails(i) PROVE Kept
  BY <1>10 DEF ReleaseFails
<1>11. ASSUME NEW i \in Instances, Stopping(i) PROVE Kept
  <2>1. CASE CloseSockets(i)
    BY <2>1 DEF CloseSockets, On
  <2>2. CASE Exit(i)
    <3>1. ASSUME NEW s \in Socks, s \in live
          PROVE  /\ at[s] # i
                 /\ setup'[s] = setup[s] /\ drop'[s] = drop[s]
                 /\ phase'[at[s]] = phase[at[s]]
                 /\ missed'[at[s]] = missed[at[s]]
                 /\ at[s] \in beaten' <=> at[s] \in beaten
      BY <2>2, <3>1 DEF Exit, Replaced, On
    <3>2. DropsAreClosed' /\ StopsInOrder'
      BY <2>2 DEF Exit, Replaced, On
    <3>3. LeaseHolds' /\ PresentWhileConnected'
      BY <2>2, <3>1 DEF Exit
    <3>4. OnlineWasAnnounced'
      BY <2>2 DEF Exit, Replaced, On
    <3> QED
      BY <3>2, <3>3, <3>4
  <2> QED
    BY <1>11, <2>1, <2>2 DEF Stopping
<1>12. CASE Tick
  <2>1. \A t \in Socks : Served(t) => lease > 1
    BY <1>12 DEF Tick
  <2> QED
    BY <1>12, <2>1 DEF Tick
<1>13. CASE Watching
  BY <1>13 DEF Watching, WatcherJoins, ReadSnapshot, SnapshotArrives, Hear
<1>14. CASE WatcherDrops
  BY <1>14 DEF WatcherDrops
<1>15. CASE UNCHANGED vars
  BY <1>15 DEF vars
<1> QED
  BY <1>1, <1>2, <1>3, <1>4, <1>5, <1>6, <1>7, <1>8, <1>9, <1>10, <1>11,
     <1>12, <1>13, <1>14, <1>15 DEF Next

(* What the results below rest on.                                         *)
THEOREM PresenceInvariant == Spec => []PresenceInv
<1>1. PresenceInv /\ [Next]_vars => PresenceInv'
  <2> SUFFICES ASSUME PresenceInv, [Next]_vars PROVE PresenceInv'
    OBVIOUS
  <2>1. TypeOK'
    BY TypeStep DEF PresenceInv
  <2> QED
    BY <2>1, SafetyStep DEF PresenceInv
<1> QED
  BY InitInv, <1>1, PTL DEF Spec

(* The state keeps its type, and a presence key its lease.                 *)
THEOREM PresenceTypeCorrect == Spec => []TypeOK
BY PresenceInvariant, PTL DEF PresenceInv

(* However late the heartbeats, while MaxMisses is kept to, and whatever   *)
(* other instances do: a socket that is connected to an instance stays in  *)
(* the presence set, until that instance itself begins to shut down.       *)
THEOREM ConnectedIsPresent == Spec => []PresentWhileConnected
BY PresenceInvariant, PTL DEF PresenceInv

(* While the set has members the user was announced, is about to be, or    *)
(* the handler that was to announce them has failed.                       *)
THEOREM OnlineIsTold == Spec => []OnlineWasAnnounced
BY PresenceInvariant, PTL DEF PresenceInv

(* A ghost ages: without a socket, open or being added, nothing gives the  *)
(* set time or members.                                                    *)
THEOREM GhostsAge == Spec => GhostsOnlyAge
<1>1. TypeOK /\ [Next]_vars =>
        [live = {} /\ (\A s \in Socks : setup[s] # "add")
           => lease' <= lease /\ conns' \subseteq conns]_vars
  <2> SUFFICES ASSUME TypeOK, [Next]_vars, live = {},
                      \A s \in Socks : setup[s] # "add"
               PROVE  lease' <= lease /\ conns' \subseteq conns
    OBVIOUS
  <2> DEFINE Fades == lease' <= lease /\ conns' \subseteq conns
  <2> USE PresenceAssumption DEF TypeOK, sockets, timers, seen
  <2>1. ASSUME UNCHANGED <<conns, lease>> PROVE Fades
    BY <2>1
  <2>2. ASSUME NEW gone, Remove(gone) PROVE Fades
    BY <2>2 DEF Remove
  <2>3. ASSUME NEW s \in Socks, Handlers(s) PROVE Fades
    <3>1. CASE RemoveConnection(s) \/ ReleaseLease(s)
      BY <3>1, <2>2 DEF RemoveConnection, ReleaseLease
    <3> QED
      BY <2>1, <2>3, <3>1 DEF Handlers, Register, AddConnection,
                              AnnounceOnline, AnnounceOffline
  <2>4. ASSUME NEW i \in Instances, Beat(i) PROVE Fades
    BY <2>4 DEF Beat
  <2>5. ASSUME NEW i \in Instances,
               StopInstance(i) \/ ReleaseFails(i) \/ Stopping(i)
        PROVE  Fades
    BY <2>1, <2>5 DEF StopInstance, ReleaseFails, Stopping, CloseSockets, Exit
  <2>6. CASE Tick
    BY <2>6 DEF Tick
  <2>7. CASE WatcherDrops \/ Watching \/ UNCHANGED vars
    BY <2>1, <2>7 DEF WatcherDrops, Watching, WatcherJoins, ReadSnapshot,
                      SnapshotArrives, Hear, vars
  <2>8. ASSUME NEW s \in Socks,
               \/ \E i \in Instances : Open(s, i)
               \/ SetupFails(s) \/ Close(s) \/ OnDisconnectFails(s)
        PROVE  Fades
    BY <2>1, <2>8 DEF Open, SetupFails, Close, OnDisconnectFails
  <2>9. ASSUME NEW i \in Instances, MissBeat(i) \/ Crash(i) PROVE Fades
    BY <2>1, <2>9 DEF MissBeat, Crash
  <2> QED
    BY <2>3, <2>4, <2>5, <2>6, <2>7, <2>8, <2>9 DEF Next
<1> QED
  BY PresenceTypeCorrect, <1>1, PTL DEF Spec, GhostsOnlyAge
=============================================================================
