------------------------------ MODULE Presence ------------------------------
(***************************************************************************)
(* Whether one user is online, and whether one watcher knows.              *)
(*                                                                         *)
(* The user's sockets are spread over several instances.  Redis holds the  *)
(* set of their ids under a lease that each instance's heartbeat extends;  *)
(* the transitions of that set are announced to the conversation rooms,    *)
(* and a watcher who connects is sent a snapshot.                          *)
(*                                                                         *)
(* One Tick is one HEARTBEAT_MS.  Commands about one socket reach Redis,   *)
(* and the announcements of one instance reach the watcher, in the order   *)
(* they were sent; those of different instances do not.  A socket id is    *)
(* used again only when nothing of it is left, and then is a new one's.    *)
(*                                                                         *)
(* An instance that is told to stop beats no more, has the members of its  *)
(* sockets removed while these are still connected, closes them, and goes; *)
(* another process takes its place.                                        *)
(***************************************************************************)
EXTENDS Naturals, FiniteSets, Sequences

CONSTANTS
    Socks,                      \* the user's sockets
    Instances,                  \* server processes
    Lease,                      \* TTL_SECONDS, in heartbeats
    MaxMisses,                  \* heartbeats an instance misses in a row
    MaxNews,                    \* bound on announcements waiting to arrive
    MaxFaults                   \* bound on crashes, stops, failed queries

ASSUME PresenceAssumption ==
    /\ Lease \in Nat /\ MaxMisses \in Nat
    /\ MaxMisses + 2 <= Lease
    /\ MaxNews \in Nat
    /\ MaxFaults \in Nat

VARIABLES
    live,                       \* sockets whose transport is open
    at,                         \* the instance of each socket
    setup,                      \* where its connection handler has got
    drop,                       \* where its disconnect handler has got
    conns,                      \* the members of presence:conns:<user>
    lease,                      \* what is left of its TTL
    beaten,                     \* instances whose heartbeat ran this Tick
    missed,                     \* heartbeats missed in a row
    phase,                      \* how far each instance has shut down
    releasing,                  \* sockets its removals under way are of
    told,                       \* what was announced of the present members
    news,                       \* presence:update in flight, per instance
    watcher,                    \* the watcher's connection
    snap,                       \* the snapshot read for it
    view,                       \* presence[user] in the watcher's tab
    faults

sockets == <<live, at, setup, drop>>
timers == <<beaten, missed>>
seen == <<watcher, snap, view>>
stops == <<phase, releasing>>
vars == <<live, at, setup, drop, conns, lease, beaten, missed, phase, releasing,
          told, news, watcher, snap, view, faults>>

Init ==
    /\ live = {}
    /\ at \in [Socks -> Instances]
    /\ setup = [s \in Socks |-> "done"]
    /\ drop = [s \in Socks |-> "none"]
    /\ conns = {} /\ lease = 0
    /\ beaten = {} /\ missed = [i \in Instances |-> 0]
    /\ phase = [i \in Instances |-> "up"] /\ releasing = {}
    /\ told = "nothing"
    /\ news = [i \in Instances |-> <<>>]
    /\ watcher = "off" /\ snap = FALSE /\ view = FALSE
    /\ faults = 0

Fault == faults < MaxFaults /\ faults' = faults + 1

On(i) == {s \in Socks : at[s] = i}

(* io.to(rooms).emit(presence:update).                                     *)
Broadcast(i, online) ==
    /\ \A j \in Instances : Len(news[j]) < MaxNews
    /\ news' = [news EXCEPT ![i] = Append(@, online)]

-----------------------------------------------------------------------------
(* A socket of the user connects: the handler first awaits memberships.    *)
Open(s, i) ==
    /\ s \notin live \union conns \union releasing
    /\ setup[s] = "done" /\ drop[s] = "none"
    /\ phase[i] # "closed"
    /\ live' = live \union {s}
    /\ at' = [at EXCEPT ![s] = i]
    /\ setup' = [setup EXCEPT ![s] = "member"]
    /\ UNCHANGED <<drop, conns, lease, timers, stops, told, news, seen, faults>>

(* Rooms, handlers, and the command of addConnection sent, in one turn.    *)
Register(s) ==
    /\ setup[s] = "member"
    /\ setup' = [setup EXCEPT ![s] = "add"]
    /\ UNCHANGED <<live, at, drop, conns, lease, timers, stops, told, news, seen,
                   faults>>

(* What dies with those of quiet, who had still to announce that the user  *)
(* is online.                                                              *)
Silenced(quiet) ==
    told' = IF told = "nothing" /\ \E s \in quiet : setup[s] = "say"
            THEN "lost" ELSE told

(* The query or the command throws, or the command's reply is lost; the    *)
(* catch disconnects.                                                      *)
SetupFails(s) ==
    /\ Fault
    /\ setup[s] \in {"member", "add", "say"}
    /\ Silenced({s})
    /\ setup' = [setup EXCEPT ![s] = "done"]
    /\ live' = live \ {s}
    /\ drop' = IF setup[s] # "member" /\ s \in live
               THEN [drop EXCEPT ![s] = "remove"] ELSE drop
    /\ UNCHANGED <<at, conns, lease, timers, stops, news, seen>>

Announcing(s, first) ==
    setup' = [setup EXCEPT ![s] = IF first THEN "say" ELSE "done"]

(* Mutant: the set is extended without its lease.                          *)
AddWithoutExpire(s) ==
    /\ setup[s] = "add"
    /\ conns' = conns \union {s}
    /\ Announcing(s, Cardinality(conns') = 1)
    /\ UNCHANGED <<live, at, drop, lease, timers, stops, told, news, seen, faults>>

(* Mutant: the size is taken before the socket is added.                   *)
AddComparingBefore(s) ==
    /\ setup[s] = "add"
    /\ conns' = conns \union {s}
    /\ lease' = Lease
    /\ Announcing(s, Cardinality(conns) = 1)
    /\ UNCHANGED <<live, at, drop, timers, stops, told, news, seen, faults>>

(* SADD, EXPIRE, SCARD: the first socket will be announced, once the reply *)
(* is there.                                                               *)
AddConnection(s) ==
    /\ setup[s] = "add"
    /\ conns' = conns \union {s}
    /\ lease' = Lease
    /\ Announcing(s, Cardinality(conns') = 1)
    /\ UNCHANGED <<live, at, drop, timers, stops, told, news, seen, faults>>

AnnounceOnline(s) ==
    /\ setup[s] = "say"
    /\ setup' = [setup EXCEPT ![s] = "done"]
    /\ Broadcast(at[s], TRUE)
    /\ told' = IF conns = {} THEN told ELSE "online"
    /\ UNCHANGED <<live, at, drop, conns, lease, timers, stops, seen, faults>>

-----------------------------------------------------------------------------
(* The transport closes.  The disconnect handler was registered with the   *)
(* others: a socket that closes before that is never removed.              *)
Close(s) ==
    /\ s \in live
    /\ live' = live \ {s}
    /\ drop' = IF setup[s] = "member" THEN drop
               ELSE [drop EXCEPT ![s] = "remove"]
    /\ UNCHANGED <<at, setup, conns, lease, timers, stops, told, news, seen,
                   faults>>

(* What removing ids from the set leaves of the key; without members there *)
(* is nothing left to announce.                                            *)
Remove(gone) ==
    /\ conns' = conns \ gone
    /\ lease' = IF conns' = {} THEN 0 ELSE lease
    /\ told' = IF conns' = {} THEN "nothing" ELSE told

(* Mutant: the key is deleted, whoever else is in it.                      *)
RemoveDeletingKey(s) ==
    /\ drop[s] = "remove" /\ setup[s] # "add" /\ s \notin releasing
    /\ Remove(conns)
    /\ drop' = [drop EXCEPT ![s] = "say"]
    /\ UNCHANGED <<live, at, setup, timers, stops, news, seen, faults>>

(* SREM, SCARD: behind what else is on its way of this socket.             *)
RemoveConnection(s) ==
    /\ drop[s] = "remove" /\ setup[s] # "add" /\ s \notin releasing
    /\ Remove({s})
    /\ drop' = [drop EXCEPT ![s] = IF conns' = {} THEN "say" ELSE "none"]
    /\ UNCHANGED <<live, at, setup, timers, stops, news, seen, faults>>

(* After last_seen_at is written and the memberships are read again.       *)
AnnounceOffline(s) ==
    /\ drop[s] = "say"
    /\ drop' = [drop EXCEPT ![s] = "none"]
    /\ Broadcast(at[s], FALSE)
    /\ UNCHANGED <<live, at, setup, conns, lease, timers, stops, told, seen,
                   faults>>

(* The removal or the query after it throws, and is logged.                *)
OnDisconnectFails(s) ==
    /\ Fault
    /\ drop[s] # "none"
    /\ drop' = [drop EXCEPT ![s] = "none"]
    /\ UNCHANGED <<live, at, setup, conns, lease, timers, stops, told, news,
                   seen>>

-----------------------------------------------------------------------------
(* Mutant: the heartbeat extends the lease whether or not the user has a   *)
(* socket here.                                                            *)
BeatForEveryone(i) ==
    /\ phase[i] = "up" /\ i \notin beaten
    /\ beaten' = beaten \union {i}
    /\ missed' = [missed EXCEPT ![i] = 0]
    /\ lease' = IF conns # {} THEN Lease ELSE lease
    /\ UNCHANGED <<sockets, conns, stops, told, news, seen, faults>>

(* The heartbeat of an instance.  EXPIRE of a key that is gone does nothing. *)
Beat(i) ==
    /\ phase[i] = "up" /\ i \notin beaten
    /\ beaten' = beaten \union {i}
    /\ missed' = [missed EXCEPT ![i] = 0]
    /\ lease' = IF conns # {} /\ \E s \in live : at[s] = i THEN Lease ELSE lease
    /\ UNCHANGED <<sockets, conns, stops, told, news, seen, faults>>

(* The event loop or Redis is late, or the pipeline fails and is logged.   *)
MissBeat(i) ==
    /\ phase[i] = "up" /\ i \notin beaten
    /\ missed[i] < MaxMisses
    /\ beaten' = beaten \union {i}
    /\ missed' = [missed EXCEPT ![i] = @ + 1]
    /\ UNCHANGED <<sockets, conns, lease, stops, told, news, seen, faults>>

(* HEARTBEAT_MS pass, and the lease may run out.                           *)
Tick ==
    /\ \A i \in Instances : i \in beaten \/ phase[i] # "up"
    /\ beaten' = {}
    /\ lease' = IF lease > 0 THEN lease - 1 ELSE 0
    /\ conns' = IF lease' = 0 THEN {} ELSE conns
    /\ told' = IF lease' = 0 THEN "nothing" ELSE told
    /\ UNCHANGED <<sockets, missed, stops, news, seen, faults>>

-----------------------------------------------------------------------------
(* Of instance i nothing is left but what Redis has; the first heartbeat   *)
(* of the process that takes its place is a whole interval away.           *)
Replaced(i) ==
    /\ setup' = [s \in Socks |-> IF s \in On(i) THEN "done" ELSE setup[s]]
    /\ drop' = [s \in Socks |-> IF s \in On(i) THEN "none" ELSE drop[s]]
    /\ phase' = [phase EXCEPT ![i] = "up"]
    /\ releasing' = releasing \ On(i)
    /\ missed' = [missed EXCEPT ![i] = 0]
    /\ beaten' = beaten \union {i}

(* An instance dies with its sockets and whatever its handlers had left    *)
(* to do; so it does when a shutdown takes more than ten seconds.          *)
Crash(i) ==
    /\ Fault
    /\ Silenced(On(i))
    /\ Replaced(i)
    /\ live' = live \ On(i)
    /\ UNCHANGED <<at, conns, lease, news, seen>>

(* io.shutdown: the heartbeat is stopped, and releaseInstanceLeases sends  *)
(* a removal for each socket.  That of a socket whose SADD is still to be  *)
(* sent will find nothing.                                                 *)
StopInstance(i) ==
    /\ Fault
    /\ phase[i] = "up"
    /\ phase' = [phase EXCEPT ![i] = "releasing"]
    /\ releasing' = releasing
                      \union {s \in live \intersect On(i) : setup[s] # "member"}
    /\ UNCHANGED <<sockets, conns, lease, timers, told, news, seen>>

(* One removal of the pipeline: the socket is still connected.  Nobody is  *)
(* told, whether or not it was the last.                                   *)
ReleaseLease(s) ==
    /\ s \in releasing /\ setup[s] # "add"
    /\ Remove({s})
    /\ releasing' = releasing \ {s}
    /\ UNCHANGED <<sockets, timers, phase, news, seen, faults>>

(* The pipeline fails, which is ignored.                                   *)
ReleaseFails(i) ==
    /\ releasing \intersect On(i) # {}
    /\ releasing' = releasing \ On(i)
    /\ UNCHANGED <<sockets, conns, lease, timers, phase, told, news, seen,
                   faults>>

(* The reply of the pipeline is there: io.close() disconnects the sockets, *)
(* and each disconnect handler removes its own again.                      *)
CloseSockets(i) ==
    /\ phase[i] = "releasing"
    /\ releasing \intersect On(i) = {}
    /\ phase' = [phase EXCEPT ![i] = "closed"]
    /\ live' = live \ On(i)
    /\ drop' = [s \in Socks |->
                  IF s \in live \intersect On(i) /\ setup[s] # "member"
                  THEN "remove" ELSE drop[s]]
    /\ UNCHANGED <<at, setup, conns, lease, timers, releasing, told, news, seen,
                   faults>>

(* The commands that were sent have run when quit is answered; a handler   *)
(* that still awaits a query ends with the process.                        *)
Exit(i) ==
    /\ phase[i] = "closed"
    /\ \A s \in On(i) : setup[s] \in {"member", "done"} /\ drop[s] # "remove"
    /\ Replaced(i)
    /\ UNCHANGED <<live, at, conns, lease, told, news, seen, faults>>

-----------------------------------------------------------------------------
(* The watcher joins the rooms, then the set is read for its snapshot,     *)
(* then the snapshot is sent: it replaces the whole map.                   *)
WatcherJoins ==
    /\ watcher = "off"
    /\ watcher' = "joined"
    /\ UNCHANGED <<sockets, conns, lease, timers, stops, told, news, snap, view,
                   faults>>

ReadSnapshot ==
    /\ watcher = "joined"
    /\ watcher' = "read"
    /\ snap' = (conns # {})
    /\ UNCHANGED <<sockets, conns, lease, timers, stops, told, news, view, faults>>

SnapshotArrives ==
    /\ watcher = "read"
    /\ watcher' = "live"
    /\ view' = snap /\ snap' = FALSE
    /\ UNCHANGED <<sockets, conns, lease, timers, stops, told, news, faults>>

Hear(i) ==
    /\ news[i] # <<>>
    /\ news' = [news EXCEPT ![i] = Tail(@)]
    /\ view' = IF watcher = "off" THEN view ELSE Head(news[i])
    /\ UNCHANGED <<sockets, conns, lease, timers, stops, told, watcher, snap,
                   faults>>

WatcherDrops ==
    /\ watcher # "off"
    /\ watcher' = "off" /\ snap' = FALSE
    /\ UNCHANGED <<sockets, conns, lease, timers, stops, told, news, view, faults>>

-----------------------------------------------------------------------------
Handlers(s) ==
    \/ Register(s) \/ AddConnection(s) \/ AnnounceOnline(s)
    \/ RemoveConnection(s) \/ AnnounceOffline(s) \/ ReleaseLease(s)

Stopping(i) == CloseSockets(i) \/ Exit(i)

Watching ==
    \/ WatcherJoins \/ ReadSnapshot \/ SnapshotArrives
    \/ \E i \in Instances : Hear(i)

Next ==
    \/ \E s \in Socks : \/ \E i \in Instances : Open(s, i)
                        \/ Handlers(s)
                        \/ SetupFails(s) \/ Close(s) \/ OnDisconnectFails(s)
    \/ \E i \in Instances : \/ Beat(i) \/ MissBeat(i) \/ Crash(i)
                            \/ StopInstance(i) \/ ReleaseFails(i) \/ Stopping(i)
    \/ Tick
    \/ Watching
    \/ WatcherDrops

Spec == Init /\ [][Next]_vars

(* Handlers and timers run, a shutdown that has begun goes on, and frames  *)
(* arrive; users, faults, signals and lost connections are not fair.       *)
Fairness ==
    /\ \A s \in Socks : WF_vars(Handlers(s))
    /\ \A i \in Instances : /\ WF_vars(Beat(i) \/ MissBeat(i))
                            /\ WF_vars(Stopping(i)) /\ WF_vars(Hear(i))
    /\ WF_vars(Tick)
    /\ WF_vars(ReadSnapshot \/ SnapshotArrives)

FairSpec == Spec /\ Fairness

-----------------------------------------------------------------------------
(* The key exists exactly while its set has members, and always expires.   *)
TypeOK ==
    /\ live \subseteq Socks
    /\ at \in [Socks -> Instances]
    /\ setup \in [Socks -> {"member", "add", "say", "done"}]
    /\ drop \in [Socks -> {"none", "remove", "say"}]
    /\ conns \subseteq Socks
    /\ lease \in 0 .. Lease
    /\ lease = 0 <=> conns = {}
    /\ beaten \subseteq Instances
    /\ missed \in [Instances -> 0 .. MaxMisses]
    /\ phase \in [Instances -> {"up", "releasing", "closed"}]
    /\ releasing \subseteq Socks
    /\ told \in {"nothing", "online", "lost"}
    /\ news \in [Instances -> Seq(BOOLEAN)]
    /\ watcher \in {"off", "joined", "read", "live"}
    /\ snap \in BOOLEAN /\ view \in BOOLEAN
    /\ faults \in 0 .. MaxFaults

Connected(s) == s \in live /\ setup[s] \in {"say", "done"}

(* The lease outlasts late heartbeats: while no instance misses more than  *)
(* MaxMisses in a row, whoever is connected to an instance is in the set,  *)
(* whatever other sockets of the user, other instances, crashes and other  *)
(* instances' shutdowns do.  An instance that shuts down itself takes its  *)
(* sockets out of the set first and closes them afterwards (io.js:112-113).*)
PresentWhileConnected ==
    \A s \in Socks : Connected(s) /\ phase[at[s]] = "up" => s \in conns

(* Nobody comes online unannounced: from the first member on, and until    *)
(* there is none, the rooms were told that the user is online, a handler   *)
(* is about to tell them, or the one that was has failed or died first.    *)
OnlineWasAnnounced ==
    conns # {} => told # "nothing" \/ \E s \in Socks : setup[s] = "say"

(* Presence that cannot leave ghosts: what no socket is left to stand for  *)
(* gains no time and no member, whatever the heartbeats of other instances *)
(* and late handlers do, and so ages out.                                  *)
GhostsOnlyAge ==
    [][live = {} /\ (\A s \in Socks : setup[s] # "add")
           => lease' <= lease /\ conns' \subseteq conns]_vars

(* The same as a promise: once the user's sockets are gone, crashed or     *)
(* not, the set empties and stays empty.                                   *)
GhostsAgeOut == <>[](live = {}) => <>[](conns = {})

-----------------------------------------------------------------------------
(* Statements of the repository the runs refute.                           *)

(* "Kill a server and its users age out in 45 seconds" (README): those who *)
(* watch see a user who stays away as offline.                             *)
GoneIsSeen ==
    <>[](live = {} /\ watcher = "live") => <>[](~ view)

(* "The snapshot is what makes presence correct on arrival rather than     *)
(* eventually" (handlers/presence.js): a user who stays is seen online.    *)
ConnectedIsSeen ==
    <>[](watcher = "live" /\ \E s \in Socks : Connected(s)) => <>[] view
=============================================================================
