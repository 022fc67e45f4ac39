---------------------------- MODULE Conversations ----------------------------
(***************************************************************************)
(* Creating conversations and bringing them to the sockets that are        *)
(* online: the direct-message upsert, groups, the announcement of a new    *)
(* conversation through the adapter, and the connection handler that joins *)
(* the rooms.                                                              *)
(*                                                                         *)
(* A request is known by the tab that sends it and by whom it names; a     *)
(* conversation by the request whose insert created it.  The sockets are   *)
(* on different instances, so an announcement reaches each by itself.      *)
(***************************************************************************)
EXTENDS FiniteSets

CONSTANTS
    Users,                      \* rows of users
    Sockets,                    \* one tab each
    Owner,                      \* whose tab it is
    Requests,                   \* POST /api/conversations
    Via,                        \* the tab a request is sent from
    Named,                      \* userId or memberIds, as a set of ids
    Dms,                        \* the requests of type dm
    Nothing

ASSUME ConversationsAssumption ==
    /\ Owner \in [Sockets -> Users]
    /\ Via \in [Requests -> Sockets]
    /\ Dms \subseteq Requests
    /\ Nothing \notin Requests

VARIABLES
    rows,                       \* conversations, with their memberships
    pc, conv,                   \* where each request stands, and its result
    told,                       \* its announcement on the way to each socket
    sock,                       \* how far each connection has got
    read,                       \* what its membershipsFor returned
    present,                    \* the rows there were as it joined its rooms
    rooms                       \* the conversation rooms it is in

server == <<rows, pc, conv, told>>
connection == <<sock, read, present, rooms>>
vars == <<rows, pc, conv, told, sock, read, present, rooms>>

Members(c) == {Owner[Via[c]]} \union Named[c]

(* dmKeyFor: sorted, so the same from either side.                         *)
SamePair(c, r) == c \in Dms /\ r \in Dms /\ Members(c) = Members(r)

(* Mutant: the two ids in the order they were given.                       *)
FoundUnsorted(r) == {c \in rows : SamePair(c, r) /\ Owner[Via[c]] = Owner[Via[r]]}

(* The row under the key of r.                                             *)
Found(r) == {c \in rows : SamePair(c, r)}

(* Mutant: a left join, with a null where the conversation is not there.   *)
MembershipsLeftJoin(u) == {conv[r] : r \in {r \in Requests : u \in Members(r)}}

MembershipsOf(u) == {c \in rows : u \in Members(c)}

Init ==
    /\ rows = {}
    /\ pc = [r \in Requests |-> "idle"] /\ conv = [r \in Requests |-> Nothing]
    /\ told = [r \in Requests |-> [s \in Sockets |-> "no"]]
    /\ sock = [s \in Sockets |-> "off"]
    /\ read = [s \in Sockets |-> {}] /\ present = read /\ rooms = read

-----------------------------------------------------------------------------
Goto(r, step) == pc' = [pc EXCEPT ![r] = step]

Made(r, c) ==
    /\ Goto(r, "made")
    /\ conv' = [conv EXCEPT ![r] = c]

(* Refused: a direct message to oneself, or somebody who does not exist.   *)
Create(r) ==
    /\ pc[r] = "idle"
    /\ LET fits == Named[r] \subseteq Users
                   /\ (r \in Dms => Cardinality(Members(r)) = 2)
       IN  Goto(r, IF ~fits THEN "refused"
                   ELSE IF r \in Dms THEN "select" ELSE "insert")
    /\ UNCHANGED <<rows, conv, told, connection>>

(* upsert, first half.                                                     *)
Select(r) ==
    /\ pc[r] = "select"
    /\ \/ \E c \in Found(r) : Made(r, c)
       \/ Found(r) = {} /\ Goto(r, "insert") /\ UNCHANGED conv
    /\ UNCHANGED <<rows, told, connection>>

(* Mutant: no unique index on dm_key.                                      *)
InsertNoIndex(r) ==
    /\ pc[r] = "insert"
    /\ rows' = rows \union {r}
    /\ Made(r, r)
    /\ UNCHANGED <<told, connection>>

(* upsert, second half, or a group: the loser is rejected with P2002.      *)
Insert(r) ==
    /\ pc[r] = "insert"
    /\ \/ Found(r) = {} /\ rows' = rows \union {r} /\ Made(r, r)
       \/ Found(r) # {} /\ Goto(r, "lost") /\ UNCHANGED <<rows, conv>>
    /\ UNCHANGED <<told, connection>>

(* Mutant: the loser answers with the row it meant to insert.              *)
RereadNothing(r) ==
    /\ pc[r] = "lost"
    /\ Made(r, r)
    /\ UNCHANGED <<rows, told, connection>>

Reread(r) ==
    /\ pc[r] = "lost"
    /\ \E c \in Found(r) : Made(r, c)
    /\ UNCHANGED <<rows, told, connection>>

(* A query fails, an insert perhaps after it was committed.                *)
CreateFails(r) ==
    /\ pc[r] \in {"select", "insert", "lost"}
    /\ \/ UNCHANGED rows
       \/ pc[r] = "insert" /\ Found(r) = {} /\ rows' = rows \union {r}
    /\ Goto(r, "failed")
    /\ UNCHANGED <<conv, told, connection>>

(* announceConversation, then the answer, sent whether or not the adapter  *)
(* took the announcement to every member.                                  *)
Announce(r) ==
    /\ pc[r] = "made"
    /\ \E reached \in SUBSET Members(conv[r]) :
          told' = [told EXCEPT ![r] =
                      [s \in Sockets |-> IF Owner[s] \in reached THEN "join" ELSE "no"]]
    /\ Goto(r, "answered")
    /\ UNCHANGED <<rows, conv, connection>>

Heard(r, s, next) == told' = [told EXCEPT ![r][s] = next]

(* Mutant: only the event is sent, the sockets are left where they are.    *)
SocketsJoinNobody(r, s) ==
    /\ told[r][s] = "join" /\ Heard(r, s, "new")
    /\ UNCHANGED <<rows, pc, conv, connection>>

(* io.in(userRoom).socketsJoin comes to the instance of s.                 *)
SocketsJoin(r, s) ==
    /\ told[r][s] = "join" /\ Heard(r, s, "new")
    /\ rooms' = IF sock[s] = "on" THEN [rooms EXCEPT ![s] = @ \union {conv[r]}]
                ELSE rooms
    /\ UNCHANGED <<rows, pc, conv, sock, read, present>>

(* conversation:new follows it there, for whoever is in the user's room.   *)
ConversationNew(r, s) ==
    /\ told[r][s] = "new" /\ Heard(r, s, "done")
    /\ UNCHANGED <<rows, pc, conv, connection>>

-----------------------------------------------------------------------------
(* The connection handler, up to the answer of membershipsFor.             *)
Connect(s) ==
    /\ sock[s] = "off"
    /\ sock' = [sock EXCEPT ![s] = "read"]
    /\ read' = [read EXCEPT ![s] = MembershipsOf(Owner[s])]
    /\ UNCHANGED <<server, present, rooms>>

(* Mutant: the socket joins its user's room only.                          *)
JoinUserRoom(s) ==
    /\ sock[s] = "read"
    /\ sock' = [sock EXCEPT ![s] = "on"]
    /\ present' = [present EXCEPT ![s] = rows]
    /\ UNCHANGED <<server, read, rooms>>

(* The user's room and the conversations', in one go.                      *)
Join(s) ==
    /\ sock[s] = "read"
    /\ sock' = [sock EXCEPT ![s] = "on"]
    /\ rooms' = [rooms EXCEPT ![s] = read[s]]
    /\ present' = [present EXCEPT ![s] = rows]
    /\ UNCHANGED <<server, read>>

Disconnect(s) ==
    /\ sock[s] # "off"
    /\ sock' = [sock EXCEPT ![s] = "off"]
    /\ read' = [read EXCEPT ![s] = {}] /\ present' = [present EXCEPT ![s] = {}]
    /\ rooms' = [rooms EXCEPT ![s] = {}]
    /\ UNCHANGED <<server>>

-----------------------------------------------------------------------------
Request(r) ==
    \/ Create(r) \/ Select(r) \/ Insert(r) \/ Reread(r) \/ CreateFails(r)
    \/ Announce(r)

Adapter(r, s) == SocketsJoin(r, s) \/ ConversationNew(r, s)

Socket(s) == Connect(s) \/ Join(s) \/ Disconnect(s)

Next ==
    \/ \E r \in Requests : Request(r)
    \/ \E r \in Requests, s \in Sockets : Adapter(r, s)
    \/ \E s \in Sockets : Socket(s)

Spec == Init /\ [][Next]_vars

-----------------------------------------------------------------------------
TypeOK ==
    /\ rows \subseteq Requests
    /\ pc \in [Requests -> {"idle", "refused", "select", "insert", "lost",
                            "failed", "made", "answered"}]
    /\ conv \in [Requests -> Requests \union {Nothing}]
    /\ told \in [Requests -> [Sockets -> {"no", "join", "new", "done"}]]
    /\ sock \in [Sockets -> {"off", "read", "on"}]
    /\ {read, present, rooms} \subseteq [Sockets -> SUBSET Requests]

(* However many requests race, from either side, two users have at most    *)
(* one direct message (conversation.service.js:4-9, 170-176).              *)
OneDmPerPair == \A c, d \in rows : SamePair(c, d) => c = d

(* Every creation that is answered is answered with a stored conversation  *)
(* of exactly those it named, a group with its own; with OneDmPerPair, all *)
(* who ask for one direct message get the same (conversation.service.js:   *)
(* 140-146).                                                               *)
AnswersFit ==
    \A r \in Requests : conv[r] # Nothing =>
        conv[r] \in rows /\ (conv[r] = r \/ SamePair(conv[r], r))

(* The two sides of joining: a connection is in the room of what it read,  *)
(* and of what came after it had joined its user's room and was announced  *)
(* to it (conversation.controller.js:48-51, 79-80).  In between there is a *)
(* window, which the property leaves open as the code does.  And it is in  *)
(* no room of a conversation its user is not in.                           *)
RoomWindow ==
    \A s \in Sockets : sock[s] = "on" =>
        /\ read[s] \subseteq rooms[s] /\ rooms[s] \subseteq MembershipsOf(Owner[s])
        /\ \A r \in Requests : told[r][s] \in {"new", "done"} =>
               conv[r] \in rooms[s] \union present[s]

(* The server has already pulled this socket into the room                 *)
(* (socket.js:105-106).  It has not where the socket joins its user's room *)
(* between the two halves of an announcement.                              *)
ToldIsInside ==
    [][\A r \in Requests, s \in Sockets :
          ConversationNew(r, s) /\ sock[s] = "on" => conv[r] \in rooms[s]]_vars
=============================================================================
