------------------------ MODULE ConversationsProofs -------------------------
(* Theorems about Conversations, for any users, sockets and requests,      *)
(* whoever sends them and whomever they name.                              *)
EXTENDS Conversations, TLAPS

(* A request has a result from the moment it is made, and only what was    *)
(* answered is announced.                                                  *)
AnnouncedIsMade ==
    \A r \in Requests :
        /\ pc[r] \in {"made", "answered"} => conv[r] # Nothing
        /\ \A s \in Sockets : told[r][s] # "no" => pc[r] = "answered"

(* The first half of RoomWindow.                                           *)
Window ==
    \A s \in Sockets : sock[s] = "on" =>
        /\ read[s] \subseteq rooms[s]
        /\ \A r \in Requests : told[r][s] \in {"new", "done"} =>
               conv[r] \in rooms[s] \union present[s]

(* Why the second holds: what a connection has read, the rooms it is in    *)
(* and the announcements under way to it are all of conversations its user *)
(* is in.                                                                  *)
RoomsOwn ==
    \A s \in Sockets :
        /\ read[s] \union rooms[s] \subseteq MembershipsOf(Owner[s])
        /\ \A r \in Requests : told[r][s] = "join" => Owner[s] \in Members(conv[r])

ConversationsInv ==
    TypeOK /\ OneDmPerPair /\ AnswersFit /\ AnnouncedIsMade /\ Window /\ RoomsOwn

LEMMA InitInv == Init => ConversationsInv
<1> SUFFICES ASSUME Init PROVE ConversationsInv
  OBVIOUS
<1>1. TypeOK
  BY DEF Init, TypeOK
<1>2. OneDmPerPair /\ AnswersFit /\ AnnouncedIsMade
  BY DEF Init, OneDmPerPair, AnswersFit, AnnouncedIsMade
<1>3. Window /\ RoomsOwn
  BY DEF Init, Window, RoomsOwn
<1> QED
  BY <1>1, <1>2, <1>3 DEF ConversationsInv

(* A row is inserted only where no row has its key.                        *)
LEMMA InsertKeepsOne ==
    ASSUME NEW r \in Requests, Found(r) = {}, OneDmPerPair,
           rows' = rows \union {r}
    PROVE  OneDmPerPair'
<1> SUFFICES ASSUME NEW c \in rows', NEW d \in rows', SamePair(c, d) PROVE c = d
  BY DEF OneDmPerPair, SamePair, Members
<1>1. CASE c \in rows /\ d \in rows
  BY <1>1 DEF OneDmPerPair
<1>2. CASE c = r /\ d # r
  <2>1. d \in Found(r)
    BY <1>2 DEF Found, SamePair
  <2> QED
    BY <2>1
<1>3. CASE d = r /\ c # r
  <2>1. c \in Found(r)
    BY <1>3 DEF Found
  <2> QED
    BY <2>1
<1> QED
  BY <1>1, <1>2, <1>3

-----------------------------------------------------------------------------
LEMMA TypeRequest ==
    ASSUME TypeOK, NEW r \in Requests, Request(r)
    PROVE  TypeOK'
<1> USE DEF Goto, Made, connection
<1>1. CASE Create(r)
  BY <1>1 DEF TypeOK, Create
<1>2. CASE Select(r)
  BY <1>2 DEF TypeOK, Select, Found
<1>3. CASE Insert(r)
  BY <1>3 DEF TypeOK, Insert
<1>4. CASE Reread(r)
  BY <1>4 DEF TypeOK, Reread, Found
<1>5. CASE CreateFails(r)
  BY <1>5 DEF TypeOK, CreateFails
<1>6. CASE Announce(r)
  BY <1>6 DEF TypeOK, Announce
<1> QED
  BY <1>1, <1>2, <1>3, <1>4, <1>5, <1>6 DEF Request

LEMMA TypeSocket ==
    ASSUME ConversationsInv, NEW s \in Sockets,
           Socket(s) \/ \E r \in Requests : Adapter(r, s)
    PROVE  TypeOK'
<1>1. ASSUME NEW r \in Requests, SocketsJoin(r, s) PROVE TypeOK'
  <2>1. conv[r] \in Requests
    BY <1>1 DEF ConversationsInv, TypeOK, AnnouncedIsMade, SocketsJoin
  <2> QED
    BY <1>1, <2>1 DEF ConversationsInv, TypeOK, SocketsJoin, Heard
<1>2. ASSUME NEW r \in Requests, ConversationNew(r, s) PROVE TypeOK'
  BY <1>2 DEF ConversationsInv, TypeOK, ConversationNew, Heard, connection
<1>3. CASE Connect(s)
  BY <1>3 DEF ConversationsInv, TypeOK, Connect, MembershipsOf, server
<1>4. CASE Join(s)
  BY <1>4 DEF ConversationsInv, TypeOK, Join, server
<1>5. CASE Disconnect(s)
  BY <1>5 DEF ConversationsInv, TypeOK, Disconnect, server
<1> QED
  BY <1>1, <1>2, <1>3, <1>4, <1>5 DEF Socket, Adapter

-----------------------------------------------------------------------------
(* What a request may do to the rows and to the results.                   *)
LEMMA RequestStep ==
    ASSUME ConversationsInv, NEW r \in Requests, Request(r)
    PROVE  /\ \/ rows' = rows
              \/ Found(r) = {} /\ rows' = rows \union {r}
           /\ \A q \in Requests : q # r =>
                 pc'[q] = pc[q] /\ conv'[q] = conv[q] /\ told'[q] = told[q]
           /\ \/ conv' = conv
              \/ /\ pc[r] # "answered" /\ pc'[r] = "made"
                 /\ conv'[r] \in rows'
                 /\ conv'[r] = r \/ SamePair(conv'[r], r)
           /\ UNCHANGED <<sock, read, present, rooms>>
<1> USE DEF ConversationsInv, TypeOK, Goto, Made, connection
<1>1. CASE Create(r)
  BY <1>1 DEF Create
<1>2. CASE Select(r)
  <2>1. CASE UNCHANGED conv
    BY <1>2, <2>1 DEF Select
  <2>2. ASSUME NEW c \in Found(r), Made(r, c)
        PROVE  /\ pc[r] # "answered" /\ pc'[r] = "made"
               /\ conv'[r] \in rows' /\ SamePair(conv'[r], r)
    BY <1>2, <2>2 DEF Select, Found
  <2> QED
    BY <1>2, <2>1, <2>2 DEF Select
<1>3. CASE Insert(r)
  BY <1>3 DEF Insert
<1>4. CASE Reread(r)
  BY <1>4 DEF Reread, Found
<1>5. CASE CreateFails(r)
  BY <1>5 DEF CreateFails
<1>6. CASE Announce(r)
  BY <1>6 DEF Announce
<1> QED
  BY <1>1, <1>2, <1>3, <1>4, <1>5, <1>6 DEF Request

LEMMA OneDmPerPairInductive ==
    ASSUME ConversationsInv, [Next]_vars
    PROVE  OneDmPerPair'
<1>1. CASE rows' = rows
  BY <1>1 DEF ConversationsInv, OneDmPerPair, SamePair, Members
<1>2. ASSUME NEW r \in Requests, Request(r) PROVE OneDmPerPair'
  BY <1>1, <1>2, RequestStep, InsertKeepsOne DEF ConversationsInv
<1>3. ASSUME NEW s \in Sockets, Socket(s) \/ \E r \in Requests : Adapter(r, s)
      PROVE  rows' = rows
  BY <1>3 DEF Socket, Adapter, Connect, Join, Disconnect, SocketsJoin,
     ConversationNew, server
<1> QED
  BY <1>1, <1>2, <1>3 DEF Next, vars

(* Sockets and announcements leave the requests as they are, but for how   *)
(* far an announcement has come.                                           *)
LEMMA SocketStep ==
    ASSUME TypeOK, NEW s \in Sockets,
           Socket(s) \/ \E r \in Requests : Adapter(r, s)
    PROVE  /\ UNCHANGED <<rows, pc, conv>>
           /\ \A r \in Requests, t \in Sockets :
                 told'[r][t] # "no" => told[r][t] # "no"
<1> USE DEF TypeOK, server, connection, Heard
<1>1. CASE Socket(s)
  BY <1>1 DEF Socket, Connect, Join, Disconnect
<1>2. ASSUME NEW r \in Requests, Adapter(r, s)
      PROVE  /\ UNCHANGED <<rows, pc, conv>>
             /\ \A q \in Requests, t \in Sockets :
                   told'[q][t] # "no" => told[q][t] # "no"
  BY <1>2 DEF Adapter, SocketsJoin, ConversationNew
<1> QED
  BY <1>1, <1>2

LEMMA AnswersFitInductive ==
    ASSUME ConversationsInv, [Next]_vars
    PROVE  AnswersFit'
<1> USE DEF ConversationsInv, AnswersFit, SamePair, Members
<1>1. CASE UNCHANGED <<rows, conv>>
  BY <1>1
<1>2. ASSUME NEW r \in Requests, Request(r) PROVE AnswersFit'
  <2>1. rows \subseteq rows'
    BY <1>2, RequestStep
  <2>2. \A q \in Requests : \/ conv'[q] = conv[q]
                            \/ /\ conv'[q] \in rows'
                               /\ conv'[q] = q \/ SamePair(conv'[q], q)
    BY <1>2, RequestStep
  <2> QED
    BY <2>1, <2>2
<1> QED
  BY <1>1, <1>2, SocketStep DEF Next, vars

LEMMA AnnouncedIsMadeInductive ==
    ASSUME ConversationsInv, [Next]_vars
    PROVE  AnnouncedIsMade'
<1> USE DEF ConversationsInv, AnnouncedIsMade, TypeOK
<1>1. CASE UNCHANGED <<pc, conv, told>>
  BY <1>1
<1>2. ASSUME NEW s \in Sockets, Socket(s) \/ \E r \in Requests : Adapter(r, s)
      PROVE  AnnouncedIsMade'
  BY <1>2, SocketStep
<1>3. ASSUME NEW r \in Requests, Request(r) PROVE AnnouncedIsMade'
  <2> USE DEF Goto, Made, connection
  <2>1. SUFFICES /\ pc'[r] \in {"made", "answered"} => conv'[r] # Nothing
                 /\ \A s \in Sockets : told'[r][s] # "no" => pc'[r] = "answered"
    BY <1>3, RequestStep
  <2>2. CASE Announce(r)
    BY <2>2 DEF Announce
  <2>3. CASE Create(r)
    BY <2>3 DEF Create
  <2>4. CASE Select(r)
    BY <2>4, ConversationsAssumption DEF Select, Found
  <2>5. CASE Insert(r)
    BY <2>5, ConversationsAssumption DEF Insert
  <2>6. CASE Reread(r)
    BY <2>6, ConversationsAssumption DEF Reread, Found
  <2>7. CASE CreateFails(r)
    BY <2>7 DEF CreateFails
  <2> QED
    BY <1>3, <2>2, <2>3, <2>4, <2>5, <2>6, <2>7 DEF Request
<1> QED
  BY <1>1, <1>2, <1>3 DEF Next, vars

-----------------------------------------------------------------------------
(* What Window says of one connection and one announcement.            *)
ToldOf(r, s) ==
    sock[s] = "on" /\ told[r][s] \in {"new", "done"} =>
        conv[r] \in rooms[s] \union present[s]

LEMMA WindowOfRequest ==
    ASSUME ConversationsInv, NEW q \in Requests, Request(q)
    PROVE  Window'
<1> USE DEF ConversationsInv, TypeOK
<1>1. ASSUME NEW s \in Sockets, sock'[s] = "on" PROVE read'[s] \subseteq rooms'[s]
  BY <1>1, RequestStep DEF Window
<1>2. ASSUME NEW s \in Sockets, NEW r \in Requests PROVE ToldOf(r, s)'
  <2>1. CASE r # q
    BY <2>1, RequestStep DEF Window, ToldOf
  <2>2. CASE r = q /\ told'[r] = told[r] /\ conv' = conv
    BY <2>2, RequestStep DEF Window, ToldOf
  <2>3. CASE r = q /\ told'[r][s] \in {"join", "no"}
    BY <2>3 DEF ToldOf
  <2>4. CASE r = q /\ told' = told /\ pc[r] # "answered"
    BY <2>4 DEF ToldOf, AnnouncedIsMade
  <2>5. CASE Announce(q)
    BY <2>2, <2>3, <2>1, <2>5 DEF Announce
  <2>6. CASE ~ Announce(q)
    BY <2>1, <2>4, <2>6 DEF Request, Create, Select, Insert, Reread, CreateFails
  <2> QED
    BY <2>5, <2>6
<1> QED
  BY <1>1, <1>2 DEF Window, ToldOf

LEMMA WindowOfSocket ==
    ASSUME ConversationsInv, NEW t \in Sockets,
           Socket(t) \/ \E q \in Requests : Adapter(q, t)
    PROVE  Window'
<1> USE DEF ConversationsInv, TypeOK, server, connection, Heard
<1>1. CASE Connect(t) \/ Disconnect(t)
  <2>1. \A s \in Sockets : sock'[s] = "on" =>
            /\ s # t /\ sock[s] = "on"
            /\ read'[s] = read[s] /\ rooms'[s] = rooms[s]
            /\ present'[s] = present[s]
    BY <1>1 DEF Connect, Disconnect
  <2>2. told' = told /\ conv' = conv
    BY <1>1 DEF Connect, Disconnect
  <2> QED
    BY <2>1, <2>2 DEF Window
<1>2. CASE Join(t)
  <2>1. \A r \in Requests : told[r][t] # "no" => conv[r] \in rows
    BY DEF AnnouncedIsMade, AnswersFit
  <2>2. /\ rooms'[t] = read'[t] /\ present'[t] = rows
        /\ told' = told /\ conv' = conv
    BY <1>2 DEF Join
  <2>3. \A s \in Sockets : sock'[s] = "on" /\ s # t =>
            /\ sock[s] = "on"
            /\ read'[s] = read[s] /\ rooms'[s] = rooms[s]
            /\ present'[s] = present[s]
    BY <1>2 DEF Join
  <2> QED
    BY <2>1, <2>2, <2>3 DEF Window
<1>3. ASSUME NEW q \in Requests, SocketsJoin(q, t) PROVE Window'
  <2>1. /\ UNCHANGED <<conv, sock, read, present>>
        /\ \A s \in Sockets : rooms[s] \subseteq rooms'[s]
        /\ \A r \in Requests, s \in Sockets :
              r # q \/ s # t => told'[r][s] = told[r][s]
    BY <1>3 DEF SocketsJoin
  <2>2. sock[t] = "on" => conv[q] \in rooms'[t]
    BY <1>3 DEF SocketsJoin
  <2> QED
    BY <2>1, <2>2 DEF Window
<1>4. ASSUME NEW q \in Requests, ConversationNew(q, t) PROVE Window'
  <2>1. /\ UNCHANGED <<conv, sock, read, present, rooms>>
        /\ told[q][t] = "new"
        /\ \A r \in Requests, s \in Sockets :
              r # q \/ s # t => told'[r][s] = told[r][s]
    BY <1>4 DEF ConversationNew
  <2> QED
    BY <2>1 DEF Window
<1> QED
  BY <1>1, <1>2, <1>3, <1>4 DEF Socket, Adapter

LEMMA RoomsOwnOfRequest ==
    ASSUME ConversationsInv, NEW q \in Requests, Request(q)
    PROVE  RoomsOwn'
<1> USE DEF ConversationsInv, TypeOK
<1>1. rows \subseteq rows' /\ UNCHANGED <<read, rooms>>
  BY RequestStep
<1>2. ASSUME NEW s \in Sockets, NEW r \in Requests, told'[r][s] = "join"
      PROVE  Owner[s] \in Members(conv'[r])
  <2>1. CASE r # q
    BY <1>2, <2>1, RequestStep DEF RoomsOwn
  <2>2. CASE r = q /\ Announce(q)
    BY <1>2, <2>2 DEF Announce
  <2>3. CASE r = q /\ ~ Announce(q)
    <3>1. told' = told
      BY <2>3 DEF Request, Create, Select, Insert, Reread, CreateFails, connection
    <3>2. pc[r] = "answered"
      BY <1>2, <3>1 DEF AnnouncedIsMade
    <3> QED
      BY <2>3, <3>2 DEF Request, Create, Select, Insert, Reread, CreateFails
  <2> QED
    BY <2>1, <2>2, <2>3
<1>3. \A u : MembershipsOf(u) \subseteq MembershipsOf(u)'
  BY <1>1 DEF MembershipsOf, Members
<1> QED
  BY <1>1, <1>2, <1>3 DEF RoomsOwn, Members, MembershipsOf

LEMMA RoomsOwnOfSocket ==
    ASSUME ConversationsInv, NEW t \in Sockets,
           Socket(t) \/ \E q \in Requests : Adapter(q, t)
    PROVE  RoomsOwn'
<1> USE DEF ConversationsInv, TypeOK, server, connection, Heard
<1>1. rows' = rows /\ conv' = conv
  BY SocketStep
<1>2. CASE Socket(t)
  <2>1. \A s \in Sockets : read'[s] \union rooms'[s] \subseteq MembershipsOf(Owner[s])
    BY <1>2 DEF Socket, Connect, Join, Disconnect, RoomsOwn
  <2>2. told' = told
    BY <1>2 DEF Socket, Connect, Join, Disconnect
  <2> QED
    BY <1>1, <2>1, <2>2 DEF RoomsOwn, MembershipsOf, Members
<1>3. ASSUME NEW q \in Requests, Adapter(q, t) PROVE RoomsOwn'
  <2>1. told[q][t] = "join" => conv[q] \in MembershipsOf(Owner[t])
    BY DEF RoomsOwn, AnnouncedIsMade, AnswersFit, MembershipsOf
  <2>2. \A s \in Sockets : read'[s] \union rooms'[s] \subseteq MembershipsOf(Owner[s])
    BY <1>3, <2>1 DEF Adapter, SocketsJoin, ConversationNew, RoomsOwn
  <2>3. \A r \in Requests, s \in Sockets :
           told'[r][s] = "join" => told[r][s] = "join"
    <3>1. ASSUME NEW next \in {"new", "done"}, Heard(q, t, next)
          PROVE  \A r \in Requests, s \in Sockets :
                    told'[r][s] = "join" => told[r][s] = "join"
      BY <3>1
    <3> QED
      BY <1>3, <3>1 DEF Adapter, SocketsJoin, ConversationNew
  <2> QED
    BY <1>1, <2>2, <2>3 DEF RoomsOwn, MembershipsOf, Members
<1> QED
  BY <1>2, <1>3

LEMMA InvInductive == ConversationsInv /\ [Next]_vars => ConversationsInv'
<1> SUFFICES ASSUME ConversationsInv, [Next]_vars PROVE ConversationsInv'
  OBVIOUS
<1>1. CASE UNCHANGED vars
  <2>1. TypeOK'
    BY <1>1 DEF ConversationsInv, TypeOK, vars
  <2>2. Window'
    BY <1>1 DEF ConversationsInv, Window, vars
  <2>3. RoomsOwn'
    BY <1>1 DEF ConversationsInv, RoomsOwn, MembershipsOf, Members, vars
  <2> QED
    BY <2>1, <2>2, <2>3, OneDmPerPairInductive, AnswersFitInductive,
       AnnouncedIsMadeInductive DEF ConversationsInv
<1>2. CASE Next
  <2>1. TypeOK'
    BY <1>2, TypeRequest, TypeSocket DEF Next, ConversationsInv
  <2>2. Window'
    BY <1>2, WindowOfRequest, WindowOfSocket DEF Next
  <2>3. RoomsOwn'
    BY <1>2, RoomsOwnOfRequest, RoomsOwnOfSocket DEF Next
  <2> QED
    BY <2>1, <2>2, <2>3, OneDmPerPairInductive, AnswersFitInductive,
       AnnouncedIsMadeInductive DEF ConversationsInv
<1> QED
  BY <1>1, <1>2

-----------------------------------------------------------------------------
(* The invariant: types, the rows and the answers, and the rooms.          *)
THEOREM ConversationsInvariant == Spec => []ConversationsInv
  BY InitInv, InvInductive, PTL DEF Spec

(* Two users never have two direct messages, however many requests of      *)
(* theirs race on whichever instances.                                     *)
THEOREM DmIsUnique == Spec => []OneDmPerPair
<1>1. ConversationsInv => OneDmPerPair
  BY DEF ConversationsInv
<1> QED
  BY <1>1, ConversationsInvariant, PTL

(* Whoever wins the race, every request is answered with a stored          *)
(* conversation of those it named.                                         *)
THEOREM CreationsAnswered == Spec => []AnswersFit
<1>1. ConversationsInv => AnswersFit
  BY DEF ConversationsInv
<1> QED
  BY <1>1, ConversationsInvariant, PTL

(* Both sides of joining, for any number of sockets.                       *)
THEOREM RoomsJoined == Spec => []RoomWindow
<1>1. ConversationsInv => RoomWindow
  BY DEF ConversationsInv, Window, RoomsOwn, RoomWindow
<1> QED
  BY <1>1, ConversationsInvariant, PTL

(* A socket is only ever put into rooms of stored requests' conversations. *)
THEOREM ConversationsTyped == Spec => []TypeOK
<1>1. ConversationsInv => TypeOK
  BY DEF ConversationsInv
<1> QED
  BY <1>1, ConversationsInvariant, PTL
=============================================================================
