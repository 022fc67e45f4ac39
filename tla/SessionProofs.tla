---------------------------- MODULE SessionProofs ----------------------------
(* Theorems about Session, and about two things that live in its tabs: the *)
(* typing indicator and the outbox.                                        *)
EXTENDS Session, SequenceTheorems, TLAPS

CONSTANTS Convs, MaxEvents, Nobody, Tabs, Messages, Users

VARIABLES open, typing, stopTimer, announced, up, sent, cached, queue, asking,
          frames, shown, timers,
          shared, writable, pages, outbox, user, author, sender

Indicator == INSTANCE Typing
Browser == INSTANCE OutboxTabs

(* The properties of the two that are proved below.                        *)
StartsAreStopped == Indicator!StartsAreStopped
ShownHasTimer == Indicator!ShownHasTimer
KeptUntilStored == Browser!KeptUntilStored
StoredAsAuthors == Browser!StoredAsAuthors

SessionInv == TypeOK /\ SocketInSession /\ BootAwaits

LEMMA InitInv == Init => SessionInv
BY DEF Init, SessionInv, TypeOK, SocketInSession, BootAwaits

LEMMA NextInv ==
    ASSUME SessionInv, [Next]_vars
    PROVE  SessionInv'
<1> USE DEF SessionInv, TypeOK, SocketInSession, BootAwaits
<1>1. CASE RefreshServed
  BY <1>1 DEF RefreshServed
<1>2. CASE RefreshLost
  BY <1>2 DEF RefreshLost
<1>3. CASE RefreshReturns
  <2>1. CASE refresh = "ok" /\ SetSession
    BY <1>3, <2>1 DEF RefreshReturns, SetSession
  <2>2. CASE Clear
    BY <1>3, <2>2 DEF RefreshReturns, Clear
  <2>3. CASE "boot" \notin waiters /\ UNCHANGED <<status, token, sock, held>>
    BY <1>3, <2>3 DEF RefreshReturns
  <2> QED
    BY <1>3, <2>1, <2>2, <2>3 DEF RefreshReturns
<1>4. CASE ApiUnauthorized
  BY <1>4 DEF ApiUnauthorized, AskRefresh
<1>5. CASE Login
  BY <1>5 DEF Login, SetSession
<1>6. CASE Logout
  BY <1>6 DEF Logout, Clear
<1>7. CASE Reload
  BY <1>7 DEF Reload
<1>8. CASE CookieDies
  BY <1>8 DEF CookieDies
<1>9. CASE TokenExpires \/ OlderTokenExpires
  BY <1>9 DEF TokenExpires, OlderTokenExpires
<1>10. CASE Present \/ Handshake
  BY <1>10 DEF Present, Handshake, HandshakeAccepted, HandshakeRefused, AskRefresh
<1>11. CASE Unreachable \/ Reattempt
  BY <1>11 DEF Unreachable, Reattempt
<1>12. CASE LoseTransport \/ SetupFails
  BY <1>12 DEF LoseTransport, SetupFails
<1>13. CASE Sweep
  BY <1>13 DEF Sweep, AskRefresh
<1>14. CASE UNCHANGED vars
  BY <1>14 DEF vars
<1> QED
  BY <1>1, <1>2, <1>3, <1>4, <1>5, <1>6, <1>7, <1>8, <1>9, <1>10, <1>11,
     <1>12, <1>13, <1>14 DEF Next

(* What the results below rest on.                                         *)
THEOREM SessionInvariant == Spec => []SessionInv
<1>1. SessionInv /\ [Next]_vars => SessionInv'
  BY NextInv
<1> QED
  BY InitInv, <1>1, PTL DEF Spec

(* A refresh is awaited exactly while one is in flight, and the server has *)
(* a token of the socket's exactly during a handshake or a connection.     *)
THEOREM SessionTyped == Spec => []TypeOK
BY SessionInvariant, PTL DEF SessionInv

(* A socket lives in a session only, and comes with a token no younger     *)
(* than the tab's.                                                         *)
THEOREM NoSocketOutsideSession == Spec => []SocketInSession
BY SessionInvariant, PTL DEF SessionInv

(* A page that is loading has a refresh to wait for.                       *)
THEOREM BootIsAwaited == Spec => []BootAwaits
BY SessionInvariant, PTL DEF SessionInv

(* While the tab's token is good, only a handshake that presented one that *)
(* has expired ends a socket's attempts.                                   *)
THEOREM TryingGoesOn == Spec => StillTrying
<1>1. SessionInv /\ [Next]_vars
      => (token = "fresh" /\ token' = "fresh" /\ held # "expired" /\ sock \in Trying
             => sock' \in Trying \union {"connected"})
  <2> SUFFICES ASSUME SessionInv, [Next]_vars, token = "fresh", token' = "fresh",
                      held # "expired", sock \in Trying
               PROVE  sock' \in Trying \union {"connected"}
    OBVIOUS
  <2> USE DEF Trying
  <2>1. CASE SetSession \/ Clear \/ sock' = sock
    BY <2>1 DEF SetSession, Clear, SessionInv, SocketInSession
  <2>2. CASE Present \/ Handshake \/ Unreachable \/ Reattempt
    BY <2>2 DEF Present, Handshake, HandshakeAccepted, HandshakeRefused,
                Unreachable, Reattempt
  <2>3. CASE LoseTransport \/ SetupFails \/ Sweep \/ Reload
    BY <2>3 DEF LoseTransport, SetupFails, Sweep, Reload
  <2> QED
    BY <2>1, <2>2, <2>3 DEF Next, vars, RefreshServed, RefreshLost,
       RefreshReturns, ApiUnauthorized, Login, Logout, CookieDies, TokenExpires,
       OlderTokenExpires
<1> QED
  BY SessionInvariant, <1>1, PTL DEF Spec, StillTrying

(* A handshake, and the connection it makes, keep the token presented.     *)
THEOREM ConnectionKeepsItsToken == Spec => HeldOnlyAges
<1>1. SessionInv /\ [Next]_vars
      => (held' # held /\ held' \in {"current", "older"}
             => held = IF held' = "current" THEN "none" ELSE "current")
  <2> SUFFICES ASSUME SessionInv, [Next]_vars, held' # held,
                      held' \in {"current", "older"}
               PROVE  held = IF held' = "current" THEN "none" ELSE "current"
    OBVIOUS
  <2> USE DEF SessionInv, TypeOK
  <2>1. CASE SetSession
    BY <2>1 DEF SetSession
  <2>2. CASE Present \/ Handshake
    BY <2>2 DEF Present, Handshake, HandshakeAccepted, HandshakeRefused
  <2>3. CASE Clear \/ Reload \/ TokenExpires \/ OlderTokenExpires
             \/ Unreachable \/ LoseTransport \/ SetupFails \/ Sweep
    BY <2>3 DEF Clear, Reload, TokenExpires, OlderTokenExpires, Unreachable,
                LoseTransport, SetupFails, Sweep
  <2>4. SetSession \/ Present \/ Handshake \/ Clear \/ Reload \/ TokenExpires
        \/ OlderTokenExpires \/ Unreachable \/ LoseTransport \/ SetupFails
        \/ Sweep
    BY DEF Next, vars, RefreshServed, RefreshLost, RefreshReturns,
       ApiUnauthorized, Login, Logout, CookieDies, Reattempt
  <2> QED
    BY <2>1, <2>2, <2>3, <2>4
<1> QED
  BY SessionInvariant, <1>1, PTL DEF Spec, HeldOnlyAges

-----------------------------------------------------------------------------
(* Every way out of a conversation takes its start back: a pause, a send,  *)
(* the effect's cleanup when another one is opened, and closing the tab.   *)
LEMMA StopStep ==
    ASSUME Indicator!StopInv, [Indicator!Next]_(Indicator!vars)
    PROVE  Indicator!StopInv'
<1> USE DEF Indicator!StopInv, Indicator!StartsAreStopped, Indicator!composer
<1>1. CASE Indicator!Type
  BY <1>1 DEF Indicator!Type, Indicator!Emit
<1>2. CASE Indicator!StopTimerFires \/ Indicator!Submit
  BY <1>2 DEF Indicator!StopTimerFires, Indicator!Submit, Indicator!Emit
<1>3. ASSUME NEW c \in Convs, Indicator!Switch(c) PROVE Indicator!StopInv'
  BY <1>3 DEF Indicator!Switch, Indicator!Emit
<1>4. CASE Indicator!Close
  BY <1>4 DEF Indicator!Close
<1>5. ASSUME UNCHANGED Indicator!composer PROVE Indicator!StopInv'
  BY <1>5
<1>6. CASE Indicator!Disconnect \/ Indicator!Connect \/ Indicator!Hear
  BY <1>5, <1>6 DEF Indicator!Disconnect, Indicator!Connect, Indicator!Hear
<1>7. CASE Indicator!Server
  BY <1>5, <1>7 DEF Indicator!Server, Indicator!Relay, Indicator!MembershipFound,
     Indicator!QueryFails, Indicator!CacheExpires
<1>8. ASSUME NEW c \in Convs, Indicator!TimerFires(c) PROVE Indicator!StopInv'
  BY <1>5, <1>8 DEF Indicator!TimerFires
<1>9. CASE UNCHANGED Indicator!vars
  BY <1>5, <1>9 DEF Indicator!vars
<1> QED
  BY <1>1, <1>2, <1>3, <1>4, <1>6, <1>7, <1>8, <1>9
  DEF Indicator!Next, Indicator!Composer

(* Whatever is opened, sent or left alone next, a start that has not been  *)
(* taken back is for the conversation the stop timer is armed for.         *)
THEOREM StartIsStopped == Indicator!Spec => []StartsAreStopped
<1>1. Indicator!Init => Indicator!StopInv
  BY DEF Indicator!Init, Indicator!StopInv, Indicator!StartsAreStopped
<1>2. Indicator!StopInv => StartsAreStopped
  BY DEF Indicator!StopInv, StartsAreStopped
<1> QED
  BY <1>1, <1>2, StopStep, PTL DEF Indicator!Spec

(* What is on its way to the watcher, and what it has of it.               *)
WatcherInv ==
    /\ open \in Convs \union {Nobody} /\ stopTimer \in Convs \union {Nobody}
    /\ queue \in Seq(Indicator!Events) /\ frames \in Seq(Indicator!Events)
    /\ asking \subseteq Indicator!Events
    /\ shown \in [Convs -> BOOLEAN] /\ timers \in [Convs -> Nat]
    /\ ShownHasTimer

LEMMA EmitTyped ==
    ASSUME WatcherInv, NEW c \in Convs, NEW on \in BOOLEAN, Indicator!Emit(c, on)
    PROVE  queue' \in Seq(Indicator!Events)
BY DEF Indicator!Emit, Indicator!Events, WatcherInv

LEMMA BroadcastTyped ==
    ASSUME WatcherInv, NEW e \in Indicator!Events, Indicator!Broadcast(e)
    PROVE  frames' \in Seq(Indicator!Events)
BY DEF Indicator!Broadcast, WatcherInv

LEMMA WatcherStep ==
    ASSUME WatcherInv, [Indicator!Next]_(Indicator!vars)
    PROVE  WatcherInv'
<1> USE DEF Indicator!composer, Indicator!server, Indicator!watcher
<1>1. ASSUME UNCHANGED <<frames, asking, shown, timers>>,
             open' \in Convs \union {Nobody}, stopTimer' \in Convs \union {Nobody},
             queue' \in Seq(Indicator!Events)
      PROVE  WatcherInv'
  BY <1>1 DEF WatcherInv, ShownHasTimer, Indicator!ShownHasTimer
<1>2. CASE Indicator!Type \/ Indicator!StopTimerFires \/ Indicator!Submit
  <2>1. queue' \in Seq(Indicator!Events)
    BY <1>2, EmitTyped DEF Indicator!Type, Indicator!StopTimerFires,
       Indicator!Submit, WatcherInv
  <2> QED
    BY <1>1, <1>2, <2>1 DEF Indicator!Type, Indicator!StopTimerFires,
       Indicator!Submit, WatcherInv
<1>3. ASSUME NEW c \in Convs, Indicator!Switch(c) PROVE WatcherInv'
  <2>1. queue' \in Seq(Indicator!Events)
    BY <1>3, EmitTyped DEF Indicator!Switch, WatcherInv
  <2> QED
    BY <1>1, <1>3, <2>1 DEF Indicator!Switch, WatcherInv
<1>4. CASE Indicator!Close \/ Indicator!Disconnect
  <2>1. queue' = <<>>
    BY <1>4 DEF Indicator!Close, Indicator!Disconnect
  <2>2. queue' \in Seq(Indicator!Events)
    BY <2>1, EmptySeq
  <2> QED
    BY <1>1, <1>4, <2>2 DEF Indicator!Close, Indicator!Disconnect, WatcherInv
<1>5. CASE Indicator!Connect
  <2>1. PICK k \in 0 .. Len(queue) : queue' = SubSeq(queue, k + 1, Len(queue))
    BY <1>5 DEF Indicator!Connect
  <2>2. queue' \in Seq(Indicator!Events)
    BY <2>1, SubSeqProperties DEF WatcherInv
  <2> QED
    BY <1>1, <1>5, <2>2 DEF Indicator!Connect, WatcherInv
<1>6. ASSUME UNCHANGED <<open, stopTimer, shown, timers>>,
             queue' \in Seq(Indicator!Events), frames' \in Seq(Indicator!Events),
             asking' \subseteq Indicator!Events
      PROVE  WatcherInv'
  BY <1>6 DEF WatcherInv, ShownHasTimer, Indicator!ShownHasTimer
<1>7. CASE Indicator!Relay
  <2>1. Head(queue) \in Indicator!Events /\ Tail(queue) \in Seq(Indicator!Events)
    BY <1>7 DEF Indicator!Relay, WatcherInv
  <2>2. frames' \in Seq(Indicator!Events) /\ asking' \subseteq Indicator!Events
    BY <1>7, <2>1, BroadcastTyped DEF Indicator!Relay, WatcherInv
  <2> QED
    BY <1>6, <1>7, <2>1, <2>2 DEF Indicator!Relay, WatcherInv
<1>8. ASSUME NEW e \in Indicator!Events,
             Indicator!MembershipFound(e) \/ Indicator!QueryFails(e)
      PROVE  WatcherInv'
  <2>1. frames' \in Seq(Indicator!Events) /\ asking' \subseteq Indicator!Events
    BY <1>8, BroadcastTyped DEF Indicator!MembershipFound, Indicator!QueryFails,
       WatcherInv
  <2> QED
    BY <1>6, <1>8, <2>1 DEF Indicator!MembershipFound, Indicator!QueryFails,
       WatcherInv
<1>9. ASSUME NEW c \in Convs, Indicator!CacheExpires(c) PROVE WatcherInv'
  BY <1>6, <1>9 DEF Indicator!CacheExpires, WatcherInv
<1>10. CASE Indicator!Hear
  <2>1. Head(frames) \in Indicator!Events /\ Tail(frames) \in Seq(Indicator!Events)
    BY <1>10 DEF Indicator!Hear, WatcherInv
  <2> QED
    BY <1>10, <2>1 DEF Indicator!Hear, Indicator!SetTyping, Indicator!Events,
       WatcherInv, ShownHasTimer, Indicator!ShownHasTimer
<1>11. ASSUME NEW c \in Convs, Indicator!TimerFires(c) PROVE WatcherInv'
  BY <1>11 DEF Indicator!TimerFires, Indicator!SetTyping, WatcherInv,
     ShownHasTimer, Indicator!ShownHasTimer
<1>12. CASE UNCHANGED Indicator!vars
  BY <1>1, <1>12 DEF Indicator!vars, WatcherInv
<1> QED
  BY <1>2, <1>3, <1>4, <1>5, <1>7, <1>8, <1>9, <1>10, <1>11, <1>12
  DEF Indicator!Next, Indicator!Composer, Indicator!Server

(* Whoever is shown typing has a timer running that will end it.           *)
THEOREM ShownIsTimed == Indicator!Spec => []ShownHasTimer
<1>1. Indicator!Init => WatcherInv
  BY DEF Indicator!Init, WatcherInv, ShownHasTimer, Indicator!ShownHasTimer
<1>2. WatcherInv => ShownHasTimer
  BY DEF WatcherInv
<1> QED
  BY <1>1, <1>2, WatcherStep, PTL DEF Indicator!Spec

-----------------------------------------------------------------------------
(* The browser with one tab: what setItem takes is what the tab knows.     *)
OneTabInv ==
    /\ Browser!TypeOK
    /\ \A t \in Tabs : t \notin pages => user[t] = Nobody /\ outbox[t] = {}
    /\ writable => /\ \A t \in pages : outbox[t] = shared
                   /\ Browser!Composed \ Browser!Stored \subseteq shared

LEMMA OneTabStep ==
    ASSUME \A t, u \in Tabs : t = u, OneTabInv, [Browser!Next]_(Browser!vars)
    PROVE  OneTabInv'
<1> USE DEF OneTabInv, Browser!TypeOK, Browser!Composed, Browser!Stored
<1>1. ASSUME NEW t \in Tabs, Browser!Load(t) PROVE OneTabInv'
  BY <1>1 DEF Browser!Load
<1>2. ASSUME NEW t \in Tabs, Browser!Close(t) PROVE OneTabInv'
  BY <1>2 DEF Browser!Close
<1>3. ASSUME NEW t \in Tabs, NEW u \in Users, Browser!Login(t, u) PROVE OneTabInv'
  BY <1>3 DEF Browser!Login
<1>4. ASSUME NEW t \in Tabs, Browser!Logout(t) PROVE OneTabInv'
  BY <1>4 DEF Browser!Logout
<1>5. ASSUME NEW t \in Tabs, NEW m \in Messages, Browser!Enqueue(t, m)
      PROVE  OneTabInv'
  <2>1. t \in pages /\ Tabs = {t}
    BY <1>5 DEF Browser!Enqueue
  <2> QED
    BY <1>5, <2>1 DEF Browser!Enqueue, Browser!Save
<1>6. ASSUME NEW t \in Tabs, NEW m \in Messages, Browser!Deliver(t, m)
      PROVE  OneTabInv'
  BY <1>6 DEF Browser!Deliver
<1>7. ASSUME NEW t \in Tabs, NEW m \in Messages, Browser!ResolveOutbox(t, m)
      PROVE  OneTabInv'
  <2>1. t \in pages /\ Tabs = {t}
    BY <1>7 DEF Browser!ResolveOutbox
  <2> QED
    BY <1>7, <2>1 DEF Browser!ResolveOutbox, Browser!Save
<1>8. CASE UNCHANGED Browser!vars
  BY <1>8 DEF Browser!vars
<1> QED
  BY <1>1, <1>2, <1>3, <1>4, <1>5, <1>6, <1>7, <1>8 DEF Browser!Next

(* With one tab, and storage that takes what it is given, a message stays  *)
(* until the server has it: closed, reloaded or logged out of, the tab     *)
(* finds it there when it comes back.                                      *)
THEOREM OneTabKeeps ==
    ASSUME \A t, u \in Tabs : t = u
    PROVE  Browser!Spec => []KeptUntilStored
<1>1. Browser!Init => OneTabInv
  BY DEF Browser!Init, OneTabInv, Browser!TypeOK, Browser!Composed
<1>2. OneTabInv /\ [Browser!Next]_(Browser!vars) => OneTabInv'
  BY OneTabStep
<1>3. OneTabInv => KeptUntilStored
  BY DEF OneTabInv, KeptUntilStored, Browser!KeptUntilStored, Browser!Composed,
     Browser!Stored
<1> QED
  BY <1>1, <1>2, <1>3, PTL DEF Browser!Spec

-----------------------------------------------------------------------------
(* Storing as another user takes another user.                             *)
OneUserInv ==
    /\ user \in [Tabs -> Users \union {Nobody}]
    /\ {author, sender} \subseteq [Messages -> Users \union {Nobody}]
    /\ shared \subseteq Browser!Composed
    /\ outbox \in [Tabs -> SUBSET Browser!Composed]
    /\ StoredAsAuthors

LEMMA OneUserStep ==
    ASSUME \A u, v \in Users : u = v, OneUserInv, [Browser!Next]_(Browser!vars)
    PROVE  OneUserInv'
<1> USE DEF OneUserInv, StoredAsAuthors, Browser!StoredAsAuthors,
            Browser!Composed, Browser!Stored
<1>1. ASSUME NEW t \in Tabs, Browser!Load(t) \/ Browser!Close(t)
      PROVE  OneUserInv'
  BY <1>1 DEF Browser!Load, Browser!Close
<1>2. ASSUME NEW t \in Tabs, NEW u \in Users, Browser!Login(t, u)
      PROVE  OneUserInv'
  BY <1>2 DEF Browser!Login
<1>3. ASSUME NEW t \in Tabs, NEW m \in Messages, Browser!Enqueue(t, m)
      PROVE  OneUserInv'
  BY <1>3 DEF Browser!Enqueue, Browser!Save
<1>4. ASSUME NEW t \in Tabs, NEW m \in Messages, Browser!Deliver(t, m)
      PROVE  OneUserInv'
  <2>1. user[t] \in Users /\ author[m] \in Users
    BY <1>4 DEF Browser!Deliver
  <2> QED
    BY <1>4, <2>1 DEF Browser!Deliver
<1>5. ASSUME NEW t \in Tabs, NEW m \in Messages, Browser!ResolveOutbox(t, m)
      PROVE  OneUserInv'
  BY <1>5 DEF Browser!ResolveOutbox, Browser!Save
<1>6. CASE UNCHANGED Browser!vars
  BY <1>6 DEF Browser!vars
<1>7. CASE Browser!Next
  <2>1. PICK t \in Tabs :
            \/ Browser!Load(t) \/ Browser!Close(t)
            \/ (\E u \in Users : Browser!Login(t, u)) \/ Browser!Logout(t)
            \/ \E m \in Messages : \/ Browser!Enqueue(t, m) \/ Browser!Deliver(t, m)
                                   \/ Browser!ResolveOutbox(t, m)
    BY <1>7 DEF Browser!Next
  <2>2. CASE Browser!Logout(t)
    BY <2>2 DEF Browser!Logout
  <2> HIDE DEF OneUserInv
  <2> QED
    BY <1>1, <1>2, <1>3, <1>4, <1>5, <2>1, <2>2
<1> QED
  BY <1>6, <1>7

(* In a browser only one user logs in to, however many its tabs, whatever  *)
(* is left in an outbox goes out under its author.                         *)
THEOREM OneUserStores ==
    ASSUME \A u, v \in Users : u = v
    PROVE  Browser!Spec => []StoredAsAuthors
<1>1. Browser!Init => OneUserInv
  BY DEF Browser!Init, OneUserInv, StoredAsAuthors, Browser!StoredAsAuthors,
     Browser!Composed, Browser!Stored
<1>2. OneUserInv /\ [Browser!Next]_(Browser!vars) => OneUserInv'
  BY OneUserStep
<1>3. OneUserInv => StoredAsAuthors
  BY DEF OneUserInv
<1> QED
  BY <1>1, <1>2, <1>3, PTL DEF Browser!Spec
=============================================================================
