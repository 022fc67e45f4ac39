------------------------------- MODULE Typing --------------------------------
(***************************************************************************)
(* The typing indicator, from the keystrokes in one tab's composer to what *)
(* one other member of the conversations sees.                             *)
(*                                                                         *)
(* The server's handler first asks whether the sender is a member, which   *)
(* takes a query unless the answer is cached: events that do not find it   *)
(* cached overtake each other.                                             *)
(***************************************************************************)
EXTENDS Naturals, Sequences, FiniteSets

CONSTANTS
    Convs,                      \* conversations both are members of
    MaxEvents,                  \* bound on events emitted by one tab
    Nobody

ASSUME TypingAssumption == MaxEvents \in Nat /\ Nobody \notin Convs

VARIABLES
    open,                       \* the composer's conversationId
    typing,                     \* typingRef
    stopTimer,                  \* the conversation the stop timer is for
    announced,                  \* conversations last told start, not stop
    up,                         \* the composer's tab has its socket
    sent,                       \* events emitted so far
    cached,                     \* membershipCache of the sender
    queue,                      \* events emitted, oldest first
    asking,                     \* handlers waiting for the query
    frames,                     \* typing events on their way to the watcher
    shown,                      \* the watcher's typing[conversationId]
    timers                      \* how many of its timers run

composer == <<open, typing, stopTimer, announced, sent>>
server == <<cached, asking>>
watcher == <<shown, timers>>
vars == <<open, typing, stopTimer, announced, up, sent, cached, queue, asking,
          frames, shown, timers>>

Events == [conv : Convs, on : BOOLEAN]

Init ==
    /\ open \in Convs
    /\ typing = FALSE /\ stopTimer = Nobody /\ announced = {}
    /\ up = TRUE /\ sent = 0
    /\ cached \in SUBSET Convs
    /\ queue = <<>> /\ asking = {} /\ frames = <<>>
    /\ shown = [c \in Convs |-> FALSE] /\ timers = [c \in Convs |-> 0]

-----------------------------------------------------------------------------
(* emitTyping: buffered by the library while the socket is down.           *)
Emit(c, on) ==
    /\ sent < MaxEvents /\ sent' = sent + 1
    /\ queue' = Append(queue, [conv |-> c, on |-> on])
    /\ announced' = IF on THEN announced \union {c} ELSE announced \ {c}

(* onChange: start is emitted once, and the stop timer set again.          *)
Type ==
    /\ open # Nobody
    /\ \/ ~typing /\ Emit(open, TRUE)
       \/ typing /\ UNCHANGED <<sent, queue, announced>>
    /\ typing' = TRUE /\ stopTimer' = open
    /\ UNCHANGED <<open, up, server, frames, watcher>>

(* Two seconds without a keystroke.                                        *)
StopTimerFires ==
    /\ stopTimer # Nobody
    /\ Emit(stopTimer, FALSE)
    /\ typing' = FALSE /\ stopTimer' = Nobody
    /\ UNCHANGED <<open, up, server, frames, watcher>>

Submit ==
    /\ open # Nobody
    /\ Emit(open, FALSE)
    /\ typing' = FALSE /\ stopTimer' = Nobody
    /\ UNCHANGED <<open, up, server, frames, watcher>>

(* Mutant: the effect depends on nothing, and only an unmount cleans up.   *)
SwitchWithoutCleanup(c) ==
    /\ open # Nobody /\ c # open
    /\ open' = c
    /\ UNCHANGED <<typing, stopTimer, announced, up, sent, queue, server, frames,
                   watcher>>

(* Another conversation is opened: the effect of the old one is cleaned up. *)
(* typingRef stays as it is.                                               *)
Switch(c) ==
    /\ open # Nobody /\ c # open
    /\ open' = c /\ stopTimer' = Nobody
    /\ \/ typing /\ Emit(open, FALSE)
       \/ ~typing /\ UNCHANGED <<sent, queue, announced>>
    /\ UNCHANGED <<typing, up, server, frames, watcher>>

(* The tab goes, with what it had not sent.                                *)
Close ==
    /\ open # Nobody
    /\ open' = Nobody /\ typing' = FALSE /\ stopTimer' = Nobody
    /\ announced' = {} /\ up' = FALSE /\ queue' = <<>>
    /\ UNCHANGED <<sent, server, frames, watcher>>

Disconnect ==
    /\ up
    /\ up' = FALSE /\ queue' = <<>>
    /\ UNCHANGED <<composer, server, frames, watcher>>

(* What was buffered is flushed, and dropped where it comes before the     *)
(* handlers are registered.                                                *)
Connect ==
    /\ ~up /\ open # Nobody
    /\ up' = TRUE
    /\ \E k \in 0 .. Len(queue) : queue' = SubSeq(queue, k + 1, Len(queue))
    /\ UNCHANGED <<composer, server, frames, watcher>>

-----------------------------------------------------------------------------
Broadcast(e) == frames' = Append(frames, e)

(* A handler is entered: assertMember finds the sender cached, or asks.    *)
Relay ==
    /\ up /\ queue # <<>>
    /\ queue' = Tail(queue)
    /\ \/ Head(queue).conv \in cached /\ Broadcast(Head(queue)) /\ UNCHANGED asking
       \/ /\ Head(queue).conv \notin cached
          /\ asking' = asking \union {Head(queue)} /\ UNCHANGED frames
    /\ UNCHANGED <<composer, up, cached, watcher>>

MembershipFound(e) ==
    /\ e \in asking
    /\ asking' = asking \ {e}
    /\ cached' = cached \union {e.conv}
    /\ Broadcast(e)
    /\ UNCHANGED <<composer, up, queue, watcher>>

(* The query fails: dropped silently.                                      *)
QueryFails(e) ==
    /\ e \in asking
    /\ asking' = asking \ {e}
    /\ UNCHANGED <<composer, up, cached, queue, frames, watcher>>

(* Thirty seconds, or the cache is full and cleared.                       *)
CacheExpires(c) ==
    /\ c \in cached
    /\ cached' = cached \ {c}
    /\ UNCHANGED <<composer, up, queue, asking, frames, watcher>>

-----------------------------------------------------------------------------
SetTyping(c, on) == shown' = [shown EXCEPT ![c] = on]

(* Mutant: the indicator waits for its stop.                               *)
HearAndTrust ==
    /\ frames # <<>>
    /\ frames' = Tail(frames)
    /\ SetTyping(Head(frames).conv, Head(frames).on)
    /\ UNCHANGED <<composer, up, server, queue, timers>>

(* The watcher's 'typing' handler: every start has a timer of its own.     *)
Hear ==
    /\ frames # <<>>
    /\ frames' = Tail(frames)
    /\ LET e == Head(frames)
       IN  /\ SetTyping(e.conv, e.on)
           /\ timers' = [timers EXCEPT ![e.conv] = @ + IF e.on THEN 1 ELSE 0]
    /\ UNCHANGED <<composer, up, server, queue>>

(* Four seconds after one of the starts.                                   *)
TimerFires(c) ==
    /\ timers[c] > 0
    /\ timers' = [timers EXCEPT ![c] = @ - 1]
    /\ SetTyping(c, FALSE)
    /\ UNCHANGED <<composer, up, server, queue, frames>>

-----------------------------------------------------------------------------
Composer == Type \/ StopTimerFires \/ Submit \/ \E c \in Convs : Switch(c)

Server ==
    \/ Relay
    \/ \E e \in Events : MembershipFound(e) \/ QueryFails(e)
    \/ \E c \in Convs : CacheExpires(c)

Next ==
    \/ Composer \/ Close \/ Disconnect \/ Connect
    \/ Server
    \/ Hear \/ \E c \in Convs : TimerFires(c)

(* Timers of the watcher's tab fire; nothing else need ever happen.        *)
Spec == Init /\ [][Next]_vars /\ \A c \in Convs : WF_vars(TimerFires(c))

-----------------------------------------------------------------------------
TypeOK ==
    /\ open \in Convs \union {Nobody} /\ stopTimer \in Convs \union {Nobody}
    /\ typing \in BOOLEAN /\ up \in BOOLEAN
    /\ announced \subseteq Convs /\ cached \subseteq Convs
    /\ sent \in 0 .. MaxEvents
    /\ queue \in Seq(Events) /\ frames \in Seq(Events)
    /\ asking \subseteq Events
    /\ shown \in [Convs -> BOOLEAN] /\ timers \in [Convs -> Nat]

(* A start that has not been taken back is for the conversation the stop   *)
(* timer is armed for: whatever is opened, sent or left alone next, its    *)
(* stop follows (Composer.jsx:9-16).                                       *)
StartsAreStopped == announced \subseteq {stopTimer} /\ (announced # {} => typing)

(* Why that holds: nothing is announced but where the composer is open.    *)
StopInv == announced \subseteq {open} /\ StartsAreStopped

(* Nobody is shown typing for ever: the sender may crash, the stop be lost *)
(* or overtaken by its own start (socket.js:120-121, typing.js:11-13).     *)
IndicatorClears == \A c \in Convs : shown[c] ~> ~shown[c]

(* What that rests on: whoever is shown typing has a timer running, and it *)
(* need only fire.                                                         *)
ShownHasTimer == \A c \in Convs : shown[c] => timers[c] > 0

(* Only the timer of the last start clears the indicator; an older one     *)
(* clears it too, under a sender who types on.                             *)
OwnTimerClears == [][\A c \in Convs : TimerFires(c) => ~shown[c] \/ timers[c] = 1]_vars
=============================================================================
