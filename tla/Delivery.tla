------------------------------ MODULE Delivery ------------------------------
(***************************************************************************)
(* How a conversation's messages reach one member: the log they are stored *)
(* in, the live broadcasts, the backlog drained on connect and paged by    *)
(* the client's requests, the delivery watermark and the acknowledgements  *)
(* that move it, and the client's repair of gaps.                          *)
(*                                                                         *)
(* The socket is FIFO, but a page is emitted some time after it was read   *)
(* and broadcasts of several instances arrive in any order, so the frames  *)
(* on their way to the client are a set.  So are the events on their way   *)
(* to the server, whose handlers all begin by awaiting a store.            *)
(***************************************************************************)
EXTENDS MessageStore

CONSTANTS
    MaxSeq,                     \* bound on sequence numbers
    Page,                       \* BACKLOG_PAGE and MAX_PAGE
    MaxFaults                   \* bound on losses, errors, disconnections

ASSUME DeliveryAssumption ==
    /\ MaxSeq \in Nat
    /\ Page \in Nat \ {0}
    /\ MaxFaults \in Nat

VARIABLES
    nextSeq,                    \* conversations.next_seq
    allocated,                  \* numbers whose insert is still running
    log,                        \* stored messages
    unsent,                     \* stored, not yet emitted to the room
    silent,                     \* stored, never emitted: their sender's
                                \* handler or the publish was lost
    watermark,                  \* conversation_members.last_delivered_seq
    sess,                       \* how far the member's connection has got
    drainFrom,                  \* the cursor its drain started from
    owed,                       \* what was undelivered when it drained
    gaveUp,                     \* a page of this drain could not be read
    frames,                     \* message:new and message:backlog in flight
    acks,                       \* sync:ack in flight or in its handler
    asks,                       \* sync:request in flight
    buffer,                     \* sync:ack emitted while disconnected
    due,                        \* seq held by the debounce timer, 0 if none
    fetches,                    \* gap repairs in flight
    thread,                     \* messages the tab holds
    received,                   \* messages any tab has received
    faults

store == <<nextSeq, allocated, log, unsent, silent>>
session == <<sess, drainFrom, owed, gaveUp>>
wire == <<frames, acks, asks, buffer>>
client == <<due, fetches, thread, received>>
vars == <<nextSeq, allocated, log, unsent, silent, watermark, sess, drainFrom,
          owed, gaveUp, frames, acks, asks, buffer, due, fetches, thread,
          received, faults>>

Seqs == 1 .. MaxSeq

(* One frame type: message:new carries one message and promises no more.   *)
Frames == [kind : {"new", "backlog"}, seqs : SUBSET Seqs, more : BOOLEAN]
Acks == [upTo : Seqs, more : BOOLEAN]
Fetches == [after : 0 .. MaxSeq, before : Seqs]

Init ==
    /\ nextSeq = 1
    /\ allocated = {} /\ log = {} /\ unsent = {} /\ silent = {}
    /\ watermark = 0
    /\ sess = "off" /\ drainFrom = 0 /\ owed = {} /\ gaveUp = FALSE
    /\ frames = {} /\ acks = {} /\ asks = {} /\ buffer = {}
    /\ due = 0 /\ fetches = {} /\ thread = {} /\ received = {}
    /\ faults = 0

Fault == faults < MaxFaults /\ faults' = faults + 1

-----------------------------------------------------------------------------
(* The senders' handlers, each somewhere in createMessage or just after it. *)

(* Mutant: the counter is read without being advanced.                     *)
AllocateReadOnly ==
    /\ nextSeq <= MaxSeq
    /\ allocated' = allocated \union {nextSeq}
    /\ UNCHANGED <<nextSeq, log, unsent, silent, watermark, session, wire,
                   client, faults>>

AllocateSeq ==
    /\ nextSeq <= MaxSeq
    /\ nextSeq' = nextSeq + 1
    /\ allocated' = allocated \union {nextSeq}
    /\ UNCHANGED <<log, unsent, silent, watermark, session, wire, client, faults>>

(* Inserts finish in any order.                                            *)
Store(s) ==
    /\ s \in allocated
    /\ allocated' = allocated \ {s}
    /\ log' = log \union {s}
    /\ unsent' = unsent \union {s}
    /\ UNCHANGED <<nextSeq, silent, watermark, session, wire, client, faults>>

(* The insert collides with an earlier attempt, or fails.                  *)
Burn(s) ==
    /\ Fault
    /\ s \in allocated
    /\ allocated' = allocated \ {s}
    /\ UNCHANGED <<nextSeq, log, unsent, silent, watermark, session, wire, client>>

Joined == sess \in {"joined", "cursor", "live"}

(* The emit to the room reaches this member if its socket has joined.      *)
Publish(s) ==
    /\ s \in unsent
    /\ unsent' = unsent \ {s}
    /\ frames' = IF Joined
                 THEN frames \union {[kind |-> "new", seqs |-> {s}, more |-> FALSE]}
                 ELSE frames
    /\ UNCHANGED <<nextSeq, allocated, log, silent, watermark, session, acks,
                   asks, buffer, client, faults>>

(* The sender's instance dies before emitting, or the publish is lost.     *)
LosePublish(s) ==
    /\ Fault
    /\ s \in unsent
    /\ unsent' = unsent \ {s}
    /\ silent' = silent \union {s}
    /\ UNCHANGED <<nextSeq, allocated, log, watermark, session, wire, client>>

-----------------------------------------------------------------------------
(* The member's connection on the server.                                  *)

Connect ==
    /\ sess = "off"
    /\ sess' = "setup"
    /\ acks' = acks \union [upTo : buffer, more : {FALSE}]
    /\ buffer' = {}
    /\ UNCHANGED <<store, watermark, drainFrom, owed, gaveUp, frames, asks,
                   client, faults>>

(* Rooms joined and listeners registered, in one turn of the event loop.   *)
Join ==
    /\ sess = "setup"
    /\ sess' = "joined"
    /\ UNCHANGED <<store, watermark, drainFrom, owed, gaveUp, wire, client, faults>>

(* drainAll reads the memberships again, for their watermarks.             *)
ReadCursor ==
    /\ sess = "joined"
    /\ sess' = "cursor"
    /\ drainFrom' = watermark
    /\ UNCHANGED <<store, watermark, owed, gaveUp, wire, client, faults>>

(* drainConversation: an empty page is not sent.                           *)
SendPage(afterSeq) ==
    LET page == ListUndelivered(log, afterSeq, Page)
    IN  frames' = IF page.messages = {} THEN frames
                  ELSE frames \union {[kind |-> "backlog",
                                       seqs |-> page.messages,
                                       more |-> page.hasMore]}

Drain ==
    /\ sess = "cursor"
    /\ sess' = "live"
    /\ gaveUp' = FALSE
    /\ owed' = {s \in log : s > drainFrom}
    /\ SendPage(drainFrom)
    /\ UNCHANGED <<store, watermark, drainFrom, acks, asks, buffer, client, faults>>

(* The read of the log throws: logged, and nothing is sent.                *)
DrainFails ==
    /\ Fault
    /\ sess = "cursor"
    /\ sess' = "live"
    /\ gaveUp' = TRUE
    /\ owed' = {}
    /\ UNCHANGED <<store, watermark, drainFrom, wire, client>>

(* sync:ack: GREATEST(last_delivered_seq, upToSeq), then the callback, from *)
(* which the client asks for the page after the one it acknowledged.       *)
(* Mutant: the client forgets to ask for the next page.                    *)
AcknowledgedWithoutAsking(k) ==
    /\ acks' = acks \ {k}
    /\ asks' = asks

Acknowledged(k) ==
    /\ acks' = acks \ {k}
    /\ asks' = IF k.more THEN asks \union {k.upTo} ELSE asks

(* Mutant: the update has no GREATEST.                                     *)
HandleAckRewinding(k) ==
    /\ k \in acks
    /\ watermark' = k.upTo
    /\ Acknowledged(k)
    /\ UNCHANGED <<store, session, frames, buffer, client, faults>>

(* Mutant: an acknowledgement moves the cursor to the head of the log.     *)
HandleAckToHead(k) ==
    /\ k \in acks
    /\ watermark' = nextSeq - 1
    /\ Acknowledged(k)
    /\ UNCHANGED <<store, session, frames, buffer, client, faults>>

HandleAck(k) ==
    /\ k \in acks
    /\ watermark' = IF k.upTo > watermark THEN k.upTo ELSE watermark
    /\ Acknowledged(k)
    /\ UNCHANGED <<store, session, frames, buffer, client, faults>>

(* The update throws: the callback runs all the same.                      *)
AckFails(k) ==
    /\ Fault
    /\ k \in acks
    /\ Acknowledged(k)
    /\ UNCHANGED <<store, watermark, session, frames, buffer, client>>

(* An acknowledgement arrives before there is a listener for it.           *)
AckUnheard(k) ==
    /\ sess = "setup"
    /\ k \in acks
    /\ acks' = acks \ {k}
    /\ UNCHANGED <<store, watermark, session, frames, asks, buffer, client, faults>>

(* sync:request: the next page, from where the client says it is.          *)
HandleAsk(n) ==
    /\ n \in asks
    /\ asks' = asks \ {n}
    /\ SendPage(n)
    /\ UNCHANGED <<store, watermark, session, acks, buffer, client, faults>>

AskFails(n) ==
    /\ Fault
    /\ n \in asks
    /\ asks' = asks \ {n}
    /\ gaveUp' = TRUE
    /\ UNCHANGED <<store, watermark, sess, drainFrom, owed, frames, acks, buffer,
                   client>>

-----------------------------------------------------------------------------
(* The member's browser tab.                                               *)

Take(seqs) ==
    /\ thread' = thread \union seqs
    /\ received' = received \union seqs

(* detectGap, after a merge that made the thread T.                        *)
DetectGap(T) ==
    fetches' = IF Highest(T) <= Contiguous(T) + 1 THEN fetches
               ELSE fetches \union {[after |-> Contiguous(T), before |-> Highest(T)]}

(* message:new: merge, look for a gap, and (re)arm the debounced ack.      *)
RecvNew(f) ==
    /\ f \in frames /\ f.kind = "new"
    /\ frames' = frames \ {f}
    /\ Take(f.seqs)
    /\ DetectGap(thread \union f.seqs)
    /\ due' = Highest(f.seqs \union {due})
    /\ UNCHANGED <<store, watermark, session, acks, asks, buffer, faults>>

(* message:backlog: merge, and acknowledge the highest number of the page. *)
RecvBacklog(f) ==
    /\ f \in frames /\ f.kind = "backlog"
    /\ frames' = frames \ {f}
    /\ Take(f.seqs)
    /\ acks' = acks \union {[upTo |-> Highest(f.seqs), more |-> f.more]}
    /\ UNCHANGED <<store, watermark, session, asks, buffer, due, fetches, faults>>

(* The debounce timer fires; socket.io buffers what is emitted offline.    *)
TimerFires ==
    /\ due > 0
    /\ due' = 0
    /\ IF sess = "off"
       THEN /\ buffer' = buffer \union {due}
            /\ UNCHANGED acks
       ELSE /\ acks' = acks \union {[upTo |-> due, more |-> FALSE]}
            /\ UNCHANGED buffer
    /\ UNCHANGED <<store, watermark, session, frames, asks, fetches, thread,
                   received, faults>>

FetchReturns(f) ==
    /\ f \in fetches
    /\ fetches' = fetches \ {f}
    /\ Take(ListRange(log, f.after, f.before, Page))
    /\ UNCHANGED <<store, watermark, session, wire, due, faults>>

FetchFails(f) ==
    /\ Fault
    /\ f \in fetches
    /\ fetches' = fetches \ {f}
    /\ UNCHANGED <<store, watermark, session, wire, due, thread, received>>

(* The connection ends: frames and requests are lost, acknowledgements     *)
(* survive where their handler had already begun.                          *)
Hangup ==
    /\ sess' = "off"
    /\ frames' = {}
    /\ asks' = {}
    /\ \E begun \in SUBSET acks : acks' = [upTo : {k.upTo : k \in begun},
                                           more : {FALSE}]
    /\ UNCHANGED <<store, watermark, drainFrom, owed, gaveUp>>

Disconnect ==
    /\ Fault
    /\ sess # "off"
    /\ Hangup
    /\ UNCHANGED <<buffer, client>>

(* The tab is reloaded: thread, timers, requests and buffer are gone.      *)
Reload ==
    /\ Fault
    /\ Hangup
    /\ buffer' = {} /\ due' = 0 /\ fetches' = {} /\ thread' = {}
    /\ UNCHANGED received

-----------------------------------------------------------------------------
Sender ==
    \/ AllocateSeq
    \/ \E s \in Seqs : Store(s) \/ Burn(s) \/ Publish(s) \/ LosePublish(s)

Server ==
    \/ Connect \/ Join \/ ReadCursor \/ Drain \/ DrainFails
    \/ \E k \in acks : HandleAck(k) \/ AckFails(k) \/ AckUnheard(k)
    \/ \E n \in asks : HandleAsk(n) \/ AskFails(n)

Tab ==
    \/ \E f \in frames : RecvNew(f) \/ RecvBacklog(f)
    \/ TimerFires
    \/ \E f \in fetches : FetchReturns(f) \/ FetchFails(f)
    \/ Disconnect
    \/ Reload

Next == Sender \/ Server \/ Tab

Spec == Init /\ [][Next]_vars

(* Handlers, timers and callbacks run; socket.io reconnects.  What the     *)
(* senders write, faults and the loss of connections are not fair.         *)
Fairness ==
    /\ WF_vars(\E s \in Seqs : Store(s))
    /\ WF_vars(\E s \in Seqs : Publish(s))
    /\ WF_vars(Connect \/ Join \/ ReadCursor \/ Drain)
    /\ WF_vars(\E k \in acks : HandleAck(k))
    /\ WF_vars(\E n \in asks : HandleAsk(n))
    /\ WF_vars(\E f \in frames : RecvNew(f) \/ RecvBacklog(f))
    /\ WF_vars(TimerFires)
    /\ WF_vars(\E f \in fetches : FetchReturns(f))

FairSpec == Spec /\ Fairness

-----------------------------------------------------------------------------
TypeOK ==
    /\ nextSeq \in 1 .. MaxSeq + 1
    /\ allocated \subseteq 1 .. nextSeq - 1
    /\ log \subseteq 1 .. nextSeq - 1
    /\ allocated \intersect log = {}
    /\ unsent \subseteq log /\ silent \subseteq log
    /\ watermark \in 0 .. MaxSeq
    /\ sess \in {"off", "setup", "joined", "cursor", "live"}
    /\ drainFrom \in 0 .. MaxSeq
    /\ owed \subseteq log
    /\ gaveUp \in BOOLEAN
    /\ frames \subseteq Frames
    /\ acks \subseteq Acks
    /\ asks \subseteq Seqs
    /\ buffer \subseteq Seqs
    /\ due \in 0 .. MaxSeq
    /\ fetches \subseteq Fetches
    /\ thread \subseteq received
    /\ received \subseteq log
    /\ faults \in 0 .. MaxFaults

(* The cursor is never ahead of the client: it stands on a message that    *)
(* some tab of the member has really received, whatever acknowledgements   *)
(* were delayed, buffered, repeated or lost.                               *)
WatermarkBacked == watermark = 0 \/ watermark \in received

(* However late, repeated or out of order acknowledgements are handled, the *)
(* cursor never rewinds, and it moves only onto a message that a tab has   *)
(* received before (sync.service.js:26-39).                                *)
Cursor == INSTANCE HighWaterMark WITH mark <- watermark, given <- received
ImplementsHighWaterMark == Cursor!Spec

(* The senders hand out and store numbers as MessageLog says, which is all  *)
(* that is known of them here.                                             *)
Numbers == INSTANCE MessageLog WITH next <- nextSeq, open <- allocated
ImplementsMessageLog == Numbers!Spec

InFrames(s) == \E f \in frames : s \in f.seqs

(* A page beyond s has been promised and is still being paged for.         *)
Ahead(s) ==
    \/ \E f \in frames : f.more /\ Highest(f.seqs) < s
    \/ \E k \in acks : k.more /\ k.upTo < s
    \/ \E n \in asks : n < s

(* Join before drain: once a session has drained, every stored message     *)
(* after its cursor is in the thread, on its way, still to be emitted, or  *)
(* on a page still being asked for.  No message falls between the read of  *)
(* the backlog and the live stream.  (A failed page read is the exception  *)
(* the code allows; a silent message is one nobody emitted.)               *)
SessionCoversLog ==
    sess = "live" /\ ~ gaveUp =>
        \A s \in log : s > drainFrom =>
            \/ s \in thread \union unsent \union silent
            \/ InFrames(s)
            \/ Ahead(s)

(* And it gets there: paging ends with every such message in the thread,   *)
(* unless the session ends first or a page of it could not be read.        *)
CaughtUp ==
    \A s \in Seqs :
        (sess = "live" /\ s \in log /\ s > drainFrom)
            ~> (s \in thread \union silent \/ sess = "off" \/ gaveUp)

(* Where paging stands: the last number of each page that promises another, *)
(* wherever it has got to on its way back to the server.                   *)
Positions ==
    {Highest(f.seqs) : f \in {f \in frames : f.more}}
    \union {k.upTo : k \in {k \in acks : k.more}} \union asks

(* What that rests on: a page asked for ends beyond the one before it, so  *)
(* that paging only goes up, from the cursor that it started from.         *)
PagingAdvances ==
    [][\A p \in Positions' \ Positions :
          \/ sess = "cursor" /\ sess' = "live" /\ drainFrom < p
          \/ \E n \in asks \ asks' : n < p]_vars

-----------------------------------------------------------------------------
(* What the proofs need besides.  A frame carries stored messages, and only *)
(* a page promises more of them.                                           *)
FramesStored ==
    \A f \in frames : /\ f.seqs # {} /\ f.seqs \subseteq log
                      /\ f.kind = "new" => ~ f.more

(* An acknowledgement, wherever it waits, is of a message received.        *)
AcksBacked ==
    /\ \A k \in acks : k.upTo \in received
    /\ buffer \subseteq received
    /\ due = 0 \/ due \in received

DeliveryInv ==
    TypeOK /\ FramesStored /\ AcksBacked /\ WatermarkBacked /\ SessionCoversLog

-----------------------------------------------------------------------------
(* Statements of the repository the runs refute.  Both are read where the  *)
(* member has gone and nothing of the message is under way any more, so    *)
(* that only the next drain could bring it.                                *)
LeftToDrain(s) == sess = "off" /\ fetches = {} /\ s \notin unsent \union silent

(* "A message with seq = S is delivered to user U iff U.lastDeliveredSeq   *)
(* >= S" (schema.prisma).                                                  *)
DeliveredIffWatermark ==
    \A s \in log : LeftToDrain(s) /\ s <= watermark => s \in received

(* "a client that dies mid-drain simply receives the batch again"          *)
(* (handlers/sync.js): what was undelivered when the drain read the log    *)
(* stays beyond the cursor until it is received.                           *)
MidDrainRedelivery ==
    \A s \in owed \ received : LeftToDrain(s) => s > watermark
=============================================================================
