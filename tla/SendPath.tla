------------------------------ MODULE SendPath ------------------------------
(***************************************************************************)
(* The life of a sent message: one author's browser tab, the socket it     *)
(* holds to one of several server instances, the message:send handlers     *)
(* running there, and the two stores they share (the sequence allocator in *)
(* Postgres, the message log in Mongo).  One conversation.                 *)
(*                                                                         *)
(* An attempt is one emit of message:send with its acknowledgement         *)
(* callback.  A message has several attempts over time because the outbox  *)
(* is flushed on every connect and on every press of "Retry"; a slot that  *)
(* has finished is used again.                                             *)
(***************************************************************************)
EXTENDS Naturals, FiniteSets

CONSTANTS
    Msgs,                       \* clientMsgIds
    Instances,                  \* server processes behind the proxy
    None,                       \* no instance
    Slots,                      \* concurrent attempts of one message
    RateLimit,                  \* RATE.limit of the send handler
    MaxSeq,                     \* largest value of the next_seq column, less 1
    MaxFaults                   \* bound on crashes, losses, errors, reloads

ASSUME SendPathAssumption ==
    /\ None \notin Instances
    /\ RateLimit \in Nat
    /\ MaxSeq \in Nat
    /\ MaxFaults \in Nat

VARIABLES
    composed,                   \* messages written so far (for properties)
    before,                     \* before[m]: the log when m was written
    outbox,                     \* entries of the persisted outbox
    pending,                    \* status of the optimistic bubble
    thread,                     \* confirmed documents the tab holds (byId)
    waiting,                    \* attempts whose callback has not run
    conn,                       \* the tab's socket
    at,                         \* the instance the socket is connected to
    att,                        \* the attempts
    used,                       \* sends counted in this rate window
    nextSeq,                    \* conversations.next_seq
    log,                        \* the messages collection
    casts,                      \* times message:new was emitted to the room
    faults                      \* faults so far

client == <<composed, before, outbox, pending, thread>>
server == <<used, nextSeq, log, casts>>
vars == <<composed, before, outbox, pending, thread, waiting, conn, at, att,
          used, nextSeq, log, casts, faults>>

Attempts == Msgs \X Slots
Docs == [msg : Msgs, seq : 1 .. MaxSeq]

(* Where an attempt is: on its way to the server, arrived before any       *)
(* listener was registered, inside the handler, or answered with the       *)
(* answer on its way back.                                                 *)
Running == {"entered", "admitted", "allocated", "collided", "stored"}
InFlight == {"wire", "unheard", "acked", "refused"}
Phases == {"idle"} \union InFlight \union Running

Idle == [pc |-> "idle", seq |-> 0, host |-> None]
Stored == {d.msg : d \in log}
StoredSeq(m) == (CHOOSE d \in log : d.msg = m).seq

Init ==
    /\ composed = {}
    /\ before = [m \in Msgs |-> {}]
    /\ outbox = {}
    /\ pending = [m \in Msgs |-> "none"]
    /\ thread = {}
    /\ waiting = {}
    /\ conn = "down"
    /\ at = None
    /\ att = [a \in Attempts |-> Idle]
    /\ used = 0
    /\ nextSeq = 1
    /\ log = {}
    /\ casts = [m \in Msgs |-> 0]
    /\ faults = 0

-----------------------------------------------------------------------------
(* The browser tab.                                                        *)

FreeSlots(m) == {k \in Slots : att[<<m, k>>].pc = "idle"}

(* deliver() for each message of ms over a connected socket to instance i. *)
Emit(ms, i) ==
    /\ \A m \in ms : FreeSlots(m) # {}
    /\ LET sent == {<<m, CHOOSE k \in FreeSlots(m) : TRUE>> : m \in ms}
       IN  /\ waiting' = waiting \union sent
           /\ att' = [a \in Attempts |->
                        IF a \in sent THEN [pc |-> "wire", seq |-> 0, host |-> i]
                        ELSE att[a]]

(* markOutboxStatus(m, 'failed') for each m of ms: a no-op when the entry  *)
(* or its bubble is gone.                                                  *)
MarkFailed(ms) ==
    [m \in Msgs |-> IF m \in ms \intersect outbox /\ pending[m] # "none"
                    THEN "failed" ELSE pending[m]]

(* enqueue: the outbox entry and the bubble, before anything is sent.      *)
Enqueue(m, status) ==
    /\ outbox' = outbox \union {m}
    /\ pending' = [pending EXCEPT ![m] = status]

(* sendMessage: without a connection, deliver() only marks it "queued".    *)
Compose(m) ==
    /\ m \notin composed
    /\ composed' = composed \union {m}
    /\ before' = [before EXCEPT ![m] = log]
    /\ IF conn = "down"
       THEN /\ Enqueue(m, "queued")
            /\ UNCHANGED <<waiting, att>>
       ELSE /\ Enqueue(m, "sending")
            /\ Emit({m}, at)
    /\ UNCHANGED <<thread, conn, at, server, faults>>

(* 'connect': the client flushes its outbox at once, while the server is   *)
(* still awaiting the memberships and has registered no listener.          *)
Connect(i) ==
    /\ conn = "down"
    /\ conn' = "setup"
    /\ at' = i
    /\ Emit(outbox, i)
    /\ UNCHANGED <<client, server, faults>>

(* The user presses "Retry now" on the banner, shown while connected with a *)
(* non-empty outbox, or "Retry" under the thread.                          *)
RetryFailed ==
    /\ conn # "down"
    /\ outbox # {}
    /\ Emit(outbox, at)
    /\ UNCHANGED <<client, conn, at, server, faults>>

(* The "Retry" under a thread with a failed bubble is shown while the       *)
(* connection is down, too: deliver() then only marks the entries.         *)
RetryOffline ==
    /\ conn = "down"
    /\ \E m \in Msgs : pending[m] = "failed"
    /\ pending' = [m \in Msgs |-> IF m \in outbox /\ pending[m] # "none"
                                  THEN "queued" ELSE pending[m]]
    /\ UNCHANGED <<composed, before, outbox, thread, waiting, conn, at, att,
                   server, faults>>

(* resolveOutbox on a positive acknowledgement.                            *)
AckReceived(a) ==
    /\ a \in waiting
    /\ att[a].pc = "acked"
    /\ outbox' = outbox \ {a[1]}
    /\ pending' = [pending EXCEPT ![a[1]] = "none"]
    /\ thread' = thread \union {[msg |-> a[1], seq |-> att[a].seq]}
    /\ waiting' = waiting \ {a}
    /\ att' = [att EXCEPT ![a] = Idle]
    /\ UNCHANGED <<composed, before, conn, at, server, faults>>

(* Mutant: a refused entry is dropped like an acknowledged one.            *)
RefusalDropsEntry(a) ==
    /\ a \in waiting
    /\ att[a].pc = "refused"
    /\ pending' = MarkFailed({a[1]})
    /\ outbox' = outbox \ {a[1]}
    /\ waiting' = waiting \ {a}
    /\ att' = [att EXCEPT ![a] = Idle]
    /\ UNCHANGED <<composed, before, thread, conn, at, server, faults>>

(* A negative acknowledgement, whatever its code.                          *)
RefusalReceived(a) ==
    /\ a \in waiting
    /\ att[a].pc = "refused"
    /\ pending' = MarkFailed({a[1]})
    /\ waiting' = waiting \ {a}
    /\ att' = [att EXCEPT ![a] = Idle]
    /\ UNCHANGED <<composed, before, outbox, thread, conn, at, server, faults>>

(* Mutant: the timer forgets the callback without telling the bubble.      *)
TimeoutSilently(a) ==
    /\ a \in waiting
    /\ waiting' = waiting \ {a}
    /\ att' = IF att[a].pc \in {"unheard", "acked", "refused"}
              THEN [att EXCEPT ![a] = Idle] ELSE att
    /\ UNCHANGED <<client, conn, at, server, faults>>

(* ACK_TIMEOUT_MS passes.  The handler, if there is one, runs on; its      *)
(* answer will find no callback.                                           *)
Timeout(a) ==
    /\ a \in waiting
    /\ pending' = MarkFailed({a[1]})
    /\ waiting' = waiting \ {a}
    /\ att' = IF att[a].pc \in {"unheard", "acked", "refused"}
              THEN [att EXCEPT ![a] = Idle] ELSE att
    /\ UNCHANGED <<composed, before, outbox, thread, conn, at, server, faults>>

(* Mutant: a document is inserted without promoting its bubble.            *)
MergeKeepsBubble(docs) ==
    /\ docs \subseteq log
    /\ ~ docs \subseteq thread
    /\ thread' = thread \union docs
    /\ UNCHANGED <<composed, before, outbox, pending, waiting, conn, at, att,
                   server, faults>>

(* mergeMessages: stored documents reach the tab as a broadcast, a backlog *)
(* page, a page of history or a repaired gap.                              *)
Merge(docs) ==
    /\ docs \subseteq log
    /\ ~ docs \subseteq thread
    /\ thread' = thread \union docs
    /\ pending' = [m \in Msgs |-> IF \E d \in docs \ thread : d.msg = m
                                  THEN "none" ELSE pending[m]]
    /\ UNCHANGED <<composed, before, outbox, waiting, conn, at, att, server,
                   faults>>

-----------------------------------------------------------------------------
(* The server: io.on('connection') and the message:send handler.           *)

(* Memberships read, rooms joined, listeners registered.                   *)
SetupDone ==
    /\ conn = "setup"
    /\ conn' = "ready"
    /\ UNCHANGED <<client, waiting, at, att, server, faults>>

(* The event reaches the instance; with no listener yet, nobody sees it.   *)
Arrive(a) ==
    /\ att[a].pc = "wire"
    /\ att' = [att EXCEPT ![a].pc = IF conn = "ready" THEN "entered"
                                    ELSE "unheard"]
    /\ UNCHANGED <<client, waiting, conn, at, server, faults>>

Answer(a, verdict, seq) ==
    att' = [att EXCEPT ![a] = IF a \in waiting
                              THEN [@ EXCEPT !.pc = verdict, !.seq = seq]
                              ELSE Idle]

(* Mutant: the comparison with the limit is off by one.                    *)
AdmitOffByOne(a) ==
    /\ att[a].pc = "entered"
    /\ IF used <= RateLimit
       THEN /\ used' = used + 1
            /\ att' = [att EXCEPT ![a].pc = "admitted"]
       ELSE /\ Answer(a, "refused", 0)
            /\ UNCHANGED used
    /\ UNCHANGED <<client, waiting, conn, at, nextSeq, log, casts, faults>>

(* assertMember, then consume(): INCR answers at most the limit.  A count   *)
(* past the limit refuses like the limit itself, so it is not kept.        *)
Admit(a) ==
    /\ att[a].pc = "entered"
    /\ IF used < RateLimit
       THEN /\ used' = used + 1
            /\ att' = [att EXCEPT ![a].pc = "admitted"]
       ELSE /\ Answer(a, "refused", 0)
            /\ UNCHANGED used
    /\ UNCHANGED <<client, waiting, conn, at, nextSeq, log, casts, faults>>

(* Mutant: next_seq is read without being advanced.                        *)
AllocateReadOnly(a) ==
    /\ att[a].pc = "admitted"
    /\ att' = [att EXCEPT ![a].pc = "allocated", ![a].seq = nextSeq]
    /\ UNCHANGED <<client, waiting, conn, at, server, faults>>

(* allocateSeq: one UPDATE ... RETURNING; past the column's range it fails. *)
Allocate(a) ==
    /\ att[a].pc = "admitted"
    /\ IF nextSeq <= MaxSeq
       THEN /\ att' = [att EXCEPT ![a].pc = "allocated", ![a].seq = nextSeq]
            /\ nextSeq' = nextSeq + 1
       ELSE /\ Answer(a, "refused", 0)
            /\ UNCHANGED nextSeq
    /\ UNCHANGED <<client, waiting, conn, at, used, log, casts, faults>>

(* Mutant: the unique index is missing.                                    *)
InsertNoIndex(a) ==
    /\ att[a].pc = "allocated"
    /\ att' = [att EXCEPT ![a].pc = "stored"]
    /\ log' = log \union {[msg |-> a[1], seq |-> att[a].seq]}
    /\ UNCHANGED <<client, waiting, conn, at, used, nextSeq, casts, faults>>

(* Message.create under the unique index on {senderId, clientMsgId}.       *)
Insert(a) ==
    /\ att[a].pc = "allocated"
    /\ IF a[1] \in Stored
       THEN /\ att' = [att EXCEPT ![a].pc = "collided"]
            /\ UNCHANGED log
       ELSE /\ att' = [att EXCEPT ![a].pc = "stored"]
            /\ log' = log \union {[msg |-> a[1], seq |-> att[a].seq]}
    /\ UNCHANGED <<client, waiting, conn, at, used, nextSeq, casts, faults>>

(* Mutant: the duplicate is answered with the number it has just burned.   *)
AnswerBurnedSeq(a) ==
    /\ att[a].pc = "collided"
    /\ Answer(a, "acked", att[a].seq)
    /\ UNCHANGED <<client, waiting, conn, at, server, faults>>

(* Mutant: the duplicate is broadcast again.                               *)
AnswerAndRebroadcast(a) ==
    /\ att[a].pc = "collided"
    /\ casts' = [casts EXCEPT ![a[1]] = @ + 1]
    /\ Answer(a, "acked", StoredSeq(a[1]))
    /\ UNCHANGED <<client, waiting, conn, at, used, nextSeq, log, faults>>

(* E11000: read the stored document and acknowledge with it, silently.     *)
AnswerDuplicate(a) ==
    /\ att[a].pc = "collided"
    /\ Answer(a, "acked", StoredSeq(a[1]))
    /\ UNCHANGED <<client, waiting, conn, at, server, faults>>

(* A first insert: tell the room, then acknowledge.                        *)
Publish(a) ==
    /\ att[a].pc = "stored"
    /\ casts' = [casts EXCEPT ![a[1]] = @ + 1]
    /\ Answer(a, "acked", att[a].seq)
    /\ UNCHANGED <<client, waiting, conn, at, used, nextSeq, log, faults>>

(* The rate key expires.                                                   *)
WindowReset ==
    /\ used > 0
    /\ used' = 0
    /\ UNCHANGED <<client, waiting, conn, at, att, nextSeq, log, casts, faults>>

-----------------------------------------------------------------------------
(* Faults.                                                                 *)

Fault == faults < MaxFaults /\ faults' = faults + 1

(* A store call throws without having had an effect: INTERNAL.             *)
HandlerError(a) ==
    /\ Fault
    /\ att[a].pc \in {"entered", "admitted", "allocated", "collided"}
    /\ Answer(a, "refused", 0)
    /\ UNCHANGED <<client, waiting, conn, at, server>>

(* The allocation is made, its reply is lost: the number is burned.        *)
AllocateReplyLost(a) ==
    /\ Fault
    /\ att[a].pc = "admitted"
    /\ nextSeq <= MaxSeq
    /\ nextSeq' = nextSeq + 1
    /\ Answer(a, "refused", 0)
    /\ UNCHANGED <<client, waiting, conn, at, used, log, casts>>

(* The document is written, the reply is lost: stored, yet INTERNAL.       *)
InsertReplyLost(a) ==
    /\ Fault
    /\ att[a].pc = "allocated"
    /\ a[1] \notin Stored
    /\ log' = log \union {[msg |-> a[1], seq |-> att[a].seq]}
    /\ Answer(a, "refused", 0)
    /\ UNCHANGED <<client, waiting, conn, at, used, nextSeq, casts>>

(* The session is gone: frames in flight are lost, except events in heard, *)
(* which the server had already read; the handlers of dead stop.           *)
Sever(heard, dead) ==
    /\ conn' = "down"
    /\ at' = None
    /\ waiting' = {}
    /\ heard \subseteq {a \in Attempts : att[a].pc = "wire"}
    /\ conn # "ready" => heard = {}
    /\ att' = [a \in Attempts |->
                IF a \in heard THEN [att[a] EXCEPT !.pc = "entered"]
                ELSE IF a \in dead \/ att[a].pc \in InFlight THEN Idle
                ELSE att[a]]

(* The connection drops: socket.io runs every outstanding callback with an *)
(* error.                                                                  *)
Disconnect ==
    /\ Fault
    /\ conn # "down"
    /\ \E heard \in SUBSET Attempts : Sever(heard, {})
    /\ pending' = MarkFailed({a[1] : a \in waiting})
    /\ UNCHANGED <<composed, before, outbox, thread, server>>

(* An instance dies with its handlers and its sockets.                     *)
CrashInstance(i) ==
    /\ Fault
    /\ LET dead == {a \in Attempts : att[a].host = i}
       IN  IF at = i
           THEN /\ Sever({}, dead)
                /\ pending' = MarkFailed({a[1] : a \in waiting})
           ELSE /\ dead # {}
                /\ att' = [a \in Attempts |-> IF a \in dead THEN Idle ELSE att[a]]
                /\ UNCHANGED <<waiting, conn, at, pending>>
    /\ UNCHANGED <<composed, before, outbox, thread, server>>

(* Mutant: the outbox is kept in memory only.                              *)
ReloadLosesOutbox ==
    /\ Fault
    /\ \E heard \in SUBSET Attempts : Sever(heard, {})
    /\ outbox' = {}
    /\ thread' = {}
    /\ pending' = [m \in Msgs |-> "none"]
    /\ UNCHANGED <<composed, before, server>>

(* The page is reloaded: only the outbox in localStorage survives.  The    *)
(* storage is taken to be readable and writable; outbox.js falls back to   *)
(* memory where it is not, and that session then loses what it had not     *)
(* sent (OutboxTabs has a tab whose writes fail).                          *)
Reload ==
    /\ Fault
    /\ \E heard \in SUBSET Attempts : Sever(heard, {})
    /\ thread' = {}
    /\ pending' = [m \in Msgs |-> "none"]
    /\ UNCHANGED <<composed, before, outbox, server>>

-----------------------------------------------------------------------------
Handler(a) ==
    \/ Arrive(a)
    \/ Admit(a)
    \/ Allocate(a)
    \/ Insert(a)
    \/ AnswerDuplicate(a)
    \/ Publish(a)

Callback(a) ==
    \/ AckReceived(a)
    \/ RefusalReceived(a)
    \/ Timeout(a)

StoreFault(a) ==
    \/ HandlerError(a)
    \/ AllocateReplyLost(a)
    \/ InsertReplyLost(a)

Next ==
    \/ \E m \in Msgs : Compose(m)
    \/ \E i \in Instances : Connect(i) \/ CrashInstance(i)
    \/ SetupDone
    \/ RetryFailed
    \/ RetryOffline
    \/ WindowReset
    \/ \E a \in Attempts : Handler(a) \/ Callback(a) \/ StoreFault(a)
    \/ \E docs \in SUBSET log : Merge(docs)
    \/ Disconnect
    \/ Reload

Spec == Init /\ [][Next]_vars

(* The event loop runs every handler and callback it has, the ack timer    *)
(* fires, socket.io keeps reconnecting, and Redis expires the rate key.    *)
(* What the user does (Compose, RetryFailed, RetryOffline, Reload) and     *)
(* faults are not fair; nor is the arrival of somebody else's frame        *)
(* (Merge).                                                                *)
Fairness ==
    /\ WF_vars(\E i \in Instances : Connect(i))
    /\ WF_vars(SetupDone)
    /\ WF_vars(WindowReset)
    /\ \A a \in Attempts : WF_vars(Handler(a)) /\ WF_vars(Callback(a))

FairSpec == Spec /\ Fairness

-----------------------------------------------------------------------------
(* What the send path promises, and how its state maps to that promise: a  *)
(* message is confirmed once it has left the outbox.                       *)
Promise == INSTANCE ExactlyOnceLog
    WITH Seqs <- 1 .. MaxSeq, submitted <- composed,
         confirmed <- composed \ outbox

(* What the readers of the log may rely on: a number is open while the     *)
(* insert it was allocated for is under way.                               *)
OpenSeqs == {att[a].seq : a \in {a \in Attempts : att[a].pc = "allocated"}}
Numbers == INSTANCE MessageLog
    WITH next <- nextSeq, open <- OpenSeqs, log <- {d.seq : d \in log}

ClientTypes ==
    /\ composed \subseteq Msgs
    /\ before \in [Msgs -> SUBSET Docs]
    /\ outbox \subseteq composed
    /\ pending \in [Msgs -> {"none", "sending", "queued", "failed"}]
    /\ thread \subseteq Docs

SocketTypes ==
    /\ conn \in {"down", "setup", "ready"}
    /\ at \in Instances \union {None}
    /\ conn = "down" <=> at = None

AttemptTypes ==
    /\ att \in [Attempts -> [pc : Phases, seq : 0 .. MaxSeq,
                             host : Instances \union {None}]]
    /\ waiting \subseteq {a \in Attempts : att[a].pc # "idle"}

ServerTypes ==
    /\ used \in 0 .. RateLimit
    /\ nextSeq \in 1 .. MaxSeq + 1
    /\ log \subseteq Docs
    /\ casts \in [Msgs -> Nat]

TypeOK ==
    /\ ClientTypes
    /\ SocketTypes
    /\ AttemptTypes
    /\ ServerTypes
    /\ faults \in 0 .. MaxFaults

(* The unique index makes a retried send an exactly-once effect: one       *)
(* document per clientMsgId, and no two messages share a sequence number,  *)
(* whatever attempts of them overlap or are abandoned half way.            *)
ExactlyOnce == Promise!ExactlyOnce

(* A message written after another was stored is ordered after it, also    *)
(* when it is only stored by a later retry through another instance.       *)
CausalOrder == Promise!CausalOrder

(* No loss on the client's side: an entry leaves the outbox only when the  *)
(* log holds the message, through every timeout, refusal, crash, reload.   *)
ConfirmedIsCommitted == Promise!ConfirmedIsCommitted

(* Whatever the tab shows as confirmed is the stored document, with its    *)
(* stored sequence number: a retry's acknowledgement carries the existing  *)
(* document and not the number burned by the retry.                        *)
ThreadMatchesLog == thread \subseteq log

(* A message is not shown both as a confirmed document and as a bubble,    *)
(* in whichever order its broadcast, its acknowledgement, the failure of   *)
(* another of its attempts and a reload happen.                            *)
RenderedOnce == \A d \in thread : pending[d.msg] = "none"

(* message:new goes to the room at most once per message, however many     *)
(* attempts reach however many instances.                                  *)
AnnouncedOnce == \A m \in Msgs : casts[m] <= 1

(* The send path implements its promise, step by step.                     *)
ImplementsPromise == Promise!Spec

(* The send path hands out and stores numbers as every reader of the log   *)
(* assumes, whatever overlaps, is lost or dies in it.                      *)
ImplementsMessageLog == Numbers!Spec

(* A bubble does not say "sending" for ever: its callback runs, with an    *)
(* acknowledgement, a refusal or a timeout, or the message arrives by      *)
(* another way.                                                            *)
SendingSettles ==
    \A m \in Msgs : pending[m] = "sending" ~> pending[m] # "sending"

(* What that rests on: a bubble that says so has a callback to wait for,   *)
(* whichever others of its attempts were answered, timed out or lost.      *)
SendingAwaited ==
    \A m \in Msgs : pending[m] = "sending" =>
        m \in outbox /\ \E a \in waiting : a[1] = m

-----------------------------------------------------------------------------
(* Why these hold: the inductive invariant.                                *)

(* Every callback outstanding belongs to the present connection.           *)
CallbacksHere ==
    /\ conn = "down" => waiting = {}
    /\ \A a \in waiting : att[a].host = at

(* A number in use is below next_seq, and an insert under way has one that *)
(* no document and no other insert has.                                    *)
NumbersFresh ==
    /\ \A d \in log : d.seq < nextSeq
    /\ \A a \in Attempts : att[a].pc = "allocated" =>
        /\ att[a].seq \in 1 .. nextSeq - 1
        /\ \A d \in log : d.seq # att[a].seq
        /\ \A b \in Attempts \ {a} :
               att[b].pc = "allocated" => att[b].seq # att[a].seq

(* Only what was written is under way or stored, and what was stored when  *)
(* a message was written is below the number its insert was given.         *)
Provenance ==
    /\ Stored \subseteq composed
    /\ \A a \in Attempts : att[a].pc # "idle" => a[1] \in composed
    /\ \A m \in Msgs : before[m] \subseteq log
    /\ \A m \in Msgs \ composed : before[m] = {}
    /\ \A a \in Attempts : att[a].pc = "allocated" =>
        \A d \in before[a[1]] : d.seq < att[a].seq

(* What a handler has found out is so, and one handler announces.          *)
HandlersKnow ==
    \A a \in Attempts :
        /\ att[a].pc \in {"stored", "acked"} =>
               [msg |-> a[1], seq |-> att[a].seq] \in log
        /\ att[a].pc = "collided" => a[1] \in Stored
        /\ att[a].pc = "stored" =>
               /\ casts[a[1]] = 0
               /\ \A b \in Attempts \ {a} :
                      b[1] = a[1] => att[b].pc # "stored"

Announced == \A m \in Msgs : casts[m] > 0 => m \in Stored

SendInv ==
    /\ TypeOK
    /\ CallbacksHere
    /\ NumbersFresh
    /\ Provenance
    /\ HandlersKnow
    /\ Announced
    /\ ExactlyOnce
    /\ CausalOrder
    /\ ConfirmedIsCommitted
    /\ ThreadMatchesLog
    /\ RenderedOnce
    /\ AnnouncedOnce

-----------------------------------------------------------------------------
(* Statements of the repository the runs refute.                           *)

(* "A duplicate is NOT rebroadcast: the room already received it the first *)
(* time" (handlers/message.js).  When a duplicate has been recognised and  *)
(* no handler is about to publish the message, it was published.           *)
RoomAlreadyReceived ==
    \A a \in Attempts :
        /\ att[a].pc = "collided"
        /\ \A k \in Slots : att[<<a[1], k>>].pc # "stored"
        => casts[a[1]] > 0

(* "messages queued - they will send automatically" (ConnectionBanner): an *)
(* entry that rests in the outbox of a connected tab, with no attempt      *)
(* under way, is eventually attempted again.                               *)
Resting(m) ==
    /\ conn = "ready"
    /\ m \in outbox
    /\ \A k \in Slots : att[<<m, k>>] = Idle

SendsAutomatically == \A m \in Msgs : Resting(m) ~> ~ Resting(m)
=============================================================================
