------------------------------ MODULE ReadState ------------------------------
(***************************************************************************)
(* What one user has read of one conversation: the read cursor, the unread *)
(* counts of the list, the marks the user's tabs emit and the badges they  *)
(* show.                                                                   *)
(*                                                                         *)
(* Messages a tab gets from the backlog, a repair or the history neither   *)
(* mark nor count, so only live ones are here.  Every handler of read:mark *)
(* begins by awaiting a store, so the marks under way are a set.           *)
(***************************************************************************)
EXTENDS Naturals, FiniteSets

CONSTANTS
    Tabs,
    MaxSeq,                     \* bound on sequence numbers
    Mine,                       \* the numbers of the user's own messages
    MaxLogins,                  \* bound on returns to the chat page
    MaxFaults                   \* bound on marks that fail, instances that die

ASSUME ReadStateAssumption ==
    /\ {MaxSeq, MaxLogins, MaxFaults} \subseteq Nat
    /\ Mine \subseteq 1 .. MaxSeq

VARIABLES
    head,                       \* conversations.next_seq - 1
    log, burned,                \* numbers stored, and those that never will be
    untold,                     \* stored, and message:new not emitted yet
    lastRead,                   \* conversation_members.last_read_seq
    up,                         \* the tab's socket is in the room
    live, marks,                \* message:new and read:mark under way
    mount,                      \* the list the tab asked for: its answer
    listed, lastSeq, badge,     \* the tab's entry of the conversation
    active,                     \* it is the one the tab has open
    given,                      \* numbers given to some tab
    logins, faults              \* returns to the chat page, and faults so far

store == <<head, log, burned, untold>>
entry == <<listed, lastSeq, badge>>
vars == <<head, log, burned, untold, lastRead, up, live, marks, mount, listed,
          lastSeq, badge, active, given, logins, faults>>

Seqs == 1 .. MaxSeq
(* What of S is of tab t.                                                  *)
Of(S, t) == {m \in S : m.tab = t}

Greater(m, n) == IF m >= n THEN m ELSE n

Init ==
    /\ head = 0 /\ log = {} /\ burned = {} /\ untold = {} /\ lastRead = 0
    /\ up = [t \in Tabs |-> FALSE]
    /\ live = {} /\ marks = {}
    /\ mount = [t \in Tabs |-> [at |-> "asked", head |-> 0, unread |-> 0]]
    /\ listed = up /\ active = up
    /\ lastSeq = [t \in Tabs |-> 0] /\ badge = lastSeq
    /\ given = {} /\ logins = 0 /\ faults = 0

-----------------------------------------------------------------------------
AllocateSeq ==
    /\ head < MaxSeq
    /\ head' = head + 1
    /\ UNCHANGED <<log, burned, untold, lastRead, up, live, marks, mount, entry,
                   active, given, logins, faults>>

(* Mutant: the allocator returns next_seq, which it has already raised.    *)
StoreNextSeq(n) ==
    /\ n <= head /\ n + 1 \notin log \union burned
    /\ log' = log \union {n + 1} /\ untold' = untold \union {n + 1}
    /\ UNCHANGED <<head, burned, lastRead, up, live, marks, mount, entry, active,
                   given, logins, faults>>

(* The insert.                                                             *)
Store(n) ==
    /\ n <= head /\ n \notin log \union burned
    /\ log' = log \union {n} /\ untold' = untold \union {n}
    /\ UNCHANGED <<head, burned, lastRead, up, live, marks, mount, entry, active,
                   given, logins, faults>>

(* The broadcast to the room, once the handler has the document back: to   *)
(* the tabs that are in the room by then.                                  *)
Publish(n) ==
    /\ n \in untold
    /\ untold' = untold \ {n}
    /\ live' = live \union {[tab |-> t, seq |-> n] : t \in {t \in Tabs : up[t]}}
    /\ UNCHANGED <<head, log, burned, lastRead, up, marks, mount, entry, active,
                   given, logins, faults>>

(* The insert's reply is lost, or the instance dies between the two.       *)
NeverPublished(n) ==
    /\ n \in untold
    /\ faults < MaxFaults /\ faults' = faults + 1
    /\ untold' = untold \ {n}
    /\ UNCHANGED <<head, log, burned, lastRead, up, live, marks, mount, entry,
                   active, given, logins>>

(* A duplicate or a failed insert: no message will carry the number.       *)
Burn(n) ==
    /\ n <= head /\ n \notin log \union burned
    /\ burned' = burned \union {n}
    /\ UNCHANGED <<head, log, untold, lastRead, up, live, marks, mount, entry,
                   active, given, logins, faults>>

(* Mutant: next_seq is taken one too low for what it allocates next.       *)
UnreadOffByOne == IF head > lastRead THEN head - lastRead - 1 ELSE 0

(* GREATEST(next_seq - 1 - last_read_seq, 0)                               *)
Unread == IF head > lastRead THEN head - lastRead ELSE 0

ListForUser(t) ==
    /\ mount[t].at = "asked"
    /\ mount' = [mount EXCEPT ![t] = [at |-> "sent", head |-> head, unread |-> Unread]]
    /\ UNCHANGED <<store, lastRead, up, live, marks, entry, active, given,
                   logins, faults>>

(* Mutant: the mark is stored as it comes.                                 *)
HandleMarkAsItComes(m) ==
    /\ m \in marks
    /\ lastRead' = m.seq
    /\ marks' = marks \ {m}
    /\ UNCHANGED <<store, up, live, mount, entry, active, given, logins,
                   faults>>

HandleMark(m) ==
    /\ m \in marks
    /\ lastRead' = Greater(lastRead, m.seq)
    /\ marks' = marks \ {m}
    /\ UNCHANGED <<store, up, live, mount, entry, active, given, logins,
                   faults>>

(* read:mark is answered INTERNAL, which nobody listens to.                *)
MarkFails(m) ==
    /\ m \in marks
    /\ faults < MaxFaults /\ faults' = faults + 1
    /\ marks' = marks \ {m}
    /\ UNCHANGED <<store, lastRead, up, live, mount, entry, active, given,
                   logins>>

-----------------------------------------------------------------------------
(* What the tab emitted while disconnected is flushed; what of it comes    *)
(* before the handlers are registered is dropped.                          *)
Connect(t) ==
    /\ ~up[t]
    /\ up' = [up EXCEPT ![t] = TRUE]
    /\ \E dropped \in SUBSET Of(marks, t) : marks' = marks \ dropped
    /\ UNCHANGED <<store, lastRead, live, mount, entry, active, given, logins,
                   faults>>

(* What is on the wire is lost, unless its handler has begun.              *)
Disconnect(t) ==
    /\ up[t]
    /\ up' = [up EXCEPT ![t] = FALSE]
    /\ live' = live \ Of(live, t)
    /\ \E dropped \in SUBSET Of(marks, t) : marks' = marks \ dropped
    /\ UNCHANGED <<store, lastRead, mount, entry, active, given, logins,
                   faults>>

(* The chat page is left and comes back, after a session that ended and a  *)
(* new login: its socket is closed with what it had not sent, and the list *)
(* asked for again.  What the tab holds stays.  An answer still on its way *)
(* is taken to have arrived before.                                        *)
Remount(t) ==
    /\ mount[t].at = "shown"
    /\ logins < MaxLogins /\ logins' = logins + 1
    /\ mount' = [mount EXCEPT ![t].at = "asked"]
    /\ up' = [up EXCEPT ![t] = FALSE]
    /\ live' = live \ Of(live, t)
    /\ \E dropped \in SUBSET Of(marks, t) : marks' = marks \ dropped
    /\ UNCHANGED <<store, lastRead, entry, active, given, faults>>

(* Mutant: the badge is cleared and nothing emitted.                       *)
MarkReadHere(t, n) ==
    /\ badge' = [badge EXCEPT ![t] = 0]
    /\ UNCHANGED marks

(* read:mark is emitted and clearUnread done.                              *)
MarkRead(t, n) ==
    /\ marks' = marks \union {[tab |-> t, seq |-> n]}
    /\ badge' = [badge EXCEPT ![t] = 0]

(* Another's message for a conversation that is listed and not open counts. *)
BumpUnread(t, n) ==
    badge' = IF listed[t] /\ ~active[t] /\ n \notin Mine
             THEN [badge EXCEPT ![t] = @ + 1] ELSE badge

(* message:new: marked if it is for the open conversation.                 *)
RecvNew(m) ==
    /\ m \in live
    /\ live' = live \ {m}
    /\ given' = given \union {m.seq}
    /\ \/ active[m.tab] /\ MarkRead(m.tab, m.seq)
       \/ ~active[m.tab] /\ BumpUnread(m.tab, m.seq) /\ UNCHANGED marks
    /\ UNCHANGED <<store, lastRead, up, mount, listed, lastSeq, active,
                   logins, faults>>

(* setConversations, and the first of the list becomes the open one        *)
(* without being marked.                                                   *)
ListArrives(t) ==
    /\ mount[t].at = "sent"
    /\ mount' = [mount EXCEPT ![t] = [at |-> "shown", head |-> 0, unread |-> 0]]
    /\ listed' = [listed EXCEPT ![t] = TRUE]
    /\ lastSeq' = [lastSeq EXCEPT ![t] = mount[t].head]
    /\ badge' = [badge EXCEPT ![t] = mount[t].unread]
    /\ \E first \in BOOLEAN : active' = [active EXCEPT ![t] = first]
    /\ given' = given \union ({mount[t].head} \ {0})
    /\ UNCHANGED <<store, lastRead, up, live, marks, logins, faults>>

(* The entry is the conversation as it was created, without a lastSeq.     *)
UpsertConversation(t) ==
    /\ listed' = [listed EXCEPT ![t] = TRUE]
    /\ lastSeq' = [lastSeq EXCEPT ![t] = 0]
    /\ badge' = [badge EXCEPT ![t] = 0]
    /\ UNCHANGED <<store, lastRead, up, live, marks, mount, given, logins,
                   faults>>

(* conversation:new, also for a direct message that exists already.        *)
ConversationNew(t) == up[t] /\ UpsertConversation(t) /\ UNCHANGED active

(* The dialog's request is answered, and the conversation opened.          *)
Finish(t) == UpsertConversation(t) /\ active' = [active EXCEPT ![t] = TRUE]

(* Mutant: marked up to the unread count.                                  *)
OpenToBadge(t) ==
    /\ listed[t]
    /\ active' = [active EXCEPT ![t] = TRUE]
    /\ IF lastSeq[t] > 0 THEN MarkRead(t, lastSeq[t] + badge[t])
       ELSE UNCHANGED <<marks, badge>>
    /\ UNCHANGED <<store, lastRead, up, live, mount, listed, lastSeq, given,
                   logins, faults>>

(* A click in the list.                                                    *)
Open(t) ==
    /\ listed[t]
    /\ active' = [active EXCEPT ![t] = TRUE]
    /\ IF lastSeq[t] > 0 THEN MarkRead(t, lastSeq[t]) ELSE UNCHANGED <<marks,
                   badge>>
    /\ UNCHANGED <<store, lastRead, up, live, mount, listed, lastSeq, given,
                   logins, faults>>

(* Another conversation is opened.                                         *)
Leave(t) ==
    /\ active[t]
    /\ active' = [active EXCEPT ![t] = FALSE]
    /\ UNCHANGED <<store, lastRead, up, live, marks, mount, entry, given,
                   logins, faults>>

-----------------------------------------------------------------------------
Server ==
    \/ AllocateSeq
    \/ \E n \in Seqs : Store(n) \/ Publish(n) \/ NeverPublished(n) \/ Burn(n)
    \/ \E m \in marks : HandleMark(m) \/ MarkFails(m)

Page(t) ==
    \/ Connect(t) \/ Disconnect(t) \/ Remount(t)
    \/ ListForUser(t) \/ ListArrives(t)
    \/ ConversationNew(t) \/ Finish(t) \/ Open(t) \/ Leave(t)

Next ==
    \/ Server
    \/ \E m \in live : RecvNew(m)
    \/ \E t \in Tabs : Page(t)

Spec == Init /\ [][Next]_vars

(* Frames that are not lost arrive, and a handler entered goes on.         *)
Fairness ==
    \A t \in Tabs, n \in Seqs :
        LET m == [tab |-> t, seq |-> n]
        IN  WF_vars(RecvNew(m)) /\ WF_vars(HandleMark(m) \/ MarkFails(m))

FairSpec == Spec /\ Fairness

-----------------------------------------------------------------------------
Pairs == [tab : Tabs, seq : Seqs]

TypeOK ==
    /\ head \in 0 .. MaxSeq /\ lastRead \in 0 .. MaxSeq
    /\ log \subseteq 1 .. head /\ burned \subseteq 1 .. head
    /\ untold \subseteq log
    /\ live \subseteq Pairs /\ marks \subseteq Pairs
    /\ {up, listed, active} \subseteq [Tabs -> BOOLEAN]
    /\ mount \in [Tabs -> [at : {"asked", "sent", "shown"},
                           head : 0 .. MaxSeq, unread : 0 .. MaxSeq]]
    /\ lastSeq \in [Tabs -> 0 .. MaxSeq] /\ badge \in [Tabs -> Nat]
    /\ given \subseteq Seqs
    /\ logins \in 0 .. MaxLogins /\ faults \in 0 .. MaxFaults

(* The read cursor only moves up, whatever the order marks are handled in  *)
(* and however many tabs emit them, and only onto a number some tab was    *)
(* given (conversation.service.js:212-215).                                *)
Cursor == INSTANCE HighWaterMark WITH mark <- lastRead
ImplementsHighWaterMark == Cursor!Spec

(* The senders hand out and store numbers as MessageLog says.              *)
Numbers == INSTANCE MessageLog
    WITH next <- head + 1, open <- (1 .. head) \ (log \union burned)
ImplementsMessageLog == Numbers!Spec

(* The list never hides a stored message above the read cursor: the count  *)
(* without a scan may be too high, by burned numbers and one's own         *)
(* messages, and is never too low (conversation.service.js:80-83).         *)
UnreadCoversStored == Cardinality({n \in log : n > lastRead}) <= Unread

(* Why these hold: whatever may be marked was given before, and nothing is  *)
(* given that the allocator has not handed out.                            *)
MarksGiven ==
    /\ lastRead \in given \union {0}
    /\ \A m \in marks : m.seq \in given
    /\ \A t \in Tabs : lastSeq[t] \in given \union {0}

GivenNumbered ==
    /\ given \subseteq 1 .. head
    /\ \A m \in live : m.seq \in log
    /\ \A t \in Tabs : mount[t].head <= head

ReadInv == TypeOK /\ MarksGiven /\ GivenNumbered

(* A message that comes live into the open conversation is marked read on  *)
(* the server, unless the tab leaves, its connection drops or the server   *)
(* fails first (socket.js:88).                                             *)
HeardIsMarked ==
    \A t \in Tabs, n \in Seqs :
        ([tab |-> t, seq |-> n] \in live /\ active[t])
            ~> (lastRead >= n \/ ~up[t] \/ ~active[t] \/ faults > 0)

(* What that rests on: a message heard in the open conversation leaves a   *)
(* mark, and a mark is gone only when the cursor has come to it, when it   *)
(* failed, when its connection changed or its page was left.               *)
HeardIsKept ==
    [][/\ \A m \in live : active[m.tab] => m \in live' \union marks' \/ ~up'[m.tab]
       /\ \A m \in marks \ marks' : \/ lastRead' >= m.seq \/ faults' > faults
                                   \/ up'[m.tab] # up[m.tab]
                                   \/ logins' > logins]_vars

(* Reading every message that is stored drives the unread count to zero    *)
(* (tests/integration/conversations.test.js:233).  A burned number stays   *)
(* unread.                                                                 *)
ReadingAllLeavesNone ==
    log # {} /\ head \in burned /\ (\A n \in log : n <= lastRead) => Unread = 0

(* Read is seen by a human, not just received (sync.js:90), so a message   *)
(* is not read before it is stored.  Opening marks every number the list   *)
(* counted, those of inserts under way included.                           *)
StoredUnread == [][\A n \in log' \ log : n > lastRead]_vars

(* An entry without a badge has nothing unread by others above the cursor. *)
(* It has once conversation:new comes for a direct message that exists.    *)
BadgeShowsUnread ==
    \A t \in Tabs :
        listed[t] /\ ~active[t] /\ up[t] /\ badge[t] = 0 /\ untold = {}
        /\ live = {} /\ marks = {} /\ faults = 0 =>
            {n \in log \ Mine : n > lastRead} = {}
=============================================================================
