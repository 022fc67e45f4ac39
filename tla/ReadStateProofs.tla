--------------------------- MODULE ReadStateProofs ---------------------------
(* Theorems about ReadState, for any number of tabs, of messages and of    *)
(* returns to the page, and any number of failed marks and dead instances. *)
EXTENDS ReadState, FiniteSetTheorems, TLAPS

LEMMA HeadsBounded ==
    ASSUME TypeOK
    PROVE  /\ head \in Nat /\ lastRead \in Nat /\ MaxSeq \in Nat
           /\ 1 .. head \subseteq Seqs
           /\ log \subseteq Seqs
           /\ Unread \in 0 .. MaxSeq
BY ReadStateAssumption DEF TypeOK, Seqs, Unread

LEMMA OfTab ==
    ASSUME TypeOK, NEW t
    PROVE  Of(marks, t) \subseteq marks /\ Of(live, t) \subseteq live
BY DEF Of

-----------------------------------------------------------------------------
LEMMA InitInv == Init => ReadInv
<1> SUFFICES ASSUME Init PROVE ReadInv
  OBVIOUS
<1>1. TypeOK
  <2>1. /\ head = 0 /\ lastRead = 0 /\ logins = 0 /\ faults = 0 /\ untold = {}
        /\ log = {} /\ burned = {} /\ live = {} /\ marks = {} /\ given = {}
    BY DEF Init
  <2>2. up \in [Tabs -> BOOLEAN] /\ listed = up /\ active = up
    BY DEF Init
  <2>3. /\ mount \in [Tabs -> [at : {"asked", "sent", "shown"},
                               head : 0 .. MaxSeq, unread : 0 .. MaxSeq]]
        /\ lastSeq \in [Tabs -> 0 .. MaxSeq] /\ badge \in [Tabs -> Nat]
    BY ReadStateAssumption DEF Init
  <2>4. 0 \in 0 .. MaxSeq /\ 0 \in 0 .. MaxLogins /\ 0 \in 0 .. MaxFaults
    BY ReadStateAssumption
  <2> QED
    BY <2>1, <2>2, <2>3, <2>4 DEF TypeOK
<1>2. MarksGiven /\ GivenNumbered
  BY DEF Init, MarksGiven, GivenNumbered
<1> QED
  BY <1>1, <1>2 DEF ReadInv

(* The server's side of the state.                                         *)
StoreTypes ==
    /\ head \in 0 .. MaxSeq /\ lastRead \in 0 .. MaxSeq
    /\ log \subseteq 1 .. head /\ burned \subseteq 1 .. head
    /\ untold \subseteq log
    /\ live \subseteq Pairs /\ marks \subseteq Pairs
    /\ given \subseteq Seqs
    /\ logins \in 0 .. MaxLogins /\ faults \in 0 .. MaxFaults

(* The tabs' side of it.                                                   *)
TabTypes ==
    /\ up \in [Tabs -> BOOLEAN]
    /\ listed \in [Tabs -> BOOLEAN] /\ active \in [Tabs -> BOOLEAN]
    /\ mount \in [Tabs -> [at : {"asked", "sent", "shown"},
                           head : 0 .. MaxSeq, unread : 0 .. MaxSeq]]
    /\ lastSeq \in [Tabs -> 0 .. MaxSeq] /\ badge \in [Tabs -> Nat]

LEMMA TypeParts == TypeOK <=> StoreTypes /\ TabTypes
BY DEF TypeOK, StoreTypes, TabTypes

(* A mark is stored as a pair of the tab and a number it was given.        *)
LEMMA MarkReadTyped ==
    ASSUME TypeOK, NEW t \in Tabs, NEW n \in Seqs, MarkRead(t, n)
    PROVE  /\ marks' \subseteq Pairs
           /\ marks \subseteq marks'
           /\ \A m \in marks' \ marks : m.seq = n
           /\ badge' \in [Tabs -> Nat]
<1>1. [tab |-> t, seq |-> n] \in Pairs
  BY DEF Pairs
<1> QED
  BY <1>1 DEF MarkRead, TypeOK

LEMMA BumpUnreadTyped ==
    ASSUME TypeOK, NEW t \in Tabs, NEW n, BumpUnread(t, n)
    PROVE  badge' \in [Tabs -> Nat]
<1>1. badge[t] + 1 \in Nat
  BY DEF TypeOK
<1> QED
  BY <1>1 DEF BumpUnread, TypeOK

(* What a message:new does to the tab that hears it.                       *)
LEMMA RecvNewStep ==
    ASSUME TypeOK, NEW m \in live, RecvNew(m)
    PROVE  /\ m.tab \in Tabs /\ m.seq \in Seqs
           /\ live' \subseteq live /\ given' = given \union {m.seq}
           /\ marks \subseteq marks' /\ marks' \subseteq Pairs
           /\ \A k \in marks' \ marks : k.seq = m.seq
           /\ badge' \in [Tabs -> Nat]
<1>1. m.tab \in Tabs /\ m.seq \in Seqs
  BY DEF TypeOK, Pairs
<1>2. CASE MarkRead(m.tab, m.seq)
  BY <1>1, <1>2, MarkReadTyped DEF RecvNew
<1>3. CASE BumpUnread(m.tab, m.seq) /\ UNCHANGED marks
  BY <1>1, <1>3, BumpUnreadTyped DEF RecvNew, TypeOK
<1> QED
  BY <1>2, <1>3 DEF RecvNew

LEMMA OpenStep ==
    ASSUME TypeOK, NEW t \in Tabs, Open(t)
    PROVE  /\ marks \subseteq marks' /\ marks' \subseteq Pairs
           /\ \A k \in marks' \ marks : lastSeq[t] > 0 /\ k.seq = lastSeq[t]
           /\ badge' \in [Tabs -> Nat]
<1>1. lastSeq[t] \in 0 .. MaxSeq
  BY DEF TypeOK
<1>2. CASE lastSeq[t] > 0
  <2>1. lastSeq[t] \in Seqs
    BY <1>1, <1>2 DEF Seqs
  <2> QED
    BY <1>2, <2>1, MarkReadTyped DEF Open
<1>3. CASE ~ (lastSeq[t] > 0)
  BY <1>3 DEF Open, TypeOK
<1> QED
  BY <1>2, <1>3

-----------------------------------------------------------------------------
(* Type correctness, one step per action.                                  *)
LEMMA StoreTypesInductive ==
    ASSUME TypeOK, [Next]_vars
    PROVE  StoreTypes'
<1>0. StoreTypes /\ MaxSeq \in Nat /\ MaxLogins \in Nat /\ MaxFaults \in Nat
  BY TypeParts, ReadStateAssumption
<1> USE DEF store, entry
<1>1. CASE AllocateSeq
  BY <1>0, <1>1 DEF AllocateSeq, StoreTypes
<1>2. ASSUME NEW n \in Seqs, Store(n) PROVE StoreTypes'
  <2>1. log' \subseteq 1 .. head' /\ untold' \subseteq log'
    BY <1>0, <1>2 DEF Store, StoreTypes, Seqs
  <2> QED
    BY <1>0, <1>2, <2>1 DEF Store, StoreTypes
<1>2p. ASSUME NEW n \in Seqs, Publish(n) PROVE StoreTypes'
  <2>1. [tab : Tabs, seq : {n}] \subseteq Pairs
    BY DEF Pairs
  <2>2. live' \subseteq Pairs
    BY <1>0, <1>2p, <2>1 DEF Publish, StoreTypes
  <2> QED
    BY <1>0, <1>2p, <2>2 DEF Publish, StoreTypes
<1>2n. ASSUME NEW n \in Seqs, NeverPublished(n) PROVE StoreTypes'
  BY <1>0, <1>2n DEF NeverPublished, StoreTypes
<1>3. ASSUME NEW n \in Seqs, Burn(n) PROVE StoreTypes'
  BY <1>0, <1>3 DEF Burn, StoreTypes, Seqs
<1>4. ASSUME NEW m \in marks, HandleMark(m) PROVE StoreTypes'
  <2>1. m.seq \in 0 .. MaxSeq
    BY <1>0 DEF StoreTypes, Pairs, Seqs
  <2> QED
    BY <1>0, <1>4, <2>1 DEF HandleMark, Greater, StoreTypes
<1>5. ASSUME NEW m \in marks, MarkFails(m) PROVE StoreTypes'
  BY <1>0, <1>5 DEF MarkFails, StoreTypes
<1>6. ASSUME NEW m \in live, RecvNew(m) PROVE StoreTypes'
  <2>1. live' \subseteq Pairs /\ marks' \subseteq Pairs /\ given' \subseteq Seqs
    BY <1>0, <1>6, RecvNewStep DEF StoreTypes
  <2> QED
    BY <1>0, <1>6, <2>1 DEF RecvNew, StoreTypes
<1>7. ASSUME NEW t \in Tabs, Connect(t) \/ Disconnect(t) PROVE StoreTypes'
  BY <1>0, <1>7, OfTab DEF Connect, Disconnect, StoreTypes
<1>7r. ASSUME NEW t \in Tabs, Remount(t) PROVE StoreTypes'
  BY <1>0, <1>7r, OfTab DEF Remount, StoreTypes
<1>8. ASSUME NEW t \in Tabs, ListForUser(t) PROVE StoreTypes'
  BY <1>0, <1>8 DEF ListForUser, StoreTypes
<1>9. ASSUME NEW t \in Tabs, ListArrives(t) PROVE StoreTypes'
  <2>1. mount[t].head \in 0 .. MaxSeq
    BY DEF TypeOK
  <2>2. given' \subseteq Seqs
    <3>1. given' = given \union ({mount[t].head} \ {0})
      BY <1>9 DEF ListArrives
    <3>2. {mount[t].head} \ {0} \subseteq Seqs
      BY <1>0, <2>1 DEF Seqs
    <3>3. given \subseteq Seqs
      BY <1>0 DEF StoreTypes
    <3> QED
      BY <3>1, <3>2, <3>3
  <2> QED
    BY <1>0, <1>9, <2>2 DEF ListArrives, StoreTypes
<1>10. ASSUME NEW t \in Tabs, ConversationNew(t) \/ Finish(t) \/ Leave(t)
       PROVE  StoreTypes'
  BY <1>0, <1>10 DEF ConversationNew, Finish, UpsertConversation, Leave, StoreTypes
<1>11. ASSUME NEW t \in Tabs, Open(t) PROVE StoreTypes'
  <2>1. marks' \subseteq Pairs
    BY <1>11, OpenStep
  <2> QED
    BY <1>0, <1>11, <2>1 DEF Open, StoreTypes
<1>12. CASE UNCHANGED vars
  BY <1>0, <1>12 DEF vars, StoreTypes
<1> QED
  BY <1>1, <1>2, <1>2p, <1>2n, <1>3, <1>4, <1>5, <1>6, <1>7, <1>7r, <1>8, <1>9,
     <1>10, <1>11, <1>12 DEF Next, Server, Page

LEMMA TabTypesInductive ==
    ASSUME TypeOK, [Next]_vars
    PROVE  TabTypes'
<1>0. TabTypes
  BY TypeParts
<1> USE DEF store, entry
<1>1. CASE Server
  BY <1>0, <1>1 DEF Server, AllocateSeq, Store, Publish, NeverPublished, Burn,
                    HandleMark, MarkFails, TabTypes
<1>2. ASSUME NEW m \in live, RecvNew(m) PROVE TabTypes'
  <2>1. badge' \in [Tabs -> Nat]
    BY <1>2, RecvNewStep
  <2> QED
    BY <1>0, <1>2, <2>1 DEF RecvNew, TabTypes
<1>3. ASSUME NEW t \in Tabs, Connect(t) \/ Disconnect(t) PROVE TabTypes'
  BY <1>0, <1>3 DEF Connect, Disconnect, TabTypes
<1>3r. ASSUME NEW t \in Tabs, Remount(t) PROVE TabTypes'
  <2>1. [mount[t] EXCEPT !.at = "asked"] \in
            [at : {"asked", "sent", "shown"}, head : 0 .. MaxSeq, unread : 0 .. MaxSeq]
    BY <1>0 DEF TabTypes
  <2> QED
    BY <1>0, <1>3r, <2>1 DEF Remount, TabTypes
<1>4. ASSUME NEW t \in Tabs, ListForUser(t) PROVE TabTypes'
  <2>1. [at |-> "sent", head |-> head, unread |-> Unread] \in
            [at : {"asked", "sent", "shown"}, head : 0 .. MaxSeq, unread : 0 .. MaxSeq]
    BY HeadsBounded DEF TypeOK
  <2> QED
    BY <1>0, <1>4, <2>1 DEF ListForUser, TabTypes
<1>5. ASSUME NEW t \in Tabs, ListArrives(t) PROVE TabTypes'
  <2>1. mount[t].head \in 0 .. MaxSeq /\ mount[t].unread \in Nat
    BY <1>0 DEF TabTypes
  <2>2. 0 \in 0 .. MaxSeq
    BY ReadStateAssumption
  <2> QED
    BY <1>0, <1>5, <2>1, <2>2 DEF ListArrives, TabTypes
<1>6. ASSUME NEW t \in Tabs, ConversationNew(t) \/ Finish(t) PROVE TabTypes'
  <2>1. 0 \in 0 .. MaxSeq
    BY ReadStateAssumption
  <2>2. active' \in [Tabs -> BOOLEAN]
    BY <1>0, <1>6 DEF ConversationNew, Finish, TabTypes
  <2>3. UpsertConversation(t)
    BY <1>6 DEF ConversationNew, Finish
  <2>4. /\ listed' \in [Tabs -> BOOLEAN]
        /\ lastSeq' \in [Tabs -> 0 .. MaxSeq] /\ badge' \in [Tabs -> Nat]
        /\ UNCHANGED <<up, mount>>
    BY <1>0, <2>1, <2>3 DEF UpsertConversation, TabTypes
  <2> QED
    BY <1>0, <2>2, <2>4 DEF TabTypes
<1>7. ASSUME NEW t \in Tabs, Open(t) PROVE TabTypes'
  <2>1. badge' \in [Tabs -> Nat]
    BY <1>7, OpenStep
  <2> QED
    BY <1>0, <1>7, <2>1 DEF Open, TabTypes
<1>8. ASSUME NEW t \in Tabs, Leave(t) PROVE TabTypes'
  BY <1>0, <1>8 DEF Leave, TabTypes
<1>9. CASE UNCHANGED vars
  BY <1>0, <1>9 DEF vars, TabTypes
<1> QED
  BY <1>1, <1>2, <1>3, <1>3r, <1>4, <1>5, <1>6, <1>7, <1>8, <1>9 DEF Next, Page

-----------------------------------------------------------------------------
(* Nothing takes back what was given, numbered or stored.                  *)
LEMMA Grows ==
    ASSUME TypeOK, [Next]_vars
    PROVE  /\ given \subseteq given' /\ log \subseteq log'
           /\ head' \in Nat /\ head <= head'
<1> USE HeadsBounded DEF store, entry
<1>1. CASE Server
  BY <1>1 DEF Server, AllocateSeq, Store, Publish, NeverPublished, Burn,
              HandleMark, MarkFails
<1>2. ASSUME NEW m \in live, RecvNew(m)
      PROVE  given \subseteq given' /\ UNCHANGED <<log, head>>
  BY <1>2 DEF RecvNew
<1>3. ASSUME NEW t \in Tabs, Page(t)
      PROVE  given \subseteq given' /\ UNCHANGED <<log, head>>
  BY <1>3 DEF Page, Connect, Disconnect, Remount, ListForUser, ListArrives,
     ConversationNew, Finish, UpsertConversation, Open, Leave
<1> QED
  BY <1>1, <1>2, <1>3 DEF Next, vars

(* A mark carries the number of a message the tab was given live, or the   *)
(* head of a list it was given; the cursor only takes what a mark carries. *)
LEMMA MarksGivenInductive ==
    ASSUME TypeOK, MarksGiven, [Next]_vars
    PROVE  MarksGiven'
<1>1. given \subseteq given'
  BY Grows
<1> USE DEF store, entry
<1>2. ASSUME marks' \subseteq marks, UNCHANGED <<lastRead, lastSeq>>
      PROVE  MarksGiven'
  BY <1>1, <1>2 DEF MarksGiven
<1>3. ASSUME NEW m \in marks, HandleMark(m) PROVE MarksGiven'
  <2>1. lastRead' \in {lastRead, m.seq}
    BY <1>3 DEF HandleMark, Greater
  <2> QED
    BY <1>1, <1>3, <2>1 DEF HandleMark, MarksGiven
<1>4. CASE Server
  <2>1. CASE AllocateSeq \/ \E n \in Seqs : \/ Store(n) \/ Publish(n)
                                          \/ NeverPublished(n) \/ Burn(n)
    BY <1>2, <2>1 DEF AllocateSeq, Store, Publish, NeverPublished, Burn
  <2>2. ASSUME NEW m \in marks, MarkFails(m) PROVE MarksGiven'
    BY <1>2, <2>2 DEF MarkFails
  <2> QED
    BY <1>3, <1>4, <2>1, <2>2 DEF Server
<1>5. ASSUME NEW m \in live, RecvNew(m) PROVE MarksGiven'
  <2>1. \A k \in marks' \ marks : k.seq \in given'
    BY <1>5, RecvNewStep
  <2> QED
    BY <1>1, <1>5, <2>1 DEF RecvNew, MarksGiven
<1>6. ASSUME NEW t \in Tabs, Connect(t) \/ Disconnect(t) \/ Remount(t)
      PROVE  MarksGiven'
  BY <1>2, <1>6 DEF Connect, Disconnect, Remount
<1>7. ASSUME NEW t \in Tabs, ListForUser(t) \/ Leave(t) PROVE MarksGiven'
  BY <1>2, <1>7 DEF ListForUser, Leave
<1>8. ASSUME NEW t \in Tabs, ListArrives(t) PROVE MarksGiven'
  <2>1. mount[t].head \in given' \union {0}
    BY <1>8 DEF ListArrives
  <2>2. \A u \in Tabs : lastSeq'[u] \in {lastSeq[u], mount[t].head}
    BY <1>8 DEF ListArrives, TypeOK
  <2> QED
    BY <1>1, <1>8, <2>1, <2>2 DEF ListArrives, MarksGiven
<1>9. ASSUME NEW t \in Tabs, ConversationNew(t) \/ Finish(t) PROVE MarksGiven'
  <2>1. /\ UNCHANGED <<lastRead, marks>>
        /\ \A u \in Tabs : lastSeq'[u] \in {lastSeq[u], 0}
    BY <1>9 DEF ConversationNew, Finish, UpsertConversation, TypeOK
  <2> QED
    BY <1>1, <2>1 DEF MarksGiven
<1>10. ASSUME NEW t \in Tabs, Open(t) PROVE MarksGiven'
  <2>1. \A k \in marks' \ marks : k.seq \in given
    BY <1>10, OpenStep DEF MarksGiven
  <2> QED
    BY <1>1, <1>10, <2>1 DEF Open, MarksGiven
<1>11. CASE UNCHANGED vars
  BY <1>2, <1>11 DEF vars
<1> QED
  BY <1>4, <1>5, <1>6, <1>7, <1>8, <1>9, <1>10, <1>11 DEF Next, Page

(* What a tab is given was numbered: a live message is stored, and a list  *)
(* carries the head as it was.                                             *)
LEMMA GivenNumberedInductive ==
    ASSUME TypeOK, GivenNumbered, [Next]_vars
    PROVE  GivenNumbered'
<1>1. /\ log \subseteq log'
      /\ head \in Nat /\ head' \in Nat /\ head <= head'
      /\ \A t \in Tabs : mount[t].head \in Nat
  BY Grows, HeadsBounded DEF TypeOK
<1> USE DEF store, entry
<1>2. ASSUME live' \subseteq live, UNCHANGED <<given, mount>>
      PROVE  GivenNumbered'
  BY <1>1, <1>2 DEF GivenNumbered
<1>3. CASE Server
  <2>1. ASSUME NEW n \in Seqs, Publish(n) PROVE GivenNumbered'
    <3>1. \A m \in live' \ live : m.seq = n
      BY <2>1 DEF Publish
    <3>2. n \in log' /\ UNCHANGED <<head, given, mount>>
      BY <2>1 DEF Publish, TypeOK
    <3> QED
      BY <1>1, <3>1, <3>2 DEF GivenNumbered
  <2>2. CASE AllocateSeq \/ \E n \in Seqs : Store(n) \/ NeverPublished(n) \/ Burn(n)
    BY <1>2, <2>2 DEF AllocateSeq, Store, NeverPublished, Burn
  <2>3. CASE \E m \in marks : HandleMark(m) \/ MarkFails(m)
    BY <1>2, <2>3 DEF HandleMark, MarkFails
  <2> QED
    BY <1>3, <2>1, <2>2, <2>3 DEF Server
<1>4. ASSUME NEW m \in live, RecvNew(m) PROVE GivenNumbered'
  <2>1. m.seq \in 1 .. head
    BY DEF GivenNumbered, TypeOK
  <2>2. live' \subseteq live /\ given' = given \union {m.seq}
    BY <1>4, RecvNewStep
  <2> QED
    BY <1>4, <2>1, <2>2 DEF RecvNew, GivenNumbered
<1>5. ASSUME NEW t \in Tabs, Connect(t) \/ Disconnect(t) \/ Open(t) \/ Leave(t)
      PROVE  GivenNumbered'
  BY <1>2, <1>5, OfTab DEF Connect, Disconnect, Open, Leave
<1>5r. ASSUME NEW t \in Tabs, Remount(t) PROVE GivenNumbered'
  <2>1. \A u \in Tabs : mount'[u].head = mount[u].head
    BY <1>5r DEF Remount, TypeOK
  <2> QED
    BY <1>1, <1>5r, <2>1, OfTab DEF Remount, GivenNumbered
<1>6. ASSUME NEW t \in Tabs, ListForUser(t) PROVE GivenNumbered'
  <2>1. \A u \in Tabs : mount'[u].head \in {mount[u].head, head}
    BY <1>6 DEF ListForUser, TypeOK
  <2> QED
    BY <1>1, <1>6, <2>1 DEF ListForUser, GivenNumbered
<1>7. ASSUME NEW t \in Tabs, ListArrives(t) PROVE GivenNumbered'
  <2>1. mount' = [mount EXCEPT ![t] = [at |-> "shown", head |-> 0, unread |-> 0]]
    BY <1>7 DEF ListArrives
  <2>2. \A u \in Tabs : mount'[u].head <= head
    BY <1>1, <2>1 DEF GivenNumbered, TypeOK
  <2>3. given' = given \union ({mount[t].head} \ {0}) /\ UNCHANGED <<live, log, head>>
    BY <1>7 DEF ListArrives
  <2>4. given' \subseteq 1 .. head
    <3>1. {mount[t].head} \ {0} \subseteq 1 .. head
      BY <1>1 DEF GivenNumbered
    <3>2. given \subseteq 1 .. head
      BY DEF GivenNumbered
    <3> QED
      BY <2>3, <3>1, <3>2
  <2> QED
    BY <1>1, <2>2, <2>3, <2>4 DEF GivenNumbered
<1>8. ASSUME NEW t \in Tabs, ConversationNew(t) \/ Finish(t)
      PROVE  GivenNumbered'
  BY <1>2, <1>8 DEF ConversationNew, Finish, UpsertConversation
<1>9. CASE UNCHANGED vars
  BY <1>2, <1>9 DEF vars
<1> QED
  BY <1>3, <1>4, <1>5, <1>5r, <1>6, <1>7, <1>8, <1>9 DEF Next, Page

-----------------------------------------------------------------------------
(* What the results below rest on.                                         *)
THEOREM ReadInvariant == Spec => []ReadInv
<1>1. ReadInv /\ [Next]_vars => ReadInv'
  BY StoreTypesInductive, TabTypesInductive, MarksGivenInductive,
     GivenNumberedInductive DEF ReadInv, StoreTypes, TabTypes, TypeOK
<1> QED
  BY InitInv, <1>1, PTL DEF Spec

(* Every reachable state is typed: only numbers the allocator has handed   *)
(* out are stored or burned, and only pairs of a tab and a number are      *)
(* under way.                                                              *)
THEOREM ReadStateTyped == Spec => []TypeOK
BY ReadInvariant, PTL DEF ReadInv

(* next_seq - 1 - last_read_seq is never less than the number of messages  *)
(* stored above the read cursor, though it scans nothing                   *)
(* (conversation.service.js:80-83).                                        *)
THEOREM CountCoversStored == Spec => []UnreadCoversStored
<1>1. ASSUME TypeOK PROVE UnreadCoversStored
  <2> DEFINE above == {n \in log : n > lastRead}
  <2>1. head \in Nat /\ lastRead \in Nat /\ log \subseteq 1 .. head
    BY <1>1, HeadsBounded DEF TypeOK
  <2>2. Cardinality(lastRead + 1 .. head) = Unread
    BY <2>1, FS_Interval DEF Unread
  <2>3. IsFiniteSet(lastRead + 1 .. head)
    BY <2>1, FS_Interval
  <2>4. above \subseteq lastRead + 1 .. head
    <3>1. ASSUME NEW n \in 1 .. head, n > lastRead
          PROVE  n \in lastRead + 1 .. head
      BY <2>1, <3>1
    <3> QED
      BY <2>1, <3>1
  <2>5. Cardinality(above) <= Cardinality(lastRead + 1 .. head)
    <3> HIDE DEF above
    <3> QED
      BY <2>3, <2>4, FS_Subset
  <2> QED
    BY <2>2, <2>5 DEF UnreadCoversStored
<1> QED
  BY <1>1, ReadStateTyped, PTL

(* The read cursor never passes the last number handed out, so the 0 of    *)
(* GREATEST(next_seq - 1 - last_read_seq, 0) hides nothing.                *)
THEOREM ReadWithinHead == Spec => [](lastRead <= head)
<1>1. ReadInv => lastRead <= head
  BY DEF ReadInv, TypeOK, MarksGiven, GivenNumbered
<1> QED
  BY <1>1, ReadInvariant, PTL

(* Whatever order marks are handled in, and however many tabs emit them,   *)
(* the read cursor keeps the promise of HighWaterMark.                     *)
LEMMA CursorStep ==
    ASSUME ReadInv, [Next]_vars
    PROVE  [Cursor!Next]_<<lastRead, given>>
<1> USE DEF store, entry
<1>1. given \subseteq given'
  BY Grows DEF ReadInv
<1>2. CASE lastRead' = lastRead
  BY <1>1, <1>2 DEF Cursor!Next, Cursor!Give
<1>3. ASSUME NEW m \in marks, HandleMark(m)
      PROVE  [Cursor!Next]_<<lastRead, given>>
  <2>1. m.seq \in given /\ given' = given /\ m.seq \in Nat /\ lastRead \in Nat
    BY <1>3 DEF ReadInv, MarksGiven, TypeOK, Pairs, Seqs, HandleMark
  <2>2. CASE lastRead >= m.seq
    BY <1>2, <1>3, <2>2 DEF HandleMark, Greater
  <2>3. CASE ~ (lastRead >= m.seq)
    <3>1. lastRead' = m.seq /\ lastRead' > lastRead
      BY <1>3, <2>1, <2>3 DEF HandleMark, Greater
    <3> QED
      BY <2>1, <3>1 DEF Cursor!Next, Cursor!Advance
  <2> QED
    BY <2>2, <2>3
<1>4. CASE Server
  <2>1. lastRead' = lastRead \/ \E m \in marks : HandleMark(m)
    BY <1>4 DEF Server, AllocateSeq, Store, Publish, NeverPublished, Burn, MarkFails
  <2> QED
    BY <1>2, <1>3, <2>1
<1>5. CASE \E m \in live : RecvNew(m)
  BY <1>2, <1>5 DEF RecvNew
<1>6. ASSUME NEW t \in Tabs, Page(t) PROVE lastRead' = lastRead
  BY <1>6 DEF Page, Connect, Disconnect, Remount, ListForUser, ListArrives,
     ConversationNew, Finish, UpsertConversation, Open, Leave
<1> QED
  BY <1>2, <1>4, <1>5, <1>6 DEF Next, vars

(* The second implementation of that promise, next to the delivery cursor. *)
THEOREM ReadStateImplementsHighWaterMark == Spec => ImplementsHighWaterMark
<1>1. Init => Cursor!Init
  BY DEF Init, Cursor!Init
<1>2. ReadInv /\ [Next]_vars => [Cursor!Next]_<<lastRead, given>>
  BY CursorStep
<1> QED
  BY <1>1, <1>2, ReadInvariant, PTL
  DEF Spec, ImplementsHighWaterMark, Cursor!Spec

(* The senders this module is checked with keep the rules of MessageLog,   *)
(* which SendPath implements: a burned number is one given up.             *)
LEMMA MessageLogStep ==
    ASSUME TypeOK, [Next]_vars
    PROVE  [Numbers!Next]_<<head + 1, (1 .. head) \ (log \union burned), log>>
<1> USE DEF Numbers!Next
<1>0. head \in Nat /\ log \subseteq 1 .. head /\ burned \subseteq 1 .. head
  BY HeadsBounded DEF TypeOK
<1>1. CASE AllocateSeq
  <2>1. head' = head + 1 /\ UNCHANGED <<log, burned>>
    BY <1>1 DEF AllocateSeq
  <2>2. head + 1 \notin log \union burned /\ 1 .. head + 1 = (1 .. head) \union {head + 1}
    BY <1>0
  <2> QED
    BY <2>1, <2>2 DEF Numbers!Allocate
<1>2. ASSUME NEW n \in Seqs, Store(n) PROVE Numbers!Next
  <2>1. n \in 1 .. head /\ n \notin log \union burned
    BY <1>0, <1>2 DEF Store, Seqs
  <2> QED
    BY <1>2, <2>1 DEF Store, Numbers!Store
<1>3. ASSUME NEW n \in Seqs, Burn(n) PROVE Numbers!Next
  BY <1>3 DEF Burn, Numbers!GiveUp
<1>4. ASSUME UNCHANGED <<head, log, burned>>
      PROVE  UNCHANGED <<head + 1, (1 .. head) \ (log \union burned), log>>
  BY <1>4
<1>5. ASSUME NEW m \in marks, HandleMark(m) \/ MarkFails(m)
      PROVE  UNCHANGED <<head, log, burned>>
  BY <1>5 DEF HandleMark, MarkFails, store
<1>5p. ASSUME NEW n \in Seqs, Publish(n) \/ NeverPublished(n)
       PROVE  UNCHANGED <<head, log, burned>>
  BY <1>5p DEF Publish, NeverPublished
<1>6. CASE \E m \in live : RecvNew(m)
  BY <1>4, <1>6 DEF RecvNew, store
<1>7. ASSUME NEW t \in Tabs, Page(t) PROVE UNCHANGED <<head, log, burned>>
  BY <1>7 DEF Page, Connect, Disconnect, Remount, ListForUser, ListArrives,
     ConversationNew, Finish, UpsertConversation, Open, Leave, store
<1>8. CASE UNCHANGED vars
  BY <1>4, <1>8 DEF vars
<1> QED
  BY <1>1, <1>2, <1>3, <1>4, <1>5, <1>5p, <1>6, <1>7, <1>8 DEF Next, Server

(* The counts rest on the same log: numbers handed out once, each stored   *)
(* later or never (conversation.service.js:80-83).                         *)
THEOREM ReadStateImplementsMessageLog == Spec => ImplementsMessageLog
<1>1. Init => Numbers!Init
  BY DEF Init, Numbers!Init
<1>2. TypeOK /\ [Next]_vars =>
          [Numbers!Next]_<<head + 1, (1 .. head) \ (log \union burned), log>>
  BY MessageLogStep
<1> QED
  BY <1>1, <1>2, ReadStateTyped, PTL
  DEF Spec, ImplementsMessageLog, Numbers!Spec

-----------------------------------------------------------------------------
(* What becomes of a message heard and of a mark under way.                *)
LEMMA KeptStep ==
    ASSUME TypeOK, [Next]_vars
    PROVE  /\ \A m \in live : active[m.tab] => m \in live' \union marks' \/ ~up'[m.tab]
           /\ \A m \in marks \ marks' : \/ lastRead' >= m.seq \/ faults' > faults
                                       \/ up'[m.tab] # up[m.tab]
                                       \/ logins' > logins
<1> DEFINE Kept == /\ \A m \in live : active[m.tab]
                          => m \in live' \union marks' \/ ~up'[m.tab]
                   /\ \A m \in marks \ marks' : \/ lastRead' >= m.seq
                                               \/ faults' > faults
                                               \/ up'[m.tab] # up[m.tab]
                                               \/ logins' > logins
<1>1. ASSUME live \subseteq live', marks \subseteq marks' PROVE Kept
  BY <1>1
<1>2. CASE AllocateSeq \/ UNCHANGED vars
  BY <1>1, <1>2 DEF AllocateSeq, vars
<1>3. ASSUME NEW n \in Seqs,
             Store(n) \/ Publish(n) \/ NeverPublished(n) \/ Burn(n)
      PROVE  Kept
  BY <1>1, <1>3 DEF Store, Publish, NeverPublished, Burn
<1>4. ASSUME NEW m \in marks, HandleMark(m) PROVE Kept
  <2>1. live' = live /\ marks' = marks \ {m}
    BY <1>4 DEF HandleMark
  <2>2. lastRead' >= m.seq
    BY <1>4 DEF HandleMark, Greater, TypeOK, Pairs, Seqs
  <2> QED
    BY <2>1, <2>2
<1>5. ASSUME NEW m \in marks, MarkFails(m) PROVE Kept
  <2>1. live' = live /\ marks' = marks \ {m}
    BY <1>5 DEF MarkFails
  <2>2. faults' > faults
    BY <1>5 DEF MarkFails, TypeOK
  <2> QED
    BY <2>1, <2>2
<1>6. ASSUME NEW m \in live, RecvNew(m) PROVE Kept
  <2>1. live' = live \ {m} /\ marks \subseteq marks'
    BY <1>6 DEF RecvNew, MarkRead
  <2>2. active[m.tab] => m \in marks'
    BY <1>6 DEF RecvNew, MarkRead, TypeOK, Pairs
  <2> QED
    BY <2>1, <2>2
<1>7. ASSUME NEW t \in Tabs, Connect(t) \/ Disconnect(t) PROVE Kept
  <2>1. /\ live \ Of(live, t) \subseteq live' /\ marks \ Of(marks, t) \subseteq marks'
        /\ up'[t] # up[t]
    BY <1>7 DEF Connect, Disconnect, TypeOK
  <2>2. Of(live, t) \subseteq live' \/ ~up'[t]
    BY <1>7 DEF Connect, Disconnect, Of, TypeOK
  <2> QED
    BY <2>1, <2>2 DEF Of
<1>7r. ASSUME NEW t \in Tabs, Remount(t) PROVE Kept
  <2>1. /\ live \ Of(live, t) \subseteq live' /\ ~up'[t]
        /\ logins' > logins
    BY <1>7r DEF Remount, TypeOK
  <2> QED
    BY <2>1 DEF Of
<1>8. ASSUME NEW t \in Tabs, Page(t) PROVE Kept
  <2>1. CASE Connect(t) \/ Disconnect(t)
    BY <1>7, <2>1
  <2>1r. CASE Remount(t)
    BY <1>7r, <2>1r
  <2>2. CASE Open(t)
    BY <1>1, <2>2 DEF Open, MarkRead
  <2>3. CASE ConversationNew(t) \/ Finish(t)
    BY <1>1, <2>3 DEF ConversationNew, Finish, UpsertConversation
  <2>4. CASE ListForUser(t) \/ ListArrives(t) \/ Leave(t)
    BY <1>1, <2>4 DEF ListForUser, ListArrives, Leave
  <2> QED
    BY <1>8, <2>1, <2>1r, <2>2, <2>3, <2>4 DEF Page
<1> QED
  BY <1>2, <1>3, <1>4, <1>5, <1>6, <1>8 DEF Next, Server

(* A message heard in the open conversation leaves a mark, and a mark goes *)
(* only where the cursor has come to it, it failed or its connection did.  *)
THEOREM HeardMessageIsKept == Spec => HeardIsKept
<1>1. ReadInv /\ [Next]_vars
      => /\ \A m \in live : active[m.tab] => m \in live' \union marks' \/ ~up'[m.tab]
         /\ \A m \in marks \ marks' : \/ lastRead' >= m.seq \/ faults' > faults
                                     \/ up'[m.tab] # up[m.tab]
                                     \/ logins' > logins
  BY KeptStep DEF ReadInv
<1> QED
  BY <1>1, ReadInvariant, PTL DEF Spec, HeardIsKept
=============================================================================
