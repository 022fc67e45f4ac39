--------------------------- MODULE DeliveryProofs ---------------------------
(* Theorems about Delivery, for every length of the log, every page size   *)
(* and every number of faults.                                             *)
EXTENDS Delivery, FiniteSetTheorems, WellFoundedInduction, TLAPS

(* What the queries and computations of MessageStore return, for every     *)
(* log and every page size.                                                *)
LEMMA NatMin ==
    ASSUME NEW T \in SUBSET Nat, T # {}
    PROVE  \E x \in T : \A y \in T : x <= y
<1>1. \E x \in T : \A y \in T : ~ (<<y, x>> \in OpToRel(<, Nat))
  BY NatLessThanWellFounded, WFMin
<1>2. PICK x \in T : \A y \in T : ~ (<<y, x>> \in OpToRel(<, Nat))
  BY <1>1
<1>3. ASSUME NEW y \in T PROVE x <= y
  <2>1. ~ (y < x)
    BY <1>2 DEF OpToRel
  <2> QED
    BY <2>1
<1> QED
  BY <1>3

LEMMA HighestFact ==
    ASSUME NEW b \in Nat, NEW T \in SUBSET (0 .. b), T # {}
    PROVE  Highest(T) \in T /\ \A t \in T : t <= Highest(T)
<1> DEFINE U == {b - x : x \in T}
<1>1. U \subseteq Nat /\ U # {}
  <2>1. \A x \in T : b - x \in Nat
    OBVIOUS
  <2> QED
    BY <2>1
<1>2. PICK u \in U : \A v \in U : u <= v
  <2> HIDE DEF U
  <2> QED
    BY <1>1, NatMin
<1>3. PICK x \in T : u = b - x
  OBVIOUS
<1>4. ASSUME NEW y \in T PROVE y <= x
  <2>1. b - y \in U
    OBVIOUS
  <2> QED
    BY <2>1, <1>2, <1>3
<1> QED
  BY <1>4 DEF Highest

LEMMA ContiguousTyped ==
    ASSUME NEW b \in Nat, NEW T \in SUBSET (1 .. b)
    PROVE  Contiguous(T) \in 0 .. b
<1> DEFINE U == {n \in Nat : n + 1 \notin T}
           P(x) == 1 .. x \subseteq T /\ x + 1 \notin T
<1>1. PICK n \in U : \A m \in U : n <= m
  <2>1. b \in U /\ U \in SUBSET Nat
    OBVIOUS
  <2> HIDE DEF U
  <2> QED
    BY <2>1, NatMin
<1>2. ASSUME NEW k \in 1 .. n PROVE k \in T
  <2>1. k - 1 \in Nat /\ k - 1 < n
    BY <1>1
  <2>2. k - 1 \notin U
    BY <2>1, <1>1
  <2> QED
    BY <2>1, <2>2
<1>3. n \in {0} \union T
  BY <1>1, <1>2
<1>4. P(n)
  BY <1>1, <1>2
<1> HIDE DEF P
<1>5. (CHOOSE x \in {0} \union T : P(x)) \in {0} \union T
  BY <1>3, <1>4, Zenon
<1>6. Contiguous(T) \in {0} \union T
  BY <1>5, Zenon DEF Contiguous, P
<1>7. {0} \union T \subseteq 0 .. b
  OBVIOUS
<1> QED
  BY <1>6, <1>7

LEMMA BoundedFinite ==
    ASSUME NEW b \in Nat, NEW S \in SUBSET (0 .. b)
    PROVE  IsFiniteSet(S) /\ Cardinality(S) \in Nat
<1>1. IsFiniteSet(0 .. b)
  BY FS_Interval
<1>2. IsFiniteSet(S)
  BY <1>1, FS_Subset
<1> QED
  BY <1>2, FS_CardinalityType

(* Oldest is a sorted, limited query: it returns stored messages, at least *)
(* one where there is one, and it leaves out a message only if it is full  *)
(* and every message it returned is older than that one.                   *)
THEOREM OldestPage ==
    ASSUME NEW b \in Nat, NEW S \in SUBSET (0 .. b), NEW n \in Nat \ {0}
    PROVE  /\ Oldest(S, n) \subseteq S
           /\ S # {} => Oldest(S, n) # {}
           /\ \A s \in S \ Oldest(S, n) :
                 /\ Cardinality(S) > n
                 /\ \A t \in Oldest(S, n) : t < s
<1> DEFINE Below(s) == {t \in S : t < s}
<1>1. \A s \in S : /\ IsFiniteSet(Below(s))
                   /\ Cardinality(Below(s)) \in Nat
  <2> TAKE s \in S
  <2>1. Below(s) \in SUBSET (0 .. b)
    OBVIOUS
  <2> HIDE DEF Below
  <2> QED
    BY <2>1, BoundedFinite
<1>2. Oldest(S, n) = {s \in S : Cardinality(Below(s)) < n}
  BY DEF Oldest
<1>3. ASSUME S # {} PROVE Oldest(S, n) # {}
  <2>1. PICK x \in S : \A y \in S : x <= y
    BY <1>3, NatMin
  <2>2. Below(x) = {}
    <3>1. \A t \in S : t \in Nat /\ x \in Nat /\ ~ (t < x)
      BY <2>1
    <3> QED
      BY <3>1
  <2>3. Cardinality(Below(x)) = 0
    BY <2>2, FS_EmptySet
  <2> HIDE DEF Below
  <2> QED
    BY <2>3, <1>2
<1>4. ASSUME NEW s \in S \ Oldest(S, n) PROVE Cardinality(S) > n
  <2>1. Cardinality(Below(s)) >= n
    <3> HIDE DEF Below
    <3> QED
      BY <1>1, <1>2
  <2>2. /\ IsFiniteSet(Below(s) \cup {s})
        /\ Cardinality(Below(s) \cup {s}) = Cardinality(Below(s)) + 1
    <3>1. s \notin Below(s)
      OBVIOUS
    <3> HIDE DEF Below
    <3> QED
      BY <3>1, <1>1, FS_AddElement
  <2>3. Below(s) \cup {s} \in SUBSET S
    OBVIOUS
  <2> HIDE DEF Below
  <2>4. Cardinality(Below(s) \cup {s}) <= Cardinality(S) /\ Cardinality(S) \in Nat
    BY <2>3, BoundedFinite, FS_Subset
  <2> QED
    BY <2>1, <2>2, <2>4, <1>1
<1>5. ASSUME NEW s \in S \ Oldest(S, n), NEW t \in Oldest(S, n)
      PROVE  t < s
  <2>1. t \in S /\ t # s
    BY DEF Oldest
  <2>2. SUFFICES ASSUME s < t PROVE FALSE
    BY <2>1
  <2>3. Below(s) \in SUBSET Below(t)
    <3>1. \A u \in S : u < s => u < t
      BY <2>1, <2>2
    <3> QED
      BY <3>1
  <2> HIDE DEF Below
  <2>4. Cardinality(Below(s)) <= Cardinality(Below(t))
    BY <2>1, <2>3, <1>1, FS_Subset
  <2> QED
    BY <2>1, <2>4, <1>1, <1>2
<1>6. Oldest(S, n) \subseteq S
  BY DEF Oldest
<1> QED
  BY <1>3, <1>4, <1>5, <1>6

-----------------------------------------------------------------------------

LEMMA LogBounded ==
    ASSUME TypeOK
    PROVE  log \in SUBSET Seqs
<1>1. 1 .. nextSeq - 1 \subseteq Seqs
  BY DeliveryAssumption DEF TypeOK, Seqs
<1> QED
  BY <1>1 DEF TypeOK

(* A page read from the log is never empty where there is something to     *)
(* send, and what it leaves out it promises.                               *)
LEMMA SendPageFact ==
    ASSUME TypeOK, NEW n \in 0 .. MaxSeq, SendPage(n)
    PROVE  /\ frames \subseteq frames'
           /\ \A f \in frames' \ frames :
                 /\ f \in Frames /\ f.kind = "backlog"
                 /\ f.seqs # {} /\ f.seqs \subseteq log
           /\ \A s \in log : s > n =>
                 \E f \in frames' : \/ s \in f.seqs
                                    \/ f.more /\ Highest(f.seqs) < s
<1> DEFINE docs == {s \in log : s > n}
           old == Oldest(docs, Page)
           more == Cardinality(docs) > Page
           frame == [kind |-> "backlog", seqs |-> old, more |-> more]
<1>1. frames' = IF old = {} THEN frames ELSE frames \union {frame}
  BY DEF SendPage, ListUndelivered
<1>2. docs \in SUBSET (0 .. MaxSeq) /\ log \in SUBSET Seqs
  BY LogBounded, DeliveryAssumption DEF Seqs
<1>3. /\ old \subseteq docs
      /\ docs # {} => old # {}
      /\ \A s \in docs \ old : /\ more
                               /\ \A t \in old : t < s
  <2> HIDE DEF docs
  <2> QED
    BY <1>2, OldestPage, DeliveryAssumption
<1>4. frame \in Frames
  <2>1. old \in SUBSET Seqs /\ more \in BOOLEAN
    BY <1>2, <1>3
  <2> HIDE DEF old, more
  <2> QED
    BY <2>1 DEF Frames
<1>5. ASSUME NEW s \in log, s > n
      PROVE  \E f \in frames' : \/ s \in f.seqs
                                \/ f.more /\ Highest(f.seqs) < s
  <2>1. s \in docs
    BY <1>5
  <2>2. old # {} /\ frame \in frames'
    BY <2>1, <1>1, <1>3
  <2>3. Highest(old) \in old
    <3>1. old \in SUBSET (0 .. MaxSeq)
      BY <1>2, <1>3
    <3> HIDE DEF old
    <3> QED
      BY <2>2, <3>1, HighestFact, DeliveryAssumption
  <2>4. s \in old \/ (more /\ Highest(old) < s)
    <3> HIDE DEF old, docs, more
    <3> QED
      BY <2>1, <2>3, <1>3
  <2>5. frame.seqs = old /\ frame.more = more
    OBVIOUS
  <2> HIDE DEF frame, old, more
  <2> QED
    BY <2>2, <2>4, <2>5
<1>6. frame.kind = "backlog" /\ frame.seqs = old
  OBVIOUS
<1>7. old \subseteq log
  BY <1>3
<1> HIDE DEF frame, old
<1> QED
  BY <1>1, <1>4, <1>5, <1>6, <1>7

(* What a tab may merge.                                                   *)
LEMMA ListRangeStored ==
    ASSUME TypeOK, NEW a, NEW b
    PROVE  ListRange(log, a, b, Page) \subseteq log
BY DEF ListRange, Oldest

-----------------------------------------------------------------------------
LEMMA InitInv == Init => DeliveryInv
<1> SUFFICES ASSUME Init PROVE DeliveryInv
  OBVIOUS
<1>1. TypeOK
  <2>1. /\ nextSeq \in 1 .. MaxSeq + 1 /\ watermark \in 0 .. MaxSeq
        /\ drainFrom \in 0 .. MaxSeq /\ due \in 0 .. MaxSeq
        /\ faults \in 0 .. MaxFaults
    BY DeliveryAssumption DEF Init
  <2>2. /\ allocated = {} /\ log = {} /\ unsent = {} /\ silent = {} /\ owed = {}
        /\ frames = {} /\ acks = {} /\ asks = {} /\ buffer = {}
        /\ fetches = {} /\ thread = {} /\ received = {}
        /\ sess = "off" /\ gaveUp = FALSE
    BY DEF Init
  <2> QED
    BY <2>1, <2>2, Zenon DEF TypeOK
<1>2. FramesStored /\ AcksBacked /\ WatermarkBacked /\ SessionCoversLog
  BY DEF Init, FramesStored, AcksBacked, WatermarkBacked, SessionCoversLog
<1> QED
  BY <1>1, <1>2 DEF DeliveryInv

(* Type correctness, one step per action.                                  *)
LEMMA TypeInductive ==
    ASSUME DeliveryInv, [Next]_vars
    PROVE  TypeOK'
<1> USE DeliveryAssumption DEF DeliveryInv
<1>1. CASE AllocateSeq
  BY <1>1 DEF AllocateSeq, TypeOK, store, session, wire, client
<1>2. ASSUME NEW s \in Seqs, Store(s) PROVE TypeOK'
  BY <1>2 DEF Store, TypeOK, session, wire, client
<1>3. ASSUME NEW s \in Seqs, Burn(s) PROVE TypeOK'
  BY <1>3 DEF Burn, Fault, TypeOK, session, wire, client
<1>4. ASSUME NEW s \in Seqs, Publish(s) PROVE TypeOK'
  <2>1. [kind |-> "new", seqs |-> {s}, more |-> FALSE] \in Frames
    BY DEF Frames
  <2> QED
    BY <1>4, <2>1 DEF Publish, TypeOK, session, client
<1>5. ASSUME NEW s \in Seqs, LosePublish(s) PROVE TypeOK'
  BY <1>5 DEF LosePublish, Fault, TypeOK, session, wire, client
<1>6. CASE Connect
  <2>1. [upTo : buffer, more : {FALSE}] \subseteq Acks
    BY DEF Acks, TypeOK
  <2> QED
    BY <1>6, <2>1 DEF Connect, TypeOK, store, client
<1>7. CASE Join
  BY <1>7 DEF Join, TypeOK, store, wire, client
<1>8. CASE ReadCursor
  BY <1>8 DEF ReadCursor, TypeOK, store, wire, client
<1>9. CASE Drain
  <2>1. frames' \subseteq Frames
    BY <1>9, SendPageFact DEF Drain, TypeOK
  <2> QED
    BY <1>9, <2>1 DEF Drain, TypeOK, store, client
<1>10. CASE DrainFails
  BY <1>10 DEF DrainFails, Fault, TypeOK, store, wire, client
<1>11. ASSUME NEW k \in acks, HandleAck(k) \/ AckFails(k) PROVE TypeOK'
  <2>1. k.upTo \in Seqs /\ k.upTo \in 0 .. MaxSeq
    BY DEF TypeOK, Acks, Seqs
  <2>2. watermark' \in 0 .. MaxSeq
    BY <1>11, <2>1 DEF HandleAck, AckFails, TypeOK
  <2>3. acks' \subseteq Acks /\ asks' \subseteq Seqs
    BY <1>11, <2>1 DEF HandleAck, AckFails, Acknowledged, TypeOK
  <2>4. faults' \in 0 .. MaxFaults
    BY <1>11 DEF HandleAck, AckFails, Fault, TypeOK
  <2>5. UNCHANGED <<store, session, frames, buffer, client>>
    BY <1>11 DEF HandleAck, AckFails
  <2> QED
    BY <2>2, <2>3, <2>4, <2>5 DEF TypeOK, store, session, client
<1>12. ASSUME NEW k \in acks, AckUnheard(k) PROVE TypeOK'
  BY <1>12 DEF AckUnheard, TypeOK, store, session, client
<1>13. ASSUME NEW n \in asks, HandleAsk(n) PROVE TypeOK'
  <2>1. n \in 0 .. MaxSeq
    BY DEF TypeOK, Seqs
  <2>2. frames' \subseteq Frames
    BY <1>13, <2>1, SendPageFact DEF HandleAsk, TypeOK
  <2> QED
    BY <1>13, <2>2 DEF HandleAsk, TypeOK, store, session, client
<1>14. ASSUME NEW n \in asks, AskFails(n) PROVE TypeOK'
  BY <1>14 DEF AskFails, Fault, TypeOK, store, client
<1>15. ASSUME NEW f \in frames, RecvNew(f) PROVE TypeOK'
  <2>1. f.seqs \subseteq log /\ f.seqs # {}
    BY DEF FramesStored
  <2>2. thread \union f.seqs \in SUBSET Seqs /\ thread \union f.seqs # {}
    BY <2>1, LogBounded DEF TypeOK
  <2>3. Contiguous(thread \union f.seqs) \in 0 .. MaxSeq
    BY <2>2, ContiguousTyped, DeliveryAssumption DEF Seqs
  <2>4. Highest(thread \union f.seqs) \in Seqs
    <3>1. thread \union f.seqs \in SUBSET (0 .. MaxSeq)
      BY <2>2 DEF Seqs
    <3> QED
      BY <2>2, <3>1, HighestFact, DeliveryAssumption
  <2>5. fetches' \subseteq Fetches
    BY <1>15, <2>3, <2>4 DEF RecvNew, DetectGap, Fetches, TypeOK
  <2>6. Highest(f.seqs \union {due}) \in f.seqs \union {due}
    <3>1. f.seqs \union {due} \in SUBSET (0 .. MaxSeq)
      BY <2>2 DEF TypeOK, Seqs
    <3> QED
      BY <3>1, HighestFact, DeliveryAssumption
  <2>7. due' \in 0 .. MaxSeq
    BY <1>15, <2>2, <2>6 DEF RecvNew, TypeOK, Seqs
  <2> QED
    BY <1>15, <2>1, <2>5, <2>7 DEF RecvNew, Take, TypeOK, store, session
<1>16. ASSUME NEW f \in frames, RecvBacklog(f) PROVE TypeOK'
  <2>1. f.seqs \subseteq log /\ f.seqs # {}
    BY DEF FramesStored
  <2>2. Highest(f.seqs) \in Seqs
    <3>1. f.seqs \in SUBSET (0 .. MaxSeq) /\ f.seqs \subseteq Seqs
      BY <2>1, LogBounded DEF Seqs
    <3> QED
      BY <2>1, <3>1, HighestFact, DeliveryAssumption
  <2>3. [upTo |-> Highest(f.seqs), more |-> f.more] \in Acks
    BY <2>2 DEF Acks, Frames, TypeOK
  <2> QED
    BY <1>16, <2>1, <2>3 DEF RecvBacklog, Take, TypeOK, store, session
<1>17. CASE TimerFires
  <2>1. due \in Seqs /\ [upTo |-> due, more |-> FALSE] \in Acks
    BY <1>17 DEF TimerFires, TypeOK, Seqs, Acks
  <2>2. due' \in 0 .. MaxSeq
    BY <1>17 DEF TimerFires
  <2>3. acks' \subseteq Acks /\ buffer' \subseteq Seqs
    <3>1. CASE sess = "off"
      BY <1>17, <2>1, <3>1 DEF TimerFires, TypeOK
    <3>2. CASE sess # "off"
      BY <1>17, <2>1, <3>2 DEF TimerFires, TypeOK
    <3> QED
      BY <3>1, <3>2
  <2> QED
    BY <1>17, <2>2, <2>3 DEF TimerFires, TypeOK, store, session
<1>18. ASSUME NEW f \in fetches, FetchReturns(f) PROVE TypeOK'
  BY <1>18, ListRangeStored DEF FetchReturns, Take, TypeOK, store, session, wire
<1>19. ASSUME NEW f \in fetches, FetchFails(f) PROVE TypeOK'
  BY <1>19 DEF FetchFails, Fault, TypeOK, store, session, wire
<1>20. ASSUME Hangup PROVE acks' \subseteq Acks
  <2>1. PICK begun \in SUBSET acks :
           acks' = [upTo : {k.upTo : k \in begun}, more : {FALSE}]
    BY <1>20 DEF Hangup
  <2>2. \A k \in begun : k.upTo \in Seqs
    BY DEF TypeOK, Acks
  <2> QED
    BY <2>1, <2>2 DEF Acks
<1>21. ASSUME Hangup
       PROVE  /\ sess' = "off" /\ frames' = {} /\ asks' = {}
              /\ acks' \subseteq Acks
              /\ UNCHANGED <<store, watermark, drainFrom, owed, gaveUp>>
  <2>1. acks' \subseteq Acks
    BY <1>20, <1>21
  <2> QED
    BY <1>21, <2>1 DEF Hangup
<1>22. CASE Disconnect
  <2>1. faults' \in 0 .. MaxFaults /\ UNCHANGED <<buffer, client>> /\ Hangup
    BY <1>22 DEF Disconnect, Fault, TypeOK
  <2> QED
    BY <1>21, <2>1 DEF TypeOK, store, client
<1>23. CASE Reload
  <2>1. /\ faults' \in 0 .. MaxFaults /\ Hangup
        /\ buffer' = {} /\ due' = 0 /\ fetches' = {} /\ thread' = {}
        /\ UNCHANGED received
    BY <1>23 DEF Reload, Fault, TypeOK
  <2>2. /\ buffer' \subseteq Seqs /\ fetches' \subseteq Fetches
        /\ thread' \subseteq received' /\ due' \in 0 .. MaxSeq
        /\ frames' \subseteq Frames /\ asks' \subseteq Seqs
    BY <1>21, <2>1, DeliveryAssumption
  <2> QED
    BY <1>21, <2>1, <2>2 DEF TypeOK, store
<1>24. CASE UNCHANGED vars
  BY <1>24 DEF vars, TypeOK
<1> QED
  BY <1>1, <1>2, <1>3, <1>4, <1>5, <1>6, <1>7, <1>8, <1>9, <1>10, <1>11,
     <1>12, <1>13, <1>14, <1>15, <1>16, <1>17, <1>18, <1>19, <1>22, <1>23,
     <1>24 DEF Next, Sender, Server, Tab

-----------------------------------------------------------------------------
(* What is stored stays stored, what was received stays received.          *)
LEMMA Grows ==
    ASSUME [Next]_vars
    PROVE  log \subseteq log' /\ received \subseteq received'
<1> USE DEF store, client
<1>1. ASSUME Sender PROVE log \subseteq log' /\ received \subseteq received'
  BY <1>1 DEF Sender, AllocateSeq, Store, Burn, Publish, LosePublish
<1>2. ASSUME Server PROVE log \subseteq log' /\ received \subseteq received'
  BY <1>2 DEF Server, Connect, Join, ReadCursor, Drain, DrainFails, HandleAck,
     AckFails, AckUnheard, HandleAsk, AskFails
<1>3. ASSUME Tab PROVE log \subseteq log' /\ received \subseteq received'
  BY <1>3 DEF Tab, RecvNew, RecvBacklog, TimerFires, FetchReturns, FetchFails,
     Take, Disconnect, Reload, Hangup
<1> QED
  BY <1>1, <1>2, <1>3 DEF Next, vars

(* Only three actions put a frame on the wire.                             *)
LEMMA FramesStep ==
    ASSUME [Next]_vars
    PROVE  \/ frames' \subseteq frames
           \/ \E s \in Seqs : Publish(s)
           \/ Drain
           \/ \E n \in asks : HandleAsk(n)
<1> USE DEF wire
<1>1. ASSUME Sender
      PROVE  frames' \subseteq frames \/ \E s \in Seqs : Publish(s)
  BY <1>1 DEF Sender, AllocateSeq, Store, Burn, LosePublish
<1>2. ASSUME Server
      PROVE  frames' \subseteq frames \/ Drain \/ \E n \in asks : HandleAsk(n)
  BY <1>2 DEF Server, Connect, Join, ReadCursor, DrainFails, HandleAck,
     AckFails, AckUnheard, AskFails
<1>3. ASSUME Tab PROVE frames' \subseteq frames
  BY <1>3 DEF Tab, RecvNew, RecvBacklog, TimerFires, FetchReturns, FetchFails,
     Disconnect, Reload, Hangup
<1> QED
  BY <1>1, <1>2, <1>3 DEF Next, vars

LEMMA FramesStoredInductive ==
    ASSUME DeliveryInv, [Next]_vars
    PROVE  FramesStored'
<1>1. log \subseteq log'
  BY Grows
<1>2. FramesStored /\ TypeOK
  BY DEF DeliveryInv
<1>3. CASE frames' \subseteq frames
  BY <1>1, <1>2, <1>3 DEF FramesStored
<1>4. ASSUME NEW s \in Seqs, Publish(s) PROVE FramesStored'
  <2>1. s \in log
    BY <1>2, <1>4 DEF Publish, TypeOK
  <2>2. \A f \in frames' \ frames : /\ f.seqs = {s}
                                    /\ ~ f.more
    BY <1>4 DEF Publish
  <2> QED
    BY <1>1, <1>2, <2>1, <2>2 DEF FramesStored
<1>5. ASSUME NEW n \in 0 .. MaxSeq, SendPage(n) PROVE FramesStored'
  BY <1>1, <1>2, <1>5, SendPageFact DEF FramesStored
<1>6. Drain => drainFrom \in 0 .. MaxSeq /\ SendPage(drainFrom)
  BY <1>2 DEF Drain, TypeOK
<1>7. \A n \in asks : HandleAsk(n) => n \in 0 .. MaxSeq /\ SendPage(n)
  BY <1>2 DEF HandleAsk, TypeOK, Seqs
<1> QED
  BY <1>3, <1>4, <1>5, <1>6, <1>7, FramesStep

(* An acknowledgement is created from a received message, and only moves   *)
(* between the timer, the buffer and the wire afterwards.                  *)
LEMMA AcksBackedInductive ==
    ASSUME DeliveryInv, [Next]_vars
    PROVE  AcksBacked'
<1> USE DEF DeliveryInv
<1>1. received \subseteq received'
  BY Grows
<1>2. CASE Connect
  BY <1>1, <1>2 DEF Connect, AcksBacked, client
<1>3. ASSUME NEW f \in frames, RecvNew(f) PROVE AcksBacked'
  <2>1. f.seqs \union {due} \in SUBSET (0 .. MaxSeq)
    <3>1. f.seqs \subseteq Seqs
      BY LogBounded DEF FramesStored
    <3> QED
      BY <3>1 DEF TypeOK, Seqs
  <2>2. due' \in f.seqs \union {due}
    BY <1>3, <2>1, HighestFact, DeliveryAssumption DEF RecvNew
  <2>3. f.seqs \subseteq received'
    BY <1>3 DEF RecvNew, Take
  <2> QED
    BY <1>1, <1>3, <2>2, <2>3 DEF RecvNew, AcksBacked
<1>4. ASSUME NEW f \in frames, RecvBacklog(f) PROVE AcksBacked'
  <2>1. f.seqs \in SUBSET (0 .. MaxSeq) /\ f.seqs # {}
    <3>1. f.seqs \subseteq Seqs /\ f.seqs # {}
      BY LogBounded DEF FramesStored
    <3> QED
      BY <3>1 DEF Seqs
  <2>2. Highest(f.seqs) \in received'
    BY <1>4, <2>1, HighestFact, DeliveryAssumption DEF RecvBacklog, Take
  <2>3. \A k \in acks' : k \in acks \/ k.upTo = Highest(f.seqs)
    BY <1>4 DEF RecvBacklog
  <2> QED
    BY <1>1, <1>4, <2>2, <2>3 DEF RecvBacklog, AcksBacked
<1>5. CASE TimerFires
  <2>1. due \in received
    BY <1>5 DEF TimerFires, AcksBacked, TypeOK
  <2>2. \A k \in acks' : k \in acks \/ k.upTo = due
    BY <1>5 DEF TimerFires
  <2>3. buffer' \subseteq buffer \union {due} /\ due' = 0
    BY <1>5 DEF TimerFires
  <2> QED
    BY <1>1, <2>1, <2>2, <2>3 DEF AcksBacked
<1>6. ASSUME Hangup PROVE \A k \in acks' : k.upTo \in received
  BY <1>6 DEF Hangup, AcksBacked
<1>7. CASE Disconnect
  BY <1>1, <1>6, <1>7 DEF Disconnect, AcksBacked, client
<1>8. CASE Reload
  BY <1>1, <1>6, <1>8 DEF Reload, AcksBacked
<1>9. ASSUME acks' \subseteq acks, buffer' = buffer, due' = due
      PROVE  AcksBacked'
  BY <1>1, <1>9 DEF AcksBacked
<1>10. CASE Sender
  BY <1>9, <1>10 DEF Sender, AllocateSeq, Store, Burn, Publish, LosePublish,
     wire, client
<1>11. CASE Server
  <2>1. CASE \/ Join \/ ReadCursor \/ Drain \/ DrainFails
             \/ \E n \in asks : HandleAsk(n) \/ AskFails(n)
    BY <1>9, <2>1 DEF Join, ReadCursor, Drain, DrainFails, HandleAsk, AskFails,
       wire, client
  <2>2. ASSUME NEW k \in acks, HandleAck(k) \/ AckFails(k) \/ AckUnheard(k)
        PROVE  AcksBacked'
    <3>1. acks' \subseteq acks /\ buffer' = buffer /\ due' = due
      BY <2>2 DEF HandleAck, AckFails, AckUnheard, Acknowledged, client
    <3> QED
      BY <1>9, <3>1
  <2> QED
    BY <1>2, <1>11, <2>1, <2>2 DEF Server
<1>12. CASE \E f \in fetches : FetchReturns(f) \/ FetchFails(f)
  BY <1>9, <1>12 DEF FetchReturns, FetchFails, wire
<1>13. CASE UNCHANGED vars
  BY <1>9, <1>13 DEF vars
<1> QED
  BY <1>3, <1>4, <1>5, <1>7, <1>8, <1>10, <1>11, <1>12, <1>13 DEF Next, Tab

(* The cursor moves only forward, and only to an acknowledged number.      *)
LEMMA WatermarkStep ==
    ASSUME DeliveryInv, [Next]_vars
    PROVE  /\ watermark' >= watermark
           /\ \/ watermark' = watermark
              \/ \E k \in acks : HandleAck(k) /\ watermark' = k.upTo
<1> USE DEF DeliveryInv, session, wire, client
<1>1. watermark \in Nat
  BY DEF TypeOK
<1>2. ASSUME NEW k \in acks, HandleAck(k)
      PROVE  /\ watermark' >= watermark
             /\ watermark' = watermark \/ watermark' = k.upTo
  BY <1>1, <1>2 DEF HandleAck, TypeOK, Acks, Seqs
<1>3. ASSUME Sender PROVE watermark' = watermark
  BY <1>3 DEF Sender, AllocateSeq, Store, Burn, Publish, LosePublish
<1>4. ASSUME Server, \A k \in acks : ~ HandleAck(k)
      PROVE  watermark' = watermark
  BY <1>4 DEF Server, Connect, Join, ReadCursor, Drain, DrainFails, AckFails,
     AckUnheard, HandleAsk, AskFails
<1>5. ASSUME Tab PROVE watermark' = watermark
  BY <1>5 DEF Tab, RecvNew, RecvBacklog, TimerFires, FetchReturns, FetchFails,
     Disconnect, Reload, Hangup
<1> QED
  BY <1>1, <1>2, <1>3, <1>4, <1>5 DEF Next, vars

LEMMA WatermarkBackedInductive ==
    ASSUME DeliveryInv, [Next]_vars
    PROVE  WatermarkBacked'
BY WatermarkStep, Grows DEF DeliveryInv, WatermarkBacked, AcksBacked

-----------------------------------------------------------------------------
(* Join before drain.                                                      *)
Covered(s) == s \in thread \union unsent \union silent \/ InFrames(s) \/ Ahead(s)

(* A step that takes nothing away leaves every covered message covered.    *)
LEMMA StaysCovered ==
    ASSUME NEW s, Covered(s),
           thread \subseteq thread', unsent \subseteq unsent',
           silent \subseteq silent', frames \subseteq frames',
           acks \subseteq acks', asks \subseteq asks'
    PROVE  Covered(s)'
BY DEF Covered, InFrames, Ahead

(* Frames, acknowledgements and requests are handed on, never dropped:     *)
(* a request becomes a page, ...                                           *)
LEMMA PageCovers ==
    ASSUME TypeOK, NEW n \in 0 .. MaxSeq, SendPage(n), NEW s \in log, s > n
    PROVE  Covered(s)'
<1>1. PICK f \in frames' : \/ s \in f.seqs
                           \/ f.more /\ Highest(f.seqs) < s
  BY SendPageFact
<1> QED
  BY <1>1 DEF Covered, InFrames, Ahead

(* ... a page becomes messages of the thread and an acknowledgement, ...   *)
LEMMA TakeCovers ==
    ASSUME DeliveryInv, NEW f \in frames, NEW s, Covered(s),
           RecvNew(f) \/ RecvBacklog(f)
    PROVE  Covered(s)'
<1>1. /\ thread' = thread \union f.seqs
      /\ unsent' = unsent /\ silent' = silent /\ asks' = asks
      /\ frames' = frames \ {f}
      /\ acks \subseteq acks'
  BY DEF RecvNew, RecvBacklog, Take, store
<1>2. CASE s \in f.seqs
  BY <1>1, <1>2 DEF Covered
<1>3. CASE f.more /\ Highest(f.seqs) < s
  <2>1. RecvBacklog(f)
    BY <1>3 DEF DeliveryInv, FramesStored, RecvNew
  <2>2. [upTo |-> Highest(f.seqs), more |-> f.more] \in acks'
    BY <2>1 DEF RecvBacklog
  <2> QED
    BY <1>3, <2>2 DEF Covered, Ahead
<1>4. CASE s \notin f.seqs /\ ~ (f.more /\ Highest(f.seqs) < s)
  BY <1>1, <1>4 DEF Covered, InFrames, Ahead
<1> QED
  BY <1>2, <1>3, <1>4

(* ... and an acknowledgement that promises more becomes a request.        *)
LEMMA AckCovers ==
    ASSUME NEW k \in acks, NEW s, Covered(s), HandleAck(k) \/ AckFails(k)
    PROVE  Covered(s)'
<1>1. /\ UNCHANGED <<thread, unsent, silent, frames>>
      /\ acks' = acks \ {k}
      /\ asks \subseteq asks'
      /\ k.more => k.upTo \in asks'
  BY DEF HandleAck, AckFails, Acknowledged, store, client
<1>2. CASE k.more /\ k.upTo < s
  BY <1>1, <1>2 DEF Covered, Ahead
<1>3. CASE ~ (k.more /\ k.upTo < s)
  BY <1>1, <1>3 DEF Covered, InFrames, Ahead
<1> QED
  BY <1>2, <1>3

LEMMA SessionCoversLogInductive ==
    ASSUME DeliveryInv, [Next]_vars
    PROVE  SessionCoversLog'
<1> SUFFICES ASSUME sess' = "live", ~ gaveUp', NEW s \in log', s > drainFrom'
             PROVE  Covered(s)'
  BY DEF SessionCoversLog, Covered
<1> USE DEF store, session, wire, client
<1>1. CASE Drain
  <2>1. /\ drainFrom \in 0 .. MaxSeq /\ TypeOK /\ SendPage(drainFrom)
        /\ s \in log /\ s > drainFrom
    BY <1>1 DEF DeliveryInv, TypeOK, Drain
  <2> QED
    BY <2>1, PageCovers
<1>2. ASSUME sess = "live", ~ gaveUp, drainFrom' = drainFrom, s \in log
      PROVE  Covered(s)
  BY <1>2 DEF DeliveryInv, SessionCoversLog, Covered
<1>3. CASE AllocateSeq \/ \E t \in Seqs : Burn(t)
  BY <1>2, <1>3, StaysCovered DEF AllocateSeq, Burn
<1>4. ASSUME NEW t \in Seqs, Store(t) PROVE Covered(s)'
  <2>1. CASE s = t
    BY <1>4, <2>1 DEF Store, Covered
  <2>2. CASE s # t
    BY <1>2, <1>4, <2>2, StaysCovered DEF Store
  <2> QED
    BY <2>1, <2>2
<1>5. ASSUME NEW t \in Seqs, Publish(t) PROVE Covered(s)'
  <2>1. /\ Covered(s)
        /\ frames' = frames \union {[kind |-> "new", seqs |-> {t}, more |-> FALSE]}
        /\ unsent' = unsent \ {t}
        /\ UNCHANGED <<thread, silent, acks, asks>>
    BY <1>2, <1>5 DEF Publish, Joined
  <2>2. CASE s = t
    <3> DEFINE f == [kind |-> "new", seqs |-> {t}, more |-> FALSE]
    <3>1. f \in frames' /\ s \in f.seqs
      BY <2>1, <2>2
    <3> QED
      BY <3>1 DEF Covered, InFrames
  <2>3. CASE s # t
    BY <2>1, <2>3 DEF Covered, InFrames, Ahead
  <2> QED
    BY <2>2, <2>3
<1>6. ASSUME NEW t \in Seqs, LosePublish(t) PROVE Covered(s)'
  <2>1. Covered(s)
    BY <1>2, <1>6 DEF LosePublish
  <2> QED
    BY <1>6, <2>1 DEF LosePublish, Covered, InFrames, Ahead
<1>7. CASE Connect \/ Join \/ ReadCursor \/ DrainFails \/ Disconnect \/ Reload
  BY <1>7 DEF Connect, Join, ReadCursor, DrainFails, Disconnect, Reload, Hangup
<1>8. ASSUME NEW k \in acks, HandleAck(k) \/ AckFails(k) PROVE Covered(s)'
  <2>1. Covered(s)
    BY <1>2, <1>8 DEF HandleAck, AckFails
  <2> QED
    BY <1>8, <2>1, AckCovers
<1>9. ASSUME NEW k \in acks, AckUnheard(k) PROVE Covered(s)'
  BY <1>9 DEF AckUnheard
<1>10. ASSUME NEW n \in asks, HandleAsk(n) PROVE Covered(s)'
  <2>1. /\ Covered(s) /\ s \in log
        /\ n \in 0 .. MaxSeq /\ TypeOK /\ SendPage(n)
        /\ asks' = asks \ {n}
        /\ UNCHANGED <<thread, unsent, silent, acks>>
    BY <1>2, <1>10 DEF HandleAsk, DeliveryInv, TypeOK, Seqs
  <2>2. CASE s > n
    BY <2>1, <2>2, PageCovers
  <2>3. CASE ~ (s > n)
    <3>1. frames \subseteq frames'
      BY <2>1, SendPageFact
    <3>2. ~ (n < s)
      BY <2>3
    <3> QED
      BY <2>1, <3>1, <3>2 DEF Covered, InFrames, Ahead
  <2> QED
    BY <2>2, <2>3
<1>11. ASSUME NEW n \in asks, AskFails(n) PROVE Covered(s)'
  BY <1>11 DEF AskFails
<1>12. ASSUME NEW f \in frames, RecvNew(f) \/ RecvBacklog(f)
       PROVE  Covered(s)'
  <2>1. Covered(s)
    BY <1>2, <1>12 DEF RecvNew, RecvBacklog
  <2> QED
    BY <1>12, <2>1, TakeCovers
<1>13. CASE TimerFires
  <2>1. Covered(s)
    BY <1>2, <1>13 DEF TimerFires
  <2>2. acks \subseteq acks'
    BY <1>13 DEF TimerFires
  <2> QED
    BY <1>13, <2>1, <2>2, StaysCovered DEF TimerFires
<1>14. ASSUME NEW f \in fetches, FetchReturns(f) \/ FetchFails(f)
       PROVE  Covered(s)'
  BY <1>2, <1>14, StaysCovered DEF FetchReturns, FetchFails, Take
<1>15. CASE UNCHANGED vars
  BY <1>2, <1>15, StaysCovered DEF vars
<1> QED
  BY <1>1, <1>3, <1>4, <1>5, <1>6, <1>7, <1>8, <1>9, <1>10, <1>11, <1>12,
     <1>13, <1>14, <1>15 DEF Next, Sender, Server, Tab

-----------------------------------------------------------------------------
(* The invariant: type correctness, what frames and acknowledgements stand *)
(* for, and the two promises below.                                        *)
THEOREM DeliveryInvariant == Spec => []DeliveryInv
<1>1. DeliveryInv /\ [Next]_vars => DeliveryInv'
  BY TypeInductive, FramesStoredInductive, AcksBackedInductive,
     WatermarkBackedInductive, SessionCoversLogInductive DEF DeliveryInv
<1> QED
  BY InitInv, <1>1, PTL DEF Spec

(* Every reachable state is typed: numbers are allocated before they are   *)
(* stored, and only stored messages are emitted, received or held.         *)
THEOREM DeliveryTypeCorrect == Spec => []TypeOK
<1>1. DeliveryInv => TypeOK
  BY DEF DeliveryInv
<1> QED
  BY <1>1, DeliveryInvariant, PTL

(* The cursor stands on a message some tab of the member received.         *)
THEOREM CursorNeverAhead == Spec => []WatermarkBacked
<1>1. DeliveryInv => WatermarkBacked
  BY DEF DeliveryInv
<1> QED
  BY <1>1, DeliveryInvariant, PTL

(* Only HandleAck moves the cursor, up and onto a received message, and    *)
(* nothing else that a tab receives moves it.                              *)
LEMMA CursorStep ==
    ASSUME DeliveryInv, [Next]_vars
    PROVE  [Cursor!Next]_<<watermark, received>>
<1>1. received \subseteq received'
  BY Grows
<1>2. CASE watermark' = watermark
  BY <1>1, <1>2 DEF Cursor!Next, Cursor!Give
<1>3. ASSUME NEW k \in acks, HandleAck(k)
      PROVE  [Cursor!Next]_<<watermark, received>>
  <2>1. k.upTo \in received /\ received' = received
    BY <1>3 DEF DeliveryInv, AcksBacked, HandleAck, client
  <2> QED
    BY <1>3, <2>1 DEF HandleAck, Cursor!Next, Cursor!Advance
<1> QED
  BY <1>2, <1>3, WatermarkStep

(* Whatever order acknowledgements are handled in, the delivery cursor     *)
(* keeps the promise of HighWaterMark.                                     *)
THEOREM DeliveryImplementsHighWaterMark == Spec => ImplementsHighWaterMark
<1>1. Init => Cursor!Init
  BY DEF Init, Cursor!Init
<1>2. DeliveryInv /\ [Next]_vars => [Cursor!Next]_<<watermark, received>>
  BY CursorStep
<1> QED
  BY <1>1, <1>2, DeliveryInvariant, PTL
  DEF Spec, ImplementsHighWaterMark, Cursor!Spec

(* Between the drained backlog and the live stream nothing is missed.      *)
THEOREM DrainMeetsLiveStream == Spec => []SessionCoversLog
<1>1. DeliveryInv => SessionCoversLog
  BY DEF DeliveryInv
<1> QED
  BY <1>1, DeliveryInvariant, PTL

(* The senders this module is checked with keep the rules of MessageLog,   *)
(* which SendPath implements.                                              *)
LEMMA MessageLogStep ==
    ASSUME TypeOK, [Next]_vars
    PROVE  [Numbers!Next]_<<nextSeq, allocated, log>>
<1> USE DEF Numbers!Next
<1>1. CASE AllocateSeq
  BY <1>1 DEF AllocateSeq, Numbers!Allocate
<1>2. ASSUME NEW s \in Seqs, Store(s) PROVE Numbers!Next
  BY <1>2 DEF Store, Numbers!Store
<1>3. ASSUME NEW s \in Seqs, Burn(s) PROVE Numbers!Next
  BY <1>3 DEF Burn, Numbers!GiveUp
<1>4. ASSUME NEW s \in Seqs, Publish(s) \/ LosePublish(s)
      PROVE  UNCHANGED <<nextSeq, allocated, log>>
  BY <1>4 DEF Publish, LosePublish
<1>5. CASE Server
  BY <1>5 DEF Server, Connect, Join, ReadCursor, Drain, DrainFails, HandleAck,
     AckFails, AckUnheard, HandleAsk, AskFails, store
<1>6. CASE Tab
  BY <1>6 DEF Tab, RecvNew, RecvBacklog, TimerFires, FetchReturns, FetchFails,
     Take, Disconnect, Reload, Hangup, store
<1> QED
  BY <1>1, <1>2, <1>3, <1>4, <1>5, <1>6 DEF Next, Sender, vars

(* So what is proved of the member's side holds for senders that do no more *)
(* than MessageLog allows, and Delivery's own are such senders.            *)
THEOREM DeliveryImplementsMessageLog == Spec => ImplementsMessageLog
<1>1. Init => Numbers!Init
  BY DEF Init, Numbers!Init
<1>2. TypeOK /\ [Next]_vars => [Numbers!Next]_<<nextSeq, allocated, log>>
  BY MessageLogStep
<1> QED
  BY <1>1, <1>2, DeliveryTypeCorrect, PTL
  DEF Spec, ImplementsMessageLog, Numbers!Spec

-----------------------------------------------------------------------------
(* Every page lies beyond the number it was asked for from.                *)
LEMMA PageBeyond ==
    ASSUME TypeOK, NEW n \in 0 .. MaxSeq, SendPage(n),
           NEW f \in frames' \ frames
    PROVE  n < Highest(f.seqs)
<1>1. f.seqs # {} /\ f.seqs \subseteq log
  BY SendPageFact
<1>2. f.seqs \subseteq {s \in log : s > n}
  <2> DEFINE docs == {s \in log : s > n}
             old == Oldest(docs, Page)
             frame == [kind |-> "backlog", seqs |-> old,
                       more |-> Cardinality(docs) > Page]
  <2>1. frames' = IF old = {} THEN frames ELSE frames \union {frame}
    BY DEF SendPage, ListUndelivered
  <2>2. frame.seqs = old /\ old \subseteq docs
    BY DEF Oldest
  <2> HIDE DEF frame, old
  <2> QED
    BY <2>1, <2>2
<1>3. f.seqs \in SUBSET (0 .. MaxSeq)
  BY <1>1, LogBounded, DeliveryAssumption DEF Seqs
<1>4. Highest(f.seqs) \in f.seqs
  BY <1>1, <1>3, HighestFact, DeliveryAssumption
<1> QED
  BY <1>2, <1>4

LEMMA PagingStep ==
    ASSUME DeliveryInv, [Next]_vars, NEW p \in Positions' \ Positions
    PROVE  \/ sess = "cursor" /\ sess' = "live" /\ drainFrom < p
           \/ \E n \in asks \ asks' : n < p
<1> DEFINE Goal == \/ sess = "cursor" /\ sess' = "live" /\ drainFrom < p
                   \/ \E n \in asks \ asks' : n < p
<1>0. TypeOK
  BY DEF DeliveryInv
<1>1. \/ \E f \in frames' : f.more /\ p = Highest(f.seqs)
      \/ \E k \in acks' : k.more /\ p = k.upTo
      \/ p \in asks'
  BY DEF Positions
<1>2. ASSUME \A f \in frames' \ frames : ~ f.more,
             \A k \in acks' \ acks : ~ k.more,
             asks' \subseteq asks
      PROVE  FALSE
  BY <1>1, <1>2 DEF Positions
<1>3. CASE AllocateSeq \/ Connect \/ Join \/ ReadCursor \/ DrainFails \/ TimerFires
           \/ UNCHANGED vars
  <2>1. CASE UNCHANGED wire
    BY <1>2, <2>1 DEF wire
  <2>2. CASE Connect
    BY <1>2, <2>2 DEF Connect
  <2>3. CASE TimerFires
    BY <1>2, <2>3 DEF TimerFires
  <2> QED
    BY <1>3, <2>1, <2>2, <2>3 DEF AllocateSeq, Join, ReadCursor, DrainFails, vars,
       wire
<1>4. ASSUME NEW s \in Seqs,
             Store(s) \/ Burn(s) \/ Publish(s) \/ LosePublish(s)
      PROVE  FALSE
  BY <1>2, <1>4 DEF Store, Burn, Publish, LosePublish, wire
<1>5. CASE Drain
  <2>1. drainFrom \in 0 .. MaxSeq /\ SendPage(drainFrom)
    BY <1>0, <1>5 DEF Drain, TypeOK
  <2>2. \E f \in frames' \ frames : p = Highest(f.seqs)
    BY <1>1, <1>5 DEF Drain, Positions
  <2> QED
    BY <1>0, <1>5, <2>1, <2>2, PageBeyond DEF Drain
<1>6. ASSUME NEW k \in acks, HandleAck(k) \/ AckFails(k) \/ AckUnheard(k)
      PROVE  FALSE
  <2>1. frames' = frames /\ acks' \subseteq acks
    BY <1>6 DEF HandleAck, AckFails, AckUnheard, Acknowledged
  <2>2. asks' = asks \/ asks' = IF k.more THEN asks \union {k.upTo} ELSE asks
    BY <1>6 DEF HandleAck, AckFails, AckUnheard, Acknowledged
  <2>3. k.more \in BOOLEAN
    BY <1>0 DEF TypeOK, Acks
  <2>4. CASE asks' = asks
    BY <1>2, <2>1, <2>4
  <2>5. CASE k.more = TRUE /\ asks' = asks \union {k.upTo}
    <3>1. k.upTo \in Positions
      BY <2>5 DEF Positions
    <3>2. Positions' \subseteq Positions \union {k.upTo}
      BY <2>1, <2>5 DEF Positions
    <3> QED
      BY <3>1, <3>2
  <2> QED
    BY <2>2, <2>3, <2>4, <2>5
<1>7. ASSUME NEW n \in asks, HandleAsk(n) PROVE Goal
  <2>1. n \in 0 .. MaxSeq /\ SendPage(n) /\ n \in asks \ asks'
    BY <1>0, <1>7, DeliveryAssumption DEF HandleAsk, TypeOK, Seqs
  <2>2. \E f \in frames' \ frames : p = Highest(f.seqs)
    BY <1>1, <1>7 DEF HandleAsk, Positions
  <2> QED
    BY <1>0, <2>1, <2>2, PageBeyond
<1>8. ASSUME NEW n \in asks, AskFails(n) PROVE FALSE
  BY <1>2, <1>8 DEF AskFails
<1>9. ASSUME NEW f \in frames, RecvNew(f) PROVE FALSE
  BY <1>2, <1>9 DEF RecvNew
<1>10. ASSUME NEW f \in frames, RecvBacklog(f) PROVE FALSE
  <2>1. /\ frames' \subseteq frames /\ asks' = asks
        /\ acks' = acks \union {[upTo |-> Highest(f.seqs), more |-> f.more]}
    BY <1>10 DEF RecvBacklog
  <2> QED
    BY <1>1, <2>1 DEF Positions
<1>11. ASSUME NEW f \in fetches, FetchReturns(f) \/ FetchFails(f) PROVE FALSE
  BY <1>2, <1>11 DEF FetchReturns, FetchFails, wire
<1>12. CASE Disconnect \/ Reload
  <2>1. frames' = {} /\ asks' = {} /\ \A k \in acks' : ~ k.more
    BY <1>12 DEF Disconnect, Reload, Hangup
  <2> QED
    BY <1>1, <2>1
<1> QED
  BY <1>3, <1>4, <1>5, <1>6, <1>7, <1>8, <1>9, <1>10, <1>11, <1>12
  DEF Next, Sender, Server, Tab

(* Paging only goes up: every page that promises another lies beyond the   *)
(* page, or the drain's cursor, that it was asked for from.                *)
THEOREM PagingGoesUp == Spec => PagingAdvances
<1>1. DeliveryInv /\ [Next]_vars
      => \A p \in Positions' \ Positions :
            \/ sess = "cursor" /\ sess' = "live" /\ drainFrom < p
            \/ \E n \in asks \ asks' : n < p
  BY PagingStep
<1> QED
  BY <1>1, DeliveryInvariant, PTL DEF Spec, PagingAdvances
=============================================================================
