--------------------------- MODULE SendPathProofs ---------------------------
(* Theorems about SendPath, for every number of messages, instances, slots *)
(* and faults.                                                             *)
EXTENDS SendPath, TLAPS

AttemptStates == [pc : Phases, seq : 0 .. MaxSeq,
                  host : Instances \union {None}]

LEMMA IdleTyped == Idle \in AttemptStates
BY SendPathAssumption DEF Idle, AttemptStates, Phases

(* Starting attempts keeps the attempts in their type.                     *)
LEMMA EmitTyped ==
    ASSUME TypeOK, NEW ms \in SUBSET Msgs, NEW i \in Instances, Emit(ms, i)
    PROVE  AttemptTypes'
<1> DEFINE sent == {<<m, CHOOSE k \in FreeSlots(m) : TRUE>> : m \in ms}
<1>1. sent \subseteq Attempts
  <2>1. \A m \in ms : (CHOOSE k \in FreeSlots(m) : TRUE) \in FreeSlots(m)
    BY DEF Emit
  <2>2. \A m \in ms : FreeSlots(m) \subseteq Slots
    BY DEF FreeSlots
  <2> QED
    BY <2>1, <2>2 DEF Attempts
<1>2. /\ waiting' = waiting \union sent
      /\ att' = [a \in Attempts |->
                   IF a \in sent THEN [pc |-> "wire", seq |-> 0, host |-> i]
                   ELSE att[a]]
  BY DEF Emit
<1>3. [pc |-> "wire", seq |-> 0, host |-> i] \in AttemptStates
  BY SendPathAssumption DEF AttemptStates, Phases, InFlight
<1> HIDE DEF sent
<1> QED
  BY <1>1, <1>2, <1>3 DEF TypeOK, AttemptTypes, AttemptStates

(* So does answering one.                                                  *)
LEMMA AnswerTyped ==
    ASSUME TypeOK, NEW a \in Attempts, NEW v \in {"acked", "refused"},
           NEW n \in 0 .. MaxSeq, Answer(a, v, n), waiting' = waiting
    PROVE  AttemptTypes'
<1>1. /\ att' \in [Attempts -> AttemptStates]
      /\ a \in waiting => att'[a].pc = v
      /\ \A b \in Attempts \ {a} : att'[b] = att[b]
  BY IdleTyped DEF Answer, TypeOK, AttemptTypes, AttemptStates, Phases, InFlight
<1> QED
  BY <1>1 DEF TypeOK, AttemptTypes, AttemptStates

LEMMA SeverTyped ==
    ASSUME TypeOK, NEW heard, NEW dead, Sever(heard, dead)
    PROVE  AttemptTypes' /\ SocketTypes'
<1>1. \A a \in Attempts : [att[a] EXCEPT !.pc = "entered"] \in AttemptStates
  BY DEF TypeOK, AttemptTypes, AttemptStates, Phases, Running
<1> QED
  BY <1>1, IdleTyped DEF TypeOK, AttemptTypes, SocketTypes, AttemptStates, Sever

LEMMA MarkFailedTyped ==
    ASSUME TypeOK, NEW ms
    PROVE  MarkFailed(ms) \in [Msgs -> {"none", "sending", "queued", "failed"}]
BY DEF TypeOK, ClientTypes, MarkFailed

LEMMA StoredSeqFact ==
    ASSUME NEW m \in Stored
    PROVE  \E d \in log : d.msg = m /\ d.seq = StoredSeq(m)
BY DEF Stored, StoredSeq

LEMMA FaultTyped ==
    ASSUME TypeOK, Fault
    PROVE  faults' \in 0 .. MaxFaults
BY SendPathAssumption DEF TypeOK, Fault

(* What an insert under way would write is a document.                     *)
LEMMA InsertedDoc ==
    ASSUME TypeOK, NumbersFresh, NEW a \in Attempts, att[a].pc = "allocated"
    PROVE  [msg |-> a[1], seq |-> att[a].seq] \in Docs
BY SendPathAssumption DEF TypeOK, ServerTypes, NumbersFresh, Docs, Attempts

LEMMA InitInv == Init => SendInv
<1> SUFFICES ASSUME Init PROVE SendInv
  OBVIOUS
<1>1. TypeOK
  BY SendPathAssumption
     DEF Init, TypeOK, ClientTypes, SocketTypes, AttemptTypes, ServerTypes,
         Idle, Phases, Docs
<1>2. log = {} /\ thread = {} /\ composed = {} /\ Stored = {}
  BY DEF Init, Stored
<1>3. \A a \in Attempts : att[a].pc = "idle"
  BY DEF Init, Idle
<1>4. \A m \in Msgs : casts[m] = 0 /\ before[m] = {}
  BY DEF Init
<1> QED
  BY <1>1, <1>2, <1>3, <1>4
     DEF Init, SendInv, CallbacksHere, NumbersFresh, Provenance, HandlersKnow, Announced,
         ExactlyOnce, CausalOrder, ConfirmedIsCommitted, Promise!ExactlyOnce,
         Promise!CausalOrder, Promise!ConfirmedIsCommitted, ThreadMatchesLog,
         RenderedOnce, AnnouncedOnce

(* Types: one step per action.                                             *)
LEMMA TypeStep ==
    ASSUME TypeOK, CallbacksHere, HandlersKnow, NumbersFresh, [Next]_vars
    PROVE  TypeOK'
<1> USE SendPathAssumption
<1> USE DEF TypeOK
<1>1. ASSUME NEW m \in Msgs, Compose(m) PROVE TypeOK'
  <2>1. ClientTypes'
    BY <1>1 DEF Compose, Enqueue, ClientTypes, ServerTypes
  <2>2. AttemptTypes'
    <3>1. CASE conn = "down"
      BY <1>1, <3>1 DEF Compose, AttemptTypes
    <3>2. CASE conn # "down"
      BY <1>1, <3>2, EmitTyped DEF Compose, SocketTypes
    <3> QED
      BY <3>1, <3>2
  <2> QED
    BY <1>1, <2>1, <2>2 DEF Compose, server, SocketTypes, ServerTypes
<1>2. ASSUME NEW i \in Instances, Connect(i) PROVE TypeOK'
  <2>1. AttemptTypes'
    BY <1>2, EmitTyped DEF Connect, ClientTypes
  <2> QED
    BY <1>2, <2>1 DEF Connect, client, server, ClientTypes, SocketTypes, ServerTypes
<1>3. CASE RetryFailed
  <2>1. AttemptTypes'
    BY <1>3, EmitTyped DEF RetryFailed, ClientTypes, SocketTypes
  <2> QED
    BY <1>3, <2>1 DEF RetryFailed, client, server, ClientTypes, SocketTypes,
                      ServerTypes
<1>3r. CASE RetryOffline
  BY <1>3r DEF RetryOffline, server, ClientTypes, SocketTypes, ServerTypes,
               AttemptTypes
<1>4. CASE SetupDone
  BY <1>4 DEF SetupDone, client, server, ClientTypes, SocketTypes, ServerTypes,
              AttemptTypes
<1>5. CASE WindowReset
  BY <1>5 DEF WindowReset, client, ClientTypes, SocketTypes, ServerTypes,
              AttemptTypes
<1>6. ASSUME NEW a \in Attempts, Handler(a) PROVE TypeOK'
  <2>1. AttemptTypes'
    <3>1. CASE Arrive(a)
      BY <3>1 DEF Arrive, AttemptTypes, Phases, InFlight, Running
    <3>2. CASE Admit(a)
      <4>1. CASE used < RateLimit
        BY <3>2, <4>1 DEF Admit, AttemptTypes, Phases, Running
      <4>2. CASE ~(used < RateLimit)
        BY <3>2, <4>2, AnswerTyped DEF Admit
      <4> QED
        BY <4>1, <4>2
    <3>3. CASE Allocate(a)
      <4>1. CASE nextSeq <= MaxSeq
        BY <3>3, <4>1 DEF Allocate, AttemptTypes, ServerTypes, Phases, Running
      <4>2. CASE ~(nextSeq <= MaxSeq)
        BY <3>3, <4>2, AnswerTyped DEF Allocate
      <4> QED
        BY <4>1, <4>2
    <3>4. CASE Insert(a)
      BY <3>4 DEF Insert, AttemptTypes, Phases, Running
    <3>5. CASE AnswerDuplicate(a)
      <4>1. StoredSeq(a[1]) \in 0 .. MaxSeq
        <5>1. a[1] \in Stored
          BY <3>5 DEF AnswerDuplicate, HandlersKnow
        <5>2. PICK d \in log : d.seq = StoredSeq(a[1])
          BY <5>1, StoredSeqFact
        <5> QED
          BY <5>2 DEF ServerTypes, Docs
      <4> QED
        BY <3>5, <4>1, AnswerTyped DEF AnswerDuplicate
    <3>6. CASE Publish(a)
      <4>1. att[a].seq \in 0 .. MaxSeq
        BY DEF AttemptTypes
      <4> QED
        BY <3>6, <4>1, AnswerTyped DEF Publish
    <3> QED
      BY <1>6, <3>1, <3>2, <3>3, <3>4, <3>5, <3>6 DEF Handler
  <2>2. ServerTypes'
    <3>1. CASE Arrive(a) \/ AnswerDuplicate(a)
      BY <3>1 DEF Arrive, AnswerDuplicate, server, ServerTypes
    <3>2. CASE Admit(a) \/ Allocate(a)
      BY <3>2 DEF Admit, Allocate, ServerTypes
    <3>3. CASE Insert(a)
      <4>1. CASE a[1] \in Stored
        BY <3>3, <4>1 DEF Insert, ServerTypes
      <4>2. CASE a[1] \notin Stored
        <5>1. [msg |-> a[1], seq |-> att[a].seq] \in Docs
          BY <3>3, InsertedDoc DEF Insert
        <5> QED
          BY <3>3, <4>2, <5>1 DEF Insert, ServerTypes
      <4> QED
        BY <4>1, <4>2
    <3>4. CASE Publish(a)
      BY <3>4 DEF Publish, ServerTypes, Attempts
    <3> QED
      BY <1>6, <3>1, <3>2, <3>3, <3>4 DEF Handler
  <2>3. ClientTypes' /\ SocketTypes' /\ faults' = faults
    BY <1>6 DEF Handler, Arrive, Admit, Allocate, Insert, AnswerDuplicate,
                Publish, client, ClientTypes, SocketTypes
  <2> QED
    BY <2>1, <2>2, <2>3
<1>7. ASSUME NEW a \in Attempts, Callback(a) PROVE TypeOK'
  <2>1. AttemptTypes'
    BY <1>7, IdleTyped DEF Callback, AckReceived, RefusalReceived, Timeout,
                           AttemptTypes, AttemptStates
  <2>2. ClientTypes'
    <3>1. CASE AckReceived(a)
      <4>1. [msg |-> a[1], seq |-> att[a].seq] \in log
        BY <3>1 DEF AckReceived, HandlersKnow
      <4> QED
        BY <3>1, <4>1 DEF AckReceived, ClientTypes, ServerTypes, Attempts
    <3>2. CASE RefusalReceived(a) \/ Timeout(a)
      BY <3>2, MarkFailedTyped DEF RefusalReceived, Timeout, ClientTypes
    <3> QED
      BY <1>7, <3>1, <3>2 DEF Callback
  <2> QED
    BY <1>7, <2>1, <2>2 DEF Callback, AckReceived, RefusalReceived, Timeout,
                            server, SocketTypes, ServerTypes
<1>8. ASSUME NEW a \in Attempts, StoreFault(a) PROVE TypeOK'
  <2>1. AttemptTypes'
    BY <1>8, AnswerTyped
       DEF StoreFault, HandlerError, AllocateReplyLost, InsertReplyLost
  <2>2. ServerTypes'
    <3>1. CASE HandlerError(a) \/ AllocateReplyLost(a)
      BY <3>1
         DEF HandlerError, AllocateReplyLost, server, ServerTypes
    <3>2. CASE InsertReplyLost(a)
      <4>1. [msg |-> a[1], seq |-> att[a].seq] \in Docs
        BY <3>2, InsertedDoc DEF InsertReplyLost
      <4> QED
        BY <3>2, <4>1 DEF InsertReplyLost, ServerTypes
    <3> QED
      BY <1>8, <3>1, <3>2 DEF StoreFault
  <2> QED
    BY <1>8, <2>1, <2>2, FaultTyped
       DEF StoreFault, HandlerError, AllocateReplyLost, InsertReplyLost,
           client, ClientTypes, SocketTypes
<1>9. ASSUME NEW docs \in SUBSET log, Merge(docs) PROVE TypeOK'
  BY <1>9 DEF Merge, server, ClientTypes, SocketTypes, AttemptTypes, ServerTypes
<1>10. CASE Disconnect
  BY <1>10, SeverTyped, MarkFailedTyped, FaultTyped
     DEF Disconnect, server, ClientTypes, ServerTypes
<1>11. CASE Reload
  BY <1>11, SeverTyped, FaultTyped DEF Reload, server, ClientTypes, ServerTypes
<1>12. ASSUME NEW i \in Instances, CrashInstance(i) PROVE TypeOK'
  <2> DEFINE dead == {a \in Attempts : att[a].host = i}
  <2>1. CASE at = i
    BY <1>12, <2>1, SeverTyped, MarkFailedTyped, FaultTyped
       DEF CrashInstance, server, ClientTypes, ServerTypes
  <2>2. CASE at # i
    <3>1. AttemptTypes'
      <4>1. waiting \intersect dead = {}
        BY <2>2 DEF CallbacksHere
      <4> QED
        BY <1>12, <2>2, <4>1, IdleTyped
           DEF CrashInstance, AttemptTypes, AttemptStates
    <3> QED
      BY <1>12, <2>2, <3>1, FaultTyped
         DEF CrashInstance, server, ClientTypes, SocketTypes, ServerTypes
  <2> QED
    BY <2>1, <2>2
<1>13. CASE UNCHANGED vars
  BY <1>13 DEF vars, ClientTypes, SocketTypes, AttemptTypes, ServerTypes
<1> QED
  BY <1>1, <1>2, <1>3, <1>3r, <1>4, <1>5, <1>6, <1>7, <1>8, <1>9, <1>10, <1>11,
     <1>12, <1>13 DEF Next

-----------------------------------------------------------------------------
(* What the steps do to the attempts and the stores, so that each invariant *)
(* need only look at the steps that matter to it.                          *)

(* No attempt enters a phase in which it holds a number or an answer.      *)
Quiet ==
    \A b \in Attempts :
        \/ att'[b] = att[b]
        \/ /\ att'[b].pc \notin {"allocated", "collided", "stored", "acked"}
           /\ att'[b].pc # "idle" => att[b].pc # "idle" \/ b[1] \in composed'

SameRecord == composed' = composed /\ before' = before

Calm ==
    /\ Quiet
    /\ log' = log /\ casts' = casts
    /\ \/ nextSeq' = nextSeq
       \/ /\ nextSeq' = nextSeq + 1
          /\ \A b \in Attempts : att[b].pc = "allocated" => att'[b] = att[b]

LEMMA EmitQuiet ==
    ASSUME NEW ms \in SUBSET composed', NEW i, Emit(ms, i)
    PROVE  Quiet
<1> DEFINE sent == {<<m, CHOOSE k \in FreeSlots(m) : TRUE>> : m \in ms}
<1>1. att' = [a \in Attempts |->
                IF a \in sent THEN [pc |-> "wire", seq |-> 0, host |-> i]
                ELSE att[a]]
  BY DEF Emit
<1>2. \A b \in sent : b[1] \in composed'
  OBVIOUS
<1> HIDE DEF sent
<1> QED
  BY <1>1, <1>2 DEF Quiet

LEMMA RefuseQuiet ==
    ASSUME TypeOK, NEW a \in Attempts, Answer(a, "refused", 0),
           att[a].pc # "idle"
    PROVE  Quiet
BY DEF Quiet, Answer, Idle, TypeOK, AttemptTypes

LEMMA SeverQuiet ==
    ASSUME TypeOK, NEW heard, NEW dead, Sever(heard, dead)
    PROVE  Quiet
BY DEF Quiet, Sever, Idle, TypeOK, AttemptTypes

LEMMA StepKinds ==
    ASSUME TypeOK, [Next]_vars
    PROVE  \/ Calm /\ SameRecord
           \/ \E m \in Msgs : Compose(m) /\ Calm
           \/ \E a \in Attempts :
                 \/ Allocate(a) /\ nextSeq <= MaxSeq
                 \/ Insert(a)
                 \/ AnswerDuplicate(a)
                 \/ Publish(a)
                 \/ InsertReplyLost(a)
<1> nextSeq \in Nat
  BY DEF TypeOK, ServerTypes
<1>0. \A a \in Attempts : att' = [att EXCEPT ![a] = Idle] => Quiet
  BY DEF Quiet, Idle, TypeOK, AttemptTypes
<1>1. ASSUME NEW m \in Msgs, Compose(m) PROVE Calm
  <2>1. CASE conn = "down"
    BY <1>1, <2>1 DEF Compose, server, Calm, Quiet
  <2>2. CASE conn # "down"
    BY <1>1, <2>2, EmitQuiet DEF Compose, server, Calm
  <2> QED
    BY <2>1, <2>2
<1>2. ASSUME NEW i \in Instances, Connect(i) PROVE Calm /\ SameRecord
  BY <1>2, EmitQuiet DEF Connect, client, server, Calm, SameRecord, TypeOK,
                         ClientTypes
<1>3. CASE RetryFailed
  BY <1>3, EmitQuiet DEF RetryFailed, client, server, Calm, SameRecord, TypeOK,
                         ClientTypes
<1>4. CASE RetryOffline \/ SetupDone \/ WindowReset
  BY <1>4 DEF RetryOffline, SetupDone, WindowReset, client, server, Calm, Quiet,
              SameRecord
<1>5. ASSUME NEW a \in Attempts, Arrive(a) \/ Admit(a) PROVE Calm /\ SameRecord
  <2>1. CASE Arrive(a)
    BY <2>1 DEF Arrive, client, server, Calm, Quiet, SameRecord, TypeOK,
                AttemptTypes
  <2>2. CASE Admit(a)
    <3>1. CASE used < RateLimit
      BY <2>2, <3>1 DEF Admit, client, Calm, Quiet, SameRecord, TypeOK,
                        AttemptTypes
    <3>2. CASE ~(used < RateLimit)
      BY <2>2, <3>2, RefuseQuiet DEF Admit, client, Calm, SameRecord
    <3> QED
      BY <3>1, <3>2
  <2> QED
    BY <1>5, <2>1, <2>2
<1>6. ASSUME NEW a \in Attempts, Allocate(a), ~(nextSeq <= MaxSeq)
      PROVE  Calm /\ SameRecord
  BY <1>6, RefuseQuiet DEF Allocate, client, Calm, SameRecord
<1>7. ASSUME NEW a \in Attempts, Callback(a) PROVE Calm /\ SameRecord
  BY <1>7, <1>0 DEF Callback, AckReceived, RefusalReceived, Timeout, server,
                    Calm, SameRecord, Quiet
<1>8. ASSUME NEW a \in Attempts, HandlerError(a) \/ AllocateReplyLost(a)
      PROVE  Calm /\ SameRecord
  <2>1. CASE HandlerError(a)
    BY <2>1, RefuseQuiet DEF HandlerError, client, server, Calm, SameRecord
  <2>2. CASE AllocateReplyLost(a)
    <3>1. \A b \in Attempts : att[b].pc = "allocated" => att'[b] = att[b]
      BY <2>2 DEF AllocateReplyLost, Answer, TypeOK, AttemptTypes
    <3> QED
      BY <2>2, <3>1, RefuseQuiet DEF AllocateReplyLost, client, Calm, SameRecord
  <2> QED
    BY <1>8, <2>1, <2>2
<1>9. ASSUME NEW docs, Merge(docs) PROVE Calm /\ SameRecord
  BY <1>9 DEF Merge, server, Calm, SameRecord, Quiet
<1>10. CASE Disconnect \/ Reload
  BY <1>10, SeverQuiet DEF Disconnect, Reload, server, Calm, SameRecord
<1>11. ASSUME NEW i \in Instances, CrashInstance(i) PROVE Calm /\ SameRecord
  <2>1. CASE at = i
    BY <1>11, <2>1, SeverQuiet DEF CrashInstance, server, Calm, SameRecord
  <2>2. CASE at # i
    BY <1>11, <2>2 DEF CrashInstance, server, Calm, SameRecord, Quiet, Idle
  <2> QED
    BY <2>1, <2>2
<1>12. CASE UNCHANGED vars
  BY <1>12 DEF vars, Calm, SameRecord, Quiet
<1> QED
  BY <1>1, <1>2, <1>3, <1>4, <1>5, <1>6, <1>7, <1>8, <1>9, <1>10, <1>11, <1>12
     DEF Next, Handler, StoreFault

-----------------------------------------------------------------------------
(* The steps that change a document set or a number, in usable form.       *)

LEMMA AllocateFact ==
    ASSUME TypeOK, NEW a \in Attempts, Allocate(a), nextSeq <= MaxSeq
    PROVE  /\ att'[a].pc = "allocated" /\ att'[a].seq = nextSeq
           /\ att[a].pc = "admitted"
           /\ \A b \in Attempts \ {a} : att'[b] = att[b]
           /\ nextSeq' = nextSeq + 1
           /\ UNCHANGED <<composed, before, log, casts>>
BY DEF Allocate, client, TypeOK, AttemptTypes

LEMMA DuplicateFact ==
    ASSUME TypeOK, NEW a \in Attempts, AnswerDuplicate(a)
    PROVE  /\ att[a].pc = "collided"
           /\ \/ att'[a].pc = "acked" /\ att'[a].seq = StoredSeq(a[1])
              \/ att'[a].pc = "idle"
           /\ \A b \in Attempts \ {a} : att'[b] = att[b]
           /\ UNCHANGED <<composed, before, nextSeq, log, casts, outbox>>
BY DEF AnswerDuplicate, Answer, Idle, client, server, TypeOK, AttemptTypes

LEMMA PublishFact ==
    ASSUME TypeOK, NEW a \in Attempts, Publish(a)
    PROVE  /\ att[a].pc = "stored"
           /\ \/ att'[a].pc = "acked" /\ att'[a].seq = att[a].seq
              \/ att'[a].pc = "idle"
           /\ \A b \in Attempts \ {a} : att'[b] = att[b]
           /\ casts' = [casts EXCEPT ![a[1]] = @ + 1]
           /\ UNCHANGED <<composed, before, nextSeq, log, outbox>>
BY DEF Publish, Answer, Idle, client, TypeOK, AttemptTypes

(* Both kinds of insert write a document for a message that has none.      *)
Inserted(a) ==
    /\ att[a].pc = "allocated"
    /\ a[1] \notin Stored
    /\ log' = log \union {[msg |-> a[1], seq |-> att[a].seq]}
    /\ att'[a].pc \in {"stored", "refused", "idle"}
    /\ att'[a].pc = "stored" => att'[a].seq = att[a].seq
    /\ \A b \in Attempts \ {a} : att'[b] = att[b]
    /\ UNCHANGED <<composed, before, nextSeq, casts, outbox>>

Collided(a) ==
    /\ att[a].pc = "allocated"
    /\ a[1] \in Stored
    /\ att'[a].pc = "collided"
    /\ \A b \in Attempts \ {a} : att'[b] = att[b]
    /\ UNCHANGED <<composed, before, nextSeq, log, casts, outbox>>

LEMMA InsertFact ==
    ASSUME TypeOK, NEW a \in Attempts, Insert(a)
    PROVE  Inserted(a) \/ Collided(a)
BY DEF Insert, Inserted, Collided, client, TypeOK, AttemptTypes

LEMMA InsertLostFact ==
    ASSUME TypeOK, NEW a \in Attempts, InsertReplyLost(a)
    PROVE  Inserted(a)
BY DEF InsertReplyLost, Inserted, Answer, Idle, client, TypeOK, AttemptTypes

LEMMA StepFacts ==
    ASSUME TypeOK, [Next]_vars
    PROVE  \/ Calm /\ SameRecord
           \/ \E m \in Msgs : Compose(m) /\ Calm
           \/ \E a \in Attempts :
                 \/ Allocate(a) /\ nextSeq <= MaxSeq
                 \/ Inserted(a)
                 \/ Collided(a)
                 \/ AnswerDuplicate(a)
                 \/ Publish(a)
BY StepKinds, InsertFact, InsertLostFact

LEMMA NumbersStep ==
    ASSUME TypeOK, TypeOK', NumbersFresh, [Next]_vars
    PROVE  NumbersFresh'
<1>0. /\ nextSeq \in Nat /\ nextSeq' \in Nat
      /\ \A d \in log : d.seq \in Nat
      /\ \A a \in Attempts : att[a].seq \in Nat /\ att'[a].seq \in Nat
  BY SendPathAssumption DEF TypeOK, ServerTypes, AttemptTypes, Docs
<1>1. CASE Calm
  <2>1. \A b \in Attempts : att'[b].pc = "allocated" => att'[b] = att[b]
    BY <1>1 DEF Calm, Quiet
  <2> QED
    BY <1>0, <1>1, <2>1 DEF Calm, NumbersFresh
<1>2. ASSUME NEW a \in Attempts, Allocate(a), nextSeq <= MaxSeq
      PROVE  NumbersFresh'
  <2>1. /\ log' = log /\ nextSeq' = nextSeq + 1 /\ att'[a].seq = nextSeq
        /\ \A b \in Attempts \ {a} : att'[b] = att[b]
    BY <1>2, AllocateFact
  <2>2. \A d \in log' : d.seq < nextSeq'
    BY <1>0, <2>1 DEF NumbersFresh
  <2>3. ASSUME NEW b \in Attempts, att'[b].pc = "allocated"
        PROVE  /\ att'[b].seq \in 1 .. nextSeq' - 1
               /\ \A d \in log' : d.seq # att'[b].seq
    <3>1. CASE b = a
      BY <1>0, <2>1, <3>1 DEF NumbersFresh, TypeOK, ServerTypes
    <3>2. CASE b # a
      BY <1>0, <2>1, <2>3, <3>2 DEF NumbersFresh
    <3> QED
      BY <3>1, <3>2
  <2>4. ASSUME NEW b \in Attempts, NEW c \in Attempts \ {b},
               att'[b].pc = "allocated", att'[c].pc = "allocated"
        PROVE  att'[c].seq # att'[b].seq
    <3>1. \A e \in Attempts \ {a} :
             att'[e].pc = "allocated" => att'[e].seq < nextSeq
      BY <1>0, <2>1 DEF NumbersFresh
    <3>2. CASE b = a \/ c = a
      BY <1>0, <2>1, <2>4, <3>1, <3>2
    <3>3. CASE b # a /\ c # a
      BY <2>1, <2>4, <3>3 DEF NumbersFresh
    <3> QED
      BY <3>2, <3>3
  <2> QED
    BY <2>2, <2>3, <2>4 DEF NumbersFresh
<1>3. ASSUME NEW a \in Attempts, Inserted(a) PROVE NumbersFresh'
  BY <1>0, <1>3 DEF Inserted, NumbersFresh
<1>4. ASSUME NEW a \in Attempts,
             Collided(a) \/ AnswerDuplicate(a) \/ Publish(a)
      PROVE  NumbersFresh'
  <2>1. /\ nextSeq' = nextSeq /\ log' = log
        /\ \A b \in Attempts : att'[b].pc = "allocated" => att'[b] = att[b]
    BY <1>4, DuplicateFact, PublishFact DEF Collided
  <2> QED
    BY <2>1 DEF NumbersFresh
<1> QED
  BY <1>1, <1>2, <1>3, <1>4, StepFacts

LEMMA ProvenanceStep ==
    ASSUME TypeOK, TypeOK', NumbersFresh, Provenance, [Next]_vars
    PROVE  Provenance'
<1>0. /\ nextSeq \in Nat
      /\ \A d \in log : d.seq \in Nat
      /\ \A a \in Attempts : a[1] \in Msgs
  BY SendPathAssumption DEF TypeOK, ServerTypes, Docs, Attempts
<1>1. CASE Calm /\ SameRecord
  BY <1>1 DEF Calm, SameRecord, Quiet, Provenance, Stored
<1>2. ASSUME NEW m \in Msgs, Compose(m), Calm PROVE Provenance'
  <2>1. /\ composed' = composed \union {m} /\ m \notin composed
        /\ before' = [before EXCEPT ![m] = log]
        /\ log' = log
    BY <1>2 DEF Compose, server
  <2>2. before \in [Msgs -> SUBSET Docs]
    BY DEF TypeOK, ClientTypes
  <2>3. Stored' \subseteq composed'
    BY <2>1 DEF Provenance, Stored
  <2>4. \A b \in Attempts : att'[b].pc # "idle" => b[1] \in composed'
    BY <1>2, <2>1 DEF Calm, Quiet, Provenance
  <2>5. \A n \in Msgs : before'[n] \subseteq log'
    BY <2>1, <2>2 DEF Provenance
  <2>6. \A n \in Msgs \ composed' : before'[n] = {}
    BY <2>1, <2>2 DEF Provenance
  <2>7. ASSUME NEW b \in Attempts, att'[b].pc = "allocated"
        PROVE  \A d \in before'[b[1]] : d.seq < att'[b].seq
    <3>1. att'[b] = att[b]
      BY <1>2, <2>7 DEF Calm, Quiet
    <3>2. b[1] # m
      BY <2>1, <2>7, <3>1 DEF Provenance
    <3> QED
      BY <1>0, <2>1, <2>2, <2>7, <3>1, <3>2 DEF Provenance
  <2> QED
    BY <2>3, <2>4, <2>5, <2>6, <2>7 DEF Provenance
<1>3. ASSUME NEW a \in Attempts, Allocate(a), nextSeq <= MaxSeq
      PROVE  Provenance'
  <2>1. \A d \in before[a[1]] : d.seq < nextSeq
    BY <1>0 DEF Provenance, NumbersFresh
  <2> QED
    BY <1>3, <2>1, AllocateFact DEF Provenance, Stored
<1>4. ASSUME NEW a \in Attempts, Inserted(a) PROVE Provenance'
  BY <1>4 DEF Inserted, Provenance, Stored
<1>5. ASSUME NEW a \in Attempts,
             Collided(a) \/ AnswerDuplicate(a) \/ Publish(a)
      PROVE  Provenance'
  <2>1. /\ UNCHANGED <<composed, before, log>>
        /\ \A b \in Attempts : att'[b].pc = "allocated" => att'[b] = att[b]
        /\ \A b \in Attempts : att'[b].pc # "idle" => att[b].pc # "idle"
    BY <1>5, DuplicateFact, PublishFact DEF Collided
  <2> QED
    BY <2>1 DEF Provenance, Stored
<1> QED
  BY <1>1, <1>2, <1>3, <1>4, <1>5, StepFacts

(* The log under the steps: it only grows, by documents of new messages.   *)
LEMMA LogStep ==
    ASSUME TypeOK, [Next]_vars
    PROVE  \/ log' = log
           \/ \E a \in Attempts : Inserted(a)
BY StepFacts, AllocateFact, DuplicateFact, PublishFact DEF Calm, Collided

LEMMA LogStepsStep ==
    ASSUME TypeOK, NumbersFresh, Provenance, ExactlyOnce, CausalOrder,
           [Next]_vars
    PROVE  ExactlyOnce' /\ CausalOrder'
<1> USE DEF ExactlyOnce, CausalOrder, Promise!ExactlyOnce, Promise!CausalOrder
<1>1. ASSUME NEW a \in Attempts, Inserted(a) PROVE ExactlyOnce' /\ CausalOrder'
  <2>1. ExactlyOnce'
    BY <1>1 DEF Inserted, NumbersFresh, Stored
  <2>2. CausalOrder'
    BY <1>1 DEF Inserted, Provenance
  <2> QED
    BY <2>1, <2>2
<1>2. ASSUME NEW m \in Msgs, Compose(m), log' = log
      PROVE  ExactlyOnce' /\ CausalOrder'
  <2>1. \A d \in log : d.msg # m /\ d.msg \in Msgs
    BY <1>2 DEF Compose, Provenance, Stored, TypeOK, ServerTypes, Docs
  <2> QED
    BY <1>2, <2>1 DEF Compose, TypeOK, ClientTypes
<1>3. CASE log' = log /\ before' = before
  BY <1>3
<1> QED
  BY <1>1, <1>2, <1>3, StepFacts, AllocateFact, DuplicateFact, PublishFact
     DEF Calm, SameRecord, Collided

LEMMA HandlersStep ==
    ASSUME TypeOK, HandlersKnow, Announced, AnnouncedOnce, [Next]_vars
    PROVE  HandlersKnow' /\ Announced' /\ AnnouncedOnce'
<1>0. /\ \A a \in Attempts : a[1] \in Msgs
      /\ casts \in [Msgs -> Nat]
  BY DEF TypeOK, ServerTypes, Attempts
<1>1. CASE Calm
  <2>1. \A b \in Attempts :
           att'[b].pc \in {"stored", "acked", "collided"} => att'[b] = att[b]
    BY <1>1 DEF Calm, Quiet
  <2> QED
    BY <1>1, <2>1 DEF Calm, HandlersKnow, Announced, AnnouncedOnce, Stored
<1>2. ASSUME NEW a \in Attempts, Allocate(a), nextSeq <= MaxSeq
      PROVE  HandlersKnow' /\ Announced' /\ AnnouncedOnce'
  BY <1>2, AllocateFact DEF HandlersKnow, Announced, AnnouncedOnce, Stored
<1>3. ASSUME NEW a \in Attempts, Inserted(a)
      PROVE  HandlersKnow' /\ Announced' /\ AnnouncedOnce'
  <2>1. /\ log \subseteq log' /\ casts' = casts
        /\ [msg |-> a[1], seq |-> att[a].seq] \in log'
        /\ \A b \in Attempts \ {a} : att'[b] = att[b]
    BY <1>3 DEF Inserted
  <2>2. Stored \subseteq Stored'
    BY <2>1 DEF Stored
  <2>3. \A b \in Attempts : b[1] = a[1] => att[b].pc # "stored"
    <3> SUFFICES ASSUME NEW b \in Attempts, b[1] = a[1], att[b].pc = "stored"
                 PROVE  FALSE
      OBVIOUS
    <3>1. [msg |-> b[1], seq |-> att[b].seq] \in log
      BY DEF HandlersKnow
    <3>2. b[1] \in Stored
      BY <3>1 DEF Stored
    <3> QED
      BY <1>3, <3>2 DEF Inserted
  <2>4. casts[a[1]] = 0
    BY <1>0, <1>3 DEF Inserted, Announced
  <2>5. ASSUME NEW b \in Attempts
        PROVE  /\ att'[b].pc \in {"stored", "acked"} =>
                      [msg |-> b[1], seq |-> att'[b].seq] \in log'
               /\ att'[b].pc = "collided" => b[1] \in Stored'
    <3>1. CASE b = a
      BY <1>3, <2>1, <3>1 DEF Inserted
    <3>2. CASE b # a
      BY <2>1, <2>2, <3>2 DEF HandlersKnow
    <3> QED
      BY <3>1, <3>2
  <2>6. ASSUME NEW b \in Attempts, att'[b].pc = "stored"
        PROVE  /\ casts'[b[1]] = 0
               /\ \A c \in Attempts \ {b} :
                      c[1] = b[1] => att'[c].pc # "stored"
    <3>1. CASE b = a
      BY <2>1, <2>3, <2>4, <3>1
    <3>2. CASE b # a
      BY <2>1, <2>3, <2>6, <3>2 DEF HandlersKnow
    <3> QED
      BY <3>1, <3>2
  <2>7. HandlersKnow'
    BY <2>5, <2>6 DEF HandlersKnow
  <2> QED
    BY <2>1, <2>2, <2>7 DEF Announced, AnnouncedOnce
<1>4. ASSUME NEW a \in Attempts, Collided(a)
      PROVE  HandlersKnow' /\ Announced' /\ AnnouncedOnce'
  BY <1>4 DEF Collided, HandlersKnow, Announced, AnnouncedOnce, Stored
<1>5. ASSUME NEW a \in Attempts, AnswerDuplicate(a)
      PROVE  HandlersKnow' /\ Announced' /\ AnnouncedOnce'
  <2>1. a[1] \in Stored
    BY <1>5 DEF AnswerDuplicate, HandlersKnow
  <2>2. \E d \in log : d.msg = a[1] /\ d.seq = StoredSeq(a[1])
    BY <2>1, StoredSeqFact
  <2>3. [msg |-> a[1], seq |-> StoredSeq(a[1])] \in log
    BY <2>2 DEF TypeOK, ServerTypes, Docs
  <2> QED
    BY <1>5, <2>3, DuplicateFact
       DEF HandlersKnow, Announced, AnnouncedOnce, Stored
<1>6. ASSUME NEW a \in Attempts, Publish(a)
      PROVE  HandlersKnow' /\ Announced' /\ AnnouncedOnce'
  <2>1. /\ att[a].pc = "stored" /\ casts[a[1]] = 0
        /\ [msg |-> a[1], seq |-> att[a].seq] \in log
        /\ \A b \in Attempts \ {a} : b[1] = a[1] => att[b].pc # "stored"
    BY <1>6, PublishFact DEF HandlersKnow
  <2>2. /\ log' = log
        /\ \A b \in Attempts \ {a} : att'[b] = att[b]
        /\ \A n \in Msgs : casts'[n] = IF n = a[1] THEN 1 ELSE casts[n]
        /\ att'[a].pc \in {"acked", "idle"}
        /\ att'[a].pc = "acked" => att'[a].seq = att[a].seq
    BY <1>0, <1>6, <2>1, PublishFact
  <2>3. a[1] \in Stored
    BY <2>1 DEF Stored
  <2>4. HandlersKnow'
    BY <1>0, <2>1, <2>2 DEF HandlersKnow, Stored
  <2> QED
    BY <1>0, <2>2, <2>3, <2>4 DEF Announced, AnnouncedOnce, Stored
<1> QED
  BY <1>1, <1>2, <1>3, <1>4, <1>5, <1>6, StepFacts

-----------------------------------------------------------------------------
(* The tab.                                                                *)

LEMMA AnswerKeeps ==
    ASSUME TypeOK, NEW a \in Attempts, NEW v, NEW n, Answer(a, v, n)
    PROVE  /\ a \in waiting => att'[a].host = att[a].host
           /\ \A b \in Attempts \ {a} : att'[b] = att[b]
BY DEF Answer, TypeOK, AttemptTypes

LEMMA CallbacksStep ==
    ASSUME TypeOK, TypeOK', CallbacksHere, [Next]_vars
    PROVE  CallbacksHere'
<1>1. ASSUME NEW ms, NEW i, Emit(ms, i), at' = i, i # None, conn' # "down",
             \A a \in waiting : att[a].host = i /\ att[a].pc # "idle"
      PROVE  CallbacksHere'
  <2> DEFINE sent == {<<m, CHOOSE k \in FreeSlots(m) : TRUE>> : m \in ms}
  <2>1. /\ waiting' = waiting \union sent
        /\ att' = [a \in Attempts |->
                     IF a \in sent THEN [pc |-> "wire", seq |-> 0, host |-> i]
                     ELSE att[a]]
    BY <1>1 DEF Emit
  <2>2. waiting' \subseteq Attempts
    BY DEF TypeOK, AttemptTypes
  <2> HIDE DEF sent
  <2> QED
    BY <1>1, <2>1, <2>2 DEF CallbacksHere
<1>2. \A a \in waiting : a \in Attempts /\ att[a].pc # "idle"
  BY DEF TypeOK, AttemptTypes
<1>3. ASSUME NEW m \in Msgs, Compose(m) PROVE CallbacksHere'
  <2>1. CASE conn = "down"
    BY <1>3, <2>1 DEF Compose, CallbacksHere
  <2>2. CASE conn # "down"
    BY <1>1, <1>2, <1>3, <2>2 DEF Compose, CallbacksHere, TypeOK, SocketTypes
  <2> QED
    BY <2>1, <2>2
<1>4. ASSUME NEW i \in Instances, Connect(i) PROVE CallbacksHere'
  BY <1>1, <1>2, <1>4, SendPathAssumption DEF Connect, CallbacksHere
<1>5. CASE RetryFailed
  BY <1>1, <1>2, <1>5 DEF RetryFailed, CallbacksHere, TypeOK, SocketTypes
<1>6. CASE RetryOffline \/ SetupDone \/ WindowReset
  BY <1>6 DEF RetryOffline, SetupDone, WindowReset, CallbacksHere
<1>7. ASSUME NEW a \in Attempts, waiting' \subseteq waiting, conn' = conn,
             at' = at, \A b \in waiting' : att'[b].host = att[b].host
      PROVE  CallbacksHere'
  BY <1>7 DEF CallbacksHere
<1>8. ASSUME NEW a \in Attempts, Handler(a) \/ StoreFault(a)
      PROVE  CallbacksHere'
  <2>1. waiting' = waiting /\ conn' = conn /\ at' = at
    BY <1>8 DEF Handler, Arrive, Admit, Allocate, Insert, AnswerDuplicate,
                Publish, StoreFault, HandlerError, AllocateReplyLost,
                InsertReplyLost
  <2>2. a \in waiting => att'[a].host = att[a].host
    BY <1>8, AnswerKeeps
       DEF Handler, Arrive, Admit, Allocate, Insert, AnswerDuplicate, Publish,
           StoreFault, HandlerError, AllocateReplyLost, InsertReplyLost,
           TypeOK, AttemptTypes
  <2>3. \A b \in Attempts \ {a} : att'[b] = att[b]
    BY <1>8, AnswerKeeps
       DEF Handler, Arrive, Admit, Allocate, Insert, AnswerDuplicate, Publish,
           StoreFault, HandlerError, AllocateReplyLost, InsertReplyLost,
           TypeOK, AttemptTypes
  <2>4. \A b \in waiting' : att'[b].host = att[b].host
    BY <1>2, <2>1, <2>2, <2>3
  <2> QED
    BY <1>7, <2>1, <2>4
<1>9. ASSUME NEW a \in Attempts, Callback(a) PROVE CallbacksHere'
  BY <1>2, <1>9 DEF Callback, AckReceived, RefusalReceived, Timeout,
                    CallbacksHere, TypeOK, AttemptTypes
<1>10. ASSUME NEW docs, Merge(docs) PROVE CallbacksHere'
  BY <1>10 DEF Merge, CallbacksHere
<1>11. CASE Disconnect \/ Reload
  BY <1>11 DEF Disconnect, Reload, Sever, CallbacksHere
<1>12. ASSUME NEW i \in Instances, CrashInstance(i) PROVE CallbacksHere'
  <2>1. CASE at = i
    BY <1>12, <2>1 DEF CrashInstance, Sever, CallbacksHere
  <2>2. CASE at # i
    BY <1>2, <1>12, <2>2 DEF CrashInstance, CallbacksHere
  <2> QED
    BY <2>1, <2>2
<1>13. CASE UNCHANGED vars
  BY <1>13 DEF vars, CallbacksHere
<1> QED
  BY <1>3, <1>4, <1>5, <1>6, <1>8, <1>9, <1>10, <1>11, <1>12, <1>13 DEF Next

(* The three facts about the tab, by what a step may do to the log.        *)
LEMMA TabStep ==
    ASSUME TypeOK, HandlersKnow, Provenance, ConfirmedIsCommitted,
           ThreadMatchesLog, RenderedOnce, [Next]_vars
    PROVE  ConfirmedIsCommitted' /\ ThreadMatchesLog' /\ RenderedOnce'
<1> USE DEF ConfirmedIsCommitted, Promise!ConfirmedIsCommitted, Promise!Committed,
            ThreadMatchesLog, RenderedOnce
<1>0. log \subseteq log'
  BY LogStep DEF Inserted
<1>1. ASSUME UNCHANGED <<composed, outbox, thread, pending>>
      PROVE  ConfirmedIsCommitted' /\ ThreadMatchesLog' /\ RenderedOnce'
  BY <1>0, <1>1
<1>2. ASSUME NEW ms, pending' = MarkFailed(ms),
             UNCHANGED <<composed, outbox, thread>>
      PROVE  ConfirmedIsCommitted' /\ ThreadMatchesLog' /\ RenderedOnce'
  BY <1>0, <1>2 DEF MarkFailed, TypeOK, ClientTypes, Docs
<1>3. ASSUME NEW m \in Msgs, Compose(m)
      PROVE  ConfirmedIsCommitted' /\ ThreadMatchesLog' /\ RenderedOnce'
  <2>1. \A d \in thread : d.msg # m
    BY <1>3 DEF Compose, Provenance, Stored
  <2> QED
    BY <1>0, <1>3, <2>1 DEF Compose, Enqueue, TypeOK, ClientTypes, Docs
<1>4. ASSUME NEW a \in Attempts, AckReceived(a)
      PROVE  ConfirmedIsCommitted' /\ ThreadMatchesLog' /\ RenderedOnce'
  <2>1. [msg |-> a[1], seq |-> att[a].seq] \in log
    BY <1>4 DEF AckReceived, HandlersKnow
  <2>2. /\ composed' = composed /\ outbox' = outbox \ {a[1]}
        /\ thread' = thread \union {[msg |-> a[1], seq |-> att[a].seq]}
        /\ \A n \in Msgs : pending'[n] = IF n = a[1] THEN "none" ELSE pending[n]
    BY <1>4 DEF AckReceived, TypeOK, ClientTypes
  <2>3. ConfirmedIsCommitted'
    <3>1. a[1] \in {d.msg : d \in log'}
      BY <1>0, <2>1
    <3> QED
      BY <1>0, <2>2, <3>1
  <2>4. ThreadMatchesLog' /\ RenderedOnce'
    BY <1>0, <2>1, <2>2 DEF TypeOK, ClientTypes, ServerTypes, Docs
  <2> QED
    BY <2>3, <2>4
<1>5. ASSUME NEW docs, Merge(docs)
      PROVE  ConfirmedIsCommitted' /\ ThreadMatchesLog' /\ RenderedOnce'
  BY <1>0, <1>5 DEF Merge, TypeOK, ClientTypes, ServerTypes, Docs
<1>6. CASE Reload
  BY <1>0, <1>6 DEF Reload
<1>7. ASSUME NEW i \in Instances, Connect(i) \/ CrashInstance(i)
      PROVE  ConfirmedIsCommitted' /\ ThreadMatchesLog' /\ RenderedOnce'
  BY <1>1, <1>2, <1>7 DEF Connect, CrashInstance, client
<1>8. CASE RetryFailed \/ SetupDone \/ WindowReset \/ Disconnect \/ UNCHANGED vars
  BY <1>1, <1>2, <1>8 DEF RetryFailed, SetupDone, WindowReset, Disconnect, client,
                          vars
<1>8r. CASE RetryOffline
  BY <1>0, <1>8r DEF RetryOffline, TypeOK, ClientTypes, ServerTypes, Docs, server
<1>9. ASSUME NEW a \in Attempts, Handler(a) \/ StoreFault(a)
      PROVE  ConfirmedIsCommitted' /\ ThreadMatchesLog' /\ RenderedOnce'
  BY <1>1, <1>9 DEF Handler, Arrive, Admit, Allocate, Insert, AnswerDuplicate,
                    Publish, StoreFault, HandlerError, AllocateReplyLost,
                    InsertReplyLost, client
<1>10. ASSUME NEW a \in Attempts, RefusalReceived(a) \/ Timeout(a)
       PROVE  ConfirmedIsCommitted' /\ ThreadMatchesLog' /\ RenderedOnce'
  BY <1>2, <1>10 DEF RefusalReceived, Timeout
<1> QED
  BY <1>3, <1>4, <1>5, <1>6, <1>7, <1>8, <1>8r, <1>9, <1>10 DEF Next, Callback

-----------------------------------------------------------------------------
(* The inductive invariant holds of every reachable state.                 *)
THEOREM SendInvariant == Spec => []SendInv
<1>1. Init => SendInv
  BY InitInv
<1>2. SendInv /\ [Next]_vars => SendInv'
  <2> SUFFICES ASSUME SendInv, [Next]_vars PROVE SendInv'
    OBVIOUS
  <2>1. TypeOK'
    BY TypeStep DEF SendInv
  <2> QED
    BY <2>1, CallbacksStep, NumbersStep, ProvenanceStep, LogStepsStep,
       HandlersStep, TabStep DEF SendInv
<1> QED
  BY <1>1, <1>2, PTL DEF Spec

(* Every variable keeps its type.                                          *)
THEOREM TypeCorrect == Spec => []TypeOK
BY SendInvariant, PTL DEF SendInv

(* The unique index and the allocator give an exactly-once effect: one     *)
(* document per message, one message per number, for any number of         *)
(* attempts, instances and faults.                                         *)
THEOREM StoredExactlyOnce == Spec => []ExactlyOnce
BY SendInvariant, PTL DEF SendInv

(* Messages are ordered after what was stored when they were written.      *)
THEOREM OrderedAfterCauses == Spec => []CausalOrder
BY SendInvariant, PTL DEF SendInv

(* The outbox never gives up a message the log does not hold.              *)
THEOREM OutboxLosesNothing == Spec => []ConfirmedIsCommitted
BY SendInvariant, PTL DEF SendInv

(* What the tab shows as confirmed is what is stored.                      *)
THEOREM TabShowsTheLog == Spec => []ThreadMatchesLog
BY SendInvariant, PTL DEF SendInv

(* ... and is not a bubble as well, whether its broadcast or its           *)
(* acknowledgement came first.                                             *)
THEOREM ShownOnce == Spec => []RenderedOnce
BY SendInvariant, PTL DEF SendInv

(* No message is broadcast to its room twice.                              *)
THEOREM BroadcastAtMostOnce == Spec => []AnnouncedOnce
BY SendInvariant, PTL DEF SendInv

(* What a bubble that says "sending" waits for.  Enough: every attempt that *)
(* loses its callback tells the bubble.                                    *)
LEMMA AwaitedStep ==
    ASSUME TypeOK, SendingAwaited, [Next]_vars
    PROVE  SendingAwaited'
<1> USE DEF SendingAwaited
<1>1. ASSUME outbox \subseteq outbox', waiting \subseteq waiting',
             pending' = pending
      PROVE  SendingAwaited'
  BY <1>1
<1>2. ASSUME NEW ms, NEW i, Emit(ms, i)
      PROVE  waiting \subseteq waiting' /\ \A m \in ms : \E a \in waiting' : a[1] = m
  <2> DEFINE attempt(m) == <<m, CHOOSE k \in FreeSlots(m) : TRUE>>
             sent == {attempt(m) : m \in ms}
  <2>1. waiting' = waiting \union sent
    BY <1>2 DEF Emit
  <2>2. \A m \in ms : attempt(m) \in sent /\ attempt(m)[1] = m
    OBVIOUS
  <2> HIDE DEF attempt, sent
  <2> QED
    BY <2>1, <2>2
<1>3. ASSUME NEW m \in Msgs, Compose(m) PROVE SendingAwaited'
  <2>1. /\ outbox' = outbox \union {m}
        /\ \A n \in Msgs \ {m} : pending'[n] = pending[n]
    BY <1>3 DEF Compose, Enqueue, TypeOK, ClientTypes
  <2>2. CASE conn = "down"
    BY <1>3, <2>1, <2>2 DEF Compose, Enqueue, TypeOK, ClientTypes
  <2>3. CASE conn # "down"
    <3>1. waiting \subseteq waiting' /\ \E a \in waiting' : a[1] = m
      BY <1>2, <1>3, <2>3 DEF Compose
    <3> QED
      BY <2>1, <3>1
  <2> QED
    BY <2>2, <2>3
<1>4. CASE RetryFailed \/ \E i \in Instances : Connect(i)
  BY <1>1, <1>2, <1>4 DEF RetryFailed, Connect, client
<1>4r. CASE RetryOffline
  BY <1>4r DEF RetryOffline
<1>5. ASSUME NEW a \in Attempts, AckReceived(a) PROVE SendingAwaited'
  BY <1>5 DEF AckReceived, TypeOK, ClientTypes
<1>6. ASSUME NEW gone, pending' = MarkFailed({a[1] : a \in gone}),
             waiting \ gone \subseteq waiting', outbox' = outbox
      PROVE  SendingAwaited'
  <2> SUFFICES ASSUME NEW m \in Msgs, pending'[m] = "sending"
               PROVE  m \in outbox' /\ \E a \in waiting' : a[1] = m
    OBVIOUS
  <2>1. pending[m] = "sending" /\ ~ (m \in outbox /\ \E a \in gone : a[1] = m)
    BY <1>6 DEF MarkFailed
  <2> QED
    BY <1>6, <2>1
<1>7. ASSUME NEW a \in Attempts, RefusalReceived(a) \/ Timeout(a)
      PROVE  SendingAwaited'
  <2>1. {b[1] : b \in {a}} = {a[1]}
    OBVIOUS
  <2> QED
    BY <1>6, <1>7, <2>1 DEF RefusalReceived, Timeout
<1>8. CASE Disconnect
  BY <1>6, <1>8 DEF Disconnect, Sever
<1>9. ASSUME NEW i \in Instances, CrashInstance(i) PROVE SendingAwaited'
  <2>1. CASE at = i
    BY <1>6, <1>9, <2>1 DEF CrashInstance, Sever
  <2>2. CASE at # i
    BY <1>1, <1>9, <2>2 DEF CrashInstance
  <2> QED
    BY <2>1, <2>2
<1>10. ASSUME NEW docs, Merge(docs) PROVE SendingAwaited'
  BY <1>10 DEF Merge
<1>11. CASE Reload
  BY <1>11 DEF Reload
<1>12. ASSUME NEW a \in Attempts, Handler(a) \/ StoreFault(a)
       PROVE  SendingAwaited'
  BY <1>1, <1>12 DEF Handler, Arrive, Admit, Allocate, Insert, AnswerDuplicate,
     Publish, StoreFault, HandlerError, AllocateReplyLost, InsertReplyLost, client
<1>13. CASE SetupDone \/ WindowReset \/ UNCHANGED vars
  BY <1>1, <1>13 DEF SetupDone, WindowReset, vars, client
<1> QED
  BY <1>3, <1>4, <1>4r, <1>5, <1>7, <1>8, <1>9, <1>10, <1>11, <1>12, <1>13
  DEF Next, Callback

(* A bubble that says "sending" has its entry and a callback outstanding,  *)
(* whatever becomes of the attempts.                                       *)
THEOREM SendingIsAwaited == Spec => []SendingAwaited
<1>1. Init => SendingAwaited
  BY DEF Init, SendingAwaited
<1>2. SendInv => TypeOK
  BY DEF SendInv
<1> QED
  BY <1>1, <1>2, SendInvariant, AwaitedStep, PTL DEF Spec

(* The send path implements the exactly-once log: Compose is Submit, an    *)
(* insert that does not collide is Commit, the acknowledgement that clears *)
(* an outbox entry is Confirm, and every other step is a stutter.          *)
THEOREM SendPathImplementsPromise == Spec => ImplementsPromise
<1> DEFINE confirmed == composed \ outbox
<1>1. Init => Promise!Init
  BY DEF Init, Promise!Init
<1>2. SendInv /\ SendInv' /\ [Next]_vars => [Promise!Next]_(Promise!vars)
  <2> SUFFICES ASSUME SendInv, SendInv', [Next]_vars
               PROVE  [Promise!Next]_(Promise!vars)
    OBVIOUS
  <2> USE DEF Promise!Next, Promise!vars, Promise!Committed
  <2>1. ASSUME NEW m \in Msgs, Compose(m) PROVE Promise!Submit(m)
    BY <2>1 DEF Compose, Enqueue, server, Promise!Submit
  <2>2. ASSUME NEW a \in Attempts, Inserted(a)
        PROVE  Promise!Commit(a[1], att[a].seq) /\ att[a].seq \in 1 .. MaxSeq
    <3>1. a[1] \in composed \ Stored /\ att[a].seq \in 1 .. nextSeq - 1
      BY <2>2 DEF Inserted, SendInv, Provenance, NumbersFresh
    <3>2. att[a].seq \in 1 .. MaxSeq
      BY <3>1, SendPathAssumption DEF SendInv, TypeOK, ServerTypes
    <3>3. /\ \A d \in log : d.seq # att[a].seq
          /\ \A d \in before[a[1]] : d.seq < att[a].seq
      BY <2>2 DEF Inserted, SendInv, Provenance, NumbersFresh
    <3> QED
      BY <2>2, <3>1, <3>2, <3>3 DEF Inserted, Stored, Promise!Commit
  <2>3. ASSUME NEW a \in Attempts, AckReceived(a)
        PROVE  Promise!Confirm(a[1])
    <3>1. a[1] \in Stored /\ a[1] \in composed
      <4>1. [msg |-> a[1], seq |-> att[a].seq] \in log
        BY <2>3 DEF AckReceived, SendInv, HandlersKnow
      <4> QED
        BY <4>1 DEF SendInv, Provenance, Stored
    <3> QED
      BY <2>3, <3>1 DEF AckReceived, server, Stored, Promise!Confirm
  <2>4. \/ UNCHANGED <<composed, before, outbox>>
        \/ \E m \in Msgs : Compose(m)
        \/ \E a \in Attempts : AckReceived(a)
    BY DEF Next, Connect, CrashInstance, SetupDone, RetryFailed, RetryOffline,
           WindowReset, Handler, Arrive, Admit, Allocate, Insert, AnswerDuplicate, Publish,
           Callback, RefusalReceived, Timeout, StoreFault, HandlerError,
           AllocateReplyLost, InsertReplyLost, Merge, Disconnect, Reload,
           client, vars
  <2>5. log' = log \/ \E a \in Attempts : Inserted(a)
    BY LogStep DEF SendInv
  <2> QED
    BY <2>1, <2>2, <2>3, <2>4, <2>5 DEF Attempts, Inserted
<1> QED
  BY <1>1, <1>2, SendInvariant, PTL DEF Spec, ImplementsPromise, Promise!Spec

-----------------------------------------------------------------------------
(* A number stays open until its insert ends: only Allocate opens one, and *)
(* the others that end an attempt close at most what it held.              *)
LEMMA OpenSeqsShrink ==
    ASSUME TypeOK, \A b \in Attempts : att'[b].pc = "allocated" => att'[b] = att[b]
    PROVE  OpenSeqs' \subseteq OpenSeqs
BY DEF OpenSeqs, Attempts

LEMMA AllocateOpens ==
    ASSUME TypeOK, NEW a \in Attempts, Allocate(a), nextSeq <= MaxSeq
    PROVE  OpenSeqs' = OpenSeqs \union {nextSeq}
<1>1. /\ att'[a].pc = "allocated" /\ att'[a].seq = nextSeq
      /\ att[a].pc = "admitted"
      /\ \A b \in Attempts \ {a} : att'[b] = att[b]
  BY AllocateFact
<1>2. OpenSeqs' = {att'[b].seq : b \in {b \in Attempts : att'[b].pc = "allocated"}}
  BY DEF OpenSeqs, Attempts
<1> QED
  BY <1>1, <1>2 DEF OpenSeqs

LEMMA InsertCloses ==
    ASSUME TypeOK, NumbersFresh, NEW a \in Attempts, Inserted(a)
    PROVE  /\ att[a].seq \in OpenSeqs
           /\ OpenSeqs' = OpenSeqs \ {att[a].seq}
           /\ {d.seq : d \in log'} = {d.seq : d \in log} \union {att[a].seq}
<1>1. /\ att[a].pc = "allocated" /\ att'[a].pc # "allocated"
      /\ \A b \in Attempts \ {a} : att'[b] = att[b]
      /\ log' = log \union {[msg |-> a[1], seq |-> att[a].seq]}
  BY DEF Inserted
<1>2. OpenSeqs' = {att'[b].seq : b \in {b \in Attempts : att'[b].pc = "allocated"}}
  BY DEF OpenSeqs, Attempts
<1>3. \A b \in Attempts \ {a} : att[b].pc = "allocated" => att[b].seq # att[a].seq
  BY <1>1 DEF NumbersFresh
<1>4. OpenSeqs' = OpenSeqs \ {att[a].seq}
  BY <1>1, <1>2, <1>3 DEF OpenSeqs
<1>5. att[a].seq \in OpenSeqs
  BY <1>1 DEF OpenSeqs
<1>6. {d.seq : d \in log'} = {d.seq : d \in log} \union {att[a].seq}
  <2> DEFINE e == [msg |-> a[1], seq |-> att[a].seq]
  <2>1. e.seq = att[a].seq /\ log' = log \union {e}
    BY <1>1
  <2> HIDE DEF e
  <2> QED
    BY <2>1
<1> QED
  BY <1>4, <1>5, <1>6

LEMMA MessageLogStep ==
    ASSUME SendInv, [Next]_vars
    PROVE  Numbers!Next
<1>0. TypeOK /\ NumbersFresh
  BY DEF SendInv
<1>1. ASSUME Calm PROVE Numbers!Next
  <2>1. OpenSeqs' \subseteq OpenSeqs
    BY <1>0, <1>1, OpenSeqsShrink DEF Calm, Quiet
  <2>2. CASE nextSeq' = nextSeq
    BY <1>1, <2>1, <2>2 DEF Calm, Numbers!Next, Numbers!GiveUp
  <2>3. CASE /\ nextSeq' = nextSeq + 1
             /\ \A b \in Attempts : att[b].pc = "allocated" => att'[b] = att[b]
    <3>1. OpenSeqs \subseteq OpenSeqs'
      BY <2>3 DEF OpenSeqs, Attempts
    <3> QED
      BY <1>1, <2>1, <2>3, <3>1 DEF Calm, Numbers!Next, Numbers!Allocate
  <2> QED
    BY <1>1, <2>2, <2>3 DEF Calm
<1>2. ASSUME NEW a \in Attempts, Allocate(a), nextSeq <= MaxSeq
      PROVE  Numbers!Next
  BY <1>0, <1>2, AllocateFact, AllocateOpens DEF Numbers!Next, Numbers!Allocate
<1>3. ASSUME NEW a \in Attempts, Inserted(a) PROVE Numbers!Next
  <2>1. nextSeq' = nextSeq
    BY <1>3 DEF Inserted
  <2> QED
    BY <1>0, <1>3, <2>1, InsertCloses DEF Numbers!Next, Numbers!Store
<1>4. ASSUME NEW a \in Attempts,
             Collided(a) \/ AnswerDuplicate(a) \/ Publish(a)
      PROVE  Numbers!Next
  <2>1. /\ nextSeq' = nextSeq /\ log' = log
        /\ \A b \in Attempts : att'[b].pc = "allocated" => att'[b] = att[b]
    BY <1>0, <1>4, DuplicateFact, PublishFact DEF Collided
  <2>2. OpenSeqs' \subseteq OpenSeqs
    BY <1>0, <2>1, OpenSeqsShrink
  <2> QED
    BY <2>1, <2>2 DEF Numbers!Next, Numbers!GiveUp
<1> QED
  BY <1>0, <1>1, <1>2, <1>3, <1>4, StepFacts

(* Every reader of the log may take its writers as MessageLog: whatever    *)
(* attempts overlap, lose replies or die, a number is handed out once and  *)
(* stored at most once, and one given up is never stored.                  *)
THEOREM SendPathImplementsMessageLog == Spec => ImplementsMessageLog
<1>1. Init => Numbers!Init
  BY DEF Init, Numbers!Init, OpenSeqs, Idle
<1>2. SendInv /\ [Next]_vars =>
          [Numbers!Next]_<<nextSeq, OpenSeqs, {d.seq : d \in log}>>
  BY MessageLogStep
<1> QED
  BY <1>1, <1>2, SendInvariant, PTL
  DEF Spec, ImplementsMessageLog, Numbers!Spec
=============================================================================
