--------------------------- MODULE ExactlyOnceLog ---------------------------
(***************************************************************************)
(* What the send path promises, with no sockets, retries or stores in it:  *)
(* a message that was submitted is committed to the conversation's log at  *)
(* most once, under a sequence number nobody else has and larger than that *)
(* of everything the log held when the message was submitted; and it is    *)
(* confirmed to its author only after it was committed.                    *)
(***************************************************************************)
EXTENDS Naturals

CONSTANTS
    Msgs,                       \* the clientMsgIds of one author
    Seqs                        \* the sequence numbers there are

VARIABLES
    submitted,                  \* messages the author has written
    before,                     \* before[m]: the log when m was submitted
    log,                        \* committed documents
    confirmed                   \* messages the author need not send again

vars == <<submitted, before, log, confirmed>>

Docs == [msg : Msgs, seq : Seqs]

Committed == {d.msg : d \in log}

Init ==
    /\ submitted = {}
    /\ before = [m \in Msgs |-> {}]
    /\ log = {}
    /\ confirmed = {}

Submit(m) ==
    /\ m \notin submitted
    /\ submitted' = submitted \union {m}
    /\ before' = [before EXCEPT ![m] = log]
    /\ UNCHANGED <<log, confirmed>>

Commit(m, seq) ==
    /\ m \in submitted \ Committed
    /\ \A d \in log : d.seq # seq
    /\ \A d \in before[m] : d.seq < seq
    /\ log' = log \union {[msg |-> m, seq |-> seq]}
    /\ UNCHANGED <<submitted, before, confirmed>>

Confirm(m) ==
    /\ m \in Committed
    /\ confirmed' = confirmed \union {m}
    /\ UNCHANGED <<submitted, before, log>>

Next ==
    \E m \in Msgs :
        \/ Submit(m)
        \/ \E seq \in Seqs : Commit(m, seq)
        \/ Confirm(m)

Spec == Init /\ [][Next]_vars

-----------------------------------------------------------------------------
TypeOK ==
    /\ submitted \subseteq Msgs
    /\ before \in [Msgs -> SUBSET Docs]
    /\ log \subseteq Docs
    /\ confirmed \subseteq Msgs

(* One document per message, one message per sequence number.              *)
ExactlyOnce ==
    \A d, e \in log : d.msg = e.msg \/ d.seq = e.seq => d = e

(* A message is ordered after everything stored before it was written.     *)
CausalOrder ==
    \A d \in log : \A e \in before[d.msg] : e.seq < d.seq

(* The author's copy is dropped only once the log has the message.         *)
ConfirmedIsCommitted == confirmed \subseteq Committed
=============================================================================
