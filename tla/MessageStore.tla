---------------------------- MODULE MessageStore ----------------------------
(***************************************************************************)
(* The reads of the message log, and what a tab computes from the numbers  *)
(* it holds.  Within one conversation a message is known by its sequence   *)
(* number, so a set of messages is a set of numbers, and a sorted, limited *)
(* query is the set of its n smallest or n largest.                        *)
(***************************************************************************)
EXTENDS Naturals, FiniteSets

(* sort({seq: 1}).limit(n)                                                 *)
Oldest(S, n) == {s \in S : Cardinality({t \in S : t < s}) < n}

(* sort({seq: -1}).limit(n)                                                *)
Newest(S, n) == {s \in S : Cardinality({t \in S : t > s}) < n}

(* Mutant: limit(size), without the extra document that reveals a next page. *)
ListUndeliveredExactly(log, afterSeq, limit) ==
    [messages |-> Oldest({s \in log : s > afterSeq}, limit), hasMore |-> FALSE]

(* A page after a cursor, and whether the query found one more than fits.  *)
ListUndelivered(log, afterSeq, limit) ==
    LET docs == {s \in log : s > afterSeq}
    IN  [messages |-> Oldest(docs, limit), hasMore |-> Cardinality(docs) > limit]

(* Mutant: sorted ascending before limiting, the oldest page for ever.      *)
ListHistoryAscending(log, beforeSeq, limit) ==
    LET docs == {s \in log : s < beforeSeq}
    IN  [messages |-> Oldest(docs, limit), hasMore |-> Cardinality(docs) > limit]

(* A page of history: the newest before a cursor.                          *)
ListHistory(log, beforeSeq, limit) ==
    LET docs == {s \in log : s < beforeSeq}
    IN  [messages |-> Newest(docs, limit), hasMore |-> Cardinality(docs) > limit]

(* The oldest messages strictly between two numbers.                       *)
ListRange(log, afterSeq, beforeSeq, limit) ==
    Oldest({s \in log : afterSeq < s /\ s < beforeSeq}, limit)

Lowest(S) == CHOOSE s \in S : \A t \in S : s <= t
Highest(S) == CHOOSE s \in S : \A t \in S : t <= s

(* recomputeContiguous: the thread starts at 0 and is never rewound, so    *)
(* the contiguous watermark is the longest prefix it holds.                *)
Contiguous(S) ==
    CHOOSE n \in {0} \union S : 1 .. n \subseteq S /\ n + 1 \notin S
=============================================================================
