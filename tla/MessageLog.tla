----------------------------- MODULE MessageLog -----------------------------
(***************************************************************************)
(* The log of one conversation as every reader may take it, with nothing   *)
(* of who writes it: the allocator hands out each number once, in order;   *)
(* a number handed out is stored later, in any order, or given up, and     *)
(* once given up it is never stored.  A stored number is not taken back.   *)
(***************************************************************************)
EXTENDS Naturals

VARIABLES
    next,                       \* the number handed out next
    open,                       \* handed out, and may still be stored
    log                         \* stored

Init == next = 1 /\ open = {} /\ log = {}

(* The number may be lost on its way to whoever asked for it.              *)
Allocate ==
    /\ next' = next + 1
    /\ open' \in {open, open \union {next}}
    /\ log' = log

Store(n) ==
    /\ n \in open
    /\ open' = open \ {n}
    /\ log' = log \union {n}
    /\ next' = next

(* A duplicate, an error, or an instance that dies with its handlers.      *)
GiveUp == open' \subseteq open /\ UNCHANGED <<next, log>>

Next == Allocate \/ (\E n \in open : Store(n)) \/ GiveUp

Spec == Init /\ [][Next]_<<next, open, log>>
=============================================================================
