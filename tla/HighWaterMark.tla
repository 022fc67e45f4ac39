---------------------------- MODULE HighWaterMark ----------------------------
(***************************************************************************)
(* What a cursor of conversation_members promises: it only moves up, and   *)
(* only onto a number that was given to the member before.  Both the       *)
(* delivery cursor and the read cursor keep it, each by GREATEST in one    *)
(* UPDATE and a client that acknowledges nothing but what it was given.    *)
(***************************************************************************)
EXTENDS Naturals

VARIABLES mark, given

Init == mark = 0 /\ given = {}

Give == given \subseteq given' /\ mark' = mark

Advance == mark' \in given /\ mark' > mark /\ given' = given

Next == Give \/ Advance

Spec == Init /\ [][Next]_<<mark, given>>
=============================================================================
