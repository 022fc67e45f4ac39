--------------------------- MODULE MCConversations ---------------------------
(* Instances of Conversations for TLC.                                     *)
EXTENDS Conversations, TLC

CONSTANTS ann, bob, s1, s2, r1, r2, r3, r4, ghost

MCOwner == (s1 :> ann) @@ (s2 :> bob)

(* The pair from both sides, a group of one, and a name nobody has.        *)
MCVia == (r1 :> s1) @@ (r2 :> s2) @@ (r3 :> s1) @@ (r4 :> s2)
MCNamed == (r1 :> {bob}) @@ (r2 :> {ann}) @@ (r3 :> {ann})
           @@ (r4 :> {ghost})
=============================================================================
