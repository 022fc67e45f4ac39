----------------------------- MODULE MCPresence -----------------------------
(* Instances of Presence for TLC.                                          *)
EXTENDS Presence, TLC

(* Sockets and instances are interchangeable in the safety run.            *)
MCSymmetry == Permutations(Socks) \union Permutations(Instances)
=============================================================================
