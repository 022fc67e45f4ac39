----------------------------- MODULE MCSendPath -----------------------------
(* Instances of SendPath for TLC.                                          *)
EXTENDS SendPath, TLC

MCOneSlot == {1}
MCSlots == 1 .. 2

(* Messages and instances are interchangeable in the safety runs.          *)
MCSymmetry == Permutations(Msgs) \union Permutations(Instances)
=============================================================================
