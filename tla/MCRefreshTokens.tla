-------------------------- MODULE MCRefreshTokens ---------------------------
(* Instances of RefreshTokens for TLC.                                     *)
EXTENDS RefreshTokens, TLC

CONSTANTS t1, t2, t3, b1, b2

(* A tab that has its browser to itself beside two that share another, and *)
(* the two alone.                                                          *)
MCMixed == (t1 :> b1) @@ (t2 :> b2) @@ (t3 :> b2)
MCTogether == (t2 :> b2) @@ (t3 :> b2)

(* Which slot a request takes makes no difference, nor which of the two    *)
(* tabs that share a browser it is.                                        *)
MCSymmetry == Permutations(Requests) \union Permutations({t2, t3})
=============================================================================
