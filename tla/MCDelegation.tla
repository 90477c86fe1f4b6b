---------------------------- MODULE MCDelegation ----------------------------
(* Delegation for TLC: two delegations, each started twice.                *)
EXTENDS Delegation, TLC

CONSTANTS c1, c2, c3, c4, k1, k2

MCKeyOf == c1 :> k1 @@ c2 :> k1 @@ c3 :> k2 @@ c4 :> k2

Symmetry == Permutations({c1, c2}) \cup Permutations({c3, c4})
=============================================================================
