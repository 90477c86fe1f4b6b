----------------------------- MODULE MCStoreLock -----------------------------
(* StoreLock for TLC: interchangeable instances.                           *)
EXTENDS StoreLock, TLC

Symmetry == Permutations(Instances)
=============================================================================
