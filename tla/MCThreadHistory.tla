-------------------------- MODULE MCThreadHistory ---------------------------
(* ThreadHistory for TLC.                                                  *)
EXTENDS ThreadHistory, TLC

CONSTANTS s1, s2, t1, t2, t3

(* The two Turns with a Subagent are alike.                                *)
AlikeTurns == Permutations(Spawning)
=============================================================================
