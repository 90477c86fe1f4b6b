--------------------------- MODULE MCThreadWatch ----------------------------
(* ThreadWatch for TLC: calls that ask for the same, and one the other way *)
(* round.                                                                  *)
EXTENDS ThreadWatch

CONSTANTS a, b, first, again, back

MCTarget == [c \in Calls |-> IF c = back THEN b ELSE a]
MCNotify == [c \in Calls |-> IF c = back THEN a ELSE b]

(* Of two calls that are alike, one comes first; one Thread remains, and   *)
(* both do when all three calls are made.                                  *)
Scope ==
  /\ call[again] # "new" => call[first] # "new"
  /\ \E t \in Threads : status[t] # "gone"
  /\ (\A c \in Calls : call[c] # "new") => \A t \in Threads : status[t] # "gone"
=============================================================================
