--------------------------- MODULE MCTurnSteering ---------------------------
EXTENDS TurnSteering
CONSTANTS c1, c2, c3, m1

\* One message, delivered twice, and a call without one.
MCMessageOf == [c \in Calls |-> IF c = c3 THEN None ELSE m1]
=============================================================================
