-------------------------- MODULE MCSharedThreads ---------------------------
(* SharedThreads for TLC: a message that is sent again, perhaps with other *)
(* input, and another message.                                             *)
EXTENDS SharedThreads

CONSTANTS c1, c2, c3, x

MCMessageOf == [c \in Calls |-> IF c = c3 THEN c3 ELSE c1]

Sent == {c \in Calls : call[c].state # "new"}

(* The first message comes first, and the other one from another GUI, and  *)
(* not when a link breaks or a request waits for the pipe.  The questions  *)
(* of a Turn are followed with one call, or with those of two messages.    *)
Scope ==
  /\ Sent # {} => c1 \in Sent
  /\ \A c \in {c1, c3} : call[c].input \in {x, None}
  /\ c3 \in Sent => losses = 0 /\ call[c1].by # call[c3].by
  /\ (\E q \in Questions : question[q] # "new") =>
       Cardinality(Sent) <= 1 \/ (losses = 0 /\ writing = {} /\ Sent = {c1, c3})
  /\ writing # {} => c3 \notin Sent
=============================================================================
