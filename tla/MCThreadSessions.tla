-------------------------- MODULE MCThreadSessions --------------------------
(* ThreadSessions for TLC: what each operation does.                       *)
EXTENDS ThreadSessions

CONSTANTS turn, control, rollback, delete

MCKindOf ==
  [o \in Ops |->
    CASE o = turn -> "turn" [] o = rollback -> "rollback" [] o = delete -> "delete"
      [] OTHER -> "control"]
MCMost == Cardinality(Ops) + 1

(* At most three operations, and not the three that only queue behind each *)
(* other: the races are those with a control call.  The shutdown of the    *)
(* Host meets two.                                                         *)
Started == {o \in Ops : ops[o].pc # "new"}
Scope ==
  /\ Cardinality(Started) <= IF host = "open" THEN 3 ELSE 2
  /\ ~({turn, rollback, delete} \subseteq Started)
=============================================================================
