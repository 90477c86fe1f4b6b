------------------------------ MODULE OneShot -------------------------------
(***************************************************************************)
(* What a watch promises (docs/architecture/thread-watch.md): it falls due *)
(* once and is then told, in a Turn of the Thread to notify, at most once. *)
(* It is not retried as soon as a Turn may have started, and while it is   *)
(* known that none has, it is either still due or was given up.            *)
(***************************************************************************)
EXTENDS Naturals

CONSTANTS
  Watches,  \* every registration there may be
  Notify    \* the Thread that each of them notifies

VARIABLES
  phase,    \* of each watch
  turns     \* how many Turns were started to tell it

Phases == {"none", "armed", "due", "doubtful", "over"}

Init ==
  /\ phase = [w \in Watches |-> "none"]
  /\ turns = [w \in Watches |-> 0]

Become(ws, from, to) ==
  /\ \A w \in ws : phase[w] \in from
  /\ phase' = [w \in Watches |-> IF w \in ws THEN to ELSE phase[w]]
  /\ UNCHANGED turns

Arm(w) == Become({w}, {"none"}, "armed")

FallDue(w) == Become({w}, {"armed"}, "due")

(* One Turn tells everything it tells to one Thread, and each thing only   *)
(* once; a notification in doubt may still be on its way.                  *)
Tell(ws) ==
  /\ \A w \in ws : phase[w] \in {"due", "doubtful"} /\ turns[w] = 0
  /\ \A v, w \in ws : Notify[v] = Notify[w]
  /\ turns' = [w \in Watches |-> IF w \in ws THEN 1 ELSE turns[w]]
  /\ UNCHANGED phase

Delivered(ws) == (\A w \in ws : turns[w] = 1) /\ Become(ws, {"due"}, "over")

(* No Turn was started, and none will be.                                  *)
GiveUp(ws) == (\A w \in ws : turns[w] = 0) /\ Become(ws, {"due"}, "over")

Doubt(ws) == Become(ws, {"due"}, "doubtful")

(* The service closes: what is armed never falls due, and what is due is   *)
(* no longer followed.                                                     *)
Close ==
  /\ phase' = [w \in Watches |->
       CASE phase[w] = "armed" -> "over" [] phase[w] = "due" -> "doubtful"
         [] OTHER -> phase[w]]
  /\ UNCHANGED turns

Next ==
  \/ \E w \in Watches : Arm(w) \/ FallDue(w)
  \/ \E ws \in SUBSET Watches : Tell(ws) \/ Delivered(ws) \/ GiveUp(ws) \/ Doubt(ws)
  \/ Close

Spec == Init /\ [][Next]_<<phase, turns>>
=============================================================================
