-------------------------- MODULE SubagentThreads ---------------------------
(***************************************************************************)
(* The Host Threads that stand for the Subagents of one external Thread:   *)
(* src/packages/host-runtime/src/external-subagent-threads.ts and the      *)
(* three mutations of the Mapping Store that it uses.                      *)
(*                                                                         *)
(* A native child is known by its native ID and the session of its parent. *)
(* One native ID is modelled, so that a create request is named after the  *)
(* session it was hashed with; a session may use the ID again for a child  *)
(* of another Turn once a rollback has removed the first.  The Turns of    *)
(* the children, and children of children, are left out.                   *)
(*                                                                         *)
(* The lookups of one materialization await only memory, so that they and  *)
(* the mutation they ask for are one step (Wanted); the mutation runs when *)
(* the write queue gets to it.                                             *)
(***************************************************************************)
EXTENDS Naturals, Sequences, FiniteSets

CONSTANTS
  Sessions,   \* Native Sessions of the parent Thread
  Turns,      \* its Turns
  Homes,      \* Host Thread IDs for children
  None

ASSUME SubagentsAssumption ==
  /\ None \notin Sessions \cup Turns \cup Homes
  /\ Homes \subseteq Nat /\ IsFiniteSet(Homes)

VARIABLE child   \* the records of the children

Children ==
  [state   : {"none", "creating", "ready"},
   request : Sessions \cup {None},     \* createRequestId
   session : Sessions \cup {None},     \* nativeSessionRef
   of      : Turns \cup {None}]        \* whose child it was made for (history)

NoChild == [state |-> "none", request |-> None, session |-> None, of |-> None]

Stored(h) == child[h].state # "none"
ReadyHomes == {h \in Homes : child[h].state = "ready"}
Unused == {h \in Homes : ~Stored(h)}

(* getThreadByCreateRequest, and the scan for records whose request was    *)
(* hashed otherwise: by the session they have now.                         *)
ByRequest(s) == {h \in Homes : Stored(h) /\ child[h].request = s}
ByRecord(s) == {h \in ReadyHomes : child[h].session = s}

(* Mutation: the children are looked up by their native ID.                *)
FoundByNativeId(s, previous) ==
  {h \in ReadyHomes : \A g \in ReadyHomes : h <= g}

(* The record that a materialization under the parent session s goes by:   *)
(* of the first lookup that finds any.  A rollback also looks under the    *)
(* session it replaces.                                                    *)
Found(s, previous) ==
  LET former == IF previous = None THEN {} ELSE {previous}
      lookups == <<ByRequest(s), UNION {ByRequest(p) : p \in former},
                   ByRecord(s), UNION {ByRecord(p) : p \in former}>>
  IN  IF \A i \in 1 .. 4 : lookups[i] = {} THEN {}
      ELSE lookups[CHOOSE i \in 1 .. 4 :
                     /\ lookups[i] # {}
                     /\ \A j \in 1 .. i - 1 : lookups[j] = {}]

(* What is to be done about the record h it found, or with none.           *)
Wanted(h, s, previous) ==
  IF h = None THEN "create"
  ELSE IF child[h].state = "creating" THEN "commit"
  ELSE IF child[h].session = s THEN "nothing"
  ELSE IF previous = None THEN "error" ELSE "rebind"

-----------------------------------------------------------------------------
(* The mutations, as the new value of child.                               *)

(* createProvisional, of a request that is not stored.                     *)
Created(h, s, t) ==
  [child EXCEPT ![h] =
    [state |-> "creating", request |-> s, session |-> None, of |-> t]]

(* commitReady: it looks neither at the state nor at the session.          *)
Committed(h, s) ==
  [child EXCEPT ![h].state = "ready", ![h].session = s]

(* rebindSubagentSession: refused unless the parent has the new session    *)
(* and the child still the one before, or if the new request is taken.     *)
MayRebind(h, s, previous, parent) ==
  /\ parent = s
  /\ \/ child[h].session = s /\ child[h].request = s
     \/ child[h].session = previous /\ ByRequest(s) \ {h} = {}

Rebound(h, s) == [child EXCEPT ![h].request = s, ![h].session = s]

(* initialize() drops the records that were not ready.                     *)
OnlyReady ==
  [h \in Homes |-> IF child[h].state = "ready" THEN child[h] ELSE NoChild]

-----------------------------------------------------------------------------
(* One native child has one Host Thread.                                   *)
Twins ==
  {h \in ReadyHomes : \E g \in ReadyHomes \ {h} : child[g].of = child[h].of}
=============================================================================
