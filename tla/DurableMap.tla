----------------------------- MODULE DurableMap -----------------------------
(***************************************************************************)
(* What the Thread records of the Mapping Store promise to their readers:  *)
(* one map that changes one Thread at a time, each change all or nothing,  *)
(* under the next revision, and that a crash takes nothing from.  A Thread *)
(* ID is used once.  Excepted are records that no session stands behind, a *)
(* removal that a crash interrupts, which may take the metadata only, and, *)
(* until the next crash, Threads of which a write or an unlink failed.     *)
(***************************************************************************)
EXTENDS Naturals

CONSTANTS
  Threads, Records, NoRecord,
  NoSession, \* the session of a provisional record
  NoProject  \* the project of a record without metadata

VARIABLES
  value,     \* the record of each Thread
  pending,   \* the change under way, if any: a set of at most one
  damaged,   \* Threads that a failed change left damaged
  unused     \* Thread IDs not handed out yet

mapVars == <<value, pending, damaged, unused>>

Changes == [thread : Threads, record : Records \cup {NoRecord}]

Init ==
  /\ value = [t \in Threads |-> NoRecord]
  /\ pending = {} /\ damaged = {}
  /\ unused = Threads

(* A record is created for a new Thread, or removed, or replaced by one of *)
(* the next revision.                                                      *)
Legal(c) ==
  LET old == value[c.thread] IN
  \/ /\ old = NoRecord /\ c.record # NoRecord /\ c.record.revision = 1
     /\ c.thread \in unused
  \/ old # NoRecord /\ c.record = NoRecord
  \/ /\ old # NoRecord /\ c.record # NoRecord
     /\ c.record.revision = old.revision + 1

Begin ==
  /\ pending = {}
  /\ \E c \in pending' :
       /\ c \in Changes /\ Legal(c)
       /\ pending' = {c}
       /\ unused' = unused \ {c.thread}
  /\ UNCHANGED <<value, damaged>>

Commit ==
  /\ \E c \in pending : value' = [value EXCEPT ![c.thread] = c.record]
  /\ pending' = {}
  /\ UNCHANGED <<damaged, unused>>

Fail ==
  /\ \E c \in pending : damaged' \in {damaged, damaged \cup {c.thread}}
  /\ pending' = {}
  /\ UNCHANGED <<value, unused>>

Survives(r) == IF r # NoRecord /\ r.session = NoSession THEN NoRecord ELSE r

ChangesOf(t) == {c \in pending : c.thread = t}

(* What a crash leaves: the record, or the one of the pending change, or,  *)
(* between the two files of that change, the record under its revision,    *)
(* or, among the unlinks of a removal, the record without its metadata.    *)
Left(t) ==
  {Survives(value[t])}
    \cup {Survives(c.record) : c \in ChangesOf(t)}
    \cup {Survives([value[t] EXCEPT !.revision = c.record.revision]) :
            c \in {d \in ChangesOf(t) : NoRecord \notin {value[t], d.record}}}
    \cup {Survives([value[t] EXCEPT !.project = NoProject]) :
            c \in {d \in ChangesOf(t) : value[t] # NoRecord /\ d.record = NoRecord}}

(* A damaged Thread may be gone, or be back with another revision, project *)
(* or state, but never as another: its create request, session, parent and *)
(* Turns are those it had, or was about to have.                           *)
Recognizable(r, t) ==
  r # NoRecord =>
    \E s \in {value[t]} \cup {c.record : c \in ChangesOf(t)} :
      /\ s # NoRecord
      /\ r.request = s.request /\ r.session = s.session
      /\ r.parent = s.parent /\ r.turns = s.turns

Crash ==
  /\ \A t \in Threads : IF t \in damaged THEN Recognizable(value'[t], t)
                                         ELSE value'[t] \in Left(t)
  /\ value' \in [Threads -> Records \cup {NoRecord}]
  /\ pending' = {} /\ damaged' = {}
  /\ UNCHANGED unused

Next == Begin \/ Commit \/ Fail \/ Crash

Spec == Init /\ [][Next]_mapVars
=============================================================================
