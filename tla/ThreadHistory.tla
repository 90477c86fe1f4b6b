--------------------------- MODULE ThreadHistory ----------------------------
(***************************************************************************)
(* The history of one external Thread: how its Turns get their Host Turn   *)
(* IDs and its Subagents their Host Threads, while Turns run, reads align  *)
(* what the native session says, and a rollback replaces the session.      *)
(* external-thread-repository.ts, external-thread-runtime.ts (refresh,     *)
(* restore, persistTerminalIdentity, replace), external-thread-rollback.ts *)
(* and the output loop of app-server-host.ts, all under                    *)
(* src/packages/host-runtime/src/.                                         *)
(*                                                                         *)
(* Every mutation of the store waits in its write queue (writes); what a   *)
(* caller does between two waits for I/O is one step.  So a mutation, what *)
(* its caller makes of the result and the mutation it asks for next are    *)
(* one action, named after the mutation.                                   *)
(*                                                                         *)
(* A mapping pairs a native turn of the record's session with a Host Turn  *)
(* ID: the one drawn by the Host when the Turn began (Own), or one drawn   *)
(* by the call that found the Turn in a snapshot.                          *)
(***************************************************************************)
EXTENDS SubagentThreads

CONSTANTS
  First,       \* the session the Thread begins with
  Spawning,    \* the Turns that have a Subagent
  Reads,       \* calls that read the history or restore the Thread
  Rollbacks,   \* calls that take the last Turn back
  Controls,    \* the reads of the delegation control: no Desktop requests
  Lives,       \* output events that name a Subagent
  Own,         \* who drew the ID of a Turn: the Host, when it began
  Terminal,    \* the entry of a terminal event in the write queue
  MaxCrashes, MaxFaults

Calls == Reads \cup Rollbacks
Callers == Calls \cup Lives

ASSUME HistoryAssumption ==
  /\ First \in Sessions /\ Spawning \subseteq Turns /\ Controls \subseteq Reads
  /\ Terminal \notin Callers /\ Own \notin Callers
  /\ Reads \cap Rollbacks = {} /\ Lives \cap Calls = {}
  /\ MaxCrashes \in Nat /\ MaxFaults \in Nat

VARIABLES
  native,    \* the Turns of each native session
  stored,    \* the record in the store, the same in memory and on disk
  mem,       \* the record that each ExternalThread object has (by session)
  loaded,    \* the session of the object in #threads, or None
  live,      \* the Turn under way, and its phase
  fault,     \* persistenceError of the loaded object
  call,      \* the calls and output events
  mat,       \* the materialization a caller waits for
  writes,    \* the write queue of the store
  crashes, faults,
  begun,     \* the Turns begun so far (history)
  ended,     \* those that ended with a native identity to store (history)
  crossed,   \* those that something happened to which loses their ID
  apart      \* what set memory or the children apart from the store (history)

histories == <<begun, ended, crossed, apart>>
counters == <<crashes, faults>>
vars == <<child, native, stored, mem, loaded, live, fault, call, mat, writes,
          crashes, faults, begun, ended, crossed, apart>>

Mappings == [turn : Turns, by : Callers \cup {Own}]
NoRecord == [session |-> None, turns |-> <<>>, revision |-> 0]
NoTurn == [turn |-> None, phase |-> "idle"]
NoWait == [step |-> "nothing", home |-> None, previous |-> None, of |-> None]

Ended(outcome) ==
  [pc |-> outcome, session |-> None, snap |-> <<>>, base |-> NoRecord,
   restores |-> FALSE]

Init ==
  /\ child = [h \in Homes |-> NoChild]
  /\ native = [s \in Sessions |-> <<>>]
  /\ stored = [session |-> First, turns |-> <<>>, revision |-> 1]
  /\ mem = [s \in Sessions |-> IF s = First THEN stored ELSE NoRecord]
  /\ loaded = First
  /\ live = NoTurn
  /\ fault = FALSE
  /\ call = [c \in Callers |-> Ended("new")]
  /\ mat = [c \in Callers |-> NoWait]
  /\ writes = <<>>
  /\ crashes = 0 /\ faults = 0
  /\ begun = {} /\ ended = {} /\ crossed = {}
  /\ apart = {}

At(c, pc) == call[c].pc = pc
Busy(c) == call[c].pc \notin {"new", "done", "failed"}
Elements(seq) == {seq[i] : i \in DOMAIN seq}
TurnsOf(record) == {m.turn : m \in Elements(record.turns)}

(* The Turn of a snapshot that has a Subagent.                             *)
SpawnedIn(snap) ==
  LET found == Elements(snap) \cap Spawning
  IN  IF found = {} THEN None ELSE CHOOSE t \in found : TRUE

-----------------------------------------------------------------------------
(* What a caller does when the projection is over, or has failed.          *)

Fail(c) ==
  /\ call' = [call EXCEPT ![c] = Ended("failed")]
  /\ UNCHANGED <<mem, loaded, fault>>

(* refresh() and #restore() take the record over; a rollback goes on from  *)
(* there with the record it has now.                                       *)
Refreshed(c, record) ==
  /\ mem' = [mem EXCEPT ![call[c].session] = record]
  /\ IF call[c].restores
     THEN loaded' = call[c].session /\ fault' = FALSE
     ELSE UNCHANGED <<loaded, fault>>
  /\ call' = [call EXCEPT ![c] =
                IF c \notin Rollbacks THEN Ended("done")
                ELSE IF record.turns = <<>> THEN Ended("failed")
                ELSE [Ended("opening") EXCEPT !.session = call[c].session,
                                              !.base = record]]

(* replace(): the new session takes the place of the old one, unless a     *)
(* Turn began meanwhile.                                                   *)
Replaced(c, record) ==
  /\ live.turn = None
  /\ loaded' = record.session
  /\ mem' = [mem EXCEPT ![record.session] = record]
  /\ fault' = FALSE
  /\ call' = [call EXCEPT ![c] = Ended("done")]

(* The store has a newer record than the one that is taken over.           *)
Late(record) ==
  IF record.revision < stored.revision THEN apart \cup {"overtaken"} ELSE apart

Projected(c, stage, record, ok) ==
  \/ /\ stage = "event"
     /\ call' = [call EXCEPT ![c] = Ended("done")]
     /\ UNCHANGED <<mem, loaded, fault, apart>>
  \/ /\ stage = "projecting" /\ ok
     /\ Refreshed(c, record)
     /\ apart' = IF ~call[c].restores /\ call[c].session # loaded
                 THEN apart \cup {"overtaken"} ELSE Late(record)
  \/ /\ stage = "projecting" /\ ~ok
     /\ Fail(c)
     /\ apart' = IF record = mem[call[c].session] THEN apart
                 ELSE apart \cup {"not adopted"}
  \/ stage = "retaining" /\ ok /\ Replaced(c, record) /\ apart' = Late(record)
  \/ /\ stage = "retaining" /\ (~ok \/ live.turn # None)
     /\ Fail(c)
     /\ apart' = apart \cup {"not replaced"}

(* Project a record whose Turn t (if not None) has a Subagent: look for    *)
(* its Host Thread, and wait for the mutation that it takes.  The queue is *)
(* what is left of the writes by then.                                     *)
Project(c, stage, record, previous, t, queue) ==
  \/ /\ t = None
     /\ Projected(c, stage, record, TRUE)
     /\ writes' = queue /\ mat' = [mat EXCEPT ![c] = NoWait]
  \/ /\ t # None
     /\ \E h \in IF Found(record.session, previous) = {} THEN {None}
                 ELSE Found(record.session, previous) :
          LET step == Wanted(h, record.session, previous) IN
            IF step \in {"nothing", "error"}
            THEN /\ Projected(c, stage, record, step = "nothing")
                 /\ writes' = queue /\ mat' = [mat EXCEPT ![c] = NoWait]
            ELSE /\ mat' = [mat EXCEPT ![c] =
                      [step |-> step, home |-> h, previous |-> previous, of |-> t]]
                 /\ writes' = Append(queue, c)
                 /\ call' = [call EXCEPT ![c].pc = stage, ![c].base = record]
                 /\ UNCHANGED <<mem, loaded, fault, apart>>

-----------------------------------------------------------------------------
(* Turns.  The output loop takes the events of a session one by one.       *)

(* A session uses the native ID of the Subagents once.                     *)
StartTurn(t) ==
  /\ loaded # None /\ live.turn = None
  /\ t \notin begun
  /\ t \in Spawning =>
       (Elements(native[loaded]) \cap Spawning) \cup ByRequest(loaded) \cup ByRecord(loaded) = {}
  /\ live' = [turn |-> t, phase |-> "running"]
  /\ begun' = begun \cup {t}
  /\ UNCHANGED <<child, native, stored, mem, loaded, fault, call, mat, writes,
                 counters, ended, crossed, apart>>

(* The Turn appears in the native history, some time before it ends.       *)
RecordTurn ==
  /\ live.phase = "running"
  /\ live.turn \notin Elements(native[loaded])
  /\ native' = [native EXCEPT ![loaded] = Append(@, live.turn)]
  /\ UNCHANGED <<child, stored, mem, loaded, live, fault, call, mat, writes,
                 counters, histories>>

(* An item of the Turn names its Subagent.                                 *)
LiveChild(c) ==
  /\ At(c, "new") /\ live.phase = "running" /\ live.turn \in Spawning
  /\ \A d \in Lives : ~Busy(d)
  /\ Project(c, "event", mem[loaded], None, live.turn, writes)
  /\ UNCHANGED <<child, native, stored, live, counters, begun, ended, crossed>>

(* turn.completed with a native identity: it is to be stored first, unless *)
(* an earlier one could not be.                                            *)
EndTurn ==
  /\ live.phase = "running" /\ \A c \in Lives : ~Busy(c)
  /\ live.turn \in Elements(native[loaded])
  /\ IF fault
     THEN /\ live' = NoTurn
          /\ crossed' = crossed \cup {live.turn}
          /\ UNCHANGED <<writes, ended>>
     ELSE /\ live' = [live EXCEPT !.phase = "ending"]
          /\ writes' = Append(writes, Terminal)
          /\ ended' = ended \cup {live.turn}
          /\ UNCHANGED crossed
  /\ UNCHANGED <<child, native, stored, mem, loaded, fault, call, mat, counters,
                 begun, apart>>

(* turn.completed without one: it failed or was interrupted.               *)
EndUnnamed ==
  /\ live.phase = "running" /\ \A c \in Lives : ~Busy(c)
  /\ live' = NoTurn
  /\ crossed' = crossed \cup {live.turn}
  /\ UNCHANGED <<child, native, stored, mem, loaded, fault, call, mat, writes,
                 counters, begun, ended, apart>>

Runs(c) == writes # <<>> /\ writes[1] = c
Popped == Tail(writes)

(* upsertTurnMappings of the Turn that ends.  It is refused if the native  *)
(* turn has another ID by now, or the record another session.              *)
MayUpsert ==
  /\ mem[loaded].session = loaded
  /\ stored.session = loaded
  /\ \A m \in Elements(stored.turns) : m.turn = live.turn => m.by = Own

Upserted ==
  [stored EXCEPT
     !.turns = IF live.turn \in TurnsOf(stored) THEN @
               ELSE Append(@, [turn |-> live.turn, by |-> Own]),
     !.revision = @ + 1]

(* Mutation: persistTerminalIdentity keeps the record it had.              *)
Kept(record) == mem

Persisted(record) == [mem EXCEPT ![loaded] = record]

RunPersist ==
  /\ Runs(Terminal)
  /\ writes' = Popped
  /\ live' = NoTurn
  /\ \/ /\ MayUpsert
        /\ stored' = Upserted
        /\ mem' = Persisted(stored')
        /\ UNCHANGED <<fault, faults, crossed>>
     \/ /\ ~MayUpsert
        /\ fault' = TRUE
        /\ UNCHANGED <<stored, mem, faults, crossed>>
     \/ /\ MayUpsert /\ faults < MaxFaults
        /\ fault' = TRUE
        /\ faults' = faults + 1
        /\ crossed' = crossed \cup {live.turn}
        /\ UNCHANGED <<stored, mem>>
  /\ apart' = IF stored' = stored THEN apart ELSE apart \cap {"not moved"}
  /\ UNCHANGED <<child, native, loaded, call, mat, crashes, begun, ended>>

-----------------------------------------------------------------------------
(* Reads: of a loaded Thread that is idle, or as a restore.                *)

(* Desktop requests of a Thread are handled one after the other.           *)
Admitted(c) == At(c, "new") /\ (c \in Controls \/ \A d \in Calls \ Controls : ~Busy(d))

Begin(c) ==
  /\ Admitted(c) /\ loaded # None /\ live.turn = None
  /\ call' = [call EXCEPT ![c].pc = "reading", ![c].session = loaded]
  /\ UNCHANGED <<child, native, stored, mem, loaded, live, fault, mat, writes,
                 counters, histories>>

(* Who comes while a restore is under way waits for that one.              *)
Restore(c) ==
  /\ Admitted(c) /\ loaded = None /\ \A d \in Calls : ~call[d].restores
  /\ call' = [call EXCEPT ![c] =
       [Ended("reading") EXCEPT !.session = stored.session, !.base = stored,
                                !.restores = TRUE]]
  /\ UNCHANGED <<child, native, stored, mem, loaded, live, fault, mat, writes,
                 counters, histories>>

(* The adapter reads the native history: at a moment of its own, when a    *)
(* Turn may have begun.                                                    *)
TakeSnapshot(c) ==
  /\ At(c, "reading") /\ (call[c].restores \/ call[c].session = loaded)
  /\ call' = [call EXCEPT ![c].pc = "taken", ![c].snap = native[call[c].session]]
  /\ UNCHANGED <<child, native, stored, mem, loaded, live, fault, mat, writes,
                 counters, histories>>

(* The session is busy, closed, or broken.                                 *)
Refuse(c) ==
  /\ At(c, "reading") \/ At(c, "opening")
  /\ Fail(c)
  /\ UNCHANGED <<child, native, stored, live, mat, writes, counters, histories>>

(* alignSnapshot: the mappings of the record, in the order of the snapshot,*)
(* with new IDs for Turns it does not know.                                *)
Aligned(c, record) ==
  [i \in DOMAIN call[c].snap |->
     LET t == call[c].snap[i]
         known == {m \in Elements(record.turns) : m.turn = t}
     IN  IF known = {} THEN [turn |-> t, by |-> c] ELSE CHOOSE m \in known : TRUE]

(* The Turns whose ID a snapshot endangers: the one under way, if the      *)
(* snapshot has it already, and those that ended since it was taken.       *)
Endangered(c, record) ==
  LET seen == Elements(call[c].snap)
  IN  (({live.turn} \ {None}) \cap (seen \ TurnsOf(record))) \cup (ended \ seen)

(* The snapshot is of another session than the record.                     *)
Foreign(c, record) == call[c].snap # <<>> /\ record.session # call[c].session

Align(c) ==
  /\ At(c, "taken")
  /\ LET record == IF call[c].restores THEN call[c].base ELSE mem[call[c].session]
         turns == Aligned(c, record)
     IN  \/ /\ Foreign(c, record)
            /\ Fail(c)
            /\ UNCHANGED <<mat, writes, crossed, apart>>
         \/ /\ ~Foreign(c, record)
            /\ crossed' = crossed \cup Endangered(c, record)
            /\ IF turns = record.turns
               THEN Project(c, "projecting", record, None, SpawnedIn(call[c].snap), writes)
               ELSE /\ call' = [call EXCEPT ![c].pc = "aligning",
                                            ![c].base = [record EXCEPT !.turns = turns]]
                    /\ writes' = Append(writes, c)
                    /\ UNCHANGED <<mem, loaded, fault, mat, apart>>
  /\ UNCHANGED <<child, native, stored, live, counters, begun, ended>>

(* Mutation: what is stored under another ID gives way.                    *)
MayReconcileAnyway(turns, session) == turns # <<>> => session = stored.session

(* reconcileTurnMappings: refused if a Turn of both has another ID.  The   *)
(* schema wants mappings of the record's session only.                     *)
MayReconcile(turns, session) ==
  /\ turns # <<>> => session = stored.session
  /\ \A m \in Elements(turns), n \in Elements(stored.turns) :
       m.turn = n.turn => m.by = n.by

Reconciled(turns) ==
  IF stored.turns = turns THEN stored
  ELSE [stored EXCEPT !.turns = turns, !.revision = @ + 1]

RunReconcile(c) ==
  /\ Runs(c) /\ At(c, "aligning")
  /\ LET turns == call[c].base.turns
         may == MayReconcile(turns, call[c].base.session)
     IN  \/ /\ may
            /\ stored' = Reconciled(turns)
            /\ Project(c, "projecting", stored', None, SpawnedIn(call[c].snap), Popped)
            /\ UNCHANGED faults
         \/ /\ ~may
            /\ Fail(c)
            /\ writes' = Popped
            /\ UNCHANGED <<stored, mat, apart, faults>>
         \/ /\ may /\ Reconciled(turns) # stored /\ faults < MaxFaults
            /\ faults' = faults + 1
            /\ Fail(c)
            /\ writes' = Popped
            /\ UNCHANGED <<stored, mat, apart>>
  /\ UNCHANGED <<child, native, live, crashes, begun, ended, crossed>>

-----------------------------------------------------------------------------
(* The rollback of the last Turn.  It keeps the record it was prepared     *)
(* from (base).                                                            *)

(* The adapter opens a session without the last Turn, whose snapshot must  *)
(* be one Turn shorter than the record.                                    *)
OpenWithout(c, s) ==
  /\ At(c, "opening")
  /\ native[s] = <<>> /\ mem[s] = NoRecord /\ s # stored.session
  /\ LET source == native[call[c].base.session]
         kept == SubSeq(source, 1, Len(source) - 1)
     IN  /\ source # <<>>
         /\ native' = [native EXCEPT ![s] = kept]
         /\ IF Len(kept) = Len(call[c].base.turns) - 1
            THEN /\ call' = [call EXCEPT ![c].pc = "replacing", ![c].session = s,
                                         ![c].snap = kept]
                 /\ writes' = Append(writes, c)
                 /\ UNCHANGED <<mem, loaded, fault>>
            ELSE Fail(c) /\ UNCHANGED writes
  /\ UNCHANGED <<child, stored, live, mat, counters, histories>>

(* replaceReadySessionAfterLastTurn: refused if the record has changed.    *)
MayReplace(c) ==
  /\ stored.revision = call[c].base.revision
  /\ stored.session = call[c].base.session

(* Mutation: the last mapping is taken off what the snapshot has already   *)
(* lost it from.                                                           *)
RetainedTooFew(c) ==
  [session |-> call[c].session,
   turns |-> [i \in 1 .. Len(call[c].snap) - 1 |->
                [turn |-> call[c].snap[i], by |-> call[c].base.turns[i].by]],
   revision |-> call[c].base.revision + 1]

(* The Host Turn IDs stay with their places.                               *)
Retained(c) ==
  [session |-> call[c].session,
   turns |-> [i \in DOMAIN call[c].snap |->
                [turn |-> call[c].snap[i], by |-> call[c].base.turns[i].by]],
   revision |-> call[c].base.revision + 1]

RunReplace(c) ==
  /\ Runs(c) /\ At(c, "replacing")
  /\ \/ /\ MayReplace(c)
        /\ stored' = Retained(c)
        /\ call' = [call EXCEPT ![c].pc = "noting"]
        /\ writes' = Append(Popped, c)
        /\ UNCHANGED <<mem, loaded, fault, faults>>
     \/ /\ ~MayReplace(c)
        /\ Fail(c)
        /\ writes' = Popped
        /\ UNCHANGED <<stored, faults>>
     \/ /\ MayReplace(c) /\ faults < MaxFaults
        /\ faults' = faults + 1
        /\ Fail(c)
        /\ writes' = Popped
        /\ UNCHANGED stored
  /\ UNCHANGED <<child, native, live, mat, crashes, begun, ended, crossed, apart>>

(* #recordSuperseded, whose failure nobody sees; then the children that    *)
(* the new history has are moved along.                                    *)
RunNote(c) ==
  /\ Runs(c) /\ At(c, "noting")
  /\ Project(c, "retaining", Retained(c), call[c].base.session,
             SpawnedIn(call[c].snap), Popped)
  /\ UNCHANGED <<child, native, stored, live, counters, begun, ended, crossed>>

-----------------------------------------------------------------------------
(* The mutations of a materialization.                                     *)

Stage(c) == IF c \in Lives THEN "event" ELSE call[c].pc
Record(c) == call[c].base
Finished(c, ok) ==
  /\ Projected(c, Stage(c), Record(c), ok)
  /\ writes' = Popped
  /\ mat' = [mat EXCEPT ![c] = NoWait]

(* Mutation: the store is asked before, not again when it creates.         *)
NoneRepeated(c) == {}

(* The record that the same request made in the meantime.                  *)
Repeated(c) == ByRequest(Record(c).session)

(* createProvisional: the same request gives the record there is.  Then    *)
(* commitReady, unless that one is ready.                                  *)
RunCreate(c) ==
  /\ Runs(c) /\ mat[c].step = "create"
  /\ LET session == Record(c).session IN
       IF Repeated(c) \cap ReadyHomes # {}
       THEN Finished(c, TRUE) /\ UNCHANGED child
       ELSE \E h \in IF Repeated(c) = {} THEN Unused ELSE Repeated(c) :
              /\ \A g \in Unused : h \in Unused => h <= g
              /\ child' = IF h \in Unused THEN Created(h, session, mat[c].of) ELSE child
              /\ mat' = [mat EXCEPT ![c].step = "commit", ![c].home = h]
              /\ writes' = Append(Popped, c)
              /\ UNCHANGED <<call, mem, loaded, fault, apart>>
  /\ UNCHANGED <<native, stored, live, counters, begun, ended, crossed>>

RunCommit(c) ==
  /\ Runs(c) /\ mat[c].step = "commit"
  /\ child' = Committed(mat[c].home, Record(c).session)
  /\ Finished(c, TRUE)
  /\ UNCHANGED <<native, stored, live, counters, begun, ended, crossed>>

RunRebind(c) ==
  /\ Runs(c) /\ mat[c].step = "rebind"
  /\ LET may == MayRebind(mat[c].home, Record(c).session, mat[c].previous,
                          stored.session)
     IN  /\ child' = IF may THEN Rebound(mat[c].home, Record(c).session) ELSE child
         /\ Finished(c, may)
  /\ UNCHANGED <<native, stored, live, counters, begun, ended, crossed>>

(* The write of one of these fails.                                        *)
RunFails(c) ==
  /\ Runs(c) /\ mat[c].step # "nothing"
  /\ mat[c].step = "create" => Repeated(c) = {}
  /\ faults < MaxFaults
  /\ faults' = faults + 1
  /\ Finished(c, FALSE)
  /\ UNCHANGED <<child, native, stored, live, crashes, begun, ended, crossed>>

-----------------------------------------------------------------------------
(* The Host dies.  The next one finds the records that were ready.         *)
Crash ==
  /\ crashes < MaxCrashes
  /\ crashes' = crashes + 1
  /\ child' = OnlyReady
  /\ mem' = [s \in Sessions |-> NoRecord]
  /\ loaded' = None
  /\ live' = NoTurn
  /\ fault' = FALSE
  /\ call' = [c \in Callers |-> IF Busy(c) THEN Ended("failed") ELSE call[c]]
  /\ mat' = [c \in Callers |-> NoWait]
  /\ writes' = <<>>
  /\ crossed' = crossed \cup ({live.turn} \ {None})
  /\ apart' = IF \/ "not replaced" \in apart
                 \/ \E c \in Rollbacks : At(c, "noting") \/ At(c, "retaining")
              THEN {"not moved"} ELSE apart \cap {"not moved"}
  /\ UNCHANGED <<native, stored, faults, begun, ended>>

Read(c) ==
  \/ Begin(c) \/ TakeSnapshot(c) \/ Refuse(c) \/ Align(c) \/ RunReconcile(c)
Rollback(c) ==
  \/ \E s \in Sessions : OpenWithout(c, s)
  \/ RunReplace(c) \/ RunNote(c)
Materialize(c) ==
  \/ RunCreate(c) \/ RunCommit(c) \/ RunRebind(c) \/ RunFails(c)

Next ==
  \/ \E t \in Turns : StartTurn(t)
  \/ RecordTurn \/ EndTurn \/ EndUnnamed \/ RunPersist
  \/ \E c \in Lives : LiveChild(c)
  \/ \E c \in Calls : Read(c)
  \/ \E c \in Reads : Restore(c)
  \/ \E c \in Rollbacks : Rollback(c)
  \/ \E c \in Callers : Materialize(c)
  \/ Crash

Spec == Init /\ [][Next]_vars

-----------------------------------------------------------------------------
(* The fields keep their types: the store and the objects have mappings of *)
(* Turns, the children are records of the store.                           *)
TypeOK ==
  /\ child \in [Homes -> Children]
  /\ \A s \in Sessions : Elements(native[s]) \subseteq Turns
  /\ Elements(stored.turns) \subseteq Mappings /\ stored.session \in Sessions
  /\ loaded \in Sessions \cup {None}
  /\ live \in [turn : Turns \cup {None}, phase : {"idle", "running", "ending"}]
  /\ fault \in BOOLEAN
  /\ apart \subseteq {"overtaken", "not adopted", "not replaced", "not moved"}
  /\ Elements(writes) \subseteq Callers \cup {Terminal}

(* A Turn keeps the Host Turn ID it was shown with.  The exceptions        *)
(* (crossed): it ended without a native identity, could not be stored, or  *)
(* was under way when the Host died; or a snapshot that was read on one    *)
(* side of its end is aligned on the other, as nothing orders the two:     *)
(* alignSnapshot draws an ID for a native turn that the record does not    *)
(* have, which reconcileTurnMappings and upsertTurnMappings let no other   *)
(* replace.                                                                *)
TurnKeepsId ==
  \A m \in Elements(stored.turns) : m.by = Own \/ m.turn \in crossed

(* A Turn that ended with a native identity is in the record as long as    *)
(* the stored session has it, rollbacks of others, reads and restarts      *)
(* notwithstanding, with the exceptions above (persistTerminalIdentity).   *)
EndedTurnsAreStored ==
  \A t \in ended :
    t # live.turn /\ t \in Elements(native[stored.session])
      => t \in TurnsOf(stored) \cup crossed

(* Every mutation that could still change the record or the child is over. *)
Quiet ==
  /\ writes = <<>>
  /\ \A c \in Calls : call[c].pc \notin {"aligning", "projecting", "retaining"}

(* When no call is under way in the store, the loaded object has the       *)
(* record that is stored (thread.record), from which the next read draws   *)
(* the IDs.  The exceptions (apart), each until a Turn is stored or the    *)
(* Thread is loaded again: a call took over a record older than the        *)
(* stored one or one of another session; a projection failed after its     *)
(* mappings were stored; a rollback was stored but its session could not   *)
(* replace the loaded one.                                                 *)
MemoryIsStored ==
  Quiet /\ loaded # None => mem[loaded] = stored \/ apart \ {"not moved"} # {}

(* The Thread that is found for the Subagent of a Turn was made for it,    *)
(* though a session may use a native ID again after a rollback took its    *)
(* first owner away (childCreateRequest, "later reused IDs").              *)
ChildIsItsOwn ==
  \A s \in Sessions, t \in Spawning :
    t \in Elements(native[s]) => \A h \in Found(s, None) : child[h].of = t

(* A caller that projects a session which the store does not have any more,*)
(* or which does not have the Turn.                                        *)
Misplaced(c) ==
  \/ Record(c).session # stored.session
  \/ mat[c].of \notin Elements(native[Record(c).session])

(* A Subagent gets no second Thread, however its live event, reads and a   *)
(* rollback overlap ("one Host identity in live events and restored        *)
(* history"): but for a caller that still projects the session a rollback  *)
(* replaced, and after a Host died, or failed to load the new session,     *)
(* with the children left at the old one.                                  *)
OneThreadPerChild ==
  [][\/ Twins' \subseteq Twins
     \/ "not moved" \in apart
     \/ \E c \in Callers : Runs(c) /\ Misplaced(c)]_vars
=============================================================================
