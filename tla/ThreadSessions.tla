--------------------------- MODULE ThreadSessions ---------------------------
(***************************************************************************)
(* The live sessions of one external Thread in one Host:                   *)
(* external-thread-runtime.ts (locate, resolve, restore, replace),         *)
(* external-thread-idle-release.ts, desktop-request-queue.ts, and the      *)
(* operations that app-server-host.ts and the delegation coordinator run   *)
(* on a Thread, all under src/packages/host-runtime/src/.                  *)
(*                                                                         *)
(* An instance is one ExternalThread object with its session.  Requests of *)
(* Desktop go through the queue of the Thread, those of the delegation     *)
(* control do not; both count as operations while they may hold an         *)
(* instance.  A session that nobody uses for long is closed by a candidate *)
(* that waits in the same queue.                                           *)
(*                                                                         *)
(* The Thread is not a Subagent.  Turns are reduced to the flag that the   *)
(* Host keeps; a native session is named after the instance that created   *)
(* it.                                                                     *)
(***************************************************************************)
EXTENDS Naturals, Sequences, FiniteSets

CONSTANTS
  Ops,        \* requests and control calls, each of which comes once
  KindOf,     \* what each of them does
  Most,       \* how many instances may come to exist
  Release     \* the entry of a release candidate in the queue

Kinds == {"turn", "delete", "rollback", "control"}

ASSUME SessionsAssumption ==
  /\ KindOf \in [Ops -> Kinds]
  /\ Most \in Nat \ {0}
  /\ Release \notin Ops
  /\ 0 \notin Ops

Instances == 1 .. Most

VARIABLES
  record,      \* the stored record: is it there, and its native session
  inst,        \* the instances
  projecting,  \* instances one of whose outputs is being projected
  loaded,      \* the instance in #threads, or 0
  restoring,   \* the instance that #restores waits for, or 0
  stale,       \* has the loaded instance been inactive for the timeout
  candidate,   \* the instance scheduled for release, or 0
  releasing,   \* the instance that #closing waits for, or 0
  queue,       \* the Desktop requests of the Thread, the first one running
  ops,         \* the state of each operation
  enabled,     \* the setting
  host,        \* how far the shutdown of the Host is
  retired,     \* instances that a delete or a replacement closes (history)
  unconfirmed, \* instances whose failed close was swallowed (history)
  crossed      \* those lost when a delete met a restore, or a rollback a Turn

vars == <<record, inst, projecting, loaded, restoring, stale, candidate,
          releasing, queue, ops, enabled, host, retired, unconfirmed, crossed>>

histories == <<retired, unconfirmed, crossed>>
releases == <<candidate, releasing>>
settings == <<enabled, host>>

None == 0

Instance ==
  [native  : {"none", "opening", "live", "closing", "gone"},
   ref     : Instances,   \* its native session
   heard   : BOOLEAN,     \* registered: the Host consumes its outputs
   running : BOOLEAN,     \* a Turn runs (running, activeTurnId)
   fault   : BOOLEAN,     \* outputFailed or persistenceError
   failed  : BOOLEAN]     \* closeFailed

(* An operation: where it is, the instance it holds or waits for, the one  *)
(* that a rollback prepared, and whether the record it prepared that from  *)
(* is still current.                                                       *)
Phases ==
  {"new", "waiting", "entered", "finding", "awaiting", "using", "detached",
   "starting", "prepared", "committed", "replacing", "closing", "done"}

Operation ==
  [pc : Phases, inst : Instances \cup {None}, next : Instances \cup {None},
   valid : BOOLEAN]

Idle == [pc |-> "new", inst |-> None, next |-> None, valid |-> TRUE]

Done == [Idle EXCEPT !.pc = "done"]

At(o, pc) == ops[o].pc = pc
Queued(o) == KindOf[o] # "control"
Running(o) == queue # <<>> /\ Head(queue) = o
Stopped == host \in {"stopped", "closing", "closed"}
Native(i) == inst[i].native
Alive(i) == Native(i) \in {"opening", "live", "closing"}

(* Mutation: an operation counts only while it is in the queue or called   *)
(* by the control server.                                                  *)
CountedUntilDetached ==
  {o \in Ops : ~Queued(o) /\ ops[o].pc \notin {"new", "waiting", "done"}}
    \cup {o \in Ops : Running(o) /\ ops[o].pc \notin {"waiting", "done"}}

(* #operations, those of outputs aside.                                    *)
Counted == {o \in Ops : ops[o].pc \notin {"new", "waiting", "done"}}

(* The first instance that does not exist yet.                             *)
Fresh(n) ==
  n \in Instances /\ Native(n) = "none"
    /\ \A m \in 1 .. n - 1 : Native(m) # "none"

-----------------------------------------------------------------------------
(* An earlier Host had the Thread open, or this one has it.                *)
Init ==
  /\ record = [removed |-> FALSE, ref |-> 1]
  /\ loaded \in {None, 1}
  /\ inst = [i \in Instances |->
       [native |-> IF i # 1 THEN "none" ELSE IF loaded = 1 THEN "live" ELSE "gone",
        ref |-> 1, heard |-> i = loaded, running |-> FALSE,
        fault |-> FALSE, failed |-> FALSE]]
  /\ projecting = {}
  /\ restoring = None /\ candidate = None /\ releasing = None
  /\ stale = FALSE
  /\ queue = <<>>
  /\ ops = [o \in Ops |-> Idle]
  /\ enabled = TRUE /\ host = "open"
  /\ retired = {} /\ unconfirmed = {} /\ crossed = {}

(* The operation is over: the finally of #track, which touches the loaded  *)
(* instance if it was the last one, and the next entry of the queue.       *)
Over(done) ==
  /\ ops' = [o \in Ops |-> IF o \in done THEN Done ELSE ops[o]]
  /\ queue' = IF queue # <<>> /\ Head(queue) \in done THEN Tail(queue) ELSE queue
  /\ stale' = (stale /\ (Counted \ done # {} \/ projecting # {}))

Finish(o) == Over({o})

Holds(o, i, pc) == ops' = [ops EXCEPT ![o].pc = pc, ![o].inst = i]

-----------------------------------------------------------------------------
(* A Desktop request is read and queued (#forwardDesktop); a control call  *)
(* comes in over the delegation API, until the Host has shut down.         *)
Request(o) ==
  /\ At(o, "new")
  /\ IF Queued(o) THEN host = "open" /\ queue' = Append(queue, o)
                  ELSE host # "closed" /\ UNCHANGED queue
  /\ ops' = [ops EXCEPT ![o].pc = "waiting"]
  /\ UNCHANGED <<record, inst, projecting, loaded, restoring, stale, releases,
                 settings, histories>>

(* runOperation: past the closing barrier, and not in a Host that stopped  *)
(* while it waited there.                                                  *)
Enter(o) ==
  /\ At(o, "waiting")
  /\ Queued(o) => Running(o)
  /\ releasing = None
  /\ IF Stopped THEN Finish(o)
     ELSE ops' = [ops EXCEPT ![o].pc = "entered"] /\ UNCHANGED <<queue, stale>>
  /\ UNCHANGED <<record, inst, projecting, loaded, restoring, releases, settings,
                 histories>>

(* Mutation: the failure mark is not looked at.                            *)
LocateUnchecked(o) ==
  /\ At(o, "entered")
  /\ IF loaded = None
     THEN ops' = [ops EXCEPT ![o].pc = "finding"] /\ UNCHANGED <<queue, stale>>
     ELSE /\ Holds(o, loaded, "using")
          /\ stale' = (stale /\ KindOf[o] = "delete")
          /\ UNCHANGED queue
  /\ UNCHANGED <<record, inst, projecting, loaded, restoring, releases, settings,
                 histories>>

(* locate() of a Thread in memory: an instance that failed to close is     *)
(* refused.  A delete only locates, the others resolve and touch.          *)
Locate(o) ==
  /\ At(o, "entered")
  /\ IF loaded = None
     THEN ops' = [ops EXCEPT ![o].pc = "finding"] /\ UNCHANGED <<queue, stale>>
     ELSE IF inst[loaded].failed THEN Finish(o)
     ELSE /\ Holds(o, loaded, "using")
          /\ stale' = (stale /\ KindOf[o] = "delete")
          /\ UNCHANGED queue
  /\ UNCHANGED <<record, inst, projecting, loaded, restoring, releases, settings,
                 histories>>

StartRestore(o) ==
  \E n \in Instances :
    /\ Fresh(n)
    /\ inst' = [inst EXCEPT ![n].native = "opening", ![n].ref = record.ref]
    /\ restoring' = n
    /\ Holds(o, n, "awaiting")
    /\ UNCHANGED <<queue, stale>>

(* Mutation: restores are not merged.                                      *)
FindUnmerged(o) ==
  /\ At(o, "finding")
  /\ IF record.removed THEN Finish(o) /\ UNCHANGED <<inst, restoring>>
     ELSE StartRestore(o)
  /\ UNCHANGED <<record, projecting, loaded, releases, settings, histories>>

(* The record as it is stored now; then resolve() joins a restore under    *)
(* way, takes an instance that came meanwhile, or starts a restore.        *)
Find(o) ==
  /\ At(o, "finding")
  /\ CASE record.removed ->
            Finish(o) /\ UNCHANGED <<inst, restoring>>
       [] ~record.removed /\ KindOf[o] = "delete" ->
            Holds(o, None, "using") /\ UNCHANGED <<queue, stale, inst, restoring>>
       [] ~record.removed /\ KindOf[o] # "delete" /\ restoring # None ->
            Holds(o, restoring, "awaiting")
              /\ UNCHANGED <<queue, stale, inst, restoring>>
       [] ~record.removed /\ KindOf[o] # "delete" /\ restoring = None
            /\ loaded # None ->
            /\ Holds(o, loaded, "using") /\ stale' = FALSE
            /\ UNCHANGED <<queue, inst, restoring>>
       [] OTHER -> StartRestore(o)
  /\ UNCHANGED <<record, projecting, loaded, releases, settings, histories>>

-----------------------------------------------------------------------------
(* #restore: adapter.open, then the Snapshot and its alignment, then       *)
(* register() - or the session is closed again and the restore fails.      *)
RestoreOpens ==
  /\ restoring # None /\ Native(restoring) = "opening"
  /\ inst' = [inst EXCEPT ![restoring].native = "live"]
  /\ UNCHANGED <<record, projecting, loaded, restoring, stale, releases, queue,
                 ops, settings, histories>>

Waiters == {o \in Ops : At(o, "awaiting") /\ ops[o].inst = restoring}

(* A record that is gone is noticed only if the Turn mappings changed and  *)
(* have to be written.                                                     *)
RestoreRegisters ==
  /\ restoring # None /\ Native(restoring) = "live"
  /\ loaded' = restoring
  /\ restoring' = None
  /\ inst' = [inst EXCEPT ![restoring].heard = TRUE]
  /\ stale' = FALSE
  /\ ops' = [o \in Ops |-> IF o \in Waiters THEN [ops[o] EXCEPT !.pc = "using"]
                                            ELSE ops[o]]
  /\ crossed' = crossed \cup {i \in {restoring} : record.removed}
  /\ UNCHANGED <<record, projecting, releases, queue, settings, retired,
                 unconfirmed>>

RestoreAborts ==
  /\ restoring # None /\ Native(restoring) = "live"
  /\ inst' = [inst EXCEPT ![restoring].native = "closing"]
  /\ UNCHANGED <<record, projecting, loaded, restoring, stale, releases, queue,
                 ops, settings, histories>>

(* The open fails, or the close of an aborted restore settles; that it may *)
(* have failed is swallowed.                                               *)
RestoreFails ==
  /\ restoring # None
  /\ \/ /\ Native(restoring) \in {"opening", "closing"}
        /\ inst' = [inst EXCEPT ![restoring].native = "gone"]
        /\ UNCHANGED unconfirmed
     \/ /\ Native(restoring) = "closing"
        /\ unconfirmed' = unconfirmed \cup {restoring}
        /\ UNCHANGED inst
  /\ restoring' = None
  /\ Over(Waiters)
  /\ UNCHANGED <<record, projecting, loaded, releases, settings, retired, crossed>>

-----------------------------------------------------------------------------
(* turn/start leaves the queue and goes on as an operation of its own,     *)
(* which is counted before the queued one ends (#dispatchDesktopReply).    *)
Detach(o) ==
  /\ KindOf[o] = "turn" /\ At(o, "using")
  /\ ops' = [ops EXCEPT ![o].pc = "detached"]
  /\ queue' = Tail(queue)
  /\ UNCHANGED <<record, inst, projecting, loaded, restoring, stale, releases,
                 settings, histories>>

(* The Turn is marked running before the session is asked to start it;     *)
(* only Desktop is refused an instance that is no longer loaded.           *)
StartTurn(o) ==
  /\ \/ At(o, "detached")
     \/ KindOf[o] = "control" /\ At(o, "using")
  /\ LET i == ops[o].inst IN
       IF inst[i].running \/ (Queued(o) /\ loaded # i)
       THEN Finish(o) /\ UNCHANGED inst
       ELSE /\ inst' = [inst EXCEPT ![i].running = TRUE]
            /\ ops' = [ops EXCEPT ![o].pc = "starting"]
            /\ UNCHANGED <<queue, stale>>
  /\ UNCHANGED <<record, projecting, loaded, restoring, releases, settings,
                 histories>>

StartSettles(o) ==
  /\ At(o, "starting")
  /\ LET i == ops[o].inst IN
       \/ Native(i) = "live" /\ UNCHANGED inst
       \/ inst' = [inst EXCEPT ![i].running = FALSE]
  /\ Finish(o)
  /\ UNCHANGED <<record, projecting, loaded, restoring, releases, settings,
                 histories>>

(* A control call that only reads, or any operation that fails while it    *)
(* uses the session.                                                       *)
UseEnds(o) ==
  /\ At(o, "using") \/ At(o, "detached")
  /\ Finish(o)
  /\ UNCHANGED <<record, inst, projecting, loaded, restoring, releases, settings,
                 histories>>

-----------------------------------------------------------------------------
(* #deleteExternalThread: the record goes, then whatever is in #threads by *)
(* now, and then the session that was located is closed.                   *)
DeleteRecord(o) ==
  /\ KindOf[o] = "delete" /\ At(o, "using")
  /\ record' = [record EXCEPT !.removed = TRUE]
  /\ loaded' = None
  /\ crossed' = crossed \cup ({loaded} \ {ops[o].inst, None})
  /\ LET i == ops[o].inst IN
       IF i = None
       THEN Finish(o) /\ UNCHANGED <<inst, retired>>
       ELSE /\ inst' = [inst EXCEPT ![i].native = IF @ = "gone" THEN @ ELSE "closing"]
            /\ retired' = retired \cup {i}
            /\ ops' = [ops EXCEPT ![o].pc = "closing"]
            /\ UNCHANGED <<queue, stale>>
  /\ UNCHANGED <<projecting, restoring, releases, settings, unconfirmed>>

DeleteEnds(o) ==
  /\ KindOf[o] = "delete" /\ At(o, "closing")
  /\ LET i == ops[o].inst IN
       \/ Native(i) = "gone" /\ i \notin projecting /\ UNCHANGED unconfirmed
       \/ Native(i) = "closing" /\ unconfirmed' = unconfirmed \cup {i}
  /\ Finish(o)
  /\ UNCHANGED <<record, inst, projecting, loaded, restoring, releases, settings,
                 retired, crossed>>

-----------------------------------------------------------------------------
(* executeExternalThreadRollback: another native session is derived from   *)
(* the record as it is now, while control calls and Turns of the Harness   *)
(* go on.                                                                  *)
RollbackPrepares(o) ==
  /\ KindOf[o] = "rollback" /\ At(o, "using")
  /\ ~inst[ops[o].inst].running
  /\ \E n \in Instances :
       /\ Fresh(n)
       /\ inst' = [inst EXCEPT ![n].native = "live", ![n].ref = n]
       /\ ops' = [ops EXCEPT ![o].pc = "prepared", ![o].next = n]
  /\ UNCHANGED <<record, projecting, loaded, restoring, stale, releases, queue,
                 settings, histories>>

(* The candidate is refused, or the store rejects it: it is closed, and    *)
(* that this may have failed is swallowed.                                 *)
RollbackFails(o) ==
  /\ At(o, "prepared")
  /\ LET n == ops[o].next IN
       \/ inst' = [inst EXCEPT ![n].native = "gone"] /\ UNCHANGED unconfirmed
       \/ unconfirmed' = unconfirmed \cup {n} /\ UNCHANGED inst
  /\ Finish(o)
  /\ UNCHANGED <<record, projecting, loaded, restoring, releases, settings,
                 retired, crossed>>

(* Mutation: the record is committed whatever happened to it meanwhile.    *)
CommitUnchecked(o) ==
  /\ At(o, "prepared")
  /\ record' = [record EXCEPT !.ref = ops[o].next]
  /\ ops' = [ops EXCEPT ![o].pc = "committed"]
  /\ UNCHANGED <<inst, projecting, loaded, restoring, stale, releases, queue,
                 settings, histories>>

(* commitForkRollback, commitLastTurnRollback: the revision must be that   *)
(* of the record it was prepared from.                                     *)
RollbackCommits(o) ==
  /\ At(o, "prepared")
  /\ ops[o].valid /\ ~record.removed /\ record.ref = inst[ops[o].inst].ref
  /\ record' = [record EXCEPT !.ref = ops[o].next]
  /\ ops' = [ops EXCEPT ![o].pc = "committed"]
  /\ UNCHANGED <<inst, projecting, loaded, restoring, stale, releases, queue,
                 settings, histories>>

(* replace() up to its await: it throws if a Turn runs or the instance is  *)
(* not the loaded one, and nobody closes the new session then.             *)
Replace(o) ==
  /\ At(o, "committed")
  /\ LET i == ops[o].inst IN
       IF inst[i].running \/ loaded # i
       THEN /\ crossed' = crossed \cup {i, ops[o].next}
            /\ Finish(o)
            /\ UNCHANGED <<inst, retired>>
       ELSE /\ inst' = [inst EXCEPT ![i].native = "closing"]
            /\ retired' = retired \cup {i}
            /\ ops' = [ops EXCEPT ![o].pc = "replacing"]
            /\ UNCHANGED <<queue, stale, crossed>>
  /\ UNCHANGED <<record, projecting, loaded, restoring, releases, settings,
                 unconfirmed>>

(* The old session is closed, or failed to, and the new one is registered. *)
Replaced(o) ==
  /\ At(o, "replacing")
  /\ LET i == ops[o].inst IN
       \/ Native(i) = "gone" /\ i \notin projecting /\ UNCHANGED unconfirmed
       \/ Native(i) = "closing" /\ unconfirmed' = unconfirmed \cup {i}
  /\ loaded' = ops[o].next
  /\ inst' = [inst EXCEPT ![ops[o].next].heard = TRUE]
  /\ Finish(o)
  /\ UNCHANGED <<record, projecting, restoring, releases, settings, retired,
                 crossed>>

-----------------------------------------------------------------------------
(* An instance whose outputs the Host consumes.                            *)
Registered(i) == Native(i) \in {"live", "closing"} /\ inst[i].heard

(* An output that begins or ends a Turn reaches the Host; one that comes   *)
(* while the session closes is consumed, and counted, all the same.        *)
OutputBegins(i) ==
  /\ Registered(i) /\ i \notin projecting /\ ~inst[i].fault
  /\ Native(i) = "live" \/ inst[i].running
  /\ projecting' = projecting \cup {i}
  /\ stale' = (stale /\ i # loaded)
  /\ UNCHANGED <<record, inst, loaded, restoring, releases, queue, ops, settings,
                 histories>>

OutputOver(i) ==
  /\ i \in projecting
  /\ projecting' = projecting \ {i}
  /\ stale' = (stale /\ (Counted # {} \/ projecting # {i}))
  /\ UNCHANGED <<loaded, restoring, releases, queue, settings, histories>>

(* An autonomous Turn of the Harness.                                      *)
TurnBegins(i) ==
  /\ OutputOver(i)
  /\ Native(i) = "live" /\ ~inst[i].running
  /\ inst' = [inst EXCEPT ![i].running = TRUE]
  /\ UNCHANGED <<record, ops>>

(* The native turn is stored, which gives the record a new revision; the   *)
(* store refuses it if the record is gone or of another native session.    *)
(* The projection waits for the answer to a turn/start.                    *)
TurnEnds(i) ==
  /\ OutputOver(i)
  /\ inst[i].running
  /\ \A o \in Ops : Queued(o) /\ At(o, "starting") => ops[o].inst # i
  /\ \/ /\ ~record.removed /\ record.ref = inst[i].ref
        /\ inst' = [inst EXCEPT ![i].running = FALSE]
        /\ ops' = [o \in Ops |->
             [ops[o] EXCEPT !.valid = @ /\ ops[o].pc # "prepared"]]
     \/ /\ inst' = [inst EXCEPT ![i].running = FALSE, ![i].fault = TRUE]
        /\ UNCHANGED ops
  /\ UNCHANGED record

(* The output stream of the session breaks.                                *)
OutputBreaks(i) ==
  /\ Registered(i) /\ i \notin projecting /\ ~inst[i].fault
  /\ inst' = [inst EXCEPT ![i].fault = TRUE, ![i].running = FALSE]
  /\ stale' = (stale /\ i # loaded)
  /\ UNCHANGED <<record, projecting, loaded, restoring, releases, queue, ops,
                 settings, histories>>

(* session.close() and the end of its outputs, which the terminal event of *)
(* a Turn under way precedes.  It may come at any time, or never.          *)
NativeCloses(i) ==
  /\ Native(i) = "closing" /\ i # restoring /\ i \notin projecting
  /\ inst[i].running => \E o \in Ops : At(o, "starting") /\ ops[o].inst = i
  /\ inst' = [inst EXCEPT ![i].native = "gone"]
  /\ UNCHANGED <<record, projecting, loaded, restoring, stale, releases, queue,
                 ops, settings, histories>>

-----------------------------------------------------------------------------
(* The setting is changed by Desktop.                                      *)
Configure ==
  /\ host = "open"
  /\ enabled' = ~enabled
  /\ UNCHANGED <<record, inst, projecting, loaded, restoring, stale, releases,
                 queue, ops, host, histories>>

TimePasses ==
  /\ loaded # None /\ ~stale
  /\ stale' = TRUE
  /\ UNCHANGED <<record, inst, projecting, loaded, restoring, releases, queue,
                 ops, settings, histories>>

(* #eligible, but for what canRelease() may hold against it.               *)
Eligible(i) ==
  /\ enabled /\ ~Stopped
  /\ loaded = i /\ releasing = None
  /\ Counted = {} /\ projecting = {}
  /\ ~inst[i].fault /\ ~inst[i].failed /\ ~inst[i].running
  /\ stale

(* check(): the candidate waits in the queue of the Thread.                *)
Check ==
  /\ loaded # None /\ candidate = None
  /\ Eligible(loaded)
  /\ candidate' = loaded
  /\ queue' = Append(queue, Release)
  /\ UNCHANGED <<record, inst, projecting, loaded, restoring, stale, releasing,
                 ops, settings, histories>>

ReleaseTurn == queue # <<>> /\ Head(queue) = Release /\ releasing = None

(* The candidate is looked at again; canRelease() may say no at any time.  *)
ReleaseSkipped ==
  /\ ReleaseTurn
  /\ candidate' = None
  /\ queue' = Tail(queue)
  /\ UNCHANGED <<record, inst, projecting, loaded, restoring, stale, releasing,
                 ops, settings, histories>>

ReleaseBegins ==
  /\ ReleaseTurn
  /\ Eligible(candidate)
  /\ releasing' = candidate
  /\ inst' = [inst EXCEPT ![candidate].native = "closing"]
  /\ UNCHANGED <<record, projecting, loaded, restoring, stale, candidate, queue,
                 ops, settings, histories>>

ReleaseOver ==
  /\ releasing # None
  /\ releasing' = None /\ candidate' = None
  /\ queue' = Tail(queue)
  /\ UNCHANGED <<record, projecting, restoring, stale, ops, settings, histories>>

(* #close after its race: the instance is removed if its history is safe   *)
(* and it is still the loaded one.                                         *)
ReleaseSettles ==
  /\ ReleaseOver
  /\ Native(releasing) = "gone"
  /\ IF inst[releasing].fault \/ loaded # releasing
     THEN inst' = [inst EXCEPT ![releasing].failed = TRUE] /\ UNCHANGED loaded
     ELSE loaded' = None /\ UNCHANGED inst

(* Mutation: nothing but a broken output ends the wait for the close.      *)
ReleaseWaits ==
  /\ ReleaseOver
  /\ Native(releasing) = "closing" /\ inst[releasing].fault
  /\ inst' = [inst EXCEPT ![releasing].failed = TRUE]
  /\ UNCHANGED loaded

(* The close fails, or has not settled after 60 s.                         *)
ReleaseFails ==
  /\ ReleaseOver
  /\ Native(releasing) = "closing"
  /\ inst' = [inst EXCEPT ![releasing].failed = TRUE]
  /\ UNCHANGED loaded

-----------------------------------------------------------------------------
(* The shutdown of the Host: the input ends, the queue drains, operations  *)
(* drain, and then the session that is loaded by now is closed.            *)
InputEnds ==
  /\ host = "open"
  /\ host' = "ending" /\ enabled' = FALSE
  /\ UNCHANGED <<record, inst, projecting, loaded, restoring, stale, releases,
                 queue, ops, histories>>

Stop ==
  /\ host = "ending" /\ queue = <<>>
  /\ host' = "stopped"
  /\ UNCHANGED <<record, inst, projecting, loaded, restoring, stale, releases,
                 queue, ops, enabled, histories>>

CloseLoaded ==
  inst' = [i \in Instances |->
    IF i = loaded /\ Native(i) = "live" THEN [inst[i] EXCEPT !.native = "closing"]
                                        ELSE inst[i]]

(* Mutation: operations under way are not awaited.                         *)
ShutdownEarly ==
  /\ host = "stopped"
  /\ host' = "closing"
  /\ CloseLoaded
  /\ UNCHANGED <<record, projecting, loaded, restoring, stale, releases, queue,
                 ops, enabled, histories>>

ShutdownCloses ==
  /\ host = "stopped" /\ Counted = {}
  /\ host' = "closing"
  /\ CloseLoaded
  /\ UNCHANGED <<record, projecting, loaded, restoring, stale, releases, queue,
                 ops, enabled, histories>>

ShutdownEnds ==
  /\ host = "closing"
  /\ loaded = None \/ loaded \notin projecting
  /\ unconfirmed' = unconfirmed \cup {i \in Instances : i = loaded /\ Alive(i)}
  /\ host' = "closed"
  /\ loaded' = None
  /\ UNCHANGED <<record, inst, projecting, restoring, stale, releases, queue, ops,
                 enabled, retired, crossed>>

-----------------------------------------------------------------------------
OperationStep(o) ==
  \/ Enter(o) \/ Locate(o) \/ Find(o)
  \/ Detach(o) \/ StartTurn(o) \/ StartSettles(o)
  \/ DeleteRecord(o) \/ DeleteEnds(o)
  \/ RollbackFails(o) \/ RollbackCommits(o) \/ Replace(o) \/ Replaced(o)

RestoreStep == RestoreOpens \/ RestoreRegisters \/ RestoreAborts \/ RestoreFails

ReleaseStep == ReleaseSkipped \/ ReleaseBegins \/ ReleaseSettles \/ ReleaseFails

OutputEnds(i) == TurnBegins(i) \/ TurnEnds(i)

Next ==
  \/ \E o \in Ops :
       Request(o) \/ OperationStep(o) \/ UseEnds(o) \/ RollbackPrepares(o)
  \/ RestoreStep
  \/ \E i \in Instances :
       OutputBegins(i) \/ OutputEnds(i) \/ OutputBreaks(i) \/ NativeCloses(i)
  \/ Configure \/ TimePasses \/ Check
  \/ ReleaseStep
  \/ InputEnds \/ Stop \/ ShutdownCloses \/ ShutdownEnds

Spec == Init /\ [][Next]_vars

(* What the Host awaits settles: an open and the steps of an operation,    *)
(* and the 60 s of a release, whatever the session does.  A close ordered  *)
(* by a delete or a replacement has no timeout, so it has to settle.       *)
Fairness ==
  /\ \A o \in Ops :
       WF_vars(OperationStep(o) \/ UseEnds(o) \/ RollbackPrepares(o))
  /\ WF_vars(RestoreStep)
  /\ WF_vars(ReleaseStep)

FairSpec == Spec /\ Fairness
-----------------------------------------------------------------------------
TypeOK ==
  /\ record \in [removed : BOOLEAN, ref : Instances]
  /\ inst \in [Instances -> Instance]
  /\ projecting \in SUBSET Instances
  /\ {loaded, restoring, candidate, releasing} \subseteq Instances \cup {None}
  /\ queue \in Seq(Ops \cup {Release})
  /\ ops \in [Ops -> Operation]
  /\ {stale, enabled} \subseteq BOOLEAN
  /\ host \in {"open", "ending", "stopped", "closing", "closed"}
  /\ {retired, unconfirmed, crossed} \subseteq SUBSET Instances

Using == {"using", "detached", "starting", "prepared", "committed"}

(* An operation that got hold of an instance has a live session until it   *)
(* ends: neither the release of an idle session nor the shutdown closes it *)
(* under its hands.  Only a delete or a rollback of the same Thread may.   *)
NotClosedInUse ==
  \A o \in Ops :
    ops[o].pc \in Using /\ ops[o].inst \notin retired \cup {None}
      => Native(ops[o].inst) = "live"

(* At most one session writes the history of a native session, whatever is *)
(* restored while what is closed or timed out - unless the Host swallowed  *)
(* that a close failed, or one was lost where two operations crossed.      *)
OneWriter ==
  \A i, j \in Instances :
    i # j /\ Alive(i) /\ Alive(j) /\ inst[i].ref = inst[j].ref
      => {i, j} \cap (unconfirmed \cup crossed) # {}

(* A session that did not close in order stays where it is and is used no  *)
(* more until the Host ends, whenever its close settles.                   *)
FailedStaysBlocked ==
  [][\A i \in Instances :
       inst[i].failed =>
         /\ inst'[i].failed
         /\ (loaded = i) => (loaded' = i \/ host' = "closed")
         /\ \A o \in Ops : (ops'[o].inst = i) => (ops[o].inst = i)]_vars

(* The Host knows every session it has: it is the loaded one, or somebody  *)
(* is opening or closing it - unless it was lost where a delete met a      *)
(* restore or a rollback met a Turn.                                       *)
NothingOrphaned ==
  \A i \in Instances :
    Native(i) \in {"opening", "live"} =>
      \/ i \in {loaded, restoring} \cup unconfirmed \cup crossed
      \/ \E o \in Ops : ops[o].next = i

(* The instance that requests get is of the session that the store names,  *)
(* and of a Thread that exists - but for a rollback between the two, and   *)
(* under the same reservation.                                             *)
LoadedIsStored ==
  \/ loaded \in crossed \cup {None}
  \/ ~record.removed /\ record.ref = inst[loaded].ref
  \/ \E o \in Ops : ops[o].pc \in {"committed", "replacing"}

(* When the Host is gone so are its sessions, but for those whose close    *)
(* failed, and under the same reservation.                                 *)
ShutdownIsComplete ==
  host = "closed" =>
    \A i \in Instances :
      Alive(i) => inst[i].failed \/ i \in unconfirmed \cup crossed

(* Every request gets past the queue and the barrier and ends, even if the *)
(* session it waits for never closes: as each comes once, in the end none  *)
(* is left that came and is not over.                                      *)
OperationsEnd == <>[](\A o \in Ops : At(o, "new") \/ At(o, "done"))
=============================================================================
