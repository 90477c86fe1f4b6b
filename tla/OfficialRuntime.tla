-------------------------- MODULE OfficialRuntime --------------------------
(***************************************************************************)
(* The official Codex process of one Host deployment:                      *)
(* OfficialRuntimeOwner, OfficialRuntimeScope and OfficialWorkGate of      *)
(* src/packages/host-runtime/src/codex-runtime/.                           *)
(*                                                                         *)
(* The three objects live in one event loop.  An action here is one        *)
(* external event (a process exit, a connection lost, a timer, a settled   *)
(* await of the backend, a client call) with everything the code runs      *)
(* before the next event: the synchronous calls between the three objects  *)
(* and the continuations of the promises they settle.  owner and scope are *)
(* records of the private fields, and the operators named for a method map *)
(* one record to the next, so that an action composes the methods it runs. *)
(*                                                                         *)
(* The clients of the owner, and how a start connects and initializes      *)
(* them, are OfficialClients.  Thread subscriptions and their restoration, *)
(* and server-initiated requests are not represented: no guard of the      *)
(* process life cycle reads them.                                          *)
(***************************************************************************)
EXTENDS Naturals, FiniteSets

CONSTANTS
  Requests,     \* native requests of the clients
  Recovery,     \* TRUE: the deployment replaces a failed process
  MaxFaults     \* bound on the faults of one behaviour

ASSUME OfficialRuntimeAssumption ==
  Recovery \in BOOLEAN /\ MaxFaults \in Nat

VARIABLES
  owner,     \* OfficialRuntimeOwner: phase, backend, generation, starting
             \* (#starting is pending) and stopping (#stopping is pending,
             \* behind #starting or at the process)
  scope,     \* OfficialRuntimeScope: starting (#starting is pending, in
             \* owner.stop() or in owner.start()), started, closed, timer; and
             \* late, the history of a start that found a request of an old
             \* generation still awaiting its connection
  gate,      \* #phase of OfficialWorkGate
  requests,  \* where each request is, and the generation that admitted it
  alive,     \* the generations whose process exists
  faults

vars == <<owner, scope, gate, requests, alive, faults>>

Phases == {"stopped", "starting", "running", "stopping", "unavailable"}
Gates == {"ready", "unavailable"}

Idle == [state |-> "idle", generation |-> 0]

TypeOK ==
  /\ owner \in [phase : Phases, backend : Nat, generation : Nat,
                starting : BOOLEAN, stopping : {"no", "join", "process"}]
  /\ scope \in [starting : {"no", "stop", "start"}, started : BOOLEAN,
                closed : BOOLEAN, timer : BOOLEAN, late : BOOLEAN]
  /\ gate \in Gates
  /\ requests \in [Requests -> [state : {"idle", "connecting", "sent"},
                                generation : Nat]]
  /\ alive \in SUBSET Nat
  /\ faults \in 0..MaxFaults

Init ==
  /\ owner = [phase |-> "stopped", backend |-> 0, generation |-> 0,
              starting |-> FALSE, stopping |-> "no"]
  /\ scope = [starting |-> "no", started |-> FALSE, closed |-> FALSE,
              timer |-> FALSE, late |-> FALSE]
  /\ gate = "unavailable"
  /\ requests = [r \in Requests |-> Idle]
  /\ alive = {}
  /\ faults = 0

-----------------------------------------------------------------------------
(* The methods of the owner. *)

\* start(): the next generation is owned before its process exists.
BeginStart(o) ==
  [o EXCEPT !.phase = "starting", !.backend = o.generation + 1,
            !.generation = o.generation + 1, !.starting = TRUE]

\* stop(): joins the stop under way, waits for a start under way, has nothing
\* to stop, or retires the clients and turns to the process.
StopProcess(o) == [o EXCEPT !.phase = "stopping", !.stopping = "process"]

BeginStop(o) ==
  CASE o.stopping # "no" -> o
    [] o.stopping = "no" /\ o.starting -> [o EXCEPT !.stopping = "join"]
    [] o.stopping = "no" /\ ~o.starting /\ o.backend = 0 ->
         [o EXCEPT !.phase = "stopped"]
    [] OTHER -> StopProcess(o)

\* #starting settles: a stop that waited for it goes on.
EndStart(o, phase) ==
  IF o.stopping = "join"
    THEN StopProcess([o EXCEPT !.starting = FALSE])
    ELSE [o EXCEPT !.phase = phase, !.starting = FALSE]

\* #retire of every client: a request that was sent ends with an error; one
\* that still awaits its connection has nothing to end it.
Retire == [r \in Requests |->
             IF requests[r].state = "sent" THEN Idle ELSE requests[r]]

(* The methods of the scope. *)

\* #scheduleRecovery
Schedule(s) ==
  [s EXCEPT !.timer = \/ s.timer
                      \/ Recovery /\ ~s.closed /\ s.starting = "no"]

\* The gate publishes "unavailable" to the scope: #generationFailed.  A gate
\* that was not ready publishes nothing.
GateFails(s) ==
  /\ gate' = "unavailable"
  /\ scope' = IF gate = "ready" /\ s.started THEN Schedule(s) ELSE s

\* start() goes on once the old process is gone; createBackend of a closed
\* scope throws.
Launch(o, s) ==
  IF s.closed
    THEN /\ owner' = o
         /\ scope' = [s EXCEPT !.starting = "no"]
    ELSE /\ owner' = BeginStart(o)
         /\ scope' = [s EXCEPT !.starting = "start"]

\* The process of the generation the owner has just taken.
Spawned(before) ==
  IF owner'.generation > owner.generation
    THEN before \cup {owner'.generation} ELSE before

-----------------------------------------------------------------------------
(* The scope starts: for a client that needs Codex, or for the timer. *)

\* #started, and nothing to replace.  (The other early return of start(), an
\* owner someone else has started, does not occur: only the scope starts it.)
NothingToStart == scope.started /\ (Recovery => owner.phase = "running")

\* start() of a scope with recovery first proves the exit of the process the
\* owner still holds.
StartAfterStop ==
  /\ ~scope.closed /\ scope.starting = "no" /\ ~NothingToStart
  /\ Recovery /\ owner.backend # 0
  /\ owner' = BeginStop(owner)
  /\ requests' = Retire
  /\ scope' = [scope EXCEPT !.starting = "stop", !.timer = FALSE]
  /\ UNCHANGED <<gate, alive, faults>>

StartNow ==
  /\ ~scope.closed /\ scope.starting = "no" /\ ~NothingToStart
  /\ owner.backend = 0 /\ owner.phase = "stopped" /\ ~owner.starting
  /\ Launch(owner, [scope EXCEPT !.timer = FALSE])
  /\ alive' = Spawned(alive)
  /\ UNCHANGED <<gate, requests, faults>>

ScopeStart == StartAfterStop \/ StartNow

\* The timer calls start(), which may find that there is nothing to start.
TimerFires ==
  /\ scope.timer
  /\ \/ ScopeStart
     \/ /\ NothingToStart
        /\ scope' = [scope EXCEPT !.timer = FALSE]
        /\ UNCHANGED <<owner, gate, requests, alive, faults>>

\* Mutation: start() does not look at #closed again.
LaunchedUnguarded ==
  /\ owner.starting /\ owner.phase = "starting"
  /\ owner' = EndStart(owner, "running")
  /\ LET settled == [scope EXCEPT !.starting = "no"]
         busy == \E r \in Requests : requests[r].state # "idle"
     IN IF busy
          THEN scope' = Schedule([settled EXCEPT !.started = TRUE, !.late = TRUE])
               /\ UNCHANGED gate
          ELSE scope' = [settled EXCEPT !.started = TRUE] /\ gate' = "ready"
  /\ UNCHANGED <<requests, alive, faults>>

\* backend.start() and the connections of the clients are up.  The gate
\* refuses to open over a request that an earlier generation admitted:
\* start() then rejects, but #started stays set.
Launched ==
  /\ owner.starting /\ owner.phase = "starting"
  /\ owner' = EndStart(owner, "running")
  /\ LET settled == [scope EXCEPT !.starting = "no"]
         busy == \E r \in Requests : requests[r].state # "idle"
     IN IF scope.closed
          THEN scope' = settled /\ UNCHANGED gate
          ELSE IF busy
            THEN scope' = Schedule([settled EXCEPT !.started = TRUE, !.late = TRUE])
                 /\ UNCHANGED gate
            ELSE scope' = [settled EXCEPT !.started = TRUE]
                 /\ gate' = "ready"
  /\ UNCHANGED <<requests, alive, faults>>

\* Mutation: a start that failed is not tried again.
LaunchGivenUp ==
  /\ owner.starting
  /\ faults' \in {faults, faults + 1} \cap 0..MaxFaults
  /\ owner' = EndStart(owner, "unavailable")
  /\ requests' = Retire
  /\ scope' = [scope EXCEPT !.starting = "no"]
  /\ UNCHANGED <<gate, alive>>

\* The start ends with an error: the backend or a connection failed, which is
\* a fault; or the generation was lost while it started, or a client it had to
\* connect has gone, which are none.
LaunchFails ==
  /\ owner.starting
  /\ faults' \in {faults, faults + 1} \cap 0..MaxFaults
  /\ owner' = EndStart(owner, "unavailable")
  /\ requests' = Retire
  /\ scope' = Schedule([scope EXCEPT !.starting = "no"])
  /\ UNCHANGED <<gate, alive>>

-----------------------------------------------------------------------------
(* The process and its connections. *)

\* backend.closed: an exit the owner did not ask for ends the generation, and
\* the owner stops it to release what it holds.
ProcessExits ==
  /\ owner.backend \in alive
  /\ faults < MaxFaults /\ faults' = faults + 1
  /\ alive' = alive \ {owner.backend}
  /\ IF owner.phase = "stopping"
       THEN UNCHANGED <<owner, scope, gate, requests>>
       ELSE /\ owner' = BeginStop([owner EXCEPT !.phase = "unavailable"])
            /\ requests' = Retire
            /\ GateFails(scope)

\* onClosed of a client's connection while the process may be alive: the
\* scope, not the owner, stops the process, and only if the gate was open.
TransportLost ==
  /\ owner.phase \in {"starting", "running"}
  /\ faults < MaxFaults /\ faults' = faults + 1
  /\ LET lost == [owner EXCEPT !.phase = "unavailable"]
     IN owner' = IF gate = "ready" /\ scope.started /\ ~scope.closed
                   THEN BeginStop(lost) ELSE lost
  /\ requests' = Retire
  /\ GateFails(scope)
  /\ UNCHANGED alive

\* Mutation: the owner lets go of the process without proof of its exit.
StopUnproven ==
  /\ owner.stopping = "process"
  /\ LET stopped == [owner EXCEPT !.phase = "stopped", !.backend = 0,
                                  !.stopping = "no"]
     IN IF scope.starting = "stop"
          THEN Launch(stopped, scope)
          ELSE owner' = stopped /\ UNCHANGED scope
  /\ alive' = Spawned(alive)
  /\ UNCHANGED <<gate, requests, faults>>

\* backend.stop() and backend.closed: the exit is proved.
StopSucceeds ==
  /\ owner.stopping = "process"
  /\ LET stopped == [owner EXCEPT !.phase = "stopped", !.backend = 0,
                                  !.stopping = "no"]
     IN IF scope.starting = "stop"
          THEN Launch(stopped, scope)
          ELSE owner' = stopped /\ UNCHANGED scope
  /\ alive' = Spawned(alive \ {owner.backend})
  /\ UNCHANGED <<gate, requests, faults>>

\* backend.stop() rejects: the exit is unconfirmed and the process stays owned.
StopFails ==
  /\ owner.stopping = "process"
  /\ faults < MaxFaults /\ faults' = faults + 1
  /\ owner' = [owner EXCEPT !.phase = "unavailable", !.stopping = "no"]
  /\ requests' = Retire
  /\ scope' = IF scope.starting = "stop"
                THEN Schedule([scope EXCEPT !.starting = "no"]) ELSE scope
  /\ UNCHANGED <<gate, alive>>

\* close() of the scope; it may be called again while a process is left.
Close ==
  /\ scope.closed => owner.backend # 0 /\ owner.stopping = "no"
  /\ owner' = BeginStop(owner)
  /\ scope' = [scope EXCEPT !.closed = TRUE, !.timer = FALSE]
  /\ IF owner'.phase = "stopping"
       THEN requests' = Retire /\ gate' = "unavailable"
       ELSE UNCHANGED <<requests, gate>>
  /\ UNCHANGED <<alive, faults>>

-----------------------------------------------------------------------------
(* The requests of the clients. *)

\* A request is admitted by the gate; its client has a connection to the
\* generation, or awaits one.
Admit(r) ==
  /\ gate = "ready" /\ requests[r].state = "idle"
  /\ \E next \in {"connecting", "sent"} :
       requests' = [requests EXCEPT ![r] = [state |-> next,
                                            generation |-> owner.generation]]
  /\ UNCHANGED <<owner, scope, gate, alive, faults>>

\* Mutation: a connection is used without asking which generation it is to.
ConnectUnchecked(r) ==
  /\ requests[r].state = "connecting"
  /\ \/ requests' = [requests EXCEPT ![r] = Idle]
     \/ requests' = [requests EXCEPT ![r].state = "sent"]
  /\ UNCHANGED <<owner, scope, gate, alive, faults>>

\* backend.connect() settles: with an error, or with a connection that is used
\* only if its generation still serves.
ConnectSettles(r) ==
  /\ requests[r].state = "connecting"
  /\ \/ requests' = [requests EXCEPT ![r] = Idle]
     \/ /\ owner.backend = requests[r].generation /\ owner.phase = "running"
        /\ requests' = [requests EXCEPT ![r].state = "sent"]
  /\ UNCHANGED <<owner, scope, gate, alive, faults>>

\* The process answers.
Answer(r) ==
  /\ requests[r].state = "sent"
  /\ requests[r].generation = owner.generation /\ owner.phase = "running"
  /\ requests' = [requests EXCEPT ![r] = Idle]
  /\ UNCHANGED <<owner, scope, gate, alive, faults>>

\* close() of a client ends what it has sent.
Detach(sent) ==
  /\ \A r \in sent : requests[r].state = "sent"
  /\ requests' = [r \in Requests |-> IF r \in sent THEN Idle ELSE requests[r]]
  /\ UNCHANGED <<owner, scope, gate, alive, faults>>

Next ==
  \/ ScopeStart \/ TimerFires \/ Close
  \/ Launched \/ LaunchFails
  \/ ProcessExits \/ TransportLost
  \/ StopSucceeds \/ StopFails
  \/ \E r \in Requests : Admit(r) \/ ConnectSettles(r) \/ Answer(r)
  \/ \E sent \in SUBSET Requests : Detach(sent)

Spec == Init /\ [][Next]_vars

-----------------------------------------------------------------------------
(* Properties *)

\* At most one official process exists, and it is the one the owner holds: a
\* replacement never runs beside the process it replaces, and no failed start
\* or unconfirmed stop loses track of a process that may be alive ("Created
\* synchronously so a failed start never hides an owned, possibly live
\* process").  Stops, starts, exits and the timer come in any order.
OneOwnedProcess == alive \subseteq {owner.backend} \ {0}

\* The gate is open only while the newest generation runs, held by the owner,
\* with no stop under way and the scope open.
ReadyMeansServing ==
  gate = "ready" =>
    /\ owner.phase = "running" /\ owner.stopping = "no"
    /\ owner.backend = owner.generation /\ owner.backend # 0
    /\ scope.started /\ ~scope.closed

\* A request that was sent and has no answer is at the generation that serves
\* now: whatever ends a generation ends each of its requests with an error,
\* and no connection to an old process carries a request into a new one.
SentWorkIsCurrent ==
  \A r \in Requests : requests[r].state = "sent" =>
    /\ requests[r].generation = owner.generation
    /\ gate = "ready"

\* No official process starts once the scope is closed, although a close can
\* come while start() waits for a stop, or while the timer runs.
ClosedStartsNothing == [][scope.closed => alive' \subseteq alive]_vars

\* A deployment that replaces its process always has someone at it: while the
\* gate is shut, the timer runs or a start is under way; unless a start found a
\* request of an old generation.
RecoveryIsArmed ==
  Recovery /\ owner.generation > 0 /\ gate = "unavailable"
           /\ ~scope.closed /\ ~scope.late
    => scope.timer \/ scope.starting # "no"
=============================================================================
