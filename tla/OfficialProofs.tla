-------------------------- MODULE OfficialProofs ---------------------------
(***************************************************************************)
(* Proofs about OfficialRuntime and OfficialClients.  The three objects of *)
(* the runtime agree with each other after every event (Agreement), and    *)
(* from that follow the ownership of the process, what the gate means, and *)
(* that recovery is always armed.  Every step of the clients is a step of  *)
(* OfficialRuntime or leaves it alone, so that what is proved of the       *)
(* process holds with them; and an open gate serves every Desktop.         *)
(***************************************************************************)
EXTENDS OfficialClients, TLAPS

-----------------------------------------------------------------------------
(* The runtime. *)

\* The fields of the owner fit together.
OwnerAgrees ==
  /\ owner.backend \in {0, owner.generation}
  /\ owner.phase = "stopped" <=> owner.backend = 0
  /\ owner.phase = "starting" => owner.starting
  /\ owner.starting => /\ owner.phase \in {"starting", "unavailable"}
                       /\ owner.stopping # "process"
  /\ owner.stopping = "process" <=> owner.phase = "stopping"
  /\ owner.stopping = "join" => owner.starting

\* The scope knows what the owner is at.
ScopeAgrees ==
  /\ scope.starting = "start" <=> owner.starting
  /\ scope.starting = "stop" => owner.stopping = "process"
  /\ owner.phase = "starting" /\ owner.stopping = "join" => scope.closed

\* A request that awaits its connection was admitted by a generation the gate
\* was open for.
ConnectingIsOlder ==
  \A r \in Requests : requests[r].state = "connecting" =>
    /\ requests[r].generation <= owner.generation
    /\ gate # "ready" /\ owner.phase \in {"starting", "running"} =>
         requests[r].generation < owner.generation

Agreement ==
  /\ TypeOK
  /\ OwnerAgrees /\ ScopeAgrees /\ ConnectingIsOlder
  /\ OneOwnedProcess /\ ReadyMeansServing /\ SentWorkIsCurrent

\* Until a start finds a connection that outlived its generation, a generation
\* that runs has the gate open.
RunningIsReady ==
  owner.phase = "running" /\ ~scope.closed /\ ~scope.late => gate = "ready"

Armed == Agreement /\ RunningIsReady /\ RecoveryIsArmed
-----------------------------------------------------------------------------
(* What the methods return. *)

Owners == [phase : Phases, backend : Nat, generation : Nat,
           starting : BOOLEAN, stopping : {"no", "join", "process"}]
Scopes == [starting : {"no", "stop", "start"}, started : BOOLEAN,
           closed : BOOLEAN, timer : BOOLEAN, late : BOOLEAN]
Work == [Requests -> [state : {"idle", "connecting", "sent"}, generation : Nat]]

LEMMA Types ==
  TypeOK <=> /\ owner \in Owners /\ scope \in Scopes /\ gate \in Gates
             /\ requests \in Work /\ alive \in SUBSET Nat /\ faults \in 0..MaxFaults
BY DEF TypeOK, Owners, Scopes, Work

\* A stop changes the phase and what it waits for, never what is owned.
LEMMA BeginStopKeeps ==
  ASSUME NEW o \in Owners
  PROVE  /\ BeginStop(o) \in Owners
         /\ BeginStop(o).backend = o.backend
         /\ BeginStop(o).generation = o.generation
         /\ BeginStop(o).starting = o.starting
         /\ BeginStop(o) = o \/ BeginStop(o) = StopProcess(o)
            \/ BeginStop(o) = [o EXCEPT !.stopping = "join"]
            \/ BeginStop(o) = [o EXCEPT !.phase = "stopped"]
BY DEF BeginStop, StopProcess, Owners, Phases

LEMMA EndStartKeeps ==
  ASSUME NEW o \in Owners, NEW phase \in Phases
  PROVE  /\ EndStart(o, phase) \in Owners
         /\ EndStart(o, phase).backend = o.backend
         /\ EndStart(o, phase).generation = o.generation
         /\ ~EndStart(o, phase).starting
BY DEF EndStart, StopProcess, Owners, Phases

LEMMA BeginStartTyped ==
  ASSUME NEW o \in Owners
  PROVE  /\ BeginStart(o) \in Owners
         /\ BeginStart(o).backend = o.generation + 1
         /\ BeginStart(o).generation = o.generation + 1
         /\ BeginStart(o).phase = "starting"
         /\ BeginStart(o).starting
         /\ BeginStart(o).stopping = o.stopping
<1>1. o.generation + 1 \in Nat /\ "starting" \in Phases
  BY DEF Owners, Phases
<1>2. QED
  BY <1>1 DEF BeginStart, Owners

\* Retirement leaves the requests that await a connection, and no sent one.
LEMMA RetireKeeps ==
  ASSUME requests \in Work
  PROVE  /\ Retire \in Work
         /\ \A r \in Requests : /\ Retire[r].state # "sent"
                                /\ Retire[r].state = "connecting" =>
                                     Retire[r] = requests[r]
BY DEF Retire, Work, Idle

LEMMA ScheduleTyped ==
  ASSUME NEW s \in Scopes
  PROVE  /\ Schedule(s) \in Scopes
         /\ Schedule(s).starting = s.starting
         /\ Schedule(s).started = s.started
         /\ Schedule(s).closed = s.closed
         /\ Schedule(s).late = s.late
BY OfficialRuntimeAssumption DEF Schedule, Scopes

\* A gate that fails is shut, and the scope may have set its timer.
LEMMA GateFailsKeeps ==
  ASSUME scope \in Scopes, GateFails(scope)
  PROVE  /\ gate' = "unavailable"
         /\ scope' \in Scopes
         /\ scope'.starting = scope.starting
         /\ scope'.started = scope.started
         /\ scope'.closed = scope.closed
         /\ scope'.late = scope.late
BY ScheduleTyped DEF GateFails

\* createBackend of a closed scope throws; otherwise the next generation is
\* owned.
LEMMA LaunchKeeps ==
  ASSUME NEW o \in Owners, NEW s \in Scopes, Launch(o, s)
  PROVE  /\ owner' \in Owners /\ scope' \in Scopes
         /\ scope'.started = s.started /\ scope'.closed = s.closed
         /\ scope'.timer = s.timer
         /\ scope'.late = s.late
         /\ \/ s.closed /\ owner' = o /\ scope'.starting = "no"
            \/ ~s.closed /\ owner' = BeginStart(o) /\ scope'.starting = "start"
BY BeginStartTyped DEF Launch, Scopes

-----------------------------------------------------------------------------
(* Every event keeps the agreement. *)

LEMMA StartAfterStopAgrees == Agreement /\ StartAfterStop => Agreement'
<1> SUFFICES ASSUME Agreement, StartAfterStop PROVE Agreement'
  OBVIOUS
<1> USE DEF Agreement
<1>0. /\ owner' \in Owners /\ scope' \in Scopes /\ gate' \in Gates
      /\ requests' \in Work /\ alive' \in SUBSET Nat /\ faults' \in 0..MaxFaults
  BY OfficialRuntimeAssumption, Types, RetireKeeps, BeginStopKeeps
  DEF StartAfterStop, Owners, Scopes, Phases, Gates
<1>1. TypeOK'
  BY <1>0 DEF TypeOK, Owners, Scopes, Work
<1>2. OwnerAgrees' /\ ScopeAgrees'
  BY <1>0, Types, RetireKeeps
  DEF OwnerAgrees, ScopeAgrees, Owners, Scopes, StartAfterStop, BeginStop,
      StopProcess, NothingToStart
<1>3. ConnectingIsOlder' /\ SentWorkIsCurrent'
  BY <1>0, Types, RetireKeeps
  DEF ConnectingIsOlder, SentWorkIsCurrent, OwnerAgrees, ScopeAgrees,
      ReadyMeansServing, Owners, Scopes, Work, StartAfterStop, BeginStop,
      StopProcess, NothingToStart
<1>4. OneOwnedProcess' /\ ReadyMeansServing'
  BY <1>0, Types, RetireKeeps
  DEF OneOwnedProcess, ReadyMeansServing, OwnerAgrees, ScopeAgrees,
      SentWorkIsCurrent, Owners, Scopes, Work, StartAfterStop, BeginStop,
      StopProcess, NothingToStart
<1>5. QED
  BY <1>1, <1>2, <1>3, <1>4

LEMMA StartNowAgrees == Agreement /\ StartNow => Agreement'
<1> SUFFICES ASSUME Agreement, StartNow PROVE Agreement'
  OBVIOUS
<1> USE DEF Agreement
<1> DEFINE s == [scope EXCEPT !.timer = FALSE]
<1>1. /\ owner \in Owners /\ scope \in Scopes /\ s \in Scopes
      /\ ~s.closed /\ s.started = scope.started
  BY Types DEF StartNow, Scopes
<1>2. Launch(owner, s)
  BY DEF StartNow
<1> HIDE DEF s
<1>3. /\ owner' = BeginStart(owner) /\ owner' \in Owners /\ scope' \in Scopes
      /\ scope'.starting = "start" /\ scope'.started = scope.started
      /\ ~scope'.closed
  BY <1>1, <1>2, LaunchKeeps
<1>4. /\ owner'.backend = owner.generation + 1
      /\ owner'.generation = owner.generation + 1
      /\ owner'.phase = "starting" /\ owner'.starting
      /\ owner'.stopping = owner.stopping
      /\ owner.generation \in Nat
  BY <1>1, <1>3, BeginStartTyped DEF Owners
<1>5. /\ owner.backend = 0 /\ owner.phase = "stopped" /\ ~owner.starting
      /\ owner.stopping = "no"
  BY <1>1 DEF StartNow, OwnerAgrees, Owners
<1>6. gate = "unavailable"
  BY <1>5, Types DEF ReadyMeansServing, Gates
<1>7. alive = {} /\ alive' = {owner'.generation}
  BY <1>4, <1>5 DEF StartNow, Spawned, OneOwnedProcess
<1>8. TypeOK'
  BY <1>3, <1>4, <1>7, Types DEF StartNow, TypeOK, Owners, Scopes, Work
<1>9. OwnerAgrees' /\ ScopeAgrees'
  BY <1>3, <1>4, <1>5 DEF OwnerAgrees, ScopeAgrees
<1>10. ConnectingIsOlder' /\ SentWorkIsCurrent'
  BY <1>3, <1>4, <1>6, Types
  DEF StartNow, ConnectingIsOlder, SentWorkIsCurrent, Work
<1>11. OneOwnedProcess' /\ ReadyMeansServing'
  BY <1>4, <1>6, <1>7 DEF StartNow, OneOwnedProcess, ReadyMeansServing
<1>12. QED
  BY <1>8, <1>9, <1>10, <1>11

LEMMA LaunchedAgrees == Agreement /\ Launched => Agreement'
<1> SUFFICES ASSUME Agreement, Launched PROVE Agreement'
  OBVIOUS
<1> USE DEF Agreement
<1>0. /\ owner' \in Owners /\ scope' \in Scopes /\ gate' \in Gates
      /\ requests' \in Work /\ alive' \in SUBSET Nat /\ faults' \in 0..MaxFaults
  <2>1. owner' \in Owners
    BY Types, EndStartKeeps DEF Launched, Phases
  <2>2. scope' \in Scopes /\ gate' \in Gates
    <3>1. /\ [scope EXCEPT !.starting = "no"] \in Scopes
          /\ [scope EXCEPT !.starting = "no", !.started = TRUE] \in Scopes
          /\ [[scope EXCEPT !.starting = "no"] EXCEPT !.started = TRUE] \in Scopes
          /\ [[scope EXCEPT !.starting = "no"] EXCEPT !.started = TRUE,
                                                      !.late = TRUE] \in Scopes
      BY Types DEF Scopes
    <3>2. QED
      BY <3>1, Types, ScheduleTyped DEF Launched, Gates
  <2>3. QED
    BY <2>1, <2>2, Types DEF Launched
<1>1. TypeOK'
  BY <1>0 DEF TypeOK, Owners, Scopes, Work
<1>2. OwnerAgrees' /\ ScopeAgrees'
  BY <1>0, Types
  DEF OwnerAgrees, ScopeAgrees, Owners, Scopes, Launched, EndStart,
      StopProcess, Schedule
<1>3. ConnectingIsOlder' /\ SentWorkIsCurrent'
  BY <1>0, Types
  DEF ConnectingIsOlder, SentWorkIsCurrent, OwnerAgrees, ScopeAgrees,
      ReadyMeansServing, Owners, Scopes, Work, Launched, EndStart,
      StopProcess, Schedule
<1>4. OneOwnedProcess' /\ ReadyMeansServing'
  BY <1>0, Types
  DEF OneOwnedProcess, ReadyMeansServing, OwnerAgrees, ScopeAgrees,
      SentWorkIsCurrent, Owners, Scopes, Work, Launched, EndStart,
      StopProcess, Schedule
<1>5. QED
  BY <1>1, <1>2, <1>3, <1>4

LEMMA LaunchFailsAgrees == Agreement /\ LaunchFails => Agreement'
<1> SUFFICES ASSUME Agreement, LaunchFails PROVE Agreement'
  OBVIOUS
<1> USE DEF Agreement
<1>0. /\ owner' \in Owners /\ scope' \in Scopes /\ gate' \in Gates
      /\ requests' \in Work /\ alive' \in SUBSET Nat /\ faults' \in 0..MaxFaults
  BY OfficialRuntimeAssumption, Types, RetireKeeps, EndStartKeeps,
     ScheduleTyped
  DEF LaunchFails, Owners, Scopes, Phases, Gates
<1>1. TypeOK'
  BY <1>0 DEF TypeOK, Owners, Scopes, Work
<1>2. OwnerAgrees' /\ ScopeAgrees'
  BY <1>0, Types, RetireKeeps
  DEF OwnerAgrees, ScopeAgrees, Owners, Scopes, LaunchFails, EndStart,
      StopProcess, Schedule
<1>3. ConnectingIsOlder' /\ SentWorkIsCurrent'
  BY <1>0, Types, RetireKeeps
  DEF ConnectingIsOlder, SentWorkIsCurrent, OwnerAgrees, ScopeAgrees,
      ReadyMeansServing, Owners, Scopes, Work, LaunchFails, EndStart,
      StopProcess, Schedule
<1>4. OneOwnedProcess' /\ ReadyMeansServing'
  BY <1>0, Types, RetireKeeps
  DEF OneOwnedProcess, ReadyMeansServing, OwnerAgrees, ScopeAgrees,
      SentWorkIsCurrent, Owners, Scopes, Work, LaunchFails, EndStart,
      StopProcess, Schedule
<1>5. QED
  BY <1>1, <1>2, <1>3, <1>4

LEMMA ProcessExitsAgrees == Agreement /\ ProcessExits => Agreement'
<1> SUFFICES ASSUME Agreement, ProcessExits PROVE Agreement'
  OBVIOUS
<1> USE DEF Agreement
<1>0. /\ owner' \in Owners /\ scope' \in Scopes /\ gate' \in Gates
      /\ requests' \in Work /\ alive' \in SUBSET Nat /\ faults' \in 0..MaxFaults
  BY OfficialRuntimeAssumption, Types, RetireKeeps, GateFailsKeeps,
     BeginStopKeeps
  DEF ProcessExits, Owners, Scopes, Phases, Gates
<1>1. TypeOK'
  BY <1>0 DEF TypeOK, Owners, Scopes, Work
<1>2. OwnerAgrees' /\ ScopeAgrees'
  BY <1>0, Types, RetireKeeps, GateFailsKeeps
  DEF OwnerAgrees, ScopeAgrees, Owners, Scopes, ProcessExits, BeginStop,
      StopProcess
<1>3. ConnectingIsOlder' /\ SentWorkIsCurrent'
  <2>1. CASE owner.phase = "stopping"
    BY <2>1 DEF ProcessExits, ConnectingIsOlder, SentWorkIsCurrent
  <2>2. CASE owner.phase # "stopping"
    <3>1. /\ owner'.generation = owner.generation
          /\ owner'.phase \notin {"starting", "running"}
      BY <2>2, Types
      DEF ProcessExits, BeginStop, StopProcess, Owners, OwnerAgrees
    <3>2. requests' = Retire
      BY <2>2 DEF ProcessExits
    <3>3. QED
      BY <3>1, <3>2, Types, RetireKeeps
      DEF ConnectingIsOlder, SentWorkIsCurrent
  <2>3. QED
    BY <2>1, <2>2
<1>4. OneOwnedProcess' /\ ReadyMeansServing'
  BY <1>0, Types, RetireKeeps, GateFailsKeeps
  DEF OneOwnedProcess, ReadyMeansServing, OwnerAgrees, ScopeAgrees,
      SentWorkIsCurrent, Owners, Scopes, Work, ProcessExits, BeginStop,
      StopProcess
<1>5. QED
  BY <1>1, <1>2, <1>3, <1>4

LEMMA TransportLostAgrees == Agreement /\ TransportLost => Agreement'
<1> SUFFICES ASSUME Agreement, TransportLost PROVE Agreement'
  OBVIOUS
<1> USE DEF Agreement
<1>0. /\ owner' \in Owners /\ scope' \in Scopes /\ gate' \in Gates
      /\ requests' \in Work /\ alive' \in SUBSET Nat /\ faults' \in 0..MaxFaults
  BY OfficialRuntimeAssumption, Types, RetireKeeps, GateFailsKeeps,
     BeginStopKeeps
  DEF TransportLost, Owners, Scopes, Phases, Gates
<1>1. TypeOK'
  BY <1>0 DEF TypeOK, Owners, Scopes, Work
<1>2. OwnerAgrees' /\ ScopeAgrees'
  BY <1>0, Types, RetireKeeps, GateFailsKeeps
  DEF OwnerAgrees, ScopeAgrees, Owners, Scopes, TransportLost, BeginStop,
      StopProcess
<1>3. ConnectingIsOlder' /\ SentWorkIsCurrent'
  BY <1>0, Types, RetireKeeps, GateFailsKeeps
  DEF ConnectingIsOlder, SentWorkIsCurrent, OwnerAgrees, ScopeAgrees,
      ReadyMeansServing, Owners, Scopes, Work, TransportLost, BeginStop,
      StopProcess
<1>4. OneOwnedProcess' /\ ReadyMeansServing'
  BY <1>0, Types, RetireKeeps, GateFailsKeeps
  DEF OneOwnedProcess, ReadyMeansServing, OwnerAgrees, ScopeAgrees,
      SentWorkIsCurrent, Owners, Scopes, Work, TransportLost, BeginStop,
      StopProcess
<1>5. QED
  BY <1>1, <1>2, <1>3, <1>4

LEMMA StopSucceedsAgrees == Agreement /\ StopSucceeds => Agreement'
<1> SUFFICES ASSUME Agreement, StopSucceeds PROVE Agreement'
  OBVIOUS
<1> USE DEF Agreement
<1> DEFINE o == [owner EXCEPT !.phase = "stopped", !.backend = 0,
                              !.stopping = "no"]
<1>1. /\ owner \in Owners /\ scope \in Scopes /\ o \in Owners
      /\ o.phase = "stopped" /\ o.backend = 0 /\ o.stopping = "no"
      /\ o.generation = owner.generation /\ o.starting = owner.starting
      /\ owner.generation \in Nat
  BY Types DEF Owners, Phases
<1>2. /\ owner.stopping = "process" /\ owner.phase = "stopping"
      /\ ~owner.starting /\ scope.starting # "start" /\ gate = "unavailable"
  BY <1>1, Types
  DEF StopSucceeds, OwnerAgrees, ScopeAgrees, ReadyMeansServing, Gates, Owners
<1>3. /\ \/ scope.starting = "stop" /\ Launch(o, scope)
         \/ scope.starting = "no" /\ owner' = o /\ scope' = scope
      /\ alive' = Spawned(alive \ {owner.backend})
      /\ gate' = gate /\ requests' = requests /\ faults' = faults
  BY <1>1, <1>2 DEF StopSucceeds, Scopes
<1> HIDE DEF o
<1>4. CASE owner' = o /\ scope'.starting = "no" /\ scope' \in Scopes
           /\ scope'.closed = scope.closed
  <2>1. alive' = {}
    BY <1>1, <1>3, <1>4 DEF Spawned, OneOwnedProcess
  <2>2. TypeOK'
    BY <1>1, <1>3, <1>4, <2>1, Types DEF TypeOK, Owners, Scopes, Work
  <2>3. OwnerAgrees' /\ ScopeAgrees'
    BY <1>1, <1>2, <1>4 DEF OwnerAgrees, ScopeAgrees
  <2>4. ConnectingIsOlder' /\ SentWorkIsCurrent'
    BY <1>1, <1>2, <1>3, <1>4 DEF ConnectingIsOlder, SentWorkIsCurrent
  <2>5. OneOwnedProcess' /\ ReadyMeansServing'
    BY <1>2, <1>3, <2>1 DEF OneOwnedProcess, ReadyMeansServing
  <2>6. QED
    BY <2>2, <2>3, <2>4, <2>5
<1>5. CASE owner' = BeginStart(o) /\ scope'.starting = "start"
           /\ scope' \in Scopes
  <2>1. /\ owner' \in Owners /\ owner'.phase = "starting" /\ owner'.starting
        /\ owner'.backend = owner.generation + 1
        /\ owner'.generation = owner.generation + 1
        /\ owner'.stopping = "no"
    BY <1>1, <1>5, BeginStartTyped
  <2>2. alive' = {owner'.generation}
    BY <1>1, <1>3, <2>1 DEF Spawned, OneOwnedProcess
  <2>3. TypeOK'
    BY <1>1, <1>3, <1>5, <2>1, <2>2, Types DEF TypeOK, Owners, Scopes, Work
  <2>4. OwnerAgrees' /\ ScopeAgrees'
    BY <1>1, <1>5, <2>1 DEF OwnerAgrees, ScopeAgrees
  <2>5. ConnectingIsOlder' /\ SentWorkIsCurrent'
    BY <1>1, <1>2, <1>3, <2>1, Types
    DEF ConnectingIsOlder, SentWorkIsCurrent, Work
  <2>6. OneOwnedProcess' /\ ReadyMeansServing'
    <3>1. gate' # "ready"
      BY <1>2, <1>3
    <3>2. owner'.generation # 0 /\ owner'.backend = owner'.generation
      BY <1>1, <2>1
    <3>3. QED
      BY <2>2, <3>1, <3>2 DEF OneOwnedProcess, ReadyMeansServing
  <2>7. QED
    BY <2>3, <2>4, <2>5, <2>6
<1>6. QED
  BY <1>1, <1>3, <1>4, <1>5, LaunchKeeps

LEMMA StopFailsAgrees == Agreement /\ StopFails => Agreement'
<1> SUFFICES ASSUME Agreement, StopFails PROVE Agreement'
  OBVIOUS
<1> USE DEF Agreement
<1>0. /\ owner' \in Owners /\ scope' \in Scopes /\ gate' \in Gates
      /\ requests' \in Work /\ alive' \in SUBSET Nat /\ faults' \in 0..MaxFaults
  <2>1. owner' \in Owners
    BY Types DEF StopFails, Owners, Phases
  <2>2. scope' \in Scopes
    <3>1. [scope EXCEPT !.starting = "no"] \in Scopes
      BY Types DEF Scopes
    <3>2. QED
      BY <3>1, Types, ScheduleTyped DEF StopFails
  <2>3. faults' \in 0..MaxFaults
    BY OfficialRuntimeAssumption, Types DEF StopFails
  <2>4. QED
    BY <2>1, <2>2, <2>3, Types, RetireKeeps DEF StopFails
<1>1. TypeOK'
  BY <1>0 DEF TypeOK, Owners, Scopes, Work
<1>2. OwnerAgrees' /\ ScopeAgrees'
  BY <1>0, Types, RetireKeeps
  DEF OwnerAgrees, ScopeAgrees, Owners, Scopes, StopFails, Schedule
<1>3. ConnectingIsOlder' /\ SentWorkIsCurrent'
  BY <1>0, Types, RetireKeeps
  DEF ConnectingIsOlder, SentWorkIsCurrent, OwnerAgrees, ScopeAgrees,
      ReadyMeansServing, Owners, Scopes, Work, StopFails, Schedule
<1>4. OneOwnedProcess' /\ ReadyMeansServing'
  BY <1>0, Types, RetireKeeps
  DEF OneOwnedProcess, ReadyMeansServing, OwnerAgrees, ScopeAgrees,
      SentWorkIsCurrent, Owners, Scopes, Work, StopFails, Schedule
<1>5. QED
  BY <1>1, <1>2, <1>3, <1>4

LEMMA CloseAgrees == Agreement /\ Close => Agreement'
<1> SUFFICES ASSUME Agreement, Close PROVE Agreement'
  OBVIOUS
<1> USE DEF Agreement
<1>0. /\ owner' \in Owners /\ scope' \in Scopes /\ gate' \in Gates
      /\ requests' \in Work /\ alive' \in SUBSET Nat /\ faults' \in 0..MaxFaults
  BY OfficialRuntimeAssumption, Types, RetireKeeps, BeginStopKeeps
  DEF Close, Owners, Scopes, Phases, Gates
<1>1. TypeOK'
  BY <1>0 DEF TypeOK, Owners, Scopes, Work
<1>2. OwnerAgrees' /\ ScopeAgrees'
  BY <1>0, Types, RetireKeeps
  DEF OwnerAgrees, ScopeAgrees, Owners, Scopes, Close, BeginStop, StopProcess
<1>3. ConnectingIsOlder' /\ SentWorkIsCurrent'
  BY <1>0, Types, RetireKeeps
  DEF ConnectingIsOlder, SentWorkIsCurrent, OwnerAgrees, ScopeAgrees,
      ReadyMeansServing, Owners, Scopes, Work, Close, BeginStop, StopProcess
<1>4. OneOwnedProcess' /\ ReadyMeansServing'
  BY <1>0, Types, RetireKeeps
  DEF OneOwnedProcess, ReadyMeansServing, OwnerAgrees, ScopeAgrees,
      SentWorkIsCurrent, Owners, Scopes, Work, Close, BeginStop, StopProcess
<1>5. QED
  BY <1>1, <1>2, <1>3, <1>4

\* Admission, a settled connection and an answer move one request.
LEMMA RequestsAgree ==
  ASSUME NEW r \in Requests
  PROVE  Agreement /\ (Admit(r) \/ ConnectSettles(r) \/ Answer(r)) => Agreement'
<1> SUFFICES ASSUME Agreement, Admit(r) \/ ConnectSettles(r) \/ Answer(r)
             PROVE  Agreement'
  OBVIOUS
<1> USE DEF Agreement
<1>1. UNCHANGED <<owner, scope, gate, alive, faults>>
  BY DEF Admit, ConnectSettles, Answer
<1>2. requests' \in Work
  BY Types DEF Admit, ConnectSettles, Answer, Work, Owners, Idle
<1>3. TypeOK'
  BY <1>1, <1>2, Types DEF TypeOK, Owners, Scopes, Work
<1>4. OwnerAgrees' /\ ScopeAgrees' /\ OneOwnedProcess' /\ ReadyMeansServing'
  BY <1>1 DEF OwnerAgrees, ScopeAgrees, OneOwnedProcess, ReadyMeansServing
<1>5. ConnectingIsOlder' /\ SentWorkIsCurrent'
  <2>1. CASE Admit(r)
    BY <1>1, <2>1, Types
    DEF Admit, ConnectingIsOlder, SentWorkIsCurrent, Work, Owners
  <2>2. CASE ConnectSettles(r)
    BY <1>1, <2>2, Types
    DEF ConnectSettles, ConnectingIsOlder, SentWorkIsCurrent, Work, Owners,
        OwnerAgrees, Gates, Idle
  <2>3. CASE Answer(r)
    BY <1>1, <2>3, Types
    DEF Answer, ConnectingIsOlder, SentWorkIsCurrent, Work, Idle
  <2>4. QED
    BY <2>1, <2>2, <2>3
<1>6. QED
  BY <1>3, <1>4, <1>5

\* A client that closes ends requests that were sent, and no other.
LEMMA DetachAgrees ==
  ASSUME NEW sent \in SUBSET Requests
  PROVE  Agreement /\ Detach(sent) => Agreement'
<1> SUFFICES ASSUME Agreement, Detach(sent) PROVE Agreement'
  OBVIOUS
<1> USE DEF Agreement
<1>1. UNCHANGED <<owner, scope, gate, alive, faults>>
  BY DEF Detach
<1>2. requests' \in Work
  BY Types DEF Detach, Work, Idle
<1>3. TypeOK'
  BY <1>1, <1>2, Types DEF TypeOK, Owners, Scopes, Work
<1>4. OwnerAgrees' /\ ScopeAgrees' /\ OneOwnedProcess' /\ ReadyMeansServing'
  BY <1>1 DEF OwnerAgrees, ScopeAgrees, OneOwnedProcess, ReadyMeansServing
<1>5. ConnectingIsOlder' /\ SentWorkIsCurrent'
  BY <1>1, Types DEF Detach, ConnectingIsOlder, SentWorkIsCurrent, Work, Idle
<1>6. QED
  BY <1>3, <1>4, <1>5

LEMMA InitAgrees == Init => Agreement
BY OfficialRuntimeAssumption
DEF Init, Idle, Agreement, TypeOK, Phases, Gates, OwnerAgrees, ScopeAgrees,
    ConnectingIsOlder, OneOwnedProcess, ReadyMeansServing, SentWorkIsCurrent

LEMMA TimerAgrees == Agreement /\ TimerFires => Agreement'
<1> SUFFICES ASSUME Agreement, TimerFires PROVE Agreement'
  OBVIOUS
<1>1. CASE ScopeStart
  BY <1>1, StartAfterStopAgrees, StartNowAgrees DEF ScopeStart
<1>2. CASE /\ NothingToStart
           /\ scope' = [scope EXCEPT !.timer = FALSE]
           /\ UNCHANGED <<owner, gate, requests, alive, faults>>
  <2>1. TypeOK'
    BY <1>2 DEF Agreement, TypeOK
  <2>2. QED
    BY <1>2, <2>1
    DEF Agreement, TypeOK, OwnerAgrees, ScopeAgrees, ConnectingIsOlder,
        OneOwnedProcess, ReadyMeansServing, SentWorkIsCurrent
<1>3. QED
  BY <1>1, <1>2 DEF TimerFires

LEMMA StepAgrees == Agreement /\ [Next]_vars => Agreement'
<1> SUFFICES ASSUME Agreement, [Next]_vars PROVE Agreement'
  OBVIOUS
<1>1. CASE ScopeStart
  BY <1>1, StartAfterStopAgrees, StartNowAgrees DEF ScopeStart
<1>2. CASE TimerFires
  BY <1>2, TimerAgrees
<1>3. CASE Close
  BY <1>3, CloseAgrees
<1>4. CASE Launched \/ LaunchFails
  BY <1>4, LaunchedAgrees, LaunchFailsAgrees
<1>5. CASE ProcessExits \/ TransportLost
  BY <1>5, ProcessExitsAgrees, TransportLostAgrees
<1>6. CASE StopSucceeds \/ StopFails
  BY <1>6, StopSucceedsAgrees, StopFailsAgrees
<1>7. CASE \E r \in Requests : Admit(r) \/ ConnectSettles(r) \/ Answer(r)
  BY <1>7, RequestsAgree
<1>8. CASE \E sent \in SUBSET Requests : Detach(sent)
  BY <1>8, DetachAgrees
<1>9. CASE UNCHANGED vars
  BY <1>9
  DEF vars, Agreement, TypeOK, OwnerAgrees, ScopeAgrees, ConnectingIsOlder,
      OneOwnedProcess, ReadyMeansServing, SentWorkIsCurrent
<1>10. QED
  BY <1>1, <1>2, <1>3, <1>4, <1>5, <1>6, <1>7, <1>8, <1>9 DEF Next

LEMMA AlwaysAgrees == Spec => []Agreement
<1>1. QED
  BY InitAgrees, StepAgrees, PTL DEF Spec

-----------------------------------------------------------------------------
(* Theorems *)

\* The fields of the three objects have their types in every behaviour.
THEOREM TypeCorrect == Spec => []TypeOK
<1>1. Agreement => TypeOK
  BY DEF Agreement
<1>2. QED
  BY <1>1, AlwaysAgrees, PTL

\* At most one official process exists, and the owner holds it, in whatever
\* order starts, stops, exits, losses, timers and closes come, with and without
\* recovery.
THEOREM ProcessIsOwned == Spec => []OneOwnedProcess
<1>1. Agreement => OneOwnedProcess
  BY DEF Agreement
<1>2. QED
  BY <1>1, AlwaysAgrees, PTL

\* An open gate is one behind which the newest generation runs.
THEOREM ReadyIsServing == Spec => []ReadyMeansServing
<1>1. Agreement => ReadyMeansServing
  BY DEF Agreement
<1>2. QED
  BY <1>1, AlwaysAgrees, PTL

\* No unanswered request outlives the generation it was sent to.
THEOREM SentWorkStaysCurrent == Spec => []SentWorkIsCurrent
<1>1. Agreement => SentWorkIsCurrent
  BY DEF Agreement
<1>2. QED
  BY <1>1, AlwaysAgrees, PTL

\* A closed scope starts no process.
THEOREM ClosedScopeStartsNothing == Spec => ClosedStartsNothing
<1>1. Agreement /\ [Next]_vars => [scope.closed => alive' \subseteq alive]_vars
  <2> SUFFICES ASSUME Agreement, Next, scope.closed
               PROVE  alive' \subseteq alive
    BY DEF vars
  <2>1. ~ScopeStart /\ (TimerFires => alive' = alive)
    BY DEF ScopeStart, StartAfterStop, StartNow, TimerFires
  <2>2. CASE StopSucceeds
    <3>1. owner'.generation = owner.generation
      BY <2>2 DEF StopSucceeds, Launch, Agreement, TypeOK
    <3>2. QED
      BY <2>2, <3>1 DEF StopSucceeds, Spawned, Agreement, TypeOK
  <2>3. CASE ProcessExits
    BY <2>3 DEF ProcessExits
  <2>4. CASE Close \/ Launched \/ LaunchFails \/ TransportLost \/ StopFails
    BY <2>4 DEF Close, Launched, LaunchFails, TransportLost, StopFails
  <2>5. CASE \E r \in Requests : Admit(r) \/ ConnectSettles(r) \/ Answer(r)
    BY <2>5 DEF Admit, ConnectSettles, Answer
  <2>6. CASE \E sent \in SUBSET Requests : Detach(sent)
    BY <2>6 DEF Detach
  <2>7. QED
    BY <2>1, <2>2, <2>3, <2>4, <2>5, <2>6 DEF Next
<1>2. QED
  BY <1>1, AlwaysAgrees, PTL DEF Spec, ClosedStartsNothing

-----------------------------------------------------------------------------
(* Recovery is armed, until a start finds a connection that outlived its   *)
(* generation: before that a start that succeeds opens the gate, so that   *)
(* whatever shuts the gate is seen by the scope, which sets its timer.     *)

\* A start opens the gate, or leaves the timer or a close behind.
LEMMA LaunchedArms ==
  ASSUME Armed, Launched
  PROVE  RunningIsReady' /\ RecoveryIsArmed'
<1> DEFINE busy == \E r \in Requests : requests[r].state # "idle"
           settled == [scope EXCEPT !.starting = "no"]
           stuck == [settled EXCEPT !.started = TRUE, !.late = TRUE]
<1> USE DEF Armed, Agreement
<1>1. CASE scope.closed
  BY <1>1, Types DEF Launched, RunningIsReady, RecoveryIsArmed, Scopes
<1>2. CASE ~scope.closed /\ busy
  <2>1. stuck \in Scopes /\ stuck.late
    BY Types DEF Scopes
  <2>2. scope' = Schedule(stuck)
    BY <1>2 DEF Launched
  <2>3. scope'.late
    BY <2>1, <2>2, ScheduleTyped
  <2>4. QED
    BY <2>3 DEF RunningIsReady, RecoveryIsArmed
<1>3. CASE ~scope.closed /\ ~busy
  BY <1>3 DEF Launched, RunningIsReady, RecoveryIsArmed
<1>4. QED
  BY <1>1, <1>2, <1>3

\* Losing the generation shuts the gate, and the scope sees it.
LEMMA LossArms ==
  ASSUME Armed, ProcessExits \/ TransportLost
  PROVE  RunningIsReady' /\ RecoveryIsArmed'
<1> USE DEF Armed, Agreement
<1>1. CASE ProcessExits /\ owner.phase = "stopping"
  BY <1>1 DEF ProcessExits, RunningIsReady, RecoveryIsArmed
<1>2. CASE /\ owner'.generation = owner.generation
           /\ owner'.phase # "running" /\ GateFails(scope)
  <2>1. scope'.closed = scope.closed /\ scope'.starting = scope.starting
    BY <1>2, Types, GateFailsKeeps
  <2>2. RunningIsReady'
    BY <1>2 DEF RunningIsReady
  <2>3. CASE gate = "ready"
    <3>1. scope.started /\ ~scope.closed /\ scope.starting = "no"
      BY <2>3, Types
      DEF ReadyMeansServing, OwnerAgrees, ScopeAgrees, Scopes, Owners
    <3>2. scope' = Schedule(scope)
      BY <1>2, <2>3, <3>1 DEF GateFails
    <3>3. Recovery => scope'.timer
      BY <3>1, <3>2, Types DEF Schedule, Scopes
    <3>4. QED
      BY <2>2, <3>3 DEF RecoveryIsArmed
  <2>4. CASE gate # "ready"
    BY <1>2, <2>1, <2>2, <2>4, Types DEF GateFails, RecoveryIsArmed, Gates
  <2>5. QED
    BY <2>3, <2>4
<1>3. ASSUME ProcessExits, owner.phase # "stopping"
      PROVE  /\ owner'.generation = owner.generation
             /\ owner'.phase # "running" /\ GateFails(scope)
  BY <1>3, Types DEF ProcessExits, BeginStop, StopProcess, Owners, OwnerAgrees
<1>4. ASSUME TransportLost
      PROVE  /\ owner'.generation = owner.generation
             /\ owner'.phase # "running" /\ GateFails(scope)
  BY <1>4, Types DEF TransportLost, BeginStop, StopProcess, Owners, OwnerAgrees
<1>5. QED
  BY <1>1, <1>2, <1>3, <1>4

LEMMA StepArms == Armed /\ [Next]_vars => Armed'
<1> SUFFICES ASSUME Armed, [Next]_vars PROVE Armed'
  OBVIOUS
<1>1. Agreement'
  BY StepAgrees DEF Armed
<1>2. RunningIsReady' /\ RecoveryIsArmed'
  <2> USE DEF Armed, Agreement
  <2>1. CASE StartAfterStop
    <3>1. scope'.starting = "stop" /\ owner'.phase # "running"
      BY <2>1, Types
      DEF StartAfterStop, BeginStop, StopProcess, Scopes, Owners,
          OwnerAgrees, ScopeAgrees, NothingToStart
    <3>2. QED
      BY <3>1 DEF RunningIsReady, RecoveryIsArmed
  <2>2. CASE StartNow
    <3>1. Launch(owner, [scope EXCEPT !.timer = FALSE])
          /\ [scope EXCEPT !.timer = FALSE] \in Scopes
          /\ ~[scope EXCEPT !.timer = FALSE].closed
      BY <2>2, Types DEF StartNow, Scopes
    <3>2. scope'.starting = "start" /\ owner' = BeginStart(owner)
      BY <3>1, Types, LaunchKeeps
    <3>3. QED
      BY <3>2, Types, BeginStartTyped DEF RunningIsReady, RecoveryIsArmed
  <2>3. CASE NothingToStart /\ TimerFires /\ UNCHANGED <<owner, gate>>
             /\ scope' = [scope EXCEPT !.timer = FALSE]
    BY <2>3, Types
    DEF NothingToStart, RunningIsReady, RecoveryIsArmed, Scopes, Gates
  <2>4. CASE Close
    BY <2>4, Types DEF Close, RunningIsReady, RecoveryIsArmed, Scopes
  <2>5. CASE Launched
    BY <2>5, LaunchedArms
  <2>6. CASE LaunchFails
    <3>1. owner'.phase # "running" /\ owner'.generation = owner.generation
      BY <2>6, Types DEF LaunchFails, EndStart, StopProcess, Owners
    <3>2. Recovery /\ ~scope'.closed => scope'.timer
      BY <2>6, Types DEF LaunchFails, Schedule, Scopes
    <3>3. QED
      BY <3>1, <3>2 DEF RunningIsReady, RecoveryIsArmed
  <2>7. CASE ProcessExits \/ TransportLost
    BY <2>7, LossArms
  <2>8. CASE StopSucceeds
    <3> DEFINE o == [owner EXCEPT !.phase = "stopped", !.backend = 0,
                                  !.stopping = "no"]
    <3>1. o \in Owners /\ o.phase = "stopped" /\ o.generation = owner.generation
      BY Types DEF Owners, Phases
    <3>2. CASE scope.starting = "stop"
      <4>1. Launch(o, scope)
        BY <2>8, <3>2 DEF StopSucceeds
      <4>2. \/ scope'.closed
            \/ scope'.starting = "start" /\ owner'.phase = "starting"
        BY <3>1, <4>1, Types, LaunchKeeps, BeginStartTyped
      <4>3. QED
        BY <4>2 DEF RunningIsReady, RecoveryIsArmed
    <3>3. CASE scope.starting # "stop"
      BY <2>8, <3>1, <3>3 DEF StopSucceeds, RunningIsReady, RecoveryIsArmed
    <3>4. QED
      BY <3>2, <3>3
  <2>9. CASE StopFails
    <3>1. owner'.phase = "unavailable" /\ owner'.generation = owner.generation
          /\ gate' = gate
      BY <2>9, Types DEF StopFails, Owners
    <3>2. CASE scope.starting = "stop"
      <4>1. Recovery /\ ~scope'.closed => scope'.timer
        BY <2>9, <3>2, Types DEF StopFails, Schedule, Scopes
      <4>2. QED
        BY <3>1, <4>1 DEF RunningIsReady, RecoveryIsArmed
    <3>3. CASE scope.starting # "stop"
      BY <2>9, <3>1, <3>3 DEF StopFails, RunningIsReady, RecoveryIsArmed
    <3>4. QED
      BY <3>2, <3>3
  <2>10. CASE \/ \E r \in Requests : Admit(r) \/ ConnectSettles(r) \/ Answer(r)
              \/ UNCHANGED vars
    BY <2>10
    DEF Admit, ConnectSettles, Answer, vars, RunningIsReady, RecoveryIsArmed
  <2>11. CASE \E sent \in SUBSET Requests : Detach(sent)
    BY <2>11 DEF Detach, RunningIsReady, RecoveryIsArmed
  <2>12. QED
    BY <2>1, <2>2, <2>3, <2>4, <2>5, <2>6, <2>7, <2>8, <2>9, <2>10, <2>11
    DEF Next, ScopeStart, TimerFires
<1>3. QED
  BY <1>1, <1>2 DEF Armed

\* While the gate of a deployment with recovery is shut, a timer runs or a
\* start is under way: nothing ends recovery but the close of the scope, or a
\* start that finds a request of an old generation still connecting.
THEOREM RecoveryStaysArmed == Spec => []RecoveryIsArmed
<1>1. Init => Armed
  BY InitAgrees DEF Init, Armed, RunningIsReady, RecoveryIsArmed
<1>2. Armed /\ [Next]_vars => Armed'
  BY StepArms
<1>3. Armed => RecoveryIsArmed
  BY DEF Armed
<1>4. QED
  BY <1>1, <1>2, <1>3, PTL DEF Spec

-----------------------------------------------------------------------------
(* Its clients. *)

LEMMA TurnIsRuntimeStep ==
  ASSUME NEW cs, NEW todo, NextTurn(cs, todo)
  PROVE  [Next]_vars
BY DEF NextTurn, TurnFails, Next

LEMMA StepIsRuntimeStep == [ClientsNext]_cvars => [Next]_vars
<1> SUFFICES ASSUME [ClientsNext]_cvars PROVE [Next]_vars
  OBVIOUS
<1>1. CASE DeploymentStarts
  BY <1>1 DEF DeploymentStarts, Next
<1>2. CASE Turn
  <2>1. CASE BackendStarts
    BY <2>1, TurnIsRuntimeStep DEF BackendStarts
  <2>2. CASE TurnConnects
    <3>1. CASE ~Live(round.client)
      BY <2>2, <3>1 DEF TurnConnects, TurnFails, Next
    <3>2. CASE Live(round.client) /\ clients[round.client].desktop = "silent"
      BY <2>2, <3>2, TurnIsRuntimeStep DEF TurnConnects
    <3>3. CASE Live(round.client) /\ clients[round.client].desktop # "silent"
      BY <2>2, <3>3 DEF TurnConnects
    <3>4. QED
      BY <3>1, <3>2, <3>3
  <2>3. CASE TurnInitializes
    BY <2>3, TurnIsRuntimeStep DEF TurnInitializes
  <2>4. CASE TurnBreaks
    BY <2>4 DEF TurnBreaks, Next
  <2>5. QED
    BY <1>2, <2>1, <2>2, <2>3, <2>4 DEF Turn
<1>3. CASE ProcessEvent
  BY <1>3 DEF ProcessEvent, ConnectionLost, Next
<1>4. ASSUME NEW c \in Clients, ClientEvent(c)
      PROVE  [Next]_vars
  <2>1. CASE Attach(c)
    BY <2>1 DEF Attach, Next
  <2>2. CASE CloseClient(c)
    <3>1. CASE round.at = "initialize" /\ round.client = c
      BY <2>2, <3>1 DEF CloseClient, TurnFails, Next
    <3>2. CASE ~(round.at = "initialize" /\ round.client = c)
      <4> DEFINE sent == {r \in Requests : requests[r].state = "sent" /\ ClientOf[r] = c}
      <4>1. Detach(sent) /\ sent \in SUBSET Requests
        BY <2>2, <3>2 DEF CloseClient
      <4>2. QED
        BY <4>1 DEF Next
    <3>3. QED
      BY <3>1, <3>2
  <2>3. CASE DesktopInitializes(c) \/ DesktopSettles(c) \/ DesktopRefused(c)
    BY <2>3 DEF DesktopInitializes, DesktopSettles, DesktopRefused
  <2>4. CASE LateSettles(c)
    BY <2>4 DEF LateSettles
  <2>5. QED
    BY <1>4, <2>1, <2>2, <2>3, <2>4 DEF ClientEvent
<1>5. ASSUME NEW r \in Requests, RequestEvent(r)
      PROVE  [Next]_vars
  BY <1>5 DEF RequestEvent, Request, RequestConnects, Next
<1>6. CASE UNCHANGED cvars
  BY <1>6 DEF cvars
<1>7. QED
  BY <1>1, <1>2, <1>3, <1>4, <1>5, <1>6 DEF ClientsNext

\* With its clients the runtime does nothing that OfficialRuntime does not
\* allow: what is proved there of the process, the gate and the requests holds
\* of a deployment whose Desktops come, ask and go.
THEOREM ClientsImplementRuntime == ClientsSpec => Spec
<1>1. ClientsInit => Init
  BY DEF ClientsInit
<1>2. [ClientsNext]_cvars => [Next]_vars
  BY StepIsRuntimeStep
<1>3. QED
  BY <1>1, <1>2, PTL DEF ClientsSpec, Spec

-----------------------------------------------------------------------------
(* What the clients can be while the loop of start() is where it is. *)

Here(k) == k.host \in {"attached", "serving"}

\* A Desktop has its answer, and a start has yet to take its client or has
\* taken it.
Due(k) == k.desktop \in {"answered", "late"} /\ ~k.missed
Served(k) == k.runtime = owner.generation /\ k.initialized = "done"

Typed(cs, rd) == cs \in [Clients -> ClientRecords] /\ rd \in Rounds

\* Only an attached client has a Desktop; a connection is to the process the
\* owner holds; and a Desktop asks the process only behind an open gate.
Attached(cs) ==
  \A c \in Clients :
    /\ ~Here(cs[c]) => cs[c].desktop = "silent"
    /\ cs[c].runtime \in {0, owner.backend}
    /\ cs[c].desktop = "asking" => gate = "ready"

\* A start has served each client that is due and that it has passed.
Taken(cs, rd) ==
  owner.phase = "starting" /\ rd.at \in {"connect", "initialize"} =>
    /\ rd.client \in Clients
    /\ rd.at = "initialize" => cs[rd.client].runtime = owner.generation
    /\ \A c \in Clients \ (rd.todo \cup {rd.client}) : Due(cs[c]) => Served(cs[c])

AllServed(cs) ==
  gate = "ready" => \A c \in Clients : Due(cs[c]) => Served(cs[c])

Fit(cs, rd) == Typed(cs, rd) /\ Attached(cs) /\ Taken(cs, rd) /\ AllServed(cs)

ClientsAgree == Agreement /\ Fit(clients, round)

-----------------------------------------------------------------------------
(* The events of the runtime, as the clients see them. *)

Event == \/ ScopeStart \/ TimerFires \/ Close \/ LaunchFails
         \/ ProcessExits \/ TransportLost \/ StopSucceeds \/ StopFails
         \/ UNCHANGED vars

\* None of them opens the gate, and one that shuts it loses the generation; a
\* start goes on with its process, or a new one begins.
Keeps ==
  /\ gate' = "ready" => gate = "ready" /\ owner' = owner
  /\ gate = "ready" => gate' = "ready" \/ Lost
  /\ owner'.phase = "starting" =>
       \/ owner'.generation # owner.generation
       \/ owner.phase = "starting" /\ owner'.backend = owner.backend

LEMMA EventKeeps ==
  ASSUME Agreement, Event
  PROVE  Keeps
<1> USE Types DEF Agreement, Keeps, Lost, Owners, Scopes
<1>1. CASE StartAfterStop
  BY <1>1
  DEF StartAfterStop, BeginStop, StopProcess, NothingToStart, ReadyMeansServing,
      OwnerAgrees
<1>2. CASE StartNow
  <2>1. [scope EXCEPT !.timer = FALSE] \in Scopes
    OBVIOUS
  <2>2. owner' = owner \/ owner' = BeginStart(owner)
    BY <1>2 DEF StartNow, Launch
  <2>3. gate' = gate /\ gate # "ready" /\ owner.phase # "starting"
    BY <1>2 DEF StartNow, ReadyMeansServing
  <2>4. QED
    BY <2>2, <2>3, BeginStartTyped
<1>3. CASE UNCHANGED <<owner, gate>>
  BY <1>3
<1>4. CASE Close
  BY <1>4 DEF Close, BeginStop, StopProcess, ReadyMeansServing, OwnerAgrees
<1>5. CASE LaunchFails
  BY <1>5 DEF LaunchFails, EndStart, StopProcess, ReadyMeansServing, OwnerAgrees
<1>6. CASE ProcessExits
  BY <1>6
  DEF ProcessExits, GateFails, BeginStop, StopProcess, ReadyMeansServing,
      OwnerAgrees
<1>7. CASE TransportLost
  BY <1>7
  DEF TransportLost, GateFails, BeginStop, StopProcess, ReadyMeansServing,
      OwnerAgrees
<1>8. CASE StopSucceeds
  <2> DEFINE stopped == [owner EXCEPT !.phase = "stopped", !.backend = 0,
                                      !.stopping = "no"]
  <2>1. stopped \in Owners /\ stopped.phase # "starting"
        /\ stopped.generation = owner.generation
    BY DEF Phases
  <2>2. owner' = stopped \/ owner' = BeginStart(stopped)
    BY <1>8 DEF StopSucceeds, Launch
  <2>3. gate' = gate /\ gate # "ready"
    BY <1>8 DEF StopSucceeds, ReadyMeansServing
  <2>4. BeginStart(stopped).generation # owner.generation
    <3>1. BeginStart(stopped).generation = stopped.generation + 1
      BY <2>1, BeginStartTyped
    <3>2. owner.generation \in Nat
      OBVIOUS
    <3> HIDE DEF stopped
    <3>3. QED
      BY <2>1, <3>1, <3>2
  <2> HIDE DEF stopped
  <2>5. QED
    BY <2>1, <2>2, <2>3, <2>4
<1>9. CASE StopFails
  BY <1>9 DEF StopFails, ReadyMeansServing, OwnerAgrees
<1>10. QED
  BY <1>1, <1>2, <1>3, <1>4, <1>5, <1>6, <1>7, <1>8, <1>9
  DEF Event, ScopeStart, TimerFires, vars

\* What Follow makes of a client is a client, attached as it was.
LEMMA FollowedIsClient ==
  ASSUME NEW k \in ClientRecords
  PROVE  /\ FollowedClient(k) \in ClientRecords
         /\ Here(FollowedClient(k)) <=> Here(k)
BY DEF FollowedClient, ClientRecords, Here, LostAnswer, Lost, Released

LEMMA FollowIsTyped ==
  ASSUME NEW cs \in [Clients -> ClientRecords], round \in Rounds, FollowFrom(cs)
  PROVE  Typed(clients, round)' /\ \A c \in Clients : clients'[c] = FollowedClient(cs[c])
BY FollowedIsClient DEF FollowFrom, RoundFollows, Off, Begun, Rounds, Typed

-----------------------------------------------------------------------------
(* What keeps the clients fit. *)

\* A held process is of the newest generation, and an open gate has one.
LEMMA HeldIsNewest ==
  ASSUME Agreement
  PROVE  /\ owner.generation \in Nat
         /\ owner.phase \in {"starting", "running"} =>
              owner.backend = owner.generation /\ owner.backend # 0
         /\ gate = "ready" => owner.phase = "running"
BY Types DEF Agreement, OwnerAgrees, ReadyMeansServing, Owners

\* An event of the runtime, with what Follow makes of the clients.
LEMMA FollowKeeps ==
  ASSUME Agreement, Agreement', Keeps,
         NEW cs, Typed(cs, round), Attached(cs), AllServed(cs),
         owner'.phase = "starting" => Taken(cs, round),
         FollowFrom(cs)
  PROVE  Fit(clients, round)'
<1>1. /\ Typed(clients, round)'
      /\ \A c \in Clients : clients'[c] = FollowedClient(cs[c])
            /\ (Here(clients'[c]) <=> Here(cs[c]))
  BY FollowIsTyped, FollowedIsClient DEF Typed
<1>2. Attached(clients)'
  <2> SUFFICES ASSUME NEW c \in Clients
               PROVE  /\ ~Here(clients'[c]) => clients'[c].desktop = "silent"
                      /\ clients'[c].runtime \in {0, owner'.backend}
                      /\ clients'[c].desktop = "asking" => gate' = "ready"
    BY DEF Attached, Here
  <2>0. /\ ~Here(cs[c]) => cs[c].desktop = "silent"
        /\ cs[c].runtime \in {0, owner.backend}
        /\ cs[c].desktop = "asking" => gate = "ready"
    BY DEF Attached
  <2>1. /\ Here(clients'[c]) <=> Here(cs[c])
        /\ clients'[c].desktop =
             IF cs[c].desktop = "asking" /\ Lost
               THEN IF cs[c].runtime = 0 THEN "late" ELSE LostAnswer
               ELSE cs[c].desktop
        /\ clients'[c].runtime = IF Released THEN 0 ELSE cs[c].runtime
    <3>1. clients'[c] = FollowedClient(cs[c])
      BY <1>1
    <3>2. Here(clients'[c]) <=> Here(cs[c])
      BY <1>1
    <3>3. QED
      BY <3>1, <3>2 DEF FollowedClient
  <2>2. clients'[c].runtime \in {0, owner'.backend}
    BY <2>0, <2>1 DEF Released
  <2>3. clients'[c].desktop = "asking" => gate' = "ready"
    <3>1. LostAnswer # "asking"
      BY DEF LostAnswer
    <3>2. QED
      BY <2>0, <2>1, <3>1 DEF Keeps
  <2>4. QED
    BY <2>0, <2>1, <2>2, <2>3
<1>3. ASSUME ~Lost, ~Released, NEW c \in Clients
      PROVE  /\ clients'[c].desktop = cs[c].desktop
             /\ clients'[c].runtime = cs[c].runtime
             /\ clients'[c].initialized = cs[c].initialized
             /\ clients'[c].missed = cs[c].missed
  BY <1>1, <1>3 DEF FollowedClient, Typed, ClientRecords
<1>4. Taken(clients, round)'
  <2> SUFFICES ASSUME owner'.phase = "starting",
                      round'.at \in {"connect", "initialize"}
               PROVE  Taken(clients, round)'
    BY DEF Taken
  <2>1. owner'.generation = owner.generation /\ round' = round
    BY DEF FollowFrom, RoundFollows, Off, Begun
  <2>2. owner.phase = "starting" /\ owner'.backend = owner.backend
    BY <2>1 DEF Keeps
  <2>3. ~Lost /\ ~Released
    BY <2>2 DEF Lost, Released
  <2>4. Taken(cs, round)
    OBVIOUS
  <2>5. QED
    BY <1>3, <2>1, <2>2, <2>3, <2>4 DEF Taken, Due, Served
<1>5. AllServed(clients)'
  <2> SUFFICES ASSUME gate' = "ready" PROVE AllServed(clients)'
    BY DEF AllServed
  <2>1. gate = "ready" /\ owner' = owner
    BY DEF Keeps
  <2>2. ~Lost /\ ~Released
    BY <2>1, HeldIsNewest DEF Lost, Released
  <2>3. QED
    BY <1>3, <2>1, <2>2 DEF AllServed, Due, Served
<1>6. QED
  BY <1>1, <1>2, <1>4, <1>5 DEF Fit

\* A start that succeeds has served every client that is due.
LEMMA LaunchedKeeps ==
  ASSUME Agreement, Agreement', owner.phase = "starting",
         NEW cs, Typed(cs, round), Attached(cs),
         \A c \in Clients : Due(cs[c]) => Served(cs[c]),
         Launched, FollowFrom(cs)
  PROVE  Fit(clients, round)'
<1>1. /\ Typed(clients, round)'
      /\ \A c \in Clients : clients'[c] = FollowedClient(cs[c])
            /\ (Here(clients'[c]) <=> Here(cs[c]))
  BY FollowIsTyped, FollowedIsClient DEF Typed
<1>2. /\ owner' \in Owners /\ owner'.backend = owner.backend
      /\ owner'.generation = owner.generation /\ ~owner'.starting
  <2>1. owner \in Owners /\ "running" \in Phases
    BY Types DEF Agreement, Phases
  <2>2. owner' = EndStart(owner, "running")
    BY DEF Launched
  <2>3. QED
    BY <2>1, <2>2, EndStartKeeps
<1>3. gate # "ready" /\ ~Released /\ round' = Off
  BY <1>2, HeldIsNewest DEF Released, FollowFrom, RoundFollows
<1>4. ASSUME NEW c \in Clients
      PROVE  /\ clients'[c].desktop = cs[c].desktop
             /\ clients'[c].runtime = cs[c].runtime
             /\ clients'[c].missed = cs[c].missed
             /\ ~Lost => clients'[c].initialized = cs[c].initialized
  BY <1>1, <1>3 DEF FollowedClient, Typed, ClientRecords, Attached
<1>5. Attached(clients)'
  BY <1>1, <1>2, <1>3, <1>4 DEF Attached, Here
<1>6. Taken(clients, round)'
  BY <1>3 DEF Taken, Off
<1>7. AllServed(clients)'
  <2> SUFFICES ASSUME gate' = "ready" PROVE AllServed(clients)'
    BY DEF AllServed
  <2>1. owner'.phase = "running"
    BY DEF Agreement, ReadyMeansServing
  <2>2. ~Lost
    BY <2>1 DEF Lost
  <2>3. QED
    BY <1>2, <1>4, <2>2 DEF AllServed, Due, Served
<1>8. QED
  BY <1>1, <1>5, <1>6, <1>7 DEF Fit

\* The loop goes on with a client that is due served, or the start ends.
LEMMA NextTurnKeeps ==
  ASSUME Agreement, Agreement', owner.phase = "starting",
         NEW cs, NEW todo \in SUBSET Clients,
         Fit(cs, round),
         \A c \in Clients \ todo : Due(cs[c]) => Served(cs[c]),
         NextTurn(cs, todo)
  PROVE  Fit(clients, round)'
<1> USE DEF Fit
<1>1. CASE todo = {} /\ Launched /\ FollowFrom(cs)
  BY <1>1, LaunchedKeeps
<1>2. ASSUME NEW c \in todo,
             round' = [at |-> "connect", client |-> c, todo |-> todo \ {c}],
             clients' = cs, UNCHANGED vars
      PROVE  Fit(clients, round)'
  <2>1. Typed(clients, round)'
    BY <1>2 DEF Typed, Rounds
  <2>2. Attached(clients)' /\ AllServed(clients)'
    BY <1>2 DEF Attached, AllServed, Here, Due, Served, vars
  <2>3. Taken(clients, round)'
    BY <1>2 DEF Taken, Due, Served, vars
  <2>4. QED
    BY <2>1, <2>2, <2>3
<1>3. CASE TurnFails(cs)
  <2>1. Keeps
    BY <1>3, EventKeeps DEF TurnFails, Event
  <2>2. QED
    BY <1>3, <2>1, FollowKeeps DEF TurnFails
<1>4. QED
  BY <1>1, <1>2, <1>3 DEF NextTurn

-----------------------------------------------------------------------------
(* Every step keeps the clients fit. *)

LEMMA TurnFits ==
  ASSUME Agreement, Agreement', Fit(clients, round), Turn
  PROVE  Fit(clients, round)'
<1> USE DEF Fit
<1>0. /\ owner.generation \in Nat
      /\ owner.phase = "starting" =>
           /\ owner.backend = owner.generation /\ gate # "ready"
  BY HeldIsNewest
<1>1. CASE BackendStarts
  <2> DEFINE todo == {c \in Clients : Live(c)}
  <2>1. \A c \in Clients \ todo : ~Due(clients[c])
    BY DEF Attached, Live, Here, Due
  <2>2. owner.phase = "starting" /\ NextTurn(clients, todo)
    BY <1>1 DEF BackendStarts
  <2>3. todo \in SUBSET Clients
    OBVIOUS
  <2> HIDE DEF todo
  <2>4. QED
    BY <2>1, <2>2, <2>3, NextTurnKeeps
<1>2. CASE TurnConnects
  <2> DEFINE c == round.client
             connected == [clients EXCEPT ![c].runtime = owner.generation]
  <2>1. /\ round.at = "connect" /\ owner.phase = "starting"
        /\ c \in Clients /\ round.todo \in SUBSET Clients
        /\ \A d \in Clients \ (round.todo \cup {c}) :
             Due(clients[d]) => Served(clients[d])
    BY <1>2 DEF TurnConnects, Taken, Typed, Rounds
  <2>2. /\ connected \in [Clients -> ClientRecords]
        /\ connected[c].runtime = owner.generation
        /\ connected[c].desktop = clients[c].desktop
        /\ Here(connected[c]) <=> Here(clients[c])
        /\ \A d \in Clients \ {c} : connected[d] = clients[d]
    BY <1>0, <2>1 DEF Typed, ClientRecords, Here
  <2>3. CASE ~Live(c)
    <3>1. TurnFails(clients)
      BY <1>2, <2>3 DEF TurnConnects
    <3>2. Keeps
      BY <3>1, EventKeeps DEF TurnFails, Event
    <3>3. QED
      BY <3>1, <3>2, FollowKeeps DEF TurnFails
  <2>4. CASE Live(c) /\ clients[c].desktop = "silent"
    <3>1. NextTurn(connected, round.todo)
      BY <1>2, <2>4 DEF TurnConnects
    <3> HIDE DEF connected
    <3>2. Typed(connected, round) /\ Attached(connected) /\ AllServed(connected)
      BY <1>0, <2>1, <2>2, <2>4 DEF Typed, Attached, AllServed
    <3>3. \A d \in Clients \ round.todo : Due(connected[d]) => Served(connected[d])
      BY <2>1, <2>2, <2>4 DEF Due, Served
    <3>4. Taken(connected, round)
      BY <2>1, <3>3 DEF Taken
    <3>5. QED
      BY <2>1, <3>1, <3>2, <3>3, <3>4, NextTurnKeeps
  <2>5. CASE Live(c) /\ clients[c].desktop # "silent"
    <3>1. /\ clients' = [connected EXCEPT ![c].initialized = "pending"]
          /\ round' = [round EXCEPT !.at = "initialize"]
          /\ UNCHANGED vars
      BY <1>2, <2>5 DEF TurnConnects
    <3>2. /\ clients' \in [Clients -> ClientRecords]
          /\ clients'[c].runtime = owner.generation
          /\ clients'[c].desktop = clients[c].desktop
          /\ Here(clients'[c]) <=> Here(clients[c])
          /\ \A d \in Clients \ {c} : clients'[d] = clients[d]
      <4> HIDE DEF connected
      <4>1. QED
        BY <2>1, <2>2, <3>1 DEF ClientRecords, Here
    <3>3. /\ round' \in Rounds /\ round'.at = "initialize"
          /\ round'.client = c /\ round'.todo = round.todo
      BY <3>1 DEF Typed, Rounds
    <3>4. /\ Typed(clients, round)' /\ Attached(clients)'
          /\ AllServed(clients)' /\ Taken(clients, round)'
      <4> HIDE DEF connected, c
      <4>1. Typed(clients, round)'
        BY <3>2, <3>3 DEF Typed
      <4>2. Attached(clients)'
        BY <1>0, <2>1, <3>1, <3>2 DEF Attached, vars, Here
      <4>3. AllServed(clients)'
        BY <1>0, <2>1, <3>1 DEF AllServed, vars
      <4>4. Taken(clients, round)'
        BY <2>1, <3>1, <3>2, <3>3 DEF Taken, Due, Served, vars
      <4>5. QED
        BY <4>1, <4>2, <4>3, <4>4
    <3>5. QED
      BY <3>4
  <2>6. QED
    BY <2>3, <2>4, <2>5
<1>3. CASE TurnInitializes
  <2> DEFINE c == round.client
             done == [clients EXCEPT ![c].initialized = "done"]
  <2>1. /\ round.at = "initialize" /\ owner.phase = "starting"
        /\ c \in Clients /\ round.todo \in SUBSET Clients
        /\ clients[c].runtime = owner.generation
        /\ \A d \in Clients \ (round.todo \cup {c}) :
             Due(clients[d]) => Served(clients[d])
        /\ NextTurn(done, round.todo)
    BY <1>3 DEF TurnInitializes, Taken, Typed, Rounds
  <2>2. /\ done \in [Clients -> ClientRecords]
        /\ done[c].initialized = "done"
        /\ done[c].runtime = clients[c].runtime
        /\ done[c].desktop = clients[c].desktop
        /\ Here(done[c]) <=> Here(clients[c])
        /\ \A d \in Clients \ {c} : done[d] = clients[d]
    BY <2>1 DEF Typed, ClientRecords, Here
  <2> HIDE DEF done
  <2>3. Typed(done, round) /\ Attached(done) /\ AllServed(done)
    BY <1>0, <2>1, <2>2 DEF Typed, Attached, AllServed
  <2>4. \A d \in Clients \ round.todo : Due(done[d]) => Served(done[d])
    BY <2>1, <2>2 DEF Served
  <2>5. Taken(done, round)
    BY <2>1, <2>2, <2>4 DEF Taken
  <2>6. QED
    BY <2>1, <2>3, <2>4, <2>5, NextTurnKeeps
<1>4. CASE TurnBreaks
  <2>1. Keeps
    BY <1>4, EventKeeps DEF TurnBreaks, Event
  <2>2. QED
    BY <1>4, <2>1, FollowKeeps DEF TurnBreaks, Follow
<1>5. QED
  BY <1>1, <1>2, <1>3, <1>4 DEF Turn

LEMMA ProcessEventFits ==
  ASSUME Agreement, Agreement', Fit(clients, round), ProcessEvent \/ DeploymentStarts
  PROVE  Fit(clients, round)'
<1>1. Event /\ FollowFrom(clients)
  BY DEF ProcessEvent, DeploymentStarts, ConnectionLost, Event, Follow
<1>2. Keeps
  BY <1>1, EventKeeps
<1>3. QED
  BY <1>1, <1>2, FollowKeeps DEF Fit

\* An event that moves one client and leaves the runtime and the loop alone.
LEMMA OneClientFits ==
  ASSUME Agreement, Fit(clients, round), NEW c \in Clients, NEW k \in ClientRecords,
         clients' = [clients EXCEPT ![c] = k],
         UNCHANGED <<owner, gate, round>>,
         ~Here(k) => k.desktop = "silent",
         k.runtime \in {0, owner.backend},
         k.desktop = "asking" => gate = "ready",
         Due(k) => \/ Due(clients[c]) /\ k.runtime = clients[c].runtime
                                     /\ k.initialized = clients[c].initialized
                   \/ Served(k)
                   \/ gate # "ready" /\ Ahead(c),
         owner.phase = "starting" => k.runtime = clients[c].runtime \/ ~Here(k),
         ~Here(k) => ~(round.at = "initialize" /\ round.client = c)
  PROVE  Fit(clients, round)'
<1> USE DEF Fit
<1>1. /\ clients' \in [Clients -> ClientRecords]
      /\ clients'[c] = k /\ \A d \in Clients \ {c} : clients'[d] = clients[d]
  BY DEF Typed
<1>2. Typed(clients, round)'
  BY <1>1 DEF Typed
<1>3. Attached(clients)'
  BY <1>1 DEF Attached, Here
<1>4. AllServed(clients)'
  BY <1>1 DEF AllServed, Due, Served
<1>5. Taken(clients, round)'
  <2> SUFFICES ASSUME owner.phase = "starting",
                      round.at \in {"connect", "initialize"}
               PROVE  Taken(clients, round)'
    BY DEF Taken
  <2>1. /\ round.client \in Clients
        /\ round.at = "initialize" => clients[round.client].runtime = owner.generation
        /\ \A d \in Clients \ (round.todo \cup {round.client}) :
             Due(clients[d]) => Served(clients[d])
    BY DEF Taken
  <2>2. round.at = "initialize" => clients'[round.client].runtime = owner.generation
    BY <1>1, <2>1
  <2>3. ASSUME NEW d \in Clients \ (round.todo \cup {round.client}), Due(clients'[d])
        PROVE  Served(clients'[d])
    BY <1>1, <2>1, <2>3 DEF Served, Ahead
  <2>4. QED
    BY <2>1, <2>2, <2>3 DEF Taken, Due, Served
<1>6. QED
  BY <1>2, <1>3, <1>4, <1>5

LEMMA ClientEventFits ==
  ASSUME Agreement, Agreement', Fit(clients, round),
         NEW c \in Clients, ClientEvent(c)
  PROVE  Fit(clients, round)'
<1> USE DEF Fit
<1>0. /\ owner.generation \in Nat
      /\ gate = "ready" => owner.phase = "running"
      /\ owner.phase \in {"starting", "running"} =>
           owner.backend = owner.generation /\ owner.backend # 0
  BY HeldIsNewest
<1>1. /\ clients \in [Clients -> ClientRecords] /\ clients[c] \in ClientRecords
      /\ Live(c) <=> Here(clients[c])
      /\ ~Here(clients[c]) => clients[c].desktop = "silent"
      /\ clients[c].runtime \in {0, owner.backend}
      /\ clients[c].desktop = "asking" => gate = "ready"
  BY DEF Typed, Attached, Live, Here
<1>2. CASE Attach(c)
  <2> DEFINE cs == [clients EXCEPT ![c].host = "attached"]
  <2>1. Keeps
    BY <1>2, EventKeeps DEF Attach, Event
  <2>2. FollowFrom(cs) /\ clients[c].host = "none"
    BY <1>2 DEF Attach
  <2>3. /\ cs \in [Clients -> ClientRecords]
        /\ cs[c].desktop = clients[c].desktop /\ cs[c].runtime = clients[c].runtime
        /\ cs[c].initialized = clients[c].initialized
        /\ cs[c].missed = clients[c].missed /\ Here(cs[c])
        /\ \A d \in Clients \ {c} : cs[d] = clients[d]
    BY <1>1 DEF ClientRecords, Here
  <2>4. clients[c].desktop = "silent"
    BY <1>1, <2>2 DEF Here
  <2> HIDE DEF cs
  <2>5. Typed(cs, round) /\ Attached(cs)
    BY <1>1, <2>3, <2>4 DEF Typed, Attached
  <2>6. AllServed(cs) /\ Taken(cs, round)
    BY <2>3, <2>4 DEF AllServed, Taken, Due, Served
  <2>7. QED
    BY <2>1, <2>2, <2>5, <2>6, FollowKeeps
<1>3. CASE CloseClient(c)
  <2> DEFINE k == [NewClient EXCEPT !.host = "closed"]
             cs == [clients EXCEPT ![c] = k]
  <2>1. /\ k \in ClientRecords /\ k.desktop = "silent" /\ k.runtime = 0
        /\ ~Here(k)
    BY DEF NewClient, ClientRecords, Here
  <2>2. CASE round.at = "initialize" /\ round.client = c
    <3>1. TurnFails(cs)
      BY <1>3, <2>2 DEF CloseClient
    <3>2. Keeps /\ FollowFrom(cs)
      BY <3>1, EventKeeps DEF TurnFails, Event
    <3>3. owner'.phase # "starting"
      <4>1. owner \in Owners /\ owner' = EndStart(owner, "unavailable")
        BY <3>1, Types DEF TurnFails, LaunchFails, Agreement
      <4>2. QED
        BY <4>1 DEF EndStart, StopProcess, Owners
    <3>4. /\ cs \in [Clients -> ClientRecords] /\ cs[c] = k
          /\ \A d \in Clients \ {c} : cs[d] = clients[d]
      BY <1>1, <2>1
    <3> HIDE DEF cs, k
    <3>5. Typed(cs, round) /\ Attached(cs) /\ AllServed(cs)
      BY <2>1, <3>4 DEF Typed, Attached, AllServed, Due
    <3>6. QED
      BY <3>2, <3>3, <3>5, FollowKeeps
  <2>3. CASE ~(round.at = "initialize" /\ round.client = c)
    <3>1. clients' = cs /\ UNCHANGED <<owner, gate, round>>
      BY <1>3, <2>3 DEF CloseClient, Detach
    <3> HIDE DEF k
    <3>2. QED
      BY <2>1, <2>3, <3>1, OneClientFits DEF Due
  <2>4. QED
    BY <2>2, <2>3
<1>4. CASE DesktopInitializes(c)
  <2> DEFINE k == IF gate = "ready"
                    THEN [clients[c] EXCEPT !.desktop = "asking",
                                            !.initialized = "pending"]
                    ELSE [clients[c] EXCEPT !.desktop = "answered",
                                            !.missed = ~Ahead(c)]
  <2>1. clients' = [clients EXCEPT ![c] = k] /\ UNCHANGED <<owner, gate, round>>
    BY <1>4 DEF DesktopInitializes, vars
  <2>2. /\ k \in ClientRecords /\ Here(k) /\ k.runtime = clients[c].runtime
        /\ k.desktop = "asking" => gate = "ready"
        /\ Due(k) => gate # "ready" /\ Ahead(c)
    BY <1>1, <1>4 DEF DesktopInitializes, ClientRecords, Here, Due, Ahead
  <2> HIDE DEF k
  <2>3. QED
    BY <1>1, <2>1, <2>2, OneClientFits
<1>5. CASE DesktopSettles(c)
  <2> DEFINE k == IF clients[c].runtime = 0
                    THEN [clients[c] EXCEPT !.runtime = owner.generation]
                    ELSE [clients[c] EXCEPT !.desktop = "answered",
                                            !.initialized = "done"]
  <2>1. clients' = [clients EXCEPT ![c] = k] /\ UNCHANGED <<owner, gate, round>>
    BY <1>5 DEF DesktopSettles, vars
  <2>2. gate = "ready" /\ owner.phase = "running" /\ Here(clients[c])
    BY <1>0, <1>1, <1>5 DEF DesktopSettles
  <2>3. /\ k \in ClientRecords /\ Here(k) /\ k.runtime \in {0, owner.backend}
        /\ Due(k) => Served(k)
    BY <1>0, <1>1, <1>5, <2>2 DEF DesktopSettles, ClientRecords, Here, Due, Served
  <2> HIDE DEF k
  <2>4. QED
    BY <2>1, <2>2, <2>3, OneClientFits
<1>6. CASE DesktopRefused(c)
  <2> DEFINE k == [clients[c] EXCEPT !.desktop = "refused", !.initialized = "no"]
  <2>1. clients' = [clients EXCEPT ![c] = k] /\ UNCHANGED <<owner, gate, round>>
    BY <1>1, <1>6 DEF DesktopRefused, vars
  <2>2. /\ k \in ClientRecords /\ Here(k) /\ k.runtime = clients[c].runtime
        /\ k.desktop = "refused" /\ ~Due(k)
    BY <1>1, <1>6 DEF DesktopRefused, ClientRecords, Here, Due
  <2> HIDE DEF k
  <2>3. QED
    BY <1>1, <2>1, <2>2, OneClientFits
<1>7. CASE LateSettles(c)
  <2> DEFINE k == [clients[c] EXCEPT !.desktop = LostAnswer]
  <2>1. clients' = [clients EXCEPT ![c] = k] /\ UNCHANGED <<owner, gate, round>>
    BY <1>1, <1>7 DEF LateSettles, vars
  <2>2. LostAnswer \in {"refused", "answered"}
    BY DEF LostAnswer
  <2>3. /\ k \in ClientRecords /\ Here(k) /\ k.desktop # "asking"
        /\ k.runtime = clients[c].runtime
        /\ k.initialized = clients[c].initialized
        /\ Due(k) => Due(clients[c])
    BY <1>1, <1>7, <2>2 DEF LateSettles, ClientRecords, Here, Due
  <2> HIDE DEF k
  <2>4. QED
    BY <1>1, <2>1, <2>3, OneClientFits
<1>8. QED
  BY <1>2, <1>3, <1>4, <1>5, <1>6, <1>7 DEF ClientEvent

LEMMA RequestEventFits ==
  ASSUME Agreement, Fit(clients, round), NEW r \in Requests, RequestEvent(r)
  PROVE  Fit(clients, round)'
<1> USE DEF Fit
<1>1. CASE UNCHANGED clients
  <2>1. UNCHANGED <<owner, gate, round>>
    BY DEF RequestEvent, Request, RequestConnects, Admit, ConnectSettles, Answer
  <2>2. QED
    BY <1>1, <2>1
    DEF Typed, Attached, Taken, AllServed, Here, Due, Served
<1>2. CASE RequestConnects(r) /\ requests'[r].state = "sent"
  <2> DEFINE c == ClientOf[r]
             k == [clients[c] EXCEPT !.runtime = owner.generation]
  <2>1. c \in Clients /\ clients[c] \in ClientRecords
    BY OfficialClientsAssumption DEF Typed
  <2>2. UNCHANGED <<owner, gate, round>> /\ Live(c) /\ clients' = [clients EXCEPT ![c] = k]
    BY <1>2, <2>1 DEF RequestConnects, ConnectSettles
  <2>3. owner.phase = "running"
    BY <1>2, Types DEF RequestConnects, ConnectSettles, Agreement, Work, Idle
  <2>4. owner.generation \in Nat /\ owner.backend = owner.generation
    BY <2>3, HeldIsNewest
  <2>5. /\ k \in ClientRecords /\ Here(k) /\ k.runtime = owner.generation
        /\ k.desktop = clients[c].desktop /\ k.missed = clients[c].missed
        /\ k.initialized = clients[c].initialized
    BY <2>1, <2>2, <2>4 DEF ClientRecords, Here, Live
  <2> HIDE DEF k, c
  <2>6. clients[c].desktop = "asking" => gate = "ready"
    BY <2>1 DEF Attached
  <2>7. /\ clients' \in [Clients -> ClientRecords] /\ clients'[c] = k
        /\ \A d \in Clients \ {c} : clients'[d] = clients[d]
    BY <2>1, <2>2, <2>5 DEF Typed
  <2>8. Typed(clients, round)' /\ Attached(clients)'
    BY <2>2, <2>4, <2>5, <2>6, <2>7 DEF Typed, Attached, Here
  <2>9. Taken(clients, round)' /\ AllServed(clients)'
    BY <2>2, <2>3, <2>5, <2>7 DEF Taken, AllServed, Due, Served
  <2>10. QED
    BY <2>8, <2>9
<1>3. QED
  BY <1>1, <1>2 DEF RequestEvent, Request, RequestConnects

LEMMA StepAgreesWithClients == ClientsAgree /\ [ClientsNext]_cvars => ClientsAgree'
<1> SUFFICES ASSUME ClientsAgree, [ClientsNext]_cvars PROVE ClientsAgree'
  OBVIOUS
<1>1. Agreement /\ Fit(clients, round)
  BY DEF ClientsAgree
<1>2. Agreement'
  BY <1>1, StepIsRuntimeStep, StepAgrees
<1>3. CASE DeploymentStarts \/ ProcessEvent
  BY <1>1, <1>2, <1>3, ProcessEventFits DEF ClientsAgree
<1>4. CASE Turn
  BY <1>1, <1>2, <1>4, TurnFits DEF ClientsAgree
<1>5. CASE \E c \in Clients : ClientEvent(c)
  BY <1>1, <1>2, <1>5, ClientEventFits DEF ClientsAgree
<1>6. CASE \E r \in Requests : RequestEvent(r)
  BY <1>1, <1>2, <1>6, RequestEventFits DEF ClientsAgree
<1>7. CASE UNCHANGED cvars
  BY <1>1, <1>2, <1>7
  DEF ClientsAgree, Fit, Typed, Attached, Taken, AllServed, Here, Due, Served,
      cvars, vars
<1>8. QED
  BY <1>3, <1>4, <1>5, <1>6, <1>7 DEF ClientsNext

LEMMA ClientsAlwaysAgree == ClientsSpec => []ClientsAgree
<1>1. ClientsInit => ClientsAgree
  <2> SUFFICES ASSUME ClientsInit PROVE ClientsAgree
    OBVIOUS
  <2>1. Agreement /\ gate # "ready"
    BY InitAgrees DEF ClientsInit, Init
  <2>2. NewClient \in ClientRecords /\ Off \in Rounds
    BY DEF NewClient, ClientRecords, Off, Rounds
  <2>3. Typed(clients, round)
    BY <2>2 DEF ClientsInit, Typed
  <2>4. Attached(clients) /\ Taken(clients, round) /\ AllServed(clients)
    BY <2>1 DEF ClientsInit, Attached, Taken, AllServed, NewClient, Off, Here
  <2>5. QED
    BY <2>1, <2>3, <2>4 DEF ClientsAgree, Fit
<1>2. QED
  BY <1>1, StepAgreesWithClients, PTL DEF ClientsSpec

\* The clients and the loop keep their types.
THEOREM ClientsTypeCorrect == ClientsSpec => []ClientsTypeOK
<1>1. ClientsAgree => ClientsTypeOK
  BY DEF ClientsAgree, Agreement, Fit, Typed, ClientsTypeOK
<1>2. QED
  BY <1>1, ClientsAlwaysAgree, PTL

\* Behind an open gate every Desktop that has its answer has an initialized
\* connection to the process that serves, whatever was lost, stopped or started
\* before; but for one that asked when a start had passed its client.
THEOREM ReadyServesEveryDesktop == ClientsSpec => []ReadyServesAll
<1>1. ClientsAgree => ReadyServesAll
  BY DEF ClientsAgree, Agreement, Fit, AllServed, Due, Served, ReadyServesAll
<1>2. QED
  BY <1>1, ClientsAlwaysAgree, PTL
=============================================================================
