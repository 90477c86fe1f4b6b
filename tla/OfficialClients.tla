-------------------------- MODULE OfficialClients --------------------------
(***************************************************************************)
(* The clients of the official Codex process: one for each Desktop that is *)
(* attached to a Host of the deployment.  Composes OfficialRuntime with    *)
(* the client records of OfficialRuntimeOwner, the loop of its start()     *)
(* that connects and initializes them, OfficialRuntimeClient, and what     *)
(* AppServerHost does with it.                                             *)
(*                                                                         *)
(* Every event of OfficialRuntime is one of this module too, with what it  *)
(* does to the clients (Follow).  A start, one step there, is a step for   *)
(* every await of its loop here.  The clients of one start are connected   *)
(* in any order; the code takes the one they attached in.                  *)
(***************************************************************************)
EXTENDS OfficialRuntime

CONSTANTS
  Clients,     \* the Desktops that may attach
  ClientOf,    \* whose request a request is
  None

ASSUME OfficialClientsAssumption ==
  ClientOf \in [Requests -> Clients] /\ None \notin Clients

VARIABLES
  clients,   \* the Host of each (attached: its run() awaits scope.start()),
             \* how far the initialize request of its Desktop is (late: it
             \* awaits a connection to a generation that was lost), the
             \* generation of client.runtime, initializing or
             \* initializationResult (initialized); and missed, the history of
             \* a Desktop answered when the start had passed its client
  round      \* where the loop of start() is: the client whose connection or
             \* initialization it awaits, and those it has yet to take

cvars == <<vars, clients, round>>

ClientRecords ==
  [host : {"none", "attached", "serving", "closed"},
   desktop : {"silent", "asking", "late", "answered", "refused"},
   runtime : Nat, initialized : {"no", "pending", "done"}, missed : BOOLEAN]

Rounds == [at : {"off", "backend", "connect", "initialize"},
           client : Clients \cup {None}, todo : SUBSET Clients]

Off == [at |-> "off", client |-> None, todo |-> {}]
Begun == [Off EXCEPT !.at = "backend"]

ClientsTypeOK ==
  /\ TypeOK
  /\ clients \in [Clients -> ClientRecords]
  /\ round \in Rounds

NewClient == [host |-> "none", desktop |-> "silent", runtime |-> 0,
              initialized |-> "no", missed |-> FALSE]

ClientsInit ==
  /\ Init
  /\ clients = [c \in Clients |-> NewClient]
  /\ round = Off

Live(c) == clients[c].host \in {"attached", "serving"}

-----------------------------------------------------------------------------
(* What an event of the runtime does to the clients. *)

Lost == owner'.phase \notin {"starting", "running"}
Released == owner.backend # 0 /\ owner'.backend # owner.backend

\* The catch of initializeProtocol(): a Desktop whose initialization was lost
\* with its generation is answered by the Host, unless the scope is closed or
\* another generation serves already.
LostAnswer == IF scope'.closed \/ gate' = "ready" THEN "refused" ELSE "answered"

\* A start that settles lets the Hosts that await it serve; a loss ends what
\* was sent to the process, not what awaits a connection to it; a stop that
\* proved the exit clears the connections.
FollowedClient(k) ==
  [host |-> IF k.host = "attached" /\ scope'.starting = "no"
              THEN "serving" ELSE k.host,
   desktop |-> IF k.desktop = "asking" /\ Lost
                 THEN IF k.runtime = 0 THEN "late" ELSE LostAnswer
                 ELSE k.desktop,
   runtime |-> IF Released THEN 0 ELSE k.runtime,
   initialized |-> IF Released \/ (k.initialized = "pending" /\ Lost)
                     THEN "no" ELSE k.initialized,
   missed |-> k.missed /\ ~Released]

RoundFollows ==
  round' = IF ~owner'.starting THEN Off
           ELSE IF owner'.generation # owner.generation THEN Begun ELSE round

FollowFrom(cs) ==
  clients' = [c \in Clients |-> FollowedClient(cs[c])] /\ RoundFollows
Follow == FollowFrom(clients)

-----------------------------------------------------------------------------
(* The loop of start(). *)

\* A client that has gone makes the start fail for all of them.
TurnFails(cs) == faults' = faults /\ LaunchFails /\ FollowFrom(cs)

\* The loop goes on to the next client, or the start succeeds.
NextTurn(cs, todo) ==
  \/ todo = {} /\ Launched /\ FollowFrom(cs)
  \/ \E c \in todo :
       IF Live(c)
         THEN /\ round' = [at |-> "connect", client |-> c, todo |-> todo \ {c}]
              /\ clients' = cs
              /\ UNCHANGED vars
         ELSE TurnFails(cs)

\* backend.start() resolves, and the clients attached by then are to be connected.
BackendStarts ==
  /\ round.at = "backend" /\ owner.phase = "starting"
  /\ NextTurn(clients, {c \in Clients : Live(c)})

\* Mutation: a start connects its clients and leaves initialize to them.
TurnConnectsOnly ==
  /\ round.at = "connect" /\ owner.phase = "starting"
  /\ LET c == round.client
         connected == [clients EXCEPT ![c].runtime = owner.generation]
     IN IF ~Live(c) THEN TurnFails(clients)
        ELSE NextTurn(connected, round.todo)

\* The connection of a client is up; its Desktop may have initialized by now.
TurnConnects ==
  /\ round.at = "connect" /\ owner.phase = "starting"
  /\ LET c == round.client
         connected == [clients EXCEPT ![c].runtime = owner.generation]
     IN IF ~Live(c) THEN TurnFails(clients)
        ELSE IF clients[c].desktop = "silent" THEN NextTurn(connected, round.todo)
        ELSE /\ clients' = [connected EXCEPT ![c].initialized = "pending"]
             /\ round' = [round EXCEPT !.at = "initialize"]
             /\ UNCHANGED vars

\* The process answered the initialize request of the client.
TurnInitializes ==
  /\ round.at = "initialize" /\ owner.phase = "starting"
  /\ NextTurn([clients EXCEPT ![round.client].initialized = "done"], round.todo)

\* The backend, a connection or an initialize request failed or timed out; or
\* the loop finds that the generation was lost while it waited.
TurnBreaks ==
  /\ LaunchFails
  /\ faults' = IF owner.phase = "starting" THEN faults + 1 ELSE faults
  /\ Follow

Turn == BackendStarts \/ TurnConnects \/ TurnInitializes \/ TurnBreaks

-----------------------------------------------------------------------------
(* The Hosts and their Desktops. *)

\* The deployment starts the scope before it listens.
DeploymentStarts == owner.generation = 0 /\ ScopeStart /\ Follow

\* A Desktop connects: its Host attaches a client and awaits scope.start(),
\* which may join a start, begin one, or find nothing to start.
Attach(c) ==
  /\ clients[c].host = "none" /\ ~scope.closed
  /\ owner.generation > 1 \/ (owner.generation = 1 /\ scope.starting # "start")
  /\ \/ ScopeStart
     \/ (NothingToStart \/ scope.starting # "no") /\ UNCHANGED vars
  /\ FollowFrom([clients EXCEPT ![c].host = "attached"])

\* The loop of a start still comes to client c.
Ahead(c) == \/ round.at \in {"off", "backend"}
            \/ c \in round.todo
            \/ round.at = "connect" /\ round.client = c

\* initializeProtocol(), which throws once the scope is closed.  The parameters
\* are kept for every later start; an open gate lets the Desktop's request
\* through to the process, and otherwise the Host answers it.
DesktopInitializes(c) ==
  /\ clients[c].host = "serving" /\ clients[c].desktop = "silent"
  /\ ~scope.closed
  /\ clients' = [clients EXCEPT ![c] =
       IF gate = "ready"
         THEN [@ EXCEPT !.desktop = "asking", !.initialized = "pending"]
         ELSE [@ EXCEPT !.desktop = "answered", !.missed = ~Ahead(c)]]
  /\ UNCHANGED <<vars, round>>

\* The initialization of an asking Desktop goes on: its connection comes up,
\* the process answers, or either fails.
DesktopSettles(c) ==
  /\ Live(c) /\ clients[c].desktop = "asking"
  /\ clients' = [clients EXCEPT ![c] =
       IF @.runtime = 0 THEN [@ EXCEPT !.runtime = owner.generation]
       ELSE [@ EXCEPT !.desktop = "answered", !.initialized = "done"]]
  /\ UNCHANGED <<vars, round>>

DesktopRefused(c) ==
  /\ Live(c) /\ clients[c].desktop = "asking"
  /\ clients' = [clients EXCEPT ![c].desktop = "refused", ![c].initialized = "no"]
  /\ UNCHANGED <<vars, round>>

\* The connection to a lost generation settles at last, and is not used.
LateSettles(c) ==
  /\ Live(c) /\ clients[c].desktop = "late"
  /\ UNCHANGED <<vars, round>>
  /\ clients' = [clients EXCEPT ![c].desktop = LostAnswer]

\* close() of a client: what it has sent ends, and so does a start that awaits
\* its initialization.
CloseClient(c) ==
  /\ Live(c)
  /\ LET closed == [clients EXCEPT ![c] = [NewClient EXCEPT !.host = "closed"]]
     IN IF round.at = "initialize" /\ round.client = c
          THEN TurnFails(closed)
          ELSE /\ Detach({r \in Requests : /\ requests[r].state = "sent"
                                           /\ ClientOf[r] = c})
               /\ clients' = closed
               /\ UNCHANGED round

\* A request of the Desktop, or of a delegation, which needs none: a client
\* that has no connection opens one.
Request(r) ==
  /\ Live(ClientOf[r])
  /\ Admit(r)
  /\ requests'[r].state =
       IF clients[ClientOf[r]].runtime = 0 THEN "connecting" ELSE "sent"
  /\ UNCHANGED <<clients, round>>

RequestConnects(r) ==
  /\ ConnectSettles(r)
  /\ IF requests'[r].state = "sent"
       THEN /\ Live(ClientOf[r])
            /\ clients' = [clients EXCEPT ![ClientOf[r]].runtime = owner.generation]
       ELSE UNCHANGED clients
  /\ UNCHANGED round

\* Only a client that has a connection can lose it.
ConnectionLost ==
  /\ \E c \in Clients : Live(c) /\ clients[c].runtime # 0
  /\ TransportLost /\ Follow

ProcessEvent ==
  \/ TimerFires /\ Follow
  \/ Close /\ Follow
  \/ ProcessExits /\ Follow
  \/ ConnectionLost
  \/ StopSucceeds /\ Follow
  \/ StopFails /\ Follow

ClientEvent(c) ==
  \/ Attach(c) \/ CloseClient(c)
  \/ DesktopInitializes(c) \/ DesktopSettles(c) \/ DesktopRefused(c)
  \/ LateSettles(c)

RequestEvent(r) ==
  \/ Request(r) \/ RequestConnects(r)
  \/ Answer(r) /\ UNCHANGED <<clients, round>>

ClientsNext ==
  \/ DeploymentStarts \/ Turn \/ ProcessEvent
  \/ \E c \in Clients : ClientEvent(c)
  \/ \E r \in Requests : RequestEvent(r)

ClientsSpec == ClientsInit /\ [][ClientsNext]_cvars

\* The event loop runs a timer that is due, and the awaits of the scope and of
\* the requests settle.  Spawning, listening, stopping and the initialize request
\* have timeouts in the code; the WebSocket handshake has none, so that fairness
\* of a start and of a connection assumes a process that answers its handshake
\* or exits.  Nothing is assumed of Desktops, of answers, or of who closes.
Fairness ==
  /\ WF_cvars(TimerFires /\ Follow)
  /\ WF_cvars(Turn)
  /\ WF_cvars((StopSucceeds \/ StopFails) /\ Follow)
  /\ \A r \in Requests : WF_cvars(RequestConnects(r))

FairSpec == ClientsSpec /\ Fairness

-----------------------------------------------------------------------------
(* Properties *)

\* An open gate serves every Desktop: the newest generation runs, and the
\* connection of each client whose Desktop has its answer is initialized with
\* it, however the Desktop's request fell between losses, stops and starts that
\* other clients caused ("attached Host sessions reconnect and reinitialize on
\* the replacement", openspec/specs/remote-ssh-harness-host/spec.md:58).  The
\* exception is a Desktop that asked while a start had passed its client and was
\* connecting the others.
ReadyServesAll ==
  /\ ReadyMeansServing
  /\ gate = "ready" =>
       \A c \in Clients :
         clients[c].desktop \in {"answered", "late"} /\ ~clients[c].missed =>
           /\ clients[c].runtime = owner.generation
           /\ clients[c].initialized = "done"

\* After a loss the gate opens again, unless the scope is closed
\* (openspec/specs/remote-ssh-harness-host/spec.md:9).
Recovers ==
  owner.generation > 0 /\ gate = "unavailable" ~> gate = "ready" \/ scope.closed

\* After any sequence of losses, failed starts, unconfirmed stops and clients
\* that leave a start the gate opens again, if every connection settled before
\* the replacement was up.
SettledRecovers ==
  owner.generation > 0 /\ gate = "unavailable"
    ~> gate = "ready" \/ scope.closed \/ scope.late
=============================================================================
