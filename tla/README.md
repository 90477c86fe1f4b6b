# BOFT CLI: TLA+ models, checks and proofs

BOFT CLI puts other coding agents (Harnesses: Pi, Claude Code, Grok, ...) behind
the user interface of Codex Desktop. Desktop starts the shim in place of the
`codex` binary; behind it runs a Host process that answers the app-server
protocol itself for external Threads, forwards the rest to one official Codex
process, and keeps what it must remember in a directory of JSON files. This
directory models the parts of that Host where concurrency, crashes and partial
failure decide whether it is correct, checks them with TLC and proves part of
the results with TLAPS. Paths below are relative to `src/`;
`packages/host-runtime/src/` is written `host/`, `packages/mapping-store/src/`
is written `store/`.

## 1. The system

### 1.1 Components

| Component | State | Operations | Hard part | Correct when | Status |
|---|---|---|---|---|---|
| **Process lock of the store** `store/mapping-store.ts` `#acquireLock`, `close` | `store.lock`; in memory: initialized or not | take, judge a stale lock, rename it aside, release | two Hosts start at once; a Host dies between creating the file and writing it, or fails to write or rename it | one live owner; neither a crash nor a failure locks the store for good | modelled: `StoreLock` |
| **Thread records** `store/mapping-store.ts`, `store/records.ts` | `#records`, indexes, one Thread file and one metadata file per Thread, the write queue | create, commit, add and reconcile Turns, metadata, rebind, replace history, remove, initialize | two files per change, three unlinks per removal, failed writes, crashes, replacements prepared outside the queue | identities unique, memory durable, no stale replacement | modelled: `MappingStore`, promise in `DurableMap` |
| **Delegation start** `host/harness-delegation-coordinator.ts` `start`, relations in `store/mapping-store.ts` | relations in memory and on disk, child record, native session | look up, create child, create relation, open session, commit, clean up | repeated and overlapping starts, crash between two steps, cleanup that fails itself | one child per request, a failed start leaves nothing but what would not close, the store opens again | partly: `Delegation` |
| **Official runtime** `host/codex-runtime/` owner, scope, work gate, clients; `initializeProtocol` in `host/app-server-host.ts` | phase, generation, backend, pending start and stop, timer, gate, requests; per client its connection and initialization | start, stop, exit, loss, recovery, close, admit, connect, answer; attach, initialize, detach | events in any order around awaits; unconfirmed exits; clients that come and go during a start | one owned process, an open gate serves every Desktop, recovery comes | partly: `OfficialRuntime`, `OfficialClients` |
| **Socket lock** `host/remote-socket-lock.ts` | one register file per call, version 1 file | choose, publish, wait, act, leave, reclaim | non-atomic catalogs, death and 30 s lease | mutual exclusion, own register kept, every call ends | modelled: `SocketLock` |
| **External Turn steering** `host/external-turn-steering.ts`, Turns of a Thread in `host/app-server-host.ts` | one operation per Thread, receipts (128), active Turn, reservation of commands | steer, terminal event, interrupt, fault, time out, close; begin and end Turns and commands | stop and terminal event settle in either order; receipts are trimmed; lookups in between | one replacement per message, none after a stop, nobody in between, every call answered | modelled: `TurnSteering` |
| **Sessions of a Thread** `host/external-thread-runtime.ts`, idle release `host/external-thread-idle-release.ts`, queue `host/desktop-request-queue.ts` | loaded sessions, restores under way, operation counters, closing barrier, promise chain per Thread | locate, restore, use, delete, roll back, scan, close, time out, shut down | a session is judged idle long before it is closed; operations that meet a restore, a close or the shutdown | no session closed in use, one writer per native session, none lost, nobody waits for ever | modelled: `ThreadSessions` |
| **Thread watches** `host/delegation-watch.ts` | watches, undeliverable list (50), timer | watch, poll, notify, close | reads before an await decide after it; sends of unknown outcome | at most one notification per watch, none lost silently | modelled: `ThreadWatch`, promise in `OneShot` |
| **History and Subagent Threads** `host/external-thread-repository.ts`, `external-subagent-threads.ts`, `external-thread-rollback.ts` | mappings of native turns to Host Turns, Subagent records, objects in memory | begin and end Turns, align a snapshot, reconcile, replace the session, materialize, rebind | snapshots older than the record; a rollback between two steps of a read | a Turn keeps its ID and is not dropped, one Thread per native child | partly: `ThreadHistory`, `SubagentThreads` |
| Official internal requests `host/official-request-broker.ts` | pending, ring of retired IDs | request, answer, time out | late answer of an evicted ID | an internal answer never reaches Desktop | not modelled |
| **Shared Threads** `host/shared-thread-*.ts` | receipts (256), forwarded requests, open questions, GUIs | turn/start, answer, attach, detach, time out, close | receipts dropped under way; GUIs that come and go while questions open and close; writes that wait for a full pipe | a repeated turn/start starts one Turn, all GUIs show what is open, everyone is answered if the Host reads on | partly: `SharedThreads` |
| Updates `host/update-coordinator.ts`, `packages/update-manager`, `crates/updater`, `crates/launcher` `active_update.rs` | operation state on disk, barrier | check, prepare, install, launch | crash in the middle | one operation, restartable | not modelled |
| Runtime lease `crates/shim/src/local_runtime_lease.rs`, `crates/launcher/src/runtime_instance.rs` | lease and instance records | take, prove, release | process identity, PID reuse | one runtime instance | not modelled |
| Adapter kit and broker `packages/harness-adapter`, `packages/harness-broker` | sessions, output channel, leases | send, cancel, attach, detach | disconnect during a Turn | one terminal event per Turn | not modelled |
| Delegation control and CLI, remote installation, protocol projection, the 17 adapters, desktop control, renderer, console, discovery, platform crate, tools, contracts | little or none of their own | translation, file copies, user interface | vendor protocols | covered by unit tests | not modelled |
| `host/app-server-host.ts` | maps of sessions, Turns, requests and questions | routes each Desktop request to a component above | 5,700 lines of glue | the components agree | partly: its Turns, commands and steering in `TurnSteering`, operations and shutdown in `ThreadSessions`, output loop in `ThreadHistory`, Turns and questions of shared Threads in `SharedThreads` |

`PROJECT.json` lists every component with its sources and every hazard at its
line.

### 1.2 Interaction

- A Host opens one Mapping Store. `initialize()` takes `store.lock`, loads all
  files, rebuilds the indexes and only then serves; `close()` gives the lock
  back. Everything else in the store assumes that it is the only owner:
  `MappingStore` models one process at a time because `StoreLock` is to
  guarantee it. (Section 5 tells when it does not.)
- Records change only through the store's write queue, one mutation at a time.
  Delegation relations are files of the same store **outside** that queue.
- A delegation start calls the store (record, relation) and the Harness
  (session), and undoes its steps when one fails.
- The scope of the official runtime calls the owner and the gate; the owner
  calls back on exits and losses; clients pass the gate and then await a
  connection. Each Desktop has a client of the owner: its Host attaches it and
  awaits the scope's start, which connects all clients in turn and repeats the
  initialization of those whose Desktop has sent one. All of it runs in one event
  loop.
- Desktop requests of one Thread run in its queue; calls of the delegation
  control, releases and outputs of the Harness do not queue behind them, but all
  count as operations of the Thread, which keep its session from being closed.
  What takes long (a Turn being started) is detached from the queue.
- A history read, a restore, a rollback and the end of a Turn all change the
  mappings of one record through the store's queue, each from what it read before.
- Watches use the read and send of the delegation control like any other client.
- Host processes of one machine meet at two places: `store.lock`, and the socket
  lock around bind and unlink of the remote control socket. GUIs of one machine
  share the external Threads of one Host, which the owner of the shared Threads
  multiplexes.

## 2. Modules

| Module | Models | Checked by | Proofs |
|---|---|---|---|
| `StoreLock` | `store.lock` among Host processes | `MCStoreLock` | `StoreProofs` |
| `MappingStore` | records, queue, files, crashes | `MCMappingStore` | `StoreProofs` |
| `DurableMap` | what the records promise to their readers (abstract) | refined by `MappingStore` | `StoreProofs` |
| `Delegation` | `start()` over relations and records | `MCDelegation` | `DelegationProofs` |
| `OfficialRuntime` | owner, scope and gate of the official process | `MCOfficialClients`, as part of the next | `OfficialProofs` |
| `OfficialClients` | its clients and the loop of a start; extends `OfficialRuntime` | `MCOfficialClients` | `OfficialProofs` |
| `SocketLock` | Bakery registers and version 1 file | `MCSocketLock` | `SharingProofs` |
| `TurnSteering` | `turn/steer` and the Turns of its Thread | `MCTurnSteering` | `TurnSteeringProofs` |
| `ThreadSessions` | sessions, queue, idle release, shutdown | `MCThreadSessions` | `ThreadSessionsProofs` |
| `ThreadWatch` | watches, their polling and delivery | `MCThreadWatch` | `ThreadWatchProofs` |
| `OneShot` | what a watch promises (abstract) | refined by `ThreadWatch` | `ThreadWatchProofs` |
| `SubagentThreads` | records of children: lookup, create, commit, rebind | extended by `ThreadHistory` | `ThreadHistoryProofs` |
| `ThreadHistory` | Turn mappings and children through Turns, reads, rollbacks, crashes | `MCThreadHistory` | `ThreadHistoryProofs` |
| `SharedThreads` | GUIs, owner and Host of shared Threads | `MCSharedThreads` | `SharingProofs` |

`PROJECT.json` maps each definition to its lines. The `MC` modules hold the
model values, the symmetry sets and the assignment of calls to keys. An operator
under a comment "Mutation" is a plausible bug in the definition that follows
it; no specification uses it. Each checked property is shown to fail when its
mutation replaces the definition.

### 2.1 StoreLock

An instance is a Host process with one store. File operations are the atomic
steps: exclusive create, write, read, rename, unlink. `Create` and `Recreate`
are the two attempts, `ReadLock` and `Judge` the inspection, `RenameAside` the
rename of **whatever is at the path by then**, `Load` the rest of
`initialize()`, `CloseRead` and `CloseUnlink` the release. `Die` comes anywhere.
What the code does when a file operation fails is an action too. `AttemptFails`
is the open, the write or the sync of an attempt, with or without the record in the
file: the error of the first attempt is thrown, that of the second becomes
STORE_LOCKED. `RenameFails` and `CloseFails` are swallowed; after the former the
second attempt meets the stale file. `hindered` is history: instances that such a
failure struck, which is what the refusal and the orderly close except. That a lock
file which exists can be read is an assumption: the code takes one it cannot read
for stale.
`OwnerIsLive` says whether the process that the lock names lives; that a PID is
reused is not represented (the code compares start times; where it cannot, it
treats the owner as live). `Overlap` tells apart the two questions the module
is asked: are starts that do not overlap safe (yes, proved), and starts that do
(no, see section 5).

### 2.2 MappingStore

A record is what `refineThreadRecord` validates, reduced to what a guard or
index reads: state, create request, session, parent, fork, Turn mappings,
revision, and one field of metadata. One client operation is validation in the
queue (`CreateProvisional`, `CommitReady`, `UpsertTurn`, `ReconcileTurns`,
`SetField`, `UpdateMetadata`, `RebindSubagent`, `ReplaceSession`, `Remove`)
followed by the steps of `#commit`: Thread file, metadata file, restore of the
Thread file if the latter fails, memory and indexes. A removal unlinks the Thread
file, the backup and the metadata at once and awaits all three (`RemoveFile`,
`FilesRemoved`); the first failure ends it (`RemoveFileFails`), and the unlinks that
go on (`late`, `UnlinkLate`) then meet the operations after it. Because the queue runs one
mutation at a time, validation and the capture of the next record are one step.
`Prepare` is the read that a history replacement is computed from, outside the
queue; any number of mutations can come before `ReplaceSession`.
`Crash` empties memory; `Initialize` does what the code does with the files left.
`torn` is history: Threads whose failed write or removal left files and memory
different, until the next start.

`DurableMap` says what this comes to for a reader, without files and phases: one
map, in which one Thread at a time is created, replaced by its next revision or
removed, all or nothing. `Begin` is a validation that lets a change into the queue,
`Commit` its effect in memory, `Fail` a write that failed. `Crash` leaves each
Thread its record, or the one of the change under way, or, between the two files of
that change, the old content under the new revision, or, among the unlinks of a
removal, the record without its metadata; a provisional record may go.
A Thread whose unlink failed, or whose restore failed, is `damaged` until the next
start: it may be gone or be back, but as itself. The mapping (`Map`) takes the
value from memory while the store is up and from the files while it is down
(`Readable`): the step to be shown is therefore the crash, at which `initialize()`
must find what readers had seen.

Abstracted: titles, working directory and transport model are one `SetField`;
checkpoint references of Turns, the backup copy of a record and the quarantine
of unreadable files, section placements and the list of superseded sessions are
left out. No guard of the modelled operations reads those.

### 2.3 Delegation

A caller is one call of `start()` for an external Harness; IDs it draws (child,
relation, session) are UUIDs named after it. Record changes are atomic here,
since `MappingStore` checks what one consists of; the check, the file and the
memory of a relation are three steps, as in `createDelegation`. `Cleanup`,
`Forget` and `RemoveChild` are the error path, each of which may fail. `Crash`
may come anywhere; `Initialize` reads what is on disk. `leaked` and `unclosed` are
history: calls that died or whose removal failed, and open sessions whose close
failed, which the code swallows. With `Overlap` FALSE, two calls with the same
key never run at once.

Left out: the expiry of the window of implicit deduplication (a repetition is
always within it), the official target (`#startOfficial`), and `send`, `result`
and `archive`.

### 2.4 OfficialRuntime and OfficialClients

An action is one event of the loop (process exit, lost connection, timer,
settled await, client call) with all the code that runs before the next event,
promise continuations included. `owner` and `scope` are the private fields of the
two objects, and operators named after methods map one record to the next.
A generation is the number that `start()` draws; `alive` is the set of
generations whose process really exists, which the code cannot see.
`scope.starting` says which of its two awaits `start()` is in (the stop of the
old process, or the start of the new), `owner.stopping` whether a stop waits for
a start under way or for the process. `StopFails` is a stop that cannot prove the
exit; the process may then live on. `scope.late` is history: a start found a
request of an old generation still waiting for its connection.

`OfficialClients` adds the Desktops. Where `OfficialRuntime` has one step for a
start, it has one for each await of the loop in `start()`: `BackendStarts` takes
the snapshot of the clients, `TurnConnects` and `TurnInitializes` take one client
after the other, `TurnBreaks` is any of them failing. `round` is the position of
that loop. All other events of the runtime are events here too, together with what
they do to the clients (`Follow`). `Attach` is the `run()` of a Host: the client
attaches and awaits the scope's start in one step, since nothing is awaited between
them. `DesktopInitializes` is `initializeProtocol()`, which goes to the process or
is answered by the Host; `DesktopSettles`, `DesktopRefused` and `LateSettles` are
the ends of the former, `late` one whose connection belongs to a lost generation.
`CloseClient` ends what its client sent and, if a start awaits that very client,
the start. A request finds the connection of its client or opens one
(`Request`, `RequestConnects`); it need not follow an initialization, since
delegations use the client of a Host whose Desktop is still silent. `missed` is
history: a Desktop that was answered when the start had passed its client.
The clients of a start are taken in any order, a superset of the code's order of
attachment, and requests that wait for one connection settle one by one.

Left out: the contents of parameters, Thread subscriptions and their restoration,
server-initiated requests, the management client, and the client of an
`externalOnly` Host, which initializes itself before each request.

### 2.5 SocketLock

A contender is one call, of a process of its own, numbered in the order of its
token. `Register` writes the register with `choosing`; `List` is the directory
listing and `Read` one file of it, in any order and with anything in between;
`Suspect`, `Recheck` and `RemoveRegister` are the three steps of removing an abandoned
register; `Publish` writes the ticket; `Decide` is the look at the finished
catalog; `TakeGuard` and `EndAction` are the version 1 file; `Leave` removes the
own register. `Die` and `Expire` (the 30 s lease) may strike the members of
`Faulty` at any point. `expired` is history.

A version 1 file that an earlier process left may be there from the start
(`Earlier`).

Left out: contenders of version 1, malformed registers (nothing in this protocol
writes one), errors of the file system, the overflow of tickets.

### 2.6 TurnSteering

One Thread. Above: the Turns that Desktop, the delegation coordinator and the
Harness begin (`DesktopTurn`, `DelegatedTurn`, `AutonomousTurn`), a command and
its lookup (`LookUpCommand`, `CommandFound`, `CommandStarted`), and how a Turn
ends: the Harness emits (`TurnEnds`), the Host clears the active Turn
(`TurnProjected`) and, after further awaits, tells the steering (`Terminal`); or
the Turn is lost on the way (`TurnLost`). Below: `Steer` is `run()`. The promises
that `#replace` awaits are settled by `CancelSettles`, `Terminal`, `Stopped`
(`interrupt`, `fault`), `TimesOut` and `Close`; the continuations after its awaits
are `AfterCancel`, `AfterTerminal`, `Resolved` and `StartSettles`. `pending.race`
is what the `Promise.race` of the phase has settled with, which is not changed by
what settles later. `OtherSucceeds` fills the receipts from other Threads.
`origin`, `begun` and `crossed` are for the properties; `origin` also says whose
response gate an event waits for.

Left out: the parsing of the input, the input itself (two calls of one message
have the same), and the wording of errors.

### 2.7 ThreadSessions

One Thread. An instance is an `ExternalThread` object with its native session.
Operations are a Turn, a delete and a rollback, which queue, and a control call,
which does not; `Request`, `Enter`, `Locate`, `Find` are the way of each to its
instance, with the barrier of a release before it and a restore on the way, which
all who come meanwhile share (`RestoreOpens`, `RestoreRegisters`, `RestoreAborts`,
`RestoreFails`). `Detach`, `StartTurn`, `StartSettles` are a Turn, `DeleteRecord`
and `DeleteEnds` a delete, `RollbackPrepares` to `Replaced` a rollback. Outputs
count as operations too (`OutputBegins`, `OutputOver`, `TurnBegins`, `TurnEnds`,
`OutputBreaks`); sessions end by themselves or late (`NativeCloses`). `Check`
schedules an instance that has been idle for the timeout, `ReleaseSkipped`,
`ReleaseBegins`, `ReleaseSettles` and `ReleaseFails` are what its entry in the
queue does. `InputEnds`, `Stop`, `ShutdownCloses` and `ShutdownEnds` are the end
of the Host, which waits for the queue, for what goes on outside it, and then for
the sessions.

`retired`, `unconfirmed` and `crossed` are history and name the exceptions of the
properties: sessions a delete or rollback means to close, sessions whose failed
close the code swallows, and those lost in the two crossings of section 5.

Left out: Subagents of the Thread, prewarmed sessions, the import of sessions, and
what a Turn does (that is `TurnSteering`).

### 2.8 ThreadWatch and OneShot

A call of `watch()` is `ReadTarget` (the reads it awaits) and `Register` (the
rest, in one piece). `#tick` is one record, `tick`: a snapshot of the watches is
observed one after the other (`TimerFires`, `ObserveBegins`, `ObserveEnds`,
`ObservedAll`), then each Thread to notify is sent what is due (`Send`,
`TurnStarts`, `SendSucceeds`, `SendRefused`, `SendUnknown`, `LateTurn`), then the
list is trimmed and the timer set (`TickEnds`). The deadline, the 60 s of
unreadability and the 6 h of delivery are flags that may come at any time.
`status` is what others do to the Threads meanwhile, and `turns` counts the Turns
that told of a watch.

`OneShot` is the document of the component as a specification: a watch is armed,
falls due once, and is told in one Turn, or is given up when it is known that no
Turn was started, or stays in doubt. `KeepsPromise` is the refinement
(`INSTANCE OneShot WITH` phases computed from the states of the watches), checked
by the run and proved for all values.

### 2.9 SubagentThreads and ThreadHistory

`SubagentThreads` has the records of children and the lookups that decide which
of them a native child gets: by create request, by the request under the session
that a rollback replaces, and by the session of the record. One native ID is
modelled; after a rollback a session may use it again for the child of another
Turn.

`ThreadHistory` has one Thread with its stored record, an object in memory per
session, the Turn under way, and the write queue of the store. A mutation
(`RunPersist`, `RunReconcile`, `RunReplace`, `RunNote`, `RunCreate`, `RunCommit`,
`RunRebind`, or `RunFails`) runs when the queue gets to it, and includes what its
caller makes of the result up to the next await. Reads and rollbacks begin
(`Begin`, `Restore`), take a snapshot (`TakeSnapshot`), align it with the record
(`Align`) and project the children (`Project`); `OpenWithout` opens the session of
a rollback. `StartTurn`, `RecordTurn`, `LiveChild`, `EndTurn`, `EndUnnamed` are
what the Harness reports. A mapping says who drew the ID of a Turn (`by`), which
is what tells a kept ID from a new one. `Crash` leaves the store and the native
sessions.

Left out: rollback by fork, the histories of the children themselves, children of
children, and checkpoints.

### 2.10 SharedThreads

GUIs, the owner and the Host behind it exchange frames in order (`out`, `inbox`,
`up`, `down`). `OwnerReceives` is the request or answer of a GUI (`TakeCall`,
`TakeAnswer`), `OwnerHears` a frame of the Host (`TakeReply`, `TakeEvent`),
`OwnerTimesOut` the 120 s of the peer, `Detach` and `Attach` a GUI whose link broke
and that subscribes anew, `Close` the end. Of the Host, `HostReceives` is the
input loop, `Begin`, `Fail`, `Started` a turn/start, which is detached from the
queue so that two may be under way, and `Ask`, `Withdraw`, `TurnEnds` the questions
of the Turn.

The owner writes to its Host over a bounded stream. `request()` awaits the write
before it looks at the result, so that a reply or the timer that comes while the
frame waits (`writing`) is only `held`: callers hear of it, and the receipt is
settled, at `Written`. The loop of a GUI's session awaits the write of an answer
likewise (`stuck`, `Answered`). Which frame has to wait depends on its size and is
left open, and a wait may end at any time; fairness has it end when the Host has read all.

Left out: which Threads a bridge routes to the owner, lists and placements, and
the timer of a GUI on a socket, which ends its own wait and nothing else.

## 3. What is checked

### 3.1 Runs

| Run | Instance | Question |
|---|---|---|
| `store_lock_serial` | 3 processes, serial starts | exclusion, refusal only by a live process or a failure of one's own |
| `store_lock_overlap` | 3 processes, overlapping starts | *violation*: two owners (section 5) |
| `mapping_store` | deep (1 Thread, 2 clients, 2 Turns, 2 keys, metadata) or wide (2 Threads, 2 requests, 2 sessions, six revisions between them) | every directory a crash leaves loads, no stale replacement, Turn pairs kept, and to its readers the store is `DurableMap` |
| `delegation_faults` | 4 calls, 2 keys, one with a Request ID, serial per key | second child, reopening, leftovers, result |
| `delegation_repeated_request` | the same, overlapping | *violation*: the store does not open |
| `official_faults` | 2 Desktops with a request each, 4 faults, recovery | process ownership, an open gate serves every Desktop, requests, recovery |
| `socket_lock` | 2 contenders, both faulty, perhaps an old version 1 file | exclusion, every call ends |
| `turn_steering` | 2 calls with one message, 2 Turns of others, 1 receipt | one replacement, none after a stop, nobody in between, joined repetitions, every call answered |
| `thread_sessions` | a Turn, a control call, a rollback and a delete, 5 instances | no session closed in use, one writer, none orphaned, the loaded one is the stored one, complete shutdown, failed ones stay blocked, every operation ends |
| `thread_watch` | 2 Threads, 3 calls, two of them alike and one the other way round | promise (`OneShot`), bounded backlog, due in the end, delivered in the end |
| `thread_history` | 3 Turns, two with a Subagent, 2 reads, a rollback, a live event, 1 crash, 1 failed write | IDs kept, ended Turns stored, memory stored, one Thread per child, and the right one |
| `shared_threads` | 2 GUIs, a message sent twice with equal or other input, another message, 1 question, 1 broken link, 1 receipt | one Turn per message, all GUIs show what is open, every call ends if the Host reads |

### 3.2 Bounds, and why they are enough

- **StoreLock, 3 instances.** Two contend and one is the owner that the lock
  names or a newcomer that takes advantage of a gap. The proofs are for any
  number.
- **MappingStore.** `MaxRevision` 4 lets a record be created, committed, changed
  and changed again after a replacement was prepared; `MaxTurns` 2 has a common
  prefix and a rest. The constraint explores the sum of two questions and not their product: one Thread
  deep (two racing clients and metadata), two Threads wide (every pair of
  identity conflicts, parent and fork). A conflict is always between two
  records, which is why two Threads suffice, and the theorems are for any number.
  While files are unlinked no replacement is prepared, records have one Turn at
  most, and one Thread at most is torn (`Removals`): an unlink reads neither. The run
  has 439,000 states.
- **Delegation, 4 calls.** Two per key: a first and its repetition; two keys so
  that relations of different keys meet in the store and in cleanup.
- **OfficialClients, `MaxFaults` 4.** An exit or a loss, a failed start, an
  unconfirmed stop, and one fault more during the recovery. Two Desktops, so that
  one is passed, attaches or leaves while a start is with the other; two requests,
  so that one is connecting while another is sent. Three Desktops with three faults
  (2.3 million states) gave the same answers.
- **SocketLock, 2 contenders.** The smaller and the larger token, either of
  which may die or outlive its lease, and the old file, which leaves the bakery
  alone to exclude. Exclusion and the kept register are proved for any number.
- **TurnSteering.** Two calls are a delivery and its repetition, at any two
  points. `MaxTurns` 2 bounds the Turns that others begin while fewer than two
  were begun: one to replace and one that gets in the way, next to the
  replacements. `MaxReceipts` 1 makes every further receipt evict one.

- **ThreadSessions.** One operation of each kind, and an instance more than
  operations, as each replaces or restores at most one. At most three run (two
  during the shutdown), and not the three that only queue behind each other: the
  races are those with what does not queue.
- **ThreadWatch.** Two calls for the same Threads, and one the other way round, so
  that a Thread is both watched and notified. `MaxUndeliverable` 1 makes the second
  undeliverable watch trim one. Of two alike calls one comes first; all three run
  only while both Threads exist. The proofs are for any number.
- **ThreadHistory.** Three Turns: one in the record, one taken back, one begun
  after the rollback, which uses the native ID of a Subagent again. Two reads, one
  of them of the delegation control and so outside the queue, and one rollback meet
  pairwise. One crash and one failed write; three Threads for children are one more
  than may be needed. The two Turns with a Subagent are interchangeable.
- **SharedThreads.** Two GUIs are the sender and the one that repeats or watches;
  two messages and `MaxReceipts` 1 evict a receipt. The other message is not sent
  when a link breaks or a frame waits for the pipe, and the questions of a Turn are
  followed with one call, or with those of both messages while links hold and no
  request waits: they share nothing else with a second one. Any call or answer may have to
  wait. The run has 504,000 states.

Runs with `CHECK_DEADLOCK FALSE` are of systems that stop: all processes dead or
closed, all calls ended, all IDs used.

### 3.3 Fairness

Six specifications have fairness.

- `OfficialClients!FairSpec`: a timer that is set fires, and an await of a start
  (each of its loop), a stop or a connection settles, one way or the other. Spawning, listening,
  stopping and the initialize request have timeouts in the code. The WebSocket
  handshake has none; weak fairness of a connection assumes a process that
  answers it or exits. Nothing is assumed of Desktops, answers or close.
- `SocketLock!FairSpec`: a live contender runs its awaits and its action to their
  end. Nothing is assumed of arrivals, deaths, the lease, or the limit of
  retries (`GiveUp`): `ContendersLeave` holds without it.
- `TurnSteering!FairSpec`: the 20 s timer fires, continuations run, and the
  Harness answers a lookup and a start, which have no timeout here. Nothing is
  assumed of the cancel, the terminal event, interrupts or close.

- `ThreadSessions!FairSpec`: what an operation or a restore awaits settles, and a
  release ends after 60 s at the latest, whatever the session does. Opening a
  session, starting a Turn and the close that a delete or a replacement orders have
  no timeout in the Host; that they settle is an assumption about the Harness.
  Nothing is assumed of idle checks, outputs, settings or the shutdown.
- `ThreadWatch!FairSpec`: the timer fires, reads and sends return, and 60 s and 6 h
  pass. Deadlines, Turns and deletions need not come.
- `SharedThreads!FairSpec`: frames arrive, the 120 s timer of the owner fires, and a
  write ends when the Host has read all that was written. Nothing is assumed of the
  Host, of users or of links. `CallsEnd` names what it needs of the Host itself: that
  it has read everything again and again (`HostReads`). It need not reply. Without
  that premise TLC refutes `CallsEnd` (item 17 of section 5), and so it does if the
  loop of a session that waits for an answer to be written is never resumed.

`ThreadHistory` has safety properties only.

## 4. What is proved

For every value of the constants, from the assumptions that the modules name:

| Module | Theorem | Statement | Inductive invariant |
|---|---|---|---|
| `StoreProofs` (`StoreLock`) | `LockTypeCorrect` | `LockTypeOK`, overlap included | itself |
| | `SerialMutualExclusion`, `SerialHolderKeepsLock`, `SerialOrderlyClose` | under `Overlap = FALSE`; the last but for `hindered` instances | `LockInv`: one acquires at a time; a lock with a live owner's record is there while it holds; while somebody acquires past the judgement, no live record is there |
| | `SerialRefusal` | `RefusedOnlyByLiveInstance` under `Overlap = FALSE` | `LockInv`, and `Named`: a lock file names nobody who has yet to create one, and nobody who has not begun; there is none between a rename that succeeded and the second attempt |
| `SharingProofs` (`SocketLock`) | `SocketTypeCorrect` | `SocketTypeOK` | itself |
| | `RegistersAreKept` | `RegisterIsKept` | `Kept`: a register marked for removal was found abandoned, and its owner is dead or out of its lease for good |
| | `ActionsExclude` | `MutualExclusion` | `Bakery`: `Kept`, what a catalog still to be finished implies of those not yet read, and that whoever is past its catalog precedes everyone with a ticket, or who will draw one |
| `SharingProofs` (`SharedThreads`) | `TypeCorrect` | `TypeOK` | `TypesInv`: every frame is of a call or of a question, as its kind says; finitely many calls and questions were made up; who has no link has no frames |
| | `StartsOnce` | `StartedOnce` | `StartInv`: `TypesInv`; a request is at one place of its way and is replied to once (`RequestsInv`); one whose refusal is held until its frame is written will not start any more (`HeldInv`); there is one receipt per message, and of every request under way or begun, unless its message was forgotten (`ReceiptsInv`) |
| | `GuisAgree` | `ViewsAgree` | `TypesInv` and `ViewInv`: no frame about a question is ahead of the Host (`EventsFit`); an open question is on its way to everybody who does not show it (`OpenFits`), and so is the end of a closed one, behind every frame that asks it (`ClosedFits`) |
| | `GuisAreToldTheTruth` | `ToldTheTruth` | `TypesInv`, `RequestsInv`, `HeldInv` and `TruthInv`: what the Host has replied and the owner has accepted, or holds as accepted, was started; who waits for a request has its message and input, and is that request or has none of its own left to start (`OwnerKnows`); replies in flight and outcomes shown are true (`GuisKnow`) |
| `StoreProofs` (`MappingStore`) | `TypeCorrect` | `TypeOK`, idle queue while down | `TypeOK /\ QueueOK` |
| | `ReplacementsAreNeverStale` | action property | `ReplaceInv`: nothing but the queue changes a record between the check and its effect, and a removed ID is never handed out again |
| | `IdentitiesAreUnique` | `RecordsUnique` | `UniqueInv`: the record about to be applied is disjoint from all others too |
| | `FilesAlwaysLoad` | `DiskLoads` | `StoreInv`: `ReplaceInv`, `UniqueInv`; `ValidInv`: records, and the one a mutation is about to write, satisfy what initialize() demands; `UnlinksOK`: unlinks outlive a removal only of torn Threads; `DiskInv`: in each phase of a mutation, which of the two versions each file has, and between the unlinks of a removal, which are there |
| | `RecordsSurvive` | `MemoryIsDurable` | `StoreInv` |
| | `TurnPairsNeverSplit` | action property `TurnPairsAreStable` | `StoreInv` and `PairsInv`: the record about to be applied keeps the pairs of the present one of its session |
| | `StoreIsDurableMap` | `IsDurableMap`: `MappingStore` implements `DurableMap` | `StoreInv` |
| `DelegationProofs` | `StartsAreApart`, `SerialTypeCorrect` | under `Overlap = FALSE`: `StartInv`, `TypeOK` | `StartInv`: calls that are one to the Host are never in flight together, nor one with another that is done (`CallsAlone`); what a call has left behind says how far it came (`Trace`); a file that is not in memory is just being written, and a call that writes found no relation of its request (`FilesFit`); neither index has a duplicate, and both are finite (`IndexesFit`); while nothing was disturbed a call works on its own record (`UndisturbedFit`) |
| | `SerialStoreReopens`, `SerialOneChild`, `SerialFailureIsClean`, `SerialSuccessHasChild` | under `Overlap = FALSE`: `StoreReopens`, `OneChildPerKey`, `FailedStartLeavesNothing`, `UndisturbedSuccessHasChild` | `StartInv` |
| `OfficialProofs` | `TypeCorrect`, `ProcessIsOwned`, `ReadyIsServing`, `SentWorkStaysCurrent`, `ClosedScopeStartsNothing` | with and without recovery | `Agreement`: how the phase, the pending start and stop, the scope and the gate fit together, and that no request is of a later generation than the owner's |
| | `RecoveryStaysArmed` | `RecoveryIsArmed` | `Armed`: `Agreement`, and a process that runs has the gate open, until a start finds a late connection |
| | `ClientsImplementRuntime` | `ClientsSpec => Spec`: with its clients the runtime does nothing that `OfficialRuntime` does not, so that all its theorems hold here | none: every event is one of `OfficialRuntime` or leaves its state alone |
| | `ClientsTypeCorrect` | `ClientsTypeOK` | `ClientsAgree` |
| | `ReadyServesEveryDesktop` | `ReadyServesAll` | `ClientsAgree`: `Agreement`; a start under way is where `round` is; who is in the loop was attached; whoever the loop has taken, or will not take, is connected to the owner's generation and initialized if its Desktop was answered, unless missed |
| `TurnSteeringProofs` | `SteeringAgrees`, `TypeCorrect` | `SteerInv`, `TypeOK` | `SteerInv`: the active Turn is the last begun, and only the operation under way waits for itself (`CallsFit`); who was answered with a replacement named a Turn that is over, and not the one about to be replaced (`BegunFit`); a lookup of a command has the Thread to itself unless crossed (`LookupFits`); receipts are one per message, and the operation under way has one that is not settled (`ReceiptsFit`) |
| | `MessagesReplaceOnce`, `ReplacementIsNext`, `StoppedBeginsNothing`, `RepetitionsJoin` | `OneReplacementPerMessage`, `NotPreempted`, and the action properties `StoppedStaysStopped`, `RepetitionJoins` | `SteerInv` |
| `ThreadSessionsProofs` | `OneAtATime` | `OrderInv` | `OrderInv`: every operation is where its place in the queue allows (`OperationsFit`, `QueueFits`); a release, a delete and the closing Host run alone (`ClosesAlone`) |
| | `HoldersAreRight` | `HoldersInv` | `HoldersInv`, over `OrderInv`: who holds which instance (`OwnersFit`), what a release, a restore and a rollback own (`ReleaseFits`, `RestoreFits`, `NextsFit`), when the loaded instance is live (`LoadedFits`), and that every open session is known to somebody (`AllKnown`) |
| | `SessionsStayInUse`, `NeverTwoWriters`, `LoadedMatchesStore`, `EverySessionKnown`, `NothingOutlivesHost`, `FailedIsNeverReused` | `NotClosedInUse`, `OneWriter`, `LoadedIsStored`, `NothingOrphaned`, `ShutdownIsComplete`, and the action property `FailedStaysBlocked` | both |
| `ThreadWatchProofs` | `TypeCorrect` | `TypeOK` | itself |
| | `SharedWatch` | `OneWatchPerPair` | `TypeOK` and the property: the search and the push are one step |
| | `NeverStopsPolling` | `PollsWhileActive` | `TypeOK` and the property |
| | `ImplementsPromise` | `KeepsPromise`: `ThreadWatch` implements `OneShot` | `Follows`: `TypeOK`; what is armed or due and not being sent was not told; what is being sent goes to one Thread, is due and not in doubt; a late notification is one in doubt |
| | `KeepsNewestBacklog` | `BacklogIsNewest` | `Follows` and `BacklogInv`: every watch ever added has one place in the order (`Placed`); where one was trimmed, the backlog is full until the service closes (`Full`): without it a watch older than a trimmed one could still be kept |
| `ThreadHistoryProofs` | `HistoryInvariant`, `TypeCorrect` | `Inv`, `TypeOK` | `Inv`: `Types`; the Turns of the native sessions and what is known of their ends (`TurnsInv`); the stored record and those in memory follow the session they are of (`StoreInv`, `MemInv`); the calls under way are in order (`Orderly`) and what each has read still fits (`CallsInv`); memory has the stored record, or a call carries it, or `apart` says why not (`MemoryInv`); the children (`ChildrenInv`) |
| | `TurnsKeepIds`, `EndedTurnsStay`, `MemoryMatchesStore`, `ChildrenAreOwn` | `TurnKeepsId`, `EndedTurnsAreStored`, `MemoryIsStored`, `ChildIsItsOwn` | `Inv` |
| | `OneThread` | action property `OneThreadPerChild` | `Inv` and `TwinInv`: a create request is stored once (`RequestsInv`); whoever is about to commit a child made its request, and only a rollback moves one (`WaitInv`); a rollback goes on only once its Subagent has a child, to a session nobody has asked about (`OpeningInv`, `Untouched`), and then moves it (`NotingInv`); until the children are left behind, a child of a Turn that the stored session has was asked for under that session, or is found under it (`OneChild`) |

Each inductive invariant, or the part of it that is not obvious, was checked by TLC
on the instance of its run before it was proved.

**Assumptions.** The theorems of `StoreLock` and `Delegation` that begin with
`Serial` (and `StartsAreApart`) need `Overlap = FALSE`: without it TLC refutes
`MutualExclusion` and `StoreReopens`, as section 5 tells. The others assume the
types of constants, and of `MappingStore` that the value for an idle queue is no
operation (`IdleAssumption`). No theorem assumes that a set of constants is finite.
Where an argument counts, the finite set is one that the code fills one by one:
the files and child records of `Delegation`, the watches in `order`, the receipts,
the calls and questions of `SharedThreads`.

**The argument of the longer proofs.** Each module first has lemmas on its operators
(of `Map.delete` on an ordered map, of lists that `readdir` gives in any order, of
what a mutation of the store may do to a record); then, for each group of actions
that do the same to the state, what they do; then the step, one lemma per group or
action. A finite set of numbers has a least member because the library's theorem on
the strict order of finite sets says so (`LeastIndex`); induction over sequences is
not needed elsewhere.

`ThreadHistory` is the longest. Its four invariants are not inductive because a
call goes by what it read before the write queue got to it. What a call carries is
therefore part of the invariant, stage by stage (`ReadInv`, `RollbackInv`): the
snapshot begins the history of its session; the mappings it proposes name those
Turns, each under its own ID, or is of a Turn that has ended meanwhile; the
candidate of a rollback is shorter, and of a session nobody else holds. A record
`Follows` a history if its mappings name Turns of it and a record with as many
mappings as a beginning of the history has Turns has exactly that beginning: this
is what survives a Turn that the record skips, and what makes `alignSnapshot` give
back the right IDs. For memory, somebody `Carries` the stored record between its
write and the await that hands it to the object. For the children, a session has
at most one Turn whose child is looked up (`Spawn`), a child that a lookup could
find under a session is of that Turn (`ChildInv`), and so is one that a call is
about to create, commit or move (`MatInv`). The many actions then change a call in
one of five ways (it moves on, ends, waits, takes over or adopts a record), so each
part of the invariant has one lemma for callers that move, one for the store, and
one for the step.

That a Subagent gets no second Thread (`OneThread`) needs more, because a second one
comes about long before it is ready: at a lookup that finds nothing, under a session
whose child is filed under another. `TwinInv` says why that does not happen. While the
loaded session is the stored one, or none is loaded, each Turn with a Subagent is `Fresh` (its records
were asked for under this session, and no other object of the Host has the Turn) or
`Adopted` (a ready child has the request of this session); as a request is stored
once, a child committed under that session is the only one either way. A rollback
is the one way from a session to another that has the Turn: its projection
materialized the child before the candidate was opened, nobody can have asked under
the new session, so after the replacement the lookup under the former one finds the
child and moves it, and the object is taken over only once that is done. Two gaps
remain, and the property names them: a caller that was projecting the old session
when it was replaced (`Misplaced`), and a crash or failure between the replacement
and the move ("not moved").

`StoreIsDurableMap` has one case per step of the store. Validation is `Begin`: the
record about to be written is the next revision (`NextOK`, and `ReplaceInv` for a
replacement that was prepared earlier). The writes of files are stutters, as memory
answers; what they do to the files is remembered by `DiskInv`, phase by phase. The
crash draws on that: a Thread that is not torn has both files as memory has them, or
as the operation under way is about to make them, or the one and the other, or what
a removal has left of them; a torn one has a file of its own identity, though its revision, project or state may be of
another age (`Backed`). A restart finds what the crash left, because both read the
files alike. A TLC run refutes the refinement if the failure of the metadata file
does not restore the Thread file.

`SharedThreads` has three arguments over the same two facts. The first fact is where
a request is: with its GUI, with the owner, with the Host, or replied to, at one of
them and once (`RequestsInv`); it is what makes "its own request will not start a
Turn" stable, for nothing but the GUI of a call that is new can queue it; it holds as well of a refusal
that is held while its frame waits for the pipe, which is why `HeldInv` is needed. The second
is what sequences of frames say (`Occurs`, `Once`, `Closes`), with one lemma for each
way in which the code changes one: a frame added, a frame taken, frames told to
several calls in any order. On them rest the receipts, the views, and the truth of
replies. For views the order of frames matters: a GUI that reads on sees the question
closed last, because whatever asks it is followed by what closes it, in the inbox or
behind it in `down`. For replies the inputs matter: a call may wait for a request
of another GUI only if both sent the same, and inputs do not change once sent.

What a theorem states for every value is not always checked by a run as well.
Proved and no longer a run's property: the type invariants of the proved
components, `RecordsUnique` (identities of records), `MemoryIsDurable` (the part of
`IsDurableMap` that is about files), `HolderKeepsLock` and
`OrderlyCloseFreesLock` (`StoreLock`), `RecoveryIsArmed`, `ClosedStartsNothing`
and `ReadyMeansServing`, now a part of `ReadyServesAll` (`OfficialRuntime`),
`RegisterIsKept` (`SocketLock`), `OneWatchPerPair` and `PollsWhileActive`
(`ThreadWatch`), `ToldTheTruth` (`SharedThreads`). TLC found them to hold on the
instances of the runs before they were proved.

Every safety property of a run is a theorem. Only model-checked is liveness, and with
overlapping starts nothing of `StoreLock` and `Delegation` but the two violations. Liveness
(`SettledRecovers`, `ContendersLeave`, `CallsEnd`, `CallsAreAnswered`,
`OperationsEnd`, `EndsWhenDue`, `DeliveryEnds`) is out of the proof system's reach and stays with TLC,
as would be `ENABLED`, induction over data, and anything about a RECURSIVE operator;
no module has one.

## 5. Where the code disagrees with its documents

1. **Two owners of the store** (`store_lock_overlap`, `store/mapping-store.ts:1280`).
   A creates `store.lock`, still empty; B reads it, finds no owner, renames it
   aside and creates its own; A writes into the renamed file. The store's
   specification promises one exclusive lock. Serial starts are safe.
2. **A store that no longer opens** (`delegation_repeated_request`, `:550`). Two
   overlapping starts with one Request ID both pass the check and both write a
   relation. From then on `initialize()` throws.

The others have no run of their own. Where a property is named, TLC finds them as
told.

3. **Two children of one task** (`host/harness-delegation-coordinator.ts:243`).
   Overlapping starts without a Request ID both find nothing recent.
   *`OneChildPerKey` of `Delegation` with `Overlap` TRUE, `Explicit` empty and
   `Faults` FALSE.*
4. **A child that is not there** (`store/mapping-store.ts:403`). `start()` stores
   the relation before the child's record is ready; after a crash between the two,
   `initialize()` drops the record and keeps the relation, which every repetition
   follows to a missing Thread. *`SuccessHasChild` of `Delegation` with
   `DelegationFaults.cfg`;* `UndisturbedSuccessHasChild` is what remains true.
5. **A gate that stays shut** (`host/codex-runtime/official-runtime-scope.ts:88`).
   If a connection to the lost process settles only after the replacement is up,
   `gate.initialized()` throws "busy"; the next start finds nothing to start, and
   nothing tries again, although
   `openspec/specs/remote-ssh-harness-host/spec.md:9` promises a replacement
   "instead of leaving a managed listener that accepts connections but cannot serve
   native Codex". That connection is one of a request whose client had none: of a
   delegation through a Host that attached after the start's snapshot.
   *`Recovers` of `OfficialClients` with `OfficialClientsFaults.cfg`;*
   `SettledRecovers` shows that this is the only obstacle.
6. **A command in front of a replacement**
   (`docs/architecture/external-thread-steering.md:10` says that commands cannot
   preempt one). A command that is admitted while the Thread is idle awaits its
   catalog; a delegated start does not look at its reservation and begins a Turn; if
   Desktop steers that Turn and it is over when the catalog arrives, the command
   begins (`host/app-server-host.ts:3667` checks the active Turn only) and the
   replacement fails. *`NotPreempted` without `~crossed`.*
7. **A rollback that is stored but not in effect.** If a Turn begins between
   `external-thread-rollback.ts:211` and `external-thread-runtime.ts:335`, `replace()`
   throws and the rollback is refused. The store names the new session by then, the
   Host keeps the old one and forgets the new one without closing it; refusals are
   to leave store and runtime alone
   (`openspec/specs/external-thread-fork-routing/spec.md:57-59` says it of unsuitable
   targets). *`LoadedIsStored`, `NothingOrphaned` without `crossed`.*
8. **A delete that meets a restore.** A restore whose alignment writes nothing
   registers an instance of a record that was removed meanwhile
   (`external-thread-repository.ts:497`); a delete that located nothing drops an
   instance that was restored meanwhile without closing it
   (`app-server-host.ts:4326`). *The same properties without `crossed`.*
9. **Swallowed closes.** `#restore` (`external-thread-runtime.ts:657`) and
   `replace()` ignore that a close failed, and the next session of the Thread may
   be its second writer. *`OneWriter` without `unconfirmed`.*
10. **A Turn that changes its ID.** A read takes its snapshot, a Turn ends or
    begins, and the read aligns: a Turn that the snapshot has and the record has not
    is given a drawn ID, which then keeps out the one it was shown with
    (`persistenceError`); one the record has and the snapshot has not loses its
    mapping. *`TurnKeepsId`, `EndedTurnsAreStored` without `crossed`.*
11. **Memory behind the store.** A refresh whose children cannot be projected after
    its mappings were stored leaves `thread.record` behind, so that later refreshes
    fail with -32081 until a Turn is stored or the Thread is loaded again; a
    projection that a Turn's end overtakes puts the older record back; of two
    overlapping refreshes that find the same new Turn, one fails; an empty snapshot
    of a session that was replaced can wipe the mappings of the new one.
    *`MemoryIsStored` without `apart`.*
12. **A second Thread for a child** (`host/external-subagent-threads.ts` speaks of
    "one Host identity"). A crash between the replacement of a session and the
    rebinding of its children, or a read of the replaced session that is still under
    way, materializes a retained child again. *`OneThreadPerChild` without its last
    two disjuncts.*
13. **A watch that is joined late** (`docs/architecture/thread-watch.md`: every
    registration is honoured). A call that finds the watch of an earlier one, whose
    read is just finding the target stopped, is answered by that stop and not by the
    one it waits for. And the undeliverable watches that are kept are those that
    were *registered* last: one that became undeliverable a moment ago may go first.
14. **A message that starts two Turns** (`shared-thread-owner.ts:62`). Receipts are
    evicted while their turn/start is under way, and dropped when it times out with
    its outcome unknown; a repetition then starts another Turn. Steering, in
    contrast, never evicts a delivery under way. *`StartedOnce` without
    `forgotten`.*
15. **A question that stays** (`shared-thread-bridge.ts:84`). A GUI whose link is
    down when a question is closed still shows it after it subscribes again, and its
    answer is dropped. *`ViewsAgree` without `stale`.*

16. **A Desktop that is not initialized with the replacement**
   (`host/codex-runtime/official-runtime-owner.ts:128-131`). A Desktop whose initialize
   comes while a recovery has passed its client and connects the others is answered
   by the Host, and its client joins the new process without an initialization
   until the next start. `openspec/specs/remote-ssh-harness-host/spec.md:58` has
   attached sessions "reconnect and reinitialize on the replacement".
   *`ReadyServesAll` without `~missed`.*
17. **A timer that nobody hears** (`shared-thread-peer.ts:66-68`,
   `packages/protocol-core/src/jsonl.ts:64-88`). The 120 s of a forwarded request
   reject a result that `request()` looks at only once its frame is written, and a
   write over the full pipe to the Host waits for the Host without limit. The Host's
   input loop handles answers in line (`app-server-host.ts:1150`, `:5439`, `:5589`);
   while one of those hangs in a Harness, no caller behind a full pipe is told that
   the outcome is unknown, and a GUI of the same process, which has no timer of its
   own, waits as long. *`CallsEnd` without its premise `HostReads`.*
18. **A refusal by nobody** (`store/mapping-store.ts:1280-1289`). A rename of a stale
   lock that fails is swallowed, and any failure of the second attempt is reported as
   STORE_LOCKED, though no other process lives;
   `openspec/specs/external-thread-mapping-store/spec.md:49` has initialization
   "recover the stale lock rather than report a live writer".
   *`RefusedOnlyByLiveInstance` without `hindered`.*
19. **Half a removal** (`:992-996`). The three unlinks of a removal end in any order.
   A crash after the metadata and before the Thread file brings a Thread back without
   its project; and when one unlink fails, the removal ends while the others go on,
   and may take a file that a later mutation of the Thread, which is still in memory,
   has just written. *The last disjuncts of `MemoryIsDurable` and of `Left` in
   `DurableMap`; `torn`.*
20. **A session that outlives its start** (`host/harness-delegation-coordinator.ts:409`).
   The cleanup of a failed start swallows the failure of `session.close()`; the
   session is then in no map of the Host, and nothing closes it again.
   *`FailedStartLeavesNothing` without `unclosed`.*
21. **A Thread that is reported gone** (`host/harness-delegation-coordinator.ts:500-505`). Any error of
   locating or restoring a Thread becomes THREAD_NOT_FOUND, which ends a watch with
   "notFound" at once, although `host/delegation-watch.ts:229` holds that read
   failures "may be transient, so only a sustained failure is reported".

## 6. Plan and limits

### 6.1 Next

Every safety property that a run checks is proved. What would say most next: the
components that are not modelled and keep state of their own, in the order of
section 6.2 (updates and the runtime lease first, which are protocols with the
operating system); and abstract specifications of more of what is: the deliveries
of `TurnSteering` as one replacement per message, and the sessions of
`ThreadSessions` as one writer that is handed over.

### 6.2 Not modelled, and why

- **Subscriptions of the official runtime's clients**, their restoration in a new
  generation, server-initiated requests, the management client and the client of an
  `externalOnly` Host. The first two add the Threads of the official process to every
  event; the last two have no Desktop whose initialization could be missed.
- **Official internal requests.** IDs are random and never used again; that an
  answer after the 1024th later request is passed on is the bound and nothing more.
- **Delegation.** `send`, `result`, `archive`, the official target and the expiry of
  implicit deduplication; the control server and CLI translate.
- **History.** Rollback by fork, histories of children, grandchildren, checkpoints.
- **Side records of the store** (section placements, superseded sessions),
  thread lists, prewarms, accounts and settings: single-file records without
  interleavings of their own.
- **Updates, the runtime lease of the shim, the launcher and the platform crate:**
  protocols with the operating system (process identity, file replacement), which
  deserve models of their own.
- **Adapter kit, broker and the Harness adapters:** their vendors' protocols are
  outside the repository; what the Host relies on (one terminal event per Turn,
  closes that settle or fail) is assumed of sessions in `TurnSteering`,
  `ThreadSessions` and `ThreadHistory`.
- **Protocol projection, desktop control, renderer, console, discovery, tools,
  contracts:** translation, user interface and pure input and output.
