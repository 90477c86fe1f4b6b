---------------------------- MODULE MappingStore ----------------------------
(***************************************************************************)
(* The Thread records of the Mapping Store,                                *)
(* src/packages/mapping-store/src/mapping-store.ts and records.ts, in one  *)
(* Host process that may crash and start again.                            *)
(*                                                                         *)
(* A record lives in memory (#records) and on disk: the Thread file holds  *)
(* everything but the Desktop metadata, which has a file of its own.       *)
(* Every mutation runs in the write queue (#enqueue), one at a time, and   *)
(* takes several steps: validate, replace the Thread file, perhaps the     *)
(* metadata file, and only then memory and the indexes.  The indexes are   *)
(* rebuilt from #records in the step that changes it, so they are operators*)
(* here and not state.                                                     *)
(*                                                                         *)
(* One Harness is modelled: a native session is a member of Sessions and a *)
(* native turn a pair of a session and a key.  The Desktop metadata is one *)
(* field, the project; title, cwd, archived, pinned and the transport      *)
(* model are left out, though not the writes that change them.             *)
(***************************************************************************)
EXTENDS Naturals, Sequences

CONSTANTS
  Threads,       \* Host Thread IDs
  Requests,      \* create request IDs
  Sessions,      \* Native Session IDs
  Turns,         \* Host Turn IDs
  Keys,          \* Native Turn keys
  Projects,      \* project assignments
  Clients,       \* callers that prepare a history replacement
  NoRecord, NoSession, NoThread, NoProject, Idle,
  MaxRevision,   \* bound on the revision of a record
  MaxTurns       \* bound on the Turn mappings of a record

ASSUME MappingStoreAssumption ==
  /\ MaxRevision \in Nat \ {0} /\ MaxTurns \in Nat
  /\ NoSession \notin Sessions
  /\ NoThread \notin Threads
  /\ NoProject \notin Projects

VARIABLES
  up,         \* is the store initialized
  records,    \* #records: what readers see
  files,      \* the Thread files
  metaFiles,  \* the metadata files
  op,         \* the mutation the write queue is running, or Idle
  fresh,      \* Host Thread IDs not handed out yet (they are UUIDs)
  prepared,   \* the record each client prepared a replacement from
  torn,       \* Threads whose failed write or removal left disk and memory
              \* different (a history variable)
  left,       \* the files that the running removal has yet to unlink
  late        \* unlinks that go on although their removal failed

vars == <<up, records, files, metaFiles, op, fresh, prepared, torn, left, late>>

(* What a Thread has on disk.  The backup is the previous Thread file.     *)
FileKinds == {"thread", "backup", "meta"}

Mappings == [turn : Turns, session : Sessions, key : Keys]

Records ==
  [state    : {"creating", "ready"},
   request  : Requests,
   session  : Sessions \cup {NoSession},
   parent   : Threads \cup {NoThread},     \* the subagent association
   forked   : BOOLEAN,                     \* has a forkSource
   turns    : Seq(Mappings),
   revision : 1 .. MaxRevision,
   project  : Projects \cup {NoProject}]

ASSUME NoRecordAssumption == NoRecord \notin Records

(* An operation of the queue: the next record of a Thread, the step it is  *)
(* at and, for a replacement, the record it was prepared from.  A removal  *)
(* has no next record.                                                     *)
Operations ==
  [thread : Threads, next : Records, expected : Records \cup {NoRecord},
   phase : {"write", "meta", "restore", "apply"}]
  \cup
  [thread : Threads, next : {NoRecord}, expected : {NoRecord},
   phase : {"remove", "apply"}]

ASSUME IdleAssumption == Idle \notin Operations

Exists(r) == r # NoRecord
Ready(r) == Exists(r) /\ r.state = "ready"

SeqOf(S, n) == UNION {[1 .. k -> S] : k \in 0 .. n}

MappingsOf(r) == {r.turns[i] : i \in DOMAIN r.turns}

(* withoutThreadMetadata: what goes to the Thread file.                    *)
Core(r) == [r EXCEPT !.project = NoProject]

-----------------------------------------------------------------------------
(* refineThreadRecord: what the schema demands of one record.              *)
ValidRecord(r) ==
  /\ r.state = "ready" => r.session # NoSession
  /\ \A i, j \in DOMAIN r.turns : i # j =>
       /\ r.turns[i].turn # r.turns[j].turn
       /\ <<r.turns[i].session, r.turns[i].key>>
            # <<r.turns[j].session, r.turns[j].key>>
  /\ r.session # NoSession =>
       \A m \in MappingsOf(r) : m.session = r.session

(* Two records of one store do not claim the same identity.  A Subagent    *)
(* shares the session of its parent, but no Turn.                          *)
Disjoint(r, s) ==
  /\ r.request # s.request
  /\ (r.parent = NoThread /\ s.parent = NoThread /\ r.session # NoSession)
       => r.session # s.session
  /\ \A m \in MappingsOf(r), n \in MappingsOf(s) :
       m.turn # n.turn /\ <<m.session, m.key>> # <<n.session, n.key>>

UniqueIdentities(store) ==
  \A t, u \in Threads :
    t # u /\ Exists(store[t]) /\ Exists(store[u])
      => Disjoint(store[t], store[u])

(* #validateGlobal: against the indexes, which hold the current record of  *)
(* the Thread too, so that it may not give a native turn of its own a new  *)
(* Host Turn.                                                              *)
ValidGlobal(r, t) ==
  /\ \A u \in Threads \ {t} : Exists(records[u]) => Disjoint(r, records[u])
  /\ Exists(records[t]) =>
       \A m \in MappingsOf(r), n \in MappingsOf(records[t]) :
         <<m.session, m.key>> = <<n.session, n.key>> => m.turn = n.turn

-----------------------------------------------------------------------------
Init ==
  /\ up = TRUE
  /\ records = [t \in Threads |-> NoRecord]
  /\ files = [t \in Threads |-> NoRecord]
  /\ metaFiles = [t \in Threads |-> NoProject]
  /\ op = Idle
  /\ fresh = Threads
  /\ prepared = [c \in Clients |-> Idle]
  /\ torn = {} /\ left = {} /\ late = {}

QueueIdle == up /\ op = Idle

(* An operation passed its checks and starts to write.                     *)
Enqueue(t, next, expected, phase) ==
  op' = [thread |-> t, next |-> next, expected |-> expected, phase |-> phase]

(* #update up to its first write.  An operation whose checks fail, or that *)
(* returns null, changes nothing and is not a step.                        *)
Update(t, changed, expected) ==
  /\ QueueIdle
  /\ Exists(records[t])
  /\ records[t].revision < MaxRevision
  /\ LET next == [changed EXCEPT !.revision = records[t].revision + 1] IN
       /\ ValidRecord(next)
       /\ ValidGlobal(next, t)
       /\ Enqueue(t, next, expected, "write")
  /\ UNCHANGED <<up, records, files, metaFiles, fresh, torn, left, late>>

Provisional(request, parent, forked) ==
  [state |-> "creating", request |-> request, session |-> NoSession,
   parent |-> parent, forked |-> forked, turns |-> <<>>,
   revision |-> 1, project |-> NoProject]

(* createProvisional: a known request resolves to its Thread, a new one    *)
(* gets a record of its own.                                               *)
CreateProvisional(t, request, parent, forked) ==
  /\ QueueIdle
  /\ t \in fresh
  /\ parent # NoThread => Ready(records[parent])
  /\ \A u \in Threads : Exists(records[u]) => records[u].request # request
  /\ Enqueue(t, Provisional(request, parent, forked), NoRecord, "write")
  /\ fresh' = fresh \ {t}
  /\ UNCHANGED <<up, records, files, metaFiles, prepared, torn, left, late>>

(* Mutation: only the native turn is looked up.                            *)
MergeableByNative(turns, m) ==
  \A i \in DOMAIN turns :
    <<turns[i].session, turns[i].key>> = <<m.session, m.key>>
      => turns[i].turn = m.turn

(* #mergeMappings: an update keeps an existing pair or adds a new one, and *)
(* conflicts if it pairs a known Host Turn or native turn differently.     *)
Mergeable(turns, m) ==
  \A i \in DOMAIN turns :
    turns[i].turn = m.turn
      <=> <<turns[i].session, turns[i].key>> = <<m.session, m.key>>

Merge(turns, m) ==
  IF \E i \in DOMAIN turns : turns[i] = m THEN turns ELSE Append(turns, m)

(* commitReady looks at neither the state nor the session of the current   *)
(* record: a late caller commits it again, maybe with another session.  Its*)
(* callers bring mappings (those of a new Snapshot) only to a record that  *)
(* has none.                                                               *)
CommitReady(t, session, turns) ==
  /\ Exists(records[t])
  /\ turns # <<>> => records[t].turns = <<>> /\ records[t].parent = NoThread
  /\ Update(t, [records[t] EXCEPT !.state = "ready", !.session = session,
                                  !.turns = IF turns = <<>> THEN @ ELSE turns],
            NoRecord)
  /\ UNCHANGED prepared

(* upsertTurnMappings with the one mapping of persistTurn, which belongs   *)
(* to the session of a ready record.                                       *)
UpsertTurn(t, m) ==
  /\ Ready(records[t]) /\ m.session = records[t].session
  /\ Len(records[t].turns) < MaxTurns
  /\ Mergeable(records[t].turns, m)
  /\ Update(t, [records[t] EXCEPT !.turns = Merge(@, m)], NoRecord)
  /\ UNCHANGED prepared

(* reconcileTurnMappings: the mappings become those of the Snapshot, in    *)
(* its order; a pair that exists is never split.                           *)
ReconcileTurns(t, turns) ==
  /\ Ready(records[t])
  /\ turns # records[t].turns
  /\ \A i \in DOMAIN turns : Mergeable(records[t].turns, turns[i])
  /\ Update(t, [records[t] EXCEPT !.turns = turns], NoRecord)
  /\ UNCHANGED prepared

(* setTitle, setCwd, setTransportModelId, setArchived, setPinned: a new    *)
(* revision of a record whose identity stays.                              *)
SetField(t) ==
  /\ Exists(records[t])
  /\ Update(t, records[t], NoRecord)
  /\ UNCHANGED prepared

(* updateMetadata, with or without ifProjectId: the guard on the stored    *)
(* assignment is read in the queue.                                        *)
UpdateMetadata(t, ifProject, project) ==
  /\ Exists(records[t])
  /\ ifProject # NoProject => records[t].project = ifProject
  /\ records[t].project # project
  /\ Update(t, [records[t] EXCEPT !.project = project], NoRecord)
  /\ UNCHANGED prepared

(* rebindSubagentSession: a retained Subagent follows its parent to the    *)
(* session that replaced the previous one, with all its Turns.             *)
RebindSubagent(t, previous, request) ==
  /\ Ready(records[t]) /\ records[t].parent # NoThread
  /\ Ready(records[records[t].parent])
  /\ records[t].session = previous
  /\ LET session == records[records[t].parent].session IN
       /\ <<records[t].session, records[t].request>> # <<session, request>>
       /\ Update(t, [records[t] EXCEPT
                       !.request = request,
                       !.session = session,
                       !.turns = [i \in DOMAIN @ |->
                                   [@[i] EXCEPT !.session = session]]],
                 NoRecord)
  /\ UNCHANGED prepared

-----------------------------------------------------------------------------
(* A client reads a ready record and prepares a replacement of its session *)
(* from it; the native work it awaits takes as long as it likes.           *)
Prepare(c, t) ==
  /\ up
  /\ prepared[c] = Idle
  /\ Ready(records[t])
  /\ Len(records[t].turns) > 0
  /\ prepared' = [prepared EXCEPT ![c] = [thread |-> t, record |-> records[t]]]
  /\ UNCHANGED <<up, records, files, metaFiles, op, fresh, torn, left, late>>

(* The first n Turns of the prepared record in the session that replaces   *)
(* it (the mappings of commitForkRollback and commitLastTurnRollback).     *)
Retained(r, n, session) ==
  [i \in 1 .. n |-> [r.turns[i] EXCEPT !.session = session]]

SameTurns(turns, current) ==
  \A i \in DOMAIN turns : turns[i].turn = current[i].turn

(* Mutation: only the Turn prefix is compared.                             *)
PrefixOnly(t, r) == Ready(records[t])

(* The expectation both replacements compare inside the queue.             *)
MatchesExpected(t, r) ==
  /\ Ready(records[t])
  /\ records[t].revision = r.revision
  /\ records[t].session = r.session

(* #replaceReadySession: a forked Thread keeps a shorter prefix, at least  *)
(* one Turn, in a distinct session.                                        *)
ForkReplacement(t, r, turns, session) ==
  /\ records[t].forked
  /\ session # r.session
  /\ Len(turns) >= 1 /\ Len(turns) < Len(records[t].turns)
  /\ SameTurns(turns, records[t].turns)

(* #replaceReadySessionAfterLastTurn: the last Turn goes.                  *)
LastTurnReplacement(t, turns) ==
  /\ Len(turns) = Len(records[t].turns) - 1
  /\ SameTurns(turns, records[t].turns)

ReplaceSession(c, session, n) ==
  /\ prepared[c] # Idle
  /\ LET t == prepared[c].thread
         r == prepared[c].record
         turns == Retained(r, n, session) IN
       /\ n <= Len(r.turns)
       /\ MatchesExpected(t, r)
       /\ ForkReplacement(t, r, turns, session) \/ LastTurnReplacement(t, turns)
       /\ Update(t, [records[t] EXCEPT !.session = session, !.turns = turns], r)
  /\ prepared' = [prepared EXCEPT ![c] = Idle]

(* MAPPING_CONFLICT, or the native work failed.                            *)
AbandonReplacement(c) ==
  /\ prepared[c] # Idle
  /\ prepared' = [prepared EXCEPT ![c] = Idle]
  /\ UNCHANGED <<up, records, files, metaFiles, op, fresh, torn, left, late>>

(* removeProvisional (not of a ready record) and removeThread.             *)
Remove(t, provisional) ==
  /\ QueueIdle
  /\ Exists(records[t])
  /\ provisional => records[t].state # "ready"
  /\ Enqueue(t, NoRecord, NoRecord, "remove")
  /\ left' = FileKinds
  /\ UNCHANGED <<up, records, files, metaFiles, fresh, prepared, torn, late>>

-----------------------------------------------------------------------------
(* The steps of the running operation.                                     *)
At(phase) == up /\ op # Idle /\ op.phase = phase

(* #replaceFile: the rename makes the new record durable.                  *)
WriteFile ==
  /\ At("write")
  /\ LET t == op.thread IN
       /\ files' = [files EXCEPT ![t] = Core(op.next)]
       /\ op' = [op EXCEPT !.phase =
                   IF Exists(records[t]) /\ records[t].project # op.next.project
                   THEN "meta" ELSE "apply"]
  /\ UNCHANGED <<up, records, metaFiles, fresh, prepared, torn, left, late>>

WriteFileFails ==
  /\ At("write")
  /\ op' = Idle
  /\ UNCHANGED <<up, records, files, metaFiles, fresh, prepared, torn, left, late>>

(* #writeMetadataFile, or the unlink if the metadata is gone.              *)
WriteMeta ==
  /\ At("meta")
  /\ metaFiles' = [metaFiles EXCEPT ![op.thread] = op.next.project]
  /\ op' = [op EXCEPT !.phase = "apply"]
  /\ UNCHANGED <<up, records, files, fresh, prepared, torn, left, late>>

(* Mutation: the error is thrown without restoring the previous record.    *)
MetaFailsUnrestored ==
  /\ At("meta")
  /\ op' = Idle
  /\ UNCHANGED <<up, records, files, metaFiles, fresh, prepared, torn, left, late>>

WriteMetaFails ==
  /\ At("meta")
  /\ op' = [op EXCEPT !.phase = "restore"]
  /\ UNCHANGED <<up, records, files, metaFiles, fresh, prepared, torn, left, late>>

(* The previous record goes back; if that fails too the error is swallowed.*)
RestoreFile ==
  /\ At("restore")
  /\ \/ /\ files' = [files EXCEPT ![op.thread] = Core(records[op.thread])]
        /\ UNCHANGED torn
     \/ /\ torn' = torn \cup {op.thread}
        /\ UNCHANGED files
  /\ op' = Idle
  /\ UNCHANGED <<up, records, metaFiles, fresh, prepared, left, late>>

(* Mutation: the Thread file stays where it is.                            *)
UnlinkMetaOnly(t, kind) ==
  /\ UNCHANGED files
  /\ metaFiles' = IF kind = "meta" THEN [metaFiles EXCEPT ![t] = NoProject] ELSE metaFiles

(* rm(path, { force: true }): a file that is missing is as good as removed.*)
Unlink(t, kind) ==
  /\ files' = IF kind = "thread" THEN [files EXCEPT ![t] = NoRecord] ELSE files
  /\ metaFiles' = IF kind = "meta" THEN [metaFiles EXCEPT ![t] = NoProject] ELSE metaFiles

(* #remove starts three unlinks and awaits them all (Promise.all): they    *)
(* end in any order, and memory follows when all have succeeded.           *)
RemoveFile(kind) ==
  /\ At("remove") /\ kind \in left
  /\ Unlink(op.thread, kind)
  /\ left' = left \ {kind}
  /\ UNCHANGED <<up, records, op, fresh, prepared, torn, late>>

FilesRemoved ==
  /\ At("remove") /\ left = {}
  /\ op' = [op EXCEPT !.phase = "apply"]
  /\ UNCHANGED <<up, records, files, metaFiles, fresh, prepared, torn, left, late>>

(* The first failure ends the removal and gives the queue to the next      *)
(* operation, while the other unlinks go on.                               *)
RemoveFileFails(kind) ==
  /\ At("remove") /\ kind \in left
  /\ late' = late \cup ({op.thread} \X (left \ {kind}))
  /\ left' = {}
  /\ torn' = torn \cup {op.thread}
  /\ op' = Idle
  /\ UNCHANGED <<up, records, files, metaFiles, fresh, prepared>>

(* One of those ends, whatever the queue is doing by then.                 *)
UnlinkLate(t, kind) ==
  /\ up /\ <<t, kind>> \in late
  /\ Unlink(t, kind) \/ UNCHANGED <<files, metaFiles>>
  /\ late' = late \ {<<t, kind>>}
  /\ UNCHANGED <<up, records, op, fresh, prepared, torn, left>>

(* Memory and the indexes, and the answer to the caller.                   *)
Apply ==
  /\ At("apply")
  /\ records' = [records EXCEPT ![op.thread] = op.next]
  /\ op' = Idle
  /\ UNCHANGED <<up, files, metaFiles, fresh, prepared, torn, left, late>>

-----------------------------------------------------------------------------
(* What initialize() makes of the files of a Thread: a record that is      *)
(* creating without a session is dropped, metadata joins its record.       *)
Loaded(t) ==
  IF files[t] = NoRecord \/ files[t].session = NoSession THEN NoRecord
  ELSE [files[t] EXCEPT !.project = metaFiles[t]]

(* The process dies, in the middle of an operation or not.                 *)
Crash ==
  /\ up
  /\ up' = FALSE
  /\ records' = [t \in Threads |-> NoRecord]
  /\ op' = Idle
  /\ prepared' = [c \in Clients |-> Idle]
  /\ left' = {} /\ late' = {}
  /\ UNCHANGED <<files, metaFiles, fresh, torn>>

(* initialize(): dropped records and metadata without a record leave the   *)
(* disk, and the indexes are rebuilt, which throws on a duplicate.         *)
Initialize ==
  /\ ~up
  /\ LET loaded == [t \in Threads |-> Loaded(t)] IN
       /\ UniqueIdentities(loaded)
       /\ records' = loaded
       /\ files' = [t \in Threads |->
                      IF Exists(loaded[t]) THEN files[t] ELSE NoRecord]
       /\ metaFiles' = [t \in Threads |->
                      IF Exists(loaded[t]) THEN metaFiles[t] ELSE NoProject]
  /\ up' = TRUE
  /\ torn' = {}
  /\ UNCHANGED <<op, fresh, prepared, left, late>>

QueueStep ==
  \/ WriteFile \/ WriteFileFails \/ WriteMeta \/ WriteMetaFails
  \/ RestoreFile \/ FilesRemoved \/ Apply
  \/ \E kind \in FileKinds : RemoveFile(kind) \/ RemoveFileFails(kind)

Next ==
  \/ \E t \in Threads :
       \/ \E r \in Requests, p \in Threads \cup {NoThread}, f \in BOOLEAN :
            CreateProvisional(t, r, p, f)
       \/ \E s \in Sessions, ms \in SeqOf(Mappings, MaxTurns) :
            CommitReady(t, s, ms)
       \/ \E m \in Mappings : UpsertTurn(t, m)
       \/ \E ms \in SeqOf(Mappings, MaxTurns) : ReconcileTurns(t, ms)
       \/ SetField(t)
       \/ \E i, p \in Projects \cup {NoProject} : UpdateMetadata(t, i, p)
       \/ \E s \in Sessions, r \in Requests : RebindSubagent(t, s, r)
       \/ \E b \in BOOLEAN : Remove(t, b)
  \/ \E c \in Clients :
       \/ \E t \in Threads : Prepare(c, t)
       \/ \E s \in Sessions, n \in 0 .. MaxTurns : ReplaceSession(c, s, n)
       \/ AbandonReplacement(c)
  \/ QueueStep
  \/ \E t \in Threads, kind \in FileKinds : UnlinkLate(t, kind)
  \/ Crash
  \/ Initialize

Spec == Init /\ [][Next]_vars

-----------------------------------------------------------------------------
TypeOK ==
  /\ up \in BOOLEAN
  /\ records \in [Threads -> Records \cup {NoRecord}]
  /\ files \in [Threads -> Records \cup {NoRecord}]
  /\ metaFiles \in [Threads -> Projects \cup {NoProject}]
  /\ op \in Operations \cup {Idle}
  /\ fresh \in SUBSET Threads
  /\ prepared \in [Clients -> [thread : Threads, record : Records] \cup {Idle}]
  /\ torn \in SUBSET Threads
  /\ left \in SUBSET FileKinds
  /\ late \in SUBSET (Threads \X FileKinds)

(* Readers never see two Threads that claim one create request, one Native *)
(* Session, one Host Turn or one native turn; the indexes of               *)
(* #rebuildIndexes are functions.                                          *)
RecordsUnique == UniqueIdentities(records)

(* Whatever step of whatever operation a crash interrupts, the files left  *)
(* behind can be loaded: initialize() never meets a duplicate.             *)
DiskLoads == UniqueIdentities([t \in Threads |-> Loaded(t)])

(* What readers see survives a crash: the files hold the record in memory  *)
(* or the one a running operation is about to put there, the metadata      *)
(* file included, and a record that was removed does not come back.  Only  *)
(* a provisional record may go, and only a record that is being removed    *)
(* may come back without its metadata.                                     *)
MemoryIsDurable ==
  up => \A t \in Threads \ torn :
    LET durable == Loaded(t)
        current == IF Exists(records[t]) /\ records[t].session = NoSession
                   THEN NoRecord ELSE records[t]
    IN  IF op = Idle \/ op.thread # t
        THEN durable = current
        ELSE \/ durable = current
             \/ durable = op.next
             \/ op.phase \in {"meta", "restore"}
                /\ [durable EXCEPT !.revision = current.revision] = current
             \/ op.phase = "remove" /\ Exists(current)
                /\ durable = [current EXCEPT !.project = NoProject]

(* A history replacement takes effect only on the very record it was       *)
(* prepared from: a Turn, a setting or another replacement that came in    *)
(* between makes it fail.                                                  *)
ReplacementIsNeverStale ==
  [][\A t \in Threads :
       op # Idle /\ op.thread = t /\ op.expected # NoRecord
       /\ up' /\ records'[t] # records[t]
         => records[t] = op.expected]_vars

(* While a Thread keeps its session, a Host Turn that stays mapped stays    *)
(* mapped to the same native turn and the other way round, whatever        *)
(* Snapshot or live Turn is written (Desktop knows a Turn by its Host ID). *)
TurnPairsAreStable ==
  [][\A t \in Threads :
       Ready(records[t]) /\ Ready(records'[t])
         /\ records'[t].session = records[t].session
         => \A m \in MappingsOf(records[t]), n \in MappingsOf(records'[t]) :
              m.turn = n.turn <=> m.key = n.key]_vars

(* To its readers the store is the map of DurableMap, through crashes and  *)
(* failed writes: initialize() finds what was there before.                *)
Readable == [t \in Threads |-> IF up THEN records[t] ELSE Loaded(t)]

Underway == IF op = Idle THEN {} ELSE {[thread |-> op.thread, record |-> op.next]}

Map ==
  INSTANCE DurableMap WITH value <- Readable, pending <- Underway,
                           damaged <- IF up THEN torn ELSE {}, unused <- fresh

IsDurableMap == Map!Spec
=============================================================================
