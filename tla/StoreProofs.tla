----------------------------- MODULE StoreProofs ----------------------------
(***************************************************************************)
(* Proofs about the Mapping Store, for any number of Host processes,       *)
(* Threads, sessions, Turns and clients.                                   *)
(*                                                                         *)
(* StoreLock: if acquisitions do not overlap, the lock file gives mutual   *)
(* exclusion whatever dies, fails or closes in between, and turns nobody   *)
(* away for a process that is dead.                                        *)
(*                                                                         *)
(* MappingStore: types, unique identities in memory and on disk, that a    *)
(* history replacement is never stale, that a crash takes nothing from the *)
(* readers, that a Turn keeps its native turn, and that all of this is the *)
(* map of DurableMap.                                                      *)
(***************************************************************************)
EXTENDS StoreLock, MappingStore, SequenceTheorems, TLAPS

-----------------------------------------------------------------------------
(* The process lock.                                                       *)

(* The lock file is the written record of p.                               *)
Written(p) == lock = [creator |-> p, content |-> "record"]

(* No live process has its record in the lock file.                        *)
NoLiveRecord ==
  \/ lock = NoLock
  \/ lock.content = "empty"
  \/ lock.creator \notin alive

AliveInv == \A p \in Instances : p \in alive <=> pc[p] # "dead"

OneAcquires ==
  \A p, q \in Instances : Acquiring(p) /\ Acquiring(q) => p = q

(* What the file holds at each point of the protocol.  The judge clause    *)
(* says that what was read is still the only record that could be live.    *)
FileInv ==
  \A p \in Instances :
    /\ pc[p] \in {"loading", "open", "closing", "unlinking"} => Written(p)
    /\ pc[p] \in {"write", "rewrite"} => lock = [creator |-> p, content |-> "empty"]
    /\ pc[p] = "judge" => NoLiveRecord \/ lock.creator = seen[p]
    /\ pc[p] = "rename" => NoLiveRecord
    /\ pc[p] = "closed" /\ p \notin hindered => lock = NoLock \/ lock.creator # p

LockInv == LockTypeOK /\ AliveInv /\ OneAcquires /\ FileInv

-----------------------------------------------------------------------------
(* The initial states satisfy the inductive invariant.                     *)
LEMMA InitLockInv == LockInit => LockInv
  BY StoreLockAssumption
  DEF LockInit, LockInv, LockTypeOK, AliveInv, OneAcquires, FileInv, Acquiring, Files, PCs

(* A step of an instance keeps the types.                                  *)
LEMMA NextLockTypeOK == LockTypeOK /\ [LockNext]_lockVars => LockTypeOK'
<1> SUFFICES ASSUME LockTypeOK, [LockNext]_lockVars PROVE LockTypeOK'
  OBVIOUS
<1> USE StoreLockAssumption DEF LockTypeOK, Files, PCs, Goto
<1>1. CASE UNCHANGED lockVars
  BY <1>1 DEF lockVars
<1>2. ASSUME NEW p \in Instances, Start(p) \/ Create(p) PROVE LockTypeOK'
  BY <1>2 DEF Start, Create
<1>3. ASSUME NEW p \in Instances, WriteLock(p) PROVE LockTypeOK'
  BY <1>3 DEF WriteLock, Record
<1>4. ASSUME NEW p \in Instances, AttemptFails(p) \/ ReadLock(p) PROVE LockTypeOK'
  BY <1>4 DEF AttemptFails, ReadLock, Record
<1>5. ASSUME NEW p \in Instances, 
             Judge(p) \/ RenameAside(p) \/ RenameFails(p) \/ Recreate(p)
      PROVE LockTypeOK'
  BY <1>5 DEF Judge, RenameAside, RenameFails, Recreate
<1>6. ASSUME NEW p \in Instances, Load(p) \/ Close(p) \/ CloseRead(p)
      PROVE LockTypeOK'
  BY <1>6 DEF Load, Close, CloseRead
<1>7. ASSUME NEW p \in Instances, CloseUnlink(p) \/ CloseFails(p) \/ Die(p)
      PROVE LockTypeOK'
  BY <1>7 DEF CloseUnlink, CloseFails, Die
<1>8. QED
  BY <1>1, <1>2, <1>3, <1>4, <1>5, <1>6, <1>7 DEF LockNext

(* Every step of a serialised run keeps the inductive invariant.           *)
LEMMA NextLockInv ==
  ASSUME ~Overlap
  PROVE  LockInv /\ [LockNext]_lockVars => LockInv'
<1> SUFFICES ASSUME LockInv, [LockNext]_lockVars PROVE LockInv'
  OBVIOUS
<1>0. LockTypeOK'
  BY NextLockTypeOK DEF LockInv
<1> USE StoreLockAssumption, <1>0
    DEF LockInv, LockTypeOK, AliveInv, OneAcquires, FileInv, Acquiring, Written,
        NoLiveRecord, Files, PCs, Goto
<1>1. CASE UNCHANGED lockVars
  BY <1>1 DEF lockVars
<1>2. ASSUME NEW p \in Instances, Start(p) PROVE LockInv'
  BY <1>2 DEF Start
<1>3. ASSUME NEW p \in Instances, Create(p) PROVE LockInv'
  BY <1>3 DEF Create
<1>4. ASSUME NEW p \in Instances, WriteLock(p) PROVE LockInv'
  BY <1>4 DEF WriteLock, Record
<1>5. ASSUME NEW p \in Instances, AttemptFails(p) PROVE LockInv'
  BY <1>5 DEF AttemptFails, Record
<1>6. ASSUME NEW p \in Instances, ReadLock(p) PROVE LockInv'
  BY <1>6 DEF ReadLock
<1>7. ASSUME NEW p \in Instances, Judge(p) PROVE LockInv'
  BY <1>7 DEF Judge, OwnerIsLive
<1>8. ASSUME NEW p \in Instances, RenameAside(p) PROVE LockInv'
  BY <1>8 DEF RenameAside
<1>9. ASSUME NEW p \in Instances, Recreate(p) PROVE LockInv'
  BY <1>9 DEF Recreate
<1>10. ASSUME NEW p \in Instances, Load(p) PROVE LockInv'
  BY <1>10 DEF Load
<1>11. ASSUME NEW p \in Instances, Close(p) PROVE LockInv'
  BY <1>11 DEF Close
<1>12. ASSUME NEW p \in Instances, CloseRead(p) PROVE LockInv'
  BY <1>12 DEF CloseRead
<1>13. ASSUME NEW p \in Instances, CloseUnlink(p) PROVE LockInv'
  BY <1>13 DEF CloseUnlink
<1>14. ASSUME NEW p \in Instances, Die(p) PROVE LockInv'
  BY <1>14 DEF Die
<1>15. ASSUME NEW p \in Instances, RenameFails(p) PROVE LockInv'
  BY <1>15 DEF RenameFails
<1>16. ASSUME NEW p \in Instances, CloseFails(p) PROVE LockInv'
  BY <1>16 DEF CloseFails
<1>17. QED
  BY <1>1, <1>2, <1>3, <1>4, <1>5, <1>6, <1>7, <1>8, <1>9, <1>10, <1>11,
     <1>12, <1>13, <1>14, <1>15, <1>16 DEF LockNext

(* The values of all variables keep their types, overlap or not.           *)
THEOREM LockTypeCorrect == LockSpec => []LockTypeOK
<1>1. LockInit => LockTypeOK
  BY InitLockInv DEF LockInv
<1>2. QED
  BY <1>1, NextLockTypeOK, PTL DEF LockSpec

(* store.lock admits one live owner at a time if acquisitions do not       *)
(* overlap (#acquireLock, close).                                          *)
THEOREM SerialMutualExclusion ==
  ASSUME ~Overlap
  PROVE  LockSpec => []MutualExclusion
<1>1. LockInv => MutualExclusion
  BY DEF LockInv, FileInv, MutualExclusion, Holding, Written
<1>2. QED
  BY <1>1, InitLockInv, NextLockInv, PTL DEF LockSpec

(* Nobody takes the lock file of an owner away (rename in #acquireLock, rm *)
(* in close) if acquisitions do not overlap.                               *)
THEOREM SerialHolderKeepsLock ==
  ASSUME ~Overlap
  PROVE  LockSpec => HolderKeepsLock
<1>1. LockInv /\ LockInv' /\ [LockNext]_lockVars =>
        [\A p \in Instances : Holding(p) /\ Holding(p)' => lock' = lock]_lockVars
  <2> SUFFICES ASSUME LockInv, LockInv', NEW p \in Instances,
                      Holding(p), Holding(p)'
               PROVE  lock' = lock
    OBVIOUS
  <2> QED
    BY DEF LockInv, FileInv, Holding, Written
<1>2. QED
  BY <1>1, InitLockInv, NextLockInv, PTL DEF LockSpec, HolderKeepsLock

(* A store closed in order, without a failed file operation, leaves no     *)
(* lock of its own behind (close).                                         *)
THEOREM SerialOrderlyClose ==
  ASSUME ~Overlap
  PROVE  LockSpec => []OrderlyCloseFreesLock
<1>1. LockInv => OrderlyCloseFreesLock
  BY DEF LockInv, FileInv, OrderlyCloseFreesLock
<1>2. QED
  BY <1>1, InitLockInv, NextLockInv, PTL DEF LockSpec

(* Who has not created a lock file yet is not named by one, and who is     *)
(* named has at least begun; between a rename that succeeded and the       *)
(* second attempt there is no file.                                        *)
Named ==
  /\ lock # NoLock => pc[lock.creator] # "idle"
  /\ \A p \in Instances :
       /\ pc[p] \in {"idle", "create", "read", "judge", "rename", "recreate"}
            => lock = NoLock \/ lock.creator # p
       /\ pc[p] = "judge" /\ seen[p] # Unknown
            => seen[p] # p /\ pc[seen[p]] # "idle"
       /\ pc[p] = "recreate" => lock = NoLock \/ p \in hindered

LEMMA InitNamed == LockInit => Named
  BY StoreLockAssumption DEF LockInit, Named, Files

LEMMA NextNamed ==
  ASSUME ~Overlap
  PROVE  LockInv /\ Named /\ [LockNext]_lockVars => Named'
<1> SUFFICES ASSUME LockInv, Named, [LockNext]_lockVars PROVE Named'
  OBVIOUS
<1> USE StoreLockAssumption
    DEF LockInv, LockTypeOK, AliveInv, OneAcquires, Acquiring, Named, Files, PCs, Goto
<1>1. CASE UNCHANGED lockVars
  BY <1>1 DEF lockVars
<1>2. ASSUME NEW p \in Instances,
             \/ Start(p) \/ Create(p) \/ WriteLock(p) \/ AttemptFails(p)
      PROVE  Named'
  BY <1>2 DEF Start, Create, WriteLock, AttemptFails, Record
<1>3. ASSUME NEW p \in Instances, ReadLock(p) PROVE Named'
  BY <1>3 DEF ReadLock
<1>4. ASSUME NEW p \in Instances,
             Judge(p) \/ RenameAside(p) \/ RenameFails(p) \/ Recreate(p)
      PROVE  Named'
  BY <1>4 DEF Judge, RenameAside, RenameFails, Recreate
<1>5. ASSUME NEW p \in Instances, Load(p) \/ Close(p) \/ CloseRead(p)
      PROVE  Named'
  BY <1>5 DEF Load, Close, CloseRead
<1>6. ASSUME NEW p \in Instances, CloseUnlink(p) \/ CloseFails(p) \/ Die(p) PROVE Named'
  BY <1>6 DEF CloseUnlink, CloseFails, Die
<1>7. QED
  BY <1>1, <1>2, <1>3, <1>4, <1>5, <1>6 DEF LockNext

(* STORE_LOCKED is only ever due to another process that lives, unless a   *)
(* file operation of the start itself failed: a file of a dead process,    *)
(* empty or not, is renamed aside (lockOwnerIsLive, #acquireLock).         *)
THEOREM SerialRefusal ==
  ASSUME ~Overlap
  PROVE  LockSpec => RefusedOnlyByLiveInstance
<1>1. LockInv /\ Named /\ [LockNext]_lockVars =>
        [\A p \in Instances \ hindered' :
           pc[p] # "refused" /\ pc'[p] = "refused"
             => \E q \in Instances \ {p} : q \in alive /\ pc[q] # "idle"]_lockVars
  <2> SUFFICES ASSUME LockInv, Named, LockNext, NEW p \in Instances, p \notin hindered',
                      pc[p] # "refused", pc'[p] = "refused"
               PROVE  \E q \in Instances \ {p} : q \in alive /\ pc[q] # "idle"
    BY DEF lockVars
  <2>1. PICK r \in Instances :
          \/ Start(r) \/ Create(r) \/ WriteLock(r) \/ AttemptFails(r)
          \/ ReadLock(r) \/ Judge(r) \/ RenameAside(r) \/ RenameFails(r)
          \/ Recreate(r) \/ Load(r)
          \/ Close(r) \/ CloseRead(r) \/ CloseUnlink(r) \/ CloseFails(r) \/ Die(r)
    BY DEF LockNext
  <2>2. r = p /\ (Judge(p) \/ Recreate(p))
    <3>1. ~AttemptFails(p)
      BY DEF AttemptFails
    <3>2. r = p
      BY <2>1 DEF LockInv, LockTypeOK, Goto, Start, Create, WriteLock, AttemptFails, ReadLock,
                  Judge, RenameAside, RenameFails, Recreate, Load, Close, CloseRead,
                  CloseUnlink, CloseFails, Die
    <3>3. QED
      BY <2>1, <3>1, <3>2
         DEF LockInv, LockTypeOK, Goto, Start, Create, WriteLock, ReadLock, RenameAside,
             RenameFails, Load, Close, CloseRead, CloseUnlink, CloseFails, Die
  <2>3. CASE Judge(p)
    <3>1. seen[p] \in alive /\ pc[p] = "judge"
      BY <2>3 DEF Judge, OwnerIsLive, LockInv, LockTypeOK, Goto
    <3>2. QED
      BY <3>1, StoreLockAssumption DEF Named, LockInv, LockTypeOK
  <2>4. CASE Recreate(p)
    BY <2>4 DEF Recreate, Named, LockInv, LockTypeOK, Goto
  <2>5. QED
    BY <2>2, <2>3, <2>4
<1>2. QED
  BY <1>1, InitLockInv, NextLockInv, InitNamed, NextNamed, PTL DEF LockSpec, RefusedOnlyByLiveInstance

-----------------------------------------------------------------------------
(* The lock of the remote control socket, of contenders of its own.        *)

-----------------------------------------------------------------------------
(* The Thread records. *)

USE MappingStoreAssumption, NoRecordAssumption

-----------------------------------------------------------------------------
(* Sequences of mappings, as the operations build them.                    *)

LEMMA BoundedSequences ==
  ASSUME NEW ms \in SeqOf(Mappings, MaxTurns)
  PROVE  ms \in Seq(Mappings)
BY DEF SeqOf

(* The mappings of a record moved to another session.                      *)
LEMMA MovedMappings ==
  ASSUME NEW ms \in Seq(Mappings), NEW s \in Sessions, NEW n \in Nat,
         n <= Len(ms)
  PROVE  [i \in 1 .. n |-> [ms[i] EXCEPT !.session = s]] \in Seq(Mappings)
<1>1. \A i \in 1 .. n : ms[i] \in Mappings
  OBVIOUS
<1>2. \A i \in 1 .. n : [ms[i] EXCEPT !.session = s] \in Mappings
  BY <1>1 DEF Mappings
<1> DEFINE moved == [i \in 1 .. n |-> [ms[i] EXCEPT !.session = s]]
<1>3. moved \in [1 .. n -> Mappings]
  BY <1>2
<1> HIDE DEF moved
<1>4. moved \in Seq(Mappings)
  BY <1>3, SeqDef
<1> QED
  BY <1>4 DEF moved

LEMMA MovedAll ==
  ASSUME NEW ms \in Seq(Mappings), NEW s \in Sessions
  PROVE  [i \in DOMAIN ms |-> [ms[i] EXCEPT !.session = s]] \in Seq(Mappings)
<1>1. DOMAIN ms = 1 .. Len(ms) /\ Len(ms) \in Nat
  OBVIOUS
<1>2. Len(ms) <= Len(ms)
  BY <1>1
<1>3. [i \in 1 .. Len(ms) |-> [ms[i] EXCEPT !.session = s]] \in Seq(Mappings)
  BY <1>1, <1>2, MovedMappings
<1> QED
  BY <1>1, <1>3, Zenon

LEMMA CoreType ==
  ASSUME NEW r \in Records
  PROVE  Core(r) \in Records
BY DEF Core, Records

(* An update that changes the fields of a record to values of their types  *)
(* leaves an operation of the queue.                                       *)
LEMMA UpdateType ==
  ASSUME TypeOK, NEW t \in Threads, NEW changed \in Records,
         NEW expected \in Records \cup {NoRecord},
         Update(t, changed, expected)
  PROVE  op' \in Operations
<1>1. records[t] \in Records
  BY DEF TypeOK, Update, Exists
<1>2. records[t].revision + 1 \in 1 .. MaxRevision
  BY <1>1 DEF Update, Records
<1>3. [changed EXCEPT !.revision = records[t].revision + 1] \in Records
  BY <1>2 DEF Records
<1> QED
  BY <1>3 DEF Update, Enqueue, Operations

(* What each operation makes of a record is a record.                      *)
LEMMA ChangesAreRecords ==
  ASSUME NEW r \in Records
  PROVE  /\ \A s \in Sessions, ms \in Seq(Mappings) :
              /\ [r EXCEPT !.state = "ready", !.session = s, !.turns = ms]
                   \in Records
              /\ [r EXCEPT !.session = s, !.turns = ms] \in Records
              /\ \A q \in Requests :
                   [r EXCEPT !.request = q, !.session = s, !.turns = ms]
                     \in Records
         /\ \A ms \in Seq(Mappings) : [r EXCEPT !.turns = ms] \in Records
         /\ \A p \in Projects \cup {NoProject} :
              [r EXCEPT !.project = p] \in Records
         /\ r.turns \in Seq(Mappings) /\ r.session \in Sessions \cup {NoSession}
BY DEF Records

LEMMA MergeType ==
  ASSUME NEW ms \in Seq(Mappings), NEW m \in Mappings
  PROVE  Merge(ms, m) \in Seq(Mappings)
BY DEF Merge

LEMMA LoadedType ==
  ASSUME TypeOK, NEW t \in Threads
  PROVE  Loaded(t) \in Records \cup {NoRecord}
BY DEF TypeOK, Loaded, Records

-----------------------------------------------------------------------------
(* The steps of Next by what they do to the queue and to memory.           *)

StartsCreation ==
  \E t \in Threads, q \in Requests, p \in Threads \cup {NoThread}, f \in BOOLEAN :
    CreateProvisional(t, q, p, f)

(* What every change of a valid record has in common: metadata is changed  *)
(* alone, no session is given up without another, and while the session    *)
(* stays a Host Turn stays with its key.                                   *)
Careful(r, changed) ==
  /\ \/ changed.project = r.project
     \/ changed = [r EXCEPT !.project = changed.project]
  /\ changed.session = NoSession => r.session = NoSession
  /\ ValidRecord(r) /\ changed.session = r.session =>
       \A m \in MappingsOf(r), n \in MappingsOf(changed) :
         m.turn = n.turn => m.key = n.key

StartsChange ==
  /\ \E t \in Threads, changed \in Records :
       Update(t, changed, NoRecord) /\ Careful(records[t], changed)
  /\ UNCHANGED prepared

StartsReplacement ==
  \E c \in Clients, s \in Sessions, n \in 0 .. MaxTurns : ReplaceSession(c, s, n)

StartsRemoval == \E t \in Threads, b \in BOOLEAN : Remove(t, b)

ClientStep ==
  \E c \in Clients : (\E t \in Threads : Prepare(c, t)) \/ AbandonReplacement(c)

(* Between its start and its end an operation touches only the disk.       *)
DiskStep ==
  /\ up /\ op # Idle
  /\ UNCHANGED <<up, records, fresh, prepared>>
  /\ \A t \in Threads \ {op.thread} : files'[t] = files[t]
  /\ op' \in {op, Idle} \/ \E ph : op' = [op EXCEPT !.phase = ph]

(* An unlink of a removal that failed touches the files of its Thread.     *)
LateStep == \E t \in Threads, kind \in FileKinds : UnlinkLate(t, kind)

-----------------------------------------------------------------------------
(* Types.  The steps of the queue and of the process first, then the       *)
(* operations, which only start.                                           *)

LEMMA InitType == Init => TypeOK
BY DEF Init, TypeOK

(* A record with some or all of the mappings of a valid one.               *)
LEMMA FewerTurnsAreCareful ==
  ASSUME NEW r \in Records, NEW changed,
         changed.project = r.project
           \/ changed = [r EXCEPT !.project = changed.project],
         changed.session \in Sessions \cup {r.session},
         ValidRecord(r) /\ changed.session = r.session =>
           \A n \in MappingsOf(changed) :
             \E i \in DOMAIN r.turns :
               n.turn = r.turns[i].turn /\ n.key = r.turns[i].key
  PROVE  Careful(r, changed)
<1>1. changed.session = NoSession => r.session = NoSession
  OBVIOUS
<1> QED
  BY <1>1 DEF Careful, ValidRecord, MappingsOf

LEMMA CommitChange ==
  ASSUME TypeOK, NEW t \in Threads, NEW s \in Sessions,
         NEW ms \in SeqOf(Mappings, MaxTurns), CommitReady(t, s, ms)
  PROVE  StartsChange
<1>1. records[t] \in Records /\ records[t].turns \in Seq(Mappings)
  BY ChangesAreRecords DEF TypeOK, CommitReady, Exists
<1>2. ms \in Seq(Mappings)
  BY BoundedSequences
<1> DEFINE turns == IF ms = <<>> THEN records[t].turns ELSE ms
           next == [records[t] EXCEPT !.state = "ready", !.session = s,
                                      !.turns = turns]
<1>3. turns \in Seq(Mappings)
  BY <1>1, <1>2
<1>4. next \in Records
  <2> HIDE DEF turns
  <2> QED  BY <1>1, <1>3, ChangesAreRecords
<1>5. Update(t, next, NoRecord)
  BY DEF CommitReady
<1>6. UNCHANGED prepared
  BY DEF CommitReady
<1>7. Careful(records[t], next)
  <2>1. /\ next.project = records[t].project /\ next.turns = turns
        /\ next.session \in Sessions
    <3> HIDE DEF turns
    <3> QED  BY <1>1 DEF Records
  <2>2. records[t].turns = <<>> \/ turns = records[t].turns
    BY DEF CommitReady
  <2> HIDE DEF next, turns
  <2>3. CASE records[t].turns = <<>>
    BY <2>1, <2>3 DEF Careful, MappingsOf
  <2>4. CASE turns = records[t].turns
    BY <1>1, <2>1, <2>4, FewerTurnsAreCareful DEF MappingsOf
  <2> QED  BY <2>2, <2>3, <2>4
<1> HIDE DEF next
<1> QED
  BY <1>4, <1>5, <1>6, <1>7 DEF StartsChange

LEMMA UpsertChange ==
  ASSUME TypeOK, NEW t \in Threads, NEW m \in Mappings, UpsertTurn(t, m)
  PROVE  StartsChange
<1>1. records[t] \in Records /\ records[t].turns \in Seq(Mappings)
  BY ChangesAreRecords DEF TypeOK, UpsertTurn, Ready, Exists
<1> DEFINE next == [records[t] EXCEPT !.turns = Merge(records[t].turns, m)]
<1>2. next \in Records
  BY <1>1, MergeType, ChangesAreRecords
<1>3. Update(t, next, NoRecord)
  BY DEF UpsertTurn
<1>4. UNCHANGED prepared
  BY DEF UpsertTurn
<1>5. Careful(records[t], next)
  <2>1. next.project = records[t].project
        /\ next.turns = Merge(records[t].turns, m)
        /\ next.session = records[t].session
    BY <1>1 DEF Records
  <2>2. \A n \in MappingsOf(next) : n = m \/ n \in MappingsOf(records[t])
    BY <1>1, <2>1 DEF Merge, MappingsOf
  <2>3. Mergeable(records[t].turns, m)
    BY DEF UpsertTurn
  <2> HIDE DEF next
  <2> QED
    BY <1>1, <2>1, <2>2, <2>3 DEF Careful, Mergeable, ValidRecord, MappingsOf
<1> HIDE DEF next
<1> QED
  BY <1>2, <1>3, <1>4, <1>5 DEF StartsChange

LEMMA ReconcileChange ==
  ASSUME TypeOK, NEW t \in Threads, NEW ms \in SeqOf(Mappings, MaxTurns),
         ReconcileTurns(t, ms)
  PROVE  StartsChange
<1>1. records[t] \in Records
  BY DEF TypeOK, ReconcileTurns, Ready, Exists
<1> DEFINE next == [records[t] EXCEPT !.turns = ms]
<1>2. next \in Records
  BY <1>1, BoundedSequences, ChangesAreRecords
<1>3. Update(t, next, NoRecord)
  BY DEF ReconcileTurns
<1>4. UNCHANGED prepared
  BY DEF ReconcileTurns
<1>5. Careful(records[t], next)
  <2>1. /\ next.project = records[t].project /\ next.turns = ms
        /\ next.session = records[t].session
    BY <1>1 DEF Records
  <2>2. \A i \in DOMAIN ms : Mergeable(records[t].turns, ms[i])
    BY DEF ReconcileTurns
  <2> HIDE DEF next
  <2> QED  BY <2>1, <2>2 DEF Careful, Mergeable, MappingsOf
<1> HIDE DEF next
<1> QED
  BY <1>2, <1>3, <1>4, <1>5 DEF StartsChange

LEMMA FieldsChange ==
  ASSUME TypeOK, NEW t \in Threads, NEW i \in Projects \cup {NoProject},
         NEW p \in Projects \cup {NoProject},
         SetField(t) \/ UpdateMetadata(t, i, p)
  PROVE  StartsChange
<1>1. records[t] \in Records
  BY DEF TypeOK, SetField, UpdateMetadata, Exists
<1>2. UNCHANGED prepared
  BY DEF SetField, UpdateMetadata
<1> DEFINE next == [records[t] EXCEPT !.project = p]
<1>3. next \in Records
  BY <1>1, ChangesAreRecords
<1>4. Update(t, records[t], NoRecord) \/ Update(t, next, NoRecord)
  BY DEF SetField, UpdateMetadata
<1>5. Careful(records[t], records[t]) /\ Careful(records[t], next)
  <2>1. /\ next.turns = records[t].turns /\ next.project = p
        /\ next.session = records[t].session
    BY <1>1 DEF Records
  <2>2. next = [records[t] EXCEPT !.project = next.project]
    BY <2>1
  <2> HIDE DEF next
  <2> QED  BY <1>1, <2>1, <2>2, FewerTurnsAreCareful DEF MappingsOf
<1> HIDE DEF next
<1> QED
  BY <1>1, <1>2, <1>3, <1>4, <1>5 DEF StartsChange

LEMMA RebindChange ==
  ASSUME TypeOK, NEW t \in Threads, NEW s \in Sessions, NEW q \in Requests,
         RebindSubagent(t, s, q)
  PROVE  StartsChange
<1> DEFINE parent == records[t].parent
           session == records[parent].session
           moved == [i \in DOMAIN records[t].turns |->
                       [records[t].turns[i] EXCEPT !.session = session]]
           next == [records[t] EXCEPT !.request = q, !.session = session,
                                      !.turns = moved]
<1>1. records[t] \in Records /\ records[t].turns \in Seq(Mappings)
  BY ChangesAreRecords DEF TypeOK, RebindSubagent, Ready, Exists
<1>2. parent \in Threads
  BY <1>1 DEF RebindSubagent, Records
<1>3. session \in Sessions \cup {NoSession}
  BY <1>2 DEF TypeOK, RebindSubagent, Ready, Exists, Records
<1>4. Update(t, next, NoRecord)
  BY DEF RebindSubagent
<1>5. UNCHANGED prepared
  BY DEF RebindSubagent
<1>6. session # NoSession
  <2> DEFINE revised == [next EXCEPT !.revision = records[t].revision + 1]
  <2>1. revised.state = "ready" /\ revised.session = session
    <3> HIDE DEF moved
    <3> QED  BY <1>1 DEF RebindSubagent, Ready, Records
  <2>2. ValidRecord(revised)
    <3> HIDE DEF next
    <3> QED  BY <1>4 DEF Update
  <2> HIDE DEF revised
  <2> QED  BY <2>1, <2>2 DEF ValidRecord
<1>7. moved \in Seq(Mappings)
  BY <1>1, <1>3, <1>6, MovedAll
<1>8. next \in Records
  <2> HIDE DEF moved
  <2> QED  BY <1>1, <1>3, <1>6, <1>7, ChangesAreRecords
<1>9. Careful(records[t], next)
  <2>1. /\ next.project = records[t].project /\ next.turns = moved
        /\ next.session \in Sessions
    <3> HIDE DEF moved
    <3> QED  BY <1>1, <1>3, <1>6 DEF Records
  <2>2. DOMAIN moved = DOMAIN records[t].turns
        /\ \A i \in DOMAIN moved : /\ moved[i].turn = records[t].turns[i].turn
                                   /\ moved[i].key = records[t].turns[i].key
    BY <1>1 DEF Mappings
  <2> HIDE DEF next, moved
  <2> QED  BY <1>1, <2>1, <2>2, FewerTurnsAreCareful DEF MappingsOf
<1> HIDE DEF next
<1> QED
  BY <1>4, <1>5, <1>8, <1>9 DEF StartsChange

(* A replacement is an update that expects the record it was prepared from.*)
LEMMA ReplaceChange ==
  ASSUME TypeOK, NEW c \in Clients, NEW s \in Sessions, NEW n \in 0 .. MaxTurns,
         ReplaceSession(c, s, n)
  PROVE  LET t == prepared[c].thread
             r == prepared[c].record
         IN  /\ t \in Threads /\ r \in Records
             /\ MatchesExpected(t, r)
             /\ \E changed \in Records :
                  Update(t, changed, r) /\ (records[t] = r => Careful(r, changed))
             /\ prepared' = [prepared EXCEPT ![c] = Idle]
<1> DEFINE t == prepared[c].thread
           r == prepared[c].record
           next == [records[t] EXCEPT !.session = s,
                                      !.turns = Retained(r, n, s)]
<1>1. t \in Threads /\ r \in Records /\ r.turns \in Seq(Mappings)
  <2>1. prepared[c] \in [thread : Threads, record : Records]
    BY DEF TypeOK, ReplaceSession
  <2>2. t \in Threads /\ r \in Records
    BY <2>1
  <2> HIDE DEF t, r
  <2> QED  BY <2>2, ChangesAreRecords
<1>2. Update(t, next, r) /\ MatchesExpected(t, r)
  BY DEF ReplaceSession
<1>3. records[t] \in Records
  BY <1>1, <1>2 DEF TypeOK, Update, Exists
<1>4. Retained(r, n, s) \in Seq(Mappings)
  BY <1>1, MovedMappings DEF ReplaceSession, Retained
<1>5. next \in Records
  BY <1>3, <1>4, ChangesAreRecords
<1>6. prepared' = [prepared EXCEPT ![c] = Idle]
  BY DEF ReplaceSession
<1>7. ASSUME records[t] = r PROVE Careful(r, next)
  <2> DEFINE kept == Retained(r, n, s)
  <2>1. /\ next.project = r.project /\ next.turns = Retained(r, n, s)
        /\ next.session \in Sessions
    <3> HIDE DEF r, t
    <3> QED  BY <1>1, <1>3, <1>7 DEF Records
  <2>2. DOMAIN kept = 1 .. n /\ 1 .. n \subseteq DOMAIN r.turns
    BY <1>1 DEF Retained, ReplaceSession
  <2>3. \A i \in 1 .. n : kept[i].turn = r.turns[i].turn
                           /\ kept[i].key = r.turns[i].key
    <3>1. \A i \in 1 .. n : r.turns[i] \in Mappings
      <4> HIDE DEF r
      <4> QED  BY <1>1, <2>2
    <3>2. \A i \in 1 .. n : kept[i] = [r.turns[i] EXCEPT !.session = s]
      BY DEF Retained
    <3> HIDE DEF kept, r
    <3> QED  BY <3>1, <3>2 DEF Mappings
  <2>4. next.turns = kept
    BY <2>1
  <2> HIDE DEF next, kept, r, t
  <2> QED  BY <1>1, <2>1, <2>2, <2>3, <2>4, FewerTurnsAreCareful DEF MappingsOf
<1> HIDE DEF next
<1> QED
  BY <1>1, <1>2, <1>5, <1>6, <1>7

LEMMA QueueSteps ==
  ASSUME TypeOK, QueueStep
  PROVE  DiskStep \/ Apply
BY DEF QueueStep, At, WriteFile, WriteFileFails, WriteMeta, WriteMetaFails,
   RestoreFile, FilesRemoved, RemoveFile, RemoveFileFails, Unlink, DiskStep, TypeOK

LEMMA LateResult ==
  ASSUME TypeOK, LateStep
  PROVE  /\ up /\ UNCHANGED <<up, records, op, fresh, prepared, torn, left>>
         /\ late' \subseteq late
         /\ \E t \in Threads :
              /\ \E kind \in FileKinds : <<t, kind>> \in late
              /\ files' \in {files, [files EXCEPT ![t] = NoRecord]}
              /\ metaFiles' \in {metaFiles, [metaFiles EXCEPT ![t] = NoProject]}
BY DEF LateStep, UnlinkLate, Unlink

LEMMA StepKinds ==
  ASSUME TypeOK, [Next]_vars
  PROVE  \/ UNCHANGED vars
         \/ StartsCreation \/ StartsChange \/ StartsReplacement \/ StartsRemoval
         \/ ClientStep
         \/ QueueStep \/ LateStep
         \/ Crash \/ Initialize
<1>1. CASE \E t \in Threads :
             \/ \E s \in Sessions, ms \in SeqOf(Mappings, MaxTurns) :
                  CommitReady(t, s, ms)
             \/ \E m \in Mappings : UpsertTurn(t, m)
             \/ \E ms \in SeqOf(Mappings, MaxTurns) : ReconcileTurns(t, ms)
             \/ SetField(t)
             \/ \E i, p \in Projects \cup {NoProject} : UpdateMetadata(t, i, p)
             \/ \E s \in Sessions, r \in Requests : RebindSubagent(t, s, r)
  <2>1. StartsChange
    BY <1>1, CommitChange, UpsertChange, ReconcileChange, FieldsChange, RebindChange
  <2> QED  BY <2>1
<1>2. CASE \E t \in Threads, r \in Requests, p \in Threads \cup {NoThread},
             f \in BOOLEAN : CreateProvisional(t, r, p, f)
  BY <1>2 DEF StartsCreation
<1>3. CASE \E t \in Threads, b \in BOOLEAN : Remove(t, b)
  BY <1>3 DEF StartsRemoval
<1>4. CASE StartsReplacement
  BY <1>4
<1>5. CASE ClientStep
  BY <1>5
<1>6. CASE QueueStep
  BY <1>6
<1> QED
  BY <1>1, <1>2, <1>3, <1>4, <1>5, <1>6
  DEF Next, StartsReplacement, ClientStep, LateStep

LEMMA StartedType ==
  ASSUME TypeOK, op' \in Operations,
         UNCHANGED <<up, records, files, metaFiles, torn, late>>,
         left' \subseteq FileKinds,
         fresh' \subseteq Threads,
         prepared' \in [Clients -> [thread : Threads, record : Records] \cup {Idle}]
  PROVE  TypeOK'
BY DEF TypeOK

LEMMA CreateType ==
  ASSUME TypeOK, NEW t \in Threads, NEW q \in Requests,
         NEW p \in Threads \cup {NoThread}, NEW f \in BOOLEAN,
         CreateProvisional(t, q, p, f)
  PROVE  TypeOK'
<1>1. Provisional(q, p, f) \in Records
  BY EmptySeq DEF Provisional, Records
<1>2. op' \in Operations
  BY <1>1 DEF CreateProvisional, Enqueue, Operations
<1> QED
  BY <1>2 DEF CreateProvisional, TypeOK

LEMMA ChangeType == ASSUME TypeOK, StartsChange PROVE TypeOK'
<1>1. op' \in Operations
  BY UpdateType DEF StartsChange
<1> QED
  BY <1>1, StartedType DEF StartsChange, Update, TypeOK

LEMMA ReplaceType == ASSUME TypeOK, StartsReplacement PROVE TypeOK'
<1>1. PICK c \in Clients, s \in Sessions, n \in 0 .. MaxTurns :
            ReplaceSession(c, s, n)
  BY DEF StartsReplacement
<1>2. PICK t \in Threads, r \in Records, changed \in Records :
            Update(t, changed, r) /\ prepared' = [prepared EXCEPT ![c] = Idle]
  BY <1>1, ReplaceChange
<1>3. op' \in Operations
  BY <1>2, UpdateType
<1> QED
  BY <1>2, <1>3, StartedType DEF Update, TypeOK

LEMMA RemoveType ==
  ASSUME TypeOK, NEW t \in Threads, NEW b \in BOOLEAN, Remove(t, b)
  PROVE  TypeOK'
<1>1. op' \in Operations
  BY DEF Remove, Enqueue, Operations
<1> QED
  BY <1>1, StartedType DEF Remove, TypeOK

LEMMA ClientType ==
  ASSUME TypeOK, NEW c \in Clients,
         (\E t \in Threads : Prepare(c, t)) \/ AbandonReplacement(c)
  PROVE  TypeOK'
BY DEF TypeOK, Prepare, AbandonReplacement, Ready, Exists

(* A store that is down runs nothing, and only a record that exists has    *)
(* its metadata file written or is removed.                                *)
QueueOK ==
  /\ ~up => op = Idle /\ late = {} /\ \A c \in Clients : prepared[c] = Idle
  /\ op # Idle /\ op.phase \in {"meta", "restore", "remove"} => Exists(records[op.thread])

LEMMA QueueStepType == ASSUME TypeOK, QueueOK, QueueStep PROVE TypeOK'
<1>1. op \in Operations /\ op.thread \in Threads /\ op # Idle
  BY DEF TypeOK, QueueStep, At, WriteFile, WriteFileFails, WriteMeta,
         WriteMetaFails, RestoreFile, FilesRemoved, RemoveFile, RemoveFileFails,
         Apply, Operations
<1>2. CASE WriteFile
  <2>1. op.next \in Records
    BY <1>1, <1>2 DEF Operations, WriteFile, At
  <2>2. \A ph \in {"meta", "apply"} : [op EXCEPT !.phase = ph] \in Operations
    BY <1>1, <1>2 DEF Operations, WriteFile, At
  <2> QED
    BY <1>1, <1>2, <2>1, <2>2, CoreType DEF TypeOK, WriteFile
<1>3. CASE WriteFileFails
  BY <1>3 DEF TypeOK, WriteFileFails
<1>4. CASE WriteMeta
  <2>1. op.next \in Records /\ op.next.project \in Projects \cup {NoProject}
    BY <1>1, <1>4 DEF Operations, WriteMeta, At, Records
  <2>2. [op EXCEPT !.phase = "apply"] \in Operations
    BY <1>1, <1>4 DEF Operations, WriteMeta, At
  <2> QED
    BY <1>1, <1>4, <2>1, <2>2 DEF TypeOK, WriteMeta
<1>5. CASE WriteMetaFails
  <2>1. [op EXCEPT !.phase = "restore"] \in Operations
    BY <1>1, <1>5 DEF Operations, WriteMetaFails, At
  <2> QED
    BY <1>5, <2>1 DEF TypeOK, WriteMetaFails
<1>6. CASE RestoreFile
  <2>1. records[op.thread] \in Records
    BY <1>1, <1>6 DEF TypeOK, QueueOK, RestoreFile, At, Exists
  <2> QED
    BY <1>1, <1>6, <2>1, CoreType DEF TypeOK, RestoreFile
<1>7. CASE FilesRemoved
  <2>1. [op EXCEPT !.phase = "apply"] \in Operations
    BY <1>1, <1>7 DEF Operations, FilesRemoved, At
  <2> QED
    BY <1>1, <1>7, <2>1 DEF TypeOK, FilesRemoved
<1>8. ASSUME NEW kind \in FileKinds, RemoveFile(kind) \/ RemoveFileFails(kind)
      PROVE  TypeOK'
  <2>1. CASE RemoveFile(kind)
    BY <1>1, <2>1 DEF TypeOK, RemoveFile, Unlink
  <2>2. CASE RemoveFileFails(kind)
    <3>1. {op.thread} \X (left \ {kind}) \subseteq Threads \X FileKinds
      BY <1>1 DEF TypeOK
    <3> QED  BY <1>1, <2>2, <3>1 DEF TypeOK, RemoveFileFails
  <2> QED  BY <1>8, <2>1, <2>2
<1>9. CASE Apply
  <2>1. op.next \in Records \cup {NoRecord}
    BY <1>1 DEF Operations
  <2> QED
    BY <1>1, <1>9, <2>1 DEF TypeOK, Apply
<1> QED
  BY <1>2, <1>3, <1>4, <1>5, <1>6, <1>7, <1>8, <1>9 DEF QueueStep

LEMMA LateType == ASSUME TypeOK, LateStep PROVE TypeOK'
BY LateResult DEF TypeOK

LEMMA ProcessType == ASSUME TypeOK, Crash \/ Initialize PROVE TypeOK'
<1>1. CASE Crash
  BY <1>1 DEF TypeOK, Crash
<1>2. CASE Initialize
  <2> DEFINE loaded == [t \in Threads |-> Loaded(t)]
  <2>1. loaded \in [Threads -> Records \cup {NoRecord}]
    BY LoadedType
  <2>2. records' = loaded
    BY <1>2 DEF Initialize
  <2>3. files' \in [Threads -> Records \cup {NoRecord}]
    BY <1>2 DEF Initialize, TypeOK
  <2>4. metaFiles' \in [Threads -> Projects \cup {NoProject}]
    BY <1>2 DEF Initialize, TypeOK
  <2> QED
    BY <1>2, <2>1, <2>2, <2>3, <2>4 DEF Initialize, TypeOK
<1> QED
  BY <1>1, <1>2

LEMMA NextType == ASSUME TypeOK, QueueOK, [Next]_vars PROVE TypeOK'
<1>1. CASE UNCHANGED vars
  BY <1>1 DEF TypeOK, vars
<1>2. CASE StartsCreation \/ StartsRemoval
  BY <1>2, CreateType, RemoveType DEF StartsCreation, StartsRemoval
<1>3. CASE StartsChange \/ StartsReplacement
  BY <1>3, ChangeType, ReplaceType
<1>4. CASE ClientStep
  BY <1>4, ClientType DEF ClientStep
<1>5. CASE QueueStep
  BY <1>5, QueueStepType
<1>6. CASE Crash \/ Initialize
  BY <1>6, ProcessType
<1>7. CASE LateStep
  BY <1>7, LateType
<1> QED
  BY <1>1, <1>2, <1>3, <1>4, <1>5, <1>6, <1>7, StepKinds

LEMMA NextQueueOK == ASSUME TypeOK, QueueOK, [Next]_vars PROVE QueueOK'
<1> USE DEF QueueOK
<1>1. CASE UNCHANGED vars
  BY <1>1 DEF vars, Exists
<1>2. CASE StartsCreation \/ StartsRemoval
  BY <1>2 DEF StartsCreation, StartsRemoval, CreateProvisional, Remove,
     QueueIdle, Enqueue
<1>3. CASE StartsChange
  BY <1>3 DEF StartsChange, Update, QueueIdle, Enqueue
<1>4. CASE StartsReplacement
  <2>1. PICK t, next, expected : Update(t, next, expected)
    BY <1>4 DEF StartsReplacement, ReplaceSession
  <2> QED
    BY <2>1 DEF Update, QueueIdle, Enqueue
<1>5. CASE ClientStep
  BY <1>5 DEF ClientStep, Prepare, AbandonReplacement, Exists
<1>6. CASE QueueStep
  BY <1>6 DEF QueueStep, At, WriteFile, WriteFileFails, WriteMeta,
     WriteMetaFails, RestoreFile, FilesRemoved, RemoveFile, RemoveFileFails, Apply,
     Exists, TypeOK, Operations
<1>7. CASE Crash \/ Initialize
  BY <1>7 DEF Crash, Initialize
<1>8. CASE LateStep
  BY <1>8, LateResult DEF Exists
<1> QED
  BY <1>1, <1>2, <1>3, <1>4, <1>5, <1>6, <1>7, <1>8, StepKinds

(* Every state of every behaviour is well typed; the queue runs nothing    *)
(* while the store is down.                                                *)
THEOREM TypeCorrect == Spec => [](TypeOK /\ QueueOK)
<1>1. Init => TypeOK /\ QueueOK
  BY InitType DEF Init, QueueOK
<1>2. TypeOK /\ QueueOK /\ [Next]_vars => TypeOK' /\ QueueOK'
  BY NextType, NextQueueOK
<1> QED
  BY <1>1, <1>2, PTL DEF Spec

-----------------------------------------------------------------------------
(* Replacements.  A client may prepare from a record and find another one  *)
(* when it is served; the revision alone tells them apart, because it only *)
(* grows while a Thread lives and no Thread ID lives twice.                *)

Outgrown(t, r) ==
  records[t] = NoRecord \/ records[t] = r \/ records[t].revision > r.revision

PreparedOK ==
  \A c \in Clients : prepared[c] # Idle =>
    /\ prepared[c].thread \notin fresh
    /\ Outgrown(prepared[c].thread, prepared[c].record)
    /\ op # Idle /\ op.thread = prepared[c].thread => Exists(records[op.thread])

FreshOK ==
  /\ op # Idle => op.thread \notin fresh
  /\ \A t \in Threads : Exists(records[t]) \/ files[t] # NoRecord => t \notin fresh

OperationOK ==
  op # Idle =>
    /\ op.next # NoRecord /\ Exists(records[op.thread])
         => op.next.revision > records[op.thread].revision
    /\ op.expected # NoRecord => records[op.thread] = op.expected

ReplaceInv == PreparedOK /\ FreshOK /\ OperationOK

LEMMA InitReplaceInv == Init => ReplaceInv
BY DEF Init, ReplaceInv, PreparedOK, FreshOK, OperationOK, Exists

(* An update keeps the invariant if the record it expects, if any, is the  *)
(* current one, and no client prepares meanwhile.                          *)
LEMMA UpdateReplaceInv ==
  ASSUME TypeOK, ReplaceInv,
         NEW t \in Threads, NEW changed \in Records,
         NEW expected \in Records \cup {NoRecord},
         Update(t, changed, expected),
         expected # NoRecord => records[t] = expected,
         \A c \in Clients : prepared'[c] \in {prepared[c], Idle}
  PROVE  ReplaceInv'
<1>1. records[t] \in Records
  BY DEF TypeOK, Update, Exists
<1>2. op'.next.revision = records[t].revision + 1 /\ op'.thread = t
      /\ op'.expected = expected
  BY DEF Update, Enqueue, Records
<1>3. op'.next.revision > records[t].revision
  BY <1>1, <1>2 DEF Records
<1>4. PreparedOK'
  BY <1>2 DEF ReplaceInv, PreparedOK, Outgrown, Update, Exists
<1>5. FreshOK'
  BY <1>2 DEF ReplaceInv, FreshOK, Update, Exists
<1>6. OperationOK'
  BY <1>2, <1>3 DEF OperationOK, Update, Exists
<1> QED
  BY <1>4, <1>5, <1>6 DEF ReplaceInv

LEMMA NextReplaceInv ==
  ASSUME TypeOK, TypeOK', QueueOK, ReplaceInv, [Next]_vars
  PROVE  ReplaceInv'
<1> USE DEF ReplaceInv
<1>1. CASE UNCHANGED vars
  BY <1>1 DEF vars, PreparedOK, FreshOK, OperationOK, Outgrown, Exists
<1>2. CASE StartsCreation
  <2>1. FreshOK'
    BY <1>2 DEF StartsCreation, CreateProvisional, QueueIdle, Enqueue, FreshOK, Exists
  <2>2. OperationOK'
    BY <1>2 DEF StartsCreation, CreateProvisional, QueueIdle, Enqueue, FreshOK,
       OperationOK, Exists
  <2>3. PreparedOK'
    BY <1>2 DEF StartsCreation, CreateProvisional, QueueIdle, Enqueue,
       PreparedOK, Outgrown, Exists
  <2> QED  BY <2>1, <2>2, <2>3
<1>3. CASE StartsChange
  <2> HIDE DEF ReplaceInv
  <2> QED  BY <1>3, UpdateReplaceInv DEF StartsChange
<1>4. CASE StartsReplacement
  <2>1. PICK c \in Clients, s \in Sessions, n \in 0 .. MaxTurns :
              ReplaceSession(c, s, n)
    BY <1>4 DEF StartsReplacement
  <2> DEFINE t == prepared[c].thread
             r == prepared[c].record
  <2>2. /\ t \in Threads /\ r \in Records /\ MatchesExpected(t, r)
        /\ \E changed \in Records : Update(t, changed, r)
        /\ prepared' = [prepared EXCEPT ![c] = Idle]
    BY <2>1, ReplaceChange
  <2>3. Outgrown(t, r)
    BY <2>1 DEF PreparedOK, ReplaceSession
  <2>4. records[t] = r
    BY <2>2, <2>3 DEF Outgrown, MatchesExpected, Ready, Exists, Records
  <2>5. \A d \in Clients : prepared'[d] \in {prepared[d], Idle}
    BY <2>2 DEF TypeOK
  <2> HIDE DEF ReplaceInv, t, r
  <2> QED  BY <2>2, <2>4, <2>5, UpdateReplaceInv
<1>5. CASE StartsRemoval
  BY <1>5 DEF StartsRemoval, Remove, QueueIdle, Enqueue, PreparedOK, FreshOK,
     OperationOK, Outgrown, Exists
<1>6. CASE ClientStep
  <2>1. PICK c \in Clients :
              (\E t \in Threads : Prepare(c, t)) \/ AbandonReplacement(c)
    BY <1>6 DEF ClientStep
  <2>2. FreshOK' /\ OperationOK'
    BY <2>1 DEF Prepare, AbandonReplacement, FreshOK, OperationOK, Exists
  <2>3. CASE AbandonReplacement(c)
    BY <2>2, <2>3 DEF AbandonReplacement, PreparedOK, Outgrown, Exists, TypeOK
  <2>4. ASSUME NEW t \in Threads, Prepare(c, t)
        PROVE  PreparedOK'
    BY <2>4 DEF Prepare, PreparedOK, FreshOK, Outgrown, Ready, Exists, TypeOK
  <2> QED  BY <2>1, <2>2, <2>3, <2>4
<1>7. CASE QueueStep
  <2>1. CASE DiskStep
    <3>1. op' = Idle \/ /\ op'.thread = op.thread /\ op'.next = op.next
                        /\ op'.expected = op.expected
      BY <2>1 DEF DiskStep, TypeOK, Operations
    <3>2. FreshOK'
      BY <2>1, <3>1 DEF DiskStep, FreshOK, Exists
    <3>3. PreparedOK' /\ OperationOK'
      BY <2>1, <3>1 DEF DiskStep, PreparedOK, OperationOK, Outgrown, Exists
    <3> QED  BY <3>2, <3>3
  <2>2. CASE Apply
    <3>1. op \in Operations /\ op # Idle /\ op.thread \in Threads
      BY <2>2 DEF Apply, At, TypeOK, Operations
    <3>2. FreshOK' /\ OperationOK'
      BY <2>2, <3>1 DEF Apply, FreshOK, OperationOK, TypeOK, Exists
    <3>3. ASSUME NEW c \in Clients, prepared[c] # Idle
          PROVE  Outgrown(prepared[c].thread, prepared[c].record)'
      <4> DEFINE t == prepared[c].thread
                 r == prepared[c].record
      <4>1. t \in Threads /\ r \in Records /\ Outgrown(t, r)
        BY <3>3 DEF TypeOK, PreparedOK
      <4>2. CASE op.thread # t
        BY <2>2, <3>1, <4>1, <4>2 DEF Apply, Outgrown, TypeOK
      <4>3. CASE op.thread = t /\ op.next # NoRecord
        <5>1. records[t] \in Records /\ op.next \in Records
          BY <3>1, <3>3, <4>3 DEF PreparedOK, TypeOK, Exists, Operations
        <5>2. op.next.revision > records[t].revision
          BY <3>1, <4>3, <5>1 DEF OperationOK, Exists
        <5>3. op.next.revision > r.revision
          BY <4>1, <5>1, <5>2 DEF Outgrown, Records
        <5> QED
          BY <2>2, <3>1, <4>3, <5>3 DEF Apply, Outgrown, TypeOK
      <4>4. CASE op.thread = t /\ op.next = NoRecord
        BY <2>2, <3>1, <4>4 DEF Apply, Outgrown, TypeOK
      <4> QED  BY <4>2, <4>3, <4>4
    <3>4. PreparedOK'
      BY <2>2, <3>3 DEF Apply, PreparedOK
    <3> QED  BY <3>2, <3>4
  <2> QED  BY <1>7, <2>1, <2>2, QueueSteps
<1>8. CASE Crash
  BY <1>8 DEF Crash, PreparedOK, FreshOK, OperationOK, Exists
<1>9. CASE Initialize
  BY <1>9 DEF Initialize, QueueOK, PreparedOK, FreshOK, OperationOK, Loaded, Exists
<1>10. CASE LateStep
  <2>1. UNCHANGED <<up, records, op, fresh, prepared>>
    BY <1>10, LateResult
  <2>2. \A t \in Threads : files'[t] # NoRecord => files[t] # NoRecord
    BY <1>10, LateResult DEF TypeOK
  <2> QED
    BY <2>1, <2>2 DEF PreparedOK, FreshOK, OperationOK, Outgrown, Exists
<1> QED
  BY <1>1, <1>2, <1>3, <1>4, <1>5, <1>6, <1>7, <1>8, <1>9, <1>10, StepKinds

(* A history replacement changes a Thread only while its record is the     *)
(* very one the replacement was prepared from, however many clients race   *)
(* for it and whatever else was written in between.                        *)
THEOREM ReplacementsAreNeverStale == Spec => ReplacementIsNeverStale
<1> DEFINE Inv == TypeOK /\ QueueOK /\ ReplaceInv
<1>1. Init => Inv
  BY InitType, InitReplaceInv DEF Init, QueueOK
<1>2. Inv /\ [Next]_vars => Inv'
  BY NextType, NextQueueOK, NextReplaceInv
<1>3. Inv => \A t \in Threads :
               op # Idle /\ op.thread = t /\ op.expected # NoRecord
                 => records[t] = op.expected
  BY DEF ReplaceInv, OperationOK
<1>4. Inv /\ [Next]_vars =>
        [\A t \in Threads :
           op # Idle /\ op.thread = t /\ op.expected # NoRecord
           /\ up' /\ records'[t] # records[t]
             => records[t] = op.expected]_vars
  BY <1>3
<1> QED
  BY <1>1, <1>2, <1>4, PTL DEF Spec, ReplacementIsNeverStale

-----------------------------------------------------------------------------
(* Identities.  The record an operation is about to store was compared     *)
(* with all others when the operation started, and they have not changed   *)
(* since, because the queue runs one operation at a time.                  *)

LEMMA DisjointSymmetric ==
  ASSUME NEW r, NEW s, Disjoint(r, s)
  PROVE  Disjoint(s, r)
BY DEF Disjoint

NextDisjoint ==
  op # Idle /\ op.next # NoRecord =>
    \A u \in Threads \ {op.thread} :
      Exists(records[u]) => Disjoint(op.next, records[u])

UniqueInv == UniqueIdentities(records) /\ NextDisjoint

(* An update starts with a record that was compared with all others.       *)
LEMMA UpdateUnique ==
  ASSUME UniqueInv, NEW t, NEW changed, NEW expected, Update(t, changed, expected)
  PROVE  UniqueInv'
BY DEF UniqueInv, UniqueIdentities, NextDisjoint, Update, Enqueue, ValidGlobal, Exists

LEMMA CreationUnique ==
  ASSUME UniqueInv, StartsCreation
  PROVE  UniqueInv'
<1>1. PICK t \in Threads, q \in Requests, p \in Threads \cup {NoThread}, f \in BOOLEAN :
            CreateProvisional(t, q, p, f)
  BY DEF StartsCreation
<1> DEFINE new == Provisional(q, p, f)
<1>2. ASSUME NEW u \in Threads, Exists(records[u])
      PROVE  Disjoint(new, records[u])
  <2>1. records[u].request # q
    BY <1>1, <1>2 DEF CreateProvisional
  <2>2. new.request = q /\ new.session = NoSession /\ MappingsOf(new) = {}
    BY DEF Provisional, MappingsOf
  <2> HIDE DEF new
  <2> QED  BY <2>1, <2>2 DEF Disjoint
<1>3. UNCHANGED records /\ op'.thread = t /\ op'.next = new
  BY <1>1 DEF CreateProvisional, Enqueue
<1> QED
  BY <1>2, <1>3 DEF UniqueInv, UniqueIdentities, NextDisjoint, Exists

LEMMA NextUnique ==
  ASSUME TypeOK, QueueOK, UniqueInv, [Next]_vars
  PROVE  UniqueInv'
<1>1. CASE UNCHANGED vars
  BY <1>1 DEF vars, UniqueInv, UniqueIdentities, NextDisjoint, Exists
<1>2. CASE StartsCreation
  BY <1>2, CreationUnique
<1>3. CASE StartsChange \/ StartsReplacement
  BY <1>3, UpdateUnique DEF StartsChange, StartsReplacement, ReplaceSession
<1>4. CASE StartsRemoval
  BY <1>4 DEF StartsRemoval, Remove, Enqueue, UniqueInv, UniqueIdentities,
     NextDisjoint, Exists
<1>5. CASE ClientStep
  BY <1>5 DEF ClientStep, Prepare, AbandonReplacement, UniqueInv,
     UniqueIdentities, NextDisjoint, Exists
<1>6. CASE QueueStep
  <2>1. CASE DiskStep
    <3>1. op \in Operations /\ op # Idle
      BY <2>1 DEF DiskStep, TypeOK
    <3>2. op' = Idle \/ (op'.thread = op.thread /\ op'.next = op.next)
      BY <2>1, <3>1 DEF DiskStep, Operations
    <3> QED
      BY <2>1, <3>2 DEF DiskStep, UniqueInv, UniqueIdentities, NextDisjoint, Exists
  <2>2. CASE Apply
    <3>1. op # Idle /\ op.thread \in Threads
      BY <2>2 DEF Apply, At, TypeOK, Operations
    <3>2. ASSUME NEW t \in Threads, NEW u \in Threads, t # u,
                 Exists(records'[t]), Exists(records'[u])
          PROVE  Disjoint(records'[t], records'[u])
      <4>1. t # op.thread /\ u # op.thread => Disjoint(records[t], records[u])
        BY <2>2, <3>1, <3>2 DEF Apply, UniqueInv, UniqueIdentities, TypeOK
      <4>2. t = op.thread => Disjoint(op.next, records[u])
        BY <2>2, <3>1, <3>2 DEF Apply, UniqueInv, NextDisjoint, TypeOK, Exists
      <4>3. u = op.thread => Disjoint(records[t], op.next)
        BY <2>2, <3>1, <3>2, DisjointSymmetric
        DEF Apply, UniqueInv, NextDisjoint, TypeOK, Exists
      <4>4. /\ t # op.thread => records'[t] = records[t]
            /\ u # op.thread => records'[u] = records[u]
            /\ records'[op.thread] = op.next
        BY <2>2, <3>1, <3>2 DEF Apply, TypeOK
      <4> QED
        BY <3>2, <4>1, <4>2, <4>3, <4>4
    <3>3. NextDisjoint'
      BY <2>2 DEF Apply, NextDisjoint
    <3>4. UniqueIdentities(records)'
      BY <3>2 DEF UniqueIdentities, Exists
    <3> QED
      BY <3>3, <3>4 DEF UniqueInv
  <2> QED  BY <1>6, <2>1, <2>2, QueueSteps
<1>7. CASE Crash
  BY <1>7 DEF Crash, UniqueInv, UniqueIdentities, NextDisjoint, Exists
<1>8. CASE Initialize
  BY <1>8 DEF Initialize, QueueOK, UniqueInv, UniqueIdentities, NextDisjoint, Exists
<1>9. CASE LateStep
  BY <1>9, LateResult DEF UniqueInv, UniqueIdentities, NextDisjoint, Exists
<1> QED
  BY <1>1, <1>2, <1>3, <1>4, <1>5, <1>6, <1>7, <1>8, <1>9, StepKinds

(* No two Threads that readers can see claim one create request, one       *)
(* Native Session (a Subagent shares that of its parent), one Host Turn or *)
(* one native turn.                                                        *)
THEOREM IdentitiesAreUnique == Spec => []RecordsUnique
<1> DEFINE Inv == TypeOK /\ QueueOK /\ UniqueInv
<1>1. Init => Inv
  BY InitType DEF Init, QueueOK, UniqueInv, UniqueIdentities, NextDisjoint, Exists
<1>2. Inv /\ [Next]_vars => Inv'
  BY NextType, NextQueueOK, NextUnique
<1>3. Inv => RecordsUnique
  BY DEF UniqueInv, RecordsUnique
<1> QED
  BY <1>1, <1>2, <1>3, PTL DEF Spec

-----------------------------------------------------------------------------
(* The disk.  Memory says what the files of a Thread hold, or the running  *)
(* operation does once it has written them.                                *)

USE IdleAssumption

SameIdentity(r, s) ==
  /\ r.request = s.request /\ r.session = s.session
  /\ r.parent = s.parent /\ r.turns = s.turns

InPhase(t, phases) == op # Idle /\ op.thread = t /\ op.phase \in phases

(* The record that the files of a Thread are to hold by now.               *)
Committed(t) == IF InPhase(t, {"apply"}) THEN op.next ELSE records[t]

(* The Thread file, even of a torn Thread, is of no other identity.        *)
Backed(t) ==
  files[t] # NoRecord =>
    Exists(Committed(t)) /\ SameIdentity(files[t], Committed(t))

(* What is written to the metadata file is all that an operation changes.  *)
NextOK ==
  op # Idle /\ op.next # NoRecord =>
    LET r == records[op.thread]
        next == op.next IN
      /\ Exists(r) /\ next.project # r.project /\ op.phase # "apply"
           => next = [r EXCEPT !.project = next.project,
                               !.revision = next.revision]
      /\ Exists(r) /\ next.session = NoSession => r.session = NoSession
      /\ ~Exists(r) => next.project = NoProject
      /\ op.phase \in {"meta", "restore"} => next.project # r.project

ValidInv ==
  /\ \A t \in Threads : Exists(records[t]) => ValidRecord(records[t])
  /\ \A t \in Threads : files[t] # NoRecord => ValidRecord(files[t])
  /\ op # Idle /\ op.next # NoRecord => ValidRecord(op.next)

Stored(t, r) ==
  IF Exists(r) THEN files[t] = Core(r) /\ metaFiles[t] = r.project
               ELSE files[t] = NoRecord /\ metaFiles[t] = NoProject

(* Both files of a Thread, unless it is torn.                              *)
OnDisk(t) ==
  IF InPhase(t, {"meta", "restore"})
  THEN files[t] = Core(op.next) /\ metaFiles[t] = records[t].project
  ELSE IF InPhase(t, {"remove"})
  THEN /\ files[t] \in {Core(records[t]), NoRecord}
       /\ metaFiles[t] \in {records[t].project, NoProject}
  ELSE Stored(t, Committed(t))

(* What a removal has unlinked is gone, and unlinks go on for torn Threads *)
(* only.                                                                   *)
UnlinksOK ==
  /\ \A u \in late : u[1] \in torn
  /\ op # Idle /\ op.phase = "remove" =>
       /\ "thread" \notin left => files[op.thread] = NoRecord
       /\ "meta" \notin left => metaFiles[op.thread] = NoProject

DiskInv ==
  /\ \A t \in Threads : files[t] # NoRecord => files[t].project = NoProject
  /\ ~up => \A t \in Threads : records[t] = NoRecord
  /\ up => \A t \in Threads : Backed(t)
  /\ up => \A t \in Threads \ torn : OnDisk(t)
  /\ NextOK

StoreInv ==
  TypeOK /\ QueueOK /\ ReplaceInv /\ UniqueInv /\ ValidInv /\ UnlinksOK /\ DiskInv

-----------------------------------------------------------------------------
(* What the steps do to an operation.                                      *)

LEMMA CarefulUpdates ==
  ASSUME TypeOK, ReplaceInv, StartsChange \/ StartsReplacement
  PROVE  \E t \in Threads, changed \in Records, expected \in Records \cup {NoRecord} :
           Update(t, changed, expected) /\ Careful(records[t], changed)
<1>1. CASE StartsChange
  BY <1>1 DEF StartsChange
<1>2. CASE StartsReplacement
  <2>1. PICK c \in Clients, s \in Sessions, n \in 0 .. MaxTurns :
              ReplaceSession(c, s, n)
    BY <1>2 DEF StartsReplacement
  <2> DEFINE t == prepared[c].thread
             r == prepared[c].record
  <2>2. /\ t \in Threads /\ r \in Records /\ MatchesExpected(t, r)
        /\ \E changed \in Records :
             Update(t, changed, r) /\ (records[t] = r => Careful(r, changed))
    BY <2>1, ReplaceChange
  <2>3. Outgrown(t, r)
    BY <2>1 DEF ReplaceInv, PreparedOK, ReplaceSession
  <2>4. records[t] = r
    BY <2>2, <2>3 DEF Outgrown, MatchesExpected, Ready, Exists, Records
  <2> HIDE DEF t, r
  <2> QED  BY <2>2, <2>4
<1> QED
  BY <1>1, <1>2

(* The operation that an update leaves in the queue.                       *)
LEMMA UpdateResult ==
  ASSUME TypeOK, NEW t \in Threads, NEW changed \in Records,
         NEW expected \in Records \cup {NoRecord}, Update(t, changed, expected)
  PROVE  LET next == op'.next IN
         /\ op' \in Operations /\ op' # Idle /\ op'.thread = t /\ op'.phase = "write"
         /\ next \in Records /\ next # NoRecord
         /\ next = [changed EXCEPT !.revision = next.revision]
         /\ next.state = changed.state /\ next.session = changed.session
         /\ next.turns = changed.turns /\ next.project = changed.project
         /\ ValidRecord(next) /\ ValidGlobal(next, t)
         /\ records[t] \in Records /\ Exists(records[t])
         /\ up /\ op = Idle /\ UNCHANGED <<up, records, files, metaFiles, torn>>
<1> DEFINE next == [changed EXCEPT !.revision = records[t].revision + 1]
<1>1. op' \in Operations /\ op' # Idle
  BY UpdateType
<1>2. records[t] \in Records /\ Exists(records[t])
  BY DEF TypeOK, Update, Exists
<1>3. next \in Records
  <2>1. records[t].revision + 1 \in 1 .. MaxRevision
    BY <1>2 DEF Update, Records
  <2> QED  BY <2>1 DEF Records
<1>4. /\ next = [changed EXCEPT !.revision = next.revision]
      /\ next.state = changed.state /\ next.session = changed.session
      /\ next.turns = changed.turns /\ next.project = changed.project
  BY DEF Records
<1>5. op'.next = next /\ op'.thread = t /\ op'.phase = "write"
  BY DEF Update, Enqueue
<1>6. ValidRecord(next) /\ ValidGlobal(next, t)
  BY DEF Update
<1>7. up /\ op = Idle /\ UNCHANGED <<up, records, files, metaFiles, torn>>
  BY DEF Update, QueueIdle
<1> HIDE DEF next
<1> QED
  BY <1>1, <1>2, <1>3, <1>4, <1>5, <1>6, <1>7

LEMMA CreationResult ==
  ASSUME TypeOK, StartsCreation
  PROVE  \E t \in Threads :
           LET next == op'.next IN
           /\ op' \in Operations /\ op' # Idle /\ op'.thread = t
           /\ op'.phase = "write"
           /\ next # NoRecord /\ next.session = NoSession /\ next.turns = <<>>
           /\ next.state = "creating" /\ next.project = NoProject
           /\ t \in fresh
           /\ up /\ op = Idle /\ UNCHANGED <<up, records, files, metaFiles, torn>>
<1>1. PICK t \in Threads, q \in Requests, p \in Threads \cup {NoThread}, f \in BOOLEAN :
            CreateProvisional(t, q, p, f)
  BY DEF StartsCreation
<1>2. Provisional(q, p, f) \in Records /\ Provisional(q, p, f) # NoRecord
  <2>1. Provisional(q, p, f) \in Records
    BY EmptySeq DEF Provisional, Records
  <2> QED  BY <2>1
<1>3. op' \in Operations /\ op' # Idle
  BY <1>1, <1>2 DEF CreateProvisional, Enqueue, Operations
<1> QED
  BY <1>1, <1>2, <1>3 DEF CreateProvisional, Enqueue, Provisional, QueueIdle

(* An operation that goes on is the same one in another phase.             *)
LEMMA OtherPhase ==
  ASSUME op \in Operations, NEW ph, op' = [op EXCEPT !.phase = ph],
         \/ op.next = NoRecord /\ ph = "apply"
         \/ op.phase \in {"write", "meta"} /\ ph \in {"meta", "restore", "apply"}
  PROVE  /\ op' \in Operations /\ op' # Idle /\ op'.phase = ph
         /\ op'.thread = op.thread /\ op'.next = op.next
BY DEF Operations

LEMMA OperationKinds ==
  ASSUME TypeOK, QueueStep
  PROVE  /\ up /\ op \in Operations /\ op # Idle /\ op.thread \in Threads
         /\ op.phase # "apply" => (op.next = NoRecord <=> op.phase = "remove")
         /\ op.next # NoRecord => op.next \in Records
BY DEF TypeOK, QueueStep, At, WriteFile, WriteFileFails, WriteMeta, WriteMetaFails,
   RestoreFile, FilesRemoved, RemoveFile, RemoveFileFails, Apply, Operations

-----------------------------------------------------------------------------
(* Valid records.                                                          *)

LEMMA ValidByFields ==
  ASSUME NEW r, NEW s, ValidRecord(r),
         s.state = r.state, s.session = r.session, s.turns = r.turns
  PROVE  ValidRecord(s)
BY DEF ValidRecord, MappingsOf

LEMMA CoreFields ==
  ASSUME NEW r \in Records
  PROVE  /\ Core(r) \in Records /\ Core(r) # NoRecord
         /\ Core(r).project = NoProject /\ Core(r).session = r.session
         /\ Core(r).state = r.state
         /\ SameIdentity(Core(r), r)
         /\ [Core(r) EXCEPT !.project = r.project] = r
BY DEF Core, Records, SameIdentity

LEMMA LoadedFields ==
  ASSUME TypeOK, NEW t \in Threads, Exists(Loaded(t))
  PROVE  /\ files[t] # NoRecord /\ files[t].session # NoSession
         /\ Loaded(t) \in Records
         /\ SameIdentity(Loaded(t), files[t]) /\ Loaded(t).state = files[t].state
         /\ Loaded(t).project = metaFiles[t]
         /\ files[t].project = NoProject => Core(Loaded(t)) = files[t]
BY DEF TypeOK, Loaded, Exists, Records, SameIdentity, Core

LEMMA NextValid ==
  ASSUME TypeOK, QueueOK, ReplaceInv, ValidInv, [Next]_vars
  PROVE  ValidInv'
<1> USE DEF ValidInv
<1>1. CASE UNCHANGED vars \/ ClientStep
  BY <1>1 DEF vars, ClientStep, Prepare, AbandonReplacement, Exists
<1>2. CASE StartsCreation
  <2>1. ValidRecord(op'.next)
    BY <1>2, CreationResult DEF ValidRecord, MappingsOf
  <2>2. UNCHANGED <<records, files>>
    BY <1>2, CreationResult
  <2> QED  BY <2>1, <2>2 DEF Exists
<1>3. CASE StartsChange \/ StartsReplacement
  <2>1. ValidRecord(op'.next) /\ UNCHANGED <<records, files>>
    BY <1>3, CarefulUpdates, UpdateResult
  <2> QED  BY <2>1 DEF Exists
<1>4. CASE StartsRemoval
  BY <1>4 DEF StartsRemoval, Remove, Enqueue, Exists
<1>5. CASE QueueStep
  <2>1. op \in Operations /\ op.thread \in Threads
        /\ (op.next # NoRecord => op.next \in Records)
    BY <1>5, OperationKinds
  <2>2. CASE WriteFile
    <3>1. op.next # NoRecord /\ op.next \in Records
      BY <1>5, <2>2, OperationKinds DEF WriteFile, At
    <3>2. ValidRecord(Core(op.next))
      BY <2>2, <3>1, CoreFields, ValidByFields DEF SameIdentity, WriteFile, At
    <3>3. op'.next = op.next
      BY <2>1, <2>2 DEF WriteFile, Operations
    <3> QED
      BY <2>1, <2>2, <3>1, <3>2, <3>3 DEF WriteFile, At, TypeOK, Exists
  <2>3. CASE WriteMeta \/ WriteMetaFails
    <3>1. op'.next = op.next /\ UNCHANGED <<records, files>> /\ op # Idle
      BY <2>1, <2>3 DEF WriteMeta, WriteMetaFails, Operations, At
    <3> QED  BY <3>1 DEF Exists
  <2>4. CASE RestoreFile
    <3>1. records[op.thread] \in Records /\ Exists(records[op.thread])
      BY <2>1, <2>4 DEF TypeOK, QueueOK, RestoreFile, At, Exists
    <3>2. ValidRecord(Core(records[op.thread]))
      BY <2>1, <3>1, CoreFields, ValidByFields DEF SameIdentity
    <3> QED
      BY <2>1, <2>4, <3>2 DEF RestoreFile, TypeOK, Exists
  <2>5. CASE WriteFileFails \/ \E kind \in FileKinds : RemoveFileFails(kind)
    BY <2>1, <2>5 DEF WriteFileFails, RemoveFileFails, TypeOK, Exists
  <2>6. CASE FilesRemoved \/ \E kind \in FileKinds : RemoveFile(kind)
    <3>1. op'.next = op.next /\ op # Idle /\ UNCHANGED records
      BY <2>1, <2>6 DEF FilesRemoved, RemoveFile, Operations, At
    <3>2. \A t \in Threads : files'[t] \in {files[t], NoRecord}
      BY <2>1, <2>6 DEF FilesRemoved, RemoveFile, Unlink, TypeOK
    <3> QED  BY <3>1, <3>2 DEF Exists
  <2>7. CASE Apply
    BY <2>1, <2>7 DEF Apply, At, TypeOK, Exists
  <2> QED
    BY <1>5, <2>2, <2>3, <2>4, <2>5, <2>6, <2>7 DEF QueueStep
<1>6. CASE Crash
  BY <1>6 DEF Crash, Exists
<1>7. CASE Initialize
  <2>1. op = Idle
    BY <1>7 DEF Initialize, QueueOK
  <2>2. \A t \in Threads : Exists(Loaded(t)) => ValidRecord(Loaded(t))
    BY LoadedFields, ValidByFields DEF SameIdentity
  <2> QED
    BY <1>7, <2>1, <2>2 DEF Initialize, Exists
<1>8. CASE LateStep
  <2>1. UNCHANGED <<records, op>>
    BY <1>8, LateResult
  <2>2. \A t \in Threads : files'[t] \in {files[t], NoRecord}
    BY <1>8, LateResult DEF TypeOK
  <2> QED  BY <2>1, <2>2 DEF Exists
<1> QED
  BY <1>1, <1>2, <1>3, <1>4, <1>5, <1>6, <1>7, <1>8, StepKinds

-----------------------------------------------------------------------------
(* Identities on disk.                                                     *)

LEMMA SameDisjoint ==
  ASSUME NEW r, NEW s, NEW r2, NEW s2,
         SameIdentity(r2, r), SameIdentity(s2, s), Disjoint(r, s)
  PROVE  Disjoint(r2, s2)
BY DEF SameIdentity, Disjoint, MappingsOf

LEMMA SameIsTransitive ==
  ASSUME NEW r, NEW s, NEW q, SameIdentity(r, s), SameIdentity(s, q)
  PROVE  SameIdentity(r, q)
BY DEF SameIdentity

(* The records that the files are to hold are as disjoint as those in      *)
(* memory, since one operation runs at a time.                             *)
LEMMA CommittedDisjoint ==
  ASSUME UniqueInv, NEW t \in Threads, NEW u \in Threads, t # u,
         Exists(Committed(t)), Exists(Committed(u))
  PROVE  Disjoint(Committed(t), Committed(u))
<1>1. CASE ~InPhase(t, {"apply"}) /\ ~InPhase(u, {"apply"})
  BY <1>1 DEF Committed, UniqueInv, UniqueIdentities
<1>2. CASE InPhase(t, {"apply"})
  BY <1>2 DEF Committed, InPhase, UniqueInv, NextDisjoint, Exists
<1>3. CASE InPhase(u, {"apply"})
  <2>1. Disjoint(Committed(u), Committed(t))
    BY <1>3 DEF Committed, InPhase, UniqueInv, NextDisjoint, Exists
  <2> QED  BY <2>1, DisjointSymmetric
<1> QED
  BY <1>1, <1>2, <1>3

LEMMA BackedFilesLoad ==
  ASSUME TypeOK, UniqueInv, \A t \in Threads : Backed(t)
  PROVE  DiskLoads
<1> SUFFICES ASSUME NEW t \in Threads, NEW u \in Threads, t # u,
                    Exists(Loaded(t)), Exists(Loaded(u))
             PROVE  Disjoint(Loaded(t), Loaded(u))
  BY DEF DiskLoads, UniqueIdentities
<1>1. /\ files[t] # NoRecord /\ SameIdentity(Loaded(t), files[t])
      /\ files[u] # NoRecord /\ SameIdentity(Loaded(u), files[u])
  BY LoadedFields
<1>2. /\ Exists(Committed(t)) /\ SameIdentity(Loaded(t), Committed(t))
      /\ Exists(Committed(u)) /\ SameIdentity(Loaded(u), Committed(u))
  BY <1>1, SameIsTransitive DEF Backed
<1>3. Disjoint(Committed(t), Committed(u))
  BY <1>2, CommittedDisjoint
<1> QED
  BY <1>2, <1>3, SameDisjoint

-----------------------------------------------------------------------------
(* The invariant of the disk, one kind of step after the other.            *)

(* A step that starts an operation, or touches neither memory nor disk.    *)
LEMMA NothingWritten ==
  ASSUME DiskInv, UNCHANGED <<up, records, files, metaFiles, torn>>,
         \/ op = Idle /\ (op' # Idle => \/ op'.phase = "write"
                                       \/ /\ op'.phase = "remove"
                                          /\ Exists(records[op'.thread]))
         \/ op' = op
         \/ op.phase = "write" /\ op' = Idle,
         NextOK'
  PROVE  DiskInv'
BY DEF DiskInv, Backed, OnDisk, InPhase, Committed, Exists, Stored

LEMMA StartsDisk ==
  ASSUME TypeOK, QueueOK, ReplaceInv, DiskInv,
         StartsCreation \/ StartsChange \/ StartsReplacement \/ StartsRemoval
  PROVE  DiskInv'
<1>1. CASE StartsCreation
  <2>1. PICK t \in Threads :
           LET next == op'.next IN
           /\ op' # Idle /\ op'.thread = t /\ op'.phase = "write"
           /\ next.session = NoSession /\ next.project = NoProject
           /\ t \in fresh
           /\ op = Idle /\ UNCHANGED <<up, records, files, metaFiles, torn>>
    BY <1>1, CreationResult
  <2>2. ~Exists(records[t])
    BY <2>1 DEF ReplaceInv, FreshOK
  <2>3. NextOK'
    BY <2>1, <2>2 DEF NextOK, Exists
  <2> QED  BY <2>1, <2>3, NothingWritten
<1>2. CASE StartsChange \/ StartsReplacement
  <2>1. PICK t \in Threads, changed \in Records, expected \in Records \cup {NoRecord} :
             Update(t, changed, expected) /\ Careful(records[t], changed)
    BY <1>2, CarefulUpdates
  <2> DEFINE next == op'.next
  <2>2. /\ op' # Idle /\ op'.thread = t /\ op'.phase = "write"
        /\ next = [changed EXCEPT !.revision = next.revision]
        /\ next.session = changed.session /\ next.project = changed.project
        /\ records[t] \in Records /\ Exists(records[t])
        /\ op = Idle /\ UNCHANGED <<up, records, files, metaFiles, torn>>
    BY <2>1, UpdateResult
  <2> HIDE DEF next
  <2>3. next.session = NoSession => records[t].session = NoSession
    BY <2>1, <2>2 DEF Careful
  <2>4. next.project # records[t].project
          => next = [records[t] EXCEPT !.project = next.project,
                                       !.revision = next.revision]
    BY <2>1, <2>2 DEF Careful
  <2>5. NextOK'
    BY <2>2, <2>3, <2>4 DEF NextOK, Exists, next
  <2> QED  BY <2>2, <2>5, NothingWritten
<1>3. CASE StartsRemoval
  <2>1. op = Idle /\ op'.phase = "remove" /\ op'.next = NoRecord
        /\ Exists(records[op'.thread])
        /\ UNCHANGED <<up, records, files, metaFiles, torn>>
    BY <1>3 DEF StartsRemoval, Remove, QueueIdle, Enqueue
  <2>2. NextOK'
    BY <2>1 DEF NextOK
  <2> QED  BY <2>1, <2>2, NothingWritten
<1> QED
  BY <1>1, <1>2, <1>3

(* What a step of the queue does to the Threads it is not about: nothing.  *)
LEMMA OtherThreads ==
  ASSUME DiskInv, up, op # Idle,
         op' = Idle \/ op'.thread = op.thread,
         NEW t \in Threads \ {op.thread},
         records'[t] = records[t], files'[t] = files[t],
         metaFiles'[t] = metaFiles[t]
  PROVE  /\ files'[t] # NoRecord => files'[t].project = NoProject
         /\ Backed(t)'
         /\ t \notin torn => OnDisk(t)'
BY DEF DiskInv, Backed, OnDisk, InPhase, Committed, Exists, Stored

(* DiskInv after a step of the queue, from what it says of the Thread.     *)
LEMMA QueueStepDisk ==
  ASSUME TypeOK, DiskInv, up, op # Idle, UNCHANGED up, torn \subseteq torn',
         NEW t \in Threads, op.thread = t,
         op' = Idle \/ op'.thread = t,
         \A u \in Threads \ {t} :
           /\ records'[u] = records[u] /\ files'[u] = files[u]
           /\ metaFiles'[u] = metaFiles[u],
         files'[t] # NoRecord => files'[t].project = NoProject,
         Backed(t)',
         t \notin torn' => OnDisk(t)',
         NextOK'
  PROVE  DiskInv'
<1>1. \A u \in Threads \ {t} :
        /\ files'[u] # NoRecord => files'[u].project = NoProject
        /\ Backed(u)'
        /\ u \notin torn => OnDisk(u)'
  BY OtherThreads
<1>2. \A u \in Threads : files'[u] # NoRecord => files'[u].project = NoProject
  BY <1>1
<1>3. \A u \in Threads : Backed(u)'
  BY <1>1
<1>4. \A u \in Threads \ torn' : OnDisk(u)'
  BY <1>1
<1> QED
  BY <1>2, <1>3, <1>4 DEF DiskInv

LEMMA WritesDisk ==
  ASSUME TypeOK, QueueOK, DiskInv, WriteFile
  PROVE  DiskInv'
<1> DEFINE next == op.next
<1>0. PICK t \in Threads : op.thread = t
  BY OperationKinds DEF QueueStep
<1>1. /\ up /\ op \in Operations /\ op # Idle /\ op.thread = t
      /\ op.phase = "write" /\ next \in Records /\ next # NoRecord
  BY <1>0, OperationKinds DEF WriteFile, At, QueueStep
<1>2. /\ Core(next) # NoRecord /\ Core(next).project = NoProject
      /\ SameIdentity(Core(next), next)
  BY <1>1, CoreFields
<1>3. /\ files'[t] = Core(next)
      /\ \A u \in Threads \ {t} : files'[u] = files[u]
      /\ UNCHANGED <<up, records, metaFiles, torn>>
  BY <1>1 DEF WriteFile, TypeOK
<1>4. CASE Exists(records[t]) /\ records[t].project # next.project
  <2>1. op' = [op EXCEPT !.phase = "meta"]
    BY <1>1, <1>4 DEF WriteFile
  <2>2. op' # Idle /\ op'.phase = "meta" /\ op'.thread = t /\ op'.next = next
    BY <1>1, <2>1, OtherPhase
  <2>3. next = [records[t] EXCEPT !.project = next.project,
                                  !.revision = next.revision]
    BY <1>1, <1>4 DEF DiskInv, NextOK
  <2>4. records[t] \in Records
    BY <1>1, <1>4 DEF TypeOK, Exists
  <2>5. SameIdentity(next, records[t])
    BY <2>3, <2>4 DEF SameIdentity, Records
  <2>6. NextOK'
    BY <1>1, <1>3, <1>4, <2>2 DEF DiskInv, NextOK
  <2>7. t \notin torn => metaFiles[t] = records[t].project
    BY <1>1, <1>4 DEF DiskInv, OnDisk, InPhase, Committed, Stored
  <2>8. Backed(t)' /\ (t \notin torn' => OnDisk(t)')
    <3>1. SameIdentity(Core(next), records[t])
      BY <1>2, <2>5, SameIsTransitive
    <3>2. Committed(t)' = records[t]
      BY <1>3, <2>2 DEF Committed, InPhase
    <3>3. Backed(t)'
      BY <1>3, <1>4, <3>1, <3>2 DEF Backed, Exists
    <3>4. t \notin torn' => OnDisk(t)'
      BY <1>3, <2>2, <2>7 DEF OnDisk, InPhase
    <3> QED  BY <3>3, <3>4
  <2> HIDE DEF next
  <2> QED
    BY <1>1, <1>2, <1>3, <2>2, <2>6, <2>8, QueueStepDisk
<1>5. CASE ~(Exists(records[t]) /\ records[t].project # next.project)
  <2>1. op' = [op EXCEPT !.phase = "apply"]
    BY <1>1, <1>5 DEF WriteFile
  <2>2. op' # Idle /\ op'.phase = "apply" /\ op'.thread = t /\ op'.next = next
    BY <1>1, <2>1, OtherPhase
  <2>3. NextOK'
    BY <1>1, <1>3, <1>5, <2>2 DEF DiskInv, NextOK
  <2>4. t \notin torn => metaFiles[t] = next.project
    BY <1>1, <1>5 DEF DiskInv, OnDisk, InPhase, Committed, Stored, NextOK
  <2>5. Committed(t)' = next
    BY <1>3, <2>2 DEF Committed, InPhase
  <2>6. Backed(t)'
    BY <1>1, <1>2, <1>3, <2>5 DEF Backed, Exists
  <2>7. t \notin torn' => OnDisk(t)'
    BY <1>1, <1>3, <2>2, <2>4, <2>5 DEF OnDisk, InPhase, Stored, Exists
  <2> HIDE DEF next
  <2> QED
    BY <1>1, <1>2, <1>3, <2>2, <2>3, <2>6, <2>7, QueueStepDisk
<1> QED
  BY <1>4, <1>5

LEMMA MetadataDisk ==
  ASSUME TypeOK, QueueOK, DiskInv, WriteMeta \/ WriteMetaFails \/ RestoreFile
  PROVE  DiskInv'
<1> DEFINE next == op.next
<1>0. PICK t \in Threads : op.thread = t
  BY OperationKinds DEF QueueStep
<1>1. /\ up /\ op \in Operations /\ op # Idle /\ op.thread = t
      /\ op.phase \in {"meta", "restore"} /\ next \in Records /\ next # NoRecord
  BY <1>0, OperationKinds DEF WriteMeta, WriteMetaFails, RestoreFile, At, QueueStep
<1>2. records[t] \in Records /\ Exists(records[t])
  BY <1>1 DEF TypeOK, QueueOK, Exists
<1>3. next = [records[t] EXCEPT !.project = next.project,
                                !.revision = next.revision]
  BY <1>1, <1>2 DEF DiskInv, NextOK
<1>4. SameIdentity(next, records[t]) /\ SameIdentity(records[t], next)
  BY <1>2, <1>3 DEF SameIdentity, Records
<1>5. Committed(t) = records[t] /\ Backed(t)
  BY <1>1 DEF Committed, InPhase, DiskInv
<1>6. t \notin torn => files[t] = Core(next) /\ metaFiles[t] = records[t].project
  BY <1>1 DEF DiskInv, OnDisk, InPhase
<1>7. CASE WriteMeta
  <2>1. op' # Idle /\ op'.phase = "apply" /\ op'.thread = t /\ op'.next = next
    BY <1>1, <1>7, OtherPhase DEF WriteMeta, At
  <2>2. /\ metaFiles'[t] = next.project
        /\ \A u \in Threads \ {t} : metaFiles'[u] = metaFiles[u]
        /\ UNCHANGED <<up, records, files, torn>>
    BY <1>1, <1>7 DEF WriteMeta, TypeOK
  <2>3. NextOK'
    BY <1>1, <1>2, <2>1, <2>2 DEF DiskInv, NextOK
  <2>4. Committed(t)' = next
    BY <2>1 DEF Committed, InPhase
  <2>5. Backed(t)'
    BY <1>1, <1>4, <1>5, <2>2, <2>4, SameIsTransitive DEF Backed, Exists
  <2>6. t \notin torn' => OnDisk(t)'
    BY <1>1, <1>6, <2>1, <2>2, <2>4 DEF OnDisk, InPhase, Stored, Exists
  <2>7. files'[t] # NoRecord => files'[t].project = NoProject
    BY <1>1, <2>2 DEF DiskInv
  <2> HIDE DEF next
  <2> QED  BY <1>1, <2>1, <2>2, <2>3, <2>5, <2>6, <2>7, QueueStepDisk
<1>8. CASE WriteMetaFails
  <2>1. op' # Idle /\ op'.phase = "restore" /\ op'.thread = t /\ op'.next = next
    BY <1>1, <1>8, OtherPhase DEF WriteMetaFails, At
  <2>2. UNCHANGED <<up, records, files, metaFiles, torn>>
    BY <1>8 DEF WriteMetaFails
  <2>3. NextOK'
    BY <1>1, <1>2, <1>8, <2>1, <2>2 DEF DiskInv, NextOK
  <2>4. Committed(t)' = records[t]
    BY <2>1, <2>2 DEF Committed, InPhase
  <2>5. Backed(t)'
    BY <1>5, <2>2, <2>4 DEF Backed
  <2>6. t \notin torn' => OnDisk(t)'
    BY <1>6, <2>1, <2>2 DEF OnDisk, InPhase
  <2>7. files'[t] # NoRecord => files'[t].project = NoProject
    BY <1>1, <2>2 DEF DiskInv
  <2> HIDE DEF next
  <2> QED  BY <1>1, <2>1, <2>2, <2>3, <2>5, <2>6, <2>7, QueueStepDisk
<1>9. CASE RestoreFile
  <2>1. op' = Idle /\ UNCHANGED <<up, records, metaFiles>>
    BY <1>9 DEF RestoreFile
  <2>2. NextOK'
    BY <2>1 DEF NextOK
  <2>3. Committed(t)' = records[t]
    BY <2>1 DEF Committed, InPhase
  <2>4. /\ Core(records[t]) # NoRecord /\ Core(records[t]).project = NoProject
        /\ SameIdentity(Core(records[t]), records[t])
    BY <1>2, CoreFields
  <2>5. /\ \A u \in Threads \ {t} : files'[u] = files[u]
        /\ \/ files'[t] = Core(records[t]) /\ UNCHANGED torn
           \/ files'[t] = files[t] /\ torn' = torn \cup {t}
    BY <1>1, <1>9 DEF RestoreFile, TypeOK
  <2>6. files'[t] # NoRecord => files'[t].project = NoProject
    BY <1>1, <2>4, <2>5 DEF DiskInv
  <2>7. Backed(t)'
    BY <1>2, <1>5, <2>3, <2>4, <2>5 DEF Backed, Exists
  <2>8. t \notin torn' => OnDisk(t)'
    BY <1>2, <1>6, <2>1, <2>3, <2>5 DEF OnDisk, InPhase, Stored, Exists
  <2>9. torn \subseteq torn'
    BY <2>5
  <2> HIDE DEF next
  <2> QED  BY <1>1, <2>1, <2>2, <2>5, <2>6, <2>7, <2>8, <2>9, QueueStepDisk
<1> QED
  BY <1>7, <1>8, <1>9

LEMMA RemovalDisk ==
  ASSUME TypeOK, QueueOK, UnlinksOK, DiskInv,
         FilesRemoved \/ \E kind \in FileKinds : RemoveFile(kind) \/ RemoveFileFails(kind)
  PROVE  DiskInv'
<1>0. PICK t \in Threads : op.thread = t
  BY OperationKinds DEF QueueStep
<1>1. /\ up /\ op \in Operations /\ op # Idle /\ op.thread = t
      /\ op.phase = "remove" /\ op.next = NoRecord
  BY <1>0, OperationKinds DEF FilesRemoved, RemoveFile, RemoveFileFails, At, QueueStep
<1>2. UNCHANGED <<up, records>>
      /\ \A u \in Threads \ {t} : files'[u] = files[u] /\ metaFiles'[u] = metaFiles[u]
  BY <1>1 DEF FilesRemoved, RemoveFile, RemoveFileFails, Unlink, TypeOK
<1>3. files'[t] \in {files[t], NoRecord} /\ metaFiles'[t] \in {metaFiles[t], NoProject}
  BY <1>1 DEF FilesRemoved, RemoveFile, RemoveFileFails, Unlink, TypeOK
<1>4. files'[t] # NoRecord => files'[t].project = NoProject
  BY <1>1, <1>3 DEF DiskInv
<1>5. CASE FilesRemoved
  <2>1. op' # Idle /\ op'.phase = "apply" /\ op'.thread = t /\ op'.next = NoRecord
    BY <1>1, <1>5, OtherPhase DEF FilesRemoved
  <2>2. files'[t] = NoRecord /\ metaFiles'[t] = NoProject /\ UNCHANGED torn
    BY <1>1, <1>5 DEF FilesRemoved, UnlinksOK
  <2>3. NextOK' /\ Backed(t)' /\ OnDisk(t)'
    BY <2>1, <2>2 DEF NextOK, Backed, OnDisk, Stored, Committed, InPhase, Exists
  <2> QED  BY <1>1, <1>2, <1>4, <2>1, <2>2, <2>3, QueueStepDisk
<1>6. ASSUME NEW kind \in FileKinds, RemoveFile(kind) PROVE DiskInv'
  <2>1. op' = op /\ UNCHANGED torn
    BY <1>6 DEF RemoveFile
  <2>2. Committed(t) = records[t] /\ Committed(t)' = records[t] /\ Backed(t)
    BY <1>1, <1>2, <2>1 DEF Committed, InPhase, DiskInv
  <2>3. NextOK' /\ Backed(t)'
    BY <1>1, <1>2, <1>3, <2>1, <2>2 DEF NextOK, Backed
  <2>4. t \notin torn => OnDisk(t)'
    BY <1>1, <1>2, <1>3, <2>1 DEF DiskInv, OnDisk, InPhase
  <2> QED  BY <1>1, <1>2, <1>4, <2>1, <2>3, <2>4, QueueStepDisk
<1>7. ASSUME NEW kind \in FileKinds, RemoveFileFails(kind) PROVE DiskInv'
  <2>1. op' = Idle /\ torn' = torn \cup {t}
    BY <1>1, <1>7 DEF RemoveFileFails
  <2>2. Committed(t) = records[t] /\ Committed(t)' = records[t] /\ Backed(t)
    BY <1>1, <1>2, <2>1 DEF Committed, InPhase, DiskInv
  <2>3. NextOK' /\ Backed(t)'
    BY <1>3, <2>1, <2>2 DEF NextOK, Backed
  <2> QED  BY <1>1, <1>2, <1>4, <2>1, <2>3, QueueStepDisk
<1> QED
  BY <1>5, <1>6, <1>7

(* What goes on after a failed removal harms a torn Thread only.           *)
LEMMA LateDisk ==
  ASSUME TypeOK, UnlinksOK, DiskInv, LateStep
  PROVE  DiskInv'
<1>1. UNCHANGED <<up, records, op, torn>>
  BY LateResult
<1>2. PICK t \in Threads :
            /\ t \in torn
            /\ files' \in {files, [files EXCEPT ![t] = NoRecord]}
            /\ metaFiles' \in {metaFiles, [metaFiles EXCEPT ![t] = NoProject]}
  BY LateResult DEF UnlinksOK
<1>3. /\ \A u \in Threads : files'[u] \in {files[u], NoRecord}
      /\ \A u \in Threads \ torn : files'[u] = files[u] /\ metaFiles'[u] = metaFiles[u]
  BY <1>2 DEF TypeOK
<1>4. NextOK' /\ (\A u \in Threads : Backed(u) => Backed(u)')
  BY <1>1, <1>3 DEF DiskInv, NextOK, Backed, Committed, InPhase, Exists
<1>5. \A u \in Threads \ torn : OnDisk(u) => OnDisk(u)'
  BY <1>1, <1>3 DEF OnDisk, Stored, Committed, InPhase, Exists
<1> QED
  BY <1>1, <1>3, <1>4, <1>5 DEF DiskInv

LEMMA NextUnlinks ==
  ASSUME TypeOK, QueueOK, ReplaceInv, UnlinksOK, [Next]_vars
  PROVE  UnlinksOK'
<1> USE DEF UnlinksOK
<1>1. CASE UNCHANGED vars \/ ClientStep
  BY <1>1 DEF vars, ClientStep, Prepare, AbandonReplacement
<1>2. CASE StartsCreation
  BY <1>2 DEF StartsCreation, CreateProvisional, Enqueue
<1>3. CASE StartsChange \/ StartsReplacement
  <2>1. op'.phase = "write"
    BY <1>3, CarefulUpdates, UpdateResult
  <2>2. UNCHANGED <<late, torn>>
    BY <1>3 DEF StartsChange, StartsReplacement, ReplaceSession, Update
  <2> QED  BY <2>1, <2>2
<1>4. CASE StartsRemoval
  BY <1>4 DEF StartsRemoval, Remove, FileKinds
<1>5. CASE QueueStep
  <2>1. op # Idle /\ op \in Operations /\ op.thread \in Threads
    BY <1>5, OperationKinds
  <2>2. CASE WriteFile \/ WriteMeta \/ WriteMetaFails \/ FilesRemoved
    <3>1. op'.phase # "remove" /\ UNCHANGED <<late, torn>>
      BY <2>1, <2>2 DEF WriteFile, WriteMeta, WriteMetaFails, FilesRemoved, Operations
    <3> QED  BY <3>1
  <2>3. CASE WriteFileFails \/ RestoreFile \/ Apply
    BY <2>3 DEF WriteFileFails, RestoreFile, Apply
  <2>4. ASSUME NEW kind \in FileKinds, RemoveFile(kind) PROVE UnlinksOK'
    BY <2>1, <2>4 DEF RemoveFile, Unlink, TypeOK
  <2>5. ASSUME NEW kind \in FileKinds, RemoveFileFails(kind) PROVE UnlinksOK'
    BY <2>1, <2>5 DEF RemoveFileFails
  <2> QED  BY <1>5, <2>2, <2>3, <2>4, <2>5 DEF QueueStep
<1>6. CASE LateStep
  <2>1. \A t \in Threads : files'[t] \in {files[t], NoRecord}
                          /\ metaFiles'[t] \in {metaFiles[t], NoProject}
    BY <1>6, LateResult DEF TypeOK
  <2>2. UNCHANGED <<op, torn, left>> /\ late' \subseteq late
    BY <1>6, LateResult
  <2>3. op # Idle => op.thread \in Threads
    BY DEF TypeOK, Operations
  <2> QED  BY <2>1, <2>2, <2>3
<1>7. CASE Crash \/ Initialize
  BY <1>7 DEF Crash, Initialize, QueueOK
<1> QED
  BY <1>1, <1>2, <1>3, <1>4, <1>5, <1>6, <1>7, StepKinds

LEMMA ApplyDisk ==
  ASSUME TypeOK, QueueOK, DiskInv, Apply
  PROVE  DiskInv'
<1>0. PICK t \in Threads : op.thread = t
  BY OperationKinds DEF QueueStep
<1>1. up /\ op # Idle /\ op.thread = t /\ op.phase = "apply"
  BY <1>0, OperationKinds DEF Apply, At, QueueStep
<1>2. /\ op' = Idle /\ records'[t] = op.next
      /\ \A u \in Threads \ {t} : records'[u] = records[u]
      /\ UNCHANGED <<up, files, metaFiles, torn>>
  BY <1>1 DEF Apply, TypeOK
<1>3. Committed(t)' = Committed(t)
  BY <1>1, <1>2 DEF Committed, InPhase
<1>4. NextOK' /\ Backed(t)' /\ (t \notin torn' => OnDisk(t)')
  BY <1>1, <1>2, <1>3 DEF DiskInv, NextOK, Backed, OnDisk, InPhase, Stored
<1>5. files'[t] # NoRecord => files'[t].project = NoProject
  BY <1>1, <1>2 DEF DiskInv
<1> QED
  BY <1>1, <1>2, <1>4, <1>5, QueueStepDisk

LEMMA InitializeDisk ==
  ASSUME TypeOK, QueueOK, DiskInv, Initialize
  PROVE  DiskInv'
<1>1. op = Idle /\ op' = Idle /\ up' = TRUE
  BY DEF Initialize, QueueOK
<1>2. NextOK'
  BY <1>1 DEF NextOK
<1>3. ASSUME NEW t \in Threads
      PROVE  /\ files'[t] # NoRecord => files'[t].project = NoProject
             /\ Backed(t)' /\ OnDisk(t)'
  <2>1. /\ records'[t] = Loaded(t)
        /\ files'[t] = IF Exists(Loaded(t)) THEN files[t] ELSE NoRecord
        /\ metaFiles'[t] = IF Exists(Loaded(t)) THEN metaFiles[t] ELSE NoProject
    BY DEF Initialize
  <2>2. Committed(t)' = Loaded(t)
    BY <1>1, <2>1 DEF Committed, InPhase
  <2>3. files[t] # NoRecord => files[t].project = NoProject
    BY DEF DiskInv
  <2>4. CASE Exists(Loaded(t))
    <3>1. /\ files[t] # NoRecord /\ SameIdentity(Loaded(t), files[t])
          /\ Loaded(t).project = metaFiles[t] /\ Core(Loaded(t)) = files[t]
      BY <2>3, <2>4, LoadedFields
    <3>2. SameIdentity(files[t], Loaded(t))
      BY <3>1 DEF SameIdentity
    <3> QED
      BY <1>1, <2>1, <2>2, <2>3, <2>4, <3>1, <3>2
      DEF Backed, OnDisk, InPhase, Stored
  <2>5. CASE ~Exists(Loaded(t))
    BY <1>1, <2>1, <2>2, <2>5 DEF Backed, OnDisk, InPhase, Stored
  <2> QED  BY <2>4, <2>5
<1> QED
  BY <1>1, <1>2, <1>3 DEF DiskInv

LEMMA NextDisk ==
  ASSUME TypeOK, QueueOK, ReplaceInv, UnlinksOK, DiskInv, [Next]_vars
  PROVE  DiskInv'
<1>1. CASE UNCHANGED vars \/ ClientStep \/ WriteFileFails
  <2>1. /\ UNCHANGED <<up, records, files, metaFiles, torn>>
        /\ op' = op \/ (op.phase = "write" /\ op' = Idle)
    BY <1>1 DEF vars, ClientStep, Prepare, AbandonReplacement, WriteFileFails, At
  <2>2. NextOK'
    BY <2>1 DEF DiskInv, NextOK, Exists
  <2> QED  BY <2>1, <2>2, NothingWritten
<1>2. CASE StartsCreation \/ StartsChange \/ StartsReplacement \/ StartsRemoval
  BY <1>2, StartsDisk
<1>3. CASE QueueStep
  BY <1>1, <1>3, WritesDisk, MetadataDisk, RemovalDisk, ApplyDisk DEF QueueStep
<1>4. CASE Crash
  BY <1>4 DEF Crash, DiskInv, NextOK
<1>5. CASE Initialize
  BY <1>5, InitializeDisk
<1>6. CASE LateStep
  BY <1>6, LateDisk
<1> QED
  BY <1>1, <1>2, <1>3, <1>4, <1>5, <1>6, StepKinds

LEMMA InitStoreInv == Init => StoreInv /\ DiskLoads
<1> SUFFICES ASSUME Init PROVE StoreInv /\ DiskLoads
  OBVIOUS
<1>1. TypeOK /\ QueueOK
  BY InitType DEF Init, QueueOK
<1>2. ReplaceInv
  BY InitReplaceInv
<1>3. UniqueInv
  BY DEF Init, UniqueInv, UniqueIdentities, NextDisjoint, Exists
<1>4. ValidInv
  BY DEF Init, ValidInv, Exists
<1>5. DiskInv
  BY DEF Init, DiskInv, NextOK, Backed, OnDisk, Stored, Committed, InPhase, Exists
<1>6. DiskLoads
  BY <1>1, <1>3, <1>5, BackedFilesLoad DEF Init, DiskInv
<1>7. UnlinksOK
  BY DEF Init, UnlinksOK
<1> QED
  BY <1>1, <1>2, <1>3, <1>4, <1>5, <1>6, <1>7 DEF StoreInv

LEMMA NextStoreInv == StoreInv /\ [Next]_vars => StoreInv'
BY NextType, NextQueueOK, NextReplaceInv, NextUnique, NextValid, NextUnlinks, NextDisk
DEF StoreInv

(* Whatever operations run, whatever writes fail and wherever a crash      *)
(* comes, the files left on disk have no duplicate identity: initialize()  *)
(* never throws.                                                           *)
THEOREM FilesAlwaysLoad == Spec => []DiskLoads
<1>1. StoreInv => (up = TRUE => DiskLoads)
  BY BackedFilesLoad DEF StoreInv, DiskInv
<1>2. StoreInv /\ DiskLoads /\ [Next]_vars => (up = TRUE)' \/ DiskLoads'
  <2> SUFFICES ASSUME StoreInv, DiskLoads, [Next]_vars, up' # TRUE
               PROVE  DiskLoads'
    OBVIOUS
  <2> TypeOK
    BY DEF StoreInv
  <2>1. UNCHANGED <<files, metaFiles>>
    <3>1. CASE UNCHANGED vars \/ Crash \/ Initialize
      BY <3>1 DEF vars, Crash, Initialize
    <3>2. CASE StartsCreation \/ StartsRemoval \/ ClientStep
      BY <3>2 DEF StartsCreation, CreateProvisional, StartsRemoval, Remove,
         ClientStep, Prepare, AbandonReplacement
    <3>3. CASE StartsChange \/ StartsReplacement
      BY <3>3, CarefulUpdates, UpdateResult DEF StoreInv
    <3>4. CASE QueueStep
      BY <3>4 DEF TypeOK, QueueStep, At, WriteFile, WriteFileFails, WriteMeta,
         WriteMetaFails, RestoreFile, FilesRemoved, RemoveFile, RemoveFileFails, Apply
    <3>5. CASE LateStep
      BY <3>5, LateResult
    <3> QED  BY <3>1, <3>2, <3>3, <3>4, <3>5, StepKinds
  <2> QED
    BY <2>1 DEF DiskLoads, UniqueIdentities, Loaded, Exists
<1> QED
  BY <1>1, <1>2, InitStoreInv, NextStoreInv, PTL DEF Spec

-----------------------------------------------------------------------------
(* Durability.  What initialize() would load is what the readers see.      *)

(* The record that a crash leaves of one in memory.                        *)
Survives(r) == IF Exists(r) /\ r.session = NoSession THEN NoRecord ELSE r

LEMMA StoredLoads ==
  ASSUME NEW t \in Threads, NEW r \in Records \cup {NoRecord}, Stored(t, r)
  PROVE  Loaded(t) = Survives(r)
<1>1. CASE ~Exists(r)
  BY <1>1 DEF Stored, Survives, Loaded, Exists
<1>2. CASE Exists(r)
  BY <1>2, CoreFields DEF Stored, Survives, Loaded, Exists
<1> QED  BY <1>1, <1>2

(* Among its unlinks a removal has taken nothing, the metadata or all.     *)
LEMMA HalfRemovedLoads ==
  ASSUME TypeOK, QueueOK, DiskInv, up, NEW t \in Threads \ torn, InPhase(t, {"remove"})
  PROVE  /\ op.next = NoRecord /\ records[t] \in Records /\ Exists(records[t])
         /\ \/ Loaded(t) = NoRecord
            \/ Loaded(t) = records[t] /\ records[t].session # NoSession
            \/ /\ Loaded(t) = [records[t] EXCEPT !.project = NoProject]
               /\ records[t].session # NoSession
<1> DEFINE r == records[t]
<1>1. op.next = NoRecord /\ r \in Records /\ Exists(r)
  BY DEF InPhase, TypeOK, QueueOK, Operations, Exists
<1>2. files[t] \in {Core(r), NoRecord} /\ metaFiles[t] \in {r.project, NoProject}
  BY DEF DiskInv, OnDisk, InPhase
<1>3. Core(r) # NoRecord /\ Core(r).session = r.session
      /\ [Core(r) EXCEPT !.project = r.project] = r
  BY <1>1, CoreFields
<1>4. [Core(r) EXCEPT !.project = NoProject] = [r EXCEPT !.project = NoProject]
  BY <1>1 DEF Core, Records
<1> HIDE DEF r
<1>5. Loaded(t) \in {NoRecord, r, [r EXCEPT !.project = NoProject]}
      /\ (Loaded(t) # NoRecord => r.session # NoSession)
  BY <1>2, <1>3, <1>4 DEF Loaded
<1> QED
  BY <1>1, <1>5 DEF r

(* Between its two files an operation has changed at most the revision.    *)
LEMMA HalfWrittenLoads ==
  ASSUME TypeOK, QueueOK, DiskInv, up, NEW t \in Threads \ torn,
         InPhase(t, {"meta", "restore"})
  PROVE  \/ Loaded(t) = Survives(records[t])
         \/ [Loaded(t) EXCEPT !.revision = Survives(records[t]).revision]
              = Survives(records[t])
<1> DEFINE r == records[t]
           next == op.next
<1>1. /\ op \in Operations /\ op # Idle /\ op.thread = t
      /\ op.phase \in {"meta", "restore"} /\ next \in Records /\ next # NoRecord
  BY DEF InPhase, TypeOK, Operations
<1>2. r \in Records /\ Exists(r)
  BY <1>1 DEF TypeOK, QueueOK, Exists
<1>3. next = [r EXCEPT !.project = next.project, !.revision = next.revision]
  BY <1>1, <1>2 DEF DiskInv, NextOK
<1>4. files[t] = Core(next) /\ metaFiles[t] = r.project
  BY DEF DiskInv, OnDisk
<1>5. next.session = r.session
  BY <1>2, <1>3 DEF Records
<1>6. Core(next) # NoRecord /\ Core(next).session = next.session
  BY <1>1, CoreFields
<1>7. CASE r.session = NoSession
  BY <1>2, <1>4, <1>5, <1>6, <1>7 DEF Loaded, Survives
<1>8. CASE r.session # NoSession
  <2>1. Survives(r) = r
    BY <1>8 DEF Survives
  <2>2. Loaded(t) = [Core(next) EXCEPT !.project = r.project]
    BY <1>4, <1>5, <1>6, <1>8 DEF Loaded
  <2>3. [[Core(next) EXCEPT !.project = r.project] EXCEPT !.revision = r.revision] = r
    BY <1>1, <1>2, <1>3 DEF Core, Records
  <2> HIDE DEF r, next
  <2>4. [Loaded(t) EXCEPT !.revision = r.revision] = r
    BY <2>2, <2>3
  <2> QED  BY <2>1, <2>4 DEF r
<1> QED
  BY <1>7, <1>8

LEMMA DurableInMemory == StoreInv => MemoryIsDurable
<1> SUFFICES ASSUME StoreInv, up, NEW t \in Threads \ torn
             PROVE  LET current == Survives(records[t])
                    IN  IF op = Idle \/ op.thread # t
                        THEN Loaded(t) = current
                        ELSE \/ Loaded(t) = current
                             \/ Loaded(t) = op.next
                             \/ op.phase \in {"meta", "restore"}
                                /\ [Loaded(t) EXCEPT !.revision = current.revision]
                                     = current
                             \/ op.phase = "remove" /\ Exists(current)
                                /\ Loaded(t) = [current EXCEPT !.project = NoProject]
  BY DEF MemoryIsDurable, Survives
<1> USE DEF StoreInv
<1>1. OnDisk(t)
  BY DEF DiskInv
<1>2. records[t] \in Records \cup {NoRecord}
  BY DEF TypeOK
<1>3. CASE InPhase(t, {"meta", "restore"})
  BY <1>3, HalfWrittenLoads DEF InPhase
<1>4. CASE InPhase(t, {"apply"})
  <2>1. op \in Operations /\ op # Idle /\ op.thread = t
        /\ op.next \in Records \cup {NoRecord}
    BY <1>4 DEF InPhase, TypeOK, Operations
  <2>2. Stored(t, op.next)
    BY <1>1, <1>4 DEF OnDisk, Committed, InPhase
  <2>3. Loaded(t) = Survives(op.next)
    BY <2>1, <2>2, StoredLoads
  <2>4. op.next # NoRecord /\ Exists(records[t]) /\ op.next.session = NoSession
          => records[t].session = NoSession
    BY <2>1 DEF DiskInv, NextOK
  <2> QED
    BY <2>1, <2>3, <2>4 DEF Survives, Exists
<1>5. CASE InPhase(t, {"remove"})
  <2>1. op # Idle /\ op.thread = t /\ op.phase = "remove"
    BY <1>5 DEF InPhase
  <2> QED
    BY <1>5, <2>1, HalfRemovedLoads DEF Survives
<1>6. CASE ~InPhase(t, {"meta", "restore"}) /\ ~InPhase(t, {"apply"})
           /\ ~InPhase(t, {"remove"})
  <2>1. Stored(t, records[t])
    BY <1>1, <1>6 DEF OnDisk, Committed
  <2> QED
    BY <1>2, <2>1, StoredLoads
<1> QED
  BY <1>3, <1>4, <1>5, <1>6

(* Readers never see what a crash would take away, apart from a            *)
(* provisional record, and no removed record comes back: at every moment   *)
(* the two files of a Thread hold the record in memory, or the one that    *)
(* the running operation is about to answer with, or, among the unlinks of *)
(* its removal, the record without its metadata.                           *)
THEOREM RecordsSurvive == Spec => []MemoryIsDurable
BY InitStoreInv, NextStoreInv, DurableInMemory, PTL DEF Spec

-----------------------------------------------------------------------------
(* Turn pairs.  An operation that keeps the session of a record keeps its  *)
(* pairs of a Host Turn and a native turn, and still does when it is       *)
(* applied.                                                                *)

PairsKept(r, s) ==
  Ready(r) /\ Ready(s) /\ s.session = r.session =>
    \A m \in MappingsOf(r), n \in MappingsOf(s) : m.turn = n.turn <=> m.key = n.key

PairsInv ==
  op # Idle /\ op.next # NoRecord /\ Exists(records[op.thread])
    => PairsKept(records[op.thread], op.next)

LEMMA OneSession ==
  ASSUME NEW r, Ready(r), ValidRecord(r)
  PROVE  \A m \in MappingsOf(r) : m.session = r.session
BY DEF ValidRecord, Ready

LEMMA SameRecordKeepsPairs ==
  ASSUME NEW r, ValidRecord(r)
  PROVE  PairsKept(r, r)
<1> SUFFICES ASSUME Ready(r), NEW m \in MappingsOf(r), NEW n \in MappingsOf(r)
             PROVE  m.turn = n.turn <=> m.key = n.key
  BY DEF PairsKept
<1>1. PICK i \in DOMAIN r.turns : m = r.turns[i]
  BY DEF MappingsOf
<1>2. PICK j \in DOMAIN r.turns : n = r.turns[j]
  BY DEF MappingsOf
<1>3. m.session = n.session
  BY OneSession
<1>4. i # j => m.turn # n.turn /\ <<m.session, m.key>> # <<n.session, n.key>>
  BY <1>1, <1>2 DEF ValidRecord
<1> QED
  BY <1>1, <1>2, <1>3, <1>4

(* What #mergeMappings, the Snapshot or the prefix does not decide is      *)
(* decided by #validateGlobal.                                             *)
LEMMA UpdateKeepsPairs ==
  ASSUME StoreInv, StartsChange \/ StartsReplacement
  PROVE  PairsInv'
<1> USE DEF StoreInv
<1>1. PICK t \in Threads, changed \in Records, expected \in Records \cup {NoRecord} :
           Update(t, changed, expected) /\ Careful(records[t], changed)
  BY CarefulUpdates
<1> DEFINE r == records[t]
           next == op'.next
<1>2. /\ op'.thread = t /\ records'[t] = r
      /\ next.session = changed.session /\ next.turns = changed.turns
      /\ ValidRecord(next) /\ ValidGlobal(next, t)
      /\ Exists(r)
  BY <1>1, UpdateResult
<1>3. ValidRecord(r)
  BY <1>2 DEF ValidInv
<1> SUFFICES ASSUME Ready(r), Ready(next), next.session = r.session,
                    NEW m \in MappingsOf(r), NEW n \in MappingsOf(next)
             PROVE  m.turn = n.turn <=> m.key = n.key
  BY <1>2 DEF PairsInv, PairsKept
<1>4. m.session = r.session /\ n.session = r.session
  BY <1>2, <1>3, OneSession
<1>5. m.key = n.key => m.turn = n.turn
  BY <1>2, <1>4 DEF ValidGlobal
<1>6. n \in MappingsOf(changed)
  BY <1>2 DEF MappingsOf
<1>7. m.turn = n.turn => m.key = n.key
  BY <1>1, <1>2, <1>3, <1>6 DEF Careful
<1> QED
  BY <1>5, <1>7

LEMMA NextPairsInv ==
  ASSUME StoreInv, PairsInv, [Next]_vars
  PROVE  PairsInv'
<1> USE DEF StoreInv
<1>1. CASE UNCHANGED vars \/ ClientStep
  BY <1>1 DEF vars, ClientStep, Prepare, AbandonReplacement, PairsInv, PairsKept,
     Exists, Ready
<1>2. CASE StartsCreation
  <2>1. PICK t \in Threads : op'.thread = t /\ t \in fresh /\ UNCHANGED records
    BY <1>2, CreationResult
  <2>2. ~Exists(records[t])
    BY <2>1 DEF ReplaceInv, FreshOK
  <2> QED  BY <2>1, <2>2 DEF PairsInv, Exists
<1>3. CASE StartsChange \/ StartsReplacement
  BY <1>3, UpdateKeepsPairs
<1>4. CASE StartsRemoval
  BY <1>4 DEF StartsRemoval, Remove, Enqueue, PairsInv
<1>5. CASE DiskStep
  <2>1. op' = Idle \/ (op'.thread = op.thread /\ op'.next = op.next)
    BY <1>5 DEF DiskStep, TypeOK, Operations
  <2> QED
    BY <1>5, <2>1 DEF DiskStep, PairsInv, Exists
<1>6. CASE Apply \/ Crash \/ Initialize
  BY <1>6 DEF Apply, Crash, Initialize, QueueOK, PairsInv
<1>7. CASE LateStep
  BY <1>7, LateResult DEF PairsInv, PairsKept, Exists, Ready
<1> QED
  BY <1>1, <1>2, <1>3, <1>4, <1>5, <1>6, <1>7, StepKinds, QueueSteps

LEMMA StepKeepsPairs ==
  ASSUME StoreInv, PairsInv, [Next]_vars, NEW t \in Threads
  PROVE  PairsKept(records[t], records'[t])
<1> USE DEF StoreInv
<1>1. CASE records'[t] = records[t]
  <2>1. Ready(records[t]) => ValidRecord(records[t])
    BY DEF ValidInv, Ready
  <2> QED  BY <1>1, <2>1, SameRecordKeepsPairs DEF PairsKept
<1>2. CASE Apply
  <2>1. op # Idle /\ op.thread \in Threads
    BY <1>2 DEF Apply, At, TypeOK, Operations
  <2>2. op.thread # t => records'[t] = records[t]
    BY <1>2, <2>1 DEF Apply, TypeOK
  <2>3. op.thread = t => records'[t] = op.next
    BY <1>2, <2>1 DEF Apply, TypeOK
  <2>4. CASE op.thread = t
    BY <2>1, <2>3, <2>4 DEF PairsInv, PairsKept, Ready, Exists
  <2> QED  BY <1>1, <2>2, <2>4
<1>3. CASE Crash \/ Initialize
  BY <1>3 DEF Crash, Initialize, DiskInv, PairsKept, Ready, Exists
<1>4. CASE UNCHANGED vars \/ StartsCreation \/ StartsRemoval \/ ClientStep
  <2>1. UNCHANGED records
    BY <1>4, CreationResult
    DEF vars, StartsRemoval, Remove, ClientStep, Prepare, AbandonReplacement
  <2> QED  BY <1>1, <2>1
<1>5. CASE StartsChange \/ StartsReplacement
  <2>1. UNCHANGED records
    BY <1>5, CarefulUpdates, UpdateResult
  <2> QED  BY <1>1, <2>1
<1>6. CASE DiskStep
  BY <1>1, <1>6 DEF DiskStep
<1>7. CASE LateStep
  BY <1>1, <1>7, LateResult
<1> QED
  BY <1>2, <1>3, <1>4, <1>5, <1>6, <1>7, StepKinds, QueueSteps

(* While a Thread keeps its session, a Host Turn and a native turn that    *)
(* are mapped to each other are never mapped to anything else: not by a    *)
(* live Turn, a Snapshot, a late commit or a replacement that was prepared *)
(* before any of these.                                                    *)
THEOREM TurnPairsNeverSplit == Spec => TurnPairsAreStable
<1>1. Init => StoreInv /\ PairsInv
  BY InitStoreInv DEF Init, PairsInv
<1>2. StoreInv /\ PairsInv /\ [Next]_vars => StoreInv' /\ PairsInv'
  BY NextStoreInv, NextPairsInv
<1>3. StoreInv /\ PairsInv /\ [Next]_vars =>
        [\A t \in Threads :
           Ready(records[t]) /\ Ready(records'[t])
             /\ records'[t].session = records[t].session
             => \A m \in MappingsOf(records[t]), n \in MappingsOf(records'[t]) :
                  m.turn = n.turn <=> m.key = n.key]_vars
  BY StepKeepsPairs DEF PairsKept
<1> QED
  BY <1>1, <1>2, <1>3, PTL DEF Spec, TurnPairsAreStable

-----------------------------------------------------------------------------
(* The map that readers see.  While an operation is at its files the map   *)
(* stands still; a crash is its only step that depends on how far the files*)
(* are, which DiskInv says for every phase.                                *)

Damaged == IF up THEN torn ELSE {}

MapVars == <<Readable, Underway, Damaged, fresh>>

(* Nothing of the map changes while an operation is at its files, or a     *)
(* client prepares.                                                        *)
LEMMA QuietForTheMap ==
  ASSUME TypeOK, UNCHANGED <<up, records, torn, fresh>>, up,
         \/ op' = op
         \/ op \in Operations /\ \E ph : op' = [op EXCEPT !.phase = ph] /\ op' # Idle
  PROVE  UNCHANGED MapVars
<1>1. Readable' = Readable /\ Damaged' = Damaged
  BY DEF Readable, Damaged
<1>2. Underway' = Underway
  <2>1. CASE op' = op
    BY <2>1 DEF Underway
  <2>2. CASE op' # op
    <3>1. op # Idle /\ op' # Idle /\ op'.thread = op.thread /\ op'.next = op.next
      BY <2>2, IdleAssumption DEF Operations
    <3> QED  BY <3>1 DEF Underway
  <2> QED  BY <2>1, <2>2
<1> QED
  BY <1>1, <1>2 DEF MapVars

(* What starts an operation begins a change of the map.                    *)
LEMMA StartBegins ==
  ASSUME TypeOK, up, op = Idle, op' # Idle,
         UNCHANGED <<up, records, torn>>,
         NEW t \in Threads, NEW r \in Records \cup {NoRecord},
         op'.thread = t, op'.next = r,
         fresh' = fresh \ {t},
         \/ t \in fresh /\ records[t] = NoRecord /\ r # NoRecord /\ r.revision = 1
         \/ records[t] # NoRecord /\ r = NoRecord
         \/ records[t] # NoRecord /\ r # NoRecord /\ r.revision = records[t].revision + 1
  PROVE  Map!Begin
<1> DEFINE c == [thread |-> t, record |-> r]
<1>1. Underway = {} /\ Underway' = {c}
  BY DEF Underway
<1>2. c \in Map!Changes /\ c.thread = t /\ c.record = r
  BY DEF Map!Changes
<1>3. Readable[t] = records[t] /\ Readable' = Readable /\ Damaged' = Damaged
  BY DEF Readable, Damaged
<1>4. Map!Legal(c)
  BY <1>2, <1>3 DEF Map!Legal
<1>5. fresh' = fresh \ {c.thread}
  BY <1>2
<1> HIDE DEF c
<1> QED
  BY <1>1, <1>2, <1>3, <1>4, <1>5 DEF Map!Begin, Damaged

LEMMA StartsBegin ==
  ASSUME StoreInv, StartsCreation \/ StartsChange \/ StartsReplacement \/ StartsRemoval
  PROVE  Map!Begin
<1> USE DEF StoreInv
<1>1. CASE StartsCreation
  <2>1. PICK t \in Threads, q \in Requests, p \in Threads \cup {NoThread}, f \in BOOLEAN :
              CreateProvisional(t, q, p, f)
    BY <1>1 DEF StartsCreation
  <2> DEFINE r == Provisional(q, p, f)
  <2>2. r \in Records /\ r # NoRecord /\ r.revision = 1
    <3>1. r \in Records
      BY EmptySeq DEF Provisional, Records
    <3> QED  BY <3>1 DEF Provisional
  <2>3. /\ up /\ op = Idle /\ UNCHANGED <<up, records, torn>>
        /\ t \in fresh /\ fresh' = fresh \ {t}
        /\ op' = [thread |-> t, next |-> r, expected |-> NoRecord, phase |-> "write"]
    BY <2>1 DEF CreateProvisional, QueueIdle, Enqueue
  <2>4. op' # Idle /\ op'.thread = t /\ op'.next = r
    <3>1. op' \in Operations
      BY <2>2, <2>3 DEF Operations
    <3> QED  BY <2>3, <3>1, IdleAssumption
  <2>5. records[t] = NoRecord
    BY <2>3 DEF ReplaceInv, FreshOK, Exists
  <2> HIDE DEF r
  <2> QED  BY <2>2, <2>3, <2>4, <2>5, StartBegins
<1>2. CASE StartsChange \/ StartsReplacement
  <2>1. PICK t \in Threads, changed \in Records, expected \in Records \cup {NoRecord} :
              Update(t, changed, expected)
    BY <1>2, CarefulUpdates
  <2>2. /\ op' # Idle /\ op'.thread = t /\ op'.next \in Records /\ op'.next # NoRecord
        /\ up /\ op = Idle /\ UNCHANGED <<up, records, torn>>
        /\ records[t] \in Records /\ records[t] # NoRecord
    BY <2>1, UpdateResult DEF Exists
  <2>3. op'.next.revision = records[t].revision + 1
    BY <2>1 DEF Update, Enqueue, Records
  <2>4. t \notin fresh /\ fresh' = fresh
    BY <2>1, <2>2 DEF Update, ReplaceInv, FreshOK, Exists
  <2>5. fresh' = fresh \ {t}
    BY <2>4 DEF TypeOK
  <2> QED  BY <2>2, <2>3, <2>5, StartBegins
<1>3. CASE StartsRemoval
  <2>1. PICK t \in Threads, b \in BOOLEAN : Remove(t, b)
    BY <1>3 DEF StartsRemoval
  <2>2. /\ up /\ op = Idle /\ UNCHANGED <<up, records, torn, fresh>>
        /\ records[t] # NoRecord
        /\ op' = [thread |-> t, next |-> NoRecord, expected |-> NoRecord,
                  phase |-> "remove"]
    BY <2>1 DEF Remove, QueueIdle, Enqueue, Exists
  <2>3. op' # Idle /\ op'.thread = t /\ op'.next = NoRecord
    <3>1. op' \in Operations
      BY <2>2 DEF Operations
    <3> QED  BY <2>2, <3>1, IdleAssumption
  <2>4. fresh' = fresh \ {t}
    BY <2>2 DEF ReplaceInv, FreshOK, Exists, TypeOK
  <2> QED  BY <2>2, <2>3, <2>4, StartBegins
<1> QED
  BY <1>1, <1>2, <1>3

LEMMA ApplyCommits ==
  ASSUME TypeOK, Apply
  PROVE  Map!Commit
<1>1. /\ up /\ op # Idle /\ op' = Idle /\ UNCHANGED <<up, torn, fresh>>
      /\ records' = [records EXCEPT ![op.thread] = op.next]
  BY DEF Apply, At
<1> DEFINE c == [thread |-> op.thread, record |-> op.next]
<1>2. Underway = {c} /\ Underway' = {} /\ Damaged' = Damaged
  BY <1>1 DEF Underway, Damaged
<1>3. Readable = records /\ Readable' = records'
  BY <1>1 DEF Readable, TypeOK
<1>4. Readable' = [Readable EXCEPT ![c.thread] = c.record]
  BY <1>1, <1>3
<1> HIDE DEF c
<1> QED
  BY <1>1, <1>2, <1>4 DEF Map!Commit, Damaged

LEMMA FailureFails ==
  ASSUME TypeOK,
         WriteFileFails \/ RestoreFile \/ \E kind \in FileKinds : RemoveFileFails(kind)
  PROVE  Map!Fail
<1>1. /\ up /\ op # Idle /\ op' = Idle /\ UNCHANGED <<up, records, fresh>>
      /\ torn' \in {torn, torn \cup {op.thread}}
  BY DEF WriteFileFails, RestoreFile, RemoveFileFails, At
<1> DEFINE c == [thread |-> op.thread, record |-> op.next]
<1>2. Underway = {c} /\ Underway' = {} /\ Readable' = Readable
  BY <1>1 DEF Underway, Readable
<1>3. c.thread = op.thread
  OBVIOUS
<1>4. Damaged' \in {Damaged, Damaged \cup {c.thread}}
  BY <1>1, <1>3 DEF Damaged
<1> HIDE DEF c
<1> QED
  BY <1>1, <1>2, <1>4 DEF Map!Fail, Damaged

(* initialize() reads what was there.                                      *)
LEMMA InitializeIsQuiet ==
  ASSUME StoreInv, Initialize
  PROVE  UNCHANGED MapVars
<1>1. ~up /\ up' /\ op = Idle /\ op' = Idle /\ torn' = {} /\ fresh' = fresh
  BY DEF Initialize, StoreInv, QueueOK
<1>2. records' = [t \in Threads |-> Loaded(t)]
  BY DEF Initialize
<1>3. Readable' = Readable
  BY <1>1, <1>2 DEF Readable
<1> QED
  BY <1>1, <1>3 DEF MapVars, Underway, Damaged

(* What a crash leaves of an operation between its two files.              *)
LEMMA HalfWrittenRevision ==
  ASSUME TypeOK, QueueOK, DiskInv, up, NEW t \in Threads \ torn,
         InPhase(t, {"meta", "restore"})
  PROVE  /\ records[t] # NoRecord /\ op.next # NoRecord
         /\ Loaded(t) = Map!Survives([records[t] EXCEPT !.revision = op.next.revision])
<1> DEFINE r == records[t]
           next == op.next
           half == [r EXCEPT !.revision = next.revision]
<1>1. /\ op \in Operations /\ op # Idle /\ op.thread = t
      /\ op.phase \in {"meta", "restore"} /\ next \in Records /\ next # NoRecord
  BY DEF InPhase, TypeOK, Operations
<1>2. r \in Records /\ Exists(r)
  BY <1>1 DEF TypeOK, QueueOK, Exists
<1>3. next = [r EXCEPT !.project = next.project, !.revision = next.revision]
  BY <1>1, <1>2 DEF DiskInv, NextOK
<1>4. files[t] = Core(next) /\ metaFiles[t] = r.project
  BY DEF DiskInv, OnDisk
<1>5. half \in Records /\ half.session = r.session /\ next.session = r.session
  BY <1>1, <1>2, <1>3 DEF Records
<1>6. Core(next) # NoRecord /\ Core(next).session = next.session
  BY <1>1, CoreFields
<1>7. [Core(next) EXCEPT !.project = r.project] = half
  BY <1>1, <1>2, <1>3 DEF Core, Records
<1> HIDE DEF r, next, half
<1>8. half # NoRecord
  BY <1>5
<1>9. Loaded(t) = Map!Survives(half)
  BY <1>4, <1>5, <1>6, <1>7, <1>8 DEF Loaded, Map!Survives
<1> QED
  BY <1>1, <1>2, <1>9 DEF Exists, half, r, next

(* The record of a Thread that no failed write damaged.                    *)
LEMMA CrashLeaves ==
  ASSUME StoreInv, up, NEW t \in Threads \ torn
  PROVE  Loaded(t) \in Map!Left(t)
<1> USE DEF StoreInv
<1>1. Readable[t] = records[t] /\ records[t] \in Records \cup {NoRecord} /\ OnDisk(t)
  BY DEF Readable, TypeOK, DiskInv
<1> DEFINE c == [thread |-> op.thread, record |-> op.next]
<1>2. op # Idle /\ op.thread = t => c \in Map!ChangesOf(t) /\ c.record = op.next
  BY DEF Map!ChangesOf, Underway
<1> HIDE DEF c
<1>3. CASE InPhase(t, {"meta", "restore"})
  <2>1. /\ op # Idle /\ op.thread = t
        /\ records[t] # NoRecord /\ op.next # NoRecord
        /\ Loaded(t) = Map!Survives([records[t] EXCEPT !.revision = op.next.revision])
    BY <1>3, HalfWrittenRevision DEF InPhase
  <2>2. c \in {d \in Map!ChangesOf(t) : NoRecord \notin {Readable[t], d.record}}
    BY <1>1, <1>2, <2>1
  <2>3. Loaded(t) = Map!Survives([Readable[t] EXCEPT !.revision = c.record.revision])
    BY <1>1, <1>2, <2>1
  <2> QED  BY <2>2, <2>3 DEF Map!Left
<1>4. CASE InPhase(t, {"apply"})
  <2>1. op # Idle /\ op.thread = t /\ op.next \in Records \cup {NoRecord}
    BY <1>4 DEF InPhase, TypeOK, Operations
  <2>2. Loaded(t) = Survives(op.next)
    BY <1>1, <1>4, <2>1, StoredLoads DEF OnDisk, Committed, InPhase
  <2>3. Loaded(t) = Map!Survives(c.record)
    BY <1>2, <2>1, <2>2 DEF Survives, Map!Survives, Exists
  <2> QED  BY <1>2, <2>1, <2>3 DEF Map!Left
<1>5. CASE InPhase(t, {"remove"})
  <2>1. /\ op # Idle /\ op.thread = t /\ op.next = NoRecord
        /\ records[t] \in Records /\ records[t] # NoRecord
    BY <1>5, HalfRemovedLoads DEF InPhase, Exists
  <2>2. CASE Loaded(t) = NoRecord
    <3>1. Loaded(t) = Map!Survives(c.record)
      BY <1>2, <2>1, <2>2 DEF Map!Survives
    <3> QED  BY <1>2, <2>1, <3>1 DEF Map!Left
  <2>3. CASE Loaded(t) = records[t] /\ records[t].session # NoSession
    BY <1>1, <2>3 DEF Map!Left, Map!Survives
  <2>4. CASE Loaded(t) = [records[t] EXCEPT !.project = NoProject]
             /\ records[t].session # NoSession
    <3>1. [records[t] EXCEPT !.project = NoProject].session = records[t].session
      BY <2>1 DEF Records
    <3>2. Loaded(t) = Map!Survives([Readable[t] EXCEPT !.project = NoProject])
      BY <1>1, <2>4, <3>1 DEF Map!Survives
    <3>3. c \in {d \in Map!ChangesOf(t) : Readable[t] # NoRecord /\ d.record = NoRecord}
      BY <1>1, <1>2, <2>1
    <3> QED  BY <3>2, <3>3 DEF Map!Left
  <2> QED  BY <1>5, <2>2, <2>3, <2>4, HalfRemovedLoads
<1>6. CASE ~InPhase(t, {"meta", "restore"}) /\ ~InPhase(t, {"apply"})
           /\ ~InPhase(t, {"remove"})
  <2>1. Loaded(t) = Survives(records[t])
    BY <1>1, <1>6, StoredLoads DEF OnDisk, Committed
  <2>2. Loaded(t) = Map!Survives(Readable[t])
    BY <1>1, <2>1 DEF Survives, Map!Survives, Exists
  <2> QED  BY <2>2 DEF Map!Left
<1> QED
  BY <1>3, <1>4, <1>5, <1>6

(* The record of any Thread.                                               *)
LEMMA CrashKeepsIdentity ==
  ASSUME StoreInv, up, NEW t \in Threads
  PROVE  Map!Recognizable(Loaded(t), t)
<1> USE DEF StoreInv
<1> SUFFICES ASSUME Loaded(t) # NoRecord
             PROVE  \E s \in {Readable[t]} \cup {c.record : c \in Map!ChangesOf(t)} :
                      s # NoRecord /\ SameIdentity(Loaded(t), s)
  BY DEF Map!Recognizable, SameIdentity
<1>1. Exists(Committed(t)) /\ SameIdentity(Loaded(t), Committed(t))
  <2>1. files[t] # NoRecord /\ SameIdentity(Loaded(t), files[t])
    BY LoadedFields DEF Exists
  <2> QED  BY <2>1, SameIsTransitive DEF DiskInv, Backed
<1>2. Committed(t) \in {Readable[t]} \cup {c.record : c \in Map!ChangesOf(t)}
  <2>1. CASE InPhase(t, {"apply"})
    <3> DEFINE c == [thread |-> op.thread, record |-> op.next]
    <3>1. c \in Map!ChangesOf(t) /\ c.record = op.next
      BY <2>1 DEF Map!ChangesOf, Underway, InPhase
    <3>2. Committed(t) = op.next
      BY <2>1 DEF Committed
    <3> HIDE DEF c
    <3> QED  BY <3>1, <3>2
  <2>2. CASE ~InPhase(t, {"apply"})
    BY <2>2 DEF Committed, Readable
  <2> QED  BY <2>1, <2>2
<1> QED
  BY <1>1, <1>2 DEF Exists

LEMMA CrashCrashes ==
  ASSUME StoreInv, Crash
  PROVE  Map!Crash
<1>1. /\ up /\ ~up' /\ op' = Idle /\ UNCHANGED <<files, metaFiles, fresh, torn>>
  BY DEF Crash
<1>2. \A t \in Threads : Readable'[t] = Loaded(t)
  BY <1>1 DEF Readable, Loaded
<1>3. Readable' \in [Threads -> Records \cup {NoRecord}]
  <2>1. \A t \in Threads : Loaded(t) \in Records \cup {NoRecord}
    BY LoadedType DEF StoreInv
  <2> QED  BY <1>1, <2>1 DEF Readable, Loaded
<1>4. Underway' = {} /\ Damaged' = {} /\ Damaged = torn
  BY <1>1 DEF Underway, Damaged
<1>5. ASSUME NEW t \in Threads
      PROVE  IF t \in Damaged THEN Map!Recognizable(Readable'[t], t)
                              ELSE Readable'[t] \in Map!Left(t)
  BY <1>1, <1>2, <1>4, CrashLeaves, CrashKeepsIdentity
<1> QED
  BY <1>1, <1>3, <1>4, <1>5 DEF Map!Crash, Damaged

LEMMA InitIsEmptyMap == Init => Map!Init
BY DEF Init, Map!Init, Readable, Underway

LEMMA StepOfTheMap == StoreInv /\ [Next]_vars => [Map!Next]_MapVars
<1> SUFFICES ASSUME StoreInv, [Next]_vars PROVE [Map!Next]_MapVars
  OBVIOUS
<1> TypeOK
  BY DEF StoreInv
<1>1. CASE UNCHANGED vars
  BY <1>1 DEF vars, MapVars, Readable, Underway, Damaged, Loaded
<1>2. CASE StartsCreation \/ StartsChange \/ StartsReplacement \/ StartsRemoval
  BY <1>2, StartsBegin DEF Map!Next
<1>3. CASE ClientStep
  <2>1. UNCHANGED <<up, records, files, metaFiles, op, fresh, torn>>
    BY <1>3 DEF ClientStep, Prepare, AbandonReplacement
  <2> QED  BY <2>1 DEF MapVars, Readable, Underway, Damaged, Loaded
<1>4. CASE WriteFile \/ WriteMeta \/ WriteMetaFails \/ FilesRemoved
  <2>1. /\ up /\ op \in Operations /\ UNCHANGED <<up, records, torn, fresh>>
    BY <1>4, OperationKinds DEF QueueStep, WriteFile, WriteMeta, WriteMetaFails, FilesRemoved
  <2>2. \E ph : op' = [op EXCEPT !.phase = ph] /\ op' # Idle
    <3>1. PICK ph \in {"meta", "restore", "apply"} :
                 /\ op' = [op EXCEPT !.phase = ph]
                 /\ op.phase = "remove" => ph = "apply"
      BY <1>4, <2>1 DEF WriteFile, WriteMeta, WriteMetaFails, FilesRemoved, At
    <3>2. op.phase \in {"write", "meta"} \/ op.phase = "remove"
      BY <1>4 DEF WriteFile, WriteMeta, WriteMetaFails, FilesRemoved, At
    <3>3. op.phase = "remove" => op.next = NoRecord
      BY <1>4, OperationKinds DEF QueueStep
    <3> QED  BY <2>1, <3>1, <3>2, <3>3, OtherPhase
  <2> QED  BY <2>1, <2>2, QuietForTheMap
<1>5. CASE WriteFileFails \/ RestoreFile \/ \E kind \in FileKinds : RemoveFileFails(kind)
  BY <1>5, FailureFails DEF Map!Next
<1>6. CASE Apply
  BY <1>6, ApplyCommits DEF Map!Next
<1>7. CASE Crash
  BY <1>7, CrashCrashes DEF Map!Next
<1>8. CASE Initialize
  BY <1>8, InitializeIsQuiet
<1>9. CASE LateStep \/ \E kind \in FileKinds : RemoveFile(kind)
  <2>1. up /\ op' = op /\ UNCHANGED <<up, records, torn, fresh>>
    BY <1>9, LateResult DEF RemoveFile, At
  <2> QED  BY <2>1, QuietForTheMap
<1> QED
  BY <1>1, <1>2, <1>3, <1>4, <1>5, <1>6, <1>7, <1>8, <1>9, StepKinds DEF QueueStep

(* To its readers the Mapping Store is a map of Threads to records that    *)
(* changes one record at a time, whole, to the next revision, and that a   *)
(* crash at any point, and initialize() after it, take nothing from.       *)
THEOREM StoreIsDurableMap == Spec => IsDurableMap
BY InitIsEmptyMap, StepOfTheMap, InitStoreInv, NextStoreInv, PTL
DEF Spec, IsDurableMap, Map!Spec, MapVars, Damaged, Map!mapVars
=============================================================================
