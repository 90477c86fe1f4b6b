------------------------------ MODULE StoreLock ------------------------------
(***************************************************************************)
(* The exclusive process lock of the Mapping Store: the file store.lock    *)
(* that MappingStore.initialize() takes (#acquireLock) and                 *)
(* MappingStore.close() gives back, in                                     *)
(* src/packages/mapping-store/src/mapping-store.ts.                        *)
(*                                                                         *)
(* Every instance is one Host process with one MappingStore.  The kernel   *)
(* makes each file operation atomic, and nothing more: between any two of  *)
(* them another instance may run, and any instance may die.  File          *)
(* operations fail too, except that a lock file that exists can be read.   *)
(***************************************************************************)
EXTENDS Naturals

CONSTANTS
  Instances,    \* the Host processes that open the store
  NoLock,       \* store.lock does not exist
  Unknown,      \* the lock names no process (missing, empty or not JSON)
  Overlap       \* TRUE: acquisitions of two instances may overlap in time

ASSUME StoreLockAssumption ==
  /\ NoLock \notin [creator : Instances, content : {"empty", "record"}]
  /\ Unknown \notin Instances
  /\ Overlap \in BOOLEAN

VARIABLES
  lock,    \* the file at the lock path, by the instance that created it
  seen,    \* the owner each instance read from the file
  alive,   \* the instances whose process is running
  pc,      \* where in initialize() or close() each instance is
  hindered \* instances of which a file operation failed (history)

lockVars == <<lock, seen, alive, pc, hindered>>

Files == [creator : Instances, content : {"empty", "record"}]

PCs == {"idle", "create", "write", "read", "judge", "rename", "recreate",
        "rewrite", "loading", "open", "closing", "unlinking", "closed",
        "refused", "failed", "dead"}

(* The instance is somewhere inside #acquireLock.                          *)
Acquiring(p) ==
  pc[p] \in {"create", "write", "read", "judge", "rename", "recreate", "rewrite"}

(* The instance believes that it owns the store, and uses its files.       *)
Holding(p) == pc[p] \in {"loading", "open"}

(* A lock file exists at start only if a dead process left it, with or     *)
(* without the content of its record.                                      *)
LockInit ==
  /\ alive \in SUBSET Instances
  /\ pc = [p \in Instances |-> IF p \in alive THEN "idle" ELSE "dead"]
  /\ seen = [p \in Instances |-> Unknown]
  /\ hindered = {}
  /\ \/ lock = NoLock
     \/ /\ lock \in Files
        /\ lock.creator \notin alive

Goto(p, label) == pc' = [pc EXCEPT ![p] = label]

-----------------------------------------------------------------------------
(* initialize(): the lock is taken first.                                  *)
Start(p) ==
  /\ pc[p] = "idle"
  /\ Overlap \/ \A q \in Instances : ~Acquiring(q)
  /\ Goto(p, "create")
  /\ UNCHANGED <<lock, seen, alive, hindered>>

(* The first attempt(): open(lockPath, "wx"), which fails if the file      *)
(* exists, whatever is in it.                                              *)
Create(p) ==
  /\ pc[p] = "create"
  /\ IF lock = NoLock
     THEN lock' = [creator |-> p, content |-> "empty"] /\ Goto(p, "write")
     ELSE Goto(p, "read") /\ UNCHANGED lock
  /\ UNCHANGED <<seen, alive, hindered>>

(* handle.writeFile and sync: the record goes to the file this instance    *)
(* created, even if that file was renamed aside in between.                *)
Record(p) ==
  IF lock = [creator |-> p, content |-> "empty"]
  THEN [lock EXCEPT !.content = "record"] ELSE lock

WriteLock(p) ==
  /\ pc[p] \in {"write", "rewrite"}
  /\ lock' = Record(p)
  /\ Goto(p, "loading")
  /\ UNCHANGED <<seen, alive, hindered>>

(* An attempt fails at its open, its write or its sync, and the file stays *)
(* as it is by then.  The error of the first attempt is thrown, that of    *)
(* the second becomes STORE_LOCKED.                                        *)
AttemptFails(p) ==
  /\ \/ pc[p] \in {"create", "write"} /\ Goto(p, "failed")
     \/ pc[p] \in {"recreate", "rewrite"} /\ Goto(p, "refused")
  /\ lock' \in IF pc[p] \in {"write", "rewrite"} THEN {lock, Record(p)} ELSE {lock}
  /\ hindered' = hindered \cup {p}
  /\ UNCHANGED <<seen, alive>>

(* readFile and JSON.parse; every failure reads as an empty record.        *)
ReadLock(p) ==
  /\ pc[p] = "read"
  /\ seen' = [seen EXCEPT ![p] = IF lock = NoLock THEN Unknown
                                 ELSE IF lock.content = "record" THEN lock.creator
                                 ELSE Unknown]
  /\ Goto(p, "judge")
  /\ UNCHANGED <<lock, alive, hindered>>

(* Mutations: every readable lock taken for stale, or for live.            *)
NeverLive(owner) == FALSE
AlwaysLive(owner) == owner # Unknown

(* lockOwnerIsLive: a live owner means STORE_LOCKED, an owner that cannot  *)
(* be proven live means that the lock is stale.                            *)
OwnerIsLive(owner) == owner \in alive

Judge(p) ==
  /\ pc[p] = "judge"
  /\ Goto(p, IF OwnerIsLive(seen[p]) THEN "refused" ELSE "rename")
  /\ UNCHANGED <<lock, seen, alive, hindered>>

(* rename(lockPath, stale): moves aside what is at the path now, which     *)
(* need not be the file that was read; a missing file is ignored.          *)
RenameAside(p) ==
  /\ pc[p] = "rename"
  /\ lock' = NoLock
  /\ Goto(p, "recreate")
  /\ UNCHANGED <<seen, alive, hindered>>

(* The error of the rename is swallowed.                                   *)
RenameFails(p) ==
  /\ pc[p] = "rename"
  /\ hindered' = hindered \cup {p}
  /\ Goto(p, "recreate")
  /\ UNCHANGED <<lock, seen, alive>>

(* The second and last attempt().                                          *)
Recreate(p) ==
  /\ pc[p] = "recreate"
  /\ IF lock = NoLock
     THEN lock' = [creator |-> p, content |-> "empty"] /\ Goto(p, "rewrite")
     ELSE Goto(p, "refused") /\ UNCHANGED lock
  /\ UNCHANGED <<seen, alive, hindered>>

(* The rest of initialize(): load the files and rebuild the indexes, or    *)
(* close() and throw.                                                      *)
Load(p) ==
  /\ pc[p] = "loading"
  /\ \/ Goto(p, "open")
     \/ Goto(p, "closing")
  /\ UNCHANGED <<lock, seen, alive, hindered>>

-----------------------------------------------------------------------------
(* close(): #initialized is false before the lock is looked at.            *)
Close(p) ==
  /\ pc[p] = "open"
  /\ Goto(p, "closing")
  /\ UNCHANGED <<lock, seen, alive, hindered>>

(* The file is removed only if the record in it is this instance's own.    *)
CloseRead(p) ==
  /\ pc[p] = "closing"
  /\ Goto(p, IF lock = [creator |-> p, content |-> "record"]
             THEN "unlinking" ELSE "closed")
  /\ UNCHANGED <<lock, seen, alive, hindered>>

CloseUnlink(p) ==
  /\ pc[p] = "unlinking"
  /\ lock' = NoLock
  /\ Goto(p, "closed")
  /\ UNCHANGED <<seen, alive, hindered>>

(* The read or the rm fails, which is swallowed.                           *)
CloseFails(p) ==
  /\ pc[p] \in {"closing", "unlinking"}
  /\ hindered' = hindered \cup {p}
  /\ Goto(p, "closed")
  /\ UNCHANGED <<lock, seen, alive>>

(* The process dies anywhere, and leaves the file as it is.                *)
Die(p) ==
  /\ p \in alive
  /\ alive' = alive \ {p}
  /\ Goto(p, "dead")
  /\ UNCHANGED <<lock, seen, hindered>>

LockNext ==
  \E p \in Instances :
    \/ Start(p) \/ Create(p) \/ WriteLock(p) \/ AttemptFails(p)
    \/ ReadLock(p) \/ Judge(p) \/ RenameAside(p) \/ RenameFails(p)
    \/ Recreate(p) \/ Load(p)
    \/ Close(p) \/ CloseRead(p) \/ CloseUnlink(p) \/ CloseFails(p) \/ Die(p)

LockSpec == LockInit /\ [][LockNext]_lockVars

-----------------------------------------------------------------------------
LockTypeOK ==
  /\ lock \in Files \cup {NoLock}
  /\ seen \in [Instances -> Instances \cup {Unknown}]
  /\ alive \subseteq Instances
  /\ pc \in [Instances -> PCs]
  /\ hindered \subseteq Instances

(* At most one live process uses the files of the store: the "one          *)
(* exclusive process lock" of the store's specification.                   *)
MutualExclusion ==
  \A p, q \in Instances : Holding(p) /\ Holding(q) => p = q

(* While an instance owns the store, nobody (not a contender that judged   *)
(* the lock earlier, not an instance that is closing) takes its lock file  *)
(* away or puts another in its place.                                      *)
HolderKeepsLock ==
  [][\A p \in Instances : Holding(p) /\ Holding(p)' => lock' = lock]_lockVars

(* An instance is turned away with STORE_LOCKED only while another process *)
(* lives, or because a file operation of its own failed (#acquireLock maps *)
(* every failure of the second attempt to it): a lock that a crash or an   *)
(* earlier failure left behind, whatever was written to it, never locks    *)
(* the store for good.                                                     *)
RefusedOnlyByLiveInstance ==
  [][\A p \in Instances \ hindered' :
       pc[p] # "refused" /\ pc'[p] = "refused"
         => \E q \in Instances \ {p} : q \in alive /\ pc[q] # "idle"]_lockVars

(* A store that was closed in order leaves no lock of its own behind for   *)
(* the next start to judge.                                                *)
OrderlyCloseFreesLock ==
  \A p \in Instances \ hindered :
    pc[p] = "closed" => (lock = NoLock \/ lock.creator # p)

=============================================================================
