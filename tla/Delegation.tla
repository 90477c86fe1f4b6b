----------------------------- MODULE Delegation -----------------------------
(***************************************************************************)
(* Starting a delegated child Thread:                                      *)
(* HarnessDelegationCoordinator.start() of                                 *)
(* src/packages/host-runtime/src/harness-delegation-coordinator.ts over    *)
(* the Delegation relations of the Mapping Store.                          *)
(*                                                                         *)
(* Thread records change in the write queue of the store and are atomic    *)
(* here (MappingStore says what one such change consists of).  Delegation  *)
(* relations do NOT go through that queue: their checks, their file and    *)
(* their place in memory are separate steps, and any number of starts run  *)
(* at once.                                                                *)
(*                                                                         *)
(* A caller stands for one call of start().  Its child Thread ID, its      *)
(* Delegation ID and the native session it opens are UUIDs of its own and  *)
(* are named by the caller.                                                *)
(***************************************************************************)
EXTENDS Naturals, Sequences, SequencesExt

CONSTANTS
  Callers,     \* calls of start()
  Keys,        \* what makes two calls the same: Request ID or task digest
  KeyOf,       \* the key of each call
  Explicit,    \* the calls that supply a Request ID
  Overlap,     \* TRUE: two calls with one key may run at the same time
  Faults,      \* TRUE: the process may die, and a removal or a close may fail
  None

ASSUME DelegationAssumption ==
  /\ KeyOf \in [Callers -> Keys]
  /\ Explicit \subseteq Callers
  /\ Overlap \in BOOLEAN /\ Faults \in BOOLEAN
  /\ None \notin Callers

VARIABLES
  store,      \* the Mapping Store: open, closed (no process), or unusable
  children,   \* the child Threads with a record, oldest first; their files
              \* change with memory
  ready,      \* the child Threads whose record is ready
  relations,  \* #delegations, oldest first
  files,      \* the Delegation files
  sessions,   \* the native sessions that are open
  pc,         \* where in start() each call is
  owner,      \* the Thread record a call works on, or the Delegation found
  leaked,     \* calls that died or whose removal failed (a history variable)
  unclosed    \* open sessions whose close has failed (a history variable)

vars ==
  <<store, children, ready, relations, files, sessions, pc, owner, leaked, unclosed>>

InFlight == {"provisional", "check", "write", "apply", "open", "commit",
             "publish", "cleanup", "forget", "remove"}
PCs == InFlight \cup {"idle", "done", "existing", "failed", "lost"}

(* Both calls supplied the same Request ID.                                *)
SameRequest(c, d) == c \in Explicit /\ d \in Explicit /\ KeyOf[c] = KeyOf[d]

(* Two calls that the Host is to treat as one.                             *)
SameKey(c, d) ==
  KeyOf[c] = KeyOf[d] /\ (c \in Explicit <=> d \in Explicit)

HasRelation(c) == Contains(relations, c)
HasChild(c) == Contains(children, c)

Init ==
  /\ store = "open"
  /\ children = <<>>
  /\ ready = {}
  /\ relations = <<>>
  /\ files = {}
  /\ sessions = {}
  /\ pc = [c \in Callers |-> "idle"]
  /\ owner = [c \in Callers |-> None]
  /\ leaked = {}
  /\ unclosed = {}

At(c, label) == store = "open" /\ pc[c] = label
Goto(c, label) == pc' = [pc EXCEPT ![c] = label]

-----------------------------------------------------------------------------
(* The indexes of the store.  #rebuildIndexes clears them, indexes the     *)
(* relations and then the records, and throws at the first duplicate:      *)
(* what comes after it stays out of the indexes.                           *)

Duplicate(calls, i) == \E j \in 1 .. i - 1 : SameRequest(calls[j], calls[i])

HasDuplicate(calls) == \E i \in DOMAIN calls : Duplicate(calls, i)

(* The calls with the Request ID of c that come before any duplicate.      *)
Indexed(calls, c) ==
  {calls[i] : i \in {k \in DOMAIN calls :
     SameRequest(c, calls[k]) /\ \A j \in 1 .. k : ~Duplicate(calls, j)}}

RebuildThrows(rs, cs) == HasDuplicate(rs) \/ HasDuplicate(cs)

(* Mutation: the relations are not indexed by Request ID.                  *)
NotIndexed(c) == {}

(* #delegationRequests.get(requestId).                                     *)
IndexedRelations(c) == Indexed(relations, c)

(* #createRequests.get(`delegation:...`): empty while a duplicate relation *)
(* stops every rebuild before the records.                                 *)
IndexedChildren(c) ==
  IF HasDuplicate(relations) THEN {} ELSE Indexed(children, c)

(* findRecentDelegation scans the relations, not an index; the window of   *)
(* the implicit deduplication is taken not to have passed.                 *)
RecentRelations(c) == {d \in Callers : SameKey(c, d) /\ HasRelation(d)}

-----------------------------------------------------------------------------
(* Mutation: a retry is not recognised.                                    *)
NothingFound(c) == {}

(* The relation that makes this call a repetition.                         *)
FoundRelations(c) ==
  IF c \in Explicit THEN IndexedRelations(c) ELSE RecentRelations(c)

(* start() looks for an earlier call with its key, and returns its child.  *)
Lookup(c) ==
  /\ At(c, "idle")
  /\ Overlap \/ \A d \in Callers : SameKey(c, d) => pc[d] \notin InFlight
  /\ \/ \E d \in FoundRelations(c) :
          /\ owner' = [owner EXCEPT ![c] = d]
          /\ Goto(c, "existing")
     \/ /\ FoundRelations(c) = {}
        /\ Goto(c, "provisional")
        /\ UNCHANGED owner
  /\ UNCHANGED <<store, children, ready, relations, files, sessions, leaked, unclosed>>

(* createProvisional: a known create request resolves to its record, which *)
(* belongs to another call then.  If the rebuild throws, start() ends      *)
(* outside its try block and leaves the new record.                        *)
CreateProvisional(c) ==
  /\ At(c, "provisional")
  /\ \/ \E d \in IndexedChildren(c) :
          /\ owner' = [owner EXCEPT ![c] = d]
          /\ Goto(c, "check")
          /\ UNCHANGED children
     \/ /\ IndexedChildren(c) = {}
        /\ owner' = [owner EXCEPT ![c] = c]
        /\ children' = Append(children, c)
        /\ Goto(c, IF RebuildThrows(relations, children') THEN "failed"
                   ELSE "check")
  /\ UNCHANGED <<store, ready, relations, files, sessions, leaked, unclosed>>

(* createDelegation up to its first await.                                 *)
CheckRelation(c) ==
  /\ At(c, "check")
  /\ Goto(c, IF c \in Explicit /\ IndexedRelations(c) # {} THEN "remove"
             ELSE "write")
  /\ UNCHANGED <<store, children, ready, relations, files, sessions, owner, leaked, unclosed>>

(* #replaceDelegationFile.                                                 *)
WriteRelation(c) ==
  /\ At(c, "write")
  /\ \/ files' = files \cup {c} /\ Goto(c, "apply")
     \/ Goto(c, "remove") /\ UNCHANGED files
  /\ UNCHANGED <<store, children, ready, relations, sessions, owner, leaked, unclosed>>

(* Memory and the indexes.  If the rebuild throws, createDelegation does   *)
(* not return, and start() does not know of the relation it has stored.    *)
ApplyRelation(c) ==
  /\ At(c, "apply")
  /\ relations' = Append(relations, c)
  /\ Goto(c, IF RebuildThrows(relations', children) THEN "remove" ELSE "open")
  /\ UNCHANGED <<store, children, ready, files, sessions, owner, leaked, unclosed>>

(* adapter.open.                                                           *)
OpenSession(c) ==
  /\ At(c, "open")
  /\ \/ sessions' = sessions \cup {c} /\ Goto(c, "commit")
     \/ Goto(c, "cleanup") /\ UNCHANGED sessions
  /\ UNCHANGED <<store, children, ready, relations, files, owner, leaked, unclosed>>

(* commitNative on the record createProvisional returned, at once or when  *)
(* the first Turn reveals the session; the wait may time out.  The record  *)
(* is stored even if the rebuild throws after it.                          *)
CommitNative(c) ==
  /\ At(c, "commit")
  /\ \/ /\ HasChild(owner[c])
        /\ IndexedChildren(owner[c]) \subseteq {owner[c]}
        /\ ready' = ready \cup {owner[c]}
        /\ Goto(c, IF RebuildThrows(relations, children) THEN "cleanup"
                   ELSE "publish")
     \/ Goto(c, "cleanup") /\ UNCHANGED ready
  /\ UNCHANGED <<store, children, relations, files, sessions, owner, leaked, unclosed>>

(* The first Turn is delivered, setDelegationStatus(running) rewrites the  *)
(* file, and Desktop is notified; any of them may fail.                    *)
Publish(c) ==
  /\ At(c, "publish")
  /\ \/ /\ HasRelation(c)
        /\ files' = files \cup {c}
        /\ Goto(c, IF RebuildThrows(relations, children) THEN "cleanup" ELSE "done")
     \/ Goto(c, "cleanup") /\ UNCHANGED files
  /\ UNCHANGED <<store, children, ready, relations, sessions, owner, leaked, unclosed>>

-----------------------------------------------------------------------------
(* Mutation: the session stays open.                                       *)
CleanupLeavesSession(c) ==
  /\ At(c, "cleanup")
  /\ files' = files \ {c}
  /\ Goto(c, "forget")
  /\ UNCHANGED <<store, children, ready, relations, sessions, owner, leaked, unclosed>>

(* The catch block once createDelegation has returned: the session closes, *)
(* and removeDelegation takes the file first.  The errors of both are      *)
(* swallowed: a session that did not close stays open.                     *)
Cleanup(c) ==
  /\ At(c, "cleanup")
  /\ \/ sessions' = sessions \ {c} /\ UNCHANGED unclosed
     \/ /\ Faults /\ c \in sessions
        /\ unclosed' = unclosed \cup {c}
        /\ UNCHANGED sessions
  /\ \/ files' = files \ {c} /\ Goto(c, "forget") /\ UNCHANGED leaked
     \/ Faults /\ Goto(c, "remove") /\ leaked' = leaked \cup {c} /\ UNCHANGED files
  /\ UNCHANGED <<store, children, ready, relations, owner>>

(* Map.delete: an ID is in the sequence at most once.                      *)
Without(s, c) ==
  LET at == {i \in DOMAIN s : s[i] = c}
  IN  IF at = {} THEN s ELSE RemoveAt(s, CHOOSE i \in at : TRUE)

(* Mutation: the relation stays in memory.                                 *)
ForgetNothing(c) ==
  /\ At(c, "forget")
  /\ Goto(c, "remove")
  /\ UNCHANGED <<store, children, ready, relations, files, sessions, owner, leaked, unclosed>>

(* The memory of removeDelegation; its rebuild may throw, too late to      *)
(* matter.                                                                 *)
Forget(c) ==
  /\ At(c, "forget")
  /\ relations' = Without(relations, c)
  /\ Goto(c, "remove")
  /\ UNCHANGED <<store, children, ready, files, sessions, owner, leaked, unclosed>>

(* removeThread of this call's own child Thread ID, errors swallowed.      *)
RemoveChild(c) ==
  /\ At(c, "remove")
  /\ \/ /\ children' = Without(children, c)
        /\ ready' = ready \ {c}
        /\ UNCHANGED leaked
     \/ /\ Faults
        /\ leaked' = leaked \cup {c}
        /\ UNCHANGED <<children, ready>>
  /\ Goto(c, "failed")
  /\ UNCHANGED <<store, relations, files, sessions, owner, unclosed>>

-----------------------------------------------------------------------------
(* The process dies, and every call in flight with it.                     *)
Crash ==
  /\ Faults
  /\ store = "open"
  /\ store' = "closed"
  /\ sessions' = {} /\ unclosed' = {}
  /\ leaked' = leaked \cup {c \in Callers : pc[c] \in InFlight}
  /\ pc' = [c \in Callers |-> IF pc[c] \in InFlight THEN "lost" ELSE pc[c]]
  /\ UNCHANGED <<children, ready, relations, files, owner>>

(* initialize(): the files are read in the order readdir lists them, the   *)
(* records still creating are dropped, and a duplicate makes it throw, at  *)
(* every start.                                                            *)
Initialize ==
  /\ store = "closed"
  /\ children' \in SetToSeqs(ToSet(children) \cap ready)
  /\ relations' \in SetToSeqs(files)
  /\ store' = IF RebuildThrows(relations', children') THEN "unusable" ELSE "open"
  /\ UNCHANGED <<ready, files, sessions, pc, owner, leaked, unclosed>>

Next ==
  \/ \E c \in Callers :
       \/ Lookup(c) \/ CreateProvisional(c) \/ CheckRelation(c)
       \/ WriteRelation(c) \/ ApplyRelation(c) \/ OpenSession(c)
       \/ CommitNative(c) \/ Publish(c)
       \/ Cleanup(c) \/ Forget(c) \/ RemoveChild(c)
  \/ Crash
  \/ Initialize

Spec == Init /\ [][Next]_vars

-----------------------------------------------------------------------------
TypeOK ==
  /\ store \in {"open", "closed", "unusable"}
  /\ children \in Seq(Callers) /\ relations \in Seq(Callers)
  /\ ready \subseteq Callers /\ files \subseteq Callers
  /\ sessions \subseteq Callers /\ leaked \subseteq Callers
  /\ unclosed \subseteq sessions
  /\ pc \in [Callers -> PCs]
  /\ owner \in [Callers -> Callers \cup {None}]

(* Whatever start() leaves on disk when the process dies, the store opens  *)
(* again: initialize() meets no duplicate Request ID.                      *)
StoreReopens == store # "unusable"

(* Repeating a delegation, with a Request ID or within the window of the   *)
(* implicit deduplication, never creates a second child.                   *)
OneChildPerKey ==
  \A c, d \in Callers :
    SameKey(c, d) /\ pc[c] = "done" /\ pc[d] = "done" => c = d

(* A start that failed in order leaves neither a relation nor a record     *)
(* behind, and whoever repeats it gets a fresh start; nor does it leave a  *)
(* session open, but for one that did not let itself be closed.            *)
FailedStartLeavesNothing ==
  \A c \in Callers :
    pc[c] = "failed" /\ c \notin leaked /\ store = "open"
      => /\ ~HasRelation(c) /\ c \notin files /\ ~HasChild(c)
         /\ c \in sessions => c \in unclosed

(* The child Thread that start() returns, new or of the earlier call it    *)
(* repeats, exists and is ready.                                           *)
SuccessHasChild ==
  \A c \in Callers :
    /\ pc[c] = "done" => HasChild(c) /\ c \in ready
    /\ pc[c] = "existing" => HasChild(owner[c]) /\ owner[c] \in ready

(* The same, as long as no process died in the middle of a start and no    *)
(* removal failed; a start that failed otherwise, or a process that died   *)
(* between two starts, does not mislead whoever repeats it.                *)
UndisturbedSuccessHasChild == leaked = {} => SuccessHasChild
=============================================================================
