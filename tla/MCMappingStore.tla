--------------------------- MODULE MCMappingStore ---------------------------
(* MappingStore for TLC.  Identities of one kind are interchangeable.  One  *)
(* run asks both questions of the store: a state is explored if it lies     *)
(* deep (few identities, any history) or wide (all identities, shallow      *)
(* records), so that the sum of the two is searched and not their product.  *)
EXTENDS MappingStore, TLC, FiniteSets

Symmetry ==
  Permutations(Threads) \cup Permutations(Requests) \cup Permutations(Sessions)
    \cup Permutations(Turns) \cup Permutations(Keys) \cup Permutations(Clients)

(* Every record in memory, in a Thread file, or on its way to one. *)
Written ==
  {records[t] : t \in Threads} \cup {files[t] : t \in Threads}
    \cup (IF op # Idle THEN {op.next} ELSE {})

(* One Thread and one create request: racing clients, replacements that     *)
(* grow stale, two Turns, metadata, failed writes and crashes.              *)
Deep ==
  /\ Cardinality(fresh) >= Cardinality(Threads) - 1
  /\ Cardinality({r.request : r \in {w \in Written : Exists(w)}}) <= 1

(* Both Threads with every conflict of identities, one Turn each, one       *)
(* replacement prepared at a time and six revisions between them.           *)
Wide ==
  /\ Cardinality({c \in Clients : prepared[c] # Idle}) <= 1
  /\ \A r \in Written \ {NoRecord} : r.project = NoProject /\ Len(r.turns) <= 1
  /\ Cardinality(UNION {{m.key : m \in MappingsOf(r)} : r \in Written \ {NoRecord}}) <= 1
  /\ \A r, s \in Written \ {NoRecord} :
       r.request # s.request => r.revision + s.revision <= 6

(* While files are unlinked, no replacement is prepared and one record is   *)
(* torn, of one Turn at most.                                               *)
Removals ==
  left \cup late # {} =>
    /\ \A c \in Clients : prepared[c] = Idle
    /\ \A r \in Written \ {NoRecord} : Len(r.turns) <= 1
    /\ Cardinality(torn) <= 1

Scope == (Deep \/ Wide) /\ Removals
=============================================================================
