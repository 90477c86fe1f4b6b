-------------------------- MODULE DelegationProofs --------------------------
(***************************************************************************)
(* Proofs about Delegation, for any calls and keys.  As long as calls with *)
(* one key do not overlap (Overlap = FALSE), the store always opens again, *)
(* a key has one child, a start that failed leaves nothing behind (but a   *)
(* session that did not let itself be closed), and one that succeeded has  *)
(* its child, whatever dies or fails on the way.                           *)
(***************************************************************************)
EXTENDS Delegation, FiniteSets, FiniteSetTheorems, SequenceTheorems, TLAPS

-----------------------------------------------------------------------------
(* The operators on the sequences of relations and records. *)

LEMMA RemoveAtProperties ==
  ASSUME NEW S, NEW s \in Seq(S), NEW k \in 1 .. Len(s)
  PROVE  /\ RemoveAt(s, k) \in Seq(S)
         /\ Len(RemoveAt(s, k)) = Len(s) - 1
         /\ \A i \in 1 .. Len(s) - 1 :
              RemoveAt(s, k)[i] = s[IF i < k THEN i ELSE i + 1]
<1> DEFINE a == SubSeq(s, 1, k - 1)
           b == SubSeq(s, k + 1, Len(s))
<1>1. /\ a \in Seq(S)
      /\ Len(a) = k - 1
      /\ \A i \in 1 .. k - 1 : a[i] = s[i]
  OBVIOUS
<1>2. /\ b \in Seq(S)
      /\ Len(b) = Len(s) - k
      /\ \A i \in 1 .. Len(s) - k : b[i] = s[k + i]
  OBVIOUS
<1>3. RemoveAt(s, k) = a \o b
  BY DEF RemoveAt
<1> HIDE DEF a, b
<1>4. /\ a \o b \in Seq(S)
      /\ Len(a \o b) = Len(s) - 1
  <2>1. a \o b \in Seq(S) /\ Len(a \o b) = Len(a) + Len(b)
    BY <1>1, <1>2, ConcatProperties, Zenon
  <2>2. Len(s) \in Nat /\ k \in Int
    OBVIOUS
  <2>3. QED
    BY <1>1, <1>2, <2>1, <2>2
<1>5. ASSUME NEW i \in 1 .. Len(s) - 1
      PROVE  (a \o b)[i] = s[IF i < k THEN i ELSE i + 1]
  <2>1. CASE i < k
    BY <1>1, <1>2, <2>1
  <2>2. CASE ~(i < k)
    <3>1. (a \o b)[i] = b[i - (k - 1)]
      BY <1>1, <1>2, <2>2
    <3>2. b[i - (k - 1)] = s[k + (i - (k - 1))]
      BY <1>2, <2>2
    <3>3. k + (i - (k - 1)) = i + 1
      BY <2>2
    <3>4. QED
      BY <3>1, <3>2, <3>3, <2>2
  <2>3. QED
    BY <2>1, <2>2
<1>6. QED
  BY <1>3, <1>4, <1>5

Single(s) ==
  \A i, j \in DOMAIN s : s[i] = s[j] \/ SameRequest(s[i], s[j]) => i = j

LEMMA AppendOne ==
  ASSUME NEW s \in Seq(Callers), NEW c \in Callers
  PROVE  /\ Append(s, c) \in Seq(Callers)
         /\ \A x : Contains(Append(s, c), x) <=> Contains(s, x) \/ x = c
         /\ Single(s) /\ (\A x \in Callers : Contains(s, x) => x # c /\ ~SameRequest(c, x))
              => Single(Append(s, c))
<1> DEFINE t == Append(s, c)
           n == Len(s)
<1>1. /\ t \in Seq(Callers) /\ n \in Nat /\ DOMAIN s = 1 .. n /\ DOMAIN t = 1 .. n + 1
      /\ Len(t) = n + 1
      /\ \A i \in 1 .. n : t[i] = s[i] /\ s[i] \in Callers
      /\ t[n + 1] = c
  BY AppendProperties
<1> HIDE DEF t, n
<1>2. \A i \in DOMAIN t : i = n + 1 \/ i \in DOMAIN s
  BY <1>1
<1>3. \A x : Contains(t, x) <=> Contains(s, x) \/ x = c
  BY <1>1 DEF Contains, n
<1>4. ASSUME Single(s), \A x \in Callers : Contains(s, x) => x # c /\ ~SameRequest(c, x)
      PROVE  Single(t)
  <2>1. \A i \in DOMAIN s : /\ t[i] = s[i] /\ s[i] # c
                            /\ ~SameRequest(c, s[i]) /\ ~SameRequest(s[i], c)
    BY <1>1, <1>4 DEF Contains, SameRequest, n
  <2>2. QED
    BY <1>1, <1>2, <1>4, <2>1 DEF Single
<1>5. QED
  BY <1>1, <1>3, <1>4 DEF t

LEMMA WithoutOne ==
  ASSUME NEW s \in Seq(Callers), NEW c \in Callers, Single(s)
  PROVE  /\ Without(s, c) \in Seq(Callers)
         /\ \A x : Contains(Without(s, c), x) <=> Contains(s, x) /\ x # c
         /\ Single(Without(s, c))
<1> DEFINE at == {i \in DOMAIN s : s[i] = c}
           k == CHOOSE i \in at : TRUE
           t == RemoveAt(s, k)
           n == Len(s)
<1>1. CASE at = {}
  <2>1. Without(s, c) = s
    BY <1>1 DEF Without
  <2>2. ~Contains(s, c)
    BY <1>1 DEF Contains
  <2>3. QED
    BY <2>1, <2>2
<1>2. CASE at # {}
  <2>1. Without(s, c) = t
    BY <1>2 DEF Without
  <2>2. k \in 1 .. n /\ s[k] = c /\ n \in Nat /\ DOMAIN s = 1 .. n
    BY <1>2
  <2> HIDE DEF k
  <2>3. /\ t \in Seq(Callers) /\ Len(t) = n - 1
        /\ \A i \in 1 .. n - 1 : t[i] = s[IF i < k THEN i ELSE i + 1]
    BY <2>2, RemoveAtProperties
  <2> HIDE DEF t
  <2>4. DOMAIN t = 1 .. n - 1
    BY <2>3
  <2>5. \A i \in 1 .. n - 1 : (IF i < k THEN i ELSE i + 1) \in 1 .. n
    BY <2>2
  <2>6. ASSUME NEW x
        PROVE  Contains(t, x) <=> Contains(s, x) /\ x # c
    <3>1. ASSUME NEW i \in 1 .. n - 1, t[i] = x
          PROVE  Contains(s, x) /\ x # c
      <4>1. PICK j \in 1 .. n : x = s[j] /\ j # k
        BY <2>2, <2>3, <2>5, <3>1
      <4>2. x # c
        BY <2>2, <4>1 DEF Single
      <4>3. QED
        BY <4>1, <4>2 DEF Contains
    <3>2. ASSUME NEW i \in 1 .. n, s[i] = x, x # c
          PROVE  Contains(t, x)
      <4>1. CASE i < k
        <5>1. i \in 1 .. n - 1 /\ t[i] = x
          BY <2>2, <2>3, <3>2, <4>1
        <5>2. QED
          BY <2>3, <5>1 DEF Contains
      <4>2. CASE i > k
        <5>1. i - 1 \in 1 .. n - 1 /\ ~(i - 1 < k) /\ (i - 1) + 1 = i
          BY <2>2, <4>2
        <5>2. t[i - 1] = x
          BY <2>3, <3>2, <5>1
        <5>3. QED
          BY <2>3, <5>1, <5>2 DEF Contains
      <4>3. QED
        BY <2>2, <3>2, <4>1, <4>2
    <3>3. Contains(t, x) => \E i \in 1 .. n - 1 : t[i] = x
      BY <2>3 DEF Contains
    <3>4. Contains(s, x) => \E i \in 1 .. n : s[i] = x
      BY DEF Contains
    <3>5. QED
      BY <3>1, <3>2, <3>3, <3>4
  <2>7. Single(t)
    <3> SUFFICES ASSUME NEW i \in 1 .. n - 1, NEW j \in 1 .. n - 1,
                        t[i] = t[j] \/ SameRequest(t[i], t[j])
                 PROVE  i = j
      BY <2>4 DEF Single
    <3>1. (IF i < k THEN i ELSE i + 1) = (IF j < k THEN j ELSE j + 1)
      BY <2>2, <2>3, <2>5 DEF Single
    <3>2. QED
      BY <2>2, <3>1
  <2>8. QED
    BY <2>1, <2>3, <2>6, <2>7
<1>3. QED
  BY <1>1, <1>2

LEMMA ListingOf ==
  ASSUME NEW S \in SUBSET Callers, IsFiniteSet(S), NEW s \in SetToSeqs(S)
  PROVE  /\ s \in Seq(Callers)
         /\ \A x : Contains(s, x) <=> x \in S
         /\ (\A c, d \in S : SameRequest(c, d) => c = d) => Single(s)
<1> DEFINE n == Cardinality(S)
<1>1. n \in Nat
  BY FS_CardinalityType
<1>2. s \in [1 .. n -> S] /\ \A i, j \in 1 .. n : i # j => s[i] # s[j]
  BY DEF SetToSeqs
<1>3. IsFiniteSet(1 .. n) /\ Cardinality(1 .. n) = n
  BY <1>1, FS_Interval
<1> HIDE DEF n
<1>4. s \in Injection(1 .. n, S)
  BY <1>2 DEF Injection, IsInjective
<1>5. s \in Surjection(1 .. n, S)
  BY <1>3, <1>4, FS_Injection DEF n
<1>6. \A x \in S : \E i \in 1 .. n : s[i] = x
  BY <1>5 DEF Surjection
<1>7. s \in Seq(S) /\ Len(s) = n
  BY <1>1, <1>2, SeqDef, LenProperties
<1>8. s \in Seq(Callers)
  BY <1>7
<1>9. \A x : Contains(s, x) <=> x \in S
  BY <1>2, <1>6, <1>7 DEF Contains
<1>10. (\A c, d \in S : SameRequest(c, d) => c = d) => Single(s)
  BY <1>2 DEF Single
<1>11. QED
  BY <1>8, <1>9, <1>10

\* Without duplicates everything is indexed.
LEMMA SingleIndexed ==
  ASSUME NEW s \in Seq(Callers), Single(s), NEW c \in Callers
  PROVE  /\ ~HasDuplicate(s)
         /\ Indexed(s, c) = {d \in Callers : Contains(s, d) /\ SameRequest(c, d)}
<1>1. DOMAIN s = 1 .. Len(s) /\ Len(s) \in Nat /\ \A i \in DOMAIN s : s[i] \in Callers
  OBVIOUS
<1>2. \A i \in DOMAIN s : ~Duplicate(s, i)
  <2> SUFFICES ASSUME NEW i \in DOMAIN s, NEW j \in 1 .. i - 1, SameRequest(s[j], s[i])
               PROVE  FALSE
    BY DEF Duplicate
  <2>1. j \in DOMAIN s /\ j # i
    BY <1>1
  <2>2. QED
    BY <2>1 DEF Single
<1>3. \A k \in DOMAIN s : \A j \in 1 .. k : ~Duplicate(s, j)
  BY <1>1, <1>2
<1>4. QED
  BY <1>1, <1>2, <1>3 DEF HasDuplicate, Indexed, Contains

-----------------------------------------------------------------------------
(* The inductive invariant. *)

\* The calls with a relation, and those with a record of their child.
Related == {c \in Callers : HasRelation(c)}
Kids == {c \in Callers : HasChild(c)}

\* The phases of a call from the record of its child to its removal.
Built == {"check", "write", "apply", "open", "commit", "publish", "cleanup",
          "forget", "remove", "done"}

\* Two calls that are one to the Host are never under way together, and after one of
\* them succeeded the other does not begin.
CallsAlone ==
  \A c, d \in Callers :
    SameKey(c, d) /\ pc[c] \in InFlight \cup {"done"} /\ pc[d] \in InFlight \cup {"done"}
      => c = d

\* What a call leaves behind says how far it came, unless it died or its removal
\* failed; and such a call does nothing more.
Trace(c) ==
  /\ c \in Related =>
       c \in leaked \/ pc[c] \in {"open", "commit", "publish", "cleanup", "forget", "done"}
  /\ c \in files =>
       c \in leaked \/ pc[c] \in {"apply", "open", "commit", "publish", "cleanup", "done"}
  /\ c \in Kids => c \in leaked \/ pc[c] \in Built
  /\ c \in sessions => c \in unclosed \/ pc[c] \in {"commit", "publish", "cleanup", "done"}
  /\ c \in unclosed => pc[c] \in {"forget", "remove", "failed"}
  /\ c \in leaked => pc[c] \in {"remove", "failed", "lost"}
  /\ pc[c] \in {"apply", "open", "commit", "publish", "done"} => c \in files
  /\ pc[c] = "done" => c \in Related
  /\ pc[c] \in InFlight => store = "open"

TracesFit == \A c \in Callers : Trace(c)

\* The files are what the memory holds, but for those being written or removed; a call
\* that writes found none of its Request ID.
FilesFit ==
  /\ store = "open" => \A c \in files : c \in Related \/ pc[c] = "apply"
  /\ \A c, d \in Callers :
       pc[c] \in {"write", "apply"} /\ d \in Related => ~SameRequest(c, d)
  /\ \A c, d \in files : SameRequest(c, d) => c = d

\* Neither the relations nor the records have a duplicate.
IndexesFit ==
  /\ IsFiniteSet(files) /\ IsFiniteSet(Kids)
  /\ Single(relations) /\ Single(children)
  /\ StoreReopens

\* While nothing was disturbed, a call works on its own record.
Undisturbed(c) ==
  /\ pc[c] \in Built \ {"done"} => owner[c] = c
  /\ pc[c] \in Built => c \in Kids
  /\ pc[c] \in {"publish", "done"} => c \in ready
  /\ pc[c] = "existing" => owner[c] \in Callers /\ pc[owner[c]] = "done"

UndisturbedFit == leaked = {} => \A c \in Callers : Undisturbed(c)

StartInv == TypeOK /\ CallsAlone /\ TracesFit /\ FilesFit /\ IndexesFit /\ UndisturbedFit

LEMMA StartInit == Init => StartInv
<1> SUFFICES ASSUME Init PROVE StartInv
  OBVIOUS
<1>1. TypeOK
  BY DEF Init, TypeOK, PCs
<1>2. Related = {} /\ Kids = {}
  BY DEF Init, Related, Kids, HasRelation, HasChild, Contains
<1>3. CallsAlone
  BY DEF Init, CallsAlone, InFlight
<1>4. TracesFit
  BY <1>2 DEF Init, TracesFit, Trace, InFlight
<1>5. FilesFit /\ UndisturbedFit
  BY <1>2 DEF Init, FilesFit, UndisturbedFit, Undisturbed, Built
<1>6. IndexesFit
  BY <1>2, FS_EmptySet DEF Init, IndexesFit, Single, StoreReopens
<1>7. QED
  BY <1>1, <1>3, <1>4, <1>5, <1>6 DEF StartInv

\* What the lookups see, while nothing is duplicated.
LEMMA LookupsSee ==
  ASSUME StartInv
  PROVE  /\ ~RebuildThrows(relations, children)
         /\ \A c \in Callers :
              /\ IndexedRelations(c) = {d \in Related : SameRequest(c, d)}
              /\ IndexedChildren(c) = {d \in Kids : SameRequest(c, d)}
              /\ RecentRelations(c) = {d \in Related : SameKey(c, d)}
<1>1. relations \in Seq(Callers) /\ children \in Seq(Callers) /\ Single(relations) /\ Single(children)
  BY DEF StartInv, TypeOK, IndexesFit
<1>2. ~HasDuplicate(relations) /\ ~HasDuplicate(children)
  <2>1. CASE Callers = {}
    BY <1>1, <2>1 DEF HasDuplicate, Duplicate
  <2>2. CASE \E c \in Callers : TRUE
    BY <1>1, <2>2, SingleIndexed
  <2>3. QED
    BY <2>1, <2>2
<1>3. ASSUME NEW c \in Callers
      PROVE  /\ IndexedRelations(c) = {d \in Related : SameRequest(c, d)}
             /\ IndexedChildren(c) = {d \in Kids : SameRequest(c, d)}
             /\ RecentRelations(c) = {d \in Related : SameKey(c, d)}
  BY <1>1, <1>2, SingleIndexed
  DEF IndexedRelations, IndexedChildren, RecentRelations, Related, Kids, HasRelation, HasChild
<1>4. QED
  BY <1>2, <1>3 DEF RebuildThrows

\* The changes of the relations and of the records.
RelationsChange(add, del) ==
  /\ relations' \in Seq(Callers) /\ Single(relations')
  /\ Related' = (Related \cup add) \ del

ChildrenChange(add, del) ==
  /\ children' \in Seq(Callers) /\ Single(children')
  /\ Kids' = (Kids \cup add) \ del

LEMMA Changes ==
  ASSUME StartInv, NEW c \in Callers
  PROVE  /\ relations' = relations => RelationsChange({}, {})
         /\ children' = children => ChildrenChange({}, {})
         /\ relations' = Append(relations, c)
              /\ (\A x \in Related : x # c /\ ~SameRequest(c, x)) => RelationsChange({c}, {})
         /\ children' = Append(children, c)
              /\ (\A x \in Kids : x # c /\ ~SameRequest(c, x)) => ChildrenChange({c}, {})
         /\ relations' = Without(relations, c) => RelationsChange({}, {c})
         /\ children' = Without(children, c) => ChildrenChange({}, {c})
<1>1. relations \in Seq(Callers) /\ children \in Seq(Callers) /\ Single(relations) /\ Single(children)
  BY DEF StartInv, TypeOK, IndexesFit
<1> USE DEF RelationsChange, ChildrenChange, Related, Kids, HasRelation, HasChild
<1>2. /\ relations' = relations => RelationsChange({}, {})
      /\ children' = children => ChildrenChange({}, {})
  BY <1>1
<1>3. /\ relations' = Append(relations, c)
           /\ (\A x \in Related : x # c /\ ~SameRequest(c, x)) => RelationsChange({c}, {})
      /\ children' = Append(children, c)
           /\ (\A x \in Kids : x # c /\ ~SameRequest(c, x)) => ChildrenChange({c}, {})
  <2>1. ASSUME relations' = Append(relations, c),
               \A x \in Related : x # c /\ ~SameRequest(c, x)
        PROVE  RelationsChange({c}, {})
    <3>1. /\ relations' \in Seq(Callers) /\ Single(relations')
          /\ \A x : Contains(relations', x) <=> Contains(relations, x) \/ x = c
      BY <1>1, <2>1, AppendOne
    <3>2. QED
      BY <3>1
  <2>2. ASSUME children' = Append(children, c),
               \A x \in Kids : x # c /\ ~SameRequest(c, x)
        PROVE  ChildrenChange({c}, {})
    <3>1. /\ children' \in Seq(Callers) /\ Single(children')
          /\ \A x : Contains(children', x) <=> Contains(children, x) \/ x = c
      BY <1>1, <2>2, AppendOne
    <3>2. QED
      BY <3>1
  <2>3. QED
    BY <2>1, <2>2
<1>4. /\ relations' = Without(relations, c) => RelationsChange({}, {c})
      /\ children' = Without(children, c) => ChildrenChange({}, {c})
  BY <1>1, WithoutOne
<1>5. QED
  BY <1>2, <1>3, <1>4

\* SameKey and SameRequest are what they seem.
LEMMA KeyLaws ==
  ASSUME NEW c \in Callers, NEW d \in Callers
  PROVE  /\ SameKey(c, c) /\ (SameKey(c, d) <=> SameKey(d, c))
         /\ (SameRequest(c, d) <=> (SameKey(c, d) /\ c \in Explicit))
         /\ (SameRequest(c, d) <=> SameRequest(d, c))
BY DEF SameKey, SameRequest

\* A step of one call: what must be shown of the others is that they stay apart.
LEMMA TypedStep ==
  ASSUME StartInv, NEW c \in Callers, NEW l \in PCs, Goto(c, l),
         relations' \in Seq(Callers), children' \in Seq(Callers),
         ready' \subseteq Callers, files' \subseteq Callers, sessions' \subseteq Callers,
         leaked' \subseteq Callers, owner' \in [Callers -> Callers \cup {None}],
         unclosed' \subseteq sessions', store' = store
  PROVE  /\ TypeOK'
         /\ pc' = [pc EXCEPT ![c] = l] /\ pc'[c] = l
         /\ \A d \in Callers : d # c => pc'[d] = pc[d]
BY DEF StartInv, TypeOK, Goto

\* A step of c touches nothing of the others.
Only(c) ==
  /\ store' = store
  /\ \A d \in Callers : d # c =>
       /\ pc'[d] = pc[d]
       /\ d \in Related' <=> d \in Related
       /\ d \in Kids' <=> d \in Kids
       /\ d \in files' <=> d \in files
       /\ d \in sessions' <=> d \in sessions
       /\ d \in leaked' <=> d \in leaked
       /\ d \in unclosed' <=> d \in unclosed

LEMMA OthersTrace ==
  ASSUME StartInv, NEW c \in Callers, Only(c), Trace(c)'
  PROVE  TracesFit'
<1> SUFFICES ASSUME NEW d \in Callers, d # c PROVE Trace(d)'
  BY DEF TracesFit
<1>1. Trace(d)
  BY DEF StartInv, TracesFit
<1>2. QED
  BY <1>1 DEF Only, Trace

LEMMA LookupKeeps ==
  ASSUME StartInv, ~Overlap, NEW c \in Callers, Lookup(c)
  PROVE  StartInv'
<1> USE DEF StartInv
<1>1. /\ pc[c] = "idle" /\ store = "open"
      /\ \A d \in Callers : SameKey(c, d) => pc[d] \notin InFlight
      /\ UNCHANGED <<store, children, ready, relations, files, sessions, leaked, unclosed>>
  BY DEF Lookup, At
<1>2. Related' = Related /\ Kids' = Kids
  BY <1>1 DEF Related, Kids, HasRelation, HasChild
<1>3. IndexesFit'
  BY <1>1, <1>2 DEF IndexesFit, StoreReopens
<1>4. FoundRelations(c) = {d \in Related : SameKey(c, d)}
  BY LookupsSee, KeyLaws DEF FoundRelations, Related
<1>5. CASE \E d \in FoundRelations(c) :
             owner' = [owner EXCEPT ![c] = d] /\ Goto(c, "existing")
  <2>1. PICK d \in Related : SameKey(c, d) /\ owner' = [owner EXCEPT ![c] = d] /\ Goto(c, "existing")
    BY <1>4, <1>5
  <2>2. d \in Callers
    BY DEF Related
  <2>3. /\ TypeOK' /\ pc'[c] = "existing" /\ owner'[c] = d
        /\ \A e \in Callers : e # c => pc'[e] = pc[e] /\ owner'[e] = owner[e]
    BY <1>1, <2>1, <2>2, TypedStep DEF TypeOK, PCs
  <2>4. CallsAlone'
    BY <2>3 DEF CallsAlone, InFlight
  <2>5. TracesFit'
    <3>1. Only(c) /\ Trace(c)
      BY <1>1, <1>2, <2>3 DEF Only, TracesFit
    <3>2. Trace(c)'
      BY <1>1, <1>2, <2>3, <3>1 DEF Trace, Built, InFlight
    <3>3. QED
      BY <3>1, <3>2, OthersTrace
  <2>6. FilesFit'
    BY <1>1, <1>2, <2>3, KeyLaws DEF FilesFit, TypeOK
  <2>7. UndisturbedFit'
    <3>1. leaked = {} => pc[d] = "done"
      BY <1>1, <2>1, <2>2 DEF TracesFit, Trace, InFlight
    <3>2. d # c
      BY <1>1, <2>1, <2>2 DEF TracesFit, Trace
    <3>3. QED
      BY <1>1, <1>2, <2>2, <2>3, <3>1, <3>2 DEF UndisturbedFit, Undisturbed, Built
  <2>8. QED
    BY <1>3, <2>3, <2>4, <2>5, <2>6, <2>7
<1>6. CASE FoundRelations(c) = {} /\ Goto(c, "provisional") /\ UNCHANGED owner
  <2>1. /\ TypeOK' /\ pc'[c] = "provisional" /\ owner' = owner
        /\ \A e \in Callers : e # c => pc'[e] = pc[e]
    BY <1>1, <1>6, TypedStep DEF TypeOK, PCs, InFlight
  <2>2. \A d \in Callers : SameKey(c, d) => pc[d] # "done"
    BY <1>4, <1>6 DEF TracesFit, Trace
  <2>3. CallsAlone'
    BY <1>1, <2>1, <2>2, KeyLaws DEF CallsAlone
  <2>4. TracesFit'
    <3>1. Only(c) /\ Trace(c)
      BY <1>1, <1>2, <2>1 DEF Only, TracesFit
    <3>2. Trace(c)'
      BY <1>1, <1>2, <2>1, <3>1 DEF Trace, Built, InFlight
    <3>3. QED
      BY <3>1, <3>2, OthersTrace
  <2>5. FilesFit'
    BY <1>1, <1>2, <2>1 DEF FilesFit, TypeOK
  <2>6. UndisturbedFit'
    BY <1>1, <1>2, <2>1 DEF UndisturbedFit, Undisturbed, Built, TypeOK
  <2>7. QED
    BY <1>3, <2>1, <2>3, <2>4, <2>5, <2>6
<1>7. QED
  BY <1>5, <1>6 DEF Lookup

LEMMA OthersUndisturbed ==
  ASSUME StartInv, NEW c \in Callers, Only(c), pc[c] # "done", leaked \subseteq leaked',
         \A d \in Callers : d # c => owner'[d] = owner[d] /\ (d \in ready => d \in ready'),
         leaked' = {} => Undisturbed(c)'
  PROVE  UndisturbedFit'
<1> SUFFICES ASSUME leaked' = {}, NEW d \in Callers, d # c PROVE Undisturbed(d)'
  BY DEF UndisturbedFit
<1>1. Undisturbed(d) /\ leaked = {}
  BY DEF StartInv, UndisturbedFit
<1>2. QED
  BY <1>1 DEF Only, Undisturbed

LEMMA StaysAlone ==
  ASSUME StartInv, NEW c \in Callers, Only(c), pc[c] \in InFlight
  PROVE  CallsAlone'
BY DEF StartInv, CallsAlone, Only

\* A call under way leaves the files and the relations as they fit, if it neither adds
\* a file nor comes to write.
LEMMA FilesStay ==
  ASSUME StartInv, NEW c \in Callers, Only(c), files' = files, Related' \subseteq Related \cup {c},
         \A d \in Callers : SameRequest(c, d) /\ pc[d] \in {"write", "apply"} => d = c,
         c \in files => c \in Related' \/ pc'[c] = "apply",
         pc'[c] \in {"write", "apply"} => \A d \in Related' : ~SameRequest(c, d)
  PROVE  FilesFit'
<1> USE DEF StartInv
<1>1. files \subseteq Callers /\ Related' \subseteq Callers /\ Related \subseteq Callers
  BY DEF TypeOK, Related
<1>2. store' = "open" => \A d \in files' : d \in Related' \/ pc'[d] = "apply"
  BY <1>1 DEF FilesFit, Only
<1>3. ASSUME NEW d \in Callers, NEW e \in Callers, pc'[d] \in {"write", "apply"}, e \in Related'
      PROVE  ~SameRequest(d, e)
  <2>1. CASE d = c
    BY <1>3, <2>1
  <2>2. CASE d # c /\ e # c
    BY <1>3, <2>2 DEF FilesFit, Only
  <2>3. CASE d # c /\ e = c
    BY <1>3, <2>3, KeyLaws DEF Only
  <2>4. QED
    BY <2>1, <2>2, <2>3
<1>4. QED
  BY <1>2, <1>3 DEF FilesFit

LEMMA AloneAtWrite ==
  ASSUME StartInv, NEW c \in Callers, pc[c] \in InFlight, NEW d \in Callers,
         SameRequest(c, d), pc[d] \in {"write", "apply"}
  PROVE  d = c
BY KeyLaws DEF StartInv, CallsAlone, InFlight

LEMMA CreateKeeps ==
  ASSUME StartInv, NEW c \in Callers, CreateProvisional(c)
  PROVE  StartInv'
<1> USE DEF StartInv
<1>1. /\ pc[c] = "provisional" /\ store = "open" /\ pc[c] \in InFlight
      /\ UNCHANGED <<store, ready, relations, files, sessions, leaked, unclosed>>
  BY DEF CreateProvisional, At, InFlight
<1>2. Related' = Related /\ c \notin Related /\ c \notin files /\ c \notin Kids /\ c \notin leaked
      /\ c \notin sessions /\ c \notin unclosed
  BY <1>1 DEF Related, HasRelation, TracesFit, Trace, Built
<1>3. IndexedChildren(c) = {d \in Kids : SameRequest(c, d)}
  BY LookupsSee
<1>4. PICK o \in Callers :
        /\ owner' = [owner EXCEPT ![c] = o]
        /\ Goto(c, "check")
        /\ \/ o \in Kids /\ SameRequest(c, o) /\ children' = children
           \/ o = c /\ ChildrenChange({c}, {})
  <2>1. CASE \E d \in IndexedChildren(c) :
               owner' = [owner EXCEPT ![c] = d] /\ Goto(c, "check") /\ UNCHANGED children
    BY <1>3, <2>1 DEF Kids
  <2>2. CASE /\ IndexedChildren(c) = {}
             /\ owner' = [owner EXCEPT ![c] = c]
             /\ children' = Append(children, c)
             /\ Goto(c, IF RebuildThrows(relations, children') THEN "failed" ELSE "check")
    <3>1. ChildrenChange({c}, {})
      BY <1>2, <1>3, <2>2, Changes DEF Kids
    <3>2. ~HasDuplicate(children') /\ ~HasDuplicate(relations)
      BY <3>1, SingleIndexed DEF ChildrenChange, TypeOK, IndexesFit
    <3>3. QED
      BY <2>2, <3>1, <3>2 DEF RebuildThrows
  <2>3. QED
    BY <2>1, <2>2 DEF CreateProvisional
<1>5. /\ children' \in Seq(Callers) /\ Single(children')
      /\ Kids \subseteq Kids' /\ Kids' \subseteq Kids \cup {c}
      /\ o = c => c \in Kids'
  BY <1>4, Changes DEF ChildrenChange, TypeOK, IndexesFit
<1>6. /\ TypeOK' /\ pc'[c] = "check" /\ owner'[c] = o
      /\ \A e \in Callers : e # c => pc'[e] = pc[e] /\ owner'[e] = owner[e]
  <2>1. owner' \in [Callers -> Callers \cup {None}] /\ owner'[c] = o
        /\ \A e \in Callers : e # c => owner'[e] = owner[e]
    BY <1>4 DEF TypeOK
  <2>2. "check" \in PCs
    BY DEF PCs, InFlight
  <2>3. QED
    BY <1>1, <1>4, <1>5, <2>1, <2>2, TypedStep DEF TypeOK
<1>7. Only(c)
  BY <1>1, <1>2, <1>5, <1>6 DEF Only
<1>8. CallsAlone'
  BY <1>1, <1>7, StaysAlone
<1>9. TracesFit'
  <2>1. Trace(c)'
    BY <1>1, <1>2, <1>6 DEF Trace, Built
  <2>2. QED
    BY <1>7, <2>1, OthersTrace
<1>10. FilesFit'
  BY <1>1, <1>2, <1>6, <1>7, AloneAtWrite, FilesStay
<1>11. IndexesFit'
  <2>1. IsFiniteSet(Kids')
    BY <1>5, FS_AddElement, FS_Subset DEF IndexesFit
  <2>2. QED
    BY <1>1, <1>5, <2>1 DEF IndexesFit, StoreReopens
<1>12. UndisturbedFit'
  <2>1. leaked' = {} => o = c
    <3> SUFFICES ASSUME leaked = {}, o \in Kids, SameRequest(c, o), o # c PROVE FALSE
      BY <1>1, <1>4
    <3>1. pc[o] \in InFlight \cup {"done"}
      BY <1>2 DEF TracesFit, Trace, Built, InFlight
    <3>2. QED
      BY <1>1, <3>1, KeyLaws DEF CallsAlone
  <2>2. leaked' = {} => Undisturbed(c)'
    BY <1>5, <1>6, <2>1 DEF Undisturbed, Built
  <2>3. QED
    BY <1>1, <1>6, <1>7, <2>2, OthersUndisturbed
<1>13. QED
  BY <1>6, <1>8, <1>9, <1>10, <1>11, <1>12

\* What is left to show of the step of a call under way.
LEMMA CallStep ==
  ASSUME StartInv, NEW c \in Callers, Only(c), pc[c] \in InFlight,
         TypeOK', Trace(c)', FilesFit',
         files' \subseteq files \cup {c}, Kids' \subseteq Kids,
         Single(relations'), Single(children'),
         \A d \in Callers : d # c /\ d \in ready => d \in ready',
         owner' = owner, leaked \subseteq leaked',
         leaked' = {} => Undisturbed(c)'
  PROVE  StartInv'
<1> USE DEF StartInv
<1>1. CallsAlone'
  BY StaysAlone
<1>2. TracesFit'
  BY OthersTrace
<1>3. UndisturbedFit'
  <2>1. pc[c] # "done"
    BY DEF InFlight
  <2>2. QED
    BY <2>1, OthersUndisturbed
<1>4. IndexesFit'
  <2>1. IsFiniteSet(files \cup {c}) /\ IsFiniteSet(Kids)
    BY FS_AddElement DEF IndexesFit
  <2>2. IsFiniteSet(files') /\ IsFiniteSet(Kids')
    BY <2>1, FS_Subset
  <2>3. QED
    BY <2>2 DEF IndexesFit, StoreReopens, Only
<1>5. QED
  BY <1>1, <1>2, <1>3, <1>4

\* Steps that leave the relations, the records and the files.
LEMMA QuietKeeps ==
  ASSUME StartInv, NEW c \in Callers, CheckRelation(c) \/ OpenSession(c) \/ CommitNative(c)
  PROVE  StartInv'
<1> USE DEF StartInv
<1>1. /\ pc[c] \in {"check", "open", "commit"} /\ pc[c] \in InFlight /\ store = "open"
      /\ UNCHANGED <<store, children, relations, files, owner, leaked, unclosed>>
  BY DEF CheckRelation, OpenSession, CommitNative, At, InFlight
<1>2. Related' = Related /\ Kids' = Kids
  BY <1>1 DEF Related, Kids, HasRelation, HasChild
<1>3. ~RebuildThrows(relations, children) /\ IndexedRelations(c) = {d \in Related : SameRequest(c, d)}
  BY LookupsSee
<1>4. PICK l \in {"remove", "write", "commit", "cleanup", "publish"} :
        /\ Goto(c, l)
        /\ pc[c] = "check" => l \in {"remove", "write"}
        /\ pc[c] = "open" => l \in {"commit", "cleanup"}
        /\ pc[c] = "commit" => l \in {"publish", "cleanup"}
        /\ l = "write" => \A d \in Related : ~SameRequest(c, d)
        /\ l = "publish" => owner[c] \in ready'
        /\ ready \subseteq ready' /\ ready' \subseteq ready \cup {owner[c]}
        /\ sessions' \subseteq sessions \cup {c} /\ sessions \subseteq sessions'
        /\ sessions' # sessions => l = "commit"
        /\ ready' # ready => owner[c] \in Kids
  <2>1. CASE CheckRelation(c)
    <3>1. c \notin Explicit => \A d \in Related : ~SameRequest(c, d)
      BY DEF SameRequest
    <3>2. QED
      BY <1>1, <1>3, <2>1, <3>1 DEF CheckRelation, At
  <2>2. CASE OpenSession(c)
    BY <1>1, <2>2 DEF OpenSession, At
  <2>3. CASE CommitNative(c)
    <3>1. HasChild(owner[c]) => owner[c] \in Kids
      BY DEF TypeOK, HasChild, Contains, Kids
    <3>2. QED
      BY <1>1, <1>3, <2>3, <3>1 DEF CommitNative, At
  <2>4. QED
    BY <2>1, <2>2, <2>3
<1>5. /\ TypeOK' /\ pc'[c] = l
      /\ \A e \in Callers : e # c => pc'[e] = pc[e]
  <2>1. l \in PCs
    BY DEF PCs, InFlight
  <2>2. ready' \subseteq Callers /\ sessions' \subseteq Callers
    BY <1>4 DEF TypeOK, Kids
  <2>3. QED
    BY <1>1, <1>4, <2>1, <2>2, TypedStep DEF TypeOK
<1>6. Only(c)
  BY <1>1, <1>2, <1>4, <1>5 DEF Only
<1>7. Trace(c)'
  <2>1. Trace(c)
    BY DEF TracesFit
  <2>2. QED
    BY <1>1, <1>2, <1>4, <1>5, <2>1 DEF Trace, Built
<1>8. FilesFit'
  <2>1. Trace(c) /\ c \notin leaked
    BY <1>1 DEF TracesFit, Trace
  <2>2. c \in files => c \in Related
    BY <1>1, <2>1 DEF FilesFit, TypeOK
  <2>3. l \in {"write", "apply"} => \A d \in Related' : ~SameRequest(c, d)
    BY <1>2, <1>4
  <2>4. QED
    BY <1>1, <1>2, <1>5, <1>6, <2>2, <2>3, AloneAtWrite, FilesStay
<1>9. leaked' = {} => Undisturbed(c)'
  <2>1. leaked = {} => Undisturbed(c)
    BY DEF UndisturbedFit
  <2>2. QED
    BY <1>1, <1>2, <1>4, <1>5, <2>1 DEF Undisturbed, Built
<1>10. QED
  <2>1. Single(relations') /\ Single(children')
    BY <1>1 DEF IndexesFit
  <2>2. QED
    BY <1>1, <1>2, <1>4, <1>5, <1>6, <1>7, <1>8, <1>9, <2>1, CallStep

LEMMA WriteKeeps ==
  ASSUME StartInv, NEW c \in Callers, WriteRelation(c)
  PROVE  StartInv'
<1> USE DEF StartInv
<1>1. /\ pc[c] = "write" /\ pc[c] \in InFlight /\ store = "open"
      /\ UNCHANGED <<store, children, ready, relations, sessions, owner, leaked, unclosed>>
  BY DEF WriteRelation, At, InFlight
<1>2. Related' = Related /\ Kids' = Kids
  BY <1>1 DEF Related, Kids, HasRelation, HasChild
<1>3. PICK l \in {"apply", "remove"} :
        Goto(c, l) /\ files' = IF l = "apply" THEN files \cup {c} ELSE files
  BY DEF WriteRelation
<1>4. /\ TypeOK' /\ pc'[c] = l
      /\ \A e \in Callers : e # c => pc'[e] = pc[e]
  <2>1. l \in PCs /\ files' \subseteq Callers
    BY <1>3 DEF PCs, InFlight, TypeOK
  <2>2. QED
    BY <1>1, <1>3, <2>1, TypedStep DEF TypeOK
<1>5. Trace(c) /\ c \notin leaked /\ c \notin files /\ c \notin Related
  BY <1>1 DEF TracesFit, Trace
<1>6. Only(c)
  BY <1>1, <1>2, <1>3, <1>4 DEF Only
<1>7. Trace(c)'
  BY <1>1, <1>2, <1>3, <1>4, <1>5 DEF Trace, Built
<1>8. FilesFit'
  <2>1. \A d \in files' : d \in Related' \/ pc'[d] = "apply"
    BY <1>1, <1>2, <1>3, <1>4 DEF FilesFit, TypeOK
  <2>2. \A d, e \in Callers : pc'[d] \in {"write", "apply"} /\ e \in Related' => ~SameRequest(d, e)
    BY <1>1, <1>2, <1>4 DEF FilesFit
  <2>3. \A d \in files : ~SameRequest(c, d)
    <3> SUFFICES ASSUME NEW d \in files, SameRequest(c, d) PROVE FALSE
      OBVIOUS
    <3>1. d \in Callers /\ (d \in Related \/ pc[d] = "apply")
      BY <1>1 DEF FilesFit, TypeOK
    <3>2. d \notin Related
      BY <1>1, <3>1 DEF FilesFit
    <3>3. d = c
      BY <1>1, <3>1, <3>2, AloneAtWrite
    <3>4. QED
      BY <1>5, <3>3
  <2>4. \A d, e \in files' : SameRequest(d, e) => d = e
    BY <1>3, <2>3, KeyLaws DEF FilesFit, TypeOK
  <2>5. QED
    BY <2>1, <2>2, <2>4 DEF FilesFit
<1>9. leaked' = {} => Undisturbed(c)'
  BY <1>1, <1>2, <1>4 DEF UndisturbedFit, Undisturbed, Built
<1>10. QED
  BY <1>1, <1>2, <1>3, <1>4, <1>6, <1>7, <1>8, <1>9, CallStep DEF IndexesFit

LEMMA ApplyKeeps ==
  ASSUME StartInv, NEW c \in Callers, ApplyRelation(c)
  PROVE  StartInv'
<1> USE DEF StartInv
<1>1. /\ pc[c] = "apply" /\ pc[c] \in InFlight /\ store = "open"
      /\ UNCHANGED <<store, children, ready, files, sessions, owner, leaked, unclosed>>
      /\ relations' = Append(relations, c)
  BY DEF ApplyRelation, At, InFlight
<1>2. Trace(c) /\ c \notin leaked /\ c \in files /\ c \notin Related
  BY <1>1 DEF TracesFit, Trace
<1>3. RelationsChange({c}, {})
  <2>1. \A x \in Related : x # c /\ ~SameRequest(c, x)
    BY <1>1, <1>2 DEF FilesFit, Related
  <2>2. QED
    BY <1>1, <2>1, Changes
<1>4. relations' \in Seq(Callers) /\ Single(relations') /\ Related' = Related \cup {c} /\ Kids' = Kids
  BY <1>1, <1>3 DEF RelationsChange, Kids, HasChild
<1>5. Goto(c, "open")
  <2>1. ~HasDuplicate(relations') /\ ~HasDuplicate(children)
    BY <1>4, SingleIndexed DEF TypeOK, IndexesFit
  <2>2. QED
    BY <2>1 DEF ApplyRelation, RebuildThrows
<1>6. /\ TypeOK' /\ pc'[c] = "open"
      /\ \A e \in Callers : e # c => pc'[e] = pc[e]
  <2>1. "open" \in PCs
    BY DEF PCs, InFlight
  <2>2. QED
    BY <1>1, <1>4, <1>5, <2>1, TypedStep DEF TypeOK
<1>7. Only(c)
  BY <1>1, <1>4, <1>6 DEF Only
<1>8. Trace(c)'
  BY <1>1, <1>2, <1>4, <1>6 DEF Trace, Built
<1>9. FilesFit'
  BY <1>1, <1>4, <1>6, <1>7, AloneAtWrite, FilesStay
<1>10. leaked' = {} => Undisturbed(c)'
  BY <1>1, <1>4, <1>6 DEF UndisturbedFit, Undisturbed, Built
<1>11. QED
  BY <1>1, <1>4, <1>6, <1>7, <1>8, <1>9, <1>10, CallStep DEF IndexesFit

LEMMA PublishKeeps ==
  ASSUME StartInv, NEW c \in Callers, Publish(c)
  PROVE  StartInv'
<1> USE DEF StartInv
<1>1. /\ pc[c] = "publish" /\ pc[c] \in InFlight /\ store = "open"
      /\ UNCHANGED <<store, children, ready, relations, sessions, owner, leaked, unclosed>>
  BY DEF Publish, At, InFlight
<1>2. Related' = Related /\ Kids' = Kids
  BY <1>1 DEF Related, Kids, HasRelation, HasChild
<1>3. Trace(c) /\ c \notin leaked /\ c \in files /\ c \in Related
  BY <1>1 DEF TracesFit, Trace, FilesFit
<1>4. PICK l \in {"cleanup", "done"} : Goto(c, l) /\ files' = files
  BY <1>3, LookupsSee DEF Publish
<1>5. /\ TypeOK' /\ pc'[c] = l
      /\ \A e \in Callers : e # c => pc'[e] = pc[e]
  <2>1. l \in PCs
    BY DEF PCs, InFlight
  <2>2. QED
    BY <1>1, <1>4, <2>1, TypedStep DEF TypeOK
<1>6. Only(c)
  BY <1>1, <1>2, <1>4, <1>5 DEF Only
<1>7. Trace(c)'
  BY <1>1, <1>2, <1>3, <1>4, <1>5 DEF Trace, Built
<1>8. FilesFit'
  BY <1>1, <1>2, <1>3, <1>4, <1>5, <1>6, AloneAtWrite, FilesStay
<1>9. leaked' = {} => Undisturbed(c)'
  BY <1>1, <1>2, <1>5 DEF UndisturbedFit, Undisturbed, Built
<1>10. QED
  BY <1>1, <1>2, <1>4, <1>5, <1>6, <1>7, <1>8, <1>9, CallStep DEF IndexesFit

\* The three steps of the removal.
LEMMA RemovalKeeps ==
  ASSUME StartInv, NEW c \in Callers, Cleanup(c) \/ Forget(c) \/ RemoveChild(c)
  PROVE  StartInv'
<1> USE DEF StartInv
<1>1. /\ pc[c] \in {"cleanup", "forget", "remove"} /\ pc[c] \in InFlight /\ store = "open"
      /\ UNCHANGED <<store, owner>>
  BY DEF Cleanup, Forget, RemoveChild, At, InFlight
<1> DEFINE Closes == \/ sessions' = sessions \ {c} /\ unclosed' = unclosed
                     \/ sessions' = sessions /\ c \in sessions /\ unclosed' = unclosed \cup {c}
<1>2. PICK l \in {"forget", "remove", "failed"} :
        /\ Goto(c, l)
        /\ pc[c] = "cleanup" => l \in {"forget", "remove"}
        /\ pc[c] = "cleanup" => Closes
        /\ pc[c] = "forget" => l = "remove" /\ Related' = Related \ {c}
        /\ pc[c] = "remove" => l = "failed"
        /\ pc[c] # "cleanup" => sessions' = sessions /\ files' = files /\ unclosed' = unclosed
        /\ pc[c] # "forget" => Related' = Related
        /\ pc[c] # "remove" => Kids' = Kids /\ ready' = ready
        /\ files' \subseteq files /\ files \subseteq files' \cup {c}
        /\ l = "forget" => c \notin files'
        /\ leaked' \in {leaked, leaked \cup {c}}
        /\ pc[c] = "cleanup" /\ l = "remove" => c \in leaked'
        /\ pc[c] = "cleanup" /\ l = "forget" => leaked' = leaked
        /\ Kids' \subseteq Kids /\ Kids \subseteq Kids' \cup {c}
        /\ l = "failed" => c \notin Kids' \/ c \in leaked'
        /\ ready' \subseteq ready /\ ready \subseteq ready' \cup {c}
        /\ relations' \in Seq(Callers) /\ Single(relations')
        /\ children' \in Seq(Callers) /\ Single(children')
        /\ pc[c] = "forget" => leaked' = leaked
  <2>1. CASE Cleanup(c)
    <3>1. pc[c] = "cleanup" /\ UNCHANGED <<relations, children, ready>> /\ Closes
      BY <2>1 DEF Cleanup, At
    <3>2. Related' = Related /\ Kids' = Kids
      BY <3>1 DEF Related, Kids, HasRelation, HasChild
    <3>3. relations' \in Seq(Callers) /\ Single(relations')
          /\ children' \in Seq(Callers) /\ Single(children')
      BY <3>1 DEF TypeOK, IndexesFit
    <3>4. CASE files' = files \ {c} /\ Goto(c, "forget") /\ UNCHANGED leaked
      BY <3>1, <3>2, <3>3, <3>4
    <3>5. CASE Goto(c, "remove") /\ leaked' = leaked \cup {c} /\ UNCHANGED files
      BY <3>1, <3>2, <3>3, <3>5
    <3>6. QED
      BY <2>1, <3>4, <3>5 DEF Cleanup
  <2>2. CASE Forget(c)
    <3>1. /\ pc[c] = "forget" /\ Goto(c, "remove")
          /\ UNCHANGED <<children, ready, files, sessions, leaked, unclosed>>
          /\ relations' = Without(relations, c)
      BY <2>2 DEF Forget, At
    <3>2. RelationsChange({}, {c}) /\ ChildrenChange({}, {})
      BY <3>1, Changes
    <3>3. QED
      BY <3>1, <3>2 DEF RelationsChange, ChildrenChange
  <2>3. CASE RemoveChild(c)
    <3>1. /\ pc[c] = "remove" /\ Goto(c, "failed")
          /\ UNCHANGED <<relations, files, sessions, unclosed>>
      BY <2>3 DEF RemoveChild, At
    <3>2. RelationsChange({}, {})
      BY <3>1, Changes
    <3>3. CASE /\ children' = Without(children, c) /\ ready' = ready \ {c} /\ UNCHANGED leaked
      <4>1. ChildrenChange({}, {c})
        BY <3>3, Changes
      <4>2. QED
        BY <3>1, <3>2, <3>3, <4>1 DEF RelationsChange, ChildrenChange
    <3>4. CASE leaked' = leaked \cup {c} /\ UNCHANGED <<children, ready>>
      <4>1. ChildrenChange({}, {})
        BY <3>4, Changes
      <4>2. QED
        BY <3>1, <3>2, <3>4, <4>1 DEF RelationsChange, ChildrenChange
    <3>5. QED
      BY <2>3, <3>3, <3>4 DEF RemoveChild
  <2>4. QED
    BY <2>1, <2>2, <2>3
<1>3. /\ TypeOK' /\ pc'[c] = l
      /\ \A e \in Callers : e # c => pc'[e] = pc[e]
  <2>1. l \in PCs
    BY DEF PCs, InFlight
  <2>2. sessions' \subseteq Callers /\ unclosed' \subseteq sessions'
    <3>1. CASE pc[c] = "cleanup"
      <4>1. c \notin unclosed
        BY <3>1 DEF TracesFit, Trace
      <4>2. QED
        BY <1>2, <3>1, <4>1 DEF TypeOK
    <3>2. CASE pc[c] # "cleanup"
      BY <1>2, <3>2 DEF TypeOK
    <3>3. QED
      BY <3>1, <3>2
  <2>3. /\ ready' \subseteq Callers /\ files' \subseteq Callers
        /\ leaked' \subseteq Callers
    BY <1>2 DEF TypeOK
  <2>4. QED
    BY <1>1, <1>2, <2>1, <2>2, <2>3, TypedStep DEF TypeOK
<1>4. Trace(c)
  BY DEF TracesFit
<1>5. Only(c)
  BY <1>1, <1>2, <1>3 DEF Only
<1>6. Trace(c)'
  <2>1. leaked \subseteq leaked' /\ leaked' \subseteq leaked \cup {c} /\ l \notin {"open", "commit", "publish", "done", "apply"}
    BY <1>2
  <2>2. CASE pc[c] = "cleanup"
    <3>1. c \notin leaked /\ (c \in sessions' => c \in unclosed') /\ l \in {"forget", "remove"} /\ Related' = Related
      BY <1>2, <1>4, <2>2 DEF Trace
    <3>2. l = "forget" => c \notin files'
      BY <1>2
    <3>3. l = "remove" => c \in leaked'
      BY <1>2, <2>2
    <3>4. l = "forget" => c \notin leaked'
      BY <1>2, <2>2, <3>1
    <3>5. QED
      BY <1>1, <1>3, <3>1, <3>2, <3>3, <3>4 DEF Trace, Built
  <2>3. CASE pc[c] = "forget"
    <3>1. c \notin files' /\ (c \in sessions' => c \in unclosed') /\ c \notin Related' /\ l = "remove"
      BY <1>2, <1>4, <2>3 DEF Trace
    <3>2. QED
      BY <1>1, <1>3, <3>1 DEF Trace, Built
  <2>4. CASE pc[c] = "remove"
    <3>1. l = "failed" /\ (c \in sessions' => c \in unclosed') /\ (c \in Kids' => c \in leaked')
      BY <1>2, <1>4, <2>4 DEF Trace
    <3>2. (c \in Related' => c \in leaked') /\ (c \in files' => c \in leaked')
      BY <1>2, <1>4, <2>1, <2>4 DEF Trace
    <3>3. QED
      BY <1>1, <1>3, <3>1, <3>2 DEF Trace, Built
  <2>5. QED
    BY <1>1, <2>2, <2>3, <2>4
<1>7. FilesFit'
  <2>1. \A d \in files' : d \in Related' \/ pc'[d] = "apply"
    <3>1. \A d \in files : d \in Related \/ pc[d] = "apply"
      BY <1>1 DEF FilesFit
    <3>2. c \in files' => c \in Related'
      BY <1>1, <1>2, <1>4, <3>1 DEF Trace
    <3>3. QED
      BY <1>2, <1>5, <3>1, <3>2 DEF Only, TypeOK
  <2>2. \A d, e \in Callers : pc'[d] \in {"write", "apply"} /\ e \in Related' => ~SameRequest(d, e)
    BY <1>1, <1>2, <1>3 DEF FilesFit
  <2>3. \A d, e \in files' : SameRequest(d, e) => d = e
    BY <1>2 DEF FilesFit
  <2>4. QED
    BY <2>1, <2>2, <2>3 DEF FilesFit
<1>8. leaked' = {} => Undisturbed(c)'
  BY <1>1, <1>2, <1>3 DEF UndisturbedFit, Undisturbed, Built
<1>9. QED
  BY <1>1, <1>2, <1>3, <1>5, <1>6, <1>7, <1>8, CallStep

LEMMA CrashKeeps ==
  ASSUME StartInv, Crash
  PROVE  StartInv'
<1> USE DEF StartInv
<1>1. /\ store' = "closed" /\ sessions' = {} /\ unclosed' = {}
      /\ leaked' = leaked \cup {c \in Callers : pc[c] \in InFlight}
      /\ pc' = [c \in Callers |-> IF pc[c] \in InFlight THEN "lost" ELSE pc[c]]
      /\ UNCHANGED <<children, ready, relations, files, owner>>
  BY DEF Crash
<1>2. Related' = Related /\ Kids' = Kids
  BY <1>1 DEF Related, Kids, HasRelation, HasChild
<1>3. TypeOK'
  BY <1>1 DEF TypeOK, PCs
<1>4. "lost" \notin InFlight
  BY DEF InFlight
<1>5. CallsAlone'
  BY <1>1, <1>4 DEF CallsAlone
<1>6. TracesFit'
  <2> SUFFICES ASSUME NEW c \in Callers PROVE Trace(c)'
    BY DEF TracesFit
  <2>1. Trace(c)
    BY DEF TracesFit
  <2>2. CASE pc[c] \in InFlight
    BY <1>1, <1>2, <2>2 DEF Trace, InFlight
  <2>3. CASE pc[c] \notin InFlight
    BY <1>1, <1>2, <2>1, <2>3 DEF Trace
  <2>4. QED
    BY <2>2, <2>3
<1>7. FilesFit'
  BY <1>1, <1>2 DEF FilesFit, InFlight
<1>8. IndexesFit'
  BY <1>1, <1>2 DEF IndexesFit, StoreReopens
<1>9. UndisturbedFit'
  <2> SUFFICES ASSUME leaked' = {}, NEW c \in Callers PROVE Undisturbed(c)'
    BY DEF UndisturbedFit
  <2>1. leaked = {} /\ \A d \in Callers : pc'[d] = pc[d]
    BY <1>1
  <2>2. QED
    BY <1>1, <1>2, <2>1 DEF UndisturbedFit, Undisturbed
<1>10. QED
  BY <1>3, <1>5, <1>6, <1>7, <1>8, <1>9

\* The store starts again with what the files say.
LEMMA InitializeKeeps ==
  ASSUME StartInv, Initialize
  PROVE  StartInv'
<1> USE DEF StartInv
<1>1. /\ store = "closed"
      /\ children' \in SetToSeqs(ToSet(children) \cap ready)
      /\ relations' \in SetToSeqs(files)
      /\ UNCHANGED <<ready, files, sessions, pc, owner, leaked, unclosed>>
  BY DEF Initialize
<1>2. files \subseteq Callers /\ ready \subseteq Callers /\ relations \in Seq(Callers)
      /\ children \in Seq(Callers)
  BY DEF TypeOK
<1>3. ToSet(children) = Kids
  BY <1>2 DEF ToSet, Kids, HasChild, Contains
<1>4. /\ relations' \in Seq(Callers) /\ Single(relations')
      /\ \A x : Contains(relations', x) <=> x \in files
  <2>1. IsFiniteSet(files) /\ \A c, d \in files : SameRequest(c, d) => c = d
    BY DEF IndexesFit, FilesFit
  <2>2. QED
    BY <1>1, <1>2, <2>1, ListingOf
<1>5. /\ children' \in Seq(Callers) /\ Single(children')
      /\ \A x : Contains(children', x) <=> x \in Kids \cap ready
  <2>1. IsFiniteSet(Kids \cap ready) /\ Kids \cap ready \subseteq Callers
    BY <1>2, FS_Subset DEF IndexesFit
  <2>2. \A c, d \in Kids \cap ready : SameRequest(c, d) => c = d
    BY DEF IndexesFit, Single, Kids, HasChild, Contains
  <2>3. QED
    BY <1>1, <1>3, <2>1, <2>2, ListingOf
<1>6. Related' = files /\ Kids' = Kids \cap ready
  BY <1>2, <1>4, <1>5 DEF Related, Kids, HasRelation, HasChild
<1>7. store' = "open"
  <2>1. CASE Callers = {}
    BY <1>1, <1>4, <1>5, <2>1 DEF Initialize, RebuildThrows, HasDuplicate, Duplicate
  <2>2. CASE \E c \in Callers : TRUE
    BY <1>4, <1>5, <2>2, SingleIndexed DEF Initialize, RebuildThrows
  <2>3. QED
    BY <2>1, <2>2
<1>8. TypeOK'
  BY <1>1, <1>4, <1>5, <1>7 DEF TypeOK
<1>9. CallsAlone'
  BY <1>1 DEF CallsAlone
<1>10. \A c \in Callers : pc[c] \notin InFlight
  BY <1>1 DEF TracesFit, Trace
<1>11. TracesFit'
  <2> SUFFICES ASSUME NEW c \in Callers PROVE Trace(c)'
    BY DEF TracesFit
  <2>1. Trace(c)
    BY DEF TracesFit
  <2>2. QED
    BY <1>1, <1>6, <1>7, <1>10, <2>1 DEF Trace, InFlight
<1>12. FilesFit'
  BY <1>1, <1>6, <1>10 DEF FilesFit, InFlight
<1>13. IndexesFit'
  <2>1. IsFiniteSet(Kids')
    BY <1>6, FS_Subset DEF IndexesFit
  <2>2. QED
    BY <1>1, <1>4, <1>5, <1>7, <2>1 DEF IndexesFit, StoreReopens
<1>14. UndisturbedFit'
  <2> SUFFICES ASSUME leaked = {}, NEW c \in Callers PROVE Undisturbed(c)'
    BY <1>1 DEF UndisturbedFit
  <2>1. Undisturbed(c)
    BY DEF UndisturbedFit
  <2>2. QED
    BY <1>1, <1>6, <1>10, <2>1 DEF Undisturbed, Built, InFlight
<1>15. QED
  BY <1>8, <1>9, <1>11, <1>12, <1>13, <1>14

-----------------------------------------------------------------------------
(* The theorems. *)

LEMMA StartStep ==
  ASSUME ~Overlap
  PROVE  StartInv /\ [Next]_vars => StartInv'
<1> SUFFICES ASSUME StartInv, [Next]_vars PROVE StartInv'
  OBVIOUS
<1>1. ASSUME NEW c \in Callers,
             \/ Lookup(c) \/ CreateProvisional(c) \/ CheckRelation(c)
             \/ WriteRelation(c) \/ ApplyRelation(c) \/ OpenSession(c)
             \/ CommitNative(c) \/ Publish(c)
             \/ Cleanup(c) \/ Forget(c) \/ RemoveChild(c)
      PROVE  StartInv'
  BY <1>1, LookupKeeps, CreateKeeps, QuietKeeps, WriteKeeps, ApplyKeeps, PublishKeeps, RemovalKeeps
<1>2. CASE Crash
  BY <1>2, CrashKeeps
<1>3. CASE Initialize
  BY <1>3, InitializeKeeps
<1>4. CASE UNCHANGED vars
  <2>1. UNCHANGED <<Related, Kids>>
    BY <1>4 DEF vars, Related, Kids, HasRelation, HasChild
  <2>2. TypeOK' /\ CallsAlone'
    BY <1>4 DEF vars, StartInv, TypeOK, CallsAlone
  <2>3. TracesFit' /\ FilesFit'
    BY <1>4, <2>1 DEF vars, StartInv, TracesFit, Trace, FilesFit
  <2>4. IndexesFit' /\ UndisturbedFit'
    BY <1>4, <2>1 DEF vars, StartInv, IndexesFit, StoreReopens, UndisturbedFit, Undisturbed
  <2>5. QED
    BY <2>2, <2>3, <2>4 DEF StartInv
<1>5. QED
  BY <1>1, <1>2, <1>3, <1>4 DEF Next

\* StartInv is inductive while calls with one key do not overlap.
THEOREM StartsAreApart ==
  ASSUME ~Overlap
  PROVE  Spec => []StartInv
<1>1. QED
  BY StartInit, StartStep, PTL DEF Spec

\* The variables have their types.
THEOREM SerialTypeCorrect ==
  ASSUME ~Overlap
  PROVE  Spec => []TypeOK
<1>1. StartInv => TypeOK
  BY DEF StartInv
<1>2. QED
  BY <1>1, StartsAreApart, PTL

\* Whatever a start leaves on disk when the process dies, initialize() meets no
\* duplicate Request ID, if starts with one key do not overlap.
THEOREM SerialStoreReopens ==
  ASSUME ~Overlap
  PROVE  Spec => []StoreReopens
<1>1. StartInv => StoreReopens
  BY DEF StartInv, IndexesFit
<1>2. QED
  BY <1>1, StartsAreApart, PTL

\* Repeating a delegation never creates a second child.
THEOREM SerialOneChild ==
  ASSUME ~Overlap
  PROVE  Spec => []OneChildPerKey
<1>1. StartInv => OneChildPerKey
  BY DEF StartInv, CallsAlone, OneChildPerKey
<1>2. QED
  BY <1>1, StartsAreApart, PTL

\* A start that failed in order leaves neither relation nor record, nor a session but
\* one whose close failed.
THEOREM SerialFailureIsClean ==
  ASSUME ~Overlap
  PROVE  Spec => []FailedStartLeavesNothing
<1>1. StartInv => FailedStartLeavesNothing
  <2> SUFFICES ASSUME StartInv, NEW c \in Callers, pc[c] = "failed", c \notin leaked
               PROVE  /\ ~HasRelation(c) /\ c \notin files /\ ~HasChild(c)
                      /\ c \in sessions => c \in unclosed
    BY DEF FailedStartLeavesNothing
  <2>1. Trace(c)
    BY DEF StartInv, TracesFit
  <2>2. QED
    BY <2>1 DEF Trace, Built, Related, Kids
<1>2. QED
  BY <1>1, StartsAreApart, PTL

\* While nothing was disturbed, whoever succeeds has a child that is ready, its own or
\* that of the call it repeats.
THEOREM SerialSuccessHasChild ==
  ASSUME ~Overlap
  PROVE  Spec => []UndisturbedSuccessHasChild
<1>1. StartInv => UndisturbedSuccessHasChild
  <2> SUFFICES ASSUME StartInv, leaked = {} PROVE SuccessHasChild
    BY DEF UndisturbedSuccessHasChild
  <2>1. \A c \in Callers : Undisturbed(c)
    BY DEF StartInv, UndisturbedFit
  <2>2. \A c \in Callers : pc[c] = "done" => HasChild(c) /\ c \in ready
    BY <2>1 DEF Undisturbed, Built, Kids
  <2>3. \A c \in Callers : pc[c] = "existing" => HasChild(owner[c]) /\ owner[c] \in ready
    BY <2>1, <2>2 DEF Undisturbed
  <2>4. QED
    BY <2>2, <2>3 DEF SuccessHasChild
<1>2. QED
  BY <1>1, StartsAreApart, PTL
=============================================================================
