---------------------------- MODULE SharingProofs ---------------------------
(***************************************************************************)
(* Proofs about what Host processes share: the control socket and the      *)
(* Threads of its owner.                                                   *)
(*                                                                         *)
(* SocketLock, for any number of contenders: the types; that recovery of   *)
(* abandoned registers takes no register of a call that is under way       *)
(* within its lease; and mutual exclusion.                                 *)
(*                                                                         *)
(* SharedThreads, for any number of GUIs, calls, messages, questions and   *)
(* broken links: the types; that a message starts one Turn; that all GUIs  *)
(* show the questions that the Host has open; and that what a GUI is told  *)
(* of a message is true.                                                   *)
(***************************************************************************)
EXTENDS SocketLock, SharedThreads, FiniteSetTheorems, SequenceTheorems, TLAPS

-----------------------------------------------------------------------------
(* The lock of the control socket.                                         *)

Registers == [state : {"absent", "choosing", "ticket"}, ticket : Nat]
Removals == [who : Contenders \cup {Nobody}, checked : BOOLEAN]
Catalogs == [max : Nat, own : BOOLEAN, blocked : BOOLEAN, unsettled : BOOLEAN]

LEMMA LockTypes ==
  SocketTypeOK <=>
    /\ pc \in [Contenders -> {"idle", "choose", "choosing", "wait", "waiting",
                          "guard", "action", "leave", "done"}]
    /\ register \in [Contenders -> Registers]
    /\ aged \subseteq Contenders
    /\ guard \in Contenders \cup {Earlier, Nobody}
    /\ guardAged \in BOOLEAN
    /\ dead \subseteq Contenders
    /\ todo \in [Contenders -> SUBSET Contenders]
    /\ doomed \in [Contenders -> Removals]
    /\ found \in [Contenders -> Catalogs]
    /\ expired \subseteq Contenders
BY DEF SocketTypeOK, Registers, Removals, Catalogs

LEMMA LockConstants ==
  /\ Absent \in Registers /\ Choosing \in Registers
  /\ \A n \in Nat : Ticket(n) \in Registers
  /\ NoneDoomed \in Removals /\ NothingFound \in Catalogs
  /\ \A d \in Contenders : /\ [who |-> d, checked |-> FALSE] \in Removals
                           /\ [who |-> d, checked |-> FALSE] # NoneDoomed
BY SocketLockAssumption
DEF Absent, Choosing, Ticket, NoneDoomed, NothingFound, Registers, Removals, Catalogs

\* What a register adds to a catalog is a catalog.
LEMMA EnteredTyped ==
  ASSUME SocketTypeOK, NEW c \in Contenders, NEW d \in Contenders
  PROVE  Entered(c, d) \in Catalogs
<1>1. found[c] \in Catalogs /\ register[d].ticket \in Nat
  BY LockTypes DEF Registers
<1>2. /\ (found[c].own \/ d = c) \in BOOLEAN
      /\ (found[c].blocked
           \/ (d # c /\ Precedes(register[c], c, register[d], d))) \in BOOLEAN
  BY <1>1 DEF Catalogs
<1>3. QED
  BY <1>1, <1>2 DEF Entered, Catalogs

-----------------------------------------------------------------------------
LEMMA InitTyped == SocketInit => SocketTypeOK
BY LockConstants, LockTypes DEF SocketInit, Registers

LEMMA ScanTyped ==
  ASSUME SocketTypeOK, NEW c \in Contenders, Scan(c)
  PROVE  SocketTypeOK'
<1>1. CASE List(c)
  BY <1>1, LockTypes DEF List, Goto, SocketTypeOK
<1>2. CASE Recheck(c)
  <2>1. /\ doomed' \in [Contenders -> Removals]
        /\ todo' \in [Contenders -> SUBSET Contenders]
    <3>1. [doomed[c] EXCEPT !.checked = TRUE] \in Removals
      BY LockTypes DEF Removals
    <3>2. \/ /\ doomed' = [doomed EXCEPT
                             ![c] = [doomed[c] EXCEPT !.checked = TRUE]]
             /\ todo' = todo
          \/ /\ doomed' = [doomed EXCEPT ![c] = NoneDoomed]
             /\ todo' = [todo EXCEPT ![c] = todo[c] \ {doomed[c].who}]
      BY <1>2 DEF Recheck
    <3>3. NoneDoomed \in Removals /\ todo[c] \ {doomed[c].who} \in SUBSET Contenders
      BY LockTypes, LockConstants
    <3>4. doomed \in [Contenders -> Removals] /\ todo \in [Contenders -> SUBSET Contenders]
      BY LockTypes
    <3>5. doomed' \in [Contenders -> Removals]
      BY <3>1, <3>2, <3>3, <3>4
    <3>6. todo' \in [Contenders -> SUBSET Contenders]
      BY <3>2, <3>3, <3>4
    <3>7. QED
      BY <3>5, <3>6
  <2>2. found' \in [Contenders -> Catalogs]
    <3>1. [found[c] EXCEPT !.unsettled = pc[c] = "waiting"] \in Catalogs
      <4> DEFINE b == pc[c] = "waiting"
      <4>1. b \in BOOLEAN
        OBVIOUS
      <4> HIDE DEF b
      <4>2. [found[c] EXCEPT !.unsettled = b] \in Catalogs
        BY <4>1, LockTypes DEF Catalogs
      <4>3. QED
        BY <4>2 DEF b
    <3>2. \/ found' = found
          \/ found' = [found EXCEPT
                        ![c] = [found[c] EXCEPT !.unsettled = pc[c] = "waiting"]]
      BY <1>2 DEF Recheck
    <3>3. QED
      BY <3>1, <3>2, LockTypes
  <2>3. QED
    BY <1>2, <2>1, <2>2, LockTypes
    DEF Recheck, SocketTypeOK, Registers, Removals, Catalogs
<1>3. CASE RemoveRegister(c)
  BY <1>3, LockTypes, LockConstants DEF RemoveRegister, SocketTypeOK, Registers, Removals
<1>4. ASSUME NEW d \in Contenders, Read(c, d)
      PROVE  SocketTypeOK'
  <2>1. found' \in [Contenders -> Catalogs]
    BY <1>4, LockTypes, EnteredTyped DEF Read
  <2>2. todo' \in [Contenders -> SUBSET Contenders]
    BY <1>4, LockTypes DEF Read
  <2>3. QED
    BY <1>4, <2>1, <2>2 DEF Read, SocketTypeOK, Catalogs
<1>5. ASSUME NEW d \in Contenders, Suspect(c, d)
      PROVE  SocketTypeOK'
  BY <1>5, LockTypes, LockConstants DEF Suspect, SocketTypeOK, Removals
<1>6. QED
  BY <1>1, <1>2, <1>3, <1>4, <1>5 DEF Scan

LEMMA StepTyped == SocketTypeOK /\ [SocketNext]_socketVars => SocketTypeOK'
<1> SUFFICES ASSUME SocketTypeOK, [SocketNext]_socketVars PROVE SocketTypeOK'
  OBVIOUS
<1>1. ASSUME NEW c \in Contenders, Register(c) PROVE SocketTypeOK'
  BY <1>1, LockTypes, LockConstants DEF Register, Goto, SocketTypeOK, Registers
<1>2. ASSUME NEW c \in Contenders, Scan(c) PROVE SocketTypeOK'
  BY <1>2, ScanTyped
<1>3. ASSUME NEW c \in Contenders, Publish(c) PROVE SocketTypeOK'
  <2>1. Ticket(found[c].max + 1) \in Registers
    BY LockTypes, LockConstants DEF Catalogs
  <2>2. QED
    BY <1>3, <2>1, LockTypes, LockConstants
    DEF Publish, Goto, SocketTypeOK, Registers, Catalogs
<1>4. ASSUME NEW c \in Contenders, Decide(c) PROVE SocketTypeOK'
  <2> DEFINE next == CASE ~found[c].own -> "leave"
                       [] found[c].own /\ (found[c].blocked \/ found[c].unsettled)
                            -> "wait"
                       [] OTHER -> "guard"
  <2>1. next \in {"leave", "wait", "guard"}
    OBVIOUS
  <2>2. pc' = [pc EXCEPT ![c] = next]
    BY <1>4 DEF Decide, Goto
  <2> HIDE DEF next
  <2>3. pc' \in [Contenders -> {"idle", "choose", "choosing", "wait", "waiting",
                             "guard", "action", "leave", "done"}]
    BY <2>1, <2>2, LockTypes
  <2>4. found' \in [Contenders -> Catalogs]
    BY <1>4, LockTypes, LockConstants DEF Decide
  <2>5. QED
    BY <1>4, <2>3, <2>4 DEF Decide, SocketTypeOK, Catalogs
<1>5. ASSUME NEW c \in Contenders,
    GiveUp(c) \/ TakeGuard(c) \/ EndAction(c)
      PROVE  SocketTypeOK'
  <2>1. /\ pc' \in [Contenders -> {"idle", "choose", "choosing", "wait", "waiting",
                              "guard", "action", "leave", "done"}]
        /\ UNCHANGED <<register, aged, dead, todo, doomed, found, expired>>
    BY <1>5, LockTypes DEF GiveUp, TakeGuard, EndAction, Goto
  <2>2. guard' \in Contenders \cup {Earlier, Nobody}
    BY <1>5, LockTypes DEF GiveUp, TakeGuard, EndAction
  <2>3. guardAged' \in BOOLEAN
    BY <1>5, LockTypes DEF GiveUp, TakeGuard, EndAction
  <2>4. QED
    BY <2>1, <2>2, <2>3 DEF SocketTypeOK
<1>6. ASSUME NEW c \in Contenders, Leave(c) PROVE SocketTypeOK'
  BY <1>6, LockTypes, LockConstants DEF Leave, Goto, SocketTypeOK, Registers
<1>7. ASSUME NEW c \in Contenders, Die(c) PROVE SocketTypeOK'
  BY <1>7, LockTypes, LockConstants DEF Die, Goto, SocketTypeOK, Removals, Catalogs
<1>8. ASSUME NEW c \in Contenders, Expire(c) PROVE SocketTypeOK'
  BY <1>8, LockTypes DEF Expire, SocketTypeOK
<1>9. CASE UNCHANGED socketVars
  BY <1>9 DEF socketVars, SocketTypeOK
<1>10. QED
  BY <1>1, <1>2, <1>3, <1>4, <1>5, <1>6, <1>7, <1>8, <1>9 DEF SocketNext, Proceed

\* The fields of the lock keep their types, whatever contenders come, die or
\* outlive their lease.
THEOREM SocketTypeCorrect == SocketSpec => []SocketTypeOK
BY InitTyped, StepTyped, PTL DEF SocketSpec

-----------------------------------------------------------------------------
(* No register of a call within its lease is removed.  Whoever removes one *)
(* judged it some steps earlier; what makes the removal safe is that the   *)
(* judgement stays true: a dead owner stays dead, and a lease that ran out *)
(* ran out for good, even if the register is written anew in between.      *)

DeadHaveEnded == \A c \in dead : pc[c] = "done"

AgedIsExpired == aged \subseteq expired

DoomedForGood ==
  \A c \in Contenders : doomed[c] # NoneDoomed => doomed[c].who \in dead \cup expired

Kept == SocketTypeOK /\ DeadHaveEnded /\ AgedIsExpired /\ DoomedForGood /\ RegisterIsKept

LEMMA InitKept == SocketInit => Kept
BY InitTyped
DEF SocketInit, Kept, DeadHaveEnded, AgedIsExpired, DoomedForGood, RegisterIsKept

\* Reading a catalog.
LEMMA ScanKeeps ==
  ASSUME Kept, NEW c \in Contenders, Scan(c)
  PROVE  DeadHaveEnded' /\ AgedIsExpired' /\ DoomedForGood' /\ RegisterIsKept'
<1> USE DEF Kept
<1>1. CASE List(c)
  BY <1>1, LockTypes
  DEF List, Goto, DeadHaveEnded, AgedIsExpired, DoomedForGood,
      RegisterIsKept,
      Present
<1>2. CASE Recheck(c)
  <2>1. UNCHANGED <<pc, register, aged, dead, expired>>
    BY <1>2 DEF Recheck
  <2>2. \/ doomed' = [doomed EXCEPT ![c].checked = TRUE]
        \/ doomed' = [doomed EXCEPT ![c] = NoneDoomed]
    BY <1>2 DEF Recheck
  <2>3. doomed[c] # NoneDoomed
    BY <1>2 DEF Recheck
  <2>4. \A b \in Contenders :
          doomed'[b] # NoneDoomed => /\ doomed[b] # NoneDoomed
                                     /\ doomed'[b].who = doomed[b].who
    BY <2>2, <2>3, LockTypes DEF Removals
  <2>5. DoomedForGood'
    BY <2>1, <2>4 DEF DoomedForGood
  <2>6. QED
    BY <2>1, <2>5 DEF DeadHaveEnded, AgedIsExpired, RegisterIsKept, Present
<1>3. CASE RemoveRegister(c)
  <2>1. doomed[c] # NoneDoomed
    BY <1>3 DEF RemoveRegister, NoneDoomed
  <2>2. doomed[c].who \in dead \cup expired
    BY <2>1 DEF DoomedForGood
  <2>3. DeadHaveEnded' /\ AgedIsExpired'
    BY <1>3 DEF RemoveRegister, DeadHaveEnded, AgedIsExpired
  <2>4. DoomedForGood'
    BY <1>3, LockTypes DEF RemoveRegister, DoomedForGood
  <2>5. RegisterIsKept'
    BY <1>3, <2>2, LockTypes DEF RemoveRegister, RegisterIsKept, DeadHaveEnded, Present
  <2>6. QED
    BY <2>3, <2>4, <2>5
<1>4. ASSUME NEW d \in Contenders, Read(c, d)
      PROVE  DeadHaveEnded' /\ AgedIsExpired' /\ DoomedForGood' /\ RegisterIsKept'
  BY <1>4
  DEF Read, DeadHaveEnded, AgedIsExpired, DoomedForGood, RegisterIsKept,
      Present
<1>5. ASSUME NEW d \in Contenders, Suspect(c, d)
      PROVE  DeadHaveEnded' /\ AgedIsExpired' /\ DoomedForGood' /\ RegisterIsKept'
  <2>1. d \in dead \cup expired
    BY <1>5 DEF Suspect, Abandoned, AgedIsExpired
  <2>2. DoomedForGood'
    BY <1>5, <2>1, LockTypes DEF Suspect, DoomedForGood
  <2>3. QED
    BY <1>5, <2>2
    DEF Suspect, DeadHaveEnded, AgedIsExpired, RegisterIsKept, Present
<1>6. QED
  BY <1>1, <1>2, <1>3, <1>4, <1>5 DEF Scan

LEMMA StepKeeps == Kept /\ [SocketNext]_socketVars => Kept'
<1> SUFFICES ASSUME Kept, [SocketNext]_socketVars PROVE Kept'
  OBVIOUS
<1> USE DEF Kept
<1>1. SocketTypeOK'
  BY StepTyped
<1> DEFINE Rest == DeadHaveEnded /\ AgedIsExpired /\ DoomedForGood /\ RegisterIsKept
<1>2. ASSUME NEW c \in Contenders, Scan(c) PROVE Rest'
  BY <1>2, ScanKeeps
<1>3. ASSUME NEW c \in Contenders, Register(c) PROVE Rest'
  BY <1>3, LockTypes
  DEF Register, Goto, Choosing, Present, DeadHaveEnded,
      AgedIsExpired,
      DoomedForGood, RegisterIsKept
<1>4. ASSUME NEW c \in Contenders, Publish(c) PROVE Rest'
  <2>1. /\ UNCHANGED <<dead, doomed, expired>> /\ aged' \subseteq aged
        /\ pc[c] = "choosing"
        /\ \A b \in Contenders : b # c => pc'[b] = pc[b] /\ register'[b] = register[b]
    BY <1>4, LockTypes DEF Publish, Goto
  <2>2. register'[c].state = "ticket"
    BY <1>4, LockTypes DEF Publish, Ticket
  <2>3. DeadHaveEnded' /\ AgedIsExpired' /\ DoomedForGood'
    BY <2>1, LockTypes DEF DeadHaveEnded, AgedIsExpired, DoomedForGood
  <2>4. RegisterIsKept'
    BY <2>1, <2>2 DEF RegisterIsKept, Present
  <2>5. QED
    BY <2>3, <2>4
<1>5. ASSUME NEW c \in Contenders,
             Decide(c) \/ GiveUp(c) \/ TakeGuard(c) \/ EndAction(c)
      PROVE  Rest'
  <2>1. /\ UNCHANGED <<register, aged, dead, doomed, expired>>
        /\ pc[c] \notin {"idle", "done"}
        /\ \A b \in Contenders : b # c => pc'[b] = pc[b]
    BY <1>5, LockTypes DEF Decide, GiveUp, TakeGuard, EndAction,
                       Goto
  <2>2. DeadHaveEnded'
    BY <2>1, LockTypes DEF DeadHaveEnded
  <2>3. QED
    BY <2>1, <2>2 DEF AgedIsExpired, DoomedForGood, RegisterIsKept, Present
<1>6. ASSUME NEW c \in Contenders, Leave(c) PROVE Rest'
  BY <1>6, LockTypes
  DEF Leave, Goto, Absent, Present, DeadHaveEnded,
      AgedIsExpired, DoomedForGood,
      RegisterIsKept
<1>7. ASSUME NEW c \in Contenders, Die(c) PROVE Rest'
  BY <1>7, LockTypes
  DEF Die, Goto, Present, DeadHaveEnded, AgedIsExpired, DoomedForGood,
      RegisterIsKept
<1>8. ASSUME NEW c \in Contenders, Expire(c) PROVE Rest'
  BY <1>8
  DEF Expire, Present, DeadHaveEnded, AgedIsExpired, DoomedForGood,
      RegisterIsKept
<1>9. ASSUME UNCHANGED socketVars PROVE Rest'
  BY <1>9
  DEF socketVars, Present, DeadHaveEnded, AgedIsExpired, DoomedForGood,
      RegisterIsKept
<1>10. QED
  BY <1>1, <1>2, <1>3, <1>4, <1>5, <1>6, <1>7, <1>8, <1>9 DEF SocketNext, Proceed

\* While a call is under way within its lease, its register is there, whoever
\* cleans up the registers of others.
THEOREM RegistersAreKept == SocketSpec => []RegisterIsKept
<1>1. Kept => RegisterIsKept
  BY DEF Kept
<1>2. QED
  BY InitKept, StepKeeps, <1>1, PTL DEF SocketSpec

-----------------------------------------------------------------------------
(* Mutual exclusion.  Of two calls within their leases, one that has passed*)
(* the other in its catalog precedes it for as long as both are in the     *)
(* lock: the other has still to read the register of the first, or has     *)
(* seen its ticket, or has drawn a later one.                              *)

\* The register says where its owner is.
Linked ==
  \A c \in Contenders \ expired :
    /\ pc[c] \in {"choose", "choosing"} => register[c] = Choosing
    /\ pc[c] \in {"wait", "waiting", "guard", "action", "leave"} =>
         register[c].state = "ticket"

\* i has read that j does not keep it waiting.
Overtook(i, j) ==
  \/ pc[i] \in {"guard", "action"}
  \/ pc[i] = "waiting" /\ j \notin todo[i] /\ ~found[i].blocked

Later(i, j) ==
  \/ register[i].ticket < register[j].ticket
  \/ register[i].ticket = register[j].ticket /\ i < j

\* j comes after i, or will when it draws its ticket.
Follows(i, j) ==
  \/ pc[j] \in {"idle", "choose", "leave", "done"}
  \/ /\ pc[j] = "choosing"
     /\ i \in todo[j] \/ register[i].ticket <= found[j].max
  \/ pc[j] \in {"wait", "waiting", "guard", "action"} /\ Later(i, j)

Ordered ==
  \A i, j \in Contenders \ expired : i # j /\ Overtook(i, j) => Follows(i, j)

Bakery == Kept /\ Linked /\ Ordered

LEMMA InitBakery == SocketInit => Bakery
BY InitKept DEF SocketInit, Bakery, Linked, Ordered, Overtook

LEMMA StepLinked == Bakery /\ [SocketNext]_socketVars => Linked'
<1> SUFFICES ASSUME Bakery, [SocketNext]_socketVars PROVE Linked'
  OBVIOUS
<1> USE DEF Bakery, Kept
<1>1. ASSUME NEW c \in Contenders, Scan(c) PROVE Linked'
  <2>1. CASE List(c)
    BY <2>1, LockTypes DEF List, Goto, Linked
  <2>2. CASE Recheck(c)
    BY <2>2 DEF Recheck, Linked
  <2>3. CASE RemoveRegister(c)
    <3>1. doomed[c].who \in dead \cup expired
      BY <2>3 DEF RemoveRegister, NoneDoomed, DoomedForGood
    <3>2. QED
      BY <2>3, <3>1, LockTypes DEF RemoveRegister, Linked, DeadHaveEnded
  <2>4. ASSUME NEW d \in Contenders, Read(c, d) \/ Suspect(c, d) PROVE Linked'
    BY <2>4 DEF Read, Suspect, Linked
  <2>5. QED
    BY <1>1, <2>1, <2>2, <2>3, <2>4 DEF Scan
<1>2. ASSUME NEW c \in Contenders, Register(c) \/ Leave(c) PROVE Linked'
  BY <1>2, LockTypes DEF Register, Leave, Goto, Linked
<1>3. ASSUME NEW c \in Contenders, Publish(c) PROVE Linked'
  <2>1. /\ expired' = expired /\ pc'[c] = "wait" /\ register'[c].state = "ticket"
        /\ \A b \in Contenders : b # c => pc'[b] = pc[b] /\ register'[b] = register[b]
    BY <1>3, LockTypes DEF Publish, Goto, Ticket
  <2>2. QED
    BY <2>1 DEF Linked
<1>4. ASSUME NEW c \in Contenders,
             Decide(c) \/ GiveUp(c) \/ TakeGuard(c) \/ EndAction(c)
      PROVE  Linked'
  <2>1. /\ UNCHANGED <<register, expired>>
        /\ pc[c] \in {"wait", "waiting", "guard", "action"}
        /\ pc'[c] \in {"wait", "guard", "action", "leave"}
        /\ \A b \in Contenders : b # c => pc'[b] = pc[b]
    BY <1>4, LockTypes DEF Decide, GiveUp, TakeGuard, EndAction,
                       Goto
  <2>2. QED
    BY <2>1 DEF Linked
<1>5. ASSUME NEW c \in Contenders, Die(c) \/ Expire(c) PROVE Linked'
  BY <1>5, LockTypes DEF Die, Expire, Goto, Linked
<1>6. ASSUME UNCHANGED socketVars PROVE Linked'
  BY <1>6 DEF socketVars, Linked
<1>7. QED
  BY <1>1, <1>2, <1>3, <1>4, <1>5, <1>6 DEF SocketNext, Proceed

\* Reading a catalog keeps the order.
LEMMA ScanOrders ==
  ASSUME Bakery, NEW c \in Contenders, Scan(c)
  PROVE  Ordered'
<1> USE DEF Bakery, Kept
<1> SUFFICES ASSUME NEW i \in Contenders, NEW j \in Contenders,
                    i \notin expired', j \notin expired', i # j, Overtook(i, j)'
             PROVE  Follows(i, j)'
  BY DEF Ordered
<1>1. CASE List(c)
  <2>1. /\ UNCHANGED <<register, found, expired>>
        /\ \A b \in Contenders : b # c => pc'[b] = pc[b] /\ todo'[b] = todo[b]
        /\ todo'[c] = {d \in Contenders : Present(d)}
        /\ \/ pc[c] = "choose" /\ pc'[c] = "choosing"
           \/ pc[c] = "wait" /\ pc'[c] = "waiting"
    BY <1>1, LockTypes DEF List, Goto
  <2>2. CASE c = i
    <3>1. ~Present(j) /\ pc'[j] = pc[j]
      BY <2>1, <2>2 DEF Overtook
    <3>2. pc[j] \in {"idle", "done"}
      BY <2>1, <3>1 DEF RegisterIsKept
    <3>3. QED
      BY <3>1, <3>2 DEF Follows
  <2>3. CASE c = j
    <3>1. Overtook(i, j) /\ Present(i)
      BY <2>1, <2>3 DEF Overtook, RegisterIsKept
    <3>2. i \in todo'[j]
      BY <2>1, <2>3, <3>1
    <3>3. QED
      BY <2>1, <2>3, <3>1, <3>2 DEF Ordered, Follows, Later
  <2>4. CASE c # i /\ c # j
    BY <2>1, <2>4 DEF Ordered, Overtook, Follows, Later
  <2>5. QED
    BY <2>2, <2>3, <2>4
<1>2. CASE Recheck(c) \/ RemoveRegister(c)
  <2> DEFINE d == doomed[c].who
  <2>1. d \in dead \cup expired
    BY <1>2 DEF Recheck, RemoveRegister, NoneDoomed, DoomedForGood
  <2>2. /\ UNCHANGED <<pc, expired>>
        /\ \A b \in Contenders \ {d} : register'[b] = register[b]
        /\ \A b \in Contenders : todo'[b] \in {todo[b], todo[b] \ {d}}
        /\ \A b \in Contenders : /\ found'[b].blocked = found[b].blocked
                                 /\ found'[b].max = found[b].max
    <3>1. CASE Recheck(c)
      <4>1. UNCHANGED <<pc, expired, register>>
        BY <3>1 DEF Recheck
      <4>2. todo' = todo \/ todo' = [todo EXCEPT ![c] = @ \ {d}]
        BY <3>1 DEF Recheck
      <4>3. found' = found \/ found' = [found EXCEPT ![c].unsettled = pc[c] = "waiting"]
        BY <3>1 DEF Recheck
      <4>4. \A b \in Contenders : todo'[b] \in {todo[b], todo[b] \ {d}}
        BY <4>2, LockTypes
      <4>5. \A b \in Contenders : /\ found'[b].blocked = found[b].blocked
                                  /\ found'[b].max = found[b].max
        BY <4>3, LockTypes DEF Catalogs
      <4>6. QED
        BY <4>1, <4>4, <4>5
    <3>2. CASE RemoveRegister(c)
      BY <3>2, LockTypes DEF RemoveRegister, Catalogs
    <3>3. QED
      BY <1>2, <3>1, <3>2
  <2>3. i # d /\ (j = d => pc[j] = "done")
    BY <2>1, <2>2 DEF DeadHaveEnded, Overtook
  <2>4. CASE j = d
    BY <2>2, <2>3, <2>4 DEF Follows
  <2>5. CASE j # d
    <3>1. Overtook(i, j)
      BY <2>2, <2>5 DEF Overtook
    <3>2. QED
      BY <2>2, <2>3, <2>5, <3>1 DEF Ordered, Follows, Later
  <2>6. QED
    BY <2>4, <2>5
<1>3. ASSUME NEW d \in Contenders, Read(c, d)
      PROVE  Follows(i, j)'
  <2>1. /\ UNCHANGED <<pc, register, expired>>
        /\ pc[c] \in {"choosing", "waiting"}
        /\ \A b \in Contenders : b # c => todo'[b] = todo[b] /\ found'[b] = found[b]
        /\ todo'[c] = todo[c] \ {d}
        /\ found'[c] = IF Present(d) THEN Entered(c, d) ELSE found[c]
    BY <1>3, LockTypes DEF Read, Scanning
  <2>2. CASE c # i /\ c # j
    BY <2>1, <2>2 DEF Ordered, Overtook, Follows, Later
  <2>3. CASE c = i /\ pc[i] = "waiting"
    <3>1. CASE d # j
      <4>1. ~found[i].blocked /\ j \notin todo[i]
        BY <2>1, <2>3, <3>1, LockTypes DEF Overtook, Entered, Catalogs
      <4>2. Overtook(i, j)
        BY <2>3, <4>1 DEF Overtook
      <4>3. QED
        BY <2>1, <2>3, <4>2 DEF Ordered, Follows, Later
    <3>2. CASE d = j /\ ~Present(j)
      BY <2>1, <3>2 DEF RegisterIsKept, Follows
    <3>3. CASE d = j /\ Present(j)
      <4>1. ~Precedes(register[i], i, register[j], j)
        BY <2>1, <2>3, <3>3, LockTypes DEF Overtook, Entered, Catalogs
      <4>2. register[j].state = "ticket" /\ Later(i, j)
        BY <3>3, <4>1, LockTypes, SocketLockAssumption
        DEF Precedes, Later, Present, Registers
      <4>3. pc[j] \notin {"choose", "choosing"}
        BY <2>1, <4>2 DEF Linked, Choosing
      <4>4. QED
        BY <2>1, <4>2, <4>3, LockTypes DEF Follows, Later
    <3>4. QED
      BY <3>1, <3>2, <3>3
  <2>4. CASE c = i /\ pc[i] # "waiting"
    BY <2>1, <2>4 DEF Overtook
  <2>5. CASE c = j
    <3>1. Overtook(i, j) /\ Present(i)
      BY <2>1, <2>5 DEF Overtook, RegisterIsKept
    <3>2. CASE pc[j] # "choosing"
      BY <2>1, <3>1, <3>2 DEF Ordered, Follows, Later
    <3>3. CASE pc[j] = "choosing" /\ d = i
      <4>1. register[i].ticket <= found'[j].max
        BY <2>1, <2>5, <3>1, <3>3, LockTypes DEF Entered, Catalogs, Registers
      <4>2. QED
        BY <2>1, <3>3, <4>1 DEF Follows
    <3>4. CASE pc[j] = "choosing" /\ d # i
      <4>1. i \in todo[j] \/ register[i].ticket <= found[j].max
        BY <2>1, <3>1, <3>4 DEF Ordered, Follows
      <4>2. found[j].max <= found'[j].max /\ found'[j].max \in Nat
        BY <2>1, <2>5, <3>4, LockTypes DEF Entered, Catalogs, Registers
      <4>3. i \in todo'[j] \/ register[i].ticket <= found'[j].max
        BY <2>1, <2>5, <3>4, <4>1, <4>2, LockTypes DEF Registers, Catalogs
      <4>4. QED
        BY <2>1, <3>4, <4>3 DEF Follows
    <3>5. QED
      BY <3>2, <3>3, <3>4
  <2>6. QED
    BY <2>2, <2>3, <2>4, <2>5
<1>4. ASSUME NEW d \in Contenders, Suspect(c, d)
      PROVE  Follows(i, j)'
  BY <1>4 DEF Suspect, Ordered, Overtook, Follows, Later
<1>5. QED
  BY <1>1, <1>2, <1>3, <1>4 DEF Scan

\* Everything else a contender does keeps the order.
LEMMA MoveOrders ==
  ASSUME Bakery, NEW c \in Contenders,
         \/ Register(c) \/ Publish(c) \/ Decide(c) \/ GiveUp(c)
         \/ TakeGuard(c)
         \/ EndAction(c) \/ Leave(c) \/ Die(c) \/ Expire(c)
  PROVE  Ordered'
<1> USE DEF Bakery, Kept
<1> SUFFICES ASSUME NEW i \in Contenders, NEW j \in Contenders,
                    i \notin expired', j \notin expired', i # j, Overtook(i, j)'
             PROVE  Follows(i, j)'
  BY DEF Ordered
<1>1. CASE Register(c) \/ Leave(c) \/ Die(c)
  <2>1. /\ pc'[c] \in {"choose", "done"} /\ expired' = expired
        /\ \A b \in Contenders : b # c => /\ pc'[b] = pc[b]
                                          /\ register'[b] = register[b]
                                          /\ todo'[b] = todo[b]
                                          /\ found'[b] = found[b]
    BY <1>1, LockTypes DEF Register, Leave, Die, Goto
  <2>2. c # i
    BY <2>1 DEF Overtook
  <2>3. CASE c = j
    BY <2>1, <2>3 DEF Follows
  <2>4. CASE c # j
    BY <2>1, <2>2, <2>4 DEF Ordered, Overtook, Follows, Later
  <2>5. QED
    BY <2>3, <2>4
<1>2. CASE Publish(c)
  <2>1. /\ pc[c] = "choosing" /\ pc'[c] = "wait" /\ expired' = expired
        /\ todo[c] = {} /\ todo' = todo
        /\ register'[c].ticket = found[c].max + 1
        /\ \A b \in Contenders : b # c => /\ pc'[b] = pc[b]
                                          /\ register'[b] = register[b]
                                          /\ found'[b] = found[b]
    BY <1>2, LockTypes DEF Publish, ScanDone, Goto, Ticket
  <2>2. c # i /\ Overtook(i, j)
    BY <2>1 DEF Overtook
  <2>3. CASE c = j
    <3>1. register[i].ticket <= found[j].max
      BY <2>1, <2>2, <2>3 DEF Ordered, Follows
    <3>2. Later(i, j)'
      BY <2>1, <2>2, <2>3, <3>1, LockTypes DEF Later, Registers, Catalogs
    <3>3. QED
      BY <2>1, <2>3, <3>2 DEF Follows
  <2>4. CASE c # j
    BY <2>1, <2>2, <2>4 DEF Ordered, Follows, Later
  <2>5. QED
    BY <2>3, <2>4
<1>3. CASE Decide(c) \/ GiveUp(c) \/ TakeGuard(c) \/ EndAction(c)
  <2>1. /\ UNCHANGED <<register, todo, expired>>
        /\ pc[c] \in {"wait", "waiting", "guard", "action"}
        /\ pc'[c] \in {"wait", "guard", "action", "leave"}
        /\ pc'[c] \in {"guard", "action"} =>
             \/ pc[c] = "guard"
             \/ pc[c] = "waiting" /\ todo[c] = {} /\ ~found[c].blocked
        /\ \A b \in Contenders : b # c => pc'[b] = pc[b] /\ found'[b] = found[b]
    BY <1>3, LockTypes
    DEF Decide, GiveUp, TakeGuard, EndAction, ScanDone,
        Goto, Catalogs
  <2>2. Overtook(i, j)
    BY <2>1 DEF Overtook
  <2>3. Follows(i, j)
    BY <2>1, <2>2 DEF Ordered
  <2>4. QED
    BY <2>1, <2>3 DEF Follows, Later
<1>4. CASE Expire(c)
  BY <1>4 DEF Expire, Ordered, Overtook, Follows, Later
<1>5. QED
  BY <1>1, <1>2, <1>3, <1>4

LEMMA StepBakery == Bakery /\ [SocketNext]_socketVars => Bakery'
<1> SUFFICES ASSUME Bakery, [SocketNext]_socketVars PROVE Bakery'
  OBVIOUS
<1>1. Kept' /\ Linked'
  BY StepKeeps, StepLinked DEF Bakery
<1>2. Ordered'
  <2>1. ASSUME UNCHANGED socketVars PROVE Ordered'
    BY <2>1 DEF Bakery, socketVars, Ordered, Overtook, Follows, Later
  <2>2. QED
    BY <2>1, ScanOrders, MoveOrders DEF SocketNext, Proceed
<1>3. QED
  BY <1>1, <1>2 DEF Bakery

\* Of any number of contenders that come, die and are cleaned up in any order,
\* no two run their actions at once within their leases.
THEOREM ActionsExclude == SocketSpec => []MutualExclusion
<1>1. Bakery => MutualExclusion
  <2> SUFFICES ASSUME Bakery, NEW i \in Contenders, NEW j \in Contenders,
                      pc[i] = "action", pc[j] = "action", i # j,
                      i \notin expired, j \notin expired
               PROVE  FALSE
    BY DEF MutualExclusion
  <2>1. Later(i, j) /\ Later(j, i)
    BY DEF Bakery, Ordered, Overtook, Follows
  <2>2. QED
    BY <2>1, LockTypes, SocketLockAssumption DEF Bakery, Kept, Later, Registers
<1>2. QED
  BY InitBakery, StepBakery, <1>1, PTL DEF SocketSpec

-----------------------------------------------------------------------------
(* Shared Threads. *)

Occurs(f, seq) == \E n \in DOMAIN seq : seq[n] = f
Request(c) == Frame("request", c)
Once(f, seq) == \A m, n \in DOMAIN seq : seq[m] = f /\ seq[n] = f => m = n

Requests == [kind : {"request"}, of : Calls]
ToHost == Requests \cup [kind : {"answer"}, of : Questions]
Replies == [kind : {"ok", "error", "unknown"}, of : Calls]
Events == [kind : {"ask", "resolved"}, of : Questions]
ToGui == Replies \cup Events

(* The types but for those of the frames.                                  *)
DataFit ==
  /\ linked \in SUBSET Viewers
  /\ shown \in [Viewers -> SUBSET Questions]
  /\ answers \in SUBSET (Viewers \X Questions)
  /\ call \in [Calls -> [state : {"new", "sent", "ok", "error", "unknown"},
                       by : Viewers \cup {None}, input : Inputs \cup {None}]]
  /\ waits \in [Calls -> Calls \cup {None}]
  /\ receipts \in Seq(Calls)
  /\ {accepted, pending, writing, handling, started} \subseteq SUBSET Calls
  /\ held \in [Calls -> {"nothing", "ok", "error", "unknown"}]
  /\ stuck \in SUBSET linked
  /\ open \in SUBSET Questions
  /\ active \in Calls \cup {None}
  /\ question \in [Questions -> {"new", "open", "closed"}]
  /\ forgotten \in SUBSET {MessageOf[c] : c \in Calls}
  /\ stale \in [Viewers -> SUBSET Questions]
  /\ losses \in 0..MaxLosses /\ closed \in BOOLEAN

(* A frame is of a call or of a question, as its kind says.                *)
FramesFit ==
  /\ out \in [Viewers -> Seq(ToHost)] /\ up \in Seq(ToHost)
  /\ inbox \in [Viewers -> Seq(ToGui)] /\ down \in Seq(ToGui)

(* Only so many calls and questions were made up so far.                   *)
FinitelyMany ==
  /\ IsFiniteSet({c \in Calls : call[c].state # "new"})
  /\ IsFiniteSet({q \in Questions : question[q] # "new"})
  /\ \A c \in Calls :
       /\ waits[c] # None => call[c].state # "new"
       /\ \A v \in Viewers : Occurs(Request(c), out[v]) => call[c].state # "new"
  /\ \A q \in Questions :
       q \in open \/ Occurs(Frame("ask", q), down) => question[q] # "new"

(* Without an owner there is no link, and without a link no frame.         *)
LinksFit ==
  /\ closed => linked = {}
  /\ \A v \in Viewers \ linked :
       out[v] = <<>> /\ inbox[v] = <<>> /\ shown[v] \subseteq stale[v]

TypesInv == DataFit /\ FramesFit /\ FinitelyMany /\ LinksFit

-----------------------------------------------------------------------------
(* What becomes of a request: its GUI sends it, the owner passes it on, the*)
(* Host works at it and replies; each of that once.                        *)

Replied(c) == \E kind \in {"ok", "error", "unknown"} : Occurs(Frame(kind, c), down)
Passed(c) == Occurs(Request(c), up) \/ c \in handling \cup started \/ Replied(c)
Queued(c) == \E v \in Viewers : Occurs(Request(c), out[v])

RequestsInv ==
  /\ \A c \in Calls : call[c].state = "new" => ~Passed(c)
  /\ \A c \in Calls : Queued(c) => ~Passed(c)
  /\ \A c \in Calls, v, w \in Viewers :
       Occurs(Request(c), out[v]) /\ Occurs(Request(c), out[w]) => v = w
  /\ \A c \in Calls, v \in Viewers : Once(Request(c), out[v])
  /\ \A c \in Calls : Once(Request(c), up)
  /\ \A c \in Calls : Occurs(Request(c), up) => c \notin handling \cup started /\ ~Replied(c)
  /\ \A c \in Calls : c \in handling => c \notin started /\ ~Replied(c)
  /\ \A c \in Calls : c \in started => ~Occurs(Frame("error", c), down)

(* A request that starts a Turn, or may do so.                             *)
Effective(c) == Occurs(Request(c), up) \/ c \in handling \cup started

(* A request that is not on its way to the Host and starts no Turn.        *)
Dead(c) == call[c].state # "new" /\ ~Queued(c) /\ ~Effective(c)

(* A refusal that waits for its request to be written is one for good.     *)
HeldInv == \A c \in Calls : held[c] = "error" => Dead(c)

(* A sequence of requests with one for each message.                       *)
OfEachMessage(s) ==
  \A m, n \in DOMAIN s : SameMessage(s[m], s[n]) => m = n

(* One receipt of a message, as long as a request of it may start a Turn   *)
(* or has, unless it was dropped.                                          *)
ReceiptsInv ==
  /\ OfEachMessage(receipts)
  /\ \A c \in Calls :
       Occurs(Request(c), up) \/ c \in handling \cup started =>
         c \in Receipts \/ MessageOf[c] \in forgotten

StartInv == TypesInv /\ RequestsInv /\ HeldInv /\ ReceiptsInv

-----------------------------------------------------------------------------
(* What is said of a question on its way to a GUI.                         *)

(* Each time seq has a question asked, it goes on to close it.             *)
Closes(q, seq) ==
  \A n \in DOMAIN seq :
    seq[n] = Frame("ask", q) => \E m \in DOMAIN seq : n < m /\ seq[m] = Frame("resolved", q)

Asked(q) ==
  \/ q \in open \/ Occurs(Frame("ask", q), down)
  \/ \E v \in Viewers : q \in shown[v] \/ Occurs(Frame("ask", q), inbox[v])

Resolved(q) ==
  \/ Occurs(Frame("resolved", q), down)
  \/ \E v \in Viewers : Occurs(Frame("resolved", q), inbox[v])

(* A frame about a question is not ahead of the Host.                      *)
EventsFit(q) ==
  /\ Asked(q) => question[q] # "new"
  /\ Resolved(q) => question[q] = "closed"

(* An open question is on its way to everybody who does not show it.       *)
OpenFits(q) ==
  question[q] = "open" =>
    \/ Occurs(Frame("ask", q), down)
    \/ q \in open /\ \A v \in linked : q \in shown[v] \/ Occurs(Frame("ask", q), inbox[v])

(* So is the end of one that is closed.                                    *)
ClosedFits(q) ==
  question[q] = "closed" =>
    /\ Closes(q, down)
    /\ q \in open => Occurs(Frame("resolved", q), down)
    /\ Occurs(Frame("resolved", q), down) \/
         \A v \in linked :
           /\ Closes(q, inbox[v])
           /\ q \in shown[v] \ stale[v] => Occurs(Frame("resolved", q), inbox[v])

ViewFits(q) == EventsFit(q) /\ OpenFits(q) /\ ClosedFits(q)

ViewInv == ~closed => \A q \in Questions : ViewFits(q)

-----------------------------------------------------------------------------
(* Frames and sequences of them.                                           *)

(* A frame has the kind and the subject that it was made of.               *)
LEMMA FrameFields ==
  /\ \A kind, of : Frame(kind, of).kind = kind /\ Frame(kind, of).of = of
  /\ \A k, l, x, y : Frame(k, x) = Frame(l, y) <=> k = l /\ x = y
  /\ \A kinds, ofs : \A k \in kinds, x \in ofs : Frame(k, x) \in [kind : kinds, of : ofs]
  /\ \A kinds, ofs : \A f \in [kind : kinds, of : ofs] :
       f.kind \in kinds /\ f.of \in ofs /\ f = Frame(f.kind, f.of)
BY DEF Frame

(* What occurs in a queue that a frame was added to.                       *)
LEMMA OccursAppend ==
  ASSUME NEW S, NEW s \in Seq(S), NEW e \in S
  PROVE  \A f : Occurs(f, Append(s, e)) <=> f = e \/ Occurs(f, s)
<1>1. /\ DOMAIN s = 1 .. Len(s) /\ Len(s) \in Nat
      /\ DOMAIN Append(s, e) = 1 .. Len(s) + 1
      /\ \A i \in 1 .. Len(s) : Append(s, e)[i] = s[i]
      /\ Append(s, e)[Len(s) + 1] = e
  BY AppendProperties, LenProperties
<1> QED BY <1>1 DEF Occurs

(* What occurs in a queue that frames were added to.                       *)
LEMMA OccursConcat ==
  ASSUME NEW S, NEW s \in Seq(S), NEW t \in Seq(S)
  PROVE  \A f : Occurs(f, s \o t) <=> Occurs(f, s) \/ Occurs(f, t)
<1>1. /\ DOMAIN s = 1 .. Len(s) /\ Len(s) \in Nat
      /\ DOMAIN t = 1 .. Len(t) /\ Len(t) \in Nat
      /\ DOMAIN (s \o t) = 1 .. Len(s) + Len(t)
      /\ \A i \in 1 .. Len(s) + Len(t) :
           (s \o t)[i] = IF i <= Len(s) THEN s[i] ELSE t[i - Len(s)]
  BY ConcatProperties, LenProperties
<1> SUFFICES ASSUME NEW f
             PROVE  Occurs(f, s \o t) <=> Occurs(f, s) \/ Occurs(f, t)
  OBVIOUS
<1>2. ASSUME Occurs(f, s \o t) PROVE Occurs(f, s) \/ Occurs(f, t)
  <2>1. PICK n \in 1 .. Len(s) + Len(t) : (s \o t)[n] = f
    BY <1>1, <1>2 DEF Occurs
  <2>2. CASE n <= Len(s)
    BY <1>1, <2>1, <2>2 DEF Occurs
  <2>3. CASE n > Len(s)
    <3>1. n - Len(s) \in 1 .. Len(t) /\ t[n - Len(s)] = f
      BY <1>1, <2>1, <2>3
    <3> QED BY <1>1, <3>1 DEF Occurs
  <2> QED BY <1>1, <2>2, <2>3
<1>3. ASSUME Occurs(f, s) PROVE Occurs(f, s \o t)
  <2>1. PICK n \in 1 .. Len(s) : s[n] = f
    BY <1>1, <1>3 DEF Occurs
  <2>2. n \in 1 .. Len(s) + Len(t) /\ (s \o t)[n] = f
    BY <1>1, <2>1
  <2> QED BY <1>1, <2>2 DEF Occurs
<1>4. ASSUME Occurs(f, t) PROVE Occurs(f, s \o t)
  <2>1. PICK n \in 1 .. Len(t) : t[n] = f
    BY <1>1, <1>4 DEF Occurs
  <2>2. /\ n + Len(s) \in 1 .. Len(s) + Len(t) /\ ~(n + Len(s) <= Len(s))
        /\ (n + Len(s)) - Len(s) = n
    BY <1>1, <2>1
  <2>3. (s \o t)[n + Len(s)] = f
    BY <1>1, <2>1, <2>2
  <2> QED BY <1>1, <2>2, <2>3 DEF Occurs
<1> QED BY <1>2, <1>3, <1>4

(* What occurs in a queue whose first frame was taken.                     *)
LEMMA OccursTail ==
  ASSUME NEW S, NEW s \in Seq(S), s # <<>>
  PROVE  /\ Head(s) \in S /\ Tail(s) \in Seq(S) /\ Occurs(Head(s), s)
         /\ \A f : Occurs(f, s) <=> f = Head(s) \/ Occurs(f, Tail(s))
<1>1. /\ Len(s) \in Nat \ {0} /\ DOMAIN s = 1 .. Len(s)
      /\ Head(s) \in S /\ Tail(s) \in Seq(S) /\ Head(s) = s[1]
      /\ DOMAIN Tail(s) = 1 .. Len(s) - 1
      /\ \A i \in 1 .. Len(s) - 1 : Tail(s)[i] = s[i + 1]
  BY HeadTailProperties, LenProperties, EmptySeq
<1> SUFFICES ASSUME NEW f
             PROVE  /\ Occurs(Head(s), s)
                    /\ Occurs(f, s) <=> f = Head(s) \/ Occurs(f, Tail(s))
  BY <1>1
<1>2. Occurs(Head(s), s)
  BY <1>1 DEF Occurs
<1>3. ASSUME Occurs(f, s), f # Head(s) PROVE Occurs(f, Tail(s))
  <2>1. PICK n \in 1 .. Len(s) : s[n] = f
    BY <1>1, <1>3 DEF Occurs
  <2>2. n - 1 \in 1 .. Len(s) - 1 /\ (n - 1) + 1 = n
    BY <1>1, <1>3, <2>1
  <2>3. Tail(s)[n - 1] = f
    BY <1>1, <2>1, <2>2
  <2> QED BY <1>1, <2>2, <2>3 DEF Occurs
<1>4. ASSUME Occurs(f, Tail(s)) PROVE Occurs(f, s)
  <2>1. PICK n \in 1 .. Len(s) - 1 : Tail(s)[n] = f
    BY <1>1, <1>4 DEF Occurs
  <2>2. n + 1 \in 1 .. Len(s) /\ s[n + 1] = f
    BY <1>1, <2>1
  <2> QED BY <1>1, <2>2 DEF Occurs
<1> QED BY <1>2, <1>3, <1>4

(* Nothing occurs in an empty queue.                                       *)
LEMMA OccursEmpty == \A f : ~Occurs(f, <<>>)
BY DEF Occurs

(* What occurs in a queue is of the set that the queue is over.            *)
LEMMA OccursIn ==
  ASSUME NEW S, NEW s \in Seq(S), NEW f, Occurs(f, s)
  PROVE  f \in S
BY LenProperties, ElementOfSeq DEF Occurs

(* What occurs once, also does when something else is added.               *)
LEMMA OnceAppend ==
  ASSUME NEW S, NEW s \in Seq(S), NEW e \in S, NEW f, Once(f, s),
         f # e \/ ~Occurs(f, s)
  PROVE  Once(f, Append(s, e))
<1>1. /\ DOMAIN s = 1 .. Len(s) /\ Len(s) \in Nat
      /\ DOMAIN Append(s, e) = 1 .. Len(s) + 1
      /\ \A i \in 1 .. Len(s) : Append(s, e)[i] = s[i]
      /\ Append(s, e)[Len(s) + 1] = e
  BY AppendProperties, LenProperties
<1> QED BY <1>1 DEF Occurs, Once

(* What occurs once does not come again, once it was taken.                *)
LEMMA OnceTail ==
  ASSUME NEW S, NEW s \in Seq(S), s # <<>>, NEW f, Once(f, s)
  PROVE  Once(f, Tail(s)) /\ (f = Head(s) => ~Occurs(f, Tail(s)))
<1>1. /\ Len(s) \in Nat \ {0} /\ DOMAIN s = 1 .. Len(s)
      /\ Head(s) = s[1]
      /\ DOMAIN Tail(s) = 1 .. Len(s) - 1
      /\ \A i \in 1 .. Len(s) - 1 : Tail(s)[i] = s[i + 1]
  BY HeadTailProperties, LenProperties, EmptySeq
<1>2. Once(f, Tail(s))
  <2> SUFFICES ASSUME NEW m \in 1 .. Len(s) - 1, NEW n \in 1 .. Len(s) - 1,
                      Tail(s)[m] = f, Tail(s)[n] = f
               PROVE  m = n
    BY <1>1 DEF Once
  <2>1. m + 1 \in 1 .. Len(s) /\ n + 1 \in 1 .. Len(s) /\ s[m + 1] = f /\ s[n + 1] = f
    BY <1>1
  <2> QED BY <1>1, <2>1 DEF Once
<1>3. ASSUME f = Head(s), Occurs(f, Tail(s)) PROVE FALSE
  <2>1. PICK n \in 1 .. Len(s) - 1 : Tail(s)[n] = f
    BY <1>1, <1>3 DEF Occurs
  <2>2. n + 1 \in 1 .. Len(s) /\ 1 \in 1 .. Len(s) /\ s[n + 1] = f /\ s[1] = f
    BY <1>1, <1>3, <2>1
  <2> QED BY <1>1, <2>1, <2>2 DEF Once
<1> QED BY <1>2, <1>3

(* A queue goes on to close a question if the end of the question was the  *)
(* last that was added, or nothing more about asking it.                   *)
LEMMA ClosesAppend ==
  ASSUME NEW S, NEW s \in Seq(S), NEW e \in S, NEW q
  PROVE  /\ e = Frame("resolved", q) => Closes(q, Append(s, e))
         /\ e # Frame("ask", q) /\ Closes(q, s) => Closes(q, Append(s, e))
<1>1. /\ DOMAIN s = 1 .. Len(s) /\ Len(s) \in Nat
      /\ DOMAIN Append(s, e) = 1 .. Len(s) + 1
      /\ \A i \in 1 .. Len(s) : Append(s, e)[i] = s[i]
      /\ Append(s, e)[Len(s) + 1] = e
  BY AppendProperties, LenProperties
<1>2. ASSUME e = Frame("resolved", q) PROVE Closes(q, Append(s, e))
  <2> SUFFICES ASSUME NEW n \in 1 .. Len(s) + 1, Append(s, e)[n] = Frame("ask", q)
               PROVE  \E m \in 1 .. Len(s) + 1 :
                        n < m /\ Append(s, e)[m] = Frame("resolved", q)
    BY <1>1 DEF Closes
  <2>1. e # Frame("ask", q)
    BY <1>2, FrameFields
  <2>2. n < Len(s) + 1
    BY <1>1, <2>1
  <2> QED BY <1>1, <1>2, <2>2
<1>3. ASSUME e # Frame("ask", q), Closes(q, s) PROVE Closes(q, Append(s, e))
  BY <1>1, <1>3 DEF Closes
<1> QED BY <1>2, <1>3

(* The same of two queues, one after the other.                            *)
LEMMA ClosesConcat ==
  ASSUME NEW S, NEW s \in Seq(S), NEW t \in Seq(S), NEW q, Closes(q, t),
         Closes(q, s) \/ Occurs(Frame("resolved", q), t)
  PROVE  Closes(q, s \o t)
<1>1. /\ DOMAIN s = 1 .. Len(s) /\ Len(s) \in Nat
      /\ DOMAIN t = 1 .. Len(t) /\ Len(t) \in Nat
      /\ DOMAIN (s \o t) = 1 .. Len(s) + Len(t)
      /\ \A i \in 1 .. Len(s) + Len(t) :
           (s \o t)[i] = IF i <= Len(s) THEN s[i] ELSE t[i - Len(s)]
  BY ConcatProperties, LenProperties
<1> SUFFICES ASSUME NEW n \in 1 .. Len(s) + Len(t), (s \o t)[n] = Frame("ask", q)
             PROVE  \E m \in 1 .. Len(s) + Len(t) :
                      n < m /\ (s \o t)[m] = Frame("resolved", q)
  BY <1>1 DEF Closes
<1>2. ASSUME NEW m \in 1 .. Len(t), n < m + Len(s), t[m] = Frame("resolved", q)
      PROVE  \E k \in 1 .. Len(s) + Len(t) :
               n < k /\ (s \o t)[k] = Frame("resolved", q)
  <2>1. /\ m + Len(s) \in 1 .. Len(s) + Len(t) /\ ~(m + Len(s) <= Len(s))
        /\ (m + Len(s)) - Len(s) = m
    BY <1>1
  <2> QED BY <1>1, <1>2, <2>1
<1>3. CASE n > Len(s)
  <2>1. n - Len(s) \in 1 .. Len(t) /\ t[n - Len(s)] = Frame("ask", q)
    BY <1>1, <1>3
  <2>2. PICK m \in 1 .. Len(t) : n - Len(s) < m /\ t[m] = Frame("resolved", q)
    BY <1>1, <2>1 DEF Closes
  <2>3. n < m + Len(s)
    BY <1>1, <2>2
  <2> QED BY <1>2, <2>2, <2>3
<1>4. CASE n <= Len(s) /\ Occurs(Frame("resolved", q), t)
  <2>1. PICK m \in 1 .. Len(t) : t[m] = Frame("resolved", q)
    BY <1>1, <1>4 DEF Occurs
  <2>2. n < m + Len(s)
    BY <1>1, <1>4
  <2> QED BY <1>2, <2>1, <2>2
<1>5. CASE n <= Len(s) /\ Closes(q, s)
  <2>1. s[n] = Frame("ask", q) /\ n \in 1 .. Len(s)
    BY <1>1, <1>5
  <2>2. PICK m \in 1 .. Len(s) : n < m /\ s[m] = Frame("resolved", q)
    BY <1>1, <1>5, <2>1 DEF Closes
  <2>3. m \in 1 .. Len(s) + Len(t) /\ (s \o t)[m] = Frame("resolved", q)
    BY <1>1, <2>2
  <2> QED BY <2>2, <2>3
<1> QED BY <1>1, <1>3, <1>4, <1>5

(* A queue that does not ask a question closes it.                         *)
LEMMA ClosesUnasked ==
  ASSUME NEW q, NEW s, ~Occurs(Frame("ask", q), s)
  PROVE  Closes(q, s)
BY DEF Closes, Occurs

(* A queue goes on to close a question when its first frame was taken, and *)
(* if that asked the question, its end is still to come.                   *)
LEMMA ClosesTail ==
  ASSUME NEW S, NEW s \in Seq(S), s # <<>>, NEW q, Closes(q, s)
  PROVE  /\ Closes(q, Tail(s))
         /\ Head(s) = Frame("ask", q) => Occurs(Frame("resolved", q), Tail(s))
<1>1. /\ Len(s) \in Nat \ {0} /\ DOMAIN s = 1 .. Len(s)
      /\ Head(s) = s[1]
      /\ DOMAIN Tail(s) = 1 .. Len(s) - 1
      /\ \A i \in 1 .. Len(s) - 1 : Tail(s)[i] = s[i + 1]
  BY HeadTailProperties, LenProperties, EmptySeq
<1>2. ASSUME NEW n \in 1 .. Len(s), s[n] = Frame("ask", q)
      PROVE  \E m \in 1 .. Len(s) - 1 : n <= m /\ Tail(s)[m] = Frame("resolved", q)
  <2>1. PICK m \in 1 .. Len(s) : n < m /\ s[m] = Frame("resolved", q)
    BY <1>1, <1>2 DEF Closes
  <2>2. m - 1 \in 1 .. Len(s) - 1 /\ n <= m - 1 /\ (m - 1) + 1 = m
    BY <1>1, <2>1
  <2> QED BY <1>1, <2>1, <2>2
<1>3. Closes(q, Tail(s))
  <2> SUFFICES ASSUME NEW n \in 1 .. Len(s) - 1, Tail(s)[n] = Frame("ask", q)
               PROVE  \E m \in 1 .. Len(s) - 1 :
                        n < m /\ Tail(s)[m] = Frame("resolved", q)
    BY <1>1 DEF Closes
  <2>1. n + 1 \in 1 .. Len(s) /\ s[n + 1] = Frame("ask", q)
    BY <1>1
  <2>2. \E m \in 1 .. Len(s) - 1 : n + 1 <= m /\ Tail(s)[m] = Frame("resolved", q)
    BY <1>1, <1>2, <2>1
  <2> QED BY <1>1, <2>2
<1>4. Head(s) = Frame("ask", q) => Occurs(Frame("resolved", q), Tail(s))
  <2>1. 1 \in 1 .. Len(s)
    BY <1>1
  <2> QED BY <1>1, <1>2, <2>1 DEF Occurs
<1> QED BY <1>3, <1>4

-----------------------------------------------------------------------------
(* The operators of the model that make sequences.                         *)

(* SetToSeq lists the elements of a finite set.                            *)
LEMMA Listed ==
  ASSUME NEW S, IsFiniteSet(S)
  PROVE  /\ SetToSeq(S) \in Seq(S)
         /\ \A x : Occurs(x, SetToSeq(S)) <=> x \in S
<1> DEFINE n == Cardinality(S)
<1>1. n \in Nat /\ ExistsBijection(1 .. n, S)
  BY FS_CardinalityType
<1>2. PICK g : g \in Bijection(1 .. n, S)
  BY <1>1 DEF ExistsBijection
<1>3. g \in [1 .. n -> S] /\ IsInjective(g)
  BY <1>2 DEF Bijection, Injection, IsInjective
<1>4. SetToSeq(S) \in [1 .. n -> S] /\ IsInjective(SetToSeq(S))
  BY <1>3 DEF SetToSeq
<1>5. SetToSeq(S) \in Injection(1 .. n, S)
  BY <1>4 DEF Injection, IsInjective
<1>6. Cardinality(1 .. n) = n
  BY <1>1, FS_Interval
<1>7. SetToSeq(S) \in Surjection(1 .. n, S)
  BY <1>5, <1>6, FS_Injection
<1>8. SetToSeq(S) \in Seq(S) /\ DOMAIN SetToSeq(S) = 1 .. n
  BY <1>1, <1>4
<1>9. \A x : Occurs(x, SetToSeq(S)) <=> x \in S
  BY <1>4, <1>7, <1>8 DEF Surjection, Occurs
<1> QED BY <1>8, <1>9

(* Frames of one kind about finitely many subjects.                        *)
LEMMA ListedFrames ==
  ASSUME NEW S, IsFiniteSet(S), NEW kind, NEW T, \A x \in S : Frame(kind, x) \in T
  PROVE  /\ SetToSeq({Frame(kind, x) : x \in S}) \in Seq(T)
         /\ \A f : Occurs(f, SetToSeq({Frame(kind, x) : x \in S}))
                     <=> f \in {Frame(kind, x) : x \in S}
<1> DEFINE F == {Frame(kind, x) : x \in S}
           g == [x \in S |-> Frame(kind, x)]
<1>1. g \in Surjection(S, F)
  BY DEF Surjection
<1>2. IsFiniteSet(F)
  BY <1>1, FS_Surjection
<1>3. F \subseteq T
  OBVIOUS
<1>4. SetToSeq(F) \in Seq(F) /\ \A f : Occurs(f, SetToSeq(F)) <=> f \in F
  BY <1>2, Listed
<1>5. SetToSeq(F) \in Seq(T)
  BY <1>3, <1>4, SeqMonotonic
<1> QED BY <1>4, <1>5

(* The sequence without one of its places.                                 *)
LEMMA RemoveAtPlaces ==
  ASSUME NEW S, NEW s \in Seq(S), NEW i \in 1 .. Len(s)
  PROVE  /\ RemoveAt(s, i) \in Seq(S)
         /\ DOMAIN RemoveAt(s, i) = 1 .. Len(s) - 1
         /\ \A j \in 1 .. Len(s) - 1 :
              RemoveAt(s, i)[j] = IF j < i THEN s[j] ELSE s[j + 1]
<1> DEFINE a == SubSeq(s, 1, i - 1)
           b == SubSeq(s, i + 1, Len(s))
<1>1. Len(s) \in Nat /\ i \in Nat \ {0} /\ i <= Len(s)
      /\ \A j \in 1 .. Len(s) : s[j] \in S
  BY LenProperties, ElementOfSeq
<1>2. /\ a \in Seq(S) /\ Len(a) = i - 1
      /\ \A j \in 1 .. i - 1 : a[j] = s[j]
  <2>1. 1 \in Int /\ i - 1 \in Int /\ \A j \in 1 .. i - 1 : s[j] \in S
    BY <1>1
  <2>2. /\ a \in Seq(S) /\ Len(a) = IF 1 <= i - 1 THEN (i - 1) - 1 + 1 ELSE 0
        /\ \A j \in 1 .. (i - 1) - 1 + 1 : a[j] = s[1 + j - 1]
    BY <2>1, SubSeqProperties DEF a
  <2> QED BY <1>1, <2>2
<1>3. /\ b \in Seq(S) /\ Len(b) = Len(s) - i
      /\ \A j \in 1 .. Len(s) - i : b[j] = s[i + j]
  <2>1. i + 1 \in Int /\ Len(s) \in Int /\ \A j \in i + 1 .. Len(s) : s[j] \in S
    BY <1>1
  <2>2. /\ b \in Seq(S) /\ Len(b) = IF i + 1 <= Len(s) THEN Len(s) - (i + 1) + 1 ELSE 0
        /\ \A j \in 1 .. Len(s) - (i + 1) + 1 : b[j] = s[(i + 1) + j - 1]
    BY <2>1, SubSeqProperties
  <2> QED BY <1>1, <2>2
<1> HIDE DEF a, b
<1>4. /\ a \o b \in Seq(S) /\ DOMAIN (a \o b) = 1 .. Len(s) - 1
      /\ \A j \in 1 .. Len(s) - 1 : (a \o b)[j] = IF j <= i - 1 THEN a[j] ELSE b[j - (i - 1)]
  <2>1. /\ a \o b \in Seq(S) /\ Len(a \o b) = Len(a) + Len(b)
        /\ DOMAIN (a \o b) = 1 .. Len(a \o b)
        /\ \A j \in 1 .. Len(a) + Len(b) :
             (a \o b)[j] = IF j <= Len(a) THEN a[j] ELSE b[j - Len(a)]
    BY <1>2, <1>3, ConcatProperties, LenProperties
  <2>2. Len(a) + Len(b) = Len(s) - 1
    BY <1>1, <1>2, <1>3
  <2> QED BY <1>2, <2>1, <2>2
<1>5. RemoveAt(s, i) = a \o b
  BY DEF RemoveAt, a, b
<1>6. ASSUME NEW j \in 1 .. Len(s) - 1
      PROVE  (a \o b)[j] = IF j < i THEN s[j] ELSE s[j + 1]
  <2>1. CASE j < i
    <3>1. j \in 1 .. i - 1 /\ j <= i - 1
      BY <1>1, <2>1
    <3> QED BY <1>2, <1>4, <2>1, <3>1
  <2>2. CASE ~(j < i)
    <3>1. /\ j - (i - 1) \in 1 .. Len(s) - i /\ ~(j <= i - 1)
          /\ i + (j - (i - 1)) = j + 1
      BY <1>1, <2>2
    <3> QED BY <1>3, <1>4, <2>2, <3>1
  <2> QED BY <2>1, <2>2
<1> QED BY <1>4, <1>5, <1>6

(* #receipts.delete leaves a receipt of each other message.                *)
LEMMA WithoutKeeps ==
  ASSUME receipts \in Seq(Calls), NEW r
  PROVE  /\ Without(r) \in Seq(Calls)
         /\ OfEachMessage(receipts) => OfEachMessage(Without(r))
         /\ \A c : Occurs(c, receipts) /\ ~SameMessage(c, r) => Occurs(c, Without(r))
<1> DEFINE places == {n \in DOMAIN receipts : SameMessage(receipts[n], r)}
<1>1. CASE places = {}
  <2>1. Without(r) = receipts
    BY <1>1 DEF Without
  <2> QED BY <2>1
<1>2. CASE places # {}
  <2>1. PICK i \in places : Without(r) = RemoveAt(receipts, i)
    BY <1>2 DEF Without
  <2>2. DOMAIN receipts = 1 .. Len(receipts) /\ Len(receipts) \in Nat
    BY LenProperties
  <2>3. i \in 1 .. Len(receipts) /\ SameMessage(receipts[i], r)
    BY <2>1, <2>2
  <2>4. /\ Without(r) \in Seq(Calls) /\ DOMAIN Without(r) = 1 .. Len(receipts) - 1
        /\ \A j \in 1 .. Len(receipts) - 1 :
             Without(r)[j] = IF j < i THEN receipts[j] ELSE receipts[j + 1]
    BY <2>1, <2>3, RemoveAtPlaces
  <2>5. ASSUME OfEachMessage(receipts) PROVE OfEachMessage(Without(r))
    <3> SUFFICES ASSUME NEW m \in 1 .. Len(receipts) - 1,
                        NEW n \in 1 .. Len(receipts) - 1,
                        SameMessage(Without(r)[m], Without(r)[n])
                 PROVE  m = n
      BY <2>4 DEF OfEachMessage
    <3> DEFINE from(j) == IF j < i THEN j ELSE j + 1
    <3>1. /\ from(m) \in 1 .. Len(receipts) /\ from(n) \in 1 .. Len(receipts)
          /\ from(m) = from(n) => m = n
      BY <2>2, <2>3
    <3>2. Without(r)[m] = receipts[from(m)] /\ Without(r)[n] = receipts[from(n)]
      BY <2>4
    <3> HIDE DEF from
    <3>3. from(m) = from(n)
      BY <2>2, <2>5, <3>1, <3>2 DEF OfEachMessage
    <3> QED BY <3>1, <3>3
  <2>6. ASSUME NEW c, Occurs(c, receipts), ~SameMessage(c, r)
        PROVE  Occurs(c, Without(r))
    <3>1. PICK n \in 1 .. Len(receipts) : receipts[n] = c
      BY <2>2, <2>6 DEF Occurs
    <3>2. n # i
      BY <2>3, <2>6, <3>1
    <3>3. CASE n < i
      <4>1. n \in 1 .. Len(receipts) - 1
        BY <2>2, <2>3, <3>3
      <4> QED BY <2>4, <3>1, <3>3, <4>1 DEF Occurs
    <3>4. CASE n > i
      <4>1. n - 1 \in 1 .. Len(receipts) - 1 /\ ~(n - 1 < i) /\ (n - 1) + 1 = n
        BY <2>2, <2>3, <3>4
      <4>2. Without(r)[n - 1] = c
        BY <2>4, <3>1, <4>1
      <4> QED BY <2>4, <4>1, <4>2 DEF Occurs
    <3> QED BY <2>2, <2>3, <3>2, <3>3, <3>4
  <2> QED BY <2>4, <2>5, <2>6
<1> QED BY <1>1, <1>2

(* The newest receipts.                                                    *)
LEMMA NewestKeeps ==
  ASSUME NEW s \in Seq(Calls)
  PROVE  /\ Newest(s) \in Seq(Calls)
         /\ OfEachMessage(s) => OfEachMessage(Newest(s))
<1>1. Len(s) \in Nat /\ DOMAIN s = 1 .. Len(s) /\ \A j \in 1 .. Len(s) : s[j] \in Calls
  BY LenProperties, ElementOfSeq
<1>2. MaxReceipts \in Nat \ {0}
  BY SharedThreadsAssumption
<1>3. CASE Len(s) > MaxReceipts
  <2> DEFINE k == Len(s) - MaxReceipts
             t == SubSeq(s, k + 1, Len(s))
  <2>1. /\ k \in Nat /\ k + 1 \in Int /\ Len(s) \in Int /\ Len(s) - (k + 1) + 1 = MaxReceipts
        /\ k + 1 <= Len(s) /\ k + MaxReceipts = Len(s)
        /\ \A j \in k + 1 .. Len(s) : s[j] \in Calls
    BY <1>1, <1>2, <1>3
  <2>2. /\ t \in Seq(Calls) /\ Len(t) = MaxReceipts
        /\ \A j \in 1 .. MaxReceipts : t[j] = s[(k + 1) + j - 1]
    <3> HIDE DEF k
    <3> QED BY <2>1, SubSeqProperties
  <2> HIDE DEF t, k
  <2>3. DOMAIN t = 1 .. MaxReceipts
    BY <2>2, LenProperties
  <2>4. ASSUME NEW j \in 1 .. MaxReceipts
        PROVE  j + k \in 1 .. Len(s) /\ t[j] = s[j + k]
    <3>1. j + k \in 1 .. Len(s) /\ (k + 1) + j - 1 = j + k
      BY <1>1, <1>2, <2>1
    <3> QED BY <2>2, <3>1
  <2>5. ASSUME OfEachMessage(s),
               NEW m \in 1 .. MaxReceipts, NEW n \in 1 .. MaxReceipts,
               SameMessage(t[m], t[n])
        PROVE  m = n
    <3>1. m + k = n + k
      BY <1>1, <2>4, <2>5 DEF OfEachMessage
    <3> QED BY <1>2, <2>1, <3>1
  <2>6. OfEachMessage(s) => OfEachMessage(t)
    BY <2>3, <2>5 DEF OfEachMessage
  <2>7. Newest(s) = t
    BY <1>3 DEF Newest, t, k
  <2> QED BY <2>2, <2>6, <2>7
<1>4. CASE ~(Len(s) > MaxReceipts)
  BY <1>4 DEF Newest
<1> QED BY <1>3, <1>4

-----------------------------------------------------------------------------
(* The types.                                                              *)

(* What a frame is about.                                                  *)
LEMMA FrameKinds ==
  /\ \A c \in Calls : Request(c) \in ToHost
  /\ \A q \in Questions : Frame("answer", q) \in ToHost
  /\ \A c \in Calls, kind \in {"ok", "error", "unknown"} : Frame(kind, c) \in ToGui
  /\ \A q \in Questions : Frame("ask", q) \in ToGui /\ Frame("resolved", q) \in ToGui
  /\ \A f \in ToHost :
       \/ f.kind = "request" /\ f.of \in Calls /\ f = Request(f.of)
       \/ f.kind = "answer" /\ f.of \in Questions /\ f = Frame("answer", f.of)
  /\ \A f \in ToGui :
       \/ /\ f.kind \in {"ok", "error", "unknown"} /\ f.of \in Calls
          /\ f = Frame(f.kind, f.of)
       \/ f.kind \in {"ask", "resolved"} /\ f.of \in Questions /\ f = Frame(f.kind, f.of)
<1>1. /\ \A c \in Calls : Request(c) \in ToHost
      /\ \A q \in Questions : Frame("answer", q) \in ToHost
  BY DEF Frame, Request, ToHost, Requests
<1>2. /\ \A c \in Calls, kind \in {"ok", "error", "unknown"} : Frame(kind, c) \in ToGui
      /\ \A q \in Questions : Frame("ask", q) \in ToGui /\ Frame("resolved", q) \in ToGui
  BY DEF Frame, ToGui, Replies, Events
<1>3. ASSUME NEW f \in ToHost
      PROVE  \/ f.kind = "request" /\ f.of \in Calls /\ f = Request(f.of)
             \/ f.kind = "answer" /\ f.of \in Questions /\ f = Frame("answer", f.of)
  <2>1. CASE f \in Requests
    BY <2>1 DEF Frame, Request, Requests
  <2>2. CASE f \in [kind : {"answer"}, of : Questions]
    BY <2>2 DEF Frame
  <2> QED BY <2>1, <2>2 DEF ToHost
<1>4. ASSUME NEW f \in ToGui
      PROVE  \/ /\ f.kind \in {"ok", "error", "unknown"} /\ f.of \in Calls
                /\ f = Frame(f.kind, f.of)
             \/ /\ f.kind \in {"ask", "resolved"} /\ f.of \in Questions
                /\ f = Frame(f.kind, f.of)
  <2>1. CASE f \in Replies
    BY <2>1 DEF Frame, Replies
  <2>2. CASE f \in Events
    BY <2>2 DEF Frame, Events
  <2> QED BY <2>1, <2>2 DEF ToGui
<1> QED BY <1>1, <1>2, <1>3, <1>4

(* Frames that fit are of the types.                                       *)
LEMMA FramesTyped ==
  /\ ToHost \subseteq [kind : {"request", "answer"}, of : Calls \cup Questions]
  /\ ToGui \subseteq
       [kind : {"ok", "error", "unknown", "ask", "resolved"}, of : Calls \cup Questions]
  /\ \A s \in Seq(ToHost) : s \in FromGuis
  /\ \A s \in Seq(ToGui) : s \in FromHost
<1>1. ToHost \subseteq [kind : {"request", "answer"}, of : Calls \cup Questions]
  BY DEF ToHost, Requests
<1>2. ToGui \subseteq
        [kind : {"ok", "error", "unknown", "ask", "resolved"}, of : Calls \cup Questions]
  BY DEF ToGui, Replies, Events
<1>3. \A s \in Seq(ToHost) : s \in FromGuis
  BY <1>1, SeqMonotonic DEF FromGuis, Frames
<1>4. \A s \in Seq(ToGui) : s \in FromHost
  BY <1>2, SeqMonotonic DEF FromHost, Frames
<1> QED BY <1>1, <1>2, <1>3, <1>4

(* The invariant holds the types.                                          *)
LEMMA TypesImplied == TypesInv => TypeOK
<1> SUFFICES ASSUME DataFit, FramesFit PROVE TypeOK
  BY DEF TypesInv
<1>1. out \in [Viewers -> FromGuis] /\ inbox \in [Viewers -> FromHost]
  BY FramesTyped DEF FramesFit
<1>2. up \in FromGuis /\ down \in FromHost
  BY FramesTyped DEF FramesFit
<1> QED BY <1>1, <1>2 DEF TypeOK, DataFit

(* What the owner tells calls reaches GUIs with a link, and says nothing of*)
(* questions.                                                              *)
LEMMA TellFits ==
  ASSUME TypesInv, NEW cs, cs \subseteq Calls, IsFiniteSet(cs),
         NEW kind \in {"ok", "error", "unknown"}, Tell(cs, kind)
  PROVE  /\ inbox' \in [Viewers -> Seq(ToGui)]
         /\ \A v \in Viewers \ linked : inbox'[v] = inbox[v]
         /\ \A v \in Viewers, q \in Questions :
              /\ Occurs(Frame("ask", q), inbox'[v]) <=> Occurs(Frame("ask", q), inbox[v])
              /\ Occurs(Frame("resolved", q), inbox'[v])
                   <=> Occurs(Frame("resolved", q), inbox[v])
              /\ Closes(q, inbox[v]) => Closes(q, inbox'[v])
<1> DEFINE told(v) == SetToSeq({Frame(kind, c) : c \in cs \cap OfViewer(v)})
<1>1. /\ linked \subseteq Viewers /\ inbox \in [Viewers -> Seq(ToGui)]
      /\ inbox' = [v \in Viewers |->
                     IF v \in linked THEN inbox[v] \o told(v) ELSE inbox[v]]
  BY DEF TypesInv, DataFit, FramesFit, Tell
<1>2. ASSUME NEW v \in Viewers
      PROVE  /\ told(v) \in Seq(ToGui)
             /\ \A f : Occurs(f, told(v)) => \E c : f = Frame(kind, c)
  <2>1. IsFiniteSet(cs \cap OfViewer(v))
    BY FS_Subset
  <2>2. \A c \in cs \cap OfViewer(v) : Frame(kind, c) \in ToGui
    BY FrameKinds
  <2> DEFINE frames == {Frame(kind, c) : c \in cs \cap OfViewer(v)}
  <2>3. /\ SetToSeq(frames) \in Seq(ToGui)
        /\ \A f : Occurs(f, SetToSeq(frames)) <=> f \in frames
    BY <2>1, <2>2, ListedFrames
  <2> QED BY <2>3
<1> HIDE DEF told
<1>3. ASSUME NEW v \in Viewers
      PROVE  inbox'[v] = IF v \in linked THEN inbox[v] \o told(v) ELSE inbox[v]
  BY <1>1
<1>4. ASSUME NEW v \in Viewers
      PROVE  inbox'[v] \in Seq(ToGui)
  BY <1>1, <1>2, <1>3, ConcatProperties
<1>5. ASSUME NEW v \in Viewers, NEW q \in Questions
      PROVE  /\ Occurs(Frame("ask", q), inbox'[v]) <=> Occurs(Frame("ask", q), inbox[v])
             /\ Occurs(Frame("resolved", q), inbox'[v])
                  <=> Occurs(Frame("resolved", q), inbox[v])
             /\ Closes(q, inbox[v]) => Closes(q, inbox'[v])
  <2>1. inbox[v] \in Seq(ToGui) /\ told(v) \in Seq(ToGui)
    BY <1>1, <1>2
  <2>2. ~Occurs(Frame("ask", q), told(v)) /\ ~Occurs(Frame("resolved", q), told(v))
    BY <1>2, FrameFields
  <2>3. Closes(q, told(v))
    BY <2>2, ClosesUnasked
  <2>4. Closes(q, inbox[v]) => Closes(q, inbox[v] \o told(v))
    BY <2>1, <2>3, ClosesConcat
  <2> QED BY <1>3, <2>1, <2>2, <2>4, OccursConcat
<1>6. inbox' \in [Viewers -> Seq(ToGui)]
  BY <1>1, <1>4
<1> QED BY <1>3, <1>5, <1>6

(* So is what it tells all calls that wait for a request.                  *)
LEMMA WaitingFinite ==
  ASSUME TypesInv, NEW r \in Calls
  PROVE  Waiting(r) \subseteq Calls /\ IsFiniteSet(Waiting(r))
<1>1. Waiting(r) \subseteq {c \in Calls : call[c].state # "new"}
  BY SharedThreadsAssumption DEF TypesInv, FinitelyMany, Waiting
<1>2. IsFiniteSet({c \in Calls : call[c].state # "new"})
  BY DEF TypesInv, FinitelyMany
<1> QED BY <1>1, <1>2, FS_Subset

(* The owner broadcasts to GUIs with a link.                               *)
LEMMA BroadcastFits ==
  ASSUME TypesInv, NEW f \in ToGui, Broadcast(f)
  PROVE  /\ inbox' \in [Viewers -> Seq(ToGui)]
         /\ \A v \in Viewers \ linked : inbox'[v] = inbox[v]
         /\ \A v \in linked : inbox'[v] = Append(inbox[v], f)
<1>1. linked \subseteq Viewers /\ inbox \in [Viewers -> Seq(ToGui)]
  BY DEF TypesInv, DataFit, FramesFit
<1>2. \A v \in Viewers : Append(inbox[v], f) \in Seq(ToGui)
  BY <1>1, AppendProperties
<1> QED BY <1>1, <1>2 DEF Broadcast

(* Each action keeps the types.                                            *)
LEMMA SubmitTypes ==
  ASSUME TypesInv, NEW v \in Viewers, NEW c \in Calls, Submit(v, c)
  PROVE  TypesInv'
<1> USE DEF TypesInv
<1>1. PICK i \in Inputs : call' = [call EXCEPT ![c] = [state |-> "sent", by |-> v, input |-> i]]
  BY DEF Submit
<1>2. DataFit'
  BY <1>1 DEF DataFit, Submit, owner, host
<1>3. FramesFit'
  <2>1. Append(out[v], Request(c)) \in Seq(ToHost)
    BY AppendProperties, FrameKinds DEF FramesFit
  <2> QED BY <2>1 DEF FramesFit, Submit, Request
<1>4. FinitelyMany'
  <2>1. {d \in Calls : call'[d].state # "new"} = {d \in Calls : call[d].state # "new"} \cup {c}
    BY <1>1 DEF DataFit
  <2>2. IsFiniteSet({d \in Calls : call'[d].state # "new"})
    BY <2>1, FS_AddElement DEF FinitelyMany
  <2>3. ASSUME NEW d \in Calls, call[d].state # "new" \/ d = c PROVE call'[d].state # "new"
    BY <1>1, <2>3 DEF DataFit
  <2>4. ASSUME NEW d \in Calls, NEW w \in Viewers, Occurs(Request(d), out'[w])
        PROVE  d = c \/ Occurs(Request(d), out[w])
    <3>1. CASE w # v
      BY <2>4, <3>1 DEF Submit, FramesFit
    <3>2. CASE w = v
      <4>1. out[v] \in Seq(ToHost) /\ out'[v] = Append(out[v], Request(c))
        BY DEF Submit, FramesFit, Request
      <4> QED BY <2>4, <3>2, <4>1, OccursAppend, FrameKinds, FrameFields DEF Request
    <3> QED BY <3>1, <3>2
  <2> QED BY <2>2, <2>3, <2>4 DEF FinitelyMany, Submit, owner, host
<1>5. LinksFit'
  BY DEF LinksFit, Submit, FramesFit, DataFit
<1> QED BY <1>2, <1>3, <1>4, <1>5

LEMMA AnswerQuestionTypes ==
  ASSUME TypesInv, NEW v \in Viewers, NEW q \in Questions, AnswerQuestion(v, q)
  PROVE  TypesInv'
<1> USE DEF TypesInv
<1>1. DataFit'
  BY DEF DataFit, AnswerQuestion, owner, host
<1>2. FramesFit'
  <2>1. Append(out[v], Frame("answer", q)) \in Seq(ToHost)
    BY AppendProperties, FrameKinds DEF FramesFit
  <2> QED BY <2>1 DEF FramesFit, AnswerQuestion
<1>3. FinitelyMany'
  <2>1. ASSUME NEW d \in Calls, NEW w \in Viewers, Occurs(Request(d), out'[w])
        PROVE  Occurs(Request(d), out[w])
    <3>1. CASE w # v
      BY <2>1, <3>1 DEF AnswerQuestion, FramesFit
    <3>2. CASE w = v
      <4>1. out[v] \in Seq(ToHost) /\ out'[v] = Append(out[v], Frame("answer", q))
        BY DEF AnswerQuestion, FramesFit
      <4> QED BY <2>1, <3>2, <4>1, OccursAppend, FrameKinds, FrameFields DEF Request
    <3> QED BY <3>1, <3>2
  <2> QED BY <2>1 DEF FinitelyMany, AnswerQuestion, owner, host
<1>4. LinksFit'
  BY DEF LinksFit, AnswerQuestion, FramesFit, DataFit
<1> QED BY <1>1, <1>2, <1>3, <1>4

LEMMA GuiReceivesTypes ==
  ASSUME TypesInv, NEW v \in Viewers, GuiReceives(v)
  PROVE  TypesInv'
<1> USE DEF TypesInv
<1> DEFINE f == Head(inbox[v])
<1>1. /\ inbox[v] \in Seq(ToGui) /\ inbox[v] # <<>>
      /\ f \in ToGui /\ Tail(inbox[v]) \in Seq(ToGui)
  BY OccursTail DEF GuiReceives, FramesFit
<1>2. v \in linked
  BY <1>1 DEF LinksFit
<1>3. /\ shown' \in [Viewers -> SUBSET Questions]
      /\ \A w \in Viewers : w # v => shown'[w] = shown[w]
  <2>1. CASE f.kind = "ask"
    <3>1. shown' = [shown EXCEPT ![v] = @ \cup {f.of}]
      BY <2>1 DEF GuiReceives
    <3>2. f.of \in Questions
      BY <1>1, <2>1, FrameKinds
    <3> QED BY <3>1, <3>2 DEF DataFit
  <2>2. CASE f.kind = "resolved"
    BY <1>1, <2>2, FrameKinds DEF GuiReceives, DataFit
  <2>3. CASE f.kind \notin {"ask", "resolved"}
    BY <1>1, <2>3 DEF GuiReceives, DataFit
  <2> QED BY <2>1, <2>2, <2>3
<1>4. /\ call' \in [Calls -> [state : {"new", "sent", "ok", "error", "unknown"},
                       by : Viewers \cup {None}, input : Inputs \cup {None}]]
      /\ \A c \in Calls : call'[c].state = "new" <=> call[c].state = "new"
  <2>1. CASE f.kind \in {"ask", "resolved"}
    BY <2>1 DEF GuiReceives, DataFit
  <2>2. CASE f.kind \in {"ok", "error", "unknown"} /\ f.of \in Calls
    <3>1. call' = IF call[f.of].state = "sent"
                  THEN [call EXCEPT ![f.of].state = f.kind] ELSE call
      BY <2>2 DEF GuiReceives
    <3> HIDE DEF f
    <3>2. CASE call[f.of].state = "sent"
      BY <2>2, <3>1, <3>2 DEF DataFit
    <3>3. CASE call[f.of].state # "sent"
      BY <3>1, <3>3 DEF DataFit
    <3> QED BY <3>2, <3>3
  <2> QED BY <1>1, <2>1, <2>2, FrameKinds
<1>5. DataFit'
  BY <1>3, <1>4 DEF DataFit, GuiReceives, owner, host
<1>6. FramesFit'
  BY <1>1 DEF FramesFit, GuiReceives
<1>7. FinitelyMany'
  <2>1. {d \in Calls : call'[d].state # "new"} = {d \in Calls : call[d].state # "new"}
    BY <1>4
  <2> QED BY <1>4, <2>1 DEF FinitelyMany, GuiReceives, owner, host
<1>8. LinksFit'
  BY <1>2, <1>3 DEF LinksFit, GuiReceives, FramesFit, DataFit
<1> QED BY <1>5, <1>6, <1>7, <1>8

LEMMA DetachTypes ==
  ASSUME TypesInv, NEW v \in Viewers, Detach(v)
  PROVE  TypesInv'
<1> USE DEF TypesInv
<1>1. /\ call' \in [Calls -> [state : {"new", "sent", "ok", "error", "unknown"},
                       by : Viewers \cup {None}, input : Inputs \cup {None}]]
      /\ \A c \in Calls : call'[c].state = "new" <=> call[c].state = "new"
  BY DEF Detach, DataFit
<1>2. /\ waits' \in [Calls -> Calls \cup {None}]
      /\ \A c \in Calls : waits'[c] # None => waits[c] # None
  BY DEF Detach, DataFit
<1>3. losses' \in 0 .. MaxLosses
  BY SharedThreadsAssumption DEF Detach, DataFit
<1>4. DataFit'
  <2>1. stuck' \in SUBSET linked'
    BY DEF Detach, DataFit
  <2> QED BY <1>1, <1>2, <1>3, <2>1 DEF DataFit, Detach, host
<1>5. FramesFit'
  BY EmptySeq DEF FramesFit, Detach
<1>6. FinitelyMany'
  <2>1. {d \in Calls : call'[d].state # "new"} = {d \in Calls : call[d].state # "new"}
    BY <1>1
  <2>2. ASSUME NEW d \in Calls, NEW w \in Viewers, Occurs(Request(d), out'[w])
        PROVE  Occurs(Request(d), out[w])
    BY <2>2, OccursEmpty DEF Detach, FramesFit
  <2> QED BY <1>1, <1>2, <2>1, <2>2 DEF FinitelyMany, Detach, host
<1>7. LinksFit'
  BY DEF LinksFit, Detach, FramesFit, DataFit
<1> QED BY <1>4, <1>5, <1>6, <1>7

(* The questions that are open are finitely many.                          *)
LEMMA OpenFinite ==
  ASSUME TypesInv
  PROVE  open \subseteq Questions /\ IsFiniteSet(open)
BY FS_Subset DEF TypesInv, DataFit, FinitelyMany

(* A GUI that attaches is asked what is open.                              *)
LEMMA AttachFits ==
  ASSUME TypesInv, NEW v \in Viewers, Attach(v)
  PROVE  /\ inbox' \in [Viewers -> Seq(ToGui)]
         /\ \A w \in Viewers : w # v => inbox'[w] = inbox[w]
         /\ \A g : Occurs(g, inbox'[v]) <=> \E q \in open : g = Frame("ask", q)
<1>1. open \subseteq Questions /\ IsFiniteSet(open)
  BY OpenFinite
<1>2. \A q \in open : Frame("ask", q) \in ToGui
  BY <1>1, FrameKinds
<1> DEFINE asked == {Frame("ask", q) : q \in open}
<1>3. SetToSeq(asked) \in Seq(ToGui) /\ \A g : Occurs(g, SetToSeq(asked)) <=> g \in asked
  BY <1>1, <1>2, ListedFrames
<1>4. inbox' = [inbox EXCEPT ![v] = SetToSeq(asked)]
  BY DEF Attach
<1>5. \A g : g \in asked <=> \E q \in open : g = Frame("ask", q)
  OBVIOUS
<1> HIDE DEF asked
<1> QED BY <1>3, <1>4, <1>5 DEF TypesInv, FramesFit

LEMMA AttachTypes ==
  ASSUME TypesInv, NEW v \in Viewers, Attach(v)
  PROVE  TypesInv'
<1> USE DEF TypesInv
<1>1. DataFit'
  BY DEF DataFit, Attach, owner, host
<1>2. FramesFit'
  BY AttachFits DEF FramesFit, Attach
<1>3. FinitelyMany'
  BY DEF FinitelyMany, Attach, owner, host
<1>4. LinksFit'
  BY AttachFits DEF LinksFit, Attach, FramesFit, DataFit
<1> QED BY <1>1, <1>2, <1>3, <1>4

(* The owner takes a frame of a GUI.                                       *)
LEMMA OwnerTakes ==
  ASSUME TypesInv, NEW v \in Viewers, OwnerReceives(v)
  PROVE  /\ v \in linked /\ out[v] \in Seq(ToHost) /\ out[v] # <<>>
         /\ Head(out[v]) \in ToHost /\ Tail(out[v]) \in Seq(ToHost)
         /\ \/ \E c \in Calls :
                 Head(out[v]) = Request(c) /\ TakeCall(c) /\ UNCHANGED stuck
            \/ \E q \in Questions : Head(out[v]) = Frame("answer", q) /\ TakeAnswer(v, q)
<1>1. /\ out[v] \in Seq(ToHost) /\ out[v] # <<>>
      /\ Head(out[v]) \in ToHost /\ Tail(out[v]) \in Seq(ToHost)
  BY OccursTail DEF OwnerReceives, TypesInv, FramesFit
<1>2. v \in linked
  BY <1>1 DEF TypesInv, LinksFit
<1>3. ASSUME NEW c \in Calls, Head(out[v]) = Request(c)
      PROVE  TakeCall(c) /\ UNCHANGED stuck
  <2>1. Head(out[v]).kind = "request" /\ Head(out[v]).of = c
    BY <1>3, FrameFields DEF Request
  <2> QED BY <2>1 DEF OwnerReceives, TakeCall, Tell, Receipt, SameMessage
<1>4. ASSUME NEW q \in Questions, Head(out[v]) = Frame("answer", q)
      PROVE  TakeAnswer(v, q)
  <2>1. Head(out[v]).kind = "answer" /\ Head(out[v]).of = q
    BY <1>4, FrameFields
  <2> QED BY <2>1 DEF OwnerReceives, TakeAnswer
<1> QED BY <1>1, <1>2, <1>3, <1>4, FrameKinds

(* A call is sent to the Host, told, or made to wait for a request.        *)
LEMMA CallTaken ==
  ASSUME TypesInv, NEW c \in Calls, TakeCall(c)
  PROVE  \/ /\ Receipt(c) = {} /\ receipts' = Append(receipts, c)
            /\ pending' = pending \cup {c} /\ up' = Append(up, Request(c))
            /\ writing' \in {writing, writing \cup {c}}
            /\ waits' = [waits EXCEPT ![c] = c] /\ UNCHANGED inbox
         \/ /\ UNCHANGED <<receipts, pending, writing, up, waits>>
            /\ \E kind \in {"ok", "error", "unknown"} : Tell({c}, kind)
         \/ /\ UNCHANGED <<receipts, pending, writing, up, inbox>>
            /\ \E r \in Calls : waits' = [waits EXCEPT ![c] = r]
<1>1. CASE Receipt(c) = {}
  BY <1>1 DEF TakeCall, Request
<1>2. CASE Receipt(c) # {}
  <2> DEFINE r == CHOOSE r \in Receipt(c) : TRUE
  <2>1. r \in Calls
    <3>1. r \in Receipt(c)
      BY <1>2
    <3>2. PICK n \in DOMAIN receipts : r = receipts[n]
      BY <3>1 DEF Receipt, Receipts
    <3>3. receipts \in Seq(Calls)
      BY DEF TypesInv, DataFit
    <3>4. n \in 1 .. Len(receipts)
      BY <3>2, <3>3, LenProperties
    <3> HIDE DEF r
    <3> QED BY <3>2, <3>3, <3>4, ElementOfSeq
  <2>2. /\ UNCHANGED <<receipts, pending, writing, up>>
        /\ IF call[r].input # call[c].input
           THEN Tell({c}, "error") /\ UNCHANGED waits
           ELSE IF r \in accepted
           THEN Tell({c}, "ok") /\ UNCHANGED waits
           ELSE waits' = [waits EXCEPT ![c] = r] /\ UNCHANGED inbox
    BY <1>2 DEF TakeCall
  <2> HIDE DEF r
  <2> QED BY <2>1, <2>2
<1> QED BY <1>1, <1>2

LEMMA OwnerReceivesTypes ==
  ASSUME TypesInv, NEW v \in Viewers, OwnerReceives(v)
  PROVE  TypesInv'
<1> USE DEF TypesInv
<1>1. /\ v \in linked /\ out[v] \in Seq(ToHost) /\ out[v] # <<>>
      /\ Tail(out[v]) \in Seq(ToHost)
      /\ out' = [out EXCEPT ![v] = Tail(@)]
      /\ UNCHANGED <<linked, shown, answers, call, stale, losses, accepted, held, open,
                     forgotten, host, down, closed>>
  BY OwnerTakes DEF OwnerReceives
<1>2. out' \in [Viewers -> Seq(ToHost)]
  BY <1>1 DEF FramesFit
<1>3. ASSUME NEW d \in Calls, NEW w \in Viewers, Occurs(Request(d), out'[w])
      PROVE  Occurs(Request(d), out[w])
  <2>1. CASE w # v
    BY <1>1, <1>3, <2>1 DEF FramesFit
  <2>2. CASE w = v
    <3>1. out'[v] = Tail(out[v])
      BY <1>1 DEF FramesFit
    <3> QED BY <1>1, <1>3, <2>2, <3>1, OccursTail
  <2> QED BY <2>1, <2>2
<1>4. ASSUME /\ receipts' \in Seq(Calls) /\ pending' \subseteq Calls
             /\ writing' \subseteq Calls /\ stuck' \subseteq linked
             /\ up' \in Seq(ToHost)
             /\ waits' \in [Calls -> Calls \cup {None}]
             /\ inbox' \in [Viewers -> Seq(ToGui)]
             /\ \A w \in Viewers \ linked : inbox'[w] = inbox[w]
             /\ \A c \in Calls : waits'[c] # None => call[c].state # "new"
      PROVE  TypesInv'
  <2>1. DataFit'
    BY <1>1, <1>4 DEF DataFit, host
  <2>2. FramesFit'
    BY <1>1, <1>2, <1>4 DEF FramesFit
  <2>3. FinitelyMany'
    BY <1>1, <1>3, <1>4 DEF FinitelyMany, host
  <2>4. LinksFit'
    BY <1>1, <1>4 DEF LinksFit, FramesFit
  <2> QED BY <2>1, <2>2, <2>3, <2>4
<1>5. /\ receipts \in Seq(Calls) /\ pending \subseteq Calls
      /\ writing \subseteq Calls /\ stuck \subseteq linked
      /\ up \in Seq(ToHost)
      /\ waits \in [Calls -> Calls \cup {None}]
      /\ inbox \in [Viewers -> Seq(ToGui)]
      /\ \A c \in Calls : waits[c] # None => call[c].state # "new"
  BY DEF DataFit, FramesFit, FinitelyMany
<1>6. ASSUME NEW c \in Calls, Head(out[v]) = Request(c), TakeCall(c), UNCHANGED stuck
      PROVE  TypesInv'
  <2>1. call[c].state # "new"
    BY <1>1, <1>6, OccursTail DEF FinitelyMany
  <2>2. CASE /\ receipts' = Append(receipts, c)
             /\ pending' = pending \cup {c} /\ up' = Append(up, Request(c))
             /\ writing' \in {writing, writing \cup {c}}
             /\ waits' = [waits EXCEPT ![c] = c] /\ UNCHANGED inbox
    <3>1. receipts' \in Seq(Calls) /\ up' \in Seq(ToHost)
      BY <1>5, <2>2, AppendProperties, FrameKinds
    <3> QED BY <1>4, <1>5, <1>6, <2>1, <2>2, <3>1
  <2>3. CASE /\ UNCHANGED <<receipts, pending, writing, up, waits>>
             /\ \E kind \in {"ok", "error", "unknown"} : Tell({c}, kind)
    <3>1. IsFiniteSet({c})
      BY FS_Singleton
    <3>2. /\ inbox' \in [Viewers -> Seq(ToGui)]
          /\ \A w \in Viewers \ linked : inbox'[w] = inbox[w]
      BY <2>3, <3>1, TellFits
    <3> QED BY <1>4, <1>5, <1>6, <2>3, <3>2
  <2>4. CASE /\ UNCHANGED <<receipts, pending, writing, up, inbox>>
             /\ \E r \in Calls : waits' = [waits EXCEPT ![c] = r]
    BY <1>4, <1>5, <1>6, <2>1, <2>4
  <2> QED BY <1>6, <2>2, <2>3, <2>4, CallTaken
<1>7. ASSUME NEW q \in Questions, TakeAnswer(v, q)
      PROVE  TypesInv'
  <2>1. up' \in Seq(ToHost)
    <3>1. Frame("answer", q) \in ToHost
      BY FrameKinds
    <3>2. Append(up, Frame("answer", q)) \in Seq(ToHost)
      BY <1>5, <3>1, AppendProperties
    <3>3. up' \in {up, Append(up, Frame("answer", q))}
      BY <1>7 DEF TakeAnswer
    <3> QED BY <1>5, <3>2, <3>3
  <2>2. stuck' \subseteq linked
    <3>1. stuck' \in {stuck, stuck \cup {v}}
      BY <1>7 DEF TakeAnswer
    <3> QED BY <1>1, <1>5, <3>1
  <2> QED BY <1>4, <1>5, <1>7, <2>1, <2>2 DEF TakeAnswer
<1> QED BY <1>6, <1>7, OwnerTakes

(* The receipts are of calls.                                              *)
LEMMA ReceiptsOf ==
  ASSUME TypesInv
  PROVE  /\ Receipts \subseteq Calls /\ receipts \in Seq(Calls)
         /\ \A c : c \in Receipts <=> Occurs(c, receipts)
<1>1. receipts \in Seq(Calls)
  BY DEF TypesInv, DataFit
<1>2. \A c : c \in Receipts <=> Occurs(c, receipts)
  BY DEF Receipts, Occurs
<1> QED BY <1>1, <1>2, OccursIn

(* A request is over: nobody waits for it any more.                        *)
LEMMA SettleFits ==
  ASSUME TypesInv, NEW r \in Calls, NEW kind \in {"ok", "error", "unknown"},
         Settle(r, kind)
  PROVE  /\ waits' \in [Calls -> Calls \cup {None}]
         /\ \A c \in Calls : waits'[c] # None => waits[c] # None
         /\ inbox' \in [Viewers -> Seq(ToGui)]
         /\ \A v \in Viewers \ linked : inbox'[v] = inbox[v]
         /\ \A v \in Viewers, q \in Questions :
              /\ Occurs(Frame("ask", q), inbox'[v]) <=> Occurs(Frame("ask", q), inbox[v])
              /\ Occurs(Frame("resolved", q), inbox'[v])
                   <=> Occurs(Frame("resolved", q), inbox[v])
              /\ Closes(q, inbox[v]) => Closes(q, inbox'[v])
<1>1. /\ waits' \in [Calls -> Calls \cup {None}]
      /\ \A c \in Calls : waits'[c] # None => waits[c] # None
  BY DEF Settle, TypesInv, DataFit
<1>2. Tell(Waiting(r), kind)
  BY DEF Settle
<1> QED BY <1>1, <1>2, WaitingFinite, TellFits

(* How a request ends, in terms of what it leaves.                         *)
RefusedOf(r, kind) == {s \in {r} : kind = "error"}
KeptOf(r, kind) == IF kind = "error" THEN Without(r) ELSE receipts

LEMMA FinishCases ==
  ASSUME NEW r \in Calls, NEW kind \in {"ok", "error", "unknown"}, Finish(r, kind)
  PROVE  /\ Settle(r, kind)
         /\ kind = "unknown" =>
              /\ receipts' = Without(r) /\ forgotten' = forgotten \cup {MessageOf[r]}
              /\ UNCHANGED accepted
         /\ kind # "unknown" =>
              /\ accepted' = accepted \cup ({r} \ RefusedOf(r, kind))
              /\ receipts' = Newest(KeptOf(r, kind))
              /\ forgotten' = forgotten \cup
                   {MessageOf[s] : s \in Receipts \
                      (ToSet(Newest(KeptOf(r, kind))) \cup RefusedOf(r, kind))}
<1>1. CASE kind = "unknown"
  BY <1>1 DEF Finish, Reject
<1>2. CASE kind # "unknown"
  <2>1. (RefusedOf(r, kind) = {}) <=> kind # "error"
    BY DEF RefusedOf
  <2>2. KeptOf(r, kind) = IF RefusedOf(r, kind) = {} THEN receipts ELSE Without(r)
    BY <2>1 DEF KeptOf
  <2>3. Resolve(r, kind)
    BY <1>2 DEF Finish
  <2> QED BY <1>2, <2>2, <2>3 DEF Resolve, RefusedOf
<1> QED BY <1>1, <1>2

LEMMA FinishFits ==
  ASSUME TypesInv, NEW r \in Calls, NEW kind \in {"ok", "error", "unknown"},
         Finish(r, kind)
  PROVE  /\ receipts' \in Seq(Calls) /\ accepted' \subseteq Calls
         /\ forgotten' \subseteq {MessageOf[c] : c \in Calls}
<1>1. /\ receipts \in Seq(Calls) /\ accepted \subseteq Calls
      /\ forgotten \subseteq {MessageOf[c] : c \in Calls}
      /\ Without(r) \in Seq(Calls)
  BY WithoutKeeps DEF TypesInv, DataFit
<1>2. CASE kind = "unknown"
  BY <1>1, <1>2, FinishCases
<1>3. CASE kind # "unknown"
  <2>1. /\ accepted' = accepted \cup ({r} \ RefusedOf(r, kind))
        /\ receipts' = Newest(KeptOf(r, kind))
        /\ forgotten' = forgotten \cup
             {MessageOf[s] : s \in Receipts \
                (ToSet(Newest(KeptOf(r, kind))) \cup RefusedOf(r, kind))}
    BY <1>3, FinishCases
  <2>2. receipts' \in Seq(Calls)
    BY <1>1, <2>1, NewestKeeps DEF KeptOf
  <2>3. forgotten' \subseteq {MessageOf[c] : c \in Calls}
    <3>1. {MessageOf[s] : s \in Receipts \
             (ToSet(Newest(KeptOf(r, kind))) \cup RefusedOf(r, kind))}
            \subseteq {MessageOf[c] : c \in Calls}
      BY ReceiptsOf
    <3> QED BY <1>1, <2>1, <3>1
  <2> QED BY <1>1, <2>1, <2>2, <2>3
<1> QED BY <1>2, <1>3

(* What is left alone when nobody looks at the end of a request yet.       *)
Unfinished == UNCHANGED <<inbox, waits, accepted, receipts, forgotten>>

(* A step in which the owner learns of one request at most.                *)
LEMMA OwnerFits ==
  ASSUME TypesInv,
         UNCHANGED <<linked, shown, answers, call, out, stale, losses, stuck, host, up,
                     closed>>,
         pending' \subseteq Calls, writing' \subseteq Calls,
         held' \in [Calls -> {"nothing", "ok", "error", "unknown"}],
         down' \in Seq(ToGui), \A f : Occurs(f, down') => Occurs(f, down),
         UNCHANGED open,
         \/ Unfinished
         \/ \E r \in Calls, kind \in {"ok", "error", "unknown"} : Finish(r, kind)
  PROVE  TypesInv'
<1> USE DEF TypesInv
<1>1. /\ receipts' \in Seq(Calls) /\ accepted' \subseteq Calls
      /\ forgotten' \subseteq {MessageOf[c] : c \in Calls}
      /\ waits' \in [Calls -> Calls \cup {None}]
      /\ \A c \in Calls : waits'[c] # None => waits[c] # None
      /\ inbox' \in [Viewers -> Seq(ToGui)]
      /\ \A v \in Viewers \ linked : inbox'[v] = inbox[v]
  <2>1. CASE Unfinished
    BY <2>1 DEF Unfinished, DataFit, FramesFit
  <2>2. ASSUME NEW r \in Calls, NEW kind \in {"ok", "error", "unknown"}, Finish(r, kind)
        PROVE  /\ receipts' \in Seq(Calls) /\ accepted' \subseteq Calls
               /\ forgotten' \subseteq {MessageOf[c] : c \in Calls}
               /\ waits' \in [Calls -> Calls \cup {None}]
               /\ \A c \in Calls : waits'[c] # None => waits[c] # None
               /\ inbox' \in [Viewers -> Seq(ToGui)]
               /\ \A v \in Viewers \ linked : inbox'[v] = inbox[v]
    <3>1. Settle(r, kind)
      BY <2>2, FinishCases
    <3> QED BY <2>2, <3>1, FinishFits, SettleFits
  <2> QED BY <2>1, <2>2
<1>2. DataFit'
  BY <1>1 DEF DataFit, host
<1>3. FramesFit'
  BY <1>1 DEF FramesFit
<1>4. FinitelyMany'
  BY <1>1 DEF FinitelyMany, host
<1>5. LinksFit'
  BY <1>1 DEF LinksFit, FramesFit
<1> QED BY <1>2, <1>3, <1>4, <1>5

(* A reply or the timer ends a request, or it is known later.              *)
LEMMA EndCases ==
  ASSUME TypesInv, NEW r \in Calls, NEW kind \in {"ok", "error", "unknown"},
         End(r, kind)
  PROVE  /\ pending' \subseteq Calls
         /\ held' \in [Calls -> {"nothing", "ok", "error", "unknown"}]
         /\ \/ Unfinished /\ held' = [held EXCEPT ![r] = kind]
            \/ Finish(r, kind) /\ UNCHANGED held
<1>1. pending \subseteq Calls /\ held \in [Calls -> {"nothing", "ok", "error", "unknown"}]
  BY DEF TypesInv, DataFit
<1>2. CASE r \in writing
  BY <1>1, <1>2 DEF End, Unfinished
<1>3. CASE r \notin writing
  BY <1>1, <1>3 DEF End
<1> QED BY <1>2, <1>3

(* The owner takes a frame of its Host: an event, or the reply to a        *)
(* request.                                                                *)
LEMMA OwnerHearsCases ==
  ASSUME TypesInv, OwnerHears
  PROVE  /\ down \in Seq(ToGui) /\ down # <<>> /\ Head(down) \in ToGui
         /\ down' = Tail(down) /\ Tail(down) \in Seq(ToGui)
         /\ UNCHANGED <<linked, shown, answers, call, out, stale, losses, writing, stuck,
                        host, up, closed>>
         /\ \/ /\ \E q \in Questions :
                    \/ Head(down) = Frame("ask", q) /\ open' = open \cup {q}
                    \/ Head(down) = Frame("resolved", q) /\ open' = open \ {q}
               /\ Broadcast(Head(down))
               /\ UNCHANGED <<pending, held, waits, accepted, receipts, forgotten>>
            \/ /\ UNCHANGED open
               /\ \E r \in Calls, kind \in {"ok", "error", "unknown"} :
                    /\ Head(down) = Frame(kind, r)
                    /\ \/ End(r, kind)
                       \/ Unfinished /\ UNCHANGED <<pending, held>>
<1>1. /\ down \in Seq(ToGui) /\ down # <<>> /\ Head(down) \in ToGui
      /\ down' = Tail(down) /\ Tail(down) \in Seq(ToGui)
      /\ UNCHANGED <<linked, shown, answers, call, out, stale, losses, writing, stuck,
                     host, up, closed>>
  BY OccursTail DEF OwnerHears, TypesInv, FramesFit
<1>2. ASSUME NEW q \in Questions, NEW kind \in {"ask", "resolved"},
             Head(down) = Frame(kind, q), TakeEvent(kind, q)
      PROVE  /\ \/ Head(down) = Frame("ask", q) /\ open' = open \cup {q}
                \/ Head(down) = Frame("resolved", q) /\ open' = open \ {q}
             /\ Broadcast(Head(down))
  <2>1. Broadcast(Head(down))
    BY <1>2 DEF TakeEvent, Broadcast
  <2> QED BY <1>2, <2>1 DEF TakeEvent
<1>3. ASSUME NEW r \in Calls, NEW kind \in {"ok", "error", "unknown"},
             TakeReply(r, kind)
      PROVE  \/ End(r, kind)
             \/ Unfinished /\ UNCHANGED <<pending, held>>
  BY <1>3 DEF TakeReply, Unfinished
<1>4. CASE \E q \in Questions, kind \in {"ask", "resolved"} :
             /\ Head(down) = Frame(kind, q)
             /\ TakeEvent(kind, q)
             /\ UNCHANGED <<pending, held, waits, accepted, receipts, forgotten>>
  <2>1. PICK q \in Questions, kind \in {"ask", "resolved"} :
          /\ Head(down) = Frame(kind, q)
          /\ TakeEvent(kind, q)
    BY <1>4
  <2> QED BY <1>1, <1>2, <1>4, <2>1
<1>5. CASE \E r \in Calls, kind \in {"ok", "error", "unknown"} :
             /\ Head(down) = Frame(kind, r)
             /\ TakeReply(r, kind)
             /\ UNCHANGED open
  BY <1>1, <1>3, <1>5
<1> QED BY <1>4, <1>5 DEF OwnerHears

LEMMA OwnerHearsTypes ==
  ASSUME TypesInv, OwnerHears
  PROVE  TypesInv'
<1> USE DEF TypesInv
<1>1. /\ down \in Seq(ToGui) /\ down # <<>> /\ Head(down) \in ToGui
      /\ down' = Tail(down) /\ Tail(down) \in Seq(ToGui)
      /\ UNCHANGED <<linked, shown, answers, call, out, stale, losses, writing, stuck,
                     host, up, closed>>
      /\ \A f : Occurs(f, down) <=> f = Head(down) \/ Occurs(f, Tail(down))
  BY OwnerHearsCases, OccursTail
<1>2. CASE /\ \E q \in Questions :
                \/ Head(down) = Frame("ask", q) /\ open' = open \cup {q}
                \/ Head(down) = Frame("resolved", q) /\ open' = open \ {q}
           /\ Broadcast(Head(down))
           /\ UNCHANGED <<pending, held, waits, accepted, receipts, forgotten>>
  <2>1. /\ open' \subseteq Questions
        /\ \A q \in open' : q \in open \/ Head(down) = Frame("ask", q)
    BY <1>2 DEF DataFit
  <2>2. /\ inbox' \in [Viewers -> Seq(ToGui)]
        /\ \A v \in Viewers \ linked : inbox'[v] = inbox[v]
    BY <1>1, <1>2, BroadcastFits
  <2>3. DataFit'
    BY <1>1, <1>2, <2>1 DEF DataFit, host
  <2>4. FramesFit'
    BY <1>1, <1>2, <2>2 DEF FramesFit
  <2>5. FinitelyMany'
    BY <1>1, <1>2, <2>1 DEF FinitelyMany, host
  <2>6. LinksFit'
    BY <1>1, <1>2, <2>2 DEF LinksFit, FramesFit
  <2> QED BY <2>3, <2>4, <2>5, <2>6
<1>3. ASSUME UNCHANGED open, NEW r \in Calls, NEW kind \in {"ok", "error", "unknown"},
             End(r, kind) \/ (Unfinished /\ UNCHANGED <<pending, held>>)
      PROVE  TypesInv'
  <2>1. /\ writing' \subseteq Calls /\ pending \subseteq Calls
        /\ held \in [Calls -> {"nothing", "ok", "error", "unknown"}]
    BY <1>1 DEF DataFit
  <2>2. /\ pending' \subseteq Calls
        /\ held' \in [Calls -> {"nothing", "ok", "error", "unknown"}]
        /\ Unfinished \/ Finish(r, kind)
    BY <1>3, <2>1, EndCases
  <2> HIDE DEF TypesInv
  <2> QED BY <1>1, <1>3, <2>1, <2>2, OwnerFits
<1> QED BY <1>2, <1>3, OwnerHearsCases

LEMMA OwnerTimesOutTypes ==
  ASSUME TypesInv, NEW r \in Calls, OwnerTimesOut(r)
  PROVE  TypesInv'
<1>1. /\ writing' \subseteq Calls /\ down' \in Seq(ToGui)
      /\ \A f : Occurs(f, down') => Occurs(f, down)
  BY DEF OwnerTimesOut, TypesInv, DataFit, FramesFit
<1>2. /\ pending' \subseteq Calls
      /\ held' \in [Calls -> {"nothing", "ok", "error", "unknown"}]
      /\ Unfinished \/ Finish(r, "unknown")
  BY EndCases DEF OwnerTimesOut
<1> QED BY <1>1, <1>2, OwnerFits DEF OwnerTimesOut

(* A frame is written: what is known of its request counts now.            *)
LEMMA WrittenCases ==
  ASSUME TypesInv, NEW r \in Calls, Written(r)
  PROVE  /\ held' = [held EXCEPT ![r] = "nothing"]
         /\ \/ Unfinished
            \/ held[r] \in {"ok", "error", "unknown"} /\ Finish(r, held[r])
BY DEF Written, Unfinished, TypesInv, DataFit

LEMMA WrittenTypes ==
  ASSUME TypesInv, NEW r \in Calls, Written(r)
  PROVE  TypesInv'
<1>1. /\ writing' \subseteq Calls /\ pending' \subseteq Calls
      /\ held' \in [Calls -> {"nothing", "ok", "error", "unknown"}]
      /\ down' \in Seq(ToGui) /\ \A f : Occurs(f, down') => Occurs(f, down)
  BY DEF Written, TypesInv, DataFit, FramesFit
<1>2. Unfinished \/ \E kind \in {"ok", "error", "unknown"} : Finish(r, kind)
  BY WrittenCases
<1> QED BY <1>1, <1>2, OwnerFits DEF Written

LEMMA AnsweredTypes ==
  ASSUME TypesInv, NEW v \in Viewers, Answered(v)
  PROVE  TypesInv'
<1> USE DEF TypesInv
<1>1. DataFit'
  BY DEF DataFit, Answered, guis, host
<1>2. FramesFit' /\ LinksFit'
  BY DEF FramesFit, LinksFit, Answered, guis
<1>3. FinitelyMany'
  BY DEF FinitelyMany, Answered, guis, host
<1> QED BY <1>1, <1>2, <1>3

(* The Host takes a frame of the owner: a request, or an answer.           *)
LEMMA HostTakes ==
  ASSUME TypesInv, HostReceives
  PROVE  /\ up \in Seq(ToHost) /\ up # <<>>
         /\ up' = Tail(up) /\ Tail(up) \in Seq(ToHost)
         /\ UNCHANGED <<guis, owner, active, started, closed>>
         /\ \/ /\ \E c \in Calls : Head(up) = Request(c) /\ handling' = handling \cup {c}
               /\ UNCHANGED <<question, down>>
            \/ /\ UNCHANGED handling
               /\ \/ \E q \in Questions :
                       /\ question[q] = "open"
                       /\ question' = [question EXCEPT ![q] = "closed"]
                       /\ down' = Append(down, Frame("resolved", q))
                  \/ UNCHANGED <<question, down>>
               /\ \A c \in Calls : Head(up) # Request(c)
<1>1. /\ up \in Seq(ToHost) /\ up # <<>> /\ Head(up) \in ToHost
      /\ up' = Tail(up) /\ Tail(up) \in Seq(ToHost)
      /\ UNCHANGED <<guis, owner, active, started, closed>>
  BY OccursTail DEF HostReceives, HandleAnswer, TypesInv, FramesFit
<1>2. ASSUME NEW c \in Calls, Head(up) = Request(c)
      PROVE  handling' = handling \cup {c} /\ UNCHANGED <<question, down>>
  <2>1. Head(up).kind = "request" /\ Head(up).of = c
    BY <1>2, FrameFields DEF Request
  <2> QED BY <2>1 DEF HostReceives, HandleAnswer
<1>3. ASSUME NEW q \in Questions, Head(up) = Frame("answer", q)
      PROVE  /\ UNCHANGED handling
             /\ \/ /\ question[q] = "open"
                   /\ question' = [question EXCEPT ![q] = "closed"]
                   /\ down' = Append(down, Frame("resolved", q))
                \/ UNCHANGED <<question, down>>
             /\ \A c \in Calls : Head(up) # Request(c)
  <2>1. Head(up).kind = "answer" /\ Head(up).of = q
    BY <1>3, FrameFields
  <2>2. \A c \in Calls : Head(up) # Request(c)
    BY <1>3, FrameFields DEF Request
  <2> QED BY <2>1, <2>2 DEF HostReceives, HandleAnswer
<1> QED BY <1>1, <1>2, <1>3, FrameKinds

(* A step of the Host that leaves GUIs and owner alone keeps the types, if *)
(* it asks only what is asked.                                             *)
LEMMA HostFits ==
  ASSUME TypesInv, UNCHANGED <<guis, owner, closed>>,
         handling' \subseteq Calls, started' \subseteq Calls,
         active' \in Calls \cup {None},
         question' \in [Questions -> {"new", "open", "closed"}],
         up' \in Seq(ToHost), down' \in Seq(ToGui),
         IsFiniteSet({q \in Questions : question'[q] # "new"}),
         \A q \in Questions : question[q] # "new" => question'[q] # "new",
         \A q \in Questions :
           Occurs(Frame("ask", q), down') =>
             Occurs(Frame("ask", q), down) \/ question'[q] # "new"
  PROVE  TypesInv'
<1> USE DEF TypesInv
<1>1. DataFit'
  BY DEF DataFit, guis, owner
<1>2. FramesFit'
  BY DEF FramesFit, guis
<1>3. FinitelyMany'
  BY DEF FinitelyMany, guis, owner
<1>4. LinksFit'
  BY DEF LinksFit, guis
<1> QED BY <1>1, <1>2, <1>3, <1>4

(* What the Host knows of questions, when it closes one that is open.      *)
LEMMA QuestionClosed ==
  ASSUME TypesInv, NEW q \in Questions, question[q] = "open",
         question' = [question EXCEPT ![q] = "closed"],
         down' = Append(down, Frame("resolved", q))
  PROVE  /\ question' \in [Questions -> {"new", "open", "closed"}]
         /\ down' \in Seq(ToGui)
         /\ IsFiniteSet({p \in Questions : question'[p] # "new"})
         /\ \A p \in Questions : question[p] # "new" => question'[p] # "new"
         /\ \A p \in Questions :
              Occurs(Frame("ask", p), down') => Occurs(Frame("ask", p), down)
<1>1. /\ question \in [Questions -> {"new", "open", "closed"}] /\ down \in Seq(ToGui)
      /\ IsFiniteSet({p \in Questions : question[p] # "new"})
      /\ Frame("resolved", q) \in ToGui
  BY FrameKinds DEF TypesInv, DataFit, FramesFit, FinitelyMany
<1>2. {p \in Questions : question'[p] # "new"} = {p \in Questions : question[p] # "new"}
  BY <1>1
<1>3. down' \in Seq(ToGui)
  BY <1>1, AppendProperties
<1>4. \A p \in Questions :
        Occurs(Frame("ask", p), down') => Occurs(Frame("ask", p), down)
  BY <1>1, OccursAppend, FrameFields
<1> QED BY <1>1, <1>2, <1>3, <1>4

LEMMA HostReceivesTypes ==
  ASSUME TypesInv, HostReceives
  PROVE  TypesInv'
<1>1. /\ handling \subseteq Calls /\ started \subseteq Calls
      /\ active \in Calls \cup {None} /\ down \in Seq(ToGui)
      /\ question \in [Questions -> {"new", "open", "closed"}]
      /\ IsFiniteSet({q \in Questions : question[q] # "new"})
  BY DEF TypesInv, DataFit, FramesFit, FinitelyMany
<1>2. up' \in Seq(ToHost) /\ UNCHANGED <<guis, owner, active, started, closed>>
  BY HostTakes
<1>3. CASE handling' \subseteq Calls /\ UNCHANGED <<question, down>>
  BY <1>1, <1>2, <1>3, HostFits
<1>4. ASSUME UNCHANGED handling, NEW q \in Questions, question[q] = "open",
             question' = [question EXCEPT ![q] = "closed"],
             down' = Append(down, Frame("resolved", q))
      PROVE  TypesInv'
  BY <1>1, <1>2, <1>4, HostFits, QuestionClosed
<1> QED BY <1>1, <1>3, <1>4, HostTakes

LEMMA BeginTypes ==
  ASSUME TypesInv, NEW r \in Calls, Begin(r)
  PROVE  TypesInv'
BY HostFits DEF Begin, TypesInv, DataFit, FramesFit, FinitelyMany

(* The Host replies to a request.                                          *)
LEMMA ReplyFits ==
  ASSUME TypesInv, NEW r \in Calls, NEW kind \in {"ok", "error", "unknown"},
         down' = Append(down, Frame(kind, r))
  PROVE  /\ down \in Seq(ToGui) /\ down' \in Seq(ToGui)
         /\ \A f : Occurs(f, down') <=> f = Frame(kind, r) \/ Occurs(f, down)
         /\ \A q \in Questions :
              /\ Occurs(Frame("ask", q), down') <=> Occurs(Frame("ask", q), down)
              /\ Occurs(Frame("resolved", q), down') <=> Occurs(Frame("resolved", q), down)
<1>1. down \in Seq(ToGui) /\ Frame(kind, r) \in ToGui
  BY FrameKinds DEF TypesInv, FramesFit
<1>2. \A f : Occurs(f, down') <=> f = Frame(kind, r) \/ Occurs(f, down)
  BY <1>1, OccursAppend
<1>3. down' \in Seq(ToGui)
  BY <1>1, AppendProperties
<1>4. \A q \in Questions : Frame(kind, r) # Frame("ask", q) /\ Frame(kind, r) # Frame("resolved", q)
  BY FrameFields
<1> QED BY <1>1, <1>2, <1>3, <1>4

LEMMA FailTypes ==
  ASSUME TypesInv, NEW r \in Calls, Fail(r)
  PROVE  TypesInv'
<1>1. /\ down' \in Seq(ToGui)
      /\ \A q \in Questions : Occurs(Frame("ask", q), down') => Occurs(Frame("ask", q), down)
  BY ReplyFits DEF Fail
<1> QED BY <1>1, HostFits DEF Fail, TypesInv, DataFit, FramesFit, FinitelyMany

LEMMA StartedTypes ==
  ASSUME TypesInv, NEW r \in Calls, Started(r)
  PROVE  TypesInv'
<1>1. /\ down' \in Seq(ToGui)
      /\ \A q \in Questions : Occurs(Frame("ask", q), down') => Occurs(Frame("ask", q), down)
  BY ReplyFits DEF Started
<1> QED BY <1>1, HostFits DEF Started, TypesInv, DataFit, FramesFit, FinitelyMany

LEMMA AskTypes ==
  ASSUME TypesInv, NEW q \in Questions, Ask(q)
  PROVE  TypesInv'
<1>1. /\ question \in [Questions -> {"new", "open", "closed"}] /\ down \in Seq(ToGui)
      /\ IsFiniteSet({p \in Questions : question[p] # "new"})
      /\ question' = [question EXCEPT ![q] = "open"]
      /\ down' = Append(down, Frame("ask", q)) /\ Frame("ask", q) \in ToGui
  BY FrameKinds DEF TypesInv, DataFit, FramesFit, FinitelyMany, Ask
<1>2. {p \in Questions : question'[p] # "new"} = {p \in Questions : question[p] # "new"} \cup {q}
  BY <1>1
<1>3. IsFiniteSet({p \in Questions : question'[p] # "new"})
  BY <1>1, <1>2, FS_AddElement
<1>4. down' \in Seq(ToGui)
  BY <1>1, AppendProperties
<1>5. \A p \in Questions :
        Occurs(Frame("ask", p), down') => Occurs(Frame("ask", p), down) \/ p = q
  BY <1>1, OccursAppend, FrameFields
<1>6. question'[q] # "new" /\ question' \in [Questions -> {"new", "open", "closed"}]
      /\ \A p \in Questions : question[p] # "new" => question'[p] # "new"
  BY <1>1
<1> QED BY <1>3, <1>4, <1>5, <1>6, HostFits
        DEF Ask, TypesInv, DataFit, FramesFit

LEMMA WithdrawTypes ==
  ASSUME TypesInv, NEW q \in Questions, Withdraw(q)
  PROVE  TypesInv'
BY QuestionClosed, HostFits DEF Withdraw, TypesInv, DataFit, FramesFit

(* The end of a Turn closes what is open, and says so.                     *)
LEMMA TurnEndsFits ==
  ASSUME TypesInv, TurnEnds
  PROVE  /\ question \in [Questions -> {"new", "open", "closed"}]
         /\ question' = [q \in Questions |->
                           IF question[q] = "open" THEN "closed" ELSE question[q]]
         /\ down \in Seq(ToGui)
         /\ \E told \in Seq(ToGui) :
              /\ down' = down \o told
              /\ \A f : Occurs(f, told) <=>
                   \E q \in Questions : question[q] = "open" /\ f = Frame("resolved", q)
<1> DEFINE left == {q \in Questions : question[q] = "open"}
           frames == {Frame("resolved", q) : q \in left}
<1>1. /\ question \in [Questions -> {"new", "open", "closed"}] /\ down \in Seq(ToGui)
      /\ IsFiniteSet({p \in Questions : question[p] # "new"})
  BY DEF TypesInv, DataFit, FramesFit, FinitelyMany
<1>2. IsFiniteSet(left)
  <2>1. left \subseteq {p \in Questions : question[p] # "new"}
    OBVIOUS
  <2> QED BY <1>1, <2>1, FS_Subset
<1>3. \A q \in left : Frame("resolved", q) \in ToGui
  BY FrameKinds
<1>4. SetToSeq(frames) \in Seq(ToGui) /\ \A f : Occurs(f, SetToSeq(frames)) <=> f \in frames
  BY <1>2, <1>3, ListedFrames
<1>5. down' = down \o SetToSeq(frames)
  BY DEF TurnEnds
<1>6. question' = [q \in Questions |-> IF question[q] = "open" THEN "closed" ELSE question[q]]
  BY <1>1 DEF TurnEnds
<1>7. \A f : f \in frames <=>
        \E q \in Questions : question[q] = "open" /\ f = Frame("resolved", q)
  OBVIOUS
<1> HIDE DEF frames, left
<1> QED BY <1>1, <1>4, <1>5, <1>6, <1>7

LEMMA TurnEndsTypes ==
  ASSUME TypesInv, TurnEnds
  PROVE  TypesInv'
<1>1. /\ question \in [Questions -> {"new", "open", "closed"}]
      /\ question' = [q \in Questions |->
                        IF question[q] = "open" THEN "closed" ELSE question[q]]
      /\ down \in Seq(ToGui) /\ IsFiniteSet({p \in Questions : question[p] # "new"})
  BY TurnEndsFits DEF TypesInv, FinitelyMany
<1>2. PICK told \in Seq(ToGui) :
        /\ down' = down \o told
        /\ \A f : Occurs(f, told) <=>
             \E q \in Questions : question[q] = "open" /\ f = Frame("resolved", q)
  BY TurnEndsFits
<1>3. {p \in Questions : question'[p] # "new"} = {p \in Questions : question[p] # "new"}
  BY <1>1
<1>4. down' \in Seq(ToGui)
  BY <1>1, <1>2, ConcatProperties
<1>5. \A p \in Questions : Occurs(Frame("ask", p), down') => Occurs(Frame("ask", p), down)
  BY <1>1, <1>2, OccursConcat, FrameFields
<1>6. /\ question' \in [Questions -> {"new", "open", "closed"}]
      /\ \A p \in Questions : question[p] # "new" => question'[p] # "new"
  BY <1>1
<1> QED BY <1>1, <1>3, <1>4, <1>5, <1>6, HostFits
        DEF TurnEnds, TypesInv, DataFit, FramesFit

LEMMA CloseTypes ==
  ASSUME TypesInv, Close
  PROVE  TypesInv'
<1> USE DEF TypesInv
<1>1. /\ call' \in [Calls -> [state : {"new", "sent", "ok", "error", "unknown"},
                       by : Viewers \cup {None}, input : Inputs \cup {None}]]
      /\ \A c \in Calls : call'[c].state = "new" <=> call[c].state = "new"
  BY DEF Close, DataFit
<1>2. forgotten' \subseteq {MessageOf[c] : c \in Calls}
  <2>1. {MessageOf[r] : r \in Receipts} \subseteq {MessageOf[c] : c \in Calls}
    BY ReceiptsOf
  <2> QED BY <2>1 DEF Close, DataFit
<1>3. DataFit'
  BY <1>1, <1>2, EmptySeq DEF DataFit, Close
<1>4. FramesFit'
  BY EmptySeq DEF FramesFit, Close
<1>5. FinitelyMany'
  <2>1. {d \in Calls : call'[d].state # "new"} = {d \in Calls : call[d].state # "new"}
    BY <1>1
  <2> QED BY <2>1, OccursEmpty DEF FinitelyMany, Close
<1>6. LinksFit'
  BY DEF LinksFit, Close, DataFit
<1> QED BY <1>3, <1>4, <1>5, <1>6

LEMMA TypesInit == Init => TypesInv
<1> SUFFICES ASSUME Init PROVE TypesInv
  OBVIOUS
<1> USE DEF Init
<1>1. DataFit
  <2>1. 0 \in 0 .. MaxLosses
    BY SharedThreadsAssumption
  <2>2. receipts \in Seq(Calls)
    BY EmptySeq
  <2>3. call \in [Calls -> [state : {"new", "sent", "ok", "error", "unknown"},
                       by : Viewers \cup {None}, input : Inputs \cup {None}]]
    OBVIOUS
  <2>4. /\ shown \in [Viewers -> SUBSET Questions] /\ stale \in [Viewers -> SUBSET Questions]
        /\ waits \in [Calls -> Calls \cup {None}]
        /\ question \in [Questions -> {"new", "open", "closed"}]
    OBVIOUS
  <2>5. /\ {accepted, pending, writing, handling, started} \subseteq SUBSET Calls
        /\ held \in [Calls -> {"nothing", "ok", "error", "unknown"}] /\ stuck \in SUBSET linked
    OBVIOUS
  <2> QED BY <2>1, <2>2, <2>3, <2>4, <2>5 DEF DataFit
<1>2. FramesFit
  BY EmptySeq DEF FramesFit
<1>3. FinitelyMany
  <2>1. {c \in Calls : call[c].state # "new"} = {} /\ {q \in Questions : question[q] # "new"} = {}
    OBVIOUS
  <2> QED BY <2>1, FS_EmptySet, OccursEmpty DEF FinitelyMany
<1>4. LinksFit
  BY DEF LinksFit
<1> QED BY <1>1, <1>2, <1>3, <1>4 DEF TypesInv

LEMMA TypesStep == TypesInv /\ [Next]_vars => TypesInv'
<1> SUFFICES ASSUME TypesInv, [Next]_vars PROVE TypesInv'
  OBVIOUS
<1>1. CASE UNCHANGED vars
  BY <1>1 DEF vars, guis, owner, host, TypesInv, DataFit, FramesFit, FinitelyMany, LinksFit,
              Occurs
<1>2. CASE Delivery
  BY <1>2, GuiReceivesTypes, OwnerReceivesTypes, OwnerHearsTypes, HostReceivesTypes
     DEF Delivery
<1>3. ASSUME NEW v \in Viewers, NEW c \in Calls, Submit(v, c) PROVE TypesInv'
  BY <1>3, SubmitTypes
<1>4. ASSUME NEW v \in Viewers, NEW q \in Questions, AnswerQuestion(v, q) PROVE TypesInv'
  BY <1>4, AnswerQuestionTypes
<1>5. ASSUME NEW v \in Viewers, Detach(v) \/ Attach(v) PROVE TypesInv'
  BY <1>5, DetachTypes, AttachTypes
<1>6. ASSUME NEW r \in Calls,
             OwnerTimesOut(r) \/ Written(r) \/ Begin(r) \/ Fail(r) \/ Started(r)
      PROVE  TypesInv'
  BY <1>6, OwnerTimesOutTypes, WrittenTypes, BeginTypes, FailTypes, StartedTypes
<1>7. ASSUME NEW q \in Questions, Ask(q) \/ Withdraw(q) PROVE TypesInv'
  BY <1>7, AskTypes, WithdrawTypes
<1>8. CASE TurnEnds
  BY <1>8, TurnEndsTypes
<1>9. CASE Close
  BY <1>9, CloseTypes
<1>10. ASSUME NEW v \in Viewers, Answered(v) PROVE TypesInv'
  BY <1>10, AnsweredTypes
<1> QED BY <1>1, <1>2, <1>3, <1>4, <1>5, <1>6, <1>7, <1>8, <1>9, <1>10 DEF Next

-----------------------------------------------------------------------------
(* Requests.                                                               *)

(* Nothing is asked for again in a step that only takes frames of requests *)
(* and replies away.                                                       *)
LEMMA RequestsFewer ==
  ASSUME RequestsInv, UNCHANGED <<up, handling, started>>,
         \A c \in Calls : call'[c].state = "new" => call[c].state = "new",
         \A c \in Calls, v \in Viewers :
           /\ Occurs(Request(c), out'[v]) => Occurs(Request(c), out[v])
           /\ Once(Request(c), out'[v]),
         \A c \in Calls, kind \in {"ok", "error", "unknown"} :
           Occurs(Frame(kind, c), down') => Occurs(Frame(kind, c), down)
  PROVE  RequestsInv'
<1>1. \A c \in Calls : Replied(c)' => Replied(c)
  BY DEF Replied
<1>2. \A c \in Calls : Passed(c)' => Passed(c)
  BY <1>1 DEF Passed
<1>3. \A c \in Calls : Queued(c)' => Queued(c)
  BY DEF Queued
<1>4. (\A c \in Calls : call[c].state = "new" => ~Passed(c))'
  BY <1>2 DEF RequestsInv
<1>5. (\A c \in Calls : Queued(c) => ~Passed(c))'
  BY <1>2, <1>3 DEF RequestsInv
<1>6. (\A c \in Calls, v, w \in Viewers :
         Occurs(Request(c), out[v]) /\ Occurs(Request(c), out[w]) => v = w)'
  BY DEF RequestsInv
<1>7. (\A c \in Calls, v \in Viewers : Once(Request(c), out[v]))'
  OBVIOUS
<1>8. (\A c \in Calls : Once(Request(c), up))'
  BY DEF RequestsInv
<1>9. (\A c \in Calls :
         Occurs(Request(c), up) => c \notin handling \cup started /\ ~Replied(c))'
  BY <1>1 DEF RequestsInv
<1>10. (\A c \in Calls : c \in handling => c \notin started /\ ~Replied(c))'
  BY <1>1 DEF RequestsInv
<1>11. (\A c \in Calls : c \in started => ~Occurs(Frame("error", c), down))'
  BY DEF RequestsInv
<1> QED BY <1>4, <1>5, <1>6, <1>7, <1>8, <1>9, <1>10, <1>11 DEF RequestsInv

(* What is queued, once a GUI adds a frame.                                *)
LEMMA GuiAdds ==
  ASSUME TypesInv, RequestsInv, NEW v \in Viewers, NEW f \in ToHost,
         out' = [out EXCEPT ![v] = Append(@, f)]
  PROVE  /\ \A d \in Calls, w \in Viewers :
              Occurs(Request(d), out'[w]) <=>
                Occurs(Request(d), out[w]) \/ (w = v /\ f = Request(d))
         /\ \A d \in Calls, w \in Viewers :
              f # Request(d) \/ ~Occurs(Request(d), out[v]) => Once(Request(d), out'[w])
<1>1. /\ out[v] \in Seq(ToHost) /\ out'[v] = Append(out[v], f)
      /\ \A w \in Viewers : w # v => out'[w] = out[w]
  BY DEF TypesInv, FramesFit
<1>2. ASSUME NEW d \in Calls
      PROVE  /\ Occurs(Request(d), out'[v]) <=> f = Request(d) \/ Occurs(Request(d), out[v])
             /\ f # Request(d) \/ ~Occurs(Request(d), out[v]) => Once(Request(d), out'[v])
  <2>1. Once(Request(d), out[v])
    BY DEF RequestsInv
  <2> QED BY <1>1, <2>1, OccursAppend, OnceAppend
<1>3. ASSUME NEW d \in Calls, NEW w \in Viewers, w # v
      PROVE  /\ Occurs(Request(d), out'[w]) <=> Occurs(Request(d), out[w])
             /\ Once(Request(d), out'[w])
  BY <1>1, <1>3 DEF RequestsInv
<1> QED BY <1>2, <1>3

LEMMA SubmitRequests ==
  ASSUME TypesInv, RequestsInv, NEW v \in Viewers, NEW c \in Calls, Submit(v, c)
  PROVE  RequestsInv'
<1>1. /\ call[c].state = "new"
      /\ \A d \in Calls : call'[d].state = "new" <=> d # c /\ call[d].state = "new"
  BY DEF TypesInv, DataFit, Submit
<1>2. /\ \A d \in Calls, w \in Viewers :
           Occurs(Request(d), out'[w]) <=>
             Occurs(Request(d), out[w]) \/ (w = v /\ d = c)
      /\ \A d \in Calls, w \in Viewers :
           d # c \/ ~Occurs(Request(d), out[v]) => Once(Request(d), out'[w])
  <2>1. out' = [out EXCEPT ![v] = Append(@, Request(c))]
    BY DEF Submit, Request
  <2>2. Request(c) \in ToHost /\ \A d \in Calls : Request(c) = Request(d) <=> c = d
    BY FrameKinds, FrameFields DEF Request
  <2> HIDE DEF Request
  <2> QED BY <2>1, <2>2, GuiAdds
<1>3. \A w \in Viewers : ~Occurs(Request(c), out[w])
  BY <1>1 DEF TypesInv, FinitelyMany
<1>4. ~Passed(c)
  BY <1>1 DEF RequestsInv
<1>5. \A d \in Calls : Passed(d)' <=> Passed(d)
  BY DEF Submit, host, Passed, Replied
<1>6. \A d \in Calls : Replied(d)' <=> Replied(d)
  BY DEF Submit, Replied
<1>7. (\A d \in Calls : call[d].state = "new" => ~Passed(d))'
  BY <1>1, <1>5 DEF RequestsInv
<1>8. (\A d \in Calls : Queued(d) => ~Passed(d))'
  BY <1>2, <1>4, <1>5 DEF RequestsInv, Queued
<1>9. (\A d \in Calls, u, w \in Viewers :
         Occurs(Request(d), out[u]) /\ Occurs(Request(d), out[w]) => u = w)'
  BY <1>2, <1>3 DEF RequestsInv
<1>10. (\A d \in Calls, w \in Viewers : Once(Request(d), out[w]))'
  BY <1>2, <1>3
<1> QED BY <1>6, <1>7, <1>8, <1>9, <1>10 DEF RequestsInv, Submit, host

LEMMA AnswerQuestionRequests ==
  ASSUME TypesInv, RequestsInv, NEW v \in Viewers, NEW q \in Questions,
         AnswerQuestion(v, q)
  PROVE  RequestsInv'
<1>1. /\ Frame("answer", q) \in ToHost
      /\ \A d \in Calls : Frame("answer", q) # Request(d)
  BY FrameKinds, FrameFields DEF Request
<1>2. \A d \in Calls, w \in Viewers :
        /\ Occurs(Request(d), out'[w]) => Occurs(Request(d), out[w])
        /\ Once(Request(d), out'[w])
  BY <1>1, GuiAdds DEF AnswerQuestion
<1> QED BY <1>2, RequestsFewer DEF AnswerQuestion, host

LEMMA GuiReceivesRequests ==
  ASSUME TypesInv, RequestsInv, NEW v \in Viewers, GuiReceives(v)
  PROVE  RequestsInv'
<1>1. \A c \in Calls : call'[c].state = "new" => call[c].state = "new"
  <2> DEFINE f == Head(inbox[v])
  <2>1. f \in ToGui
    BY OccursTail DEF GuiReceives, TypesInv, FramesFit
  <2>2. CASE f.kind \in {"ask", "resolved"}
    BY <2>2 DEF GuiReceives
  <2>3. CASE f.kind \in {"ok", "error", "unknown"} /\ f.of \in Calls
    <3>1. call' = IF call[f.of].state = "sent"
                  THEN [call EXCEPT ![f.of].state = f.kind] ELSE call
      BY <2>3 DEF GuiReceives
    <3> HIDE DEF f
    <3> QED BY <2>3, <3>1 DEF TypesInv, DataFit
  <2> QED BY <2>1, <2>2, <2>3, FrameKinds
<1>2. \A d \in Calls, w \in Viewers : Once(Request(d), out[w])
  BY DEF RequestsInv
<1> QED BY <1>1, <1>2, RequestsFewer DEF GuiReceives, host

LEMMA DetachRequests ==
  ASSUME TypesInv, RequestsInv, NEW v \in Viewers, Detach(v)
  PROVE  RequestsInv'
<1>1. \A c \in Calls : call'[c].state = "new" => call[c].state = "new"
  BY DEF Detach, TypesInv, DataFit
<1>2. \A d \in Calls, w \in Viewers :
        /\ Occurs(Request(d), out'[w]) => Occurs(Request(d), out[w])
        /\ Once(Request(d), out'[w])
  BY DEF Detach, TypesInv, FramesFit, RequestsInv, Once, Occurs
<1> QED BY <1>1, <1>2, RequestsFewer DEF Detach, host

LEMMA AttachRequests ==
  ASSUME TypesInv, RequestsInv, NEW v \in Viewers, Attach(v)
  PROVE  RequestsInv'
BY DEF Attach, host, RequestsInv, Queued, Passed, Replied

(* What is queued, once the owner took a frame.                            *)
LEMMA OwnerTaking ==
  ASSUME TypesInv, RequestsInv, NEW v \in Viewers, OwnerReceives(v)
  PROVE  /\ \A d \in Calls, w \in Viewers :
              /\ Occurs(Request(d), out'[w]) => Occurs(Request(d), out[w])
              /\ Once(Request(d), out'[w])
         /\ \A d \in Calls : Head(out[v]) = Request(d) =>
              Queued(d) /\ \A w \in Viewers : ~Occurs(Request(d), out'[w])
<1>1. /\ out[v] \in Seq(ToHost) /\ out[v] # <<>>
      /\ out'[v] = Tail(out[v])
      /\ \A w \in Viewers : w # v => out'[w] = out[w]
  BY OwnerTakes DEF OwnerReceives, TypesInv, FramesFit
<1>2. ASSUME NEW d \in Calls
      PROVE  /\ Occurs(Request(d), out'[v]) => Occurs(Request(d), out[v])
             /\ Once(Request(d), out'[v])
             /\ Head(out[v]) = Request(d) =>
                  Occurs(Request(d), out[v]) /\ ~Occurs(Request(d), out'[v])
  <2>1. Once(Request(d), out[v])
    BY DEF RequestsInv
  <2> QED BY <1>1, <2>1, OccursTail, OnceTail
<1>3. \A d \in Calls, w \in Viewers : w # v =>
        Once(Request(d), out'[w])
  BY <1>1 DEF RequestsInv
<1>4. \A d \in Calls, w \in Viewers :
        Head(out[v]) = Request(d) /\ w # v => ~Occurs(Request(d), out'[w])
  BY <1>1, <1>2 DEF RequestsInv
<1> QED BY <1>1, <1>2, <1>3, <1>4 DEF Queued

LEMMA OwnerReceivesRequests ==
  ASSUME TypesInv, RequestsInv, NEW v \in Viewers, OwnerReceives(v)
  PROVE  RequestsInv'
<1>1. UNCHANGED <<call, handling, started, down>>
  BY DEF OwnerReceives, host
<1>2. /\ \A d \in Calls, w \in Viewers :
           /\ Occurs(Request(d), out'[w]) => Occurs(Request(d), out[w])
           /\ Once(Request(d), out'[w])
      /\ \A d \in Calls : Head(out[v]) = Request(d) =>
           Queued(d) /\ \A w \in Viewers : ~Occurs(Request(d), out'[w])
  BY OwnerTaking
<1>3. CASE UNCHANGED up
  BY <1>1, <1>2, <1>3, RequestsFewer
<1>4. ASSUME NEW q \in Questions, up' = Append(up, Frame("answer", q))
      PROVE  RequestsInv'
  <2>1. /\ up \in Seq(ToHost) /\ Frame("answer", q) \in ToHost
        /\ \A d \in Calls : Frame("answer", q) # Request(d)
    BY FrameKinds, FrameFields DEF Request, TypesInv, FramesFit
  <2>2. \A d \in Calls :
          /\ Occurs(Request(d), up') <=> Occurs(Request(d), up)
          /\ Once(Request(d), up')
    BY <1>4, <2>1, OccursAppend, OnceAppend DEF RequestsInv
  <2>3. \A d \in Calls : (Replied(d)' <=> Replied(d)) /\ (Queued(d)' => Queued(d))
    BY <1>1, <1>2 DEF Replied, Queued
  <2>4. \A d \in Calls : Passed(d)' <=> Passed(d)
    BY <1>1, <2>2, <2>3 DEF Passed
  <2> QED BY <1>1, <1>2, <2>2, <2>3, <2>4 DEF RequestsInv
<1>5. ASSUME NEW c \in Calls, Head(out[v]) = Request(c), up' = Append(up, Request(c))
      PROVE  RequestsInv'
  <2>1. /\ up \in Seq(ToHost) /\ Request(c) \in ToHost
        /\ \A d \in Calls : Request(c) = Request(d) <=> c = d
    BY FrameKinds, FrameFields DEF Request, TypesInv, FramesFit
  <2>2. Queued(c) /\ ~Passed(c) /\ ~Occurs(Request(c), up)
    BY <1>2, <1>5 DEF RequestsInv, Passed
  <2>3. call[c].state # "new"
    BY <2>2 DEF TypesInv, FinitelyMany, Queued
  <2>4. \A d \in Calls :
          /\ Occurs(Request(d), up') <=> d = c \/ Occurs(Request(d), up)
          /\ Once(Request(d), up')
    BY <1>5, <2>1, <2>2, OccursAppend, OnceAppend DEF RequestsInv
  <2>5. \A d \in Calls : (Replied(d)' <=> Replied(d)) /\ (Queued(d)' => Queued(d) /\ d # c)
    BY <1>1, <1>2, <1>5 DEF Replied, Queued
  <2>6. \A d \in Calls : Passed(d)' <=> Passed(d) \/ d = c
    BY <1>1, <2>4, <2>5 DEF Passed
  <2>7. (\A d \in Calls : call[d].state = "new" => ~Passed(d))'
    BY <1>1, <2>3, <2>6 DEF RequestsInv
  <2>8. (\A d \in Calls : Queued(d) => ~Passed(d))'
    BY <2>5, <2>6 DEF RequestsInv
  <2>9. (\A d \in Calls :
           Occurs(Request(d), up) => d \notin handling \cup started /\ ~Replied(d))'
    BY <1>1, <2>2, <2>4, <2>5 DEF RequestsInv, Passed
  <2> QED BY <1>1, <1>2, <2>4, <2>5, <2>7, <2>8, <2>9 DEF RequestsInv
<1>6. ASSUME NEW c \in Calls, Head(out[v]) = Request(c), TakeCall(c)
      PROVE  RequestsInv'
  BY <1>3, <1>5, <1>6, CallTaken
<1>7. ASSUME NEW q \in Questions, TakeAnswer(v, q)
      PROVE  RequestsInv'
  BY <1>3, <1>4, <1>7 DEF TakeAnswer
<1> QED BY <1>6, <1>7, OwnerTakes

LEMMA OwnerHearsRequests ==
  ASSUME TypesInv, RequestsInv, OwnerHears
  PROVE  RequestsInv'
<1>1. /\ down \in Seq(ToGui) /\ down # <<>> /\ down' = Tail(down)
      /\ UNCHANGED <<call, out, handling, started, up>>
  BY OwnerHearsCases DEF host
<1>2. \A f : Occurs(f, down') => Occurs(f, down)
  BY <1>1, OccursTail
<1>3. \A d \in Calls, w \in Viewers : Once(Request(d), out[w])
  BY DEF RequestsInv
<1> QED BY <1>1, <1>2, <1>3, RequestsFewer

LEMMA OwnerGoesOnRequests ==
  ASSUME TypesInv, RequestsInv,
         \/ \E r \in Calls : OwnerTimesOut(r) \/ Written(r)
         \/ \E v \in Viewers : Answered(v)
  PROVE  RequestsInv'
<1>1. \A d \in Calls, w \in Viewers : Once(Request(d), out[w])
  BY DEF RequestsInv
<1> QED BY <1>1, RequestsFewer DEF OwnerTimesOut, Written, Answered, guis, host

(* A step of the Host that only tells of questions.                        *)
LEMMA RequestsUntouched ==
  ASSUME RequestsInv, UNCHANGED <<guis, up, handling, started>>,
         \A c \in Calls, kind \in {"ok", "error", "unknown"} :
           Occurs(Frame(kind, c), down') => Occurs(Frame(kind, c), down)
  PROVE  RequestsInv'
<1>1. \A d \in Calls, w \in Viewers : Once(Request(d), out[w])
  BY DEF RequestsInv
<1> QED BY <1>1, RequestsFewer DEF guis

(* The replies that are on their way, when a question is asked or closed.  *)
LEMMA EventAdds ==
  ASSUME TypesInv, NEW q \in Questions, NEW e \in {"ask", "resolved"},
         down' = Append(down, Frame(e, q))
  PROVE  \A c \in Calls, kind \in {"ok", "error", "unknown"} :
           Occurs(Frame(kind, c), down') => Occurs(Frame(kind, c), down)
<1>1. down \in Seq(ToGui) /\ Frame(e, q) \in ToGui
  BY FrameKinds DEF TypesInv, FramesFit
<1>2. \A c \in Calls, kind \in {"ok", "error", "unknown"} : Frame(kind, c) # Frame(e, q)
  BY FrameFields
<1> QED BY <1>1, <1>2, OccursAppend

LEMMA HostReceivesRequests ==
  ASSUME TypesInv, RequestsInv, HostReceives
  PROVE  RequestsInv'
<1>1. /\ up \in Seq(ToHost) /\ up # <<>> /\ up' = Tail(up)
      /\ UNCHANGED <<call, out, started>>
  BY HostTakes DEF guis
<1>2. ASSUME NEW d \in Calls
      PROVE  /\ Occurs(Request(d), up) <=> Head(up) = Request(d) \/ Occurs(Request(d), up')
             /\ Once(Request(d), up')
             /\ Head(up) = Request(d) => ~Occurs(Request(d), up')
  <2>1. Once(Request(d), up)
    BY DEF RequestsInv
  <2> QED BY <1>1, <2>1, OccursTail, OnceTail
<1>3. ASSUME NEW c \in Calls, Head(up) = Request(c), handling' = handling \cup {c},
             UNCHANGED down
      PROVE  RequestsInv'
  <2>1. \A d \in Calls : Head(up) = Request(d) <=> d = c
    BY <1>3, FrameFields DEF Request
  <2>2. \A d \in Calls : Occurs(Request(d), up) <=> d = c \/ Occurs(Request(d), up')
    BY <1>2, <2>1
  <2>3. c \notin started /\ ~Replied(c)
    BY <2>2 DEF RequestsInv
  <2>4. \A d \in Calls : (Replied(d)' <=> Replied(d)) /\ (Queued(d)' <=> Queued(d))
    BY <1>1, <1>3 DEF Replied, Queued
  <2>5. \A d \in Calls : Passed(d)' <=> Passed(d)
    BY <1>1, <1>3, <2>2, <2>4 DEF Passed
  <2>6. (\A d \in Calls :
           Occurs(Request(d), up) => d \notin handling \cup started /\ ~Replied(d))'
    BY <1>1, <1>2, <1>3, <2>1, <2>2, <2>4 DEF RequestsInv
  <2>7. (\A d \in Calls : d \in handling => d \notin started /\ ~Replied(d))'
    BY <1>1, <1>3, <2>3, <2>4 DEF RequestsInv
  <2> QED BY <1>1, <1>2, <1>3, <2>4, <2>5, <2>6, <2>7 DEF RequestsInv
<1>4. ASSUME \A c \in Calls : Head(up) # Request(c), UNCHANGED handling,
             \A c \in Calls, kind \in {"ok", "error", "unknown"} :
               Occurs(Frame(kind, c), down') => Occurs(Frame(kind, c), down)
      PROVE  RequestsInv'
  <2>1. \A d \in Calls : Occurs(Request(d), up) <=> Occurs(Request(d), up')
    BY <1>2, <1>4
  <2>2. \A d \in Calls : (Replied(d)' => Replied(d)) /\ (Queued(d)' <=> Queued(d))
    BY <1>1, <1>4 DEF Replied, Queued
  <2>3. \A d \in Calls : Passed(d)' => Passed(d)
    BY <1>1, <1>4, <2>1, <2>2 DEF Passed
  <2>4. (\A d \in Calls : d \in started => ~Occurs(Frame("error", d), down))'
    BY <1>1, <1>4 DEF RequestsInv
  <2>5. (\A d \in Calls :
           Occurs(Request(d), up) => d \notin handling \cup started /\ ~Replied(d))'
    BY <1>1, <1>4, <2>1, <2>2 DEF RequestsInv
  <2>6. (\A d \in Calls : d \in handling => d \notin started /\ ~Replied(d))'
    BY <1>1, <1>4, <2>2 DEF RequestsInv
  <2> QED BY <1>1, <1>2, <2>2, <2>3, <2>4, <2>5, <2>6 DEF RequestsInv
<1>5. \/ \E q \in Questions : down' = Append(down, Frame("resolved", q))
      \/ UNCHANGED down
      => \A c \in Calls, kind \in {"ok", "error", "unknown"} :
           Occurs(Frame(kind, c), down') => Occurs(Frame(kind, c), down)
  BY EventAdds
<1> QED BY <1>3, <1>4, <1>5, HostTakes

LEMMA BeginRequests ==
  ASSUME RequestsInv, NEW r \in Calls, Begin(r)
  PROVE  RequestsInv'
BY RequestsUntouched DEF Begin

LEMMA FailRequests ==
  ASSUME TypesInv, RequestsInv, NEW r \in Calls, Fail(r)
  PROVE  RequestsInv'
<1>1. /\ r \in handling /\ handling' = handling \ {r}
      /\ UNCHANGED <<call, out, up, started>>
      /\ down' = Append(down, Frame("error", r))
  BY DEF Fail, guis
<1>2. \A f : Occurs(f, down') <=> f = Frame("error", r) \/ Occurs(f, down)
  BY <1>1, ReplyFits
<1>3. \A d \in Calls : Replied(d)' <=> Replied(d) \/ d = r
  BY <1>2, FrameFields DEF Replied
<1>4. \A d \in Calls : Queued(d)' <=> Queued(d)
  BY <1>1 DEF Queued
<1>5. \A d \in Calls : Passed(d)' <=> Passed(d)
  BY <1>1, <1>3 DEF Passed
<1>6. ~Occurs(Request(r), up) /\ r \notin started
  BY <1>1 DEF RequestsInv
<1>7. (\A d \in Calls : d \in started => ~Occurs(Frame("error", d), down))'
  BY <1>1, <1>2, <1>6, FrameFields DEF RequestsInv
<1>8. (\A d \in Calls :
         Occurs(Request(d), up) => d \notin handling \cup started /\ ~Replied(d))'
  BY <1>1, <1>3, <1>6 DEF RequestsInv
<1>9. (\A d \in Calls : d \in handling => d \notin started /\ ~Replied(d))'
  BY <1>1, <1>3 DEF RequestsInv
<1> QED BY <1>1, <1>4, <1>5, <1>7, <1>8, <1>9 DEF RequestsInv

LEMMA StartedRequests ==
  ASSUME TypesInv, RequestsInv, NEW r \in Calls, Started(r)
  PROVE  RequestsInv'
<1>1. /\ r \in handling /\ handling' = handling \ {r} /\ started' = started \cup {r}
      /\ UNCHANGED <<call, out, up>>
      /\ down' = Append(down, Frame("ok", r))
  BY DEF Started, guis
<1>2. \A f : Occurs(f, down') <=> f = Frame("ok", r) \/ Occurs(f, down)
  BY <1>1, ReplyFits
<1>3. \A d \in Calls : Replied(d)' <=> Replied(d) \/ d = r
  BY <1>2, FrameFields DEF Replied
<1>4. \A d \in Calls : Queued(d)' <=> Queued(d)
  BY <1>1 DEF Queued
<1>5. \A d \in Calls : Passed(d)' <=> Passed(d)
  BY <1>1, <1>3 DEF Passed
<1>6. ~Occurs(Request(r), up) /\ r \notin started /\ ~Replied(r)
  BY <1>1 DEF RequestsInv
<1>7. (\A d \in Calls : d \in started => ~Occurs(Frame("error", d), down))'
  BY <1>1, <1>2, <1>6, FrameFields DEF RequestsInv, Replied
<1>8. (\A d \in Calls :
         Occurs(Request(d), up) => d \notin handling \cup started /\ ~Replied(d))'
  BY <1>1, <1>3, <1>6 DEF RequestsInv
<1>9. (\A d \in Calls : d \in handling => d \notin started /\ ~Replied(d))'
  BY <1>1, <1>3 DEF RequestsInv
<1> QED BY <1>1, <1>4, <1>5, <1>7, <1>8, <1>9 DEF RequestsInv

LEMMA AskRequests ==
  ASSUME TypesInv, RequestsInv, NEW q \in Questions, Ask(q)
  PROVE  RequestsInv'
BY EventAdds, RequestsUntouched DEF Ask

LEMMA WithdrawRequests ==
  ASSUME TypesInv, RequestsInv, NEW q \in Questions, Withdraw(q)
  PROVE  RequestsInv'
BY EventAdds, RequestsUntouched DEF Withdraw

LEMMA TurnEndsRequests ==
  ASSUME TypesInv, RequestsInv, TurnEnds
  PROVE  RequestsInv'
<1>1. PICK told \in Seq(ToGui) :
        /\ down' = down \o told
        /\ \A f : Occurs(f, told) <=>
             \E q \in Questions : question[q] = "open" /\ f = Frame("resolved", q)
  BY TurnEndsFits
<1>2. down \in Seq(ToGui)
  BY TurnEndsFits
<1>3. \A c \in Calls, kind \in {"ok", "error", "unknown"} :
        Occurs(Frame(kind, c), down') => Occurs(Frame(kind, c), down)
  BY <1>1, <1>2, OccursConcat, FrameFields
<1> QED BY <1>3, RequestsUntouched DEF TurnEnds

LEMMA CloseRequests ==
  ASSUME TypesInv, RequestsInv, Close
  PROVE  RequestsInv'
<1>1. /\ up' = <<>> /\ down' = <<>> /\ handling' = {} /\ started' = started
      /\ \A v \in Viewers : out'[v] = <<>>
      /\ \A c \in Calls : call'[c].state = "new" => call[c].state = "new"
  BY DEF Close, TypesInv, DataFit
<1>2. \A d \in Calls : ~Replied(d)' /\ ~Queued(d)' /\ ~Occurs(Request(d), up')
  BY <1>1, OccursEmpty DEF Replied, Queued
<1>3. \A d \in Calls : Passed(d)' => Passed(d)
  BY <1>1, <1>2 DEF Passed
<1>4. \A d \in Calls : Once(Request(d), <<>>)
  BY DEF Once
<1> QED BY <1>1, <1>2, <1>3, <1>4, OccursEmpty DEF RequestsInv

LEMMA RequestsInit == Init => RequestsInv
<1> SUFFICES ASSUME Init PROVE RequestsInv
  OBVIOUS
<1>1. /\ up = <<>> /\ down = <<>> /\ handling = {} /\ started = {}
      /\ \A v \in Viewers : out[v] = <<>>
  BY DEF Init
<1>2. \A c \in Calls : ~Replied(c) /\ ~Queued(c) /\ ~Occurs(Request(c), up)
  BY <1>1, OccursEmpty DEF Replied, Queued
<1>3. \A c \in Calls : ~Passed(c)
  BY <1>1, <1>2 DEF Passed
<1>4. \A c \in Calls : Once(Request(c), <<>>)
  BY DEF Once
<1> QED BY <1>1, <1>2, <1>3, <1>4, OccursEmpty DEF RequestsInv

LEMMA RequestsStep == TypesInv /\ RequestsInv /\ [Next]_vars => RequestsInv'
<1> SUFFICES ASSUME TypesInv, RequestsInv, [Next]_vars PROVE RequestsInv'
  OBVIOUS
<1>1. CASE UNCHANGED vars
  BY <1>1 DEF vars, guis, owner, host, RequestsInv, Queued, Passed, Replied
<1>2. CASE Delivery
  BY <1>2, GuiReceivesRequests, OwnerReceivesRequests, OwnerHearsRequests,
     HostReceivesRequests DEF Delivery
<1>3. ASSUME NEW v \in Viewers, NEW c \in Calls, Submit(v, c) PROVE RequestsInv'
  BY <1>3, SubmitRequests
<1>4. ASSUME NEW v \in Viewers, NEW q \in Questions, AnswerQuestion(v, q)
      PROVE  RequestsInv'
  BY <1>4, AnswerQuestionRequests
<1>5. ASSUME NEW v \in Viewers, Detach(v) \/ Attach(v) PROVE RequestsInv'
  BY <1>5, DetachRequests, AttachRequests
<1>6. ASSUME NEW r \in Calls,
             OwnerTimesOut(r) \/ Written(r) \/ Begin(r) \/ Fail(r) \/ Started(r)
      PROVE  RequestsInv'
  BY <1>6, OwnerGoesOnRequests, BeginRequests, FailRequests, StartedRequests
<1>7. ASSUME NEW q \in Questions, Ask(q) \/ Withdraw(q) PROVE RequestsInv'
  BY <1>7, AskRequests, WithdrawRequests
<1>8. CASE TurnEnds
  BY <1>8, TurnEndsRequests
<1>9. CASE Close
  BY <1>9, CloseRequests
<1>10. ASSUME NEW v \in Viewers, Answered(v) PROVE RequestsInv'
  BY <1>10, OwnerGoesOnRequests
<1> QED BY <1>1, <1>2, <1>3, <1>4, <1>5, <1>6, <1>7, <1>8, <1>9, <1>10 DEF Next

(* What a GUI sends again and again is the same message.                   *)
LEMMA InputsStay ==
  ASSUME TypesInv, [Next]_vars, NEW c \in Calls, call[c].state # "new"
  PROVE  call'[c].state # "new" /\ call'[c].input = call[c].input
<1>1. call \in [Calls -> [state : {"new", "sent", "ok", "error", "unknown"},
                          by : Viewers \cup {None}, input : Inputs \cup {None}]]
  BY DEF TypesInv, DataFit
<1>2. CASE UNCHANGED call
  BY <1>2
<1>3. ASSUME NEW v \in Viewers, GuiReceives(v)
      PROVE  call'[c].state # "new" /\ call'[c].input = call[c].input
  <2> DEFINE f == Head(inbox[v])
  <2>1. f \in ToGui
    BY <1>3, OccursTail DEF GuiReceives, TypesInv, FramesFit
  <2>2. CASE f.kind \in {"ask", "resolved"}
    BY <1>3, <2>2 DEF GuiReceives
  <2>3. CASE f.kind \in {"ok", "error", "unknown"} /\ f.of \in Calls
    <3>1. call' = IF call[f.of].state = "sent"
                  THEN [call EXCEPT ![f.of].state = f.kind] ELSE call
      BY <1>3, <2>3 DEF GuiReceives
    <3> HIDE DEF f
    <3> QED BY <1>1, <2>3, <3>1
  <2> QED BY <2>1, <2>2, <2>3, FrameKinds
<1>4. ASSUME NEW v \in Viewers, NEW d \in Calls, Submit(v, d)
      PROVE  call'[c].state # "new" /\ call'[c].input = call[c].input
  BY <1>1, <1>4 DEF Submit
<1>5. ASSUME NEW v \in Viewers, Detach(v)
      PROVE  call'[c].state # "new" /\ call'[c].input = call[c].input
  BY <1>1, <1>5 DEF Detach
<1>6. CASE Close
  BY <1>1, <1>6 DEF Close
<1>7. ASSUME NEW v \in Viewers, OwnerReceives(v) PROVE UNCHANGED call
  BY <1>7 DEF OwnerReceives
<1>8. CASE OwnerHears \/ HostReceives \/ TurnEnds
  BY <1>2, <1>8 DEF OwnerHears, HostReceives, HandleAnswer, TurnEnds, guis
<1>9. ASSUME NEW v \in Viewers, NEW q \in Questions, AnswerQuestion(v, q) \/ Attach(v)
      PROVE  UNCHANGED call
  BY <1>9 DEF AnswerQuestion, Attach
<1>10. ASSUME NEW v \in Viewers, Attach(v) PROVE UNCHANGED call
  BY <1>10 DEF Attach
<1>11. ASSUME NEW r \in Calls,
              OwnerTimesOut(r) \/ Written(r) \/ Begin(r) \/ Fail(r) \/ Started(r)
       PROVE  UNCHANGED call
  BY <1>11 DEF OwnerTimesOut, Written, Begin, Fail, Started, guis
<1>12. ASSUME NEW q \in Questions, Ask(q) \/ Withdraw(q) PROVE UNCHANGED call
  BY <1>12 DEF Ask, Withdraw, guis
<1>13. CASE UNCHANGED vars
  BY <1>2, <1>13 DEF vars, guis
<1>14. ASSUME NEW v \in Viewers, Answered(v) PROVE UNCHANGED call
  BY <1>14 DEF Answered, guis
<1> QED BY <1>2, <1>3, <1>4, <1>5, <1>6, <1>7, <1>8, <1>9, <1>10, <1>11, <1>12, <1>13,
           <1>14 DEF Next, Delivery

(* A request goes one way only: from its GUI over the owner to the Host.   *)
OneWay(c) ==
  /\ Queued(c)' => Queued(c) \/ call[c].state = "new"
  /\ Effective(c)' => Effective(c) \/ Queued(c)

LEMMA OwnerReceivesWay ==
  ASSUME TypesInv, RequestsInv, NEW v \in Viewers, OwnerReceives(v), NEW c \in Calls
  PROVE  OneWay(c)
<1>1. UNCHANGED <<call, handling, started>> /\ up \in Seq(ToHost)
  BY DEF OwnerReceives, host, TypesInv, FramesFit
<1>2. Queued(c)' => Queued(c)
  BY OwnerTaking DEF Queued
<1>3. Occurs(Request(c), up') => Occurs(Request(c), up) \/ Queued(c)
  <2>1. ASSUME NEW d \in Calls, Head(out[v]) = Request(d), TakeCall(d)
        PROVE  Occurs(Request(c), up') => Occurs(Request(c), up) \/ Queued(c)
    <3>1. up' = up \/ up' = Append(up, Request(d))
      BY <2>1, CallTaken
    <3>2. Request(d) \in ToHost /\ (Request(c) = Request(d) <=> c = d)
      BY FrameKinds, FrameFields DEF Request
    <3>3. Queued(d)
      BY <2>1, OwnerTaking
    <3> QED BY <1>1, <3>1, <3>2, <3>3, OccursAppend
  <2>2. ASSUME NEW q \in Questions, TakeAnswer(v, q)
        PROVE  Occurs(Request(c), up') => Occurs(Request(c), up)
    <3>1. Frame("answer", q) \in ToHost /\ Frame("answer", q) # Request(c)
      BY FrameKinds, FrameFields DEF Request
    <3> QED BY <1>1, <2>2, <3>1, OccursAppend DEF TakeAnswer
  <2> QED BY <2>1, <2>2, OwnerTakes
<1> QED BY <1>1, <1>2, <1>3 DEF OneWay, Effective

LEMMA RequestsPass ==
  ASSUME TypesInv, RequestsInv, [Next]_vars, NEW c \in Calls
  PROVE  OneWay(c)
<1>1. ASSUME UNCHANGED <<out, up>>, handling' \cup started' \subseteq handling \cup started
      PROVE  OneWay(c)
  BY <1>1 DEF OneWay, Queued, Effective
<1>2. ASSUME NEW v \in Viewers, NEW d \in Calls, Submit(v, d) PROVE OneWay(c)
  <2>1. out' = [out EXCEPT ![v] = Append(@, Request(d))] /\ Request(d) \in ToHost
    BY <1>2, FrameKinds DEF Submit, Request
  <2>2. Request(c) = Request(d) <=> c = d
    BY FrameFields DEF Request
  <2>3. Queued(c)' => Queued(c) \/ c = d
    <3> HIDE DEF Request
    <3> QED BY <2>1, <2>2, GuiAdds DEF Queued
  <2> QED BY <1>2, <2>3 DEF OneWay, Effective, Submit, host
<1>3. ASSUME NEW v \in Viewers, NEW q \in Questions, AnswerQuestion(v, q) PROVE OneWay(c)
  <2>1. Frame("answer", q) \in ToHost /\ Frame("answer", q) # Request(c)
    BY FrameKinds, FrameFields DEF Request
  <2>2. Queued(c)' => Queued(c)
    BY <1>3, <2>1, GuiAdds DEF Queued, AnswerQuestion
  <2> QED BY <1>3, <2>2 DEF OneWay, Effective, AnswerQuestion, host
<1>4. ASSUME NEW v \in Viewers, Detach(v) PROVE OneWay(c)
  BY <1>4, OccursEmpty DEF Detach, TypesInv, FramesFit, OneWay, Queued, Effective, host
<1>5. ASSUME NEW v \in Viewers, GuiReceives(v) \/ Attach(v) PROVE OneWay(c)
  BY <1>1, <1>5 DEF GuiReceives, Attach, host
<1>6. CASE OwnerHears
  BY <1>1, <1>6 DEF OwnerHears, host
<1>7. CASE HostReceives
  <2>1. /\ up \in Seq(ToHost) /\ up # <<>> /\ up' = Tail(up) /\ UNCHANGED <<out, started>>
        /\ c \in handling' => c \in handling \/ Head(up) = Request(c)
    BY <1>7, HostTakes DEF guis
  <2>2. Occurs(Request(c), up) <=> Head(up) = Request(c) \/ Occurs(Request(c), up')
    BY <2>1, OccursTail
  <2> QED BY <2>1, <2>2 DEF OneWay, Queued, Effective
<1>8. ASSUME NEW r \in Calls,
             OwnerTimesOut(r) \/ Written(r) \/ Begin(r) \/ Fail(r) \/ Started(r)
      PROVE  OneWay(c)
  BY <1>1, <1>8 DEF OwnerTimesOut, Written, Begin, Fail, Started, guis, host
<1>9. ASSUME NEW q \in Questions, Ask(q) \/ Withdraw(q) PROVE OneWay(c)
  BY <1>1, <1>9 DEF Ask, Withdraw, guis
<1>10. CASE TurnEnds
  BY <1>1, <1>10 DEF TurnEnds, guis
<1>11. CASE Close
  BY <1>11, OccursEmpty DEF Close, OneWay, Queued, Effective
<1>12. CASE UNCHANGED vars
  BY <1>1, <1>12 DEF vars, guis, host
<1>13. ASSUME NEW v \in Viewers, Answered(v) PROVE OneWay(c)
  BY <1>1, <1>13 DEF Answered, guis, host
<1> QED BY <1>2, <1>3, <1>4, <1>5, <1>6, <1>7, <1>8, <1>9, <1>10, <1>11, <1>12, <1>13,
           OwnerReceivesWay DEF Next, Delivery

(* So a request that will not start a Turn never will.                     *)
LEMMA DeadStays ==
  ASSUME TypesInv, RequestsInv, [Next]_vars, NEW c \in Calls, Dead(c)
  PROVE  Dead(c)'
BY InputsStay, RequestsPass DEF Dead, OneWay

(* The Host refuses only such a request.                                   *)
LEMMA RefusedIsDead ==
  ASSUME RequestsInv, NEW c \in Calls, Occurs(Frame("error", c), down)
  PROVE  Dead(c)
<1>1. Replied(c)
  BY DEF Replied
<1>2. call[c].state # "new" /\ ~Queued(c)
  BY <1>1 DEF RequestsInv, Passed
<1>3. ~Effective(c)
  BY <1>1 DEF RequestsInv, Effective
<1> QED BY <1>2, <1>3 DEF Dead

(* What is held of a request is a reply that was there, or the timer.      *)
LEMMA HeldFrom ==
  ASSUME TypesInv, [Next]_vars, NEW c \in Calls, held'[c] \in {"ok", "error"}
  PROVE  held'[c] = held[c] \/ Occurs(Frame(held'[c], c), down)
<1>1. CASE UNCHANGED held
  BY <1>1
<1>2. held \in [Calls -> {"nothing", "ok", "error", "unknown"}]
  BY DEF TypesInv, DataFit
<1>3. CASE OwnerHears
  <2>1. ASSUME NEW r \in Calls, NEW kind \in {"ok", "error", "unknown"},
               Head(down) = Frame(kind, r), held' = [held EXCEPT ![r] = kind]
        PROVE  held'[c] = held[c] \/ Occurs(Frame(held'[c], c), down)
    <3>1. Occurs(Frame(kind, r), down)
      BY <1>3, <2>1, OwnerHearsCases, OccursTail
    <3>2. CASE c = r
      BY <1>2, <2>1, <3>1, <3>2
    <3>3. CASE c # r
      BY <1>2, <2>1, <3>3
    <3> QED BY <3>2, <3>3
  <2>2. \/ UNCHANGED held
        \/ \E r \in Calls, kind \in {"ok", "error", "unknown"} :
             Head(down) = Frame(kind, r) /\ held' = [held EXCEPT ![r] = kind]
    BY <1>3, OwnerHearsCases, EndCases
  <2> QED BY <1>1, <2>1, <2>2
<1>4. ASSUME NEW r \in Calls, OwnerTimesOut(r)
      PROVE  held'[c] = held[c]
  BY <1>2, <1>4, EndCases DEF OwnerTimesOut
<1>5. ASSUME NEW r \in Calls, Written(r)
      PROVE  held'[c] = held[c]
  BY <1>2, <1>5, WrittenCases
<1>6. CASE Close
  BY <1>6 DEF Close
<1>7. CASE HostReceives \/ TurnEnds \/ UNCHANGED vars
  BY <1>1, <1>7 DEF HostReceives, HandleAnswer, TurnEnds, vars, owner
<1>8. ASSUME NEW v \in Viewers,
             \/ GuiReceives(v) \/ OwnerReceives(v) \/ Detach(v) \/ Attach(v) \/ Answered(v)
             \/ \E d \in Calls : Submit(v, d)
             \/ \E q \in Questions : AnswerQuestion(v, q)
      PROVE  UNCHANGED held
  BY <1>8 DEF GuiReceives, OwnerReceives, Detach, Attach, Answered, Submit, AnswerQuestion,
              owner
<1>9. ASSUME NEW r \in Calls, Begin(r) \/ Fail(r) \/ Started(r) PROVE UNCHANGED held
  BY <1>9 DEF Begin, Fail, Started, owner
<1>10. ASSUME NEW q \in Questions, Ask(q) \/ Withdraw(q) PROVE UNCHANGED held
  BY <1>10 DEF Ask, Withdraw, owner
<1> QED BY <1>1, <1>3, <1>4, <1>5, <1>6, <1>7, <1>8, <1>9, <1>10 DEF Next, Delivery

LEMMA HeldStep == TypesInv /\ RequestsInv /\ HeldInv /\ [Next]_vars => HeldInv'
<1> SUFFICES ASSUME TypesInv, RequestsInv, HeldInv, [Next]_vars,
                    NEW c \in Calls, held'[c] = "error"
             PROVE  Dead(c)'
  BY DEF HeldInv
<1>1. held[c] = "error" \/ Occurs(Frame("error", c), down)
  BY HeldFrom
<1>2. Dead(c)
  BY <1>1, RefusedIsDead DEF HeldInv
<1> QED BY <1>2, DeadStays

LEMMA HeldInit == Init => HeldInv
BY DEF Init, HeldInv

-----------------------------------------------------------------------------
(* Receipts.                                                               *)

(* A step that sends no request and drops no receipt.                      *)
LEMMA ReceiptsSame ==
  ASSUME ReceiptsInv, UNCHANGED <<receipts, forgotten>>,
         \A c \in Calls : Effective(c)' => Effective(c)
  PROVE  ReceiptsInv'
<1>1. \A c \in Calls : Effective(c) => c \in Receipts \/ MessageOf[c] \in forgotten
  BY DEF ReceiptsInv, Effective
<1>2. Receipts' = Receipts
  BY DEF Receipts
<1>3. \A c \in Calls : Effective(c)' => c \in Receipts' \/ MessageOf[c] \in forgotten'
  BY <1>1, <1>2
<1> QED BY <1>3 DEF ReceiptsInv, Effective

(* A receipt that is set is the only one of its message.                   *)
LEMMA OfEachAppend ==
  ASSUME TypesInv, OfEachMessage(receipts), NEW c \in Calls, Receipt(c) = {},
         receipts' = Append(receipts, c)
  PROVE  OfEachMessage(receipts') /\ Receipts' = Receipts \cup {c}
<1>1. receipts \in Seq(Calls)
  BY ReceiptsOf
<1>2. /\ DOMAIN receipts = 1 .. Len(receipts) /\ Len(receipts) \in Nat
      /\ DOMAIN receipts' = 1 .. Len(receipts) + 1
      /\ \A i \in 1 .. Len(receipts) : receipts'[i] = receipts[i]
      /\ receipts'[Len(receipts) + 1] = c
  BY <1>1, AppendProperties, LenProperties
<1>3. \A i \in 1 .. Len(receipts) :
        ~SameMessage(receipts[i], c) /\ ~SameMessage(c, receipts[i])
  BY <1>2 DEF Receipt, Receipts, SameMessage
<1>4. OfEachMessage(receipts')
  BY <1>2, <1>3 DEF OfEachMessage
<1>5. \A i \in 1 .. Len(receipts) + 1 : i \in 1 .. Len(receipts) \/ i = Len(receipts) + 1
  BY <1>2
<1>6. Len(receipts) + 1 \in 1 .. Len(receipts) + 1
      /\ \A i \in 1 .. Len(receipts) : i \in 1 .. Len(receipts) + 1
  BY <1>2
<1>7. Receipts' = Receipts \cup {c}
  BY <1>2, <1>5, <1>6 DEF Receipts
<1> QED BY <1>4, <1>7

LEMMA OwnerReceivesReceipts ==
  ASSUME TypesInv, ReceiptsInv, NEW v \in Viewers, OwnerReceives(v)
  PROVE  ReceiptsInv'
<1>1. UNCHANGED <<handling, started, forgotten>> /\ up \in Seq(ToHost)
  BY DEF OwnerReceives, host, TypesInv, FramesFit
<1>2. ASSUME UNCHANGED receipts,
             \A c \in Calls : Occurs(Request(c), up') => Occurs(Request(c), up)
      PROVE  ReceiptsInv'
  BY <1>1, <1>2, ReceiptsSame DEF Effective
<1>3. ASSUME NEW c \in Calls, Receipt(c) = {}, receipts' = Append(receipts, c),
             up' = Append(up, Request(c))
      PROVE  ReceiptsInv'
  <2>1. OfEachMessage(receipts') /\ Receipts' = Receipts \cup {c}
    BY <1>3, OfEachAppend DEF ReceiptsInv
  <2>2. \A d \in Calls : Occurs(Request(d), up') => d = c \/ Occurs(Request(d), up)
    <3>1. Request(c) \in ToHost /\ \A d \in Calls : Request(c) = Request(d) <=> c = d
      BY FrameKinds, FrameFields DEF Request
    <3> QED BY <1>1, <1>3, <3>1, OccursAppend
  <2> QED BY <1>1, <2>1, <2>2 DEF ReceiptsInv
<1>4. ASSUME NEW c \in Calls, TakeCall(c)
      PROVE  ReceiptsInv'
  BY <1>2, <1>3, <1>4, CallTaken
<1>5. ASSUME NEW q \in Questions, TakeAnswer(v, q)
      PROVE  ReceiptsInv'
  <2>1. /\ Frame("answer", q) \in ToHost
        /\ \A d \in Calls : Frame("answer", q) # Request(d)
    BY FrameKinds, FrameFields DEF Request
  <2>2. \A c \in Calls : Occurs(Request(c), up') => Occurs(Request(c), up)
    BY <1>1, <1>5, <2>1, OccursAppend DEF TakeAnswer
  <2> QED BY <1>2, <1>5, <2>2 DEF TakeAnswer
<1> QED BY <1>4, <1>5, OwnerTakes

(* A receipt that goes with the end of its request is of one that is       *)
(* refused, or is forgotten.                                               *)
LEMMA FinishReceipts ==
  ASSUME TypesInv, ReceiptsInv, UNCHANGED <<handling, started, up>>,
         NEW r \in Calls, NEW kind \in {"ok", "error", "unknown"}, Finish(r, kind),
         kind = "error" => ~Effective(r)
  PROVE  ReceiptsInv'
<1>1. /\ receipts \in Seq(Calls) /\ OfEachMessage(receipts)
      /\ Without(r) \in Seq(Calls) /\ OfEachMessage(Without(r))
      /\ \A c : Occurs(c, receipts) /\ ~SameMessage(c, r) => Occurs(c, Without(r))
  BY ReceiptsOf, WithoutKeeps DEF ReceiptsInv
<1>2. OfEachMessage(receipts')
  BY <1>1, FinishCases, NewestKeeps DEF KeptOf
<1>3. ASSUME NEW c \in Calls, c \in Receipts, Effective(c)
      PROVE  c \in Receipts' \/ MessageOf[c] \in forgotten'
  <2>1. CASE kind = "unknown"
    <3>1. receipts' = Without(r) /\ forgotten' = forgotten \cup {MessageOf[r]}
      BY <2>1, FinishCases
    <3>2. Occurs(c, receipts) /\ (Occurs(c, receipts') => c \in Receipts')
      BY <1>3, ReceiptsOf DEF Occurs, Receipts
    <3> QED BY <1>1, <3>1, <3>2 DEF SameMessage
  <2>2. CASE kind # "unknown"
    <3>1. /\ receipts' = Newest(KeptOf(r, kind))
          /\ forgotten' = forgotten \cup
               {MessageOf[s] : s \in Receipts \
                  (ToSet(Newest(KeptOf(r, kind))) \cup RefusedOf(r, kind))}
      BY <2>2, FinishCases
    <3>2. Receipts' = ToSet(Newest(KeptOf(r, kind)))
      BY <3>1 DEF Receipts, ToSet
    <3>3. c \notin RefusedOf(r, kind)
      BY <1>3 DEF RefusedOf
    <3> QED BY <1>3, <3>1, <3>2, <3>3
  <2> QED BY <2>1, <2>2
<1>4. forgotten \subseteq forgotten'
  BY FinishCases
<1>5. \A c \in Calls : Effective(c)' => c \in Receipts' \/ MessageOf[c] \in forgotten'
  <2>1. \A c \in Calls : Effective(c)' => Effective(c)
    BY DEF Effective
  <2>2. \A c \in Calls : Effective(c) => c \in Receipts \/ MessageOf[c] \in forgotten
    BY DEF ReceiptsInv, Effective
  <2> QED BY <1>3, <1>4, <2>1, <2>2
<1> QED BY <1>2, <1>5 DEF ReceiptsInv, Effective

LEMMA OwnerHearsReceipts ==
  ASSUME TypesInv, RequestsInv, ReceiptsInv, OwnerHears
  PROVE  ReceiptsInv'
<1>1. /\ down \in Seq(ToGui) /\ down # <<>> /\ Occurs(Head(down), down)
      /\ UNCHANGED <<handling, started, up>>
  BY OwnerHearsCases, OccursTail DEF host
<1>2. CASE UNCHANGED <<receipts, forgotten>>
  BY <1>1, <1>2, ReceiptsSame DEF Effective
<1>3. ASSUME NEW r \in Calls, NEW kind \in {"ok", "error", "unknown"},
             Head(down) = Frame(kind, r), End(r, kind)
      PROVE  ReceiptsInv'
  <2>1. kind = "error" => ~Effective(r)
    BY <1>1, <1>3, RefusedIsDead DEF Dead
  <2>2. CASE Finish(r, kind)
    BY <1>1, <2>1, <2>2, FinishReceipts
  <2> QED BY <1>2, <1>3, <2>2, EndCases DEF Unfinished
<1> QED BY <1>2, <1>3, OwnerHearsCases DEF Unfinished

LEMMA OwnerTimesOutReceipts ==
  ASSUME TypesInv, ReceiptsInv, NEW r \in Calls, OwnerTimesOut(r)
  PROVE  ReceiptsInv'
<1>1. UNCHANGED <<handling, started, up>> /\ End(r, "unknown")
  BY DEF OwnerTimesOut, host
<1>2. CASE Unfinished
  BY <1>1, <1>2, ReceiptsSame DEF Unfinished, Effective
<1>3. CASE Finish(r, "unknown")
  BY <1>1, <1>3, FinishReceipts
<1> QED BY <1>1, <1>2, <1>3, EndCases

LEMMA WrittenReceipts ==
  ASSUME TypesInv, HeldInv, ReceiptsInv, NEW r \in Calls, Written(r)
  PROVE  ReceiptsInv'
<1>1. UNCHANGED <<handling, started, up>>
  BY DEF Written, host
<1>2. CASE Unfinished
  BY <1>1, <1>2, ReceiptsSame DEF Unfinished, Effective
<1>3. CASE held[r] \in {"ok", "error", "unknown"} /\ Finish(r, held[r])
  <2>1. held[r] = "error" => ~Effective(r)
    BY DEF HeldInv, Dead
  <2> QED BY <1>1, <1>3, <2>1, FinishReceipts
<1> QED BY <1>2, <1>3, WrittenCases

LEMMA HostReceivesReceipts ==
  ASSUME TypesInv, ReceiptsInv, HostReceives
  PROVE  ReceiptsInv'
<1>1. /\ up \in Seq(ToHost) /\ up # <<>> /\ up' = Tail(up)
      /\ UNCHANGED <<receipts, forgotten, started>>
  BY HostTakes DEF owner
<1>2. \A c \in Calls :
        Occurs(Request(c), up) <=> Head(up) = Request(c) \/ Occurs(Request(c), up')
  BY <1>1, OccursTail
<1>3. \A c \in Calls : c \in handling' => c \in handling \/ Head(up) = Request(c)
  BY HostTakes
<1>4. \A c \in Calls : Effective(c)' => Effective(c)
  BY <1>1, <1>2, <1>3 DEF Effective
<1> QED BY <1>1, <1>4, ReceiptsSame

LEMMA CloseReceipts ==
  ASSUME TypesInv, ReceiptsInv, Close
  PROVE  ReceiptsInv'
<1>1. /\ receipts' = <<>> /\ up' = <<>> /\ handling' = {} /\ started' = started
      /\ forgotten' = forgotten \cup {MessageOf[r] : r \in Receipts}
  BY DEF Close
<1>2. OfEachMessage(receipts')
  BY <1>1 DEF OfEachMessage
<1>3. \A c \in Calls : c \in started => MessageOf[c] \in forgotten'
  BY <1>1 DEF ReceiptsInv
<1> QED BY <1>1, <1>2, <1>3, OccursEmpty DEF ReceiptsInv

(* All other actions leave the receipts alone.                             *)
LEMMA OtherReceipts ==
  ASSUME ReceiptsInv, UNCHANGED <<owner, up>>,
         handling' \cup started' \subseteq handling \cup started
  PROVE  ReceiptsInv'
BY ReceiptsSame DEF owner, Effective

LEMMA ReceiptsStep ==
  TypesInv /\ RequestsInv /\ HeldInv /\ ReceiptsInv /\ [Next]_vars => ReceiptsInv'
<1> SUFFICES ASSUME TypesInv, RequestsInv, HeldInv, ReceiptsInv, [Next]_vars
             PROVE  ReceiptsInv'
  OBVIOUS
<1>1. CASE UNCHANGED vars
  BY <1>1, OtherReceipts DEF vars, host
<1>2. CASE Delivery
  <2>1. ASSUME NEW v \in Viewers, GuiReceives(v) PROVE ReceiptsInv'
    BY <2>1, OtherReceipts DEF GuiReceives, host
  <2> QED BY <1>2, <2>1, OwnerReceivesReceipts, OwnerHearsReceipts, HostReceivesReceipts
          DEF Delivery
<1>3. ASSUME NEW v \in Viewers, NEW c \in Calls, Submit(v, c) PROVE ReceiptsInv'
  BY <1>3, OtherReceipts DEF Submit, host
<1>4. ASSUME NEW v \in Viewers, NEW q \in Questions, AnswerQuestion(v, q)
      PROVE  ReceiptsInv'
  BY <1>4, OtherReceipts DEF AnswerQuestion, host
<1>5. ASSUME NEW v \in Viewers, Detach(v) PROVE ReceiptsInv'
  BY <1>5, ReceiptsSame DEF Detach, host, Effective
<1>6. ASSUME NEW v \in Viewers, Attach(v) PROVE ReceiptsInv'
  BY <1>6, OtherReceipts DEF Attach, host
<1>7. ASSUME NEW r \in Calls, Begin(r) \/ Fail(r) \/ Started(r) PROVE ReceiptsInv'
  BY <1>7, OtherReceipts DEF Begin, Fail, Started
<1>8. ASSUME NEW q \in Questions, Ask(q) \/ Withdraw(q) PROVE ReceiptsInv'
  BY <1>8, OtherReceipts DEF Ask, Withdraw
<1>9. CASE TurnEnds
  BY <1>9, OtherReceipts DEF TurnEnds
<1>10. CASE Close
  BY <1>10, CloseReceipts
<1>11. ASSUME NEW r \in Calls, OwnerTimesOut(r) \/ Written(r) PROVE ReceiptsInv'
  BY <1>11, OwnerTimesOutReceipts, WrittenReceipts
<1>12. ASSUME NEW v \in Viewers, Answered(v) PROVE ReceiptsInv'
  BY <1>12, ReceiptsSame DEF Answered, host, Effective
<1> QED BY <1>1, <1>2, <1>3, <1>4, <1>5, <1>6, <1>7, <1>8, <1>9, <1>10, <1>11, <1>12
        DEF Next

LEMMA ReceiptsInit == Init => ReceiptsInv
BY OccursEmpty DEF Init, ReceiptsInv, OfEachMessage

-----------------------------------------------------------------------------
(* The types of the model, of all that is queued as well.                  *)
THEOREM TypeCorrect == Spec => []TypeOK
<1>1. Init => TypesInv
  BY TypesInit
<1>2. TypesInv /\ [Next]_vars => TypesInv'
  BY TypesStep
<1>3. TypesInv => TypeOK
  BY TypesImplied
<1> QED BY <1>1, <1>2, <1>3, PTL DEF Spec

LEMMA StartInvariant == Spec => []StartInv
<1>1. Init => StartInv
  BY TypesInit, RequestsInit, HeldInit, ReceiptsInit DEF StartInv
<1>2. StartInv /\ [Next]_vars => StartInv'
  BY TypesStep, RequestsStep, HeldStep, ReceiptsStep DEF StartInv
<1> QED BY <1>1, <1>2, PTL DEF Spec

(* A message starts one Turn, whichever GUIs send it and however often, as *)
(* long as its receipt is not dropped (#request of SharedThreadOwner).     *)
THEOREM StartsOnce == Spec => []StartedOnce
<1>1. StartInv => StartedOnce
  <2> SUFFICES ASSUME StartInv, NEW r \in started, NEW s \in started,
                      SameMessage(r, s), MessageOf[r] \notin forgotten
               PROVE  r = s
    BY DEF StartedOnce
  <2>1. r \in Calls /\ s \in Calls
    BY DEF StartInv, TypesInv, DataFit
  <2>2. r \in Receipts /\ s \in Receipts
    BY <2>1 DEF StartInv, ReceiptsInv, SameMessage
  <2>3. PICK m \in DOMAIN receipts, n \in DOMAIN receipts : receipts[m] = r /\ receipts[n] = s
    BY <2>2 DEF Receipts
  <2> QED BY <2>3 DEF StartInv, ReceiptsInv, OfEachMessage
<1> QED BY <1>1, StartInvariant, PTL

-----------------------------------------------------------------------------
(* Questions.                                                              *)

(* A queue says of q what another one said, and closes it if that did.     *)
SaysTheSame(q, s, t) ==
  /\ Occurs(Frame("ask", q), t) <=> Occurs(Frame("ask", q), s)
  /\ Occurs(Frame("resolved", q), t) <=> Occurs(Frame("resolved", q), s)
  /\ Closes(q, s) => Closes(q, t)

(* A frame that asks or closes q.                                          *)
About(q, f) == f = Frame("ask", q) \/ f = Frame("resolved", q)

LEMMA SameAppend ==
  ASSUME NEW S, NEW s \in Seq(S), NEW e \in S, NEW q, ~About(q, e)
  PROVE  SaysTheSame(q, s, Append(s, e))
<1>1. /\ Occurs(Frame("ask", q), Append(s, e)) <=> Occurs(Frame("ask", q), s)
      /\ Occurs(Frame("resolved", q), Append(s, e)) <=> Occurs(Frame("resolved", q), s)
  BY OccursAppend DEF About
<1>2. Closes(q, s) => Closes(q, Append(s, e))
  BY ClosesAppend DEF About
<1> QED BY <1>1, <1>2 DEF SaysTheSame

LEMMA SameTail ==
  ASSUME NEW S, NEW s \in Seq(S), s # <<>>, NEW q, ~About(q, Head(s))
  PROVE  SaysTheSame(q, s, Tail(s))
<1>1. /\ Occurs(Frame("ask", q), Tail(s)) <=> Occurs(Frame("ask", q), s)
      /\ Occurs(Frame("resolved", q), Tail(s)) <=> Occurs(Frame("resolved", q), s)
  BY OccursTail DEF About
<1>2. Closes(q, s) => Closes(q, Tail(s))
  BY ClosesTail
<1> QED BY <1>1, <1>2 DEF SaysTheSame

(* A step in which nobody hears of q.                                      *)
LEMMA Unheard ==
  ASSUME TypesInv, NEW q \in Questions, ViewFits(q), UNCHANGED linked,
         question'[q] = question[q], q \in open' <=> q \in open,
         SaysTheSame(q, down, down'),
         \A v \in Viewers :
           /\ q \in shown'[v] <=> q \in shown[v]
           /\ q \in stale'[v] <=> q \in stale[v]
           /\ SaysTheSame(q, inbox[v], inbox'[v])
  PROVE  ViewFits(q)'
<1>1. linked \subseteq Viewers
  BY DEF TypesInv, DataFit
<1>2. (Asked(q)' <=> Asked(q)) /\ (Resolved(q)' <=> Resolved(q))
  BY DEF Asked, Resolved, SaysTheSame
<1>3. EventsFit(q)'
  BY <1>2 DEF ViewFits, EventsFit
<1>4. OpenFits(q)'
  BY <1>1 DEF ViewFits, OpenFits, SaysTheSame
<1>5. ClosedFits(q)'
  BY <1>1 DEF ViewFits, ClosedFits, SaysTheSame
<1> QED BY <1>3, <1>4, <1>5 DEF ViewFits

(* A step in which nobody hears of any question.                           *)
LEMMA NobodyHears ==
  ASSUME TypesInv, ViewInv, UNCHANGED <<linked, shown, stale, open, question, closed>>,
         \A q \in Questions : SaysTheSame(q, down, down'),
         \A v \in Viewers, q \in Questions : SaysTheSame(q, inbox[v], inbox'[v])
  PROVE  ViewInv'
<1> SUFFICES ASSUME ~closed, NEW q \in Questions PROVE ViewFits(q)'
  BY DEF ViewInv
<1>1. ViewFits(q)
  BY DEF ViewInv
<1> QED BY <1>1, Unheard

(* A queue that is left alone says what it said.                           *)
LEMMA SameItself == \A q, s : SaysTheSame(q, s, s)
BY DEF SaysTheSame

(* Frames of calls and of other questions are not about q.                 *)
LEMMA NotAbout ==
  /\ \A c, q : \A kind \in {"ok", "error", "unknown"} : ~About(q, Frame(kind, c))
  /\ \A p, q : p # q => ~About(q, Frame("ask", p)) /\ ~About(q, Frame("resolved", p))
BY FrameFields DEF About

LEMMA SubmitView ==
  ASSUME TypesInv, ViewInv, NEW v \in Viewers, NEW c \in Calls, Submit(v, c)
  PROVE  ViewInv'
BY NobodyHears, SameItself DEF Submit, owner, host

LEMMA AnswerQuestionView ==
  ASSUME TypesInv, ViewInv, NEW v \in Viewers, NEW q \in Questions, AnswerQuestion(v, q)
  PROVE  ViewInv'
BY NobodyHears, SameItself DEF AnswerQuestion, owner, host

LEMMA BeginView ==
  ASSUME TypesInv, ViewInv, NEW r \in Calls, Begin(r)
  PROVE  ViewInv'
BY NobodyHears, SameItself DEF Begin, guis, owner

LEMMA ReplyView ==
  ASSUME TypesInv, ViewInv, NEW r \in Calls, Fail(r) \/ Started(r)
  PROVE  ViewInv'
<1>1. /\ UNCHANGED <<linked, shown, stale, open, question, closed, inbox>>
      /\ \E kind \in {"ok", "error", "unknown"} : down' = Append(down, Frame(kind, r))
  BY DEF Fail, Started, guis, owner
<1>2. PICK kind \in {"ok", "error", "unknown"} : down' = Append(down, Frame(kind, r))
  BY <1>1
<1>3. down \in Seq(ToGui) /\ Frame(kind, r) \in ToGui
  BY FrameKinds DEF TypesInv, FramesFit
<1>4. \A q \in Questions : SaysTheSame(q, down, down')
  BY <1>2, <1>3, SameAppend, NotAbout
<1> QED BY <1>1, <1>4, NobodyHears, SameItself

LEMMA OwnerReceivesView ==
  ASSUME TypesInv, ViewInv, NEW v \in Viewers, OwnerReceives(v)
  PROVE  ViewInv'
<1>1. UNCHANGED <<linked, shown, stale, open, question, closed, down>>
  BY DEF OwnerReceives, host
<1>2. CASE UNCHANGED inbox
  BY <1>1, <1>2, NobodyHears, SameItself
<1>3. ASSUME NEW c \in Calls, NEW kind \in {"ok", "error", "unknown"}, Tell({c}, kind)
      PROVE  ViewInv'
  <2>1. IsFiniteSet({c}) /\ {c} \subseteq Calls
    BY FS_Singleton
  <2>2. \A w \in Viewers, q \in Questions : SaysTheSame(q, inbox[w], inbox'[w])
    BY <1>3, <2>1, TellFits DEF SaysTheSame
  <2> QED BY <1>1, <2>2, NobodyHears, SameItself
<1>4. ASSUME NEW c \in Calls, TakeCall(c) PROVE ViewInv'
  BY <1>2, <1>3, <1>4, CallTaken
<1>5. ASSUME NEW q \in Questions, TakeAnswer(v, q) PROVE ViewInv'
  BY <1>2, <1>5 DEF TakeAnswer
<1> QED BY <1>4, <1>5, OwnerTakes

(* A request that is over is no news of questions.                         *)
LEMMA OutcomeView ==
  ASSUME TypesInv, NEW r \in Calls, NEW kind \in {"ok", "error", "unknown"},
         Unfinished \/ Finish(r, kind)
  PROVE  \A w \in Viewers, q \in Questions : SaysTheSame(q, inbox[w], inbox'[w])
<1>1. CASE Unfinished
  BY <1>1, SameItself DEF Unfinished
<1>2. CASE Finish(r, kind)
  BY <1>2, FinishCases, SettleFits DEF SaysTheSame
<1> QED BY <1>1, <1>2

LEMMA OwnerTimesOutView ==
  ASSUME TypesInv, ViewInv, NEW r \in Calls, OwnerTimesOut(r) \/ Written(r)
  PROVE  ViewInv'
<1>1. UNCHANGED <<linked, shown, stale, open, question, closed, down>>
  BY DEF OwnerTimesOut, Written, host
<1>2. \E kind \in {"ok", "error", "unknown"} : Unfinished \/ Finish(r, kind)
  BY EndCases, WrittenCases DEF OwnerTimesOut
<1>3. \A w \in Viewers, q \in Questions : SaysTheSame(q, inbox[w], inbox'[w])
  BY <1>2, OutcomeView
<1> QED BY <1>1, <1>3, NobodyHears, SameItself

LEMMA AnsweredView ==
  ASSUME TypesInv, ViewInv, NEW v \in Viewers, Answered(v)
  PROVE  ViewInv'
BY NobodyHears, SameItself DEF Answered, guis, host

(* What a GUI hears of a question.                                         *)
LEMMA GuiReceivesView ==
  ASSUME TypesInv, ViewInv, NEW v \in Viewers, GuiReceives(v)
  PROVE  ViewInv'
<1> SUFFICES ASSUME ~closed, NEW q \in Questions PROVE ViewFits(q)'
  BY DEF ViewInv, GuiReceives
<1> DEFINE f == Head(inbox[v])
<1>1. ViewFits(q)
  BY DEF ViewInv
<1>2. /\ inbox[v] \in Seq(ToGui) /\ inbox[v] # <<>> /\ f \in ToGui
      /\ inbox'[v] = Tail(inbox[v])
      /\ \A w \in Viewers : w # v => inbox'[w] = inbox[w]
      /\ UNCHANGED <<linked, stale, open, question, closed, down>>
  BY OccursTail DEF GuiReceives, TypesInv, FramesFit, owner, host
<1>3. linked \subseteq Viewers /\ shown \in [Viewers -> SUBSET Questions]
  BY DEF TypesInv, DataFit
<1>4. /\ \A g : Occurs(g, inbox[v]) <=> g = f \/ Occurs(g, inbox'[v])
      /\ Closes(q, inbox[v]) => Closes(q, inbox'[v])
      /\ Closes(q, inbox[v]) /\ f = Frame("ask", q) =>
           Occurs(Frame("resolved", q), inbox'[v])
  BY <1>2, OccursTail, ClosesTail
<1>5. /\ f = Frame("ask", q) => shown' = [shown EXCEPT ![v] = @ \cup {q}]
      /\ f = Frame("resolved", q) => shown' = [shown EXCEPT ![v] = @ \ {q}]
      /\ ~About(q, f) => \A w \in Viewers : q \in shown'[w] <=> q \in shown[w]
  <2>1. ASSUME f = Frame("ask", q) PROVE shown' = [shown EXCEPT ![v] = @ \cup {q}]
    <3>1. f.kind = "ask" /\ f.of = q
      BY <2>1, FrameFields
    <3> QED BY <3>1 DEF GuiReceives
  <2>2. ASSUME f = Frame("resolved", q) PROVE shown' = [shown EXCEPT ![v] = @ \ {q}]
    <3>1. f.kind = "resolved" /\ f.of = q
      BY <2>2, FrameFields
    <3> QED BY <3>1 DEF GuiReceives
  <2>3. ASSUME ~About(q, f), NEW w \in Viewers
        PROVE  q \in shown'[w] <=> q \in shown[w]
    <3>1. f.kind \in {"ask", "resolved"} => f.of # q
      BY <1>2, <2>3, FrameKinds DEF About
    <3>2. \/ shown' = [shown EXCEPT ![v] = @ \cup {f.of}] /\ f.kind = "ask"
          \/ shown' = [shown EXCEPT ![v] = @ \ {f.of}] /\ f.kind = "resolved"
          \/ shown' = shown
      BY DEF GuiReceives
    <3> HIDE DEF f
    <3> QED BY <1>3, <3>1, <3>2
  <2> QED BY <2>1, <2>2, <2>3
<1> HIDE DEF f
<1>6. CASE ~About(q, f)
  <2>1. SaysTheSame(q, inbox[v], inbox'[v])
    BY <1>2, <1>6, SameTail DEF f
  <2>2. \A w \in Viewers : SaysTheSame(q, inbox[w], inbox'[w])
    BY <1>2, <2>1, SameItself
  <2> QED BY <1>1, <1>2, <1>5, <1>6, <2>2, SameItself, Unheard
<1>7. CASE f = Frame("ask", q)
  <2>1. /\ q \in shown'[v] /\ \A w \in Viewers : w # v => shown'[w] = shown[w]
        /\ Occurs(Frame("ask", q), inbox[v])
    BY <1>3, <1>4, <1>5, <1>7
  <2>2. Asked(q)
    BY <2>1 DEF Asked
  <2>3. Resolved(q)' => Resolved(q)
    BY <1>2, <1>4 DEF Resolved
  <2>4. EventsFit(q)'
    BY <1>1, <1>2, <2>2, <2>3 DEF ViewFits, EventsFit
  <2>5. OpenFits(q)'
    BY <1>1, <1>2, <1>3, <2>1 DEF ViewFits, OpenFits
  <2>6. ClosedFits(q)'
    BY <1>1, <1>2, <1>3, <1>4, <1>7, <2>1 DEF ViewFits, ClosedFits
  <2> QED BY <2>4, <2>5, <2>6 DEF ViewFits
<1>8. CASE f = Frame("resolved", q)
  <2>1. /\ q \notin shown'[v] /\ \A w \in Viewers : w # v => shown'[w] = shown[w]
        /\ Occurs(Frame("resolved", q), inbox[v])
    BY <1>3, <1>4, <1>5, <1>8
  <2>2. Resolved(q)
    BY <2>1 DEF Resolved
  <2>3. question[q] = "closed"
    BY <1>1, <2>2 DEF ViewFits, EventsFit
  <2>4. EventsFit(q)'
    BY <1>2, <2>3 DEF EventsFit
  <2>5. OpenFits(q)'
    BY <1>2, <2>3 DEF OpenFits
  <2>6. ClosedFits(q)'
    BY <1>1, <1>2, <1>3, <1>4, <2>1 DEF ViewFits, ClosedFits
  <2> QED BY <2>4, <2>5, <2>6 DEF ViewFits
<1> QED BY <1>6, <1>7, <1>8 DEF About

LEMMA DetachView ==
  ASSUME TypesInv, ViewInv, NEW v \in Viewers, Detach(v)
  PROVE  ViewInv'
<1> SUFFICES ASSUME ~closed, NEW q \in Questions PROVE ViewFits(q)'
  BY DEF ViewInv, Detach
<1>1. ViewFits(q)
  BY DEF ViewInv
<1>2. /\ UNCHANGED <<shown, open, question, down>>
      /\ linked' = linked \ {v} /\ linked \subseteq Viewers
      /\ inbox'[v] = <<>>
      /\ \A w \in Viewers : w # v => inbox'[w] = inbox[w] /\ stale'[w] = stale[w]
  BY DEF Detach, host, TypesInv, DataFit, FramesFit
<1>3. (Asked(q)' => Asked(q)) /\ (Resolved(q)' => Resolved(q))
  BY <1>2, OccursEmpty DEF Asked, Resolved
<1>4. EventsFit(q)'
  BY <1>1, <1>2, <1>3 DEF ViewFits, EventsFit
<1>5. OpenFits(q)'
  BY <1>1, <1>2 DEF ViewFits, OpenFits
<1>6. ClosedFits(q)'
  BY <1>1, <1>2 DEF ViewFits, ClosedFits
<1> QED BY <1>4, <1>5, <1>6 DEF ViewFits

LEMMA AttachView ==
  ASSUME TypesInv, ViewInv, NEW v \in Viewers, Attach(v)
  PROVE  ViewInv'
<1> SUFFICES ASSUME ~closed, NEW q \in Questions PROVE ViewFits(q)'
  BY DEF ViewInv, Attach
<1>1. ViewFits(q)
  BY DEF ViewInv
<1>2. /\ UNCHANGED <<shown, open, question, down>>
      /\ v \notin linked /\ linked' = linked \cup {v} /\ linked \subseteq Viewers
      /\ stale'[v] = stale[v] \ open /\ shown[v] \subseteq stale[v]
      /\ \A w \in Viewers : w # v => inbox'[w] = inbox[w] /\ stale'[w] = stale[w]
      /\ \A g : Occurs(g, inbox'[v]) <=> \E p \in open : g = Frame("ask", p)
  BY AttachFits DEF Attach, owner, host, TypesInv, DataFit, LinksFit
<1>3. /\ Occurs(Frame("ask", q), inbox'[v]) <=> q \in open
      /\ ~Occurs(Frame("resolved", q), inbox'[v])
  BY <1>2, FrameFields
<1>4. (Asked(q)' => Asked(q)) /\ (Resolved(q)' => Resolved(q))
  BY <1>2, <1>3 DEF Asked, Resolved
<1>5. EventsFit(q)'
  BY <1>1, <1>2, <1>4 DEF ViewFits, EventsFit
<1>6. OpenFits(q)'
  BY <1>1, <1>2, <1>3 DEF ViewFits, OpenFits
<1>7. q \notin open => Closes(q, inbox'[v])
  BY <1>3, ClosesUnasked
<1>8. ClosedFits(q)'
  BY <1>1, <1>2, <1>7 DEF ViewFits, ClosedFits
<1> QED BY <1>5, <1>6, <1>8 DEF ViewFits

(* The owner tells all GUIs of a question.                                 *)
LEMMA OwnerHearsView ==
  ASSUME TypesInv, ViewInv, OwnerHears
  PROVE  ViewInv'
<1> SUFFICES ASSUME ~closed, NEW q \in Questions PROVE ViewFits(q)'
  BY OwnerHearsCases DEF ViewInv
<1> DEFINE f == Head(down)
<1>1. ViewFits(q)
  BY DEF ViewInv
<1>2. /\ down \in Seq(ToGui) /\ down # <<>> /\ f \in ToGui
      /\ down' = Tail(down)
      /\ UNCHANGED <<linked, shown, stale, question>>
      /\ linked \subseteq Viewers /\ inbox \in [Viewers -> Seq(ToGui)]
  BY OwnerHearsCases DEF host, TypesInv, DataFit, FramesFit
<1>3. /\ \A g : Occurs(g, down) <=> g = f \/ Occurs(g, down')
      /\ Closes(q, down) => Closes(q, down')
      /\ Closes(q, down) /\ f = Frame("ask", q) => Occurs(Frame("resolved", q), down')
  BY <1>2, OccursTail, ClosesTail
<1>4. ~About(q, f) => SaysTheSame(q, down, down')
  BY <1>2, SameTail
<1> HIDE DEF f
<1>5. ASSUME UNCHANGED open, ~About(q, f),
             \A v \in Viewers : SaysTheSame(q, inbox[v], inbox'[v])
      PROVE  ViewFits(q)'
  BY <1>1, <1>2, <1>4, <1>5, Unheard
<1>6. ASSUME UNCHANGED open, NEW r \in Calls, NEW kind \in {"ok", "error", "unknown"},
             f = Frame(kind, r), End(r, kind) \/ Unfinished
      PROVE  ViewFits(q)'
  <2>1. ~About(q, f)
    BY <1>6, NotAbout
  <2>2. Unfinished \/ Finish(r, kind)
    BY <1>6, EndCases
  <2>3. \A v \in Viewers : SaysTheSame(q, inbox[v], inbox'[v])
    BY <2>2, OutcomeView
  <2> QED BY <1>5, <1>6, <2>1, <2>3
<1>7. ASSUME Broadcast(f), ~About(q, f), q \in open' <=> q \in open
      PROVE  ViewFits(q)'
  <2>1. /\ \A v \in Viewers \ linked : inbox'[v] = inbox[v]
        /\ \A v \in linked : inbox'[v] = Append(inbox[v], f)
    BY <1>2, <1>7, BroadcastFits
  <2>2. ASSUME NEW v \in Viewers PROVE SaysTheSame(q, inbox[v], inbox'[v])
    <3>1. inbox[v] \in Seq(ToGui)
      BY <1>2
    <3>2. SaysTheSame(q, inbox[v], Append(inbox[v], f))
      BY <1>2, <1>7, <3>1, SameAppend
    <3> QED BY <2>1, <3>2, SameItself
  <2> QED BY <1>1, <1>2, <1>4, <1>7, <2>2, Unheard
<1>8. ASSUME Broadcast(f), f = Frame("ask", q), open' = open \cup {q}
      PROVE  ViewFits(q)'
  <2>1. /\ \A v \in Viewers \ linked : inbox'[v] = inbox[v]
        /\ \A v \in linked : inbox'[v] = Append(inbox[v], f)
    BY <1>2, <1>8, BroadcastFits
  <2>2. \A v \in linked : \A g : Occurs(g, inbox'[v]) <=> g = f \/ Occurs(g, inbox[v])
    <3> SUFFICES ASSUME NEW v \in linked
                 PROVE  \A g : Occurs(g, inbox'[v]) <=> g = f \/ Occurs(g, inbox[v])
      OBVIOUS
    <3>1. inbox[v] \in Seq(ToGui)
      BY <1>2
    <3>2. \A g : Occurs(g, Append(inbox[v], f)) <=> g = f \/ Occurs(g, inbox[v])
      BY <1>2, <3>1, OccursAppend
    <3> QED BY <2>1, <3>2
  <2>3. Asked(q)
    BY <1>3, <1>8 DEF Asked
  <2>4. Resolved(q)' => Resolved(q)
    BY <1>2, <1>3, <1>8, <2>1, <2>2, FrameFields DEF Resolved
  <2>5. EventsFit(q)'
    BY <1>1, <1>2, <2>3, <2>4 DEF ViewFits, EventsFit
  <2>6. OpenFits(q)'
    BY <1>2, <1>8, <2>2 DEF OpenFits
  <2>7. ClosedFits(q)'
    BY <1>1, <1>2, <1>3, <1>8 DEF ViewFits, ClosedFits
  <2> QED BY <2>5, <2>6, <2>7 DEF ViewFits
<1>9. ASSUME Broadcast(f), f = Frame("resolved", q), open' = open \ {q}
      PROVE  ViewFits(q)'
  <2>1. \A v \in linked : inbox'[v] = Append(inbox[v], f)
    BY <1>2, <1>9, BroadcastFits
  <2>2. ASSUME NEW v \in linked PROVE Occurs(f, inbox'[v]) /\ Closes(q, inbox'[v])
    <3>1. inbox[v] \in Seq(ToGui)
      BY <1>2
    <3>2. Occurs(f, Append(inbox[v], f)) /\ Closes(q, Append(inbox[v], f))
      BY <1>2, <1>9, <3>1, OccursAppend, ClosesAppend
    <3> QED BY <2>1, <3>2
  <2>3. Resolved(q)
    BY <1>3, <1>9 DEF Resolved
  <2>4. question[q] = "closed"
    BY <1>1, <2>3 DEF ViewFits, EventsFit
  <2>5. EventsFit(q)' /\ OpenFits(q)'
    BY <1>2, <2>4 DEF EventsFit, OpenFits
  <2>6. ClosedFits(q)'
    BY <1>1, <1>2, <1>3, <1>9, <2>2, <2>4 DEF ViewFits, ClosedFits
  <2> QED BY <2>5, <2>6 DEF ViewFits
<1>10. ASSUME Broadcast(f), NEW p \in Questions,
              \/ f = Frame("ask", p) /\ open' = open \cup {p}
              \/ f = Frame("resolved", p) /\ open' = open \ {p}
       PROVE  ViewFits(q)'
  <2>1. CASE p = q
    BY <1>8, <1>9, <1>10, <2>1
  <2>2. CASE p # q
    BY <1>7, <1>10, <2>2, NotAbout
  <2> QED BY <2>1, <2>2
<1> QED BY <1>6, <1>10, OwnerHearsCases DEF f

(* The Host closes a question and says so.                                 *)
LEMMA QuestionCloses ==
  ASSUME TypesInv, ViewInv, NEW p \in Questions, question[p] = "open",
         question' = [question EXCEPT ![p] = "closed"],
         down' = Append(down, Frame("resolved", p)), UNCHANGED <<guis, owner, closed>>
  PROVE  ViewInv'
<1> SUFFICES ASSUME ~closed, NEW q \in Questions PROVE ViewFits(q)'
  BY DEF ViewInv
<1>1. ViewFits(q)
  BY DEF ViewInv
<1>2. /\ down \in Seq(ToGui) /\ Frame("resolved", p) \in ToGui
      /\ question \in [Questions -> {"new", "open", "closed"}]
      /\ UNCHANGED <<linked, shown, stale, inbox, open>>
  BY FrameKinds DEF TypesInv, DataFit, FramesFit, guis, owner
<1>3. CASE p # q
  <2>1. SaysTheSame(q, down, down')
    BY <1>2, <1>3, SameAppend, NotAbout
  <2>2. question'[q] = question[q]
    BY <1>2, <1>3
  <2> QED BY <1>1, <1>2, <2>1, <2>2, SameItself, Unheard
<1>4. CASE p = q
  <2>1. question'[q] = "closed"
    BY <1>2, <1>4
  <2>2. Closes(q, down') /\ Occurs(Frame("resolved", q), down')
    BY <1>2, <1>4, ClosesAppend, OccursAppend
  <2> QED BY <2>1, <2>2 DEF ViewFits, EventsFit, OpenFits, ClosedFits
<1> QED BY <1>3, <1>4

LEMMA HostReceivesView ==
  ASSUME TypesInv, ViewInv, HostReceives
  PROVE  ViewInv'
<1>1. UNCHANGED <<guis, owner, closed>>
  BY HostTakes
<1>2. CASE UNCHANGED <<question, down>>
  BY <1>1, <1>2, NobodyHears, SameItself DEF guis, owner
<1> QED BY <1>1, <1>2, QuestionCloses, HostTakes

LEMMA WithdrawView ==
  ASSUME TypesInv, ViewInv, NEW q \in Questions, Withdraw(q)
  PROVE  ViewInv'
BY QuestionCloses DEF Withdraw

LEMMA AskView ==
  ASSUME TypesInv, ViewInv, NEW p \in Questions, Ask(p)
  PROVE  ViewInv'
<1> SUFFICES ASSUME ~closed, NEW q \in Questions PROVE ViewFits(q)'
  BY DEF ViewInv, Ask
<1>1. ViewFits(q)
  BY DEF ViewInv
<1>2. /\ down \in Seq(ToGui) /\ Frame("ask", p) \in ToGui
      /\ question \in [Questions -> {"new", "open", "closed"}]
      /\ question[p] = "new" /\ question' = [question EXCEPT ![p] = "open"]
      /\ down' = Append(down, Frame("ask", p))
      /\ UNCHANGED <<linked, shown, stale, inbox, open>>
  BY FrameKinds DEF TypesInv, DataFit, FramesFit, Ask, guis, owner
<1>3. CASE p # q
  <2>1. SaysTheSame(q, down, down')
    BY <1>2, <1>3, SameAppend, NotAbout
  <2>2. question'[q] = question[q]
    BY <1>2, <1>3
  <2> QED BY <1>1, <1>2, <2>1, <2>2, SameItself, Unheard
<1>4. CASE p = q
  <2>1. question'[q] = "open" /\ question[q] = "new"
    BY <1>2, <1>4
  <2>2. \A g : Occurs(g, down') <=> g = Frame("ask", q) \/ Occurs(g, down)
    BY <1>2, <1>4, OccursAppend
  <2>3. Resolved(q)' => Resolved(q)
    BY <1>2, <2>2, FrameFields DEF Resolved
  <2>4. ~Resolved(q)'
    BY <1>1, <2>1, <2>3 DEF ViewFits, EventsFit
  <2>5. EventsFit(q)'
    BY <2>1, <2>4 DEF EventsFit
  <2>6. OpenFits(q)' /\ ClosedFits(q)'
    BY <2>1, <2>2 DEF OpenFits, ClosedFits
  <2> QED BY <2>5, <2>6 DEF ViewFits
<1> QED BY <1>3, <1>4

LEMMA TurnEndsView ==
  ASSUME TypesInv, ViewInv, TurnEnds
  PROVE  ViewInv'
<1> SUFFICES ASSUME ~closed, NEW q \in Questions PROVE ViewFits(q)'
  BY DEF ViewInv, TurnEnds
<1>1. ViewFits(q)
  BY DEF ViewInv
<1>2. /\ down \in Seq(ToGui)
      /\ question \in [Questions -> {"new", "open", "closed"}]
      /\ question' = [p \in Questions |->
                        IF question[p] = "open" THEN "closed" ELSE question[p]]
      /\ UNCHANGED <<linked, shown, stale, inbox, open>>
  BY TurnEndsFits DEF TurnEnds, guis, owner
<1>3. PICK told \in Seq(ToGui) :
        /\ down' = down \o told
        /\ \A f : Occurs(f, told) <=>
             \E p \in Questions : question[p] = "open" /\ f = Frame("resolved", p)
  BY TurnEndsFits
<1>4. ~Occurs(Frame("ask", q), told)
  BY <1>3, FrameFields
<1>5. Occurs(Frame("resolved", q), told) <=> question[q] = "open"
  BY <1>3, FrameFields
<1>6. \A g : Occurs(g, down') <=> Occurs(g, down) \/ Occurs(g, told)
  BY <1>2, <1>3, OccursConcat
<1>7. Closes(q, told)
  BY <1>4, ClosesUnasked
<1>8. CASE question[q] # "open"
  <2>1. Closes(q, down) => Closes(q, down')
    BY <1>2, <1>3, <1>7, ClosesConcat
  <2>2. SaysTheSame(q, down, down')
    BY <1>4, <1>5, <1>6, <1>8, <2>1 DEF SaysTheSame
  <2>3. question'[q] = question[q]
    BY <1>2, <1>8
  <2> QED BY <1>1, <1>2, <2>2, <2>3, SameItself, Unheard
<1>9. CASE question[q] = "open"
  <2>1. question'[q] = "closed"
    BY <1>2, <1>9
  <2>2. Closes(q, down') /\ Occurs(Frame("resolved", q), down')
    BY <1>2, <1>3, <1>5, <1>6, <1>7, <1>9, ClosesConcat
  <2> QED BY <2>1, <2>2 DEF ViewFits, EventsFit, OpenFits, ClosedFits
<1> QED BY <1>8, <1>9

LEMMA ViewStep == TypesInv /\ ViewInv /\ [Next]_vars => ViewInv'
<1> SUFFICES ASSUME TypesInv, ViewInv, [Next]_vars PROVE ViewInv'
  OBVIOUS
<1>1. CASE UNCHANGED vars
  BY <1>1, NobodyHears, SameItself DEF vars, guis, owner, host
<1>2. CASE Delivery
  BY <1>2, GuiReceivesView, OwnerReceivesView, OwnerHearsView, HostReceivesView
     DEF Delivery
<1>3. ASSUME NEW v \in Viewers, NEW c \in Calls, Submit(v, c) PROVE ViewInv'
  BY <1>3, SubmitView
<1>4. ASSUME NEW v \in Viewers, NEW q \in Questions, AnswerQuestion(v, q) PROVE ViewInv'
  BY <1>4, AnswerQuestionView
<1>5. ASSUME NEW v \in Viewers, Detach(v) \/ Attach(v) PROVE ViewInv'
  BY <1>5, DetachView, AttachView
<1>6. ASSUME NEW r \in Calls,
             OwnerTimesOut(r) \/ Written(r) \/ Begin(r) \/ Fail(r) \/ Started(r)
      PROVE  ViewInv'
  BY <1>6, OwnerTimesOutView, BeginView, ReplyView
<1>7. ASSUME NEW q \in Questions, Ask(q) \/ Withdraw(q) PROVE ViewInv'
  BY <1>7, AskView, WithdrawView
<1>8. CASE TurnEnds
  BY <1>8, TurnEndsView
<1>9. CASE Close
  BY <1>9 DEF Close, ViewInv
<1>10. ASSUME NEW v \in Viewers, Answered(v) PROVE ViewInv'
  BY <1>10, AnsweredView
<1> QED BY <1>1, <1>2, <1>3, <1>4, <1>5, <1>6, <1>7, <1>8, <1>9, <1>10 DEF Next

LEMMA ViewInit == Init => ViewInv
<1> SUFFICES ASSUME Init, NEW q \in Questions PROVE ViewFits(q)
  BY DEF ViewInv
<1>1. /\ down = <<>> /\ open = {} /\ question[q] = "new"
      /\ \A v \in Viewers : shown[v] = {} /\ inbox[v] = <<>>
  BY DEF Init
<1>2. ~Asked(q) /\ ~Resolved(q)
  BY <1>1, OccursEmpty DEF Asked, Resolved
<1> QED BY <1>1, <1>2 DEF ViewFits, EventsFit, OpenFits, ClosedFits

-----------------------------------------------------------------------------
(* What a GUI will see, told by what it shows and what is on its way.      *)
LEMMA SeesWhatIsAsked ==
  ASSUME TypesInv, NEW v \in Viewers, NEW q \in Questions,
         ~Occurs(Frame("resolved", q), inbox[v]), ~Occurs(Frame("resolved", q), down),
         \/ q \in shown[v]
         \/ Occurs(Frame("ask", q), inbox[v]) \/ Occurs(Frame("ask", q), down)
  PROVE  Sees(v, q)
<1> DEFINE frames == inbox[v] \o down
<1>1. inbox[v] \in Seq(ToGui) /\ down \in Seq(ToGui)
  BY DEF TypesInv, FramesFit
<1>2. frames \in Seq(ToGui) /\ DOMAIN frames = 1 .. Len(frames) /\ Len(frames) \in Nat
  BY <1>1, ConcatProperties, LenProperties
<1>3. \A g : Occurs(g, frames) <=> Occurs(g, inbox[v]) \/ Occurs(g, down)
  BY <1>1, OccursConcat
<1> HIDE DEF frames
<1>4. \A n \in DOMAIN frames : frames[n] # Frame("resolved", q)
  BY <1>3 DEF Occurs
<1>5. CASE q \in shown[v]
  BY <1>4, <1>5 DEF Sees, frames
<1>6. CASE Occurs(Frame("ask", q), frames)
  <2>1. PICK n \in DOMAIN frames : frames[n] = Frame("ask", q)
    BY <1>6 DEF Occurs
  <2>2. \A m \in n + 1 .. Len(frames) : frames[m] # Frame("resolved", q)
    BY <1>2, <1>4, <2>1
  <2> QED BY <2>1, <2>2 DEF Sees, frames
<1> QED BY <1>3, <1>5, <1>6

LEMMA SeenWasAsked ==
  ASSUME TypesInv, NEW v \in Viewers, NEW q \in Questions, Sees(v, q)
  PROVE  /\ \/ q \in shown[v]
            \/ Occurs(Frame("ask", q), inbox[v]) \/ Occurs(Frame("ask", q), down)
         /\ Closes(q, inbox[v] \o down) =>
              q \in shown[v] /\ ~Occurs(Frame("resolved", q), inbox[v])
                             /\ ~Occurs(Frame("resolved", q), down)
<1> DEFINE frames == inbox[v] \o down
<1>1. inbox[v] \in Seq(ToGui) /\ down \in Seq(ToGui)
  BY DEF TypesInv, FramesFit
<1>2. frames \in Seq(ToGui) /\ DOMAIN frames = 1 .. Len(frames) /\ Len(frames) \in Nat
  BY <1>1, ConcatProperties, LenProperties
<1>3. \A g : Occurs(g, frames) <=> Occurs(g, inbox[v]) \/ Occurs(g, down)
  BY <1>1, OccursConcat
<1>4. \/ q \in shown[v] /\ \A n \in DOMAIN frames : frames[n] # Frame("resolved", q)
      \/ \E n \in DOMAIN frames :
           /\ frames[n] = Frame("ask", q)
           /\ \A m \in n + 1 .. Len(frames) : frames[m] # Frame("resolved", q)
  BY DEF Sees
<1> HIDE DEF frames
<1>5. CASE q \in shown[v] /\ \A n \in DOMAIN frames : frames[n] # Frame("resolved", q)
  <2>1. ~Occurs(Frame("resolved", q), frames)
    BY <1>5 DEF Occurs
  <2> QED BY <1>3, <1>5, <2>1
<1>6. ASSUME NEW n \in DOMAIN frames, frames[n] = Frame("ask", q),
             \A m \in n + 1 .. Len(frames) : frames[m] # Frame("resolved", q)
      PROVE  Occurs(Frame("ask", q), frames) /\ ~Closes(q, frames)
  <2>1. \A m \in DOMAIN frames : n < m => m \in n + 1 .. Len(frames)
    BY <1>2
  <2> QED BY <1>6, <2>1 DEF Occurs, Closes
<1> QED BY <1>3, <1>4, <1>5, <1>6 DEF frames

(* All GUIs show the questions that the Host has open and no others, once  *)
(* they have all frames, but for those closed while they were gone: each   *)
(* question is broadcast to whom is there and asked again of whom comes.   *)
THEOREM GuisAgree == Spec => []ViewsAgree
<1>1. Init => TypesInv /\ ViewInv
  BY TypesInit, ViewInit
<1>2. TypesInv /\ ViewInv /\ [Next]_vars => (TypesInv /\ ViewInv)'
  BY TypesStep, ViewStep
<1>3. TypesInv /\ ViewInv => ViewsAgree
  <2> SUFFICES ASSUME TypesInv, ViewInv, NEW v \in linked, NEW q \in Questions
               PROVE  /\ question[q] = "open" => Sees(v, q)
                      /\ Sees(v, q) => question[q] = "open" \/ q \in stale[v]
    BY DEF ViewsAgree
  <2>1. v \in Viewers /\ question[q] \in {"new", "open", "closed"}
        /\ inbox[v] \in Seq(ToGui) /\ down \in Seq(ToGui)
    BY DEF TypesInv, DataFit, FramesFit
  <2>2. ViewFits(q)
    BY DEF TypesInv, LinksFit, ViewInv
  <2>3. ASSUME question[q] = "open" PROVE Sees(v, q)
    <3>1. ~Resolved(q)
      BY <2>2, <2>3 DEF ViewFits, EventsFit
    <3>2. /\ ~Occurs(Frame("resolved", q), inbox[v])
          /\ ~Occurs(Frame("resolved", q), down)
      BY <2>1, <3>1 DEF Resolved
    <3>3. \/ q \in shown[v]
          \/ Occurs(Frame("ask", q), inbox[v]) \/ Occurs(Frame("ask", q), down)
      BY <2>2, <2>3 DEF ViewFits, OpenFits
    <3> QED BY <2>1, <3>2, <3>3, SeesWhatIsAsked
  <2>4. ASSUME Sees(v, q), question[q] # "open" PROVE q \in stale[v]
    <3>1. \/ q \in shown[v]
          \/ Occurs(Frame("ask", q), inbox[v]) \/ Occurs(Frame("ask", q), down)
      BY <2>1, <2>4, SeenWasAsked
    <3>2. Asked(q)
      BY <2>1, <3>1 DEF Asked
    <3>3. question[q] = "closed"
      BY <2>1, <2>2, <2>4, <3>2 DEF ViewFits, EventsFit
    <3>4. Closes(q, down)
      BY <2>2, <3>3 DEF ViewFits, ClosedFits
    <3>5. Closes(q, inbox[v]) \/ Occurs(Frame("resolved", q), down)
      BY <2>2, <3>3 DEF ViewFits, ClosedFits
    <3>6. Closes(q, inbox[v] \o down)
      BY <2>1, <3>4, <3>5, ClosesConcat
    <3>7. /\ q \in shown[v] /\ ~Occurs(Frame("resolved", q), inbox[v])
          /\ ~Occurs(Frame("resolved", q), down)
      BY <2>1, <2>4, <3>6, SeenWasAsked
    <3> QED BY <2>2, <3>3, <3>7 DEF ViewFits, ClosedFits
  <2> QED BY <2>3, <2>4
<1> QED BY <1>1, <1>2, <1>3, PTL DEF Spec
-----------------------------------------------------------------------------
(* What a GUI is told of its calls.                                        *)

(* Of a call that its GUI sent, it holds that its message started a Turn.  *)
Done(c) == call[c].state # "new" /\ Starts(c)

(* Whatever the Host says of r holds for c as well: c is the call that r   *)
(* was sent for, or one that repeats it and is not sent itself.            *)
Carries(r, c) ==
  /\ call[r].state # "new" /\ call[c].state # "new"
  /\ SameMessage(r, c) /\ call[r].input = call[c].input
  /\ c = r \/ Dead(c)

(* What the owner hears and keeps is true.                                 *)
OwnerKnows ==
  /\ \A c \in Calls : ~Occurs(Frame("unknown", c), down)
  /\ \A c \in Calls : Occurs(Frame("ok", c), down) => c \in started
  /\ \A c \in Calls : held[c] = "ok" => c \in started
  /\ accepted \subseteq started
  /\ \A c \in Receipts : call[c].state # "new"
  /\ \A c \in Calls : waits[c] # None => Carries(waits[c], c)

(* So is what is on its way to a GUI, and what it has been told.           *)
GuisKnow ==
  /\ \A c \in Calls, v \in Viewers :
       /\ Occurs(Frame("ok", c), inbox[v]) => Done(c)
       /\ Occurs(Frame("error", c), inbox[v]) => Dead(c)
  /\ \A c \in Calls :
       /\ call[c].state = "ok" => Done(c)
       /\ call[c].state = "error" => Dead(c)

TruthInv == OwnerKnows /\ GuisKnow

(* What was true of a call stays true.                                     *)
LEMMA TruthStays ==
  ASSUME TypesInv, RequestsInv, [Next]_vars, started \subseteq started', NEW c \in Calls
  PROVE  /\ Dead(c) => Dead(c)'
         /\ Done(c) => Done(c)'
         /\ \A r \in Calls : Carries(r, c) => Carries(r, c)'
<1>1. \A d \in Calls : call[d].state # "new" =>
        call'[d].state # "new" /\ call'[d].input = call[d].input
  BY InputsStay
<1>2. Dead(c) => Dead(c)'
  BY DeadStays
<1>3. ASSUME Done(c) PROVE Done(c)'
  <2>1. PICK r \in started : SameMessage(r, c) /\ call[r].input = call[c].input
    BY <1>3 DEF Done, Starts
  <2>2. r \in Calls /\ call[r].state # "new"
    BY DEF TypesInv, DataFit, RequestsInv, Passed
  <2> QED BY <1>1, <1>3, <2>1, <2>2 DEF Done, Starts, SameMessage
<1>4. ASSUME NEW r \in Calls, Carries(r, c) PROVE Carries(r, c)'
  BY <1>1, <1>2, <1>4 DEF Carries, SameMessage
<1> QED BY <1>2, <1>3, <1>4

(* A Turn that was started stays so.                                       *)
LEMMA StartedStays ==
  ASSUME [Next]_vars
  PROVE  started \subseteq started'
BY DEF Next, Delivery, vars, host, Submit, AnswerQuestion, GuiReceives, Detach, Attach,
       OwnerReceives, OwnerHears, OwnerTimesOut, Written, Answered, HostReceives,
       HandleAnswer, Begin, Fail, Started, Ask, Withdraw, TurnEnds, Close

(* Whatever is new in a step has to be true after it.                      *)
LEMMA NewsIsTrue ==
  ASSUME TypesInv, RequestsInv, TruthInv, [Next]_vars,
         \A c \in Calls :
           /\ Occurs(Frame("unknown", c), down') => Occurs(Frame("unknown", c), down)
           /\ Occurs(Frame("ok", c), down') => Occurs(Frame("ok", c), down) \/ c \in started',
         accepted' \subseteq accepted \cup started',
         Receipts' \subseteq Receipts \cup {c \in Calls : call'[c].state # "new"},
         \A c \in Calls :
           waits'[c] # None => waits'[c] = waits[c] \/ Carries(waits[c], c)',
         \A c \in Calls, v \in Viewers :
           /\ Occurs(Frame("ok", c), inbox'[v]) => Occurs(Frame("ok", c), inbox[v]) \/ Done(c)'
           /\ Occurs(Frame("error", c), inbox'[v]) =>
                Occurs(Frame("error", c), inbox[v]) \/ Dead(c)',
         \A c \in Calls :
           /\ call'[c].state = "ok" => call[c].state = "ok" \/ Done(c)'
           /\ call'[c].state = "error" => call[c].state = "error" \/ Dead(c)'
  PROVE  TruthInv'
<1>1. started \subseteq started'
  BY StartedStays
<1>2. /\ \A c \in Calls : Dead(c) => Dead(c)'
      /\ \A c \in Calls : Done(c) => Done(c)'
      /\ \A c \in Calls : \A r \in Calls : Carries(r, c) => Carries(r, c)'
  BY <1>1, TruthStays
<1>3. OwnerKnows'
  <2>1. \A c \in Calls : ~Occurs(Frame("unknown", c), down')
    BY DEF TruthInv, OwnerKnows
  <2>2. \A c \in Calls : Occurs(Frame("ok", c), down') => c \in started'
    BY <1>1 DEF TruthInv, OwnerKnows
  <2>3. accepted' \subseteq started'
    BY <1>1 DEF TruthInv, OwnerKnows
  <2>4. \A c \in Receipts' : call'[c].state # "new"
    BY InputsStay, ReceiptsOf DEF TruthInv, OwnerKnows
  <2>5. ASSUME NEW c \in Calls, waits'[c] # None PROVE Carries(waits[c], c)'
    <3>1. CASE waits'[c] = waits[c]
      <4>1. waits[c] \in Calls /\ Carries(waits[c], c)
        BY <2>5, <3>1 DEF TypesInv, DataFit, TruthInv, OwnerKnows
      <4> QED BY <1>2, <3>1, <4>1 DEF Carries
    <3> QED BY <2>5, <3>1
  <2>6. \A c \in Calls : held'[c] = "ok" => c \in started'
    BY <1>1, HeldFrom DEF TruthInv, OwnerKnows
  <2> QED BY <2>1, <2>2, <2>3, <2>4, <2>5, <2>6 DEF OwnerKnows
<1>4. GuisKnow'
  BY <1>2 DEF TruthInv, GuisKnow
<1> QED BY <1>3, <1>4 DEF TruthInv

(* What the owner tells calls is of these calls.                           *)
LEMMA TellSays ==
  ASSUME TypesInv, NEW cs, cs \subseteq Calls, IsFiniteSet(cs),
         NEW kind \in {"ok", "error", "unknown"}, Tell(cs, kind)
  PROVE  \A v \in Viewers : \A f :
           Occurs(f, inbox'[v]) => Occurs(f, inbox[v]) \/ \E c \in cs : f = Frame(kind, c)
<1> DEFINE frames(v) == {Frame(kind, c) : c \in cs \cap OfViewer(v)}
<1> SUFFICES ASSUME NEW v \in Viewers, NEW f, Occurs(f, inbox'[v]), ~Occurs(f, inbox[v])
             PROVE  \E c \in cs : f = Frame(kind, c)
  OBVIOUS
<1>1. /\ inbox[v] \in Seq(ToGui)
      /\ inbox'[v] = IF v \in linked THEN inbox[v] \o SetToSeq(frames(v)) ELSE inbox[v]
  BY DEF TypesInv, FramesFit, Tell
<1>2. IsFiniteSet(cs \cap OfViewer(v)) /\ \A c \in cs \cap OfViewer(v) : Frame(kind, c) \in ToGui
  BY FS_Subset, FrameKinds
<1>3. /\ SetToSeq(frames(v)) \in Seq(ToGui)
      /\ \A g : Occurs(g, SetToSeq(frames(v))) <=> g \in frames(v)
  BY <1>2, ListedFrames
<1>4. f \in frames(v)
  <2> HIDE DEF frames
  <2> QED BY <1>1, <1>3, OccursConcat
<1> QED BY <1>4

(* A step that tells nobody anything.                                      *)
LEMMA NothingSaid ==
  ASSUME TypesInv, RequestsInv, TruthInv, [Next]_vars,
         UNCHANGED <<accepted, receipts, waits, inbox>>,
         \A c \in Calls :
           /\ Occurs(Frame("unknown", c), down') => Occurs(Frame("unknown", c), down)
           /\ Occurs(Frame("ok", c), down') => Occurs(Frame("ok", c), down) \/ c \in started',
         \A c \in Calls : call'[c].state = call[c].state \/ call'[c].state = "sent"
  PROVE  TruthInv'
<1>1. Receipts' = Receipts
  BY DEF Receipts
<1>2. \A c \in Calls :
        /\ call'[c].state = "ok" => call[c].state = "ok"
        /\ call'[c].state = "error" => call[c].state = "error"
  OBVIOUS
<1> QED BY <1>1, <1>2, NewsIsTrue

(* What the Host says of questions says nothing of calls.                  *)
LEMMA AboutQuestions ==
  ASSUME TypesInv, RequestsInv, TruthInv, [Next]_vars, UNCHANGED <<guis, owner>>,
         \A c \in Calls, kind \in {"ok", "error", "unknown"} :
           Occurs(Frame(kind, c), down') => Occurs(Frame(kind, c), down)
  PROVE  TruthInv'
BY NothingSaid DEF guis, owner

LEMMA SubmitTruth ==
  ASSUME TypesInv, RequestsInv, TruthInv, [Next]_vars,
         NEW v \in Viewers, NEW c \in Calls, Submit(v, c)
  PROVE  TruthInv'
<1>1. \A d \in Calls : call'[d].state = call[d].state \/ call'[d].state = "sent"
  BY DEF Submit, TypesInv, DataFit
<1> QED BY <1>1, NothingSaid DEF Submit, owner

LEMMA ReplyTruth ==
  ASSUME TypesInv, RequestsInv, TruthInv, [Next]_vars,
         NEW r \in Calls, Fail(r) \/ Started(r)
  PROVE  TruthInv'
<1>1. CASE Fail(r)
  <2>1. \A f : Occurs(f, down') <=> f = Frame("error", r) \/ Occurs(f, down)
    BY <1>1, ReplyFits DEF Fail
  <2> QED BY <1>1, <2>1, FrameFields, NothingSaid DEF Fail, guis, owner
<1>2. CASE Started(r)
  <2>1. \A f : Occurs(f, down') <=> f = Frame("ok", r) \/ Occurs(f, down)
    BY <1>2, ReplyFits DEF Started
  <2>2. r \in started'
    BY <1>2 DEF Started
  <2> QED BY <1>2, <2>1, <2>2, FrameFields, NothingSaid DEF Started, guis, owner
<1> QED BY <1>1, <1>2

LEMMA HostTruth ==
  ASSUME TypesInv, RequestsInv, TruthInv, [Next]_vars,
         \/ HostReceives \/ TurnEnds
         \/ \E r \in Calls : Begin(r)
         \/ \E q \in Questions : Ask(q) \/ Withdraw(q)
  PROVE  TruthInv'
<1>1. CASE HostReceives
  <2>1. \/ UNCHANGED down
        \/ \E q \in Questions : down' = Append(down, Frame("resolved", q))
    BY <1>1, HostTakes
  <2> QED BY <1>1, <2>1, HostTakes, EventAdds, AboutQuestions
<1>2. CASE TurnEnds
  <2>1. PICK told \in Seq(ToGui) :
          /\ down' = down \o told
          /\ \A f : Occurs(f, told) <=>
               \E q \in Questions : question[q] = "open" /\ f = Frame("resolved", q)
    BY <1>2, TurnEndsFits
  <2>2. down \in Seq(ToGui)
    BY <1>2, TurnEndsFits
  <2>3. \A c \in Calls, kind \in {"ok", "error", "unknown"} :
          Occurs(Frame(kind, c), down') => Occurs(Frame(kind, c), down)
    BY <2>1, <2>2, OccursConcat, FrameFields
  <2> QED BY <1>2, <2>3, AboutQuestions DEF TurnEnds
<1>3. ASSUME NEW r \in Calls, Begin(r) PROVE TruthInv'
  BY <1>3, AboutQuestions DEF Begin
<1>4. ASSUME NEW q \in Questions, Ask(q) \/ Withdraw(q) PROVE TruthInv'
  BY <1>4, EventAdds, AboutQuestions DEF Ask, Withdraw
<1> QED BY <1>1, <1>2, <1>3, <1>4

(* A reply reaches the call that it is about.                              *)
LEMMA GuiReceivesTruth ==
  ASSUME TypesInv, RequestsInv, TruthInv, [Next]_vars,
         NEW v \in Viewers, GuiReceives(v)
  PROVE  TruthInv'
<1> DEFINE f == Head(inbox[v])
<1>1. /\ inbox[v] \in Seq(ToGui) /\ inbox[v] # <<>> /\ f \in ToGui
      /\ inbox' = [inbox EXCEPT ![v] = Tail(@)] /\ Occurs(f, inbox[v])
      /\ \A g : Occurs(g, Tail(inbox[v])) => Occurs(g, inbox[v])
      /\ UNCHANGED <<owner, down>>
  BY OccursTail DEF GuiReceives, TypesInv, FramesFit
<1>2. \A c \in Calls, w \in Viewers : \A g :
        Occurs(g, inbox'[w]) => Occurs(g, inbox[w])
  BY <1>1 DEF TypesInv, FramesFit
<1>3. /\ \A c \in Calls : Dead(c) => Dead(c)'
      /\ \A c \in Calls : Done(c) => Done(c)'
  BY StartedStays, TruthStays
<1>4. ASSUME NEW c \in Calls
      PROVE  /\ call'[c].state = "ok" => call[c].state = "ok" \/ Done(c)'
             /\ call'[c].state = "error" => call[c].state = "error" \/ Dead(c)'
  <2>1. CASE f.kind \in {"ask", "resolved"}
    BY <2>1 DEF GuiReceives
  <2>2. ASSUME NEW kind \in {"ok", "error", "unknown"}, NEW d \in Calls, f = Frame(kind, d)
        PROVE  /\ call'[c].state = "ok" => call[c].state = "ok" \/ Done(c)'
               /\ call'[c].state = "error" => call[c].state = "error" \/ Dead(c)'
    <3>1. f.kind = kind /\ f.of = d
      BY <2>2, FrameFields
    <3>2. call' = IF call[d].state = "sent" THEN [call EXCEPT ![d].state = kind] ELSE call
      BY <3>1 DEF GuiReceives
    <3>3. /\ kind = "ok" => Done(d)'
          /\ kind = "error" => Dead(d)'
      BY <1>1, <1>3, <2>2 DEF TruthInv, GuisKnow
    <3>4. call'[c].state = call[c].state \/ (c = d /\ call'[c].state = kind)
      <4> HIDE DEF f
      <4>1. CASE call[d].state = "sent"
        BY <3>2, <4>1 DEF TypesInv, DataFit
      <4>2. CASE call[d].state # "sent"
        BY <3>2, <4>2
      <4> QED BY <4>1, <4>2
    <3> QED BY <3>3, <3>4
  <2> QED BY <1>1, <2>1, <2>2, FrameKinds
<1>5. Receipts' = Receipts /\ UNCHANGED <<accepted, waits, down>>
  BY <1>1 DEF Receipts, owner
<1> HIDE DEF f
<1> QED BY <1>2, <1>4, <1>5, NewsIsTrue

LEMMA DetachTruth ==
  ASSUME TypesInv, RequestsInv, TruthInv, [Next]_vars,
         NEW v \in Viewers, Detach(v)
  PROVE  TruthInv'
<1>1. \A w \in Viewers : \A g : Occurs(g, inbox'[w]) => Occurs(g, inbox[w])
  BY OccursEmpty DEF Detach, TypesInv, FramesFit
<1>2. \A c \in Calls :
        /\ call'[c].state = "ok" => call[c].state = "ok"
        /\ call'[c].state = "error" => call[c].state = "error"
        /\ waits'[c] # None => waits'[c] = waits[c]
  BY DEF Detach, TypesInv, DataFit
<1>3. Receipts' = Receipts /\ UNCHANGED <<accepted, down>>
  BY DEF Receipts, Detach
<1> QED BY <1>1, <1>2, <1>3, NewsIsTrue

LEMMA AttachTruth ==
  ASSUME TypesInv, RequestsInv, TruthInv, [Next]_vars,
         NEW v \in Viewers, Attach(v)
  PROVE  TruthInv'
<1>1. \A c \in Calls, w \in Viewers, kind \in {"ok", "error"} :
        Occurs(Frame(kind, c), inbox'[w]) => Occurs(Frame(kind, c), inbox[w])
  <2>1. \A c \in Calls, q \in Questions, kind \in {"ok", "error"} :
          Frame(kind, c) # Frame("ask", q)
    BY FrameFields
  <2>2. \A w \in Viewers : w # v => inbox'[w] = inbox[w]
    BY AttachFits
  <2>3. \A g : Occurs(g, inbox'[v]) => \E q \in Questions : g = Frame("ask", q)
    BY AttachFits, OpenFinite
  <2> QED BY <2>1, <2>2, <2>3
<1>2. Receipts' = Receipts /\ UNCHANGED <<accepted, waits, call, down>>
  BY DEF Receipts, Attach, owner
<1> QED BY <1>1, <1>2, NewsIsTrue

LEMMA CloseTruth ==
  ASSUME TypesInv, RequestsInv, TruthInv, [Next]_vars, Close
  PROVE  TruthInv'
<1>1. \A w \in Viewers : inbox'[w] = <<>>
  BY DEF Close
<1>2. down' = <<>> /\ receipts' = <<>> /\ UNCHANGED accepted
  BY DEF Close
<1>3. \A c \in Calls :
        /\ call'[c].state = "ok" => call[c].state = "ok"
        /\ call'[c].state = "error" => call[c].state = "error"
        /\ waits'[c] = None
  BY DEF Close, TypesInv, DataFit
<1>4. Receipts' = {}
  BY <1>2 DEF Receipts
<1> QED BY <1>1, <1>2, <1>3, <1>4, OccursEmpty, NewsIsTrue

(* The owner settles a request with what is true of it, or does not know.  *)
LEMMA SettleTruth ==
  ASSUME TypesInv, RequestsInv, TruthInv, [Next]_vars,
         NEW r \in Calls, NEW kind \in {"ok", "error", "unknown"}, Settle(r, kind),
         kind = "ok" => r \in started, kind = "error" => Dead(r)
  PROVE  /\ \A c \in Calls : waits'[c] # None => waits'[c] = waits[c]
         /\ \A c \in Calls, v \in Viewers :
              /\ Occurs(Frame("ok", c), inbox'[v]) =>
                   Occurs(Frame("ok", c), inbox[v]) \/ Done(c)'
              /\ Occurs(Frame("error", c), inbox'[v]) =>
                   Occurs(Frame("error", c), inbox[v]) \/ Dead(c)'
<1>1. \A c \in Calls : waits'[c] # None => waits'[c] = waits[c]
  BY DEF Settle
<1>2. \A v \in Viewers : \A f :
        Occurs(f, inbox'[v]) => Occurs(f, inbox[v]) \/ \E c \in Waiting(r) : f = Frame(kind, c)
  BY WaitingFinite, TellSays DEF Settle
<1>3. \A c \in Waiting(r) : c \in Calls /\ Carries(r, c)
  BY SharedThreadsAssumption DEF Waiting, TruthInv, OwnerKnows
<1>4. ASSUME NEW c \in Waiting(r)
      PROVE  (kind = "ok" => Done(c)') /\ (kind = "error" => Dead(c)')
  <2>1. kind = "ok" => Done(c)
    BY <1>3 DEF Carries, Done, Starts
  <2>2. kind = "error" => Dead(c)
    BY <1>3 DEF Carries
  <2> QED BY <1>3, <2>1, <2>2, StartedStays, TruthStays
<1>5. ASSUME NEW c \in Calls, NEW v \in Viewers
      PROVE  /\ Occurs(Frame("ok", c), inbox'[v]) =>
                  Occurs(Frame("ok", c), inbox[v]) \/ Done(c)'
             /\ Occurs(Frame("error", c), inbox'[v]) =>
                  Occurs(Frame("error", c), inbox[v]) \/ Dead(c)'
  BY <1>2, <1>4, FrameFields
<1> QED BY <1>1, <1>5

(* The newest elements of a sequence are elements of it.                   *)
LEMMA NewestOf ==
  ASSUME NEW S, NEW s \in Seq(S)
  PROVE  Newest(s) \in Seq(S)
<1>1. Len(s) \in Nat /\ \A j \in 1 .. Len(s) : s[j] \in S
  BY LenProperties, ElementOfSeq
<1>2. MaxReceipts \in Nat \ {0}
  BY SharedThreadsAssumption
<1>3. CASE Len(s) > MaxReceipts
  <2> DEFINE k == Len(s) - MaxReceipts + 1
  <2>1. k \in Int /\ Len(s) \in Int /\ \A j \in k .. Len(s) : s[j] \in S
    BY <1>1, <1>2, <1>3
  <2>2. SubSeq(s, k, Len(s)) \in Seq(S)
    <3> HIDE DEF k
    <3> QED BY <2>1, SubSeqProperties
  <2> QED BY <1>3, <2>2 DEF Newest
<1> QED BY <1>3 DEF Newest

(* No receipt is made up when others are dropped.                          *)
LEMMA ReceiptsLeft ==
  ASSUME TypesInv, NEW r,
         receipts' \in {Without(r), Newest(receipts), Newest(Without(r))}
  PROVE  Receipts' \subseteq Receipts
<1>1. receipts \in Seq(Receipts)
  BY ReceiptsOf, LenProperties DEF Receipts
<1>2. Without(r) \in Seq(Receipts)
  <2> DEFINE places == {n \in DOMAIN receipts : SameMessage(receipts[n], r)}
  <2>1. CASE places = {}
    BY <1>1, <2>1 DEF Without
  <2>2. CASE places # {}
    <3>1. PICK i \in places : Without(r) = RemoveAt(receipts, i)
      BY <2>2 DEF Without
    <3>2. i \in 1 .. Len(receipts)
      BY <1>1, <3>1, LenProperties
    <3> QED BY <1>1, <3>1, <3>2, RemoveAtPlaces
  <2> QED BY <2>1, <2>2
<1>3. receipts' \in Seq(Receipts)
  BY <1>1, <1>2, NewestOf
<1> QED BY <1>3, LenProperties, ElementOfSeq DEF Receipts

(* A request that is over leaves the truth behind.                         *)
LEMMA FinishTruth ==
  ASSUME TypesInv, RequestsInv, TruthInv, [Next]_vars, UNCHANGED call,
         \A f : Occurs(f, down') => Occurs(f, down),
         NEW r \in Calls, NEW kind \in {"ok", "error", "unknown"}, Finish(r, kind),
         kind = "ok" => r \in started, kind = "error" => Dead(r)
  PROVE  TruthInv'
<1>1. accepted' \subseteq accepted \cup started'
  <2>1. kind \notin {"unknown", "error"} => r \in started'
    BY StartedStays
  <2> QED BY <2>1, FinishCases DEF RefusedOf
<1>2. Receipts' \subseteq Receipts
  BY FinishCases, ReceiptsLeft DEF KeptOf
<1>3. /\ \A c \in Calls : waits'[c] # None => waits'[c] = waits[c]
      /\ \A c \in Calls, v \in Viewers :
           /\ Occurs(Frame("ok", c), inbox'[v]) =>
                Occurs(Frame("ok", c), inbox[v]) \/ Done(c)'
           /\ Occurs(Frame("error", c), inbox'[v]) =>
                Occurs(Frame("error", c), inbox[v]) \/ Dead(c)'
  BY FinishCases, SettleTruth
<1> QED BY <1>1, <1>2, <1>3, NewsIsTrue

LEMMA OwnerTimesOutTruth ==
  ASSUME TypesInv, RequestsInv, TruthInv, [Next]_vars,
         NEW r \in Calls, OwnerTimesOut(r)
  PROVE  TruthInv'
<1>1. UNCHANGED <<call, down>> /\ End(r, "unknown")
  BY DEF OwnerTimesOut
<1>2. CASE Unfinished
  BY <1>1, <1>2, NothingSaid DEF Unfinished
<1>3. CASE Finish(r, "unknown")
  BY <1>1, <1>3, FinishTruth
<1> QED BY <1>1, <1>2, <1>3, EndCases

LEMMA WrittenTruth ==
  ASSUME TypesInv, RequestsInv, HeldInv, TruthInv, [Next]_vars,
         NEW r \in Calls, Written(r)
  PROVE  TruthInv'
<1>1. UNCHANGED <<call, down>>
  BY DEF Written
<1>2. CASE Unfinished
  BY <1>1, <1>2, NothingSaid DEF Unfinished
<1>3. CASE held[r] \in {"ok", "error", "unknown"} /\ Finish(r, held[r])
  <2>1. /\ held[r] = "ok" => r \in started
        /\ held[r] = "error" => Dead(r)
    BY DEF TruthInv, OwnerKnows, HeldInv
  <2> QED BY <1>1, <1>3, <2>1, FinishTruth
<1> QED BY <1>2, <1>3, WrittenCases

LEMMA OwnerHearsTruth ==
  ASSUME TypesInv, RequestsInv, TruthInv, [Next]_vars, OwnerHears
  PROVE  TruthInv'
<1>1. /\ down \in Seq(ToGui) /\ down # <<>> /\ down' = Tail(down)
      /\ UNCHANGED <<call, started>> /\ Occurs(Head(down), down)
      /\ \A f : Occurs(f, down') => Occurs(f, down)
  BY OwnerHearsCases, OccursTail DEF host
<1>2. CASE /\ \E q \in Questions :
                \/ Head(down) = Frame("ask", q) /\ open' = open \cup {q}
                \/ Head(down) = Frame("resolved", q) /\ open' = open \ {q}
           /\ Broadcast(Head(down))
           /\ UNCHANGED <<pending, held, waits, accepted, receipts, forgotten>>
  <2>1. Head(down) \in ToGui
    BY <1>1, OccursTail
  <2>2. \A c \in Calls, kind \in {"ok", "error"} : Head(down) # Frame(kind, c)
    <3>1. \A c \in Calls, q \in Questions, kind \in {"ok", "error"} :
            Frame(kind, c) # Frame("ask", q) /\ Frame(kind, c) # Frame("resolved", q)
      BY FrameFields
    <3> QED BY <1>2, <3>1
  <2>3. \A c \in Calls, v \in Viewers, kind \in {"ok", "error"} :
          Occurs(Frame(kind, c), inbox'[v]) => Occurs(Frame(kind, c), inbox[v])
    <3>1. \A v \in Viewers :
            /\ inbox[v] \in Seq(ToGui)
            /\ inbox'[v] = inbox[v] \/ inbox'[v] = Append(inbox[v], Head(down))
      BY <1>2, <2>1, BroadcastFits DEF TypesInv, FramesFit
    <3> QED BY <2>1, <2>2, <3>1, OccursAppend
  <2>4. Receipts' = Receipts
    BY <1>2 DEF Receipts
  <2> QED BY <1>1, <1>2, <2>3, <2>4, NewsIsTrue
<1>3. ASSUME NEW r \in Calls, NEW kind \in {"ok", "error", "unknown"},
             Head(down) = Frame(kind, r), End(r, kind) \/ Unfinished
      PROVE  TruthInv'
  <2>1. CASE Unfinished
    BY <1>1, <2>1, NothingSaid DEF Unfinished
  <2>2. CASE Finish(r, kind)
    <3>1. Occurs(Frame(kind, r), down)
      BY <1>1, <1>3
    <3>2. (kind = "ok" => r \in started) /\ (kind = "error" => Dead(r))
      BY <3>1, RefusedIsDead DEF TruthInv, OwnerKnows
    <3> QED BY <1>1, <2>2, <3>2, FinishTruth
  <2> QED BY <1>3, <2>1, <2>2, EndCases
<1> QED BY <1>2, <1>3, OwnerHearsCases

(* A call is sent to the Host, or shares what becomes of the request that  *)
(* has the receipt of its message, and its input.                          *)
LEMMA CallShares ==
  ASSUME TypesInv, NEW c \in Calls, TakeCall(c)
  PROVE  \/ /\ receipts' = Append(receipts, c)
            /\ waits' = [waits EXCEPT ![c] = c] /\ UNCHANGED inbox
         \/ UNCHANGED <<receipts, up, waits>> /\ Tell({c}, "error")
         \/ \E r \in Receipts :
              /\ SameMessage(r, c) /\ call[r].input = call[c].input
              /\ UNCHANGED <<receipts, up>>
              /\ \/ r \in accepted /\ Tell({c}, "ok") /\ UNCHANGED waits
                 \/ waits' = [waits EXCEPT ![c] = r] /\ UNCHANGED inbox
<1>1. CASE Receipt(c) = {}
  BY <1>1 DEF TakeCall
<1>2. CASE Receipt(c) # {}
  <2> DEFINE r == CHOOSE r \in Receipt(c) : TRUE
  <2>1. r \in Receipts /\ SameMessage(r, c)
    BY <1>2 DEF Receipt
  <2>2. /\ UNCHANGED <<receipts, pending, writing, up>>
        /\ IF call[r].input # call[c].input
           THEN Tell({c}, "error") /\ UNCHANGED waits
           ELSE IF r \in accepted
           THEN Tell({c}, "ok") /\ UNCHANGED waits
           ELSE waits' = [waits EXCEPT ![c] = r] /\ UNCHANGED inbox
    BY <1>2 DEF TakeCall
  <2> HIDE DEF r
  <2> QED BY <2>1, <2>2
<1> QED BY <1>1, <1>2

LEMMA OwnerReceivesTruth ==
  ASSUME TypesInv, RequestsInv, TruthInv, [Next]_vars,
         NEW v \in Viewers, OwnerReceives(v)
  PROVE  TruthInv'
<1>1. UNCHANGED <<call, accepted, handling, started, down>>
  BY DEF OwnerReceives, host
<1>2. ASSUME NEW q \in Questions, TakeAnswer(v, q) PROVE TruthInv'
  BY <1>1, <1>2, NothingSaid DEF TakeAnswer
<1>3. ASSUME NEW c \in Calls, Head(out[v]) = Request(c), TakeCall(c) PROVE TruthInv'
  <2>1. call[c].state # "new" /\ ~Effective(c) /\ ~Queued(c)'
    <3>1. Queued(c) /\ ~Queued(c)'
      BY <1>3, OwnerTaking DEF Queued
    <3>2. call[c].state # "new"
      BY <3>1 DEF TypesInv, FinitelyMany, Queued
    <3> QED BY <3>1, <3>2 DEF RequestsInv, Passed, Effective
  <2>2. UNCHANGED up => Dead(c)'
    BY <1>1, <2>1 DEF Dead, Effective
  <2>3. waits \in [Calls -> Calls \cup {None}]
    BY DEF TypesInv, DataFit
  <2>4. CASE /\ receipts' = Append(receipts, c)
             /\ waits' = [waits EXCEPT ![c] = c] /\ UNCHANGED inbox
    <3>1. Receipts' \subseteq Receipts \cup {c}
      <4>1. receipts \in Seq(Calls)
        BY ReceiptsOf
      <4>2. \A d : Occurs(d, receipts') <=> d = c \/ Occurs(d, receipts)
        BY <2>4, <4>1, OccursAppend
      <4> QED BY <4>2 DEF Receipts, Occurs
    <3>2. ASSUME NEW d \in Calls, waits'[d] # waits[d] PROVE Carries(waits[d], d)'
      <4>1. d = c /\ waits'[d] = c
        BY <2>3, <2>4, <3>2
      <4> QED BY <1>1, <2>1, <4>1 DEF Carries, SameMessage
    <3> QED BY <1>1, <2>1, <2>4, <3>1, <3>2, NewsIsTrue
  <2>5. ASSUME NEW kind \in {"ok", "error"}, Tell({c}, kind),
               UNCHANGED <<receipts, up, waits>>, kind = "ok" => Done(c)
        PROVE  TruthInv'
    <3>1. {c} \subseteq Calls /\ IsFiniteSet({c})
      BY FS_Singleton
    <3>2. \A w \in Viewers : \A f :
            Occurs(f, inbox'[w]) => Occurs(f, inbox[w]) \/ f = Frame(kind, c)
      BY <2>5, <3>1, TellSays
    <3>3. (kind = "ok" => Done(c)') /\ Dead(c)'
      BY <2>2, <2>5, StartedStays, TruthStays
    <3>4. \A d \in Calls, w \in Viewers :
            /\ Occurs(Frame("ok", d), inbox'[w]) =>
                 Occurs(Frame("ok", d), inbox[w]) \/ Done(d)'
            /\ Occurs(Frame("error", d), inbox'[w]) =>
                 Occurs(Frame("error", d), inbox[w]) \/ Dead(d)'
      BY <3>2, <3>3, FrameFields
    <3>5. Receipts' = Receipts
      BY <2>5 DEF Receipts
    <3> QED BY <1>1, <2>5, <3>4, <3>5, NewsIsTrue
  <2>6. ASSUME NEW r \in Receipts, SameMessage(r, c), call[r].input = call[c].input,
               UNCHANGED <<receipts, up>>,
               \/ r \in accepted /\ Tell({c}, "ok") /\ UNCHANGED waits
               \/ waits' = [waits EXCEPT ![c] = r] /\ UNCHANGED inbox
        PROVE  TruthInv'
    <3>1. r \in Calls /\ call[r].state # "new"
      BY ReceiptsOf DEF TruthInv, OwnerKnows
    <3>2. CASE r \in accepted /\ Tell({c}, "ok") /\ UNCHANGED waits
      <4>1. Done(c)
        BY <2>1, <2>6, <3>2 DEF Done, Starts, TruthInv, OwnerKnows
      <4> QED BY <2>5, <2>6, <3>2, <4>1
    <3>3. CASE waits' = [waits EXCEPT ![c] = r] /\ UNCHANGED inbox
      <4>1. ASSUME NEW d \in Calls, waits'[d] # waits[d] PROVE Carries(waits[d], d)'
        <5>1. d = c /\ waits'[d] = r
          BY <2>3, <3>3, <4>1
        <5> QED BY <1>1, <2>1, <2>2, <2>6, <3>1, <5>1 DEF Carries, SameMessage
      <4>2. Receipts' = Receipts
        BY <2>6 DEF Receipts
      <4> QED BY <1>1, <3>3, <4>1, <4>2, NewsIsTrue
    <3> QED BY <2>6, <3>2, <3>3
  <2> QED BY <1>3, <2>4, <2>5, <2>6, CallShares
<1> QED BY <1>2, <1>3, OwnerTakes

LEMMA TruthStep ==
  TypesInv /\ RequestsInv /\ HeldInv /\ TruthInv /\ [Next]_vars => TruthInv'
<1> SUFFICES ASSUME TypesInv, RequestsInv, HeldInv, TruthInv, [Next]_vars
             PROVE  TruthInv'
  OBVIOUS
<1>1. CASE UNCHANGED vars
  BY <1>1, AboutQuestions DEF vars
<1>2. ASSUME NEW v \in Viewers, GuiReceives(v) \/ OwnerReceives(v) PROVE TruthInv'
  BY <1>2, GuiReceivesTruth, OwnerReceivesTruth
<1>3. CASE OwnerHears
  BY <1>3, OwnerHearsTruth
<1>4. ASSUME NEW v \in Viewers, NEW c \in Calls, Submit(v, c) PROVE TruthInv'
  BY <1>4, SubmitTruth
<1>5. ASSUME NEW v \in Viewers, NEW q \in Questions, AnswerQuestion(v, q) PROVE TruthInv'
  BY <1>5, NothingSaid DEF AnswerQuestion, owner
<1>6. ASSUME NEW v \in Viewers, Detach(v) \/ Attach(v) PROVE TruthInv'
  BY <1>6, DetachTruth, AttachTruth
<1>7. ASSUME NEW r \in Calls, OwnerTimesOut(r) \/ Written(r) \/ Fail(r) \/ Started(r)
      PROVE  TruthInv'
  BY <1>7, OwnerTimesOutTruth, WrittenTruth, ReplyTruth
<1>8. CASE \/ HostReceives \/ TurnEnds
           \/ \E r \in Calls : Begin(r)
           \/ \E q \in Questions : Ask(q) \/ Withdraw(q)
  BY <1>8, HostTruth
<1>9. CASE Close
  BY <1>9, CloseTruth
<1>10. ASSUME NEW v \in Viewers, Answered(v) PROVE TruthInv'
  BY <1>10, NothingSaid DEF Answered, guis
<1> QED BY <1>1, <1>2, <1>3, <1>4, <1>5, <1>6, <1>7, <1>8, <1>9, <1>10
        DEF Next, Delivery

LEMMA TruthInit == Init => TruthInv
BY OccursEmpty DEF Init, TruthInv, OwnerKnows, GuisKnow, Receipts

(* What a GUI is told of a message that it sent is true: after "ok" a Turn *)
(* was started with its input, and after "error" its own request starts    *)
(* none (#request and the peers of SharedThreadOwner).                     *)
THEOREM GuisAreToldTheTruth == Spec => []ToldTheTruth
<1>1. Init => TypesInv /\ RequestsInv /\ HeldInv /\ TruthInv
  BY TypesInit, RequestsInit, HeldInit, TruthInit
<1>2. TypesInv /\ RequestsInv /\ HeldInv /\ TruthInv /\ [Next]_vars
        => (TypesInv /\ RequestsInv /\ HeldInv /\ TruthInv)'
  BY TypesStep, RequestsStep, HeldStep, TruthStep
<1>3. TruthInv => ToldTheTruth
  <2> SUFFICES ASSUME TruthInv, NEW c \in Calls
               PROVE  /\ call[c].state = "ok" => Starts(c)
                      /\ call[c].state = "error" => Refused(c)
    BY DEF ToldTheTruth
  <2>1. Dead(c) => Refused(c)
    <3>1. \A s : Occurs(Request(c), s) <=> Frame("request", c) \in ToSet(s)
      BY DEF Occurs, Request, ToSet
    <3> QED BY <3>1 DEF Dead, Queued, Effective, Refused
  <2> QED BY <2>1 DEF TruthInv, GuisKnow, Done
<1> QED BY <1>1, <1>2, <1>3, PTL DEF Spec
=============================================================================
