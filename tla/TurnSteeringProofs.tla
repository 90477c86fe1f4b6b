------------------------- MODULE TurnSteeringProofs -------------------------
(***************************************************************************)
(* Proofs about TurnSteering, for any calls, messages and bounds: the type *)
(* invariant, that one message replaces a Turn at most once, that nothing  *)
(* of Desktop gets between a Turn and its replacement, that a stopped      *)
(* operation begins no replacement, and that a repetition joins.           *)
(***************************************************************************)
EXTENDS TurnSteering, FiniteSetTheorems, SequenceTheorems, TLAPS

-----------------------------------------------------------------------------
(* The operators on receipts. *)

\* Numbers up to n have a least one.  Their initial intervals are finite sets,
\* which strict inclusion orders well.
LEMMA LeastIndex ==
  ASSUME NEW n \in Nat, NEW T \in SUBSET (1 .. n), T # {}
  PROVE  \E x \in T : \A y \in T : x <= y
<1> DEFINE Upto == {1 .. x : x \in T}
<1>1. /\ Upto \subseteq FiniteSubsetsOf(1 .. n)
      /\ Upto # {}
  <2>1. \A x \in T : IsFiniteSet(1 .. x) /\ 1 .. x \subseteq 1 .. n
    BY FS_Interval
  <2>2. \A x \in T : 1 .. x \in FiniteSubsetsOf(1 .. n)
    BY <2>1 DEF FiniteSubsetsOf
  <2>3. QED
    BY <2>2
<1>2. IsWellFoundedOn(StrictSubsetOrdering(1 .. n), FiniteSubsetsOf(1 .. n))
  BY FS_StrictSubsetOrderingWellFounded, Zenon
<1>3. PICK X \in Upto : \A Y \in Upto : ~(<<Y, X>> \in StrictSubsetOrdering(1 .. n))
  <2> HIDE DEF Upto
  <2>1. QED
    BY <1>1, <1>2, WFMin, Zenon
<1>4. PICK x \in T : X = 1 .. x
  OBVIOUS
<1>5. ASSUME NEW y \in T, y < x
      PROVE FALSE
  <2>1. 1 .. y \subseteq 1 .. x /\ 1 .. y # 1 .. x
    BY <1>5
  <2>2. <<1 .. y, X>> \in StrictSubsetOrdering(1 .. n)
    BY <2>1, <1>4 DEF StrictSubsetOrdering
  <2>3. QED
    BY <2>2, <1>3
<1>6. QED
  BY <1>5

LEMMA RemoveAtProperties ==
  ASSUME NEW S, NEW s \in Seq(S), NEW k \in 1 .. Len(s)
  PROVE  /\ RemoveAt(s, k) \in Seq(S)
         /\ Len(RemoveAt(s, k)) = Len(s) - 1
         /\ \A i \in 1 .. Len(s) - 1 :
              RemoveAt(s, k)[i] = s[IF i < k THEN i ELSE i + 1]
<1> DEFINE a == SubSeq(s, 1, k - 1)
           b == SubSeq(s, k + 1, Len(s))
<1>1. /\ a \in Seq(S)
      /\ Len(a) = k - 1
      /\ \A i \in 1 .. k - 1 : a[i] = s[i]
  OBVIOUS
<1>2. /\ b \in Seq(S)
      /\ Len(b) = Len(s) - k
      /\ \A i \in 1 .. Len(s) - k : b[i] = s[k + i]
  OBVIOUS
<1>3. RemoveAt(s, k) = a \o b
  BY DEF RemoveAt
<1> HIDE DEF a, b
<1>4. /\ a \o b \in Seq(S)
      /\ Len(a \o b) = Len(s) - 1
  <2>1. a \o b \in Seq(S) /\ Len(a \o b) = Len(a) + Len(b)
    BY <1>1, <1>2, ConcatProperties, Zenon
  <2>2. Len(s) \in Nat /\ k \in Int
    OBVIOUS
  <2>3. QED
    BY <1>1, <1>2, <2>1, <2>2
<1>5. ASSUME NEW i \in 1 .. Len(s) - 1
      PROVE  (a \o b)[i] = s[IF i < k THEN i ELSE i + 1]
  <2>1. CASE i < k
    BY <1>1, <1>2, <2>1
  <2>2. CASE ~(i < k)
    <3>1. (a \o b)[i] = b[i - (k - 1)]
      BY <1>1, <1>2, <2>2
    <3>2. b[i - (k - 1)] = s[k + (i - (k - 1))]
      BY <1>2, <2>2
    <3>3. k + (i - (k - 1)) = i + 1
      BY <2>2
    <3>4. QED
      BY <3>1, <3>2, <3>3, <2>2
  <2>3. QED
    BY <2>1, <2>2
<1>6. QED
  BY <1>3, <1>4, <1>5

\* Every entry of t comes from an entry of s of its own.
Thins(s, t) ==
  \E f \in [DOMAIN t -> DOMAIN s] :
    \A i \in DOMAIN t : /\ t[i] = s[f[i]]
                        /\ \A j \in DOMAIN t : f[i] = f[j] => i = j

LEMMA RemoveAtThins ==
  ASSUME NEW S, NEW s \in Seq(S), NEW k \in 1 .. Len(s)
  PROVE  /\ Thins(s, RemoveAt(s, k))
         /\ \A i \in DOMAIN s : i # k => \E j \in DOMAIN RemoveAt(s, k) : RemoveAt(s, k)[j] = s[i]
<1> DEFINE t == RemoveAt(s, k)
           f == [i \in 1 .. Len(s) - 1 |-> IF i < k THEN i ELSE i + 1]
<1>1. /\ t \in Seq(S) /\ Len(t) = Len(s) - 1
      /\ \A i \in 1 .. Len(s) - 1 : t[i] = s[IF i < k THEN i ELSE i + 1]
  BY RemoveAtProperties
<1> HIDE DEF t
<1>2. DOMAIN t = 1 .. Len(s) - 1 /\ DOMAIN s = 1 .. Len(s) /\ Len(s) \in Nat
  BY <1>1
<1>3. f \in [DOMAIN t -> DOMAIN s]
  BY <1>2
<1>4. \A i \in DOMAIN t : /\ t[i] = s[f[i]]
                          /\ \A j \in DOMAIN t : f[i] = f[j] => i = j
  BY <1>1, <1>2
<1>5. ASSUME NEW i \in DOMAIN s, i # k
      PROVE  \E j \in DOMAIN t : t[j] = s[i]
  <2>1. CASE i < k
    BY <1>1, <1>2, <2>1
  <2>2. CASE i > k
    <3>1. i - 1 \in DOMAIN t /\ ~(i - 1 < k) /\ (i - 1) + 1 = i
      BY <1>2, <2>2
    <3>2. t[i - 1] = s[i]
      BY <1>1, <1>2, <3>1
    <3>3. QED
      BY <3>1, <3>2
  <2>3. QED
    BY <1>2, <1>5, <2>1, <2>2
<1>6. Thins(s, t)
  BY <1>3, <1>4 DEF Thins
<1>7. QED
  BY <1>5, <1>6 DEF t

LEMMA ThinsItself ==
  ASSUME NEW s
  PROVE  Thins(s, s)
<1> DEFINE f == [i \in DOMAIN s |-> i]
<1>1. f \in [DOMAIN s -> DOMAIN s]
  OBVIOUS
<1>2. \A i \in DOMAIN s : s[i] = s[f[i]] /\ \A j \in DOMAIN s : f[i] = f[j] => i = j
  OBVIOUS
<1>3. QED
  BY <1>1, <1>2 DEF Thins

Receipt == [call : Calls \cup {None}, turn : Nat, settled : BOOLEAN]

LEMMA ThinsTwice ==
  ASSUME NEW r, NEW s, NEW t, Thins(r, s), Thins(s, t)
  PROVE  Thins(r, t)
<1>1. PICK f \in [DOMAIN s -> DOMAIN r] :
        \A i \in DOMAIN s : s[i] = r[f[i]] /\ \A j \in DOMAIN s : f[i] = f[j] => i = j
  BY DEF Thins
<1>2. PICK g \in [DOMAIN t -> DOMAIN s] :
        \A i \in DOMAIN t : t[i] = s[g[i]] /\ \A j \in DOMAIN t : g[i] = g[j] => i = j
  BY DEF Thins
<1> DEFINE h == [i \in DOMAIN t |-> f[g[i]]]
<1>3. h \in [DOMAIN t -> DOMAIN r]
  BY <1>1, <1>2
<1>4. \A i \in DOMAIN t : t[i] = r[h[i]] /\ \A j \in DOMAIN t : h[i] = h[j] => i = j
  BY <1>1, <1>2
<1>5. QED
  BY <1>3, <1>4 DEF Thins

\* What is dropped is one settled receipt, if any.
LEMMA DropOldestThins ==
  ASSUME NEW rs \in Seq(Receipt)
  PROVE  /\ DropOldest(rs) \in Seq(Receipt)
         /\ Thins(rs, DropOldest(rs))
         /\ \A i \in DOMAIN rs : ~rs[i].settled =>
              \E j \in DOMAIN DropOldest(rs) : DropOldest(rs)[j] = rs[i]
<1> DEFINE old == {i \in DOMAIN rs : rs[i].settled}
           k == CHOOSE i \in old : \A j \in old : i <= j
<1>1. CASE Len(rs) > MaxReceipts /\ old # {}
  <2>1. old \subseteq 1 .. Len(rs) /\ Len(rs) \in Nat
    OBVIOUS
  <2>2. \E x \in old : \A y \in old : x <= y
    <3> HIDE DEF old
    <3>1. QED
      BY <1>1, <2>1, LeastIndex
  <2>3. k \in old
    <3> HIDE DEF old
    <3>1. QED
      BY <2>2
  <2>4. DropOldest(rs) = RemoveAt(rs, k)
    BY <1>1 DEF DropOldest
  <2>5. k \in 1 .. Len(rs) /\ rs[k].settled
    <3> HIDE DEF k
    <3>1. QED
      BY <2>3
  <2> HIDE DEF k, old
  <2>6. /\ RemoveAt(rs, k) \in Seq(Receipt)
        /\ Thins(rs, RemoveAt(rs, k))
        /\ \A i \in DOMAIN rs : i # k =>
             \E j \in DOMAIN RemoveAt(rs, k) : RemoveAt(rs, k)[j] = rs[i]
    BY <2>5, RemoveAtProperties, RemoveAtThins
  <2>7. QED
    BY <2>4, <2>5, <2>6, Zenon
<1>2. CASE ~(Len(rs) > MaxReceipts /\ old # {})
  <2>1. DropOldest(rs) = rs
    BY <1>2 DEF DropOldest
  <2>2. QED
    BY <2>1, ThinsItself
<1>3. QED
  BY <1>1, <1>2

\* Trimming leaves the receipts that are not settled.
LEMMA TrimmedThins ==
  ASSUME NEW rs \in Seq(Receipt)
  PROVE  /\ Trimmed(rs) \in Seq(Receipt)
         /\ Thins(rs, Trimmed(rs))
         /\ \A i \in DOMAIN rs : ~rs[i].settled =>
              \E j \in DOMAIN Trimmed(rs) : Trimmed(rs)[j] = rs[i]
<1> DEFINE once == DropOldest(rs)
           twice == DropOldest(once)
<1>1. /\ once \in Seq(Receipt) /\ Thins(rs, once)
      /\ \A i \in DOMAIN rs : ~rs[i].settled => \E j \in DOMAIN once : once[j] = rs[i]
  BY DropOldestThins
<1> HIDE DEF once
<1>2. /\ twice \in Seq(Receipt) /\ Thins(once, twice)
      /\ \A i \in DOMAIN once : ~once[i].settled =>
           \E j \in DOMAIN twice : twice[j] = once[i]
  BY <1>1, DropOldestThins
<1> HIDE DEF twice
<1>3. Thins(rs, twice)
  BY <1>1, <1>2, ThinsTwice
<1>4. ASSUME NEW i \in DOMAIN rs, ~rs[i].settled
      PROVE  \E j \in DOMAIN twice : twice[j] = rs[i]
  BY <1>1, <1>2, <1>4
<1>5. QED
  BY <1>2, <1>3, <1>4 DEF Trimmed, once, twice

LEMMA WithdrawnThins ==
  ASSUME receipts \in Seq(Receipt)
  PROVE  Withdrawn \in Seq(Receipt) /\ Thins(receipts, Withdrawn)
<1> DEFINE own == {i \in DOMAIN receipts : receipts[i].call = pending.call}
           k == CHOOSE i \in own : TRUE
<1>1. CASE own # {}
  <2>1. k \in 1 .. Len(receipts)
    BY <1>1
  <2>2. Withdrawn = RemoveAt(receipts, k)
    BY <1>1 DEF Withdrawn
  <2> HIDE DEF k
  <2>3. QED
    BY <2>1, <2>2, RemoveAtProperties, RemoveAtThins
<1>2. CASE own = {}
  BY <1>2, ThinsItself DEF Withdrawn
<1>3. QED
  BY <1>1, <1>2

-----------------------------------------------------------------------------
(* The type invariant. *)

Call == [state : {"idle", "waiting", "ok", "error"}, turn : Nat, on : Calls \cup {None}]
Ending == [turn : Nat, stage : {"none", "emitted", "projected"}, outcome : Outcomes]
Pending == [call : Calls \cup {None}, turn : Nat,
            phase : {"none", "cancel", "terminal", "resolve", "start"},
            cancelled : {"pending", "ok", "refused"}, outcome : Outcomes,
            race : {"none", "event", "failure"}, failed : BOOLEAN]

LEMMA TypeParts ==
  TypeOK <=> /\ turns \in Nat /\ active \in Nat /\ origin \in Origins
             /\ ending \in Ending
             /\ lookup \in {"none", "listing", "executing"}
             /\ pending \in Pending
             /\ receipts \in Seq(Receipt)
             /\ calls \in [Calls -> Call]
             /\ reserved \in BOOLEAN /\ crossed \in BOOLEAN
             /\ begun \subseteq Calls
             /\ closed \in BOOLEAN
BY DEF TypeOK, Call, Ending, Pending, Receipt

LEMMA TypePartsNext ==
  TypeOK' <=> /\ turns' \in Nat /\ active' \in Nat /\ origin' \in Origins
              /\ ending' \in Ending
              /\ lookup' \in {"none", "listing", "executing"}
              /\ pending' \in Pending
              /\ receipts' \in Seq(Receipt)
              /\ calls' \in [Calls -> Call]
              /\ reserved' \in BOOLEAN /\ crossed' \in BOOLEAN
              /\ begun' \subseteq Calls
              /\ closed' \in BOOLEAN
BY DEF TypeOK, Call, Ending, Pending, Receipt

LEMMA Fields ==
  ASSUME NEW p \in Pending, NEW e \in Ending, NEW c \in Call, NEW r \in Receipt
  PROVE  /\ p.call \in Calls \cup {None} /\ p.turn \in Nat /\ p.outcome \in Outcomes
         /\ e.turn \in Nat /\ e.outcome \in Outcomes
         /\ c.turn \in Nat /\ c.on \in Calls \cup {None}
         /\ r.call \in Calls \cup {None} /\ r.turn \in Nat /\ r.settled \in BOOLEAN
BY DEF Pending, Ending, Call, Receipt

LEMMA NotTyped ==
  NotEnding \in Ending /\ NotPending \in Pending /\ NotCalled \in Call
BY DEF NotEnding, Ending, NotPending, Pending, NotCalled, Call, Outcomes

\* The steps of Turns and commands leave the steering alone.
TurnStep ==
  \/ DesktopTurn \/ DelegatedTurn \/ AutonomousTurn
  \/ LookUpCommand \/ CommandFound \/ CommandStarted
  \/ TurnEnds \/ TurnProjected \/ TurnLost

LEMMA TurnStepTyped ==
  ASSUME TypeOK, TurnStep
  PROVE  TypeOK'
<1> USE TypeParts, TypePartsNext
<1> USE DEF steerVars, callVars, hostVars, turnVars
<1>1. ASSUME NEW who \in Origins, Begin(who)
      PROVE  turns' \in Nat /\ active' \in Nat /\ origin' \in Origins
  BY <1>1 DEF Begin
<1>2. ASSUME EndActive
      PROVE  turns' \in Nat /\ active' \in Nat /\ origin' \in Origins
  BY <1>2 DEF EndActive, Origins
<1>3. CASE DesktopTurn \/ DelegatedTurn \/ AutonomousTurn
  <2>1. {"desktop", "delegated", "autonomous"} \subseteq Origins
    BY DEF Origins
  <2>2. QED
    BY <1>1, <1>3, <2>1 DEF DesktopTurn, DelegatedTurn, AutonomousTurn, Cross
<1>4. CASE LookUpCommand
  BY <1>4 DEF LookUpCommand
<1>5. CASE CommandFound
  <2>1. "command" \in Origins
    BY DEF Origins
  <2>2. QED
    BY <1>1, <1>5, <2>1 DEF CommandFound
<1>6. CASE CommandStarted
  BY <1>2, <1>6 DEF CommandStarted
<1>7. CASE TurnEnds
  <2>1. PICK o \in {"cancelled", "failed"} :
          ending' = [turn |-> active, stage |-> "emitted", outcome |-> o]
    BY <1>7 DEF TurnEnds
  <2>2. ending' \in Ending
    BY <2>1 DEF Ending, Outcomes
  <2>3. QED
    BY <1>7, <2>2 DEF TurnEnds
<1>8. CASE TurnProjected
  <2>1. [ending EXCEPT !.stage = "projected"] \in Ending
    BY DEF Ending
  <2>2. QED
    BY <1>2, <1>8, <2>1 DEF TurnProjected
<1>9. CASE TurnLost
  BY <1>2, <1>9, NotTyped DEF TurnLost
<1>10. QED
  BY <1>3, <1>4, <1>5, <1>6, <1>7, <1>8, <1>9 DEF TurnStep

\* Updates of one field of the operation.
LEMMA PendingUpdates ==
  ASSUME NEW p \in Pending
  PROVE  /\ \A a \in {"ok", "refused"}, r \in {"none", "event", "failure"} :
              [p EXCEPT !.cancelled = a, !.race = r] \in Pending
         /\ \A o \in Outcomes, r \in {"none", "event", "failure"} :
              [p EXCEPT !.outcome = o, !.race = r] \in Pending
         /\ Rejected(p) \in Pending
         /\ \A f \in {"terminal", "resolve", "start"}, r \in {"none", "event", "failure"} :
              /\ [p EXCEPT !.phase = f, !.race = r] \in Pending
              /\ [p EXCEPT !.phase = f] \in Pending
BY DEF Pending, Rejected

LEMMA AnsweredTyped ==
  ASSUME TypeOK, NEW c \in Calls, NEW n \in Nat, NEW s \in {"ok", "error"}, Answered(c, n, s)
  PROVE  calls' \in [Calls -> Call]
<1>1. [state |-> s, turn |-> n, on |-> None] \in Call
  BY DEF Call
<1>2. QED
  BY <1>1, TypeParts DEF Answered

LEMMA DeliverTyped ==
  ASSUME TypeOK
  PROVE  /\ \A s \in {"ok", "error"} :
              Deliver(s) => calls' \in [Calls -> Call] /\ pending' \in Pending
         /\ Fail => calls' \in [Calls -> Call] /\ pending' \in Pending
                    /\ receipts' \in Seq(Receipt)
         /\ Succeed => calls' \in [Calls -> Call] /\ pending' \in Pending
                       /\ receipts' \in Seq(Receipt)
<1> USE TypeParts
<1>2. ASSUME NEW s \in {"ok", "error"}, Deliver(s)
      PROVE  calls' \in [Calls -> Call] /\ pending' \in Pending
  <2>1. \A d \in Calls : [calls[d] EXCEPT !.state = s] \in Call /\ calls[d] \in Call
    BY DEF Call
  <2>2. calls' \in [Calls -> Call]
    BY <1>2, <2>1 DEF Deliver
  <2>3. QED
    BY <1>2, <2>2, NotTyped DEF Deliver
<1>3. ASSUME Fail
      PROVE  receipts' \in Seq(Receipt)
  BY <1>3, WithdrawnThins DEF Fail
<1>4. ASSUME Succeed
      PROVE  receipts' \in Seq(Receipt)
  <2> DEFINE new == [i \in DOMAIN receipts |->
                       IF receipts[i].call = pending.call
                       THEN [receipts[i] EXCEPT !.settled = TRUE] ELSE receipts[i]]
  <2>1. \A i \in DOMAIN receipts : receipts[i] \in Receipt
                                   /\ [receipts[i] EXCEPT !.settled = TRUE] \in Receipt
    <3>1. \A r \in Receipt : [r EXCEPT !.settled = TRUE] \in Receipt
      BY DEF Receipt
    <3>2. \A i \in DOMAIN receipts : receipts[i] \in Receipt
      OBVIOUS
    <3>3. QED
      BY <3>1, <3>2
  <2>2. new \in [1 .. Len(receipts) -> Receipt] /\ Len(receipts) \in Nat
    BY <2>1
  <2>3. new \in Seq(Receipt)
    <3> HIDE DEF new
    <3>1. QED
      BY <2>2, SeqDef
  <2>4. receipts' = Trimmed(new)
    BY <1>4 DEF Succeed
  <2>5. QED
    <3> HIDE DEF new
    <3>1. QED
      BY <2>3, <2>4, TrimmedThins
<1>5. QED
  BY <1>2, <1>3, <1>4 DEF Fail, Succeed

LEMMA SteerTyped ==
  ASSUME TypeOK, NEW c \in Calls, NEW n \in 1 .. turns, Steer(c, n)
  PROVE  TypeOK'
<1> USE TypeParts, TypePartsNext
<1> USE DEF turnVars, hostVars
<1>1. n \in Nat /\ n \in 1 .. turns
  OBVIOUS
<1>2. CASE \E s \in {"ok", "error"} : Answered(c, n, s) /\ UNCHANGED <<pending, receipts>>
  BY <1>1, <1>2, AnsweredTyped DEF Steer
<1>3. CASE Register(c, n)
  <2>1. [NotPending EXCEPT !.call = c, !.turn = active, !.phase = "cancel"] \in Pending
    BY DEF NotPending, Pending, Outcomes
  <2>2. [state |-> "waiting", turn |-> n, on |-> c] \in Call
    BY <1>1 DEF Call
  <2>3. [call |-> c, turn |-> n, settled |-> FALSE] \in Receipt
    BY <1>1 DEF Receipt
  <2>4. receipts' \in Seq(Receipt)
    BY <1>3, <2>3 DEF Register
  <2>5. QED
    BY <1>3, <2>1, <2>2, <2>4 DEF Register, Steer
<1>4. CASE \E r \in ReceiptsOf(c) :
             /\ calls' = [calls EXCEPT ![c] = [state |-> "waiting", turn |-> n, on |-> r.call]]
             /\ UNCHANGED <<pending, receipts>>
  <2>1. PICK r \in ReceiptsOf(c) :
               calls' = [calls EXCEPT ![c] = [state |-> "waiting", turn |-> n, on |-> r.call]]
    BY <1>4
  <2>2. r \in Receipt
    BY DEF ReceiptsOf, ToSet
  <2>3. [state |-> "waiting", turn |-> n, on |-> r.call] \in Call
    BY <1>1, <2>2 DEF Call, Receipt
  <2>4. QED
    BY <1>4, <2>1, <2>3 DEF Steer
<1>5. QED
  BY <1>2, <1>3, <1>4 DEF Steer, Repeat, Replace

LEMMA OperationTyped ==
  ASSUME TypeOK, CancelSettles \/ Terminal \/ Stopped \/ TimesOut \/ Close \/ OtherSucceeds
  PROVE  TypeOK'
<1> USE TypeParts, TypePartsNext
<1> USE DEF turnVars, hostVars, callVars
<1>1. pending.race \in {"none", "event", "failure"} /\ pending.outcome \in Outcomes
      /\ ending.outcome \in Outcomes
  BY DEF Pending, Ending
<1>2. CASE CancelSettles
  BY <1>1, <1>2, PendingUpdates DEF CancelSettles
<1>3. CASE Terminal
  <2> DEFINE race == IF pending.race = "none" /\ pending.phase = "terminal"
                     THEN "event" ELSE pending.race
  <2>0. race \in {"none", "event", "failure"}
    BY <1>1
  <2>1. pending' \in Pending
    <3>1. pending' = [pending EXCEPT !.outcome = ending.outcome, !.race = race]
          \/ pending' = pending
      BY <1>3 DEF Terminal
    <3> HIDE DEF race
    <3>2. pending \in Pending
      OBVIOUS
    <3>3. [pending EXCEPT !.outcome = ending.outcome, !.race = race] \in Pending
      BY <1>1, <2>0, <3>2, PendingUpdates
    <3>4. QED
      BY <3>1, <3>2, <3>3
  <2>2. QED
    BY <1>3, <2>1, NotTyped DEF Terminal
<1>4. CASE Stopped \/ TimesOut
  BY <1>4, PendingUpdates DEF Stopped, TimesOut
<1>5. CASE Close
  <2>1. pending' \in Pending
    BY <1>5, PendingUpdates DEF Close
  <2>2. receipts' \in Seq(Receipt)
    BY <1>5 DEF Close
  <2>3. QED
    BY <1>5, <2>1, <2>2 DEF Close
<1>6. CASE OtherSucceeds
  <2> DEFINE r == [call |-> None, turn |-> 0, settled |-> TRUE]
  <2>1. r \in Receipt
    BY DEF Receipt
  <2>2. receipts' = Trimmed(Append(receipts, r))
    BY <1>6 DEF OtherSucceeds
  <2>3. receipts' \in Seq(Receipt)
    <3> HIDE DEF r
    <3>1. Append(receipts, r) \in Seq(Receipt)
      BY <2>1
    <3>2. QED
      BY <2>2, <3>1, TrimmedThins
  <2>4. QED
    BY <1>6, <2>3 DEF OtherSucceeds
<1>7. QED
  BY <1>2, <1>3, <1>4, <1>5, <1>6

LEMMA BeginReplacementTyped ==
  ASSUME TypeOK, BeginReplacement, HasPending => pending.call \in Calls, HasPending
  PROVE  /\ turns' \in Nat /\ active' \in Nat /\ origin' \in Origins
         /\ pending' \in Pending /\ begun' \subseteq Calls
         /\ receipts' = receipts /\ calls' = calls
<1>1. [pending EXCEPT !.phase = "start"] \in Pending
  BY TypeParts DEF Pending
<1>2. QED
  BY <1>1, TypeParts DEF BeginReplacement, Begin, Origins, callVars

LEMMA ContinueTyped ==
  ASSUME TypeOK, Continue, HasPending => pending.call \in Calls
  PROVE  TypeOK'
<1> USE TypeParts, TypePartsNext
<1> USE DEF turnVars, hostVars, callVars
<1>1. CASE AfterCancel
  <2>1. CASE Fail
    BY <1>1, <2>1, DeliverTyped DEF AfterCancel
  <2>2. CASE ~Fail
    <3> DEFINE race == IF pending.outcome # "none" THEN "event"
                       ELSE IF pending.failed THEN "failure" ELSE "none"
    <3>1. pending' = [pending EXCEPT !.phase = "terminal", !.race = race] /\ UNCHANGED callVars
      BY <1>1, <2>2 DEF AfterCancel
    <3>2. race \in {"none", "event", "failure"}
      OBVIOUS
    <3> HIDE DEF race
    <3>3. pending' \in Pending
      BY <3>1, <3>2, PendingUpdates
    <3>4. QED
      BY <1>1, <3>1, <3>3 DEF AfterCancel
  <2>3. QED
    BY <2>1, <2>2
<1>2. CASE AfterTerminal
  BY <1>2, PendingUpdates, DeliverTyped, BeginReplacementTyped DEF AfterTerminal, HasPending
<1>3. CASE Resolved
  BY <1>3, DeliverTyped, BeginReplacementTyped DEF Resolved, HasPending
<1>4. CASE StartSettles
  <2>1. turns' \in Nat /\ active' \in Nat /\ origin' \in Origins
    BY <1>4 DEF StartSettles, EndActive, Origins
  <2>2. Succeed \/ Fail
    BY <1>4 DEF StartSettles
  <2>3. QED
    BY <1>4, <2>1, <2>2, DeliverTyped DEF StartSettles
<1>5. QED
  BY <1>1, <1>2, <1>3, <1>4 DEF Continue

-----------------------------------------------------------------------------
(* Where the calls are. *)

\* The Turn that is active is the last one; calls name Turns that have begun; the
\* call under way waits for itself, and no other does.
CallsFit ==
  /\ active # 0 => active = turns
  /\ \A c \in Calls : calls[c].state # "idle" => calls[c].turn \in 1 .. turns
  /\ HasPending =>
       /\ pending.call \in Calls
       /\ calls[pending.call] = [state |-> "waiting", turn |-> pending.turn, on |-> pending.call]
  /\ \A c \in Calls : calls[c].state = "waiting" /\ calls[c].on = c
                        => HasPending /\ pending.call = c

\* A call that was answered with a replacement named a Turn that is over for good,
\* and not the one that is about to be replaced.
BegunFit ==
  /\ \A c \in begun : calls[c].state # "idle" /\ calls[c].turn # active
  /\ pending.phase \in {"cancel", "terminal", "resolve"}
       => \A c \in begun : calls[c].turn # pending.turn

\* While Desktop looks a command up nothing else happens on the Thread, unless a
\* delegation or the Harness begins a Turn.
LookupFits ==
  lookup = "listing" /\ ~crossed => active = 0 /\ ~HasPending /\ reserved

Match(r, s) == r.call # None /\ s.call # None /\ SameMessage(r.call, s.call)

\* Receipts are of messages that were delivered, one per message; the operation
\* under way has one that is not settled.
ReceiptsFit ==
  /\ \A i \in DOMAIN receipts : receipts[i].call # None =>
       MessageOf[receipts[i].call] # None /\ calls[receipts[i].call].state # "idle"
  /\ \A i, j \in DOMAIN receipts : Match(receipts[i], receipts[j]) => i = j
  /\ HasPending /\ MessageOf[pending.call] # None /\ ~closed =>
       \E i \in DOMAIN receipts :
         receipts[i] = [call |-> pending.call, turn |-> pending.turn, settled |-> FALSE]

SteerInv ==
  TypeOK /\ CallsFit /\ BegunFit /\ LookupFits /\ ReceiptsFit
    /\ NotPreempted /\ OneReplacementPerMessage

LEMMA SteerInit == Init => SteerInv
<1> SUFFICES ASSUME Init PROVE SteerInv
  OBVIOUS
<1>1. TypeOK
  <2>1. receipts \in Seq(Receipt) /\ calls \in [Calls -> Call]
    BY NotTyped DEF Init
  <2>2. QED
    BY <2>1, TypeParts, NotTyped DEF Init, Origins
<1>2. ~HasPending /\ pending.phase = "none"
  BY DEF Init, NotPending, HasPending
<1>3. CallsFit /\ ReceiptsFit /\ LookupFits
  BY <1>2 DEF Init, CallsFit, NotCalled, ReceiptsFit, LookupFits
<1>4. BegunFit /\ NotPreempted /\ OneReplacementPerMessage
  BY <1>2 DEF Init, BegunFit, NotPreempted, OneReplacementPerMessage
<1>5. QED
  BY <1>1, <1>3, <1>4 DEF SteerInv

\* A step of the Turns: the calls and receipts stay, and what is active is over or
\* new.
LEMMA TurnStepMoves ==
  ASSUME TypeOK, TurnStep
  PROVE  /\ UNCHANGED <<pending, receipts, calls, begun, closed>>
         /\ \/ UNCHANGED <<turns, active, origin>>
            \/ EndActive
            \/ /\ active = 0 /\ \E who \in Origins : Begin(who)
               /\ origin' = "autonomous" \/ ~HasPending
                  \/ (lookup = "listing" /\ crossed' = crossed)
<1> USE DEF steerVars, callVars, hostVars, turnVars
<1>1. CASE DesktopTurn \/ DelegatedTurn
  BY <1>1 DEF DesktopTurn, DelegatedTurn, Busy, Begin, Origins
<1>2. CASE AutonomousTurn
  BY <1>2 DEF AutonomousTurn, Begin, Origins
<1>3. CASE CommandFound
  BY <1>3 DEF CommandFound, Begin, Origins
<1>4. CASE LookUpCommand \/ CommandStarted \/ TurnEnds \/ TurnProjected \/ TurnLost
  BY <1>4 DEF LookUpCommand, CommandStarted, TurnEnds, TurnProjected, TurnLost
<1>5. QED
  BY <1>1, <1>2, <1>3, <1>4 DEF TurnStep

LEMMA TurnStepKeeps ==
  ASSUME SteerInv, TurnStep
  PROVE  SteerInv'
<1> USE DEF SteerInv
<1>1. TypeOK'
  BY TurnStepTyped
<1>2. UNCHANGED <<pending, receipts, calls, begun, closed>>
  BY TurnStepMoves
<1>3. turns \in Nat /\ active \in Nat /\ begun \subseteq Calls
  BY TypeParts
<1>4. \/ turns' = turns /\ (active' = active \/ active' = 0)
      \/ active = 0 /\ turns' = turns + 1 /\ active' = turns + 1
  BY TurnStepMoves DEF EndActive, Begin
<1>5. CallsFit'
  <2>1. active' # 0 => active' = turns'
    BY <1>4 DEF CallsFit
  <2>2. \A c \in Calls : calls'[c].state # "idle" => calls'[c].turn \in 1 .. turns'
    BY <1>2, <1>3, <1>4 DEF CallsFit
  <2>3. QED
    BY <1>2, <2>1, <2>2 DEF CallsFit, HasPending
<1>6. BegunFit'
  <2>1. \A c \in begun : calls[c].turn \in 1 .. turns
    BY <1>3 DEF BegunFit, CallsFit
  <2>2. \A c \in begun : calls[c].turn # active'
    BY <1>3, <1>4, <2>1 DEF BegunFit
  <2>3. QED
    BY <1>2, <2>2 DEF BegunFit
<1>7. LookupFits'
  <2> SUFFICES ASSUME lookup' = "listing", ~crossed'
               PROVE  active' = 0 /\ ~HasPending' /\ reserved'
    BY DEF LookupFits
  <2>1. CASE lookup = "listing"
    <3>0. ~crossed /\ ~DelegatedTurn /\ ~AutonomousTurn
      <4>1. crossed' = (crossed \/ lookup = "listing") \/ crossed' = crossed
        BY DEF TurnStep, DesktopTurn, DelegatedTurn, AutonomousTurn, LookUpCommand, Cross,
          CommandFound, CommandStarted, TurnEnds, TurnProjected, TurnLost, hostVars
      <4>2. ~crossed
        BY <4>1
      <4>3. ~Cross
        BY <2>1 DEF Cross
      <4>4. QED
        BY <4>2, <4>3 DEF DelegatedTurn, AutonomousTurn
    <3>1. /\ ~crossed /\ ~DesktopTurn /\ ~DelegatedTurn /\ ~AutonomousTurn
          /\ ~LookUpCommand /\ ~CommandFound /\ ~CommandStarted
      <4>1. ~DesktopTurn
        BY <3>0, <2>1 DEF LookupFits, DesktopTurn
      <4>2. ~LookUpCommand /\ ~CommandFound /\ ~CommandStarted
        BY <2>1 DEF LookUpCommand, CommandFound, CommandStarted
      <4>3. QED
        BY <3>0, <4>1, <4>2
    <3>2. UNCHANGED <<lookup, reserved, crossed>> /\ (active' = active \/ active' = 0)
      BY <3>1, <1>4 DEF TurnStep, TurnEnds, TurnProjected, TurnLost, turnVars, EndActive
    <3>3. QED
      BY <2>1, <3>1, <3>2, <1>2 DEF LookupFits, HasPending
  <2>2. CASE lookup # "listing"
    <3>1. LookUpCommand
      BY <2>2 DEF TurnStep, DesktopTurn, DelegatedTurn, AutonomousTurn, LookUpCommand,
        CommandFound, CommandStarted, TurnEnds, TurnProjected, TurnLost, hostVars
    <3>2. QED
      BY <3>1, <1>2 DEF LookUpCommand, Busy, HasPending, turnVars
  <2>3. QED
    BY <2>1, <2>2
<1>8. ReceiptsFit'
  BY <1>2 DEF ReceiptsFit, HasPending
<1>9. NotPreempted'
  <2> SUFFICES ASSUME pending.phase \in {"cancel", "terminal", "resolve"}, active' # 0, ~crossed'
               PROVE  active' = pending.turn \/ origin' = "autonomous"
    BY <1>2 DEF NotPreempted
  <2>1. HasPending
    BY DEF HasPending
  <2>2. crossed' = (crossed \/ lookup = "listing") \/ crossed' = crossed
    BY DEF TurnStep, DesktopTurn, DelegatedTurn, AutonomousTurn, LookUpCommand, Cross,
      CommandFound, CommandStarted, TurnEnds, TurnProjected, TurnLost, hostVars
  <2>3. ~crossed
    BY <2>2
  <2>4. CASE UNCHANGED <<turns, active, origin>>
    BY <2>3, <2>4 DEF NotPreempted
  <2>5. CASE ~UNCHANGED <<turns, active, origin>>
    BY <2>1, <2>3, <2>5, TurnStepMoves DEF EndActive, LookupFits
  <2>6. QED
    BY <2>4, <2>5
<1>10. OneReplacementPerMessage'
  BY <1>2 DEF OneReplacementPerMessage
<1>11. QED
  BY <1>1, <1>5, <1>6, <1>7, <1>8, <1>9, <1>10 DEF SteerInv

\* A step of the operation that moves no call: phases may advance, but the Turn and
\* the call of the operation stay.
Advances ==
  /\ UNCHANGED <<calls, begun>>
  /\ HasPending' = HasPending
  /\ pending'.call = pending.call /\ pending'.turn = pending.turn
  /\ (pending.phase # "start" /\ pending'.phase # "start") \/ pending'.phase = pending.phase

LEMMA AdvancesKeeps ==
  ASSUME SteerInv, Advances, UNCHANGED turnVars, UNCHANGED <<lookup, crossed>>,
         reserved' = reserved \/ HasPending
  PROVE  CallsFit' /\ BegunFit' /\ LookupFits' /\ NotPreempted' /\ OneReplacementPerMessage'
<1> USE DEF SteerInv, turnVars
<1>1. CallsFit'
  BY DEF CallsFit, Advances
<1>2. pending'.phase \in {"cancel", "terminal", "resolve"}
        => pending.phase \in {"cancel", "terminal", "resolve"}
  BY TypeParts DEF Advances, HasPending, Pending
<1>3. BegunFit' /\ NotPreempted'
  BY <1>2 DEF BegunFit, NotPreempted, Advances
<1>4. LookupFits'
  BY DEF LookupFits, Advances
<1>5. OneReplacementPerMessage'
  BY DEF OneReplacementPerMessage, Advances
<1>6. QED
  BY <1>1, <1>3, <1>4, <1>5

\* The receipts, while calls that were made stay made.
LEMMA ReceiptsKept ==
  ASSUME SteerInv, UNCHANGED <<receipts, calls>>,
         HasPending' => HasPending, pending'.call = pending.call, pending'.turn = pending.turn,
         closed => closed'
  PROVE  ReceiptsFit'
BY DEF SteerInv, ReceiptsFit

\* Receipts that are thinned out, with no operation under way or its receipt kept.
LEMMA ThinnedFit ==
  ASSUME NEW rs \in Seq(Receipt), Thins(rs, receipts'),
         \A i \in DOMAIN rs : rs[i].call # None =>
           MessageOf[rs[i].call] # None /\ calls'[rs[i].call].state # "idle",
         \A i, j \in DOMAIN rs : Match(rs[i], rs[j]) => i = j,
         HasPending' /\ MessageOf[pending'.call] # None /\ ~closed' =>
           \E i \in DOMAIN receipts' :
             receipts'[i] = [call |-> pending'.call, turn |-> pending'.turn, settled |-> FALSE]
  PROVE  ReceiptsFit'
<1>1. PICK f \in [DOMAIN receipts' -> DOMAIN rs] :
        \A i \in DOMAIN receipts' : /\ receipts'[i] = rs[f[i]]
                                    /\ \A j \in DOMAIN receipts' : f[i] = f[j] => i = j
  BY DEF Thins
<1>2. \A i \in DOMAIN receipts' : receipts'[i].call # None =>
        MessageOf[receipts'[i].call] # None /\ calls'[receipts'[i].call].state # "idle"
  BY <1>1
<1>3. \A i, j \in DOMAIN receipts' : Match(receipts'[i], receipts'[j]) => i = j
  BY <1>1
<1>4. QED
  BY <1>2, <1>3 DEF ReceiptsFit

LEMMA OperationKeeps ==
  ASSUME SteerInv, CancelSettles \/ Terminal \/ Stopped \/ TimesOut \/ Close
  PROVE  SteerInv'
<1> USE DEF SteerInv, turnVars, hostVars, callVars
<1>1. TypeOK'
  BY OperationTyped
<1>2. pending \in Pending
  BY TypeParts
<1>3. /\ pending'.call = pending.call /\ pending'.turn = pending.turn
      /\ pending'.phase = pending.phase
  <2>1. CASE CancelSettles
    BY <1>2, <2>1 DEF CancelSettles, Pending
  <2>2. CASE Terminal
    BY <1>2, <2>2 DEF Terminal, Pending
  <2>3. CASE Stopped \/ TimesOut \/ Close
    BY <1>2, <2>3 DEF Stopped, TimesOut, Close, Rejected, Pending
  <2>4. QED
    BY <2>1, <2>2, <2>3
<1>4. UNCHANGED <<calls, begun, lookup, reserved, crossed>> /\ UNCHANGED turnVars
  BY DEF CancelSettles, Terminal, Stopped, TimesOut, Close
<1>5. Advances
  BY <1>3, <1>4 DEF Advances, HasPending
<1>6. CASE Close
  BY <1>6, <1>1, <1>4, <1>5, AdvancesKeeps DEF Close, ReceiptsFit
<1>7. CASE CancelSettles \/ Terminal \/ Stopped \/ TimesOut
  <2>1. UNCHANGED <<receipts, closed>>
    BY <1>7 DEF CancelSettles, Terminal, Stopped, TimesOut
  <2>2. ReceiptsFit'
    BY <2>1, <1>3, <1>4, ReceiptsKept DEF HasPending
  <2>3. QED
    BY <2>2, <1>1, <1>4, <1>5, AdvancesKeeps
<1>8. QED
  BY <1>6, <1>7

LEMMA OtherSucceedsKeeps ==
  ASSUME SteerInv, OtherSucceeds
  PROVE  SteerInv'
<1> USE DEF SteerInv, turnVars, hostVars
<1> DEFINE r == [call |-> None, turn |-> 0, settled |-> TRUE]
           rs == Append(receipts, r)
<1>1. TypeOK'
  BY OperationTyped
<1>2. Advances /\ UNCHANGED turnVars /\ UNCHANGED <<lookup, crossed, reserved, pending, closed>>
  BY DEF OtherSucceeds, Advances, HasPending
<1>3. receipts \in Seq(Receipt) /\ r \in Receipt
  BY TypeParts DEF Receipt
<1>4. /\ rs \in Seq(Receipt) /\ DOMAIN rs = 1 .. Len(receipts) + 1
      /\ Len(receipts) \in Nat /\ DOMAIN receipts = 1 .. Len(receipts)
      /\ \A i \in DOMAIN receipts : rs[i] = receipts[i]
      /\ rs[Len(receipts) + 1] = r
  <2> HIDE DEF r
  <2>1. QED
    BY <1>3, AppendProperties
<1>5. receipts' = Trimmed(rs)
  BY DEF OtherSucceeds
<1> HIDE DEF rs
<1>6. \A i \in DOMAIN rs : rs[i].call # None => i \in DOMAIN receipts /\ rs[i] = receipts[i]
  BY <1>4
<1>7. \A i \in DOMAIN rs : rs[i].call # None =>
        MessageOf[rs[i].call] # None /\ calls'[rs[i].call].state # "idle"
  BY <1>6, <1>2 DEF ReceiptsFit, Advances
<1>8. \A i, j \in DOMAIN rs : Match(rs[i], rs[j]) => i = j
  BY <1>6 DEF ReceiptsFit, Match
<1>9. HasPending' /\ MessageOf[pending'.call] # None /\ ~closed' =>
        \E i \in DOMAIN receipts' :
          receipts'[i] = [call |-> pending'.call, turn |-> pending'.turn, settled |-> FALSE]
  <2> SUFFICES ASSUME HasPending', MessageOf[pending'.call] # None, ~closed'
               PROVE  \E i \in DOMAIN receipts' :
          receipts'[i] = [call |-> pending'.call, turn |-> pending'.turn, settled |-> FALSE]
    OBVIOUS
  <2>1. PICK i \in DOMAIN receipts :
          receipts[i] = [call |-> pending.call, turn |-> pending.turn, settled |-> FALSE]
    BY <1>2 DEF ReceiptsFit, Advances
  <2>2. i \in DOMAIN rs /\ rs[i] = receipts[i] /\ ~rs[i].settled
    <3>1. i \in 1 .. Len(receipts) /\ i \in DOMAIN rs
      BY <1>4
    <3>2. rs[i] = receipts[i]
      BY <1>4
    <3>3. QED
      BY <2>1, <3>1, <3>2
  <2>3. \E j \in DOMAIN receipts' : receipts'[j] = rs[i]
    BY <1>4, <1>5, <2>2, TrimmedThins
  <2>4. QED
    BY <2>1, <2>2, <2>3, <1>2
<1>10. Thins(rs, receipts')
  BY <1>4, <1>5, TrimmedThins
<1>11. ReceiptsFit'
  BY <1>4, <1>7, <1>8, <1>9, <1>10, ThinnedFit
<1>12. QED
  BY <1>1, <1>2, <1>11, AdvancesKeeps

\* The call under way is not among those whose replacement began, until its own does.
LEMMA OthersBegun ==
  ASSUME SteerInv
  PROVE  /\ turns \in Nat /\ active \in Nat /\ begun \subseteq Calls
         /\ HasPending => pending.call \in Calls /\ pending.turn \in 1 .. turns
                          /\ calls[pending.call].turn = pending.turn
         /\ \A c \in begun : calls[c].turn \in 1 .. turns
BY TypeParts DEF SteerInv, CallsFit, BegunFit

LEMMA ReceiptCalls ==
  ASSUME receipts \in Seq(Receipt)
  PROVE  \A i \in DOMAIN receipts : receipts[i].call \in Calls \cup {None}
<1>1. \A i \in DOMAIN receipts : receipts[i] \in Receipt
  OBVIOUS
<1>2. QED
  BY <1>1 DEF Receipt

LEMMA SteerKeeps ==
  ASSUME SteerInv, NEW c \in Calls, NEW n \in 1 .. turns, Steer(c, n)
  PROVE  SteerInv'
<1> USE DEF SteerInv, turnVars, hostVars
<1>1. TypeOK'
  BY SteerTyped
<1>2. /\ UNCHANGED <<turnVars, lookup, crossed, reserved, begun, closed>>
      /\ calls[c].state = "idle"
      /\ calls \in [Calls -> Call] /\ pending \in Pending /\ receipts \in Seq(Receipt)
  BY TypeParts DEF Steer
<1>3. turns \in Nat /\ n \in 1 .. turns /\ c \notin begun
  BY <1>2, TypeParts DEF BegunFit
<1>4. ASSUME NEW k, calls' = [calls EXCEPT ![c] = k], k.turn = n, k.state # "idle",
             k.state = "waiting" => k.on # c,
             UNCHANGED <<pending, receipts>>
      PROVE  SteerInv'
  <2>1. HasPending => pending.call # c
    BY <1>2 DEF CallsFit
  <2>2. \A d \in Calls : d # c => calls'[d] = calls[d]
    BY <1>2, <1>4
  <2>3. calls'[c] = k
    BY <1>2, <1>4
  <2>4. CallsFit'
    BY <1>2, <1>3, <1>4, <2>1, <2>2, <2>3 DEF CallsFit, HasPending
  <2>5. BegunFit'
    BY <1>2, <1>3, <1>4, <2>2, OthersBegun DEF BegunFit
  <2>6. LookupFits' /\ NotPreempted'
    BY <1>2, <1>4 DEF LookupFits, NotPreempted, HasPending
  <2>7. OneReplacementPerMessage'
    BY <1>2, <1>3, <2>2, OthersBegun DEF OneReplacementPerMessage
  <2>8. ReceiptsFit'
    <3>1. \A d \in Calls : calls[d].state # "idle" => calls'[d].state # "idle"
      BY <1>4, <2>2, <2>3
    <3>2. \A i \in DOMAIN receipts : receipts[i].call \in Calls \cup {None}
      BY <1>2, ReceiptCalls
    <3>3. QED
      BY <1>2, <1>4, <3>1, <3>2 DEF ReceiptsFit, HasPending
  <2>9. QED
    BY <1>1, <2>4, <2>5, <2>6, <2>7, <2>8
<1>5. CASE \E s \in {"ok", "error"} : Answered(c, n, s) /\ UNCHANGED <<pending, receipts>>
  <2>1. PICK s \in {"ok", "error"} : Answered(c, n, s) /\ UNCHANGED <<pending, receipts>>
    BY <1>5
  <2> DEFINE k == [state |-> s, turn |-> n, on |-> None]
  <2>2. calls' = [calls EXCEPT ![c] = k] /\ k.turn = n /\ k.state # "idle" /\ k.state # "waiting"
    BY <2>1 DEF Answered
  <2> HIDE DEF k
  <2>3. QED
    BY <1>4, <2>1, <2>2
<1>6. CASE \E r \in ReceiptsOf(c) :
             /\ calls' = [calls EXCEPT ![c] = [state |-> "waiting", turn |-> n, on |-> r.call]]
             /\ UNCHANGED <<pending, receipts>>
  <2>1. PICK r \in ReceiptsOf(c) :
               calls' = [calls EXCEPT ![c] = [state |-> "waiting", turn |-> n, on |-> r.call]]
    BY <1>6
  <2> DEFINE k == [state |-> "waiting", turn |-> n, on |-> r.call]
  <2>2. r.call # c
    BY <1>2 DEF ReceiptsOf, ToSet, ReceiptsFit
  <2>3. calls' = [calls EXCEPT ![c] = k] /\ k.turn = n /\ k.state # "idle" /\ k.on # c
    BY <2>1, <2>2
  <2> HIDE DEF k
  <2>4. QED
    BY <1>4, <1>6, <2>3
<1>7. CASE Register(c, n) /\ ~closed /\ ~HasPending /\ active = n /\ ReceiptsOf(c) = {}
  <2> DEFINE p == [NotPending EXCEPT !.call = c, !.turn = active, !.phase = "cancel"]
             k == [state |-> "waiting", turn |-> n, on |-> c]
             r == [call |-> c, turn |-> n, settled |-> FALSE]
  <2>1. pending' = p /\ p.call = c /\ p.turn = n /\ p.phase = "cancel"
    BY <1>7 DEF Register, NotPending
  <2>2. calls' = [calls EXCEPT ![c] = k] /\ k.state = "waiting" /\ k.turn = n /\ k.on = c
    BY <1>7 DEF Register
  <2>3. receipts' = IF MessageOf[c] = None THEN receipts ELSE Append(receipts, r)
    BY <1>7 DEF Register
  <2> HIDE DEF p
  <2>4. \A d \in Calls : d # c => calls'[d] = calls[d]
    BY <1>2, <2>2
  <2>5. calls'[c] = k /\ HasPending'
    BY <1>2, <2>1, <2>2 DEF HasPending
  <2>6. CallsFit'
    <3>1. active' # 0 => active' = turns'
      BY <1>2 DEF CallsFit
    <3>2. \A d \in Calls : calls'[d].state # "idle" => calls'[d].turn \in 1 .. turns'
      BY <1>2, <1>3, <2>4, <2>5 DEF CallsFit
    <3>3. \A d \in Calls : calls'[d].state = "waiting" /\ calls'[d].on = d => d = c
      BY <1>7, <2>4 DEF CallsFit
    <3>4. QED
      BY <2>1, <2>5, <3>1, <3>2, <3>3 DEF CallsFit
  <2>7. BegunFit'
    BY <1>2, <1>3, <1>7, <2>1, <2>4, OthersBegun DEF BegunFit
  <2>8. LookupFits'
    BY <1>2, <1>3, <1>7 DEF LookupFits
  <2>9. NotPreempted'
    BY <1>2, <1>7, <2>1 DEF NotPreempted
  <2>10. OneReplacementPerMessage'
    BY <1>2, <1>3, <2>4, OthersBegun DEF OneReplacementPerMessage
  <2>11. ReceiptsFit'
    <3>1. \A i \in DOMAIN receipts : /\ receipts[i].call \in Calls \cup {None}
                                     /\ receipts[i].call # c
                                     /\ receipts[i].call # None => ~SameMessage(receipts[i].call, c)
      <4>1. \A i \in DOMAIN receipts : receipts[i].call \in Calls \cup {None}
        BY <1>2, ReceiptCalls
      <4>2. \A i \in DOMAIN receipts : receipts[i].call # c
        BY <1>2, TurnSteeringAssumption DEF ReceiptsFit
      <4>3. \A i \in DOMAIN receipts : receipts[i].call # None => ~SameMessage(receipts[i].call, c)
        BY <1>7 DEF ReceiptsOf, ToSet
      <4>4. QED
        BY <4>1, <4>2, <4>3
    <3>2. \A i \in DOMAIN receipts : receipts[i].call # None =>
            MessageOf[receipts[i].call] # None /\ calls'[receipts[i].call].state # "idle"
      BY <2>4, <3>1 DEF ReceiptsFit
    <3>3. CASE MessageOf[c] = None
      <4>1. receipts' = receipts
        BY <2>3, <3>3
      <4>2. QED
        BY <2>1, <3>2, <3>3, <4>1 DEF ReceiptsFit
    <3>4. CASE MessageOf[c] # None
      <4> DEFINE m == Len(receipts)
      <4> HIDE DEF r, k
      <4>1. r \in Receipt /\ r.call = c /\ r = [call |-> c, turn |-> n, settled |-> FALSE]
        BY <1>3 DEF r, Receipt
      <4>2. /\ receipts' = Append(receipts, r) /\ DOMAIN receipts' = 1 .. m + 1
            /\ m \in Nat /\ DOMAIN receipts = 1 .. m
            /\ \A i \in DOMAIN receipts : receipts'[i] = receipts[i]
            /\ receipts'[m + 1] = r
        BY <1>2, <2>3, <3>4, <4>1, AppendProperties
      <4>3. \A i \in DOMAIN receipts' : i = m + 1 \/ (i \in DOMAIN receipts /\ i # m + 1)
        BY <4>2
      <4>4. m + 1 \in DOMAIN receipts'
        BY <4>2
      <4>5. \A i \in DOMAIN receipts' : receipts'[i].call # None =>
              MessageOf[receipts'[i].call] # None /\ calls'[receipts'[i].call].state # "idle"
        <5>1. calls'[c].state # "idle"
          BY <2>5 DEF k
        <5>2. QED
          BY <3>2, <3>4, <4>1, <4>2, <4>3, <5>1
      <4>6. \A i, j \in DOMAIN receipts' : Match(receipts'[i], receipts'[j]) => i = j
        <5>1. \A i, j \in DOMAIN receipts : Match(receipts'[i], receipts'[j]) => i = j
          BY <4>2 DEF ReceiptsFit
        <5>2. \A i \in DOMAIN receipts :
                ~Match(receipts'[i], r) /\ ~Match(r, receipts'[i])
          BY <3>1, <4>1, <4>2 DEF Match, SameMessage
        <5>3. QED
          BY <4>2, <4>3, <5>1, <5>2
      <4>7. \E i \in DOMAIN receipts' :
              receipts'[i] = [call |-> pending'.call, turn |-> pending'.turn, settled |-> FALSE]
        BY <2>1, <4>1, <4>2, <4>4
      <4>8. QED
        BY <4>5, <4>6, <4>7 DEF ReceiptsFit
    <3>5. QED
      BY <3>3, <3>4
  <2>12. QED
    BY <1>1, <2>6, <2>7, <2>8, <2>9, <2>10, <2>11
<1>8. QED
  BY <1>5, <1>6, <1>7 DEF Steer, Repeat, Replace

\* The operation is over: its call and those that joined it are answered.
LEMMA OperationEnds ==
  ASSUME SteerInv, HasPending, Succeed \/ Fail,
         UNCHANGED turnVars \/ EndActive, UNCHANGED <<lookup, crossed, begun, closed>>
  PROVE  CallsFit' /\ BegunFit' /\ LookupFits' /\ ReceiptsFit'
           /\ NotPreempted' /\ OneReplacementPerMessage'
<1> USE DEF SteerInv
<1>1. PICK s \in {"ok", "error"} : Deliver(s)
  BY DEF Succeed, Fail
<1>2. /\ turns \in Nat /\ calls \in [Calls -> Call] /\ receipts \in Seq(Receipt)
      /\ begun \subseteq Calls
  BY TypeParts
<1>3. turns' = turns /\ (active' = active \/ active' = 0)
  BY DEF EndActive, turnVars
<1>4. ~HasPending' /\ pending'.phase = "none"
  BY <1>1 DEF Deliver, NotPending, HasPending
<1>5. \A c \in Calls : \/ calls'[c] = calls[c]
                          /\ ~(calls[c].state = "waiting" /\ calls[c].on = pending.call)
                       \/ calls[c].state = "waiting" /\ calls'[c].state = s
                          /\ calls'[c].turn = calls[c].turn
  <2>1. \A c \in Calls : calls'[c] =
          IF calls[c].state = "waiting" /\ calls[c].on = pending.call
          THEN [calls[c] EXCEPT !.state = s] ELSE calls[c]
    BY <1>1 DEF Deliver
  <2>2. \A k \in Call : /\ [k EXCEPT !.state = s].state = s
                        /\ [k EXCEPT !.state = s].turn = k.turn
    BY DEF Call
  <2>3. \A c \in Calls : calls[c] \in Call
    BY <1>2
  <2>4. QED
    BY <2>1, <2>2, <2>3
<1>6. \A c \in Calls : calls'[c].turn = calls[c].turn
                       /\ (calls'[c].state = "idle" <=> calls[c].state = "idle")
  BY <1>5
<1>7. CallsFit'
  <2>1. \A c \in Calls : ~(calls'[c].state = "waiting" /\ calls'[c].on = c)
    BY <1>5 DEF CallsFit
  <2>2. QED
    BY <1>3, <1>4, <1>6, <2>1 DEF CallsFit
<1>8. BegunFit'
  BY <1>2, <1>3, <1>4, <1>6, OthersBegun DEF BegunFit
<1>9. LookupFits' /\ NotPreempted'
  BY <1>4 DEF LookupFits, NotPreempted
<1>10. OneReplacementPerMessage'
  BY <1>2, <1>6 DEF OneReplacementPerMessage
<1>11. \A i \in DOMAIN receipts : receipts[i].call \in Calls \cup {None}
  BY <1>2, ReceiptCalls
<1>12. \A i \in DOMAIN receipts : receipts[i].call # None =>
         MessageOf[receipts[i].call] # None /\ calls'[receipts[i].call].state # "idle"
  BY <1>6, <1>11 DEF ReceiptsFit
<1>13. ReceiptsFit'
  <2>1. CASE Fail
    BY <2>1, <1>2, <1>4, <1>12, WithdrawnThins, ThinnedFit DEF Fail, ReceiptsFit
  <2>2. CASE Succeed
    <3> DEFINE new == [i \in DOMAIN receipts |->
                         IF receipts[i].call = pending.call
                         THEN [receipts[i] EXCEPT !.settled = TRUE] ELSE receipts[i]]
    <3>1. \A i \in DOMAIN receipts : receipts[i] \in Receipt
      BY <1>2
    <3>2. \A k \in Receipt : /\ [k EXCEPT !.settled = TRUE] \in Receipt
                             /\ [k EXCEPT !.settled = TRUE].call = k.call
      BY DEF Receipt
    <3>3. \A i \in DOMAIN receipts : new[i] \in Receipt /\ new[i].call = receipts[i].call
      BY <3>1, <3>2
    <3>4. DOMAIN new = DOMAIN receipts /\ new \in [1 .. Len(receipts) -> Receipt]
          /\ Len(receipts) \in Nat
      BY <1>2, <3>3
    <3>5. receipts' = Trimmed(new)
      BY <2>2 DEF Succeed
    <3> HIDE DEF new
    <3>6. new \in Seq(Receipt)
      BY <3>4, SeqDef
    <3>7. Thins(new, receipts')
      BY <3>5, <3>6, TrimmedThins
    <3>8. \A i \in DOMAIN new : new[i].call # None =>
             MessageOf[new[i].call] # None /\ calls'[new[i].call].state # "idle"
      BY <1>12, <3>3, <3>4
    <3>9. \A i, j \in DOMAIN new : Match(new[i], new[j]) => i = j
      BY <3>3, <3>4 DEF ReceiptsFit, Match
    <3>10. QED
      BY <1>4, <3>6, <3>7, <3>8, <3>9, ThinnedFit
  <2>3. QED
    BY <2>1, <2>2
<1>14. QED
  BY <1>7, <1>8, <1>9, <1>10, <1>13

\* A replacement begins: no Turn is active, and the Turn it replaces was named by no
\* call whose replacement began before.
LEMMA ReplacementBegins ==
  ASSUME SteerInv, pending.phase \in {"terminal", "resolve"}, active = 0, BeginReplacement,
         UNCHANGED <<lookup, crossed, closed>>
  PROVE  CallsFit' /\ BegunFit' /\ LookupFits' /\ ReceiptsFit'
           /\ NotPreempted' /\ OneReplacementPerMessage'
<1> USE DEF SteerInv
<1>1. pending \in Pending /\ HasPending
  BY TypeParts DEF HasPending
<1>2. /\ turns' = turns + 1 /\ active' = turns + 1
      /\ begun' = begun \cup {pending.call}
      /\ UNCHANGED <<receipts, calls>>
      /\ pending'.call = pending.call /\ pending'.turn = pending.turn
      /\ pending'.phase = "start"
  BY <1>1 DEF BeginReplacement, Begin, callVars, Pending
<1>3. HasPending'
  BY <1>2 DEF HasPending
<1>4. CallsFit'
  BY <1>1, <1>2, <1>3, OthersBegun DEF CallsFit
<1>5. BegunFit'
  BY <1>1, <1>2, OthersBegun DEF BegunFit, CallsFit
<1>6. LookupFits' /\ NotPreempted'
  BY <1>1, <1>2 DEF LookupFits, NotPreempted
<1>7. OneReplacementPerMessage'
  BY <1>1, <1>2, OthersBegun DEF OneReplacementPerMessage, BegunFit, CallsFit
<1>8. ReceiptsFit'
  BY <1>1, <1>2, ReceiptsKept
<1>9. QED
  BY <1>4, <1>5, <1>6, <1>7, <1>8

LEMMA ContinueKeeps ==
  ASSUME SteerInv, Continue
  PROVE  SteerInv'
<1> USE DEF SteerInv
<1>1. HasPending /\ pending \in Pending /\ pending.call \in Calls
  BY TypeParts DEF Continue, AfterCancel, AfterTerminal, Resolved, StartSettles, HasPending, CallsFit
<1>2. TypeOK'
  BY <1>1, ContinueTyped
<1>3. CASE Succeed \/ Fail
  <2>1. UNCHANGED <<lookup, crossed, closed>>
    BY DEF Continue, AfterCancel, AfterTerminal, Resolved, StartSettles, hostVars
  <2>2. pending'.phase = "none"
    BY <1>3 DEF Succeed, Fail, Deliver, NotPending
  <2>3. (UNCHANGED turnVars \/ EndActive) /\ UNCHANGED begun
    BY <1>1, <2>2 DEF Continue, AfterCancel, AfterTerminal, Resolved, StartSettles, BeginReplacement,
      Pending
  <2>4. QED
    BY <1>1, <1>2, <1>3, <2>1, <2>3, OperationEnds
<1>4. CASE ~Succeed /\ ~Fail /\ BeginReplacement
  <2>1. pending'.phase = "start"
    BY <1>1, <1>4 DEF BeginReplacement, Pending
  <2>2. pending.phase \in {"terminal", "resolve"} /\ active = 0 /\ UNCHANGED <<lookup, crossed, closed>>
    BY <1>1, <1>4, <2>1 DEF Continue, AfterCancel, AfterTerminal, Resolved, StartSettles, Pending
  <2>3. QED
    BY <1>2, <1>4, <2>2, ReplacementBegins
<1>5. CASE ~Succeed /\ ~Fail /\ ~BeginReplacement
  <2>1. /\ UNCHANGED <<turnVars, lookup, crossed, begun, closed, callVars>>
        /\ pending.phase \in {"cancel", "terminal"} /\ pending'.phase \in {"terminal", "resolve"}
        /\ pending'.call = pending.call /\ pending'.turn = pending.turn
    BY <1>1, <1>5 DEF Continue, AfterCancel, AfterTerminal, Resolved, StartSettles, Pending, hostVars
  <2>2. Advances
    BY <2>1 DEF Advances, HasPending, callVars
  <2>3. ReceiptsFit'
    BY <1>1, <2>1, ReceiptsKept DEF callVars
  <2>4. QED
    BY <1>1, <1>2, <2>1, <2>2, <2>3, AdvancesKeeps DEF turnVars
<1>6. QED
  BY <1>3, <1>4, <1>5

-----------------------------------------------------------------------------
(* The theorems. *)

LEMMA SteerStep == SteerInv /\ [Next]_vars => SteerInv'
<1> SUFFICES ASSUME SteerInv, [Next]_vars PROVE SteerInv'
  OBVIOUS
<1>1. CASE TurnStep
  BY <1>1, TurnStepKeeps
<1>2. CASE \E c \in Calls, n \in 1 .. turns : Steer(c, n)
  BY <1>2, SteerKeeps
<1>3. CASE CancelSettles \/ Terminal \/ Stopped \/ TimesOut \/ Close
  BY <1>3, OperationKeeps
<1>4. CASE Continue
  BY <1>4, ContinueKeeps
<1>5. CASE OtherSucceeds
  BY <1>5, OtherSucceedsKeeps
<1>6. CASE UNCHANGED vars
  <2>1. SteerInv' <=> SteerInv
    BY <1>6 DEF vars, turnVars, hostVars, callVars, steerVars, SteerInv, TypeOK, CallsFit,
      BegunFit, LookupFits, ReceiptsFit, HasPending, NotPreempted, OneReplacementPerMessage
  <2>2. QED
    BY <2>1
<1>7. QED
  BY <1>1, <1>2, <1>3, <1>4, <1>5, <1>6 DEF Next, TurnStep

\* SteerInv is inductive: what is active, what calls wait for and what receipts say
\* agree in every reachable state.
THEOREM SteeringAgrees == Spec => []SteerInv
<1>1. QED
  BY SteerInit, SteerStep, PTL DEF Spec

\* The variables have their types in every reachable state.
THEOREM TypeCorrect == Spec => []TypeOK
<1>1. SteerInv => TypeOK
  BY DEF SteerInv
<1>2. QED
  BY <1>1, SteeringAgrees, PTL

\* A message replaces a Turn at most once, however often and whenever it is delivered.
THEOREM MessagesReplaceOnce == Spec => []OneReplacementPerMessage
<1>1. SteerInv => OneReplacementPerMessage
  BY DEF SteerInv
<1>2. QED
  BY <1>1, SteeringAgrees, PTL

\* No start of Desktop or of a delegation gets between a Turn and its replacement.
THEOREM ReplacementIsNext == Spec => []NotPreempted
<1>1. SteerInv => NotPreempted
  BY DEF SteerInv
<1>2. QED
  BY <1>1, SteeringAgrees, PTL

\* An operation that was interrupted, timed out, failed or closed begins nothing.
THEOREM StoppedBeginsNothing == Spec => StoppedStaysStopped
<1> DEFINE Step == pending.phase # "start" /\ pending'.phase = "start" => ~pending.failed /\ ~closed
<1>1. SteerInv /\ [Next]_vars => [Step]_vars
  <2> SUFFICES ASSUME SteerInv, Next, pending.phase # "start", pending'.phase = "start"
               PROVE  ~pending.failed /\ ~closed
    BY DEF vars
  <2>1. pending \in Pending
    BY TypeParts DEF SteerInv
  <2>2. pending'.phase # pending.phase
    OBVIOUS
  <2>3. ~TurnStep
    <3>1. TurnStep => pending' = pending
      BY TurnStepMoves DEF SteerInv
    <3>2. QED
      BY <2>2, <3>1
  <2>4. ~(CancelSettles \/ Terminal \/ Stopped \/ TimesOut \/ Close \/ OtherSucceeds)
    BY <2>1, <2>2 DEF CancelSettles, Terminal, Stopped, TimesOut, Close, OtherSucceeds, Rejected,
      Pending
  <2>5. \A c \in Calls, n \in 1 .. turns : ~Steer(c, n)
    BY <2>2 DEF Steer, Repeat, Replace, Register, NotPending
  <2>6. ~Succeed /\ ~Fail
    BY DEF Succeed, Fail, Deliver, NotPending
  <2>7. Continue
    BY <2>3, <2>4, <2>5 DEF Next, TurnStep
  <2>8. QED
    BY <2>1, <2>2, <2>6, <2>7 DEF Continue, AfterCancel, AfterTerminal, Resolved, StartSettles,
      StillWanted, Pending
<1>2. QED
  BY <1>1, SteeringAgrees, PTL DEF Spec, StoppedStaysStopped

\* While a message is being delivered, its repetition joins the delivery: the receipt
\* is there, and no other has the message.
THEOREM RepetitionsJoin == Spec => RepetitionJoins
<1> DEFINE Step == \A c, d \in Calls :
       calls[c].state = "waiting" /\ calls[c].on = c /\ ~closed
         /\ calls[d].state = "idle" /\ calls'[d].state # "idle"
         /\ SameMessage(c, d) /\ calls'[d].turn = calls[c].turn
         => calls'[d].state = "waiting" /\ calls'[d].on = c
<1>1. SteerInv /\ [Next]_vars => [Step]_vars
  <2> SUFFICES ASSUME SteerInv, Next, NEW c \in Calls, NEW d \in Calls,
                      calls[c].state = "waiting", calls[c].on = c, ~closed,
                      calls[d].state = "idle", calls'[d].state # "idle",
                      SameMessage(c, d), calls'[d].turn = calls[c].turn
               PROVE  calls'[d].state = "waiting" /\ calls'[d].on = c
    BY DEF vars
  <2> USE DEF SteerInv
  <2>1. calls \in [Calls -> Call] /\ receipts \in Seq(Receipt) /\ pending \in Pending
    BY TypeParts
  <2>2. HasPending /\ pending.call = c /\ calls[c].turn = pending.turn
    BY <2>1 DEF CallsFit
  <2>3. PICK i \in DOMAIN receipts :
          receipts[i] = [call |-> c, turn |-> calls[c].turn, settled |-> FALSE]
    BY <2>2 DEF ReceiptsFit, SameMessage
  <2>4. ~(Succeed \/ Fail)
    <3>1. ASSUME NEW s, Deliver(s)
          PROVE  FALSE
      <4>1. calls'[d] = calls[d]
        BY <3>1 DEF Deliver
      <4>2. QED
        BY <4>1
    <3>2. QED
      BY <3>1 DEF Succeed, Fail
  <2>5. calls' # calls
    OBVIOUS
  <2>6. ~TurnStep
    BY <2>5, TurnStepMoves
  <2>7. ~(CancelSettles \/ Terminal \/ Stopped \/ TimesOut \/ Close \/ OtherSucceeds)
    BY <2>5 DEF CancelSettles, Terminal, Stopped, TimesOut, Close, OtherSucceeds, callVars
  <2>8. ~Continue
    BY <2>4, <2>5 DEF Continue, AfterCancel, AfterTerminal, Resolved, StartSettles, BeginReplacement,
      callVars
  <2>9. PICK e \in Calls, n \in 1 .. turns : Steer(e, n)
    BY <2>6, <2>7, <2>8 DEF Next, TurnStep
  <2>10. e = d
    BY <2>1, <2>5, <2>9 DEF Steer, Repeat, Replace, Register, Answered
  <2>11. receipts[i] \in ReceiptsOf(d)
    BY <2>3, TurnSteeringAssumption DEF ReceiptsOf, ToSet, SameMessage
  <2>12. PICK r \in ReceiptsOf(d) :
           IF r.turn # n THEN Answered(d, n, "error")
           ELSE IF r.settled THEN Answered(d, n, "ok")
           ELSE calls' = [calls EXCEPT ![d] = [state |-> "waiting", turn |-> n, on |-> r.call]]
    BY <2>9, <2>10, <2>11 DEF Steer, Repeat
  <2>13. PICK j \in DOMAIN receipts : r = receipts[j]
    BY DEF ReceiptsOf, ToSet
  <2>14. Match(receipts[i], receipts[j])
    BY <2>3, <2>13, TurnSteeringAssumption DEF Match, ReceiptsOf, SameMessage
  <2>15. r = receipts[i]
    BY <2>13, <2>14 DEF ReceiptsFit
  <2>16. calls'[d].turn = n
    BY <2>1, <2>12 DEF Answered
  <2>17. QED
    BY <2>1, <2>3, <2>12, <2>15, <2>16
<1>2. QED
  BY <1>1, SteeringAgrees, PTL DEF Spec, RepetitionJoins
=============================================================================
