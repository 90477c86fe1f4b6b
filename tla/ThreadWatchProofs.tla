------------------------- MODULE ThreadWatchProofs --------------------------
(***************************************************************************)
(* Proofs about ThreadWatch, for any Threads and calls: the type           *)
(* invariant, that calls for the same Threads share a watch, that the      *)
(* polling goes on while it is needed, that the service keeps the promise  *)
(* of OneShot, and that it keeps the newest of what it could not deliver.  *)
(***************************************************************************)
EXTENDS ThreadWatch, FiniteSetTheorems, TLAPS

LEMMA NoWatchTyped ==
  /\ NoWatch \in Watch /\ NoTick \in Tick
  /\ \A s \in {"pendingDelivery", "undeliverable", "told", "trimmed", "closed"},
        b \in BOOLEAN :
       [NoWatch EXCEPT !.state = s, !.doubt = b] \in Watch
BY DEF NoWatch, Watch, NoTick, Tick

LEMMA InitTyped == Init => TypeOK
<1> SUFFICES ASSUME Init PROVE TypeOK
  OBVIOUS
<1>1. status \in [Threads -> {"running", "stopped", "gone"}]
  BY DEF Init
<1>2. order \in Seq(Calls) /\ turns \in [Calls -> Nat] /\ late \subseteq SUBSET Calls
  BY DEF Init
<1>3. watch \in [Calls -> Watch] /\ tick \in Tick
  BY NoWatchTyped DEF Init
<1>4. QED
  BY <1>1, <1>2, <1>3 DEF Init, TypeOK

(* What the steps of the environment and of the calls leave typed.         *)
LEMMA EnvironmentTyped ==
  ASSUME TypeOK,
         \/ \E t \in Threads : ThreadChanges(t)
         \/ LateTurn
         \/ \E c \in Calls : Deadline(c) \/ GraceOver(c) \/ DeliveryWindowOver(c)
  PROVE  TypeOK'
<1>1. ASSUME NEW t \in Threads, ThreadChanges(t)  PROVE TypeOK'
  BY <1>1 DEF TypeOK, ThreadChanges
<1>2. CASE LateTurn
  <2>1. PICK cs \in late : (\E c \in cs : Tells(Notify[c], cs)) /\ late' = late \ {cs}
    BY <1>2 DEF LateTurn
  <2>2. PICK c \in cs : Tells(Notify[c], cs)
    BY <2>1
  <2>3. cs \subseteq Calls /\ Notify[c] \in Threads
    BY WatchAssumption DEF TypeOK
  <2>4. status' \in [Threads -> {"running", "stopped", "gone"}]
    BY <2>2, <2>3 DEF Tells, TypeOK
  <2>5. turns' \in [Calls -> Nat]
    BY <2>2 DEF Tells, TypeOK
  <2>6. QED
    BY <1>2, <2>1, <2>4, <2>5 DEF LateTurn, TypeOK
<1>3. ASSUME NEW c \in Calls, Deadline(c) \/ GraceOver(c) \/ DeliveryWindowOver(c)
      PROVE  TypeOK'
  <2>1. watch[c] \in Watch
    BY DEF TypeOK
  <2>2. /\ [watch[c] EXCEPT !.expired = TRUE] \in Watch
        /\ [watch[c] EXCEPT !.failing = "long"] \in Watch
        /\ [watch[c] EXCEPT !.stale = TRUE] \in Watch
    BY <2>1 DEF Watch
  <2>3. watch' \in [Calls -> Watch]
    BY <1>3, <2>2 DEF Deadline, GraceOver, DeliveryWindowOver, TypeOK
  <2>4. QED
    BY <1>3, <2>3 DEF Deadline, GraceOver, DeliveryWindowOver, TypeOK
<1>4. QED
  BY <1>1, <1>2, <1>3

LEMMA CallsTyped ==
  ASSUME TypeOK, NEW c \in Calls, ReadTarget(c) \/ Register(c)
  PROVE  TypeOK'
<1>1. CASE ReadTarget(c)
  <2>1. Target[c] \in Threads
    BY WatchAssumption
  <2>2. call' \in [Calls -> {"new", "running", "stopped", "done"}]
    BY <1>1, <2>1 DEF ReadTarget, TypeOK
  <2>3. QED
    BY <1>1, <2>2 DEF ReadTarget, TypeOK
<1>2. CASE Register(c)
  <2> watch[c] \in Watch
    BY DEF TypeOK
  <2>1. [watch[c] EXCEPT !.state = "watching"] \in Watch
    BY DEF Watch
  <2>2. \/ UNCHANGED <<watch, order, timer>>
        \/ Push(c)
    BY <1>2 DEF Register
  <2>3. watch' \in [Calls -> Watch] /\ order' \in Seq(Calls) /\ timer' \in BOOLEAN
    <3>1. CASE Push(c)
      <4>1. watch' \in [Calls -> Watch]
        BY <3>1, <2>1 DEF Push, TypeOK
      <4>2. order' \in Seq(Calls)
        BY <3>1 DEF Push, TypeOK
      <4>3. QED
        BY <4>1, <4>2, <3>1 DEF Push
    <3>2. QED
      BY <2>2, <3>1 DEF TypeOK
  <2>4. call' \in [Calls -> {"new", "running", "stopped", "done"}]
    BY <1>2 DEF Register, TypeOK
  <2>5. QED
    BY <1>2, <2>3, <2>4 DEF Register, TypeOK
<1>3. QED
  BY <1>1, <1>2

LEMMA ObservedTyped ==
  ASSUME NEW w \in Watch
  PROVE  /\ Observed(w) \in Watch
         /\ Observed(w).state # w.state
              => w.state = "watching" /\ Observed(w).state = "pendingDelivery"
         /\ Observed(w).doubt \in {w.doubt, FALSE}
         /\ w.state # "watching" => Observed(w) = w
<1> DEFINE failing == IF tick.seen # "error" THEN "no"
                      ELSE IF w.failing = "no" THEN "new" ELSE w.failing
           over == tick.seen \in {"stopped", "gone"} \/ failing = "long" \/ w.expired
<1>1. failing \in {"no", "new", "long"}
  BY DEF Watch
<1>2. Observed(w) = IF w.state # "watching" THEN w
                    ELSE IF over THEN [NoWatch EXCEPT !.state = "pendingDelivery"]
                    ELSE [w EXCEPT !.failing = failing]
  BY DEF Observed
<1> HIDE DEF over, failing
<1>3. CASE w.state # "watching"
  <2>1. Observed(w) = w
    BY <1>2, <1>3
  <2>2. QED
    BY <2>1, <1>3
<1>4. CASE w.state = "watching" /\ over
  <2>1. Observed(w) = [NoWatch EXCEPT !.state = "pendingDelivery"]
    BY <1>2, <1>4
  <2>2. QED
    BY <2>1, <1>4 DEF NoWatch, Watch
<1>5. CASE w.state = "watching" /\ ~over
  <2>1. Observed(w) = [w EXCEPT !.failing = failing]
    BY <1>2, <1>5
  <2>2. QED
    BY <2>1, <1>1, <1>5 DEF Watch
<1>6. QED
  BY <1>3, <1>4, <1>5

-----------------------------------------------------------------------------
(* What the steps of a tick do to the watches.                             *)
LEMMA ObserveEndsMoves ==
  ASSUME TypeOK, ObserveEnds
  PROVE  /\ watch' \in [Calls -> Watch]
         /\ \A c \in Calls :
              \/ watch'[c] = watch[c]
              \/ /\ c = tick.at /\ State(c) = "watching"
                 /\ watch'[c] = Observed(watch[c])
<1>1. watch' = [watch EXCEPT ![tick.at] = Observed(@)]
  BY DEF ObserveEnds
<1>2. \A c \in Calls : watch[c] \in Watch
  BY DEF TypeOK
<1>3. \A c \in Calls :
        watch'[c] = IF c = tick.at THEN Observed(watch[c]) ELSE watch[c]
  BY <1>1 DEF TypeOK
<1>4. watch' \in [Calls -> Watch]
  <2>1. watch' = [c \in Calls |-> IF c = tick.at THEN Observed(watch[c]) ELSE watch[c]]
    BY <1>1 DEF TypeOK
  <2>2. \A c \in Calls : (IF c = tick.at THEN Observed(watch[c]) ELSE watch[c]) \in Watch
    BY <1>2, ObservedTyped
  <2>3. QED
    BY <2>1, <2>2
<1>5. QED
  BY <1>2, <1>3, <1>4, ObservedTyped DEF State

LEMMA SendSucceedsMoves ==
  ASSUME TypeOK, SendSucceeds
  PROVE  /\ watch' \in [Calls -> Watch]
         /\ \A c \in Calls :
              IF c \in tick.sent \cap Listed
              THEN watch'[c].state = "told" /\ ~watch'[c].doubt
              ELSE watch'[c] = watch[c]
<1> DEFINE told == [NoWatch EXCEPT !.state = "told"]
<1>1. told \in Watch /\ told.state = "told" /\ ~told.doubt
  BY DEF NoWatch, Watch
<1>2. watch' = [c \in Calls |-> IF c \in tick.sent \cap Listed THEN told ELSE watch[c]]
  BY DEF SendSucceeds
<1> HIDE DEF told
<1>3. \A c \in Calls : watch[c] \in Watch
  BY DEF TypeOK
<1>4. QED
  BY <1>1, <1>2, <1>3

(* Watches that are given up leave what is pending, and keep the doubt     *)
(* about them; others are touched only as they make room.                  *)
LEMMA AbandonMoves ==
  ASSUME TypeOK, NEW cs \in SUBSET Calls, NEW doubt \in BOOLEAN, Abandon(cs, doubt)
  PROVE  /\ watch' \in [Calls -> Watch] /\ UNCHANGED order
         /\ \A c \in Calls :
              \/ c \notin cs \cap Listed /\ watch'[c] = watch[c]
              \/ /\ c \in cs \cap Listed
                 /\ watch'[c].state \in {"undeliverable", "trimmed"}
                 /\ watch'[c].doubt = (watch[c].doubt \/ doubt)
              \/ /\ c \notin cs \cap Listed /\ State(c) = "undeliverable"
                 /\ watch'[c].state = "trimmed"
                 /\ watch'[c].doubt = watch[c].doubt
<1> DEFINE lost == cs \cap Listed
           gone == Excess(lost \cup In("undeliverable"))
           given(c) == [NoWatch EXCEPT !.state = IF c \in gone THEN "trimmed" ELSE "undeliverable",
                                       !.doubt = watch[c].doubt \/ (doubt /\ c \in lost)]
<1>1. watch' = [c \in Calls |-> IF c \in lost \cup gone THEN given(c) ELSE watch[c]]
  BY DEF Abandon
<1>2. gone \subseteq lost \cup In("undeliverable")
  BY DEF Excess
<1>3. \A c \in Calls : watch[c] \in Watch /\ watch[c].doubt \in BOOLEAN
  BY DEF TypeOK, Watch
<1>4. ASSUME NEW c \in Calls
      PROVE  /\ given(c) \in Watch
             /\ given(c).state = IF c \in gone THEN "trimmed" ELSE "undeliverable"
             /\ given(c).doubt = (watch[c].doubt \/ (doubt /\ c \in lost))
  <2> DEFINE s == IF c \in gone THEN "trimmed" ELSE "undeliverable"
             b == watch[c].doubt \/ (doubt /\ c \in lost)
  <2>1. s \in {"undeliverable", "trimmed"} /\ b \in BOOLEAN
    BY <1>3
  <2>2. given(c) = [NoWatch EXCEPT !.state = s, !.doubt = b]
    OBVIOUS
  <2> HIDE DEF s, b
  <2>3. /\ [NoWatch EXCEPT !.state = s, !.doubt = b] \in Watch
        /\ [NoWatch EXCEPT !.state = s, !.doubt = b].state = s
        /\ [NoWatch EXCEPT !.state = s, !.doubt = b].doubt = b
    BY <2>1 DEF NoWatch, Watch
  <2>4. QED
    BY <2>2, <2>3 DEF s, b
<1>5. \A c \in gone \ lost : State(c) = "undeliverable"
  BY <1>2 DEF In
<1> HIDE DEF lost, gone, given
<1>6. watch' \in [Calls -> Watch]
  BY <1>1, <1>3, <1>4
<1>7. ASSUME NEW c \in Calls, c \in lost
      PROVE  /\ watch'[c].state \in {"undeliverable", "trimmed"}
             /\ watch'[c].doubt = (watch[c].doubt \/ doubt)
  BY <1>1, <1>4, <1>7
<1>8. ASSUME NEW c \in Calls, c \in gone, c \notin lost
      PROVE  /\ State(c) = "undeliverable"
             /\ watch'[c].state = "trimmed"
             /\ watch'[c].doubt = watch[c].doubt
  BY <1>1, <1>3, <1>4, <1>5, <1>8
<1>9. ASSUME NEW c \in Calls, c \notin gone, c \notin lost
      PROVE  watch'[c] = watch[c]
  BY <1>1, <1>9
<1>10. UNCHANGED order
  BY DEF Abandon
<1>11. QED
  BY <1>6, <1>7, <1>8, <1>9, <1>10 DEF lost

LEMMA TickTyped ==
  ASSUME TypeOK, TickStep \/ TurnStarts
  PROVE  TypeOK'
<1> tick \in Tick
  BY DEF TypeOK
<1> USE DEF TypeOK
<1>1. CASE TimerFires
  <2>1. tick' \in Tick
    BY <1>1 DEF TimerFires, NoTick, Tick, In
  <2>2. QED
    BY <1>1, <2>1 DEF TimerFires
<1>2. CASE ObserveBegins
  <2>0. PICK c \in tick.todo : \E found \in {status[Target[c]], "error", "gone"} :
          tick' = [tick EXCEPT !.pc = "reading", !.todo = @ \ {c}, !.at = c,
                               !.seen = found]
    BY <1>2 DEF ObserveBegins
  <2>1. PICK found \in {status[Target[c]], "error", "gone"} :
          tick' = [tick EXCEPT !.pc = "reading", !.todo = @ \ {c}, !.at = c,
                               !.seen = found]
    BY <2>0
  <2>2. c \in Calls /\ found \in {"running", "stopped", "gone", "error"}
    <3>1. c \in Calls
      BY DEF Tick
    <3>2. Target[c] \in Threads
      BY <3>1, WatchAssumption
    <3>3. QED
      BY <3>1, <3>2
  <2>3. tick' \in Tick
    BY <2>1, <2>2 DEF Tick
  <2>4. QED
    BY <1>2, <2>3 DEF ObserveBegins
<1>3. CASE ObserveEnds
  <2>1. tick' \in Tick
    BY <1>3 DEF ObserveEnds, Tick
  <2>2. QED
    BY <1>3, <2>1, ObserveEndsMoves DEF ObserveEnds
<1>4. CASE ObservedAll
  <2>1. {Notify[c] : c \in In("pendingDelivery")} \subseteq Threads
    BY WatchAssumption DEF In
  <2>2. tick' \in Tick
    BY <1>4, <2>1 DEF ObservedAll, Tick
  <2>3. QED
    BY <1>4, <2>2 DEF ObservedAll
<1>5. CASE Send
  <2>1. PICK t \in tick.subs :
          tick' = [tick EXCEPT !.pc = "sending", !.subs = @ \ {t}, !.sent = PendingOf(t)]
    BY <1>5 DEF Send
  <2>2. PendingOf(t) \in SUBSET Calls
    BY DEF PendingOf, In
  <2>3. tick' \in Tick
    BY <2>1, <2>2 DEF Tick
  <2>4. QED
    BY <1>5, <2>3 DEF Send
<1>6. CASE TurnStarts
  <2>1. status' \in [Threads -> {"running", "stopped", "gone"}]
    BY <1>6 DEF TurnStarts, Tells
  <2>2. turns' \in [Calls -> Nat]
    BY <1>6 DEF TurnStarts, Tells
  <2>3. tick' \in Tick
    BY <1>6 DEF TurnStarts, Tick
  <2>4. QED
    BY <1>6, <2>1, <2>2, <2>3 DEF TurnStarts
<1>7. ASSUME Answered  PROVE tick' \in Tick
  BY <1>7 DEF Answered, Tick
<1>8. CASE SendSucceeds
  <2>1. Answered /\ UNCHANGED <<order, late>>
    BY <1>8 DEF SendSucceeds
  <2>2. QED
    BY <1>7, <1>8, <2>1, SendSucceedsMoves DEF Answered
<1>9. CASE SendRefused
  <2>1. PICK permanent \in BOOLEAN :
          Abandon({c \in tick.sent : permanent \/ watch[c].stale}, FALSE)
    BY <1>9 DEF SendRefused
  <2>2. {c \in tick.sent : permanent \/ watch[c].stale} \in SUBSET Calls
    BY DEF Tick
  <2>3. watch' \in [Calls -> Watch] /\ UNCHANGED order
    BY <2>1, <2>2, AbandonMoves
  <2>4. QED
    BY <1>7, <1>9, <2>3 DEF SendRefused, Answered
<1>10. CASE SendUnknown
  <2>1. tick.sent \in SUBSET Calls
    BY DEF Tick
  <2>2. watch' \in [Calls -> Watch] /\ UNCHANGED order
    BY <1>10, <2>1, AbandonMoves DEF SendUnknown
  <2>3. late' \subseteq SUBSET Calls
    BY <1>10, <2>1 DEF SendUnknown
  <2>4. QED
    BY <1>7, <1>10, <2>2, <2>3 DEF SendUnknown, Answered
<1>11. CASE TickEnds
  BY <1>11, NoWatchTyped DEF TickEnds
<1>12. QED
  BY <1>1, <1>2, <1>3, <1>4, <1>5, <1>6, <1>8, <1>9, <1>10, <1>11 DEF TickStep

LEMMA CloseMoves ==
  ASSUME TypeOK, Close
  PROVE  /\ watch' \in [Calls -> Watch]
         /\ \A c \in Calls :
              IF c \in Listed
              THEN /\ watch'[c].state = "closed"
                   /\ watch'[c].doubt = (watch[c].doubt \/ State(c) = "pendingDelivery")
              ELSE watch'[c] = watch[c]
<1> DEFINE forgotten(c) == [NoWatch EXCEPT !.state = "closed",
                              !.doubt = watch[c].doubt \/ State(c) = "pendingDelivery"]
<1>1. watch' = [c \in Calls |-> IF c \in Listed THEN forgotten(c) ELSE watch[c]]
  BY DEF Close
<1>2. \A c \in Calls : watch[c] \in Watch /\ watch[c].doubt \in BOOLEAN
  BY DEF TypeOK, Watch
<1>3. ASSUME NEW c \in Calls
      PROVE  /\ forgotten(c) \in Watch
             /\ forgotten(c).state = "closed"
             /\ forgotten(c).doubt = (watch[c].doubt \/ State(c) = "pendingDelivery")
  <2> DEFINE b == watch[c].doubt \/ State(c) = "pendingDelivery"
  <2>1. b \in BOOLEAN
    BY <1>2
  <2> HIDE DEF b
  <2>2. /\ [NoWatch EXCEPT !.state = "closed", !.doubt = b] \in Watch
        /\ [NoWatch EXCEPT !.state = "closed", !.doubt = b].state = "closed"
        /\ [NoWatch EXCEPT !.state = "closed", !.doubt = b].doubt = b
    BY <2>1 DEF NoWatch, Watch
  <2>3. QED
    BY <2>2 DEF b
<1> HIDE DEF forgotten
<1>4. QED
  BY <1>1, <1>2, <1>3

(* Every variable keeps its type, whatever the Threads, calls and bound.   *)
THEOREM TypeCorrect == Spec => []TypeOK
<1>1. TypeOK /\ [Next]_vars => TypeOK'
  <2> SUFFICES ASSUME TypeOK, [Next]_vars PROVE TypeOK'
    OBVIOUS
  <2>1. CASE UNCHANGED vars
    BY <2>1 DEF vars, TypeOK
  <2>2. CASE Close
    BY <2>2, CloseMoves DEF Close, TypeOK
  <2>3. QED
    BY <2>1, <2>2, EnvironmentTyped, CallsTyped, TickTyped DEF Next
<1>2. QED
  BY <1>1, InitTyped, PTL DEF Spec

-----------------------------------------------------------------------------
OtherStep ==
  \/ \E t \in Threads : ThreadChanges(t)
  \/ LateTurn \/ TurnStarts
  \/ \E c \in Calls : Deadline(c) \/ GraceOver(c) \/ DeliveryWindowOver(c)
  \/ \E c \in Calls : ReadTarget(c)
  \/ TickStep
  \/ Close

(* Time passes for a watch without a change of its state.                  *)
LEMMA TimesMove ==
  ASSUME TypeOK, NEW c \in Calls, Deadline(c) \/ GraceOver(c) \/ DeliveryWindowOver(c)
  PROVE  \A d \in Calls : State(d)' = State(d) /\ watch'[d].doubt = watch[d].doubt
<1>1. \A d \in Calls : watch[d] \in Watch
  BY DEF TypeOK
<1>2. PICK w \in {[watch[c] EXCEPT !.expired = TRUE], [watch[c] EXCEPT !.failing = "long"],
                  [watch[c] EXCEPT !.stale = TRUE]} :
        watch' = [watch EXCEPT ![c] = w]
  BY DEF Deadline, GraceOver, DeliveryWindowOver
<1>3. w.state = watch[c].state /\ w.doubt = watch[c].doubt
  <2>1. watch[c] \in Watch
    BY <1>1
  <2>2. QED
    BY <2>1 DEF Watch
<1>4. QED
  BY <1>2, <1>3 DEF State, TypeOK

(* Only the registration of a watch adds one to those that are active.     *)
LEMMA NothingElseArms ==
  ASSUME TypeOK, OtherStep
  PROVE  \A c \in Calls :
           /\ State(c)' = "watching" => State(c) = "watching"
           /\ State(c)' = "pendingDelivery"
                => State(c) \in {"watching", "pendingDelivery"}
<1> DEFINE Goal ==
      \A c \in Calls :
        /\ State(c)' = "watching" => State(c) = "watching"
        /\ State(c)' = "pendingDelivery" => State(c) \in {"watching", "pendingDelivery"}
<1>0. \A c \in Calls : watch[c] \in Watch
  BY DEF TypeOK
<1>1. ASSUME UNCHANGED watch  PROVE Goal
  BY <1>1 DEF State
<1>2. ASSUME NEW c \in Calls, Deadline(c) \/ GraceOver(c) \/ DeliveryWindowOver(c)
      PROVE  Goal
  BY <1>2, TimesMove
<1>3. CASE ObserveEnds
  BY <1>0, <1>3, ObserveEndsMoves, ObservedTyped DEF State
<1>4. CASE SendSucceeds
  BY <1>4, SendSucceedsMoves DEF State
<1>5. ASSUME NEW cs \in SUBSET Calls, NEW doubt \in BOOLEAN, Abandon(cs, doubt)
      PROVE  Goal
  BY <1>5, AbandonMoves DEF State
<1>6. CASE SendRefused
  <2>1. PICK permanent \in BOOLEAN :
          Abandon({c \in tick.sent : permanent \/ watch[c].stale}, FALSE)
    BY <1>6 DEF SendRefused
  <2>2. {c \in tick.sent : permanent \/ watch[c].stale} \in SUBSET Calls
    BY DEF TypeOK, Tick
  <2>3. QED
    BY <1>5, <2>1, <2>2
<1>7. CASE SendUnknown
  <2>1. tick.sent \in SUBSET Calls
    BY DEF TypeOK, Tick
  <2>2. QED
    BY <1>5, <1>7, <2>1 DEF SendUnknown
<1>8. CASE Close
  BY <1>8, CloseMoves DEF State
<1>9. OtherStep =>
        \/ UNCHANGED watch
        \/ \E c \in Calls : Deadline(c) \/ GraceOver(c) \/ DeliveryWindowOver(c)
        \/ ObserveEnds \/ SendSucceeds \/ SendRefused \/ SendUnknown \/ Close
  BY DEF OtherStep, TickStep, ThreadChanges, LateTurn, TurnStarts, ReadTarget, TimerFires,
         ObserveBegins, ObservedAll, Send, TickEnds
<1>10. QED
  BY <1>1, <1>2, <1>3, <1>4, <1>6, <1>7, <1>8, <1>9

LEMMA StepKinds == Next => OtherStep \/ \E c \in Calls : Register(c)
BY DEF Next, OtherStep

LEMMA RegisterMoves ==
  ASSUME TypeOK, NEW c \in Calls, Register(c)
  PROVE  \/ UNCHANGED <<watch, order, timer>>
         \/ /\ Existing(c) = {} /\ ~closed /\ timer'
            /\ watch' = [watch EXCEPT ![c].state = "watching"]
            /\ \A d \in Calls : d # c => State(d)' = State(d)
            /\ State(c)' = "watching"
  <1>1. \/ UNCHANGED <<watch, order, timer>>
        \/ Existing(c) = {} /\ ~closed /\ Push(c)
    BY DEF Register
  <1>2. ASSUME Push(c)
        PROVE  /\ watch' = [watch EXCEPT ![c].state = "watching"] /\ timer'
               /\ \A d \in Calls : d # c => State(d)' = State(d)
               /\ State(c)' = "watching"
    <2>1. watch' = [watch EXCEPT ![c].state = "watching"] /\ timer'
      BY <1>2 DEF Push
    <2>2. watch[c] \in Watch
      BY DEF TypeOK
    <2>3. QED
      BY <2>1, <2>2 DEF TypeOK, State, Watch
  <1>3. QED
    BY <1>1, <1>2

(* However calls of watch() for the same Threads overlap - each has awaited*)
(* two reads before it looks for a watch - they share one that waits.      *)
THEOREM SharedWatch == Spec => []OneWatchPerPair
<1>1. Init => OneWatchPerPair
  BY DEF Init, OneWatchPerPair, In, State, NoWatch
<1>2. TypeOK /\ OneWatchPerPair /\ [Next]_vars => OneWatchPerPair'
  <2> SUFFICES ASSUME TypeOK, OneWatchPerPair, [Next]_vars,
                      NEW d \in Calls, NEW e \in Calls,
                      State(d)' = "watching", State(e)' = "watching", SamePair(d, e)
               PROVE  d = e
    BY DEF OneWatchPerPair, In, SamePair
  <2>1. ASSUME State(d) = "watching", State(e) = "watching"  PROVE d = e
    BY <2>1 DEF OneWatchPerPair, In
  <2>2. CASE UNCHANGED vars
    BY <2>1, <2>2 DEF vars, State
  <2>3. CASE OtherStep
    BY <2>1, <2>3, NothingElseArms
  <2>4. ASSUME NEW c \in Calls, Register(c)  PROVE d = e
    <3>1. CASE UNCHANGED watch
      BY <2>1, <3>1 DEF State
    <3>2. CASE Existing(c) = {} /\ \A f \in Calls : f # c => State(f)' = State(f)
      <4>1. \A f \in Calls : State(f) = "watching" => ~SamePair(c, f)
        BY <3>2 DEF Existing, In
      <4>2. SamePair(e, d)
        BY DEF SamePair
      <4>3. QED
        BY <2>1, <3>2, <4>1, <4>2
    <3>3. QED
      BY <2>4, <3>1, <3>2, RegisterMoves
  <2>5. QED
    BY <2>2, <2>3, <2>4, StepKinds
<1>3. QED
  BY <1>1, <1>2, TypeCorrect, PTL DEF Spec

(* The poll timer is never lost: a watch registered while a tick runs, or  *)
(* one whose delivery was refused, is looked at again.                     *)
THEOREM NeverStopsPolling == Spec => []PollsWhileActive
<1>1. Init => PollsWhileActive
  BY DEF Init, PollsWhileActive, Active, In, State, NoWatch
<1>2. TypeOK /\ PollsWhileActive /\ [Next]_vars => PollsWhileActive'
  <2> SUFFICES ASSUME TypeOK, PollsWhileActive, [Next]_vars  PROVE PollsWhileActive'
    OBVIOUS
  <2>1. CASE UNCHANGED vars
    BY <2>1 DEF vars, PollsWhileActive, Active, In, State
  <2>2. CASE TickEnds
    BY <2>2 DEF TickEnds, PollsWhileActive, Active, In, State
  <2>3. CASE Close
    BY <2>3 DEF Close, PollsWhileActive
  <2>4. CASE OtherStep /\ ~TickEnds /\ ~Close
    <3>1. UNCHANGED <<timer, closed>>
      BY <2>4 DEF OtherStep, TickStep, ThreadChanges, LateTurn, TurnStarts, ReadTarget,
         TimerFires, ObserveBegins, ObserveEnds, ObservedAll, Send, Deadline, GraceOver,
         DeliveryWindowOver, SendSucceeds, SendRefused, SendUnknown, Answered
    <3>2. Active' \subseteq Active
      BY <2>4, NothingElseArms DEF Active, In
    <3>3. QED
      BY <3>1, <3>2 DEF PollsWhileActive
  <2>5. ASSUME NEW c \in Calls, Register(c)  PROVE PollsWhileActive'
    <3>1. CASE UNCHANGED <<watch, order, timer>>
      <4>1. UNCHANGED closed
        BY <2>5 DEF Register
      <4>2. QED
        BY <3>1, <4>1 DEF PollsWhileActive, Active, In, State
    <3>2. CASE timer'
      BY <3>2 DEF PollsWhileActive
    <3>3. QED
      BY <2>5, <3>1, <3>2, RegisterMoves
  <2>6. QED
    BY <2>1, <2>2, <2>3, <2>4, <2>5, StepKinds
<1>3. QED
  BY <1>1, <1>2, TypeCorrect, PTL DEF Spec

-----------------------------------------------------------------------------
(* The promise of OneShot: how what is told, and what may still be told,   *)
(* hangs together with the states of the watches.                          *)
InDoubt(c) ==
  State(c) \in {"undeliverable", "trimmed", "closed"} /\ watch[c].doubt

Untold(c) ==
  /\ call[c] # "done" => State(c) = "none"
  /\ State(c) \in {"none", "watching"} => turns[c] = 0 /\ c \notin tick.sent
  /\ State(c) = "pendingDelivery" /\ c \notin tick.sent => turns[c] = 0
  /\ State(c) \in {"none", "watching", "pendingDelivery", "told"} => ~watch[c].doubt

Sending ==
  /\ tick.pc # "sending" => tick.sent = {} /\ ~tick.started
  /\ \A c \in tick.sent :
       /\ State(c) = "pendingDelivery" \/ (State(c) = "closed" /\ watch[c].doubt)
       /\ turns[c] = IF tick.started THEN 1 ELSE 0
  /\ \A c, d \in tick.sent : Notify[c] = Notify[d]

InFlight ==
  \A cs \in late :
    /\ \A c \in cs : InDoubt(c) /\ turns[c] = 0 /\ c \notin tick.sent
    /\ \A c, d \in cs : Notify[c] = Notify[d]
    /\ \A ds \in late : cs # ds => cs \cap ds = {}

Follows == TypeOK /\ (\A c \in Calls : Untold(c)) /\ Sending /\ InFlight

LEMMA PhaseIs ==
  ASSUME NEW w \in Watch
  PROVE  /\ w.state = "none" => Phase(w) = "none"
         /\ w.state = "watching" => Phase(w) = "armed"
         /\ w.state = "pendingDelivery" => Phase(w) = "due"
         /\ w.state \notin {"none", "watching", "pendingDelivery"}
              => Phase(w) = IF w.doubt THEN "doubtful" ELSE "over"
BY DEF Phase

(* Steps that change neither what a watch is for the promise nor what it   *)
(* has been told.                                                          *)
LEMMA NothingToldNothingDue ==
  ASSUME TypeOK, TypeOK', UNCHANGED turns,
         \A c \in Calls : State(c)' = State(c) /\ watch'[c].doubt = watch[c].doubt
  PROVE  UNCHANGED <<[c \in Calls |-> Phase(watch[c])], turns>>
<1>1. \A c \in Calls : watch[c] \in Watch /\ watch'[c] \in Watch
  BY DEF TypeOK
<1>2. \A c \in Calls : Phase(watch'[c]) = Phase(watch[c])
  BY <1>1, PhaseIs DEF State, Watch
<1>3. QED
  BY <1>2

LEMMA Becomes ==
  ASSUME UNCHANGED turns, NEW ws \in SUBSET Calls, NEW from, NEW to,
         \A c \in ws : Phase(watch[c]) = from,
         \A c \in Calls : Phase(watch'[c]) = IF c \in ws THEN to ELSE Phase(watch[c])
  PROVE  Promise!Become(ws, {from}, to)
BY DEF Promise!Become

PromiseVars == <<[c \in Calls |-> Phase(watch[c])], turns>>

(* Steps of the Threads, of time, of reads and of the timer.               *)
LEMMA QuietSteps ==
  ASSUME Follows, TypeOK', UNCHANGED <<turns, late>>,
         \A c \in Calls : State(c)' = State(c) /\ watch'[c].doubt = watch[c].doubt,
         \A c \in Calls : call'[c] # "done" => call[c] # "done",
         tick'.sent = tick.sent, tick'.started = tick.started,
         tick'.pc = "sending" <=> tick.pc = "sending"
  PROVE  Follows' /\ UNCHANGED PromiseVars
<1>1. \A c \in Calls : (Untold(c))'
  <2> SUFFICES ASSUME NEW c \in Calls PROVE (Untold(c))'
    OBVIOUS
  <2>1. Untold(c)
    BY DEF Follows
  <2>2. turns' = turns /\ State(c)' = State(c) /\ watch'[c].doubt = watch[c].doubt
    OBVIOUS
  <2>3. QED
    BY <2>1, <2>2 DEF Untold
<1>2. \A c \in Calls : InDoubt(c)' = InDoubt(c)
  BY DEF InDoubt
<1>3. tick.sent \subseteq Calls /\ tick' \in Tick
  BY DEF Follows, TypeOK, Tick
<1>4. Sending'
  BY <1>2, <1>3 DEF Follows, Sending
<1>5. InFlight'
  <2>1. \A cs \in late : cs \subseteq Calls
    BY DEF Follows, TypeOK
  <2>2. QED
    BY <1>2, <2>1 DEF Follows, InFlight
<1>6. UNCHANGED PromiseVars
  BY NothingToldNothingDue DEF Follows, PromiseVars
<1>7. QED
  BY <1>1, <1>4, <1>5, <1>6 DEF Follows

LEMMA QuietTicks ==
  ASSUME Follows, TypeOK', TimerFires \/ ObserveBegins \/ ObservedAll \/ TickEnds
  PROVE  Follows' /\ UNCHANGED PromiseVars
<1> tick \in Tick /\ tick' \in Tick
  BY DEF Follows, TypeOK
<1>1. tick.pc # "sending" /\ tick.sent = {} /\ ~tick.started
  BY DEF Follows, Sending, TimerFires, ObserveBegins, ObservedAll, TickEnds
<1>2. tick'.pc # "sending" /\ tick'.sent = {} /\ ~tick'.started
  <2>1. CASE TimerFires
    BY <2>1 DEF TimerFires, NoTick, Tick
  <2>2. CASE ObserveBegins
    <3>1. PICK c \in tick.todo : \E found \in {status[Target[c]], "error", "gone"} :
            tick' = [tick EXCEPT !.pc = "reading", !.todo = @ \ {c}, !.at = c,
                                 !.seen = found]
      BY <2>2 DEF ObserveBegins
    <3>2. QED
      BY <1>1, <3>1 DEF Tick
  <2>3. CASE ObservedAll
    BY <1>1, <2>3 DEF ObservedAll, Tick
  <2>4. CASE TickEnds
    BY <2>4 DEF TickEnds, NoTick, Tick
  <2>5. QED
    BY <2>1, <2>2, <2>3, <2>4
<1>3. UNCHANGED <<turns, late, watch, call>>
  BY DEF TimerFires, ObserveBegins, ObservedAll, TickEnds
<1>4. QED
  <2>1. tick'.sent = tick.sent /\ (tick'.pc = "sending" <=> tick.pc = "sending")
    BY <1>1, <1>2
  <2>2. tick'.started = tick.started
    BY <1>1, <1>2 DEF Tick
  <2>3. \A c \in Calls : State(c)' = State(c) /\ watch'[c].doubt = watch[c].doubt
    BY <1>3 DEF State
  <2>4. QED
    BY <1>3, <2>1, <2>2, <2>3, QuietSteps

LEMMA QuietEnvironment ==
  ASSUME Follows, TypeOK',
         \/ \E t \in Threads : ThreadChanges(t)
         \/ \E c \in Calls : Deadline(c) \/ GraceOver(c) \/ DeliveryWindowOver(c)
         \/ \E c \in Calls : ReadTarget(c)
  PROVE  Follows' /\ UNCHANGED PromiseVars
<1>1. ASSUME NEW t \in Threads, ThreadChanges(t)
      PROVE  Follows' /\ UNCHANGED PromiseVars
  <2>1. UNCHANGED <<watch, call, tick, turns, late>>
    BY <1>1 DEF ThreadChanges
  <2>2. QED
    BY <2>1, QuietSteps DEF State
<1>2. ASSUME NEW c \in Calls, Deadline(c) \/ GraceOver(c) \/ DeliveryWindowOver(c)
      PROVE  Follows' /\ UNCHANGED PromiseVars
  <2>1. UNCHANGED <<call, tick, turns, late>>
    BY <1>2 DEF Deadline, GraceOver, DeliveryWindowOver
  <2>2. QED
    BY <1>2, <2>1, TimesMove, QuietSteps DEF Follows
<1>3. ASSUME NEW c \in Calls, ReadTarget(c)
      PROVE  Follows' /\ UNCHANGED PromiseVars
  <2>1. UNCHANGED <<watch, tick, turns, late>>
    BY <1>3 DEF ReadTarget
  <2>2. \A d \in Calls : call'[d] # "done" => call[d] # "done"
    BY <1>3 DEF ReadTarget, Follows, TypeOK
  <2>3. QED
    BY <2>1, <2>2, QuietSteps DEF State
<1>4. QED
  BY <1>1, <1>2, <1>3

(* The registration of a watch arms it.                                    *)
LEMMA RegisterArms ==
  ASSUME Follows, TypeOK', NEW c \in Calls, Register(c)
  PROVE  Follows' /\ (Promise!Arm(c) \/ UNCHANGED PromiseVars)
<1>1. UNCHANGED <<status, tick, closed, late, turns>>
  BY DEF Register
<1>2. call[c] # "done" /\ \A d \in Calls : call'[d] # "done" => call[d] # "done" /\ d # c
  BY DEF Register, Follows, TypeOK
<1>3. CASE UNCHANGED watch
  <2>1. QED
    BY <1>1, <1>2, <1>3, QuietSteps DEF State
<1>4. CASE /\ watch' = [watch EXCEPT ![c].state = "watching"]
           /\ \A d \in Calls : d # c => State(d)' = State(d)
           /\ State(c)' = "watching"
  <2>1. \A d \in Calls : watch[d] \in Watch /\ watch'[d] \in Watch
    BY DEF Follows, TypeOK
  <2>2. \A d \in Calls : watch'[d].doubt = watch[d].doubt
    BY <1>4, <2>1 DEF Follows, TypeOK, Watch
  <2>3. State(c) = "none" /\ ~watch[c].doubt /\ turns[c] = 0 /\ c \notin tick.sent
    BY <1>2 DEF Follows, Untold
  <2>4. \A d \in Calls : (Untold(d))'
    BY <1>1, <1>2, <1>4, <2>2, <2>3 DEF Follows, Untold
  <2>5. \A d \in Calls : InDoubt(d) => InDoubt(d)'
    BY <1>4, <2>2, <2>3 DEF InDoubt
  <2>6. Sending'
    <3>1. tick.sent \subseteq Calls
      BY DEF Follows, TypeOK, Tick
    <3>2. \A d \in tick.sent : d # c
      BY <2>3
    <3>3. QED
      BY <1>1, <1>4, <2>5, <3>1, <3>2 DEF Follows, Sending
  <2>7. InFlight'
    <3>1. \A cs \in late : cs \subseteq Calls
      BY DEF Follows, TypeOK
    <3>2. QED
      BY <1>1, <2>5, <3>1 DEF Follows, InFlight
  <2>8. Promise!Arm(c)
    <3>1. \A d \in Calls : Phase(watch'[d]) = IF d \in {c} THEN "armed" ELSE Phase(watch[d])
      BY <1>4, <2>1, <2>2, PhaseIs DEF State, Watch
    <3>2. Phase(watch[c]) = "none"
      BY <2>1, <2>3, PhaseIs DEF State
    <3>3. Promise!Become({c}, {"none"}, "armed")
      BY <1>1, <3>1, <3>2, Becomes
    <3>4. QED
      BY <3>3 DEF Promise!Arm
  <2>9. QED
    BY <2>4, <2>6, <2>7, <2>8 DEF Follows
<1>5. QED
  BY <1>3, <1>4, RegisterMoves DEF Follows

(* What is read of a target may make its watch fall due.                   *)
LEMMA ObserveEndsFallsDue ==
  ASSUME Follows, TypeOK', ObserveEnds
  PROVE  /\ Follows'
         /\ (\E c \in Calls : Promise!FallDue(c)) \/ UNCHANGED PromiseVars
<1> tick \in Tick /\ \A c \in Calls : watch[c] \in Watch /\ watch'[c] \in Watch
  BY DEF Follows, TypeOK
<1>1. /\ tick.pc # "sending" /\ tick'.pc # "sending"
      /\ tick.sent = {} /\ tick'.sent = {} /\ ~tick.started /\ ~tick'.started
  BY DEF ObserveEnds, Follows, Sending, Tick
<1>2. UNCHANGED <<call, turns, late>>
  BY DEF ObserveEnds
<1>3. CASE \A c \in Calls : State(c)' = State(c)
  <2>1. \A c \in Calls : watch'[c].doubt = watch[c].doubt
    <3>1. ASSUME NEW c \in Calls  PROVE watch'[c].doubt = watch[c].doubt
      <4>1. \/ watch'[c] = watch[c]
            \/ State(c) = "watching" /\ watch'[c] = Observed(watch[c])
        BY ObserveEndsMoves DEF Follows
      <4>2. CASE State(c) = "watching" /\ watch'[c] = Observed(watch[c])
        <5>1. watch[c].doubt = FALSE
          BY <4>2 DEF Follows, Untold, Watch
        <5>2. QED
          BY <4>2, <5>1, ObservedTyped
      <4>3. QED
        BY <4>1, <4>2
    <3>2. QED
      BY <3>1
  <2>2. tick'.started = tick.started
    BY <1>1 DEF ObserveEnds, Tick
  <2>3. QED
    BY <1>1, <1>2, <1>3, <2>1, <2>2, QuietSteps
<1>4. CASE \E c \in Calls : State(c)' # State(c)
  <2>1. PICK c \in Calls : State(c)' # State(c)
    BY <1>4
  <2>2. /\ c = tick.at /\ State(c) = "watching" /\ State(c)' = "pendingDelivery"
        /\ ~watch'[c].doubt /\ ~watch[c].doubt
        /\ turns[c] = 0
    <3>1. c = tick.at /\ State(c) = "watching" /\ watch'[c] = Observed(watch[c])
      BY <2>1, ObserveEndsMoves DEF Follows, State
    <3>2. ~watch[c].doubt /\ turns[c] = 0
      BY <3>1 DEF Follows, Untold
    <3>3. watch[c].doubt = FALSE
      BY <3>2 DEF Watch
    <3>4. /\ Observed(watch[c]).state = "pendingDelivery"
          /\ Observed(watch[c]).doubt \in {watch[c].doubt, FALSE}
      BY <2>1, <3>1, ObservedTyped DEF State
    <3>5. QED
      BY <3>1, <3>2, <3>3, <3>4 DEF State
  <2>3. \A d \in Calls : d # c => watch'[d] = watch[d]
    BY <2>2, ObserveEndsMoves DEF Follows
  <2>4. \A d \in Calls : (Untold(d))'
    BY <1>1, <1>2, <2>2, <2>3 DEF Follows, Untold, State
  <2>5. \A d \in Calls : InDoubt(d) => InDoubt(d)'
    BY <2>2, <2>3 DEF InDoubt, State
  <2>6. Sending'
    BY <1>1 DEF Sending
  <2>7. InFlight'
    <3>1. \A cs \in late : cs \subseteq Calls
      BY DEF Follows, TypeOK
    <3>2. QED
      BY <1>1, <1>2, <2>5, <3>1 DEF Follows, InFlight
  <2>8. Promise!FallDue(c)
    <3>1. \A d \in Calls : Phase(watch'[d]) = IF d \in {c} THEN "due" ELSE Phase(watch[d])
      BY <2>2, <2>3, PhaseIs DEF State
    <3>2. Phase(watch[c]) = "armed"
      BY <2>2, PhaseIs DEF State
    <3>3. Promise!Become({c}, {"armed"}, "due")
      BY <1>2, <3>1, <3>2, Becomes
    <3>4. QED
      BY <3>3 DEF Promise!FallDue
  <2>9. QED
    BY <2>4, <2>6, <2>7, <2>8 DEF Follows
<1>5. QED
  BY <1>3, <1>4

(* A send takes what is pending by then, of which nothing was told.        *)
LEMMA SendTakes ==
  ASSUME Follows, TypeOK', Send
  PROVE  Follows' /\ UNCHANGED PromiseVars
<1> tick \in Tick
  BY DEF Follows, TypeOK
<1>1. PICK t \in tick.subs :
        tick' = [tick EXCEPT !.pc = "sending", !.subs = @ \ {t}, !.sent = PendingOf(t)]
  BY DEF Send
<1>2. UNCHANGED <<watch, call, turns, late>>
  BY DEF Send
<1>3. tick.sent = {} /\ ~tick.started
  BY DEF Send, Follows, Sending
<1>4. tick'.pc = "sending" /\ tick'.sent = PendingOf(t) /\ ~tick'.started
  BY <1>1, <1>3 DEF Tick
<1>5. /\ PendingOf(t) \subseteq Calls
      /\ \A c \in PendingOf(t) : State(c) = "pendingDelivery" /\ Notify[c] = t
  BY DEF PendingOf, In
<1>6. \A c \in Calls : (Untold(c))'
  BY <1>2, <1>3, <1>4, <1>5 DEF Follows, Untold, State
<1>7. Sending'
  <2>1. \A c \in PendingOf(t) : turns[c] = 0 /\ State(c)' = "pendingDelivery"
    BY <1>2, <1>3, <1>5 DEF Follows, Untold, State
  <2>2. QED
    BY <1>2, <1>4, <1>5, <2>1 DEF Sending
<1>8. InFlight'
  <2>1. \A cs \in late : cs \subseteq Calls
    BY DEF Follows, TypeOK
  <2>2. \A c \in Calls : InDoubt(c) => InDoubt(c)' /\ c \notin tick'.sent
    BY <1>2, <1>4, <1>5 DEF InDoubt, State
  <2>3. QED
    BY <1>2, <2>1, <2>2 DEF Follows, InFlight
<1>9. QED
  BY <1>2, <1>6, <1>7, <1>8 DEF Follows, PromiseVars

(* The Turn of a send tells each watch for the first time.                 *)
LEMMA TurnTells ==
  ASSUME Follows, TypeOK', TurnStarts
  PROVE  Follows' /\ Promise!Tell(tick.sent)
<1> tick \in Tick /\ turns \in [Calls -> Nat]
    /\ \A c \in Calls : watch[c] \in Watch
  BY DEF Follows, TypeOK
<1>1. /\ tick.pc = "sending" /\ ~tick.started
      /\ turns' = [c \in Calls |-> IF c \in tick.sent THEN turns[c] + 1 ELSE turns[c]]
      /\ UNCHANGED <<watch, call, late>>
  BY DEF TurnStarts, Tells
<1>2. tick'.pc = "sending" /\ tick'.sent = tick.sent /\ tick'.started
  BY <1>1 DEF TurnStarts, Tick
<1>3. tick.sent \subseteq Calls
  BY DEF Tick
<1>4. \A c \in tick.sent : turns[c] = 0 /\ (State(c) = "pendingDelivery" \/ InDoubt(c))
  BY <1>1 DEF Follows, Sending, InDoubt
<1>5. turns' = [c \in Calls |-> IF c \in tick.sent THEN 1 ELSE turns[c]]
  BY <1>1, <1>3, <1>4
<1>6. \A c \in Calls : (Untold(c))'
  BY <1>1, <1>2, <1>5 DEF Follows, Untold, State
<1>7. Sending'
  <2>1. \A c \in tick.sent :
          (State(c) = "pendingDelivery" \/ (State(c) = "closed" /\ watch[c].doubt))'
    BY <1>1 DEF Follows, Sending, State
  <2>2. \A c, d \in tick.sent : Notify[c] = Notify[d]
    BY DEF Follows, Sending
  <2>3. QED
    BY <1>2, <1>3, <1>5, <2>1, <2>2 DEF Sending
<1>8. InFlight'
  <2>1. \A cs \in late : cs \subseteq Calls
    BY DEF Follows, TypeOK
  <2>2. \A c \in Calls : InDoubt(c) => InDoubt(c)'
    BY <1>1 DEF InDoubt, State
  <2>3. \A cs \in late : \A c \in cs : turns'[c] = 0 /\ c \notin tick'.sent
    BY <1>2, <1>5, <2>1 DEF Follows, InFlight
  <2>4. QED
    BY <1>1, <2>1, <2>2, <2>3 DEF Follows, InFlight
<1>9. Promise!Tell(tick.sent)
  <2>1. \A c \in tick.sent : Phase(watch[c]) \in {"due", "doubtful"}
    BY <1>3, <1>4, PhaseIs DEF State, InDoubt
  <2>2. \A c, d \in tick.sent : Notify[c] = Notify[d]
    BY DEF Follows, Sending
  <2>3. QED
    BY <1>1, <1>3, <1>4, <1>5, <2>1, <2>2 DEF Promise!Tell
<1>10. QED
  BY <1>6, <1>7, <1>8, <1>9 DEF Follows

(* A Turn that begins late tells what nothing else can tell any more.      *)
LEMMA LateTurnTells ==
  ASSUME Follows, TypeOK', LateTurn
  PROVE  Follows' /\ \E cs \in SUBSET Calls : Promise!Tell(cs)
<1> /\ tick \in Tick /\ turns \in [Calls -> Nat]
    /\ \A c \in Calls : watch[c] \in Watch
    /\ \A ds \in late : ds \subseteq Calls
  BY DEF Follows, TypeOK
<1>1. PICK cs \in late : (\E c \in cs : Tells(Notify[c], cs)) /\ late' = late \ {cs}
  BY DEF LateTurn
<1>2. /\ turns' = [c \in Calls |-> IF c \in cs THEN turns[c] + 1 ELSE turns[c]]
      /\ UNCHANGED <<watch, call, tick>>
  BY <1>1 DEF LateTurn, Tells
<1>3. /\ \A c \in cs : InDoubt(c) /\ turns[c] = 0 /\ c \notin tick.sent
      /\ \A c, d \in cs : Notify[c] = Notify[d]
      /\ \A ds \in late' : cs \cap ds = {}
  BY <1>1 DEF Follows, InFlight
<1>4. turns' = [c \in Calls |-> IF c \in cs THEN 1 ELSE turns[c]]
  BY <1>2, <1>3
<1>5. \A c \in Calls : InDoubt(c) => InDoubt(c)'
  BY <1>2 DEF InDoubt, State
<1>6. \A c \in Calls : (Untold(c))'
  <2>1. \A c \in cs : State(c) \notin {"none", "watching", "pendingDelivery"}
    BY <1>3 DEF InDoubt
  <2>2. QED
    BY <1>2, <1>4, <2>1 DEF Follows, Untold, State
<1>7. Sending'
  <2>1. tick.sent \subseteq Calls /\ \A c \in tick.sent : turns'[c] = turns[c]
    BY <1>3, <1>4 DEF Tick
  <2>2. QED
    BY <1>2, <1>5, <2>1 DEF Follows, Sending, State
<1>8. InFlight'
  BY <1>1, <1>2, <1>3, <1>4, <1>5 DEF Follows, InFlight
<1>9. Promise!Tell(cs)
  <2>1. \A c \in cs : Phase(watch[c]) \in {"due", "doubtful"}
    BY <1>3, PhaseIs DEF State, InDoubt
  <2>2. QED
    BY <1>2, <1>3, <1>4, <2>1 DEF Promise!Tell
<1>10. QED
  BY <1>6, <1>7, <1>8, <1>9 DEF Follows

(* How a send ends for the watches it was to tell, however it ends.        *)
LEMMA AnsweredFrees ==
  ASSUME Follows, Answered
  PROVE  /\ tick'.pc # "sending" /\ tick'.sent = {} /\ ~tick'.started
         /\ UNCHANGED <<call, turns>>
         /\ tick.sent \subseteq Calls
         /\ \A c \in tick.sent \cap Listed : State(c) = "pendingDelivery" /\ ~watch[c].doubt
         /\ \A c \in tick.sent \ Listed : InDoubt(c)
<1> tick \in Tick
  BY DEF Follows, TypeOK
<1>1. tick'.pc # "sending" /\ tick'.sent = {} /\ ~tick'.started
  BY DEF Answered, Tick
<1>2. tick.sent \subseteq Calls
  BY DEF Tick
<1>3. \A c \in tick.sent : State(c) = "pendingDelivery" \/ (State(c) = "closed" /\ watch[c].doubt)
  BY DEF Follows, Sending
<1>4. \A c \in tick.sent \cap Listed : State(c) = "pendingDelivery"
  BY <1>3 DEF Listed, Active, In
<1>5. \A c \in tick.sent \ Listed : InDoubt(c)
  BY <1>2, <1>3 DEF Listed, Active, In, InDoubt
<1>6. \A c \in tick.sent \cap Listed : ~watch[c].doubt
  BY <1>2, <1>4 DEF Follows, Untold
<1>7. QED
  BY <1>1, <1>2, <1>4, <1>5, <1>6 DEF Answered

LEMMA SendSucceedsDelivers ==
  ASSUME Follows, TypeOK', SendSucceeds
  PROVE  Follows' /\ Promise!Delivered(tick.sent \cap Listed)
<1> DEFINE ws == tick.sent \cap Listed
<1> \A c \in Calls : watch[c] \in Watch /\ watch'[c] \in Watch
  BY DEF Follows, TypeOK
<1>1. Answered /\ tick.started /\ UNCHANGED late
  BY DEF SendSucceeds
<1>2. /\ tick'.pc # "sending" /\ tick'.sent = {} /\ ~tick'.started
      /\ UNCHANGED <<call, turns>> /\ tick.sent \subseteq Calls
      /\ \A c \in ws : State(c) = "pendingDelivery"
      /\ \A c \in tick.sent \ ws : InDoubt(c)
  BY <1>1, AnsweredFrees
<1>3. \A c \in Calls : IF c \in ws THEN watch'[c].state = "told" /\ ~watch'[c].doubt
                                    ELSE watch'[c] = watch[c]
  BY SendSucceedsMoves DEF Follows
<1>4. \A c \in ws : turns[c] = 1
  BY <1>1 DEF Follows, Sending
<1> HIDE DEF ws
<1>5. \A c \in Calls : (Untold(c))'
  <2>1. ASSUME NEW c \in Calls, c \in ws  PROVE (Untold(c))'
    <3>1. State(c)' = "told" /\ ~watch'[c].doubt /\ call[c] = "done"
      BY <1>2, <1>3, <2>1 DEF State, Follows, Untold
    <3>2. QED
      BY <1>2, <3>1 DEF Untold
  <2>2. ASSUME NEW c \in Calls, c \notin ws  PROVE (Untold(c))'
    <3>1. UNCHANGED <<watch[c], call, turns>>
      BY <1>2, <1>3, <2>2
    <3>2. c \in tick.sent => State(c) \notin {"none", "watching", "pendingDelivery"}
      BY <1>2, <2>2 DEF InDoubt
    <3>3. Untold(c)
      BY DEF Follows
    <3>4. QED
      BY <1>2, <3>1, <3>2, <3>3 DEF Untold, State
  <2>3. QED
    BY <2>1, <2>2
<1>6. \A c \in Calls : InDoubt(c) => InDoubt(c)'
  BY <1>2, <1>3 DEF InDoubt, State
<1>7. Sending'
  BY <1>2 DEF Sending
<1>8. InFlight'
  <2>1. \A cs \in late : cs \subseteq Calls
    BY DEF Follows, TypeOK
  <2>2. QED
    BY <1>1, <1>2, <1>6, <2>1 DEF Follows, InFlight
<1>9. Promise!Delivered(ws)
  <2>1. \A c \in ws : Phase(watch[c]) = "due"
    BY <1>2, PhaseIs DEF State, ws
  <2>2. \A c \in Calls : Phase(watch'[c]) = IF c \in ws THEN "over" ELSE Phase(watch[c])
    BY <1>3, PhaseIs
  <2>3. ws \in SUBSET Calls
    BY <1>2 DEF ws
  <2>4. Promise!Become(ws, {"due"}, "over")
    BY <1>2, <2>1, <2>2, <2>3, Becomes
  <2>5. QED
    BY <1>4, <2>4 DEF Promise!Delivered
<1>10. QED
  BY <1>5, <1>7, <1>8, <1>9 DEF Follows, ws

(* Watches of a send that are given up, for good or in doubt.              *)
LEMMA AbandonKeeps ==
  ASSUME Follows, TypeOK', Answered, NEW cs \in SUBSET tick.sent, NEW doubt \in BOOLEAN,
         Abandon(cs, doubt), ~tick.started \/ cs = tick.sent
  PROVE  /\ \A c \in Calls : (Untold(c))'
         /\ Sending'
         /\ \A c \in Calls : InDoubt(c) => InDoubt(c)'
         /\ doubt => \A c \in cs : InDoubt(c)'
         /\ Promise!Become(cs \cap Listed, {"due"}, IF doubt THEN "doubtful" ELSE "over")
<1> \A c \in Calls : watch[c] \in Watch /\ watch'[c] \in Watch
  BY DEF Follows, TypeOK
<1>1. /\ tick'.pc # "sending" /\ tick'.sent = {} /\ ~tick'.started
      /\ UNCHANGED <<call, turns>> /\ tick.sent \subseteq Calls
      /\ \A c \in tick.sent \cap Listed : State(c) = "pendingDelivery" /\ ~watch[c].doubt
      /\ \A c \in tick.sent \ Listed : InDoubt(c)
  BY AnsweredFrees
<1>2. cs \in SUBSET Calls
  BY <1>1
<1> DEFINE lost == cs \cap Listed
<1>3. \A c \in Calls :
        \/ c \notin lost /\ watch'[c] = watch[c]
        \/ /\ c \in lost
           /\ watch'[c].state \in {"undeliverable", "trimmed"}
           /\ watch'[c].doubt = (watch[c].doubt \/ doubt)
        \/ /\ c \notin lost /\ State(c) = "undeliverable"
           /\ watch'[c].state = "trimmed"
           /\ watch'[c].doubt = watch[c].doubt
  BY <1>2, AbandonMoves DEF Follows
<1>4. \A c \in lost : State(c) = "pendingDelivery" /\ ~watch[c].doubt
  BY <1>1
<1>5. lost \in SUBSET Calls
  BY <1>2
<1>6. \A c \in cs \ lost : InDoubt(c)
  BY <1>1
<1> HIDE DEF lost
<1>7. \A c \in lost : State(c)' \in {"undeliverable", "trimmed"} /\ watch'[c].doubt = doubt
  <2>1. SUFFICES ASSUME NEW c \in lost
                 PROVE  State(c)' \in {"undeliverable", "trimmed"} /\ watch'[c].doubt = doubt
    OBVIOUS
  <2>2. /\ watch'[c].state \in {"undeliverable", "trimmed"}
        /\ watch'[c].doubt = (watch[c].doubt \/ doubt)
    BY <1>3, <1>5
  <2>3. watch[c].doubt = FALSE
    BY <1>4, <1>5 DEF Watch
  <2>4. QED
    BY <2>2, <2>3 DEF State
<1>8. \A c \in Calls : (Untold(c))'
  <2>1. ASSUME NEW c \in Calls, State(c)' \in {"undeliverable", "trimmed"},
               State(c) \in {"undeliverable", "pendingDelivery"}
        PROVE  (Untold(c))'
    <3>1. call[c] = "done"
      BY <2>1 DEF Follows, Untold
    <3>2. QED
      BY <1>1, <2>1, <3>1 DEF Untold
  <2>2. ASSUME NEW c \in Calls, c \notin lost, watch'[c] = watch[c]
        PROVE  (Untold(c))'
    <3>1. Untold(c)
      BY DEF Follows
    <3>2. State(c) = "pendingDelivery" /\ c \in tick.sent => turns[c] = 0
      <4>1. SUFFICES ASSUME State(c) = "pendingDelivery", c \in tick.sent
                     PROVE  turns[c] = 0
        OBVIOUS
      <4>2. c \notin cs
        BY <1>6, <2>2, <4>1 DEF InDoubt
      <4>3. ~tick.started
        BY <4>1, <4>2
      <4>4. QED
        BY <4>1, <4>3 DEF Follows, Sending
    <3>3. QED
      BY <1>1, <2>2, <3>1, <3>2 DEF Untold, State
  <2>3. SUFFICES ASSUME NEW c \in Calls PROVE (Untold(c))'
    OBVIOUS
  <2>4. CASE c \in lost
    <3>1. State(c) = "pendingDelivery" /\ State(c)' \in {"undeliverable", "trimmed"}
      BY <1>4, <1>7, <2>4
    <3>2. QED
      BY <2>1, <3>1
  <2>5. CASE c \notin lost /\ watch'[c] = watch[c]
    BY <2>2, <2>5
  <2>6. CASE State(c) = "undeliverable" /\ watch'[c].state = "trimmed"
    <3>1. State(c)' = "trimmed"
      BY <2>6 DEF State
    <3>2. QED
      BY <2>1, <2>6, <3>1
  <2>7. QED
    BY <1>3, <2>4, <2>5, <2>6
<1>9. Sending'
  BY <1>1 DEF Sending
<1>10. \A c \in Calls : InDoubt(c) => InDoubt(c)'
  <2>1. \A c \in lost : ~InDoubt(c)
    BY <1>4 DEF InDoubt
  <2>2. \A c \in Calls : c \notin lost => \/ watch'[c] = watch[c]
                                          \/ /\ State(c)' = "trimmed"
                                             /\ watch'[c].doubt = watch[c].doubt
    BY <1>3 DEF State
  <2>3. QED
    BY <2>1, <2>2 DEF InDoubt, State
<1>11. doubt => \A c \in cs : InDoubt(c)'
  BY <1>2, <1>6, <1>7, <1>10 DEF InDoubt
<1>12. Promise!Become(lost, {"due"}, IF doubt THEN "doubtful" ELSE "over")
  <2>1. \A c \in lost : Phase(watch[c]) = "due"
    BY <1>4, <1>5, PhaseIs DEF State
  <2>2. ASSUME NEW c \in lost
        PROVE  Phase(watch'[c]) = IF doubt THEN "doubtful" ELSE "over"
    <3>1. watch'[c] \in Watch
      BY <1>5
    <3>2. watch'[c].state \in {"undeliverable", "trimmed"} /\ watch'[c].doubt = doubt
      BY <1>7 DEF State
    <3>3. QED
      BY <3>1, <3>2, PhaseIs
  <2>3. ASSUME NEW c \in Calls, c \notin lost  PROVE Phase(watch'[c]) = Phase(watch[c])
    <3>1. CASE watch'[c] = watch[c]
      BY <3>1
    <3>2. CASE /\ State(c) = "undeliverable" /\ watch'[c].state = "trimmed"
               /\ watch'[c].doubt = watch[c].doubt
      BY <3>2, PhaseIs DEF State
    <3>3. QED
      BY <1>3, <2>3, <3>1, <3>2
  <2>4. \A c \in Calls :
          Phase(watch'[c]) = IF c \in lost THEN IF doubt THEN "doubtful" ELSE "over"
                                           ELSE Phase(watch[c])
    BY <2>2, <2>3
  <2>5. QED
    BY <1>1, <1>5, <2>1, <2>4, Becomes
<1>13. QED
  BY <1>8, <1>9, <1>10, <1>11, <1>12 DEF lost

LEMMA SendRefusedGivesUp ==
  ASSUME Follows, TypeOK', SendRefused
  PROVE  Follows' /\ \E ws \in SUBSET Calls : Promise!GiveUp(ws)
<1>1. Answered /\ ~tick.started /\ UNCHANGED late
  BY DEF SendRefused
<1>2. PICK permanent \in BOOLEAN :
        Abandon({c \in tick.sent : permanent \/ watch[c].stale}, FALSE)
  BY DEF SendRefused
<1> DEFINE cs == {c \in tick.sent : permanent \/ watch[c].stale}
           ws == cs \cap Listed
<1>3. cs \in SUBSET tick.sent /\ Abandon(cs, FALSE)
  BY <1>2
<1> HIDE DEF cs
<1>4. /\ \A c \in Calls : (Untold(c))'
      /\ Sending'
      /\ \A c \in Calls : InDoubt(c) => InDoubt(c)'
      /\ Promise!Become(ws, {"due"}, "over")
  BY <1>1, <1>3, AbandonKeeps
<1>5. tick.sent \subseteq Calls /\ tick'.sent = {} /\ UNCHANGED turns
  BY <1>1, AnsweredFrees
<1>6. InFlight'
  <2>1. \A ds \in late : ds \subseteq Calls
    BY DEF Follows, TypeOK
  <2>2. QED
    BY <1>1, <1>4, <1>5, <2>1 DEF Follows, InFlight
<1>7. ws \in SUBSET Calls /\ \A c \in ws : turns[c] = 0
  BY <1>1, <1>3, <1>5 DEF Follows, Sending
<1>8. Promise!GiveUp(ws)
  BY <1>4, <1>7 DEF Promise!GiveUp
<1>9. QED
  BY <1>4, <1>6, <1>7, <1>8 DEF Follows

LEMMA SendUnknownDoubts ==
  ASSUME Follows, TypeOK', SendUnknown
  PROVE  Follows' /\ Promise!Doubt(tick.sent \cap Listed)
<1>1. Answered /\ Abandon(tick.sent, TRUE)
  BY DEF SendUnknown
<1>2. /\ \A c \in Calls : (Untold(c))'
      /\ Sending'
      /\ \A c \in Calls : InDoubt(c) => InDoubt(c)'
      /\ \A c \in tick.sent : InDoubt(c)'
      /\ Promise!Become(tick.sent \cap Listed, {"due"}, "doubtful")
  BY <1>1, AbandonKeeps
<1>3. tick.sent \subseteq Calls /\ tick'.sent = {} /\ UNCHANGED turns
  BY <1>1, AnsweredFrees
<1>4. \A ds \in late : ds \subseteq Calls
  BY DEF Follows, TypeOK
<1>5. InFlight'
  <2>1. CASE UNCHANGED late
    BY <1>2, <1>3, <1>4, <2>1 DEF Follows, InFlight
  <2>2. CASE ~tick.started /\ late' = late \cup {tick.sent}
    <3>1. /\ \A c \in tick.sent : turns[c] = 0
          /\ \A c, d \in tick.sent : Notify[c] = Notify[d]
      BY <2>2 DEF Follows, Sending
    <3>2. \A ds \in late : ds \cap tick.sent = {}
      BY DEF Follows, InFlight
    <3>3. \A ds \in late :
            /\ \A c \in ds : InDoubt(c)' /\ turns[c] = 0
            /\ \A c, d \in ds : Notify[c] = Notify[d]
            /\ \A es \in late : ds # es => ds \cap es = {}
      BY <1>2, <1>4 DEF Follows, InFlight
    <3>4. QED
      BY <1>2, <1>3, <2>2, <3>1, <3>2, <3>3 DEF InFlight
  <2>3. QED
    BY <2>1, <2>2 DEF SendUnknown
<1>6. QED
  BY <1>2, <1>5 DEF Follows, Promise!Doubt

LEMMA CloseCloses ==
  ASSUME Follows, TypeOK', Close
  PROVE  Follows' /\ Promise!Close
<1> \A c \in Calls : watch[c] \in Watch /\ watch'[c] \in Watch
  BY DEF Follows, TypeOK
<1>1. UNCHANGED <<call, tick, late, turns>>
  BY DEF Close
<1>2. \A c \in Calls :
        IF c \in Listed
        THEN /\ watch'[c].state = "closed"
             /\ watch'[c].doubt = (watch[c].doubt \/ State(c) = "pendingDelivery")
        ELSE watch'[c] = watch[c]
  BY CloseMoves DEF Follows
<1>3. \A c \in Listed : State(c) \in {"watching", "pendingDelivery", "undeliverable"}
  BY DEF Listed, Active, In
<1>4. \A c \in Calls : (Untold(c))'
  <2>1. ASSUME NEW c \in Calls, c \in Listed  PROVE (Untold(c))'
    <3>1. State(c)' = "closed" /\ call[c] = "done"
      BY <1>2, <1>3, <2>1 DEF State, Follows, Untold
    <3>2. QED
      BY <1>1, <3>1 DEF Untold
  <2>2. ASSUME NEW c \in Calls, c \notin Listed  PROVE (Untold(c))'
    BY <1>1, <1>2, <2>2 DEF Follows, Untold, State
  <2>3. QED
    BY <2>1, <2>2
<1>5. \A c \in Calls : InDoubt(c) => InDoubt(c)'
  BY <1>2 DEF InDoubt, State
<1>6. Sending'
  <2>1. ASSUME NEW c \in tick.sent
        PROVE  (State(c)' = "closed" /\ watch'[c].doubt) \/ UNCHANGED watch[c]
    <3>1. c \in Calls
      BY DEF Follows, TypeOK, Tick
    <3>2. State(c) = "pendingDelivery" => c \in Listed
      BY <3>1 DEF Listed, Active, In
    <3>3. State(c) = "pendingDelivery" \/ (State(c) = "closed" /\ watch[c].doubt)
      BY DEF Follows, Sending
    <3>4. QED
      BY <1>2, <3>1, <3>2, <3>3 DEF State
  <2>2. QED
    BY <1>1, <2>1 DEF Follows, Sending, State
<1>7. InFlight'
  <2>1. \A cs \in late : cs \subseteq Calls
    BY DEF Follows, TypeOK
  <2>2. QED
    BY <1>1, <1>5, <2>1 DEF Follows, InFlight
<1>8. Promise!Close
  <2>1. ASSUME NEW c \in Calls
        PROVE  Phase(watch'[c]) =
                 CASE Phase(watch[c]) = "armed" -> "over"
                   [] Phase(watch[c]) = "due" -> "doubtful"
                   [] OTHER -> Phase(watch[c])
    <3>1. CASE State(c) = "watching"
      <4>1. c \in Listed /\ ~watch[c].doubt
        BY <3>1 DEF Listed, Active, In, Follows, Untold
      <4>2. watch'[c].state = "closed" /\ ~watch'[c].doubt
        BY <1>2, <3>1, <4>1
      <4>3. Phase(watch[c]) = "armed" /\ Phase(watch'[c]) = "over"
        BY <3>1, <4>2, PhaseIs DEF State
      <4>4. QED
        BY <4>3
    <3>2. CASE State(c) = "pendingDelivery"
      <4>1. c \in Listed
        BY <3>2 DEF Listed, Active, In
      <4>2. watch'[c].state = "closed" /\ watch'[c].doubt
        BY <1>2, <3>2, <4>1
      <4>3. Phase(watch[c]) = "due" /\ Phase(watch'[c]) = "doubtful"
        BY <3>2, <4>2, PhaseIs DEF State
      <4>4. QED
        BY <4>3
    <3>3. CASE State(c) = "undeliverable"
      <4>1. c \in Listed
        BY <3>3 DEF Listed, In
      <4>2. watch'[c].state = "closed" /\ watch'[c].doubt = watch[c].doubt
        BY <1>2, <3>3, <4>1 DEF Watch
      <4>3. Phase(watch[c]) \in {"doubtful", "over"} /\ Phase(watch'[c]) = Phase(watch[c])
        BY <3>3, <4>2, PhaseIs DEF State
      <4>4. QED
        BY <4>3
    <3>4. CASE State(c) \notin {"watching", "pendingDelivery", "undeliverable"}
      <4>1. watch'[c] = watch[c]
        BY <1>2, <1>3, <3>4
      <4>2. Phase(watch[c]) \in {"none", "doubtful", "over"}
        BY <3>4, PhaseIs DEF State
      <4>3. QED
        BY <4>1, <4>2
    <3>5. QED
      BY <3>1, <3>2, <3>3, <3>4
  <2>2. QED
    BY <1>1, <2>1 DEF Promise!Close
<1>9. QED
  BY <1>4, <1>6, <1>7, <1>8 DEF Follows

LEMMA FollowsInit == Init => Follows /\ Promise!Init
<1>1. SUFFICES ASSUME Init PROVE Follows /\ Promise!Init
  OBVIOUS
<1>2. /\ \A c \in Calls : watch[c] = NoWatch /\ turns[c] = 0
      /\ tick.pc = "off" /\ tick.sent = {} /\ ~tick.started /\ late = {}
  BY <1>1 DEF Init, NoTick
<1>3. NoWatch.state = "none" /\ ~NoWatch.doubt /\ Phase(NoWatch) = "none"
  BY NoWatchTyped, PhaseIs DEF NoWatch
<1>4. \A c \in Calls : Untold(c)
  BY <1>2, <1>3 DEF Untold, State
<1>5. Sending /\ InFlight
  BY <1>2 DEF Sending, InFlight
<1>6. Promise!Init
  <2>1. turns = [c \in Calls |-> 0]
    BY <1>1 DEF Init
  <2>2. QED
    BY <1>2, <1>3, <2>1 DEF Promise!Init
<1>7. QED
  BY <1>1, <1>4, <1>5, <1>6, InitTyped DEF Follows

LEMMA FollowsStep ==
  TypeOK' /\ Follows /\ [Next]_vars => Follows' /\ [Promise!Next]_PromiseVars
<1> SUFFICES ASSUME TypeOK', Follows, [Next]_vars
             PROVE  Follows' /\ [Promise!Next]_PromiseVars
  OBVIOUS
<1>1. CASE UNCHANGED vars
  <2>1. UNCHANGED <<watch, call, tick, turns, late>>
    BY <1>1 DEF vars
  <2>2. QED
    BY <2>1, QuietSteps DEF State
<1>2. CASE \/ \E t \in Threads : ThreadChanges(t)
           \/ \E c \in Calls : Deadline(c) \/ GraceOver(c) \/ DeliveryWindowOver(c)
           \/ \E c \in Calls : ReadTarget(c)
  BY <1>2, QuietEnvironment
<1>3. CASE TimerFires \/ ObserveBegins \/ ObservedAll \/ TickEnds
  BY <1>3, QuietTicks
<1>4. ASSUME NEW c \in Calls, Register(c)
      PROVE  Follows' /\ [Promise!Next]_PromiseVars
  BY <1>4, RegisterArms DEF Promise!Next
<1>5. CASE ObserveEnds
  BY <1>5, ObserveEndsFallsDue DEF Promise!Next
<1>6. CASE Send
  BY <1>6, SendTakes
<1>7. CASE TurnStarts
  <2>1. tick.sent \in SUBSET Calls
    BY DEF Follows, TypeOK, Tick
  <2>2. QED
    BY <1>7, <2>1, TurnTells DEF Promise!Next
<1>8. CASE LateTurn
  BY <1>8, LateTurnTells DEF Promise!Next
<1>9. CASE SendSucceeds
  <2>1. tick.sent \cap Listed \in SUBSET Calls
    BY DEF Follows, TypeOK, Tick
  <2>2. QED
    BY <1>9, <2>1, SendSucceedsDelivers DEF Promise!Next
<1>10. CASE SendRefused
  BY <1>10, SendRefusedGivesUp DEF Promise!Next
<1>11. CASE SendUnknown
  <2>1. tick.sent \cap Listed \in SUBSET Calls
    BY DEF Follows, TypeOK, Tick
  <2>2. QED
    BY <1>11, <2>1, SendUnknownDoubts DEF Promise!Next
<1>12. CASE Close
  BY <1>12, CloseCloses DEF Promise!Next
<1>13. QED
  BY <1>1, <1>2, <1>3, <1>4, <1>5, <1>6, <1>7, <1>8, <1>9, <1>10, <1>11, <1>12
     DEF Next, TickStep

(* The service keeps the promise of OneShot: a watch falls due once, and   *)
(* what is due is told in at most one Turn - however sends fail, Turns     *)
(* begin late, and close() comes in between.                               *)
THEOREM ImplementsPromise == Spec => KeepsPromise
<1>1. QED
  BY FollowsInit, FollowsStep, TypeCorrect, PTL DEF Spec, KeepsPromise, Promise!Spec, PromiseVars

-----------------------------------------------------------------------------
(* The undeliverable watches that are kept, by their places in the order.  *)

\* Numbers up to n have a least one.  Their initial intervals are finite sets,
\* which strict inclusion orders well.
LEMMA LeastIndex ==
  ASSUME NEW n \in Nat, NEW T \in SUBSET (1 .. n), T # {}
  PROVE  \E x \in T : \A y \in T : x <= y
<1> DEFINE Upto == {1 .. x : x \in T}
<1>1. /\ Upto \subseteq FiniteSubsetsOf(1 .. n)
      /\ Upto # {}
  <2>1. \A x \in T : IsFiniteSet(1 .. x) /\ 1 .. x \subseteq 1 .. n
    BY FS_Interval
  <2>2. \A x \in T : 1 .. x \in FiniteSubsetsOf(1 .. n)
    BY <2>1 DEF FiniteSubsetsOf
  <2>3. QED
    BY <2>2
<1>2. IsWellFoundedOn(StrictSubsetOrdering(1 .. n), FiniteSubsetsOf(1 .. n))
  BY FS_StrictSubsetOrderingWellFounded, Zenon
<1>3. PICK X \in Upto : \A Y \in Upto : ~(<<Y, X>> \in StrictSubsetOrdering(1 .. n))
  <2> HIDE DEF Upto
  <2>1. QED
    BY <1>1, <1>2, WFMin, Zenon
<1>4. PICK x \in T : X = 1 .. x
  OBVIOUS
<1>5. ASSUME NEW y \in T, y < x
      PROVE FALSE
  <2>1. 1 .. y \subseteq 1 .. x /\ 1 .. y # 1 .. x
    BY <1>5
  <2>2. <<1 .. y, X>> \in StrictSubsetOrdering(1 .. n)
    BY <2>1, <1>4 DEF StrictSubsetOrdering
  <2>3. QED
    BY <2>2, <1>3
<1>6. QED
  BY <1>5

(* Each watch that was ever added has one place in the order.              *)
Placed ==
  /\ \A m, n \in DOMAIN order : order[m] = order[n] => m = n
  /\ \A c \in Calls : State(c) # "none" => \E n \in DOMAIN order : order[n] = c
  /\ \A n \in DOMAIN order : State(order[n]) # "none"

(* Where one was trimmed there is no room for another, until all is        *)
(* forgotten.                                                              *)
Full == In("trimmed") # {} /\ ~closed => Cardinality(In("undeliverable")) >= MaxUndeliverable

BacklogInv == Placed /\ Full /\ (closed => Listed = {}) /\ BacklogIsNewest

(* The registered watches are in a line.                                   *)
LEMMA Line ==
  ASSUME TypeOK, Placed
  PROVE  /\ \A c, d, e \in Calls : Before(c, d) /\ Before(d, e) => Before(c, e)
         /\ \A c, d \in Calls : ~(Before(c, d) /\ Before(d, c))
         /\ \A c, d \in Calls :
              State(c) # "none" /\ State(d) # "none" /\ c # d => Before(c, d) \/ Before(d, c)
<1>1. DOMAIN order \subseteq Nat
  BY DEF TypeOK
<1>2. \A c, d, e \in Calls : Before(c, d) /\ Before(d, e) => Before(c, e)
  <2> SUFFICES ASSUME NEW c \in Calls, NEW d \in Calls, NEW e \in Calls,
                      Before(c, d), Before(d, e)
               PROVE  Before(c, e)
    OBVIOUS
  <2>1. PICK m, n \in DOMAIN order : m < n /\ order[m] = c /\ order[n] = d
    BY DEF Before
  <2>2. PICK p, q \in DOMAIN order : p < q /\ order[p] = d /\ order[q] = e
    BY DEF Before
  <2>3. n = p
    BY <2>1, <2>2 DEF Placed
  <2>4. m < q
    BY <1>1, <2>1, <2>2, <2>3
  <2>5. QED
    BY <2>1, <2>2, <2>4 DEF Before
<1>3. \A c, d \in Calls : ~(Before(c, d) /\ Before(d, c))
  <2> SUFFICES ASSUME NEW c \in Calls, NEW d \in Calls, Before(c, d), Before(d, c)
               PROVE  FALSE
    OBVIOUS
  <2>1. PICK m, n \in DOMAIN order : m < n /\ order[m] = c /\ order[n] = d
    BY DEF Before
  <2>2. PICK p, q \in DOMAIN order : p < q /\ order[p] = d /\ order[q] = c
    BY DEF Before
  <2>3. n = p /\ m = q
    BY <2>1, <2>2 DEF Placed
  <2>4. QED
    BY <1>1, <2>1, <2>2, <2>3
<1>4. ASSUME NEW c \in Calls, NEW d \in Calls, State(c) # "none", State(d) # "none", c # d
      PROVE  Before(c, d) \/ Before(d, c)
  <2>1. PICK m \in DOMAIN order : order[m] = c
    BY <1>4 DEF Placed
  <2>2. PICK n \in DOMAIN order : order[n] = d
    BY <1>4 DEF Placed
  <2>3. m < n \/ n < m
    BY <1>1, <1>4, <2>1, <2>2
  <2>4. QED
    BY <2>1, <2>2, <2>3 DEF Before
<1>5. QED
  BY <1>2, <1>3, <1>4

(* Of some registered watches one comes first and one comes last.          *)
LEMMA Ends ==
  ASSUME TypeOK, Placed, NEW K \in SUBSET Calls, K # {},
         \A c \in K : State(c) # "none"
  PROVE  /\ \E m \in K : \A c \in K : c # m => Before(m, c)
         /\ \E m \in K : \A c \in K : c # m => Before(c, m)
<1> DEFINE L == Len(order)
           T == {n \in 1 .. L : order[n] \in K}
           R == {n \in 1 .. L : order[L + 1 - n] \in K}
<1>1. L \in Nat /\ DOMAIN order = 1 .. L
  BY DEF TypeOK
<1>2. \A c \in K : \E n \in T : order[n] = c
  BY <1>1 DEF Placed
<1>3. \A c \in K : \E n \in R : order[L + 1 - n] = c
  <2> SUFFICES ASSUME NEW c \in K PROVE \E n \in R : order[L + 1 - n] = c
    OBVIOUS
  <2>1. PICK n \in 1 .. L : order[n] = c
    BY <1>2
  <2>2. L + 1 - n \in 1 .. L /\ L + 1 - (L + 1 - n) = n
    BY <1>1
  <2>3. QED
    BY <2>1, <2>2
<1>4. T # {} /\ R # {} /\ T \in SUBSET (1 .. L) /\ R \in SUBSET (1 .. L)
  BY <1>2, <1>3
<1>5. PICK x \in T : \A y \in T : x <= y
  <2> HIDE DEF T, L
  <2>1. QED
    BY <1>1, <1>4, LeastIndex
<1>6. PICK u \in R : \A v \in R : u <= v
  <2> HIDE DEF R, L
  <2>1. QED
    BY <1>1, <1>4, LeastIndex
<1>7. ASSUME NEW c \in K, c # order[x]  PROVE Before(order[x], c)
  <2>1. PICK n \in T : order[n] = c
    BY <1>2
  <2>2. x <= n /\ x # n
    BY <1>5, <1>7, <2>1
  <2>3. x < n
    BY <1>1, <2>2
  <2>4. QED
    BY <1>1, <2>1, <2>3 DEF Before
<1>8. ASSUME NEW c \in K, c # order[L + 1 - u]  PROVE Before(c, order[L + 1 - u])
  <2>1. PICK n \in R : order[L + 1 - n] = c
    BY <1>3
  <2>2. u <= n /\ u # n
    BY <1>6, <1>8, <2>1
  <2>3. L + 1 - n < L + 1 - u /\ L + 1 - n \in 1 .. L /\ L + 1 - u \in 1 .. L
    BY <1>1, <2>2
  <2>4. QED
    BY <1>1, <2>1, <2>3 DEF Before
<1>9. QED
  BY <1>7, <1>8

(* Registered watches are finitely many.                                   *)
LEMMA FiniteRegistered ==
  ASSUME TypeOK, Placed, NEW K \in SUBSET Calls, \A c \in K : State(c) # "none"
  PROVE  IsFiniteSet(K)
<1> DEFINE T == {n \in 1 .. Len(order) : order[n] \in K}
           f == [n \in T |-> order[n]]
<1>1. Len(order) \in Nat /\ DOMAIN order = 1 .. Len(order)
  BY DEF TypeOK
<1>2. IsFiniteSet(1 .. Len(order)) /\ T \in SUBSET (1 .. Len(order))
  BY <1>1, FS_Interval
<1>3. IsFiniteSet(T)
  BY <1>2, FS_Subset
<1>4. f \in Surjection(T, K)
  BY <1>1 DEF Placed, Surjection
<1>5. QED
  BY <1>3, <1>4, FS_Surjection

(* Of some registered watches the last ones remain, as many as there may   *)
(* be.                                                                     *)
LEMMA NewestKept ==
  ASSUME TypeOK, Placed, NEW S \in SUBSET Calls, \A c \in S : State(c) # "none"
  PROVE  /\ Cardinality(S \ Excess(S)) \in Nat
         /\ Cardinality(S \ Excess(S)) <= MaxUndeliverable
         /\ Excess(S) # {} => Cardinality(S \ Excess(S)) >= MaxUndeliverable
         /\ \A c \in Excess(S), d \in S \ Excess(S) : Before(c, d)
<1> DEFINE K == S \ Excess(S)
           After(c) == {d \in S : Before(c, d)}
<1>1. /\ IsFiniteSet(S) /\ IsFiniteSet(K) /\ Cardinality(K) \in Nat
      /\ \A c \in S : IsFiniteSet(After(c)) /\ Cardinality(After(c)) \in Nat
  <2>1. IsFiniteSet(S)
    BY FiniteRegistered
  <2>2. \A X \in SUBSET S : IsFiniteSet(X) /\ Cardinality(X) \in Nat
    BY <2>1, FS_Subset, FS_CardinalityType
  <2>3. K \in SUBSET S /\ \A c \in S : After(c) \in SUBSET S
    OBVIOUS
  <2> HIDE DEF K, After
  <2>4. QED
    BY <2>1, <2>2, <2>3
<1>2. /\ MaxUndeliverable \in Nat /\ MaxUndeliverable >= 1
      /\ Excess(S) \subseteq S
      /\ \A c \in S : c \in Excess(S) <=> Cardinality(After(c)) >= MaxUndeliverable
  BY WatchAssumption DEF Excess
<1>3. ASSUME NEW c \in Excess(S), NEW d \in K  PROVE Before(c, d)
  <2>1. c \in S /\ d \in S /\ c # d /\ State(c) # "none" /\ State(d) # "none"
    BY <1>2
  <2>2. ~Before(d, c)
    <3> SUFFICES ASSUME Before(d, c) PROVE FALSE
      OBVIOUS
    <3>1. After(c) \in SUBSET After(d)
      BY <2>1, Line
    <3>2. Cardinality(After(c)) <= Cardinality(After(d))
      <4> HIDE DEF After
      <4>1. QED
        BY <1>1, <2>1, <3>1, FS_Subset
    <3>3. Cardinality(After(d)) >= MaxUndeliverable
      <4> HIDE DEF After
      <4>1. QED
        BY <1>1, <1>2, <2>1, <3>2
    <3>4. QED
      BY <1>2, <2>1, <3>3
  <2>3. QED
    BY <2>1, <2>2, Line
<1>4. Cardinality(K) <= MaxUndeliverable
  <2>1. CASE K = {}
    BY <1>2, <2>1, FS_EmptySet
  <2>2. CASE K # {}
    <3>1. PICK m \in K : \A c \in K : c # m => Before(m, c)
      <4>1. K \in SUBSET Calls /\ \A c \in K : State(c) # "none"
        OBVIOUS
      <4> HIDE DEF K
      <4>2. QED
        BY <2>2, <4>1, Ends
    <3>2. K \ {m} \in SUBSET After(m) /\ m \in S
      BY <3>1
    <3>3. ~(Cardinality(After(m)) >= MaxUndeliverable)
      BY <1>2, <3>2
    <3> HIDE DEF K, After
    <3>4. Cardinality(K \ {m}) = Cardinality(K) - 1
      BY <1>1, <3>1, FS_RemoveElement
    <3>5. Cardinality(K \ {m}) <= Cardinality(After(m))
      BY <1>1, <3>2, FS_Subset
    <3>6. QED
      BY <1>1, <1>2, <3>2, <3>3, <3>4, <3>5
  <2>3. QED
    BY <2>1, <2>2
<1>5. ASSUME Excess(S) # {}  PROVE Cardinality(K) >= MaxUndeliverable
  <2>1. PICK m \in Excess(S) : \A c \in Excess(S) : c # m => Before(c, m)
    BY <1>2, <1>5, Ends
  <2>2. After(m) \in SUBSET K
    BY <1>2, <2>1, Line
  <2>3. Cardinality(After(m)) >= MaxUndeliverable /\ m \in S
    BY <1>2, <2>1
  <2> HIDE DEF K, After
  <2>4. Cardinality(After(m)) <= Cardinality(K)
    BY <1>1, <2>2, FS_Subset
  <2>5. QED
    BY <1>1, <1>2, <2>3, <2>4
<1>6. QED
  BY <1>1, <1>3, <1>4, <1>5

(* A watch before which the list was full already is one too many.         *)
LEMMA LateLoserGoes ==
  ASSUME TypeOK, Placed, NEW S \in SUBSET Calls, \A c \in S : State(c) # "none",
         NEW U \in SUBSET S, Cardinality(U) >= MaxUndeliverable,
         NEW d \in S, \A c \in U : Before(d, c)
  PROVE  d \in Excess(S)
<1> DEFINE After == {c \in S : Before(d, c)}
<1>1. IsFiniteSet(After) /\ U \in SUBSET After
  <2>1. IsFiniteSet(S)
    BY FiniteRegistered
  <2>2. QED
    BY <2>1, FS_Subset
<1>2. Cardinality(U) <= Cardinality(After) /\ Cardinality(After) \in Nat
      /\ Cardinality(U) \in Nat
  <2> HIDE DEF After
  <2>1. QED
    BY <1>1, FS_Subset, FS_CardinalityType
<1>3. Cardinality(After) >= MaxUndeliverable
  <2> HIDE DEF After
  <2>1. QED
    BY <1>2, WatchAssumption
<1>4. QED
  BY <1>3 DEF Excess

(* Steps that give up no watch and forget none.                            *)
LEMMA BacklogStays ==
  ASSUME BacklogInv, UNCHANGED <<order, closed>>,
         \A c \in Calls : \/ State(c)' = State(c)
                          \/ /\ State(c) \in {"watching", "pendingDelivery"}
                             /\ State(c)' \in {"watching", "pendingDelivery", "told"},
         order \in Seq(Calls)
  PROVE  BacklogInv'
<1>1. In("trimmed")' = In("trimmed") /\ In("undeliverable")' = In("undeliverable")
      /\ Listed' \subseteq Listed
  BY DEF In, Listed, Active
<1>2. \A n \in DOMAIN order : order[n] \in Calls
  OBVIOUS
<1>3. Placed'
  BY <1>2 DEF BacklogInv, Placed
<1>4. \A c, d \in Calls : Before(c, d)' <=> Before(c, d)
  BY DEF Before
<1>5. BacklogIsNewest'
  BY <1>1, <1>4 DEF BacklogInv, BacklogIsNewest, In
<1>6. QED
  BY <1>1, <1>3, <1>5 DEF BacklogInv, Full

(* A new watch comes last.                                                 *)
LEMMA BacklogRegister ==
  ASSUME TypeOK, BacklogInv, NEW c \in Calls, Untold(c), Register(c)
  PROVE  BacklogInv'
<1>1. UNCHANGED closed /\ State(c) = "none" /\ order \in Seq(Calls)
  BY DEF Register, Untold, TypeOK
<1>2. CASE UNCHANGED <<watch, order, timer>>
  BY <1>1, <1>2, BacklogStays DEF State
<1>3. CASE Push(c) /\ ~closed
  <2>1. /\ order' = Append(order, c)
        /\ \A d \in Calls : State(d)' = IF d = c THEN "watching" ELSE State(d)
    BY <1>3, <1>1 DEF Push, State, TypeOK, Watch
  <2>2. /\ Len(order) \in Nat /\ DOMAIN order = 1 .. Len(order)
        /\ DOMAIN order' = 1 .. Len(order) + 1
        /\ \A n \in DOMAIN order : order'[n] = order[n] /\ order[n] \in Calls
        /\ order'[Len(order) + 1] = c
    BY <1>1, <2>1
  <2>3. \A n \in DOMAIN order : order[n] # c
    BY <1>1, <2>2 DEF BacklogInv, Placed
  <2>4. \A n \in DOMAIN order' : n = Len(order) + 1 \/ n \in DOMAIN order
    BY <2>2
  <2>5. Placed'
    <3>1. \A m, n \in DOMAIN order' : order'[m] = order'[n] => m = n
      BY <2>2, <2>3, <2>4 DEF BacklogInv, Placed
    <3>2. \A d \in Calls : State(d)' # "none" => \E n \in DOMAIN order' : order'[n] = d
      <4> SUFFICES ASSUME NEW d \in Calls, State(d)' # "none"
                   PROVE  \E n \in DOMAIN order' : order'[n] = d
        OBVIOUS
      <4>1. CASE d = c
        <5>1. Len(order) + 1 \in DOMAIN order'
          BY <2>2
        <5>2. QED
          BY <2>2, <4>1, <5>1
      <4>2. CASE d # c
        <5>1. PICK n \in DOMAIN order : order[n] = d
          BY <2>1, <4>2 DEF BacklogInv, Placed
        <5>2. n \in DOMAIN order'
          BY <2>2
        <5>3. QED
          BY <2>2, <5>1, <5>2
      <4>3. QED
        BY <4>1, <4>2
    <3>3. \A n \in DOMAIN order' : watch'[order'[n]].state # "none"
      <4> SUFFICES ASSUME NEW n \in DOMAIN order' PROVE watch'[order'[n]].state # "none"
        OBVIOUS
      <4>1. CASE n = Len(order) + 1
        BY <2>1, <2>2, <4>1 DEF State
      <4>2. CASE n \in DOMAIN order
        <5>1. State(order[n]) # "none"
          BY <4>2 DEF BacklogInv, Placed
        <5>2. State(order[n])' # "none" /\ order'[n] = order[n]
          BY <2>1, <2>2, <4>2, <5>1
        <5>3. QED
          BY <5>2 DEF State
      <4>3. QED
        BY <2>4, <4>1, <4>2
    <3>4. QED
      BY <3>1, <3>2, <3>3 DEF Placed, State
  <2>6. In("trimmed")' = In("trimmed") /\ In("undeliverable")' = In("undeliverable")
    BY <1>1, <2>1 DEF In
  <2>7. \A d, e \in Calls : Before(d, e) => Before(d, e)'
    <3>1. DOMAIN order \subseteq DOMAIN order'
      BY <2>2
    <3>2. QED
      BY <2>2, <3>1 DEF Before
  <2>8. BacklogIsNewest'
    BY <2>6, <2>7 DEF BacklogInv, BacklogIsNewest, In
  <2>9. QED
    BY <1>1, <1>3, <2>5, <2>6, <2>8 DEF BacklogInv, Full
<1>4. QED
  BY <1>2, <1>3 DEF Register

(* Watches that are given up: those that registered last remain.           *)
LEMMA BacklogAbandon ==
  ASSUME TypeOK, BacklogInv, UNCHANGED closed,
         NEW cs \in SUBSET Calls, NEW doubt \in BOOLEAN, Abandon(cs, doubt)
  PROVE  BacklogInv'
<1> DEFINE lost == cs \cap Listed
           S == lost \cup In("undeliverable")
           given(c) == [NoWatch EXCEPT !.state = IF c \in Excess(S) THEN "trimmed" ELSE "undeliverable",
                                       !.doubt = watch[c].doubt \/ (doubt /\ c \in lost)]
<1>1. UNCHANGED order /\ order \in Seq(Calls)
  BY DEF Abandon, TypeOK
<1>2. Excess(S) \subseteq S /\ S \in SUBSET Calls /\ \A c \in S : State(c) # "none"
  BY DEF Excess, In, Listed, Active
<1>3. watch' = [c \in Calls |-> IF c \in lost \cup Excess(S) THEN given(c) ELSE watch[c]]
  BY DEF Abandon
<1>4. \A c \in Calls : given(c).state = IF c \in Excess(S) THEN "trimmed" ELSE "undeliverable"
  BY DEF NoWatch
<1> HIDE DEF given
<1>5. /\ In("undeliverable")' = S \ Excess(S)
      /\ In("trimmed")' = In("trimmed") \cup Excess(S)
      /\ \A c \in Calls : State(c)' = "none" <=> State(c) = "none"
      /\ Listed' \subseteq Listed
  <2>1. \A c \in Calls :
          State(c)' = IF c \in Excess(S) THEN "trimmed"
                      ELSE IF c \in lost THEN "undeliverable" ELSE State(c)
    BY <1>3, <1>4 DEF State
  <2>2. lost \subseteq Calls /\ \A c \in lost : State(c) \in {"watching", "pendingDelivery", "undeliverable"}
    BY DEF Listed, Active, In
  <2> HIDE DEF lost
  <2>3. In("undeliverable")' = S \ Excess(S)
    BY <1>2, <2>1, <2>2 DEF In
  <2>4. In("trimmed")' = In("trimmed") \cup Excess(S)
    BY <1>2, <2>1, <2>2 DEF In
  <2>5. \A c \in Calls : State(c)' = "none" <=> State(c) = "none"
    BY <1>2, <2>1, <2>2
  <2>6. Listed' \subseteq Listed
    BY <1>2, <2>1, <2>2 DEF Listed, Active, In
  <2>7. QED
    BY <2>3, <2>4, <2>5, <2>6
<1>6. /\ Cardinality(S \ Excess(S)) \in Nat
      /\ Cardinality(S \ Excess(S)) <= MaxUndeliverable
      /\ Excess(S) # {} => Cardinality(S \ Excess(S)) >= MaxUndeliverable
      /\ \A c \in Excess(S), d \in S \ Excess(S) : Before(c, d)
  <2> HIDE DEF S
  <2>1. QED
    BY <1>2, NewestKept DEF BacklogInv
<1>7. \A n \in DOMAIN order : order[n] \in Calls
  BY <1>1
<1>8. Placed'
  BY <1>1, <1>5, <1>7 DEF BacklogInv, Placed
<1>9. \A c, d \in Calls : Before(c, d)' <=> Before(c, d)
  BY <1>1 DEF Before
<1>10. In("trimmed") # {} /\ ~closed => Cardinality(In("undeliverable")) >= MaxUndeliverable
  BY DEF BacklogInv, Full
<1>11. ASSUME NEW c \in In("trimmed"), NEW d \in S \ Excess(S)  PROVE Before(c, d)
  <2>1. CASE d \in In("undeliverable")
    BY <2>1 DEF BacklogInv, BacklogIsNewest
  <2>2. CASE d \in lost
    <3>1. ~closed /\ d \in S /\ c \in Calls /\ d \in Calls
      BY <2>2 DEF BacklogInv, In, Listed, Active
    <3>2. State(c) = "trimmed" /\ State(d) \in {"watching", "pendingDelivery", "undeliverable"}
      BY <2>2 DEF In, Listed, Active
    <3>3. ~Before(d, c)
      <4> SUFFICES ASSUME Before(d, c) PROVE FALSE
        OBVIOUS
      <4>1. \A e \in In("undeliverable") : Before(d, e)
        <5>1. \A e \in In("undeliverable") : e \in Calls /\ Before(c, e)
          BY DEF BacklogInv, BacklogIsNewest, In
        <5>2. QED
          BY <3>1, <5>1, Line DEF BacklogInv
      <4>2. Cardinality(In("undeliverable")) >= MaxUndeliverable
        BY <1>10, <3>1
      <4>3. In("undeliverable") \in SUBSET S
        OBVIOUS
      <4>4. d \in Excess(S)
        <5> HIDE DEF S
        <5>1. QED
          BY <1>2, <3>1, <4>1, <4>2, <4>3, LateLoserGoes DEF BacklogInv
      <4>5. QED
        BY <4>4
    <3>4. QED
      BY <3>1, <3>2, <3>3, Line DEF BacklogInv
  <2>3. QED
    BY <2>1, <2>2
<1>12. BacklogIsNewest'
  <2>1. \A c \in In("trimmed") \cup Excess(S), d \in S \ Excess(S) : c \in Calls /\ d \in Calls /\ Before(c, d)
    BY <1>2, <1>6, <1>11 DEF In
  <2> HIDE DEF S
  <2>2. \A c \in In("trimmed")', d \in In("undeliverable")' : Before(c, d)'
    BY <1>5, <1>9, <2>1
  <2>3. QED
    BY <1>5, <1>6, <2>2 DEF BacklogIsNewest
<1>13. Full'
  <2> SUFFICES ASSUME In("trimmed")' # {}, ~closed
               PROVE  Cardinality(In("undeliverable")') >= MaxUndeliverable
    BY DEF Full
  <2>1. CASE Excess(S) # {}
    <3> HIDE DEF S
    <3>1. QED
      BY <1>5, <1>6, <2>1
  <2>2. CASE Excess(S) = {}
    <3>1. Cardinality(In("undeliverable")) >= MaxUndeliverable
      BY <1>5, <1>10, <2>2
    <3>2. In("undeliverable") \in SUBSET S /\ IsFiniteSet(S) /\ S \ Excess(S) = S
      BY <1>2, <2>2, FiniteRegistered DEF BacklogInv
    <3>3. In("undeliverable")' = S
      BY <1>5, <3>2
    <3> HIDE DEF S
    <3>4. Cardinality(In("undeliverable")) <= Cardinality(S)
      BY <3>2, FS_Subset
    <3>5. Cardinality(In("undeliverable")) \in Nat /\ Cardinality(S) \in Nat
      BY <3>2, FS_Subset, FS_CardinalityType
    <3>6. QED
      BY <3>1, <3>3, <3>4, <3>5, WatchAssumption
  <2>3. QED
    BY <2>1, <2>2
<1>14. QED
  BY <1>5, <1>8, <1>12, <1>13 DEF BacklogInv

LEMMA BacklogClose ==
  ASSUME TypeOK, BacklogInv, Close
  PROVE  BacklogInv'
<1>1. /\ closed' /\ UNCHANGED order /\ order \in Seq(Calls)
  BY DEF Close, TypeOK
<1>2. \A c \in Calls : IF c \in Listed THEN State(c)' = "closed" ELSE State(c)' = State(c)
  BY CloseMoves DEF State
<1>3. Listed' = {} /\ In("undeliverable")' = {}
  BY <1>2 DEF Listed, Active, In
<1>4. \A c \in Calls : State(c)' = "none" <=> State(c) = "none"
  BY <1>2 DEF Listed, Active, In
<1>5. \A n \in DOMAIN order : order[n] \in Calls
  BY <1>1
<1>6. Placed'
  BY <1>1, <1>4, <1>5 DEF BacklogInv, Placed
<1>7. BacklogIsNewest'
  BY <1>3, FS_EmptySet, WatchAssumption DEF BacklogIsNewest
<1>8. QED
  BY <1>1, <1>3, <1>6, <1>7 DEF BacklogInv, Full

LEMMA BacklogStep ==
  Follows /\ BacklogInv /\ [Next]_vars => BacklogInv'
<1> SUFFICES ASSUME Follows, BacklogInv, [Next]_vars PROVE BacklogInv'
  OBVIOUS
<1>1. TypeOK /\ order \in Seq(Calls)
  BY DEF Follows, TypeOK
<1>2. \A c \in Calls : watch[c] \in Watch
  BY <1>1 DEF TypeOK
<1>3. CASE UNCHANGED <<watch, order, closed>>
  BY <1>1, <1>3, BacklogStays DEF State
<1>4. ASSUME NEW c \in Calls, Deadline(c) \/ GraceOver(c) \/ DeliveryWindowOver(c)
      PROVE  BacklogInv'
  <2>1. UNCHANGED <<order, closed>>
    BY <1>4 DEF Deadline, GraceOver, DeliveryWindowOver
  <2>2. QED
    BY <1>1, <1>4, <2>1, TimesMove, BacklogStays
<1>5. ASSUME NEW c \in Calls, Register(c)  PROVE BacklogInv'
  BY <1>1, <1>5, BacklogRegister DEF Follows
<1>6. CASE ObserveEnds
  <2>1. \A c \in Calls : \/ State(c)' = State(c)
                         \/ State(c) = "watching" /\ State(c)' = "pendingDelivery"
    BY <1>1, <1>2, <1>6, ObserveEndsMoves, ObservedTyped DEF State
  <2>2. UNCHANGED <<order, closed>>
    BY <1>6 DEF ObserveEnds
  <2>3. QED
    BY <1>1, <2>1, <2>2, BacklogStays
<1>7. CASE SendSucceeds
  <2>1. UNCHANGED <<order, closed>>
    BY <1>7 DEF SendSucceeds, Answered
  <2>2. \A c \in tick.sent \cap Listed : State(c) = "pendingDelivery"
    BY DEF Follows, Sending, Listed, Active, In
  <2>3. \A c \in Calls : \/ State(c)' = State(c)
                         \/ State(c) = "pendingDelivery" /\ State(c)' = "told"
    BY <1>1, <1>7, <2>2, SendSucceedsMoves DEF State
  <2>4. QED
    BY <1>1, <2>1, <2>3, BacklogStays
<1>8. CASE SendRefused
  <2>1. PICK permanent \in BOOLEAN :
          Abandon({c \in tick.sent : permanent \/ watch[c].stale}, FALSE)
    BY <1>8 DEF SendRefused
  <2>2. {c \in tick.sent : permanent \/ watch[c].stale} \in SUBSET Calls
    BY <1>1 DEF TypeOK, Tick
  <2>3. UNCHANGED closed
    BY <1>8 DEF SendRefused, Answered
  <2>4. QED
    BY <1>1, <2>1, <2>2, <2>3, BacklogAbandon
<1>9. CASE SendUnknown
  <2>1. tick.sent \in SUBSET Calls /\ UNCHANGED closed
    BY <1>1, <1>9 DEF TypeOK, Tick, SendUnknown, Answered
  <2>2. QED
    BY <1>1, <1>9, <2>1, BacklogAbandon DEF SendUnknown
<1>10. CASE Close
  BY <1>1, <1>10, BacklogClose
<1>11. [Next]_vars =>
        \/ UNCHANGED <<watch, order, closed>>
        \/ \E c \in Calls : Deadline(c) \/ GraceOver(c) \/ DeliveryWindowOver(c)
        \/ \E c \in Calls : Register(c)
        \/ ObserveEnds \/ SendSucceeds \/ SendRefused \/ SendUnknown \/ Close
  BY DEF Next, TickStep, ThreadChanges, LateTurn, TurnStarts, ReadTarget, TimerFires,
         ObserveBegins, ObservedAll, Send, TickEnds, vars
<1>12. QED
  BY <1>3, <1>4, <1>5, <1>6, <1>7, <1>8, <1>9, <1>10, <1>11

(* The service keeps at most MAX_UNDELIVERABLE_ENTRIES watches that it could*)
(* not deliver, and they are newer than every one it trimmed.              *)
THEOREM KeepsNewestBacklog == Spec => []BacklogIsNewest
<1>1. Init => BacklogInv
  <2> SUFFICES ASSUME Init PROVE BacklogInv
    OBVIOUS
  <2>1. order = <<>> /\ \A c \in Calls : State(c) = "none"
    BY DEF Init, State, NoWatch
  <2>2. In("undeliverable") = {} /\ In("trimmed") = {} /\ Listed = {}
    BY <2>1 DEF In, Listed, Active
  <2>3. Placed
    BY <2>1 DEF Placed
  <2>4. QED
    BY <2>2, <2>3, FS_EmptySet, WatchAssumption DEF BacklogInv, Full, BacklogIsNewest
<1>2. Spec => []Follows
  BY FollowsInit, FollowsStep, TypeCorrect, PTL DEF Spec
<1>3. BacklogInv => BacklogIsNewest
  BY DEF BacklogInv
<1>4. QED
  BY <1>1, <1>2, <1>3, BacklogStep, PTL DEF Spec
=============================================================================
