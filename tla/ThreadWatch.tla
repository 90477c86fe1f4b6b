---------------------------- MODULE ThreadWatch -----------------------------
(***************************************************************************)
(* DelegationWatchService of                                               *)
(* src/packages/host-runtime/src/delegation-watch.ts: one-shot             *)
(* notifications when a Thread stops, built on read and send of the        *)
(* delegation API.                                                         *)
(*                                                                         *)
(* Threads run Turns of their own accord and are written to by others;     *)
(* reads take time, and sends may fail with or without having started a    *)
(* Turn, or start it late.  The times (the deadline of a watch, 60 s of    *)
(* unreadability, 6 h of delivery) are flags that may come at any moment.  *)
(***************************************************************************)
EXTENDS Naturals, Sequences, FiniteSets

CONSTANTS
  Threads,
  Calls,             \* calls of watch(), each of which may add one watch
  Target, Notify,    \* what each of them asks for
  None,
  MaxUndeliverable   \* MAX_UNDELIVERABLE_ENTRIES

ASSUME WatchAssumption ==
  /\ Target \in [Calls -> Threads] /\ Notify \in [Calls -> Threads]
  /\ \A c \in Calls : Target[c] # Notify[c]
  /\ None \notin Calls
  /\ MaxUndeliverable \in Nat \ {0}

VARIABLES
  status,   \* the Threads as a read finds them
  call,     \* how far each call is
  watch,    \* #watches, by call, and what became of those that left it
  order,    \* the calls in the order in which they added their watch
  timer,    \* #timer is set
  tick,     \* the tick under way
  closed,
  late,     \* notifications in doubt that may start a Turn yet
  turns     \* how many Turns told each watch (history)

vars == <<status, call, watch, order, timer, tick, closed, late, turns>>

(* A watch: its state, once it left the list how ("told", "trimmed" or     *)
(* "closed"), and the times that have passed for it, as long as they count.*)
Watch ==
  [state   : {"none", "watching", "pendingDelivery", "undeliverable", "told",
              "trimmed", "closed"},
   doubt   : BOOLEAN,               \* the outcome of its delivery is unknown
   expired : BOOLEAN,               \* past its deadline
   failing : {"no", "new", "long"}, \* unreadableSince, and is it 60 s ago
   stale   : BOOLEAN]               \* past its deliveryDeadline

NoWatch ==
  [state |-> "none", doubt |-> FALSE, expired |-> FALSE, failing |-> "no",
   stale |-> FALSE]

Tick ==
  [pc   : {"off", "observing", "reading", "delivering", "sending"},
   todo : SUBSET Calls,      \* watches still to be observed
   at   : Calls \cup {None}, \* the watch that a read is under way for
   seen : {"running", "stopped", "gone", "error"},
   subs : SUBSET Threads,    \* Threads still to be notified
   sent : SUBSET Calls,      \* what the send under way tells
   started : BOOLEAN]        \* and has it started its Turn

NoTick ==
  [pc |-> "off", todo |-> {}, at |-> None, seen |-> "running", subs |-> {}, sent |-> {},
   started |-> FALSE]

State(c) == watch[c].state
In(state) == {c \in Calls : State(c) = state}
Active == In("watching") \cup In("pendingDelivery")
Listed == Active \cup In("undeliverable")
PendingOf(t) == {c \in In("pendingDelivery") : Notify[c] = t}
Before(c, d) ==
  \E m, n \in DOMAIN order : m < n /\ order[m] = c /\ order[n] = d

Init ==
  /\ status \in [Threads -> {"running", "stopped"}]
  /\ call = [c \in Calls |-> "new"]
  /\ watch = [c \in Calls |-> NoWatch]
  /\ order = <<>>
  /\ timer = FALSE /\ tick = NoTick
  /\ closed = FALSE
  /\ late = {}
  /\ turns = [c \in Calls |-> 0]

-----------------------------------------------------------------------------
(* The Threads: a Turn begins or ends, or the Thread is deleted.           *)
ThreadChanges(t) ==
  /\ status[t] # "gone"
  /\ \E s \in {"running", "stopped", "gone"} \ {status[t]} :
       status' = [status EXCEPT ![t] = s]
  /\ UNCHANGED <<call, watch, order, timer, tick, closed, late, turns>>

(* A Turn that tells a set of watches begins, unless one runs.             *)
Tells(t, cs) ==
  /\ status[t] = "stopped"
  /\ status' = [status EXCEPT ![t] = "running"]
  /\ turns' = [c \in Calls |-> IF c \in cs THEN turns[c] + 1 ELSE turns[c]]

LateTurn ==
  /\ \E cs \in late :
       /\ \E c \in cs : Tells(Notify[c], cs)
       /\ late' = late \ {cs}
  /\ UNCHANGED <<call, watch, order, timer, tick, closed>>

Deadline(c) ==
  /\ State(c) = "watching" /\ ~watch[c].expired
  /\ watch' = [watch EXCEPT ![c].expired = TRUE]
  /\ UNCHANGED <<status, call, order, timer, tick, closed, late, turns>>

GraceOver(c) ==
  /\ State(c) = "watching" /\ watch[c].failing = "new"
  /\ watch' = [watch EXCEPT ![c].failing = "long"]
  /\ UNCHANGED <<status, call, order, timer, tick, closed, late, turns>>

DeliveryWindowOver(c) ==
  /\ State(c) = "pendingDelivery" /\ ~watch[c].stale
  /\ watch' = [watch EXCEPT ![c].stale = TRUE]
  /\ UNCHANGED <<status, call, order, timer, tick, closed, late, turns>>

-----------------------------------------------------------------------------
(* watch(): the target is read, then the Thread to notify; either read may *)
(* fail.  The rest of the call runs at once.                               *)
ReadTarget(c) ==
  /\ call[c] = "new"
  /\ \/ ~closed /\ status[Target[c]] # "gone"
          /\ call' = [call EXCEPT ![c] = status[Target[c]]]
     \/ call' = [call EXCEPT ![c] = "done"]
  /\ UNCHANGED <<status, watch, order, timer, tick, closed, late, turns>>

SamePair(c, d) == Target[c] = Target[d] /\ Notify[c] = Notify[d]
Existing(c) == {d \in In("watching") : SamePair(c, d)}

(* #schedule() when a watch has just been added.                           *)
Push(c) ==
  /\ order' = Append(order, c)
  /\ watch' = [watch EXCEPT ![c].state = "watching"]
  /\ timer' = TRUE

Register(c) ==
  /\ call[c] \in {"running", "stopped"}
  /\ call' = [call EXCEPT ![c] = "done"]
  /\ \/ UNCHANGED <<watch, order, timer>>
     \/ /\ status[Notify[c]] # "gone"
        /\ IF call[c] = "stopped" \/ Existing(c) # {} \/ closed
           THEN UNCHANGED <<watch, order, timer>>
           ELSE Push(c)
  /\ UNCHANGED <<status, tick, closed, late, turns>>

-----------------------------------------------------------------------------
(* #tick(): a snapshot of the watches, of which only those that still wait *)
(* for their target are observed.                                          *)
TimerFires ==
  /\ timer /\ tick.pc = "off"
  /\ tick' = [NoTick EXCEPT
       !.pc = "observing",
       !.todo = In("watching")]
  /\ UNCHANGED <<status, call, watch, order, timer, closed, late, turns>>

(* #observe(): the read finds the Thread as it is now, or fails.  A Thread *)
(* that cannot be located or restored at the moment is reported as one     *)
(* that is gone.                                                           *)
ObserveBegins ==
  /\ tick.pc = "observing" /\ ~closed
  /\ \E c \in tick.todo : \E found \in {status[Target[c]], "error", "gone"} :
       /\ \A d \in tick.todo : ~Before(d, c)
       /\ tick' = [tick EXCEPT !.pc = "reading", !.todo = @ \ {c}, !.at = c,
                               !.seen = found]
  /\ UNCHANGED <<status, call, watch, order, timer, closed, late, turns>>

(* Mutation: a deleted target is taken for one that still runs.            *)
ObservedGone(w) ==
  IF w.state = "watching" /\ (tick.seen = "stopped" \/ w.expired)
  THEN [NoWatch EXCEPT !.state = "pendingDelivery"] ELSE w

(* What the read makes of the watch.                                       *)
Observed(w) ==
  LET failing == IF tick.seen # "error" THEN "no"
                 ELSE IF w.failing = "no" THEN "new" ELSE w.failing
      over == tick.seen \in {"stopped", "gone"} \/ failing = "long" \/ w.expired
  IN IF w.state # "watching" THEN w
     ELSE IF over THEN [NoWatch EXCEPT !.state = "pendingDelivery"]
     ELSE [w EXCEPT !.failing = failing]

(* A watch that close() took off the list meanwhile changes for nobody.    *)
ObserveEnds ==
  /\ tick.pc = "reading"
  /\ watch' = [watch EXCEPT ![tick.at] = Observed(@)]
  /\ tick' = [tick EXCEPT !.pc = "observing", !.at = None, !.seen = "running"]
  /\ UNCHANGED <<status, call, order, timer, closed, late, turns>>

ObservedAll ==
  /\ tick.pc = "observing" /\ tick.todo = {}
  /\ tick' = [tick EXCEPT !.pc = "delivering",
                          !.subs = {Notify[c] : c \in In("pendingDelivery")}]
  /\ UNCHANGED <<status, call, watch, order, timer, closed, late, turns>>

(* #deliver(): one send tells all that is pending for a Thread by now.     *)
Send ==
  /\ tick.pc = "delivering" /\ ~closed
  /\ \E t \in tick.subs :
       tick' = [tick EXCEPT !.pc = "sending", !.subs = @ \ {t},
                            !.sent = PendingOf(t)]
  /\ UNCHANGED <<status, call, watch, order, timer, closed, late, turns>>

Subscriber == CHOOSE t \in Threads : \E c \in tick.sent : t = Notify[c]

(* The send reaches its Thread and starts the Turn.                        *)
TurnStarts ==
  /\ tick.pc = "sending" /\ ~tick.started
  /\ Tells(Subscriber, tick.sent)
  /\ tick' = [tick EXCEPT !.started = TRUE]
  /\ UNCHANGED <<call, watch, order, timer, closed, late>>

Answered ==
  /\ tick.pc = "sending"
  /\ tick' = [tick EXCEPT !.pc = "delivering", !.sent = {}, !.started = FALSE]
  /\ UNCHANGED <<status, call, timer, closed, turns>>

SendSucceeds ==
  /\ Answered
  /\ tick.started
  /\ watch' = [c \in Calls |->
       IF c \in tick.sent \cap Listed THEN [NoWatch EXCEPT !.state = "told"]
                                     ELSE watch[c]]
  /\ UNCHANGED <<order, late>>

(* Mutation: one undeliverable watch too many is kept.                     *)
ExcessButOne(cs) ==
  {c \in cs : Cardinality({d \in cs : Before(c, d)}) > MaxUndeliverable}

(* The watches that are one too many: of those that registered first.      *)
Excess(cs) ==
  {c \in cs : Cardinality({d \in cs : Before(c, d)}) >= MaxUndeliverable}

(* Watches become undeliverable, and #trimUndeliverable.                   *)
Abandon(cs, doubt) ==
  LET lost == cs \cap Listed
      gone == Excess(lost \cup In("undeliverable"))
  IN /\ watch' = [c \in Calls |->
          IF c \in lost \cup gone
          THEN [NoWatch EXCEPT !.state = IF c \in gone THEN "trimmed" ELSE "undeliverable",
                               !.doubt = watch[c].doubt \/ (doubt /\ c \in lost)]
          ELSE watch[c]]
     /\ UNCHANGED order

(* Mutation: a busy Thread is waited for without end.                      *)
SendRefusedAnew ==
  /\ Answered
  /\ ~tick.started
  /\ \E permanent \in BOOLEAN :
       Abandon({c \in tick.sent : permanent}, FALSE)
  /\ UNCHANGED late

(* The error proves that no Turn was started: the Thread was busy or       *)
(* refused it, which is tried again within the window, or it cannot be     *)
(* written to at all.                                                      *)
SendRefused ==
  /\ Answered
  /\ ~tick.started
  /\ \E permanent \in BOOLEAN :
       Abandon({c \in tick.sent : permanent \/ watch[c].stale}, FALSE)
  /\ UNCHANGED late

(* Mutation: any error is tried again.                                     *)
SendRetried ==
  /\ Answered
  /\ UNCHANGED <<watch, order>>
  /\ \/ UNCHANGED late
     \/ ~tick.started /\ late' = late \cup {tick.sent}

(* Any other error: the Turn may have started, or start later.             *)
SendUnknown ==
  /\ Answered
  /\ Abandon(tick.sent, TRUE)
  /\ \/ UNCHANGED late
     \/ ~tick.started /\ late' = late \cup {tick.sent}

(* The finally of the timer: #schedule().                                  *)
TickEnds ==
  /\ \/ tick.pc = "delivering" /\ tick.subs = {}
     \/ tick.pc \in {"observing", "delivering"} /\ closed
  /\ tick' = NoTick
  /\ timer' = (~closed /\ Active # {})
  /\ UNCHANGED <<status, call, watch, order, closed, late, turns>>

(* close(): what is on the list is forgotten, and a tick under way is left *)
(* to find out.                                                            *)
Close ==
  /\ ~closed
  /\ closed' = TRUE
  /\ timer' = FALSE
  /\ watch' = [c \in Calls |->
       IF c \in Listed
       THEN [NoWatch EXCEPT !.state = "closed",
                            !.doubt = watch[c].doubt \/ State(c) = "pendingDelivery"]
       ELSE watch[c]]
  /\ UNCHANGED <<status, call, order, tick, late, turns>>

-----------------------------------------------------------------------------
TickStep ==
  \/ TimerFires \/ ObserveBegins \/ ObserveEnds \/ ObservedAll \/ Send
  \/ SendSucceeds \/ SendRefused \/ SendUnknown \/ TickEnds

Next ==
  \/ \E t \in Threads : ThreadChanges(t)
  \/ LateTurn \/ TurnStarts
  \/ \E c \in Calls : Deadline(c) \/ GraceOver(c) \/ DeliveryWindowOver(c)
  \/ \E c \in Calls : ReadTarget(c) \/ Register(c)
  \/ TickStep
  \/ Close

Spec == Init /\ [][Next]_vars

(* The timer fires and reads and sends return; 6 h and 60 s pass.  That    *)
(* the deadline comes is not assumed.                                      *)
Fairness ==
  /\ WF_vars(TickStep)
  /\ \A c \in Calls : WF_vars(DeliveryWindowOver(c)) /\ WF_vars(GraceOver(c))

FairSpec == Spec /\ Fairness
-----------------------------------------------------------------------------
TypeOK ==
  /\ status \in [Threads -> {"running", "stopped", "gone"}]
  /\ call \in [Calls -> {"new", "running", "stopped", "done"}]
  /\ watch \in [Calls -> Watch]
  /\ order \in Seq(Calls)
  /\ timer \in BOOLEAN /\ closed \in BOOLEAN
  /\ tick \in Tick
  /\ late \subseteq SUBSET Calls
  /\ turns \in [Calls -> Nat]

(* However two calls for the same Threads overlap, they share a watch that *)
(* still waits: their subscriber is not told twice of one stop.            *)
OneWatchPerPair ==
  \A c, d \in In("watching") : SamePair(c, d) => c = d

(* A bounded number of undeliverable watches is kept, those that were      *)
(* registered last.                                                        *)
BacklogIsNewest ==
  /\ Cardinality(In("undeliverable")) <= MaxUndeliverable
  /\ \A c \in In("trimmed"), d \in In("undeliverable") : Before(c, d)

(* The polling never stops while a watch waits or is to be delivered.      *)
PollsWhileActive == ~closed /\ Active # {} => timer

(* What the service does to a watch is what OneShot promises of it: told   *)
(* at most once, when it is due, and never again once that is in doubt.    *)
Phase(w) ==
  CASE w.state = "none" -> "none"
    [] w.state = "watching" -> "armed"
    [] w.state = "pendingDelivery" -> "due"
    [] OTHER -> IF w.doubt THEN "doubtful" ELSE "over"

Promise ==
  INSTANCE OneShot WITH Watches <- Calls, phase <- [c \in Calls |-> Phase(watch[c])]

KeepsPromise == Promise!Spec

(* No watch waits on for good though its deadline has passed or its target *)
(* stays stopped or deleted - be it since before the watch was registered. *)
EndsWhenDue ==
  \A c \in Calls :
    []<>~(State(c) = "watching"
           /\ (watch[c].expired \/ status[Target[c]] # "running"))

(* What is due is delivered or given up in the end, however busy the       *)
(* Thread to notify is: as every call adds one watch at most, a time comes *)
(* when nothing is pending.                                                *)
DeliveryEnds == <>[](In("pendingDelivery") = {})
=============================================================================
