---------------------------- MODULE SharedThreads ----------------------------
(***************************************************************************)
(* External Threads that several GUIs share: SharedThreadOwner,            *)
(* StreamThreadPeer and SharedThreadBridge (shared-thread-*.ts), and what  *)
(* the Host behind them (app-server-host.ts, externalOnly) does with the   *)
(* turn/start of one Thread and with the approvals and questions of its    *)
(* Turns.  All are under src/packages/host-runtime/src/.                   *)
(*                                                                         *)
(* A GUI, the owner and the Host send each other frames that arrive in     *)
(* order.  Links of GUIs break and come back; requests time out while the  *)
(* Host is still at them.  A request is named after the call that made the *)
(* owner send it, and so is the Turn it starts.                            *)
(*                                                                         *)
(* The owner writes to its Host over a bounded pipe, and waits for it to   *)
(* drain before it looks at a result (writeJsonFrame of protocol-core).    *)
(* Which writes have to wait depends on their size: any may.               *)
(*                                                                         *)
(* A GUI on a socket has a timer of its own, with which it gives up a call *)
(* that goes on; it is left out, as nothing else depends on it.            *)
(***************************************************************************)
EXTENDS Naturals, Sequences, FiniteSets, SequencesExt

CONSTANTS
  Viewers,      \* GUIs
  Calls,        \* calls of turn/start, each of which a GUI makes once
  MessageOf,    \* the clientUserMessageId of each call
  Inputs,       \* what it may say (the fingerprint)
  Questions,    \* approvals and questions of Turns
  None,
  MaxReceipts,  \* the number of receipts that are kept
  MaxLosses     \* bound on the links that break

ASSUME SharedThreadsAssumption ==
  /\ None \notin Calls
  /\ MaxReceipts \in Nat \ {0} /\ MaxLosses \in Nat

VARIABLES
  linked,    \* GUIs with a peer of the owner
  shown,     \* the questions that each GUI shows
  answers,   \* <<v, q>>: GUI v has answered q
  call,      \* each call as its GUI sees it
  out,       \* frames of each GUI to the owner
  inbox,     \* frames of the owner to each GUI
  waits,     \* the request whose result the owner will pass to each call
  receipts,  \* #receipts in the order they were set, by request
  accepted,  \* requests whose reply the owner knows
  pending,   \* #pending of the owner's peer
  writing,   \* requests whose frame waits for the pipe to drain
  held,      \* what is known of a request while its frame still waits
  stuck,     \* GUIs whose frames wait for the pipe to take an answer
  open,      \* #interactions
  up, down,  \* frames between the owner and its Host
  handling,  \* requests that the Host works at
  active,    \* the request whose Turn is active, or None
  question,  \* what the Host knows of each question
  started,   \* requests that started a Turn (history)
  forgotten, \* messages whose receipt was dropped (history)
  stale,     \* questions that were closed while a GUI had no link (history)
  losses,
  closed

guis == <<linked, shown, answers, call, out, inbox, stale, losses>>
owner == <<waits, receipts, accepted, pending, writing, held, stuck, open, forgotten>>
host == <<handling, active, question, started>>
vars == <<guis, owner, host, up, down, closed>>

Frame(kind, of) == [kind |-> kind, of |-> of]

Frames(kinds, ofs) == Seq([kind : kinds, of : ofs])
FromGuis == Frames({"request", "answer"}, Calls \cup Questions)
FromHost == Frames({"ok", "error", "unknown", "ask", "resolved"}, Calls \cup Questions)

(* Type invariant.                                                         *)
TypeOK ==
  /\ linked \in SUBSET Viewers
  /\ shown \in [Viewers -> SUBSET Questions]
  /\ answers \in SUBSET (Viewers \X Questions)
  /\ call \in [Calls -> [state : {"new", "sent", "ok", "error", "unknown"},
                       by : Viewers \cup {None}, input : Inputs \cup {None}]]
  /\ out \in [Viewers -> FromGuis] /\ inbox \in [Viewers -> FromHost]
  /\ waits \in [Calls -> Calls \cup {None}]
  /\ receipts \in Seq(Calls)
  /\ {accepted, pending, writing, handling, started} \subseteq SUBSET Calls
  /\ held \in [Calls -> {"nothing", "ok", "error", "unknown"}]
  /\ stuck \in SUBSET linked
  /\ open \in SUBSET Questions
  /\ up \in FromGuis /\ down \in FromHost
  /\ active \in Calls \cup {None}
  /\ question \in [Questions -> {"new", "open", "closed"}]
  /\ forgotten \in SUBSET {MessageOf[c] : c \in Calls}
  /\ stale \in [Viewers -> SUBSET Questions]
  /\ losses \in 0..MaxLosses /\ closed \in BOOLEAN

Init ==
  /\ linked = {}
  /\ shown = [v \in Viewers |-> {}]
  /\ answers = {}
  /\ call = [c \in Calls |-> [state |-> "new", by |-> None, input |-> None]]
  /\ out = [v \in Viewers |-> <<>>] /\ inbox = [v \in Viewers |-> <<>>]
  /\ waits = [c \in Calls |-> None]
  /\ receipts = <<>> /\ accepted = {} /\ pending = {} /\ open = {}
  /\ writing = {} /\ held = [c \in Calls |-> "nothing"] /\ stuck = {}
  /\ up = <<>> /\ down = <<>>
  /\ handling = {} /\ active = None
  /\ question = [q \in Questions |-> "new"]
  /\ started = {} /\ forgotten = {}
  /\ stale = [v \in Viewers |-> {}]
  /\ losses = 0
  /\ closed = FALSE

-----------------------------------------------------------------------------
(* The GUIs.                                                               *)

(* A GUI sends a message, for the first time or again.                     *)
Submit(v, c) ==
  /\ v \in linked /\ call[c].state = "new"
  /\ \E i \in Inputs :
       call' = [call EXCEPT ![c] = [state |-> "sent", by |-> v, input |-> i]]
  /\ out' = [out EXCEPT ![v] = Append(@, Frame("request", c))]
  /\ UNCHANGED <<linked, shown, answers, inbox, stale, losses, owner, host, up,
                 down, closed>>

(* respond() of the bridge.                                                *)
AnswerQuestion(v, q) ==
  /\ v \in linked /\ q \in shown[v] /\ <<v, q>> \notin answers
  /\ answers' = answers \cup {<<v, q>>}
  /\ out' = [out EXCEPT ![v] = Append(@, Frame("answer", q))]
  /\ UNCHANGED <<linked, shown, call, inbox, stale, losses, owner, host, up, down,
                 closed>>

(* A reply counts if the GUI still waits for it, and events are shown.     *)
GuiReceives(v) ==
  /\ inbox[v] # <<>>
  /\ inbox' = [inbox EXCEPT ![v] = Tail(@)]
  /\ LET f == Head(inbox[v]) IN
       CASE f.kind = "ask" ->
              /\ shown' = [shown EXCEPT ![v] = @ \cup {f.of}]
              /\ UNCHANGED call
         [] f.kind = "resolved" ->
              /\ shown' = [shown EXCEPT ![v] = @ \ {f.of}]
              /\ UNCHANGED call
         [] OTHER ->
              /\ call' = IF call[f.of].state = "sent"
                         THEN [call EXCEPT ![f.of].state = f.kind] ELSE call
              /\ UNCHANGED shown
  /\ UNCHANGED <<linked, answers, out, stale, losses, owner, host, up, down, closed>>

OfViewer(v) == {c \in Calls : call[c].by = v}

(* The link of a GUI breaks, or its output stopped draining: the owner     *)
(* drops its peer and goes on with what it asked for.                      *)
Detach(v) ==
  /\ v \in linked /\ losses < MaxLosses
  /\ losses' = losses + 1
  /\ linked' = linked \ {v}
  /\ out' = [out EXCEPT ![v] = <<>>] /\ inbox' = [inbox EXCEPT ![v] = <<>>]
  /\ call' = [c \in Calls |->
       IF c \in OfViewer(v) /\ call[c].state = "sent"
       THEN [call[c] EXCEPT !.state = "unknown"] ELSE call[c]]
  /\ waits' = [c \in Calls |-> IF c \in OfViewer(v) THEN None ELSE waits[c]]
  /\ stale' = [stale EXCEPT ![v] = shown[v]]
  /\ stuck' = stuck \ {v}
  /\ UNCHANGED <<shown, answers, receipts, accepted, pending, writing, held, open,
                 forgotten, host, up, down, closed>>

(* Mutation: a new peer hears only of what comes.                          *)
AttachLate(v) ==
  /\ v \notin linked /\ ~closed
  /\ linked' = linked \cup {v}
  /\ stale' = [stale EXCEPT ![v] = @ \ open]
  /\ UNCHANGED <<shown, answers, call, out, inbox, losses, owner, host, up, down,
                 closed>>

(* #connect of the bridge and subscribe(): every question that is open is  *)
(* shown (again).                                                          *)
Attach(v) ==
  /\ v \notin linked /\ ~closed
  /\ linked' = linked \cup {v}
  /\ inbox' = [inbox EXCEPT ![v] = SetToSeq({Frame("ask", q) : q \in open})]
  /\ stale' = [stale EXCEPT ![v] = @ \ open]
  /\ UNCHANGED <<shown, answers, call, out, losses, owner, host, up, down, closed>>

-----------------------------------------------------------------------------
(* The owner.                                                              *)

SameMessage(r, c) == MessageOf[r] = MessageOf[c]
Receipts == {receipts[n] : n \in DOMAIN receipts}

(* What the owner tells each call.                                         *)
Tell(cs, kind) ==
  inbox' = [v \in Viewers |->
    IF v \in linked
    THEN inbox[v] \o SetToSeq({Frame(kind, c) : c \in cs \cap OfViewer(v)})
    ELSE inbox[v]]

Broadcast(f) ==
  inbox' = [v \in Viewers |-> IF v \in linked THEN Append(inbox[v], f) ELSE inbox[v]]

(* Mutation: a receipt is set when the reply is there.                     *)
Known(c) == {r \in Receipts \cap accepted : SameMessage(r, c)}

(* The receipt of the message of a call, if there is one.                  *)
Receipt(c) == {r \in Receipts : SameMessage(r, c)}

(* #request: a receipt of the same message is used, if its input is the    *)
(* same; otherwise the request is sent to the Host.                        *)
TakeCall(c) ==
  IF Receipt(c) = {}
  THEN /\ receipts' = Append(receipts, c)
       /\ pending' = pending \cup {c}
       /\ up' = Append(up, Frame("request", c))
       /\ writing' \in {writing, writing \cup {c}}
       /\ waits' = [waits EXCEPT ![c] = c]
       /\ UNCHANGED inbox
  ELSE LET r == CHOOSE r \in Receipt(c) : TRUE IN
       /\ UNCHANGED <<receipts, pending, writing, up>>
       /\ IF call[r].input # call[c].input
          THEN Tell({c}, "error") /\ UNCHANGED waits
          ELSE IF r \in accepted
          THEN Tell({c}, "ok") /\ UNCHANGED waits
          ELSE waits' = [waits EXCEPT ![c] = r] /\ UNCHANGED inbox

(* An answer is passed on if the question is open: the first one wins.     *)
TakeAnswer(v, q) ==
  /\ IF q \in open
     THEN /\ up' = Append(up, Frame("answer", q))
          /\ stuck' \in {stuck, stuck \cup {v}}
     ELSE UNCHANGED <<up, stuck>>
  /\ UNCHANGED <<receipts, pending, writing, waits, inbox>>

(* The loop of a GUI's session: it waits for an answer to be written, and  *)
(* not for requests.                                                       *)
OwnerReceives(v) ==
  /\ out[v] # <<>> /\ v \notin stuck
  /\ out' = [out EXCEPT ![v] = Tail(@)]
  /\ LET f == Head(out[v]) IN
       IF f.kind = "request" THEN TakeCall(f.of) /\ UNCHANGED stuck
       ELSE TakeAnswer(v, f.of)
  /\ UNCHANGED <<linked, shown, answers, call, stale, losses, accepted, held, open,
                 forgotten, host, down, closed>>

(* Mutation: the result is only passed to the call that it was sent for.   *)
OnlyTheFirst(r) == {r}

(* The calls that get the result of a request.                             *)
Waiting(r) == {c \in Calls : waits[c] = r}

(* request() returns to whoever waits for it.                              *)
Settle(r, kind) ==
  /\ Tell(Waiting(r), kind)
  /\ waits' = [c \in Calls |-> IF waits[c] = r THEN None ELSE waits[c]]

(* #receipts.delete of the message of a request.                           *)
Without(r) ==
  LET places == {n \in DOMAIN receipts : SameMessage(receipts[n], r)} IN
  IF places = {} THEN receipts ELSE RemoveAt(receipts, CHOOSE n \in places : TRUE)

Newest(s) ==
  IF Len(s) > MaxReceipts THEN SubSeq(s, Len(s) - MaxReceipts + 1, Len(s)) ELSE s

(* The receipt of a refused message is removed, whichever request it is    *)
(* of, and the oldest are evicted.                                         *)
Resolve(r, kind) ==
  LET refused == {s \in {r} : kind = "error"}
      kept == IF refused = {} THEN receipts ELSE Without(r)
  IN /\ Settle(r, kind)
     /\ accepted' = accepted \cup ({r} \ refused)
     /\ receipts' = Newest(kept)
     /\ forgotten' = forgotten \cup
          {MessageOf[s] : s \in Receipts \ (ToSet(Newest(kept)) \cup refused)}

(* The outcome is unknown.                                                 *)
Reject(r) ==
  /\ Settle(r, "unknown")
  /\ receipts' = Without(r)
  /\ forgotten' = forgotten \cup {MessageOf[r]}
  /\ UNCHANGED accepted

Finish(r, kind) == IF kind = "unknown" THEN Reject(r) ELSE Resolve(r, kind)

(* A request ends with a reply or its timer, but request() looks at that   *)
(* only after its frame is written.                                        *)
End(r, kind) ==
  /\ pending' = pending \ {r}
  /\ IF r \in writing
     THEN /\ held' = [held EXCEPT ![r] = kind]
          /\ UNCHANGED <<inbox, waits, accepted, receipts, forgotten>>
     ELSE Finish(r, kind) /\ UNCHANGED held

(* A reply to a request that has timed out is dropped.                     *)
TakeReply(r, kind) ==
  IF r \in pending THEN End(r, kind)
  ELSE UNCHANGED <<pending, held, inbox, waits, accepted, receipts, forgotten>>

TakeEvent(kind, q) ==
  /\ open' = IF kind = "ask" THEN open \cup {q} ELSE open \ {q}
  /\ Broadcast(Frame(kind, q))

OwnerHears ==
  /\ down # <<>>
  /\ down' = Tail(down)
  /\ \/ \E q \in Questions, kind \in {"ask", "resolved"} :
          /\ Head(down) = Frame(kind, q)
          /\ TakeEvent(kind, q)
          /\ UNCHANGED <<pending, held, waits, accepted, receipts, forgotten>>
     \/ \E r \in Calls, kind \in {"ok", "error", "unknown"} :
          /\ Head(down) = Frame(kind, r)
          /\ TakeReply(r, kind)
          /\ UNCHANGED open
  /\ UNCHANGED <<linked, shown, answers, call, out, stale, losses, writing, stuck,
                 host, up, closed>>

(* The 120 s of the peer of the owner.                                     *)
OwnerTimesOut(r) ==
  /\ r \in pending
  /\ End(r, "unknown")
  /\ UNCHANGED <<linked, shown, answers, call, out, stale, losses, writing, stuck,
                 open, host, up, down, closed>>

(* The pipe drains: request() goes on, ...                                 *)
Written(r) ==
  /\ r \in writing
  /\ writing' = writing \ {r}
  /\ held' = [held EXCEPT ![r] = "nothing"]
  /\ IF held[r] # "nothing" THEN Finish(r, held[r])
     ELSE UNCHANGED <<inbox, waits, accepted, receipts, forgotten>>
  /\ UNCHANGED <<linked, shown, answers, call, out, stale, losses, pending, stuck,
                 open, host, up, down, closed>>

(* ... and so does the loop of a session.                                  *)
Answered(v) ==
  /\ v \in stuck
  /\ stuck' = stuck \ {v}
  /\ UNCHANGED <<guis, waits, receipts, accepted, pending, writing, held, open,
                 forgotten, host, up, down, closed>>

-----------------------------------------------------------------------------
(* The Host.                                                               *)

(* An answer closes its question.  It is ignored if the question is not    *)
(* open any more, or the Thread was replaced or has failed to release: the *)
(* question stays.                                                         *)
HandleAnswer(q) ==
  \/ /\ question[q] = "open"
     /\ question' = [question EXCEPT ![q] = "closed"]
     /\ down' = Append(down, Frame("resolved", q))
  \/ UNCHANGED <<question, down>>

(* Its input loop: a request is dispatched, an answer handled at once.     *)
HostReceives ==
  /\ up # <<>>
  /\ up' = Tail(up)
  /\ LET f == Head(up) IN
       IF f.kind = "request"
       THEN handling' = handling \cup {f.of} /\ UNCHANGED <<question, down>>
       ELSE HandleAnswer(f.of) /\ UNCHANGED handling
  /\ UNCHANGED <<guis, owner, active, started, closed>>

(* #beginExternalTurn: the Thread is taken, or has an active Turn.         *)
Begin(r) ==
  /\ r \in handling /\ active = None
  /\ active' = r
  /\ UNCHANGED <<guis, owner, handling, question, started, up, down, closed>>

(* Refused, or failed before or while the session started the Turn.        *)
Fail(r) ==
  /\ r \in handling
  /\ handling' = handling \ {r}
  /\ active' = IF active = r THEN None ELSE active
  /\ down' = Append(down, Frame("error", r))
  /\ UNCHANGED <<guis, owner, question, started, up, closed>>

Started(r) ==
  /\ r \in handling /\ active = r
  /\ handling' = handling \ {r}
  /\ started' = started \cup {r}
  /\ down' = Append(down, Frame("ok", r))
  /\ UNCHANGED <<guis, owner, active, question, up, closed>>

Runs == active # None /\ active \notin handling

(* #projectApproval, #projectQuestion.                                     *)
Ask(q) ==
  /\ Runs /\ question[q] = "new"
  /\ question' = [question EXCEPT ![q] = "open"]
  /\ down' = Append(down, Frame("ask", q))
  /\ UNCHANGED <<guis, owner, handling, active, started, up, closed>>

(* A question expires, or the Harness closes it.                           *)
Withdraw(q) ==
  /\ question[q] = "open"
  /\ question' = [question EXCEPT ![q] = "closed"]
  /\ down' = Append(down, Frame("resolved", q))
  /\ UNCHANGED <<guis, owner, handling, active, started, up, closed>>

(* The Turn ends.  A terminal event that comes while questions are open    *)
(* fails the projection, whose recovery closes them.                       *)
TurnEnds ==
  LET left == {q \in Questions : question[q] = "open"} IN
  /\ Runs
  /\ active' = None
  /\ question' = [q \in Questions |-> IF q \in left THEN "closed" ELSE question[q]]
  /\ down' = down \o SetToSeq({Frame("resolved", q) : q \in left})
  /\ UNCHANGED <<guis, owner, handling, started, up, closed>>

(* close() of the owner, when the Host is closed: whoever waits is told    *)
(* that it cannot know.                                                    *)
Close ==
  /\ ~closed
  /\ closed' = TRUE
  /\ linked' = {}
  /\ out' = [v \in Viewers |-> <<>>]
  /\ call' = [c \in Calls |->
       IF call[c].state = "sent" THEN [call[c] EXCEPT !.state = "unknown"] ELSE call[c]]
  /\ stale' = shown
  /\ inbox' = [v \in Viewers |-> <<>>]
  /\ waits' = [c \in Calls |-> None]
  /\ receipts' = <<>> /\ pending' = {} /\ open' = {}
  /\ writing' = {} /\ held' = [c \in Calls |-> "nothing"] /\ stuck' = {}
  /\ forgotten' = forgotten \cup {MessageOf[r] : r \in Receipts}
  /\ up' = <<>> /\ down' = <<>>
  /\ handling' = {} /\ active' = None
  /\ UNCHANGED <<shown, answers, losses, accepted, question, started>>

-----------------------------------------------------------------------------
Delivery ==
  \/ \E v \in Viewers : GuiReceives(v) \/ OwnerReceives(v)
  \/ OwnerHears \/ HostReceives

Next ==
  \/ Delivery
  \/ \E v \in Viewers :
       \/ \E c \in Calls : Submit(v, c)
       \/ \E q \in Questions : AnswerQuestion(v, q)
       \/ Detach(v) \/ Attach(v)
  \/ \E r \in Calls : OwnerTimesOut(r) \/ Written(r)
  \/ \E v \in Viewers : Answered(v)
  \/ \E r \in Calls : Begin(r) \/ Fail(r) \/ Started(r)
  \/ \E q \in Questions : Ask(q) \/ Withdraw(q)
  \/ TurnEnds
  \/ Close

Spec == Init /\ [][Next]_vars

(* Frames arrive, the timer of the owner fires, and a pipe that has been   *)
(* read to its end drains.  Nothing is assumed of the Host, of users or of *)
(* links.                                                                  *)
Fairness ==
  /\ \A v \in Viewers : WF_vars(GuiReceives(v)) /\ WF_vars(OwnerReceives(v))
  /\ WF_vars(OwnerHears)
  /\ \A c \in Calls : WF_vars(OwnerTimesOut(c))
  /\ \A c \in Calls : WF_vars(up = <<>> /\ Written(c))
  /\ \A v \in Viewers : WF_vars(up = <<>> /\ Answered(v))

FairSpec == Spec /\ Fairness
-----------------------------------------------------------------------------
(* A message starts one Turn, whichever GUIs send it, however often, and   *)
(* whether or not their links hold - unless its receipt was dropped: the   *)
(* request timed out, it was evicted, or the owner closed.                 *)
StartedOnce ==
  \A r, s \in started :
    SameMessage(r, s) /\ MessageOf[r] \notin forgotten => r = s

(* A GUI will show q once it has all the frames.                           *)
Sees(v, q) ==
  LET frames == inbox[v] \o down IN
  \/ q \in shown[v]
       /\ \A n \in DOMAIN frames : frames[n] # Frame("resolved", q)
  \/ \E n \in DOMAIN frames :
       /\ frames[n] = Frame("ask", q)
       /\ \A m \in n + 1 .. Len(frames) : frames[m] # Frame("resolved", q)

(* All GUIs show the questions that the Host has open, those included that *)
(* were asked before the GUI came, and no others - but for those that were *)
(* closed while a GUI was gone, which nobody tells it.                     *)
ViewsAgree ==
  \A v \in linked, q \in Questions :
    /\ question[q] = "open" => Sees(v, q)
    /\ Sees(v, q) => question[q] = "open" \/ q \in stale[v]

(* What a GUI is told of a message is true: after "ok" it has started a    *)
(* Turn, with the very input that the GUI sent, be it by the request of    *)
(* another; after "error" the request of the GUI itself has not, and will  *)
(* not, start one.                                                         *)
Starts(c) ==
  \E r \in started : SameMessage(r, c) /\ call[r].input = call[c].input

Refused(c) ==
  /\ c \notin handling \cup started
  /\ \A s \in {up} \cup {out[v] : v \in Viewers} : Frame("request", c) \notin ToSet(s)

ToldTheTruth ==
  \A c \in Calls :
    /\ call[c].state = "ok" => Starts(c)
    /\ call[c].state = "error" => Refused(c)

(* Everyone who sent a message is told the outcome, or that it is unknown, *)
(* also those that repeat a message of another GUI - if the Host reads all *)
(* that it is sent, again and again.  It need not reply to any of it; but  *)
(* while it reads nothing, no timer helps a request whose frame waits.     *)
HostReads == []<>(up = <<>>)

CallsEnd ==
  HostReads => \A c \in Calls : (call[c].state = "sent") ~> (call[c].state # "sent")
=============================================================================
