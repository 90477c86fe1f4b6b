---------------------------- MODULE TurnSteering ----------------------------
(***************************************************************************)
(* Changing the direction of an external Thread: ExternalTurnSteering of   *)
(* src/packages/host-runtime/src/external-turn-steering.ts, with the Turns *)
(* that app-server-host.ts starts and ends on the same Thread.             *)
(*                                                                         *)
(* turn/steer cancels the active Turn, waits until its terminal event has  *)
(* been projected, and starts a replacement.  Whatever settles a promise   *)
(* is one step, the continuation that awaits it another: both halves of a  *)
(* Promise.race may have settled by then.                                  *)
(*                                                                         *)
(* A Turn is a number; active is activeTurnId, and running is active # 0.  *)
(* That the identity of an ended Turn could not be persisted counts as its *)
(* failure.  The texts of two calls with one message are the same.  There  *)
(* is one Thread; the others share nothing with it but the receipts and    *)
(* the end of the connection.                                              *)
(***************************************************************************)
EXTENDS Naturals, SequencesExt

CONSTANTS
  Calls,        \* turn/steer requests
  MessageOf,    \* the clientUserMessageId of each, or None
  MaxReceipts,  \* receipts kept (128 in the code)
  MaxTurns,     \* bound on the Turns that others begin
  None

ASSUME TurnSteeringAssumption ==
  /\ MaxReceipts \in Nat /\ MaxTurns \in Nat
  /\ None \notin Calls

VARIABLES
  turns,     \* Turns begun so far
  active,    \* activeTurnId, or 0
  origin,    \* who began it
  ending,    \* the terminal event on its way to the Host, or NotEnding
  lookup,    \* a Harness command that Desktop asked for
  reserved,  \* #pendingExternalCommandRequests
  crossed,   \* a Turn began during a lookup (a history variable)
  pending,   \* the operation in #pending, or NotPending
  receipts,  \* #receipts, oldest first
  calls,     \* where each call is
  begun,     \* calls whose replacement began (a history variable)
  closed     \* #closed

turnVars == <<turns, active, origin>>
hostVars == <<ending, lookup, reserved, crossed>>
callVars == <<receipts, calls>>
steerVars == <<pending, callVars, begun, closed>>
vars == <<turnVars, hostVars, steerVars>>

Origins == {"none", "desktop", "command", "delegated", "autonomous", "steer"}

NotEnding == [turn |-> 0, stage |-> "none", outcome |-> "none"]
NotPending == [call |-> None, turn |-> 0, phase |-> "none", cancelled |-> "pending",
               outcome |-> "none", race |-> "none", failed |-> FALSE]
NotCalled == [state |-> "idle", turn |-> 0, on |-> None]

Outcomes == {"none", "cancelled", "failed"}

TypeOK ==
  /\ turns \in Nat
  /\ active \in Nat
  /\ origin \in Origins
  /\ ending \in [turn : Nat, stage : {"none", "emitted", "projected"},
                outcome : Outcomes]
  /\ lookup \in {"none", "listing", "executing"}
  /\ pending \in [call : Calls \cup {None}, turn : Nat,
                 phase : {"none", "cancel", "terminal", "resolve", "start"},
                 cancelled : {"pending", "ok", "refused"}, outcome : Outcomes,
                 race : {"none", "event", "failure"}, failed : BOOLEAN]
  /\ receipts \in Seq([call : Calls \cup {None}, turn : Nat, settled : BOOLEAN])
  /\ calls \in [Calls -> [state : {"idle", "waiting", "ok", "error"},
                          turn : Nat, on : Calls \cup {None}]]
  /\ reserved \in BOOLEAN /\ crossed \in BOOLEAN
  /\ begun \subseteq Calls
  /\ closed \in BOOLEAN

Init ==
  /\ turns = 0
  /\ active = 0
  /\ origin = "none"
  /\ ending = NotEnding
  /\ lookup = "none"
  /\ pending = NotPending
  /\ receipts = <<>>
  /\ calls = [c \in Calls |-> NotCalled]
  /\ reserved = FALSE /\ crossed = FALSE
  /\ begun = {}
  /\ closed = FALSE

HasPending == pending.phase # "none"

\* Mutation: a Thread is busy while it runs a Turn.
BusyRunning == active # 0

\* #externalThreadBusy
Busy == active # 0 \/ HasPending

-----------------------------------------------------------------------------
(* The Turns of a Thread. *)

\* thread.running and thread.activeTurnId of a new Turn.
Begin(who) ==
  /\ turns' = turns + 1
  /\ active' = turns + 1
  /\ origin' = who

EndActive ==
  /\ active' = 0
  /\ origin' = "none"
  /\ UNCHANGED turns

\* History: a Turn begins although a command is looked up.
Cross ==
  crossed' = (crossed \/ lookup = "listing")

\* turn/start with plain text.
DesktopTurn ==
  /\ turns < MaxTurns
  /\ ~Busy /\ ~reserved
  /\ Begin("desktop")
  /\ UNCHANGED <<hostVars, steerVars>>

\* A start for the delegation coordinator does not look at the commands.
DelegatedTurn ==
  /\ turns < MaxTurns
  /\ ~Busy
  /\ Begin("delegated")
  /\ Cross
  /\ UNCHANGED <<ending, lookup, reserved, steerVars>>

\* The Harness begins a Turn of its own.
AutonomousTurn ==
  /\ turns < MaxTurns
  /\ active = 0 /\ ending = NotEnding
  /\ Begin("autonomous")
  /\ Cross
  /\ UNCHANGED <<ending, lookup, reserved, steerVars>>

\* thread/command/execute, or turn/start with the text of a command: the
\* Thread is reserved, and the catalog of the Harness awaited.
LookUpCommand ==
  /\ ~Busy /\ ~reserved /\ lookup = "none"
  /\ lookup' = "listing"
  /\ reserved' = TRUE
  /\ UNCHANGED <<turnVars, ending, crossed, steerVars>>

\* The command begins if no Turn is active by now, or as plain text when there
\* is no such command; or there is an error.
CommandFound ==
  /\ lookup = "listing"
  /\ \/ /\ active = 0 /\ turns < MaxTurns
        /\ Begin("command")
        /\ lookup' = "executing"
        /\ reserved' \in {reserved, FALSE}
     \/ /\ lookup' = "none"
        /\ reserved' = FALSE
        /\ UNCHANGED turnVars
  /\ UNCHANGED <<ending, crossed, steerVars>>

\* The Harness accepts the command or refuses it.
CommandStarted ==
  /\ lookup = "executing"
  /\ lookup' = "none"
  /\ reserved' = FALSE
  /\ UNCHANGED turnVars \/ EndActive
  /\ UNCHANGED <<ending, crossed, steerVars>>

\* The Harness ends the active Turn, cancelled or not.
TurnEnds ==
  /\ active # 0 /\ ending = NotEnding
  /\ \E outcome \in {"cancelled", "failed"} :
       ending' = [turn |-> active, stage |-> "emitted", outcome |-> outcome]
  /\ UNCHANGED <<turnVars, lookup, reserved, crossed, steerVars>>

\* #projectHarnessOutput, once the start of the Turn has been answered: the
\* Turn is over for the Host, and Desktop is told.
TurnProjected ==
  /\ ending.stage = "emitted" /\ ending.turn = active
  /\ origin = "steer" => pending.phase # "start"
  /\ origin = "command" => lookup # "executing"
  /\ ending' = [ending EXCEPT !.stage = "projected"]
  /\ EndActive
  /\ UNCHANGED <<lookup, reserved, crossed, steerVars>>

\* #recoverFailedProjection, or a start that the Harness refuses: the Turn is
\* over and nobody tells the steering.
TurnLost ==
  /\ active # 0 \/ ending # NotEnding
  /\ ending' = NotEnding
  /\ EndActive
  /\ UNCHANGED <<lookup, reserved, crossed, steerVars>>

-----------------------------------------------------------------------------
(* turn/steer *)

SameMessage(c, d) == MessageOf[c] # None /\ MessageOf[c] = MessageOf[d]

ReceiptsOf(c) == {r \in ToSet(receipts) : r.call # None /\ SameMessage(r.call, c)}

Answered(c, n, state) ==
  calls' = [calls EXCEPT ![c] = [state |-> state, turn |-> n, on |-> None]]

\* A receipt answers, with its result if it has one.
Repeat(c, n) ==
  \E r \in ReceiptsOf(c) :
    /\ IF r.turn # n THEN Answered(c, n, "error")
       ELSE IF r.settled THEN Answered(c, n, "ok")
       ELSE calls' = [calls EXCEPT ![c] = [state |-> "waiting", turn |-> n, on |-> r.call]]
    /\ UNCHANGED <<pending, receipts>>

\* #replace registers before it cancels.
Register(c, n) ==
  /\ pending' = [NotPending EXCEPT !.call = c, !.turn = active, !.phase = "cancel"]
  /\ receipts' = IF MessageOf[c] = None THEN receipts
                 ELSE Append(receipts, [call |-> c, turn |-> n, settled |-> FALSE])
  /\ calls' = [calls EXCEPT ![c] = [state |-> "waiting", turn |-> n, on |-> c]]

\* Mutation: whatever Turn is active is replaced.
ReplaceAny(c, n) ==
  IF HasPending \/ active = 0
  THEN Answered(c, n, "error") /\ UNCHANGED <<pending, receipts>>
  ELSE Register(c, n)

Replace(c, n) ==
  IF HasPending \/ active # n
  THEN Answered(c, n, "error") /\ UNCHANGED <<pending, receipts>>
  ELSE Register(c, n)

\* run(): Desktop names the Turn it saw, now or earlier.
Steer(c, n) ==
  /\ calls[c].state = "idle"
  /\ IF closed THEN Answered(c, n, "error") /\ UNCHANGED <<pending, receipts>>
     ELSE IF ReceiptsOf(c) # {} THEN Repeat(c, n)
     ELSE Replace(c, n)
  /\ UNCHANGED <<turnVars, hostVars, begun, closed>>

\* The result of the operation reaches every call that awaits it.
Deliver(state) ==
  /\ calls' = [c \in Calls |->
                 IF calls[c].state = "waiting" /\ calls[c].on = pending.call
                 THEN [calls[c] EXCEPT !.state = state] ELSE calls[c]]
  /\ pending' = NotPending

\* Mutation: the oldest receipt goes, settled or not.
KeepNewest(rs) == IF Len(rs) > MaxReceipts THEN Tail(rs) ELSE rs

\* The oldest settled receipt goes when there are too many.
DropOldest(rs) ==
  LET old == {i \in DOMAIN rs : rs[i].settled}
  IN  IF Len(rs) > MaxReceipts /\ old # {}
      THEN RemoveAt(rs, CHOOSE i \in old : \A j \in old : i <= j)
      ELSE rs

\* The loop that drops them.  Two rounds are all of it: it runs whenever a delivery
\* succeeds, and between two runs there is one of this Thread that has not, and one
\* that has.
Trimmed(rs) == DropOldest(DropOldest(rs))

Succeed ==
  /\ Deliver("ok")
  /\ receipts' = Trimmed([i \in DOMAIN receipts |->
                    IF receipts[i].call = pending.call
                    THEN [receipts[i] EXCEPT !.settled = TRUE] ELSE receipts[i]])

\* The receipt of the operation goes, if it has one: a message has no second.
Withdrawn ==
  LET own == {i \in DOMAIN receipts : receipts[i].call = pending.call}
  IN  IF own = {} THEN receipts ELSE RemoveAt(receipts, CHOOSE i \in own : TRUE)

Fail ==
  /\ Deliver("error")
  /\ receipts' = Withdrawn

\* A replacement on another Thread of the connection succeeds.
OtherSucceeds ==
  /\ ~closed
  /\ receipts' = Trimmed(Append(receipts, [call |-> None, turn |-> 0, settled |-> TRUE]))
  /\ UNCHANGED <<turnVars, hostVars, pending, calls, begun, closed>>

\* The adapter acknowledges or refuses the cancel.
CancelSettles ==
  /\ pending.phase = "cancel" /\ pending.cancelled = "pending"
  /\ \E answer \in {"ok", "refused"} :
       pending' = [pending EXCEPT !.cancelled = answer,
                                  !.race = IF @ = "none" THEN "event" ELSE @]
  /\ UNCHANGED <<turnVars, hostVars, callVars, begun, closed>>

\* terminal(), the last thing the projection of a terminal event does.
Terminal ==
  /\ ending.stage = "projected"
  /\ ending' = NotEnding
  /\ IF HasPending /\ pending.turn = ending.turn /\ pending.outcome = "none"
     THEN pending' = [pending EXCEPT
                        !.outcome = ending.outcome,
                        !.race = IF @ = "none" /\ pending.phase = "terminal"
                                 THEN "event" ELSE @]
     ELSE UNCHANGED pending
  /\ UNCHANGED <<turnVars, lookup, reserved, crossed, callVars, begun, closed>>

\* pending.reject(), by the first to fail it.
Rejected(p) ==
  [p EXCEPT !.failed = TRUE, !.race = IF @ = "none" THEN "failure" ELSE @]

\* interrupt() of the Turn being replaced, a fault of the session, or the end of
\* its outputs.
Stopped ==
  /\ HasPending /\ ~pending.failed
  /\ pending' = Rejected(pending)
  /\ UNCHANGED <<turnVars, hostVars, callVars, begun, closed>>

\* Mutation: the time for the cancel alone.
TimesOutCancel ==
  /\ pending.phase = "cancel" /\ ~pending.failed
  /\ pending' = Rejected(pending)
  /\ UNCHANGED <<turnVars, hostVars, callVars, begun, closed>>

\* 20 s for the cancel and the terminal event.
TimesOut ==
  /\ pending.phase \in {"cancel", "terminal"} /\ ~pending.failed
  /\ pending' = Rejected(pending)
  /\ UNCHANGED <<turnVars, hostVars, callVars, begun, closed>>

Close ==
  /\ ~closed
  /\ closed' = TRUE
  /\ pending' = IF HasPending THEN Rejected(pending) ELSE pending
  /\ receipts' = <<>>
  /\ UNCHANGED <<turnVars, hostVars, calls, begun>>

\* The first await ends.  Of the second race the terminal event comes first in
\* the array.
AfterCancel ==
  /\ pending.phase = "cancel" /\ pending.race # "none"
  /\ IF pending.race = "failure" \/ pending.cancelled = "refused"
     THEN Fail
     ELSE /\ pending' = [pending EXCEPT
                           !.phase = "terminal",
                           !.race = IF pending.outcome # "none" THEN "event"
                                    ELSE IF pending.failed THEN "failure" ELSE "none"]
          /\ UNCHANGED callVars
  /\ UNCHANGED <<turnVars, hostVars, begun, closed>>

\* assertActive
StillWanted == ~pending.failed /\ ~closed

BeginReplacement ==
  /\ Begin("steer")
  /\ pending' = [pending EXCEPT !.phase = "start"]
  /\ begun' = begun \cup {pending.call}
  /\ UNCHANGED callVars

\* The second await ends.  The new text is begun at once, or looks like a
\* command and is looked up.
AfterTerminal ==
  /\ pending.phase = "terminal" /\ pending.race # "none"
  /\ IF pending.race = "event" /\ StillWanted
        /\ pending.outcome # "failed" /\ active = 0
     THEN \/ /\ ~reserved
             /\ BeginReplacement
             /\ UNCHANGED reserved
          \/ /\ reserved
             /\ Fail
             /\ UNCHANGED <<turnVars, begun, reserved>>
          \/ /\ pending' = [pending EXCEPT !.phase = "resolve"]
             /\ reserved' = TRUE
             /\ UNCHANGED <<turnVars, begun, callVars>>
     ELSE Fail /\ UNCHANGED <<turnVars, begun, reserved>>
  /\ UNCHANGED <<ending, lookup, crossed, closed>>

\* Mutation: nothing is checked again after the lookup.
ResolvedUnchecked ==
  /\ pending.phase = "resolve"
  /\ \/ /\ active = 0
        /\ BeginReplacement
        /\ reserved' \in {reserved, FALSE}
     \/ /\ Fail
        /\ reserved' = FALSE
        /\ UNCHANGED <<turnVars, begun>>
  /\ UNCHANGED <<ending, lookup, crossed, closed>>

\* The text is a command, is none, or could not be looked up.
Resolved ==
  /\ pending.phase = "resolve"
  /\ \/ /\ StillWanted /\ active = 0
        /\ BeginReplacement
        /\ reserved' \in {reserved, FALSE}
     \/ /\ Fail
        /\ reserved' = FALSE
        /\ UNCHANGED <<turnVars, begun>>
  /\ UNCHANGED <<ending, lookup, crossed, closed>>

\* The Harness accepts the replacement or refuses it.
StartSettles ==
  /\ pending.phase = "start"
  /\ \/ Succeed /\ UNCHANGED turnVars
     \/ Fail /\ EndActive
  /\ reserved' = FALSE
  /\ UNCHANGED <<ending, lookup, crossed, begun, closed>>

Continue ==
  AfterCancel \/ AfterTerminal \/ Resolved \/ StartSettles

Next ==
  \/ DesktopTurn \/ DelegatedTurn \/ AutonomousTurn
  \/ LookUpCommand \/ CommandFound \/ CommandStarted
  \/ TurnEnds \/ TurnProjected \/ TurnLost
  \/ \E c \in Calls, n \in 1..turns : Steer(c, n)
  \/ CancelSettles \/ Terminal \/ Stopped \/ TimesOut
  \/ Continue
  \/ OtherSucceeds \/ Close

\* The timer fires, continuations run, and the Harness answers a lookup and a
\* start.  Nothing is assumed of cancels and terminal events.
FairSpec ==
  /\ Init /\ [][Next]_vars
  /\ WF_vars(TimesOut) /\ WF_vars(Continue)

Spec == Init /\ [][Next]_vars

-----------------------------------------------------------------------------
(* Properties *)

\* No replacement begins once it was stopped: interrupted, timed out, faulted or
\* closed, whichever await that came in, the lookup of a command included.
StoppedStaysStopped ==
  [][pending.phase # "start" /\ pending'.phase = "start"
     => ~pending.failed /\ ~closed]_vars

\* One message replaces a Turn at most once, whatever is repeated when: while the
\* first delivery is under way, after it failed, or after its receipt is gone.
OneReplacementPerMessage ==
  \A c, d \in begun :
    SameMessage(c, d) /\ calls[c].turn = calls[d].turn => c = d

\* While a message is being delivered, a repetition joins it: "never evict an
\* in-flight delivery reservation".
RepetitionJoins ==
  [][\A c, d \in Calls :
       calls[c].state = "waiting" /\ calls[c].on = c /\ ~closed
         /\ calls[d].state = "idle" /\ calls'[d].state # "idle"
         /\ SameMessage(c, d) /\ calls'[d].turn = calls[c].turn
         => calls'[d].state = "waiting" /\ calls'[d].on = c]_vars

\* Until the replacement begins, only the Turn being replaced or a Turn of the
\* Harness itself is active: no start of Desktop or of a delegation gets in
\* between (docs/architecture/external-thread-steering.md:10).  The exception is
\* a Thread where a Turn once began while a command was looked up: the command,
\* admitted before, may begin then.
NotPreempted ==
  pending.phase \in {"cancel", "terminal", "resolve"} /\ active # 0 /\ ~crossed
    => active = pending.turn \/ origin = "autonomous"

\* Every call is answered, also if the cancel or the terminal event never comes.
CallsAreAnswered ==
  \A c \in Calls : calls[c].state = "waiting" ~> calls[c].state \in {"ok", "error"}
=============================================================================
