----------------------------- MODULE SocketLock -----------------------------
(***************************************************************************)
(* The lock around bind and unlink of the remote control socket:           *)
(* withRemoteAppServerSocketInitializationLock() of                        *)
(* src/packages/host-runtime/src/remote-socket-lock.ts.                    *)
(*                                                                         *)
(* A contender is one call, of a process of its own.  It owns one register *)
(* file, named by its token, in a shared directory: Lamport's bakery, with *)
(* registers that others remove when their owner is gone or their lease    *)
(* ran out.  A register is written by rename, hence atomically; a catalog  *)
(* of the directory is a listing followed by one read per file, and the    *)
(* directory changes between those.  The file of the version 1 protocol is *)
(* a second fence, taken by the winner.                                    *)
(*                                                                         *)
(* A malformed register cannot come from this protocol and is left out;    *)
(* so are the contenders of version 1 and errors of the file system.       *)
(***************************************************************************)
EXTENDS Naturals, FiniteSets

CONSTANTS
  Contenders,  \* calls, numbered in the order of their tokens
  Faulty,      \* calls that may die, or hold the lock beyond its 30 s
  Earlier,     \* a process that died long before and may have left its file
  Nobody

ASSUME SocketLockAssumption ==
  /\ Contenders \subseteq Nat /\ Faulty \subseteq Contenders
  /\ Nobody \notin Nat /\ Earlier \notin Nat

VARIABLES
  pc,        \* where each contender is
  register,  \* its register file: absent, choosing, or a ticket
  aged,      \* the registers older than the lease
  guard,     \* owner of the version 1 file, or Nobody
  guardAged, \* the version 1 file is older than the lease
  dead,      \* the contenders whose process is gone
  todo,      \* listed files a contender has still to read
  doomed,    \* the register a contender is about to remove
  found,     \* what its catalog holds so far
  expired    \* history: contenders whose lease ever ran out

socketVars == <<pc, register, aged, guard, guardAged, dead, todo, doomed, found, expired>>

Absent == [state |-> "absent", ticket |-> 0]
Choosing == [state |-> "choosing", ticket |-> 0]
Ticket(n) == [state |-> "ticket", ticket |-> n]

NothingFound == [max |-> 0, own |-> FALSE, blocked |-> FALSE, unsettled |-> FALSE]
NoneDoomed == [who |-> Nobody, checked |-> FALSE]

Scanning == {"choosing", "waiting"}

SocketTypeOK ==
  /\ pc \in [Contenders -> {"idle", "choose", "choosing", "wait", "waiting",
                            "guard", "action", "leave", "done"}]
  /\ register \in [Contenders -> [state : {"absent", "choosing", "ticket"},
                                  ticket : Nat]]
  /\ aged \subseteq Contenders
  /\ guard \in Contenders \cup {Earlier, Nobody}
  /\ guardAged \in BOOLEAN
  /\ dead \subseteq Contenders
  /\ todo \in [Contenders -> SUBSET Contenders]
  /\ doomed \in [Contenders -> [who : Contenders \cup {Nobody}, checked : BOOLEAN]]
  /\ found \in [Contenders -> [max : Nat, own : BOOLEAN, blocked : BOOLEAN,
                               unsettled : BOOLEAN]]
  /\ expired \subseteq Contenders

SocketInit ==
  /\ pc = [c \in Contenders |-> "idle"]
  /\ register = [c \in Contenders |-> Absent]
  /\ aged = {} /\ dead = {} /\ expired = {}
  /\ guard \in {Earlier, Nobody} /\ guardAged = (guard = Earlier)
  /\ todo = [c \in Contenders |-> {}]
  /\ doomed = [c \in Contenders |-> NoneDoomed]
  /\ found = [c \in Contenders |-> NothingFound]

Goto(c, label) == pc' = [pc EXCEPT ![c] = label]

Present(c) == register[c].state # "absent"

\* ownerIsAbandoned
Abandoned(d) == d \in dead \cup aged

\* Mutation: of two equal tickets each goes first.
TicketOnly(mine, c, theirs, d) ==
  theirs.state = "choosing" \/ theirs.ticket < mine.ticket

\* What keeps c waiting: another that chooses, or goes first.
Precedes(mine, c, theirs, d) ==
  \/ theirs.state = "choosing"
  \/ theirs.ticket < mine.ticket
  \/ /\ theirs.ticket = mine.ticket
     /\ d < c

-----------------------------------------------------------------------------
(* Reading the catalog. *)

\* The register is written with choosing set before anything is read.
Register(c) ==
  /\ pc[c] = "idle"
  /\ register' = [register EXCEPT ![c] = Choosing]
  /\ Goto(c, "choose")
  /\ UNCHANGED <<aged, guard, guardAged, dead, todo, doomed, found, expired>>

\* readdir: files that appear later are not read.
List(c) ==
  /\ pc[c] \in {"choose", "wait"}
  /\ todo' = [todo EXCEPT ![c] = {d \in Contenders : Present(d)}]
  /\ Goto(c, IF pc[c] = "choose" THEN "choosing" ELSE "waiting")
  /\ UNCHANGED <<register, aged, guard, guardAged, dead, doomed, found, expired>>

\* A register of a live owner enters the catalog; one that is gone does not.
\* While choosing its ticket counts, later what the register says of the order.
Entered(c, d) ==
  IF pc[c] = "choosing"
    THEN [found[c] EXCEPT !.max = IF register[d].ticket > @
                                    THEN register[d].ticket ELSE @]
    ELSE [found[c] EXCEPT
           !.own = @ \/ d = c,
           !.blocked = @ \/ (d # c /\ Precedes(register[c], c, register[d], d))]

Read(c, d) ==
  /\ pc[c] \in Scanning /\ d \in todo[c]
  /\ doomed[c] = NoneDoomed
  /\ Present(d) => ~Abandoned(d)
  /\ todo' = [todo EXCEPT ![c] = @ \ {d}]
  /\ found' = IF Present(d) THEN [found EXCEPT ![c] = Entered(c, d)] ELSE found
  /\ UNCHANGED <<pc, register, aged, guard, guardAged, dead, doomed, expired>>

\* A register that looks abandoned is read again before it is removed.
Suspect(c, d) ==
  /\ pc[c] \in Scanning /\ d \in todo[c]
  /\ doomed[c] = NoneDoomed
  /\ Present(d) /\ Abandoned(d)
  /\ doomed' = [doomed EXCEPT ![c] = [who |-> d, checked |-> FALSE]]
  /\ UNCHANGED <<pc, register, aged, guard, guardAged, dead, todo, found, expired>>

\* It changed, or someone else removed it: the catalog is not settled.
Recheck(c) ==
  /\ doomed[c] # NoneDoomed /\ ~doomed[c].checked
  /\ LET d == doomed[c].who
     IN IF Present(d) /\ Abandoned(d)
          THEN /\ doomed' = [doomed EXCEPT ![c].checked = TRUE]
               /\ UNCHANGED <<todo, found>>
          ELSE /\ doomed' = [doomed EXCEPT ![c] = NoneDoomed]
               /\ todo' = [todo EXCEPT ![c] = @ \ {d}]
               /\ found' = [found EXCEPT ![c].unsettled = pc[c] = "waiting"]
  /\ UNCHANGED <<pc, register, aged, guard, guardAged, dead, expired>>

\* rm of the register that was read again.
RemoveRegister(c) ==
  /\ doomed[c].checked
  /\ LET d == doomed[c].who
     IN /\ register' = [register EXCEPT ![d] = Absent]
        /\ aged' = aged \ {d}
        /\ todo' = [todo EXCEPT ![c] = @ \ {d}]
  /\ doomed' = [doomed EXCEPT ![c] = NoneDoomed]
  /\ UNCHANGED <<pc, guard, guardAged, dead, found, expired>>

ScanDone(c) == todo[c] = {} /\ doomed[c] = NoneDoomed

-----------------------------------------------------------------------------
(* The bakery. *)

\* The ticket is published over the choosing register.
Publish(c) ==
  /\ pc[c] = "choosing" /\ ScanDone(c)
  /\ register' = [register EXCEPT ![c] = Ticket(found[c].max + 1)]
  /\ aged' = aged \ {c}
  /\ Goto(c, "wait")
  /\ found' = [found EXCEPT ![c] = NothingFound]
  /\ UNCHANGED <<guard, guardAged, dead, todo, doomed, expired>>

\* A catalog without its own register: the lock was lost.  One that is settled
\* and holds nobody who goes first: the bakery is won.  Otherwise retry.
Decide(c) ==
  /\ pc[c] = "waiting" /\ ScanDone(c)
  /\ Goto(c, CASE ~found[c].own -> "leave"
               [] found[c].own /\ (found[c].blocked \/ found[c].unsettled) -> "wait"
               [] OTHER -> "guard")
  /\ found' = [found EXCEPT ![c] = NothingFound]
  /\ UNCHANGED <<register, aged, guard, guardAged, dead, todo, doomed, expired>>

\* The retries are used up.
GiveUp(c) ==
  /\ pc[c] = "wait"
  /\ Goto(c, "leave")
  /\ UNCHANGED <<register, aged, guard, guardAged, dead, todo, doomed, found, expired>>

\* The winner takes the version 1 file; one left by an owner that is gone is
\* left in place and passed; any other makes the winner retry.
TakeGuard(c) ==
  /\ pc[c] = "guard"
  /\ \/ /\ guard = Nobody
        /\ guard' = c /\ guardAged' = FALSE
        /\ Goto(c, "action")
     \/ /\ guard # Nobody
        /\ Goto(c, IF guard \in dead \/ guardAged THEN "action" ELSE "wait")
        /\ UNCHANGED <<guard, guardAged>>
  /\ UNCHANGED <<register, aged, dead, todo, doomed, found, expired>>

\* The action ends, and its guard, if it has one, is removed.
EndAction(c) ==
  /\ pc[c] = "action"
  /\ IF guard = c THEN guard' = Nobody /\ guardAged' = FALSE
                  ELSE UNCHANGED <<guard, guardAged>>
  /\ Goto(c, "leave")
  /\ UNCHANGED <<register, aged, dead, todo, doomed, found, expired>>

\* Mutation: the register stays behind.
LeaveRegistered(c) ==
  /\ pc[c] = "leave"
  /\ Goto(c, "done")
  /\ UNCHANGED <<register, aged, guard, guardAged, dead, todo, doomed, found, expired>>

\* removeOwnedLockEntry
Leave(c) ==
  /\ pc[c] = "leave"
  /\ register' = [register EXCEPT ![c] = Absent]
  /\ aged' = aged \ {c}
  /\ Goto(c, "done")
  /\ UNCHANGED <<guard, guardAged, dead, todo, doomed, found, expired>>

-----------------------------------------------------------------------------
(* The environment. *)

\* The process dies and leaves its files.
Die(c) ==
  /\ c \in Faulty
  /\ pc[c] \notin {"idle", "done"}
  /\ dead' = dead \cup {c}
  /\ Goto(c, "done")
  /\ todo' = [todo EXCEPT ![c] = {}]
  /\ doomed' = [doomed EXCEPT ![c] = NoneDoomed]
  /\ found' = [found EXCEPT ![c] = NothingFound]
  /\ UNCHANGED <<register, aged, guard, guardAged, expired>>

\* 30 s since a register, or the guard, was written.
Expire(c) ==
  /\ c \in Faulty
  /\ \/ /\ Present(c) /\ c \notin aged
        /\ aged' = aged \cup {c}
        /\ UNCHANGED guardAged
     \/ /\ guard = c /\ ~guardAged
        /\ guardAged' = TRUE
        /\ UNCHANGED aged
  /\ expired' = expired \cup {c}
  /\ UNCHANGED <<pc, register, guard, dead, todo, doomed, found>>

Scan(c) ==
  \/ List(c) \/ Recheck(c) \/ RemoveRegister(c)
  \/ \E d \in Contenders : Read(c, d) \/ Suspect(c, d)

Proceed(c) ==
  \/ Scan(c) \/ Publish(c) \/ Decide(c)
  \/ TakeGuard(c) \/ EndAction(c) \/ Leave(c)

SocketNext ==
  \E c \in Contenders :
    Register(c) \/ Proceed(c) \/ GiveUp(c) \/ Die(c) \/ Expire(c)

SocketSpec == SocketInit /\ [][SocketNext]_socketVars

\* A live process runs its awaits to their end; nothing is assumed of when a
\* contender comes, gives up or dies.
SocketFairSpec == SocketSpec /\ \A c \in Contenders : WF_socketVars(Proceed(c))

-----------------------------------------------------------------------------
(* Properties *)

\* No two processes bind or unlink the socket at once, unless the lease of one
\* of them ran out during its call ("A bounded lease recovers a live-PID
\* register").  Arrivals, deaths, removals of abandoned registers and the
\* reads of catalogs come in any order.
MutualExclusion ==
  \A c, d \in Contenders :
    pc[c] = "action" /\ pc[d] = "action" /\ c # d => {c, d} \cap expired # {}

\* "concurrent recovery cannot remove a successor's lock": while a call is
\* under way and its lease never ran out, its register is there.
RegisterIsKept ==
  \A c \in Contenders :
    pc[c] \notin {"idle", "done"} /\ c \notin expired => Present(c)

\* Nobody waits for ever: a call that has a register leaves the lock, also
\* when others died while they chose, waited or held it, and without help from
\* the limit on retries.
ContendersLeave ==
  \A c \in Contenders : pc[c] # "idle" ~> pc[c] = "done"
=============================================================================
