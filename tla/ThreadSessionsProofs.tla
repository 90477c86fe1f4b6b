------------------------ MODULE ThreadSessionsProofs ------------------------
(***************************************************************************)
(* What holds of the sessions of a Thread for any number of operations and *)
(* instances.  The queue first: who runs in it, and that a release waits   *)
(* for everybody else.  Then the instances: who holds which, and what the  *)
(* Host knows of each.                                                     *)
(***************************************************************************)
EXTENDS ThreadSessions, TLAPS

USE SessionsAssumption DEF None

-----------------------------------------------------------------------------
(* What an operation holds, by where it is and what it does.               *)

Detached(o) == KindOf[o] = "turn" /\ ops[o].pc \in {"detached", "starting"}

Before == {"new", "waiting", "entered", "finding", "done"}
Rolling == {"prepared", "committed", "replacing"}

Fits(o) ==
  /\ ops[o].pc \in Before => ops[o].inst = None
  /\ ops[o].next # None <=> ops[o].pc \in Rolling
  /\ \/ ops[o].inst # None
     \/ ops[o].pc \in Before
     \/ At(o, "using") /\ KindOf[o] = "delete"
  /\ At(o, "detached") => KindOf[o] = "turn"
  /\ At(o, "starting") => KindOf[o] \in {"turn", "control"}
  /\ At(o, "closing") => KindOf[o] = "delete"
  /\ At(o, "awaiting") => KindOf[o] # "delete"
  /\ ops[o].pc \in Rolling => KindOf[o] = "rollback"

OperationsFit == \A o \in Ops : Fits(o)

-----------------------------------------------------------------------------
(* The queue of the Thread.                                                *)

InQueue(x) == \E k \in DOMAIN queue : queue[k] = x

Distinct == \A j, k \in DOMAIN queue : queue[j] = queue[k] => j = k

(* The operations that are in the queue, and of these the ones that run.   *)
Awaited(o) == Queued(o) /\ ops[o].pc \notin {"new", "done"} /\ ~Detached(o)
Served(o) == Awaited(o) /\ ~At(o, "waiting")

QueueFits ==
  /\ Distinct
  /\ \A o \in Ops : InQueue(o) <=> Awaited(o)
  /\ \A o \in Ops : Served(o) => Running(o)
  /\ InQueue(Release) <=> candidate # None
  /\ Stopped => queue = <<>>

(* A release runs alone, and the Host closes when nothing runs.            *)
ClosesAlone ==
  /\ releasing # None => Running(Release) /\ Counted = {} /\ releasing = candidate
  /\ host \in {"closing", "closed"} => Counted = {}

OrderInv == TypeOK /\ OperationsFit /\ QueueFits /\ ClosesAlone

LEMMA DoneFields ==
  /\ Done \in Operation
  /\ Done.pc = "done" /\ Done.inst = None /\ Done.next = None
BY DEF Done, Idle, Operation, Phases

LEMMA Appended ==
  ASSUME TypeOK, NEW x \in Ops \cup {Release}, queue' = Append(queue, x),
         Distinct, ~InQueue(x)
  PROVE  /\ queue' \in Seq(Ops \cup {Release}) /\ queue' # <<>>
         /\ Distinct'
         /\ \A y : InQueue(y)' <=> InQueue(y) \/ y = x
         /\ queue # <<>> => Head(queue') = Head(queue)
<1>1. queue \in Seq(Ops \cup {Release})
  BY DEF TypeOK
<1>2. /\ DOMAIN queue = 1 .. Len(queue) /\ Len(queue) \in Nat
      /\ DOMAIN queue' = 1 .. Len(queue) + 1
      /\ \A k \in DOMAIN queue : queue'[k] = queue[k]
      /\ queue'[Len(queue) + 1] = x
  BY <1>1
<1>3. Distinct'
  BY <1>2 DEF Distinct, InQueue
<1>4. \A y : InQueue(y)' <=> InQueue(y) \/ y = x
  BY <1>2 DEF InQueue
<1> QED
  BY <1>1, <1>3, <1>4

LEMMA Removed ==
  ASSUME TypeOK, queue # <<>>, queue' = Tail(queue), Distinct
  PROVE  /\ queue' \in Seq(Ops \cup {Release})
         /\ Distinct'
         /\ \A y : InQueue(y)' <=> InQueue(y) /\ y # Head(queue)
<1>1. queue \in Seq(Ops \cup {Release})
  BY DEF TypeOK
<1>2. /\ DOMAIN queue = 1 .. Len(queue) /\ Len(queue) \in Nat \ {0}
      /\ DOMAIN queue' = 1 .. Len(queue) - 1
      /\ \A k \in 1 .. Len(queue) - 1 : queue'[k] = queue[k + 1]
      /\ Head(queue) = queue[1]
  BY <1>1
<1>3. Distinct'
  BY <1>2 DEF Distinct
<1>4. ASSUME NEW y PROVE InQueue(y)' <=> InQueue(y) /\ y # Head(queue)
  <2>1. ASSUME NEW k \in DOMAIN queue', queue'[k] = y
        PROVE  InQueue(y) /\ y # Head(queue)
    BY <1>2, <2>1 DEF InQueue, Distinct
  <2>2. ASSUME NEW k \in DOMAIN queue, queue[k] = y, y # Head(queue)
        PROVE  InQueue(y)'
    <3>1. k - 1 \in DOMAIN queue' /\ queue'[k - 1] = y
      BY <1>2, <2>2
    <3> QED  BY <3>1 DEF InQueue
  <2> QED  BY <2>1, <2>2 DEF InQueue
<1> QED
  BY <1>1, <1>3, <1>4

LEMMA ServedAlone ==
  ASSUME QueueFits, NEW o \in Ops, NEW p \in Ops, Served(o), Served(p)
  PROVE  o = p
BY DEF QueueFits, Running

(* The end of some operations, of which at most the running one is in the  *)
(* queue.                                                                  *)
LEMMA OverOrder ==
  ASSUME OrderInv, NEW done \in SUBSET Ops, Over(done),
         \A o \in done : ~At(o, "new") /\ (Awaited(o) => Running(o)),
         UNCHANGED <<candidate, releasing, host>>
  PROVE  /\ queue' \in Seq(Ops \cup {Release}) /\ stale' \in BOOLEAN
         /\ ops' \in [Ops -> Operation]
         /\ \A o \in done : ops'[o] = Done
         /\ \A o \in Ops \ done : ops'[o] = ops[o]
         /\ OperationsFit' /\ QueueFits' /\ ClosesAlone'
<1> USE DEF OrderInv
<1>1. /\ ops' \in [Ops -> Operation]
      /\ \A o \in done : ops'[o] = Done
      /\ \A o \in Ops \ done : ops'[o] = ops[o]
  BY DoneFields DEF Over, TypeOK
<1>2. stale' \in BOOLEAN
  BY DEF Over
<1>3. OperationsFit'
  BY <1>1, DoneFields DEF OperationsFit, Fits, At, Rolling, Before
<1>4. Counted' \subseteq Counted
  BY <1>1, DoneFields DEF Counted
<1>5. /\ \A o \in done : ~Awaited(o)'
      /\ \A o \in Ops \ done : /\ Awaited(o)' <=> Awaited(o)
                               /\ Served(o)' <=> Served(o)
  BY <1>1, DoneFields DEF Awaited, Served, Detached, At
<1>6. CASE queue # <<>> /\ Head(queue) \in done
  <2>1. queue' = Tail(queue)
    BY <1>6 DEF Over
  <2>2. queue' \in Seq(Ops \cup {Release}) /\ Distinct'
        /\ \A y : InQueue(y)' <=> InQueue(y) /\ y # Head(queue)
    BY <1>6, <2>1, Removed DEF QueueFits
  <2>3. \A o \in Ops : InQueue(o)' <=> Awaited(o)'
    BY <1>5, <1>6, <2>2 DEF QueueFits, Running
  <2>4. \A o \in Ops : Served(o)' => Running(o)'
    BY <1>5, <1>6 DEF QueueFits, Running, Served
  <2>5. Head(queue) # Release
    BY <1>6
  <2>6. Stopped' => queue' = <<>>
    BY <1>6 DEF QueueFits, Stopped
  <2>7. releasing = None
    BY <2>5 DEF ClosesAlone, Running
  <2> QED
    BY <1>1, <1>2, <1>3, <1>4, <2>2, <2>3, <2>4, <2>5, <2>6, <2>7
    DEF QueueFits, ClosesAlone
<1>7. CASE ~(queue # <<>> /\ Head(queue) \in done)
  <2>1. queue' = queue
    BY <1>7 DEF Over
  <2>2. \A o \in done : ~Awaited(o)
    BY <1>7 DEF Running
  <2>3. \A o \in Ops : Served(o)' => Served(o)
    BY <1>5 DEF Served
  <2>4. QueueFits'
    BY <1>5, <2>1, <2>2, <2>3 DEF QueueFits, Distinct, InQueue, Running, Stopped
  <2>5. ClosesAlone'
    BY <1>4, <2>1 DEF ClosesAlone, Running
  <2>6. queue' \in Seq(Ops \cup {Release})
    BY <2>1 DEF TypeOK
  <2> QED
    BY <1>1, <1>2, <1>3, <2>4, <2>5, <2>6
<1> QED
  BY <1>6, <1>7

(* Steps that leave everybody in the queue.                                *)
LEMMA MovesOrder ==
  ASSUME OrderInv,
         \A o \in Ops : /\ Awaited(o)' <=> Awaited(o)
                        /\ Served(o)' => Served(o) \/ Running(o)
                        /\ o \in Counted' =>
                             o \in Counted \/ (releasing = None /\ ~Stopped),
         UNCHANGED <<queue, candidate, releasing, host>>
  PROVE  QueueFits' /\ ClosesAlone'
<1>1. QueueFits'
  BY DEF OrderInv, QueueFits, Distinct, InQueue, Running, Stopped
<1>2. Counted \subseteq Ops /\ Counted' \subseteq Ops
  BY DEF Counted
<1>3. ClosesAlone'
  BY <1>2 DEF OrderInv, ClosesAlone, Running, Stopped
<1> QED
  BY <1>1, <1>3

(* One operation goes on.                                                  *)
LEMMA HoldsOne ==
  ASSUME TypeOK, NEW o \in Ops, NEW i \in Instances \cup {None}, NEW pc \in Phases,
         Holds(o, i, pc)
  PROVE  /\ ops' \in [Ops -> Operation]
         /\ \A p \in Ops \ {o} : ops'[p] = ops[p]
         /\ ops'[o].pc = pc /\ ops'[o].inst = i /\ ops'[o].next = ops[o].next
<1>1. ops[o] \in Operation /\ ops \in [Ops -> Operation]
  BY DEF TypeOK
<1>2. ops' = [ops EXCEPT ![o] = [ops[o] EXCEPT !.pc = pc, !.inst = i]]
  BY <1>1 DEF Holds
<1>3. /\ [ops[o] EXCEPT !.pc = pc, !.inst = i] \in Operation
      /\ [ops[o] EXCEPT !.pc = pc, !.inst = i].pc = pc
      /\ [ops[o] EXCEPT !.pc = pc, !.inst = i].inst = i
      /\ [ops[o] EXCEPT !.pc = pc, !.inst = i].next = ops[o].next
  BY <1>1 DEF Operation
<1> QED
  BY <1>1, <1>2, <1>3

LEMMA GoesOn ==
  ASSUME TypeOK, NEW o \in Ops, NEW pc \in Phases, ops' = [ops EXCEPT ![o].pc = pc]
  PROVE  /\ ops' \in [Ops -> Operation]
         /\ \A p \in Ops \ {o} : ops'[p] = ops[p]
         /\ ops'[o].pc = pc /\ ops'[o].inst = ops[o].inst
         /\ ops'[o].next = ops[o].next
<1> DEFINE new == [ops[o] EXCEPT !.pc = pc]
<1>1. ops \in [Ops -> Operation] /\ ops[o] \in Operation
  BY DEF TypeOK
<1>2. /\ new \in Operation
      /\ new.pc = pc /\ new.inst = ops[o].inst /\ new.next = ops[o].next
  BY <1>1 DEF Operation
<1>3. ops' = [ops EXCEPT ![o] = new]
  BY <1>1
<1> HIDE DEF new
<1> QED
  BY <1>1, <1>2, <1>3

(* A native session goes on.                                               *)
LEMMA NativeChanges ==
  ASSUME inst \in [Instances -> Instance], NEW i \in Instances,
         NEW s \in {"none", "opening", "live", "closing", "gone"},
         inst' = [inst EXCEPT ![i].native = s]
  PROVE  /\ inst' \in [Instances -> Instance]
         /\ inst'[i].native = s
         /\ inst'[i].ref = inst[i].ref /\ inst'[i].failed = inst[i].failed
         /\ \A j \in Instances \ {i} : inst'[j] = inst[j]
<1> DEFINE new == [inst[i] EXCEPT !.native = s]
<1>1. /\ new \in Instance
      /\ new.native = s /\ new.ref = inst[i].ref /\ new.failed = inst[i].failed
  BY DEF Instance
<1>2. inst' = [inst EXCEPT ![i] = new]
  OBVIOUS
<1> HIDE DEF new
<1> QED
  BY <1>1, <1>2

LEMMA MoveOrder ==
  ASSUME OrderInv, NEW o \in Ops, ops' \in [Ops -> Operation],
         \A p \in Ops \ {o} : ops'[p] = ops[p],
         Fits(o)',
         ops[o].pc \notin {"new", "waiting", "done"},
         ops'[o].pc \notin {"new", "waiting", "done"},
         Detached(o)' <=> Detached(o),
         UNCHANGED <<queue, candidate, releasing, host>>
  PROVE  OperationsFit' /\ QueueFits' /\ ClosesAlone'
<1>1. \A p \in Ops : /\ Awaited(p)' <=> Awaited(p)
                     /\ Served(p)' => Served(p)
                     /\ p \in Counted' => p \in Counted
  BY DEF Awaited, Served, At, Detached, Counted
<1>2. OperationsFit'
  BY DEF OrderInv, OperationsFit, Fits, At
<1> QED
  BY <1>1, <1>2, MovesOrder

LEMMA ArrivalOrder ==
  ASSUME OrderInv, NEW o \in Ops, Request(o) \/ Enter(o)
  PROVE  OrderInv'
<1> USE DEF OrderInv
<1>1. CASE Request(o)
  <2>1. /\ ops' = [ops EXCEPT ![o].pc = "waiting"]
        /\ ops[o] \in Operation /\ ops[o].pc = "new"
        /\ UNCHANGED <<candidate, releasing, host>>
    BY <1>1 DEF Request, At, TypeOK, releases, settings
  <2>2. /\ ops' \in [Ops -> Operation]
        /\ \A p \in Ops \ {o} : ops'[p] = ops[p]
        /\ ops'[o].pc = "waiting" /\ ops'[o].inst = ops[o].inst
        /\ ops'[o].next = ops[o].next
    BY <2>1 DEF TypeOK, Operation, Phases
  <2>3. OperationsFit'
    BY <2>1, <2>2 DEF OperationsFit, Fits, At, Before, Rolling
  <2>4. Counted' \subseteq Counted
    BY <2>1, <2>2 DEF Counted
  <2>5. /\ \A p \in Ops \ {o} : (Awaited(p)' <=> Awaited(p)) /\ (Served(p)' <=> Served(p))
        /\ Awaited(o)' <=> Queued(o)
        /\ ~Served(o)' /\ ~Awaited(o) /\ ~Served(o)
    BY <2>1, <2>2 DEF Awaited, Served, At, Detached
  <2>6. CASE Queued(o)
    <3>1. queue' = Append(queue, o) /\ host = "open"
      BY <1>1, <2>6 DEF Request
    <3>2. ~InQueue(o)
      BY <2>5 DEF QueueFits
    <3>3. /\ queue' \in Seq(Ops \cup {Release}) /\ queue' # <<>> /\ Distinct'
          /\ \A y : InQueue(y)' <=> InQueue(y) \/ y = o
          /\ queue # <<>> => Head(queue') = Head(queue)
      BY <3>1, <3>2, Appended DEF QueueFits
    <3>4. QueueFits'
      BY <2>1, <2>5, <2>6, <3>1, <3>3 DEF QueueFits, Running, Stopped
    <3>5. ClosesAlone'
      BY <2>1, <2>4, <3>3 DEF ClosesAlone, Running
    <3>6. TypeOK'
      BY <1>1, <2>2, <3>3 DEF Request, TypeOK, releases, settings, histories
    <3> QED  BY <2>3, <3>4, <3>5, <3>6
  <2>7. CASE ~Queued(o)
    <3>1. queue' = queue
      BY <1>1, <2>7 DEF Request
    <3>2. QueueFits' /\ ClosesAlone'
      <4>1. \A p \in Ops : /\ Awaited(p)' <=> Awaited(p)
                           /\ Served(p)' => Served(p)
                           /\ p \in Counted' => p \in Counted
        BY <2>4, <2>5, <2>7
      <4> QED  BY <2>1, <3>1, <4>1, MovesOrder
    <3>3. TypeOK'
      BY <1>1, <2>2, <3>1 DEF Request, TypeOK, releases, settings, histories
    <3> QED  BY <2>3, <3>2, <3>3
  <2> QED  BY <2>6, <2>7
<1>2. CASE Enter(o)
  <2>1. /\ At(o, "waiting") /\ (Queued(o) => Running(o)) /\ releasing = None
        /\ UNCHANGED <<candidate, releasing, host>>
        /\ ops[o] \in Operation
    BY <1>2 DEF Enter, releases, settings, TypeOK
  <2>2. CASE Stopped
    <3>1. Over({o})
      BY <1>2, <2>2 DEF Enter, Finish
    <3>2. ~At(o, "new") /\ (Awaited(o) => Running(o))
      BY <2>1 DEF At, Awaited
    <3>3. queue' \in Seq(Ops \cup {Release}) /\ stale' \in BOOLEAN
          /\ ops' \in [Ops -> Operation]
          /\ OperationsFit' /\ QueueFits' /\ ClosesAlone'
      BY <2>1, <3>1, <3>2, OverOrder
    <3>4. TypeOK'
      BY <1>2, <3>3 DEF Enter, TypeOK, releases, settings, histories
    <3> QED  BY <3>3, <3>4
  <2>3. CASE ~Stopped
    <3>1. ops' = [ops EXCEPT ![o].pc = "entered"] /\ UNCHANGED <<queue, stale>>
      BY <1>2, <2>3 DEF Enter
    <3>2. /\ ops' \in [Ops -> Operation]
          /\ \A p \in Ops \ {o} : ops'[p] = ops[p]
          /\ ops'[o].pc = "entered" /\ ops'[o].inst = ops[o].inst
          /\ ops'[o].next = ops[o].next
      BY <2>1, <3>1 DEF TypeOK, Operation, Phases
    <3>3. OperationsFit'
      BY <2>1, <3>2 DEF OperationsFit, Fits, At, Before, Rolling
    <3>4. \A p \in Ops : /\ Awaited(p)' <=> Awaited(p)
                         /\ Served(p)' => Served(p) \/ Running(p)
      BY <2>1, <3>2 DEF Awaited, Served, At, Detached
    <3>5. QueueFits' /\ ClosesAlone'
      BY <2>1, <2>3, <3>1, <3>4, MovesOrder
    <3>6. TypeOK'
      BY <1>2, <3>1, <3>2 DEF Enter, TypeOK, releases, settings, histories
    <3> QED  BY <3>3, <3>5, <3>6
  <2> QED  BY <2>2, <2>3
<1> QED
  BY <1>1, <1>2

LEMMA LocatesOrder ==
  ASSUME OrderInv, NEW o \in Ops, Locate(o)
  PROVE  OrderInv'
<1> USE DEF OrderInv
<1>1. /\ At(o, "entered") /\ ops[o].next = None
      /\ UNCHANGED <<candidate, releasing, host>>
      /\ loaded \in Instances \cup {None}
  BY DEF Locate, releases, settings, TypeOK, OperationsFit, Fits, At, Rolling
<1>2. /\ ops' \in [Ops -> Operation] /\ stale' \in BOOLEAN
      /\ queue' \in Seq(Ops \cup {Release})
      /\ OperationsFit' /\ QueueFits' /\ ClosesAlone'
  <2>1. CASE loaded = None
    <3>1. ops' = [ops EXCEPT ![o].pc = "finding"] /\ UNCHANGED <<queue, stale>>
      BY <2>1 DEF Locate
    <3>2. /\ ops' \in [Ops -> Operation]
          /\ \A p \in Ops \ {o} : ops'[p] = ops[p]
          /\ ops'[o].pc = "finding" /\ ops'[o].inst = ops[o].inst
          /\ ops'[o].next = ops[o].next
      BY <3>1, GoesOn DEF Phases
    <3>3. Fits(o)' /\ ~Detached(o)' /\ ~Detached(o)
      BY <1>1, <3>2 DEF OperationsFit, Fits, At, Before, Rolling, Detached
    <3> QED
      BY <1>1, <3>1, <3>2, <3>3, MoveOrder DEF At, TypeOK
  <2>2. CASE loaded # None /\ ~inst[loaded].failed
    <3>1. Holds(o, loaded, "using") /\ UNCHANGED queue /\ stale' \in BOOLEAN
      BY <2>2 DEF Locate
    <3>2. /\ ops' \in [Ops -> Operation]
          /\ \A p \in Ops \ {o} : ops'[p] = ops[p]
          /\ ops'[o].pc = "using" /\ ops'[o].inst = loaded
          /\ ops'[o].next = ops[o].next
      BY <1>1, <3>1, HoldsOne DEF Phases
    <3>3. Fits(o)' /\ ~Detached(o)' /\ ~Detached(o)
      BY <1>1, <2>2, <3>2 DEF Fits, At, Before, Rolling, Detached
    <3> QED
      BY <1>1, <3>1, <3>2, <3>3, MoveOrder DEF At, TypeOK
  <2>3. CASE loaded # None /\ inst[loaded].failed
    <3>1. Over({o})
      BY <2>3 DEF Locate, Finish
    <3>2. ~At(o, "new") /\ (Awaited(o) => Running(o))
      BY <1>1 DEF At, QueueFits, Served
    <3> QED  BY <1>1, <3>1, <3>2, OverOrder
  <2> QED  BY <2>1, <2>2, <2>3
<1>3. TypeOK'
  BY <1>2 DEF Locate, TypeOK, releases, settings, histories
<1> QED
  BY <1>2, <1>3

LEMMA FreshExists ==
  ASSUME NEW n, Fresh(n)
  PROVE  n \in Instances /\ n # None /\ Native(n) = "none"
BY DEF Fresh, Instances

(* What a restore that starts does to the instances.                       *)
LEMMA StartRestoreDoes ==
  ASSUME TypeOK, NEW o \in Ops, StartRestore(o)
  PROVE  \E n \in Instances :
           /\ Fresh(n) /\ n # None
           /\ restoring' = n
           /\ inst' \in [Instances -> Instance]
           /\ \A i \in Instances \ {n} : inst'[i] = inst[i]
           /\ inst'[n] = [inst[n] EXCEPT !.native = "opening", !.ref = record.ref]
           /\ Holds(o, n, "awaiting")
           /\ UNCHANGED <<queue, stale>>
<1>1. PICK n \in Instances :
        /\ Fresh(n)
        /\ inst' = [inst EXCEPT ![n].native = "opening", ![n].ref = record.ref]
        /\ restoring' = n /\ Holds(o, n, "awaiting") /\ UNCHANGED <<queue, stale>>
  BY DEF StartRestore
<1> DEFINE new == [inst[n] EXCEPT !.native = "opening", !.ref = record.ref]
<1>2. n # None
  BY <1>1, FreshExists
<1>3. inst \in [Instances -> Instance] /\ inst[n] \in Instance
      /\ record.ref \in Instances
  BY DEF TypeOK
<1>4. new \in Instance
  BY <1>3 DEF Instance
<1>5. inst' = [inst EXCEPT ![n] = new]
  BY <1>1, <1>3
<1>6. /\ inst' \in [Instances -> Instance] /\ inst'[n] = new
      /\ \A i \in Instances \ {n} : inst'[i] = inst[i]
  <2> HIDE DEF new
  <2> QED  BY <1>3, <1>4, <1>5
<1> QED
  BY <1>1, <1>2, <1>6

LEMMA FindOrder ==
  ASSUME OrderInv, NEW o \in Ops, Find(o)
  PROVE  OrderInv'
<1> USE DEF OrderInv
<1>1. /\ At(o, "finding") /\ ops[o].next = None
      /\ UNCHANGED <<candidate, releasing, host>>
      /\ loaded \in Instances \cup {None} /\ restoring \in Instances \cup {None}
  BY DEF Find, releases, settings, TypeOK, OperationsFit, Fits, At, Rolling
<1> DEFINE Good == /\ ops' \in [Ops -> Operation] /\ stale' \in BOOLEAN
                   /\ queue' \in Seq(Ops \cup {Release})
                   /\ inst' \in [Instances -> Instance]
                   /\ restoring' \in Instances \cup {None}
                   /\ OperationsFit' /\ QueueFits' /\ ClosesAlone'
<1>2. CASE record.removed
  <2>1. Over({o}) /\ UNCHANGED <<inst, restoring>>
    BY <1>2 DEF Find, Finish
  <2>2. ~At(o, "new") /\ (Awaited(o) => Running(o))
    BY <1>1 DEF At, QueueFits, Served
  <2>3. Good
    BY <1>1, <2>1, <2>2, OverOrder DEF TypeOK
  <2> QED  BY <2>3 DEF Find, TypeOK, releases, settings, histories
<1>3. ASSUME NEW i \in Instances \cup {None}, NEW pc \in {"using", "awaiting"},
             Holds(o, i, pc), i # None \/ (pc = "using" /\ KindOf[o] = "delete"),
             pc = "awaiting" => KindOf[o] # "delete",
             UNCHANGED queue
      PROVE  /\ ops' \in [Ops -> Operation]
             /\ OperationsFit' /\ QueueFits' /\ ClosesAlone'
  <2>1. /\ ops' \in [Ops -> Operation]
        /\ \A p \in Ops \ {o} : ops'[p] = ops[p]
        /\ ops'[o].pc = pc /\ ops'[o].inst = i /\ ops'[o].next = ops[o].next
    BY <1>3, HoldsOne DEF Phases
  <2>2. Fits(o)' /\ ~Detached(o)' /\ ~Detached(o)
    BY <1>1, <1>3, <2>1 DEF Fits, At, Before, Rolling, Detached
  <2> QED
    BY <1>1, <1>3, <2>1, <2>2, MoveOrder DEF At
<1>4. CASE ~record.removed /\ KindOf[o] = "delete"
  <2>1. Holds(o, None, "using") /\ UNCHANGED <<queue, stale, inst, restoring>>
    BY <1>4 DEF Find
  <2>2. Good
    BY <1>3, <1>4, <2>1 DEF TypeOK
  <2> QED  BY <2>2 DEF Find, TypeOK, releases, settings, histories
<1>5. CASE ~record.removed /\ KindOf[o] # "delete" /\ restoring # None
  <2>1. Holds(o, restoring, "awaiting") /\ UNCHANGED <<queue, stale, inst, restoring>>
    BY <1>5 DEF Find
  <2>2. Good
    BY <1>1, <1>3, <1>5, <2>1 DEF TypeOK
  <2> QED  BY <2>2 DEF Find, TypeOK, releases, settings, histories
<1>6. CASE ~record.removed /\ KindOf[o] # "delete" /\ restoring = None /\ loaded # None
  <2>1. Holds(o, loaded, "using") /\ stale' = FALSE
        /\ UNCHANGED <<queue, inst, restoring>>
    BY <1>6 DEF Find
  <2>2. Good
    BY <1>1, <1>3, <1>6, <2>1 DEF TypeOK
  <2> QED  BY <2>2 DEF Find, TypeOK, releases, settings, histories
<1>7. CASE ~record.removed /\ KindOf[o] # "delete" /\ restoring = None /\ loaded = None
  <2>1. StartRestore(o)
    BY <1>7 DEF Find
  <2>2. PICK n \in Instances :
           /\ n # None /\ restoring' = n /\ inst' \in [Instances -> Instance]
           /\ Holds(o, n, "awaiting") /\ UNCHANGED <<queue, stale>>
    BY <2>1, StartRestoreDoes
  <2>3. Good
    BY <1>3, <1>7, <2>2 DEF TypeOK
  <2> QED  BY <2>3 DEF Find, TypeOK, releases, settings, histories
<1> QED
  BY <1>2, <1>4, <1>5, <1>6, <1>7

(* A step that leaves the operations and the queue alone.                  *)
LEMMA OthersOrder ==
  ASSUME OrderInv, UNCHANGED <<ops, queue, candidate, releasing, host>>
  PROVE  OperationsFit' /\ QueueFits' /\ ClosesAlone'
BY DEF OrderInv, OperationsFit, Fits, At, QueueFits, Distinct, InQueue, Awaited,
   Served, Detached, Running, Stopped, ClosesAlone, Counted

LEMMA RestoresOrder ==
  ASSUME OrderInv, RestoreStep
  PROVE  OrderInv'
<1> USE DEF OrderInv
<1>1. restoring \in Instances /\ inst[restoring] \in Instance
      /\ inst \in [Instances -> Instance]
  BY DEF RestoreStep, RestoreOpens, RestoreRegisters, RestoreAborts, RestoreFails, TypeOK
<1>2. CASE RestoreOpens \/ RestoreAborts
  <2>1. inst' \in [Instances -> Instance]
    BY <1>1, <1>2 DEF RestoreOpens, RestoreAborts, Instance
  <2>2. UNCHANGED <<ops, queue, candidate, releasing, host>>
    BY <1>2 DEF RestoreOpens, RestoreAborts, releases, settings
  <2>3. TypeOK'
    BY <1>2, <2>1 DEF RestoreOpens, RestoreAborts, TypeOK, releases, settings, histories
  <2> QED  BY <2>2, <2>3, OthersOrder
<1>3. CASE RestoreRegisters
  <2>1. inst' \in [Instances -> Instance]
    BY <1>1, <1>3 DEF RestoreRegisters, Instance
  <2>2. /\ ops' = [o \in Ops |-> IF o \in Waiters THEN [ops[o] EXCEPT !.pc = "using"]
                                                 ELSE ops[o]]
        /\ UNCHANGED <<queue, candidate, releasing, host>>
    BY <1>3 DEF RestoreRegisters, releases, settings
  <2>3. \A o \in Waiters : /\ o \in Ops /\ ops[o].pc = "awaiting"
                           /\ ops[o].inst = restoring
    BY DEF Waiters, At
  <2>4. ASSUME NEW o \in Waiters
        PROVE  /\ ops'[o] \in Operation /\ ops'[o].pc = "using"
               /\ ops'[o].inst = ops[o].inst /\ ops'[o].next = ops[o].next
    <3>1. ops'[o] = [ops[o] EXCEPT !.pc = "using"] /\ ops[o] \in Operation
      BY <2>2, <2>3, <2>4 DEF TypeOK
    <3> QED  BY <3>1 DEF Operation, Phases
  <2>5. \A o \in Ops \ Waiters : ops'[o] = ops[o]
    BY <2>2
  <2>6. ops' \in [Ops -> Operation]
    <3>1. \A o \in Ops : ops'[o] \in Operation
      BY <2>4, <2>5 DEF TypeOK
    <3> QED  BY <2>2, <3>1
  <2>7. OperationsFit'
    BY <1>1, <2>3, <2>4, <2>5 DEF OperationsFit, Fits, At, Before, Rolling
  <2>8. \A o \in Ops : /\ Awaited(o)' <=> Awaited(o)
                       /\ Served(o)' => Served(o)
                       /\ o \in Counted' => o \in Counted
    BY <2>3, <2>4, <2>5 DEF Awaited, Served, Detached, At, Counted
  <2>9. QueueFits' /\ ClosesAlone'
    BY <2>2, <2>8, MovesOrder
  <2>10. TypeOK'
    BY <1>1, <1>3, <2>1, <2>6 DEF RestoreRegisters, TypeOK, releases, settings, histories
  <2> QED  BY <2>7, <2>9, <2>10
<1>4. CASE RestoreFails
  <2>1. Over(Waiters) /\ UNCHANGED <<candidate, releasing, host>>
    BY <1>4 DEF RestoreFails, releases, settings
  <2>2. Waiters \in SUBSET Ops
        /\ \A o \in Waiters : ~At(o, "new") /\ (Awaited(o) => Running(o))
    BY DEF Waiters, At, QueueFits, Served
  <2>3. queue' \in Seq(Ops \cup {Release}) /\ stale' \in BOOLEAN
        /\ ops' \in [Ops -> Operation]
        /\ OperationsFit' /\ QueueFits' /\ ClosesAlone'
    BY <2>1, <2>2, OverOrder
  <2>4. inst' \in [Instances -> Instance] /\ unconfirmed' \in SUBSET Instances
    BY <1>1, <1>4 DEF RestoreFails, Instance, TypeOK
  <2>5. TypeOK'
    BY <1>4, <2>3, <2>4 DEF RestoreFails, TypeOK, releases, settings, histories
  <2> QED  BY <2>3, <2>5
<1> QED
  BY <1>2, <1>3, <1>4 DEF RestoreStep

(* An operation that gets to its end.                                      *)
LEMMA FinishOrder ==
  ASSUME OrderInv, NEW o \in Ops, Finish(o), ops[o].pc \notin {"new", "waiting"},
         UNCHANGED <<candidate, releasing, host>>
  PROVE  /\ queue' \in Seq(Ops \cup {Release}) /\ stale' \in BOOLEAN
         /\ ops' \in [Ops -> Operation]
         /\ ops'[o] = Done /\ \A p \in Ops \ {o} : ops'[p] = ops[p]
         /\ OperationsFit' /\ QueueFits' /\ ClosesAlone'
<1>1. Over({o})
  BY DEF Finish
<1>2. ~At(o, "new") /\ (Awaited(o) => Running(o))
  BY DEF OrderInv, QueueFits, Served, At
<1> QED
  BY <1>1, <1>2, OverOrder

LEMMA DetachOrder ==
  ASSUME OrderInv, NEW o \in Ops, Detach(o)
  PROVE  OrderInv'
<1> USE DEF OrderInv
<1>1. /\ ops' = [ops EXCEPT ![o].pc = "detached"] /\ queue' = Tail(queue)
      /\ KindOf[o] = "turn" /\ ops[o].pc = "using"
      /\ UNCHANGED <<candidate, releasing, host>>
  BY DEF Detach, At, releases, settings
<1>2. /\ ops' \in [Ops -> Operation]
      /\ \A p \in Ops \ {o} : ops'[p] = ops[p]
      /\ ops'[o].pc = "detached" /\ ops'[o].inst = ops[o].inst
      /\ ops'[o].next = ops[o].next
  BY <1>1, GoesOn DEF Phases
<1>3. Served(o)
  BY <1>1 DEF Served, Awaited, Detached, At, Queued
<1>4. queue # <<>> /\ Head(queue) = o
  BY <1>3 DEF QueueFits, Running
<1>5. /\ queue' \in Seq(Ops \cup {Release}) /\ Distinct'
      /\ \A y : InQueue(y)' <=> InQueue(y) /\ y # o
  BY <1>1, <1>4, Removed DEF QueueFits
<1>6. /\ ~Awaited(o)' /\ ~Served(o)'
      /\ \A p \in Ops \ {o} : /\ Awaited(p)' <=> Awaited(p)
                              /\ Served(p)' <=> Served(p)
  BY <1>1, <1>2 DEF Awaited, Served, Detached, At
<1>7. \A p \in Ops : ~Served(p)'
  BY <1>3, <1>6, ServedAlone
<1>8. releasing = None /\ queue # <<>>
  BY <1>4 DEF ClosesAlone, Running
<1>9. QueueFits'
  BY <1>1, <1>5, <1>6, <1>7, <1>8 DEF QueueFits, Stopped
<1>10. ClosesAlone'
  BY <1>1, <1>2, <1>8 DEF ClosesAlone, Counted, QueueFits, Stopped
<1>11. OperationsFit'
  BY <1>1, <1>2 DEF OperationsFit, Fits, At, Before, Rolling
<1>12. TypeOK'
  BY <1>2, <1>5 DEF Detach, TypeOK, releases, settings, histories
<1> QED
  BY <1>9, <1>10, <1>11, <1>12

LEMMA TurnsOrder ==
  ASSUME OrderInv, NEW o \in Ops, StartTurn(o) \/ StartSettles(o) \/ UseEnds(o)
  PROVE  OrderInv'
<1> USE DEF OrderInv
<1>1. /\ ops[o].pc \in {"using", "detached", "starting"}
      /\ UNCHANGED <<candidate, releasing, host>>
      /\ inst \in [Instances -> Instance]
  BY DEF StartTurn, StartSettles, UseEnds, At, releases, settings, TypeOK
<1>2. ASSUME Finish(o), inst' \in [Instances -> Instance]
      PROVE  OrderInv'
  <2>1. queue' \in Seq(Ops \cup {Release}) /\ stale' \in BOOLEAN
        /\ ops' \in [Ops -> Operation]
        /\ OperationsFit' /\ QueueFits' /\ ClosesAlone'
    BY <1>1, <1>2, FinishOrder
  <2>2. TypeOK'
    BY <1>2, <2>1 DEF StartTurn, StartSettles, UseEnds, TypeOK, releases, settings,
       histories
  <2> QED  BY <2>1, <2>2
<1>3. CASE UseEnds(o)
  BY <1>1, <1>2, <1>3 DEF UseEnds
<1>4. CASE StartSettles(o)
  <2>1. Finish(o)
    BY <1>4 DEF StartSettles
  <2>2. inst' = inst \/ inst' = [inst EXCEPT ![ops[o].inst].running = FALSE]
    BY <1>4 DEF StartSettles
  <2>3. inst' \in [Instances -> Instance]
    <3>1. ops[o].inst \in Instances /\ inst[ops[o].inst] \in Instance
      BY <1>1, <1>4 DEF StartSettles, At, OperationsFit, Fits, Before, TypeOK, Operation
    <3>2. CASE inst' = inst
      BY <1>1, <3>2
    <3>3. CASE inst' = [inst EXCEPT ![ops[o].inst].running = FALSE]
      BY <1>1, <3>1, <3>3 DEF Instance
    <3> QED  BY <2>2, <3>2, <3>3
  <2> QED  BY <1>2, <2>1, <2>3
<1>5. CASE StartTurn(o)
  <2> DEFINE i == ops[o].inst
  <2>1. ops[o].pc = "detached" \/ (ops[o].pc = "using" /\ KindOf[o] = "control")
    BY <1>5 DEF StartTurn, At
  <2>2. CASE inst[i].running \/ (Queued(o) /\ loaded # i)
    BY <1>1, <1>2, <1>5, <2>2 DEF StartTurn
  <2>3. CASE ~(inst[i].running \/ (Queued(o) /\ loaded # i))
    <3>1. /\ inst' = [inst EXCEPT ![i].running = TRUE]
          /\ ops' = [ops EXCEPT ![o].pc = "starting"]
          /\ UNCHANGED <<queue, stale>>
      BY <1>5, <2>3 DEF StartTurn
    <3>2. inst' \in [Instances -> Instance]
      BY <1>1, <3>1 DEF Instance
    <3>3. /\ ops' \in [Ops -> Operation]
          /\ \A p \in Ops \ {o} : ops'[p] = ops[p]
          /\ ops'[o].pc = "starting" /\ ops'[o].inst = ops[o].inst
          /\ ops'[o].next = ops[o].next
      BY <3>1, GoesOn DEF Phases
    <3>4. Fits(o)' /\ (Detached(o)' <=> Detached(o))
      BY <1>1, <2>1, <3>3 DEF OperationsFit, Fits, At, Before, Rolling, Detached
    <3>5. OperationsFit' /\ QueueFits' /\ ClosesAlone'
      BY <1>1, <2>1, <3>1, <3>3, <3>4, MoveOrder
    <3>6. TypeOK'
      BY <1>5, <3>1, <3>2, <3>3 DEF StartTurn, TypeOK, releases, settings, histories
    <3> QED  BY <3>5, <3>6
  <2> QED  BY <2>2, <2>3
<1> QED
  BY <1>3, <1>4, <1>5

LEMMA DeletesOrder ==
  ASSUME OrderInv, NEW o \in Ops, DeleteRecord(o) \/ DeleteEnds(o)
  PROVE  OrderInv'
<1> USE DEF OrderInv
<1> DEFINE i == ops[o].inst
<1>1. /\ ops[o].pc \in {"using", "closing"} /\ KindOf[o] = "delete"
      /\ UNCHANGED <<candidate, releasing, host>>
      /\ inst \in [Instances -> Instance] /\ i \in Instances \cup {None}
  BY DEF DeleteRecord, DeleteEnds, At, releases, settings, TypeOK, Operation
<1>2. CASE DeleteRecord(o)
  <2>1. /\ record' \in [removed : BOOLEAN, ref : Instances]
        /\ loaded' = None /\ crossed' \in SUBSET Instances
    BY <1>2 DEF DeleteRecord, TypeOK
  <2>2. CASE i = None
    <3>1. Finish(o) /\ UNCHANGED <<inst, retired>>
      BY <1>2, <2>2 DEF DeleteRecord
    <3>2. queue' \in Seq(Ops \cup {Release}) /\ stale' \in BOOLEAN
          /\ ops' \in [Ops -> Operation]
          /\ OperationsFit' /\ QueueFits' /\ ClosesAlone'
      BY <1>1, <3>1, FinishOrder
    <3>3. TypeOK'
      BY <1>2, <2>1, <3>1, <3>2 DEF DeleteRecord, TypeOK, releases, settings
    <3> QED  BY <3>2, <3>3
  <2>3. CASE i # None
    <3>1. /\ inst' = [inst EXCEPT ![i].native = IF @ = "gone" THEN @ ELSE "closing"]
          /\ retired' = retired \cup {i}
          /\ ops' = [ops EXCEPT ![o].pc = "closing"]
          /\ UNCHANGED <<queue, stale>>
      BY <1>2, <2>3 DEF DeleteRecord
    <3>2. inst' \in [Instances -> Instance]
      <4> DEFINE s == IF inst[i].native = "gone" THEN "gone" ELSE "closing"
      <4>1. inst' = [inst EXCEPT ![i].native = s]
        BY <1>1, <2>3, <3>1
      <4>2. s \in {"none", "opening", "live", "closing", "gone"}
        OBVIOUS
      <4> HIDE DEF s
      <4> QED  BY <1>1, <2>3, <4>1, <4>2, NativeChanges
    <3>3. /\ ops' \in [Ops -> Operation]
          /\ \A p \in Ops \ {o} : ops'[p] = ops[p]
          /\ ops'[o].pc = "closing" /\ ops'[o].inst = i
          /\ ops'[o].next = ops[o].next
      BY <3>1, GoesOn DEF Phases
    <3>4. ops[o].pc = "using"
      BY <1>2 DEF DeleteRecord, At
    <3>5. Fits(o)' /\ ~Detached(o)' /\ ~Detached(o)
      BY <1>1, <2>3, <3>3, <3>4 DEF OperationsFit, Fits, At, Before, Rolling, Detached
    <3>6. OperationsFit' /\ QueueFits' /\ ClosesAlone'
      BY <1>1, <3>1, <3>3, <3>4, <3>5, MoveOrder
    <3>7. TypeOK'
      BY <1>1, <1>2, <2>1, <2>3, <3>1, <3>2, <3>3
      DEF DeleteRecord, TypeOK, releases, settings
    <3> QED  BY <3>6, <3>7
  <2> QED  BY <2>2, <2>3
<1>3. CASE DeleteEnds(o)
  <2>1. /\ Finish(o)
        /\ unconfirmed' = unconfirmed \/ (i # None /\ unconfirmed' = unconfirmed \cup {i})
    BY <1>1, <1>3 DEF DeleteEnds, OperationsFit, Fits, At, Before
  <2>2. queue' \in Seq(Ops \cup {Release}) /\ stale' \in BOOLEAN
        /\ ops' \in [Ops -> Operation]
        /\ OperationsFit' /\ QueueFits' /\ ClosesAlone'
    BY <1>1, <2>1, FinishOrder
  <2>3. unconfirmed' \in SUBSET Instances
    BY <1>1, <2>1 DEF TypeOK
  <2>4. TypeOK'
    BY <1>3, <2>2, <2>3 DEF DeleteEnds, TypeOK, releases, settings
  <2> QED  BY <2>2, <2>4
<1> QED
  BY <1>2, <1>3

(* What the preparation of a rollback does.                                *)
LEMMA PreparesDoes ==
  ASSUME TypeOK, NEW o \in Ops, RollbackPrepares(o)
  PROVE  \E n \in Instances :
           /\ Fresh(n) /\ n # None
           /\ inst' \in [Instances -> Instance]
           /\ \A i \in Instances \ {n} : inst'[i] = inst[i]
           /\ inst'[n] = [inst[n] EXCEPT !.native = "live", !.ref = n]
           /\ ops' \in [Ops -> Operation]
           /\ \A p \in Ops \ {o} : ops'[p] = ops[p]
           /\ ops'[o].pc = "prepared" /\ ops'[o].inst = ops[o].inst
           /\ ops'[o].next = n
<1>1. PICK n \in Instances :
        /\ Fresh(n)
        /\ inst' = [inst EXCEPT ![n].native = "live", ![n].ref = n]
        /\ ops' = [ops EXCEPT ![o].pc = "prepared", ![o].next = n]
  BY DEF RollbackPrepares
<1> DEFINE new == [inst[n] EXCEPT !.native = "live", !.ref = n]
           next == [ops[o] EXCEPT !.pc = "prepared", !.next = n]
<1>2. n # None
  BY <1>1, FreshExists
<1>3. /\ inst \in [Instances -> Instance] /\ inst[n] \in Instance
      /\ ops \in [Ops -> Operation] /\ ops[o] \in Operation
  BY DEF TypeOK
<1>4. new \in Instance
  BY <1>3 DEF Instance
<1>5. inst' = [inst EXCEPT ![n] = new] /\ ops' = [ops EXCEPT ![o] = next]
  BY <1>1, <1>3
<1>6. next \in Operation /\ next.pc = "prepared" /\ next.inst = ops[o].inst /\ next.next = n
  BY <1>3 DEF Operation, Phases
<1>7. /\ inst' \in [Instances -> Instance] /\ inst'[n] = new
      /\ \A i \in Instances \ {n} : inst'[i] = inst[i]
      /\ ops' \in [Ops -> Operation] /\ ops'[o] = next
      /\ \A p \in Ops \ {o} : ops'[p] = ops[p]
  <2> HIDE DEF new, next
  <2> QED  BY <1>3, <1>4, <1>5, <1>6
<1> QED
  BY <1>1, <1>2, <1>6, <1>7

LEMMA RollbacksOrder ==
  ASSUME OrderInv, NEW o \in Ops,
         \/ RollbackPrepares(o) \/ RollbackFails(o) \/ RollbackCommits(o)
         \/ Replace(o) \/ Replaced(o)
  PROVE  OrderInv'
<1> USE DEF OrderInv
<1> DEFINE i == ops[o].inst
           n == ops[o].next
<1>1. /\ ops[o].pc \in {"using"} \cup Rolling /\ KindOf[o] = "rollback"
      /\ UNCHANGED <<candidate, releasing, host>>
      /\ inst \in [Instances -> Instance] /\ i \in Instances /\ i # None
      /\ ops[o].pc # "using" => n \in Instances
  BY DEF RollbackPrepares, RollbackFails, RollbackCommits, Replace, Replaced, At,
     releases, settings, TypeOK, Operation, OperationsFit, Fits, Rolling, Before
<1>2. CASE RollbackPrepares(o)
  <2>1. /\ inst' \in [Instances -> Instance]
        /\ ops' \in [Ops -> Operation]
        /\ \A p \in Ops \ {o} : ops'[p] = ops[p]
        /\ ops'[o].pc = "prepared" /\ ops'[o].inst = i /\ ops'[o].next # None
    BY <1>2, PreparesDoes
  <2>2. ops[o].pc = "using" /\ UNCHANGED queue
    BY <1>2 DEF RollbackPrepares, At
  <2>3. Fits(o)' /\ ~Detached(o)' /\ ~Detached(o)
    BY <1>1, <2>1 DEF Fits, At, Before, Rolling, Detached
  <2>4. OperationsFit' /\ QueueFits' /\ ClosesAlone'
    BY <1>1, <2>1, <2>2, <2>3, MoveOrder
  <2>5. TypeOK'
    BY <1>2, <2>1 DEF RollbackPrepares, TypeOK, releases, settings, histories
  <2> QED  BY <2>4, <2>5
<1>3. ASSUME NEW pc \in {"committed", "replacing"}, ops' = [ops EXCEPT ![o].pc = pc],
             ops[o].pc \in Rolling, UNCHANGED queue
      PROVE  ops' \in [Ops -> Operation] /\ OperationsFit' /\ QueueFits' /\ ClosesAlone'
  <2>1. /\ ops' \in [Ops -> Operation]
        /\ \A p \in Ops \ {o} : ops'[p] = ops[p]
        /\ ops'[o].pc = pc /\ ops'[o].inst = i /\ ops'[o].next = n
    BY <1>3, GoesOn DEF Phases
  <2>2. Fits(o)' /\ ~Detached(o)' /\ ~Detached(o)
    BY <1>1, <1>3, <2>1 DEF OperationsFit, Fits, At, Before, Rolling, Detached
  <2> QED
    BY <1>1, <1>3, <2>1, <2>2, MoveOrder DEF Rolling
<1>4. ASSUME Finish(o), ops[o].pc \in Rolling
      PROVE  queue' \in Seq(Ops \cup {Release}) /\ stale' \in BOOLEAN
             /\ ops' \in [Ops -> Operation]
             /\ OperationsFit' /\ QueueFits' /\ ClosesAlone'
  BY <1>1, <1>4, FinishOrder DEF Rolling
<1>5. CASE RollbackFails(o)
  <2>1. ops[o].pc \in Rolling /\ Finish(o)
    BY <1>5 DEF RollbackFails, At, Rolling
  <2>2. /\ inst' = inst \/ inst' = [inst EXCEPT ![n].native = "gone"]
        /\ unconfirmed' = unconfirmed \/ unconfirmed' = unconfirmed \cup {n}
    BY <1>5 DEF RollbackFails
  <2>3. n \in Instances
    BY <1>1, <1>5 DEF RollbackFails, At
  <2>4. inst' \in [Instances -> Instance] /\ unconfirmed' \in SUBSET Instances
    <3>1. inst' \in [Instances -> Instance]
      BY <1>1, <2>2, <2>3, NativeChanges
    <3> QED  BY <2>2, <2>3, <3>1 DEF TypeOK
  <2>5. TypeOK'
    BY <1>4, <1>5, <2>1, <2>4 DEF RollbackFails, TypeOK, releases, settings
  <2> QED  BY <1>4, <2>1, <2>5
<1>6. CASE RollbackCommits(o)
  <2>1. /\ ops' = [ops EXCEPT ![o].pc = "committed"] /\ ops[o].pc = "prepared"
        /\ record' = [record EXCEPT !.ref = n] /\ UNCHANGED queue
    BY <1>6 DEF RollbackCommits, At
  <2>2. record' \in [removed : BOOLEAN, ref : Instances]
    BY <1>1, <2>1 DEF TypeOK
  <2>3. ops' \in [Ops -> Operation] /\ OperationsFit' /\ QueueFits' /\ ClosesAlone'
    BY <1>3, <2>1 DEF Rolling
  <2>4. TypeOK'
    BY <1>6, <2>2, <2>3 DEF RollbackCommits, TypeOK, releases, settings, histories
  <2> QED  BY <2>3, <2>4
<1>7. CASE Replace(o)
  <2>1. ops[o].pc = "committed"
    BY <1>7 DEF Replace, At
  <2>2. CASE inst[i].running \/ loaded # i
    <3>1. /\ crossed' = crossed \cup {i, n} /\ Finish(o) /\ UNCHANGED <<inst, retired>>
      BY <1>7, <2>2 DEF Replace
    <3>2. crossed' \in SUBSET Instances
      BY <1>1, <2>1, <3>1 DEF TypeOK
    <3>3. TypeOK'
      BY <1>4, <1>7, <2>1, <3>1, <3>2 DEF Replace, TypeOK, releases, settings, Rolling
    <3> QED  BY <1>4, <2>1, <3>1, <3>3 DEF Rolling
  <2>3. CASE ~(inst[i].running \/ loaded # i)
    <3>1. /\ inst' = [inst EXCEPT ![i].native = "closing"]
          /\ retired' = retired \cup {i}
          /\ ops' = [ops EXCEPT ![o].pc = "replacing"]
          /\ UNCHANGED <<queue, stale, crossed>>
      BY <1>7, <2>3 DEF Replace
    <3>2. inst[i] \in Instance /\ retired' \in SUBSET Instances
      BY <1>1, <3>1 DEF TypeOK
    <3>3. inst' \in [Instances -> Instance]
      BY <1>1, <3>1, <3>2 DEF Instance
    <3>4. ops' \in [Ops -> Operation] /\ OperationsFit' /\ QueueFits' /\ ClosesAlone'
      BY <1>3, <2>1, <3>1 DEF Rolling
    <3>5. TypeOK'
      BY <1>7, <3>1, <3>2, <3>3, <3>4 DEF Replace, TypeOK, releases, settings
    <3> QED  BY <3>4, <3>5
  <2> QED  BY <2>2, <2>3
<1>8. CASE Replaced(o)
  <2>1. /\ ops[o].pc = "replacing" /\ Finish(o) /\ loaded' = n
        /\ inst' = [inst EXCEPT ![n].heard = TRUE]
        /\ unconfirmed' = unconfirmed \/ unconfirmed' = unconfirmed \cup {i}
    BY <1>8 DEF Replaced, At
  <2>2. n \in Instances
    BY <1>1, <2>1
  <2>3. inst[n] \in Instance /\ unconfirmed' \in SUBSET Instances
    BY <1>1, <2>1, <2>2 DEF TypeOK
  <2>4. inst' \in [Instances -> Instance]
    BY <1>1, <2>1, <2>2, <2>3 DEF Instance
  <2>5. TypeOK'
    BY <1>4, <1>8, <2>1, <2>2, <2>3, <2>4 DEF Replaced, TypeOK, releases, settings, Rolling
  <2> QED  BY <1>4, <2>1, <2>5 DEF Rolling
<1> QED
  BY <1>2, <1>5, <1>6, <1>7, <1>8

LEMMA OutputsOrder ==
  ASSUME OrderInv, NEW i \in Instances,
         OutputBegins(i) \/ OutputEnds(i) \/ OutputBreaks(i) \/ NativeCloses(i)
  PROVE  OrderInv'
<1> USE DEF OrderInv
<1>0. inst \in [Instances -> Instance] /\ inst[i] \in Instance
  BY DEF TypeOK
<1>1. CASE OutputBegins(i) \/ OutputBreaks(i) \/ NativeCloses(i) \/ TurnBegins(i)
  <2>1. UNCHANGED <<ops, queue, candidate, releasing, host>>
    BY <1>1 DEF OutputBegins, OutputBreaks, NativeCloses, TurnBegins, OutputOver,
       releases, settings
  <2>2. inst' \in [Instances -> Instance]
    <3>1. CASE OutputBegins(i)
      BY <3>1 DEF OutputBegins, TypeOK
    <3>2. CASE NativeCloses(i)
      BY <1>0, <3>2 DEF NativeCloses, Instance
    <3>3. CASE TurnBegins(i)
      BY <1>0, <3>3 DEF TurnBegins, Instance
    <3>4. CASE OutputBreaks(i)
      <4>1. [inst[i] EXCEPT !.fault = TRUE, !.running = FALSE] \in Instance
        BY <1>0 DEF Instance
      <4>2. inst' = [inst EXCEPT ![i] =
                       [inst[i] EXCEPT !.fault = TRUE, !.running = FALSE]]
        BY <1>0, <3>4 DEF OutputBreaks
      <4> QED  BY <1>0, <4>1, <4>2
    <3> QED  BY <1>1, <3>1, <3>2, <3>3, <3>4
  <2>3. /\ projecting' \in SUBSET Instances /\ stale' \in BOOLEAN
        /\ UNCHANGED <<record, loaded, restoring, enabled, retired, unconfirmed, crossed>>
    BY <1>1 DEF OutputBegins, OutputBreaks, NativeCloses, TurnBegins,
       OutputOver, TypeOK, releases, settings, histories
  <2>4. TypeOK'
    BY <2>1, <2>2, <2>3 DEF TypeOK
  <2> QED  BY <2>1, <2>4, OthersOrder
<1>2. CASE TurnEnds(i)
  <2>1. UNCHANGED <<queue, candidate, releasing, host>>
    BY <1>2 DEF TurnEnds, OutputOver, releases, settings
  <2>2. inst' \in [Instances -> Instance]
    <3>1. /\ [inst[i] EXCEPT !.running = FALSE, !.fault = TRUE] \in Instance
          /\ [inst[i] EXCEPT !.running = FALSE] \in Instance
      BY <1>0 DEF Instance
    <3>2. \/ inst' = [inst EXCEPT ![i] = [inst[i] EXCEPT !.running = FALSE]]
          \/ inst' = [inst EXCEPT ![i] =
                        [inst[i] EXCEPT !.running = FALSE, !.fault = TRUE]]
      <4>1. CASE inst' = [inst EXCEPT ![i].running = FALSE]
        BY <1>0, <4>1
      <4>2. CASE inst' = [inst EXCEPT ![i].running = FALSE, ![i].fault = TRUE]
        BY <1>0, <4>2
      <4> QED  BY <1>2, <4>1, <4>2 DEF TurnEnds
    <3> QED  BY <1>0, <3>1, <3>2
  <2>3. ops' \in [Ops -> Operation]
        /\ \A o \in Ops : /\ ops'[o].pc = ops[o].pc /\ ops'[o].inst = ops[o].inst
                          /\ ops'[o].next = ops[o].next
    <3>1. CASE UNCHANGED ops
      BY <3>1 DEF TypeOK
    <3>2. CASE ops' = [o \in Ops |->
                 [ops[o] EXCEPT !.valid = @ /\ ops[o].pc # "prepared"]]
      <4>1. ASSUME NEW o \in Ops
            PROVE  /\ ops'[o] \in Operation
                   /\ ops'[o].pc = ops[o].pc /\ ops'[o].inst = ops[o].inst
                   /\ ops'[o].next = ops[o].next
        <5>1. ops[o] \in Operation
          BY DEF TypeOK
        <5>2. ops'[o] = [ops[o] EXCEPT !.valid = @ /\ ops[o].pc # "prepared"]
          BY <3>2
        <5> QED  BY <5>1, <5>2 DEF Operation
      <4> QED  BY <3>2, <4>1
    <3> QED  BY <1>2, <3>1, <3>2 DEF TurnEnds
  <2>4. OperationsFit'
    BY <2>3 DEF OperationsFit, Fits, At
  <2>5. \A o \in Ops : /\ Awaited(o)' <=> Awaited(o)
                       /\ Served(o)' => Served(o)
                       /\ o \in Counted' => o \in Counted
    BY <2>3 DEF Awaited, Served, Detached, At, Counted
  <2>6. QueueFits' /\ ClosesAlone'
    BY <2>1, <2>5, MovesOrder
  <2>7. TypeOK'
    BY <1>2, <2>2, <2>3 DEF TurnEnds, OutputOver, TypeOK, releases, settings, histories
  <2> QED  BY <2>4, <2>6, <2>7
<1> QED
  BY <1>1, <1>2 DEF OutputEnds

(* The head of the queue goes when it is the candidate for release.        *)
LEMMA CandidateLeaves ==
  ASSUME OrderInv, Running(Release), queue' = Tail(queue), candidate' = None,
         releasing' = None, UNCHANGED <<ops, host>>
  PROVE  /\ queue' \in Seq(Ops \cup {Release})
         /\ OperationsFit' /\ QueueFits' /\ ClosesAlone'
<1> USE DEF OrderInv
<1>1. queue # <<>> /\ Head(queue) = Release
  BY DEF Running
<1>2. /\ queue' \in Seq(Ops \cup {Release}) /\ Distinct'
      /\ \A y : InQueue(y)' <=> InQueue(y) /\ y # Release
  BY <1>1, Removed DEF QueueFits
<1>3. \A o \in Ops : (Awaited(o)' <=> Awaited(o)) /\ (Served(o)' <=> Served(o))
  BY DEF Awaited, Served, Detached, At
<1>4. \A o \in Ops : ~Served(o)
  BY <1>1 DEF QueueFits, Running
<1>5. QueueFits'
  BY <1>1, <1>2, <1>3, <1>4 DEF QueueFits, Stopped
<1>6. OperationsFit' /\ ClosesAlone'
  BY DEF OperationsFit, Fits, At, ClosesAlone, Counted
<1> QED
  BY <1>2, <1>5, <1>6

LEMMA ReleasesOrder ==
  ASSUME OrderInv, Check \/ ReleaseStep \/ Configure \/ TimePasses
  PROVE  OrderInv'
<1> USE DEF OrderInv
<1>1. CASE Configure \/ TimePasses
  <2>1. UNCHANGED <<ops, queue, candidate, releasing, host>> /\ TypeOK'
    BY <1>1 DEF Configure, TimePasses, TypeOK, releases, settings, histories
  <2> QED  BY <2>1, OthersOrder
<1>2. CASE Check
  <2>1. /\ candidate = None /\ candidate' = loaded /\ loaded # None
        /\ queue' = Append(queue, Release) /\ releasing = None
        /\ ~Stopped /\ UNCHANGED <<ops, releasing, host>>
    BY <1>2 DEF Check, Eligible, settings
  <2>2. ~InQueue(Release)
    BY <2>1 DEF QueueFits
  <2>3. /\ queue' \in Seq(Ops \cup {Release}) /\ queue' # <<>> /\ Distinct'
        /\ \A y : InQueue(y)' <=> InQueue(y) \/ y = Release
        /\ queue # <<>> => Head(queue') = Head(queue)
    BY <2>1, <2>2, Appended DEF QueueFits
  <2>4. \A o \in Ops : (Awaited(o)' <=> Awaited(o)) /\ (Served(o)' <=> Served(o))
    BY <2>1 DEF Awaited, Served, Detached, At
  <2>5. QueueFits'
    BY <2>1, <2>3, <2>4 DEF QueueFits, Running, Stopped
  <2>6. OperationsFit' /\ ClosesAlone'
    BY <2>1 DEF OperationsFit, Fits, At, ClosesAlone, Counted, Stopped
  <2>7. TypeOK'
    BY <1>2, <2>1, <2>3 DEF Check, TypeOK, settings, histories
  <2> QED  BY <2>5, <2>6, <2>7
<1>3. CASE ReleaseSkipped
  <2>1. /\ Running(Release) /\ queue' = Tail(queue) /\ candidate' = None
        /\ releasing' = None /\ UNCHANGED <<ops, host>>
    BY <1>3 DEF ReleaseSkipped, ReleaseTurn, Running, settings
  <2>2. queue' \in Seq(Ops \cup {Release})
        /\ OperationsFit' /\ QueueFits' /\ ClosesAlone'
    BY <2>1, CandidateLeaves
  <2>3. TypeOK'
    BY <1>3, <2>2 DEF ReleaseSkipped, TypeOK, settings, histories
  <2> QED  BY <2>2, <2>3
<1>4. CASE ReleaseBegins
  <2>1. /\ Running(Release) /\ Counted = {} /\ releasing' = candidate
        /\ inst' = [inst EXCEPT ![candidate].native = "closing"]
        /\ UNCHANGED <<ops, queue, candidate, host>>
    BY <1>4 DEF ReleaseBegins, ReleaseTurn, Running, Eligible, settings
  <2>2. OperationsFit' /\ QueueFits'
    BY <2>1 DEF OperationsFit, Fits, At, QueueFits, Distinct, InQueue, Awaited,
       Served, Detached, Running, Stopped
  <2>3. ClosesAlone'
    BY <2>1 DEF ClosesAlone, Counted, Running
  <2>4. candidate \in Instances /\ inst \in [Instances -> Instance]
        /\ inst[candidate] \in Instance
    <3>1. queue # <<>> /\ queue[1] = Release /\ 1 \in DOMAIN queue
      BY <2>1 DEF Running, TypeOK
    <3>2. candidate # None
      BY <3>1 DEF QueueFits, InQueue
    <3> QED  BY <3>2 DEF TypeOK
  <2>5. inst' \in [Instances -> Instance]
    BY <2>1, <2>4 DEF Instance
  <2>6. TypeOK'
    BY <1>4, <2>1, <2>4, <2>5 DEF ReleaseBegins, TypeOK, settings, histories
  <2> QED  BY <2>2, <2>3, <2>6
<1>5. CASE ReleaseSettles \/ ReleaseFails
  <2>1. /\ releasing # None /\ queue' = Tail(queue) /\ candidate' = None
        /\ releasing' = None /\ UNCHANGED <<ops, host>>
    BY <1>5 DEF ReleaseSettles, ReleaseFails, ReleaseOver, settings
  <2>2. queue' \in Seq(Ops \cup {Release})
        /\ OperationsFit' /\ QueueFits' /\ ClosesAlone'
    BY <2>1, CandidateLeaves DEF ClosesAlone
  <2>3. /\ inst' = inst \/ inst' = [inst EXCEPT ![releasing].failed = TRUE]
        /\ loaded' = loaded \/ loaded' = None
    BY <1>5 DEF ReleaseSettles, ReleaseFails
  <2>4. inst' \in [Instances -> Instance]
    <3>1. /\ inst \in [Instances -> Instance] /\ releasing \in Instances
          /\ inst[releasing] \in Instance
      BY <2>1 DEF TypeOK
    <3>2. CASE inst' = [inst EXCEPT ![releasing].failed = TRUE]
      BY <3>1, <3>2 DEF Instance
    <3> QED  BY <2>3, <3>1, <3>2
  <2>5. TypeOK'
    BY <1>5, <2>1, <2>2, <2>3, <2>4
    DEF ReleaseSettles, ReleaseFails, ReleaseOver, TypeOK, settings, histories
  <2> QED  BY <2>2, <2>5
<1> QED
  BY <1>1, <1>2, <1>3, <1>4, <1>5 DEF ReleaseStep

LEMMA ShutdownOrder ==
  ASSUME OrderInv, InputEnds \/ Stop \/ ShutdownCloses \/ ShutdownEnds
  PROVE  OrderInv'
<1> USE DEF OrderInv
<1>1. UNCHANGED <<ops, queue, candidate, releasing>>
  BY DEF InputEnds, Stop, ShutdownCloses, ShutdownEnds, releases
<1>2. /\ host' \in {"stopped", "closing", "closed"} => queue = <<>>
      /\ host' \in {"closing", "closed"} => Counted = {}
      /\ host' \in {"open", "ending", "stopped", "closing", "closed"}
  BY DEF InputEnds, Stop, ShutdownCloses, ShutdownEnds, QueueFits, Stopped, ClosesAlone
<1>3. OperationsFit' /\ QueueFits'
  BY <1>1, <1>2 DEF OperationsFit, Fits, At, QueueFits, Distinct, InQueue, Awaited,
     Served, Detached, Running, Stopped
<1>4. ClosesAlone'
  BY <1>1, <1>2 DEF ClosesAlone, Counted, Running
<1>5. inst' \in [Instances -> Instance]
  <2>1. CASE ShutdownCloses
    <3>1. inst \in [Instances -> Instance]
      BY DEF TypeOK
    <3>2. \A i \in Instances : [inst[i] EXCEPT !.native = "closing"] \in Instance
      BY <3>1 DEF Instance
    <3> QED  BY <2>1, <3>1, <3>2 DEF ShutdownCloses, CloseLoaded
  <2>2. CASE ~ShutdownCloses
    BY <2>2 DEF InputEnds, Stop, ShutdownEnds, TypeOK
  <2> QED  BY <2>1, <2>2
<1>6. /\ unconfirmed' \in SUBSET Instances /\ enabled' \in BOOLEAN
      /\ loaded' \in {loaded, None}
      /\ UNCHANGED <<record, projecting, restoring, stale, retired, crossed>>
  BY DEF InputEnds, Stop, ShutdownCloses, ShutdownEnds, TypeOK, histories
<1>7. TypeOK'
  BY <1>1, <1>2, <1>5, <1>6 DEF TypeOK
<1> QED
  BY <1>3, <1>4, <1>7

LEMMA InitOrder == Init => OrderInv
<1> SUFFICES ASSUME Init PROVE OrderInv
  OBVIOUS
<1>1. Idle \in Operation
  BY DEF Idle, Operation, Phases
<1>2. TypeOK
  <2>1. 1 \in Instances
    BY DEF Instances
  <2>2. inst \in [Instances -> Instance]
    BY <2>1 DEF Init, Instance
  <2>3. record \in [removed : BOOLEAN, ref : Instances]
    BY <2>1 DEF Init
  <2>4. queue \in Seq(Ops \cup {Release}) /\ ops \in [Ops -> Operation]
    BY <1>1 DEF Init
  <2>5. {loaded, restoring, candidate, releasing} \subseteq Instances \cup {None}
    BY <2>1 DEF Init
  <2>6. /\ {stale, enabled} \subseteq BOOLEAN
        /\ {retired, unconfirmed, crossed} \subseteq SUBSET Instances
        /\ projecting \in SUBSET Instances
        /\ host \in {"open", "ending", "stopped", "closing", "closed"}
    BY DEF Init
  <2> QED
    BY <2>2, <2>3, <2>4, <2>5, <2>6 DEF TypeOK
<1>3. OperationsFit
  BY DEF Init, Idle, OperationsFit, Fits, At, Before, Rolling
<1>4. QueueFits
  BY DEF Init, Idle, QueueFits, Distinct, InQueue, Awaited, Served, Stopped
<1>5. ClosesAlone
  BY DEF Init, ClosesAlone
<1> QED
  BY <1>2, <1>3, <1>4, <1>5 DEF OrderInv

LEMMA NextOrder == OrderInv /\ [Next]_vars => OrderInv'
<1> SUFFICES ASSUME OrderInv, [Next]_vars PROVE OrderInv'
  OBVIOUS
<1>1. CASE UNCHANGED vars
  <2>1. TypeOK'
    BY <1>1 DEF vars, OrderInv, TypeOK
  <2> QED  BY <1>1, <2>1, OthersOrder DEF vars, OrderInv
<1>2. CASE \E o \in Ops : Request(o) \/ OperationStep(o) \/ UseEnds(o) \/ RollbackPrepares(o)
  BY <1>2, ArrivalOrder, LocatesOrder, FindOrder, DetachOrder, TurnsOrder,
     DeletesOrder, RollbacksOrder DEF OperationStep
<1>3. CASE \E i \in Instances :
             OutputBegins(i) \/ OutputEnds(i) \/ OutputBreaks(i) \/ NativeCloses(i)
  BY <1>3, OutputsOrder
<1> QED
  BY <1>1, <1>2, <1>3, RestoresOrder, ReleasesOrder, ShutdownOrder DEF Next

(* Every state is well typed, what an operation holds fits what it does,   *)
(* requests are served one at a time, a release runs alone and the Host    *)
(* closes its sessions when nothing runs.                                  *)
THEOREM OneAtATime == Spec => []OrderInv
BY InitOrder, NextOrder, PTL DEF Spec

-----------------------------------------------------------------------------
(* What the Host knows of its instances.                                   *)

(* A release closes the loaded instance, which has not failed before.      *)
ReleaseFits == releasing # None => releasing = loaded /\ ~inst[loaded].failed

ClosedFits == host = "closed" => loaded = None

(* A restore runs while nothing is loaded, for somebody who waits for it,  *)
(* and opens the session of the record.                                    *)
RestoreFits ==
  /\ restoring # None =>
       /\ loaded = None
       /\ Alive(restoring) /\ ~inst[restoring].failed /\ restoring \notin retired
       /\ \E o \in Ops : At(o, "awaiting")
       /\ ~record.removed => inst[restoring].ref = record.ref
  /\ \A o \in Ops : At(o, "awaiting") => restoring # None /\ ops[o].inst = restoring

(* Of an operation and the instance it holds: nobody uses one that is      *)
(* still restored, a rollback works on the loaded one and what it          *)
(* committed stays committed, and a delete closes its instance.            *)
Owns(o) ==
  /\ ops[o].pc \in Using \cup {"replacing", "closing"} /\ ops[o].inst # None =>
       ops[o].inst # restoring
  /\ KindOf[o] = "rollback" /\ ops[o].pc \in {"using"} \cup Rolling =>
       loaded = ops[o].inst
  /\ ops[o].pc \in {"committed", "replacing"} =>
       ~record.removed /\ record.ref = ops[o].next
  /\ At(o, "closing") =>
       record.removed /\ Native(ops[o].inst) \in {"closing", "gone"}
  /\ ops[o].inst # None => Native(ops[o].inst) # "none"

OwnersFit == \A o \in Ops : Owns(o)

(* An instance that a rollback prepared is nobody else's.                  *)
Spare(n) ==
  /\ Native(n) = "live" /\ inst[n].ref = n /\ ~inst[n].failed
  /\ n # loaded /\ n # restoring /\ n \notin retired
  /\ \A o \in Ops : ops[o].inst # n

NextsFit == \A o \in Ops : ops[o].next # None => Spare(ops[o].next)

(* The loaded instance is live unless it is being replaced or released, it *)
(* failed, or the Host closes; nobody gets past one that failed.           *)
LoadedFits ==
  loaded # None =>
    /\ Native(loaded) \in {"live", "closing", "gone"}
    /\ \/ Native(loaded) = "live"
       \/ loaded \in retired \/ releasing # None \/ inst[loaded].failed
       \/ host = "closing"
    /\ loaded \in retired => \E o \in Ops : At(o, "replacing")
    /\ inst[loaded].failed => \A o \in Counted : At(o, "entered")

Sound(i) ==
  /\ inst[i].failed => Native(i) \in {"closing", "gone"}
  /\ inst[i].failed /\ Alive(i) => loaded = i \/ host = "closed"
  /\ i \in retired => Native(i) # "none"
  /\ Native(i) # "none" => Native(inst[i].ref) # "none"

InstancesFit == \A i \in Instances : Sound(i)

RecordFits == Native(record.ref) # "none"

(* Every session that is open is known to the Host, or lost in a way that  *)
(* the histories name.                                                     *)
Known(i) ==
  \/ i = loaded \/ i = restoring \/ i \in unconfirmed \/ i \in crossed
  \/ \E o \in Ops : ops[o].next = i \/ (At(o, "closing") /\ ops[o].inst = i)

AllKnown == \A i \in Instances : Alive(i) => Known(i)

HoldersInv ==
  /\ ReleaseFits /\ ClosedFits /\ RestoreFits
  /\ OwnersFit /\ NextsFit
  /\ LoadedFits /\ InstancesFit /\ RecordFits /\ AllKnown
  /\ NotClosedInUse /\ OneWriter /\ LoadedIsStored

-----------------------------------------------------------------------------
(* Steps that leave the record, the loaded and the restored instance.      *)

Same(o) == /\ ops'[o].pc = ops[o].pc /\ ops'[o].inst = ops[o].inst
           /\ ops'[o].next = ops[o].next

Goes(o) ==
  \/ Same(o)
  \/ /\ ops[o].pc \in Before \cup {"using", "detached", "starting"}
     /\ ops'[o].pc \in Before /\ (ops'[o].pc = "finding" => loaded = None)
  \/ /\ ops[o].pc = "finding" /\ ops'[o].pc = "using" /\ ops'[o].inst = None
  \/ /\ ops[o].pc \in {"entered", "finding"} /\ ops'[o].pc = "using"
     /\ loaded # None /\ ops'[o].inst = loaded /\ ~inst[loaded].failed
  \/ /\ ops[o].pc = "finding" /\ ops'[o].pc = "awaiting"
     /\ restoring # None /\ ops'[o].inst = restoring
  \/ /\ ops[o].pc \in {"using", "detached"} /\ ops'[o].pc \in {"detached", "starting"}
     /\ ops'[o].inst = ops[o].inst
  \/ /\ ops[o].pc = "closing" /\ ops'[o].pc = "done"
     /\ inst'[ops[o].inst].native = "gone" \/ ops[o].inst \in unconfirmed'
  \/ /\ ops[o].pc = "prepared" /\ ops'[o].pc = "done"
     /\ inst'[ops[o].next].native = "gone" \/ ops[o].next \in unconfirmed'

NativeGoes(i) ==
  \/ inst'[i].native = Native(i)
  \/ i = restoring /\ Alive(i) /\ inst'[i].native \in {"opening", "live", "closing"}
  \/ Native(i) = "closing" /\ inst'[i].native = "gone" /\ i # restoring
  \/ /\ i = loaded /\ Native(i) = "live" /\ inst'[i].native = "closing"
     /\ Counted' = {}
     /\ releasing' # None \/ host' = "closing"
  \/ /\ inst'[i].native = "gone"
     /\ \E o \in Ops : ops[o].next = i /\ ops'[o].next = None

Quiet ==
  /\ UNCHANGED <<record, loaded, restoring, retired, crossed>>
  /\ unconfirmed \subseteq unconfirmed'
  /\ \/ releasing' = releasing
     \/ releasing = None /\ releasing' = loaded /\ ~inst[loaded].failed
  /\ \/ host' = host
     \/ host' \in {"ending", "stopped"} /\ host \in {"open", "ending"}
     \/ host' = "closing" /\ host = "stopped"
  /\ \A i \in Instances :
       /\ inst'[i].ref = inst[i].ref /\ inst'[i].failed = inst[i].failed
       /\ NativeGoes(i)
  /\ \A o \in Ops : Goes(o)

LEMMA RollsAlone ==
  ASSUME OrderInv, NEW o \in Ops, NEW p \in Ops,
         ops[o].pc \in Rolling,
         ops[p].pc \in Rolling \cup {"closing"} \/
           (KindOf[p] \in {"rollback", "delete"} /\ p \in Counted)
  PROVE  o = p
<1>1. Served(o)
  BY DEF OrderInv, OperationsFit, Fits, Rolling, Served, Awaited, Queued, Detached, At
<1>2. Served(p)
  BY DEF OrderInv, OperationsFit, Fits, Rolling, Served, Awaited, Queued, Detached, At,
     Counted
<1> QED
  BY <1>1, <1>2, ServedAlone DEF OrderInv

LEMMA AliveIs ==
  ASSUME TypeOK, NEW i \in Instances
  PROVE  /\ Native(i) \in {"none", "opening", "live", "closing", "gone"}
         /\ Alive(i) <=> Native(i) \notin {"none", "gone"}
         /\ inst[i].ref \in Instances /\ inst[i].failed \in BOOLEAN
BY DEF TypeOK, Instance, Native, Alive

LEMMA QuietHolders ==
  ASSUME OrderInv, OrderInv', HoldersInv, Quiet
  PROVE  HoldersInv'
<1> USE DEF OrderInv, HoldersInv
<1>1. /\ record' = record /\ loaded' = loaded /\ restoring' = restoring
      /\ retired' = retired /\ crossed' = crossed /\ unconfirmed \subseteq unconfirmed'
      /\ loaded \in Instances \cup {None} /\ restoring \in Instances \cup {None}
      /\ releasing \in Instances \cup {None} /\ record.ref \in Instances
      /\ \A o \in Ops : Fits(o) /\ Fits(o)'
      /\ \A o \in Ops : ops[o].inst \in Instances \cup {None}
      /\ \A o \in Ops : ops[o].next \in Instances \cup {None}
  BY DEF Quiet, TypeOK, OperationsFit, Operation
<1>2. \A i \in Instances : /\ NativeGoes(i)
                           /\ inst'[i].ref = inst[i].ref
                           /\ inst'[i].failed = inst[i].failed
  BY DEF Quiet
<1>3. ASSUME NEW i \in Instances
      PROVE  /\ Alive(i)' => Alive(i)
             /\ Native(i)' = "none" <=> Native(i) = "none"
             /\ Native(i)' \in {"none", "opening", "live", "closing", "gone"}
             /\ Alive(i)' <=> Native(i)' \notin {"none", "gone"}
  <2>1. Native(i)' \in {"none", "opening", "live", "closing", "gone"}
    BY DEF TypeOK, Instance, Native
  <2>2. \A o \in Ops : ops[o].next = i => Native(i) = "live"
    BY DEF NextsFit, Spare, Instances
  <2> QED
    BY <1>2, <2>1, <2>2 DEF NativeGoes, Alive, Native
<1>4. ASSUME NEW o \in Ops
      PROVE  /\ Goes(o)
             /\ ops'[o].pc \in Rolling \/ ops'[o].next # None => Same(o)
             /\ ops'[o].pc = "closing" => Same(o)
             /\ ops[o].pc = "awaiting" => Same(o)
             /\ ops[o].pc = "replacing" => Same(o)
  BY <1>1 DEF Quiet, Goes, Fits, Before, Rolling
<1>5. ReleaseFits' /\ ClosedFits' /\ RecordFits'
  BY <1>1, <1>2, <1>3 DEF Quiet, ReleaseFits, ClosedFits, RecordFits
<1>6. RestoreFits'
  <2>1. restoring # None => restoring \in Instances
    BY <1>1
  <2>2. restoring # None => inst'[restoring].native \in {"opening", "live", "closing"}
    <3> SUFFICES ASSUME restoring # None
                 PROVE  inst'[restoring].native \in {"opening", "live", "closing"}
      OBVIOUS
    <3>1. loaded = None /\ Alive(restoring)
      BY DEF RestoreFits
    <3>2. \A o \in Ops : ops[o].next # restoring
      BY <2>1 DEF NextsFit, Spare
    <3> QED
      BY <1>2, <2>1, <3>1, <3>2 DEF NativeGoes, Alive, Native
  <2>3. restoring # None => \E o \in Ops : At(o, "awaiting")'
    BY <1>4 DEF RestoreFits, Same, At
  <2>4. \A o \in Ops : At(o, "awaiting")' => restoring # None /\ ops'[o].inst = restoring
    BY <1>4 DEF RestoreFits, Goes, Same, At, Before
  <2> QED
    BY <1>1, <1>2, <2>1, <2>2, <2>3, <2>4 DEF RestoreFits, At, Alive, Native
<1>7. OwnersFit'
  <2> SUFFICES ASSUME NEW o \in Ops PROVE Owns(o)'
    BY DEF OwnersFit
  <2>0. Owns(o) /\ Fits(o) /\ Fits(o)' /\ Goes(o)
    BY <1>1, <1>4 DEF OwnersFit
  <2>1. ops'[o].pc \in Using \cup {"replacing", "closing"} /\ ops'[o].inst # None =>
          ops'[o].inst # restoring
    BY <1>1, <2>0 DEF Goes, Same, Owns, Using, Before, RestoreFits
  <2>2. KindOf[o] = "rollback" /\ ops'[o].pc \in {"using"} \cup Rolling =>
          loaded = ops'[o].inst
    BY <1>1, <1>4, <2>0 DEF Goes, Same, Owns, Before, Rolling, Fits, At
  <2>3. ops'[o].pc \in {"committed", "replacing"} =>
          ~record.removed /\ record.ref = ops'[o].next
    BY <1>4, <2>0 DEF Same, Owns, Rolling
  <2>4. At(o, "closing")' =>
          record.removed /\ inst'[ops'[o].inst].native \in {"closing", "gone"}
    <3> SUFFICES ASSUME ops'[o].pc = "closing"
                 PROVE  record.removed /\ inst'[ops'[o].inst].native \in {"closing", "gone"}
      BY DEF At
    <3>1. Same(o) /\ ops[o].pc = "closing" /\ ops[o].inst \in Instances
          /\ ops[o].inst # restoring /\ record.removed
          /\ Native(ops[o].inst) \in {"closing", "gone"}
      BY <1>1, <1>4, <2>0 DEF Same, Owns, At, Fits, Before
    <3>2. NativeGoes(ops[o].inst)
      BY <1>2, <3>1
    <3> QED
      BY <3>1, <3>2 DEF NativeGoes, Native, Same
  <2>5. ops'[o].inst # None => inst'[ops'[o].inst].native # "none"
    <3> SUFFICES ASSUME ops'[o].inst # None PROVE inst'[ops'[o].inst].native # "none"
      OBVIOUS
    <3>1. ops'[o].inst \in Instances
      BY DEF TypeOK, Operation
    <3>2. \/ ops'[o].inst = ops[o].inst
          \/ ops'[o].inst = loaded \/ ops'[o].inst = restoring
      BY <1>1, <2>0 DEF Goes, Same, Fits, Before
    <3>3. Native(ops'[o].inst) # "none"
      BY <1>1, <2>0, <3>1, <3>2 DEF Owns, LoadedFits, RestoreFits, Alive
    <3> QED
      BY <1>3, <3>1, <3>3 DEF Native
  <2> QED
    BY <1>1, <2>1, <2>2, <2>3, <2>4, <2>5 DEF Owns, Native, At
<1>8. NextsFit'
  <2> SUFFICES ASSUME NEW o \in Ops, ops'[o].next # None PROVE Spare(ops[o].next)'
    BY <1>4 DEF NextsFit, Spare, Same, Native
  <2> DEFINE n == ops[o].next
  <2>1. /\ Same(o) /\ ops'[o].next = n /\ n \in Instances
        /\ Spare(n) /\ ops[o].pc \in Rolling
    BY <1>1, <1>4 DEF Same, NextsFit, Fits
  <2>2. Native(n)' = "live"
    <3>1. \A p \in Ops : ops[p].next = n => p = o
      BY <1>1, <2>1, RollsAlone DEF Fits
    <3> QED
      BY <1>2, <2>1, <3>1 DEF NativeGoes, Spare, Native
  <2>3. \A p \in Ops : ops'[p].inst # n
    <3> SUFFICES ASSUME NEW p \in Ops PROVE ops'[p].inst # n
      OBVIOUS
    <3>1. \/ ops'[p].inst = ops[p].inst \/ ops'[p].inst = None
          \/ ops'[p].inst = loaded \/ ops'[p].inst = restoring
      BY <1>1, <1>4 DEF Goes, Same, Fits, Before
    <3> QED
      BY <2>1, <3>1 DEF Spare, Instances
  <2> QED
    BY <1>1, <1>2, <2>1, <2>2, <2>3 DEF Spare, Native
<1>9. LoadedFits'
  <2> SUFFICES ASSUME loaded # None PROVE LoadedFits'
    BY <1>1 DEF LoadedFits
  <2>1. /\ loaded \in Instances /\ restoring = None /\ NativeGoes(loaded)
        /\ Native(loaded) \in {"live", "closing", "gone"}
        /\ \A o \in Ops : ops[o].next # loaded
    BY <1>1, <1>2 DEF LoadedFits, RestoreFits, NextsFit, Spare
  <2>2. inst'[loaded].native \in {"live", "closing", "gone"}
    BY <2>1 DEF NativeGoes, Native
  <2>3. \/ inst'[loaded].native = "live"
        \/ loaded \in retired \/ releasing' # None \/ inst'[loaded].failed
        \/ host' = "closing"
    <3>1. releasing # None => releasing' # None
      BY DEF Quiet
    <3>2. host = "closing" => host' = "closing"
      BY DEF Quiet
    <3> QED
      BY <1>2, <2>1, <3>1, <3>2 DEF LoadedFits, NativeGoes, Native
  <2>4. loaded \in retired => \E o \in Ops : ops'[o].pc = "replacing"
    BY <1>4 DEF LoadedFits, Same, At
  <2>5. inst'[loaded].failed => \A o \in Ops :
          ops'[o].pc \in {"new", "waiting", "done", "entered"}
    <3> SUFFICES ASSUME inst[loaded].failed, NEW o \in Ops
                 PROVE  ops'[o].pc \in {"new", "waiting", "done", "entered"}
      BY <1>2, <2>1
    <3>1. ops[o].pc \in {"new", "waiting", "done", "entered"}
      BY DEF LoadedFits, Counted, At
    <3> QED
      BY <1>4, <3>1 DEF Goes, Same, Before
  <2> QED
    BY <1>1, <2>2, <2>3, <2>4, <2>5 DEF LoadedFits, Native, At, Counted
<1>10. InstancesFit'
  <2> SUFFICES ASSUME NEW i \in Instances PROVE Sound(i)'
    BY DEF InstancesFit
  <2>1. Sound(i) /\ NativeGoes(i) /\ inst[i].ref \in Instances
    BY <1>2, AliveIs DEF InstancesFit
  <2>2. inst'[i].failed => Native(i)' \in {"closing", "gone"}
    BY <1>1, <1>2, <2>1 DEF NativeGoes, Sound, RestoreFits, Instances, Native
  <2>3. inst'[i].failed /\ Alive(i)' => loaded = i \/ host' = "closed"
    BY <1>2, <1>3, <2>1 DEF Sound, Quiet
  <2>4. Native(i)' # "none" => inst'[inst'[i].ref].native # "none"
    BY <1>2, <1>3, <2>1 DEF Sound, Native
  <2> QED
    BY <1>1, <1>3, <2>1, <2>2, <2>3, <2>4 DEF Sound, Native
<1>11. AllKnown'
  <2> SUFFICES ASSUME NEW i \in Instances, Alive(i)' PROVE Known(i)'
    BY DEF AllKnown
  <2>1. Known(i) /\ Native(i)' # "gone"
    BY <1>3 DEF AllKnown, Alive
  <2>2. ASSUME NEW o \in Ops, ops[o].next = i
        PROVE  ops'[o].next = i \/ i \in unconfirmed'
    <3>1. ops[o].pc \in Rolling
      BY <1>1, <2>2 DEF Fits, Instances
    <3> QED
      BY <1>4, <2>1, <2>2, <3>1 DEF Goes, Same, Before, Rolling, Native
  <2>3. ASSUME NEW o \in Ops, At(o, "closing"), ops[o].inst = i
        PROVE  (At(o, "closing")' /\ ops'[o].inst = i) \/ i \in unconfirmed'
    BY <1>4, <2>1, <2>3 DEF Goes, Same, Before, Native, At
  <2> QED
    BY <1>1, <2>1, <2>2, <2>3 DEF Known
<1>12. NotClosedInUse'
  <2> SUFFICES ASSUME NEW o \in Ops, ops'[o].pc \in Using, ops'[o].inst \notin retired,
                      ops'[o].inst # None
               PROVE  inst'[ops'[o].inst].native = "live"
    BY <1>1 DEF NotClosedInUse, Native
  <2> DEFINE i == ops'[o].inst
  <2>1. i \in Instances
    BY DEF TypeOK, Operation
  <2>2. o \in Counted' /\ ops'[o].pc \notin {"entered", "closing", "done"}
    BY DEF Using, Counted
  <2>3. /\ \/ ops[o].inst = i /\ ops[o].pc \in Using
           \/ i = loaded /\ ~inst[loaded].failed
        /\ o \in Counted
    BY <1>4, <2>2 DEF Goes, Same, Using, Before, Counted
  <2>4. Native(i) = "live" /\ i # restoring
    <3>1. CASE ops[o].inst = i /\ ops[o].pc \in Using
      BY <2>1, <3>1 DEF NotClosedInUse, OwnersFit, Owns, Using
    <3>2. CASE i = loaded /\ ~inst[loaded].failed
      BY <2>1, <2>3, <3>2 DEF LoadedFits, ClosesAlone, RestoreFits
    <3> QED  BY <2>3, <3>1, <3>2
  <2>5. \A p \in Ops : ops[p].next = i => ops'[p].next # None
    <3> SUFFICES ASSUME NEW p \in Ops, ops[p].next = i PROVE ops'[p].next # None
      OBVIOUS
    <3>1. i # loaded /\ \A q \in Ops : ops[q].inst # i
      BY <2>1 DEF NextsFit, Spare
    <3> QED  BY <2>3, <3>1
  <2>6. NativeGoes(i)
    BY <1>2, <2>1
  <2> QED
    BY <2>2, <2>4, <2>5, <2>6 DEF NativeGoes, Native
<1>13. OneWriter' /\ LoadedIsStored'
  <2>1. OneWriter'
    BY <1>1, <1>2, <1>3 DEF OneWriter
  <2>2. LoadedIsStored'
    <3>1. \A o \in Ops : ops[o].pc \in {"committed", "replacing"} =>
            ops'[o].pc \in {"committed", "replacing"}
      BY <1>4 DEF Goes, Same, Before
    <3> QED
      BY <1>1, <1>2, <3>1 DEF LoadedIsStored
  <2> QED  BY <2>1, <2>2
<1> QED
  BY <1>5, <1>6, <1>7, <1>8, <1>9, <1>10, <1>11, <1>12, <1>13

LEMMA FinishDoes ==
  ASSUME NEW o \in Ops, Finish(o)
  PROVE  /\ ops'[o].pc = "done" /\ ops'[o].inst = None /\ ops'[o].next = None
         /\ \A p \in Ops \ {o} : ops'[p] = ops[p]
BY DoneFields DEF Finish, Over

(* One operation moves and no instance does.                               *)
LEMMA OneGoes ==
  ASSUME NEW o \in Ops, Goes(o), \A p \in Ops \ {o} : ops'[p] = ops[p],
         UNCHANGED <<record, loaded, restoring, releasing, host, retired, crossed>>,
         unconfirmed \subseteq unconfirmed',
         \A i \in Instances : /\ inst'[i].ref = inst[i].ref
                              /\ inst'[i].failed = inst[i].failed
                              /\ NativeGoes(i)
  PROVE  Quiet
<1>1. \A p \in Ops \ {o} : Goes(p)
  BY DEF Goes, Same
<1> QED
  BY <1>1 DEF Quiet

LEMMA ArrivalQuiet ==
  ASSUME OrderInv, HoldersInv, NEW o \in Ops, Request(o) \/ Enter(o)
  PROVE  Quiet
<1> USE DEF OrderInv, HoldersInv
<1>1. /\ UNCHANGED <<record, inst, loaded, restoring, releasing, host, retired,
                     crossed, unconfirmed>>
      /\ ops[o].pc \in {"new", "waiting"}
  BY DEF Request, Enter, releases, settings, histories, At
<1>2. ops'[o].pc \in {"waiting", "entered", "done"}
      /\ \A p \in Ops \ {o} : ops'[p] = ops[p]
  <2>1. CASE Request(o)
    BY <2>1, GoesOn DEF Request, Phases
  <2>2. CASE Enter(o)
    BY <2>2, GoesOn, FinishDoes DEF Enter, Phases
  <2> QED  BY <2>1, <2>2
<1>3. Goes(o)
  BY <1>1, <1>2 DEF Goes, Before
<1> QED
  BY <1>1, <1>2, <1>3, OneGoes DEF NativeGoes, Native

LEMMA LocateQuiet ==
  ASSUME OrderInv, HoldersInv, NEW o \in Ops, Locate(o)
  PROVE  Quiet
<1> USE DEF OrderInv, HoldersInv
<1>1. /\ UNCHANGED <<record, inst, loaded, restoring, releasing, host, retired,
                     crossed, unconfirmed>>
      /\ ops[o].pc = "entered" /\ loaded \in Instances \cup {None}
  BY DEF Locate, releases, settings, histories, At, TypeOK
<1>2. Goes(o) /\ \A p \in Ops \ {o} : ops'[p] = ops[p]
  <2>1. CASE loaded = None
    <3>1. ops'[o].pc = "finding" /\ \A p \in Ops \ {o} : ops'[p] = ops[p]
      BY <2>1, GoesOn DEF Locate, Phases
    <3> QED  BY <1>1, <2>1, <3>1 DEF Goes, Before
  <2>2. CASE loaded # None /\ inst[loaded].failed
    <3>1. ops'[o].pc = "done" /\ \A p \in Ops \ {o} : ops'[p] = ops[p]
      BY <2>2, FinishDoes DEF Locate
    <3> QED  BY <1>1, <3>1 DEF Goes, Before
  <2>3. CASE loaded # None /\ ~inst[loaded].failed
    <3>1. /\ ops'[o].pc = "using" /\ ops'[o].inst = loaded
          /\ \A p \in Ops \ {o} : ops'[p] = ops[p]
      BY <1>1, <2>3, HoldsOne DEF Locate, Phases
    <3> QED  BY <1>1, <2>3, <3>1 DEF Goes
  <2> QED  BY <2>1, <2>2, <2>3
<1> QED
  BY <1>1, <1>2, OneGoes DEF NativeGoes, Native

LEMMA FindQuiet ==
  ASSUME OrderInv, HoldersInv, NEW o \in Ops, Find(o), restoring' = restoring
  PROVE  Quiet
<1> USE DEF OrderInv, HoldersInv
<1>1. /\ UNCHANGED <<record, loaded, releasing, host, retired, crossed, unconfirmed>>
      /\ ops[o].pc = "finding" /\ loaded \in Instances \cup {None}
      /\ restoring \in Instances \cup {None}
  BY DEF Find, releases, settings, histories, At, TypeOK
<1>2. /\ Goes(o) /\ \A p \in Ops \ {o} : ops'[p] = ops[p]
      /\ inst' = inst
  <2>1. CASE record.removed
    <3>1. ops'[o].pc = "done" /\ \A p \in Ops \ {o} : ops'[p] = ops[p]
      BY <2>1, FinishDoes DEF Find
    <3> QED  BY <1>1, <2>1, <3>1 DEF Goes, Before, Find
  <2>2. CASE ~record.removed /\ KindOf[o] = "delete"
    <3>1. Holds(o, None, "using") /\ inst' = inst
      BY <2>2 DEF Find
    <3>2. /\ ops'[o].pc = "using" /\ ops'[o].inst = None
          /\ \A p \in Ops \ {o} : ops'[p] = ops[p]
      BY <3>1, HoldsOne DEF Phases
    <3> QED  BY <1>1, <3>1, <3>2 DEF Goes
  <2>3. CASE ~record.removed /\ KindOf[o] # "delete" /\ restoring # None
    <3>1. Holds(o, restoring, "awaiting") /\ inst' = inst
      BY <2>3 DEF Find
    <3>2. /\ ops'[o].pc = "awaiting" /\ ops'[o].inst = restoring
          /\ \A p \in Ops \ {o} : ops'[p] = ops[p]
      BY <1>1, <3>1, HoldsOne DEF Phases
    <3> QED  BY <1>1, <2>3, <3>1, <3>2 DEF Goes
  <2>4. CASE /\ ~record.removed /\ KindOf[o] # "delete" /\ restoring = None
             /\ loaded # None
    <3>1. Holds(o, loaded, "using") /\ inst' = inst
      BY <2>4 DEF Find
    <3>2. /\ ops'[o].pc = "using" /\ ops'[o].inst = loaded
          /\ \A p \in Ops \ {o} : ops'[p] = ops[p]
      BY <1>1, <3>1, HoldsOne DEF Phases
    <3>3. ~inst[loaded].failed
      BY <1>1, <2>4 DEF LoadedFits, Counted, At
    <3> QED  BY <1>1, <2>4, <3>1, <3>2, <3>3 DEF Goes
  <2>5. CASE /\ ~record.removed /\ KindOf[o] # "delete" /\ restoring = None
             /\ loaded = None
    <3>1. StartRestore(o)
      BY <2>5 DEF Find
    <3>2. restoring' # None
      BY <3>1, FreshExists DEF StartRestore
    <3> QED  BY <2>5, <3>2
  <2> QED  BY <2>1, <2>2, <2>3, <2>4, <2>5
<1> QED
  BY <1>1, <1>2, OneGoes DEF NativeGoes, Native

LEMMA TurnQuiet ==
  ASSUME OrderInv, HoldersInv, NEW o \in Ops,
         Detach(o) \/ StartTurn(o) \/ StartSettles(o) \/ UseEnds(o)
  PROVE  Quiet
<1> USE DEF OrderInv, HoldersInv
<1>1. /\ UNCHANGED <<record, loaded, restoring, releasing, host, retired,
                     crossed, unconfirmed>>
      /\ ops[o].pc \in {"using", "detached", "starting"}
      /\ inst \in [Instances -> Instance]
  BY DEF Detach, StartTurn, StartSettles, UseEnds, releases, settings, histories, At,
     TypeOK
<1>2. Goes(o) /\ \A p \in Ops \ {o} : ops'[p] = ops[p]
  <2>1. CASE Finish(o)
    BY <1>1, <2>1, FinishDoes DEF Goes, Before
  <2>2. CASE Detach(o)
    BY <1>1, <2>2, GoesOn DEF Detach, Phases, Goes, At
  <2>3. CASE StartTurn(o) /\ ~Finish(o)
    <3>1. ops' = [ops EXCEPT ![o].pc = "starting"] /\ ops[o].pc \in {"using", "detached"}
      BY <2>3 DEF StartTurn, At
    <3> QED  BY <3>1, GoesOn DEF Phases, Goes
  <2> QED  BY <2>1, <2>2, <2>3 DEF StartSettles, UseEnds
<1>3. \A i \in Instances : /\ inst'[i].ref = inst[i].ref
                           /\ inst'[i].failed = inst[i].failed
                           /\ inst'[i].native = inst[i].native
  <2> DEFINE i == ops[o].inst
  <2>1. \/ inst' = inst
        \/ inst' = [inst EXCEPT ![i].running = TRUE]
        \/ inst' = [inst EXCEPT ![i].running = FALSE]
    BY DEF Detach, StartTurn, StartSettles, UseEnds
  <2> HIDE DEF i
  <2> QED
    BY <1>1, <2>1 DEF Instance
<1> QED
  BY <1>1, <1>2, <1>3, OneGoes DEF NativeGoes, Native

LEMMA DeleteEndsQuiet ==
  ASSUME OrderInv, HoldersInv, NEW o \in Ops, DeleteEnds(o)
  PROVE  Quiet
<1>1. /\ UNCHANGED <<record, loaded, restoring, releasing, host, retired,
                     crossed, inst>>
      /\ ops[o].pc = "closing" /\ unconfirmed \subseteq unconfirmed'
      /\ Native(ops[o].inst) = "gone" \/ ops[o].inst \in unconfirmed'
      /\ Finish(o)
  BY DEF DeleteEnds, releases, settings, At
<1>2. Goes(o) /\ \A p \in Ops \ {o} : ops'[p] = ops[p]
  BY <1>1, FinishDoes DEF Goes, Native
<1> QED
  BY <1>1, <1>2, OneGoes DEF NativeGoes, Native

LEMMA RollbackFailsQuiet ==
  ASSUME OrderInv, HoldersInv, NEW o \in Ops, RollbackFails(o)
  PROVE  Quiet
<1> USE DEF OrderInv, HoldersInv
<1> DEFINE n == ops[o].next
<1>1. /\ UNCHANGED <<record, loaded, restoring, releasing, host, retired, crossed>>
      /\ ops[o].pc = "prepared" /\ unconfirmed \subseteq unconfirmed'
      /\ \/ inst' = [inst EXCEPT ![n].native = "gone"]
         \/ n \in unconfirmed' /\ inst' = inst
      /\ Finish(o) /\ inst \in [Instances -> Instance]
      /\ n \in Instances
  <2>1. ops[o] \in Operation /\ n # None
    BY DEF RollbackFails, TypeOK, OperationsFit, Fits, Rolling, At
  <2> QED
    BY <2>1 DEF RollbackFails, releases, settings, At, TypeOK, Operation
<1>2. ops'[o].pc = "done" /\ ops'[o].next = None
      /\ \A p \in Ops \ {o} : ops'[p] = ops[p]
  BY <1>1, FinishDoes
<1>3. /\ \A i \in Instances : /\ inst'[i].ref = inst[i].ref
                              /\ inst'[i].failed = inst[i].failed
                              /\ inst'[i].native = inst[i].native \/
                                   (i = n /\ inst'[i].native = "gone")
      /\ inst'[n].native = "gone" \/ n \in unconfirmed'
  <2> HIDE DEF n
  <2> QED
    BY <1>1 DEF Instance
<1>4. Goes(o)
  BY <1>1, <1>2, <1>3 DEF Goes
<1>5. \A i \in Instances : NativeGoes(i)
  BY <1>2, <1>3 DEF NativeGoes, Native
<1> QED
  BY <1>1, <1>2, <1>3, <1>4, <1>5, OneGoes

LEMMA OutputsQuiet ==
  ASSUME OrderInv, HoldersInv, NEW i \in Instances,
         OutputBegins(i) \/ OutputEnds(i) \/ OutputBreaks(i) \/ NativeCloses(i)
  PROVE  Quiet
<1> USE DEF OrderInv, HoldersInv
<1>1. /\ UNCHANGED <<record, loaded, restoring, releasing, host, retired,
                     crossed, unconfirmed>>
      /\ inst \in [Instances -> Instance] /\ inst[i] \in Instance
      /\ ops \in [Ops -> Operation]
  BY DEF OutputBegins, OutputEnds, OutputBreaks, NativeCloses, TurnBegins, TurnEnds,
     OutputOver, releases, settings, histories, TypeOK
<1>2. \A o \in Ops : Goes(o)
  <2>1. CASE ops' = ops
    BY <2>1 DEF Goes, Same
  <2>2. CASE ops' # ops
    <3>1. ops' = [o \in Ops |-> [ops[o] EXCEPT !.valid = @ /\ ops[o].pc # "prepared"]]
      BY <2>2 DEF OutputBegins, OutputEnds, OutputBreaks, NativeCloses, TurnBegins, TurnEnds
    <3> QED
      BY <1>1, <3>1 DEF Goes, Same, Operation
  <2> QED  BY <2>1, <2>2
<1>3. CASE NativeCloses(i)
  <2>1. /\ Native(i) = "closing" /\ i # restoring
        /\ inst' = [inst EXCEPT ![i].native = "gone"]
    BY <1>3 DEF NativeCloses
  <2>2. \A j \in Instances : /\ inst'[j].ref = inst[j].ref
                             /\ inst'[j].failed = inst[j].failed
                             /\ inst'[j].native = inst[j].native \/
                                  (j = i /\ inst'[j].native = "gone")
    BY <1>1, <2>1 DEF Instance
  <2> QED
    BY <1>1, <1>2, <2>1, <2>2 DEF Quiet, NativeGoes, Native
<1>4. CASE ~NativeCloses(i)
  <2>1. \/ inst' = inst
        \/ inst' = [inst EXCEPT ![i].running = TRUE]
        \/ inst' = [inst EXCEPT ![i].running = FALSE]
        \/ inst' = [inst EXCEPT ![i].running = FALSE, ![i].fault = TRUE]
        \/ inst' = [inst EXCEPT ![i].fault = TRUE, ![i].running = FALSE]
    BY <1>4 DEF OutputBegins, OutputEnds, OutputBreaks, TurnBegins, TurnEnds
  <2>2. \A j \in Instances : /\ inst'[j].ref = inst[j].ref
                             /\ inst'[j].failed = inst[j].failed
                             /\ inst'[j].native = inst[j].native
    BY <1>1, <2>1 DEF Instance
  <2> QED
    BY <1>1, <1>2, <2>2 DEF Quiet, NativeGoes, Native
<1> QED
  BY <1>3, <1>4

LEMMA RestoreQuiet ==
  ASSUME OrderInv, HoldersInv, RestoreOpens \/ RestoreAborts
  PROVE  Quiet
<1> USE DEF OrderInv, HoldersInv
<1>1. /\ UNCHANGED <<record, loaded, restoring, releasing, host, retired,
                     crossed, unconfirmed, ops>>
      /\ inst \in [Instances -> Instance]
      /\ restoring \in Instances /\ Alive(restoring)
      /\ \/ inst' = [inst EXCEPT ![restoring].native = "live"]
         \/ inst' = [inst EXCEPT ![restoring].native = "closing"]
  BY DEF RestoreOpens, RestoreAborts, releases, settings, histories, TypeOK, RestoreFits
<1>2. \A j \in Instances :
        /\ inst'[j].ref = inst[j].ref /\ inst'[j].failed = inst[j].failed
        /\ inst'[j].native = inst[j].native \/
             (j = restoring /\ inst'[j].native \in {"opening", "live", "closing"})
  BY <1>1 DEF Instance
<1>3. \A j \in Instances : NativeGoes(j)
  BY <1>1, <1>2 DEF NativeGoes, Native
<1> QED
  BY <1>1, <1>2, <1>3 DEF Quiet, Goes, Same

LEMMA ReleaseQuiet ==
  ASSUME OrderInv, OrderInv', HoldersInv,
         Configure \/ TimePasses \/ Check \/ ReleaseSkipped \/ ReleaseBegins
  PROVE  Quiet
<1> USE DEF OrderInv, HoldersInv
<1>1. /\ UNCHANGED <<record, loaded, restoring, host, retired, crossed, unconfirmed, ops>>
      /\ inst \in [Instances -> Instance] /\ loaded \in Instances \cup {None}
  BY DEF Configure, TimePasses, Check, ReleaseSkipped, ReleaseBegins, releases, settings,
     histories, TypeOK
<1>2. CASE ReleaseBegins
  <2>1. /\ candidate = loaded /\ releasing = None /\ releasing' = loaded
        /\ inst' = [inst EXCEPT ![loaded].native = "closing"]
        /\ ~inst[loaded].failed /\ host \notin {"stopped", "closing", "closed"}
        /\ Counted = {}
    BY <1>2 DEF ReleaseBegins, Eligible, ReleaseTurn, Stopped
  <2>2. loaded # None /\ loaded \in Instances
    <3>1. InQueue(Release)
      BY <1>2 DEF ReleaseBegins, ReleaseTurn, InQueue, TypeOK
    <3> QED  BY <1>1, <2>1, <3>1 DEF QueueFits
  <2>3. Native(loaded) = "live"
    <3>1. loaded \notin retired
      BY <2>1, <2>2 DEF LoadedFits, Counted, At
    <3> QED  BY <2>1, <2>2, <3>1 DEF LoadedFits
  <2>4. Counted' = {}
    BY <1>1, <2>1 DEF Counted
  <2>5. \A j \in Instances :
          /\ inst'[j].ref = inst[j].ref /\ inst'[j].failed = inst[j].failed
          /\ inst'[j].native = inst[j].native \/
               (j = loaded /\ inst'[j].native = "closing")
    BY <1>1, <2>1, <2>2 DEF Instance
  <2>6. \A j \in Instances : NativeGoes(j)
    BY <2>1, <2>2, <2>3, <2>4, <2>5 DEF NativeGoes, Native
  <2> QED
    BY <1>1, <2>1, <2>5, <2>6 DEF Quiet, Goes, Same
<1>3. CASE ~ReleaseBegins
  <2>1. inst' = inst /\ releasing' = releasing
    BY <1>3 DEF Configure, TimePasses, Check, ReleaseSkipped, releases
  <2> QED
    BY <1>1, <2>1 DEF Quiet, Goes, Same, NativeGoes, Native
<1> QED
  BY <1>2, <1>3

LEMMA ShutdownQuiet ==
  ASSUME OrderInv, HoldersInv, InputEnds \/ Stop \/ ShutdownCloses
  PROVE  Quiet
<1> USE DEF OrderInv, HoldersInv
<1>1. /\ UNCHANGED <<record, loaded, restoring, releasing, retired, crossed,
                     unconfirmed, ops>>
      /\ inst \in [Instances -> Instance]
  BY DEF InputEnds, Stop, ShutdownCloses, releases, settings, histories, TypeOK
<1>2. CASE InputEnds \/ Stop
  <2>1. inst' = inst /\ host' \in {"ending", "stopped"} /\ host \in {"open", "ending"}
    BY <1>2 DEF InputEnds, Stop
  <2> QED
    BY <1>1, <2>1 DEF Quiet, Goes, Same, NativeGoes, Native
<1>3. CASE ShutdownCloses
  <2>1. host = "stopped" /\ host' = "closing" /\ Counted' = {}
    BY <1>1, <1>3 DEF ShutdownCloses, Counted
  <2>2. \A j \in Instances :
          /\ inst'[j].ref = inst[j].ref /\ inst'[j].failed = inst[j].failed
          /\ inst'[j].native = inst[j].native \/
               (j = loaded /\ Native(j) = "live" /\ inst'[j].native = "closing")
    BY <1>1, <1>3 DEF ShutdownCloses, CloseLoaded, Instance
  <2>3. \A j \in Instances : NativeGoes(j)
    BY <2>1, <2>2 DEF NativeGoes, Native
  <2> QED
    BY <1>1, <2>1, <2>2, <2>3 DEF Quiet, Goes, Same
<1> QED
  BY <1>2, <1>3

-----------------------------------------------------------------------------
(* The other steps, one by one.                                            *)

(* Nobody has heard of an instance that does not exist yet.                *)
LEMMA FreshUnused ==
  ASSUME OrderInv, HoldersInv, NEW n, Fresh(n)
  PROVE  /\ n \in Instances /\ Native(n) = "none" /\ ~inst[n].failed /\ ~Alive(n)
         /\ n # loaded /\ n # restoring /\ n \notin retired /\ n # record.ref
         /\ \A o \in Ops : ops[o].inst # n /\ ops[o].next # n
         /\ \A i \in Instances : Native(i) # "none" => inst[i].ref # n
<1> USE DEF OrderInv, HoldersInv
<1>1. n \in Instances /\ n # None /\ Native(n) = "none"
  BY FreshExists
<1>2. ~Alive(n)
  BY <1>1 DEF Alive
<1>3. Sound(n)
  BY <1>1 DEF InstancesFit
<1>4. n # loaded /\ n # restoring /\ n # record.ref
  BY <1>1, <1>2 DEF LoadedFits, RestoreFits, RecordFits
<1>5. \A o \in Ops : ops[o].inst # n /\ ops[o].next # n
  BY <1>1 DEF OwnersFit, Owns, NextsFit, Spare
<1>6. \A i \in Instances : Native(i) # "none" => inst[i].ref # n
  BY <1>1 DEF InstancesFit, Sound
<1> QED
  BY <1>1, <1>2, <1>3, <1>4, <1>5, <1>6 DEF Sound

LEMMA StartRestoreHolders ==
  ASSUME OrderInv, OrderInv', HoldersInv, NEW o \in Ops, Find(o), restoring' # restoring
  PROVE  HoldersInv'
<1> USE DEF OrderInv, HoldersInv
<1>1. /\ UNCHANGED <<record, loaded, releasing, host, retired, crossed, unconfirmed>>
      /\ ops[o].pc = "finding" /\ o \in Counted
      /\ ~record.removed /\ restoring = None /\ loaded = None
      /\ StartRestore(o)
  BY DEF Find, releases, settings, histories, At, Counted
<1>2. PICK n \in Instances :
        /\ Fresh(n) /\ n # None
        /\ restoring' = n
        /\ \A i \in Instances \ {n} : inst'[i] = inst[i]
        /\ inst'[n] = [inst[n] EXCEPT !.native = "opening", !.ref = record.ref]
        /\ Holds(o, n, "awaiting")
  BY <1>1, StartRestoreDoes
<1>3. /\ ops'[o].pc = "awaiting" /\ ops'[o].inst = n /\ ops'[o].next = ops[o].next
      /\ \A p \in Ops \ {o} : ops'[p] = ops[p]
  BY <1>2, HoldsOne DEF Phases
<1>4. /\ inst[n] \in Instance /\ record.ref \in Instances
      /\ \A i \in Instances : inst[i].ref \in Instances
      /\ \A p \in Ops : ops[p].inst \in Instances \cup {None}
      /\ \A p \in Ops : ops[p].next \in Instances \cup {None}
      /\ \A p \in Ops : Fits(p)
  BY DEF TypeOK, Operation, OperationsFit, Instance
<1>5. /\ inst'[n].native = "opening" /\ inst'[n].ref = record.ref /\ ~inst'[n].failed
      /\ n # loaded /\ n # restoring /\ n \notin retired /\ n # record.ref
      /\ \A p \in Ops : ops[p].inst # n /\ ops[p].next # n
      /\ \A i \in Instances : Native(i) # "none" => inst[i].ref # n
  BY <1>2, <1>4, FreshUnused DEF Instance
<1>6. releasing = None /\ host # "closed"
  BY <1>1 DEF ClosesAlone
<1>7. ReleaseFits' /\ ClosedFits' /\ RecordFits' /\ LoadedFits' /\ LoadedIsStored'
  BY <1>1, <1>2, <1>4, <1>5, <1>6
  DEF ReleaseFits, ClosedFits, RecordFits, Native, LoadedFits, LoadedIsStored
<1>8. RestoreFits'
  BY <1>1, <1>2, <1>3, <1>5 DEF RestoreFits, Alive, Native, At
<1>9. OwnersFit'
  <2>1. Owns(o)'
    BY <1>1, <1>2, <1>3, <1>4, <1>5 DEF Owns, Native, At, Using, Rolling, Fits, Before
  <2>2. ASSUME NEW p \in Ops, p # o PROVE Owns(p)'
    <3>1. /\ ops'[p] = ops[p] /\ Owns(p) /\ ops[p].inst # n
          /\ ops[p].inst \in Instances \cup {None}
      BY <1>3, <1>4, <1>5, <2>2 DEF OwnersFit
    <3>2. ops[p].inst # None => inst'[ops[p].inst] = inst[ops[p].inst]
      BY <1>2, <3>1
    <3>3. At(p, "closing") => ops[p].inst # None
      BY <1>4 DEF Fits, Before, At
    <3> QED
      BY <1>1, <1>2, <3>1, <3>2, <3>3 DEF Owns, Native, At
  <2> QED  BY <2>1, <2>2 DEF OwnersFit
<1>10. NextsFit'
  BY <1>1, <1>2, <1>3, <1>4, <1>5 DEF NextsFit, Spare, Native, Fits, Rolling
<1>11. InstancesFit'
  <2>1. Sound(n)'
    BY <1>1, <1>2, <1>4, <1>5 DEF Sound, Native, Alive, RecordFits
  <2>2. ASSUME NEW i \in Instances, i # n PROVE Sound(i)'
    <3>1. Sound(i) /\ inst'[i] = inst[i] /\ inst[i].ref \in Instances
      BY <1>2, <1>4, <2>2 DEF InstancesFit
    <3>2. Native(i) # "none" => inst'[inst[i].ref].native # "none"
      BY <1>2, <1>5, <3>1 DEF Sound, Native
    <3> QED
      BY <1>1, <3>1, <3>2 DEF Sound, Native, Alive
  <2> QED  BY <2>1, <2>2 DEF InstancesFit
<1>12. AllKnown'
  BY <1>1, <1>2, <1>3, <1>4, <1>5 DEF AllKnown, Known, Native, Alive, At
<1>13. NotClosedInUse'
  BY <1>1, <1>2, <1>3, <1>4, <1>5 DEF NotClosedInUse, Native, Using
<1>14. OneWriter'
  <2>1. ASSUME NEW j \in Instances, Alive(j), inst[j].ref = record.ref
        PROVE  j \in unconfirmed \cup crossed
    <3>1. Known(j) /\ j # None
      BY <2>1 DEF AllKnown, Instances
    <3>2. ASSUME NEW p \in Ops, ops[p].next = j PROVE FALSE
      <4>1. ops[p].pc \in Rolling /\ KindOf[p] = "rollback"
        BY <1>4, <3>1, <3>2 DEF Fits
      <4> QED
        BY <1>1, <1>4, <4>1 DEF OwnersFit, Owns, Fits, Rolling, Before, At
    <3>3. ASSUME NEW p \in Ops, At(p, "closing") PROVE FALSE
      BY <1>1, <3>3 DEF OwnersFit, Owns
    <3> QED
      BY <1>1, <3>1, <3>2, <3>3 DEF Known
  <2>2. \A j \in Instances \ {n} :
          inst'[j] = inst[j] /\ (Alive(j)' <=> Alive(j))
    BY <1>2 DEF Alive, Native
  <2> SUFFICES ASSUME NEW i \in Instances, NEW j \in Instances, i # j,
                      Alive(i)', Alive(j)', inst'[i].ref = inst'[j].ref
               PROVE  {i, j} \cap (unconfirmed \cup crossed) # {}
    BY <1>1 DEF OneWriter
  <2>3. CASE i = n
    BY <1>5, <2>1, <2>2, <2>3
  <2>4. CASE j = n
    BY <1>5, <2>1, <2>2, <2>4
  <2>5. CASE i # n /\ j # n
    BY <2>2, <2>5 DEF OneWriter
  <2> QED  BY <2>3, <2>4, <2>5
<1> QED
  BY <1>7, <1>8, <1>9, <1>10, <1>11, <1>12, <1>13, <1>14

LEMMA RegistersHolders ==
  ASSUME OrderInv, OrderInv', HoldersInv, RestoreRegisters
  PROVE  HoldersInv'
<1> USE DEF OrderInv, HoldersInv
<1> DEFINE r == restoring
<1>1. /\ UNCHANGED <<record, releasing, host, retired, unconfirmed>>
      /\ r \in Instances /\ r # None /\ loaded = None /\ loaded' = r /\ restoring' = None
      /\ Native(r) = "live" /\ inst \in [Instances -> Instance]
      /\ inst' = [inst EXCEPT ![r].heard = TRUE]
      /\ crossed' = crossed \cup {i \in {r} : record.removed}
      /\ ~inst[r].failed /\ r \notin retired
      /\ ~record.removed => inst[r].ref = record.ref
      /\ \E o \in Ops : At(o, "awaiting")
  BY DEF RestoreRegisters, releases, settings, TypeOK, RestoreFits
<1>2. \A i \in Instances : /\ inst'[i].native = inst[i].native
                           /\ inst'[i].ref = inst[i].ref
                           /\ inst'[i].failed = inst[i].failed
                           /\ inst[i].ref \in Instances
  <2> HIDE DEF r
  <2> QED  BY <1>1 DEF Instance
<1>3. \A i \in Instances : Alive(i)' <=> Alive(i)
  BY <1>2 DEF Alive, Native
<1>4. ASSUME NEW o \in Ops
      PROVE  /\ Owns(o) /\ Fits(o)
             /\ ops[o].inst \in Instances \cup {None} /\ ops[o].next \in Instances \cup {None}
             /\ \/ Same(o) /\ ops[o].pc # "awaiting"
                \/ /\ ops[o].pc = "awaiting" /\ ops[o].inst = r
                   /\ ops'[o].pc = "using" /\ ops'[o].inst = r
                   /\ ops'[o].next = ops[o].next
  <2>1. ops[o] \in Operation /\ Owns(o) /\ Fits(o)
    BY DEF TypeOK, OwnersFit, OperationsFit
  <2>2. CASE o \in Waiters
    <3>1. ops'[o] = [ops[o] EXCEPT !.pc = "using"]
      BY <2>2 DEF RestoreRegisters
    <3>2. At(o, "awaiting") /\ ops[o].inst = r
      BY <2>2 DEF Waiters
    <3> QED  BY <2>1, <3>1, <3>2 DEF Operation, At
  <2>3. CASE o \notin Waiters
    <3>1. ops'[o] = ops[o]
      BY <2>3 DEF RestoreRegisters
    <3>2. ~At(o, "awaiting")
      BY <2>3 DEF Waiters, RestoreFits
    <3> QED  BY <2>1, <3>1, <3>2 DEF Operation, Same, At
  <2> QED  BY <2>2, <2>3
<1>5. releasing = None /\ host \notin {"closing", "closed"}
  <2>1. Counted # {}
    BY <1>1 DEF Counted, At
  <2> QED  BY <2>1 DEF ClosesAlone
<1>6. ReleaseFits' /\ ClosedFits' /\ RecordFits' /\ LoadedFits' /\ LoadedIsStored'
  <2>1. ReleaseFits' /\ ClosedFits'
    BY <1>1, <1>5 DEF ReleaseFits, ClosedFits
  <2>2. RecordFits'
    BY <1>1, <1>2 DEF RecordFits, Native, TypeOK
  <2>3. LoadedFits'
    BY <1>1, <1>2 DEF LoadedFits, Native
  <2>4. LoadedIsStored'
    BY <1>1, <1>2 DEF LoadedIsStored
  <2> QED  BY <2>1, <2>2, <2>3, <2>4
<1>7. RestoreFits'
  BY <1>1, <1>4 DEF RestoreFits, Same, At
<1>8. OwnersFit'
  <2> SUFFICES ASSUME NEW o \in Ops PROVE Owns(o)'
    BY DEF OwnersFit
  <2>1. CASE Same(o) /\ ops[o].pc # "awaiting"
    <3>1. ~(KindOf[o] = "rollback" /\ ops[o].pc \in {"using"} \cup Rolling)
      BY <1>1, <1>4 DEF Owns, Fits, Rolling, Before, At
    <3>2. ops[o].pc = "closing" => ops[o].inst # None
      BY <1>4 DEF Fits, Before, At
    <3> QED
      BY <1>1, <1>2, <1>4, <2>1, <3>1, <3>2 DEF Owns, Same, Native, At
  <2>2. CASE ops[o].pc = "awaiting" /\ ops'[o].pc = "using" /\ ops'[o].inst = r
    BY <1>1, <1>2, <2>2 DEF Owns, Native, At, Rolling
  <2> QED  BY <1>4, <2>1, <2>2
<1>9. NextsFit'
  <2> SUFFICES ASSUME NEW o \in Ops, ops'[o].next # None PROVE Spare(ops[o].next)'
    BY <1>4 DEF NextsFit, Spare, Same, Native
  <2> DEFINE n == ops[o].next
  <2>1. n \in Instances /\ Spare(n) /\ n = ops'[o].next
    BY <1>4 DEF NextsFit, Same
  <2>2. \A p \in Ops : ops'[p].inst # n
    BY <1>4, <2>1 DEF Spare, Same
  <2> QED
    BY <1>1, <1>2, <2>1, <2>2 DEF Spare, Native
<1>10. InstancesFit'
  <2> SUFFICES ASSUME NEW i \in Instances PROVE Sound(i)'
    BY DEF InstancesFit
  <2>1. Sound(i) /\ i # None
    BY DEF InstancesFit, Instances
  <2> QED
    BY <1>1, <1>2, <1>3, <2>1 DEF Sound, Native
<1>11. AllKnown'
  <2>1. \A o \in Ops : /\ ops'[o].next = ops[o].next
                       /\ At(o, "closing") => At(o, "closing")' /\ ops'[o].inst = ops[o].inst
    BY <1>4 DEF Same, At
  <2> QED
    BY <1>1, <1>3, <2>1 DEF AllKnown, Known, Instances
<1>12. NotClosedInUse'
  <2> SUFFICES ASSUME NEW o \in Ops, ops'[o].pc \in Using, ops'[o].inst \notin retired,
                      ops'[o].inst # None
               PROVE  inst'[ops'[o].inst].native = "live"
    BY <1>1 DEF NotClosedInUse, Native
  <2>1. CASE Same(o) /\ ops[o].pc # "awaiting"
    BY <1>2, <1>4, <2>1 DEF NotClosedInUse, Same, Native
  <2>2. CASE ops'[o].inst = r
    BY <1>1, <1>2, <2>2 DEF Native
  <2> QED  BY <1>4, <2>1, <2>2
<1>13. OneWriter'
  BY <1>1, <1>2, <1>3 DEF OneWriter
<1> QED
  BY <1>6, <1>7, <1>8, <1>9, <1>10, <1>11, <1>12, <1>13

LEMMA RestoreFailsHolders ==
  ASSUME OrderInv, OrderInv', HoldersInv, RestoreFails
  PROVE  HoldersInv'
<1> USE DEF OrderInv, HoldersInv
<1> DEFINE r == restoring
<1>1. /\ UNCHANGED <<record, loaded, releasing, host, retired, crossed>>
      /\ r \in Instances /\ r # None /\ loaded = None /\ restoring' = None
      /\ inst \in [Instances -> Instance]
      /\ unconfirmed \subseteq unconfirmed'
      /\ \/ inst' = [inst EXCEPT ![r].native = "gone"]
         \/ r \in unconfirmed' /\ inst' = inst
      /\ Alive(r) /\ ~inst[r].failed /\ Over(Waiters)
      /\ \E o \in Ops : At(o, "awaiting")
  BY DEF RestoreFails, releases, settings, TypeOK, RestoreFits
<1>2. /\ \A i \in Instances : /\ i # r => inst'[i].native = inst[i].native
                              /\ inst'[i].ref = inst[i].ref
                              /\ inst'[i].failed = inst[i].failed
                              /\ inst[i].ref \in Instances
      /\ \/ inst'[r].native = "gone"
         \/ r \in unconfirmed' /\ inst'[r].native = inst[r].native
  <2> HIDE DEF r
  <2> QED  BY <1>1 DEF Instance
<1>3. \A i \in Instances : /\ Alive(i)' => Alive(i) /\ (i # r \/ r \in unconfirmed')
                           /\ inst[i].native # "none" => inst'[i].native # "none"
                           /\ inst'[i].native # "none" => inst[i].native # "none"
  BY <1>1, <1>2 DEF Alive, Native
<1>4. ASSUME NEW o \in Ops
      PROVE  /\ Owns(o) /\ Fits(o)
             /\ ops[o].inst \in Instances \cup {None} /\ ops[o].next \in Instances \cup {None}
             /\ \/ Same(o) /\ ops[o].pc # "awaiting" /\ ops[o].inst # r
                \/ /\ ops[o].pc = "awaiting" /\ ops'[o].pc = "done"
                   /\ ops'[o].inst = None /\ ops'[o].next = None
  <2>1. ops[o] \in Operation /\ Owns(o) /\ Fits(o)
    BY DEF TypeOK, OwnersFit, OperationsFit
  <2>2. CASE o \in Waiters
    <3>1. ops'[o] = Done /\ At(o, "awaiting")
      BY <1>1, <2>2 DEF Over, Waiters
    <3> QED  BY <2>1, <3>1, DoneFields DEF Operation, At
  <2>3. CASE o \notin Waiters
    <3>1. ops'[o] = ops[o]
      BY <1>1, <2>3 DEF Over
    <3>2. ~At(o, "awaiting")
      BY <2>3 DEF Waiters, RestoreFits
    <3>3. ops[o].inst # r
      BY <1>1, <2>1, <3>2 DEF Owns, Fits, Before, Using, Operation, Phases, At
    <3> QED  BY <2>1, <3>1, <3>2, <3>3 DEF Operation, Same, At
  <2> QED  BY <2>2, <2>3
<1>5. releasing = None /\ host \notin {"closing", "closed"}
  <2>1. Counted # {}
    BY <1>1 DEF Counted, At
  <2> QED  BY <2>1 DEF ClosesAlone
<1>6. ReleaseFits' /\ ClosedFits' /\ RecordFits' /\ LoadedFits' /\ LoadedIsStored'
  <2>1. ReleaseFits' /\ ClosedFits' /\ LoadedFits' /\ LoadedIsStored'
    BY <1>1, <1>5 DEF ReleaseFits, ClosedFits, LoadedFits, LoadedIsStored
  <2>2. RecordFits'
    BY <1>1, <1>3 DEF RecordFits, Native, TypeOK
  <2> QED  BY <2>1, <2>2
<1>7. RestoreFits'
  BY <1>1, <1>4 DEF RestoreFits, Same, At
<1>8. OwnersFit'
  <2> SUFFICES ASSUME NEW o \in Ops PROVE Owns(o)'
    BY DEF OwnersFit
  <2>1. CASE Same(o) /\ ops[o].pc # "awaiting" /\ ops[o].inst # r
    <3>1. ops[o].pc = "closing" => ops[o].inst # None
      BY <1>4 DEF Fits, Before, At
    <3>2. ops[o].inst # None => inst'[ops[o].inst].native = inst[ops[o].inst].native
      BY <1>2, <1>4, <2>1
    <3> QED
      BY <1>1, <1>4, <2>1, <3>1, <3>2 DEF Owns, Same, Native, At
  <2>2. CASE ops'[o].pc = "done" /\ ops'[o].inst = None
    BY <1>1, <2>2 DEF Owns, Native, At, Rolling, Using
  <2> QED  BY <1>4, <2>1, <2>2
<1>9. NextsFit'
  <2> SUFFICES ASSUME NEW o \in Ops, ops'[o].next # None PROVE Spare(ops[o].next)'
    BY <1>4 DEF NextsFit, Spare, Same, Native
  <2> DEFINE n == ops[o].next
  <2>1. n \in Instances /\ Spare(n) /\ n = ops'[o].next
    BY <1>4 DEF NextsFit, Same
  <2>2. \A p \in Ops : ops'[p].inst # n
    BY <1>4, <2>1 DEF Spare, Same
  <2> QED
    BY <1>1, <1>2, <2>1, <2>2 DEF Spare, Native
<1>10. InstancesFit'
  <2> SUFFICES ASSUME NEW i \in Instances PROVE Sound(i)'
    BY DEF InstancesFit
  <2>1. Sound(i)
    BY DEF InstancesFit
  <2> QED
    BY <1>1, <1>2, <1>3, <2>1 DEF Sound, Native
<1>11. AllKnown'
  <2>1. \A o \in Ops : /\ ops[o].next # None => ops'[o].next = ops[o].next
                       /\ At(o, "closing") => At(o, "closing")' /\ ops'[o].inst = ops[o].inst
    BY <1>4 DEF Same, At, Fits, Rolling
  <2> SUFFICES ASSUME NEW i \in Instances, Alive(i)' PROVE Known(i)'
    BY DEF AllKnown
  <2>2. Known(i) /\ i # None
    BY <1>3 DEF AllKnown, Instances
  <2> QED
    BY <1>1, <1>3, <2>1, <2>2 DEF Known
<1>12. NotClosedInUse'
  <2> SUFFICES ASSUME NEW o \in Ops, ops'[o].pc \in Using, ops'[o].inst \notin retired,
                      ops'[o].inst # None
               PROVE  inst'[ops'[o].inst].native = "live"
    BY <1>1 DEF NotClosedInUse, Native
  <2>1. Same(o) /\ ops[o].pc # "awaiting" /\ ops[o].inst # r
    BY <1>4
  <2> QED  BY <1>2, <1>4, <2>1 DEF NotClosedInUse, Same, Native
<1>13. OneWriter'
  BY <1>1, <1>2, <1>3 DEF OneWriter
<1> QED
  BY <1>6, <1>7, <1>8, <1>9, <1>10, <1>11, <1>12, <1>13

LEMMA DeleteHolders ==
  ASSUME OrderInv, OrderInv', HoldersInv, NEW o \in Ops, DeleteRecord(o)
  PROVE  HoldersInv'
<1> USE DEF OrderInv, HoldersInv
<1> DEFINE i == ops[o].inst
<1>1. /\ UNCHANGED <<restoring, releasing, host, unconfirmed>>
      /\ ops[o].pc = "using" /\ KindOf[o] = "delete" /\ o \in Counted
      /\ record.ref \in Instances /\ record'.ref = record.ref /\ record'.removed
      /\ loaded' = None /\ loaded \in Instances \cup {None}
      /\ crossed' = crossed \cup ({loaded} \ {i, None})
      /\ i \in Instances \cup {None} /\ inst \in [Instances -> Instance]
  BY DEF DeleteRecord, releases, settings, TypeOK, Operation, At, Counted
<1>2. /\ \A p \in Ops \ {o} : ops'[p] = ops[p]
      /\ ops'[o].next = None
      /\ \/ /\ i = None /\ inst' = inst /\ retired' = retired
            /\ ops'[o].pc = "done" /\ ops'[o].inst = None
         \/ /\ i \in Instances /\ ops'[o].pc = "closing" /\ ops'[o].inst = i
            /\ inst' = [inst EXCEPT ![i].native = IF @ = "gone" THEN @ ELSE "closing"]
            /\ retired' = retired \cup {i}
  <2>0. ops[o].next = None
    BY <1>1 DEF OperationsFit, Fits, Rolling
  <2>1. CASE i = None
    BY <1>1, <2>1, FinishDoes DEF DeleteRecord
  <2>2. CASE i # None
    BY <1>1, <2>0, <2>2, GoesOn DEF DeleteRecord, Phases
  <2> QED  BY <2>1, <2>2
<1>3. \A j \in Instances :
        /\ inst'[j].ref = inst[j].ref /\ inst'[j].failed = inst[j].failed
        /\ inst[j].ref \in Instances
        /\ \/ inst'[j].native = inst[j].native
           \/ j = i /\ inst'[j].native = "closing"
        /\ j = i => /\ inst'[j].native \in {"closing", "gone"}
                    /\ inst'[j].native = "gone" <=> inst[j].native = "gone"
  <2>1. \A j \in Instances : inst[j].ref \in Instances
    BY <1>1 DEF Instance
  <2>2. CASE i = None
    BY <1>2, <2>1, <2>2 DEF Instances
  <2>3. CASE i # None
    <3> DEFINE s == IF inst[i].native = "gone" THEN "gone" ELSE "closing"
    <3>1. inst' = [inst EXCEPT ![i].native = s] /\ i \in Instances
      BY <1>1, <1>2, <2>3
    <3>2. s \in {"none", "opening", "live", "closing", "gone"}
      OBVIOUS
    <3>3. /\ inst'[i].native = s
          /\ inst'[i].ref = inst[i].ref /\ inst'[i].failed = inst[i].failed
          /\ \A j \in Instances \ {i} : inst'[j] = inst[j]
      <4> HIDE DEF s
      <4> QED  BY <1>1, <3>1, <3>2, NativeChanges
    <3> QED  BY <2>1, <3>1, <3>3
  <2> QED  BY <2>2, <2>3
<1>4. i # None => Native(i) # "none" /\ i # restoring
  BY <1>1 DEF OwnersFit, Owns, Using
<1>5. \A j \in Instances : /\ Alive(j)' => Alive(j)
                           /\ inst[j].native = "none" <=> inst'[j].native = "none"
  <2> HIDE DEF i
  <2>1. \A j \in Instances : inst[j] \in Instance
    BY <1>1
  <2> QED  BY <1>3, <1>4, <2>1 DEF Alive, Native, Instance, Instances
<1>6. /\ \A p \in Ops : ops[p].next = None
      /\ \A p \in Ops : ~(KindOf[p] = "rollback" /\ p \in Counted)
      /\ releasing = None /\ host \notin {"closing", "closed"}
  <2>1. ASSUME NEW p \in Ops, KindOf[p] = "rollback", p \in Counted PROVE FALSE
    <3>1. Served(o) /\ Served(p)
      BY <1>1, <2>1 DEF Served, Awaited, Queued, Detached, Counted, At
    <3>2. o = p
      BY <3>1, ServedAlone
    <3> QED  BY <1>1, <2>1, <3>2
  <2>2. ASSUME NEW p \in Ops, ops[p].next # None PROVE FALSE
    BY <2>1, <2>2 DEF OperationsFit, Fits, Rolling, Counted
  <2> QED  BY <1>1, <2>1, <2>2 DEF ClosesAlone
<1>7. \A j \in Instances : inst[j].failed /\ Alive(j) => FALSE
  <2> SUFFICES ASSUME NEW j \in Instances, inst[j].failed, Alive(j) PROVE FALSE
    OBVIOUS
  <2>1. loaded = j /\ j # None
    BY <1>6 DEF InstancesFit, Sound, Instances
  <2> QED  BY <1>1, <2>1 DEF LoadedFits, At
<1>8. ReleaseFits' /\ ClosedFits' /\ RecordFits' /\ LoadedFits' /\ LoadedIsStored'
  BY <1>1, <1>5, <1>6
  DEF ReleaseFits, ClosedFits, RecordFits, LoadedFits, LoadedIsStored, Native
<1>9. RestoreFits'
  <2>1. restoring # None =>
          /\ inst'[restoring].native = inst[restoring].native
          /\ inst'[restoring].failed = inst[restoring].failed
          /\ restoring \notin retired'
    BY <1>2, <1>3, <1>4 DEF RestoreFits, TypeOK
  <2>2. \A p \in Ops : ops'[p].pc = "awaiting" <=> ops[p].pc = "awaiting"
    BY <1>1, <1>2
  <2>3. \A p \in Ops : ops[p].pc = "awaiting" => ops'[p] = ops[p]
    BY <1>1, <1>2
  <2> QED
    BY <1>1, <2>1, <2>2, <2>3 DEF RestoreFits, Alive, Native, At
<1>10. OwnersFit'
  <2>1. Owns(o)'
    BY <1>1, <1>2, <1>3, <1>4 DEF Owns, Native, At, Rolling, Using
  <2>2. ASSUME NEW p \in Ops, p # o PROVE Owns(p)'
    <3>1. /\ ops'[p] = ops[p] /\ Owns(p) /\ Fits(p)
          /\ ops[p].inst \in Instances \cup {None}
      BY <1>2, <2>2 DEF OwnersFit, OperationsFit, TypeOK, Operation
    <3>2. ops[p].inst # None =>
            /\ inst'[ops[p].inst].native # "none"
            /\ Native(ops[p].inst) \in {"closing", "gone"} =>
                 inst'[ops[p].inst].native \in {"closing", "gone"}
      BY <1>3, <1>5, <3>1 DEF Owns, Native
    <3>3. At(p, "closing") => ops[p].inst # None
      BY <3>1 DEF Fits, Before, At
    <3>4. ~(KindOf[p] = "rollback" /\ ops[p].pc \in {"using"} \cup Rolling)
      BY <1>6 DEF Counted, Rolling
    <3>5. ops[p].pc \notin {"committed", "replacing"}
      BY <1>6, <3>1 DEF Fits, Rolling
    <3> QED
      BY <1>1, <3>1, <3>2, <3>3, <3>4, <3>5 DEF Owns, Native, At
  <2> QED  BY <2>1, <2>2 DEF OwnersFit
<1>11. NextsFit'
  BY <1>2, <1>6 DEF NextsFit
<1>12. InstancesFit'
  <2> SUFFICES ASSUME NEW j \in Instances PROVE Sound(j)'
    BY DEF InstancesFit
  <2>1. Sound(j)
    BY DEF InstancesFit
  <2>2. j \in retired' => inst'[j].native # "none"
    BY <1>2, <1>3, <1>5, <2>1 DEF Sound, Native
  <2>3. inst'[j].failed => inst'[j].native \in {"closing", "gone"}
    BY <1>3, <2>1 DEF Sound, Native
  <2>4. ~(inst'[j].failed /\ Alive(j)')
    BY <1>3, <1>5, <1>7
  <2>5. inst'[j].native # "none" => inst'[inst'[j].ref].native # "none"
    BY <1>3, <1>5, <2>1 DEF Sound, Native
  <2> QED
    BY <2>2, <2>3, <2>4, <2>5 DEF Sound, Native
<1>13. AllKnown'
  <2> SUFFICES ASSUME NEW j \in Instances, Alive(j)' PROVE Known(j)'
    BY DEF AllKnown
  <2>1. Known(j) /\ j # None
    BY <1>5 DEF AllKnown, Instances
  <2>2. CASE j = i
    BY <1>2, <2>1, <2>2 DEF Known, At
  <2>3. CASE j # i /\ j = loaded
    BY <1>1, <2>1, <2>3 DEF Known
  <2>4. CASE j # i /\ j # loaded
    <3>1. ASSUME NEW p \in Ops, At(p, "closing"), ops[p].inst = j
          PROVE  At(p, "closing")' /\ ops'[p].inst = j
      BY <1>1, <1>2, <3>1 DEF At
    <3> QED
      BY <1>1, <1>6, <2>1, <2>4, <3>1 DEF Known
  <2> QED  BY <2>2, <2>3, <2>4
<1>14. NotClosedInUse'
  <2> SUFFICES ASSUME NEW p \in Ops, ops'[p].pc \in Using, ops'[p].inst \notin retired',
                      ops'[p].inst # None
               PROVE  inst'[ops'[p].inst].native = "live"
    BY DEF NotClosedInUse, Native
  <2>1. p # o /\ ops'[p] = ops[p] /\ ops[p].inst \in Instances
    BY <1>2 DEF Using, TypeOK, Operation
  <2>2. ops[p].inst # i /\ ops[p].inst \notin retired
    BY <1>2, <2>1
  <2>3. Native(ops[p].inst) = "live"
    BY <2>1, <2>2 DEF NotClosedInUse
  <2> QED
    BY <1>3, <2>1, <2>2, <2>3 DEF Native
<1>15. OneWriter'
  BY <1>1, <1>3, <1>5 DEF OneWriter
<1> QED
  BY <1>8, <1>9, <1>10, <1>11, <1>12, <1>13, <1>14, <1>15

(* A rollback under way has the Thread for itself.                         *)
LEMMA RollbackAlone ==
  ASSUME OrderInv, HoldersInv, NEW o \in Ops, KindOf[o] = "rollback",
         ops[o].pc \in {"using"} \cup Rolling
  PROVE  /\ loaded = ops[o].inst /\ loaded \in Instances /\ loaded # None
         /\ restoring = None /\ releasing = None /\ host \notin {"closing", "closed"}
         /\ \A j \in Instances : ~(inst[j].failed /\ Alive(j))
         /\ ~inst[loaded].failed
         /\ \A p \in Ops : p # o =>
              /\ ops[p].next = None /\ ops[p].pc \notin {"closing"} \cup Rolling
              /\ ~(KindOf[p] = "rollback" /\ ops[p].pc = "using")
         /\ ~At(o, "replacing") => loaded \notin retired /\ Native(loaded) = "live"
<1> USE DEF OrderInv, HoldersInv
<1>1. /\ loaded = ops[o].inst /\ loaded \in Instances \cup {None} /\ Owns(o) /\ Fits(o)
      /\ o \in Counted
  BY DEF OwnersFit, Owns, TypeOK, OperationsFit, Counted, Rolling
<1>2. loaded # None /\ loaded \in Instances
  BY <1>1 DEF Fits, Rolling, Before, At
<1>3. restoring = None /\ releasing = None /\ host \notin {"closing", "closed"}
  BY <1>1, <1>2 DEF RestoreFits, ClosesAlone
<1>4. ~inst[loaded].failed
  BY <1>1, <1>2 DEF LoadedFits, At, Rolling
<1>5. \A j \in Instances : ~(inst[j].failed /\ Alive(j))
  BY <1>3, <1>4 DEF InstancesFit, Sound
<1>6. ASSUME NEW p \in Ops, p # o
      PROVE  /\ ops[p].next = None /\ ops[p].pc \notin {"closing"} \cup Rolling
             /\ ~(KindOf[p] = "rollback" /\ ops[p].pc = "using")
  <2>1. Fits(p)
    BY DEF OperationsFit
  <2>2. Served(o)
    BY DEF Served, Awaited, Queued, Detached, At, Rolling
  <2>3. ~Served(p)
    BY <1>6, <2>2, ServedAlone
  <2>4. ~(KindOf[p] \in {"rollback", "delete"} /\ ops[p].pc \in {"using", "closing"} \cup Rolling)
    BY <2>3 DEF Served, Awaited, Queued, Detached, At, Rolling
  <2> QED
    BY <2>1, <2>4 DEF Fits, At
<1>7. ~At(o, "replacing") => loaded \notin retired /\ Native(loaded) = "live"
  <2> SUFFICES ASSUME ~At(o, "replacing")
               PROVE  loaded \notin retired /\ Native(loaded) = "live"
    OBVIOUS
  <2>1. \A p \in Ops : ~At(p, "replacing")
    BY <1>6 DEF At, Rolling
  <2> QED
    BY <1>2, <1>3, <1>4, <2>1 DEF LoadedFits
<1> QED
  BY <1>1, <1>2, <1>3, <1>4, <1>5, <1>6, <1>7

LEMMA PreparesHolders ==
  ASSUME OrderInv, OrderInv', HoldersInv, NEW o \in Ops, RollbackPrepares(o)
  PROVE  HoldersInv'
<1> USE DEF OrderInv, HoldersInv
<1>1. /\ UNCHANGED <<record, loaded, restoring, releasing, host, retired, crossed,
                     unconfirmed>>
      /\ ops[o].pc = "using" /\ KindOf[o] = "rollback"
      /\ record.ref \in Instances
      /\ \A p \in Ops : ops[p].inst \in Instances \cup {None} /\ Fits(p)
      /\ \A j \in Instances : inst[j] \in Instance /\ inst[j].ref \in Instances
  BY DEF RollbackPrepares, releases, settings, histories, At, TypeOK, Operation,
     OperationsFit, Instance
<1>2. /\ loaded = ops[o].inst /\ loaded \in Instances /\ loaded # None
      /\ restoring = None /\ releasing = None /\ host \notin {"closing", "closed"}
      /\ \A p \in Ops : p # o =>
              /\ ops[p].next = None /\ ops[p].pc \notin {"closing"} \cup Rolling
              /\ ~(KindOf[p] = "rollback" /\ ops[p].pc = "using")
      /\ loaded \notin retired /\ Native(loaded) = "live" /\ ~inst[loaded].failed
  BY <1>1, RollbackAlone DEF At
<1>3. PICK n \in Instances :
        /\ Fresh(n) /\ n # None
        /\ \A i \in Instances \ {n} : inst'[i] = inst[i]
        /\ inst'[n] = [inst[n] EXCEPT !.native = "live", !.ref = n]
        /\ \A p \in Ops \ {o} : ops'[p] = ops[p]
        /\ ops'[o].pc = "prepared" /\ ops'[o].inst = ops[o].inst
        /\ ops'[o].next = n
  BY PreparesDoes
<1>4. /\ inst'[n].native = "live" /\ inst'[n].ref = n /\ ~inst'[n].failed
      /\ n # loaded /\ n # restoring /\ n \notin retired /\ n # record.ref
      /\ \A p \in Ops : ops[p].inst # n /\ ops[p].next # n
      /\ \A i \in Instances : Native(i) # "none" => inst[i].ref # n
      /\ ops[o].next = None
  BY <1>1, <1>3, FreshUnused DEF Instance, Fits, Rolling
<1>5. \A p \in Ops : ops[p].inst # None => inst'[ops[p].inst] = inst[ops[p].inst]
  BY <1>1, <1>3, <1>4
<1>6. ReleaseFits' /\ ClosedFits' /\ RestoreFits'
  BY <1>1, <1>2, <1>3 DEF ReleaseFits, ClosedFits, RestoreFits, At
<1>7. RecordFits' /\ LoadedFits' /\ LoadedIsStored'
  <2>1. inst'[loaded] = inst[loaded] /\ inst'[record.ref] = inst[record.ref]
    BY <1>1, <1>2, <1>3, <1>4
  <2>2. \A p \in Ops : ops[p].pc \notin {"committed", "replacing"}
    BY <1>1, <1>2 DEF Rolling
  <2> QED
    BY <1>1, <1>2, <2>1, <2>2 DEF RecordFits, LoadedFits, LoadedIsStored, Native
<1>8. OwnersFit'
  <2>1. Owns(o)'
    BY <1>1, <1>2, <1>3, <1>4, <1>5 DEF OwnersFit, Owns, Native, At, Using
  <2>2. ASSUME NEW p \in Ops, p # o PROVE Owns(p)'
    <3>1. ops'[p] = ops[p] /\ Owns(p) /\ ops[p].pc # "closing"
      BY <1>2, <1>3, <2>2 DEF OwnersFit
    <3> QED
      BY <1>1, <1>5, <3>1 DEF Owns, Native, At
  <2> QED  BY <2>1, <2>2 DEF OwnersFit
<1>9. NextsFit'
  <2>1. \A p \in Ops : ops'[p].inst # n
    BY <1>3, <1>4
  <2> SUFFICES ASSUME NEW p \in Ops, ops'[p].next # None PROVE Spare(ops[p].next)'
    BY DEF NextsFit
  <2>2. p = o
    BY <1>2, <1>3
  <2> QED
    BY <1>1, <1>3, <1>4, <2>1, <2>2 DEF Spare, Native
<1>10. InstancesFit'
  <2>1. Sound(n)'
    BY <1>1, <1>3, <1>4 DEF Sound, Native
  <2>2. ASSUME NEW i \in Instances, i # n PROVE Sound(i)'
    <3>1. Sound(i) /\ inst'[i] = inst[i] /\ inst[i].ref \in Instances
      BY <1>1, <1>3, <2>2 DEF InstancesFit
    <3>2. Native(i) # "none" => inst'[inst[i].ref].native # "none"
      BY <1>3, <1>4, <3>1 DEF Sound, Native
    <3> QED
      BY <1>1, <3>1, <3>2 DEF Sound, Native, Alive
  <2> QED  BY <2>1, <2>2 DEF InstancesFit
<1>11. AllKnown'
  <2> SUFFICES ASSUME NEW i \in Instances, Alive(i)' PROVE Known(i)'
    BY DEF AllKnown
  <2>1. CASE i = n
    BY <1>3, <2>1 DEF Known
  <2>2. CASE i # n
    <3>1. Known(i) /\ i # None
      BY <1>3, <2>2 DEF AllKnown, Alive, Native, Instances
    <3> QED
      BY <1>1, <1>2, <1>3, <1>4, <3>1 DEF Known, At
  <2> QED  BY <2>1, <2>2
<1>12. NotClosedInUse'
  <2> SUFFICES ASSUME NEW p \in Ops, ops'[p].pc \in Using, ops'[p].inst \notin retired,
                      ops'[p].inst # None
               PROVE  inst'[ops'[p].inst].native = "live"
    BY <1>1 DEF NotClosedInUse, Native
  <2>1. ops[p].pc \in Using /\ ops'[p].inst = ops[p].inst
    BY <1>1, <1>3 DEF Using
  <2> QED
    BY <1>5, <2>1 DEF NotClosedInUse, Native
<1>13. OneWriter'
  <2> SUFFICES ASSUME NEW i \in Instances, NEW j \in Instances, i # j,
                      Alive(i)', Alive(j)', inst'[i].ref = inst'[j].ref
               PROVE  {i, j} \cap (unconfirmed \cup crossed) # {}
    BY <1>1 DEF OneWriter
  <2>1. \A k \in Instances \ {n} :
          inst'[k] = inst[k] /\ (Alive(k)' <=> Alive(k)) /\ (Alive(k) => inst[k].ref # n)
    BY <1>3, <1>4 DEF Alive, Native
  <2>2. i # n /\ j # n
    BY <1>4, <2>1
  <2> QED  BY <2>1, <2>2 DEF OneWriter
<1> QED
  BY <1>6, <1>7, <1>8, <1>9, <1>10, <1>11, <1>12, <1>13

LEMMA CommitsHolders ==
  ASSUME OrderInv, OrderInv', HoldersInv, NEW o \in Ops, RollbackCommits(o)
  PROVE  HoldersInv'
<1> USE DEF OrderInv, HoldersInv
<1>1. /\ UNCHANGED <<inst, loaded, restoring, releasing, host, retired, crossed,
                     unconfirmed>>
      /\ ops[o].pc = "prepared" /\ KindOf[o] = "rollback"
      /\ record' = [record EXCEPT !.ref = ops[o].next] /\ ~record.removed
      /\ ops' = [ops EXCEPT ![o].pc = "committed"]
      /\ record \in [removed : BOOLEAN, ref : Instances]
      /\ \A p \in Ops : ops[p].inst \in Instances \cup {None} /\ Fits(p)
  BY DEF RollbackCommits, releases, settings, histories, At, TypeOK, Operation,
     OperationsFit, Fits, Rolling
<1>2. /\ loaded = ops[o].inst /\ loaded \in Instances /\ loaded # None
      /\ restoring = None /\ releasing = None /\ host \notin {"closing", "closed"}
      /\ \A p \in Ops : p # o =>
              /\ ops[p].next = None /\ ops[p].pc \notin {"closing"} \cup Rolling
              /\ ~(KindOf[p] = "rollback" /\ ops[p].pc = "using")
      /\ loaded \notin retired /\ Native(loaded) = "live" /\ ~inst[loaded].failed
  BY <1>1, RollbackAlone DEF At, Rolling
<1>3. /\ \A p \in Ops \ {o} : ops'[p] = ops[p]
      /\ ops'[o].pc = "committed" /\ ops'[o].inst = ops[o].inst
      /\ ops'[o].next = ops[o].next
  BY <1>1, GoesOn DEF Phases
<1>4. record'.ref = ops[o].next /\ ~record'.removed
  BY <1>1
<1>5. ops[o].next # None /\ Spare(ops[o].next)
  BY <1>1 DEF Fits, Rolling, NextsFit
<1>6. ReleaseFits' /\ ClosedFits' /\ RestoreFits'
  BY <1>1, <1>2, <1>3 DEF ReleaseFits, ClosedFits, RestoreFits, At
<1>7. RecordFits' /\ LoadedFits' /\ LoadedIsStored'
  BY <1>1, <1>2, <1>3, <1>4, <1>5
  DEF RecordFits, LoadedFits, LoadedIsStored, Native, Spare
<1>8. OwnersFit'
  <2>1. Owns(o)'
    BY <1>1, <1>2, <1>3, <1>4, <1>5 DEF OwnersFit, Owns, Native, At, Using
  <2>2. ASSUME NEW p \in Ops, p # o PROVE Owns(p)'
    <3>1. ops'[p] = ops[p] /\ Owns(p) /\ ops[p].pc # "closing"
          /\ ops[p].pc \notin {"committed", "replacing"}
      BY <1>2, <1>3, <2>2 DEF OwnersFit, Rolling
    <3> QED
      BY <1>1, <3>1 DEF Owns, Native, At
  <2> QED  BY <2>1, <2>2 DEF OwnersFit
<1>9. NextsFit'
  <2>1. \A p \in Ops : ops'[p].inst = ops[p].inst /\ ops'[p].next = ops[p].next
    BY <1>3
  <2> QED
    BY <1>1, <2>1 DEF NextsFit, Spare, Native
<1>10. InstancesFit'
  BY <1>1 DEF InstancesFit, Sound, Native, Alive
<1>11. AllKnown'
  BY <1>1, <1>3 DEF AllKnown, Known, Alive, Native, At
<1>12. NotClosedInUse'
  BY <1>1, <1>3 DEF NotClosedInUse, Native, Using
<1>13. OneWriter'
  BY <1>1 DEF OneWriter, Alive, Native
<1> QED
  BY <1>6, <1>7, <1>8, <1>9, <1>10, <1>11, <1>12, <1>13

LEMMA ReplaceHolders ==
  ASSUME OrderInv, OrderInv', HoldersInv, NEW o \in Ops, Replace(o)
  PROVE  HoldersInv'
<1> USE DEF OrderInv, HoldersInv
<1> DEFINE i == ops[o].inst
<1>1. /\ UNCHANGED <<record, loaded, restoring, releasing, host, unconfirmed>>
      /\ ops[o].pc = "committed" /\ KindOf[o] = "rollback" /\ ops[o].next # None
      /\ inst \in [Instances -> Instance] /\ record.ref \in Instances
      /\ \A p \in Ops : ops[p].inst \in Instances \cup {None} /\ Fits(p)
  BY DEF Replace, releases, settings, At, TypeOK, Operation, OperationsFit, Fits, Rolling
<1>2. /\ loaded = i /\ i \in Instances /\ i # None
      /\ restoring = None /\ releasing = None /\ host \notin {"closing", "closed"}
      /\ \A j \in Instances : ~(inst[j].failed /\ Alive(j))
      /\ \A p \in Ops : p # o =>
              /\ ops[p].next = None /\ ops[p].pc \notin {"closing"} \cup Rolling
              /\ ~(KindOf[p] = "rollback" /\ ops[p].pc = "using")
      /\ i \notin retired /\ Native(i) = "live" /\ ~inst[i].failed
  BY <1>1, RollbackAlone DEF At, Rolling
<1>3. Spare(ops[o].next) /\ Owns(o)
  BY <1>1 DEF NextsFit, OwnersFit
<1>4. /\ \A p \in Ops \ {o} : ops'[p] = ops[p]
      /\ \/ /\ ops'[o].pc = "done" /\ ops'[o].inst = None /\ ops'[o].next = None
            /\ crossed' = crossed \cup {i, ops[o].next} /\ inst' = inst
            /\ retired' = retired
         \/ /\ ops'[o].pc = "replacing" /\ ops'[o].inst = i
            /\ ops'[o].next = ops[o].next
            /\ inst' = [inst EXCEPT ![i].native = "closing"]
            /\ retired' = retired \cup {i} /\ crossed' = crossed
  <2>1. CASE inst[i].running \/ loaded # i
    BY <2>1, FinishDoes DEF Replace
  <2>2. CASE ~(inst[i].running \/ loaded # i)
    BY <2>2, GoesOn DEF Replace, Phases
  <2> QED  BY <2>1, <2>2
<1>5. CASE ops'[o].pc = "done"
  <2>1. /\ ops'[o].pc = "done" /\ ops'[o].inst = None /\ ops'[o].next = None
        /\ crossed' = crossed \cup {i, ops[o].next} /\ inst' = inst
        /\ retired' = retired
    BY <1>4, <1>5
  <2>2. ReleaseFits' /\ ClosedFits' /\ RestoreFits' /\ RecordFits'
    BY <1>1, <1>2, <1>4, <2>1
    DEF ReleaseFits, ClosedFits, RestoreFits, RecordFits, Native, At
  <2>3. LoadedFits' /\ LoadedIsStored'
    BY <1>1, <1>2, <2>1 DEF LoadedFits, LoadedIsStored, Native
  <2>4. OwnersFit'
    <3>1. Owns(o)'
      BY <1>1, <2>1 DEF Owns, Native, At, Using, Rolling
    <3>2. ASSUME NEW p \in Ops, p # o PROVE Owns(p)'
      BY <1>1, <1>4, <2>1, <3>2 DEF OwnersFit, Owns, Native, At
    <3> QED  BY <3>1, <3>2 DEF OwnersFit
  <2>5. NextsFit'
    BY <1>2, <1>4, <2>1 DEF NextsFit
  <2>6. InstancesFit'
    BY <1>1, <2>1 DEF InstancesFit, Sound, Native, Alive
  <2>7. AllKnown'
    <3> SUFFICES ASSUME NEW j \in Instances, Alive(j) PROVE Known(j)'
      BY <2>1 DEF AllKnown, Alive, Native
    <3>1. Known(j) /\ j # None
      BY DEF AllKnown, Instances
    <3> QED
      BY <1>1, <1>2, <1>4, <2>1, <3>1 DEF Known, At
  <2>8. NotClosedInUse'
    BY <1>4, <2>1 DEF NotClosedInUse, Native, Using
  <2>9. OneWriter'
    BY <1>1, <2>1 DEF OneWriter, Alive, Native
  <2> QED
    BY <2>2, <2>3, <2>4, <2>5, <2>6, <2>7, <2>8, <2>9
<1>6. CASE ops'[o].pc # "done"
  <2>1. /\ ops'[o].pc = "replacing" /\ ops'[o].inst = i
        /\ ops'[o].next = ops[o].next
        /\ inst' = [inst EXCEPT ![i].native = "closing"]
        /\ retired' = retired \cup {i} /\ crossed' = crossed
    BY <1>4, <1>6
  <2>2. /\ \A j \in Instances : /\ inst'[j].ref = inst[j].ref
                                /\ inst'[j].failed = inst[j].failed
                                /\ inst[j].ref \in Instances
                                /\ j # i => inst'[j].native = inst[j].native
        /\ inst'[i].native = "closing"
    <3> HIDE DEF i
    <3> QED  BY <1>1, <1>2, <2>1 DEF Instance
  <2>3. \A j \in Instances : /\ Alive(j)' <=> Alive(j)
                             /\ inst'[j].native = "none" <=> inst[j].native = "none"
    BY <1>2, <2>2 DEF Alive, Native
  <2>4. \A p \in Ops : ops'[p].inst = ops[p].inst /\ ops'[p].next = ops[p].next
    BY <1>4, <2>1
  <2>5. ReleaseFits' /\ ClosedFits' /\ RestoreFits' /\ RecordFits'
    BY <1>1, <1>2, <1>4, <2>1, <2>3
    DEF ReleaseFits, ClosedFits, RestoreFits, RecordFits, Native, At
  <2>6. LoadedFits' /\ LoadedIsStored'
    BY <1>1, <1>2, <2>1, <2>2 DEF LoadedFits, LoadedIsStored, Native, At
  <2>7. OwnersFit'
    <3>1. Owns(o)'
      BY <1>1, <1>2, <1>3, <2>1, <2>2 DEF Owns, Native, At, Using, Rolling
    <3>2. ASSUME NEW p \in Ops, p # o PROVE Owns(p)'
      <4>1. ops'[p] = ops[p] /\ Owns(p) /\ ops[p].pc # "closing"
            /\ ops[p].inst \in Instances \cup {None}
        BY <1>1, <1>2, <1>4, <3>2 DEF OwnersFit
      <4> QED
        BY <1>1, <2>3, <4>1 DEF Owns, Native, At
    <3> QED  BY <3>1, <3>2 DEF OwnersFit
  <2>8. NextsFit'
    <3> SUFFICES ASSUME NEW p \in Ops, ops'[p].next # None PROVE Spare(ops[p].next)'
      BY DEF NextsFit
    <3> DEFINE n == ops[p].next
    <3>1. n \in Instances /\ Spare(n) /\ n = ops'[p].next
      BY <2>4 DEF NextsFit, TypeOK, Operation
    <3>2. \A q \in Ops : ops'[q].inst # n
      BY <2>4, <3>1 DEF Spare
    <3>3. n # i
      BY <1>2, <3>1 DEF Spare
    <3> QED
      BY <1>1, <2>1, <2>2, <3>1, <3>2, <3>3 DEF Spare, Native
  <2>9. InstancesFit'
    <3> SUFFICES ASSUME NEW j \in Instances PROVE Sound(j)'
      BY DEF InstancesFit
    <3>1. Sound(j)
      BY DEF InstancesFit
    <3> QED
      BY <1>1, <1>2, <2>1, <2>2, <2>3, <3>1 DEF Sound, Native
  <2>10. AllKnown'
    <3>1. \A p \in Ops : At(p, "closing") => At(p, "closing")'
      BY <1>1, <1>4 DEF At
    <3> QED
      BY <1>1, <2>1, <2>3, <2>4, <3>1 DEF AllKnown, Known
  <2>11. NotClosedInUse'
    <3> SUFFICES ASSUME NEW p \in Ops, ops'[p].pc \in Using, ops'[p].inst \notin retired',
                        ops'[p].inst # None
                 PROVE  inst'[ops'[p].inst].native = "live"
      BY DEF NotClosedInUse, Native
    <3>1. p # o /\ ops'[p] = ops[p] /\ ops[p].inst # i /\ ops[p].inst \in Instances
          /\ ops[p].inst \notin retired
      BY <1>1, <1>4, <2>1 DEF Using
    <3> QED
      BY <2>2, <3>1 DEF NotClosedInUse, Native
  <2>12. OneWriter'
    BY <1>1, <2>1, <2>2, <2>3 DEF OneWriter
  <2> QED
    BY <2>5, <2>6, <2>7, <2>8, <2>9, <2>10, <2>11, <2>12
<1> QED
  BY <1>5, <1>6

LEMMA ReplacedHolders ==
  ASSUME OrderInv, OrderInv', HoldersInv, NEW o \in Ops, Replaced(o)
  PROVE  HoldersInv'
<1> USE DEF OrderInv, HoldersInv
<1> DEFINE i == ops[o].inst
           n == ops[o].next
<1>1. /\ UNCHANGED <<record, restoring, releasing, host, retired, crossed>>
      /\ ops[o].pc = "replacing" /\ KindOf[o] = "rollback"
      /\ n \in Instances /\ n # None /\ loaded' = n
      /\ inst' = [inst EXCEPT ![n].heard = TRUE]
      /\ inst \in [Instances -> Instance] /\ record.ref \in Instances
      /\ unconfirmed \subseteq unconfirmed'
      /\ Native(i) = "gone" \/ i \in unconfirmed'
      /\ \A p \in Ops : ops[p].inst \in Instances \cup {None} /\ Fits(p)
  BY DEF Replaced, releases, settings, At, TypeOK, Operation, OperationsFit, Fits, Rolling
<1>2. /\ loaded = i /\ i \in Instances /\ i # None
      /\ restoring = None /\ releasing = None /\ host \notin {"closing", "closed"}
      /\ \A j \in Instances : ~(inst[j].failed /\ Alive(j))
      /\ \A p \in Ops : p # o =>
              /\ ops[p].next = None /\ ops[p].pc \notin {"closing"} \cup Rolling
              /\ ~(KindOf[p] = "rollback" /\ ops[p].pc = "using")
  BY <1>1, RollbackAlone DEF Rolling
<1>3. Spare(n) /\ ~record.removed /\ record.ref = n
  BY <1>1 DEF NextsFit, OwnersFit, Owns
<1>4. /\ \A p \in Ops \ {o} : ops'[p] = ops[p]
      /\ ops'[o].pc = "done" /\ ops'[o].inst = None /\ ops'[o].next = None
  BY FinishDoes DEF Replaced
<1>5. \A j \in Instances : /\ inst'[j].ref = inst[j].ref
                           /\ inst'[j].failed = inst[j].failed
                           /\ inst'[j].native = inst[j].native
                           /\ inst[j].ref \in Instances
  <2> HIDE DEF n
  <2> QED  BY <1>1 DEF Instance
<1>6. \A j \in Instances : Alive(j)' <=> Alive(j)
  BY <1>5 DEF Alive, Native
<1>7. ReleaseFits' /\ ClosedFits' /\ RestoreFits' /\ RecordFits'
  BY <1>1, <1>2, <1>4, <1>5
  DEF ReleaseFits, ClosedFits, RestoreFits, RecordFits, Native, At
<1>8. LoadedFits' /\ LoadedIsStored'
  BY <1>1, <1>3, <1>5 DEF LoadedFits, LoadedIsStored, Native, Spare
<1>9. OwnersFit'
  <2>1. Owns(o)'
    BY <1>1, <1>4 DEF Owns, Native, At, Using, Rolling
  <2>2. ASSUME NEW p \in Ops, p # o PROVE Owns(p)'
    <3>1. ops'[p] = ops[p] /\ Owns(p) /\ ops[p].pc \notin {"closing"} \cup Rolling
          /\ ~(KindOf[p] = "rollback" /\ ops[p].pc = "using")
          /\ ops[p].inst \in Instances \cup {None}
      BY <1>1, <1>2, <1>4, <2>2 DEF OwnersFit
    <3> QED
      BY <1>1, <1>5, <3>1 DEF Owns, Native, At, Rolling
  <2> QED  BY <2>1, <2>2 DEF OwnersFit
<1>10. NextsFit'
  BY <1>2, <1>4 DEF NextsFit
<1>11. InstancesFit'
  <2> SUFFICES ASSUME NEW j \in Instances PROVE Sound(j)'
    BY DEF InstancesFit
  <2>1. Sound(j)
    BY DEF InstancesFit
  <2> QED
    BY <1>1, <1>2, <1>5, <1>6, <2>1 DEF Sound, Native
<1>12. AllKnown'
  <2> SUFFICES ASSUME NEW j \in Instances, Alive(j) PROVE Known(j)'
    BY <1>6 DEF AllKnown
  <2>1. Known(j) /\ j # None
    BY DEF AllKnown, Instances
  <2>2. CASE j = i
    BY <1>1, <2>2 DEF Known, Alive
  <2>3. CASE j # i
    BY <1>1, <1>2, <1>4, <2>1, <2>3 DEF Known, At
  <2> QED  BY <2>2, <2>3
<1>13. NotClosedInUse'
  <2> SUFFICES ASSUME NEW p \in Ops, ops'[p].pc \in Using, ops'[p].inst \notin retired,
                      ops'[p].inst # None
               PROVE  inst'[ops'[p].inst].native = "live"
    BY <1>1 DEF NotClosedInUse, Native
  <2>1. ops'[p] = ops[p] /\ ops[p].inst \in Instances
    BY <1>1, <1>4 DEF Using
  <2> QED
    BY <1>5, <2>1 DEF NotClosedInUse, Native
<1>14. OneWriter'
  BY <1>1, <1>5, <1>6 DEF OneWriter
<1> QED
  BY <1>7, <1>8, <1>9, <1>10, <1>11, <1>12, <1>13, <1>14

LEMMA ReleaseEndsHolders ==
  ASSUME OrderInv, OrderInv', HoldersInv, ReleaseSettles \/ ReleaseFails
  PROVE  HoldersInv'
<1> USE DEF OrderInv, HoldersInv
<1> DEFINE r == loaded
<1>1. /\ UNCHANGED <<record, restoring, host, ops, retired, unconfirmed, crossed>>
      /\ releasing = r /\ r # None /\ r \in Instances /\ releasing' = None
      /\ Counted = {} /\ ~inst[r].failed
      /\ restoring = None
      /\ inst \in [Instances -> Instance] /\ record.ref \in Instances
  BY DEF ReleaseSettles, ReleaseFails, ReleaseOver, ReleaseFits, ClosesAlone, RestoreFits,
     settings, histories, TypeOK
<1>2. \/ /\ inst' = [inst EXCEPT ![r].failed = TRUE] /\ loaded' = r
         /\ Native(r) \in {"closing", "gone"}
      \/ inst' = inst /\ loaded' = None /\ Native(r) = "gone"
  BY <1>1 DEF ReleaseSettles, ReleaseFails
<1>3. \A j \in Instances : /\ inst'[j].ref = inst[j].ref
                           /\ inst'[j].native = inst[j].native
                           /\ inst[j].ref \in Instances
                           /\ j # r => inst'[j].failed = inst[j].failed
  <2> HIDE DEF r
  <2> QED  BY <1>1, <1>2 DEF Instance
<1>4. \A j \in Instances : Alive(j)' <=> Alive(j)
  BY <1>3 DEF Alive, Native
<1>5. \A o \in Ops : /\ ops[o].pc \in {"new", "waiting", "done"}
                     /\ ops[o].inst = None /\ ops[o].next = None
  BY <1>1 DEF Counted, OperationsFit, Fits, Before, Rolling
<1>6. ReleaseFits' /\ ClosedFits' /\ RestoreFits' /\ RecordFits' /\ NextsFit'
      /\ OwnersFit' /\ NotClosedInUse'
  <2>1. ReleaseFits' /\ ClosedFits' /\ RestoreFits' /\ NextsFit'
    BY <1>1, <1>2, <1>5 DEF ReleaseFits, ClosedFits, RestoreFits, NextsFit, At
  <2>2. RecordFits'
    BY <1>1, <1>3 DEF RecordFits, Native
  <2>3. OwnersFit'
    BY <1>1, <1>5 DEF OwnersFit, Owns, Using, Rolling, At
  <2>4. NotClosedInUse'
    BY <1>1, <1>5 DEF NotClosedInUse, Using
  <2> QED  BY <2>1, <2>2, <2>3, <2>4
<1>7. LoadedFits'
  <2>1. CASE inst' = inst /\ loaded' = None
    BY <2>1 DEF LoadedFits
  <2>2. CASE /\ inst' = [inst EXCEPT ![r].failed = TRUE] /\ loaded' = r
             /\ Native(r) \in {"closing", "gone"}
    <3>1. inst'[r].failed /\ inst'[r].native \in {"closing", "gone"}
      <4> HIDE DEF r
      <4> QED  BY <1>1, <2>2 DEF Instance, Native
    <3>2. r \notin retired
      BY <1>1, <1>5 DEF LoadedFits, At
    <3> QED
      BY <1>1, <1>5, <2>2, <3>1, <3>2 DEF LoadedFits, Native, Counted
  <2> QED  BY <1>2, <2>1, <2>2
<1>8. LoadedIsStored'
  BY <1>1, <1>2, <1>3 DEF LoadedIsStored
<1>9. InstancesFit'
  <2> SUFFICES ASSUME NEW j \in Instances PROVE Sound(j)'
    BY DEF InstancesFit
  <2>1. Sound(j)
    BY DEF InstancesFit
  <2>2. CASE j = r
    BY <1>1, <1>2, <1>3, <1>4, <2>1, <2>2 DEF Sound, Native, Alive
  <2>3. CASE j # r
    BY <1>1, <1>2, <1>3, <1>4, <2>1, <2>3 DEF Sound, Native
  <2> QED  BY <2>2, <2>3
<1>10. AllKnown'
  <2> SUFFICES ASSUME NEW j \in Instances, Alive(j) PROVE Known(j)'
    BY <1>4 DEF AllKnown
  <2>1. Known(j) /\ j # None
    BY DEF AllKnown, Instances
  <2> QED
    BY <1>1, <1>2, <1>5, <2>1 DEF Known, At, Alive
<1>11. OneWriter'
  BY <1>1, <1>3, <1>4 DEF OneWriter
<1> QED
  BY <1>6, <1>7, <1>8, <1>9, <1>10, <1>11

LEMMA ShutdownEndsHolders ==
  ASSUME OrderInv, OrderInv', HoldersInv, ShutdownEnds
  PROVE  HoldersInv'
<1> USE DEF OrderInv, HoldersInv
<1>1. /\ UNCHANGED <<record, inst, restoring, releasing, ops, retired, crossed>>
      /\ host' = "closed" /\ loaded' = None /\ Counted = {}
      /\ unconfirmed \subseteq unconfirmed'
      /\ \A i \in Instances : i = loaded /\ Alive(i) => i \in unconfirmed'
      /\ record.ref \in Instances
  BY DEF ShutdownEnds, ClosesAlone, releases, TypeOK
<1>2. \A o \in Ops : /\ ops[o].pc \in {"new", "waiting", "done"}
                     /\ ops[o].inst = None /\ ops[o].next = None
  BY <1>1 DEF Counted, OperationsFit, Fits, Before, Rolling
<1>3. restoring = None
  BY <1>2 DEF RestoreFits, At
<1>4. releasing = None
  <2>1. host = "closing"
    BY DEF ShutdownEnds
  <2>2. queue = <<>>
    BY <2>1 DEF QueueFits, Stopped
  <2> QED  BY <2>2 DEF ClosesAlone, Running
<1>5. ReleaseFits' /\ ClosedFits' /\ RestoreFits' /\ RecordFits' /\ NextsFit'
  BY <1>1, <1>2, <1>3, <1>4
  DEF ReleaseFits, ClosedFits, RestoreFits, RecordFits, NextsFit, At, Native
<1>6. OwnersFit' /\ NotClosedInUse'
  BY <1>1, <1>2 DEF OwnersFit, Owns, Using, Rolling, At, NotClosedInUse
<1>7. LoadedFits' /\ LoadedIsStored'
  BY <1>1 DEF LoadedFits, LoadedIsStored
<1>8. InstancesFit'
  BY <1>1 DEF InstancesFit, Sound, Native, Alive
<1>9. AllKnown'
  <2> SUFFICES ASSUME NEW j \in Instances, Alive(j) PROVE Known(j)'
    BY <1>1 DEF AllKnown, Alive, Native
  <2>1. Known(j) /\ j # None
    BY DEF AllKnown, Instances
  <2> QED
    BY <1>1, <1>2, <1>3, <2>1 DEF Known, At
<1>10. OneWriter'
  BY <1>1 DEF OneWriter, Alive, Native
<1> QED
  BY <1>5, <1>6, <1>7, <1>8, <1>9, <1>10

LEMMA InitHolders == Init => HoldersInv
<1> SUFFICES ASSUME Init PROVE HoldersInv
  OBVIOUS
<1>1. /\ \A o \in Ops : ops[o].pc = "new" /\ ops[o].inst = None /\ ops[o].next = None
      /\ restoring = None /\ releasing = None /\ host = "open" /\ retired = {}
      /\ loaded \in {None, 1} /\ 1 \in Instances /\ record.ref = 1 /\ ~record.removed
  BY DEF Init, Idle, Instances
<1>2. /\ \A i \in Instances : /\ ~inst[i].failed /\ inst[i].ref = 1
                              /\ i # 1 => inst[i].native = "none"
      /\ loaded = 1 => inst[1].native = "live"
      /\ loaded = None => inst[1].native = "gone"
  BY <1>1 DEF Init
<1>3. ReleaseFits /\ ClosedFits /\ RestoreFits /\ NextsFit
  BY <1>1 DEF ReleaseFits, ClosedFits, RestoreFits, NextsFit, At
<1>4. OwnersFit /\ NotClosedInUse
  BY <1>1 DEF OwnersFit, Owns, Using, Rolling, At, NotClosedInUse
<1>5. LoadedFits /\ LoadedIsStored /\ RecordFits
  BY <1>1, <1>2 DEF LoadedFits, LoadedIsStored, RecordFits, Native
<1>6. InstancesFit
  BY <1>1, <1>2 DEF InstancesFit, Sound, Native, Alive
<1>7. AllKnown
  BY <1>1, <1>2 DEF AllKnown, Known, Alive, Native
<1>8. OneWriter
  BY <1>1, <1>2 DEF OneWriter, Alive, Native
<1> QED
  BY <1>3, <1>4, <1>5, <1>6, <1>7, <1>8 DEF HoldersInv

(* Every step is quiet or one of the eleven others.                        *)
LEMMA StepsAre ==
  ASSUME OrderInv, OrderInv', HoldersInv, [Next]_vars
  PROVE  \/ Quiet
         \/ \E o \in Ops :
              \/ Find(o) /\ restoring' # restoring
              \/ DeleteRecord(o) \/ RollbackPrepares(o) \/ RollbackCommits(o)
              \/ Replace(o) \/ Replaced(o)
         \/ RestoreRegisters \/ RestoreFails
         \/ ReleaseSettles \/ ReleaseFails \/ ShutdownEnds
<1>1. CASE UNCHANGED vars
  <2>1. Quiet
    BY <1>1 DEF vars, Quiet, Goes, Same, NativeGoes, Native
  <2> QED  BY <2>1
<1>2. CASE \E o \in Ops : Request(o) \/ OperationStep(o) \/ UseEnds(o) \/ RollbackPrepares(o)
  BY <1>2, ArrivalQuiet, LocateQuiet, FindQuiet, TurnQuiet, DeleteEndsQuiet,
     RollbackFailsQuiet DEF OperationStep
<1>3. CASE \E i \in Instances :
             OutputBegins(i) \/ OutputEnds(i) \/ OutputBreaks(i) \/ NativeCloses(i)
  BY <1>3, OutputsQuiet
<1>4. CASE \/ RestoreStep \/ Configure \/ TimePasses \/ Check \/ ReleaseStep
           \/ InputEnds \/ Stop \/ ShutdownCloses \/ ShutdownEnds
  BY <1>4, RestoreQuiet, ReleaseQuiet, ShutdownQuiet DEF RestoreStep, ReleaseStep
<1> QED
  BY <1>1, <1>2, <1>3, <1>4 DEF Next

LEMMA NextHolders == OrderInv /\ HoldersInv /\ [Next]_vars => HoldersInv'
<1> SUFFICES ASSUME OrderInv, HoldersInv, [Next]_vars PROVE HoldersInv'
  OBVIOUS
<1>1. OrderInv'
  BY NextOrder
<1> QED
  BY <1>1, StepsAre, QuietHolders, StartRestoreHolders, DeleteHolders,
     PreparesHolders, CommitsHolders, ReplaceHolders, ReplacedHolders,
     RegistersHolders, RestoreFailsHolders, ReleaseEndsHolders, ShutdownEndsHolders

THEOREM HoldersAreRight == Spec => [](OrderInv /\ HoldersInv)
<1>1. Init => OrderInv /\ HoldersInv
  BY InitOrder, InitHolders
<1>2. OrderInv /\ HoldersInv /\ [Next]_vars => OrderInv' /\ HoldersInv'
  BY NextOrder, NextHolders
<1> QED
  BY <1>1, <1>2, PTL DEF Spec

(* Neither an idle release nor the shutdown closes a session under the     *)
(* hands of an operation; only a delete or a rollback of the Thread does.  *)
THEOREM SessionsStayInUse == Spec => []NotClosedInUse
BY HoldersAreRight, PTL DEF HoldersInv

(* At most one open session writes a native history, but for those whose   *)
(* failed close was swallowed or that were lost where operations crossed.  *)
THEOREM NeverTwoWriters == Spec => []OneWriter
BY HoldersAreRight, PTL DEF HoldersInv

(* What requests get is the session that the store names.                  *)
THEOREM LoadedMatchesStore == Spec => []LoadedIsStored
BY HoldersAreRight, PTL DEF HoldersInv

(* The Host knows every session that is open.                              *)
THEOREM EverySessionKnown == Spec => []NothingOrphaned
<1>1. OrderInv /\ HoldersInv => NothingOrphaned
  <2> SUFFICES ASSUME OrderInv, HoldersInv, NEW i \in Instances,
                      Native(i) \in {"opening", "live"}
               PROVE  \/ i \in {loaded, restoring} \cup unconfirmed \cup crossed
                      \/ \E o \in Ops : ops[o].next = i
    BY DEF NothingOrphaned
  <2>1. Known(i)
    BY DEF HoldersInv, AllKnown, Alive
  <2>2. \A o \in Ops : At(o, "closing") => Native(ops[o].inst) \in {"closing", "gone"}
    BY DEF HoldersInv, OwnersFit, Owns
  <2> QED
    BY <2>1, <2>2 DEF Known
<1> QED
  BY <1>1, HoldersAreRight, PTL

(* When the Host has shut down it has left no session open, but for those  *)
(* that failed to close.                                                   *)
THEOREM NothingOutlivesHost == Spec => []ShutdownIsComplete
<1>1. OrderInv /\ HoldersInv => ShutdownIsComplete
  <2> SUFFICES ASSUME OrderInv, HoldersInv, host = "closed",
                      NEW i \in Instances, Alive(i)
               PROVE  i \in unconfirmed \cup crossed
    BY DEF ShutdownIsComplete
  <2>1. Known(i) /\ i # None /\ loaded = None
    BY DEF HoldersInv, AllKnown, ClosedFits, Instances
  <2>2. \A o \in Ops : ops[o].pc \in {"new", "waiting", "done"} /\ ops[o].next = None
    <3>1. Counted = {} /\ \A o \in Ops : Fits(o)
      BY DEF OrderInv, ClosesAlone, OperationsFit
    <3> QED  BY <3>1 DEF Counted, Fits, Rolling
  <2>3. restoring = None
    BY <2>2 DEF HoldersInv, RestoreFits, At
  <2> QED
    BY <2>1, <2>2, <2>3 DEF Known, At
<1> QED
  BY <1>1, HoldersAreRight, PTL

-----------------------------------------------------------------------------
(* What failed to close stays blocked.                                     *)

LEMMA FailedIsOld ==
  ASSUME OrderInv, HoldersInv, NEW i \in Instances, inst[i].failed
  PROVE  /\ i # None /\ i # restoring /\ ~Fresh(i) /\ i # releasing
         /\ \A o \in Ops : ops[o].next # i
         /\ loaded = i => \A o \in Counted : At(o, "entered")
<1> USE DEF OrderInv, HoldersInv
<1>1. i # None /\ i # restoring
  BY DEF Instances, RestoreFits
<1>2. ~Fresh(i)
  BY FreshUnused
<1> QED
  BY <1>1, <1>2 DEF NextsFit, Spare, LoadedFits, ReleaseFits

(* It keeps its mark and its place, and nobody takes it.                   *)
StaysBlocked(i) ==
  /\ inst'[i].failed
  /\ loaded = i => loaded' = i \/ host' = "closed"
  /\ \A o \in Ops : ops'[o].inst = i => ops[o].inst = i

LEMMA FailedStays ==
  ASSUME OrderInv, OrderInv', HoldersInv, [Next]_vars, NEW i \in Instances,
         inst[i].failed
  PROVE  StaysBlocked(i)
<1> USE DEF OrderInv, HoldersInv
<1>0. /\ i # None /\ i # restoring /\ ~Fresh(i) /\ i # releasing
      /\ \A o \in Ops : ops[o].next # i
      /\ loaded = i => \A o \in Counted : At(o, "entered")
      /\ inst \in [Instances -> Instance]
  BY FailedIsOld DEF TypeOK
<1>1. CASE Quiet
  <2>1. \A o \in Ops : ops'[o].inst = i => ops[o].inst = i
    <3> SUFFICES ASSUME NEW o \in Ops, ops'[o].inst = i PROVE ops[o].inst = i
      OBVIOUS
    <3>1. Goes(o) /\ Fits(o)'
      BY <1>1 DEF Quiet, OperationsFit
    <3> QED
      BY <1>0, <3>1 DEF Goes, Same, Fits, Before
  <2> QED
    BY <1>1, <2>1 DEF Quiet, StaysBlocked
<1>2. ASSUME NEW o \in Ops, Find(o), restoring' # restoring PROVE StaysBlocked(i)
  <2>1. StartRestore(o) /\ loaded' = loaded
    BY <1>2 DEF Find
  <2>2. PICK n \in Instances :
          /\ Fresh(n)
          /\ \A j \in Instances \ {n} : inst'[j] = inst[j]
          /\ Holds(o, n, "awaiting")
    BY <2>1, StartRestoreDoes
  <2>3. /\ ops'[o].inst = n
        /\ \A p \in Ops \ {o} : ops'[p] = ops[p]
    BY <2>2, HoldsOne DEF Phases
  <2> QED
    BY <1>0, <2>1, <2>2, <2>3 DEF StaysBlocked
<1>3. ASSUME NEW o \in Ops, DeleteRecord(o) PROVE StaysBlocked(i)
  <2> DEFINE k == ops[o].inst
  <2>1. loaded # i
    BY <1>0, <1>3 DEF DeleteRecord, Counted, At
  <2>2. \/ inst' = inst /\ Finish(o)
        \/ /\ inst' = [inst EXCEPT ![k].native = IF @ = "gone" THEN @ ELSE "closing"]
           /\ ops' = [ops EXCEPT ![o].pc = "closing"]
    BY <1>3 DEF DeleteRecord
  <2>3. \A j \in Instances : inst'[j].failed = inst[j].failed
    <3> HIDE DEF k
    <3> QED  BY <1>0, <2>2 DEF Instance
  <2>4. \A p \in Ops : ops'[p].inst = ops[p].inst \/ ops'[p].inst = None
    BY <2>2, FinishDoes, GoesOn DEF Phases
  <2> QED
    BY <1>0, <2>1, <2>3, <2>4 DEF StaysBlocked
<1>4. ASSUME NEW o \in Ops,
             RollbackPrepares(o) \/ RollbackCommits(o) \/ Replace(o) \/ Replaced(o)
      PROVE  StaysBlocked(i)
  <2>1. ops[o].pc \in {"using"} \cup Rolling /\ KindOf[o] = "rollback"
    BY <1>4 DEF RollbackPrepares, RollbackCommits, Replace, Replaced, At, Rolling,
       OperationsFit, Fits
  <2>2. loaded # i
    BY <1>0, <2>1 DEF Counted, Rolling, At
  <2>3. CASE RollbackPrepares(o)
    <3>1. PICK n \in Instances :
            /\ Fresh(n)
            /\ \A j \in Instances \ {n} : inst'[j] = inst[j]
            /\ \A p \in Ops \ {o} : ops'[p] = ops[p]
            /\ ops'[o].inst = ops[o].inst
      BY <2>3, PreparesDoes
    <3> QED
      BY <1>0, <2>2, <3>1 DEF StaysBlocked
  <2>4. CASE RollbackCommits(o)
    <3>1. inst' = inst /\ ops' = [ops EXCEPT ![o].pc = "committed"]
      BY <2>4 DEF RollbackCommits
    <3>2. \A p \in Ops : ops'[p].inst = ops[p].inst
      BY <3>1, GoesOn DEF Phases
    <3> QED
      BY <2>2, <3>1, <3>2 DEF StaysBlocked
  <2>5. CASE Replace(o) \/ Replaced(o)
    <3> DEFINE k == ops[o].inst
               n == ops[o].next
    <3>1. \/ inst' = inst
          \/ inst' = [inst EXCEPT ![k].native = "closing"]
          \/ inst' = [inst EXCEPT ![n].heard = TRUE]
      BY <2>5 DEF Replace, Replaced
    <3>2. \A j \in Instances : inst'[j].failed = inst[j].failed
      <4> HIDE DEF k, n
      <4> QED  BY <1>0, <3>1 DEF Instance
    <3>3. Finish(o) \/ ops' = [ops EXCEPT ![o].pc = "replacing"]
      BY <2>5 DEF Replace, Replaced
    <3>4. \A p \in Ops : ops'[p].inst = ops[p].inst \/ ops'[p].inst = None
      BY <3>3, FinishDoes, GoesOn DEF Phases
    <3> QED
      BY <1>0, <2>2, <3>2, <3>4 DEF StaysBlocked
  <2> QED  BY <1>4, <2>3, <2>4, <2>5
<1>5. CASE RestoreRegisters
  <2>1. loaded = None /\ inst' = [inst EXCEPT ![restoring].heard = TRUE]
    BY <1>5 DEF RestoreRegisters, RestoreFits
  <2>2. inst'[i].failed = inst[i].failed
    BY <1>0, <2>1 DEF Instance
  <2>3. ASSUME NEW o \in Ops PROVE ops'[o].inst = ops[o].inst
    <3>1. ops'[o] = ops[o] \/ ops'[o] = [ops[o] EXCEPT !.pc = "using"]
      BY <1>5 DEF RestoreRegisters
    <3>2. ops[o] \in Operation
      BY DEF TypeOK
    <3> QED  BY <3>1, <3>2 DEF Operation
  <2> QED
    BY <1>0, <2>1, <2>2, <2>3 DEF StaysBlocked
<1>6. CASE RestoreFails
  <2>1. /\ loaded' = loaded /\ Over(Waiters)
        /\ inst' = inst \/ inst' = [inst EXCEPT ![restoring].native = "gone"]
    BY <1>6 DEF RestoreFails
  <2>2. inst'[i].failed = inst[i].failed
    BY <1>0, <2>1 DEF Instance
  <2>3. \A o \in Ops : ops'[o].inst = ops[o].inst \/ ops'[o].inst = None
    BY <2>1, DoneFields DEF Over
  <2> QED
    BY <1>0, <2>1, <2>2, <2>3 DEF StaysBlocked
<1>7. CASE ReleaseSettles \/ ReleaseFails
  <2>1. /\ ops' = ops /\ releasing = loaded
        /\ inst' = inst \/ inst' = [inst EXCEPT ![releasing].failed = TRUE]
    BY <1>7 DEF ReleaseSettles, ReleaseFails, ReleaseOver, ReleaseFits
  <2>2. inst'[i].failed
    BY <1>0, <2>1 DEF Instance
  <2> QED
    BY <1>0, <2>1, <2>2 DEF StaysBlocked
<1>8. CASE ShutdownEnds
  BY <1>8 DEF ShutdownEnds, StaysBlocked
<1> QED
  BY <1>1, <1>2, <1>3, <1>4, <1>5, <1>6, <1>7, <1>8, StepsAre

(* A session that did not close in order stays where it is until the Host  *)
(* ends, and no request takes it any more.                                 *)
THEOREM FailedIsNeverReused == Spec => FailedStaysBlocked
<1>1. Init => OrderInv /\ HoldersInv
  BY InitOrder, InitHolders
<1>2. OrderInv /\ HoldersInv /\ [Next]_vars => OrderInv' /\ HoldersInv'
  BY NextOrder, NextHolders
<1>3. OrderInv /\ HoldersInv /\ [Next]_vars =>
        [\A i \in Instances :
           inst[i].failed =>
             /\ inst'[i].failed
             /\ (loaded = i) => (loaded' = i \/ host' = "closed")
             /\ \A o \in Ops : (ops'[o].inst = i) => (ops[o].inst = i)]_vars
  BY <1>2, FailedStays DEF StaysBlocked
<1> QED
  BY <1>1, <1>2, <1>3, PTL DEF Spec, FailedStaysBlocked
=============================================================================
