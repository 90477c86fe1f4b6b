-------------------------- MODULE ThreadHistoryProofs ------------------------
(***************************************************************************)
(* Proofs about ThreadHistory, for any sets of sessions, Turns, calls and  *)
(* children and any number of crashes and failing writes: the type         *)
(* invariant; that a Turn keeps the ID it was shown with and stays in the  *)
(* record; that memory has the record that is stored; that the Thread      *)
(* found for a Subagent was made for it; and that it gets no second one.   *)
(***************************************************************************)
EXTENDS ThreadHistory, SequenceTheorems, TLAPS

USE DEF Elements, At

Pcs == {"new", "reading", "taken", "aligning", "projecting", "opening", "replacing",
        "noting", "retaining", "event", "done", "failed"}
Records == [session : Sessions \cup {None}, turns : Seq(Mappings), revision : Nat]
CallStates ==
  [pc : Pcs, session : Sessions \cup {None}, snap : Seq(Turns), base : Records,
   restores : BOOLEAN]
Steps == {"nothing", "create", "commit", "rebind"}
Awaited ==
  [step : Steps, home : Homes \cup {None}, previous : Sessions \cup {None},
   of : Turns \cup {None}]

(* The types of all variables, with those that TypeOK leaves out.          *)
Types ==
  /\ child \in [Homes -> Children]
  /\ native \in [Sessions -> Seq(Turns)]
  /\ stored \in Records /\ stored.session \in Sessions
  /\ mem \in [Sessions -> Records]
  /\ loaded \in Sessions \cup {None}
  /\ live \in [turn : Turns \cup {None}, phase : {"idle", "running", "ending"}]
  /\ fault \in BOOLEAN
  /\ call \in [Callers -> CallStates]
  /\ mat \in [Callers -> Awaited]
  /\ writes \in Seq(Callers \cup {Terminal})
  /\ begun \subseteq Turns /\ ended \subseteq Turns /\ crossed \subseteq Turns
  /\ apart \subseteq {"overtaken", "not adopted", "not replaced", "not moved"}

-----------------------------------------------------------------------------
(* Histories and the mappings that follow them.                            *)

Unrepeated(seq) == \A i, j \in DOMAIN seq : seq[i] = seq[j] => i = j

Begins(seq, whole) ==
  /\ Len(seq) <= Len(whole)
  /\ \A i \in DOMAIN seq : seq[i] = whole[i]

(* The mappings are of Turns of the history, and as many as the Turns of a *)
(* part that has them all only if they are those, in order.                *)
Follows(turns, seq) ==
  /\ \A i \in DOMAIN turns : \E j \in DOMAIN seq : turns[i].turn = seq[j]
  /\ \A p \in 0 .. Len(seq) :
       (\A i \in DOMAIN turns : \E j \in 1 .. p : turns[i].turn = seq[j])
         => /\ Len(turns) <= p
            /\ Len(turns) = p => \A i \in 1 .. p : turns[i].turn = seq[i]

(* They still do when the history has grown.                               *)
LEMMA FollowsGrown ==
  ASSUME NEW turns \in Seq(Mappings), NEW a \in Seq(Turns), NEW b \in Seq(Turns),
         Begins(a, b), Follows(turns, a)
  PROVE  Follows(turns, b)
<1>1. \A i \in DOMAIN turns : \E j \in DOMAIN b : turns[i].turn = b[j]
  BY DEF Follows, Begins
<1>2. ASSUME NEW p \in 0 .. Len(b),
             \A i \in DOMAIN turns : \E j \in 1 .. p : turns[i].turn = b[j]
      PROVE  /\ Len(turns) <= p
             /\ Len(turns) = p => \A i \in 1 .. p : turns[i].turn = b[i]
  <2>1. CASE p <= Len(a)
    <3>1. \A j \in 1 .. p : j \in DOMAIN a /\ a[j] = b[j]
      BY <2>1 DEF Begins
    <3>2. \A i \in DOMAIN turns : \E j \in 1 .. p : turns[i].turn = a[j]
      BY <1>2, <3>1
    <3>3. p \in 0 .. Len(a)
      BY <2>1
    <3>. QED  BY <3>1, <3>2, <3>3 DEF Follows
  <2>2. CASE p > Len(a)
    <3>1. Len(a) \in 0 .. Len(a) /\ DOMAIN a = 1 .. Len(a)
      OBVIOUS
    <3>2. Len(turns) <= Len(a)
      BY <3>1 DEF Follows
    <3>. QED  BY <2>2, <3>2
  <2>. QED  BY <2>1, <2>2
<1>. QED  BY <1>1, <1>2 DEF Follows

(* They do when the last Turn of the history is added.                     *)
LEMMA FollowsAppended ==
  ASSUME NEW turns \in Seq(Mappings), NEW seq \in Seq(Turns), NEW m \in Mappings,
         seq # <<>>, m.turn = seq[Len(seq)], Unrepeated(seq),
         \A i \in DOMAIN turns : turns[i].turn # m.turn,
         Follows(turns, seq)
  PROVE  Follows(Append(turns, m), seq)
<1>. DEFINE more == Append(turns, m)
            n == Len(seq)
<1>1. /\ n \in Nat \ {0} /\ DOMAIN seq = 1 .. n /\ n \in DOMAIN seq
      /\ DOMAIN turns = 1 .. Len(turns) /\ Len(turns) \in Nat
  OBVIOUS
<1>2. /\ Len(more) = Len(turns) + 1 /\ DOMAIN more = 1 .. Len(turns) + 1
      /\ more[Len(turns) + 1] = m
      /\ \A i \in DOMAIN turns : more[i] = turns[i]
  OBVIOUS
<1>3. \A i \in DOMAIN more : \E j \in DOMAIN seq : more[i].turn = seq[j]
  <2>. SUFFICES ASSUME NEW i \in DOMAIN more
                PROVE  \E j \in DOMAIN seq : more[i].turn = seq[j]
    OBVIOUS
  <2>1. CASE i \in DOMAIN turns
    BY <2>1, <1>2 DEF Follows
  <2>2. CASE i = Len(turns) + 1
    BY <2>2, <1>1, <1>2
  <2>. QED  BY <2>1, <2>2, <1>1, <1>2
<1>4. ASSUME NEW p \in 0 .. n,
             \A i \in DOMAIN more : \E j \in 1 .. p : more[i].turn = seq[j]
      PROVE  /\ Len(more) <= p
             /\ Len(more) = p => \A i \in 1 .. p : more[i].turn = seq[i]
  <2>1. p = n
    <3>1. PICK j \in 1 .. p : m.turn = seq[j]
      BY <1>4, <1>1, <1>2
    <3>2. j \in DOMAIN seq /\ n \in DOMAIN seq /\ seq[j] = seq[n]
      BY <3>1, <1>1
    <3>3. j = n
      BY <3>2 DEF Unrepeated
    <3>. QED  BY <3>1, <3>3
  <2>2. \A i \in DOMAIN turns : \E j \in 1 .. n - 1 : turns[i].turn = seq[j]
    <3>. SUFFICES ASSUME NEW i \in DOMAIN turns
                  PROVE  \E j \in 1 .. n - 1 : turns[i].turn = seq[j]
      OBVIOUS
    <3>1. PICK j \in DOMAIN seq : turns[i].turn = seq[j]
      BY DEF Follows
    <3>2. j # n
      BY <3>1
    <3>. QED  BY <3>1, <3>2, <1>1
  <2>3. n - 1 \in 0 .. n
    BY <1>1
  <2>4. /\ Len(turns) <= n - 1
        /\ Len(turns) = n - 1 => \A i \in 1 .. n - 1 : turns[i].turn = seq[i]
    BY <2>2, <2>3 DEF Follows
  <2>5. ASSUME Len(more) = p, NEW i \in 1 .. p PROVE more[i].turn = seq[i]
    <3>1. Len(turns) = n - 1
      BY <2>1, <2>5, <1>1, <1>2
    <3>2. CASE i = n
      BY <3>1, <3>2, <1>1, <1>2
    <3>3. CASE i # n
      <4>1. i \in 1 .. n - 1 /\ i \in DOMAIN turns
        BY <3>1, <3>3, <2>1, <1>1
      <4>. QED  BY <4>1, <3>1, <2>4, <1>2
    <3>. QED  BY <3>2, <3>3
  <2>. QED  BY <2>1, <2>4, <2>5, <1>1, <1>2
<1>. QED  BY <1>3, <1>4 DEF Follows

(* They do when they are those of a snapshot.                              *)
LEMMA FollowsSnapshot ==
  ASSUME NEW turns \in Seq(Mappings), NEW snap \in Seq(Turns), NEW seq \in Seq(Turns),
         Begins(snap, seq), Unrepeated(seq), Len(turns) = Len(snap),
         \A i \in DOMAIN snap : turns[i].turn = snap[i]
  PROVE  Follows(turns, seq)
<1>1. /\ DOMAIN turns = 1 .. Len(snap) /\ DOMAIN snap = 1 .. Len(snap)
      /\ DOMAIN seq = 1 .. Len(seq) /\ Len(snap) \in Nat /\ Len(seq) \in Nat
  OBVIOUS
<1>2. \A i \in DOMAIN turns : i \in DOMAIN seq /\ turns[i].turn = seq[i]
  BY <1>1 DEF Begins
<1>3. ASSUME NEW p \in 0 .. Len(seq),
             \A i \in DOMAIN turns : \E j \in 1 .. p : turns[i].turn = seq[j]
      PROVE  Len(turns) <= p
  <2>1. CASE Len(snap) = 0
    BY <2>1
  <2>2. CASE Len(snap) # 0
    <3>1. Len(snap) \in DOMAIN turns
      BY <1>1, <2>2
    <3>2. PICK j \in 1 .. p : turns[Len(snap)].turn = seq[j]
      BY <3>1, <1>3
    <3>3. /\ j \in DOMAIN seq /\ Len(snap) \in DOMAIN seq
          /\ seq[j] = seq[Len(snap)]
      BY <3>1, <3>2, <1>1, <1>2
    <3>4. j = Len(snap)
      BY <3>3 DEF Unrepeated
    <3>. QED  BY <3>4
  <2>. QED  BY <2>1, <2>2
<1>4. \A p \in 0 .. Len(seq) : Len(turns) = p => \A i \in 1 .. p : turns[i].turn = seq[i]
  BY <1>1, <1>2
<1>. QED  BY <1>2, <1>3, <1>4 DEF Follows

(* The mappings of all Turns are in the order of the history.              *)
LEMMA FollowsWhole ==
  ASSUME NEW turns \in Seq(Mappings), NEW seq \in Seq(Turns),
         Follows(turns, seq), Len(turns) = Len(seq)
  PROVE  \A i \in DOMAIN seq : turns[i].turn = seq[i]
<1>1. DOMAIN seq = 1 .. Len(seq) /\ Len(seq) \in 0 .. Len(seq)
  OBVIOUS
<1>. QED  BY <1>1 DEF Follows

-----------------------------------------------------------------------------
(* The inductive invariant.                                                *)

(* A mapping whose ID is the one the Turn was shown with, or excused.      *)
SoundIn(m, excused) == m.by = Own \/ m.turn \in excused

(* A record as the store has or had it: its mappings follow the history of *)
(* its session, and its revision tells it from the one that is stored.     *)
GoodIn(r, histories_, latest, excused) ==
  /\ r.session \in Sessions
  /\ Follows(r.turns, histories_[r.session])
  /\ \A i \in DOMAIN r.turns : SoundIn(r.turns[i], excused)
  /\ r.revision <= latest.revision
  /\ r.revision = latest.revision => r = latest

Good(r) == GoodIn(r, native, stored, crossed)

(* The write queue.                                                        *)
Queued(e) == \E i \in DOMAIN writes : writes[i] = e
EndsOnce ==
  \A i, j \in DOMAIN writes : writes[i] = Terminal /\ writes[j] = Terminal => i = j
EndsFirst(c) ==
  \E i, j \in DOMAIN writes : i < j /\ writes[i] = Terminal /\ writes[j] = c

(* The Turn under way is the last of the loaded session and of no other;   *)
(* only its end waits in the write queue.                                  *)
TurnsInv ==
  /\ \A s \in Sessions : Unrepeated(native[s]) /\ Elements(native[s]) \subseteq begun
  /\ begun \subseteq ended \cup crossed \cup {live.turn}
  /\ ended \subseteq begun
  /\ live.turn = None <=> live.phase = "idle"
  /\ live.turn # None => loaded # None /\ live.turn \in begun
  /\ \A s \in Sessions :
       live.turn \in Elements(native[s]) =>
         s = loaded /\ native[s][Len(native[s])] = live.turn
  /\ live.phase = "running" => live.turn \notin ended
  /\ live.phase = "ending" => live.turn \in Elements(native[loaded]) \cap ended
  /\ Queued(Terminal) => live.phase = "ending"
  /\ EndsOnce

StoreInv == Good(stored) /\ EndedTurnsAreStored

(* An object whose record is of another session has no mappings, and its   *)
(* session is not the stored one.  The loaded session is the stored one,   *)
(* unless a rollback was stored whose session could not replace it.        *)
MemInv ==
  /\ \A s \in Sessions :
       mem[s] # NoRecord =>
         /\ Good(mem[s])
         /\ mem[s].session # s => mem[s].turns = <<>> /\ s # stored.session
  /\ loaded # None =>
       mem[loaded] # NoRecord /\ mem[loaded].session \in {loaded, stored.session}
  /\ loaded # None /\ loaded # stored.session =>
       /\ mem[stored.session] = NoRecord /\ native[loaded] # <<>>
       /\ Elements(native[stored.session]) \subseteq Elements(native[loaded])

(* Before the Thread is loaded only the restore runs; one Desktop request  *)
(* is under way.                                                           *)
Orderly ==
  /\ \A c \in Callers :
       /\ call[c].restores =>
            /\ c \in Reads /\ loaded = None /\ call[c].session = stored.session
            /\ call[c].pc \in {"reading", "taken", "aligning", "projecting"}
       /\ Busy(c) /\ loaded = None => call[c].restores
       /\ Busy(c) /\ c \in Lives => live.phase = "running" /\ At(c, "event")
       /\ c \in Calls => ~At(c, "event")
  /\ \A c, d \in Callers : call[c].restores /\ call[d].restores => c = d
  /\ \A c, d \in Calls \ Controls : Busy(c) /\ Busy(d) => c = d

(* What is written in the place of a mapping is right, or is refused: the  *)
(* Turn has ended, so that the store has its ID.                           *)
Proposed(m) == SoundIn(m, crossed) \/ m.turn \in ended \ {live.turn}

(* A read, and the first part of a rollback.  A Turn that ends while the   *)
(* mappings wait is stored after them.                                     *)
ReadInv(c) ==
  /\ call[c].pc \in {"reading", "taken", "aligning", "projecting", "opening"}
       /\ ~call[c].restores =>
       /\ call[c].session \in Sessions
       /\ mem[call[c].session] # NoRecord
       /\ c \in Rollbacks => call[c].session = loaded
  /\ call[c].pc \in {"reading", "taken"} /\ call[c].restores =>
       Good(call[c].base) /\ call[c].base.session = call[c].session
  /\ call[c].pc \in {"taken", "aligning", "projecting"} =>
       Begins(call[c].snap, native[call[c].session])
  /\ At(c, "aligning") =>
       /\ Len(call[c].base.turns) = Len(call[c].snap)
       /\ \A i \in DOMAIN call[c].snap :
            /\ call[c].base.turns[i].turn = call[c].snap[i]
            /\ Proposed(call[c].base.turns[i])
       /\ call[c].snap # <<>> => call[c].base.session = call[c].session
       /\ Queued(c)
       /\ ended \ Elements(call[c].snap) \subseteq crossed \cup {live.turn}
       /\ EndsFirst(c) => ended \ Elements(call[c].snap) \subseteq crossed
  /\ At(c, "projecting") =>
       Good(call[c].base) /\ call[c].base.session = call[c].session

(* The snapshot of the new session has all Turns of the record but the     *)
(* last, in order.                                                         *)
Shorter(c) ==
  /\ Len(call[c].base.turns) = Len(call[c].snap) + 1
  /\ \A i \in DOMAIN call[c].snap : call[c].base.turns[i].turn = call[c].snap[i]

RollbackInv(c) ==
  /\ call[c].pc \in {"opening", "replacing", "noting", "retaining"} => c \in Rollbacks
  /\ At(c, "opening") =>
       Good(call[c].base) /\ call[c].base.session = call[c].session
  /\ call[c].pc \in {"replacing", "noting", "retaining"} =>
       /\ call[c].session \in Sessions
       /\ native[call[c].session] = call[c].snap
       /\ mem[call[c].session] = NoRecord
  /\ call[c].pc \in {"replacing", "noting"} =>
       /\ call[c].base.session = loaded
       /\ Shorter(c)
       /\ native[loaded] # <<>>
       /\ Elements(call[c].snap) \subseteq Elements(native[loaded])
  /\ At(c, "replacing") => Good(call[c].base)
  /\ At(c, "noting") =>
       Good(Retained(c)) /\ Queued(c) /\ call[c].session = stored.session
  /\ At(c, "retaining") =>
       /\ Good(call[c].base) /\ call[c].base.session = call[c].session
       /\ call[c].session = stored.session

(* A call that will give the loaded object the record that is stored.      *)
Carries(c) ==
  \/ At(c, "projecting") /\ call[c].base = stored /\ call[c].session = loaded
  \/ At(c, "noting") /\ Retained(c) = stored
  \/ At(c, "retaining") /\ call[c].base = stored

MemoryInv ==
  loaded # None =>
    \/ mem[loaded] = stored
    \/ apart \ {"not moved"} # {}
    \/ \E c \in Calls : Carries(c)

CallsInv == \A c \in Calls : ReadInv(c) /\ RollbackInv(c)

HistoryInv ==
  TurnsInv /\ StoreInv /\ MemInv /\ Orderly /\ CallsInv /\ MemoryInv

(* The Turns with a Subagent that a session has, or is about to have.      *)
Spawn(s) ==
  (Elements(native[s]) \cup (IF s = loaded THEN {live.turn} ELSE {})) \cap Spawning

ChildInv ==
  /\ \A s \in Sessions : \A t, u \in Spawn(s) : t = u
  /\ \A h \in Homes, s \in Sessions :
       h \in ByRequest(s) \cup ByRecord(s) =>
         /\ s = stored.session \/ native[s] # <<>>
         /\ \A t \in Spawn(s) : child[h].of = t

(* The child that a caller waits for is that of the Turn its session has.  *)
MatInv(c) ==
  mat[c].step # "nothing" =>
    LET s == call[c].base.session IN
    /\ Busy(c) /\ s \in Sessions
    /\ c \in Calls =>
         /\ call[c].pc \in {"projecting", "retaining"}
         /\ mat[c].of \in Elements(native[s]) \cap Spawning
    /\ s = stored.session \/ native[s] # <<>>
    /\ \A t \in Spawn(s) : mat[c].of = t
    /\ mat[c].step \in {"commit", "rebind"} =>
         /\ mat[c].home \in Homes /\ Stored(mat[c].home)
         /\ \A t \in Spawn(s) : child[mat[c].home].of = t

ChildrenInv == ChildInv /\ \A c \in Callers : MatInv(c)

-----------------------------------------------------------------------------
(* Projections.                                                            *)

(* What the end of a projection comes to: the caller leaves, the object of *)
(* its session adopts the record, or the new session takes its place.      *)
Ends(c) == \E o \in {"done", "failed"} : call' = [call EXCEPT ![c] = Ended(o)]

Leaves(c, stage, record) ==
  /\ Ends(c) /\ mem' = mem /\ loaded' = loaded
  /\ \/ stage = "event"
     \/ /\ stage = "projecting"
        /\ record = mem[call[c].session] \/ "not adopted" \in apart'
     \/ stage = "retaining" /\ "not replaced" \in apart'

Adopts(c, stage, record) ==
  /\ stage = "projecting"
  /\ mem' = [mem EXCEPT ![call[c].session] = record]
  /\ loaded' = IF call[c].restores THEN call[c].session ELSE loaded
  /\ \/ Ends(c)
     \/ /\ c \in Rollbacks /\ record.turns # <<>>
        /\ call' = [call EXCEPT ![c] =
             [Ended("opening") EXCEPT !.session = call[c].session, !.base = record]]
  /\ call[c].restores \/ call[c].session = loaded \/ "overtaken" \in apart'
  /\ record.revision < stored.revision => "overtaken" \in apart'

TakesOver(c, stage, record) ==
  /\ stage = "retaining" /\ live.turn = None
  /\ mem' = [mem EXCEPT ![record.session] = record]
  /\ loaded' = record.session
  /\ Ends(c)
  /\ record.revision < stored.revision => "overtaken" \in apart'

Over(c, stage, record) ==
  /\ Leaves(c, stage, record) \/ Adopts(c, stage, record) \/ TakesOver(c, stage, record)
  /\ apart \subseteq apart'
  /\ apart' \subseteq apart \cup {"overtaken", "not adopted", "not replaced"}
  /\ fault' \in {fault, FALSE}
  /\ mat' = [mat EXCEPT ![c] = NoWait]

Waits(c, stage, record, previous, t) ==
  /\ t # None
  /\ \E h \in {None} \cup Found(record.session, previous), step \in Steps \ {"nothing"} :
       /\ step = Wanted(h, record.session, previous)
       /\ h = None => Found(record.session, previous) = {}
       /\ step # "create" => h # None /\ h \in Found(record.session, previous)
       /\ mat' = [mat EXCEPT ![c] =
                    [step |-> step, home |-> h, previous |-> previous, of |-> t]]
  /\ call' = [call EXCEPT ![c].pc = stage, ![c].base = record]
  /\ UNCHANGED <<mem, loaded, fault, apart>>

(* A projection that is over has ended its caller in one of these ways.    *)
LEMMA ProjectedIsOver ==
  ASSUME NEW c \in Callers, NEW stage, NEW record, NEW ok \in BOOLEAN,
         Projected(c, stage, record, ok),
         mat' = [mat EXCEPT ![c] = NoWait]
  PROVE  Over(c, stage, record)
<1>. USE DEF Over
<1>1. CASE stage = "event" /\ call' = [call EXCEPT ![c] = Ended("done")]
             /\ UNCHANGED <<mem, loaded, fault, apart>>
  BY <1>1 DEF Leaves, Ends
<1>2. CASE /\ stage = "projecting" /\ Refreshed(c, record)
           /\ apart' = IF ~call[c].restores /\ call[c].session # loaded
                       THEN apart \cup {"overtaken"} ELSE Late(record)
  <2>1. Ends(c) \/ (/\ c \in Rollbacks /\ record.turns # <<>>
                    /\ call' = [call EXCEPT ![c] =
                         [Ended("opening") EXCEPT !.session = call[c].session,
                                                  !.base = record]])
    BY <1>2 DEF Refreshed, Ends
  <2>2. Adopts(c, stage, record)
    BY <1>2, <2>1 DEF Refreshed, Adopts, Late
  <2>. QED  BY <1>2, <2>2 DEF Refreshed, Late
<1>3. CASE stage = "projecting" /\ Fail(c)
             /\ apart' = IF record = mem[call[c].session] THEN apart
                         ELSE apart \cup {"not adopted"}
  BY <1>3 DEF Leaves, Ends, Fail
<1>4. CASE stage = "retaining" /\ Replaced(c, record) /\ apart' = Late(record)
  BY <1>4 DEF Replaced, TakesOver, Ends, Late
<1>5. CASE stage = "retaining" /\ Fail(c) /\ apart' = apart \cup {"not replaced"}
  BY <1>5 DEF Leaves, Ends, Fail
<1>. QED  BY <1>1, <1>2, <1>3, <1>4, <1>5 DEF Projected

(* The lookups find records that there are, of one of the sessions.        *)
LEMMA FoundIs ==
  ASSUME NEW s, NEW previous, NEW h \in Found(s, previous)
  PROVE  /\ h \in Homes /\ Stored(h)
         /\ \/ h \in ByRequest(s) \cup ByRecord(s)
            \/ previous # None /\ h \in ByRequest(previous) \cup ByRecord(previous)
<1>. DEFINE former == IF previous = None THEN {} ELSE {previous}
            lookups == <<ByRequest(s), UNION {ByRequest(p) : p \in former},
                         ByRecord(s), UNION {ByRecord(p) : p \in former}>>
            first(i) == lookups[i] # {} /\ \A j \in 1 .. i - 1 : lookups[j] = {}
<1>1. \E i \in 1 .. 4 : lookups[i] # {}
  BY DEF Found
<1>2. \E i \in 1 .. 4 : first(i)
  <2>. HIDE DEF lookups
  <2>1. CASE lookups[1] # {}
    BY <2>1
  <2>2. CASE lookups[1] = {} /\ lookups[2] # {}
    <3>1. \A j \in 1 .. 1 : lookups[j] = {}
      BY <2>2
    <3>. QED  BY <2>2, <3>1
  <2>3. CASE lookups[1] = {} /\ lookups[2] = {} /\ lookups[3] # {}
    <3>1. \A j \in 1 .. 2 : lookups[j] = {}
      BY <2>3
    <3>. QED  BY <2>3, <3>1
  <2>4. CASE lookups[1] = {} /\ lookups[2] = {} /\ lookups[3] = {} /\ lookups[4] # {}
    <3>1. \A j \in 1 .. 3 : lookups[j] = {}
      BY <2>4
    <3>. QED  BY <2>4, <3>1
  <2>5. \A i \in 1 .. 4 : i = 1 \/ i = 2 \/ i = 3 \/ i = 4
    OBVIOUS
  <2>. QED  BY <1>1, <2>1, <2>2, <2>3, <2>4, <2>5
<1>3. PICK i \in 1 .. 4 : h \in lookups[i]
  <2>1. Found(s, previous) = lookups[CHOOSE i \in 1 .. 4 : first(i)]
    BY <1>1 DEF Found
  <2>. HIDE DEF lookups, first
  <2>. QED  BY <1>2, <2>1
<1>4. i = 1 \/ i = 2 \/ i = 3 \/ i = 4
  OBVIOUS
<1>5. \/ h \in ByRequest(s) \cup ByRecord(s)
      \/ previous # None /\ h \in ByRequest(previous) \cup ByRecord(previous)
  BY <1>3, <1>4
<1>. QED  BY <1>5 DEF ByRequest, ByRecord, ReadyHomes, Stored

(* Project either comes to its end or waits for a mutation.                *)
LEMMA ProjectIs ==
  ASSUME NEW c \in Callers, NEW stage, NEW record, NEW previous, NEW t, NEW queue,
         Project(c, stage, record, previous, t, queue)
  PROVE  \/ Over(c, stage, record) /\ writes' = queue
         \/ Waits(c, stage, record, previous, t) /\ writes' = Append(queue, c)
<1>1. CASE /\ t = None
           /\ Projected(c, stage, record, TRUE)
           /\ writes' = queue /\ mat' = [mat EXCEPT ![c] = NoWait]
  BY <1>1, ProjectedIsOver
<1>2. ASSUME t # None,
             NEW h \in IF Found(record.session, previous) = {} THEN {None}
                       ELSE Found(record.session, previous),
             LET step == Wanted(h, record.session, previous) IN
               IF step \in {"nothing", "error"}
               THEN /\ Projected(c, stage, record, step = "nothing")
                    /\ writes' = queue /\ mat' = [mat EXCEPT ![c] = NoWait]
               ELSE /\ mat' = [mat EXCEPT ![c] =
                         [step |-> step, home |-> h, previous |-> previous, of |-> t]]
                    /\ writes' = Append(queue, c)
                    /\ call' = [call EXCEPT ![c].pc = stage, ![c].base = record]
                    /\ UNCHANGED <<mem, loaded, fault, apart>>
      PROVE  \/ Over(c, stage, record) /\ writes' = queue
             \/ Waits(c, stage, record, previous, t) /\ writes' = Append(queue, c)
  <2>. DEFINE step == Wanted(h, record.session, previous)
  <2>1. CASE step \in {"nothing", "error"}
    BY <1>2, <2>1, ProjectedIsOver
  <2>2. CASE step \notin {"nothing", "error"}
    <3>1. step \in {"create", "commit", "rebind"} /\ (step # "create" => h # None)
      BY <2>2 DEF Wanted
    <3>2. /\ h # None => h \in Found(record.session, previous)
          /\ h = None => Found(record.session, previous) = {}
      <4>1. ~(None \in Found(record.session, previous))
        BY FoundIs, SubagentsAssumption
      <4>. QED  BY <1>2, <4>1
    <3>3. step \in Steps \ {"nothing"} /\ h \in {None} \cup Found(record.session, previous)
      BY <3>1, <3>2 DEF Steps
    <3>4. /\ mat' = [mat EXCEPT ![c] =
                       [step |-> step, home |-> h, previous |-> previous, of |-> t]]
          /\ writes' = Append(queue, c)
          /\ call' = [call EXCEPT ![c].pc = stage, ![c].base = record]
          /\ UNCHANGED <<mem, loaded, fault, apart>>
      BY <1>2, <2>2
    <3>5. step = Wanted(h, record.session, previous)
      OBVIOUS
    <3>. HIDE DEF step
    <3>. QED  BY <1>2, <3>1, <3>2, <3>3, <3>4, <3>5 DEF Waits
  <2>. QED  BY <2>1, <2>2
<1>. QED  BY <1>1, <1>2 DEF Project

(* The Turn with a Subagent that SpawnedIn finds is one of the snapshot.   *)
LEMMA SpawnedIs ==
  ASSUME NEW snap, SpawnedIn(snap) # None
  PROVE  SpawnedIn(snap) \in Elements(snap) \cap Spawning
BY DEF SpawnedIn

-----------------------------------------------------------------------------
(* Types.                                                                  *)

(* The initial values of the variables have their types.                   *)
LEMMA EndedTyped ==
  /\ NoRecord \in Records
  /\ \A o \in Pcs : Ended(o) \in CallStates
  /\ NoWait \in Awaited
  /\ NoChild \in Children
BY DEF NoRecord, Records, Ended, CallStates, Pcs, NoWait, Awaited, Steps, NoChild, Children

(* The fields of a record.                                                 *)
LEMMA RecordHas ==
  ASSUME NEW r \in Records
  PROVE  /\ r.session \in Sessions \cup {None} /\ r.turns \in Seq(Mappings)
         /\ r.revision \in Nat
BY DEF Records

(* The fields of a call.                                                   *)
LEMMA CallHas ==
  ASSUME Types, NEW c \in Callers
  PROVE  /\ call[c] \in CallStates /\ call[c].pc \in Pcs
         /\ call[c].session \in Sessions \cup {None}
         /\ call[c].snap \in Seq(Turns)
         /\ call[c].base \in Records /\ call[c].restores \in BOOLEAN
BY DEF Types, CallStates

(* A call that moves on is a call.                                         *)
LEMMA CallStateWith ==
  ASSUME NEW k \in CallStates, NEW p \in Pcs, NEW s \in Sessions \cup {None},
         NEW snap \in Seq(Turns), NEW b \in Records
  PROVE  /\ [k EXCEPT !.pc = p] \in CallStates
         /\ [k EXCEPT !.pc = p, !.base = b] \in CallStates
         /\ [k EXCEPT !.session = s, !.base = b] \in CallStates
         /\ [k EXCEPT !.session = s, !.base = b, !.restores = TRUE] \in CallStates
         /\ [k EXCEPT !.pc = p, !.session = s] \in CallStates
         /\ [k EXCEPT !.pc = p, !.snap = snap] \in CallStates
         /\ [k EXCEPT !.pc = p, !.session = s, !.snap = snap] \in CallStates
BY DEF CallStates

(* A record with other mappings is a record.                               *)
LEMMA RecordWith ==
  ASSUME NEW r \in Records, NEW turns \in Seq(Mappings)
  PROVE  LET w == [r EXCEPT !.turns = turns] IN
         /\ w \in Records
         /\ w.session = r.session /\ w.turns = turns /\ w.revision = r.revision
BY DEF Records

(* So is one that was stored again.                                        *)
LEMMA RecordStored ==
  ASSUME NEW r \in Records, NEW turns \in Seq(Mappings)
  PROVE  LET w == [r EXCEPT !.turns = turns, !.revision = @ + 1] IN
         /\ w \in Records
         /\ w.session = r.session /\ w.turns = turns /\ w.revision = r.revision + 1
<1>1. r.revision + 1 \in Nat
  BY RecordHas
<1>2. ASSUME NEW n \in Nat
      PROVE  LET w == [r EXCEPT !.turns = turns, !.revision = n] IN
             /\ w \in Records
             /\ w.session = r.session /\ w.turns = turns /\ w.revision = n
  BY DEF Records
<1>3. [r EXCEPT !.turns = turns, !.revision = @ + 1] =
        [r EXCEPT !.turns = turns, !.revision = r.revision + 1]
  OBVIOUS
<1>. QED  BY <1>1, <1>2, <1>3

(* A projection keeps the types.                                           *)
LEMMA ProjectTyped ==
  ASSUME Types, NEW c \in Callers, NEW stage \in {"event", "projecting", "retaining"},
         NEW record \in Records, NEW previous \in Sessions \cup {None},
         NEW t \in Turns \cup {None},
         Over(c, stage, record) \/ Waits(c, stage, record, previous, t)
  PROVE  /\ mem' \in [Sessions -> Records]
         /\ loaded' \in Sessions \cup {None}
         /\ fault' \in BOOLEAN
         /\ call' \in [Callers -> CallStates]
         /\ mat' \in [Callers -> Awaited]
         /\ apart' \subseteq {"overtaken", "not adopted", "not replaced", "not moved"}
<1>1. CASE Over(c, stage, record)
  <2>1. mem' \in [Sessions -> Records] /\ loaded' \in Sessions \cup {None}
    <3>1. /\ mem \in [Sessions -> Records] /\ loaded \in Sessions \cup {None}
          /\ call[c].session \in Sessions \cup {None}
          /\ record.session \in Sessions \cup {None}
      BY CallHas, RecordHas DEF Types
    <3>. QED  BY <1>1, <3>1 DEF Over, Leaves, Adopts, TakesOver
  <2>2. ASSUME Ends(c) PROVE call' \in [Callers -> CallStates]
    <3>1. PICK o \in {"done", "failed"} : call' = [call EXCEPT ![c] = Ended(o)]
      BY <2>2 DEF Ends
    <3>2. Ended(o) \in CallStates
      BY EndedTyped DEF Pcs
    <3>3. call \in [Callers -> CallStates]
      BY DEF Types
    <3>. QED  BY <3>1, <3>2, <3>3
  <2>3. ASSUME call' = [call EXCEPT ![c] =
                 [Ended("opening") EXCEPT !.session = call[c].session, !.base = record]]
        PROVE  call' \in [Callers -> CallStates]
    <3>1. [Ended("opening") EXCEPT !.session = call[c].session, !.base = record]
            \in CallStates
      BY EndedTyped, CallHas, CallStateWith DEF Pcs
    <3>. QED  BY <2>3, <3>1 DEF Types
  <2>4. call' \in [Callers -> CallStates]
    BY <1>1, <2>2, <2>3 DEF Over, Leaves, Adopts, TakesOver
  <2>5. mat' \in [Callers -> Awaited]
    BY <1>1, EndedTyped DEF Over, Types
  <2>. QED  BY <1>1, <2>1, <2>4, <2>5 DEF Over, Types
<1>2. CASE Waits(c, stage, record, previous, t)
  <2>1. call' \in [Callers -> CallStates]
    <3>1. call \in [Callers -> CallStates] /\ stage \in Pcs
      BY DEF Types, Pcs
    <3>2. call' = [call EXCEPT ![c].pc = stage, ![c].base = record]
      BY <1>2 DEF Waits
    <3>3. [call[c] EXCEPT !.pc = stage, !.base = record] \in CallStates
      BY <3>1, CallHas, CallStateWith
    <3>4. call' = [call EXCEPT ![c] = [call[c] EXCEPT !.pc = stage, !.base = record]]
      BY <3>1, <3>2
    <3>. QED  BY <3>1, <3>3, <3>4
  <2>2. mat' \in [Callers -> Awaited]
    <3>1. PICK h \in {None} \cup Found(record.session, previous), step \in Steps \ {"nothing"} :
            mat' = [mat EXCEPT ![c] =
                      [step |-> step, home |-> h, previous |-> previous, of |-> t]]
      BY <1>2 DEF Waits
    <3>2. h \in Homes \cup {None}
      BY FoundIs
    <3>3. [step |-> step, home |-> h, previous |-> previous, of |-> t] \in Awaited
      BY <3>2 DEF Awaited
    <3>. QED  BY <3>1, <3>3 DEF Types
  <2>. QED  BY <1>2, <2>1, <2>2 DEF Waits, Types
<1>. QED  BY <1>1, <1>2

(* The children keep their types.                                          *)
LEMMA ChildrenTyped ==
  ASSUME Types, NEW h, NEW s \in Sessions \cup {None}, NEW t \in Turns \cup {None}
  PROVE  /\ Created(h, s, t) \in [Homes -> Children]
         /\ Committed(h, s) \in [Homes -> Children]
         /\ Rebound(h, s) \in [Homes -> Children]
         /\ OnlyReady \in [Homes -> Children]
BY EndedTyped DEF Types, Created, Committed, Rebound, OnlyReady, Children

(* The Turn of a snapshot that has a Subagent is a Turn.                   *)
LEMMA SpawnedTyped ==
  ASSUME NEW snap \in Seq(Turns)
  PROVE  SpawnedIn(snap) \in Turns \cup {None}
BY SpawnedIs

(* Taking the first entry off a queue.                                     *)
LEMMA TailIs ==
  ASSUME NEW S, NEW seq \in Seq(S), seq # <<>>
  PROVE  /\ Tail(seq) \in Seq(S)
         /\ DOMAIN seq = 1 .. Len(seq) /\ Len(seq) \in Nat \ {0}
         /\ DOMAIN Tail(seq) = 1 .. Len(seq) - 1
         /\ \A i \in DOMAIN Tail(seq) : Tail(seq)[i] = seq[i + 1]
OBVIOUS

(* What is left of the write queue.                                        *)
LEMMA PoppedIs ==
  ASSUME Types, writes # <<>>
  PROVE  /\ Popped \in Seq(Callers \cup {Terminal})
         /\ \A i \in DOMAIN Popped : i + 1 \in DOMAIN writes /\ Popped[i] = writes[i + 1]
         /\ \A i \in DOMAIN writes :
              i # 1 => i - 1 \in DOMAIN Popped /\ Popped[i - 1] = writes[i]
<1>1. /\ Popped \in Seq(Callers \cup {Terminal})
      /\ DOMAIN writes = 1 .. Len(writes) /\ Len(writes) \in Nat \ {0}
      /\ DOMAIN Popped = 1 .. Len(writes) - 1
      /\ \A i \in DOMAIN Popped : Popped[i] = writes[i + 1]
  BY TailIs DEF Types, Popped
<1>2. \A i \in DOMAIN Popped : i + 1 \in DOMAIN writes
  BY <1>1
<1>3. \A i \in DOMAIN writes : i # 1 => i - 1 \in DOMAIN Popped /\ (i - 1) + 1 = i
  BY <1>1
<1>. QED  BY <1>1, <1>2, <1>3

(* Adding an entry to a queue, or a Turn to a history.                     *)
LEMMA AppendedIs ==
  ASSUME NEW S, NEW seq \in Seq(S), NEW e \in S
  PROVE  /\ Append(seq, e) \in Seq(S)
         /\ Len(Append(seq, e)) = Len(seq) + 1
         /\ DOMAIN Append(seq, e) = DOMAIN seq \cup {Len(seq) + 1}
         /\ Append(seq, e)[Len(seq) + 1] = e
         /\ \A i \in DOMAIN seq : Append(seq, e)[i] = seq[i]
OBVIOUS

(* The initial state has the types.                                        *)
LEMMA TypesInit == Init => Types
<1>. SUFFICES ASSUME Init PROVE Types
  OBVIOUS
<1>. USE EndedTyped, HistoryAssumption
<1>1. stored \in Records /\ First \in Sessions
  BY DEF Init, Records
<1>2. mem \in [Sessions -> Records]
  BY <1>1 DEF Init
<1>3. call \in [Callers -> CallStates]
  BY DEF Init, Pcs
<1>4. mat \in [Callers -> Awaited] /\ child \in [Homes -> Children]
  BY DEF Init
<1>5. native \in [Sessions -> Seq(Turns)] /\ writes \in Seq(Callers \cup {Terminal})
  BY DEF Init
<1>6. stored.session = First /\ loaded = First
  BY DEF Init
<1>. QED  BY <1>1, <1>2, <1>3, <1>4, <1>5, <1>6 DEF Init, Types, NoTurn

(* What a rollback stores, from a record that is one Turn longer.          *)
LEMMA RetainedTyped ==
  ASSUME Types, NEW c \in Callers, Shorter(c)
  PROVE  Retained(c) \in Records
<1>. DEFINE n == Len(call[c].snap)
            turns == [i \in 1 .. n |->
                        [turn |-> call[c].snap[i], by |-> call[c].base.turns[i].by]]
<1>1. /\ call[c].snap \in Seq(Turns) /\ DOMAIN call[c].snap = 1 .. n /\ n \in Nat
      /\ call[c].base.turns \in Seq(Mappings)
      /\ DOMAIN call[c].base.turns = 1 .. n + 1
      /\ call[c].base.revision \in Nat /\ call[c].session \in Sessions \cup {None}
  <2>1. /\ call[c].snap \in Seq(Turns) /\ call[c].base.turns \in Seq(Mappings)
        /\ call[c].base.revision \in Nat /\ call[c].session \in Sessions \cup {None}
    BY CallHas, RecordHas
  <2>2. Len(call[c].base.turns) = n + 1
    BY DEF Shorter
  <2>. QED  BY <2>1, <2>2
<1>2. \A i \in 1 .. n : call[c].base.turns[i] \in Mappings /\ call[c].snap[i] \in Turns
  BY <1>1
<1>3. \A i \in 1 .. n : turns[i] \in Mappings
  BY <1>2 DEF Mappings
<1>4. turns \in Seq(Mappings)
  <2>1. turns \in [1 .. n -> Mappings]
    BY <1>3
  <2>. QED  BY <1>1, <2>1, SeqDef
<1>5. [i \in DOMAIN call[c].snap |->
         [turn |-> call[c].snap[i], by |-> call[c].base.turns[i].by]] = turns
  BY <1>1
<1>. QED  BY <1>1, <1>4, <1>5 DEF Retained, Records

(* The types are preserved, from the facts of HistoryInv that tie the      *)
(* phase of the Turn and the snapshot of a rollback to the rest.           *)
LEMMA TypesStep ==
  ASSUME Types, TurnsInv, CallsInv, [Next]_vars
  PROVE  Types'
<1>0. CASE UNCHANGED vars
  BY <1>0 DEF vars, Types
<1>1. ASSUME NEW t \in Turns, StartTurn(t) PROVE Types'
  BY <1>1 DEF StartTurn, Types, counters
<1>2. CASE RecordTurn
  <2>1. live.turn \in Turns /\ loaded \in Sessions
    BY <1>2 DEF RecordTurn, TurnsInv, Types
  <2>2. native' \in [Sessions -> Seq(Turns)]
    BY <1>2, <2>1, AppendProperties DEF RecordTurn, Types
  <2>. QED  BY <1>2, <2>2 DEF RecordTurn, Types, counters, histories
<1>3. CASE EndTurn
  <2>1. live.turn \in Turns
    BY <1>3 DEF EndTurn, TurnsInv, Types
  <2>2. live' \in [turn : Turns \cup {None}, phase : {"idle", "running", "ending"}]
    <3>1. live \in [turn : Turns \cup {None}, phase : {"idle", "running", "ending"}]
      BY DEF Types
    <3>. QED  BY <1>3, <3>1 DEF EndTurn, NoTurn
  <2>3. writes' \in Seq(Callers \cup {Terminal})
    <3>1. writes \in Seq(Callers \cup {Terminal})
      BY DEF Types
    <3>2. Append(writes, Terminal) \in Seq(Callers \cup {Terminal})
      BY <3>1, AppendProperties
    <3>. QED  BY <1>3, <3>1, <3>2 DEF EndTurn
  <2>. QED  BY <1>3, <2>1, <2>2, <2>3 DEF EndTurn, Types, counters
<1>4. CASE EndUnnamed
  BY <1>4 DEF EndUnnamed, Types, NoTurn, TurnsInv, counters
<1>5. CASE RunPersist
  <2>1. writes # <<>> /\ writes[1] = Terminal
    BY <1>5 DEF RunPersist, Runs
  <2>2. live.turn \in Turns
    <3>1. live.turn \in Turns \cup {None} /\ 1 \in DOMAIN writes
      <4>1. writes \in Seq(Callers \cup {Terminal}) /\ live.turn \in Turns \cup {None}
        BY DEF Types
      <4>. QED  BY <2>1, <4>1
    <3>2. live.phase = "ending"
      BY <2>1, <3>1 DEF TurnsInv, Queued
    <3>. QED  BY <3>1, <3>2 DEF TurnsInv
  <2>3. writes' \in Seq(Callers \cup {Terminal})
    BY <1>5, <2>1, PoppedIs DEF RunPersist
  <2>4. Upserted \in Records /\ Upserted.session \in Sessions
    <3>1. stored.turns \in Seq(Mappings) /\ stored.revision \in Nat
      BY RecordHas DEF Types
    <3>2. [turn |-> live.turn, by |-> Own] \in Mappings
      BY <2>2 DEF Mappings
    <3>3. Append(stored.turns, [turn |-> live.turn, by |-> Own]) \in Seq(Mappings)
      BY <3>1, <3>2, AppendProperties
    <3>4. stored \in Records /\ stored.session \in Sessions
      BY DEF Types
    <3>5. PICK turns \in Seq(Mappings) :
            Upserted = [stored EXCEPT !.turns = turns, !.revision = @ + 1]
      BY <3>1, <3>3 DEF Upserted
    <3>. QED  BY <3>4, <3>5, RecordStored
  <2>5. /\ stored' \in Records /\ stored'.session \in Sessions
        /\ mem' \in [Sessions -> Records]
    <3>1. /\ stored \in Records /\ stored.session \in Sessions
          /\ mem \in [Sessions -> Records]
      BY DEF Types
    <3>2. /\ stored' = Upserted \/ stored' = stored
          /\ mem' = mem \/ mem' = [mem EXCEPT ![loaded] = stored']
      BY <1>5 DEF RunPersist, Persisted
    <3>. QED  BY <3>1, <3>2, <2>4
  <2>. QED  BY <1>5, <2>2, <2>3, <2>5 DEF RunPersist, Types, NoTurn
<1>6. ASSUME NEW c \in Lives, LiveChild(c) PROVE Types'
  <2>1. c \in Callers /\ loaded \in Sessions /\ mem[loaded] \in Records
    BY <1>6 DEF LiveChild, Callers, TurnsInv, Types
  <2>2. live.turn \in Turns \cup {None}
    BY DEF Types
  <2>3. \/ Over(c, "event", mem[loaded]) /\ writes' = writes
        \/ Waits(c, "event", mem[loaded], None, live.turn) /\ writes' = Append(writes, c)
    BY <1>6, <2>1, ProjectIs DEF LiveChild
  <2>4. /\ mem' \in [Sessions -> Records] /\ loaded' \in Sessions \cup {None}
        /\ fault' \in BOOLEAN /\ call' \in [Callers -> CallStates]
        /\ mat' \in [Callers -> Awaited]
        /\ apart' \subseteq {"overtaken", "not adopted", "not replaced", "not moved"}
    <3>. HIDE DEF Types
    <3>. QED  BY <2>1, <2>2, <2>3, ProjectTyped
  <2>5. writes' \in Seq(Callers \cup {Terminal})
    <3>1. writes \in Seq(Callers \cup {Terminal})
      BY DEF Types
    <3>. QED  BY <2>1, <2>3, <3>1, AppendedIs
  <2>. QED  BY <1>6, <2>4, <2>5 DEF LiveChild, Types, counters
<1>7. ASSUME NEW c \in Calls, Begin(c) PROVE Types'
  <2>1. c \in Callers /\ [call[c] EXCEPT !.pc = "reading", !.session = loaded] \in CallStates
    <3>1. c \in Callers /\ loaded \in Sessions \cup {None} /\ "reading" \in Pcs
      BY DEF Callers, Types, Pcs
    <3>. QED  BY <3>1, CallHas, CallStateWith
  <2>2. call' = [call EXCEPT ![c] = [call[c] EXCEPT !.pc = "reading", !.session = loaded]]
    BY <1>7, <2>1 DEF Begin, Types
  <2>3. call' \in [Callers -> CallStates]
    BY <2>1, <2>2 DEF Types
  <2>. QED  BY <1>7, <2>3 DEF Begin, Types, counters, histories
<1>8. ASSUME NEW c \in Calls, TakeSnapshot(c) PROVE Types'
  <2>1. c \in Callers /\ call[c].session \in Sessions
    <3>1. c \in Callers
      BY DEF Callers
    <3>2. call[c].session \in Sessions
      BY <1>8 DEF TakeSnapshot, CallsInv, ReadInv, GoodIn, Good
    <3>. QED  BY <3>1, <3>2
  <2>2. [call[c] EXCEPT !.pc = "taken", !.snap = native[call[c].session]] \in CallStates
    <3>1. native[call[c].session] \in Seq(Turns) /\ "taken" \in Pcs
      BY <2>1 DEF Types, Pcs
    <3>. QED  BY <2>1, <3>1, CallHas, CallStateWith
  <2>3. call' = [call EXCEPT ![c] =
                   [call[c] EXCEPT !.pc = "taken", !.snap = native[call[c].session]]]
    BY <1>8, <2>1 DEF TakeSnapshot, Types
  <2>4. call' \in [Callers -> CallStates]
    BY <2>1, <2>2, <2>3 DEF Types
  <2>. QED  BY <1>8, <2>4 DEF TakeSnapshot, Types, counters, histories
<1>9. ASSUME NEW c \in Calls, Refuse(c) PROVE Types'
  <2>1. Ended("failed") \in CallStates
    BY EndedTyped DEF Pcs
  <2>. QED  BY <1>9, <2>1 DEF Refuse, Fail, Types, counters, histories
<1>10. ASSUME NEW c \in Calls, Align(c) PROVE Types'
  <2>. DEFINE record == IF call[c].restores THEN call[c].base ELSE mem[call[c].session]
              turns == Aligned(c, record)
  <2>1. c \in Callers /\ record \in Records /\ call[c].snap \in Seq(Turns)
    <3>1. c \in Callers
      BY DEF Callers
    <3>2. ~call[c].restores => call[c].session \in Sessions
      BY <1>10 DEF Align, CallsInv, ReadInv
    <3>. QED  BY <3>1, <3>2, CallHas DEF Types
  <2>2. turns \in Seq(Mappings)
    <3>1. \A i \in DOMAIN call[c].snap : turns[i] \in Mappings
      <4>. SUFFICES ASSUME NEW i \in DOMAIN call[c].snap PROVE turns[i] \in Mappings
        OBVIOUS
      <4>. DEFINE t == call[c].snap[i]
                  known == {m \in Elements(record.turns) : m.turn = t}
      <4>1. turns[i] = IF known = {} THEN [turn |-> t, by |-> c]
                       ELSE CHOOSE m \in known : TRUE
        BY DEF Aligned
      <4>2. Elements(record.turns) \subseteq Mappings /\ t \in Turns
        BY <2>1, RecordHas, ElementOfSeq
      <4>3. [turn |-> t, by |-> c] \in Mappings
        BY <2>1, <4>2 DEF Mappings
      <4>. HIDE DEF turns, t
      <4>. QED  BY <4>1, <4>2, <4>3
    <3>2. DOMAIN call[c].snap = 1 .. Len(call[c].snap) /\ Len(call[c].snap) \in Nat
      BY <2>1, LenProperties
    <3>3. DOMAIN turns = DOMAIN call[c].snap /\ turns = [i \in DOMAIN call[c].snap |-> turns[i]]
      BY DEF Aligned
    <3>4. turns \in [1 .. Len(call[c].snap) -> Mappings]
      <4>. HIDE DEF turns
      <4>. QED  BY <3>1, <3>2, <3>3
    <3>. QED  BY <3>2, <3>4, SeqDef
  <2>3. crossed' \subseteq Turns
    <3>1. Endangered(c, record) \subseteq Turns
      BY DEF Endangered, Types
    <3>. QED  BY <1>10, <3>1 DEF Align, Types
  <2>. HIDE DEF record, turns
  <2>4. CASE Fail(c) /\ UNCHANGED <<mat, writes, crossed, apart>>
    <3>1. Ended("failed") \in CallStates
      BY EndedTyped DEF Pcs
    <3>. QED  BY <1>10, <2>4, <3>1 DEF Align, Fail, Types, counters
  <2>5. CASE Project(c, "projecting", record, None, SpawnedIn(call[c].snap), writes)
    <3>1. \/ Over(c, "projecting", record) /\ writes' = writes
          \/ /\ Waits(c, "projecting", record, None, SpawnedIn(call[c].snap))
             /\ writes' = Append(writes, c)
      BY <2>1, <2>5, ProjectIs
    <3>2. /\ mem' \in [Sessions -> Records] /\ loaded' \in Sessions \cup {None}
          /\ fault' \in BOOLEAN /\ call' \in [Callers -> CallStates]
          /\ mat' \in [Callers -> Awaited]
          /\ apart' \subseteq {"overtaken", "not adopted", "not replaced", "not moved"}
      BY <2>1, <3>1, ProjectTyped, SpawnedTyped
    <3>3. writes' \in Seq(Callers \cup {Terminal})
      <4>1. writes \in Seq(Callers \cup {Terminal})
        BY DEF Types
      <4>. QED  BY <2>1, <3>1, <4>1, AppendedIs
    <3>. QED  BY <1>10, <2>3, <3>2, <3>3 DEF Align, Types, counters
  <2>6. CASE /\ call' = [call EXCEPT ![c].pc = "aligning",
                                     ![c].base = [record EXCEPT !.turns = turns]]
             /\ writes' = Append(writes, c)
             /\ UNCHANGED <<mem, loaded, fault, mat, apart>>
    <3>1. [record EXCEPT !.turns = turns] \in Records
      BY <2>1, <2>2, RecordWith
    <3>2. [call[c] EXCEPT !.pc = "aligning", !.base = [record EXCEPT !.turns = turns]]
            \in CallStates
      BY <2>1, <3>1, CallHas, CallStateWith DEF Pcs
    <3>3. call' = [call EXCEPT ![c] =
            [call[c] EXCEPT !.pc = "aligning", !.base = [record EXCEPT !.turns = turns]]]
      BY <2>1, <2>6 DEF Types
    <3>4. writes' \in Seq(Callers \cup {Terminal})
      <4>1. writes \in Seq(Callers \cup {Terminal})
        BY DEF Types
      <4>. QED  BY <2>1, <2>6, <4>1, AppendedIs
    <3>5. call' \in [Callers -> CallStates]
      BY <2>1, <3>2, <3>3 DEF Types
    <3>. QED  BY <1>10, <2>3, <2>6, <3>4, <3>5 DEF Align, Types, counters
  <2>. QED  BY <1>10, <2>4, <2>5, <2>6 DEF Align, record, turns
<1>11. ASSUME NEW c \in Calls, RunReconcile(c) PROVE Types'
  <2>1. /\ c \in Callers /\ call[c].base.turns \in Seq(Mappings)
        /\ call[c].snap \in Seq(Turns)
    BY CallHas, RecordHas DEF Callers
  <2>2. /\ Reconciled(call[c].base.turns) \in Records
        /\ Reconciled(call[c].base.turns).session \in Sessions
    <3>1. stored \in Records /\ stored.session \in Sessions
      BY DEF Types
    <3>. QED  BY <2>1, <3>1, RecordStored DEF Reconciled
  <2>3. Popped \in Seq(Callers \cup {Terminal})
    BY <1>11, PoppedIs DEF RunReconcile, Runs
  <2>4. CASE Fail(c) /\ writes' = Popped /\ UNCHANGED <<stored, mat, apart>>
    <3>1. Ended("failed") \in CallStates
      BY EndedTyped DEF Pcs
    <3>. QED  BY <1>11, <2>3, <2>4, <3>1 DEF RunReconcile, Fail, Types
  <2>5. CASE /\ stored' = Reconciled(call[c].base.turns)
             /\ Project(c, "projecting", stored', None, SpawnedIn(call[c].snap), Popped)
    <3>1. \/ Over(c, "projecting", stored') /\ writes' = Popped
          \/ /\ Waits(c, "projecting", stored', None, SpawnedIn(call[c].snap))
             /\ writes' = Append(Popped, c)
      BY <2>1, <2>5, ProjectIs
    <3>2. /\ mem' \in [Sessions -> Records] /\ loaded' \in Sessions \cup {None}
          /\ fault' \in BOOLEAN /\ call' \in [Callers -> CallStates]
          /\ mat' \in [Callers -> Awaited]
          /\ apart' \subseteq {"overtaken", "not adopted", "not replaced", "not moved"}
      BY <2>1, <2>2, <2>5, <3>1, ProjectTyped, SpawnedTyped
    <3>3. writes' \in Seq(Callers \cup {Terminal})
      BY <2>1, <2>3, <3>1, AppendProperties
    <3>. QED  BY <1>11, <2>2, <2>5, <3>2, <3>3 DEF RunReconcile, Types
  <2>. QED  BY <1>11, <2>4, <2>5 DEF RunReconcile
<1>12. ASSUME NEW c \in Reads, Restore(c) PROVE Types'
  <2>1. [Ended("reading") EXCEPT !.session = stored.session, !.base = stored,
                                 !.restores = TRUE] \in CallStates
    <3>1. stored \in Records /\ stored.session \in Sessions
      BY DEF Types
    <3>2. Ended("reading") \in CallStates
      BY EndedTyped DEF Pcs
    <3>3. <<>> \in Seq(Turns) /\ "reading" \in Pcs
      BY DEF Pcs
    <3>. QED  BY <3>1, <3>2, <3>3, CallStateWith
  <2>. QED  BY <1>12, <2>1 DEF Restore, Types, counters, histories
<1>13. ASSUME NEW c \in Rollbacks, NEW s \in Sessions, OpenWithout(c, s) PROVE Types'
  <2>. DEFINE source == native[call[c].base.session]
              kept == SubSeq(source, 1, Len(source) - 1)
  <2>1. c \in Callers /\ call[c].base.session \in Sessions
    BY <1>13 DEF OpenWithout, Callers, Calls, CallsInv, RollbackInv, Good, GoodIn
  <2>2. kept \in Seq(Turns)
    <3>1. source \in Seq(Turns) /\ source # <<>>
      BY <1>13, <2>1 DEF OpenWithout, Types
    <3>. QED  BY <3>1
  <2>3. native' \in [Sessions -> Seq(Turns)]
    BY <1>13, <2>2 DEF OpenWithout, Types
  <2>. HIDE DEF kept
  <2>4. CASE /\ call' = [call EXCEPT ![c].pc = "replacing", ![c].session = s,
                                     ![c].snap = kept]
             /\ writes' = Append(writes, c)
             /\ UNCHANGED <<mem, loaded, fault>>
    <3>1. [call[c] EXCEPT !.pc = "replacing", !.session = s, !.snap = kept] \in CallStates
      BY <2>1, <2>2, CallHas, CallStateWith DEF Pcs
    <3>2. call' = [call EXCEPT ![c] =
                     [call[c] EXCEPT !.pc = "replacing", !.session = s, !.snap = kept]]
      BY <2>1, <2>4 DEF Types
    <3>3. writes' \in Seq(Callers \cup {Terminal})
      <4>1. writes \in Seq(Callers \cup {Terminal})
        BY DEF Types
      <4>. QED  BY <2>1, <2>4, <4>1, AppendedIs
    <3>4. call' \in [Callers -> CallStates]
      BY <2>1, <3>1, <3>2 DEF Types
    <3>. QED  BY <1>13, <2>3, <2>4, <3>3, <3>4 DEF OpenWithout, Types, counters, histories
  <2>5. CASE Fail(c) /\ UNCHANGED writes
    <3>1. Ended("failed") \in CallStates
      BY EndedTyped DEF Pcs
    <3>. QED  BY <1>13, <2>3, <2>5, <3>1 DEF OpenWithout, Fail, Types, counters, histories
  <2>. QED  BY <1>13, <2>4, <2>5 DEF OpenWithout, kept
<1>14. ASSUME NEW c \in Rollbacks, RunReplace(c) PROVE Types'
  <2>1. c \in Callers
    BY DEF Callers, Calls
  <2>2. Popped \in Seq(Callers \cup {Terminal})
    BY <1>14, PoppedIs DEF RunReplace, Runs
  <2>3. Retained(c) \in Records /\ Retained(c).session \in Sessions
    <3>1. Shorter(c) /\ call[c].session \in Sessions
      BY <1>14 DEF RunReplace, CallsInv, RollbackInv, Calls
    <3>. QED  BY <2>1, <3>1, RetainedTyped DEF Retained
  <2>4. stored' \in Records /\ stored'.session \in Sessions
    BY <1>14, <2>3 DEF RunReplace, Types
  <2>5. writes' \in Seq(Callers \cup {Terminal})
    BY <1>14, <2>1, <2>2, AppendProperties DEF RunReplace
  <2>6. call' \in [Callers -> CallStates]
    <3>1. [call[c] EXCEPT !.pc = "noting"] \in CallStates /\ Ended("failed") \in CallStates
      BY <2>1, CallHas, CallStateWith, EndedTyped DEF Pcs
    <3>. QED  BY <1>14, <2>1, <3>1 DEF RunReplace, Fail, Types
  <2>. QED  BY <1>14, <2>4, <2>5, <2>6 DEF RunReplace, Fail, Types
<1>15. ASSUME NEW c \in Rollbacks, RunNote(c) PROVE Types'
  <2>1. c \in Callers /\ call[c].snap \in Seq(Turns)
        /\ call[c].base.session \in Sessions \cup {None}
    BY CallHas, RecordHas DEF Callers, Calls
  <2>2. Popped \in Seq(Callers \cup {Terminal})
    BY <1>15, PoppedIs DEF RunNote, Runs
  <2>3. Retained(c) \in Records
    <3>1. Shorter(c)
      BY <1>15 DEF RunNote, CallsInv, RollbackInv, Calls
    <3>. QED  BY <2>1, <3>1, RetainedTyped
  <2>4. \/ Over(c, "retaining", Retained(c)) /\ writes' = Popped
        \/ /\ Waits(c, "retaining", Retained(c), call[c].base.session,
                    SpawnedIn(call[c].snap))
           /\ writes' = Append(Popped, c)
    BY <1>15, <2>1, ProjectIs DEF RunNote
  <2>5. /\ mem' \in [Sessions -> Records] /\ loaded' \in Sessions \cup {None}
        /\ fault' \in BOOLEAN /\ call' \in [Callers -> CallStates]
        /\ mat' \in [Callers -> Awaited]
        /\ apart' \subseteq {"overtaken", "not adopted", "not replaced", "not moved"}
    BY <2>1, <2>3, <2>4, ProjectTyped, SpawnedTyped
  <2>6. writes' \in Seq(Callers \cup {Terminal})
    BY <2>1, <2>2, <2>4, AppendProperties
  <2>. QED  BY <1>15, <2>5, <2>6 DEF RunNote, Types, counters
<1>16. ASSUME NEW c \in Callers, Materialize(c) PROVE Types'
  <2>1. /\ call[c].base \in Records
        /\ call[c].base.session \in Sessions \cup {None}
        /\ mat[c].of \in Turns \cup {None}
    BY CallHas, RecordHas DEF Types, Awaited
  <2>2. Popped \in Seq(Callers \cup {Terminal})
    BY <1>16, PoppedIs DEF Materialize, RunCreate, RunCommit, RunRebind, RunFails, Runs
  <2>3. child' \in [Homes -> Children]
    <3>1. child \in [Homes -> Children]
      BY DEF Types
    <3>2. \/ child' = child
          \/ \E h : child' \in {Created(h, call[c].base.session, mat[c].of),
                               Committed(h, call[c].base.session),
                               Rebound(h, call[c].base.session)}
      BY <1>16 DEF Materialize, RunCreate, RunCommit, RunRebind, RunFails, Record
    <3>3. ASSUME NEW h, child' \in {Created(h, call[c].base.session, mat[c].of),
                                  Committed(h, call[c].base.session),
                                  Rebound(h, call[c].base.session)}
          PROVE  child' \in [Homes -> Children]
      <4>1. /\ Created(h, call[c].base.session, mat[c].of) \in [Homes -> Children]
            /\ Committed(h, call[c].base.session) \in [Homes -> Children]
            /\ Rebound(h, call[c].base.session) \in [Homes -> Children]
        BY <2>1, ChildrenTyped
      <4>. QED  BY <3>3, <4>1
    <3>. QED  BY <3>1, <3>2, <3>3
  <2>4. ASSUME NEW ok \in BOOLEAN, Finished(c, ok)
        PROVE  /\ mem' \in [Sessions -> Records] /\ loaded' \in Sessions \cup {None}
               /\ fault' \in BOOLEAN /\ call' \in [Callers -> CallStates]
               /\ mat' \in [Callers -> Awaited]
               /\ apart' \subseteq {"overtaken", "not adopted", "not replaced", "not moved"}
               /\ writes' = Popped
    <3>1. Stage(c) \in {"event", "projecting", "retaining"}
      BY <2>4 DEF Finished, Projected
    <3>2. Over(c, Stage(c), Record(c))
      BY <2>4, ProjectedIsOver DEF Finished
    <3>. QED  BY <2>1, <2>4, <3>1, <3>2, ProjectTyped DEF Finished, Record
  <2>5. CASE \E ok \in BOOLEAN : Finished(c, ok)
    BY <1>16, <2>2, <2>3, <2>4, <2>5
       DEF Materialize, RunCreate, RunCommit, RunRebind, RunFails, Types, counters
  <2>6. ASSUME NEW h \in Homes,
               mat' = [mat EXCEPT ![c].step = "commit", ![c].home = h],
               writes' = Append(Popped, c),
               UNCHANGED <<call, mem, loaded, fault, apart>>
        PROVE  Types'
    <3>1. [mat[c] EXCEPT !.step = "commit", !.home = h] \in Awaited
      BY DEF Types, Awaited, Steps
    <3>2. mat' = [mat EXCEPT ![c] = [mat[c] EXCEPT !.step = "commit", !.home = h]]
      BY <2>6 DEF Types
    <3>3. mat' \in [Callers -> Awaited]
      BY <3>1, <3>2 DEF Types
    <3>4. writes' \in Seq(Callers \cup {Terminal})
      BY <2>2, <2>6, AppendProperties
    <3>. QED  BY <1>16, <2>3, <2>6, <3>3, <3>4
         DEF Materialize, RunCreate, RunCommit, RunRebind, RunFails, Types, counters
  <2>7. \/ \E ok \in BOOLEAN : Finished(c, ok)
        \/ \E h \in Homes :
             /\ mat' = [mat EXCEPT ![c].step = "commit", ![c].home = h]
             /\ writes' = Append(Popped, c)
             /\ UNCHANGED <<call, mem, loaded, fault, apart>>
    BY <1>16 DEF Materialize, RunCreate, RunCommit, RunRebind, RunFails, Unused, Repeated,
                 ByRequest, MayRebind
  <2>. QED  BY <2>5, <2>6, <2>7
<1>17. CASE Crash
  <2>1. call' \in [Callers -> CallStates]
    <3>1. Ended("failed") \in CallStates
      BY EndedTyped DEF Pcs
    <3>. QED  BY <1>17, <3>1 DEF Crash, Types
  <2>2. child' \in [Homes -> Children]
    BY <1>17, ChildrenTyped DEF Crash
  <2>3. mem' \in [Sessions -> Records] /\ mat' \in [Callers -> Awaited]
    BY <1>17, EndedTyped DEF Crash
  <2>4. writes' = <<>> /\ live' = NoTurn /\ loaded' = None /\ fault' = FALSE
    BY <1>17 DEF Crash
  <2>5. crossed' \subseteq Turns
    <3>1. live.turn \in Turns \cup {None} /\ crossed \subseteq Turns
      BY DEF Types
    <3>. QED  BY <1>17, <3>1 DEF Crash
  <2>6. apart' \subseteq {"overtaken", "not adopted", "not replaced", "not moved"}
    BY <1>17 DEF Crash
  <2>7. UNCHANGED <<native, stored, begun, ended>>
    BY <1>17 DEF Crash
  <2>8. /\ live' \in [turn : Turns \cup {None}, phase : {"idle", "running", "ending"}]
        /\ writes' \in Seq(Callers \cup {Terminal})
    BY <2>4 DEF NoTurn
  <2>. QED  BY <2>1, <2>2, <2>3, <2>4, <2>8, <2>5, <2>6, <2>7 DEF Types
<1>. QED
  BY <1>0, <1>1, <1>2, <1>3, <1>4, <1>5, <1>6, <1>7, <1>8, <1>9, <1>10, <1>11, <1>12,
     <1>13, <1>14, <1>15, <1>16, <1>17 DEF Next, Read, Rollback

-----------------------------------------------------------------------------
(* What every step does.                                                   *)

(* Histories, what is excused and what has ended only grow, and a record   *)
(* that replaces the stored one has a revision of its own.                 *)
Grown ==
  /\ \A s \in Sessions : Begins(native[s], native'[s])
  /\ crossed \subseteq crossed' /\ ended \subseteq ended' /\ begun \subseteq begun'
  /\ stored' = stored \/ stored'.revision = stored.revision + 1

(* Every step lets them grow.                                              *)
LEMMA GrownStep ==
  ASSUME Types, CallsInv, [Next]_vars
  PROVE  Grown
<1>1. \A s \in Sessions : native[s] \in Seq(Turns)
  BY DEF Types
<1>2. ASSUME native' = native PROVE \A s \in Sessions : Begins(native[s], native'[s])
  BY <1>1, <1>2 DEF Begins
<1>3. ASSUME NEW c \in Rollbacks, NEW s \in Sessions, OpenWithout(c, s) PROVE Grown
  <2>1. \A q \in Sessions : native'[q] = native[q] \/ native[q] = <<>>
    BY <1>3 DEF OpenWithout, Types
  <2>2. native'[s] \in Seq(Turns)
    <3>1. native[call[c].base.session] \in Seq(Turns)
      BY <1>3 DEF OpenWithout, CallsInv, RollbackInv, Good, GoodIn, Calls, Types
    <3>2. native[call[c].base.session] # <<>>
      BY <1>3 DEF OpenWithout
    <3>3. SubSeq(native[call[c].base.session], 1, Len(native[call[c].base.session]) - 1)
            \in Seq(Turns)
      BY <3>1, <3>2
    <3>4. native \in [Sessions -> Seq(Turns)]
      BY DEF Types
    <3>. QED  BY <1>3, <3>3, <3>4 DEF OpenWithout
  <2>3. \A q \in Sessions : native'[q] \in Seq(Turns)
    BY <1>3, <2>2 DEF OpenWithout, Types
  <2>4. \A q \in Sessions : Begins(native[q], native'[q])
    BY <2>1, <2>3, <1>1 DEF Begins
  <2>. QED  BY <1>3, <2>4 DEF OpenWithout, Grown, histories
<1>4. CASE RecordTurn
  <2>1. \A q \in Sessions : Begins(native[q], native'[q])
    <3>. SUFFICES ASSUME NEW q \in Sessions PROVE Begins(native[q], native'[q])
      OBVIOUS
    <3>1. native'[q] = native[q] \/ native'[q] = Append(native[q], live.turn)
      BY <1>4 DEF RecordTurn, Types
    <3>2. native[q] \in Seq(Turns \cup {None}) /\ live.turn \in Turns \cup {None}
      BY <1>1, SeqMonotonic DEF Types
    <3>. QED  BY <3>1, <3>2, AppendedIs DEF Begins
  <2>. QED  BY <1>4, <2>1 DEF RecordTurn, Grown, histories
<1>5. CASE RunPersist
  <2>1. stored' = stored \/ stored'.revision = stored.revision + 1
    <3>1. Upserted.revision = stored.revision + 1
      BY DEF Upserted, Types, Records
    <3>. QED  BY <1>5, <3>1 DEF RunPersist
  <2>. QED  BY <1>5, <1>2, <2>1 DEF RunPersist, Grown
<1>6. ASSUME NEW c \in Calls, RunReconcile(c) PROVE Grown
  <2>1. stored' = stored \/ stored'.revision = stored.revision + 1
    <3>1. \A turns : Reconciled(turns) = stored \/ Reconciled(turns).revision = stored.revision + 1
      BY DEF Reconciled, Types, Records
    <3>2. stored' = stored \/ \E turns : stored' = Reconciled(turns)
      BY <1>6 DEF RunReconcile
    <3>. QED  BY <3>1, <3>2
  <2>. QED  BY <1>6, <1>2, <2>1 DEF RunReconcile, Grown
<1>7. ASSUME NEW c \in Rollbacks, RunReplace(c) PROVE Grown
  <2>1. stored' = stored \/ stored'.revision = stored.revision + 1
    BY <1>7 DEF RunReplace, MayReplace, Retained
  <2>. QED  BY <1>7, <1>2, <2>1 DEF RunReplace, Grown
<1>8. CASE /\ UNCHANGED <<native, stored>> /\ begun \subseteq begun'
           /\ crossed \subseteq crossed' /\ ended \subseteq ended'
  BY <1>8, <1>2 DEF Grown
<1>9. ASSUME NEW c \in Calls, Align(c) PROVE Grown
  <2>1. UNCHANGED <<native, stored, begun, ended>> /\ crossed \subseteq crossed'
    BY <1>9 DEF Align
  <2>. QED  BY <2>1, <1>8
<1>10. ASSUME NEW c \in Callers, Materialize(c) PROVE Grown
  <2>1. UNCHANGED <<native, stored, crossed, begun, ended>>
    BY <1>10 DEF Materialize, RunCreate, RunCommit, RunRebind, RunFails
  <2>. QED  BY <2>1, <1>8
<1>11. CASE \E t \in Turns : StartTurn(t)
  BY <1>8, <1>11 DEF StartTurn
<1>12. CASE EndTurn \/ EndUnnamed \/ Crash
  BY <1>8, <1>12 DEF EndTurn, EndUnnamed, Crash
<1>13. CASE \E c \in Lives : LiveChild(c)
  BY <1>8, <1>13 DEF LiveChild
<1>14. CASE \E c \in Calls : Begin(c) \/ TakeSnapshot(c) \/ Refuse(c)
  BY <1>8, <1>14 DEF Begin, TakeSnapshot, Refuse, histories
<1>15. CASE \E c \in Reads : Restore(c)
  BY <1>8, <1>15 DEF Restore, histories
<1>16. CASE \E c \in Rollbacks : RunNote(c)
  BY <1>8, <1>16 DEF RunNote
<1>17. CASE UNCHANGED vars
  BY <1>8, <1>17 DEF vars
<1>. QED
  BY <1>3, <1>4, <1>5, <1>6, <1>7, <1>9, <1>10, <1>11, <1>12, <1>13, <1>14, <1>15, <1>16,
     <1>17 DEF Next, Read, Rollback

(* A record stays good.                                                    *)
LEMMA GoodAges ==
  ASSUME Types, Types', Grown, NEW r \in Records, GoodIn(r, native, stored, crossed)
  PROVE  GoodIn(r, native', stored', crossed')
<1>1. /\ r.session \in Sessions /\ r.turns \in Seq(Mappings)
      /\ native[r.session] \in Seq(Turns) /\ native'[r.session] \in Seq(Turns)
      /\ Begins(native[r.session], native'[r.session])
      /\ Follows(r.turns, native[r.session])
  BY RecordHas DEF GoodIn, Grown, Types
<1>2. Follows(r.turns, native'[r.session])
  BY <1>1, FollowsGrown
<1>3. \A i \in DOMAIN r.turns : SoundIn(r.turns[i], crossed')
  BY DEF GoodIn, SoundIn, Grown
<1>4. /\ r.revision <= stored'.revision
      /\ r.revision = stored'.revision => r = stored'
  <2>1. r.revision \in Nat /\ stored.revision \in Nat /\ stored'.revision \in Nat
    BY RecordHas DEF Types
  <2>2. r.revision <= stored.revision /\ (r.revision = stored.revision => r = stored)
    BY DEF GoodIn
  <2>. QED  BY <2>1, <2>2 DEF Grown
<1>. QED  BY <1>1, <1>2, <1>3, <1>4 DEF GoodIn

-----------------------------------------------------------------------------
(* The write queue, when a caller takes its place in it or is run.         *)
Requeued(c) ==
  \/ writes' = writes \/ writes' = Append(writes, c)
  \/ Runs(c) /\ (writes' = Popped \/ writes' = Append(Popped, c))

(* Popping the queue, or keeping it, and perhaps adding the caller.        *)
LEMMA QueueShifts ==
  ASSUME Types, NEW c \in Callers \cup {Terminal}, Requeued(c)
  PROVE  \E k \in {0, 1} :
           /\ \A i \in DOMAIN writes' :
                \/ writes'[i] = c
                \/ i + k \in DOMAIN writes /\ writes'[i] = writes[i + k]
           /\ \A i \in DOMAIN writes :
                \/ i - k \in DOMAIN writes' /\ writes'[i - k] = writes[i]
                \/ writes[i] = c
           /\ DOMAIN writes' \subseteq Nat /\ DOMAIN writes \subseteq Nat
<1>1. writes \in Seq(Callers \cup {Terminal})
  BY DEF Types
<1>2. /\ DOMAIN writes \subseteq Nat
      /\ \A i \in DOMAIN writes : i + 0 = i /\ i - 0 = i
  BY <1>1, LenProperties
<1>3. CASE writes' = writes
  BY <1>2, <1>3
<1>4. CASE writes' = Append(writes, c)
  <2>1. /\ DOMAIN writes' = DOMAIN writes \cup {Len(writes) + 1}
        /\ writes'[Len(writes) + 1] = c
        /\ \A i \in DOMAIN writes : writes'[i] = writes[i]
        /\ Len(writes) \in Nat
    BY <1>1, <1>4, AppendedIs, LenProperties
  <2>. QED  BY <1>2, <2>1
<1>5. CASE Runs(c) /\ (writes' = Popped \/ writes' = Append(Popped, c))
  <2>0. writes # <<>> /\ writes[1] = c
    BY <1>5 DEF Runs
  <2>1. /\ Popped \in Seq(Callers \cup {Terminal})
        /\ \A i \in DOMAIN Popped : i + 1 \in DOMAIN writes /\ Popped[i] = writes[i + 1]
        /\ \A i \in DOMAIN writes :
             i # 1 => i - 1 \in DOMAIN Popped /\ Popped[i - 1] = writes[i]
    BY <2>0, PoppedIs
  <2>2. DOMAIN Popped \subseteq Nat /\ Len(Popped) \in Nat
    BY <2>1, LenProperties
  <2>3. CASE writes' = Popped
    BY <1>2, <2>0, <2>1, <2>2, <2>3
  <2>4. CASE writes' = Append(Popped, c)
    <3>1. /\ DOMAIN writes' = DOMAIN Popped \cup {Len(Popped) + 1}
          /\ writes'[Len(Popped) + 1] = c
          /\ \A i \in DOMAIN Popped : writes'[i] = Popped[i]
      BY <2>1, <2>4, AppendedIs
    <3>. QED  BY <1>2, <2>0, <2>1, <2>2, <3>1
  <2>. QED  BY <1>5, <2>3, <2>4
<1>. QED  BY <1>3, <1>4, <1>5 DEF Requeued

(* The others keep their places, and the end of the Turn comes no earlier. *)
LEMMA QueueKeeps ==
  ASSUME Types, NEW c \in Callers, Requeued(c)
  PROVE  /\ Queued(Terminal)' => Queued(Terminal)
         /\ EndsOnce => EndsOnce'
         /\ \A d \in Callers \ {c} : Queued(d) => Queued(d)'
         /\ \A d \in Callers \ {c} : EndsFirst(d)' => EndsFirst(d)
<1>1. c # Terminal /\ Terminal \notin Callers
  BY HistoryAssumption
<1>2. PICK k \in {0, 1} :
           /\ \A i \in DOMAIN writes' :
                \/ writes'[i] = c
                \/ i + k \in DOMAIN writes /\ writes'[i] = writes[i + k]
           /\ \A i \in DOMAIN writes :
                \/ i - k \in DOMAIN writes' /\ writes'[i - k] = writes[i]
                \/ writes[i] = c
           /\ DOMAIN writes' \subseteq Nat /\ DOMAIN writes \subseteq Nat
  BY QueueShifts
<1>3. Queued(Terminal)' => Queued(Terminal)
  BY <1>1, <1>2 DEF Queued
<1>4. EndsOnce => EndsOnce'
  <2>. SUFFICES ASSUME EndsOnce, NEW i \in DOMAIN writes', NEW j \in DOMAIN writes',
                       writes'[i] = Terminal, writes'[j] = Terminal
                PROVE  i = j
    BY DEF EndsOnce
  <2>1. i + k = j + k
    BY <1>1, <1>2 DEF EndsOnce
  <2>. QED  BY <2>1, <1>2
<1>5. \A d \in Callers \ {c} : Queued(d) => Queued(d)'
  BY <1>2 DEF Queued
<1>6. ASSUME NEW d \in Callers \ {c}, EndsFirst(d)' PROVE EndsFirst(d)
  <2>1. PICK i \in DOMAIN writes', j \in DOMAIN writes' :
          i < j /\ writes'[i] = Terminal /\ writes'[j] = d
    BY <1>6 DEF EndsFirst
  <2>2. /\ i + k \in DOMAIN writes /\ writes[i + k] = Terminal
        /\ j + k \in DOMAIN writes /\ writes[j + k] = d /\ i + k < j + k
    BY <1>1, <1>2, <2>1
  <2>. QED  BY <2>2 DEF EndsFirst
<1>. QED  BY <1>3, <1>4, <1>5, <1>6

-----------------------------------------------------------------------------
(* The stored record.                                                      *)

(* A Turn is in a record if one of its mappings is of it.                  *)
LEMMA TurnOf ==
  ASSUME NEW r, NEW t
  PROVE  t \in TurnsOf(r) <=> \E i \in DOMAIN r.turns : r.turns[i].turn = t
BY DEF TurnsOf

(* It is the same, and no Turn ends or appears in its session but for the  *)
(* one under way, or those that are excused.                               *)
LEMMA StoreStays ==
  ASSUME Types, Types', Grown, StoreInv, stored' = stored,
         \A t \in ended' : t \in ended \/ t = live'.turn,
         \A t \in ended : t # live'.turn => t # live.turn \/ t \in crossed',
         \A t \in Turns : t \in Elements(native'[stored.session]) =>
           t \in Elements(native[stored.session]) \/ t = live'.turn
  PROVE  StoreInv'
<1>1. GoodIn(stored, native', stored', crossed')
  BY GoodAges DEF StoreInv, Good, Types
<1>2. EndedTurnsAreStored'
  <2>. SUFFICES ASSUME NEW t \in ended', t # live'.turn,
                       t \in Elements(native'[stored'.session])
                PROVE  t \in TurnsOf(stored') \cup crossed'
    BY DEF EndedTurnsAreStored
  <2>1. t \in Turns /\ t \in ended
    BY DEF Types
  <2>2. t \in Elements(native[stored.session])
    BY <2>1
  <2>3. t # live.turn \/ t \in crossed'
    BY <2>1
  <2>4. t # live.turn => t \in TurnsOf(stored) \cup crossed
    BY <2>1, <2>2 DEF StoreInv, EndedTurnsAreStored
  <2>. QED  BY <2>3, <2>4 DEF Grown
<1>. QED  BY <1>1, <1>2 DEF StoreInv, Good

(* The end of a Turn.                                                      *)
LEMMA StorePersist ==
  ASSUME Types, Types', Grown, TurnsInv, StoreInv, MemInv, RunPersist
  PROVE  StoreInv'
<1>1. /\ live.turn \in Turns /\ live.phase = "ending" /\ loaded \in Sessions
      /\ live.turn \in Elements(native[loaded])
  <2>1. writes # <<>> /\ writes[1] = Terminal
    BY DEF RunPersist, Runs
  <2>2. 1 \in DOMAIN writes
    <3>1. writes \in Seq(Callers \cup {Terminal})
      BY DEF Types
    <3>. QED  BY <2>1, <3>1
  <2>3. Queued(Terminal)
    BY <2>1, <2>2 DEF Queued
  <2>4. live.turn \in Turns \cup {None} /\ loaded \in Sessions \cup {None}
    BY DEF Types
  <2>. QED  BY <2>3, <2>4 DEF TurnsInv
<1>2. UNCHANGED <<native, ended>> /\ live'.turn = None
  BY DEF RunPersist, NoTurn
<1>3. ended \subseteq Turns /\ None \notin Turns
  BY SubagentsAssumption DEF Types
<1>4. CASE stored' = stored
  <2>1. live.turn \in Elements(native[stored.session]) =>
          live.turn \in TurnsOf(stored) \cup crossed'
    <3>. SUFFICES ASSUME live.turn \in Elements(native[stored.session])
                  PROVE  live.turn \in TurnsOf(stored) \cup crossed'
      OBVIOUS
    <3>1. stored.session = loaded
      BY DEF TurnsInv, Types
    <3>2. mem[loaded].session = loaded
      <4>1. loaded # None
        BY <1>1, SubagentsAssumption
      <4>. QED  BY <3>1, <4>1 DEF MemInv
    <3>3. live.turn \in crossed' \/ ~MayUpsert
      <4>1. CASE MayUpsert
        <5>1. stored' # Upserted
          <6>1. Upserted.revision = stored.revision + 1 /\ stored.revision \in Nat
            BY DEF Upserted, Types, Records
          <6>. QED  BY <1>4, <6>1
        <5>. QED  BY <4>1, <5>1 DEF RunPersist
      <4>. QED  BY <4>1
    <3>4. ASSUME ~MayUpsert PROVE live.turn \in TurnsOf(stored)
      <4>1. \E m \in Elements(stored.turns) : m.turn = live.turn
        BY <3>1, <3>2, <3>4 DEF MayUpsert
      <4>. QED  BY <4>1 DEF TurnsOf
    <3>. QED  BY <3>3, <3>4
  <2>2. EndedTurnsAreStored'
    <3>. SUFFICES ASSUME NEW t \in ended, t \in Elements(native[stored.session])
                  PROVE  t \in TurnsOf(stored) \cup crossed'
      BY <1>2, <1>4 DEF EndedTurnsAreStored
    <3>. QED  BY <2>1 DEF StoreInv, EndedTurnsAreStored, Grown
  <2>3. GoodIn(stored, native', stored', crossed')
    BY GoodAges DEF StoreInv, Good, Types
  <2>. QED  BY <1>4, <2>2, <2>3 DEF StoreInv, Good
<1>5. CASE stored' # stored
  <2>. DEFINE m == [turn |-> live.turn, by |-> Own]
  <2>1. MayUpsert /\ stored' = Upserted /\ stored.session = loaded
    BY <1>5 DEF RunPersist, MayUpsert
  <2>2. /\ stored.turns \in Seq(Mappings) /\ m \in Mappings
        /\ native[loaded] \in Seq(Turns) /\ stored.session \in Sessions
    BY <1>1, RecordHas DEF Types, Mappings
  <2>3. /\ stored'.session = stored.session
        /\ stored'.turns = IF live.turn \in TurnsOf(stored) THEN stored.turns
                           ELSE Append(stored.turns, m)
    BY <2>1 DEF Upserted, Types, Records
  <2>4. Follows(stored.turns, native[loaded])
    BY <2>1 DEF StoreInv, Good, GoodIn
  <2>5. /\ Follows(stored'.turns, native'[stored'.session])
        /\ \A i \in DOMAIN stored'.turns : SoundIn(stored'.turns[i], crossed')
        /\ \A i \in DOMAIN stored.turns : i \in DOMAIN stored'.turns
                                          /\ stored'.turns[i] = stored.turns[i]
        /\ live.turn \in TurnsOf(stored')
    <3>0. \A i \in DOMAIN stored.turns : SoundIn(stored.turns[i], crossed')
      BY DEF StoreInv, Good, GoodIn, SoundIn, Grown
    <3>1. CASE live.turn \in TurnsOf(stored)
      BY <1>2, <2>1, <2>3, <2>4, <3>0, <3>1 DEF TurnsOf
    <3>2. CASE live.turn \notin TurnsOf(stored)
      <4>1. \A i \in DOMAIN stored.turns : stored.turns[i].turn # m.turn
        BY <3>2 DEF TurnsOf
      <4>2. native[loaded] # <<>> /\ m.turn = native[loaded][Len(native[loaded])]
              /\ Unrepeated(native[loaded])
        <5>1. Unrepeated(native[loaded]) /\ native[loaded][Len(native[loaded])] = live.turn
          BY <1>1 DEF TurnsInv
        <5>. QED  BY <1>1, <5>1
      <4>3. Follows(Append(stored.turns, m), native[loaded])
        BY <2>2, <2>4, <4>1, <4>2, FollowsAppended
      <4>4. /\ DOMAIN stored'.turns = DOMAIN stored.turns \cup {Len(stored.turns) + 1}
            /\ stored'.turns[Len(stored.turns) + 1] = m
            /\ \A i \in DOMAIN stored.turns : stored'.turns[i] = stored.turns[i]
        BY <2>2, <2>3, <3>2, AppendedIs
      <4>5. \A i \in DOMAIN stored'.turns : SoundIn(stored'.turns[i], crossed')
        BY <3>0, <4>4 DEF SoundIn
      <4>6. live.turn \in TurnsOf(stored')
        BY <4>4 DEF TurnsOf
      <4>. QED  BY <1>2, <2>1, <2>3, <3>2, <4>3, <4>4, <4>5, <4>6
    <3>. QED  BY <3>1, <3>2
  <2>6. Good(stored)'
    <3>1. stored'.revision \in Nat /\ stored'.session \in Sessions
      BY RecordHas DEF Types
    <3>. QED  BY <2>5, <3>1 DEF Good, GoodIn
  <2>7. EndedTurnsAreStored'
    <3>. SUFFICES ASSUME NEW t \in ended, t \in Elements(native[stored.session])
                  PROVE  t \in TurnsOf(stored') \cup crossed'
      BY <1>2, <2>3 DEF EndedTurnsAreStored
    <3>1. CASE t = live.turn
      BY <2>5, <3>1
    <3>2. CASE t # live.turn
      <4>1. t \in TurnsOf(stored) \cup crossed
        BY <3>2 DEF StoreInv, EndedTurnsAreStored
      <4>2. TurnsOf(stored) \subseteq TurnsOf(stored')
        BY <2>5 DEF TurnsOf
      <4>. QED  BY <4>1, <4>2 DEF Grown
    <3>. QED  BY <3>1, <3>2
  <2>. QED  BY <2>6, <2>7 DEF StoreInv
<1>. QED  BY <1>4, <1>5

(* What a snapshot proposes is refused or right: a mapping whose ID is not *)
(* the one the Turn was shown with is of a Turn that the store has.        *)
LEMMA StoreReconcile ==
  ASSUME Types, Types', Grown, TurnsInv, StoreInv, CallsInv, NEW c \in Calls,
         RunReconcile(c)
  PROVE  StoreInv'
<1>. DEFINE turns == call[c].base.turns
            snap == call[c].snap
<1>1. UNCHANGED <<native, ended, live, crossed>>
  BY DEF RunReconcile
<1>2. CASE stored' = stored
  <2>1. \A t \in ended : t # live'.turn => t # live.turn
    BY <1>1
  <2>. QED  BY <1>1, <1>2, <2>1, StoreStays
<1>3. CASE stored' # stored
  <2>1. MayReconcile(turns, call[c].base.session) /\ stored' = Reconciled(turns)
    BY <1>3 DEF RunReconcile
  <2>2. stored'.turns = turns /\ stored'.session = stored.session
    BY <1>3, <2>1 DEF Reconciled, Types, Records
  <2>3. /\ c \in Callers /\ turns \in Seq(Mappings) /\ snap \in Seq(Turns)
        /\ stored.session \in Sessions /\ native[stored.session] \in Seq(Turns)
    BY CallHas, RecordHas DEF Callers, Types
  <2>4. /\ Len(turns) = Len(snap)
        /\ \A i \in DOMAIN snap : turns[i].turn = snap[i] /\ Proposed(turns[i])
        /\ snap # <<>> => call[c].base.session = call[c].session
        /\ ended \ Elements(snap) \subseteq crossed \cup {live.turn}
        /\ Begins(snap, native[call[c].session])
    BY DEF RunReconcile, CallsInv, ReadInv
  <2>5. DOMAIN turns = DOMAIN snap
    BY <2>3, <2>4, LenProperties
  <2>6. Begins(snap, native[stored.session])
    <3>1. CASE snap = <<>>
      <4>1. Len(snap) = 0 /\ DOMAIN snap = {} /\ Len(native[stored.session]) \in Nat
        BY <2>3, <3>1
      <4>. QED  BY <4>1 DEF Begins
    <3>2. CASE snap # <<>>
      <4>1. turns # <<>>
        BY <2>3, <2>4, <3>2
      <4>2. call[c].base.session = stored.session
        BY <2>1, <4>1 DEF MayReconcile
      <4>. QED  BY <2>4, <3>2, <4>2
    <3>. QED  BY <3>1, <3>2
  <2>7. Unrepeated(native[stored.session])
    BY <2>3 DEF TurnsInv
  <2>8. Follows(turns, native[stored.session])
    BY <2>3, <2>4, <2>6, <2>7, FollowsSnapshot
  <2>9. \A i \in DOMAIN turns : SoundIn(turns[i], crossed)
    <3>. SUFFICES ASSUME NEW i \in DOMAIN turns, turns[i].turn \in ended \ {live.turn}
                  PROVE  SoundIn(turns[i], crossed)
      BY <2>4, <2>5 DEF Proposed
    <3>1. turns[i].turn \in Elements(native[stored.session])
      <4>1. turns[i].turn = snap[i] /\ i \in DOMAIN snap
        BY <2>4, <2>5
      <4>2. i \in DOMAIN native[stored.session] /\ snap[i] = native[stored.session][i]
        BY <2>3, <2>6, <4>1, LenProperties DEF Begins
      <4>. QED  BY <4>1, <4>2
    <3>2. turns[i].turn \in TurnsOf(stored) \cup crossed
      BY <3>1 DEF StoreInv, EndedTurnsAreStored
    <3>3. CASE turns[i].turn \in crossed
      BY <3>3 DEF SoundIn
    <3>4. CASE turns[i].turn \in TurnsOf(stored)
      <4>1. PICK j \in DOMAIN stored.turns : stored.turns[j].turn = turns[i].turn
        BY <3>4, TurnOf
      <4>2. turns[i].by = stored.turns[j].by
        BY <2>1, <4>1 DEF MayReconcile
      <4>3. SoundIn(stored.turns[j], crossed)
        BY DEF StoreInv, Good, GoodIn
      <4>. QED  BY <4>1, <4>2, <4>3 DEF SoundIn
    <3>. QED  BY <3>2, <3>3, <3>4
  <2>10. Good(stored)'
    <3>1. stored'.revision \in Nat /\ stored'.session \in Sessions
      BY RecordHas DEF Types
    <3>. QED  BY <1>1, <2>2, <2>8, <2>9, <3>1 DEF Good, GoodIn
  <2>11. EndedTurnsAreStored'
    <3>. SUFFICES ASSUME NEW t \in ended, t # live.turn
                  PROVE  t \in TurnsOf(stored') \cup crossed
      BY <1>1 DEF EndedTurnsAreStored
    <3>1. t \in Elements(snap) \/ t \in crossed
      BY <2>4
    <3>2. ASSUME t \in Elements(snap) PROVE t \in TurnsOf(stored')
      BY <2>2, <2>4, <2>5, <3>2 DEF TurnsOf
    <3>. QED  BY <3>1, <3>2
  <2>. QED  BY <2>10, <2>11 DEF StoreInv
<1>. QED  BY <1>2, <1>3

(* The rollback: what the new session has is stored with the same IDs.     *)
LEMMA StoreReplace ==
  ASSUME Types, Types', Grown, TurnsInv, StoreInv, CallsInv, NEW c \in Rollbacks,
         RunReplace(c)
  PROVE  StoreInv'
<1>1. UNCHANGED <<native, ended, live, crossed>> /\ c \in Calls /\ c \in Callers
  BY DEF RunReplace, Calls, Callers
<1>2. CASE stored' = stored
  <2>1. \A t \in ended : t # live'.turn => t # live.turn
    BY <1>1
  <2>. QED  BY <1>1, <1>2, <2>1, StoreStays
<1>3. CASE stored' # stored
  <2>1. stored' = Retained(c)
    BY <1>3 DEF RunReplace
  <2>2. /\ native[call[c].session] = call[c].snap /\ call[c].session \in Sessions
        /\ Shorter(c) /\ Good(call[c].base)
    BY <1>1 DEF RunReplace, CallsInv, RollbackInv
  <2>3. /\ call[c].snap \in Seq(Turns) /\ call[c].base.turns \in Seq(Mappings)
        /\ Retained(c) \in Records
    BY <1>1, <2>2, CallHas, RecordHas, RetainedTyped
  <2>4. /\ stored'.session = call[c].session
        /\ DOMAIN stored'.turns = DOMAIN call[c].snap
        /\ \A i \in DOMAIN call[c].snap :
             /\ stored'.turns[i].turn = call[c].snap[i]
             /\ stored'.turns[i].by = call[c].base.turns[i].by
    BY <2>1 DEF Retained
  <2>5. Follows(stored'.turns, native[stored'.session])
    <3>1. stored'.turns \in Seq(Mappings)
      BY <2>1, <2>3, RecordHas
    <3>2. Len(stored'.turns) = Len(call[c].snap)
      BY <2>3, <2>4, <3>1, LenProperties
    <3>3. Begins(call[c].snap, native[stored'.session])
      BY <2>2, <2>3, <2>4 DEF Begins
    <3>4. Unrepeated(native[stored'.session]) /\ native[stored'.session] \in Seq(Turns)
      BY <2>2, <2>4 DEF TurnsInv, Types
    <3>. QED  BY <2>3, <2>4, <3>1, <3>2, <3>3, <3>4, FollowsSnapshot
  <2>6. \A i \in DOMAIN stored'.turns : SoundIn(stored'.turns[i], crossed)
    <3>. SUFFICES ASSUME NEW i \in DOMAIN call[c].snap
                  PROVE  SoundIn(stored'.turns[i], crossed)
      BY <2>4
    <3>1. i \in DOMAIN call[c].base.turns
      BY <2>2, <2>3, LenProperties DEF Shorter
    <3>2. SoundIn(call[c].base.turns[i], crossed)
      BY <2>2, <3>1 DEF Good, GoodIn
    <3>3. stored'.turns[i].turn = call[c].base.turns[i].turn
      BY <2>2, <2>4 DEF Shorter
    <3>. QED  BY <2>4, <3>2, <3>3 DEF SoundIn
  <2>7. Good(stored)'
    <3>1. stored'.revision \in Nat /\ stored'.session \in Sessions
      BY RecordHas DEF Types
    <3>. QED  BY <1>1, <2>5, <2>6, <3>1 DEF Good, GoodIn
  <2>8. EndedTurnsAreStored'
    <3>. SUFFICES ASSUME NEW t \in Elements(native[stored'.session])
                  PROVE  t \in TurnsOf(stored')
      BY <1>1 DEF EndedTurnsAreStored
    <3>1. PICK i \in DOMAIN call[c].snap : t = call[c].snap[i]
      BY <2>2, <2>4
    <3>. QED  BY <2>4, <3>1, TurnOf
  <2>. QED  BY <2>7, <2>8 DEF StoreInv
<1>. QED  BY <1>2, <1>3

(* Every step keeps the stored record good.                                *)
LEMMA StoreStep ==
  ASSUME Types, Types', TurnsInv, StoreInv, MemInv, CallsInv, [Next]_vars
  PROVE  StoreInv'
<1>0. Grown
  BY GrownStep
<1>1. CASE RunPersist
  BY <1>0, <1>1, StorePersist
<1>2. ASSUME NEW c \in Calls, RunReconcile(c) PROVE StoreInv'
  BY <1>0, <1>2, StoreReconcile
<1>3. ASSUME NEW c \in Rollbacks, RunReplace(c) PROVE StoreInv'
  BY <1>0, <1>3, StoreReplace
<1>4. CASE UNCHANGED <<stored, live, native, ended>>
  <2>1. \A t \in ended : t # live'.turn => t # live.turn
    BY <1>4
  <2>. QED  BY <1>0, <1>4, <2>1, StoreStays
<1>5. \A t \in ended : t # None
  BY SubagentsAssumption DEF Types
<1>6. ASSUME NEW t \in Turns, StartTurn(t) PROVE StoreInv'
  <2>1. UNCHANGED <<stored, native, ended>> /\ live.turn = None
    BY <1>6 DEF StartTurn
  <2>. QED  BY <1>0, <1>5, <2>1, StoreStays
<1>7. CASE RecordTurn
  <2>1. UNCHANGED <<stored, live, ended>>
    BY <1>7 DEF RecordTurn, histories
  <2>2. \A t \in Turns : t \in Elements(native'[stored.session]) =>
           t \in Elements(native[stored.session]) \/ t = live'.turn
    <3>1. native[stored.session] \in Seq(Turns \cup {None}) /\ live.turn \in Turns \cup {None}
      BY SeqMonotonic DEF Types
    <3>2. \/ native'[stored.session] = native[stored.session]
          \/ native'[stored.session] = Append(native[stored.session], live.turn)
      BY <1>7 DEF RecordTurn, Types
    <3>. QED  BY <2>1, <3>1, <3>2, AppendedIs
  <2>. QED  BY <1>0, <2>1, <2>2, StoreStays
<1>8. CASE EndTurn
  <2>1. UNCHANGED <<stored, native>>
    BY <1>8 DEF EndTurn
  <2>2. CASE fault
    <3>1. /\ live'.turn = None /\ live.turn \in crossed' /\ ended' = ended
      BY <1>8, <2>2 DEF EndTurn, NoTurn
    <3>. QED  BY <1>0, <1>5, <2>1, <3>1, StoreStays
  <2>3. CASE ~fault
    <3>1. /\ live'.turn = live.turn /\ ended' = ended \cup {live.turn}
      BY <1>8, <2>3 DEF EndTurn, Types
    <3>. QED  BY <1>0, <2>1, <3>1, StoreStays
  <2>. QED  BY <2>2, <2>3
<1>9. CASE EndUnnamed \/ Crash
  <2>1. /\ UNCHANGED <<stored, native, ended>> /\ live' = NoTurn
        /\ live.turn # None => live.turn \in crossed'
    <3>1. CASE EndUnnamed
      BY <3>1 DEF EndUnnamed
    <3>2. CASE Crash
      BY <3>2 DEF Crash
    <3>. QED  BY <1>9, <3>1, <3>2
  <2>2. live'.turn = None
    BY <2>1 DEF NoTurn
  <2>. QED  BY <1>0, <1>5, <2>1, <2>2, StoreStays
<1>10. ASSUME NEW c \in Rollbacks, NEW s \in Sessions, OpenWithout(c, s) PROVE StoreInv'
  <2>1. UNCHANGED <<stored, live, ended>> /\ native'[stored.session] = native[stored.session]
    BY <1>10 DEF OpenWithout, histories, Types
  <2>. QED  BY <1>0, <2>1, StoreStays
<1>11. CASE UNCHANGED vars
  BY <1>4, <1>11 DEF vars
<1>12. CASE \E c \in Lives : LiveChild(c)
  BY <1>4, <1>12 DEF LiveChild
<1>13. CASE \E c \in Calls : Begin(c) \/ TakeSnapshot(c) \/ Refuse(c) \/ Align(c)
  BY <1>4, <1>13 DEF Begin, TakeSnapshot, Refuse, Align, histories
<1>14. CASE \E c \in Reads : Restore(c)
  BY <1>4, <1>14 DEF Restore, histories
<1>15. CASE \E c \in Rollbacks : RunNote(c)
  BY <1>4, <1>15 DEF RunNote
<1>16. ASSUME NEW c \in Callers, Materialize(c) PROVE StoreInv'
  <2>1. UNCHANGED <<stored, live, native, ended>>
    BY <1>16 DEF Materialize, RunCreate, RunCommit, RunRebind, RunFails
  <2>. QED  BY <1>4, <2>1
<1>. QED
  BY <1>1, <1>2, <1>3, <1>6, <1>7, <1>8, <1>9, <1>10, <1>11, <1>12, <1>13, <1>14, <1>15,
     <1>16 DEF Next, Read, Rollback

-----------------------------------------------------------------------------
(* The steps, by what they do to the calls.                                *)

(* The invariant before a step, and what is known after it.                *)
Between == Types /\ Types' /\ Grown /\ HistoryInv /\ StoreInv'

(* A mutation of a materialization changes the child it waits for.         *)
ChildMoves(c) ==
  \/ child' = child
  \/ mat[c].step = "commit" /\ child' = Committed(mat[c].home, call[c].base.session)
  \/ /\ mat[c].step = "rebind" /\ child' = Rebound(mat[c].home, call[c].base.session)
     /\ MayRebind(mat[c].home, call[c].base.session, mat[c].previous, stored.session)

EventMove(c, stage, record, previous, t) ==
  /\ stage = "event" /\ c \in Lives /\ stored' = stored
  /\ \/ mat[c].step # "nothing" /\ Over(c, stage, record)
     \/ /\ record = mem[loaded] /\ previous = None
        /\ t = live.turn /\ t \in Spawning /\ live.phase = "running"

ReadMove(c, stage, record, previous, t) ==
  /\ stage = "projecting" /\ c \in Calls
  /\ call[c].pc \in {"taken", "aligning", "projecting"}
  /\ stored' = stored \/ (At(c, "aligning") /\ record = stored')
  /\ GoodIn(record, native', stored', crossed')
  /\ record.session # call[c].session =>
       record.turns = <<>> /\ call[c].session # stored.session
  /\ record.session \in {call[c].session, stored.session} \/ record = mem[call[c].session]
  /\ At(c, "projecting") => record = call[c].base
  /\ \/ Over(c, stage, record)
     \/ /\ record.session = call[c].session /\ previous = None
        /\ t \in Elements(call[c].snap) \cap Spawning

RollbackMove(c, stage, record, previous, t) ==
  /\ stage = "retaining" /\ c \in Rollbacks /\ stored' = stored
  /\ GoodIn(record, native', stored', crossed')
  /\ record.session = call[c].session /\ call[c].session = stored.session
  /\ \/ At(c, "noting") /\ record = Retained(c)
     \/ At(c, "retaining") /\ record = call[c].base
  /\ \/ Over(c, stage, record)
     \/ /\ At(c, "noting") /\ previous = call[c].base.session
        /\ t \in Elements(call[c].snap) \cap Spawning

Moves(c, stage, record, previous, t) ==
  /\ record \in Records
  /\ UNCHANGED <<native, live, begun, ended>> /\ crossed \subseteq crossed'
  /\ Requeued(c) /\ ChildMoves(c)
  /\ stored'.session = stored.session
  /\ Over(c, stage, record) \/ Waits(c, stage, record, previous, t)
  /\ \/ EventMove(c, stage, record, previous, t)
     \/ ReadMove(c, stage, record, previous, t)
     \/ RollbackMove(c, stage, record, previous, t)

(* A call gives up.                                                        *)
Drops(c) ==
  /\ call[c].pc \in {"reading", "taken", "aligning", "opening", "replacing"}
  /\ Ends(c) /\ Requeued(c)
  /\ UNCHANGED <<child, native, stored, mem, loaded, live, mat, begun, ended, crossed, apart>>

(* A read asks for the mappings of its snapshot to be stored.              *)
Asks(c) ==
  LET record == IF call[c].restores THEN call[c].base ELSE mem[call[c].session]
      turns == Aligned(c, record)
  IN  /\ At(c, "taken") /\ ~Foreign(c, record)
      /\ crossed' = crossed \cup Endangered(c, record)
      /\ call' = [call EXCEPT ![c].pc = "aligning", ![c].base = [record EXCEPT !.turns = turns]]
      /\ writes' = Append(writes, c)
      /\ UNCHANGED <<child, native, stored, mem, loaded, live, mat, begun, ended, apart>>

(* A rollback is stored.                                                   *)
Replaces(c) ==
  /\ At(c, "replacing") /\ MayReplace(c) /\ Runs(c)
  /\ stored' = Retained(c)
  /\ call' = [call EXCEPT ![c].pc = "noting"]
  /\ writes' = Append(Popped, c)
  /\ UNCHANGED <<child, native, mem, loaded, live, mat, begun, ended, crossed, apart>>

(* The child is created, and is to be committed.                           *)
Creates(c) ==
  /\ mat[c].step = "create" /\ Requeued(c)
  /\ \E h \in Homes :
       /\ \/ /\ h \in Unused /\ child' = Created(h, call[c].base.session, mat[c].of)
             /\ ByRequest(call[c].base.session) = {}
          \/ h \in ByRequest(call[c].base.session) /\ child' = child
       /\ mat' = [mat EXCEPT ![c].step = "commit", ![c].home = h]
  /\ UNCHANGED <<native, stored, mem, loaded, live, call, begun, ended, crossed, apart>>

(* The output event of a live Turn.                                        *)
LEMMA MoveLive ==
  ASSUME Between, NEW c \in Lives, LiveChild(c)
  PROVE  Moves(c, "event", mem[loaded], None, live.turn)
<1>1. c \in Callers /\ loaded \in Sessions /\ mem[loaded] \in Records
  BY DEF LiveChild, Callers, TurnsInv, Types, Between, HistoryInv
<1>2. \/ Over(c, "event", mem[loaded]) /\ writes' = writes
      \/ Waits(c, "event", mem[loaded], None, live.turn) /\ writes' = Append(writes, c)
  BY <1>1, ProjectIs DEF LiveChild
<1>3. /\ UNCHANGED <<child, native, stored, live, begun, ended, crossed>>
      /\ live.turn \in Spawning /\ live.phase = "running"
  BY DEF LiveChild
<1>. QED  BY <1>1, <1>2, <1>3 DEF Moves, EventMove, Requeued, ChildMoves

(* A read or rollback that aligns its snapshot.                            *)
LEMMA MoveAlign ==
  ASSUME Between, NEW c \in Calls, Align(c)
  PROVE  \/ Drops(c) \/ Asks(c)
         \/ \E record, t : Moves(c, "projecting", record, None, t)
<1>. DEFINE record == IF call[c].restores THEN call[c].base ELSE mem[call[c].session]
            turns == Aligned(c, record)
<1>1. /\ At(c, "taken") /\ UNCHANGED <<child, native, stored, live, begun, ended>>
  BY DEF Align
<1>2. c \in Callers /\ record \in Records
  <2>1. ~call[c].restores => call[c].session \in Sessions
    BY <1>1 DEF Between, HistoryInv, CallsInv, ReadInv
  <2>. QED  BY <2>1, CallHas DEF Types, Between, Callers
<1>3. /\ Good(record)
      /\ record.session # call[c].session =>
           record.turns = <<>> /\ call[c].session # stored.session
      /\ record.session \in {call[c].session, stored.session} \/ record = mem[call[c].session]
  <2>1. CASE call[c].restores
    BY <1>1, <2>1 DEF Between, HistoryInv, CallsInv, ReadInv
  <2>2. CASE ~call[c].restores
    <3>1. call[c].session \in Sessions /\ mem[call[c].session] # NoRecord
      BY <1>1, <2>2 DEF Between, HistoryInv, CallsInv, ReadInv
    <3>. QED  BY <2>2, <3>1 DEF Between, HistoryInv, MemInv
  <2>. QED  BY <2>1, <2>2
<1>. HIDE DEF record
<1>4. CASE Fail(c) /\ UNCHANGED <<mat, writes, crossed, apart>>
  BY <1>1, <1>4 DEF Drops, Fail, Ends, Requeued
<1>5. CASE /\ ~Foreign(c, record) /\ crossed' = crossed \cup Endangered(c, record)
           /\ Project(c, "projecting", record, None, SpawnedIn(call[c].snap), writes)
  <2>. DEFINE t == SpawnedIn(call[c].snap)
  <2>1. \/ Over(c, "projecting", record) /\ writes' = writes
        \/ Waits(c, "projecting", record, None, t) /\ writes' = Append(writes, c)
    BY <1>2, <1>5, ProjectIs
  <2>2. GoodIn(record, native', stored', crossed')
    BY <1>2, <1>3, GoodAges DEF Between, Good
  <2>3. t # None =>
          t \in Elements(call[c].snap) \cap Spawning /\ record.session = call[c].session
    <3>. SUFFICES ASSUME t # None
                  PROVE  t \in Elements(call[c].snap) \cap Spawning
                         /\ record.session = call[c].session
      OBVIOUS
    <3>1. t \in Elements(call[c].snap) \cap Spawning
      BY SpawnedIs
    <3>2. call[c].snap # <<>>
      BY <3>1
    <3>. QED  BY <1>5, <3>1, <3>2 DEF Foreign
  <2>. HIDE DEF t
  <2>4. ReadMove(c, "projecting", record, None, t)
    BY <1>1, <1>3, <2>1, <2>2, <2>3 DEF ReadMove, Waits
  <2>5. Moves(c, "projecting", record, None, t)
    BY <1>1, <1>2, <1>5, <2>1, <2>4 DEF Moves, Requeued, ChildMoves
  <2>. QED  BY <2>5
<1>6. CASE /\ ~Foreign(c, record) /\ crossed' = crossed \cup Endangered(c, record)
           /\ call' = [call EXCEPT ![c].pc = "aligning",
                                   ![c].base = [record EXCEPT !.turns = turns]]
           /\ writes' = Append(writes, c)
           /\ UNCHANGED <<mem, loaded, fault, mat, apart>>
  BY <1>1, <1>6 DEF Asks, record
<1>. QED  BY <1>4, <1>5, <1>6 DEF Align, record

(* One whose mappings are reconciled with the stored ones.                 *)
LEMMA MoveReconcile ==
  ASSUME Between, NEW c \in Calls, RunReconcile(c)
  PROVE  Drops(c) \/ \E record, t : Moves(c, "projecting", record, None, t)
<1>. DEFINE turns == call[c].base.turns
            snap == call[c].snap
<1>1. /\ At(c, "aligning") /\ Runs(c)
      /\ UNCHANGED <<child, native, live, begun, ended, crossed>>
  BY DEF RunReconcile
<1>2. /\ c \in Callers /\ turns \in Seq(Mappings) /\ snap \in Seq(Turns)
  BY CallHas, RecordHas DEF Callers, Between
<1>3. CASE Fail(c) /\ writes' = Popped /\ UNCHANGED <<stored, mat, apart>>
  BY <1>1, <1>3 DEF Drops, Fail, Ends, Requeued
<1>4. CASE /\ MayReconcile(turns, call[c].base.session)
           /\ stored' = Reconciled(turns)
           /\ Project(c, "projecting", stored', None, SpawnedIn(snap), Popped)
  <2>. DEFINE t == SpawnedIn(snap)
  <2>1. \/ Over(c, "projecting", stored') /\ writes' = Popped
        \/ Waits(c, "projecting", stored', None, t) /\ writes' = Append(Popped, c)
    BY <1>2, <1>4, ProjectIs
  <2>2. /\ stored' \in Records /\ stored'.session = stored.session
        /\ stored'.turns = turns
    <3>1. stored \in Records
      BY DEF Between, Types
    <3>2. CASE stored.turns = turns
      BY <1>4, <3>1, <3>2 DEF Reconciled
    <3>3. CASE stored.turns # turns
      <4>1. stored' = [stored EXCEPT !.turns = turns, !.revision = @ + 1]
        BY <1>4, <3>3 DEF Reconciled
      <4>. HIDE DEF turns
      <4>. QED  BY <1>2, <3>1, <4>1, RecordStored
    <3>. QED  BY <3>2, <3>3
  <2>3. GoodIn(stored', native', stored', crossed')
    BY DEF Between, StoreInv, Good
  <2>4. /\ snap # <<>> => stored'.session = call[c].session
        /\ stored'.session # call[c].session => turns = <<>>
    <3>1. /\ Len(turns) = Len(snap)
          /\ snap # <<>> => call[c].base.session = call[c].session
      BY <1>1 DEF Between, HistoryInv, CallsInv, ReadInv
    <3>2. snap # <<>> <=> turns # <<>>
      BY <1>2, <3>1
    <3>3. turns # <<>> => call[c].base.session = stored.session
      BY <1>4 DEF MayReconcile
    <3>. QED  BY <2>2, <3>1, <3>2, <3>3
  <2>5. t # None =>
          t \in Elements(snap) \cap Spawning /\ stored'.session = call[c].session
    <3>1. t # None => t \in Elements(snap) \cap Spawning
      BY SpawnedIs
    <3>2. t \in Elements(snap) => snap # <<>>
      OBVIOUS
    <3>. QED  BY <2>4, <3>1, <3>2
  <2>. HIDE DEF t
  <2>6. ReadMove(c, "projecting", stored', None, t)
    BY <1>1, <2>1, <2>2, <2>3, <2>4, <2>5 DEF ReadMove, Waits
  <2>7. Moves(c, "projecting", stored', None, t)
    BY <1>1, <2>1, <2>2, <2>6 DEF Moves, Requeued, ChildMoves
  <2>. QED  BY <2>7
<1>. QED  BY <1>3, <1>4 DEF RunReconcile

(* A rollback that is stored.                                              *)
LEMMA MoveReplace ==
  ASSUME NEW c \in Rollbacks, RunReplace(c)
  PROVE  Drops(c) \/ Replaces(c)
BY DEF RunReplace, Drops, Replaces, Fail, Ends, Requeued

(* A rollback that moves the children along.                               *)
LEMMA MoveNote ==
  ASSUME Between, NEW c \in Rollbacks, RunNote(c)
  PROVE  \E record, previous, t : Moves(c, "retaining", record, previous, t)
<1>. DEFINE t == SpawnedIn(call[c].snap)
            previous == call[c].base.session
<1>1. /\ At(c, "noting") /\ Runs(c)
      /\ UNCHANGED <<child, native, stored, live, begun, ended, crossed>>
  BY DEF RunNote
<1>2. c \in Callers /\ c \in Calls
  BY DEF Callers, Calls
<1>3. /\ Shorter(c) /\ Good(Retained(c)) /\ call[c].session = stored.session
  BY <1>1, <1>2 DEF Between, HistoryInv, CallsInv, RollbackInv
<1>4. Retained(c) \in Records /\ Retained(c).session = call[c].session
  BY <1>2, <1>3, RetainedTyped DEF Retained, Between
<1>5. \/ Over(c, "retaining", Retained(c)) /\ writes' = Popped
      \/ Waits(c, "retaining", Retained(c), previous, t) /\ writes' = Append(Popped, c)
  BY <1>2, ProjectIs DEF RunNote
<1>6. GoodIn(Retained(c), native', stored', crossed')
  BY <1>3, <1>4, GoodAges DEF Between, Good
<1>7. t # None => t \in Elements(call[c].snap) \cap Spawning
  BY SpawnedIs
<1>. HIDE DEF t
<1>8. RollbackMove(c, "retaining", Retained(c), previous, t)
  BY <1>1, <1>3, <1>4, <1>5, <1>6, <1>7 DEF RollbackMove, Waits
<1>9. Moves(c, "retaining", Retained(c), previous, t)
  BY <1>1, <1>4, <1>5, <1>8 DEF Moves, Requeued, ChildMoves
<1>. QED  BY <1>9

(* A mutation of a materialization, and what its caller makes of it.       *)
LEMMA MoveMaterialize ==
  ASSUME Between, \A d \in Callers : MatInv(d), NEW c \in Callers, Materialize(c)
  PROVE  Creates(c) \/ \E stage, record, previous, t : Moves(c, stage, record, previous, t)
<1>1. /\ mat[c].step # "nothing" /\ Runs(c)
      /\ UNCHANGED <<native, stored, live, begun, ended, crossed>>
      /\ call[c].base \in Records
  BY CallHas DEF Materialize, RunCreate, RunCommit, RunRebind, RunFails, Between
<1>2. ASSUME NEW ok \in BOOLEAN, Finished(c, ok), ChildMoves(c)
      PROVE  \E stage, record, previous, t : Moves(c, stage, record, previous, t)
  <2>. DEFINE stage == Stage(c)
              record == call[c].base
  <2>1. Over(c, stage, record) /\ writes' = Popped
    BY <1>2, ProjectedIsOver DEF Finished, Record
  <2>. HIDE DEF stage
  <2>2. CASE c \in Lives
    <3>1. stage = "event"
      BY <2>2 DEF Stage, stage
    <3>2. EventMove(c, stage, record, None, None)
      BY <1>1, <2>1, <2>2, <3>1 DEF EventMove
    <3>3. Moves(c, stage, record, None, None)
      BY <1>1, <1>2, <2>1, <3>2 DEF Moves, Requeued
    <3>. QED  BY <3>3
  <2>3. CASE c \in Calls
    <3>1. /\ stage = call[c].pc /\ stage \in {"projecting", "retaining"}
          /\ record.session \in Sessions
      <4>1. c \notin Lives
        BY <2>3, HistoryAssumption
      <4>2. stage = call[c].pc
        BY <4>1 DEF Stage, stage
      <4>3. MatInv(c)
        OBVIOUS
      <4>. QED  BY <1>1, <2>3, <4>2, <4>3 DEF MatInv
    <3>2. CASE stage = "projecting"
      <4>1. Good(record) /\ record.session = call[c].session
        BY <2>3, <3>1, <3>2 DEF Between, HistoryInv, CallsInv, ReadInv
      <4>2. GoodIn(record, native', stored', crossed')
        BY <1>1, <4>1, GoodAges DEF Between, Good
      <4>3. ReadMove(c, stage, record, None, None)
        BY <1>1, <2>1, <2>3, <3>1, <3>2, <4>1, <4>2 DEF ReadMove
      <4>4. Moves(c, stage, record, None, None)
        BY <1>1, <1>2, <2>1, <4>3 DEF Moves, Requeued
      <4>. QED  BY <4>4
    <3>3. CASE stage = "retaining"
      <4>1. /\ c \in Rollbacks /\ Good(record) /\ record.session = call[c].session
            /\ call[c].session = stored.session
        BY <2>3, <3>1, <3>3 DEF Between, HistoryInv, CallsInv, RollbackInv
      <4>2. GoodIn(record, native', stored', crossed')
        BY <1>1, <4>1, GoodAges DEF Between, Good
      <4>3. RollbackMove(c, stage, record, None, None)
        BY <1>1, <2>1, <3>1, <3>3, <4>1, <4>2 DEF RollbackMove
      <4>4. Moves(c, stage, record, None, None)
        BY <1>1, <1>2, <2>1, <4>3 DEF Moves, Requeued
      <4>. QED  BY <4>4
    <3>. QED  BY <3>1, <3>2, <3>3
  <2>. QED  BY <2>2, <2>3 DEF Callers
<1>3. CASE RunCreate(c)
  <2>1. CASE Finished(c, TRUE) /\ UNCHANGED child
    BY <1>2, <2>1 DEF ChildMoves
  <2>2. CASE \E h \in IF Repeated(c) = {} THEN Unused ELSE Repeated(c) :
              /\ child' = IF h \in Unused THEN Created(h, Record(c).session, mat[c].of)
                          ELSE child
              /\ mat' = [mat EXCEPT ![c].step = "commit", ![c].home = h]
              /\ writes' = Append(Popped, c)
              /\ UNCHANGED <<call, mem, loaded, fault, apart>>
    <3>1. PICK h \in IF Repeated(c) = {} THEN Unused ELSE Repeated(c) :
              /\ child' = IF h \in Unused THEN Created(h, Record(c).session, mat[c].of)
                          ELSE child
              /\ mat' = [mat EXCEPT ![c].step = "commit", ![c].home = h]
              /\ writes' = Append(Popped, c)
              /\ UNCHANGED <<call, mem, loaded, fault, apart>>
      BY <2>2
    <3>2. /\ h \in Homes
          /\ \/ h \in Unused /\ ByRequest(call[c].base.session) = {}
             \/ h \in ByRequest(call[c].base.session)
      BY DEF Unused, Repeated, Record, ByRequest
    <3>3. mat[c].step = "create" /\ Requeued(c)
      BY <1>1, <1>3, <3>1 DEF RunCreate, Requeued
    <3>4. \/ /\ h \in Unused /\ child' = Created(h, call[c].base.session, mat[c].of)
             /\ ByRequest(call[c].base.session) = {}
          \/ h \in ByRequest(call[c].base.session) /\ child' = child
      BY <3>1, <3>2 DEF Record, Unused, ByRequest
    <3>. QED  BY <1>1, <3>1, <3>2, <3>3, <3>4 DEF Creates
  <2>. QED  BY <1>3, <2>1, <2>2 DEF RunCreate
<1>4. CASE RunCommit(c)
  BY <1>2, <1>4 DEF RunCommit, ChildMoves, Record
<1>5. CASE RunRebind(c)
  <2>1. \E ok \in BOOLEAN : Finished(c, ok)
    BY <1>5 DEF RunRebind, MayRebind
  <2>2. ChildMoves(c)
    BY <1>5 DEF RunRebind, ChildMoves, Record
  <2>. QED  BY <1>2, <2>1, <2>2
<1>6. CASE RunFails(c)
  BY <1>2, <1>6 DEF RunFails, ChildMoves
<1>. QED  BY <1>3, <1>4, <1>5, <1>6 DEF Materialize

(* The steps of the calls and events of the Thread.                        *)
Proceeds(c) ==
  \/ Drops(c) \/ Asks(c) \/ Creates(c)
  \/ \E stage, record, previous, t : Moves(c, stage, record, previous, t)

(* Every step is one of these.                                             *)
LEMMA StepIs ==
  ASSUME Between, \A d \in Callers : MatInv(d), [Next]_vars
  PROVE  \/ UNCHANGED vars \/ Crash
         \/ \E t \in Turns : StartTurn(t)
         \/ RecordTurn \/ EndTurn \/ EndUnnamed \/ RunPersist
         \/ \E c \in Calls : Begin(c) \/ TakeSnapshot(c)
         \/ \E c \in Reads : Restore(c)
         \/ \E c \in Rollbacks : Replaces(c) \/ \E s \in Sessions : OpenWithout(c, s)
         \/ \E c \in Callers : Proceeds(c)
<1>. USE DEF Proceeds
<1>1. Lives \subseteq Callers /\ Calls \subseteq Callers /\ Rollbacks \subseteq Callers
  BY DEF Callers, Calls
<1>2. ASSUME NEW c \in Lives, LiveChild(c) PROVE \E d \in Callers : Proceeds(d)
  BY <1>1, <1>2, MoveLive
<1>3. ASSUME NEW c \in Calls, Align(c) PROVE \E d \in Callers : Proceeds(d)
  BY <1>1, <1>3, MoveAlign
<1>4. ASSUME NEW c \in Calls, RunReconcile(c) PROVE \E d \in Callers : Proceeds(d)
  BY <1>1, <1>4, MoveReconcile
<1>5. ASSUME NEW c \in Calls, Refuse(c) PROVE \E d \in Callers : Proceeds(d)
  <2>1. Drops(c)
    BY <1>5 DEF Refuse, Drops, Fail, Ends, Requeued, histories
  <2>. QED  BY <1>1, <2>1
<1>6. ASSUME NEW c \in Rollbacks, RunReplace(c)
      PROVE  Replaces(c) \/ \E d \in Callers : Proceeds(d)
  BY <1>1, <1>6, MoveReplace
<1>7. ASSUME NEW c \in Rollbacks, RunNote(c) PROVE \E d \in Callers : Proceeds(d)
  BY <1>1, <1>7, MoveNote
<1>8. ASSUME NEW c \in Callers, Materialize(c) PROVE \E d \in Callers : Proceeds(d)
  BY <1>8, MoveMaterialize
<1>. HIDE DEF Proceeds
<1>. QED
  BY <1>2, <1>3, <1>4, <1>5, <1>6, <1>7, <1>8 DEF Next, Read, Rollback

-----------------------------------------------------------------------------
(* What the steps of the calls leave alone.                                *)

(* A restore runs while no object is loaded.                               *)
LEMMA RestoreIs ==
  ASSUME Between, NEW c \in Callers, call[c].restores
  PROVE  /\ c \in Reads /\ loaded = None /\ live.turn = None
         /\ call[c].session = stored.session
BY DEF Between, HistoryInv, Orderly, TurnsInv

(* Any other call runs while one is.                                       *)
LEMMA BusyIs ==
  ASSUME Between, NEW c \in Calls, Busy(c), ~call[c].restores
  PROVE  loaded \in Sessions /\ loaded # None
BY DEF Between, HistoryInv, Orderly, Types, Callers

(* The loaded object changes only while no Turn is under way.              *)
LEMMA MovesLoaded ==
  ASSUME Between, NEW c \in Callers, NEW stage, NEW record, NEW previous, NEW t,
         Moves(c, stage, record, previous, t)
  PROVE  /\ loaded' = loaded \/ live.turn = None
         /\ \/ loaded' = loaded
            \/ call[c].restores /\ stage = "projecting"
               /\ loaded' = call[c].session /\ mem' = [mem EXCEPT ![call[c].session] = record]
            \/ stage = "retaining" /\ loaded' = record.session
               /\ mem' = [mem EXCEPT ![record.session] = record]
<1>1. CASE Over(c, stage, record)
  <2>1. CASE Leaves(c, stage, record)
    BY <2>1 DEF Leaves
  <2>2. CASE Adopts(c, stage, record)
    BY <2>2, RestoreIs DEF Adopts
  <2>3. CASE TakesOver(c, stage, record)
    BY <2>3 DEF TakesOver
  <2>. QED  BY <1>1, <2>1, <2>2, <2>3 DEF Over
<1>2. CASE Waits(c, stage, record, previous, t)
  BY <1>2 DEF Waits
<1>. QED  BY <1>1, <1>2 DEF Moves

-----------------------------------------------------------------------------
(* The Turns.                                                              *)

(* The Turns are right as long as nothing is done about them.              *)
LEMMA TurnsStay ==
  ASSUME TurnsInv, UNCHANGED <<native, live, begun, ended>>, crossed \subseteq crossed',
         loaded' = loaded \/ live.turn = None,
         Queued(Terminal)' => Queued(Terminal), EndsOnce => EndsOnce',
         live.turn = None => live.turn \notin begun
  PROVE  TurnsInv'
<1>1. \A s \in Sessions : Elements(native[s]) \subseteq begun
  BY DEF TurnsInv
<1>2. /\ \A s \in Sessions : Unrepeated(native[s])
      /\ begun \subseteq ended \cup crossed \cup {live.turn}
      /\ ended \subseteq begun
      /\ live.turn = None <=> live.phase = "idle"
      /\ live.turn # None => loaded # None /\ live.turn \in begun
      /\ \A s \in Sessions :
           live.turn \in Elements(native[s]) =>
             s = loaded /\ native[s][Len(native[s])] = live.turn
      /\ live.phase = "running" => live.turn \notin ended
      /\ live.phase = "ending" => live.turn \in Elements(native[loaded]) \cap ended
      /\ Queued(Terminal) => live.phase = "ending"
      /\ EndsOnce
  BY DEF TurnsInv
<1>3. CASE loaded' = loaded
  BY <1>1, <1>2, <1>3 DEF TurnsInv
<1>4. CASE live.turn = None
  <2>1. \A s \in Sessions : live.turn \notin Elements(native[s])
    BY <1>1, <1>4
  <2>2. live.phase = "idle"
    BY <1>2, <1>4
  <2>. QED  BY <1>1, <1>2, <1>4, <2>1, <2>2 DEF TurnsInv
<1>. QED  BY <1>3, <1>4

(* Every step keeps the Turns right.                                       *)
LEMMA TurnsStep ==
  ASSUME Between, \A d \in Callers : MatInv(d), [Next]_vars
  PROVE  TurnsInv'
<1>. USE DEF Between, HistoryInv
<1>0. /\ TurnsInv /\ None \notin Turns /\ None \notin begun /\ begun \subseteq Turns
      /\ live.turn \in Turns \cup {None} /\ loaded \in Sessions \cup {None}
      /\ None \notin Sessions
      /\ \A s \in Sessions : native[s] \in Seq(Turns)
      /\ writes \in Seq(Callers \cup {Terminal}) /\ Terminal \notin Callers
      /\ native \in [Sessions -> Seq(Turns)]
  BY SubagentsAssumption, HistoryAssumption DEF Types
<1>1. ASSUME NEW c \in Callers, Requeued(c)
      PROVE  (Queued(Terminal)' => Queued(Terminal)) /\ (EndsOnce => EndsOnce')
  BY <1>1, QueueKeeps
<1>2. ASSUME NEW c \in Callers, Proceeds(c) PROVE TurnsInv'
  <2>1. CASE Drops(c)
    <3>1. Requeued(c) /\ UNCHANGED <<native, live, begun, ended, crossed, loaded>>
      BY <2>1 DEF Drops
    <3>. QED  BY <1>0, <1>1, <3>1, TurnsStay
  <2>2. CASE Asks(c)
    <3>1. /\ Requeued(c) /\ UNCHANGED <<native, live, begun, ended, loaded>>
          /\ crossed \subseteq crossed'
      BY <2>2 DEF Asks, Requeued
    <3>. QED  BY <1>0, <1>1, <3>1, TurnsStay
  <2>3. CASE Creates(c)
    <3>1. Requeued(c) /\ UNCHANGED <<native, live, begun, ended, crossed, loaded>>
      BY <2>3 DEF Creates
    <3>. QED  BY <1>0, <1>1, <3>1, TurnsStay
  <2>4. ASSUME NEW stage, NEW record, NEW previous, NEW t, Moves(c, stage, record, previous, t)
        PROVE  TurnsInv'
    <3>1. /\ Requeued(c) /\ UNCHANGED <<native, live, begun, ended>>
          /\ crossed \subseteq crossed'
      BY <2>4 DEF Moves
    <3>2. loaded' = loaded \/ live.turn = None
      BY <2>4, MovesLoaded
    <3>. QED  BY <1>0, <1>1, <3>1, <3>2, TurnsStay
  <2>. QED  BY <1>2, <2>1, <2>2, <2>3, <2>4 DEF Proceeds
<1>3. ASSUME NEW c \in Rollbacks, Replaces(c) PROVE TurnsInv'
  <2>1. c \in Callers /\ Requeued(c) /\ UNCHANGED <<native, live, begun, ended, crossed, loaded>>
    BY <1>3 DEF Replaces, Requeued, Callers, Calls
  <2>. QED  BY <1>0, <1>1, <2>1, TurnsStay
<1>4. CASE UNCHANGED <<native, live, begun, ended, crossed, loaded, writes>>
  <2>1. (Queued(Terminal)' => Queued(Terminal)) /\ (EndsOnce => EndsOnce')
    BY <1>4 DEF Queued, EndsOnce
  <2>. QED  BY <1>0, <1>4, <2>1, TurnsStay
<1>5. CASE \/ UNCHANGED vars
           \/ \E c \in Calls : Begin(c) \/ TakeSnapshot(c)
           \/ \E c \in Reads : Restore(c)
  BY <1>4, <1>5 DEF vars, Begin, TakeSnapshot, Restore, histories
<1>6. ASSUME NEW t \in Turns, StartTurn(t) PROVE TurnsInv'
  <2>1. /\ loaded # None /\ live.turn = None /\ t \notin begun
        /\ live'.turn = t /\ live'.phase = "running" /\ begun' = begun \cup {t}
        /\ UNCHANGED <<native, loaded, writes, ended, crossed>>
    BY <1>6 DEF StartTurn
  <2>2. Queued(Terminal)' = Queued(Terminal) /\ EndsOnce' = EndsOnce
    BY <2>1 DEF Queued, EndsOnce
  <2>3. \A s \in Sessions : t \notin Elements(native[s])
    BY <2>1 DEF TurnsInv
  <2>. QED  BY <1>0, <2>1, <2>2, <2>3 DEF TurnsInv
<1>7. CASE RecordTurn
  <2>1. /\ live.phase = "running" /\ live.turn \in Turns /\ loaded \in Sessions
        /\ live.turn \notin Elements(native[loaded])
        /\ native' = [native EXCEPT ![loaded] = Append(@, live.turn)]
        /\ UNCHANGED <<loaded, live, writes, begun, ended, crossed>>
    BY <1>0, <1>7 DEF RecordTurn, histories, TurnsInv
  <2>2. Queued(Terminal)' = Queued(Terminal) /\ EndsOnce' = EndsOnce
    BY <2>1 DEF Queued, EndsOnce
  <2>. DEFINE seq == Append(native[loaded], live.turn)
  <2>3. /\ seq \in Seq(Turns) /\ Len(seq) = Len(native[loaded]) + 1
        /\ DOMAIN seq = DOMAIN native[loaded] \cup {Len(native[loaded]) + 1}
        /\ seq[Len(native[loaded]) + 1] = live.turn
        /\ \A i \in DOMAIN native[loaded] : seq[i] = native[loaded][i]
    BY <1>0, <2>1, AppendedIs
  <2>. HIDE DEF seq
  <2>4. native'[loaded] = seq /\ \A s \in Sessions \ {loaded} : native'[s] = native[s]
    BY <1>0, <2>1 DEF seq
  <2>5. Unrepeated(seq) /\ Elements(seq) \subseteq begun
    <3>1. Unrepeated(native[loaded]) /\ Elements(native[loaded]) \subseteq begun
          /\ live.turn \in begun
      BY <2>1 DEF TurnsInv
    <3>. QED  BY <2>1, <2>3, <3>1 DEF Unrepeated
  <2>6. live.turn \in Elements(seq) /\ seq[Len(seq)] = live.turn
    BY <2>3
  <2>7. \A s \in Sessions : Unrepeated(native'[s]) /\ Elements(native'[s]) \subseteq begun
    BY <2>4, <2>5 DEF TurnsInv
  <2>8. \A s \in Sessions :
          live.turn \in Elements(native'[s]) =>
            s = loaded /\ native'[s][Len(native'[s])] = live.turn
    <3>. SUFFICES ASSUME NEW s \in Sessions, live.turn \in Elements(native'[s])
                  PROVE  s = loaded /\ native'[s][Len(native'[s])] = live.turn
      OBVIOUS
    <3>1. CASE s = loaded
      BY <2>4, <2>6, <3>1
    <3>2. CASE s # loaded
      <4>1. live.turn \in Elements(native[s])
        BY <2>4, <3>2
      <4>2. s = loaded
        BY <4>1, <1>0 DEF TurnsInv
      <4>. QED  BY <3>2, <4>2
    <3>. QED  BY <3>1, <3>2
  <2>9. /\ begun \subseteq ended \cup crossed \cup {live.turn} /\ ended \subseteq begun
        /\ live.turn = None <=> live.phase = "idle"
        /\ live.turn # None => loaded # None /\ live.turn \in begun
        /\ live.turn \notin ended /\ ~Queued(Terminal) /\ EndsOnce
    BY <1>0, <2>1 DEF TurnsInv
  <2>. HIDE DEF HistoryInv, Between
  <2>. QED  BY <2>1, <2>2, <2>7, <2>8, <2>9 DEF TurnsInv
<1>8. CASE EndTurn
  <2>1. /\ live.phase = "running" /\ live.turn \in Elements(native[loaded])
        /\ UNCHANGED <<native, loaded, begun>>
    BY <1>8 DEF EndTurn
  <2>2. CASE fault
    <3>1. /\ live' = NoTurn /\ crossed' = crossed \cup {live.turn}
          /\ UNCHANGED <<writes, ended>>
      BY <1>8, <2>2 DEF EndTurn
    <3>2. Queued(Terminal)' = Queued(Terminal) /\ EndsOnce' = EndsOnce
      BY <3>1 DEF Queued, EndsOnce
    <3>3. \A s \in Sessions : None \notin Elements(native[s])
      BY <1>0 DEF TurnsInv
    <3>4. ~Queued(Terminal)
      BY <2>1 DEF TurnsInv
    <3>. QED  BY <1>0, <2>1, <3>1, <3>2, <3>3, <3>4 DEF TurnsInv, NoTurn
  <2>3. CASE ~fault
    <3>1. /\ live'.turn = live.turn /\ live'.phase = "ending"
          /\ writes' = Append(writes, Terminal)
          /\ ended' = ended \cup {live.turn} /\ crossed' = crossed
      BY <1>8, <2>3 DEF EndTurn, Types
    <3>2. EndsOnce'
      <4>1. \A i \in DOMAIN writes : writes[i] # Terminal
        BY <2>1 DEF TurnsInv, Queued
      <4>2. /\ DOMAIN writes' = DOMAIN writes \cup {Len(writes) + 1}
            /\ \A i \in DOMAIN writes : writes'[i] = writes[i]
        BY <1>0, <3>1, AppendedIs
      <4>. QED  BY <4>1, <4>2 DEF EndsOnce
    <3>. QED  BY <1>0, <2>1, <3>1, <3>2 DEF TurnsInv
  <2>. QED  BY <2>2, <2>3
<1>9. CASE EndUnnamed
  <2>1. /\ live.phase = "running" /\ live' = NoTurn /\ crossed' = crossed \cup {live.turn}
        /\ UNCHANGED <<native, loaded, begun, writes, ended>>
    BY <1>9 DEF EndUnnamed
  <2>2. Queued(Terminal)' = Queued(Terminal) /\ EndsOnce' = EndsOnce /\ ~Queued(Terminal)
    BY <2>1 DEF Queued, EndsOnce, TurnsInv
  <2>3. \A s \in Sessions : None \notin Elements(native[s])
    BY <1>0 DEF TurnsInv
  <2>. QED  BY <1>0, <2>1, <2>2, <2>3 DEF TurnsInv, NoTurn
<1>10. CASE RunPersist
  <2>1. /\ writes # <<>> /\ writes[1] = Terminal /\ writes' = Popped /\ live' = NoTurn
        /\ UNCHANGED <<native, loaded, begun, ended>> /\ crossed \subseteq crossed'
    BY <1>10 DEF RunPersist, Runs
  <2>2. 1 \in DOMAIN writes
    BY <1>0, <2>1
  <2>3. live.phase = "ending" /\ live.turn \in ended
    <3>1. Queued(Terminal)
      BY <2>1, <2>2 DEF Queued
    <3>. QED  BY <1>0, <3>1 DEF TurnsInv
  <2>4. \A i \in DOMAIN Popped : Popped[i] # Terminal
    <3>1. \A i \in DOMAIN Popped :
            i + 1 \in DOMAIN writes /\ Popped[i] = writes[i + 1] /\ i \in Nat \ {0}
      <4>1. Popped \in Seq(Callers \cup {Terminal})
        BY <2>1, PoppedIs
      <4>2. DOMAIN Popped = 1 .. Len(Popped) /\ Len(Popped) \in Nat
        BY <4>1, LenProperties
      <4>. QED  BY <2>1, <4>2, PoppedIs
    <3>2. \A j \in DOMAIN writes : writes[j] = Terminal => j = 1
      BY <1>0, <2>1, <2>2 DEF TurnsInv, EndsOnce
    <3>3. \A i \in Nat \ {0} : i + 1 # 1
      OBVIOUS
    <3>. QED  BY <3>1, <3>2, <3>3
  <2>5. ~Queued(Terminal)' /\ EndsOnce'
    BY <2>1, <2>4 DEF Queued, EndsOnce
  <2>6. begun \subseteq ended \cup crossed /\ ended \subseteq begun
    BY <1>0, <2>3 DEF TurnsInv
  <2>7. \A s \in Sessions : None \notin Elements(native[s])
    BY <1>0 DEF TurnsInv
  <2>. QED  BY <1>0, <2>1, <2>5, <2>6, <2>7 DEF TurnsInv, NoTurn
<1>11. ASSUME NEW c \in Rollbacks, NEW s \in Sessions, OpenWithout(c, s) PROVE TurnsInv'
  <2>. DEFINE source == native[call[c].base.session]
              kept == SubSeq(source, 1, Len(source) - 1)
  <2>1. /\ At(c, "opening") /\ native[s] = <<>> /\ source # <<>>
        /\ native' = [native EXCEPT ![s] = kept]
        /\ UNCHANGED <<live, begun, ended, crossed>>
    BY <1>11 DEF OpenWithout, histories
  <2>2. /\ c \in Callers /\ loaded' = loaded /\ Requeued(c)
    BY <1>11 DEF OpenWithout, Fail, Requeued, Callers, Calls
  <2>3. call[c].base.session \in Sessions
    BY <2>1 DEF CallsInv, RollbackInv, Good, GoodIn, Calls
  <2>4. /\ Len(source) \in Nat \ {0} /\ DOMAIN source = 1 .. Len(source)
        /\ DOMAIN kept = 1 .. Len(source) - 1
        /\ \A i \in DOMAIN kept : i \in DOMAIN source /\ kept[i] = source[i]
        /\ Len(source) \in DOMAIN source /\ Len(source) \notin DOMAIN kept
    BY <1>0, <2>1, <2>3
  <2>5. /\ Unrepeated(source) /\ Elements(source) \subseteq begun
        /\ live.turn \in Elements(source) => source[Len(source)] = live.turn
    BY <1>0, <2>3 DEF TurnsInv
  <2>. HIDE DEF source, kept
  <2>6. Unrepeated(kept) /\ Elements(kept) \subseteq begun /\ live.turn \notin Elements(kept)
    <3>1. Unrepeated(kept) /\ Elements(kept) \subseteq begun
      BY <2>4, <2>5 DEF Unrepeated
    <3>2. live.turn \notin Elements(kept)
      <4>. SUFFICES ASSUME NEW i \in DOMAIN kept, kept[i] = live.turn PROVE FALSE
        OBVIOUS
      <4>1. i \in DOMAIN source /\ source[i] = live.turn /\ source[Len(source)] = live.turn
        BY <2>4, <2>5
      <4>2. i = Len(source)
        BY <2>4, <2>5, <4>1 DEF Unrepeated
      <4>. QED  BY <2>4, <4>2
    <3>. QED  BY <3>1, <3>2
  <2>7. (Queued(Terminal)' => Queued(Terminal)) /\ EndsOnce'
    BY <1>0, <1>1, <2>2 DEF TurnsInv
  <2>8. /\ native'[s] = kept /\ \A q \in Sessions \ {s} : native'[q] = native[q]
        /\ live.turn \notin Elements(native[s])
    BY <1>0, <2>1
  <2>. HIDE DEF Between, HistoryInv
  <2>9. /\ \A q \in Sessions : Unrepeated(native'[q]) /\ Elements(native'[q]) \subseteq begun
        /\ \A q \in Sessions :
             live.turn \in Elements(native'[q]) =>
               q = loaded /\ native'[q][Len(native'[q])] = live.turn
        /\ live.phase = "ending" => live.turn \in Elements(native'[loaded]) \cap ended
    <3>1. /\ \A q \in Sessions : Unrepeated(native[q]) /\ Elements(native[q]) \subseteq begun
          /\ \A q \in Sessions :
               live.turn \in Elements(native[q]) =>
                 q = loaded /\ native[q][Len(native[q])] = live.turn
          /\ live.phase = "ending" => live.turn \in Elements(native[loaded]) \cap ended
          /\ live.phase = "ending" => loaded \in Sessions \ {s}
      BY <1>0, <2>8 DEF TurnsInv
    <3>. QED  BY <2>6, <2>8, <3>1
  <2>10. /\ begun \subseteq ended \cup crossed \cup {live.turn} /\ ended \subseteq begun
         /\ live.turn = None <=> live.phase = "idle"
         /\ live.turn # None => loaded # None /\ live.turn \in begun
         /\ live.phase = "running" => live.turn \notin ended
         /\ Queued(Terminal) => live.phase = "ending"
    BY <1>0 DEF TurnsInv
  <2>. QED  BY <2>1, <2>2, <2>7, <2>9, <2>10 DEF TurnsInv
<1>12. CASE Crash
  <2>1. /\ live'.turn = None /\ live'.phase = "idle" /\ loaded' = None /\ writes' = <<>>
        /\ crossed' = crossed \cup ({live.turn} \ {None})
        /\ UNCHANGED <<native, begun, ended>>
    BY <1>12 DEF Crash, NoTurn
  <2>2. ~Queued(Terminal)' /\ EndsOnce'
    BY <2>1 DEF Queued, EndsOnce
  <2>3. begun \subseteq ended \cup crossed' /\ ended \subseteq begun
    BY <1>0, <2>1 DEF TurnsInv
  <2>4. \A s \in Sessions : None \notin Elements(native[s])
    BY <1>0 DEF TurnsInv
  <2>. QED  BY <1>0, <2>1, <2>2, <2>3, <2>4 DEF TurnsInv
<1>. QED
  <2>. HIDE DEF Between, HistoryInv
  <2>. QED  BY <1>2, <1>3, <1>5, <1>6, <1>7, <1>8, <1>9, <1>10, <1>11, <1>12, StepIs

-----------------------------------------------------------------------------
(* The records in memory.                                                  *)

(* The records in memory are right while they stay, whatever is stored.    *)
LEMMA MemStays ==
  ASSUME Between, mem' = mem, loaded' \in {loaded, None},
         stored'.session = stored.session,
         native'[stored.session] = native[stored.session] \/ loaded = stored.session
  PROVE  MemInv'
<1>. USE DEF Between, HistoryInv
<1>0. /\ mem \in [Sessions -> Records] /\ loaded \in Sessions \cup {None}
      /\ stored.session \in Sessions
  BY DEF Types
<1>1. ASSUME NEW s \in Sessions, mem[s] # NoRecord
      PROVE  /\ Good(mem[s])'
             /\ mem[s].session # s => mem[s].turns = <<>> /\ s # stored.session
  <2>1. /\ Good(mem[s])
        /\ mem[s].session # s => mem[s].turns = <<>> /\ s # stored.session
    BY <1>1 DEF MemInv
  <2>2. GoodIn(mem[s], native', stored', crossed')
    BY <1>0, <2>1, GoodAges DEF Good
  <2>. QED  BY <2>1, <2>2 DEF Good
<1>2. ASSUME loaded # None, loaded # stored.session
      PROVE  /\ native'[loaded] # <<>>
             /\ Elements(native'[stored.session]) \subseteq Elements(native'[loaded])
  <2>1. /\ native[loaded] # <<>>
        /\ Elements(native[stored.session]) \subseteq Elements(native[loaded])
    BY <1>2 DEF MemInv
  <2>2. /\ native[loaded] \in Seq(Turns) /\ native'[loaded] \in Seq(Turns)
        /\ Begins(native[loaded], native'[loaded])
    BY <1>0, <1>2 DEF Grown, Types
  <2>3. Elements(native[loaded]) \subseteq Elements(native'[loaded])
    BY <2>2 DEF Begins
  <2>4. native'[loaded] # <<>>
    BY <2>1, <2>2 DEF Begins
  <2>. QED  BY <1>2, <2>1, <2>3, <2>4
<1>. QED  BY <1>1, <1>2 DEF MemInv

(* A caller that goes on puts a good record into memory, or none.          *)
LEMMA MemMoves ==
  ASSUME Between, NEW c \in Callers, NEW stage, NEW record, NEW previous, NEW t,
         Moves(c, stage, record, previous, t)
  PROVE  MemInv'
<1>. USE DEF Between, HistoryInv
<1>0. /\ mem \in [Sessions -> Records] /\ loaded \in Sessions \cup {None}
      /\ stored.session \in Sessions /\ None \notin Sessions
      /\ stored'.session = stored.session /\ native' = native
      /\ call[c].session \in Sessions \cup {None}
  BY CallHas, SubagentsAssumption DEF Types, Moves
<1>1. CASE mem' = mem /\ loaded' = loaded
  BY <1>0, <1>1, MemStays
(* All but the object that takes the record over stay.                     *)
<1>2. ASSUME NEW s \in Sessions, mem[s] # NoRecord
      PROVE  /\ GoodIn(mem[s], native', stored', crossed')
             /\ mem[s].session # s => mem[s].turns = <<>> /\ s # stored.session
  <2>1. /\ Good(mem[s])
        /\ mem[s].session # s => mem[s].turns = <<>> /\ s # stored.session
    BY <1>2 DEF MemInv
  <2>2. GoodIn(mem[s], native', stored', crossed')
    BY <1>0, <2>1, GoodAges DEF Good
  <2>. QED  BY <2>1, <2>2 DEF Good
<1>3. CASE Adopts(c, stage, record)
  <2>. DEFINE x == call[c].session
  <2>1. /\ stage = "projecting" /\ mem' = [mem EXCEPT ![x] = record]
        /\ loaded' = IF call[c].restores THEN x ELSE loaded
    BY <1>3 DEF Adopts
  <2>2. /\ c \in Calls /\ call[c].pc \in {"taken", "aligning", "projecting"}
        /\ GoodIn(record, native', stored', crossed')
        /\ record.session # x => record.turns = <<>> /\ x # stored.session
        /\ record.session \in {x, stored.session} \/ record = mem[x]
    BY <2>1 DEF Moves, EventMove, ReadMove, RollbackMove
  <2>3. /\ call[c].restores => x = stored.session
        /\ ~call[c].restores => x \in Sessions /\ mem[x] # NoRecord /\ loaded # None
    <3>1. Busy(c)
      BY <2>2 DEF Busy
    <3>. QED  BY <2>2, <3>1, RestoreIs, BusyIs DEF CallsInv, ReadInv
  <2>4. x \in Sessions /\ record # NoRecord
    <3>1. record.session \in Sessions
      BY <2>2 DEF GoodIn
    <3>. QED  BY <1>0, <2>3, <3>1 DEF NoRecord
  <2>. HIDE DEF x
  <2>5. /\ mem'[x] = record /\ \A s \in Sessions \ {x} : mem'[s] = mem[s]
    BY <1>0, <2>1, <2>4
  <2>6. ASSUME NEW s \in Sessions, mem'[s] # NoRecord
        PROVE  /\ GoodIn(mem'[s], native', stored', crossed')
               /\ mem'[s].session # s => mem'[s].turns = <<>> /\ s # stored.session
    <3>1. CASE s = x
      BY <2>2, <2>5, <3>1 DEF Good
    <3>2. CASE s # x
      <4>1. mem'[s] = mem[s]
        BY <2>5, <3>2
      <4>. QED  BY <1>2, <2>6, <4>1 DEF Good
    <3>. QED  BY <3>1, <3>2
  <2>7. loaded' # None =>
          mem'[loaded'] # NoRecord /\ mem'[loaded'].session \in {loaded', stored.session}
    <3>1. CASE loaded' = x
      <4>1. record = mem[x] /\ record.session \notin {x, stored.session} =>
              ~call[c].restores /\ loaded = x
        BY <2>1, <2>3, <3>1, <2>2
      <4>2. loaded # None => mem[loaded].session \in {loaded, stored.session}
        BY DEF MemInv
      <4>. QED  BY <1>0, <2>2, <2>3, <2>4, <2>5, <3>1, <4>1, <4>2
    <3>2. CASE loaded' # x
      <4>1. loaded' = loaded
        BY <2>1, <3>2
      <4>2. loaded # None => mem'[loaded] = mem[loaded]
        BY <1>0, <2>5, <3>2, <4>1
      <4>. QED  BY <4>1, <4>2 DEF MemInv
    <3>. QED  BY <3>1, <3>2
  <2>8. ASSUME loaded' # None, loaded' # stored.session
        PROVE  /\ mem'[stored.session] = NoRecord /\ native[loaded'] # <<>>
               /\ Elements(native[stored.session]) \subseteq Elements(native[loaded'])
    <3>1. loaded' = loaded /\ ~call[c].restores
      BY <2>1, <2>3, <2>8
    <3>2. /\ mem[stored.session] = NoRecord /\ native[loaded] # <<>>
          /\ Elements(native[stored.session]) \subseteq Elements(native[loaded])
      BY <2>8, <3>1 DEF MemInv
    <3>3. x # stored.session
      BY <2>3, <3>1, <3>2
    <3>. QED  BY <1>0, <2>5, <3>1, <3>2, <3>3
  <2>9. MemInv'
    <3>. HIDE DEF Between, HistoryInv, Elements
    <3>. QED  BY <1>0, <2>6, <2>7, <2>8 DEF MemInv, Good
  <2>. QED  BY <2>9
<1>4. CASE TakesOver(c, stage, record)
  <2>. DEFINE x == stored.session
  <2>1. /\ stage = "retaining" /\ mem' = [mem EXCEPT ![record.session] = record]
        /\ loaded' = record.session
    BY <1>4 DEF TakesOver
  <2>2. /\ GoodIn(record, native', stored', crossed') /\ record.session = x
    BY <2>1 DEF Moves, EventMove, ReadMove, RollbackMove
  <2>3. record # NoRecord
    BY <1>0, <2>2 DEF NoRecord
  <2>4. mem'[x] = record /\ \A s \in Sessions \ {x} : mem'[s] = mem[s]
    BY <1>0, <2>1, <2>2
  <2>5. ASSUME NEW s \in Sessions, mem'[s] # NoRecord
        PROVE  /\ GoodIn(mem'[s], native', stored', crossed')
               /\ mem'[s].session # s => mem'[s].turns = <<>> /\ s # stored.session
    <3>1. CASE s = x
      BY <2>2, <2>4, <3>1 DEF Good
    <3>2. CASE s # x
      <4>1. mem'[s] = mem[s]
        BY <2>4, <3>2
      <4>. QED  BY <1>2, <2>5, <4>1 DEF Good
    <3>. QED  BY <3>1, <3>2
  <2>. QED  BY <1>0, <2>1, <2>2, <2>3, <2>4, <2>5 DEF MemInv, Good
<1>5. \/ mem' = mem /\ loaded' = loaded
      \/ Adopts(c, stage, record) \/ TakesOver(c, stage, record)
  BY DEF Moves, Over, Leaves, Waits
<1>. QED  BY <1>1, <1>3, <1>4, <1>5

(* Every step keeps the records in memory right.                           *)
LEMMA MemStep ==
  ASSUME Between, \A d \in Callers : MatInv(d), [Next]_vars
  PROVE  MemInv'
<1>. USE DEF Between, HistoryInv
<1>0. /\ mem \in [Sessions -> Records] /\ loaded \in Sessions \cup {None}
      /\ stored.session \in Sessions /\ None \notin Sessions
      /\ native \in [Sessions -> Seq(Turns)]
  BY SubagentsAssumption DEF Types
<1>1. CASE UNCHANGED <<native, stored, mem, loaded>>
  BY <1>1, MemStays
<1>2. CASE \/ UNCHANGED vars \/ EndTurn \/ EndUnnamed
           \/ \E t \in Turns : StartTurn(t)
           \/ \E c \in Calls : Begin(c) \/ TakeSnapshot(c)
           \/ \E c \in Reads : Restore(c)
           \/ \E c \in Callers : Drops(c) \/ Asks(c) \/ Creates(c)
  BY <1>1, <1>2 DEF vars, EndTurn, EndUnnamed, StartTurn, Begin, TakeSnapshot, Restore, Drops,
                    Asks, Creates
<1>3. ASSUME NEW c \in Callers, NEW stage, NEW record, NEW previous, NEW t,
             Moves(c, stage, record, previous, t)
      PROVE  MemInv'
  BY <1>3, MemMoves
<1>4. CASE RecordTurn
  <2>1. /\ UNCHANGED <<stored, mem, loaded>>
        /\ native' = [native EXCEPT ![loaded] = Append(@, live.turn)]
    BY <1>4 DEF RecordTurn
  <2>2. native'[stored.session] = native[stored.session] \/ loaded = stored.session
    BY <1>0, <2>1
  <2>. QED  BY <2>1, <2>2, MemStays
<1>5. ASSUME NEW c \in Rollbacks, NEW s \in Sessions, OpenWithout(c, s) PROVE MemInv'
  <2>1. UNCHANGED <<stored, mem, loaded>> /\ native'[stored.session] = native[stored.session]
    BY <1>0, <1>5 DEF OpenWithout, Fail
  <2>. QED  BY <2>1, MemStays
<1>6. CASE RunPersist
  <2>1. CASE mem' = mem /\ stored' = stored
    BY <1>1, <1>6, <2>1 DEF RunPersist
  <2>2. CASE /\ MayUpsert /\ stored' = Upserted /\ mem' = [mem EXCEPT ![loaded] = stored']
    <3>1. UNCHANGED <<native, loaded>> /\ stored.session = loaded /\ stored'.session = loaded
      <4>1. Upserted.session = stored.session
        BY DEF Upserted, Types, Records
      <4>. QED  BY <1>6, <2>2, <4>1 DEF RunPersist, MayUpsert
    <3>2. mem'[loaded] = stored' /\ \A s \in Sessions \ {loaded} : mem'[s] = mem[s]
      BY <1>0, <2>2, <3>1
    <3>3. ASSUME NEW s \in Sessions, mem'[s] # NoRecord
          PROVE  /\ GoodIn(mem'[s], native', stored', crossed')
                 /\ mem'[s].session # s => mem'[s].turns = <<>> /\ s # stored'.session
      <4>1. CASE s = loaded
        BY <3>1, <3>2, <4>1 DEF StoreInv, Good
      <4>2. CASE s # loaded
        <5>1. mem'[s] = mem[s]
          BY <3>2, <4>2
        <5>2. /\ Good(mem[s])
              /\ mem[s].session # s => mem[s].turns = <<>> /\ s # stored.session
          BY <3>3, <5>1 DEF MemInv
        <5>3. GoodIn(mem[s], native', stored', crossed')
          BY <1>0, <5>2, GoodAges DEF Good
        <5>. QED  BY <3>1, <5>1, <5>2, <5>3 DEF Good
      <4>. QED  BY <4>1, <4>2
    <3>4. stored' # NoRecord
      BY <1>0, <3>1 DEF NoRecord
    <3>. QED  BY <3>1, <3>2, <3>3, <3>4 DEF MemInv, Good
  <2>. QED  BY <1>6, <2>1, <2>2 DEF RunPersist, Persisted
<1>7. ASSUME NEW c \in Rollbacks, Replaces(c) PROVE MemInv'
  <2>1. /\ At(c, "replacing") /\ MayReplace(c) /\ UNCHANGED <<native, mem, loaded>>
        /\ stored'.session = call[c].session /\ c \in Calls
    BY <1>7 DEF Replaces, Retained, Calls
  <2>2. /\ call[c].session \in Sessions
        /\ native[call[c].session] = call[c].snap /\ mem[call[c].session] = NoRecord
        /\ call[c].base.session = loaded /\ native[loaded] # <<>>
        /\ Elements(call[c].snap) \subseteq Elements(native[loaded])
    BY <2>1 DEF CallsInv, RollbackInv
  <2>3. stored.session = loaded
    BY <2>1, <2>2 DEF MayReplace
  <2>4. mem[loaded] # NoRecord /\ mem[loaded].session = loaded
    BY <1>0, <2>3 DEF MemInv
  <2>5. ASSUME NEW s \in Sessions, mem[s] # NoRecord
        PROVE  /\ GoodIn(mem'[s], native', stored', crossed')
               /\ mem[s].session # s => mem[s].turns = <<>> /\ s # stored'.session
    <3>1. Good(mem[s]) /\ (mem[s].session # s => mem[s].turns = <<>>)
      BY <2>5 DEF MemInv
    <3>2. GoodIn(mem[s], native', stored', crossed')
      BY <1>0, <3>1, GoodAges DEF Good
    <3>. QED  BY <2>1, <2>2, <2>5, <3>1, <3>2 DEF Good
  <2>6. MemInv'
    <3>. HIDE DEF Between, HistoryInv, Elements
    <3>. QED  BY <2>1, <2>2, <2>4, <2>5 DEF MemInv, Good
  <2>. QED  BY <2>6
<1>8. CASE Crash
  BY <1>8 DEF Crash, MemInv
<1>. QED
  <2>. HIDE DEF Between, HistoryInv
  <2>. QED  BY <1>2, <1>3, <1>4, <1>5, <1>6, <1>7, <1>8, StepIs DEF Proceeds

-----------------------------------------------------------------------------
(* The order of the calls.                                                 *)

(* One caller goes on.                                                     *)
LEMMA OrderlyOne ==
  ASSUME Between, NEW c \in Callers, live' = live,
         \A d \in Callers \ {c} : call'[d] = call[d],
         \/ loaded' = loaded
         \/ loaded' # None /\ \A d \in Callers \ {c} : ~call[d].restores,
         \/ stored'.session = stored.session
         \/ \A d \in Callers \ {c} : ~call[d].restores,
         call'[c].restores =>
           /\ c \in Reads /\ loaded' = None /\ call'[c].session = stored'.session
           /\ call'[c].pc \in {"reading", "taken", "aligning", "projecting"}
           /\ call[c].restores \/ \A d \in Callers : ~call[d].restores,
         Busy(c)' /\ loaded' = None => call'[c].restores,
         Busy(c)' /\ c \in Lives => live.phase = "running" /\ call'[c].pc = "event",
         c \in Calls => call'[c].pc # "event",
         Busy(c)' /\ c \in Calls \ Controls =>
           Busy(c) \/ \A d \in Calls \ Controls : ~Busy(d)
  PROVE  Orderly'
<1>. USE DEF Between, HistoryInv
<1>1. \A d \in Callers \ {c} : Busy(d)' = Busy(d)
  BY DEF Busy
<1>2. \A d \in Callers :
        /\ call'[d].restores =>
             /\ d \in Reads /\ loaded' = None /\ call'[d].session = stored'.session
             /\ call'[d].pc \in {"reading", "taken", "aligning", "projecting"}
        /\ Busy(d)' /\ loaded' = None => call'[d].restores
        /\ Busy(d)' /\ d \in Lives => live.phase = "running" /\ call'[d].pc = "event"
        /\ d \in Calls => call'[d].pc # "event"
  <2>. SUFFICES ASSUME NEW d \in Callers \ {c}
       PROVE
        /\ call'[d].restores =>
             /\ d \in Reads /\ loaded' = None /\ call'[d].session = stored'.session
             /\ call'[d].pc \in {"reading", "taken", "aligning", "projecting"}
        /\ Busy(d)' /\ loaded' = None => call'[d].restores
        /\ Busy(d)' /\ d \in Lives => live.phase = "running" /\ call'[d].pc = "event"
        /\ d \in Calls => call'[d].pc # "event"
    OBVIOUS
  <2>. QED  BY <1>1 DEF Orderly
<1>3. \A d, e \in Callers : call'[d].restores /\ call'[e].restores => d = e
  BY DEF Orderly
<1>4. \A d, e \in Calls \ Controls : Busy(d)' /\ Busy(e)' => d = e
  <2>1. Calls \subseteq Callers
    BY DEF Callers
  <2>. QED  BY <1>1, <2>1 DEF Orderly
<1>. QED  BY <1>2, <1>3, <1>4 DEF Orderly

(* A caller that ends is not busy any more.                                *)
LEMMA EndsIs ==
  ASSUME Types, NEW c \in Callers, Ends(c)
  PROVE  /\ ~Busy(c)' /\ ~call'[c].restores /\ call'[c].pc \in {"done", "failed"}
         /\ \A d \in Callers \ {c} : call'[d] = call[d]
<1>1. call \in [Callers -> CallStates]
  BY DEF Types
<1>2. PICK o \in {"done", "failed"} : call' = [call EXCEPT ![c] = Ended(o)]
  BY DEF Ends
<1>3. call'[c] = Ended(o) /\ \A d \in Callers \ {c} : call'[d] = call[d]
  BY <1>1, <1>2
<1>. QED  BY <1>3 DEF Ended, Busy

(* A caller that waits keeps its session and snapshot; it is not over.     *)
LEMMA WaitsIs ==
  ASSUME Types, NEW c \in Callers, NEW stage, NEW record, NEW previous, NEW t,
         Waits(c, stage, record, previous, t)
  PROVE  /\ call'[c].pc = stage /\ call'[c].session = call[c].session
         /\ call'[c].snap = call[c].snap /\ call'[c].base = record
         /\ call'[c].restores = call[c].restores
         /\ \A d \in Callers \ {c} : call'[d] = call[d]
         /\ ~Over(c, stage, record)
<1>1. /\ call \in [Callers -> CallStates] /\ call[c] \in CallStates
      /\ mat \in [Callers -> Awaited]
  BY CallHas DEF Types
<1>2. call' = [call EXCEPT ![c].pc = stage, ![c].base = record]
  BY DEF Waits
<1>3. ~Over(c, stage, record)
  <2>1. PICK h \in {None} \cup Found(record.session, previous),
             step \in Steps \ {"nothing"} :
          mat' = [mat EXCEPT ![c] =
                [step |-> step, home |-> h, previous |-> previous, of |-> t]]
    BY DEF Waits
  <2>2. mat'[c] = [step |-> step, home |-> h, previous |-> previous, of |-> t]
    BY <1>1, <2>1
  <2>3. mat'[c].step # "nothing"
    BY <2>2
  <2>4. [mat EXCEPT ![c] = NoWait][c].step = "nothing"
    BY <1>1 DEF NoWait
  <2>. QED  BY <2>3, <2>4 DEF Over
<1>. QED  BY <1>1, <1>2, <1>3 DEF CallStates

(* A caller that goes on keeps the calls in order.                         *)
LEMMA OrderlyMoved ==
  ASSUME Between, NEW c \in Callers, NEW stage, NEW record, NEW previous, NEW t,
         Moves(c, stage, record, previous, t)
  PROVE  Orderly'
<1>. USE DEF Between, HistoryInv
<1>0. /\ call \in [Callers -> CallStates] /\ live' = live
      /\ stored'.session = stored.session
      /\ loaded \in Sessions \cup {None} /\ None \notin Sessions
  BY SubagentsAssumption DEF Types, Moves
<1>1. \A d \in Callers \ {c} : call'[d] = call[d]
  BY <1>0 DEF Moves, Over, Leaves, Adopts, TakesOver, Ends, Waits
<1>2. (c \in Calls <=> stage # "event") /\ (stage = "event" => c \in Lives)
  <2>1. Calls \cap Lives = {} /\ Rollbacks \subseteq Calls
    BY HistoryAssumption DEF Calls
  <2>. QED  BY <2>1 DEF Moves, EventMove, ReadMove, RollbackMove
<1>3. c \in Calls => Busy(c)
  BY <1>2 DEF Moves, EventMove, ReadMove, RollbackMove, Busy
<1>4. \/ loaded' = loaded
      \/ loaded' # None /\ \A d \in Callers \ {c} : ~call[d].restores
  <2>1. CASE call[c].restores /\ loaded' = call[c].session
    BY <1>0, <2>1, RestoreIs DEF Orderly, Types
  <2>2. CASE stage = "retaining" /\ loaded' = record.session
    <3>1. c \in Rollbacks /\ c \in Calls /\ record.session \in Sessions
      BY <2>2 DEF Moves, EventMove, ReadMove, RollbackMove, GoodIn, Calls
    <3>2. ~call[c].restores
      BY <3>1, RestoreIs, HistoryAssumption
    <3>3. loaded # None
      BY <1>3, <3>1, <3>2, BusyIs
    <3>. QED  BY <1>0, <2>2, <3>1, <3>3, RestoreIs
  <2>. QED  BY <2>1, <2>2, MovesLoaded
<1>5. CASE Ends(c)
  BY <1>0, <1>1, <1>4, <1>5, EndsIs, OrderlyOne
<1>6. CASE /\ c \in Rollbacks /\ stage = "projecting"
           /\ loaded' = IF call[c].restores THEN call[c].session ELSE loaded
           /\ call' = [call EXCEPT ![c] =
                [Ended("opening") EXCEPT !.session = call[c].session, !.base = record]]
  <2>1. ~call[c].restores /\ c \in Calls
    BY <1>6, RestoreIs, HistoryAssumption DEF Calls
  <2>2. loaded # None /\ loaded' = loaded
    BY <1>3, <1>6, <2>1, BusyIs
  <2>3. ~call'[c].restores /\ call'[c].pc = "opening"
    BY <1>0, <1>6 DEF Ended
  <2>4. c \notin Lives
    BY <2>1, HistoryAssumption
  <2>. QED  BY <1>0, <1>1, <1>3, <2>1, <2>2, <2>3, <2>4, OrderlyOne
<1>7. CASE Waits(c, stage, record, previous, t)
  <2>1. /\ call'[c].pc = stage /\ call'[c].session = call[c].session
        /\ call'[c].restores = call[c].restores /\ loaded' = loaded
    <3>1. loaded' = loaded
      BY <1>7 DEF Waits
    <3>. QED  BY <1>7, <3>1, WaitsIs
  <2>2. call[c].restores =>
          /\ c \in Reads /\ loaded = None /\ call[c].session = stored.session
          /\ stage = "projecting"
    <3>1. call[c].restores => c \notin Rollbacks /\ c \in Calls
      BY RestoreIs, HistoryAssumption DEF Calls
    <3>. QED  BY <1>2, <3>1, RestoreIs DEF Moves, EventMove, ReadMove, RollbackMove
  <2>3. c \in Calls => /\ stage # "event" /\ (loaded = None => call[c].restores)
                      /\ c \notin Lives
    BY <1>2, <1>3, BusyIs, HistoryAssumption
  <2>4. c \notin Calls => loaded # None /\ live.phase = "running" /\ stage = "event"
    <3>. SUFFICES ASSUME c \notin Calls
                  PROVE  loaded # None /\ live.phase = "running" /\ stage = "event"
      OBVIOUS
    <3>1. stage = "event" /\ c \in Lives
      BY <1>2
    <3>2. ~Over(c, stage, record)
      BY <1>7, WaitsIs
    <3>3. live.phase = "running"
      BY <3>1, <3>2 DEF Moves, EventMove, ReadMove, RollbackMove
    <3>. QED  BY <3>1, <3>3 DEF TurnsInv
  <2>. QED  BY <1>0, <1>1, <1>3, <2>1, <2>2, <2>3, <2>4, OrderlyOne
<1>. QED
  BY <1>5, <1>6, <1>7 DEF Moves, Over, Leaves, Adopts, TakesOver

(* So does a step that changes no call and not what is loaded.             *)
LEMMA OrderlyHeld ==
  ASSUME Between, UNCHANGED <<call, loaded>>, stored'.session = stored.session,
         \A c \in Lives : Busy(c) => live'.phase = "running"
  PROVE  Orderly'
<1>1. \A c \in Callers : Busy(c)' = Busy(c)
  BY DEF Busy
<1>2. Orderly /\ Lives \subseteq Callers /\ Calls \subseteq Callers
  BY DEF Between, HistoryInv, Callers
<1>. HIDE DEF Busy
<1>. QED  BY <1>1, <1>2 DEF Orderly

(* Every step keeps the calls in order.                                    *)
LEMMA OrderlyStep ==
  ASSUME Between, \A d \in Callers : MatInv(d), [Next]_vars
  PROVE  Orderly'
<1>0. /\ call \in [Callers -> CallStates] /\ \A d \in Callers : call[d] \in CallStates
      /\ loaded \in Sessions \cup {None} /\ None \notin Sessions
      /\ Calls \subseteq Callers /\ Lives \subseteq Callers /\ Reads \subseteq Calls
      /\ Rollbacks \subseteq Calls /\ Rollbacks \cap Reads = {} /\ Lives \cap Calls = {}
      /\ Orderly
  BY SubagentsAssumption, HistoryAssumption DEF Types, Between, HistoryInv, Callers, Calls
<1>1. ASSUME NEW c \in Callers, Drops(c) PROVE Orderly'
  <2>1. UNCHANGED <<loaded, live, stored>>
    BY <1>1 DEF Drops
  <2>2. /\ ~Busy(c)' /\ ~call'[c].restores /\ call'[c].pc \in {"done", "failed"}
        /\ \A d \in Callers \ {c} : call'[d] = call[d]
    BY <1>1, EndsIs DEF Drops, Between
  <2>. QED  BY <2>1, <2>2, OrderlyOne
<1>2. ASSUME NEW c \in Callers, Asks(c) PROVE Orderly'
  <2>1. UNCHANGED <<loaded, live, stored>> /\ At(c, "taken")
    BY <1>2 DEF Asks
  <2>2. Busy(c) /\ c \notin Lives
    BY <1>0, <2>1 DEF Busy, Orderly
  <2>3. /\ call'[c].pc = "aligning" /\ call'[c].session = call[c].session
        /\ call'[c].restores = call[c].restores
        /\ \A d \in Callers \ {c} : call'[d] = call[d]
    BY <1>0, <1>2 DEF Asks, CallStates
  <2>4. loaded = None => call[c].restores
    BY <1>0, <2>2 DEF Orderly
  <2>. QED  BY <1>0, <2>1, <2>2, <2>3, <2>4, RestoreIs, OrderlyOne
<1>3. ASSUME NEW c \in Callers, Creates(c) PROVE Orderly'
  <2>1. UNCHANGED <<call, loaded, stored, live>>
    BY <1>3 DEF Creates
  <2>. QED  BY <1>0, <2>1, OrderlyHeld DEF Orderly
<1>4. ASSUME NEW c \in Callers, NEW stage, NEW record, NEW previous, NEW t,
             Moves(c, stage, record, previous, t)
      PROVE  Orderly'
  BY <1>4, OrderlyMoved
<1>5. ASSUME NEW c \in Rollbacks, Replaces(c) PROVE Orderly'
  <2>1. UNCHANGED <<loaded, live>> /\ At(c, "replacing")
    BY <1>5 DEF Replaces
  <2>2. Busy(c) /\ c \notin Lives /\ c \in Callers
    BY <1>0, <2>1 DEF Busy
  <2>3. /\ call'[c].pc = "noting" /\ call'[c].restores = call[c].restores
        /\ \A d \in Callers \ {c} : call'[d] = call[d]
    BY <1>0, <1>5 DEF Replaces, CallStates
  <2>4. ~call[c].restores
    BY <1>0, <2>2, RestoreIs
  <2>5. loaded # None
    BY <1>0, <2>2, <2>4, BusyIs
  <2>6. \A d \in Callers : ~call[d].restores
    BY <2>5, RestoreIs
  <2>. QED  BY <1>0, <2>1, <2>2, <2>3, <2>4, <2>5, <2>6, OrderlyOne
<1>6. ASSUME NEW c \in Rollbacks, NEW s \in Sessions, OpenWithout(c, s) PROVE Orderly'
  <2>1. UNCHANGED <<loaded, live, stored>> /\ At(c, "opening")
    BY <1>6 DEF OpenWithout, Fail
  <2>2. Busy(c) /\ c \notin Lives /\ c \in Callers
    BY <1>0, <2>1 DEF Busy
  <2>3. ~call[c].restores
    BY <1>0, <2>2, RestoreIs
  <2>4. loaded # None
    BY <1>0, <2>2, <2>3, BusyIs
  <2>5. /\ \A d \in Callers \ {c} : call'[d] = call[d]
        /\ ~call'[c].restores /\ call'[c].pc \in {"replacing", "failed"}
    <3>1. CASE Fail(c)
      <4>1. Ends(c)
        BY <3>1 DEF Fail, Ends
      <4>. QED  BY <1>0, <2>2, <3>1, <4>1 DEF Fail, Ended
    <3>2. CASE \E snap : call' = [call EXCEPT ![c].pc = "replacing", ![c].session = s,
                                              ![c].snap = snap]
      BY <1>0, <2>2, <2>3, <3>2 DEF CallStates
    <3>. QED  BY <1>6, <3>1, <3>2 DEF OpenWithout
  <2>. QED  BY <1>0, <2>1, <2>2, <2>4, <2>5, OrderlyOne
<1>7. ASSUME NEW c \in Calls, Begin(c) PROVE Orderly'
  <2>1. UNCHANGED <<loaded, live, stored>> /\ At(c, "new") /\ loaded # None
    BY <1>7 DEF Begin, Admitted
  <2>2. ~call[c].restores
    BY <1>0, <2>1, RestoreIs
  <2>3. /\ call'[c].pc = "reading" /\ call'[c].restores = call[c].restores
        /\ \A d \in Callers \ {c} : call'[d] = call[d]
    BY <1>0, <1>7 DEF Begin, CallStates
  <2>4. c \in Calls \ Controls => \A d \in Calls \ Controls : ~Busy(d)
    BY <1>7 DEF Begin, Admitted
  <2>. QED  BY <1>0, <2>1, <2>2, <2>3, <2>4, OrderlyOne
<1>8. ASSUME NEW c \in Calls, TakeSnapshot(c) PROVE Orderly'
  <2>1. UNCHANGED <<loaded, live, stored>> /\ At(c, "reading")
    BY <1>8 DEF TakeSnapshot
  <2>2. Busy(c) /\ c \notin Lives
    BY <1>0, <2>1 DEF Busy
  <2>3. /\ call'[c].pc = "taken" /\ call'[c].session = call[c].session
        /\ call'[c].restores = call[c].restores
        /\ \A d \in Callers \ {c} : call'[d] = call[d]
    BY <1>0, <1>8 DEF TakeSnapshot, CallStates
  <2>4. loaded = None => call[c].restores
    BY <1>0, <2>2 DEF Orderly
  <2>. QED  BY <1>0, <2>1, <2>2, <2>3, <2>4, RestoreIs, OrderlyOne
<1>9. ASSUME NEW c \in Reads, Restore(c) PROVE Orderly'
  <2>1. UNCHANGED <<loaded, live, stored>> /\ loaded = None /\ \A d \in Calls : ~call[d].restores
    BY <1>9 DEF Restore
  <2>2. \A d \in Callers : ~call[d].restores
    <3>1. \A d \in Callers : call[d].restores => d \in Calls
      BY <1>0, RestoreIs
    <3>. QED  BY <2>1, <3>1
  <2>3. /\ call'[c].pc = "reading" /\ call'[c].restores
        /\ call'[c].session = stored.session
        /\ \A d \in Callers \ {c} : call'[d] = call[d]
    BY <1>0, <1>9 DEF Restore, Ended
  <2>4. c \in Calls \ Controls => \A d \in Calls \ Controls : ~Busy(d)
    BY <1>9 DEF Restore, Admitted
  <2>. QED  BY <1>0, <2>1, <2>2, <2>3, <2>4, OrderlyOne
<1>10. CASE UNCHANGED vars \/ (\E t \in Turns : StartTurn(t)) \/ RecordTurn
  <2>1. UNCHANGED <<call, loaded, stored>> /\ (live' = live \/ live.turn = None)
    BY <1>10 DEF vars, StartTurn, RecordTurn
  <2>2. live.turn = None => \A c \in Lives : ~Busy(c)
    BY <1>0 DEF Orderly, Between, HistoryInv, TurnsInv
  <2>3. \A c \in Lives : Busy(c) => live.phase = "running"
    BY <1>0 DEF Orderly
  <2>. QED  BY <2>1, <2>2, <2>3, OrderlyHeld
<1>11. CASE EndTurn \/ EndUnnamed
  <2>1. UNCHANGED <<call, loaded, stored>> /\ \A c \in Lives : ~Busy(c)
    BY <1>11 DEF EndTurn, EndUnnamed
  <2>. QED  BY <2>1, OrderlyHeld
<1>12. CASE RunPersist
  <2>1. UNCHANGED <<call, loaded>> /\ writes # <<>> /\ writes[1] = Terminal
    BY <1>12 DEF RunPersist, Runs
  <2>2. stored'.session = stored.session
    <3>1. Upserted.session = stored.session
      BY DEF Upserted, Types, Records, Between
    <3>. QED  BY <1>12, <3>1 DEF RunPersist
  <2>3. live.phase = "ending"
    <3>1. writes \in Seq(Callers \cup {Terminal})
      BY DEF Types, Between
    <3>2. 1 \in DOMAIN writes
      BY <2>1, <3>1
    <3>3. Queued(Terminal)
      BY <2>1, <3>2 DEF Queued
    <3>. QED  BY <3>3 DEF Between, HistoryInv, TurnsInv
  <2>4. \A c \in Lives : ~Busy(c)
    BY <1>0, <2>3 DEF Orderly
  <2>. QED  BY <2>1, <2>2, <2>4, OrderlyHeld
<1>13. CASE Crash
  <2>1. \A c \in Callers : ~Busy(c)' /\ ~call'[c].restores
    <3>. SUFFICES ASSUME NEW c \in Callers PROVE ~Busy(c)' /\ ~call'[c].restores
      OBVIOUS
    <3>1. CASE Busy(c)
      <4>1. call'[c] = Ended("failed")
        BY <1>13, <3>1 DEF Crash
      <4>. QED  BY <4>1 DEF Busy, Ended
    <3>2. CASE ~Busy(c)
      <4>1. call'[c] = call[c]
        BY <1>13, <3>2 DEF Crash
      <4>2. ~call[c].restores
        BY <1>0, <3>2 DEF Busy, Orderly
      <4>. QED  BY <3>2, <4>1, <4>2 DEF Busy
    <3>. QED  BY <3>1, <3>2
  <2>2. \A c \in Calls : ~At(c, "event")'
    BY <1>0, <2>1 DEF Busy
  <2>. HIDE DEF Busy
  <2>. QED  BY <1>0, <2>1, <2>2 DEF Orderly
<1>. QED
  BY <1>1, <1>2, <1>3, <1>4, <1>5, <1>6, <1>7, <1>8, <1>9, <1>10, <1>11, <1>12, <1>13, StepIs
  DEF Proceeds

-----------------------------------------------------------------------------
(* The calls.                                                              *)

(* The mappings that a call waits to have stored stay right.               *)
KeepsProposal(d) ==
  /\ Queued(d)'
  /\ \A t \in ended \ {live.turn} : t \in crossed' \cup (ended' \ {live'.turn})
  /\ LET snap == Elements(call[d].snap) IN
       /\ ended' \ snap \subseteq crossed' \cup {live'.turn}
       /\ EndsFirst(d)' => ended' \ snap \subseteq crossed'

(* A call that does not move keeps what is true of it.                     *)
LEMMA CallKeeps ==
  ASSUME Between, NEW d \in Calls, call'[d] = call[d],
         \A s \in Sessions : mem[s] # NoRecord => mem'[s] # NoRecord,
         d \in Rollbacks /\ Busy(d) => loaded' = loaded,
         call[d].pc \in {"replacing", "noting", "retaining"} =>
           /\ mem'[call[d].session] = mem[call[d].session]
           /\ native'[call[d].session] = native[call[d].session],
         call[d].pc \in {"noting", "retaining"} => stored'.session = stored.session,
         At(d, "noting") => Queued(d)',
         At(d, "aligning") => KeepsProposal(d)
  PROVE  ReadInv(d)' /\ RollbackInv(d)'
<1>0. /\ ReadInv(d) /\ RollbackInv(d) /\ d \in Callers /\ call[d].base \in Records
      /\ call[d].snap \in Seq(Turns) /\ Types /\ Types' /\ Grown
      /\ \A r \in Records : Good(r) => GoodIn(r, native', stored', crossed')
  <2>1. \A r \in Records : Good(r) => GoodIn(r, native', stored', crossed')
    BY GoodAges DEF Between, Good
  <2>. QED  BY <2>1, CallHas DEF Between, HistoryInv, CallsInv, Callers
<1>. HIDE DEF Elements
<1>1. ReadInv(d)'
  <2>1. ASSUME call[d].pc \in {"reading", "taken", "aligning", "projecting", "opening"},
               ~call[d].restores
        PROVE  /\ call[d].session \in Sessions
               /\ mem'[call[d].session] # NoRecord
               /\ d \in Rollbacks => call[d].session = loaded'
    BY <1>0, <2>1 DEF ReadInv, Busy
  <2>2. ASSUME call[d].pc \in {"reading", "taken"}, call[d].restores
        PROVE  GoodIn(call[d].base, native', stored', crossed')
               /\ call[d].base.session = call[d].session
    BY <1>0, <2>2 DEF ReadInv
  <2>3. ASSUME call[d].pc \in {"taken", "aligning", "projecting"}
        PROVE  Begins(call[d].snap, native'[call[d].session])
    <3>1. call[d].session \in Sessions
      <4>1. CASE call[d].restores
        BY <1>0, <4>1, RestoreIs DEF Types
      <4>2. CASE ~call[d].restores
        BY <1>0, <2>3, <4>2 DEF ReadInv
      <4>. QED  BY <4>1, <4>2
    <3>2. /\ Begins(call[d].snap, native[call[d].session])
          /\ Begins(native[call[d].session], native'[call[d].session])
      BY <1>0, <2>3, <3>1 DEF ReadInv, Grown
    <3>3. /\ native[call[d].session] \in Seq(Turns) /\ native'[call[d].session] \in Seq(Turns)
      BY <1>0, <3>1 DEF Types
    <3>. QED  BY <1>0, <3>2, <3>3 DEF Begins
  <2>4. ASSUME At(d, "aligning")
        PROVE  /\ Len(call[d].base.turns) = Len(call[d].snap)
               /\ \A i \in DOMAIN call[d].snap :
                    /\ call[d].base.turns[i].turn = call[d].snap[i]
                    /\ Proposed(call[d].base.turns[i])'
               /\ call[d].snap # <<>> => call[d].base.session = call[d].session
               /\ Queued(d)'
               /\ ended' \ Elements(call[d].snap) \subseteq crossed' \cup {live'.turn}
               /\ EndsFirst(d)' => ended' \ Elements(call[d].snap) \subseteq crossed'
    <3>1. ASSUME NEW i \in DOMAIN call[d].snap
          PROVE  Proposed(call[d].base.turns[i])'
      <4>. DEFINE m == call[d].base.turns[i]
      <4>1. Proposed(m)
        BY <1>0, <2>4 DEF ReadInv
      <4>2. m = call'[d].base.turns[i]
        OBVIOUS
      <4>3. KeepsProposal(d) /\ crossed \subseteq crossed'
        BY <1>0, <2>4 DEF Grown
      <4>4. SoundIn(m, crossed') \/ m.turn \in ended' \ {live'.turn}
        <5>. HIDE DEF m
        <5>. QED  BY <4>1, <4>3 DEF Proposed, SoundIn, KeepsProposal
      <4>. QED  BY <4>2, <4>4 DEF Proposed
    <3>2. KeepsProposal(d)
      BY <2>4
    <3>. QED  BY <1>0, <2>4, <3>1, <3>2 DEF ReadInv, KeepsProposal
  <2>5. ASSUME At(d, "projecting")
        PROVE  GoodIn(call[d].base, native', stored', crossed')
               /\ call[d].base.session = call[d].session
    BY <1>0, <2>5 DEF ReadInv
  <2>. QED  BY <2>1, <2>2, <2>3, <2>4, <2>5 DEF ReadInv, Good
<1>2. RollbackInv(d)'
  <2>1. call[d].pc \in {"opening", "replacing", "noting", "retaining"} => d \in Rollbacks
    BY <1>0 DEF RollbackInv
  <2>2. ASSUME At(d, "opening")
        PROVE  GoodIn(call[d].base, native', stored', crossed')
               /\ call[d].base.session = call[d].session
    BY <1>0, <2>2 DEF RollbackInv
  <2>3. ASSUME call[d].pc \in {"replacing", "noting", "retaining"}
        PROVE  /\ call[d].session \in Sessions
               /\ native'[call[d].session] = call[d].snap
               /\ mem'[call[d].session] = NoRecord
    BY <1>0, <2>3 DEF RollbackInv
  <2>4. Shorter(d)' = Shorter(d) /\ Retained(d)' = Retained(d)
    BY DEF Shorter, Retained
  <2>5. ASSUME call[d].pc \in {"replacing", "noting"}
        PROVE  /\ call[d].base.session = loaded'
               /\ Shorter(d)
               /\ native'[loaded'] # <<>>
               /\ Elements(call[d].snap) \subseteq Elements(native'[loaded'])
    <3>1. /\ call[d].base.session = loaded /\ Shorter(d) /\ native[loaded] # <<>>
          /\ Elements(call[d].snap) \subseteq Elements(native[loaded])
          /\ d \in Rollbacks /\ Busy(d)
      BY <1>0, <2>5 DEF RollbackInv, Busy
    <3>2. loaded \in Sessions /\ loaded' = loaded
      <4>1. ~call[d].restores
        BY <1>0, <3>1, RestoreIs, HistoryAssumption
      <4>. QED  BY <3>1, <4>1, BusyIs
    <3>3. /\ native[loaded] \in Seq(Turns) /\ native'[loaded] \in Seq(Turns)
          /\ Begins(native[loaded], native'[loaded])
      BY <1>0, <3>2 DEF Types, Grown
    <3>4. native'[loaded] # <<>> /\ Elements(native[loaded]) \subseteq Elements(native'[loaded])
      BY <3>1, <3>3 DEF Begins, Elements
    <3>. QED  BY <3>1, <3>2, <3>4
  <2>6. ASSUME At(d, "replacing") PROVE GoodIn(call[d].base, native', stored', crossed')
    BY <1>0, <2>6 DEF RollbackInv
  <2>7. ASSUME At(d, "noting")
        PROVE  /\ GoodIn(Retained(d), native', stored', crossed') /\ Queued(d)'
               /\ call[d].session = stored'.session
    <3>1. Shorter(d) /\ Good(Retained(d)) /\ call[d].session = stored.session
      BY <1>0, <2>7 DEF RollbackInv
    <3>2. Retained(d) \in Records
      BY <1>0, <3>1, RetainedTyped
    <3>. QED  BY <1>0, <2>7, <3>1, <3>2
  <2>8. ASSUME At(d, "retaining")
        PROVE  /\ GoodIn(call[d].base, native', stored', crossed')
               /\ call[d].base.session = call[d].session
               /\ call[d].session = stored'.session
    BY <1>0, <2>8 DEF RollbackInv
  <2>. QED  BY <2>1, <2>2, <2>3, <2>4, <2>5, <2>6, <2>7, <2>8 DEF RollbackInv, Good
<1>. QED  BY <1>1, <1>2

(* The proposal of a call that waits, when another caller goes on.         *)
LEMMA ProposalKeeps ==
  ASSUME Between, NEW c \in Callers, NEW d \in Calls \ {c}, Requeued(c),
         UNCHANGED <<live, ended>>, crossed \subseteq crossed'
  PROVE  /\ At(d, "aligning") => KeepsProposal(d)
         /\ At(d, "noting") => Queued(d)'
<1>1. d \in Callers \ {c} /\ ReadInv(d) /\ RollbackInv(d)
  BY DEF Callers, Between, HistoryInv, CallsInv
<1>2. (Queued(d) => Queued(d)') /\ (EndsFirst(d)' => EndsFirst(d))
  BY <1>1, QueueKeeps DEF Between
<1>3. ASSUME At(d, "aligning") PROVE KeepsProposal(d)
  <2>1. /\ Queued(d)
        /\ ended \ Elements(call[d].snap) \subseteq crossed \cup {live.turn}
        /\ EndsFirst(d) => ended \ Elements(call[d].snap) \subseteq crossed
    BY <1>1, <1>3 DEF ReadInv
  <2>. QED  BY <1>2, <2>1 DEF KeepsProposal
<1>4. At(d, "noting") => Queued(d)
  BY <1>1 DEF RollbackInv
<1>. QED  BY <1>2, <1>3, <1>4

(* One rollback is under way, and nothing else of the Desktop.             *)
LEMMA RollbackAlone ==
  ASSUME Between, NEW c \in Calls, NEW d \in Calls, c # d, Busy(c), Busy(d),
         c \in Rollbacks
  PROVE  d \notin Rollbacks
<1>1. Rollbacks \cap Controls = {}
  BY HistoryAssumption
<1>. QED  BY <1>1 DEF Between, HistoryInv, Orderly

(* A caller that goes on keeps every call right, itself and the others.    *)
LEMMA CallsMoved ==
  ASSUME Between, NEW c \in Callers, NEW stage, NEW record, NEW previous, NEW t,
         Moves(c, stage, record, previous, t), NEW d \in Calls
  PROVE  ReadInv(d)' /\ RollbackInv(d)'
<1>0. /\ call \in [Callers -> CallStates] /\ mem \in [Sessions -> Records]
      /\ UNCHANGED <<native, live, ended>> /\ crossed \subseteq crossed'
      /\ stored'.session = stored.session /\ Requeued(c)
      /\ None \notin Sessions /\ stored.session \in Sessions
      /\ d \in Callers /\ Rollbacks \subseteq Calls /\ Reads \cap Rollbacks = {}
      /\ ReadInv(d) /\ RollbackInv(d)
  BY SubagentsAssumption, HistoryAssumption DEF Types, Between, Moves, Callers, Calls,
     HistoryInv, CallsInv
<1>1. \A e \in Callers \ {c} : call'[e] = call[e]
  BY <1>0 DEF Moves, Over, Leaves, Adopts, TakesOver, Ends, Waits
<1>2. c \in Calls => Busy(c) /\ (call[c].restores => c \notin Rollbacks)
  <2>1. c \notin Lives \/ c \notin Calls
    BY HistoryAssumption
  <2>2. c \in Calls => Busy(c)
    BY <2>1 DEF Moves, EventMove, ReadMove, RollbackMove, Busy
  <2>. QED  BY <1>0, <2>2, RestoreIs
(* A record that is taken over is one of a session.                        *)
<1>3. \/ mem' = mem
      \/ \E s \in Sessions :
           /\ mem' = [mem EXCEPT ![s] = record] /\ record # NoRecord /\ c \in Calls
           /\ \/ mem[s] # NoRecord
              \/ loaded = None
              \/ c \in Rollbacks
  <2>1. CASE Adopts(c, stage, record)
    <3>1. /\ c \in Calls /\ record.session \in Sessions
          /\ call[c].pc \in {"taken", "aligning", "projecting"}
          /\ mem' = [mem EXCEPT ![call[c].session] = record]
      BY <2>1 DEF Adopts, Moves, EventMove, ReadMove, RollbackMove, GoodIn
    <3>2. record # NoRecord
      BY <1>0, <3>1 DEF NoRecord
    <3>3. /\ call[c].session \in Sessions
          /\ mem[call[c].session] # NoRecord \/ loaded = None
      <4>1. CASE call[c].restores
        BY <1>0, <4>1, RestoreIs
      <4>2. CASE ~call[c].restores
        BY <3>1, <4>2 DEF Between, HistoryInv, CallsInv, ReadInv
      <4>. QED  BY <4>1, <4>2
    <3>. QED  BY <3>1, <3>2, <3>3
  <2>2. CASE TakesOver(c, stage, record)
    <3>1. /\ c \in Rollbacks /\ record.session \in Sessions
          /\ mem' = [mem EXCEPT ![record.session] = record]
      BY <2>2 DEF TakesOver, Moves, EventMove, ReadMove, RollbackMove, GoodIn
    <3>2. record # NoRecord
      BY <1>0, <3>1 DEF NoRecord
    <3>. QED  BY <1>0, <3>1, <3>2
  <2>3. mem' = mem \/ Adopts(c, stage, record) \/ TakesOver(c, stage, record)
    BY DEF Moves, Over, Leaves, Waits
  <2>. QED  BY <2>1, <2>2, <2>3
<1>4. CASE d # c
  <2>1. call'[d] = call[d]
    BY <1>0, <1>1, <1>4
  <2>2. \A s \in Sessions : mem[s] # NoRecord => mem'[s] # NoRecord
    BY <1>0, <1>3
  <2>3. ASSUME d \in Rollbacks, Busy(d)
        PROVE  loaded # None /\ (c \in Calls => c \notin Rollbacks)
    <3>1. ~call[d].restores
      BY <1>0, <2>3, RestoreIs
    <3>2. loaded # None
      BY <2>3, <3>1, BusyIs
    <3>. QED  BY <1>2, <1>4, <2>3, <3>2, RollbackAlone
  <2>4. d \in Rollbacks /\ Busy(d) => loaded' = loaded
    <3>1. call[c].restores => loaded = None
      BY RestoreIs
    <3>2. stage = "retaining" => c \in Rollbacks /\ c \in Calls
      BY <1>0 DEF Moves, EventMove, ReadMove, RollbackMove
    <3>. QED  BY <2>3, <3>1, <3>2, MovesLoaded
  <2>5. ASSUME call[d].pc \in {"replacing", "noting", "retaining"}
        PROVE  mem'[call[d].session] = mem[call[d].session]
    <3>1. d \in Rollbacks /\ Busy(d) /\ mem[call[d].session] = NoRecord
          /\ call[d].session \in Sessions
      BY <1>0, <2>5 DEF RollbackInv, Busy
    <3>. QED  BY <1>0, <1>3, <2>3, <3>1
  <2>6. /\ At(d, "aligning") => KeepsProposal(d)
        /\ At(d, "noting") => Queued(d)'
    BY <1>0, <1>4, ProposalKeeps
  <2>. QED  BY <1>0, <2>1, <2>2, <2>4, <2>5, <2>6, CallKeeps
<1>5. CASE d = c
  <2>1. CASE Ends(c)
    <3>1. call'[d].pc \in {"done", "failed"}
      BY <1>5, <2>1, EndsIs DEF Between
    <3>. QED  BY <3>1 DEF ReadInv, RollbackInv
  <2>2. CASE /\ Adopts(c, stage, record)
             /\ c \in Rollbacks /\ record.turns # <<>>
             /\ call' = [call EXCEPT ![c] =
                  [Ended("opening") EXCEPT !.session = call[c].session, !.base = record]]
    <3>1. /\ call[c].pc \in {"taken", "aligning", "projecting"} /\ ~call[c].restores
          /\ GoodIn(record, native', stored', crossed') /\ record.session = call[c].session
          /\ mem' = [mem EXCEPT ![call[c].session] = record]
          /\ loaded' = loaded
      BY <1>2, <1>5, <2>2 DEF Adopts, Moves, EventMove, ReadMove, RollbackMove
    <3>2. call[c].session = loaded /\ call[c].session \in Sessions
      BY <1>0, <1>5, <2>2, <3>1 DEF ReadInv
    <3>3. record # NoRecord
      BY <1>0, <3>1, <3>2 DEF NoRecord
    <3>4. /\ call'[c].pc = "opening" /\ call'[c].session = call[c].session
          /\ call'[c].base = record /\ ~call'[c].restores
      BY <1>0, <1>5, <2>2 DEF Ended
    <3>5. mem'[loaded] = record
      BY <1>0, <3>1, <3>2
    <3>6. ReadInv(c)'
      BY <1>0, <3>1, <3>2, <3>3, <3>4, <3>5 DEF ReadInv
    <3>7. RollbackInv(c)'
      BY <2>2, <3>1, <3>4 DEF RollbackInv, Good
    <3>. QED  BY <1>5, <3>6, <3>7
  <2>3. CASE Waits(c, stage, record, previous, t)
    <3>1. /\ call'[c].pc = stage /\ call'[c].session = call[c].session
          /\ call'[c].snap = call[c].snap /\ call'[c].base = record
          /\ call'[c].restores = call[c].restores
          /\ loaded' = loaded /\ mem' = mem
      <4>1. loaded' = loaded /\ mem' = mem
        BY <2>3 DEF Waits
      <4>. QED  BY <2>3, <4>1, WaitsIs DEF Between
    <3>2. ~Over(c, stage, record)
      BY <2>3, WaitsIs DEF Between
    <3>3. CASE stage = "projecting"
      <4>1. /\ call[c].pc \in {"taken", "aligning", "projecting"}
            /\ GoodIn(record, native', stored', crossed') /\ record.session = call[c].session
        BY <1>5, <3>2, <3>3 DEF Moves, EventMove, ReadMove, RollbackMove
      <4>2. /\ Begins(call[c].snap, native[call[c].session])
            /\ ~call[c].restores =>
                 /\ call[c].session \in Sessions
                 /\ mem[call[c].session] # NoRecord
                 /\ c \in Rollbacks => call[c].session = loaded
        BY <1>0, <1>5, <4>1 DEF ReadInv
      <4>. QED  BY <1>0, <1>5, <3>1, <3>3, <4>1, <4>2 DEF ReadInv, RollbackInv, Good
    <3>4. CASE stage = "retaining"
      <4>1. /\ call[c].pc \in {"noting", "retaining"} /\ c \in Rollbacks
            /\ GoodIn(record, native', stored', crossed') /\ record.session = call[c].session
            /\ call[c].session = stored.session
        BY <1>5, <3>4 DEF Moves, EventMove, ReadMove, RollbackMove
      <4>2. /\ native[call[c].session] = call[c].snap /\ mem[call[c].session] = NoRecord
            /\ call[c].session \in Sessions
        BY <1>0, <1>5, <4>1 DEF RollbackInv
      <4>. QED  BY <1>0, <1>5, <3>1, <3>4, <4>1, <4>2 DEF ReadInv, RollbackInv, Good
    <3>5. stage \in {"projecting", "retaining"}
      <4>1. c \notin Lives
        BY <1>5, HistoryAssumption
      <4>. QED  BY <4>1 DEF Moves, EventMove, ReadMove, RollbackMove
    <3>. QED  BY <3>3, <3>4, <3>5
  <2>4. \/ Ends(c) \/ Waits(c, stage, record, previous, t)
        \/ /\ Adopts(c, stage, record)
           /\ c \in Rollbacks /\ record.turns # <<>>
           /\ call' = [call EXCEPT ![c] =
                [Ended("opening") EXCEPT !.session = call[c].session, !.base = record]]
    BY DEF Moves, Over, Leaves, Adopts, TakesOver
  <2>. QED  BY <2>1, <2>2, <2>3, <2>4
<1>. QED  BY <1>4, <1>5

(* A read asks for mappings that are right, or will be refused.            *)
LEMMA CallsAsked ==
  ASSUME Between, NEW c \in Calls, Asks(c)
  PROVE  ReadInv(c)' /\ RollbackInv(c)'
<1>. DEFINE record == IF call[c].restores THEN call[c].base ELSE mem[call[c].session]
            turns == Aligned(c, record)
            snap == call[c].snap
<1>0. /\ call \in [Callers -> CallStates] /\ call[c] \in CallStates /\ c \in Callers
      /\ ReadInv(c) /\ snap \in Seq(Turns)
      /\ \A s \in Sessions : native[s] \in Seq(Turns)
  BY CallHas DEF Types, Between, Callers, HistoryInv, CallsInv
<1>1. /\ At(c, "taken") /\ ~Foreign(c, record)
      /\ crossed' = crossed \cup Endangered(c, record)
      /\ call' = [call EXCEPT ![c].pc = "aligning", ![c].base = [record EXCEPT !.turns = turns]]
      /\ writes' = Append(writes, c)
      /\ UNCHANGED <<native, stored, mem, loaded, live, ended>>
  BY DEF Asks
<1>2. /\ record \in Records /\ Good(record) /\ call[c].session \in Sessions
      /\ Begins(snap, native[call[c].session])
      /\ ~call[c].restores =>
           /\ mem[call[c].session] # NoRecord
           /\ c \in Rollbacks => call[c].session = loaded
  <2>1. CASE call[c].restores
    BY <1>0, <1>1, <2>1, CallHas DEF ReadInv, Between, Good, GoodIn
  <2>2. CASE ~call[c].restores
    BY <1>0, <1>1, <2>2 DEF ReadInv, Between, HistoryInv, MemInv, Types
  <2>. QED  BY <2>1, <2>2
<1>. HIDE DEF record
<1>3. DOMAIN turns = DOMAIN snap /\ turns = [i \in DOMAIN snap |-> turns[i]]
  BY DEF Aligned
<1>4. ASSUME NEW i \in DOMAIN snap
      PROVE  /\ turns[i].turn = snap[i]
             /\ SoundIn(turns[i], crossed') \/ turns[i].turn \in ended \ {live.turn}
  <2>. DEFINE known == {m \in Elements(record.turns) : m.turn = snap[i]}
  <2>1. turns[i] = IF known = {} THEN [turn |-> snap[i], by |-> c]
                   ELSE CHOOSE m \in known : TRUE
    BY DEF Aligned
  <2>. HIDE DEF turns
  <2>2. CASE known # {}
    <3>1. turns[i] \in known
      BY <2>1, <2>2
    <3>2. PICK j \in DOMAIN record.turns : turns[i] = record.turns[j] /\ turns[i].turn = snap[i]
      BY <3>1
    <3>3. SoundIn(record.turns[j], crossed)
      BY <1>2 DEF Good, GoodIn
    <3>. QED  BY <1>1, <3>2, <3>3 DEF SoundIn
  <2>3. CASE known = {}
    <3>1. turns[i].turn = snap[i]
      BY <2>1, <2>3
    <3>2. snap[i] \notin TurnsOf(record)
      BY <2>3 DEF TurnsOf
    <3>3. snap[i] \in ended \cup crossed \cup {live.turn} /\ snap[i] \in Turns
      <4>1. snap[i] \in Elements(native[call[c].session])
        <5>1. i \in DOMAIN native[call[c].session] /\ snap[i] = native[call[c].session][i]
          BY <1>0, <1>2, LenProperties DEF Begins
        <5>. QED  BY <5>1
      <4>2. snap[i] \in begun
        BY <1>2, <4>1 DEF Between, HistoryInv, TurnsInv
      <4>3. snap[i] \in Turns
        BY <1>0
      <4>. QED  BY <4>2, <4>3 DEF Between, HistoryInv, TurnsInv
    <3>4. snap[i] = live.turn => snap[i] \in crossed'
      <4>. SUFFICES ASSUME snap[i] = live.turn PROVE snap[i] \in Endangered(c, record)
        BY <1>1
      <4>1. snap[i] # None /\ snap[i] \in Elements(snap)
        BY <3>3, SubagentsAssumption
      <4>. QED  BY <3>2, <4>1 DEF Endangered
    <3>. QED  BY <1>1, <3>1, <3>3, <3>4 DEF SoundIn
  <2>. QED  BY <2>2, <2>3
<1>5. turns \in Seq(Mappings) /\ Len(turns) = Len(snap)
  <2>1. Types' /\ call'[c].base.turns = turns
    <3>1. [record EXCEPT !.turns = turns].turns = turns
      BY <1>2 DEF Records
    <3>2. call'[c].base = [record EXCEPT !.turns = turns]
      BY <1>0, <1>1 DEF CallStates
    <3>. QED  BY <3>1, <3>2 DEF Between
  <2>2. turns \in Seq(Mappings)
    <3>1. call'[c].base \in Records
      BY <1>0, <2>1 DEF Types, CallStates
    <3>. QED  BY <2>1, <3>1, RecordHas
  <2>. HIDE DEF turns
  <2>. QED  BY <1>0, <1>3, <2>2, LenProperties
<1>6. /\ call'[c].pc = "aligning" /\ call'[c].session = call[c].session
      /\ call'[c].snap = snap /\ call'[c].restores = call[c].restores
      /\ call'[c].base.turns = turns /\ call'[c].base.session = record.session
  <2>. HIDE DEF turns
  <2>1. call'[c].base = [record EXCEPT !.turns = turns]
    BY <1>0, <1>1 DEF CallStates
  <2>2. /\ [record EXCEPT !.turns = turns].turns = turns
        /\ [record EXCEPT !.turns = turns].session = record.session
    BY <1>2, <1>5, RecordWith
  <2>. QED  BY <1>0, <1>1, <2>1, <2>2 DEF CallStates
<1>. HIDE DEF turns
<1>7. Queued(c)'
  <2>1. writes \in Seq(Callers \cup {Terminal})
    BY DEF Types, Between
  <2>2. Len(writes) + 1 \in DOMAIN writes' /\ writes'[Len(writes) + 1] = c
    BY <1>0, <1>1, <2>1, AppendedIs
  <2>. QED  BY <2>2 DEF Queued
<1>8. ended' \ Elements(snap) \subseteq crossed'
  BY <1>1 DEF Endangered
<1>9. snap # <<>> => record.session = call[c].session
  BY <1>1 DEF Foreign
<1>10. ReadInv(c)'
  <2>1. \A i \in DOMAIN snap :
          /\ call'[c].base.turns[i].turn = snap[i]
          /\ \/ SoundIn(call'[c].base.turns[i], crossed')
             \/ call'[c].base.turns[i].turn \in ended' \ {live'.turn}
    BY <1>1, <1>4, <1>6
  <2>. HIDE DEF Elements, snap
  <2>2. /\ Len(call'[c].base.turns) = Len(snap)
        /\ Begins(snap, native'[call'[c].session])
        /\ snap # <<>> => call'[c].base.session = call'[c].session
        /\ ~call'[c].restores =>
             /\ call'[c].session \in Sessions /\ mem'[call'[c].session] # NoRecord
             /\ c \in Rollbacks => call'[c].session = loaded'
    BY <1>1, <1>2, <1>5, <1>6, <1>9
  <2>. QED  BY <1>6, <1>7, <1>8, <2>1, <2>2 DEF ReadInv, Proposed
<1>11. RollbackInv(c)'
  BY <1>6 DEF RollbackInv
<1>. QED  BY <1>10, <1>11

(* The adapter opens a session that is one Turn shorter than the record.   *)
LEMMA CallsOpened ==
  ASSUME Between, NEW c \in Rollbacks, NEW s \in Sessions, OpenWithout(c, s)
  PROVE  ReadInv(c)' /\ RollbackInv(c)'
<1>. DEFINE source == native[call[c].base.session]
            kept == SubSeq(source, 1, Len(source) - 1)
            base == call[c].base
<1>0. /\ call \in [Callers -> CallStates] /\ call[c] \in CallStates /\ c \in Callers
      /\ c \in Calls /\ ReadInv(c) /\ RollbackInv(c) /\ base \in Records
      /\ native \in [Sessions -> Seq(Turns)] /\ writes \in Seq(Callers \cup {Terminal})
      /\ Types /\ Types' /\ Grown
  BY CallHas DEF Types, Between, Callers, Calls, HistoryInv, CallsInv
<1>1. /\ At(c, "opening") /\ native[s] = <<>> /\ mem[s] = NoRecord /\ source # <<>>
      /\ native' = [native EXCEPT ![s] = kept] /\ stored' = stored
  BY DEF OpenWithout
<1>2. CASE Fail(c)
  <2>1. Ends(c)
    BY <1>2 DEF Fail, Ends
  <2>2. call'[c].pc \in {"done", "failed"}
    BY <1>0, <2>1, EndsIs
  <2>. QED  BY <2>2 DEF ReadInv, RollbackInv
<1>3. CASE /\ Len(kept) = Len(base.turns) - 1
           /\ call' = [call EXCEPT ![c].pc = "replacing", ![c].session = s, ![c].snap = kept]
           /\ UNCHANGED <<mem, loaded, fault>>
  <2>1. /\ Good(base) /\ base.session = call[c].session /\ ~call[c].restores /\ Busy(c)
        /\ call[c].session = loaded
    <3>1. Good(base) /\ base.session = call[c].session
      BY <1>0, <1>1 DEF RollbackInv
    <3>2. ~call[c].restores
      BY <1>0, RestoreIs, HistoryAssumption
    <3>. QED  BY <1>0, <1>1, <3>1, <3>2 DEF ReadInv, Busy
  <2>2. loaded \in Sessions /\ s # loaded
    <3>1. loaded \in Sessions /\ loaded # None
      BY <1>0, <2>1, BusyIs
    <3>2. mem[loaded] # NoRecord
      BY <3>1 DEF Between, HistoryInv, MemInv
    <3>. QED  BY <1>1, <3>1, <3>2
  <2>3. /\ source = native[loaded] /\ source \in Seq(Turns)
        /\ kept \in Seq(Turns) /\ Len(kept) = Len(source) - 1
        /\ DOMAIN kept = 1 .. Len(source) - 1 /\ DOMAIN source = 1 .. Len(source)
        /\ \A i \in DOMAIN kept : i \in DOMAIN source /\ kept[i] = source[i]
    <3>1. source = native[loaded] /\ source \in Seq(Turns)
      BY <1>0, <2>1, <2>2
    <3>. QED  BY <1>1, <3>1
  <2>4. Len(base.turns) = Len(source) /\ base.turns \in Seq(Mappings)
    <3>1. base.turns \in Seq(Mappings)
      BY <1>0, RecordHas
    <3>. QED  BY <1>3, <2>3, <3>1, LenProperties
  <2>5. \A i \in DOMAIN source : base.turns[i].turn = source[i]
    <3>1. Follows(base.turns, source)
      BY <2>1 DEF Good, GoodIn
    <3>. QED  BY <2>3, <2>4, <3>1, FollowsWhole
  <2>. HIDE DEF kept, source
  <2>6. /\ call'[c].pc = "replacing" /\ call'[c].session = s /\ call'[c].snap = kept
        /\ call'[c].base = base
    BY <1>0, <1>3 DEF CallStates
  <2>7. native'[s] = kept /\ native'[loaded] = source
    BY <1>0, <1>1, <2>2, <2>3
  <2>8. /\ Len(base.turns) = Len(kept) + 1
        /\ \A i \in DOMAIN kept : base.turns[i].turn = kept[i]
    <3>1. Len(source) \in Nat
      BY <2>3, LenProperties
    <3>. QED  BY <2>3, <2>4, <2>5, <3>1
  <2>9. Elements(kept) \subseteq Elements(source) /\ source # <<>>
    BY <1>1, <2>3
  <2>10. GoodIn(base, native', stored', crossed')
    BY <1>0, <2>1, GoodAges DEF Good
  <2>. HIDE DEF Elements
  <2>11. Shorter(c)'
    BY <2>6, <2>8 DEF Shorter
  <2>12. RollbackInv(c)'
    BY <1>1, <1>3, <2>1, <2>2, <2>6, <2>7, <2>9, <2>10, <2>11 DEF RollbackInv, Good
  <2>. QED  BY <2>6, <2>12 DEF ReadInv
<1>. QED  BY <1>2, <1>3 DEF OpenWithout

(* So does a rollback that is stored and tells the callers that wait.      *)
LEMMA CallsReplaced ==
  ASSUME Between, NEW c \in Rollbacks, Replaces(c)
  PROVE  ReadInv(c)' /\ RollbackInv(c)'
<1>0. /\ call \in [Callers -> CallStates] /\ call[c] \in CallStates /\ c \in Callers
      /\ c \in Calls /\ RollbackInv(c)
      /\ Popped \in Seq(Callers \cup {Terminal})
  BY CallHas, PoppedIs DEF Types, Between, Callers, Calls, HistoryInv, CallsInv, Replaces, Runs
<1>1. /\ At(c, "replacing") /\ UNCHANGED <<native, mem, loaded>>
      /\ stored' = Retained(c) /\ writes' = Append(Popped, c)
      /\ call' = [call EXCEPT ![c].pc = "noting"]
  BY DEF Replaces
<1>2. /\ call'[c].pc = "noting" /\ call'[c].session = call[c].session
      /\ call'[c].snap = call[c].snap /\ call'[c].base = call[c].base
  BY <1>0, <1>1 DEF CallStates
<1>3. Retained(c)' = Retained(c) /\ Shorter(c)' = Shorter(c)
  BY <1>2 DEF Retained, Shorter
<1>4. GoodIn(Retained(c), native', stored', crossed')
  BY <1>1 DEF Between, StoreInv, Good
<1>5. Queued(c)'
  <2>1. Len(Popped) + 1 \in DOMAIN writes' /\ writes'[Len(Popped) + 1] = c
    BY <1>0, <1>1, AppendedIs
  <2>. QED  BY <2>1 DEF Queued
<1>6. call[c].session = stored'.session
  BY <1>1 DEF Retained
<1>7. RollbackInv(c)'
  <2>. HIDE DEF Elements
  <2>. QED  BY <1>0, <1>1, <1>2, <1>3, <1>4, <1>5, <1>6 DEF RollbackInv, Good
<1>. QED  BY <1>2, <1>7 DEF ReadInv

(* While a Turn begins, appears or ends, the calls stay where they are.    *)
LEMMA CallsHeld ==
  ASSUME Between, UNCHANGED <<call, loaded>>, stored'.session = stored.session,
         \A s \in Sessions : mem[s] # NoRecord => mem'[s] # NoRecord,
         \A s \in Sessions : mem[s] = NoRecord => mem'[s] = mem[s] /\ native'[s] = native[s],
         \A d \in Calls : At(d, "aligning") => KeepsProposal(d),
         \A d \in Calls : Queued(d) => Queued(d)'
  PROVE  CallsInv'
<1>. SUFFICES ASSUME NEW d \in Calls PROVE ReadInv(d)' /\ RollbackInv(d)'
  BY DEF CallsInv
<1>1. RollbackInv(d)
  BY DEF Between, HistoryInv, CallsInv
<1>2. call[d].pc \in {"replacing", "noting", "retaining"} =>
        /\ mem'[call[d].session] = mem[call[d].session]
        /\ native'[call[d].session] = native[call[d].session]
  BY <1>1 DEF RollbackInv
<1>3. At(d, "noting") => Queued(d)'
  BY <1>1 DEF RollbackInv
<1>. QED  BY <1>2, <1>3, CallKeeps

(* What a call that aligns goes by.                                        *)
LEMMA AlignsBy ==
  ASSUME Between, NEW d \in Calls, At(d, "aligning")
  PROVE  /\ Queued(d) /\ d \in Callers
         /\ ended \ Elements(call[d].snap) \subseteq crossed \cup {live.turn}
         /\ EndsFirst(d) => ended \ Elements(call[d].snap) \subseteq crossed
BY DEF Between, HistoryInv, CallsInv, ReadInv, Callers

(* The steps of the Turn.                                                  *)
LEMMA CallsTurn ==
  ASSUME Between,
         \/ \E t \in Turns : StartTurn(t)
         \/ RecordTurn \/ EndTurn \/ EndUnnamed \/ RunPersist
  PROVE  CallsInv'
<1>0. /\ writes \in Seq(Callers \cup {Terminal}) /\ Terminal \notin Callers
      /\ ended \subseteq Turns /\ None \notin Turns /\ ended \subseteq begun
      /\ crossed \subseteq crossed' /\ mem \in [Sessions -> Records]
      /\ native \in [Sessions -> Seq(Turns)] /\ None \notin Sessions
      /\ TurnsInv /\ Calls \subseteq Callers
      /\ loaded # None => mem[loaded] # NoRecord
  BY HistoryAssumption, SubagentsAssumption
     DEF Types, Between, Grown, HistoryInv, TurnsInv, MemInv, Callers
<1>1. ASSUME NEW t \in Turns, StartTurn(t) PROVE CallsInv'
  <2>1. /\ UNCHANGED <<call, loaded, stored, mem, native, writes, ended, crossed>>
        /\ live.turn = None /\ live'.turn = t /\ t \notin ended
    BY <1>0, <1>1 DEF StartTurn
  <2>2. ASSUME NEW d \in Calls PROVE Queued(d)' = Queued(d) /\ EndsFirst(d)' = EndsFirst(d)
    BY <2>1 DEF Queued, EndsFirst
  <2>3. ASSUME NEW d \in Calls, At(d, "aligning") PROVE KeepsProposal(d)
    BY <1>0, <2>1, <2>2, <2>3, AlignsBy DEF KeepsProposal
  <2>. QED  BY <2>1, <2>2, <2>3, CallsHeld
<1>2. CASE RecordTurn
  <2>1. /\ UNCHANGED <<call, loaded, stored, mem, writes, ended, crossed, live>>
        /\ native' = [native EXCEPT ![loaded] = Append(@, live.turn)]
        /\ live.phase = "running"
    BY <1>2 DEF RecordTurn, histories
  <2>2. ASSUME NEW d \in Calls PROVE Queued(d)' = Queued(d) /\ EndsFirst(d)' = EndsFirst(d)
    BY <2>1 DEF Queued, EndsFirst
  <2>3. ASSUME NEW d \in Calls, At(d, "aligning") PROVE KeepsProposal(d)
    BY <1>0, <2>1, <2>2, <2>3, AlignsBy DEF KeepsProposal
  <2>4. loaded # None
    BY <1>0, <2>1 DEF TurnsInv
  <2>5. \A s \in Sessions : mem[s] = NoRecord => native'[s] = native[s]
    BY <1>0, <2>1, <2>4
  <2>. QED  BY <2>1, <2>2, <2>3, <2>5, CallsHeld
<1>3. CASE EndUnnamed \/ (EndTurn /\ fault)
  <2>1. /\ UNCHANGED <<call, loaded, stored, mem, native, writes, ended>>
        /\ live' = NoTurn /\ crossed' = crossed \cup {live.turn}
    BY <1>3 DEF EndUnnamed, EndTurn
  <2>2. live'.turn = None
    BY <2>1 DEF NoTurn
  <2>3. ASSUME NEW d \in Calls PROVE Queued(d)' = Queued(d) /\ EndsFirst(d)' = EndsFirst(d)
    BY <2>1 DEF Queued, EndsFirst
  <2>4. ASSUME NEW d \in Calls, At(d, "aligning") PROVE KeepsProposal(d)
    BY <1>0, <2>1, <2>2, <2>3, <2>4, AlignsBy DEF KeepsProposal
  <2>. QED  BY <2>1, <2>3, <2>4, CallsHeld
<1>4. CASE EndTurn /\ ~fault
  <2>1. /\ UNCHANGED <<call, loaded, stored, mem, native, crossed>>
        /\ live.phase = "running" /\ live'.turn = live.turn
        /\ writes' = Append(writes, Terminal) /\ ended' = ended \cup {live.turn}
    BY <1>4 DEF EndTurn, Between, Types
  <2>2. /\ DOMAIN writes' = DOMAIN writes \cup {Len(writes) + 1}
        /\ writes'[Len(writes) + 1] = Terminal
        /\ \A i \in DOMAIN writes : writes'[i] = writes[i]
        /\ DOMAIN writes = 1 .. Len(writes) /\ Len(writes) \in Nat
    BY <1>0, <2>1, AppendedIs, LenProperties
  <2>3. \A i \in DOMAIN writes : writes[i] # Terminal
    BY <1>0, <2>1 DEF TurnsInv, Queued
  <2>4. ASSUME NEW d \in Calls PROVE (Queued(d) => Queued(d)') /\ ~EndsFirst(d)'
    <3>1. Queued(d) => Queued(d)'
      BY <2>2 DEF Queued
    <3>2. ~EndsFirst(d)'
      <4>. SUFFICES ASSUME NEW i \in DOMAIN writes', NEW j \in DOMAIN writes', i < j,
                           writes'[i] = Terminal
                    PROVE  FALSE
        BY DEF EndsFirst
      <4>1. i = Len(writes) + 1
        BY <2>2, <2>3
      <4>. QED  BY <2>2, <4>1
    <3>. QED  BY <3>1, <3>2
  <2>5. ASSUME NEW d \in Calls, At(d, "aligning") PROVE KeepsProposal(d)
    BY <1>0, <2>1, <2>4, <2>5, AlignsBy DEF KeepsProposal
  <2>. QED  BY <2>1, <2>4, <2>5, CallsHeld
<1>5. CASE RunPersist
  <2>1. /\ UNCHANGED <<call, loaded, native, ended>> /\ writes # <<>>
        /\ writes[1] = Terminal /\ writes' = Popped /\ live' = NoTurn
        /\ mem' = mem \/ (stored' = Upserted /\ mem' = [mem EXCEPT ![loaded] = stored'])
        /\ stored' = stored \/ stored' = Upserted
    BY <1>5 DEF RunPersist, Runs, Persisted
  <2>2. stored'.session = stored.session /\ stored'.session \in Sessions
    <3>1. Upserted.session = stored.session
      BY DEF Upserted, Types, Records, Between
    <3>. QED  BY <2>1, <3>1 DEF Between, Types
  <2>3. live'.turn = None
    BY <2>1 DEF NoTurn
  <2>4. /\ DOMAIN writes = 1 .. Len(writes) /\ Len(writes) \in Nat \ {0}
        /\ \A i \in DOMAIN writes :
              i # 1 => i - 1 \in DOMAIN Popped /\ Popped[i - 1] = writes[i]
    BY <1>0, <2>1, PoppedIs, TailIs DEF Between
  <2>5. ASSUME NEW d \in Calls, Queued(d) PROVE Queued(d)' /\ EndsFirst(d)
    <3>1. PICK j \in DOMAIN writes : writes[j] = d
      BY <2>5 DEF Queued
    <3>2. j # 1 /\ 1 < j /\ 1 \in DOMAIN writes
      BY <1>0, <2>1, <2>4, <3>1
    <3>3. Queued(d)'
      BY <2>1, <2>4, <3>1, <3>2 DEF Queued
    <3>4. EndsFirst(d)
      BY <2>1, <3>1, <3>2 DEF EndsFirst
    <3>. QED  BY <3>3, <3>4
  <2>6. ASSUME NEW d \in Calls, At(d, "aligning") PROVE KeepsProposal(d)
    BY <1>0, <2>1, <2>3, <2>5, <2>6, AlignsBy DEF KeepsProposal
  <2>7. \A s \in Sessions : /\ mem[s] # NoRecord => mem'[s] # NoRecord
                            /\ mem[s] = NoRecord => mem'[s] = mem[s]
    <3>1. stored' # NoRecord
      BY <1>0, <2>2 DEF NoRecord
    <3>2. loaded # None
      <4>1. 1 \in DOMAIN writes
        BY <2>4
      <4>2. Queued(Terminal)
        BY <2>1, <4>1 DEF Queued
      <4>. QED  BY <1>0, <4>2 DEF TurnsInv
    <3>. QED  BY <1>0, <2>1, <3>1, <3>2
  <2>. QED  BY <2>1, <2>2, <2>5, <2>6, <2>7, CallsHeld
<1>. QED  BY <1>1, <1>2, <1>3, <1>4, <1>5

(* Every step keeps the calls right.                                       *)
LEMMA CallsStep ==
  ASSUME Between, \A d \in Callers : MatInv(d), [Next]_vars
  PROVE  CallsInv'
<1>0. /\ call \in [Callers -> CallStates] /\ \A d \in Callers : call[d] \in CallStates
      /\ Calls \subseteq Callers /\ Reads \subseteq Calls
      /\ Rollbacks \subseteq Calls /\ Rollbacks \cap Reads = {} /\ Lives \cap Calls = {}
      /\ loaded \in Sessions \cup {None} /\ None \notin Sessions /\ crossed \subseteq crossed'
      /\ stored \in Records /\ stored.session \in Sessions
      /\ \A s \in Sessions : native[s] \in Seq(Turns)
  BY HistoryAssumption, SubagentsAssumption, CallHas DEF Types, Between, Grown, Callers, Calls
(* Of the calls, at most c moves, and takes its place in the queue.        *)
<1>1. ASSUME NEW c \in Callers,
             \A d \in Callers \ {c} : call'[d] = call[d],
             UNCHANGED <<mem, loaded, live, ended>>, Requeued(c),
             stored'.session = stored.session \/ c \in Rollbacks,
             native' = native \/ c \in Rollbacks,
             c \in Rollbacks => Busy(c),
             c \in Calls => ReadInv(c)' /\ RollbackInv(c)'
      PROVE  CallsInv'
  <2>. SUFFICES ASSUME NEW d \in Calls, d # c PROVE ReadInv(d)' /\ RollbackInv(d)'
    BY <1>1 DEF CallsInv
  <2>1. /\ At(d, "aligning") => KeepsProposal(d)
        /\ At(d, "noting") => Queued(d)'
    BY <1>0, <1>1, ProposalKeeps
  <2>2. call[d].pc \in {"replacing", "noting", "retaining"} => c \notin Rollbacks
    <3>1. call[d].pc \in {"replacing", "noting", "retaining"} => d \in Rollbacks /\ Busy(d)
      BY DEF Between, HistoryInv, CallsInv, RollbackInv, Busy
    <3>. QED  BY <1>0, <1>1, <3>1, RollbackAlone
  <2>3. call'[d] = call[d]
    BY <1>0, <1>1
  <2>. QED  BY <1>1, <2>1, <2>2, <2>3, CallKeeps
<1>2. ASSUME NEW c \in Callers, Drops(c) PROVE CallsInv'
  <2>1. /\ call'[c].pc \in {"done", "failed"} /\ \A d \in Callers \ {c} : call'[d] = call[d]
    BY <1>2, EndsIs DEF Drops, Between
  <2>2. ReadInv(c)' /\ RollbackInv(c)'
    BY <2>1 DEF ReadInv, RollbackInv
  <2>3. UNCHANGED <<mem, loaded, live, ended, stored, native>> /\ Requeued(c) /\ Busy(c)
    BY <1>2 DEF Drops, Busy
  <2>. QED  BY <1>1, <2>1, <2>2, <2>3
<1>3. ASSUME NEW c \in Callers, Asks(c) PROVE CallsInv'
  <2>1. UNCHANGED <<mem, loaded, live, ended, stored, native>> /\ Requeued(c) /\ Busy(c)
        /\ c \notin Lives /\ c \in Calls
    <3>1. UNCHANGED <<mem, loaded, live, ended, stored, native>> /\ At(c, "taken")
          /\ writes' = Append(writes, c)
      BY <1>3 DEF Asks
    <3>2. Busy(c)
      BY <3>1 DEF Busy
    <3>3. c \notin Lives
      BY <3>1, <3>2 DEF Between, HistoryInv, Orderly
    <3>. QED  BY <3>1, <3>2, <3>3 DEF Requeued, Callers
  <2>2. \A d \in Callers \ {c} : call'[d] = call[d]
    BY <1>0, <1>3 DEF Asks
  <2>. QED  BY <1>1, <1>3, <2>1, <2>2, CallsAsked
<1>4. ASSUME NEW c \in Callers, Creates(c) PROVE CallsInv'
  <2>1. UNCHANGED <<call, mem, loaded, live, ended, stored, native>> /\ Requeued(c)
        /\ mat[c].step # "nothing"
    BY <1>4 DEF Creates
  <2>2. ASSUME c \in Calls PROVE Busy(c) /\ call[c].pc \in {"projecting", "retaining"}
    BY <2>1, <2>2 DEF MatInv
  <2>3. ASSUME c \in Calls PROVE ReadInv(c)' /\ RollbackInv(c)'
    BY <2>1, <2>2, <2>3, CallKeeps
  <2>. QED  BY <1>0, <1>1, <2>1, <2>2, <2>3
<1>5. ASSUME NEW c \in Callers, NEW stage, NEW record, NEW previous, NEW t,
             Moves(c, stage, record, previous, t)
      PROVE  CallsInv'
  BY <1>5, CallsMoved DEF CallsInv
<1>6. ASSUME NEW c \in Rollbacks, Replaces(c) PROVE CallsInv'
  <2>1. UNCHANGED <<mem, loaded, live, ended, native>> /\ Requeued(c) /\ Busy(c)
    BY <1>6 DEF Replaces, Requeued, Busy
  <2>2. \A d \in Callers \ {c} : call'[d] = call[d]
    BY <1>0, <1>6 DEF Replaces
  <2>. QED  BY <1>0, <1>1, <1>6, <2>1, <2>2, CallsReplaced
<1>7. ASSUME NEW c \in Rollbacks, NEW s \in Sessions, OpenWithout(c, s) PROVE CallsInv'
  <2>1. UNCHANGED <<mem, loaded, live, ended>> /\ Requeued(c) /\ Busy(c)
    BY <1>7 DEF OpenWithout, Requeued, Busy, Fail, histories
  <2>2. \A d \in Callers \ {c} : call'[d] = call[d]
    BY <1>0, <1>7 DEF OpenWithout, Fail
  <2>. QED  BY <1>0, <1>1, <1>7, <2>1, <2>2, CallsOpened
<1>8. ASSUME NEW c \in Calls, Begin(c) PROVE CallsInv'
  <2>1. /\ UNCHANGED <<native, stored, mem, loaded, live, ended, writes>>
        /\ At(c, "new") /\ loaded # None
    BY <1>8 DEF Begin, Admitted, histories
  <2>2. /\ call'[c].pc = "reading" /\ call'[c].session = loaded
        /\ call'[c].restores = call[c].restores
        /\ \A d \in Callers \ {c} : call'[d] = call[d]
    BY <1>0, <1>8 DEF Begin, CallStates
  <2>3. ~call[c].restores /\ mem[loaded] # NoRecord
    <3>1. ~call[c].restores
      BY <1>0, <2>1, RestoreIs
    <3>. QED  BY <2>1, <3>1 DEF Between, HistoryInv, MemInv
  <2>4. ReadInv(c)' /\ RollbackInv(c)'
    BY <1>0, <2>1, <2>2, <2>3 DEF ReadInv, RollbackInv
  <2>5. ASSUME NEW d \in Calls, d # c PROVE ReadInv(d)' /\ RollbackInv(d)'
    <3>1. Requeued(c)
      BY <2>1 DEF Requeued
    <3>2. /\ At(d, "aligning") => KeepsProposal(d)
          /\ At(d, "noting") => Queued(d)'
      BY <1>0, <2>1, <2>5, <3>1, ProposalKeeps
    <3>. QED  BY <1>0, <2>1, <2>2, <2>5, <3>2, CallKeeps
  <2>. QED  BY <2>4, <2>5 DEF CallsInv
<1>9. ASSUME NEW c \in Calls, TakeSnapshot(c) PROVE CallsInv'
  <2>1. /\ UNCHANGED <<native, stored, mem, loaded, live, ended, writes>>
        /\ At(c, "reading")
    BY <1>9 DEF TakeSnapshot, histories
  <2>2. /\ call'[c].pc = "taken" /\ call'[c].session = call[c].session
        /\ call'[c].snap = native[call[c].session] /\ call'[c].base = call[c].base
        /\ call'[c].restores = call[c].restores
        /\ \A d \in Callers \ {c} : call'[d] = call[d]
    BY <1>0, <1>9 DEF TakeSnapshot, CallStates
  <2>3. /\ call[c].session \in Sessions
        /\ ~call[c].restores =>
             /\ mem[call[c].session] # NoRecord
             /\ c \in Rollbacks => call[c].session = loaded
        /\ call[c].restores => Good(call[c].base) /\ call[c].base.session = call[c].session
    <3>1. call[c].restores => call[c].session \in Sessions
      BY <1>0, RestoreIs
    <3>. QED  BY <2>1, <3>1 DEF Between, HistoryInv, CallsInv, ReadInv
  <2>4. ReadInv(c)' /\ RollbackInv(c)'
    <3>1. call[c].restores => GoodIn(call[c].base, native', stored', crossed')
      <4>1. call[c].base \in Records
        BY <1>0, CallHas DEF Between
      <4>. QED  BY <2>3, <4>1, GoodAges DEF Good, Between
    <3>2. Begins(native[call[c].session], native[call[c].session])
      BY <1>0, <2>3 DEF Begins
    <3>. QED  BY <2>1, <2>2, <2>3, <3>1, <3>2 DEF ReadInv, RollbackInv, Good
  <2>5. Requeued(c) /\ Busy(c)
    BY <2>1 DEF Requeued, Busy
  <2>. QED  BY <1>0, <1>1, <2>1, <2>2, <2>4, <2>5
<1>10. ASSUME NEW c \in Reads, Restore(c) PROVE CallsInv'
  <2>1. UNCHANGED <<native, stored, mem, loaded, live, ended, writes, crossed>>
    BY <1>10 DEF Restore, histories
  <2>2. /\ call'[c].pc = "reading" /\ call'[c].session = stored.session
        /\ call'[c].base = stored /\ call'[c].restores
        /\ \A d \in Callers \ {c} : call'[d] = call[d]
    BY <1>0, <1>10 DEF Restore, Ended
  <2>3. Good(stored)'
    BY DEF Between, StoreInv
  <2>4. ReadInv(c)' /\ RollbackInv(c)'
    BY <2>1, <2>2, <2>3 DEF ReadInv, RollbackInv, Good
  <2>5. Requeued(c)
    BY <2>1 DEF Requeued
  <2>. QED  BY <1>0, <1>1, <2>1, <2>2, <2>4, <2>5
<1>11. CASE UNCHANGED vars
  <2>1. /\ UNCHANGED <<native, stored, mem, loaded, live, ended, writes, crossed, call>>
    BY <1>11 DEF vars
  <2>2. CallsInv' = CallsInv
    BY <2>1 DEF CallsInv, ReadInv, RollbackInv, Good, Shorter, Retained, Queued, EndsFirst,
                Proposed
  <2>. QED  BY <2>2 DEF Between, HistoryInv
<1>12. CASE \/ \E t \in Turns : StartTurn(t)
            \/ RecordTurn \/ EndTurn \/ EndUnnamed \/ RunPersist
  BY <1>12, CallsTurn
<1>13. CASE Crash
  <2>1. \A c \in Callers : call'[c].pc \in {"new", "done", "failed"}
    <3>. SUFFICES ASSUME NEW c \in Callers PROVE call'[c].pc \in {"new", "done", "failed"}
      OBVIOUS
    <3>1. CASE Busy(c)
      <4>1. call'[c] = Ended("failed")
        BY <1>13, <3>1 DEF Crash
      <4>. QED  BY <4>1 DEF Ended
    <3>2. CASE ~Busy(c)
      <4>1. call'[c] = call[c]
        BY <1>13, <3>2 DEF Crash
      <4>. QED  BY <3>2, <4>1 DEF Busy
    <3>. QED  BY <3>1, <3>2
  <2>. QED  BY <1>0, <2>1 DEF CallsInv, ReadInv, RollbackInv
<1>. QED
  BY <1>2, <1>3, <1>4, <1>5, <1>6, <1>7, <1>8, <1>9, <1>10, <1>11, <1>12, <1>13, StepIs
  DEF Proceeds

-----------------------------------------------------------------------------
(* Memory and the store.                                                   *)

(* A call that stays where it is goes on to carry the record.              *)
LEMMA CarriesStill ==
  ASSUME NEW d, call'[d] = call[d], loaded' = loaded, stored' = stored, Carries(d)
  PROVE  Carries(d)'
<1>1. Retained(d)' = Retained(d)
  BY DEF Retained
<1>. QED  BY <1>1 DEF Carries

(* Memory is right while no caller that carries the record moves.          *)
LEMMA MemoryHeld ==
  ASSUME Between, UNCHANGED <<mem, loaded, stored>>, apart \subseteq apart',
         \A d \in Calls : call'[d] = call[d] \/ ~Carries(d)
  PROVE  MemoryInv'
<1>1. \A d \in Calls : Carries(d) => Carries(d)'
  BY CarriesStill
<1>. QED  BY <1>1 DEF MemoryInv, Between, HistoryInv

(* A caller that goes on gives memory the stored record, carries it, or    *)
(* leaves word in apart.                                                   *)
LEMMA MemoryMoves ==
  ASSUME Between, NEW c \in Callers, NEW stage, NEW record, NEW previous, NEW t,
         Moves(c, stage, record, previous, t)
  PROVE  MemoryInv'
<1>. SUFFICES ASSUME loaded' # None
              PROVE  \/ mem'[loaded'] = stored'
                     \/ apart' \ {"not moved"} # {}
                     \/ \E d \in Calls : Carries(d)'
  BY DEF MemoryInv
<1>0. /\ mem \in [Sessions -> Records] /\ stored \in Records /\ stored' \in Records
      /\ record \in Records /\ stored'.session = stored.session
      /\ loaded \in Sessions \cup {None} /\ None \notin Sessions /\ stored.session \in Sessions
      /\ Rollbacks \subseteq Calls /\ Calls \subseteq Callers /\ Calls \cap Lives = {}
  BY HistoryAssumption, SubagentsAssumption DEF Types, Between, Moves, Calls, Callers
<1>1. apart \subseteq apart'
  BY DEF Moves, Over, Waits
<1>2. \A d \in Callers \ {c} : call'[d] = call[d]
  <2>1. call \in [Callers -> CallStates]
    BY DEF Types, Between
  <2>. QED  BY <2>1 DEF Moves, Over, Leaves, Adopts, TakesOver, Ends, Waits
<1>3. CASE stage = "event"
  <2>1. UNCHANGED <<mem, loaded, stored>> /\ c \in Lives
    BY <1>3 DEF Moves, EventMove, ReadMove, RollbackMove, Over, Leaves, Adopts, TakesOver,
                Waits
  <2>2. MemoryInv'
    BY <1>0, <1>1, <1>2, <2>1, MemoryHeld
  <2>. QED  BY <2>2 DEF MemoryInv
(* A record that is not the stored one is an older one.                    *)
<1>4. ASSUME stage # "event"
      PROVE  /\ c \in Calls /\ record.session \in Sessions
             /\ stored' = stored \/ record = stored'
             /\ record = stored' \/ record.revision < stored.revision
  <2>1. /\ c \in Calls /\ GoodIn(record, native', stored', crossed')
        /\ stored' = stored \/ record = stored'
    BY <1>0, <1>4 DEF Moves, EventMove, ReadMove, RollbackMove
  <2>2. record.revision \in Nat /\ stored.revision \in Nat
    BY <1>0, RecordHas
  <2>. QED  BY <2>1, <2>2 DEF GoodIn
<1>5. CASE Adopts(c, stage, record)
  <2>1. /\ stage = "projecting" /\ mem' = [mem EXCEPT ![call[c].session] = record]
        /\ loaded' = IF call[c].restores THEN call[c].session ELSE loaded
        /\ call[c].restores \/ call[c].session = loaded \/ "overtaken" \in apart'
        /\ record.revision < stored.revision => "overtaken" \in apart'
    BY <1>5 DEF Adopts
  <2>2. CASE "overtaken" \in apart'
    <3>1. "overtaken" \in apart' \ {"not moved"}
      BY <2>2
    <3>. QED  BY <3>1
  <2>3. CASE "overtaken" \notin apart'
    <3>1. record = stored' /\ loaded' = call[c].session
      BY <1>4, <2>1, <2>3
    <3>2. call[c].session \in Sessions
      BY <1>0, <2>1, <2>3, <3>1, RestoreIs
    <3>. QED  BY <1>0, <2>1, <3>1, <3>2
  <2>. QED  BY <2>2, <2>3
<1>6. CASE TakesOver(c, stage, record)
  <2>1. /\ stage = "retaining" /\ mem' = [mem EXCEPT ![record.session] = record]
        /\ loaded' = record.session
        /\ record.revision < stored.revision => "overtaken" \in apart'
    BY <1>6 DEF TakesOver
  <2>2. CASE "overtaken" \in apart'
    <3>1. "overtaken" \in apart' \ {"not moved"}
      BY <2>2
    <3>. QED  BY <3>1
  <2>3. CASE "overtaken" \notin apart'
    <3>1. record = stored' /\ record.session \in Sessions
      BY <1>4, <2>1, <2>3
    <3>. QED  BY <1>0, <2>1, <3>1
  <2>. QED  BY <2>2, <2>3
<1>7. CASE Leaves(c, stage, record) /\ stage # "event"
  <2>1. mem' = mem /\ loaded' = loaded /\ stage \in {"projecting", "retaining"}
    BY <1>7 DEF Leaves
  <2>2. CASE apart' \ {"not moved"} # {}
    BY <2>2
  <2>3. CASE apart' \ {"not moved"} = {}
    <3>1. stage = "projecting" /\ record = mem[call[c].session]
      <4>1. ASSUME NEW what \in {"not adopted", "not replaced"}, what \in apart' PROVE FALSE
        <5>1. what \in apart' \ {"not moved"}
          BY <4>1
        <5>. QED  BY <2>3, <5>1
      <4>2. "not adopted" \notin apart' /\ "not replaced" \notin apart'
        <5>1. "not adopted" \in apart' => FALSE
          BY <4>1
        <5>2. "not replaced" \in apart' => FALSE
          BY <4>1
        <5>. QED  BY <5>1, <5>2
      <4>. QED  BY <1>7, <4>2 DEF Leaves
    <3>2. ReadMove(c, stage, record, previous, t)
      BY <3>1 DEF Moves, EventMove, ReadMove, RollbackMove
    <3>3. call[c].session \in Sessions
      <4>1. ~call[c].restores
        BY <2>1, RestoreIs
      <4>. QED  BY <1>4, <1>7, <3>2, <4>1 DEF ReadMove, Between, HistoryInv, CallsInv, ReadInv
    <3>4. record.revision <= stored.revision
      <4>1. mem[call[c].session] # NoRecord
        BY <1>0, <1>4, <1>7, <3>1 DEF NoRecord
      <4>. QED  BY <3>1, <3>3, <4>1 DEF Between, HistoryInv, MemInv, Good, GoodIn
    <3>5. stored' = stored
      <4>1. record.revision \in Nat /\ stored.revision \in Nat
        BY <1>0, RecordHas
      <4>. QED  BY <1>4, <1>7, <3>4, <4>1 DEF Between, Grown
    <3>6. CASE \E d \in Calls : Carries(d)
      <4>1. PICK d \in Calls : Carries(d)
        BY <3>6
      <4>2. CASE d # c
        BY <1>0, <1>2, <2>1, <3>5, <4>1, <4>2, CarriesStill
      <4>3. CASE d = c
        <5>1. At(c, "projecting") /\ call[c].base = stored /\ call[c].session = loaded
          BY <3>2, <4>1, <4>3 DEF Carries, ReadMove
        <5>2. record = call[c].base
          BY <3>2, <5>1 DEF ReadMove
        <5>. QED  BY <2>1, <3>1, <3>5, <5>1, <5>2
      <4>. QED  BY <4>2, <4>3
    <3>7. mem[loaded] = stored \/ (\E d \in Calls : Carries(d))
      BY <1>1, <2>1, <2>3 DEF Between, HistoryInv, MemoryInv
    <3>. QED  BY <2>1, <3>5, <3>6, <3>7
  <2>. QED  BY <2>2, <2>3
<1>8. CASE Waits(c, stage, record, previous, t) /\ stage # "event"
  <2>1. mem' = mem /\ loaded' = loaded /\ apart' = apart
    BY <1>8 DEF Waits
  <2>2. /\ call'[c].pc = stage /\ call'[c].session = call[c].session
        /\ call'[c].base = record /\ ~Over(c, stage, record)
    BY <1>8, WaitsIs DEF Between
  <2>3. CASE stored' = stored
    <3>1. CASE \E d \in Calls : Carries(d)
      <4>1. PICK d \in Calls : Carries(d)
        BY <3>1
      <4>2. CASE d # c
        BY <1>0, <1>2, <2>1, <2>3, <4>1, <4>2, CarriesStill
      <4>3. CASE d = c
        <5>1. CASE ReadMove(c, stage, record, previous, t)
          BY <2>1, <2>2, <2>3, <4>1, <4>3, <5>1 DEF ReadMove, Carries
        <5>2. CASE RollbackMove(c, stage, record, previous, t)
          BY <2>1, <2>2, <2>3, <4>1, <4>3, <5>2 DEF RollbackMove, Carries
        <5>. QED  BY <1>8, <5>1, <5>2 DEF Moves, EventMove
      <4>. QED  BY <4>2, <4>3
    <3>2. \/ mem[loaded] = stored \/ apart \ {"not moved"} # {}
          \/ \E d \in Calls : Carries(d)
      BY <2>1 DEF Between, HistoryInv, MemoryInv
    <3>. QED  BY <2>1, <2>3, <3>1, <3>2
  <2>4. CASE stored' # stored
    <3>1. /\ ReadMove(c, stage, record, previous, t) /\ record = stored'
          /\ stage = "projecting" /\ record.session = call[c].session
      BY <2>2, <2>4 DEF Moves, EventMove, ReadMove, RollbackMove
    <3>2. call[c].session = stored.session /\ ~call[c].restores
      BY <1>0, <2>1, <3>1, RestoreIs
    <3>3. mem[call[c].session] # NoRecord
      BY <1>4, <1>8, <3>1, <3>2 DEF ReadMove, Between, HistoryInv, CallsInv, ReadInv
    <3>4. loaded = call[c].session
      BY <2>1, <3>2, <3>3 DEF Between, HistoryInv, MemInv
    <3>5. Carries(c)'
      BY <2>1, <2>2, <3>1, <3>4 DEF Carries
    <3>. QED  BY <1>4, <1>8, <3>5
  <2>. QED  BY <2>3, <2>4
<1>. QED  BY <1>3, <1>5, <1>6, <1>7, <1>8 DEF Moves, Over

(* Every step keeps memory and the store together.                         *)
LEMMA MemoryStep ==
  ASSUME Between, \A d \in Callers : MatInv(d), [Next]_vars
  PROVE  MemoryInv'
<1>0. /\ call \in [Callers -> CallStates] /\ Calls \subseteq Callers
      /\ mem \in [Sessions -> Records]
  BY DEF Between, Types, Callers
<1>1. ASSUME NEW c \in Callers, UNCHANGED <<mem, loaded, stored, apart>>,
             \A d \in Callers \ {c} : call'[d] = call[d],
             call[c].pc \notin {"projecting", "noting", "retaining"}
      PROVE  MemoryInv'
  <2>1. ~Carries(c)
    BY <1>1 DEF Carries
  <2>2. \A d \in Calls : call'[d] = call[d] \/ ~Carries(d)
    <3>. HIDE DEF Carries
    <3>. QED  BY <1>0, <1>1, <2>1
  <2>. QED  BY <1>1, <2>2, MemoryHeld
<1>2. ASSUME NEW c \in Callers, Drops(c) \/ Asks(c) \/ Creates(c) PROVE MemoryInv'
  <2>1. CASE Drops(c)
    <3>1. \A d \in Callers \ {c} : call'[d] = call[d]
      BY <2>1, EndsIs DEF Drops, Between
    <3>. QED  BY <1>1, <2>1, <3>1 DEF Drops
  <2>2. CASE Asks(c)
    <3>1. \A d \in Callers \ {c} : call'[d] = call[d]
      BY <1>0, <2>2 DEF Asks
    <3>. QED  BY <1>1, <2>2, <3>1 DEF Asks
  <2>3. CASE Creates(c)
    BY <2>3, MemoryHeld DEF Creates
  <2>. QED  BY <1>2, <2>1, <2>2, <2>3
<1>3. ASSUME NEW c \in Callers, NEW stage, NEW record, NEW previous, NEW t,
             Moves(c, stage, record, previous, t)
      PROVE  MemoryInv'
  BY <1>3, MemoryMoves
<1>4. ASSUME NEW c \in Rollbacks, Replaces(c) PROVE MemoryInv'
  <2>1. c \in Calls /\ c \in Callers
    BY DEF Calls, Callers
  <2>2. call'[c] = [call[c] EXCEPT !.pc = "noting"] /\ stored' = Retained(c)
    BY <1>0, <1>4, <2>1 DEF Replaces
  <2>3. /\ call'[c].pc = "noting" /\ call'[c].session = call[c].session
        /\ call'[c].snap = call[c].snap /\ call'[c].base = call[c].base
    BY <2>1, <2>2, CallHas DEF CallStates, Between
  <2>4. Retained(c)' = Retained(c)
    BY <2>3 DEF Retained
  <2>5. Carries(c)'
    BY <2>2, <2>3, <2>4 DEF Carries
  <2>. QED  BY <2>1, <2>5 DEF MemoryInv
<1>5. ASSUME NEW c \in Rollbacks, NEW s \in Sessions, OpenWithout(c, s) PROVE MemoryInv'
  <2>1. c \in Callers
    BY DEF Calls, Callers
  <2>2. \A d \in Callers \ {c} : call'[d] = call[d]
    BY <1>0, <1>5 DEF OpenWithout, Fail
  <2>3. UNCHANGED <<mem, loaded, stored, apart>> /\ At(c, "opening")
    BY <1>5 DEF OpenWithout, Fail, histories
  <2>. QED  BY <1>1, <2>1, <2>2, <2>3
<1>6. ASSUME NEW c \in Calls, Begin(c) \/ TakeSnapshot(c) \/ (c \in Reads /\ Restore(c))
      PROVE  MemoryInv'
  <2>1. \A d \in Callers \ {c} : call'[d] = call[d]
    BY <1>0, <1>6 DEF Begin, TakeSnapshot, Restore
  <2>2. UNCHANGED <<mem, loaded, stored, apart>> /\ call[c].pc \in {"new", "reading"}
    BY <1>6 DEF Begin, TakeSnapshot, Restore, Admitted, histories
  <2>. QED  BY <1>0, <1>1, <2>1, <2>2
<1>7. CASE \/ UNCHANGED vars
           \/ \E t \in Turns : StartTurn(t)
           \/ RecordTurn \/ EndTurn \/ EndUnnamed
  <2>1. UNCHANGED <<mem, loaded, stored, apart, call>>
    BY <1>7 DEF vars, StartTurn, RecordTurn, EndTurn, EndUnnamed, histories
  <2>. QED  BY <2>1, MemoryHeld
<1>8. CASE RunPersist
  <2>1. UNCHANGED <<loaded, call>> /\ (stored' = stored => apart' = apart)
    BY <1>8 DEF RunPersist
  <2>2. \/ UNCHANGED <<mem, stored>>
        \/ stored' = Upserted /\ mem' = [mem EXCEPT ![loaded] = stored']
    BY <1>8 DEF RunPersist, Persisted
  <2>3. CASE UNCHANGED <<mem, stored>>
    BY <2>1, <2>3, MemoryHeld
  <2>4. CASE mem' = [mem EXCEPT ![loaded] = stored']
    <3>1. loaded # None => mem'[loaded] = stored'
      BY <1>0, <2>4 DEF Between, Types
    <3>. QED  BY <2>1, <3>1 DEF MemoryInv
  <2>. QED  BY <2>2, <2>3, <2>4
<1>9. CASE Crash
  BY <1>9 DEF Crash, MemoryInv
<1>10. Reads \subseteq Calls
  BY DEF Calls
<1>. QED
  BY <1>2, <1>3, <1>4, <1>5, <1>6, <1>7, <1>8, <1>9, <1>10, StepIs DEF Proceeds

-----------------------------------------------------------------------------
(* The children.                                                           *)

(* The stored session, or one that has a history.                          *)
Settled(s) == s = stored.session \/ native[s] # <<>>

HistoriesKeep ==
  \A s \in Sessions :
    Settled(s) => /\ Settled(s)' /\ Spawn(s)' \subseteq Spawn(s)
                  /\ Elements(native[s]) \subseteq Elements(native'[s])
HomesKeep ==
  \A h \in Homes : Stored(h) => Stored(h)' /\ child'[h].of = child[h].of
SpawnsAlone == \A s \in Sessions : \A t, u \in Spawn(s) : t = u
Names(h, s) == h \in ByRequest(s) \cup ByRecord(s)

(* A caller that waits goes on to wait for the child of its Turn.          *)
LEMMA MatHeld ==
  ASSUME NEW d \in Callers, MatInv(d), call'[d] = call[d], mat'[d] = mat[d],
         HistoriesKeep, HomesKeep
  PROVE  MatInv(d)'
<1>. SUFFICES ASSUME mat[d].step # "nothing" PROVE MatInv(d)'
  BY DEF MatInv
<1>. DEFINE s == call[d].base.session
<1>1. /\ Busy(d) /\ s \in Sessions
      /\ d \in Calls =>
           /\ call[d].pc \in {"projecting", "retaining"}
           /\ mat[d].of \in Elements(native[s]) \cap Spawning
      /\ Settled(s)
      /\ \A t \in Spawn(s) : mat[d].of = t
      /\ mat[d].step \in {"commit", "rebind"} =>
           /\ mat[d].home \in Homes /\ Stored(mat[d].home)
           /\ \A t \in Spawn(s) : child[mat[d].home].of = t
  BY DEF MatInv, Settled
<1>2. /\ Settled(s)' /\ Spawn(s)' \subseteq Spawn(s)
      /\ Elements(native[s]) \subseteq Elements(native'[s])
  <2>1. s' = s
    OBVIOUS
  <2>2. \A q \in Sessions : Settled(q) =>
          /\ q = stored'.session \/ native'[q] # <<>>
          /\ (Elements(native'[q]) \cup (IF q = loaded' THEN {live'.turn} ELSE {})) \cap Spawning
               \subseteq Spawn(q)
          /\ Elements(native[q]) \subseteq Elements(native'[q])
    <3>. HIDE DEF Elements
    <3>. QED  BY DEF HistoriesKeep, Settled, Spawn
  <2>3. /\ s = stored'.session \/ native'[s] # <<>>
        /\ (Elements(native'[s]) \cup (IF s = loaded' THEN {live'.turn} ELSE {})) \cap Spawning
             \subseteq Spawn(s)
        /\ Elements(native[s]) \subseteq Elements(native'[s])
    <3>. HIDE DEF Elements, s
    <3>. QED  BY <1>1, <2>2
  <2>. QED  BY <2>1, <2>3 DEF Settled, Spawn
<1>3. mat[d].step \in {"commit", "rebind"} =>
        /\ Stored(mat[d].home)' /\ child'[mat[d].home].of = child[mat[d].home].of
  BY <1>1 DEF HomesKeep, Stored
<1>4. Busy(d)'
  BY <1>1 DEF Busy
<1>. HIDE DEF Elements
<1>. QED  BY <1>1, <1>2, <1>3, <1>4 DEF MatInv, Settled

(* The children go on to belong to the Turns of their sessions.            *)
LEMMA ChildrenHeld ==
  ASSUME ChildInv, HistoriesKeep, SpawnsAlone',
         \A h \in Homes, s \in Sessions :
           Names(h, s)' =>
             \/ Names(h, s) /\ child'[h].of = child[h].of
             \/ Settled(s)' /\ \A t \in Spawn(s)' : child'[h].of = t
  PROVE  ChildInv'
<1>1. ASSUME NEW h \in Homes, NEW s \in Sessions, Names(h, s)'
      PROVE  Settled(s)' /\ \A t \in Spawn(s)' : child'[h].of = t
  <2>1. CASE Names(h, s) /\ child'[h].of = child[h].of
    <3>1. Settled(s) /\ \A t \in Spawn(s) : child[h].of = t
      <4>. HIDE DEF Elements
      <4>. QED  BY <2>1 DEF ChildInv, Settled, Names
    <3>2. Settled(s)' /\ Spawn(s)' \subseteq Spawn(s)
      BY <3>1 DEF HistoriesKeep
    <3>. QED  BY <2>1, <3>1, <3>2
  <2>. QED  BY <1>1, <2>1
<1>. HIDE DEF Elements
<1>. QED  BY <1>1 DEF ChildInv, SpawnsAlone, Settled, Names

(* No Turn is lost, and none begins.                                       *)
LEMMA HistoriesStay ==
  ASSUME Types, UNCHANGED native, \A s \in Sessions : Settled(s) => Settled(s)',
         \/ live'.turn = None
         \/ live'.turn = live.turn /\ (loaded' = loaded \/ live.turn = None)
  PROVE  /\ HistoriesKeep /\ \A s \in Sessions : Spawn(s)' \subseteq Spawn(s)
         /\ SpawnsAlone => SpawnsAlone'
<1>1. None \notin Spawning
  BY HistoryAssumption, SubagentsAssumption
<1>2. \A s \in Sessions : Spawn(s)' \subseteq Spawn(s)
  BY <1>1 DEF Spawn
<1>3. SpawnsAlone => SpawnsAlone'
  BY <1>2 DEF SpawnsAlone
<1>. QED  BY <1>2, <1>3 DEF HistoriesKeep

(* A caller waits for a child only at the end of a projection.             *)
LEMMA NotWaiting ==
  ASSUME Between, NEW c \in Callers, MatInv(c),
         call[c].pc \notin {"projecting", "retaining", "event"}
  PROVE  mat[c].step = "nothing"
BY DEF MatInv, Between, HistoryInv, Orderly, Callers

(* A step that moves no child and asks for none.                           *)
LEMMA ChildrenStay ==
  ASSUME Between, ChildInv, \A d \in Callers : MatInv(d),
         UNCHANGED <<child, mat>>, HistoriesKeep, SpawnsAlone',
         \A d \in Callers : call'[d] = call[d] \/ mat[d].step = "nothing"
  PROVE  ChildInv' /\ \A d \in Callers : MatInv(d)'
<1>1. HomesKeep
  BY DEF HomesKeep, Stored
<1>2. ChildInv'
  <2>1. \A h \in Homes, s \in Sessions : Names(h, s)' => Names(h, s)
    BY DEF Names, ByRequest, ByRecord, ReadyHomes, Stored
  <2>. QED  BY <2>1, ChildrenHeld
<1>3. ASSUME NEW d \in Callers PROVE MatInv(d)'
  <2>1. CASE call'[d] = call[d]
    BY <1>1, <2>1, MatHeld
  <2>2. CASE mat[d].step = "nothing"
    BY <2>2 DEF MatInv
  <2>. QED  BY <2>1, <2>2
<1>. QED  BY <1>2, <1>3

(* A mutation gives the child it changes to the Turn of the new session.   *)
LEMMA ChildMovesIs ==
  ASSUME Types, NEW c \in Callers, MatInv(c), ChildMoves(c)
  PROVE  /\ HomesKeep
         /\ \A h \in Homes, s \in Sessions :
              Names(h, s)' =>
                \/ Names(h, s)
                \/ Settled(s) /\ \A t \in Spawn(s) : child'[h].of = t
<1>. DEFINE s0 == call[c].base.session
            h0 == mat[c].home
<1>1. CASE child' = child
  BY <1>1 DEF HomesKeep, Names, ByRequest, ByRecord, ReadyHomes, Stored
<1>2. CASE /\ mat[c].step \in {"commit", "rebind"}
           /\ child' = Committed(h0, s0) \/ child' = Rebound(h0, s0)
  <2>1. /\ h0 \in Homes /\ Stored(h0) /\ Settled(s0)
        /\ \A t \in Spawn(s0) : child[h0].of = t
    BY <1>2 DEF MatInv, Settled
  <2>. HIDE DEF h0, s0
  <2>2. /\ \A h \in Homes \ {h0} : child'[h] = child[h]
        /\ child'[h0].of = child[h0].of /\ child'[h0].state # "none"
        /\ child'[h0].request \in {child[h0].request, s0}
        /\ child'[h0].session = s0
    <3>1. child[h0] \in Children /\ child \in [Homes -> Children]
      BY <2>1 DEF Types
    <3>2. CASE child' = Committed(h0, s0)
      <4>1. child'[h0] = [child[h0] EXCEPT !.state = "ready", !.session = s0]
        BY <2>1, <3>1, <3>2 DEF Committed
      <4>. QED  BY <2>1, <3>1, <3>2, <4>1 DEF Committed, Children
    <3>3. CASE child' = Rebound(h0, s0)
      <4>1. child'[h0] = [child[h0] EXCEPT !.request = s0, !.session = s0]
        BY <2>1, <3>1, <3>3 DEF Rebound
      <4>. QED  BY <2>1, <3>1, <3>3, <4>1 DEF Rebound, Children, Stored
    <3>. QED  BY <1>2, <3>2, <3>3
  <2>3. HomesKeep
    BY <2>1, <2>2 DEF HomesKeep, Stored
  <2>4. ASSUME NEW h \in Homes, NEW s \in Sessions, Names(h, s)'
        PROVE  \/ Names(h, s)
               \/ Settled(s) /\ \A t \in Spawn(s) : child'[h].of = t
    <3>1. CASE h # h0
      BY <2>2, <2>4, <3>1 DEF Names, ByRequest, ByRecord, ReadyHomes, Stored
    <3>2. CASE h = h0 /\ s = s0
      BY <2>1, <2>2, <3>2
    <3>3. CASE h = h0 /\ s # s0
      BY <2>1, <2>2, <2>4, <3>3 DEF Names, ByRequest, ByRecord, ReadyHomes, Stored
    <3>. QED  BY <3>1, <3>2, <3>3
  <2>. QED  BY <2>3, <2>4
<1>. QED  BY <1>1, <1>2 DEF ChildMoves

(* Who begins to wait does so for the child of the Turn its session has.   *)
LEMMA MatBegins ==
  ASSUME Between, ChildInv, NEW c \in Callers, NEW stage, NEW record, NEW previous, NEW t,
         Moves(c, stage, record, previous, t), Waits(c, stage, record, previous, t),
         HomesKeep, HistoriesKeep
  PROVE  MatInv(c)'
<1>0. /\ None \notin Sessions /\ None \notin Turns /\ Spawning \subseteq Turns
      /\ Calls \cap Lives = {} /\ Rollbacks \subseteq Calls
      /\ loaded \in Sessions \cup {None} /\ stored.session \in Sessions
      /\ native \in [Sessions -> Seq(Turns)] /\ mat \in [Callers -> Awaited]
  BY HistoryAssumption, SubagentsAssumption DEF Calls, Between, Types
<1>1. /\ call'[c].pc = stage /\ call'[c].base = record /\ ~Over(c, stage, record)
  BY WaitsIs DEF Between
<1>2. PICK h \in {None} \cup Found(record.session, previous),
           step \in Steps \ {"nothing"} :
         /\ step # "create" => h # None /\ h \in Found(record.session, previous)
         /\ mat' = [mat EXCEPT ![c] =
                      [step |-> step, home |-> h, previous |-> previous, of |-> t]]
  BY DEF Waits
<1>3. mat'[c].step = step /\ mat'[c].home = h /\ mat'[c].of = t
  BY <1>0, <1>2
<1>. DEFINE s == record.session
(* What it waits for is right before the step.                             *)
<1>4. /\ s \in Sessions /\ t \in Spawning /\ stage \in {"event", "projecting", "retaining"}
      /\ c \in Calls => stage \in {"projecting", "retaining"} /\ t \in Elements(native[s])
      /\ Settled(s)
      /\ \A u \in Spawn(s) : t = u
      /\ previous # None =>
           previous \in Sessions /\ Spawn(s) \subseteq Spawn(previous)
  <2>1. CASE EventMove(c, stage, record, previous, t)
    <3>1. /\ stage = "event" /\ c \in Lives /\ record = mem[loaded] /\ previous = None
          /\ t = live.turn /\ t \in Spawning /\ live.phase = "running"
      BY <2>1, <1>1 DEF EventMove
    <3>2. loaded \in Sessions /\ mem[loaded] # NoRecord /\ s \in {loaded, stored.session}
      BY <1>0, <3>1 DEF Between, HistoryInv, TurnsInv, MemInv
    <3>3. s \in Sessions
      BY <1>0, <3>2
    <3>4. Settled(s)
      BY <1>0, <3>2 DEF Settled, Between, HistoryInv, MemInv
    <3>5. Spawn(s) \subseteq Spawn(loaded)
      <4>1. CASE s = loaded
        BY <4>1
      <4>2. CASE s # loaded
        <5>1. Elements(native[s]) \subseteq Elements(native[loaded])
          BY <1>0, <3>2, <4>2 DEF Between, HistoryInv, MemInv
        <5>. QED  BY <4>2, <5>1 DEF Spawn
      <4>. QED  BY <4>1, <4>2
    <3>6. t \in Spawn(loaded)
      BY <3>1 DEF Spawn
    <3>7. \A u \in Spawn(s) : t = u
      <4>. HIDE DEF Elements
      <4>. QED  BY <3>2, <3>5, <3>6 DEF ChildInv
    <3>. QED  BY <1>0, <3>1, <3>3, <3>4, <3>7
  <2>2. CASE ReadMove(c, stage, record, previous, t)
    <3>1. /\ stage = "projecting" /\ c \in Calls
          /\ call[c].pc \in {"taken", "aligning", "projecting"}
          /\ s \in Sessions /\ s = call[c].session /\ previous = None
          /\ t \in Elements(call[c].snap) \cap Spawning
      BY <2>2, <1>1 DEF ReadMove, GoodIn
    <3>2. Begins(call[c].snap, native[s])
      BY <3>1 DEF Between, HistoryInv, CallsInv, ReadInv
    <3>3. call[c].snap \in Seq(Turns) /\ native[s] \in Seq(Turns)
      BY <1>0, <3>1, CallHas DEF Between
    <3>4. t \in Elements(native[s])
      BY <3>1, <3>2, <3>3 DEF Begins
    <3>5. native[s] # <<>> /\ t \in Spawn(s)
      BY <3>1, <3>4 DEF Spawn
    <3>6. \A u \in Spawn(s) : t = u
      <4>. HIDE DEF Elements
      <4>. QED  BY <3>1, <3>5 DEF ChildInv
    <3>. QED  BY <3>1, <3>4, <3>5, <3>6 DEF Settled
  <2>3. CASE RollbackMove(c, stage, record, previous, t)
    <3>1. /\ stage = "retaining" /\ c \in Rollbacks /\ At(c, "noting")
          /\ s = call[c].session /\ s = stored.session /\ previous = call[c].base.session
          /\ t \in Elements(call[c].snap) \cap Spawning
      BY <2>3, <1>1 DEF RollbackMove
    <3>2. /\ native[s] = call[c].snap /\ previous = loaded
          /\ Elements(call[c].snap) \subseteq Elements(native[loaded])
      BY <1>0, <3>1 DEF Between, HistoryInv, CallsInv, RollbackInv
    <3>3. t \in Elements(native[s]) /\ t \in Spawn(s) /\ Spawn(s) \subseteq Spawn(loaded)
      BY <3>1, <3>2 DEF Spawn
    <3>4. \A u \in Spawn(s) : t = u
      <4>. HIDE DEF Elements
      <4>. QED  BY <1>0, <3>1, <3>3 DEF ChildInv
    <3>. QED  BY <1>0, <3>1, <3>2, <3>3, <3>4 DEF Settled
  <2>. QED  BY <2>1, <2>2, <2>3 DEF Moves
<1>5. ASSUME step \in {"commit", "rebind"}
      PROVE  h \in Homes /\ Stored(h) /\ \A u \in Spawn(s) : child[h].of = u
  <2>1. /\ h \in Homes /\ Stored(h)
        /\ Names(h, s) \/ (previous # None /\ Names(h, previous))
    BY <1>2, <1>5, FoundIs DEF Names
  <2>2. Names(h, s) => \A u \in Spawn(s) : child[h].of = u
    <3>. HIDE DEF Elements
    <3>. QED  BY <1>4, <2>1 DEF ChildInv, Names
  <2>3. previous # None /\ Names(h, previous) => \A u \in Spawn(s) : child[h].of = u
    <3>1. previous # None /\ Names(h, previous) => \A u \in Spawn(previous) : child[h].of = u
      <4>. HIDE DEF Elements
      <4>. QED  BY <1>4, <2>1 DEF ChildInv, Names
    <3>. QED  BY <1>4, <3>1
  <2>. QED  BY <2>1, <2>2, <2>3
<1>6. /\ Settled(s)' /\ Spawn(s)' \subseteq Spawn(s)
      /\ Elements(native[s]) \subseteq Elements(native'[s])
  <2>. HIDE DEF Elements, s
  <2>1. s' = s
    BY DEF s
  <2>. QED  BY <1>4, <2>1 DEF HistoriesKeep, Settled, Spawn
<1>7. step \in {"commit", "rebind"} => Stored(h)' /\ child'[h].of = child[h].of
  BY <1>5 DEF HomesKeep
<1>8. Busy(c)'
  BY <1>1, <1>4 DEF Busy
<1>9. call'[c].base.session = s /\ step \in {"create", "commit", "rebind"}
  BY <1>1 DEF Steps
<1>. HIDE DEF Elements, s
<1>10. /\ (call[c].base.session)' = s /\ (mat[c].of)' = t
       /\ (mat[c].home)' = h /\ (mat[c].step)' = step
  BY <1>3, <1>9
<1>. QED  BY <1>1, <1>4, <1>5, <1>6, <1>7, <1>8, <1>10 DEF MatInv, Settled

(* A caller that goes on keeps the children right.                         *)
LEMMA ChildrenMove ==
  ASSUME Between, ChildInv, \A d \in Callers : MatInv(d),
         NEW c \in Callers, NEW stage, NEW record, NEW previous, NEW t,
         Moves(c, stage, record, previous, t)
  PROVE  ChildInv' /\ \A d \in Callers : MatInv(d)'
<1>0. /\ Types /\ mat \in [Callers -> Awaited] /\ call \in [Callers -> CallStates]
      /\ UNCHANGED <<native, live>> /\ stored'.session = stored.session
      /\ ChildMoves(c)
      /\ Over(c, stage, record) \/ Waits(c, stage, record, previous, t)
  BY DEF Moves, Between, Types
<1>1. /\ HistoriesKeep /\ \A s \in Sessions : Spawn(s)' \subseteq Spawn(s)
      /\ SpawnsAlone => SpawnsAlone'
  BY <1>0, MovesLoaded, HistoriesStay DEF Settled
<1>2. /\ HomesKeep
      /\ \A h \in Homes, s \in Sessions :
           Names(h, s)' =>
             \/ Names(h, s)
             \/ Settled(s) /\ \A u \in Spawn(s) : child'[h].of = u
  <2>. HIDE DEF Between, Elements
  <2>. QED  BY <1>0, ChildMovesIs
<1>3. ChildInv'
  <2>1. SpawnsAlone'
    BY <1>1 DEF SpawnsAlone, ChildInv
  <2>2. ASSUME NEW h \in Homes, NEW s \in Sessions, Names(h, s)'
        PROVE  \/ Names(h, s) /\ child'[h].of = child[h].of
               \/ Settled(s)' /\ \A u \in Spawn(s)' : child'[h].of = u
    <3>1. CASE Names(h, s)
      BY <1>2, <3>1 DEF HomesKeep, Names, ByRequest, ByRecord, ReadyHomes, Stored
    <3>2. CASE Settled(s) /\ \A u \in Spawn(s) : child'[h].of = u
      BY <1>1, <3>2 DEF HistoriesKeep
    <3>. QED  BY <1>2, <2>2, <3>1, <3>2
  <2>. QED  BY <1>1, <2>1, <2>2, ChildrenHeld
<1>4. ASSUME NEW d \in Callers PROVE MatInv(d)'
  <2>1. CASE d # c
    <3>1. call'[d] = call[d]
      BY <1>0, <2>1 DEF Over, Leaves, Adopts, TakesOver, Ends, Waits
    <3>2. mat'[d] = mat[d]
      BY <1>0, <2>1 DEF Over, Waits
    <3>. QED  BY <1>1, <1>2, <3>1, <3>2, MatHeld
  <2>2. CASE d = c /\ Over(c, stage, record)
    <3>1. mat'[c].step = "nothing"
      BY <1>0, <2>2 DEF Over, NoWait
    <3>. QED  BY <2>2, <3>1 DEF MatInv
  <2>3. CASE d = c /\ Waits(c, stage, record, previous, t)
    BY <1>1, <1>2, <2>3, MatBegins
  <2>. QED  BY <1>0, <2>1, <2>2, <2>3
<1>. QED  BY <1>3, <1>4

(* The child is created for the Turn that the caller's session has.        *)
LEMMA ChildrenCreate ==
  ASSUME Between, ChildInv, \A d \in Callers : MatInv(d), NEW c \in Callers, Creates(c)
  PROVE  ChildInv' /\ \A d \in Callers : MatInv(d)'
<1>1. /\ Types /\ mat \in [Callers -> Awaited] /\ child \in [Homes -> Children]
      /\ UNCHANGED <<native, live, stored, loaded, call>>
  BY DEF Creates, Between, Types
<1>2. call[c].base.session \in Sessions
  BY DEF MatInv, Creates
<1>3. PICK s0 \in Sessions : s0 = call[c].base.session
  BY <1>2
<1>4. PICK h0 \in Homes :
        /\ \/ h0 \in Unused /\ child' = Created(h0, s0, mat[c].of)
           \/ h0 \in ByRequest(s0) /\ child' = child
        /\ mat' = [mat EXCEPT ![c].step = "commit", ![c].home = h0]
  BY <1>3 DEF Creates
<1>5. /\ Busy(c) /\ s0 \in Sessions
      /\ c \in Calls =>
           /\ call[c].pc \in {"projecting", "retaining"}
           /\ mat[c].of \in Elements(native[s0]) \cap Spawning
      /\ Settled(s0) /\ \A t \in Spawn(s0) : mat[c].of = t
  <2>1. MatInv(c) /\ mat[c].step # "nothing"
    BY DEF Creates
  <2>. QED  BY <1>3, <2>1 DEF MatInv, Settled
<1>6. /\ HistoriesKeep /\ \A s \in Sessions : Spawn(s)' \subseteq Spawn(s)
      /\ SpawnsAlone => SpawnsAlone'
  BY <1>1, HistoriesStay DEF Settled
<1>7. /\ \A h \in Homes \ {h0} : child'[h] = child[h]
      /\ Stored(h0) => child'[h0] = child[h0]
      /\ ~Stored(h0) => /\ child'[h0].state = "creating" /\ child'[h0].request = s0
                        /\ child'[h0].of = mat[c].of
      /\ Stored(h0) => h0 \in ByRequest(s0)
      /\ Stored(h0)'
  BY <1>1, <1>4 DEF Created, Unused, ByRequest, Stored
<1>8. HomesKeep
  BY <1>7 DEF HomesKeep, Stored
<1>9. \A t \in Spawn(s0) : child'[h0].of = t
  <2>1. CASE Stored(h0)
    <3>1. \A t \in Spawn(s0) : child[h0].of = t
      <4>. HIDE DEF Elements
      <4>. QED  BY <1>5, <1>7, <2>1 DEF ChildInv
    <3>. QED  BY <1>7, <2>1, <3>1
  <2>2. CASE ~Stored(h0)
    BY <1>5, <1>7, <2>2
  <2>. QED  BY <2>1, <2>2
<1>10. \A t \in Spawn(s0)' : child'[h0].of = t
  BY <1>5, <1>6, <1>9
<1>11. ChildInv'
  <2>1. SpawnsAlone'
    BY <1>6 DEF SpawnsAlone, ChildInv
  <2>2. Settled(s0)'
    BY <1>1, <1>5 DEF Settled
  <2>3. ASSUME NEW h \in Homes, NEW s \in Sessions, Names(h, s)'
        PROVE  \/ Names(h, s) /\ child'[h].of = child[h].of
               \/ Settled(s)' /\ \A t \in Spawn(s)' : child'[h].of = t
    <3>1. CASE h # h0 \/ Stored(h0)
      BY <1>7, <2>3, <3>1 DEF Names, ByRequest, ByRecord, ReadyHomes, Stored
    <3>2. CASE h = h0 /\ ~Stored(h0)
      <4>1. s = s0
        BY <1>7, <2>3, <3>2 DEF Names, ByRequest, ByRecord, ReadyHomes
      <4>. QED  BY <1>10, <2>2, <3>2, <4>1
    <3>. QED  BY <3>1, <3>2
  <2>. QED  BY <1>6, <2>1, <2>3, ChildrenHeld
<1>12. ASSUME NEW d \in Callers PROVE MatInv(d)'
  <2>1. CASE d # c
    <3>1. mat'[d] = mat[d] /\ call'[d] = call[d]
      BY <1>1, <1>4, <2>1
    <3>. QED  BY <1>6, <1>8, <3>1, MatHeld
  <2>2. CASE d = c
    <3>1. mat[c] \in Awaited
      BY <1>1
    <3>2. mat'[c] = [mat[c] EXCEPT !.step = "commit", !.home = h0]
      BY <1>1, <1>4
    <3>3. mat'[c].step = "commit" /\ mat'[c].home = h0 /\ mat'[c].of = mat[c].of
      BY <3>1, <3>2 DEF Awaited
    <3>4. Settled(s0)' /\ \A t \in Spawn(s0)' : mat[c].of = t
      BY <1>1, <1>5, <1>6 DEF Settled
    <3>5. Busy(c)' /\ call' = call /\ native' = native /\ (call[c].base.session)' = s0
      BY <1>1, <1>3, <1>5 DEF Busy
    <3>. HIDE DEF Elements
    <3>. QED  BY <1>5, <1>7, <1>10, <2>2, <3>3, <3>4, <3>5 DEF MatInv, Settled
  <2>. QED  BY <2>1, <2>2
<1>. QED  BY <1>11, <1>12

(* Every step keeps the children right.                                    *)
LEMMA ChildrenStep ==
  ASSUME Between, ChildInv, \A d \in Callers : MatInv(d), [Next]_vars
  PROVE  ChildInv' /\ \A d \in Callers : MatInv(d)'
<1>0. /\ Types /\ Types' /\ SpawnsAlone /\ None \notin Sessions /\ None \notin Spawning
      /\ call \in [Callers -> CallStates] /\ stored.session \in Sessions
      /\ loaded \in Sessions \cup {None} /\ native \in [Sessions -> Seq(Turns)]
      /\ Calls \subseteq Callers /\ Lives \subseteq Callers /\ Rollbacks \subseteq Calls
      /\ Reads \subseteq Calls
  BY HistoryAssumption, SubagentsAssumption
     DEF Between, Types, Callers, Calls, SpawnsAlone, ChildInv
<1>1. CASE \/ UNCHANGED vars
           \/ EndTurn \/ EndUnnamed \/ RunPersist
           \/ \E c \in Calls : Begin(c) \/ TakeSnapshot(c)
           \/ \E c \in Reads : Restore(c)
           \/ \E c \in Callers : Drops(c) \/ Asks(c)
  <2>1. /\ UNCHANGED <<child, mat, native>> /\ loaded' = loaded
        /\ stored'.session = stored.session
        /\ live'.turn \in {None, live.turn}
    <3>1. Upserted.session = stored.session
      BY DEF Upserted, Types, Records, Between
    <3>2. live \in [turn : Turns \cup {None}, phase : {"idle", "running", "ending"}]
      BY DEF Types, Between
    <3>3. [live EXCEPT !.phase = "ending"].turn = live.turn
      BY <3>2
    <3>4. CASE RunPersist
      BY <3>1, <3>4 DEF RunPersist, NoTurn
    <3>5. CASE EndTurn \/ EndUnnamed
      <4>1. CASE EndTurn
        <5>1. CASE fault
          BY <4>1, <5>1 DEF EndTurn, NoTurn
        <5>2. CASE ~fault
          <6>1. live' = [live EXCEPT !.phase = "ending"]
            BY <4>1, <5>2 DEF EndTurn
          <6>2. live'.turn = live.turn
            BY <3>3, <6>1
          <6>. QED  BY <4>1, <6>2 DEF EndTurn
        <5>. QED  BY <5>1, <5>2
      <4>2. CASE EndUnnamed
        BY <4>2 DEF EndUnnamed, NoTurn
      <4>. QED  BY <3>5, <4>1, <4>2
    <3>6. CASE \/ UNCHANGED vars
               \/ \E c \in Calls : Begin(c) \/ TakeSnapshot(c)
               \/ \E c \in Reads : Restore(c)
               \/ \E c \in Callers : Drops(c) \/ Asks(c)
      BY <3>6 DEF vars, Begin, TakeSnapshot, Restore, Drops, Asks
    <3>. QED  BY <1>1, <3>4, <3>5, <3>6
  <2>2. \A d \in Callers : call'[d] = call[d] \/ mat[d].step = "nothing"
    <3>1. CASE call' = call
      BY <3>1
    <3>2. ASSUME NEW c \in Callers, \A d \in Callers \ {c} : call'[d] = call[d],
                 call[c].pc \notin {"projecting", "retaining", "event"}
          PROVE  \A d \in Callers : call'[d] = call[d] \/ mat[d].step = "nothing"
      <4>1. mat[c].step = "nothing"
        BY <3>2, NotWaiting
      <4>. QED  BY <3>2, <4>1
    <3>3. ASSUME NEW c \in Calls, Begin(c) \/ TakeSnapshot(c) \/ Restore(c)
          PROVE  \A d \in Callers : call'[d] = call[d] \/ mat[d].step = "nothing"
      <4>1. /\ \A d \in Callers \ {c} : call'[d] = call[d]
            /\ call[c].pc \in {"new", "reading"}
        BY <1>0, <3>3 DEF Begin, TakeSnapshot, Restore, Admitted
      <4>. QED  BY <1>0, <3>2, <4>1
    <3>4. ASSUME NEW c \in Callers, Drops(c)
          PROVE  \A d \in Callers : call'[d] = call[d] \/ mat[d].step = "nothing"
      <4>1. \A d \in Callers \ {c} : call'[d] = call[d]
        BY <1>0, <3>4, EndsIs DEF Drops
      <4>. QED  BY <3>2, <3>4, <4>1 DEF Drops
    <3>5. ASSUME NEW c \in Callers, Asks(c)
          PROVE  \A d \in Callers : call'[d] = call[d] \/ mat[d].step = "nothing"
      <4>1. \A d \in Callers \ {c} : call'[d] = call[d]
        BY <1>0, <3>5 DEF Asks
      <4>. QED  BY <3>2, <3>5, <4>1 DEF Asks
    <3>. QED
      BY <1>0, <1>1, <3>1, <3>3, <3>4, <3>5 DEF vars, EndTurn, EndUnnamed, RunPersist
  <2>3. HistoriesKeep /\ SpawnsAlone'
    BY <1>0, <2>1, HistoriesStay DEF Settled
  <2>. QED  BY <2>1, <2>2, <2>3, ChildrenStay
<1>2. ASSUME NEW c \in Callers, Creates(c)
      PROVE  ChildInv' /\ \A d \in Callers : MatInv(d)'
  BY <1>2, ChildrenCreate
<1>3. ASSUME NEW c \in Callers, NEW stage, NEW record, NEW previous, NEW t,
             Moves(c, stage, record, previous, t)
      PROVE  ChildInv' /\ \A d \in Callers : MatInv(d)'
  BY <1>3, ChildrenMove
(* The loaded session has no child yet, so nobody waits for one of it.     *)
<1>4. ASSUME NEW t \in Turns, StartTurn(t)
      PROVE  ChildInv' /\ \A d \in Callers : MatInv(d)'
  <2>1. /\ UNCHANGED <<child, native, stored, loaded, call, mat>> /\ loaded \in Sessions
        /\ live.turn = None /\ live'.turn = t
    BY <1>0, <1>4 DEF StartTurn
  <2>2. CASE t \notin Spawning
    <3>1. \A s \in Sessions : Spawn(s)' = Spawn(s)
      BY <1>0, <2>1, <2>2 DEF Spawn
    <3>2. HistoriesKeep /\ SpawnsAlone'
      BY <1>0, <2>1, <3>1 DEF HistoriesKeep, SpawnsAlone, Settled
    <3>. QED  BY <2>1, <3>2, ChildrenStay
  <2>3. CASE t \in Spawning
    <3>1. Elements(native[loaded]) \cap Spawning = {}
          /\ ByRequest(loaded) \cup ByRecord(loaded) = {}
      BY <1>4, <2>3 DEF StartTurn
    <3>2. \A s \in Sessions :
            IF s = loaded THEN \A u \in Spawn(s)' : u = t ELSE Spawn(s)' = Spawn(s)
      BY <1>0, <2>1, <3>1 DEF Spawn
    <3>3. \A h \in Homes, s \in Sessions : Names(h, s)' => Names(h, s) /\ s # loaded
      BY <2>1, <3>1 DEF Names, ByRequest, ByRecord, ReadyHomes, Stored
    <3>4. ChildInv'
      <4>1. SpawnsAlone'
        <5>1. \A s \in Sessions : \A u, v \in Spawn(s)' : u = v
          <6>. HIDE DEF Elements
          <6>. QED  BY <1>0, <3>2 DEF SpawnsAlone
        <5>. HIDE DEF Elements
        <5>. QED  BY <5>1 DEF SpawnsAlone
      <4>2. ASSUME NEW h \in Homes, NEW s \in Sessions, Names(h, s)'
            PROVE  Settled(s)' /\ \A u \in Spawn(s)' : child'[h].of = u
        <5>1. Names(h, s) /\ s # loaded
          BY <3>3, <4>2
        <5>2. Settled(s) /\ \A u \in Spawn(s) : child[h].of = u
          <6>. HIDE DEF Elements
          <6>. QED  BY <5>1 DEF ChildInv, Names, Settled
        <5>3. Spawn(s)' = Spawn(s) /\ Settled(s)'
          BY <2>1, <3>2, <5>1, <5>2 DEF Settled
        <5>. QED  BY <2>1, <5>2, <5>3
      <4>. HIDE DEF Elements
      <4>. QED  BY <4>1, <4>2 DEF ChildInv, SpawnsAlone, Settled, Names
    <3>5. ASSUME NEW d \in Callers PROVE MatInv(d)'
      <4>. SUFFICES ASSUME mat[d].step # "nothing" PROVE MatInv(d)'
        BY <2>1 DEF MatInv
      <4>1. PICK s \in Sessions : s = call[d].base.session
        BY DEF MatInv
      <4>2. /\ Busy(d) /\ Settled(s)
            /\ d \in Calls =>
                 /\ call[d].pc \in {"projecting", "retaining"}
                 /\ mat[d].of \in Elements(native[s]) \cap Spawning
            /\ \A u \in Spawn(s) : mat[d].of = u
            /\ mat[d].step \in {"commit", "rebind"} =>
                 /\ mat[d].home \in Homes /\ Stored(mat[d].home)
                 /\ \A u \in Spawn(s) : child[mat[d].home].of = u
        <5>. HIDE DEF Elements
        <5>. QED  BY <4>1 DEF MatInv, Settled
      <4>3. d \in Calls
        <5>1. live.phase # "running"
          BY <2>1 DEF Between, HistoryInv, TurnsInv
        <5>2. d \notin Lives
          BY <4>2, <5>1 DEF Between, HistoryInv, Orderly
        <5>. QED  BY <5>2 DEF Callers
      <4>4. s # loaded
        BY <3>1, <4>2, <4>3
      <4>5. Spawn(s)' = Spawn(s)
        BY <3>2, <4>4
      <4>6. /\ Busy(d)' /\ Settled(s)' /\ (call[d].base.session)' = s
            /\ Stored(mat[d].home)' = Stored(mat[d].home)
        BY <2>1, <4>1, <4>2 DEF Busy, Settled, Stored
      <4>. HIDE DEF Elements
      <4>. QED  BY <2>1, <4>2, <4>5, <4>6 DEF MatInv, Settled
    <3>. QED  BY <3>4, <3>5
  <2>. QED  BY <2>2, <2>3
<1>5. CASE RecordTurn
  <2>1. /\ UNCHANGED <<child, stored, loaded, live, call, mat>>
        /\ live.turn \in Turns /\ loaded \in Sessions
        /\ native' = [native EXCEPT ![loaded] = Append(@, live.turn)]
    <3>1. live.turn \in Turns \cup {None} /\ live.turn # None /\ loaded # None
      BY <1>5 DEF RecordTurn, Types, Between, HistoryInv, TurnsInv
    <3>. QED  BY <1>0, <1>5, <3>1 DEF RecordTurn
  <2>2. /\ native'[loaded] = Append(native[loaded], live.turn)
        /\ \A s \in Sessions \ {loaded} : native'[s] = native[s]
        /\ native[loaded] \in Seq(Turns)
    BY <1>0, <2>1
  <2>3. /\ Elements(native'[loaded]) = Elements(native[loaded]) \cup {live.turn}
        /\ native'[loaded] # <<>>
    BY <2>1, <2>2
  <2>. HIDE DEF Elements
  <2>4. \A s \in Sessions :
          /\ Spawn(s)' = Spawn(s) /\ Elements(native[s]) \subseteq Elements(native'[s])
          /\ native[s] # <<>> => native'[s] # <<>>
    BY <2>1, <2>2, <2>3 DEF Spawn
  <2>5. HistoriesKeep
    BY <2>1, <2>4 DEF HistoriesKeep, Settled
  <2>6. SpawnsAlone'
    BY <1>0, <2>4 DEF SpawnsAlone
  <2>. QED  BY <2>1, <2>5, <2>6, ChildrenStay
(* Nobody refers to the new session yet.                                   *)
<1>6. ASSUME NEW c \in Rollbacks, NEW s \in Sessions, OpenWithout(c, s)
      PROVE  ChildInv' /\ \A d \in Callers : MatInv(d)'
  <2>1. /\ UNCHANGED <<child, stored, loaded, live, mat>> /\ c \in Callers /\ c \in Calls
        /\ native[s] = <<>> /\ mem[s] = NoRecord /\ s # stored.session /\ At(c, "opening")
    BY <1>0, <1>6 DEF OpenWithout, Fail
  <2>2. call[c].base.session \in Sessions
    BY <2>1 DEF Between, HistoryInv, CallsInv, RollbackInv, Good, GoodIn
  <2>3. PICK p \in Sessions : p = call[c].base.session
    BY <2>2
  <2>4. /\ native[p] # <<>>
        /\ native' = [native EXCEPT ![s] = SubSeq(native[p], 1, Len(native[p]) - 1)]
    BY <1>6, <2>3 DEF OpenWithout
  <2>5. /\ native'[s] = SubSeq(native[p], 1, Len(native[p]) - 1)
        /\ \A q \in Sessions \ {s} : native'[q] = native[q]
        /\ native[p] \in Seq(Turns)
    BY <1>0, <2>4
  <2>6. Elements(native'[s]) \subseteq Elements(native[p])
    BY <2>5
  <2>7. s # loaded /\ ~Settled(s)
    BY <1>0, <2>1 DEF Settled, Between, HistoryInv, MemInv
  <2>8. /\ \A q \in Sessions \ {s} : Spawn(q)' = Spawn(q)
        /\ Spawn(s)' \subseteq Spawn(p)
    <3>. HIDE DEF Elements
    <3>. QED  BY <2>1, <2>5, <2>6, <2>7 DEF Spawn
  <2>9. HistoriesKeep /\ SpawnsAlone'
    <3>1. HistoriesKeep
      BY <2>1, <2>5, <2>7, <2>8 DEF HistoriesKeep, Settled
    <3>2. SpawnsAlone'
      <4>1. \A q \in Sessions : \A u, v \in Spawn(q)' : u = v
        <5>. HIDE DEF Elements
        <5>. QED  BY <1>0, <2>8 DEF SpawnsAlone
      <4>. HIDE DEF Elements
      <4>. QED  BY <4>1 DEF SpawnsAlone
    <3>. QED  BY <3>1, <3>2
  <2>10. \A d \in Callers : call'[d] = call[d] \/ mat[d].step = "nothing"
    <3>1. \A d \in Callers \ {c} : call'[d] = call[d]
      BY <1>0, <1>6 DEF OpenWithout, Fail
    <3>2. mat[c].step = "nothing"
      BY <2>1, NotWaiting
    <3>. QED  BY <3>1, <3>2
  <2>. QED  BY <2>1, <2>9, <2>10, ChildrenStay
(* The session that is replaced keeps its history.                         *)
<1>7. ASSUME NEW c \in Rollbacks, Replaces(c)
      PROVE  ChildInv' /\ \A d \in Callers : MatInv(d)'
  <2>1. /\ UNCHANGED <<child, native, loaded, live, mat>> /\ c \in Callers /\ c \in Calls
        /\ At(c, "replacing") /\ stored.session = call[c].base.session
    BY <1>0, <1>7 DEF Replaces, MayReplace
  <2>2. stored.session = loaded /\ native[loaded] # <<>>
    BY <2>1 DEF Between, HistoryInv, CallsInv, RollbackInv
  <2>3. \A s \in Sessions : Settled(s) => Settled(s)'
    BY <2>1, <2>2 DEF Settled
  <2>4. HistoriesKeep /\ SpawnsAlone'
    BY <1>0, <2>1, <2>3, HistoriesStay
  <2>5. \A d \in Callers : call'[d] = call[d] \/ mat[d].step = "nothing"
    <3>1. \A d \in Callers \ {c} : call'[d] = call[d]
      BY <1>0, <1>7 DEF Replaces
    <3>2. mat[c].step = "nothing"
      BY <2>1, NotWaiting
    <3>. QED  BY <3>1, <3>2
  <2>. QED  BY <2>1, <2>4, <2>5, ChildrenStay
<1>8. CASE Crash
  <2>1. /\ child' = OnlyReady /\ loaded' = None /\ live'.turn = None
        /\ UNCHANGED <<native, stored>>
        /\ \A d \in Callers : mat'[d].step = "nothing"
    BY <1>8 DEF Crash, NoTurn, NoWait
  <2>2. HistoriesKeep /\ SpawnsAlone'
    BY <1>0, <2>1, HistoriesStay DEF Settled
  <2>3. \A h \in Homes, s \in Sessions :
          Names(h, s)' => Names(h, s) /\ child'[h].of = child[h].of
    BY <2>1 DEF Names, ByRequest, ByRecord, ReadyHomes, Stored, OnlyReady, NoChild
  <2>4. ChildInv'
    BY <2>2, <2>3, ChildrenHeld
  <2>. QED  BY <2>1, <2>4 DEF MatInv
<1>. QED
  <2>. HIDE DEF Between, HistoryInv, Elements
  <2>. QED
    BY <1>1, <1>2, <1>3, <1>4, <1>5, <1>6, <1>7, <1>8, StepIs DEF Proceeds

-----------------------------------------------------------------------------
(* The theorems.                                                           *)

Inv == Types /\ HistoryInv /\ ChildrenInv

(* The initial state satisfies the invariant.                              *)
LEMMA InvInit == Init => Inv
<1>. SUFFICES ASSUME Init PROVE Inv
  OBVIOUS
<1>1. Types
  BY TypesInit
<1>2. /\ First \in Sessions /\ native[First] = <<>> /\ \A s \in Sessions : native[s] = <<>>
      /\ stored = [session |-> First, turns |-> <<>>, revision |-> 1]
      /\ mem = [s \in Sessions |-> IF s = First THEN stored ELSE NoRecord]
      /\ loaded = First /\ live = NoTurn /\ writes = <<>>
      /\ begun = {} /\ ended = {} /\ crossed = {}
      /\ \A c \in Callers : call[c] = Ended("new") /\ mat[c] = NoWait
      /\ Calls \subseteq Callers /\ None \notin Turns
  BY HistoryAssumption, SubagentsAssumption DEF Init, Callers
<1>3. \A c \in Callers : call[c].pc = "new" /\ ~call[c].restores /\ mat[c].step = "nothing"
  BY <1>2 DEF Ended, NoWait
<1>4. \A s \in Sessions : Elements(native[s]) = {}
  BY <1>2
<1>5. stored.session = First /\ stored.turns = <<>> /\ stored.revision \in Nat
  BY <1>2
<1>6. Good(stored)
  BY <1>2, <1>5 DEF Good, GoodIn, Follows
<1>7. StoreInv
  <2>1. EndedTurnsAreStored
    BY <1>2 DEF EndedTurnsAreStored
  <2>. QED  BY <1>6, <2>1 DEF StoreInv
<1>8. TurnsInv
  BY <1>2, <1>4 DEF TurnsInv, NoTurn, Unrepeated, Queued, EndsOnce
<1>9. MemInv
  <2>1. \A s \in Sessions : mem[s] # NoRecord => s = First /\ mem[s] = stored
    BY <1>2
  <2>2. mem[First] = stored /\ stored # NoRecord
    BY <1>2, SubagentsAssumption DEF NoRecord
  <2>3. \A s \in Sessions :
          mem[s] # NoRecord =>
            /\ Good(mem[s])
            /\ mem[s].session # s => mem[s].turns = <<>> /\ s # stored.session
    BY <1>5, <1>6, <2>1
  <2>. QED  BY <1>2, <1>5, <2>2, <2>3 DEF MemInv
<1>10. Orderly
  BY <1>2, <1>3 DEF Orderly, Busy
<1>11. CallsInv
  BY <1>2, <1>3 DEF CallsInv, ReadInv, RollbackInv
<1>12. MemoryInv
  BY <1>2 DEF MemoryInv
<1>13. ChildrenInv
  <2>1. \A h \in Homes : ~Stored(h)
    BY DEF Init, Stored, NoChild
  <2>2. \A s \in Sessions : ByRequest(s) = {} /\ ByRecord(s) = {}
    BY <2>1 DEF ByRequest, ByRecord, ReadyHomes, Stored
  <2>3. \A s \in Sessions : Spawn(s) = {}
    BY <1>2, <1>4, HistoryAssumption DEF Spawn, NoTurn
  <2>. QED  BY <1>3, <2>2, <2>3 DEF ChildrenInv, ChildInv, MatInv
<1>. QED
  BY <1>1, <1>7, <1>8, <1>9, <1>10, <1>11, <1>12, <1>13 DEF Inv, HistoryInv

(* Every step keeps it.                                                    *)
LEMMA InvStep == Inv /\ [Next]_vars => Inv'
<1>. SUFFICES ASSUME Inv, [Next]_vars PROVE Inv'
  OBVIOUS
<1>1. Types /\ HistoryInv /\ ChildInv /\ \A c \in Callers : MatInv(c)
  BY DEF Inv, ChildrenInv
<1>2. /\ TurnsInv /\ StoreInv /\ MemInv /\ Orderly /\ CallsInv /\ MemoryInv
  BY <1>1 DEF HistoryInv
<1>3. Types'
  BY <1>1, <1>2, TypesStep
<1>4. Grown /\ StoreInv'
  BY <1>1, <1>2, <1>3, GrownStep, StoreStep
<1>5. Between
  BY <1>1, <1>3, <1>4 DEF Between
<1>6. TurnsInv' /\ MemInv' /\ Orderly' /\ CallsInv' /\ MemoryInv'
  BY <1>1, <1>5, TurnsStep, MemStep, OrderlyStep, CallsStep, MemoryStep
<1>7. ChildInv' /\ \A c \in Callers : MatInv(c)'
  BY <1>1, <1>5, ChildrenStep
<1>8. HistoryInv'
  BY <1>4, <1>6 DEF HistoryInv
<1>9. ChildrenInv'
  BY <1>7 DEF ChildrenInv
<1>. QED  BY <1>3, <1>8, <1>9 DEF Inv

(* The inductive invariant holds of every state of a Thread's history: the *)
(* Turns, the stored record, the records in memory, the calls and the      *)
(* children agree as they say.                                             *)
THEOREM HistoryInvariant == Spec => []Inv
BY InvInit, InvStep, PTL DEF Spec

(* The variables keep their types: the store and the objects have mappings *)
(* of Turns, the children are records of the Mapping Store.                *)
THEOREM TypeCorrect == Spec => []TypeOK
<1>1. Inv => TypeOK
  <2>. SUFFICES ASSUME Inv PROVE TypeOK
    OBVIOUS
  <2>1. \A s \in Sessions : Elements(native[s]) \subseteq Turns
    <3>1. \A s \in Sessions : native[s] \in Seq(Turns)
      BY DEF Inv, Types
    <3>. QED  BY <3>1
  <2>2. Elements(stored.turns) \subseteq Mappings
    <3>1. stored.turns \in Seq(Mappings)
      BY RecordHas DEF Inv, Types
    <3>. QED  BY <3>1
  <2>3. Elements(writes) \subseteq Callers \cup {Terminal}
    <3>1. writes \in Seq(Callers \cup {Terminal})
      BY DEF Inv, Types
    <3>. QED  BY <3>1
  <2>. QED  BY <2>1, <2>2, <2>3 DEF Inv, Types, TypeOK
<1>. QED  BY <1>1, HistoryInvariant, PTL

(* A Turn keeps the Host Turn ID it was shown with, whatever reads,        *)
(* rollbacks, restarts and failing writes come between, but for the Turns  *)
(* that the invariant excuses (alignSnapshot, reconcileTurnMappings,       *)
(* upsertTurnMappings and replaceReadySessionAfterLastTurn).               *)
THEOREM TurnsKeepIds == Spec => []TurnKeepsId
<1>1. Inv => TurnKeepsId
  <2>. SUFFICES ASSUME Inv, NEW m \in Elements(stored.turns)
                PROVE  m.by = Own \/ m.turn \in crossed
    BY DEF TurnKeepsId
  <2>1. PICK i \in DOMAIN stored.turns : m = stored.turns[i]
    OBVIOUS
  <2>. QED  BY <2>1 DEF Inv, HistoryInv, StoreInv, Good, GoodIn, SoundIn
<1>. QED  BY <1>1, HistoryInvariant, PTL

(* A Turn that ended with a native identity stays in the record as long as *)
(* the stored session has it (persistTerminalIdentity against reads and    *)
(* rollbacks that were prepared before it ended).                          *)
THEOREM EndedTurnsStay == Spec => []EndedTurnsAreStored
<1>1. Inv => EndedTurnsAreStored
  BY DEF Inv, HistoryInv, StoreInv
<1>. QED  BY <1>1, HistoryInvariant, PTL

(* When no call is under way in the store, the loaded object has the       *)
(* record that is stored, but for the cases that apart names (refresh,     *)
(* restore, replace and persistTerminalIdentity, in any order).            *)
THEOREM MemoryMatchesStore == Spec => []MemoryIsStored
<1>1. Inv => MemoryIsStored
  <2>. SUFFICES ASSUME Inv, Quiet, loaded # None
                PROVE  mem[loaded] = stored \/ apart \ {"not moved"} # {}
    BY DEF MemoryIsStored
  <2>1. ASSUME NEW c \in Calls, Carries(c) PROVE FALSE
    <3>1. At(c, "noting")
      BY <2>1 DEF Carries, Quiet
    <3>2. Queued(c)
      BY <3>1 DEF Inv, HistoryInv, CallsInv, RollbackInv
    <3>. QED  BY <3>2 DEF Queued, Quiet
  <2>. QED  BY <2>1 DEF Inv, HistoryInv, MemoryInv
<1>. QED  BY <1>1, HistoryInvariant, PTL

(* The Thread that is found for the Subagent of a Turn was made for it,    *)
(* though live events, reads and rollbacks look for it under different     *)
(* sessions (childCreateRequest, commitReady and rebindSubagentSession).   *)
THEOREM ChildrenAreOwn == Spec => []ChildIsItsOwn
<1>1. Inv => ChildIsItsOwn
  <2>. SUFFICES ASSUME Inv, NEW s \in Sessions, NEW t \in Spawning, t \in Elements(native[s]),
                       NEW h \in Found(s, None)
                PROVE  child[h].of = t
    BY DEF ChildIsItsOwn
  <2>1. h \in Homes /\ h \in ByRequest(s) \cup ByRecord(s)
    BY FoundIs
  <2>2. t \in Spawn(s)
    BY DEF Spawn
  <2>. HIDE DEF Elements
  <2>. QED  BY <2>1, <2>2 DEF Inv, ChildrenInv, ChildInv
<1>. QED  BY <1>1, HistoryInvariant, PTL

-----------------------------------------------------------------------------
(* One Thread for a Subagent.  Until the children are left behind ("not    *)
(* moved"), a child of the Turn that the stored session has is either the  *)
(* one that a lookup under that session finds, or all there are were asked *)
(* for under that session.                                                 *)
IsChild(h, t) == child[h].state = "ready" /\ child[h].of = t

(* A create request is stored once; children are of Turns that began.      *)
RequestsInv ==
  /\ \A h, g \in Homes :
       Stored(h) /\ Stored(g) /\ child[h].request = child[g].request => h = g
  /\ \A h \in Homes : child[h].of \in begun \cup {None}

(* A live event waits for the child of the Turn under way.  Who is about to*)
(* commit a child made the request that created it, unless that is done;   *)
(* only a rollback moves one.                                              *)
WaitInv(c) ==
  mat[c].step # "nothing" =>
    /\ c \in Lives => /\ mat[c].of = live.turn /\ live.turn \in Spawning
                      /\ call[c].base.session \in {loaded, stored.session}
    /\ mat[c].step = "commit" /\ ~At(c, "retaining") =>
         \/ child[mat[c].home].state = "ready"
         \/ child[mat[c].home].request = call[c].base.session
    /\ mat[c].step = "rebind" =>
         At(c, "retaining") /\ child[mat[c].home].state = "ready"

(* The stored session is the loaded one, but for the end of a rollback.    *)
Parted ==
  loaded # None /\ loaded # stored.session =>
    "not replaced" \in apart \/ \E c \in Rollbacks : At(c, "noting") \/ At(c, "retaining")

(* A rollback goes on when its Subagent has a child, and to a session that *)
(* nobody has asked about.                                                 *)
OpeningInv(c) ==
  call[c].pc \in {"opening", "replacing"} =>
    \A t \in TurnsOf(call[c].base) \cap Spawning : \E h \in Homes : IsChild(h, t)

Untouched(c) ==
  call[c].pc \in {"replacing", "noting"} /\ Elements(call[c].snap) \cap Spawning # {} =>
    /\ \A h \in Homes : ~Names(h, call[c].session)
    /\ \A d \in Callers : mat[d].step # "nothing" => call[d].base.session # call[c].session

(* The child is still that of the session that is replaced.                *)
NotingInv(c) ==
  /\ At(c, "noting") =>
       \A t \in Elements(call[c].snap) \cap Spawning :
         \E h \in Homes : IsChild(h, t) /\ child[h].request = call[c].base.session
  /\ At(c, "retaining") => mat[c].step = "rebind"

Fresh(t) ==
  /\ \A h \in Homes : Stored(h) /\ child[h].of = t => child[h].request = stored.session
  /\ \A q \in Sessions \ {stored.session} : mem[q] # NoRecord => t \notin Elements(native[q])

Adopted(t) == \E h \in Homes : IsChild(h, t) /\ child[h].request = stored.session

OneChild ==
  loaded \in {None, stored.session} =>
    \A t \in Spawn(stored.session) : Fresh(t) \/ Adopted(t)

TwinInv ==
  /\ RequestsInv /\ Parted
  /\ \A c \in Callers : WaitInv(c)
  /\ \A c \in Rollbacks : OpeningInv(c) /\ Untouched(c)
  /\ "not moved" \notin apart => OneChild /\ \A c \in Rollbacks : NotingInv(c)

(* What is known of a step.                                                *)
Known == Between /\ ChildInv /\ (\A d \in Callers : MatInv(d)) /\ TwinInv

-----------------------------------------------------------------------------
(* What a step does to the children.                                       *)

CreatesNew(c) ==
  /\ mat[c].step = "create" /\ ByRequest(call[c].base.session) = {}
  /\ \E h \in Unused : child' = Created(h, call[c].base.session, mat[c].of)

(* The children stay, one is created, committed or moved, or the Host dies.*)
LEMMA ChildStepIs ==
  ASSUME Known, [Next]_vars
  PROVE  \/ child' = child \/ Crash
         \/ \E c \in Callers :
              \/ CreatesNew(c)
              \/ /\ ChildMoves(c) /\ mat[c].step \in {"commit", "rebind"}
                 /\ \E stage, record, previous, t : Moves(c, stage, record, previous, t)
<1>1. \A d \in Callers : MatInv(d)
  BY DEF Known
<1>2. ASSUME NEW c \in Callers, Proceeds(c)
      PROVE  \/ child' = child
             \/ CreatesNew(c)
             \/ /\ ChildMoves(c) /\ mat[c].step \in {"commit", "rebind"}
                /\ \E stage, record, previous, t : Moves(c, stage, record, previous, t)
  <2>1. CASE Creates(c)
    BY <2>1 DEF Creates, CreatesNew
  <2>2. CASE Drops(c) \/ Asks(c)
    BY <2>2 DEF Drops, Asks
  <2>3. ASSUME NEW stage, NEW record, NEW previous, NEW t,
               Moves(c, stage, record, previous, t), child' # child
        PROVE  ChildMoves(c) /\ mat[c].step \in {"commit", "rebind"}
    BY <2>3 DEF Moves, ChildMoves
  <2>. QED  BY <1>2, <2>1, <2>2, <2>3 DEF Proceeds
<1>3. CASE \/ UNCHANGED vars
           \/ \E t \in Turns : StartTurn(t)
           \/ RecordTurn \/ EndTurn \/ EndUnnamed \/ RunPersist
           \/ \E c \in Calls : Begin(c) \/ TakeSnapshot(c)
           \/ \E c \in Reads : Restore(c)
           \/ \E c \in Rollbacks : Replaces(c) \/ \E s \in Sessions : OpenWithout(c, s)
  BY <1>3 DEF vars, StartTurn, RecordTurn, EndTurn, EndUnnamed, RunPersist, Begin,
              TakeSnapshot, Restore, Replaces, OpenWithout
<1>4. Between
  BY DEF Known
<1>. HIDE DEF Proceeds, Known, Between
<1>. QED  BY <1>1, <1>2, <1>3, <1>4, StepIs

(* The fields of the children that a mutation leaves alone.                *)
LEMMA ChildFields ==
  ASSUME Types, NEW c \in Callers, MatInv(c), WaitInv(c), ChildMoves(c),
         mat[c].step \in {"commit", "rebind"}
  PROVE  /\ mat[c].home \in Homes /\ Stored(mat[c].home)
         /\ \A h \in Homes \ {mat[c].home} : child'[h] = child[h]
         /\ child'[mat[c].home].of = child[mat[c].home].of
         /\ child' # child =>
              child'[mat[c].home].state = "ready"
              /\ child'[mat[c].home].session = call[c].base.session
         /\ mat[c].step = "commit" =>
              child'[mat[c].home].request = child[mat[c].home].request
         /\ mat[c].step = "rebind" => child[mat[c].home].state = "ready"
         /\ mat[c].step = "rebind" /\ child' # child =>
              child'[mat[c].home].request = call[c].base.session
<1>. DEFINE s0 == call[c].base.session
            h0 == mat[c].home
<1>1. h0 \in Homes /\ Stored(h0)
  BY DEF MatInv
<1>2. mat[c].step = "rebind" => child[h0].state = "ready"
  BY DEF WaitInv
<1>. HIDE DEF h0, s0
<1>3. child[h0] \in Children /\ child \in [Homes -> Children]
  BY <1>1 DEF Types
<1>4. CASE child' = child
  BY <1>1, <1>2, <1>4 DEF h0
<1>5. CASE mat[c].step = "commit" /\ child' = Committed(h0, s0)
  <2>1. child'[h0] = [child[h0] EXCEPT !.state = "ready", !.session = s0]
    BY <1>1, <1>3, <1>5 DEF Committed
  <2>2. /\ child'[h0].of = child[h0].of /\ child'[h0].state = "ready"
        /\ child'[h0].session = s0 /\ child'[h0].request = child[h0].request
    BY <1>3, <2>1 DEF Children
  <2>3. \A h \in Homes \ {h0} : child'[h] = child[h]
    BY <1>1, <1>3, <1>5 DEF Committed
  <2>. QED  BY <1>1, <1>2, <1>5, <2>2, <2>3 DEF h0, s0
<1>6. CASE mat[c].step = "rebind" /\ child' = Rebound(h0, s0)
  <2>1. child'[h0] = [child[h0] EXCEPT !.request = s0, !.session = s0]
    BY <1>1, <1>3, <1>6 DEF Rebound
  <2>2. /\ child'[h0].of = child[h0].of /\ child'[h0].state = "ready"
        /\ child'[h0].session = s0 /\ child'[h0].request = s0
    BY <1>2, <1>3, <1>6, <2>1 DEF Children
  <2>3. \A h \in Homes \ {h0} : child'[h] = child[h]
    BY <1>1, <1>3, <1>6 DEF Rebound
  <2>. QED  BY <1>1, <1>2, <1>6, <2>2, <2>3 DEF h0, s0
<1>. QED  BY <1>4, <1>5, <1>6 DEF ChildMoves, h0, s0

(* A child that is ready stays so, unless the Host dies, and is of the same*)
(* Turn; a stored one keeps its request unless it is moved.                *)
LEMMA ChildStays ==
  ASSUME Known, [Next]_vars, ~Crash, NEW h \in Homes, Stored(h)
  PROVE  /\ Stored(h)' /\ child'[h].of = child[h].of
         /\ child[h].state = "ready" => child'[h].state = "ready"
         /\ \/ child'[h].request = child[h].request
            \/ \E c \in Callers :
                 /\ mat[c].step = "rebind" /\ mat[c].home = h
                 /\ child'[h].request = call[c].base.session
<1>0. Types /\ \A c \in Callers : MatInv(c) /\ WaitInv(c)
  BY DEF Known, Between, TwinInv
<1>1. ASSUME NEW c \in Callers, CreatesNew(c) PROVE child'[h] = child[h]
  BY <1>0, <1>1 DEF CreatesNew, Created, Unused
<1>2. ASSUME NEW c \in Callers, ChildMoves(c), mat[c].step \in {"commit", "rebind"}
      PROVE  /\ Stored(h)' /\ child'[h].of = child[h].of
             /\ child[h].state = "ready" => child'[h].state = "ready"
             /\ \/ child'[h].request = child[h].request
                \/ /\ mat[c].step = "rebind" /\ mat[c].home = h
                   /\ child'[h].request = call[c].base.session
  <2>1. MatInv(c) /\ WaitInv(c)
    BY <1>0
  <2>. QED  BY <1>0, <1>2, <2>1, ChildFields DEF Stored
<1>3. CASE child' = child
  BY <1>3 DEF Stored
<1>. HIDE DEF Known
<1>. QED  BY <1>1, <1>2, <1>3, ChildStepIs DEF Stored

(* A name that a child gets is one that somebody who waits asked with.     *)
LEMMA NamesAsked ==
  ASSUME Known, [Next]_vars, NEW h \in Homes, NEW s \in Sessions, Names(h, s)', ~Names(h, s)
  PROVE  \E c \in Callers : mat[c].step # "nothing" /\ call[c].base.session = s
<1>0. /\ Types /\ \A c \in Callers : MatInv(c) /\ WaitInv(c)
      /\ child \in [Homes -> Children]
  BY DEF Known, Between, TwinInv, Types
<1>. USE DEF Names, ByRequest, ByRecord, ReadyHomes, Stored
<1>1. ASSUME NEW c \in Callers, CreatesNew(c)
      PROVE  mat[c].step # "nothing" /\ call[c].base.session = s
  <2>1. PICK g \in Unused : child' = Created(g, call[c].base.session, mat[c].of)
    BY <1>1 DEF CreatesNew
  <2>2. g \in Homes /\ \A x \in Homes \ {g} : child'[x] = child[x]
    BY <1>0, <2>1 DEF Created, Unused
  <2>3. child'[g].request = call[c].base.session /\ child'[g].state = "creating"
    BY <1>0, <2>1, <2>2 DEF Created
  <2>. QED  BY <1>1, <2>2, <2>3 DEF CreatesNew
<1>2. ASSUME NEW c \in Callers, ChildMoves(c), mat[c].step \in {"commit", "rebind"}
      PROVE  mat[c].step # "nothing" /\ call[c].base.session = s
  <2>1. MatInv(c) /\ WaitInv(c)
    BY <1>0
  <2>2. child' # child
    OBVIOUS
  <2>. QED  BY <1>0, <1>2, <2>1, <2>2, ChildFields
<1>3. ~Crash
  <2>. SUFFICES ASSUME Crash PROVE FALSE
    OBVIOUS
  <2>1. child'[h] = IF child[h].state = "ready" THEN child[h] ELSE NoChild
    BY DEF Crash, OnlyReady
  <2>2. child'[h] = child[h]
    BY <2>1 DEF NoChild
  <2>. QED  BY <2>2
<1>. HIDE DEF Known, Names, ByRequest, ByRecord, ReadyHomes, Stored
<1>4. child' # child
  BY DEF Names, ByRequest, ByRecord, ReadyHomes, Stored
<1>. QED  BY <1>1, <1>2, <1>3, <1>4, ChildStepIs

-----------------------------------------------------------------------------
(* Requests and waits.                                                     *)

(* Who waits waits for the child of a Turn that began.                     *)
LEMMA WaitsForBegun ==
  ASSUME Known, NEW c \in Callers, mat[c].step # "nothing"
  PROVE  mat[c].of \in begun /\ call[c].base.session \in Sessions /\ Busy(c)
<1>1. MatInv(c) /\ WaitInv(c) /\ TurnsInv
  BY DEF Known, TwinInv, Between, HistoryInv
<1>2. CASE c \in Calls
  BY <1>1, <1>2 DEF MatInv, TurnsInv
<1>3. CASE c \in Lives
  <2>1. live.turn \in Spawning /\ mat[c].of = live.turn
    BY <1>1, <1>3 DEF WaitInv
  <2>2. live.turn # None
    BY <2>1, HistoryAssumption, SubagentsAssumption
  <2>. QED  BY <1>1, <2>1, <2>2 DEF MatInv, TurnsInv
<1>. QED  BY <1>2, <1>3 DEF Callers

(* A live event waits while its Turn runs.                                 *)
LEMMA LiveWaits ==
  ASSUME Known, NEW c \in Lives, mat[c].step # "nothing"
  PROVE  /\ live.phase = "running" /\ live.turn # None /\ live.turn \in Spawning
         /\ loaded # None /\ mat[c].of = live.turn /\ ~Queued(Terminal)
         /\ call[c].base.session \in {loaded, stored.session} /\ At(c, "event")
<1>1. /\ MatInv(c) /\ WaitInv(c) /\ TurnsInv /\ Orderly /\ c \in Callers
  BY DEF Known, TwinInv, Between, HistoryInv, Callers
<1>2. Busy(c)
  BY <1>1 DEF MatInv
<1>. QED
  BY <1>1, <1>2, HistoryAssumption, SubagentsAssumption DEF WaitInv, TurnsInv, Orderly

(* Only a rollback moves a child, and it does nothing else then.           *)
LEMMA RebindsAre ==
  ASSUME Known, NEW c \in Callers, mat[c].step = "rebind"
  PROVE  /\ c \in Rollbacks /\ c \in Calls /\ At(c, "retaining") /\ Busy(c)
         /\ mat[c].home \in Homes /\ child[mat[c].home].state = "ready"
         /\ call[c].base.session = stored.session /\ loaded # stored.session
         /\ loaded # None
<1>1. /\ MatInv(c) /\ WaitInv(c) /\ Orderly /\ CallsInv /\ MemInv
  BY DEF Known, TwinInv, Between, HistoryInv
<1>2. At(c, "retaining") /\ child[mat[c].home].state = "ready" /\ Busy(c)
  BY <1>1 DEF WaitInv, Busy
<1>3. c \in Calls
  BY <1>1, <1>2 DEF Orderly, Callers
<1>4. /\ c \in Rollbacks /\ mem[call[c].session] = NoRecord
      /\ call[c].base.session = call[c].session /\ call[c].session = stored.session
  BY <1>1, <1>2, <1>3 DEF CallsInv, RollbackInv
<1>5. ~call[c].restores
  BY <1>1, <1>2 DEF Orderly
<1>6. loaded # None
  BY <1>1, <1>2, <1>5 DEF Orderly
<1>. QED  BY <1>1, <1>2, <1>3, <1>4, <1>6 DEF MatInv, MemInv

(* Every step keeps the requests apart.                                    *)
LEMMA RequestsStep ==
  ASSUME Known, [Next]_vars
  PROVE  RequestsInv'
<1>0. /\ RequestsInv /\ Types /\ child \in [Homes -> Children] /\ begun \subseteq begun'
      /\ \A c \in Callers : MatInv(c) /\ WaitInv(c)
  BY DEF Known, Between, TwinInv, Types, Grown
<1>. USE DEF Stored
<1>1. CASE child' = child
  BY <1>0, <1>1 DEF RequestsInv
<1>2. CASE Crash
  <2>1. \A h \in Homes : child'[h] = IF child[h].state = "ready" THEN child[h] ELSE NoChild
    BY <1>2 DEF Crash, OnlyReady
  <2>. QED  BY <1>0, <2>1 DEF RequestsInv, NoChild
<1>3. ASSUME NEW c \in Callers, CreatesNew(c) PROVE RequestsInv'
  <2>1. PICK g \in Unused : child' = Created(g, call[c].base.session, mat[c].of)
    BY <1>3 DEF CreatesNew
  <2>2. g \in Homes /\ \A x \in Homes \ {g} : child'[x] = child[x]
    BY <1>0, <2>1 DEF Created, Unused
  <2>3. child'[g].request = call[c].base.session /\ child'[g].of = mat[c].of
    BY <1>0, <2>1, <2>2 DEF Created
  <2>4. \A x \in Homes : Stored(x) => child[x].request # call[c].base.session
    BY <1>3 DEF CreatesNew, ByRequest
  <2>5. mat[c].of \in begun
    BY <1>3, WaitsForBegun DEF CreatesNew
  <2>6. ASSUME NEW x \in Homes, NEW y \in Homes, Stored(x)', Stored(y)',
               child'[x].request = child'[y].request
        PROVE  x = y
    <3>1. CASE x = g /\ y # g
      BY <2>2, <2>3, <2>4, <2>6, <3>1
    <3>2. CASE y = g /\ x # g
      BY <2>2, <2>3, <2>4, <2>6, <3>2
    <3>3. CASE x # g /\ y # g
      BY <1>0, <2>2, <2>6, <3>3 DEF RequestsInv
    <3>. QED  BY <3>1, <3>2, <3>3
  <2>7. \A x \in Homes : child'[x].of \in begun' \cup {None}
    BY <1>0, <2>2, <2>3, <2>5 DEF RequestsInv
  <2>. QED  BY <2>6, <2>7 DEF RequestsInv
<1>4. ASSUME NEW c \in Callers, ChildMoves(c), mat[c].step \in {"commit", "rebind"},
             child' # child
      PROVE  RequestsInv'
  <2>. DEFINE h0 == mat[c].home
              s0 == call[c].base.session
  <2>1. /\ h0 \in Homes /\ Stored(h0) /\ \A h \in Homes \ {h0} : child'[h] = child[h]
        /\ child'[h0].of = child[h0].of
        /\ mat[c].step = "commit" => child'[h0].request = child[h0].request
        /\ mat[c].step = "rebind" => child'[h0].request = s0
    BY <1>0, <1>4, ChildFields
  <2>2. \/ child'[h0].request = child[h0].request
        \/ child'[h0].request = s0 /\ \A x \in Homes \ {h0} : Stored(x) => child[x].request # s0
    <3>1. CASE mat[c].step = "commit"
      BY <2>1, <3>1
    <3>2. CASE mat[c].step = "rebind"
      <4>1. MayRebind(h0, s0, mat[c].previous, stored.session)
        BY <1>4, <3>2 DEF ChildMoves
      <4>2. child[h0].request = s0 \/ ByRequest(s0) \ {h0} = {}
        BY <4>1 DEF MayRebind
      <4>. QED  BY <2>1, <3>2, <4>2 DEF ByRequest
    <3>. QED  BY <1>4, <3>1, <3>2
  <2>. HIDE DEF h0, s0
  <2>3. ASSUME NEW x \in Homes, NEW y \in Homes, Stored(x)', Stored(y)',
               child'[x].request = child'[y].request
        PROVE  x = y
    <3>1. (x # h0 => Stored(x)) /\ (y # h0 => Stored(y))
      BY <2>1, <2>3
    <3>. QED  BY <1>0, <2>1, <2>2, <2>3, <3>1 DEF RequestsInv
  <2>4. \A x \in Homes : child'[x].of \in begun' \cup {None}
    BY <1>0, <2>1 DEF RequestsInv
  <2>. QED  BY <2>3, <2>4 DEF RequestsInv
<1>. HIDE DEF Known
<1>. QED  BY <1>1, <1>2, <1>3, <1>4, ChildStepIs

(* Who waits goes on to wait, has what it waited for, or begins to.        *)
LEMMA WaitStepIs ==
  ASSUME Known, [Next]_vars, NEW d \in Callers
  PROVE  \/ mat'[d].step = "nothing"
         \/ mat'[d] = mat[d] /\ call'[d] = call[d]
         \/ Creates(d) /\ call'[d] = call[d]
         \/ \E stage, record, previous, t :
              Moves(d, stage, record, previous, t) /\ Waits(d, stage, record, previous, t)
<1>0. /\ Types /\ mat \in [Callers -> Awaited] /\ call \in [Callers -> CallStates]
      /\ Between /\ \A c \in Callers : MatInv(c)
      /\ Calls \subseteq Callers /\ Reads \subseteq Calls /\ Rollbacks \subseteq Calls
  BY DEF Known, Between, Types, Callers, Calls
<1>1. ASSUME UNCHANGED mat, NEW c \in Callers, \A e \in Callers \ {c} : call'[e] = call[e],
             call[c].pc \notin {"projecting", "retaining", "event"}
      PROVE  mat'[d].step = "nothing" \/ (mat'[d] = mat[d] /\ call'[d] = call[d])
  <2>1. mat[c].step = "nothing"
    BY <1>0, <1>1, NotWaiting
  <2>. QED  BY <1>1, <2>1
<1>2. CASE \/ UNCHANGED vars
           \/ \E t \in Turns : StartTurn(t)
           \/ RecordTurn \/ EndTurn \/ EndUnnamed \/ RunPersist
  BY <1>2 DEF vars, StartTurn, RecordTurn, EndTurn, EndUnnamed, RunPersist
<1>3. ASSUME NEW c \in Calls, Begin(c) \/ TakeSnapshot(c) \/ Restore(c)
      PROVE  mat'[d].step = "nothing" \/ (mat'[d] = mat[d] /\ call'[d] = call[d])
  <2>1. /\ UNCHANGED mat /\ \A e \in Callers \ {c} : call'[e] = call[e]
        /\ call[c].pc \in {"new", "reading"}
    BY <1>0, <1>3 DEF Begin, TakeSnapshot, Restore, Admitted
  <2>. QED  BY <1>0, <1>1, <2>1
<1>4. ASSUME NEW c \in Rollbacks, Replaces(c) \/ \E s \in Sessions : OpenWithout(c, s)
      PROVE  mat'[d].step = "nothing" \/ (mat'[d] = mat[d] /\ call'[d] = call[d])
  <2>1. /\ UNCHANGED mat /\ \A e \in Callers \ {c} : call'[e] = call[e]
        /\ call[c].pc \in {"replacing", "opening"}
    BY <1>0, <1>4 DEF Replaces, OpenWithout, Fail
  <2>. QED  BY <1>0, <1>1, <2>1
<1>5. ASSUME NEW c \in Callers, Drops(c) \/ Asks(c)
      PROVE  mat'[d].step = "nothing" \/ (mat'[d] = mat[d] /\ call'[d] = call[d])
  <2>1. /\ UNCHANGED mat /\ \A e \in Callers \ {c} : call'[e] = call[e]
        /\ call[c].pc \notin {"projecting", "retaining", "event"}
    BY <1>0, <1>5, EndsIs DEF Drops, Asks
  <2>. QED  BY <1>1, <2>1
<1>6. ASSUME NEW c \in Callers, Creates(c)
      PROVE  (mat'[d] = mat[d] \/ d = c) /\ call'[d] = call[d]
  BY <1>0, <1>6 DEF Creates
<1>7. ASSUME NEW c \in Callers, NEW stage, NEW record, NEW previous, NEW t,
             Moves(c, stage, record, previous, t)
      PROVE  \/ mat'[d].step = "nothing"
             \/ mat'[d] = mat[d] /\ call'[d] = call[d]
             \/ d = c /\ Waits(c, stage, record, previous, t)
  <2>1. CASE d # c
    <3>1. call'[d] = call[d] /\ mat'[d] = mat[d]
      BY <1>0, <1>7, <2>1
         DEF Moves, Over, Leaves, Adopts, TakesOver, Ends, Waits
    <3>. QED  BY <3>1
  <2>2. CASE d = c /\ Over(c, stage, record)
    BY <1>0, <2>2 DEF Over, NoWait
  <2>. QED  BY <1>7, <2>1, <2>2 DEF Moves
<1>8. CASE Crash
  BY <1>8 DEF Crash, NoWait
<1>. HIDE DEF Known, Between
<1>. QED
  BY <1>0, <1>2, <1>3, <1>4, <1>5, <1>6, <1>7, <1>8, StepIs DEF Proceeds

(* Where a record comes from that somebody begins to wait with.            *)
LEMMA WaitsWith ==
  ASSUME Known, NEW c \in Callers, NEW stage, NEW record, NEW previous, NEW t,
         Moves(c, stage, record, previous, t), Waits(c, stage, record, previous, t)
  PROVE  /\ record.session \in Sessions /\ call'[c].base = record /\ call'[c].pc = stage
         /\ mat'[c].of = t /\ mat'[c].previous = previous
         /\ mat'[c].step = Wanted(mat'[c].home, record.session, previous)
         /\ mat'[c].step # "nothing" /\ t \in Spawning
         /\ mat'[c].home = None => Found(record.session, previous) = {}
         /\ mat'[c].step # "create" => mat'[c].home \in Found(record.session, previous)
         /\ \/ /\ stage = "event" /\ c \in Lives /\ previous = None /\ loaded # None
               /\ t = live.turn /\ live.phase = "running" /\ loaded' = loaded
               /\ record.session \in {loaded, stored.session}
            \/ /\ stage = "projecting" /\ c \in Calls /\ previous = None
               /\ call[c].pc \in {"taken", "aligning", "projecting"}
               /\ record.session = call[c].session /\ t \in Elements(call[c].snap)
            \/ /\ stage = "retaining" /\ c \in Rollbacks /\ At(c, "noting")
               /\ record = Retained(c) /\ previous = call[c].base.session
               /\ record.session = call[c].session /\ t \in Elements(call[c].snap)
<1>0. /\ Types /\ mat \in [Callers -> Awaited] /\ Between /\ TurnsInv /\ MemInv
      /\ loaded \in Sessions \cup {None} /\ None \notin Sessions /\ stored.session \in Sessions
  BY SubagentsAssumption DEF Known, Between, HistoryInv, Types
<1>1. /\ ~Over(c, stage, record) /\ call'[c].base = record /\ call'[c].pc = stage
  BY <1>0, WaitsIs
<1>2. PICK h \in {None} \cup Found(record.session, previous),
           step \in Steps \ {"nothing"} :
         /\ step = Wanted(h, record.session, previous)
         /\ h = None => Found(record.session, previous) = {}
         /\ step # "create" => h # None /\ h \in Found(record.session, previous)
         /\ mat' = [mat EXCEPT ![c] =
                      [step |-> step, home |-> h, previous |-> previous, of |-> t]]
  BY DEF Waits
<1>3. /\ mat'[c].step = step /\ mat'[c].home = h /\ mat'[c].of = t
      /\ mat'[c].previous = previous
  BY <1>0, <1>2
<1>4. CASE EventMove(c, stage, record, previous, t)
  <2>1. /\ stage = "event" /\ c \in Lives /\ record = mem[loaded] /\ previous = None
        /\ t = live.turn /\ t \in Spawning /\ live.phase = "running"
    BY <1>1, <1>4 DEF EventMove
  <2>2. live.turn # None
    BY <1>0, <2>1 DEF TurnsInv
  <2>3. loaded # None /\ record.session \in {loaded, stored.session}
    BY <1>0, <2>1, <2>2 DEF TurnsInv, MemInv
  <2>4. loaded' = loaded
    BY <1>0, <2>2, MovesLoaded
  <2>. QED  BY <1>0, <1>1, <1>2, <1>3, <2>1, <2>3, <2>4
<1>5. CASE ReadMove(c, stage, record, previous, t)
  <2>1. /\ stage = "projecting" /\ c \in Calls
        /\ call[c].pc \in {"taken", "aligning", "projecting"}
        /\ record.session \in Sessions /\ record.session = call[c].session
        /\ previous = None /\ t \in Elements(call[c].snap) \cap Spawning
    BY <1>1, <1>5 DEF ReadMove, GoodIn
  <2>. HIDE DEF Elements
  <2>. QED  BY <1>1, <1>2, <1>3, <2>1
<1>6. CASE RollbackMove(c, stage, record, previous, t)
  <2>1. /\ stage = "retaining" /\ c \in Rollbacks /\ At(c, "noting")
        /\ record.session = call[c].session /\ call[c].session = stored.session
        /\ previous = call[c].base.session /\ record = Retained(c)
        /\ t \in Elements(call[c].snap) \cap Spawning
    BY <1>1, <1>6 DEF RollbackMove
  <2>. HIDE DEF Elements
  <2>. QED  BY <1>0, <1>1, <1>2, <1>3, <2>1
<1>. QED  BY <1>4, <1>5, <1>6 DEF Moves

(* The stored session changes when a rollback is stored, which leaves the  *)
(* loaded one behind.                                                      *)
LEMMA StoredMoves ==
  ASSUME Known, [Next]_vars
  PROVE  \/ stored'.session = stored.session
         \/ \E c \in Rollbacks :
              /\ Replaces(c) /\ loaded' = loaded /\ loaded = stored.session /\ loaded # None
              /\ loaded = call[c].base.session
              /\ stored'.session = call[c].session /\ call[c].session # loaded
<1>0. /\ Types /\ Between /\ MemInv /\ CallsInv /\ \A c \in Callers : MatInv(c)
      /\ Rollbacks \subseteq Calls /\ None \notin Sessions /\ stored.session \in Sessions
  BY SubagentsAssumption DEF Known, Between, HistoryInv, Types, Calls
<1>1. ASSUME NEW c \in Rollbacks, Replaces(c)
      PROVE  /\ Replaces(c) /\ loaded' = loaded /\ loaded = stored.session /\ loaded # None
             /\ loaded = call[c].base.session
             /\ stored'.session = call[c].session /\ call[c].session # loaded
  <2>1. /\ At(c, "replacing") /\ c \in Calls /\ stored.session = call[c].base.session
        /\ loaded' = loaded /\ stored' = Retained(c)
    BY <1>0, <1>1 DEF Replaces, MayReplace
  <2>2. mem[call[c].session] = NoRecord /\ call[c].base.session = loaded
    BY <1>0, <2>1 DEF CallsInv, RollbackInv
  <2>3. loaded # None /\ mem[loaded] # NoRecord
    BY <1>0, <2>1, <2>2 DEF MemInv
  <2>. QED  BY <1>1, <2>1, <2>2, <2>3 DEF Retained
<1>2. CASE RunPersist
  <2>1. Upserted.session = stored.session
    BY <1>0 DEF Upserted, Types, Records
  <2>. QED  BY <1>2, <2>1 DEF RunPersist
<1>3. CASE \/ UNCHANGED vars \/ Crash
           \/ \E t \in Turns : StartTurn(t)
           \/ RecordTurn \/ EndTurn \/ EndUnnamed
           \/ \E c \in Calls : Begin(c) \/ TakeSnapshot(c)
           \/ \E c \in Reads : Restore(c)
           \/ \E c \in Rollbacks : \E s \in Sessions : OpenWithout(c, s)
           \/ \E c \in Callers : Drops(c) \/ Asks(c) \/ Creates(c)
  BY <1>3 DEF vars, Crash, StartTurn, RecordTurn, EndTurn, EndUnnamed, Begin, TakeSnapshot,
              Restore, OpenWithout, Drops, Asks, Creates
<1>4. ASSUME NEW c \in Callers, NEW stage, NEW record, NEW previous, NEW t,
             Moves(c, stage, record, previous, t)
      PROVE  stored'.session = stored.session
  BY <1>4 DEF Moves
<1>. HIDE DEF Known, Between
<1>. QED  BY <1>0, <1>1, <1>2, <1>3, <1>4, StepIs DEF Proceeds

(* While a live event waits, its Turn runs in the loaded object.           *)
LEMMA LiveStays ==
  ASSUME Known, [Next]_vars, ~Crash, NEW c \in Lives, mat[c].step # "nothing"
  PROVE  live'.turn = live.turn /\ loaded' = loaded
<1>0. /\ live.phase = "running" /\ live.turn # None /\ ~Queued(Terminal)
      /\ loaded # None /\ At(c, "event") /\ c \in Callers
      /\ Types /\ Between /\ Busy(c) /\ \A d \in Callers : MatInv(d)
  BY LiveWaits, WaitsForBegun DEF Known, Between, Callers
<1>1. ~RunPersist
  <2>. SUFFICES ASSUME Runs(Terminal) PROVE FALSE
    BY DEF RunPersist
  <2>1. writes \in Seq(Callers \cup {Terminal})
    BY <1>0 DEF Types
  <2>. QED  BY <1>0, <2>1 DEF Runs, Queued
<1>2. CASE \/ UNCHANGED vars
           \/ \E t \in Turns : StartTurn(t)
           \/ RecordTurn \/ EndTurn \/ EndUnnamed
           \/ \E d \in Calls : Begin(d) \/ TakeSnapshot(d)
           \/ \E d \in Reads : Restore(d)
  BY <1>0, <1>2 DEF vars, StartTurn, RecordTurn, EndTurn, EndUnnamed, Begin, TakeSnapshot,
                    Restore
<1>3. ASSUME NEW d \in Rollbacks, Replaces(d) \/ \E s \in Sessions : OpenWithout(d, s)
      PROVE  live'.turn = live.turn /\ loaded' = loaded
  BY <1>3 DEF Replaces, OpenWithout, Fail
<1>4. ASSUME NEW d \in Callers, Drops(d) \/ Asks(d) \/ Creates(d)
      PROVE  live'.turn = live.turn /\ loaded' = loaded
  BY <1>4 DEF Drops, Asks, Creates
<1>5. ASSUME NEW d \in Callers, NEW stage, NEW record, NEW previous, NEW t,
             Moves(d, stage, record, previous, t)
      PROVE  live'.turn = live.turn /\ loaded' = loaded
  <2>1. live' = live
    BY <1>5 DEF Moves
  <2>2. loaded' = loaded
    BY <1>0, <1>5, MovesLoaded
  <2>. QED  BY <2>1, <2>2
<1>. HIDE DEF Known, Between
<1>. QED  BY <1>0, <1>1, <1>2, <1>3, <1>4, <1>5, StepIs DEF Proceeds

(* Every step keeps right what each caller waits for.                      *)
LEMMA WaitsStep ==
  ASSUME Known, [Next]_vars, NEW d \in Callers
  PROVE  WaitInv(d)'
<1>0. /\ Types /\ mat \in [Callers -> Awaited] /\ Between
      /\ MatInv(d) /\ WaitInv(d) /\ child \in [Homes -> Children]
  BY DEF Known, Between, TwinInv, Types
<1>. SUFFICES ASSUME mat'[d].step # "nothing" PROVE WaitInv(d)'
  BY DEF WaitInv
<1>1. ~Crash
  <2>. SUFFICES ASSUME Crash PROVE FALSE
    OBVIOUS
  <2>1. mat'[d] = NoWait
    BY DEF Crash
  <2>. QED  BY <2>1 DEF NoWait
(* The child it waits to commit.                                           *)
<1>2. ASSUME mat[d].step # "nothing", mat[d].step = "commit" \/ mat[d].step = "rebind"
      PROVE  /\ child[mat[d].home].state = "ready" => child'[mat[d].home].state = "ready"
             /\ child[mat[d].home].request = call[d].base.session =>
                  \/ child'[mat[d].home].state = "ready"
                  \/ child'[mat[d].home].request = call[d].base.session
  <2>. DEFINE h == mat[d].home
  <2>1. h \in Homes /\ Stored(h)
    BY <1>0, <1>2 DEF MatInv
  <2>. HIDE DEF h
  <2>2. /\ child[h].state = "ready" => child'[h].state = "ready"
        /\ \/ child'[h].request = child[h].request
           \/ \E c \in Callers : mat[c].step = "rebind" /\ mat[c].home = h
    BY <1>1, <2>1, ChildStays
  <2>3. ASSUME NEW c \in Callers, mat[c].step = "rebind", mat[c].home = h
        PROVE  child[h].state = "ready"
    BY <2>3, RebindsAre
  <2>. QED  BY <2>2, <2>3 DEF h
<1>3. ASSUME mat[d].step # "nothing", d \in Lives
      PROVE  /\ live'.turn = live.turn /\ mat[d].of = live.turn /\ live.turn \in Spawning
             /\ call[d].base.session \in {loaded', stored'.session}
  <2>1. /\ mat[d].of = live.turn /\ live.turn \in Spawning
        /\ call[d].base.session \in {loaded, stored.session}
        /\ live'.turn = live.turn /\ loaded' = loaded
    BY <1>1, <1>3, LiveWaits, LiveStays
  <2>2. stored'.session = stored.session \/ loaded = stored.session
    BY StoredMoves
  <2>. QED  BY <2>1, <2>2
<1>4. CASE mat'[d] = mat[d] /\ call'[d] = call[d]
  <2>1. mat[d].step # "nothing"
    BY <1>4
  <2>. QED  BY <1>0, <1>2, <1>3, <1>4, <2>1 DEF WaitInv
<1>5. CASE Creates(d) /\ call'[d] = call[d]
  <2>1. PICK h \in Homes :
          /\ \/ h \in Unused /\ child' = Created(h, call[d].base.session, mat[d].of)
             \/ h \in ByRequest(call[d].base.session) /\ child' = child
          /\ mat' = [mat EXCEPT ![d].step = "commit", ![d].home = h]
    BY <1>5 DEF Creates
  <2>2. mat'[d] = [mat[d] EXCEPT !.step = "commit", !.home = h] /\ mat[d] \in Awaited
    BY <1>0, <2>1
  <2>3. mat'[d].step = "commit" /\ mat'[d].home = h /\ mat'[d].of = mat[d].of
    BY <2>2 DEF Awaited
  <2>4. child'[h].request = call[d].base.session
    BY <1>0, <2>1 DEF Created, ByRequest
  <2>5. mat[d].step # "nothing"
    BY <1>5 DEF Creates
  <2>. QED  BY <1>3, <1>5, <2>3, <2>4, <2>5 DEF WaitInv
<1>6. ASSUME NEW stage, NEW record, NEW previous, NEW t,
             Moves(d, stage, record, previous, t), Waits(d, stage, record, previous, t)
      PROVE  WaitInv(d)'
  <2>. DEFINE h == mat'[d].home
              s == record.session
  <2>1. /\ s \in Sessions /\ call'[d].base = record /\ call'[d].pc = stage
        /\ mat'[d].of = t
        /\ mat'[d].step = Wanted(h, s, previous)
        /\ mat'[d].step # "create" => h \in Found(s, previous)
        /\ t \in Spawning
        /\ \/ /\ stage = "event" /\ d \in Lives /\ previous = None
              /\ t = live.turn /\ loaded' = loaded
              /\ s \in {loaded, stored.session}
           \/ stage = "projecting" /\ d \in Calls /\ previous = None
           \/ stage = "retaining" /\ d \in Rollbacks
    BY <1>6, WaitsWith
  <2>2. live' = live /\ stored'.session = stored.session /\ ChildMoves(d)
    BY <1>6 DEF Moves
  <2>3. ASSUME mat'[d].step \in {"commit", "rebind"}
        PROVE  /\ h \in Homes /\ Stored(h) /\ child[h].state \in {"creating", "ready"}
               /\ mat'[d].step = "commit" =>
                    /\ child[h].state = "creating"
                    /\ previous = None => child[h].request = s
               /\ mat'[d].step = "rebind" => child[h].state = "ready" /\ previous # None
    <3>1. h \in Found(s, previous)
      BY <2>1, <2>3
    <3>2. /\ h \in Homes /\ Stored(h)
          /\ previous = None => h \in ByRequest(s) \cup ByRecord(s)
      BY <3>1, FoundIs
    <3>3. child[h].state \in {"creating", "ready"} /\ h # None
      BY <1>0, <3>2, SubagentsAssumption DEF Stored, Children
    <3>4. /\ mat'[d].step = "commit" => child[h].state = "creating"
          /\ mat'[d].step = "rebind" => child[h].state # "creating" /\ previous # None
      BY <2>1, <2>3, <3>3 DEF Wanted
    <3>. HIDE DEF h, s
    <3>. QED  BY <3>2, <3>3, <3>4 DEF ByRequest, ByRecord, ReadyHomes
  <2>4. ASSUME mat'[d].step \in {"commit", "rebind"}
        PROVE  /\ child[h].state = "ready" => child'[h].state = "ready"
               /\ child[h].state = "creating" => child'[h].request = child[h].request
    <3>. HIDE DEF h
    <3>1. ASSUME NEW c \in Callers, mat[c].step = "rebind", mat[c].home = h
          PROVE  child[h].state = "ready"
      BY <3>1, RebindsAre
    <3>. QED  BY <1>1, <2>3, <2>4, <3>1, ChildStays
  <2>5. /\ mat'[d].step = "commit" /\ stage # "retaining" => child'[h].request = s
        /\ mat'[d].step = "rebind" => stage = "retaining" /\ child'[h].state = "ready"
    <3>. HIDE DEF h, s
    <3>. QED  BY <2>1, <2>3, <2>4
  <2>6. d \in Lives => t = live'.turn /\ s \in {loaded', stored'.session}
    BY <2>1, <2>2, HistoryAssumption DEF Calls
  <2>. QED  BY <2>1, <2>2, <2>5, <2>6 DEF WaitInv
<1>. HIDE DEF Known
<1>. QED  BY <1>4, <1>5, <1>6, WaitStepIs

-----------------------------------------------------------------------------
(* The end of a rollback.                                                  *)

(* What a step is to a rollback.                                           *)
LEMMA RollbackSteps ==
  ASSUME Known, [Next]_vars, NEW d \in Rollbacks
  PROVE  \/ call'[d] = call[d] /\ ~Crash
         \/ call'[d].pc \notin {"opening", "replacing", "noting", "retaining"}
         \/ Replaces(d) \/ \E s \in Sessions : OpenWithout(d, s)
         \/ \E stage, record, previous, t : Moves(d, stage, record, previous, t)
<1>0. /\ Types /\ Between /\ call \in [Callers -> CallStates]
      /\ \A c \in Callers : MatInv(c)
      /\ Calls \subseteq Callers /\ Reads \subseteq Calls /\ Rollbacks \subseteq Calls
      /\ d \in Callers
  BY DEF Known, Between, Types, Callers, Calls
<1>1. CASE Crash
  <2>1. call'[d] = IF Busy(d) THEN Ended("failed") ELSE call[d]
    BY <1>0, <1>1 DEF Crash
  <2>. QED  BY <2>1 DEF Ended, Busy
<1>2. CASE ~Crash /\ call' = call
  BY <1>2
<1>3. CASE \/ UNCHANGED vars
           \/ \E t \in Turns : StartTurn(t)
           \/ RecordTurn \/ EndTurn \/ EndUnnamed \/ RunPersist
           \/ \E c \in Callers : Creates(c)
  <2>1. call' = call
    BY <1>3 DEF vars, StartTurn, RecordTurn, EndTurn, EndUnnamed, RunPersist, Creates
  <2>. QED  BY <1>1, <1>2, <2>1
<1>4. ASSUME NEW c \in Callers,
             \/ c \in Calls /\ (Begin(c) \/ TakeSnapshot(c))
             \/ c \in Reads /\ Restore(c)
             \/ Asks(c)
      PROVE  call'[d] = call[d] \/ call'[d].pc \in {"reading", "taken", "aligning"}
  <2>1. call[c] \in CallStates
    BY <1>0
  <2>2. call'[c].pc \in {"reading", "taken", "aligning"}
    <3>1. CASE Begin(c)
      BY <1>0, <2>1, <3>1 DEF Begin, CallStates
    <3>2. CASE TakeSnapshot(c)
      BY <1>0, <2>1, <3>2 DEF TakeSnapshot, CallStates
    <3>3. CASE Restore(c)
      BY <1>0, <3>3 DEF Restore, Ended
    <3>4. CASE Asks(c)
      BY <1>0, <2>1, <3>4 DEF Asks, CallStates
    <3>. QED  BY <1>4, <3>1, <3>2, <3>3, <3>4
  <2>3. \A e \in Callers \ {c} : call'[e] = call[e]
    BY <1>0, <1>4 DEF Begin, TakeSnapshot, Restore, Asks
  <2>. QED  BY <1>0, <2>2, <2>3
<1>5. ASSUME NEW c \in Callers, Drops(c)
      PROVE  call'[d] = call[d] \/ call'[d].pc \in {"done", "failed"}
  BY <1>0, <1>5, EndsIs DEF Drops
<1>6. ASSUME NEW c \in Rollbacks, Replaces(c) \/ \E s \in Sessions : OpenWithout(c, s),
             c # d
      PROVE  call'[d] = call[d]
  BY <1>0, <1>6 DEF Replaces, OpenWithout, Fail
<1>7. ASSUME NEW c \in Callers, NEW stage, NEW record, NEW previous, NEW t,
             Moves(c, stage, record, previous, t), c # d
      PROVE  call'[d] = call[d]
  BY <1>0, <1>7 DEF Moves, Over, Leaves, Adopts, TakesOver, Ends, Waits
<1>. HIDE DEF Known, Between
<1>. QED
  BY <1>0, <1>1, <1>3, <1>4, <1>5, <1>6, <1>7, StepIs DEF Proceeds

(* What is set apart stays so until a Turn is stored or the Host dies, and *)
(* what was left behind is left behind for good.                           *)
LEMMA ApartStays ==
  ASSUME Known, [Next]_vars
  PROVE  /\ "not moved" \in apart => "not moved" \in apart'
         /\ \/ apart \subseteq apart' \/ Crash
            \/ RunPersist /\ loaded = stored.session
<1>0. Between /\ \A c \in Callers : MatInv(c)
  BY DEF Known
<1>1. CASE RunPersist
  BY <1>1 DEF RunPersist, MayUpsert
<1>2. CASE Crash
  BY <1>2 DEF Crash
<1>3. CASE \/ UNCHANGED vars
           \/ \E t \in Turns : StartTurn(t)
           \/ RecordTurn \/ EndTurn \/ EndUnnamed
           \/ \E c \in Calls : Begin(c) \/ TakeSnapshot(c)
           \/ \E c \in Reads : Restore(c)
           \/ \E c \in Rollbacks : Replaces(c) \/ \E s \in Sessions : OpenWithout(c, s)
           \/ \E c \in Callers : Drops(c) \/ Asks(c) \/ Creates(c)
  <2>1. apart' = apart
    BY <1>3 DEF vars, StartTurn, RecordTurn, EndTurn, EndUnnamed, Begin, TakeSnapshot,
                Restore, Replaces, OpenWithout, Drops, Asks, Creates, histories
  <2>. QED  BY <2>1
<1>4. ASSUME NEW c \in Callers, NEW stage, NEW record, NEW previous, NEW t,
             Moves(c, stage, record, previous, t)
      PROVE  apart \subseteq apart'
  BY <1>4 DEF Moves, Over, Waits
<1>. HIDE DEF Known, Between
<1>. QED  BY <1>0, <1>1, <1>2, <1>3, <1>4, StepIs DEF Proceeds

(* Every step keeps the reason why the stored session is not loaded.       *)
LEMMA PartedStep ==
  ASSUME Known, [Next]_vars
  PROVE  Parted'
<1>0. /\ Types /\ Between /\ Parted /\ call \in [Callers -> CallStates]
      /\ \A c \in Callers : MatInv(c)
      /\ Calls \subseteq Callers /\ Reads \subseteq Calls /\ Rollbacks \subseteq Calls
      /\ Lives \cap Rollbacks = {}
  BY HistoryAssumption DEF Known, Between, Types, TwinInv, Callers, Calls
<1>1. ASSUME loaded' = loaded, stored'.session = stored.session, apart \subseteq apart',
             \A d \in Rollbacks : \/ call'[d].pc = call[d].pc
                                  \/ call[d].pc \notin {"noting", "retaining"}
      PROVE  Parted'
  BY <1>0, <1>1 DEF Parted
<1>2. CASE RunPersist
  <2>1. CASE stored' = stored
    <3>1. loaded' = loaded /\ apart' = apart /\ call' = call
      BY <1>2, <2>1 DEF RunPersist
    <3>. QED  BY <1>1, <2>1, <3>1
  <2>2. CASE stored' # stored
    <3>1. loaded' = loaded /\ stored.session = loaded /\ stored' = Upserted
      BY <1>2, <2>2 DEF RunPersist, MayUpsert
    <3>2. Upserted.session = stored.session
      BY <1>0 DEF Upserted, Types, Records
    <3>. QED  BY <3>1, <3>2 DEF Parted
  <2>. QED  BY <2>1, <2>2
<1>3. CASE Crash
  BY <1>3 DEF Crash, Parted
<1>4. CASE \/ UNCHANGED vars
           \/ \E t \in Turns : StartTurn(t)
           \/ RecordTurn \/ EndTurn \/ EndUnnamed
           \/ \E c \in Callers : Creates(c)
  <2>1. UNCHANGED <<loaded, stored, call, apart>>
    BY <1>4 DEF vars, StartTurn, RecordTurn, EndTurn, EndUnnamed, Creates, histories
  <2>. QED  BY <1>1, <2>1
<1>5. ASSUME NEW c \in Callers,
             \/ c \in Calls /\ (Begin(c) \/ TakeSnapshot(c))
             \/ c \in Reads /\ Restore(c)
             \/ Drops(c) \/ Asks(c)
             \/ c \in Rollbacks /\ \E s \in Sessions : OpenWithout(c, s)
      PROVE  Parted'
  <2>1. /\ UNCHANGED <<loaded, stored, apart>>
        /\ \A d \in Callers \ {c} : call'[d] = call[d]
        /\ call[c].pc \notin {"noting", "retaining"}
    BY <1>0, <1>5 DEF Begin, TakeSnapshot, Restore, Admitted, Drops, Ends, Asks, OpenWithout,
                      Fail, histories
  <2>. QED  BY <1>0, <1>1, <2>1
<1>6. ASSUME NEW c \in Rollbacks, Replaces(c) PROVE Parted'
  <2>1. call'[c].pc = "noting"
    BY <1>0, <1>6 DEF Replaces, CallStates
  <2>. QED  BY <1>6, <2>1 DEF Parted
<1>7. ASSUME NEW c \in Callers, NEW stage, NEW record, NEW previous, NEW t,
             Moves(c, stage, record, previous, t)
      PROVE  Parted'
  <2>1. /\ stored'.session = stored.session /\ apart \subseteq apart'
        /\ \A d \in Callers \ {c} : call'[d] = call[d]
    BY <1>0, <1>7 DEF Moves, Over, Leaves, Adopts, TakesOver, Ends, Waits
  <2>2. CASE c \notin Rollbacks \/ call[c].pc \notin {"noting", "retaining"}
    <3>1. stage # "retaining"
      BY <1>7, <2>2 DEF Moves, EventMove, ReadMove, RollbackMove
    <3>2. loaded' = loaded \/ loaded' = stored.session
      <4>1. \/ loaded' = loaded
            \/ call[c].restores /\ loaded' = call[c].session
        BY <1>0, <1>7, <3>1, MovesLoaded
      <4>. QED  BY <1>0, <4>1, RestoreIs
    <3>3. CASE loaded' = loaded
      BY <1>0, <1>1, <2>1, <2>2, <3>3
    <3>4. CASE loaded' = stored.session
      BY <2>1, <3>4 DEF Parted
    <3>. QED  BY <3>2, <3>3, <3>4
  <2>3. CASE c \in Rollbacks /\ call[c].pc \in {"noting", "retaining"}
    <3>1. RollbackMove(c, stage, record, previous, t)
      BY <1>0, <1>7, <2>3 DEF Moves, EventMove, ReadMove
    <3>2. stage = "retaining" /\ record.session = stored.session
      BY <3>1 DEF RollbackMove
    <3>3. CASE Over(c, stage, record)
      BY <2>1, <3>2, <3>3 DEF Over, Leaves, Adopts, TakesOver, Parted
    <3>4. CASE Waits(c, stage, record, previous, t)
      <4>1. call'[c].pc = "retaining"
        BY <1>0, <3>2, <3>4, WaitsIs
      <4>. QED  BY <2>3, <4>1 DEF Parted
    <3>. QED  BY <1>7, <3>3, <3>4 DEF Moves
  <2>. QED  BY <2>2, <2>3
<1>. HIDE DEF Known, Between
<1>. QED  BY <1>0, <1>2, <1>3, <1>4, <1>5, <1>6, <1>7, StepIs DEF Proceeds

(* What a projection that does not wait comes to, and what it has found.   *)
LEMMA ProjectSettles ==
  ASSUME NEW c \in Callers, NEW stage, NEW record, NEW previous, NEW t, NEW queue,
         Project(c, stage, record, previous, t, queue)
  PROVE  \/ /\ call' = [call EXCEPT ![c].pc = stage, ![c].base = record]
            /\ loaded' = loaded
         \/ \E ok \in BOOLEAN :
              /\ Projected(c, stage, record, ok)
              /\ ok => \/ t = None
                       \/ \E h \in Found(record.session, previous) :
                            /\ child[h].state # "creating"
                            /\ child[h].session = record.session
<1>1. CASE t = None
  BY <1>1 DEF Project
<1>2. CASE t # None
  <2>1. PICK h \in IF Found(record.session, previous) = {} THEN {None}
                   ELSE Found(record.session, previous) :
          LET step == Wanted(h, record.session, previous) IN
            IF step \in {"nothing", "error"}
            THEN /\ Projected(c, stage, record, step = "nothing")
                 /\ writes' = queue /\ mat' = [mat EXCEPT ![c] = NoWait]
            ELSE /\ mat' = [mat EXCEPT ![c] =
                      [step |-> step, home |-> h, previous |-> previous, of |-> t]]
                 /\ writes' = Append(queue, c)
                 /\ call' = [call EXCEPT ![c].pc = stage, ![c].base = record]
                 /\ UNCHANGED <<mem, loaded, fault, apart>>
    BY <1>2 DEF Project
  <2>2. CASE Wanted(h, record.session, previous) \notin {"nothing", "error"}
    BY <2>1, <2>2
  <2>3. CASE Wanted(h, record.session, previous) = "nothing"
    <3>1. /\ h # None /\ child[h].state # "creating" /\ child[h].session = record.session
      BY <2>3 DEF Wanted
    <3>2. h \in Found(record.session, previous)
      BY <2>1, <3>1
    <3>3. Projected(c, stage, record, TRUE)
      BY <2>1, <2>3
    <3>. QED  BY <3>1, <3>2, <3>3
  <2>4. CASE Wanted(h, record.session, previous) = "error"
    <3>1. Projected(c, stage, record, FALSE)
      BY <2>1, <2>4
    <3>. QED  BY <3>1
  <2>. QED  BY <2>2, <2>3, <2>4
<1>. QED  BY <1>1, <1>2

(* A projection that is over changes its caller only, and the loaded       *)
(* session in two ways.                                                    *)
LEMMA ProjectedLoads ==
  ASSUME call \in [Callers -> CallStates], NEW c \in Callers, NEW stage, NEW record,
         NEW ok \in BOOLEAN, Projected(c, stage, record, ok)
  PROVE  /\ \A d \in Callers \ {c} : call'[d] = call[d]
         /\ call'[c].pc = "opening" =>
              /\ stage = "projecting" /\ ok /\ c \in Rollbacks
              /\ call'[c].base = record /\ call'[c].session = call[c].session
         /\ \/ loaded' = loaded
            \/ stage = "projecting" /\ call[c].restores
            \/ stage = "retaining" /\ ok /\ live.turn = None
<1>1. ASSUME NEW o \in {"done", "failed"}, call' = [call EXCEPT ![c] = Ended(o)]
      PROVE  call'[c].pc # "opening" /\ \A d \in Callers \ {c} : call'[d] = call[d]
  BY <1>1 DEF Ended
<1>2. CASE stage = "event" /\ call' = [call EXCEPT ![c] = Ended("done")] /\ UNCHANGED loaded
  BY <1>1, <1>2
<1>3. CASE Fail(c)
  BY <1>1, <1>3 DEF Fail
<1>4. CASE stage = "retaining" /\ ok /\ Replaced(c, record)
  BY <1>1, <1>4 DEF Replaced
<1>5. CASE stage = "projecting" /\ ok /\ Refreshed(c, record)
  <2>1. loaded' = loaded \/ call[c].restores
    BY <1>5 DEF Refreshed
  <2>2. \/ \E o \in {"done", "failed"} : call' = [call EXCEPT ![c] = Ended(o)]
        \/ /\ c \in Rollbacks
           /\ call' = [call EXCEPT ![c] =
                [Ended("opening") EXCEPT !.session = call[c].session, !.base = record]]
    BY <1>5 DEF Refreshed
  <2>3. CASE \E o \in {"done", "failed"} : call' = [call EXCEPT ![c] = Ended(o)]
    BY <1>1, <1>5, <2>1, <2>3
  <2>4. CASE /\ c \in Rollbacks
             /\ call' = [call EXCEPT ![c] =
                  [Ended("opening") EXCEPT !.session = call[c].session, !.base = record]]
    <3>1. call'[c] = [Ended("opening") EXCEPT !.session = call[c].session, !.base = record]
      BY <2>4
    <3>2. call'[c].base = record /\ call'[c].session = call[c].session
      BY <3>1 DEF Ended
    <3>. QED  BY <1>5, <2>1, <2>4, <3>2
  <2>. QED  BY <2>2, <2>3, <2>4
<1>. QED  BY <1>2, <1>3, <1>4, <1>5 DEF Projected

(* What the mutations of a materialization come to.                        *)
LEMMA MaterializeSettles ==
  ASSUME NEW c \in Callers, Materialize(c)
  PROVE  \/ call' = call /\ loaded' = loaded
         \/ \E ok \in BOOLEAN :
              /\ Projected(c, Stage(c), Record(c), ok)
              /\ ok => \/ /\ mat[c].step = "create" /\ child' = child
                          /\ ByRequest(Record(c).session) \cap ReadyHomes # {}
                       \/ /\ mat[c].step = "commit"
                          /\ child' = Committed(mat[c].home, Record(c).session)
                       \/ /\ mat[c].step = "rebind"
                          /\ child' = Rebound(mat[c].home, Record(c).session)
<1>1. CASE RunCreate(c)
  BY <1>1 DEF RunCreate, Finished, Repeated
<1>2. CASE RunCommit(c)
  BY <1>2 DEF RunCommit, Finished
<1>3. CASE RunRebind(c)
  <2>. DEFINE may == MayRebind(mat[c].home, Record(c).session, mat[c].previous, stored.session)
  <2>1. /\ mat[c].step = "rebind" /\ Projected(c, Stage(c), Record(c), may)
        /\ child' = IF may THEN Rebound(mat[c].home, Record(c).session) ELSE child
        /\ may \in BOOLEAN
    BY <1>3 DEF RunRebind, Finished, MayRebind
  <2>. HIDE DEF may
  <2>. QED  BY <2>1
<1>4. CASE RunFails(c)
  BY <1>4 DEF RunFails, Finished
<1>. QED  BY <1>1, <1>2, <1>3, <1>4 DEF Materialize

(* Which steps open a rollback or load another session.                    *)
LEMMA WhoSettles ==
  ASSUME Known, [Next]_vars, ~Crash
  PROVE  \/ /\ loaded' = loaded
            /\ \A d \in Rollbacks : call'[d].pc = "opening" => call'[d] = call[d]
         \/ \E c \in Calls :
              \/ Align(c) \/ RunReconcile(c) \/ Materialize(c)
              \/ c \in Rollbacks /\ RunNote(c)
<1>0. /\ Types /\ call \in [Callers -> CallStates] /\ Calls \subseteq Callers
      /\ Reads \subseteq Calls /\ Rollbacks \subseteq Calls /\ Lives \subseteq Callers
      /\ Lives \cap Rollbacks = {} /\ Callers = Calls \cup Lives
  BY HistoryAssumption DEF Known, Between, Types, Callers, Calls
<1>1. CASE \/ UNCHANGED vars
           \/ \E t \in Turns : StartTurn(t)
           \/ RecordTurn \/ EndTurn \/ EndUnnamed \/ RunPersist
  <2>1. UNCHANGED <<loaded, call>>
    BY <1>1 DEF vars, StartTurn, RecordTurn, EndTurn, EndUnnamed, RunPersist
  <2>. QED  BY <2>1
<1>2. ASSUME NEW c \in Callers, loaded' = loaded,
             \A d \in Callers \ {c} : call'[d] = call[d],
             c \notin Rollbacks \/ call'[c].pc # "opening"
      PROVE  /\ loaded' = loaded
             /\ \A d \in Rollbacks : call'[d].pc = "opening" => call'[d] = call[d]
  BY <1>0, <1>2
<1>3. ASSUME NEW c \in Calls, Begin(c) \/ TakeSnapshot(c) \/ Refuse(c) \/ Restore(c)
      PROVE  /\ loaded' = loaded /\ \A d \in Callers \ {c} : call'[d] = call[d]
             /\ call'[c].pc # "opening"
  <2>1. c \in Callers /\ call[c] \in CallStates
    BY <1>0
  <2>2. CASE Begin(c)
    BY <1>0, <2>1, <2>2 DEF Begin, CallStates
  <2>3. CASE TakeSnapshot(c)
    BY <1>0, <2>1, <2>3 DEF TakeSnapshot, CallStates
  <2>4. CASE Refuse(c)
    BY <1>0, <2>1, <2>4 DEF Refuse, Fail, Ended
  <2>5. CASE Restore(c)
    BY <1>0, <2>1, <2>5 DEF Restore, Ended
  <2>. QED  BY <1>3, <2>2, <2>3, <2>4, <2>5
<1>4. ASSUME NEW c \in Rollbacks, RunReplace(c) \/ \E s \in Sessions : OpenWithout(c, s)
      PROVE  /\ loaded' = loaded /\ \A d \in Callers \ {c} : call'[d] = call[d]
             /\ call'[c].pc # "opening"
  <2>1. c \in Callers /\ call[c] \in CallStates
    BY <1>0
  <2>2. CASE Fail(c)
    BY <1>0, <2>1, <2>2 DEF Fail, Ended
  <2>3. CASE loaded' = loaded /\ call' = [call EXCEPT ![c].pc = "noting"]
    BY <1>0, <2>1, <2>3 DEF CallStates
  <2>4. ASSUME NEW s, NEW kept, loaded' = loaded,
               call' = [call EXCEPT ![c].pc = "replacing", ![c].session = s, ![c].snap = kept]
        PROVE  /\ loaded' = loaded /\ \A d \in Callers \ {c} : call'[d] = call[d]
               /\ call'[c].pc # "opening"
    BY <1>0, <2>1, <2>4 DEF CallStates
  <2>5. CASE RunReplace(c)
    BY <2>2, <2>3, <2>5 DEF RunReplace
  <2>6. CASE \E s \in Sessions : OpenWithout(c, s)
    <3>1. PICK s \in Sessions : OpenWithout(c, s)
      BY <2>6
    <3>2. \/ Fail(c)
          \/ \E kept : /\ call' = [call EXCEPT ![c].pc = "replacing", ![c].session = s,
                                             ![c].snap = kept]
                      /\ loaded' = loaded
      BY <3>1 DEF OpenWithout
    <3>. QED  BY <2>2, <2>4, <3>2
  <2>. QED  BY <1>4, <2>5, <2>6
<1>5. ASSUME NEW c \in Lives, LiveChild(c)
      PROVE  loaded' = loaded /\ \A d \in Callers \ {c} : call'[d] = call[d]
  <2>1. Project(c, "event", mem[loaded], None, live.turn, writes) /\ c \in Callers
    BY <1>0, <1>5 DEF LiveChild
  <2>2. CASE /\ call' = [call EXCEPT ![c].pc = "event", ![c].base = mem[loaded]]
             /\ loaded' = loaded
    BY <1>0, <2>2
  <2>3. CASE \E ok \in BOOLEAN : Projected(c, "event", mem[loaded], ok)
    BY <1>0, <2>1, <2>3, ProjectedLoads
  <2>. QED  BY <2>1, <2>2, <2>3, ProjectSettles
<1>6. ASSUME NEW c \in Lives, Materialize(c)
      PROVE  loaded' = loaded /\ \A d \in Callers \ {c} : call'[d] = call[d]
  <2>1. Stage(c) = "event" /\ c \in Callers
    BY <1>0, <1>6 DEF Stage
  <2>. QED  BY <1>0, <1>6, <2>1, MaterializeSettles, ProjectedLoads
<1>. HIDE DEF Known
<1>. QED
  BY <1>0, <1>1, <1>2, <1>3, <1>4, <1>5, <1>6 DEF Next, Read, Rollback

(* The mappings that alignSnapshot gives are those of the snapshot.        *)
LEMMA AlignedIs ==
  ASSUME NEW c, NEW record
  PROVE  /\ DOMAIN Aligned(c, record) = DOMAIN call[c].snap
         /\ \A i \in DOMAIN call[c].snap :
              Aligned(c, record)[i].turn = call[c].snap[i]
<1>1. ASSUME NEW i \in DOMAIN call[c].snap
      PROVE  Aligned(c, record)[i].turn = call[c].snap[i]
  <2>. DEFINE known == {m \in Elements(record.turns) : m.turn = call[c].snap[i]}
              choice == CHOOSE m \in known : TRUE
  <2>1. Aligned(c, record)[i] =
          IF known = {} THEN [turn |-> call[c].snap[i], by |-> c] ELSE choice
    BY DEF Aligned
  <2>2. CASE known = {}
    BY <2>1, <2>2
  <2>3. CASE known # {}
    <3>1. choice \in known
      BY <2>3
    <3>2. choice.turn = call[c].snap[i]
      BY <3>1
    <3>. HIDE DEF choice, known
    <3>. QED  BY <2>1, <2>3, <3>2
  <2>. QED  BY <2>2, <2>3
<1>2. DOMAIN Aligned(c, record) = DOMAIN call[c].snap
  BY DEF Aligned
<1>. QED  BY <1>1, <1>2

(* A snapshot in which none is found has no Turn with a Subagent.          *)
LEMMA SpawnedAny ==
  ASSUME NEW snap, NEW t \in Elements(snap) \cap Spawning
  PROVE  SpawnedIn(snap) # None
<1>. DEFINE found == Elements(snap) \cap Spawning
<1>1. found # {}
  OBVIOUS
<1>2. (CHOOSE u \in found : TRUE) \in Turns
  BY <1>1, HistoryAssumption
<1>3. SpawnedIn(snap) = CHOOSE u \in found : TRUE
  BY <1>1 DEF SpawnedIn
<1>. QED  BY <1>2, <1>3, SubagentsAssumption

(* A child that is found under the session that has the Turn, and needs no *)
(* change, is the child of that Turn.                                      *)
LEMMA FoundIsChild ==
  ASSUME Known, NEW s \in Sessions, NEW previous, NEW h \in Found(s, previous),
         child[h].state # "creating", child[h].session = s
  PROVE  /\ h \in Homes /\ child[h].state = "ready" /\ Names(h, s)
         /\ \A t \in Spawn(s) : IsChild(h, t)
<1>1. h \in Homes /\ Stored(h)
  BY FoundIs
<1>2. child[h].state = "ready"
  BY <1>1 DEF Known, Between, Types, Children, Stored
<1>3. h \in ByRecord(s)
  BY <1>1, <1>2 DEF ByRecord, ReadyHomes
<1>. QED  BY <1>1, <1>2, <1>3 DEF Known, ChildInv, Names, IsChild

(* When a rollback begins to open its session, the Turn with a Subagent of *)
(* its record, if any, has a child.                                        *)
LEMMA OpenedWith ==
  ASSUME Known, [Next]_vars, ~Crash, CallsInv', NEW d \in Rollbacks,
         call'[d].pc = "opening", call'[d] # call[d]
  PROVE  \A t \in TurnsOf(call'[d].base) \cap Spawning : \E h \in Homes : IsChild(h, t)'
<1>. DEFINE r == call'[d].base
            q == call'[d].session
<1>0. /\ Types /\ Types' /\ Between /\ call \in [Callers -> CallStates]
      /\ Calls \subseteq Callers /\ Rollbacks \subseteq Calls /\ d \in Callers /\ d \in Calls
      /\ child \in [Homes -> Children] /\ CallsInv
      /\ \A c \in Callers : MatInv(c) /\ WaitInv(c)
  BY DEF Known, Between, HistoryInv, TwinInv, Types, Callers, Calls
<1>1. /\ r \in Records /\ r.session = q /\ q \in Sessions
      /\ \A t \in TurnsOf(r) : t \in Elements(native'[q])
  <2>1. r \in Records
    <3>1. call' \in [Callers -> CallStates]
      BY <1>0 DEF Types
    <3>. QED  BY <1>0, <3>1 DEF CallStates
  <2>2. GoodIn(r, native', stored', crossed') /\ r.session = q
    BY <1>0 DEF CallsInv, RollbackInv, Good
  <2>. QED  BY <2>1, <2>2, TurnOf DEF GoodIn, Follows
<1>2. \/ Align(d) \/ RunReconcile(d) \/ Materialize(d)
  <2>1. PICK c \in Calls :
          \/ Align(c) \/ RunReconcile(c) \/ Materialize(c)
          \/ c \in Rollbacks /\ RunNote(c)
    BY WhoSettles
  <2>2. c \in Callers /\ \A e \in Callers \ {c} : call'[e] = call[e]
    <3>1. \A stage, record : \A ok \in BOOLEAN :
            Projected(c, stage, record, ok) => \A e \in Callers \ {c} : call'[e] = call[e]
      BY <1>0, ProjectedLoads
    <3>2. ASSUME NEW stage, NEW record, NEW previous, NEW t, NEW queue,
                 Project(c, stage, record, previous, t, queue)
          PROVE  \A e \in Callers \ {c} : call'[e] = call[e]
      <4>1. CASE call' = [call EXCEPT ![c].pc = stage, ![c].base = record]
        BY <1>0, <4>1
      <4>2. c \in Callers
        BY <1>0
      <4>. QED  BY <3>1, <3>2, <4>1, <4>2, ProjectSettles
    <3>3. CASE Align(c)
      BY <1>0, <3>2, <3>3 DEF Align, Fail
    <3>4. CASE RunReconcile(c)
      BY <1>0, <3>2, <3>4 DEF RunReconcile, Fail
    <3>5. CASE Materialize(c)
      BY <1>0, <3>1, <3>5, MaterializeSettles
    <3>6. CASE RunNote(c)
      BY <1>0, <3>2, <3>6 DEF RunNote
    <3>. QED  BY <1>0, <2>1, <3>3, <3>4, <3>5, <3>6
  <2>3. c = d
    BY <1>0, <2>2
  <2>4. ~RunNote(d)
    <3>. SUFFICES ASSUME RunNote(d) PROVE FALSE
      OBVIOUS
    <3>1. Project(d, "retaining", Retained(d), call[d].base.session,
                  SpawnedIn(call[d].snap), Popped)
      BY DEF RunNote
    <3>2. CASE call' = [call EXCEPT ![d].pc = "retaining", ![d].base = Retained(d)]
      BY <1>0, <3>2 DEF CallStates
    <3>3. CASE \E ok \in BOOLEAN : Projected(d, "retaining", Retained(d), ok)
      BY <1>0, <3>3, ProjectedLoads
    <3>. QED  BY <1>0, <3>1, <3>2, <3>3, ProjectSettles
  <2>. QED  BY <2>1, <2>3, <2>4
<1>. SUFFICES ASSUME NEW t \in TurnsOf(r) \cap Spawning
              PROVE  \E h \in Homes : IsChild(h, t)'
  OBVIOUS
<1>. HIDE DEF r, q
(* The projection found the child, or no Turn that has one.                *)
<1>3. ASSUME NEW record, NEW queue, native' = native, child' = child,
             Project(d, "projecting", record, None, SpawnedIn(call[d].snap), queue),
             r = record => TurnsOf(record) \subseteq Elements(call[d].snap)
      PROVE  \E h \in Homes : IsChild(h, t)'
  <2>. DEFINE u == SpawnedIn(call[d].snap)
  <2>1. ~(call' = [call EXCEPT ![d].pc = "projecting", ![d].base = record])
    BY <1>0 DEF CallStates
  <2>2. PICK ok \in BOOLEAN :
          /\ Projected(d, "projecting", record, ok)
          /\ ok => \/ u = None
                   \/ \E h \in Found(record.session, None) :
                        /\ child[h].state # "creating"
                        /\ child[h].session = record.session
    BY <1>0, <1>3, <2>1, ProjectSettles
  <2>3. ok /\ r = record
    BY <1>0, <2>2, ProjectedLoads DEF r
  <2>4. u # None
    <3>1. t \in Elements(call[d].snap) \cap Spawning
      BY <1>3, <2>3
    <3>. QED  BY <3>1, SpawnedAny
  <2>. HIDE DEF u
  <2>5. PICK h \in Found(q, None) : child[h].state # "creating" /\ child[h].session = q
    BY <1>1, <2>2, <2>3, <2>4
  <2>6. t \in Spawn(q)
    BY <1>1, <1>3 DEF Spawn
  <2>7. h \in Homes /\ IsChild(h, t)
    BY <1>1, <2>5, <2>6, FoundIsChild
  <2>. QED  BY <1>3, <2>7 DEF IsChild
<1>4. CASE Align(d)
  <2>. DEFINE record == IF call[d].restores THEN call[d].base ELSE mem[call[d].session]
              turns == Aligned(d, record)
  <2>1. /\ native' = native /\ child' = child
        /\ \/ Fail(d)
           \/ /\ turns = record.turns
              /\ Project(d, "projecting", record, None, SpawnedIn(call[d].snap), writes)
           \/ call' = [call EXCEPT ![d].pc = "aligning",
                                   ![d].base = [record EXCEPT !.turns = turns]]
    BY <1>4 DEF Align
  <2>2. ~Fail(d)
    BY <1>0 DEF Fail, Ended
  <2>3. ~(call' = [call EXCEPT ![d].pc = "aligning",
                               ![d].base = [record EXCEPT !.turns = turns]])
    BY <1>0 DEF CallStates
  <2>. HIDE DEF record
  <2>4. turns = record.turns => TurnsOf(record) \subseteq Elements(call[d].snap)
    BY AlignedIs DEF TurnsOf
  <2>. HIDE DEF turns
  <2>. QED  BY <1>3, <2>1, <2>2, <2>3, <2>4
<1>5. CASE RunReconcile(d)
  <2>. DEFINE turns == call[d].base.turns
  <2>1. /\ native' = native /\ child' = child /\ At(d, "aligning")
        /\ \/ Fail(d)
           \/ /\ stored' = Reconciled(turns)
              /\ Project(d, "projecting", stored', None, SpawnedIn(call[d].snap), Popped)
    BY <1>5 DEF RunReconcile
  <2>2. ~Fail(d)
    BY <1>0 DEF Fail, Ended
  <2>3. /\ turns \in Seq(Mappings) /\ call[d].snap \in Seq(Turns)
        /\ Len(turns) = Len(call[d].snap)
        /\ \A i \in DOMAIN call[d].snap : turns[i].turn = call[d].snap[i]
    <3>1. ReadInv(d) /\ call[d].base \in Records /\ call[d].snap \in Seq(Turns)
      BY <1>0, CallHas DEF CallsInv
    <3>. QED  BY <2>1, <3>1, RecordHas DEF ReadInv
  <2>4. Reconciled(turns).turns = turns
    BY <1>0 DEF Reconciled, Types, Records
  <2>. HIDE DEF turns
  <2>5. DOMAIN turns = DOMAIN call[d].snap
    BY <2>3
  <2>6. TurnsOf(stored') \subseteq Elements(call[d].snap)
    BY <2>1, <2>2, <2>3, <2>4, <2>5 DEF TurnsOf
  <2>. QED  BY <1>3, <2>1, <2>2, <2>6
<1>6. CASE Materialize(d)
  <2>1. PICK ok \in BOOLEAN :
          /\ Projected(d, Stage(d), Record(d), ok)
          /\ ok => \/ /\ mat[d].step = "create" /\ child' = child
                      /\ ByRequest(Record(d).session) \cap ReadyHomes # {}
                   \/ /\ mat[d].step = "commit"
                      /\ child' = Committed(mat[d].home, Record(d).session)
                   \/ /\ mat[d].step = "rebind"
                      /\ child' = Rebound(mat[d].home, Record(d).session)
    BY <1>0, <1>6, MaterializeSettles
  <2>2. ok /\ r = call[d].base /\ Stage(d) = "projecting"
    BY <1>0, <2>1, ProjectedLoads DEF r, Record
  <2>3. call[d].pc = "projecting" /\ native' = native
    <3>1. d \notin Lives
      BY <1>0, HistoryAssumption
    <3>. QED
      BY <1>6, <2>2, <3>1 DEF Stage, Materialize, RunCreate, RunCommit, RunRebind, RunFails
  <2>4. t \in Spawn(q) /\ call[d].base.session = q
    BY <1>1, <2>2, <2>3 DEF Spawn
  <2>5. mat[d].step # "rebind"
    BY <1>0, <2>3 DEF WaitInv
  <2>6. CASE child' = child /\ ByRequest(q) \cap ReadyHomes # {}
    <3>1. PICK h \in ByRequest(q) : h \in ReadyHomes
      BY <2>6
    <3>2. h \in Homes /\ child[h].state = "ready" /\ child[h].of = t
      BY <1>1, <2>4, <3>1 DEF Known, ChildInv, ByRequest, ReadyHomes
    <3>. QED  BY <2>6, <3>2 DEF IsChild
  <2>7. CASE mat[d].step = "commit" /\ child' = Committed(mat[d].home, q)
    <3>. DEFINE h == mat[d].home
    <3>1. h \in Homes /\ child[h].of = t
      BY <1>0, <1>1, <2>4, <2>7 DEF MatInv
    <3>2. child[h] \in Children
      BY <1>0, <3>1
    <3>3. child'[h] = [child[h] EXCEPT !.state = "ready", !.session = q]
      BY <1>0, <2>7, <3>1 DEF Committed
    <3>4. child'[h].state = "ready" /\ child'[h].of = t
      BY <3>1, <3>2, <3>3 DEF Children
    <3>. QED  BY <3>1, <3>4 DEF IsChild
  <2>. QED  BY <2>1, <2>2, <2>4, <2>5, <2>6, <2>7 DEF Record
<1>. QED  BY <1>2, <1>4, <1>5, <1>6

(* After a crash nobody is busy and nobody waits.                          *)
LEMMA CrashEnds ==
  ASSUME Types, Crash, NEW d \in Callers
  PROVE  ~Busy(d)' /\ mat'[d].step = "nothing"
<1>1. call'[d] = IF Busy(d) THEN Ended("failed") ELSE call[d]
  BY DEF Crash
<1>2. mat'[d] = NoWait
  BY DEF Crash
<1>. QED  BY <1>1, <1>2 DEF Busy, Ended, NoWait

(* Where a move leads its caller.                                          *)
LEMMA MovedTo ==
  ASSUME Types, NEW c \in Callers, NEW stage, NEW record, NEW previous, NEW t,
         Moves(c, stage, record, previous, t)
  PROVE  \/ call'[c].pc \in {"done", "failed", "opening"}
         \/ Waits(c, stage, record, previous, t) /\ call'[c].pc = stage
            /\ stage \in {"event", "projecting", "retaining"}
<1>0. call \in [Callers -> CallStates]
  BY DEF Types
<1>1. CASE Waits(c, stage, record, previous, t)
  BY <1>1, WaitsIs DEF Moves, EventMove, ReadMove, RollbackMove
<1>2. CASE Ends(c)
  BY <1>2, EndsIs
<1>3. CASE call' = [call EXCEPT ![c] =
             [Ended("opening") EXCEPT !.session = call[c].session, !.base = record]]
  BY <1>0, <1>3 DEF Ended
<1>. QED  BY <1>1, <1>2, <1>3 DEF Moves, Over, Leaves, Adopts, TakesOver

(* Every step keeps the child of the Turn that a rollback keeps.           *)
LEMMA OpeningStep ==
  ASSUME Known, [Next]_vars, CallsInv', NEW d \in Rollbacks
  PROVE  OpeningInv(d)'
<1>0. /\ Types /\ call \in [Callers -> CallStates] /\ d \in Callers /\ OpeningInv(d)
  BY DEF Known, Between, TwinInv, Types, Callers, Calls
<1>. SUFFICES ASSUME call'[d].pc \in {"opening", "replacing"},
                     NEW t \in TurnsOf(call'[d].base) \cap Spawning
              PROVE  \E h \in Homes : IsChild(h, t)'
  BY DEF OpeningInv
<1>1. ~Crash
  BY <1>0, CrashEnds DEF Busy
<1>2. ASSUME call[d].pc \in {"opening", "replacing"}, call'[d].base = call[d].base
      PROVE  \E h \in Homes : IsChild(h, t)'
  <2>1. PICK h \in Homes : IsChild(h, t)
    BY <1>0, <1>2 DEF OpeningInv
  <2>2. Stored(h)
    BY <2>1 DEF IsChild, Stored
  <2>. QED  BY <1>1, <2>1, <2>2, ChildStays DEF IsChild
<1>3. CASE call'[d] = call[d]
  BY <1>2, <1>3
<1>4. CASE Replaces(d)
  BY <1>0, <1>4 DEF Replaces, CallStates
<1>5. ASSUME NEW s \in Sessions, OpenWithout(d, s)
      PROVE  \E h \in Homes : IsChild(h, t)'
  <2>1. ~Fail(d)
    BY <1>0 DEF Fail, Ended
  <2>2. PICK kept : call' = [call EXCEPT ![d].pc = "replacing", ![d].session = s,
                                         ![d].snap = kept]
    BY <1>5, <2>1 DEF OpenWithout
  <2>3. call'[d].base = call[d].base
    BY <1>0, <2>2 DEF CallStates
  <2>4. call[d].pc = "opening"
    BY <1>5 DEF OpenWithout
  <2>. QED  BY <1>2, <2>3, <2>4
<1>6. ASSUME NEW stage, NEW record, NEW previous, NEW u,
             Moves(d, stage, record, previous, u), call'[d] # call[d]
      PROVE  \E h \in Homes : IsChild(h, t)'
  <2>1. call'[d].pc = "opening"
    BY <1>0, <1>6, MovedTo
  <2>. HIDE DEF Known
  <2>. QED  BY <1>1, <1>6, <2>1, OpenedWith
<1>. HIDE DEF Known
<1>. QED  BY <1>3, <1>4, <1>5, <1>6, RollbackSteps

(* Every step keeps the new session of a rollback unasked about.           *)
LEMMA UntouchedStep ==
  ASSUME Known, [Next]_vars, NEW d \in Rollbacks
  PROVE  Untouched(d)'
<1>0. /\ Types /\ Types' /\ Between /\ call \in [Callers -> CallStates]
      /\ call' \in [Callers -> CallStates] /\ mat \in [Callers -> Awaited]
      /\ Calls \subseteq Callers /\ Rollbacks \subseteq Calls /\ d \in Callers /\ d \in Calls
      /\ ChildInv /\ TurnsInv /\ MemInv /\ Orderly /\ CallsInv /\ Untouched(d)
      /\ \A c \in Callers : MatInv(c)
      /\ Reads \cap Rollbacks = {} /\ None \notin Sessions
  BY HistoryAssumption, SubagentsAssumption
     DEF Known, Between, HistoryInv, TwinInv, Types, Callers, Calls
<1>. SUFFICES ASSUME call'[d].pc \in {"replacing", "noting"},
                     Elements(call'[d].snap) \cap Spawning # {}
              PROVE  /\ \A h \in Homes : ~Names(h, call[d].session)'
                     /\ \A e \in Callers : mat'[e].step # "nothing" =>
                          call'[e].base.session # call'[d].session
  BY DEF Untouched
<1>1. ~Crash
  BY <1>0, CrashEnds DEF Busy
<1>2. ASSUME call[d].pc \in {"replacing", "noting"}, call'[d].session = call[d].session,
             call'[d].snap = call[d].snap
      PROVE  /\ \A h \in Homes : ~Names(h, call[d].session)'
             /\ \A e \in Callers : mat'[e].step # "nothing" =>
                  call'[e].base.session # call'[d].session
  <2>0. PICK s \in Sessions : s = call[d].session
    BY <1>0, <1>2 DEF CallsInv, RollbackInv
  <2>1. /\ \A h \in Homes : ~Names(h, s)
        /\ \A e \in Callers : mat[e].step # "nothing" => call[e].base.session # s
    BY <1>0, <1>2, <2>0 DEF Untouched
  <2>2. /\ s \in Sessions /\ native[s] = call[d].snap /\ mem[s] = NoRecord
        /\ call[d].base.session = loaded
        /\ Elements(call[d].snap) \subseteq Elements(native[loaded])
    BY <1>0, <1>2, <2>0 DEF CallsInv, RollbackInv
  <2>3. Busy(d) /\ ~call[d].restores
    BY <1>0, <1>2 DEF Busy, Orderly
  <2>4. loaded \in Sessions /\ loaded # None
    BY <1>0, <2>3, BusyIs
  <2>5. loaded # s
    BY <1>0, <2>2, <2>4 DEF MemInv
  <2>. HIDE DEF Known
  <2>6. \A h \in Homes : ~Names(h, s)'
    BY <2>1, <2>2, NamesAsked
  <2>7. ASSUME NEW e \in Callers, mat'[e].step # "nothing", call'[e].base.session = s
        PROVE  FALSE
    <3>1. CASE mat'[e] = mat[e] /\ call'[e] = call[e]
      BY <2>1, <2>7, <3>1
    <3>2. CASE Creates(e) /\ call'[e] = call[e]
      <4>1. mat[e].step # "nothing"
        BY <3>2 DEF Creates
      <4>. QED  BY <2>1, <2>7, <3>2, <4>1
    <3>3. ASSUME NEW stage, NEW record, NEW previous, NEW t,
                 Moves(e, stage, record, previous, t), Waits(e, stage, record, previous, t)
          PROVE  FALSE
      <4>1. /\ call'[e].base = record /\ call'[e].pc = stage /\ t \in Spawning
            /\ \/ /\ stage = "event" /\ t = live.turn
                  /\ record.session \in {loaded, stored.session}
               \/ /\ stage = "projecting" /\ e \in Calls
                  /\ call[e].pc \in {"taken", "aligning", "projecting"}
                  /\ record.session = call[e].session
               \/ /\ stage = "retaining" /\ e \in Rollbacks /\ At(e, "noting")
                  /\ record.session = call[e].session
        BY <3>3, WaitsWith
      <4>2. CASE t = live.turn /\ record.session \in {loaded, stored.session}
        <5>1. PICK u : u \in Elements(call[d].snap) \cap Spawning
          BY <1>2
        <5>2. u \in Elements(native[s]) /\ u \in Spawn(loaded)
          BY <2>2, <2>4, <5>1 DEF Spawn
        <5>3. live.turn \in Spawn(loaded)
          BY <4>1, <4>2, <2>4 DEF Spawn
        <5>4. u = live.turn
          BY <1>0, <2>4, <5>2, <5>3 DEF ChildInv
        <5>. QED  BY <1>0, <2>2, <2>5, <5>2, <5>4 DEF TurnsInv
      <4>3. CASE /\ e \in Calls /\ call[e].pc \in {"taken", "aligning", "projecting"}
                 /\ record.session = call[e].session
        <5>1. call[e].session = s
          BY <2>7, <4>1, <4>3
        <5>2. ~call[e].restores
          BY <1>0, <2>4, RestoreIs
        <5>. QED  BY <1>0, <2>2, <4>3, <5>1, <5>2 DEF CallsInv, ReadInv
      <4>4. CASE stage = "retaining" /\ e \in Rollbacks /\ At(e, "noting")
        <5>1. e # d
          BY <4>1, <4>4
        <5>2. Busy(e) /\ e \in Calls
          BY <1>0, <4>4 DEF Busy
        <5>. QED  BY <1>0, <2>3, <4>4, <5>1, <5>2, RollbackAlone
      <4>. QED  BY <4>1, <4>2, <4>3, <4>4
    <3>. QED  BY <2>7, <3>1, <3>2, <3>3, WaitStepIs
  <2>8. \A h \in Homes : ~Names(h, call[d].session)'
    BY <1>2, <2>0, <2>6 DEF Names, ByRequest, ByRecord, ReadyHomes, Stored
  <2>. QED  BY <1>2, <2>0, <2>7, <2>8
<1>3. CASE call'[d] = call[d] /\ ~Crash
  BY <1>2, <1>3
<1>4. CASE Replaces(d)
  <2>1. /\ call[d].pc = "replacing"
        /\ call'[d].session = call[d].session /\ call'[d].snap = call[d].snap
    BY <1>0, <1>4 DEF Replaces, CallStates
  <2>. QED  BY <1>2, <2>1
<1>5. ASSUME NEW s \in Sessions, OpenWithout(d, s)
      PROVE  /\ \A h \in Homes : ~Names(h, call[d].session)'
             /\ \A e \in Callers : mat'[e].step # "nothing" =>
                  call'[e].base.session # call'[d].session
  <2>1. ~Fail(d)
    BY <1>0 DEF Fail, Ended
  <2>2. PICK kept : call' = [call EXCEPT ![d].pc = "replacing", ![d].session = s,
                                         ![d].snap = kept]
    BY <1>5, <2>1 DEF OpenWithout
  <2>3. call'[d].session = s
    BY <1>0, <2>2 DEF CallStates
  <2>4. native[s] = <<>> /\ s # stored.session /\ call[d].pc = "opening"
        /\ child' = child /\ mat' = mat
    BY <1>5 DEF OpenWithout
  <2>5. \A h \in Homes : ~Names(h, s)
    BY <1>0, <2>4 DEF ChildInv, Names
  <2>6. \A h \in Homes : ~Names(h, s)'
    BY <2>4, <2>5 DEF Names, ByRequest, ByRecord, ReadyHomes, Stored
  <2>7. \A e \in Callers : mat[e].step # "nothing" => call[e].base.session # s
    BY <1>0, <2>4 DEF MatInv
  <2>8. mat[d].step = "nothing"
    BY <1>0, <2>4, NotWaiting
  <2>9. \A e \in Callers \ {d} : call'[e] = call[e]
    BY <1>0, <2>2
  <2>. HIDE DEF Known
  <2>10. \A e \in Callers : mat'[e].step # "nothing" => call'[e].base.session # s
    BY <2>4, <2>7, <2>8, <2>9
  <2>11. \A h \in Homes : ~Names(h, call[d].session)'
    BY <2>3, <2>6 DEF Names, ByRequest, ByRecord, ReadyHomes, Stored
  <2>. QED  BY <2>3, <2>10, <2>11
<1>6. ASSUME NEW stage, NEW record, NEW previous, NEW u, Moves(d, stage, record, previous, u)
      PROVE  FALSE
  BY <1>0, <1>6, MovedTo
<1>. HIDE DEF Known
<1>. QED  BY <1>3, <1>4, <1>5, <1>6, RollbackSteps

(* A lookup for a rollback that finds no child of the new session finds the*)
(* one whose request was of the old one.                                   *)
LEMMA FoundSecond ==
  ASSUME NEW s, NEW previous, previous # None, ByRequest(s) = {}, ByRequest(previous) # {}
  PROVE  Found(s, previous) = ByRequest(previous)
<1>. DEFINE former == IF previous = None THEN {} ELSE {previous}
            lookups == <<ByRequest(s), UNION {ByRequest(p) : p \in former},
                         ByRecord(s), UNION {ByRecord(p) : p \in former}>>
            first(i) == lookups[i] # {} /\ \A j \in 1 .. i - 1 : lookups[j] = {}
<1>1. former = {previous}
  OBVIOUS
<1>2. UNION {ByRequest(p) : p \in former} = ByRequest(previous)
  BY <1>1
<1>3. lookups[1] = {} /\ lookups[2] = ByRequest(previous)
  BY <1>2
<1>4. Found(s, previous) =
        IF \A i \in 1 .. 4 : lookups[i] = {} THEN {}
        ELSE lookups[CHOOSE i \in 1 .. 4 : first(i)]
  BY DEF Found
<1>. HIDE DEF lookups
<1>5. \A i \in 1 .. 4 : first(i) <=> i = 2
  <2>1. first(2)
    <3>1. \A j \in 1 .. 2 - 1 : j = 1
      OBVIOUS
    <3>. QED  BY <1>3, <3>1
  <2>2. \A i \in 1 .. 4 : first(i) => i = 2
    <3>. SUFFICES ASSUME NEW i \in 1 .. 4, first(i) PROVE i = 2
      OBVIOUS
    <3>1. i # 1
      BY <1>3
    <3>2. ~(i > 2)
      <4>. SUFFICES ASSUME i > 2 PROVE FALSE
        OBVIOUS
      <4>1. 2 \in 1 .. i - 1
        OBVIOUS
      <4>. QED  BY <1>3, <4>1
    <3>. QED  BY <3>1, <3>2
  <2>. QED  BY <2>1, <2>2
<1>. HIDE DEF first
<1>6. (CHOOSE i \in 1 .. 4 : first(i)) = 2
  <2>1. 2 \in 1 .. 4
    OBVIOUS
  <2>. QED  BY <1>5, <2>1
<1>7. ~\A i \in 1 .. 4 : lookups[i] = {}
  <2>1. 2 \in 1 .. 4
    OBVIOUS
  <2>. QED  BY <1>3, <2>1
<1>. QED  BY <1>3, <1>4, <1>6, <1>7

(* While a rollback waits for its child to be moved, it waits for nothing  *)
(* else.                                                                   *)
LEMMA RetainingWaits ==
  ASSUME Known, [Next]_vars, NEW d \in Rollbacks, At(d, "retaining"), call'[d] = call[d],
         mat[d].step = "rebind"
  PROVE  mat'[d].step = "rebind"
<1>0. /\ Types /\ Between /\ mat \in [Callers -> Awaited] /\ Busy(d)
      /\ \A c \in Callers : MatInv(c)
      /\ Calls \subseteq Callers /\ d \in Callers
  BY DEF Known, Between, Types, Callers, Calls, Busy
<1>1. ~Crash
  BY <1>0, CrashEnds DEF Busy
<1>2. CASE UNCHANGED mat
  BY <1>2
<1>3. CASE \/ UNCHANGED vars
           \/ \E t \in Turns : StartTurn(t)
           \/ RecordTurn \/ EndTurn \/ EndUnnamed \/ RunPersist
           \/ \E c \in Calls : Begin(c) \/ TakeSnapshot(c)
           \/ \E c \in Reads : Restore(c)
           \/ \E c \in Rollbacks : Replaces(c) \/ \E s \in Sessions : OpenWithout(c, s)
           \/ \E c \in Callers : Drops(c) \/ Asks(c)
  <2>1. UNCHANGED mat
    BY <1>3 DEF vars, StartTurn, RecordTurn, EndTurn, EndUnnamed, RunPersist, Begin,
                TakeSnapshot, Restore, Replaces, OpenWithout, Drops, Asks
  <2>. QED  BY <2>1
<1>4. ASSUME NEW c \in Callers, Creates(c) PROVE mat'[d] = mat[d]
  BY <1>0, <1>4 DEF Creates
<1>5. ASSUME NEW c \in Callers, NEW stage, NEW record, NEW previous, NEW t,
             Moves(c, stage, record, previous, t)
      PROVE  mat'[d] = mat[d]
  <2>1. CASE c # d
    BY <1>0, <1>5, <2>1 DEF Moves, Over, Waits
  <2>2. CASE c = d
    <3>1. Waits(d, stage, record, previous, t) /\ stage = "retaining"
      BY <1>0, <1>5, <2>2, MovedTo
    <3>2. RollbackMove(d, stage, record, previous, t)
      BY <1>5, <2>2, <3>1 DEF Moves, EventMove, ReadMove
    <3>3. ~Over(d, stage, record)
      BY <1>0, <3>1, WaitsIs
    <3>. QED  BY <3>2, <3>3 DEF RollbackMove
  <2>. QED  BY <2>1, <2>2
<1>. HIDE DEF Known, Between
<1>. QED  BY <1>0, <1>1, <1>3, <1>4, <1>5, StepIs DEF Proceeds

(* A rollback that finds a child for its new session finds the one that is *)
(* to be moved.                                                            *)
LEMMA NotedFinds ==
  ASSUME Known, NEW d \in Rollbacks, At(d, "noting"), NotingInv(d),
         Elements(call[d].snap) \cap Spawning # {}
  PROVE  LET s == call[d].session
             r == call[d].base.session
         IN  /\ Found(s, r) # {}
             /\ \A h \in Found(s, r) : Wanted(h, s, r) = "rebind"
<1>. DEFINE s == call[d].session
            r == call[d].base.session
<1>0. /\ Types /\ Orderly /\ CallsInv /\ Untouched(d) /\ RequestsInv /\ MemInv
      /\ d \in Callers /\ d \in Calls /\ None \notin Sessions /\ None \notin Homes
      /\ loaded \in Sessions \cup {None} /\ Reads \cap Rollbacks = {}
  BY HistoryAssumption, SubagentsAssumption
     DEF Known, Between, HistoryInv, TwinInv, Types, Callers, Calls
<1>1. loaded # None
  BY <1>0 DEF Orderly, Busy
<1>2. r \in Sessions /\ s \in Sessions
  BY <1>0, <1>1 DEF CallsInv, RollbackInv
<1>3. \A h \in Homes : ~Names(h, s)
  BY <1>0 DEF Untouched
<1>4. PICK t : t \in Elements(call[d].snap) \cap Spawning
  OBVIOUS
<1>5. PICK g \in Homes : IsChild(g, t) /\ child[g].request = r
  BY <1>4 DEF NotingInv
<1>. HIDE DEF s, r
<1>6. /\ g \in ByRequest(r) /\ child[g].state = "ready"
      /\ \A h \in ByRequest(r) : h = g
  BY <1>0, <1>5 DEF IsChild, ByRequest, Stored, RequestsInv
<1>7. ByRequest(s) = {} /\ child[g].session # s
  BY <1>3, <1>5, <1>6 DEF Names, ByRequest, ByRecord, ReadyHomes
<1>8. Found(s, r) = ByRequest(r)
  <2>1. r # None
    BY <1>0, <1>2
  <2>. QED  BY <1>6, <1>7, <2>1, FoundSecond
<1>9. Wanted(g, s, r) = "rebind"
  <2>1. g # None /\ r # None
    BY <1>0, <1>2
  <2>. QED  BY <1>6, <1>7, <2>1 DEF Wanted
<1>. QED  BY <1>6, <1>8, <1>9 DEF s, r

(* Until the children are left behind, every step keeps the child of a     *)
(* rollback where it is to be found.                                       *)
LEMMA NotingStep ==
  ASSUME Known, [Next]_vars, OneChild, NEW d \in Rollbacks, NotingInv(d)
  PROVE  NotingInv(d)'
<1>0. /\ Types /\ Types' /\ Between /\ call \in [Callers -> CallStates]
      /\ call' \in [Callers -> CallStates]
      /\ Calls \subseteq Callers /\ Rollbacks \subseteq Calls /\ d \in Callers /\ d \in Calls
      /\ CallsInv /\ OpeningInv(d) /\ None \notin Sessions
      /\ Reads \cap Rollbacks = {}
  BY HistoryAssumption, SubagentsAssumption
     DEF Known, Between, HistoryInv, TwinInv, Types, Callers, Calls
<1>1. NotingInv(d) /\ OneChild
  OBVIOUS
<1>2. SUFFICES ASSUME call'[d].pc \in {"noting", "retaining"} PROVE NotingInv(d)'
  BY DEF NotingInv
<1>3. ~Crash
  BY <1>0, <1>2, CrashEnds DEF Busy
<1>4. CASE call'[d] = call[d]
  <2>1. CASE At(d, "noting")
    <3>. SUFFICES ASSUME NEW t \in Elements(call[d].snap) \cap Spawning
                  PROVE  \E h \in Homes : IsChild(h, t)'
                                          /\ child'[h].request = call[d].base.session
      BY <1>4, <2>1 DEF NotingInv
    <3>1. PICK h \in Homes : IsChild(h, t) /\ child[h].request = call[d].base.session
      BY <1>1, <2>1 DEF NotingInv
    <3>2. Stored(h)
      BY <3>1 DEF Stored, IsChild
    <3>3. \A c \in Callers : mat[c].step # "rebind"
      <4>. SUFFICES ASSUME NEW c \in Callers, mat[c].step = "rebind" PROVE FALSE
        OBVIOUS
      <4>1. c \in Rollbacks /\ c \in Calls /\ At(c, "retaining") /\ Busy(c)
        BY RebindsAre
      <4>2. Busy(d) /\ c # d
        BY <2>1, <4>1 DEF Busy
      <4>. HIDE DEF Known
      <4>. QED  BY <1>0, <4>1, <4>2, RollbackAlone
    <3>. HIDE DEF Known
    <3>. QED  BY <1>3, <3>1, <3>2, <3>3, ChildStays DEF IsChild
  <2>2. CASE At(d, "retaining")
    <3>1. mat'[d].step = "rebind"
      BY <1>1, <1>4, <2>2, RetainingWaits DEF NotingInv
    <3>. QED  BY <1>4, <2>2, <3>1 DEF NotingInv
  <2>. QED  BY <1>2, <1>4, <2>1, <2>2
<1>5. CASE Replaces(d)
  <2>1. /\ call'[d] = [call[d] EXCEPT !.pc = "noting"] /\ call[d].pc = "replacing"
        /\ stored.session = call[d].base.session /\ child' = child
    BY <1>0, <1>5 DEF Replaces, MayReplace
  <2>2. /\ call'[d].pc = "noting" /\ call'[d].snap = call[d].snap
        /\ call'[d].base = call[d].base
    BY <1>0, <2>1 DEF CallStates
  <2>3. /\ call[d].base.session = loaded /\ Shorter(d)
        /\ Elements(call[d].snap) \subseteq Elements(native[loaded])
    BY <1>0, <2>1 DEF CallsInv, RollbackInv
  <2>. SUFFICES ASSUME NEW t \in Elements(call[d].snap) \cap Spawning
                PROVE  \E h \in Homes : IsChild(h, t) /\ child[h].request = call[d].base.session
    <3>. HIDE DEF Elements
    <3>1. \A h, t : IsChild(h, t)' <=> IsChild(h, t)
      BY <2>1 DEF IsChild
    <3>2. call'[d].base.session = call[d].base.session /\ call'[d].pc # "retaining"
      BY <2>2
    <3>. QED  BY <2>1, <2>2, <3>1, <3>2 DEF NotingInv
  <2>4. t \in TurnsOf(call[d].base)
    <3>1. call[d].base.turns \in Seq(Mappings) /\ call[d].snap \in Seq(Turns)
      BY <1>0, CallHas, RecordHas
    <3>2. PICK i \in DOMAIN call[d].snap : t = call[d].snap[i]
      OBVIOUS
    <3>3. /\ Len(call[d].base.turns) = Len(call[d].snap) + 1
          /\ call[d].base.turns[i].turn = t
      BY <2>3, <3>2 DEF Shorter
    <3>4. i \in DOMAIN call[d].base.turns
      BY <3>1, <3>2, <3>3
    <3>. QED  BY <3>3, <3>4 DEF TurnsOf
  <2>5. PICK h \in Homes : IsChild(h, t)
    BY <1>0, <2>1, <2>4 DEF OpeningInv
  <2>6. loaded = stored.session /\ t \in Spawn(stored.session)
    <3>1. t \in Elements(native[loaded]) \cap Spawning
      BY <2>3
    <3>. HIDE DEF Elements
    <3>. QED  BY <2>1, <2>3, <3>1 DEF Spawn
  <2>7. Fresh(t) \/ Adopted(t)
    <3>. HIDE DEF Elements
    <3>. QED  BY <1>1, <2>6 DEF OneChild
  <2>8. CASE Fresh(t)
    BY <2>1, <2>5, <2>8 DEF Fresh, IsChild, Stored
  <2>9. CASE Adopted(t)
    BY <2>1, <2>9 DEF Adopted
  <2>. QED  BY <2>7, <2>8, <2>9
<1>6. ASSUME NEW s \in Sessions, OpenWithout(d, s)
      PROVE  FALSE
  <2>1. ~Fail(d)
    <3>. SUFFICES ASSUME Fail(d) PROVE FALSE
      OBVIOUS
    <3>1. call'[d] = Ended("failed")
      BY <1>0 DEF Fail
    <3>2. call'[d].pc = "failed"
      BY <3>1 DEF Ended
    <3>. QED  BY <1>2, <3>2
  <2>2. PICK kept : call' = [call EXCEPT ![d].pc = "replacing", ![d].session = s,
                                         ![d].snap = kept]
    BY <1>6, <2>1 DEF OpenWithout
  <2>. QED  BY <1>0, <1>2, <2>2 DEF CallStates
<1>7. ASSUME NEW stage, NEW record, NEW previous, NEW t,
             Moves(d, stage, record, previous, t)
      PROVE  NotingInv(d)'
  <2>1. /\ Waits(d, stage, record, previous, t)
        /\ call'[d].pc = "retaining" /\ stage = "retaining"
    BY <1>0, <1>2, <1>7, MovedTo
  <2>2. /\ mat'[d].step = Wanted(mat'[d].home, record.session, previous)
        /\ mat'[d].home = None => Found(record.session, previous) = {}
        /\ mat'[d].step # "create" => mat'[d].home \in Found(record.session, previous)
        /\ t \in Spawning
        /\ \/ stage = "event" \/ stage = "projecting"
           \/ /\ At(d, "noting") /\ previous = call[d].base.session
              /\ record.session = call[d].session /\ t \in Elements(call[d].snap)
    <3>. HIDE DEF Elements, At, Known
    <3>. QED  BY <1>0, <1>7, <2>1, WaitsWith
  <2>3. /\ At(d, "noting") /\ Elements(call[d].snap) \cap Spawning # {}
        /\ previous = call[d].base.session /\ record.session = call[d].session
    BY <2>1, <2>2
  <2>4. /\ Found(record.session, previous) # {}
        /\ \A h \in Found(record.session, previous) :
             Wanted(h, record.session, previous) = "rebind"
    <3>. HIDE DEF Known
    <3>. QED  BY <1>1, <2>3, NotedFinds
  <2>5. mat'[d].step = "rebind"
    <3>1. mat'[d].home # None
      BY <2>2, <2>4
    <3>2. mat'[d].step # "create"
      BY <2>2, <3>1 DEF Wanted
    <3>. QED  BY <2>2, <2>4, <3>2
  <2>. QED  BY <2>1, <2>5 DEF NotingInv
<1>. HIDE DEF Known
<1>. QED  BY <1>2, <1>4, <1>5, <1>6, <1>7, RollbackSteps

-----------------------------------------------------------------------------
(* One child.                                                              *)

(* A rollback takes over when no Turn of its session has a Subagent, or    *)
(* when its child has been moved there.                                    *)
LEMMA TakenOver ==
  ASSUME Known, [Next]_vars, ~Crash, loaded' # loaded, loaded # None,
         \A d \in Rollbacks : NotingInv(d)
  PROVE  /\ stored' = stored /\ native' = native /\ live'.turn = None
         /\ \A t \in Elements(native[stored.session]) \cap Spawning : Adopted(t)'
<1>0. /\ Types /\ Between /\ call \in [Callers -> CallStates] /\ CallsInv
      /\ Calls \subseteq Callers /\ Rollbacks \subseteq Calls
      /\ Lives \cap Calls = {} /\ child \in [Homes -> Children]
      /\ \A c \in Callers : MatInv(c)
  BY HistoryAssumption DEF Known, Between, HistoryInv, Types, Callers, Calls
<1>1. PICK c \in Calls :
        \/ Align(c) \/ RunReconcile(c) \/ Materialize(c)
        \/ c \in Rollbacks /\ RunNote(c)
  BY WhoSettles
<1>2. c \in Callers /\ ~call[c].restores
  BY <1>0, RestoreIs
<1>3. ASSUME NEW record, NEW previous, NEW t, NEW queue,
             Project(c, "projecting", record, previous, t, queue)
      PROVE  FALSE
  <2>1. \A ok \in BOOLEAN : ~Projected(c, "projecting", record, ok)
    BY <1>0, <1>2, ProjectedLoads
  <2>. QED  BY <1>2, <1>3, <2>1, ProjectSettles
<1>4. CASE Align(c)
  <2>1. ~Fail(c)
    BY DEF Fail
  <2>. QED  BY <1>3, <1>4, <2>1 DEF Align
<1>5. CASE RunReconcile(c)
  <2>1. ~Fail(c)
    BY DEF Fail
  <2>. QED  BY <1>3, <1>5, <2>1 DEF RunReconcile
<1>6. CASE Materialize(c)
  <2>1. PICK ok \in BOOLEAN :
          /\ Projected(c, Stage(c), Record(c), ok)
          /\ ok => \/ /\ mat[c].step = "create" /\ child' = child
                      /\ ByRequest(Record(c).session) \cap ReadyHomes # {}
                   \/ /\ mat[c].step = "commit"
                      /\ child' = Committed(mat[c].home, Record(c).session)
                   \/ /\ mat[c].step = "rebind"
                      /\ child' = Rebound(mat[c].home, Record(c).session)
    BY <1>2, <1>6, MaterializeSettles
  <2>2. ok /\ Stage(c) = "retaining" /\ live.turn = None
    BY <1>0, <1>2, <2>1, ProjectedLoads
  <2>3. /\ call[c].pc = "retaining" /\ stored' = stored /\ native' = native
        /\ live' = live
    <3>1. c \notin Lives
      BY <1>0
    <3>. QED
      BY <1>6, <2>2, <3>1 DEF Stage, Materialize, RunCreate, RunCommit, RunRebind, RunFails
  <2>4. c \in Rollbacks
    BY <1>0, <2>3 DEF CallsInv, RollbackInv
  <2>5. mat[c].step = "rebind"
    BY <2>3, <2>4 DEF NotingInv
  <2>. DEFINE h == mat[c].home
              s == call[c].base.session
  <2>6. child' = Rebound(h, s)
    BY <2>1, <2>2, <2>5 DEF Record
  <2>7. h \in Homes /\ child[h].state = "ready" /\ s = stored.session
    BY <1>2, <2>5, RebindsAre
  <2>8. \A t \in Spawn(s) : child[h].of = t
    BY <1>0, <1>2, <2>5 DEF MatInv
  <2>9. child'[h].state = "ready" /\ child'[h].of = child[h].of /\ child'[h].request = s
    <3>1. child[h] \in Children /\ child'[h] = [child[h] EXCEPT !.request = s, !.session = s]
      BY <1>0, <2>6, <2>7 DEF Rebound
    <3>. HIDE DEF h, s
    <3>. QED  BY <2>7, <3>1 DEF Children
  <2>. HIDE DEF h, s
  <2>10. \A t \in Elements(native[stored.session]) \cap Spawning : t \in Spawn(s)
    <3>. HIDE DEF Elements
    <3>. QED  BY <2>7 DEF Spawn
  <2>. QED  BY <2>2, <2>3, <2>7, <2>8, <2>9, <2>10 DEF Adopted, IsChild
<1>7. CASE c \in Rollbacks /\ RunNote(c)
  <2>. DEFINE s == call[c].session
  <2>1. /\ Project(c, "retaining", Retained(c), call[c].base.session,
                   SpawnedIn(call[c].snap), Popped)
        /\ At(c, "noting") /\ stored' = stored /\ native' = native /\ live' = live
    BY <1>7 DEF RunNote
  <2>2. native[s] = call[c].snap /\ s = stored.session /\ s \in Sessions
    BY <1>0, <2>1 DEF CallsInv, RollbackInv
  <2>3. PICK ok \in BOOLEAN :
          /\ Projected(c, "retaining", Retained(c), ok)
          /\ ok => \/ SpawnedIn(call[c].snap) = None
                   \/ \E h \in Found(Retained(c).session, call[c].base.session) :
                        /\ child[h].state # "creating"
                        /\ child[h].session = Retained(c).session
    BY <1>2, <2>1, ProjectSettles
  <2>4. ok /\ live.turn = None
    BY <1>0, <1>2, <2>3, ProjectedLoads
  <2>5. Retained(c).session = s
    BY DEF Retained
  <2>6. ASSUME NEW t \in Elements(call[c].snap) \cap Spawning PROVE FALSE
    <3>1. SpawnedIn(call[c].snap) # None
      BY SpawnedAny
    <3>. HIDE DEF s
    <3>2. PICK h \in Found(s, call[c].base.session) :
            child[h].state # "creating" /\ child[h].session = s
      BY <2>3, <2>4, <2>5, <3>1
    <3>3. h \in Homes /\ Names(h, s)
      BY <2>2, <3>2, FoundIsChild
    <3>4. Untouched(c)
      BY <1>7 DEF Known, TwinInv
    <3>. QED  BY <2>1, <3>3, <3>4 DEF Untouched, s
  <2>. QED  BY <2>1, <2>2, <2>4, <2>6
<1>. QED  BY <1>1, <1>4, <1>5, <1>6, <1>7

(* The child of a Turn that the stored session has is kept, and no second  *)
(* one is asked for.                                                       *)
LEMMA OneChildKept ==
  ASSUME Known, [Next]_vars, ~Crash, stored'.session = stored.session,
         loaded' \in {None, stored.session}, NEW t \in Turns, Fresh(t) \/ Adopted(t),
         \A q \in Sessions \ {stored.session} :
           mem'[q] # NoRecord /\ t \in Elements(native'[q]) =>
             mem[q] # NoRecord /\ t \in Elements(native[q])
  PROVE  Fresh(t)' \/ Adopted(t)'
<1>0. /\ Types /\ Between /\ CallsInv /\ Orderly
      /\ \A c \in Callers : MatInv(c)
      /\ child \in [Homes -> Children] /\ Callers = Calls \cup Lives
      /\ Rollbacks \subseteq Calls
  BY DEF Known, Between, HistoryInv, Types, Callers, Calls
<1>1. ASSUME NEW h \in Homes, Stored(h)
      PROVE  /\ child'[h].of = child[h].of
             /\ child[h].state = "ready" => child'[h].state = "ready"
             /\ child[h].request = stored.session => child'[h].request = stored.session
  <2>1. \A c \in Callers : mat[c].step = "rebind" => call[c].base.session = stored.session
    BY RebindsAre
  <2>. QED  BY <1>1, <2>1, ChildStays
<1>2. CASE Adopted(t)
  <2>1. PICK h \in Homes : IsChild(h, t) /\ child[h].request = stored.session
    BY <1>2 DEF Adopted
  <2>2. Stored(h)
    BY <2>1 DEF Stored, IsChild
  <2>3. IsChild(h, t)' /\ child'[h].request = stored'.session
    BY <1>1, <2>1, <2>2 DEF IsChild
  <2>. QED  BY <2>3 DEF Adopted
<1>3. CASE Fresh(t)
  <2>1. \A q \in Sessions \ {stored.session} :
          mem'[q] # NoRecord => t \notin Elements(native'[q])
    <3>. HIDE DEF Elements
    <3>. QED  BY <1>3 DEF Fresh
  <2>2. ASSUME NEW h \in Homes, Stored(h)', child'[h].of = t
        PROVE  child'[h].request = stored.session
    <3>1. CASE Stored(h)
      BY <1>1, <1>3, <2>2, <3>1 DEF Fresh
    <3>2. CASE ~Stored(h)
      <4>1. PICK c \in Callers : CreatesNew(c)
        <5>1. child' # child
          BY <2>2, <3>2 DEF Stored
        <5>2. ASSUME NEW c \in Callers, ChildMoves(c), mat[c].step \in {"commit", "rebind"}
              PROVE  FALSE
          <6>1. /\ mat[c].home \in Homes /\ Stored(mat[c].home)
                /\ \A g \in Homes \ {mat[c].home} : child'[g] = child[g]
            BY <1>0, <5>2, ChildFields DEF Known, TwinInv
          <6>. QED  BY <2>2, <3>2, <6>1 DEF Stored
        <5>. HIDE DEF Known
        <5>. QED  BY <5>1, <5>2, ChildStepIs
      <4>. DEFINE q == call[c].base.session
      <4>2. PICK g \in Unused : child' = Created(g, q, mat[c].of)
        BY <4>1 DEF CreatesNew
      <4>3. g \in Homes /\ \A x \in Homes \ {g} : child'[x] = child[x]
        BY <1>0, <4>2 DEF Created, Unused
      <4>4. h = g
        BY <2>2, <3>2, <4>3 DEF Stored
      <4>5. mat[c].of = t /\ child'[h].request = q
        BY <1>0, <2>2, <4>2, <4>3, <4>4 DEF Created
      <4>6. mat[c].step # "nothing" /\ q \in Sessions
        BY <1>0, <4>1 DEF CreatesNew, MatInv
      <4>7. CASE c \in Lives
        <5>1. /\ q \in {loaded, stored.session} /\ loaded # None
              /\ loaded' = loaded
          BY <4>6, <4>7, LiveWaits, LiveStays
        <5>. QED  BY <4>5, <5>1
      <4>8. CASE c \in Calls
        <5>1. /\ call[c].pc \in {"projecting", "retaining"}
              /\ t \in Elements(native[q])
          BY <1>0, <4>5, <4>6, <4>8 DEF MatInv
        <5>2. CASE call[c].pc = "retaining"
          BY <1>0, <4>5, <4>8, <5>2 DEF CallsInv, RollbackInv
        <5>3. CASE call[c].pc = "projecting"
          <6>1. q = call[c].session
            BY <1>0, <4>8, <5>3 DEF CallsInv, ReadInv
          <6>2. CASE call[c].restores
            BY <1>0, <4>5, <6>1, <6>2, RestoreIs
          <6>3. CASE ~call[c].restores
            <7>1. mem[q] # NoRecord
              BY <1>0, <4>8, <5>3, <6>1, <6>3 DEF CallsInv, ReadInv
            <7>. HIDE DEF q, Elements
            <7>. QED  BY <1>3, <4>5, <4>6, <5>1, <7>1 DEF Fresh
          <6>. QED  BY <6>2, <6>3
        <5>. QED  BY <5>1, <5>2, <5>3
      <4>. QED  BY <1>0, <4>7, <4>8
    <3>. QED  BY <3>1, <3>2
  <2>. QED  BY <2>1, <2>2 DEF Fresh
<1>. QED  BY <1>2, <1>3

(* Before a crash that does not leave the children behind, the stored      *)
(* session is the loaded one.                                              *)
LEMMA CrashTogether ==
  ASSUME Known, Crash, "not moved" \notin apart'
  PROVE  loaded \in {None, stored.session}
<1>1. /\ "not replaced" \notin apart
      /\ ~\E c \in Rollbacks : At(c, "noting") \/ At(c, "retaining")
  BY DEF Crash
<1>2. Parted
  BY DEF Known, TwinInv
<1>. QED  BY <1>1, <1>2 DEF Parted

(* The child of a Turn outlives the Host.                                  *)
LEMMA OneChildCrash ==
  ASSUME Known, Crash, OneChild, loaded \in {None, stored.session}
  PROVE  OneChild'
<1>0. /\ Types /\ None \notin Sessions /\ stored.session \in Sessions
  BY SubagentsAssumption DEF Known, Between, Types
<1>1. /\ stored' = stored /\ native' = native /\ loaded' = None
      /\ \A q \in Sessions : mem'[q] = NoRecord
      /\ \A h \in Homes : child'[h] = IF child[h].state = "ready" THEN child[h] ELSE NoChild
  BY DEF Crash, OnlyReady
<1>2. NoChild.state = "none"
  BY DEF NoChild
<1>. SUFFICES ASSUME NEW t \in Elements(native[stored.session]) \cap Spawning
              PROVE  Fresh(t)' \/ Adopted(t)'
  <2>1. \A t \in Spawn(stored.session)' : t \in Elements(native[stored.session]) \cap Spawning
    <3>. HIDE DEF Elements
    <3>1. Elements(native'[stored'.session]) = Elements(native[stored.session])
      BY <1>1
    <3>2. stored'.session # loaded'
      BY <1>0, <1>1
    <3>. QED  BY <3>1, <3>2 DEF Spawn
  <2>. QED  BY <2>1 DEF OneChild
<1>3. Fresh(t) \/ Adopted(t)
  <2>. HIDE DEF Elements
  <2>1. t \in Spawn(stored.session)
    BY DEF Spawn
  <2>. QED  BY <2>1 DEF OneChild
<1>4. CASE Adopted(t)
  <2>1. Adopted(t)'
    BY <1>1, <1>4 DEF Adopted, IsChild
  <2>. QED  BY <2>1
<1>5. CASE Fresh(t)
  <2>1. \A h \in Homes : Stored(h)' /\ child'[h].of = t => child'[h].request = stored'.session
    BY <1>1, <1>2, <1>5 DEF Fresh, Stored
  <2>2. Fresh(t)'
    BY <1>1, <2>1 DEF Fresh
  <2>. QED  BY <2>2
<1>. QED  BY <1>3, <1>4, <1>5

(* So does every other step keep one child for a Turn.                     *)
LEMMA OneChildStep ==
  ASSUME Known, [Next]_vars, ~Crash, OneChild, \A d \in Rollbacks : NotingInv(d)
  PROVE  OneChild'
<1>0. /\ Types /\ Types' /\ Between /\ TurnsInv /\ MemInv /\ CallsInv /\ RequestsInv
      /\ \A c \in Callers : MatInv(c)
      /\ mem \in [Sessions -> Records] /\ native \in [Sessions -> Seq(Turns)]
      /\ None \notin Sessions /\ None \notin Turns /\ Spawning \subseteq Turns
      /\ stored.session \in Sessions /\ Calls \subseteq Callers
  BY HistoryAssumption, SubagentsAssumption
     DEF Known, Between, HistoryInv, TwinInv, Types, Callers, Calls
<1>. DEFINE S == stored.session
<1>. SUFFICES ASSUME loaded' \in {None, stored'.session},
                     NEW t \in Spawn(stored.session)'
              PROVE  Fresh(t)' \/ Adopted(t)'
  BY DEF OneChild
<1>1. stored'.session = S
  BY StoredMoves
<1>2. /\ t \in Spawning /\ t \in Turns /\ t # None
      /\ t \in Elements(native'[S]) \/ (S = loaded' /\ t = live'.turn)
  BY <1>0, <1>1 DEF Spawn
<1>. HIDE DEF Elements
<1>3. CASE loaded' # loaded /\ loaded # None
  <2>1. /\ stored' = stored /\ native' = native /\ live'.turn = None
        /\ \A u \in Elements(native[S]) \cap Spawning : Adopted(u)'
    BY <1>3, TakenOver
  <2>. QED  BY <1>2, <2>1
<1>4. CASE loaded' = loaded \/ loaded = None
  <2>1. loaded \in {None, S}
    BY <1>1, <1>4
  <2>2. \A u \in Spawn(S) : Fresh(u) \/ Adopted(u)
    BY <2>1 DEF OneChild
  <2>3. SUFFICES /\ Fresh(t) \/ Adopted(t)
                 /\ \A q \in Sessions \ {S} :
                      mem'[q] # NoRecord /\ t \in Elements(native'[q]) =>
                        mem[q] # NoRecord /\ t \in Elements(native[q])
    <3>1. loaded' \in {None, S}
      BY <1>1
    <3>. QED  BY <1>1, <1>2, <2>3, <3>1, OneChildKept
  <2>4. ASSUME native' = native, \/ live'.turn = None
                                 \/ live'.turn = live.turn /\ loaded' = loaded,
               \A q \in Sessions \ {S} : mem'[q] # NoRecord => mem[q] # NoRecord
        PROVE  /\ Fresh(t) \/ Adopted(t)
               /\ \A q \in Sessions \ {S} :
                    mem'[q] # NoRecord /\ t \in Elements(native'[q]) =>
                      mem[q] # NoRecord /\ t \in Elements(native[q])
    <3>1. t \in Spawn(S)
      BY <1>2, <2>4 DEF Spawn
    <3>. QED  BY <2>2, <2>4, <3>1
  <2>5. CASE \/ UNCHANGED vars
             \/ EndTurn \/ EndUnnamed
             \/ \E c \in Calls : Begin(c) \/ TakeSnapshot(c)
             \/ \E c \in Reads : Restore(c)
             \/ \E c \in Rollbacks : Replaces(c)
             \/ \E c \in Callers : Drops(c) \/ Asks(c) \/ Creates(c)
    <3>1. /\ native' = native /\ mem' = mem /\ loaded' = loaded
          /\ live'.turn \in {live.turn, None}
      <4>1. CASE EndTurn \/ EndUnnamed
        <5>1. UNCHANGED <<native, mem, loaded>>
          BY <4>1 DEF EndTurn, EndUnnamed
        <5>2. live' = NoTurn \/ live' = [live EXCEPT !.phase = "ending"]
          BY <4>1 DEF EndTurn, EndUnnamed
        <5>3. NoTurn.turn = None /\ [live EXCEPT !.phase = "ending"].turn = live.turn
          BY <1>0 DEF Types, NoTurn
        <5>4. live'.turn = live.turn \/ live'.turn = None
          <6>1. CASE live' = NoTurn
            BY <5>3, <6>1
          <6>2. CASE live' = [live EXCEPT !.phase = "ending"]
            BY <5>3, <6>2, Zenon
          <6>. QED  BY <5>2, <6>1, <6>2
        <5>. QED  BY <5>1, <5>4
      <4>2. CASE UNCHANGED vars
        BY <4>2 DEF vars
      <4>3. CASE \/ \E c \in Calls : Begin(c) \/ TakeSnapshot(c)
                 \/ \E c \in Reads : Restore(c)
        BY <4>3 DEF Begin, TakeSnapshot, Restore
      <4>4. CASE \/ \E c \in Rollbacks : Replaces(c)
                 \/ \E c \in Callers : Drops(c) \/ Asks(c) \/ Creates(c)
        BY <4>4 DEF Replaces, Drops, Asks, Creates
      <4>. QED  BY <2>5, <4>1, <4>2, <4>3, <4>4
    <3>. QED  BY <2>4, <3>1
  <2>6. CASE RunPersist
    <3>1. native' = native /\ live'.turn = None
      BY <2>6 DEF RunPersist, NoTurn
    <3>2. \A q \in Sessions \ {S} : mem'[q] # NoRecord => mem[q] # NoRecord
      <4>1. mem' = mem \/ mem' = [mem EXCEPT ![loaded] = stored']
        BY <2>6 DEF RunPersist, Persisted
      <4>. QED  BY <1>0, <2>1, <4>1
    <3>. QED  BY <2>4, <3>1, <3>2
  <2>7. ASSUME NEW u \in Turns, StartTurn(u)
        PROVE  /\ Fresh(t) \/ Adopted(t)
               /\ \A q \in Sessions \ {S} :
                    mem'[q] # NoRecord /\ t \in Elements(native'[q]) =>
                      mem[q] # NoRecord /\ t \in Elements(native[q])
    <3>1. /\ UNCHANGED <<native, mem, loaded>> /\ u \notin begun /\ live'.turn = u
      BY <2>7 DEF StartTurn
    <3>2. CASE t \in Spawn(S)
      BY <2>2, <3>1, <3>2
    <3>3. CASE t \notin Spawn(S)
      <4>1. t = u
        BY <1>2, <3>1, <3>3 DEF Spawn
      <4>2. \A h \in Homes : child[h].of # t
        BY <1>0, <1>2, <3>1, <4>1 DEF RequestsInv
      <4>3. \A q \in Sessions : t \notin Elements(native[q])
        BY <1>0, <3>1, <4>1 DEF TurnsInv
      <4>4. Fresh(t)
        BY <4>2, <4>3 DEF Fresh
      <4>. QED  BY <3>1, <4>4
    <3>. QED  BY <3>2, <3>3
  <2>8. CASE RecordTurn
    <3>1. /\ UNCHANGED <<mem, loaded>> /\ live' = live /\ live.phase = "running"
          /\ native' = [native EXCEPT ![loaded] = Append(@, live.turn)]
      BY <2>8 DEF RecordTurn
    <3>2. live.turn # None /\ loaded # None
      BY <1>0, <3>1 DEF TurnsInv
    <3>3. loaded = S /\ live.turn \in Turns
      BY <1>0, <2>1, <3>2 DEF Types
    <3>4. native'[S] = Append(native[S], live.turn) /\ native[S] \in Seq(Turns)
      BY <1>0, <3>1, <3>3
    <3>5. Elements(native'[S]) \subseteq Elements(native[S]) \cup {live.turn}
      BY <3>3, <3>4, AppendedIs DEF Elements
    <3>6. t \in Spawn(S)
      BY <1>2, <3>1, <3>3, <3>5 DEF Spawn
    <3>7. \A q \in Sessions \ {S} : native'[q] = native[q]
      BY <1>0, <3>1, <3>3
    <3>. QED  BY <2>2, <3>1, <3>6, <3>7
  <2>9. ASSUME NEW c \in Rollbacks, NEW s \in Sessions, OpenWithout(c, s)
        PROVE  /\ Fresh(t) \/ Adopted(t)
               /\ \A q \in Sessions \ {S} :
                    mem'[q] # NoRecord /\ t \in Elements(native'[q]) =>
                      mem[q] # NoRecord /\ t \in Elements(native[q])
    <3>1. /\ UNCHANGED <<mem, loaded>> /\ live' = live /\ mem[s] = NoRecord /\ s # S
          /\ \E kept : native' = [native EXCEPT ![s] = kept]
      BY <2>9 DEF OpenWithout, Fail
    <3>2. \A q \in Sessions \ {s} : native'[q] = native[q]
      BY <1>0, <3>1
    <3>3. t \in Spawn(S)
      BY <1>0, <1>2, <3>1, <3>2 DEF Spawn
    <3>. QED  BY <2>2, <3>1, <3>2, <3>3
  <2>10. ASSUME NEW c \in Callers, NEW stage, NEW record, NEW previous, NEW u,
                Moves(c, stage, record, previous, u)
         PROVE  /\ Fresh(t) \/ Adopted(t)
                /\ \A q \in Sessions \ {S} :
                     mem'[q] # NoRecord /\ t \in Elements(native'[q]) =>
                       mem[q] # NoRecord /\ t \in Elements(native[q])
    <3>1. native' = native /\ live' = live
      BY <2>10 DEF Moves
    <3>2. live'.turn = None \/ loaded' = loaded
      BY <1>0, <2>10, <3>1, MovesLoaded
    <3>3. \A q \in Sessions \ {S} : mem'[q] # NoRecord => mem[q] # NoRecord
      <4>1. CASE mem' = mem
        BY <4>1
      <4>2. CASE Adopts(c, stage, record)
        <5>1. mem' = [mem EXCEPT ![call[c].session] = record] /\ stage = "projecting"
          BY <4>2 DEF Adopts
        <5>2. c \in Calls /\ call[c].pc \in {"taken", "aligning", "projecting"}
          BY <2>10, <5>1 DEF Moves, EventMove, ReadMove, RollbackMove
        <5>3. CASE call[c].restores
          BY <1>0, <5>1, <5>3, RestoreIs
        <5>4. CASE ~call[c].restores
          BY <1>0, <5>1, <5>2, <5>4 DEF CallsInv, ReadInv
        <5>. QED  BY <5>3, <5>4
      <4>3. CASE TakesOver(c, stage, record)
        <5>1. mem' = [mem EXCEPT ![record.session] = record] /\ stage = "retaining"
          BY <4>3 DEF TakesOver
        <5>2. record.session = S
          BY <2>10, <5>1 DEF Moves, EventMove, ReadMove, RollbackMove
        <5>. QED  BY <1>0, <5>1, <5>2
      <4>. QED  BY <2>10, <4>1, <4>2, <4>3 DEF Moves, Over, Leaves, Waits
    <3>. QED  BY <2>4, <3>1, <3>2, <3>3
  <2>. HIDE DEF Known, Between, S
  <2>. QED
    BY <1>0, <2>5, <2>6, <2>7, <2>8, <2>9, <2>10, StepIs DEF Proceeds
<1>. QED  BY <1>3, <1>4

-----------------------------------------------------------------------------
(* One Thread for a Subagent: the step that makes one ready.               *)

(* Children that become ready no more, and stay who they are, are no twins.*)
LEMMA TwinsShrink ==
  ASSUME \A h \in Homes : child'[h].state = "ready" =>
           child[h].state = "ready" /\ child'[h].of = child[h].of
  PROVE  Twins' \subseteq Twins
BY DEF Twins, ReadyHomes

(* A caller that commits a child under the session that the store has, and *)
(* which has its Turn, commits the only one of that Turn.                  *)
LEMMA CommitsOne ==
  ASSUME Known, OneChild, \A d \in Rollbacks : NotingInv(d),
         NEW c \in Callers, mat[c].step = "commit", ~Misplaced(c),
         child[mat[c].home].state # "ready",
         NEW g \in Homes, child[g].state = "ready"
  PROVE  child[g].of # child[mat[c].home].of
<1>0. /\ Types /\ TurnsInv /\ MemInv /\ CallsInv /\ Orderly /\ RequestsInv
      /\ MatInv(c) /\ WaitInv(c)
      /\ Callers = Calls \cup Lives
  BY DEF Known, Between, HistoryInv, TwinInv, Callers
<1>. DEFINE S == stored.session
            u == mat[c].of
            h0 == mat[c].home
<1>1. /\ call[c].base.session = S /\ u \in Elements(native[S])
      /\ S \in Sessions
  BY <1>0 DEF Misplaced, Record, Types
<1>. HIDE DEF Elements
<1>2. u \in Spawning
  <2>1. CASE c \in Calls
    BY <1>0, <2>1 DEF MatInv
  <2>2. CASE c \in Lives
    BY <1>0, <2>2 DEF WaitInv
  <2>. QED  BY <1>0, <2>1, <2>2
<1>3. u \in Spawn(S)
  BY <1>1, <1>2 DEF Spawn
<1>4. h0 \in Homes /\ Stored(h0) /\ child[h0].of = u
  BY <1>0, <1>1, <1>3 DEF MatInv
<1>5. ~At(c, "retaining")
  <2>. SUFFICES ASSUME At(c, "retaining") PROVE FALSE
    OBVIOUS
  <2>1. Busy(c)
    BY <1>0 DEF MatInv
  <2>2. c \in Calls
    BY <1>0, <2>1 DEF Orderly
  <2>3. c \in Rollbacks
    BY <1>0, <2>2 DEF CallsInv, RollbackInv
  <2>. QED  BY <2>3 DEF NotingInv
<1>6. child[h0].request = S
  BY <1>0, <1>1, <1>5 DEF WaitInv
<1>7. loaded \in {None, S}
  <2>1. CASE c \in Lives
    <3>1. u = live.turn
      BY <2>1, LiveWaits
    <3>. QED  BY <1>0, <1>1, <3>1 DEF TurnsInv
  <2>2. CASE c \in Calls
    <3>1. At(c, "projecting")
      BY <1>0, <1>5, <2>2 DEF MatInv
    <3>2. CASE call[c].restores
      BY <1>0, <3>2 DEF Orderly
    <3>3. CASE ~call[c].restores
      <4>1. call[c].base.session = call[c].session /\ mem[call[c].session] # NoRecord
        BY <1>0, <2>2, <3>1, <3>3 DEF CallsInv, ReadInv
      <4>. QED  BY <1>0, <1>1, <4>1 DEF MemInv
    <3>. QED  BY <3>2, <3>3
  <2>. QED  BY <1>0, <2>1, <2>2
<1>8. Fresh(u) \/ Adopted(u)
  BY <1>3, <1>7 DEF OneChild
<1>. SUFFICES ASSUME child[g].of = u PROVE FALSE
  BY <1>4
<1>9. Stored(g) /\ g # h0
  BY DEF Stored
<1>10. CASE Fresh(u)
  <2>1. child[g].request = S
    BY <1>9, <1>10 DEF Fresh
  <2>. QED  BY <1>0, <1>4, <1>6, <1>9, <2>1 DEF RequestsInv
<1>11. CASE Adopted(u)
  <2>1. PICK h1 \in Homes : child[h1].state = "ready" /\ child[h1].request = S
    BY <1>11 DEF Adopted, IsChild
  <2>2. Stored(h1) /\ h1 # h0
    BY <2>1 DEF Stored
  <2>. QED  BY <1>0, <1>4, <1>6, <2>1, <2>2 DEF RequestsInv
<1>. QED  BY <1>8, <1>10, <1>11

(* So no step makes twins, but that of a caller that is misplaced.         *)
LEMMA NoTwins ==
  ASSUME Known, [Next]_vars, OneChild, \A d \in Rollbacks : NotingInv(d)
  PROVE  Twins' \subseteq Twins \/ \E c \in Callers : Runs(c) /\ Misplaced(c)
<1>0. /\ Types /\ \A c \in Callers : MatInv(c) /\ WaitInv(c)
      /\ child \in [Homes -> Children]
  BY DEF Known, Between, TwinInv, Types
<1>1. CASE child' = child
  BY <1>1, TwinsShrink
<1>2. CASE Crash
  <2>1. \A h \in Homes : child'[h] = IF child[h].state = "ready" THEN child[h] ELSE NoChild
    BY <1>2 DEF Crash, OnlyReady
  <2>2. NoChild.state # "ready"
    BY DEF NoChild
  <2>. QED  BY <2>1, <2>2, TwinsShrink
<1>3. ASSUME NEW c \in Callers, RunCreate(c)
      PROVE  Twins' \subseteq Twins
  <2>1. \/ child' = child
        \/ \E h \in Unused : child' = Created(h, Record(c).session, mat[c].of)
    BY <1>3 DEF RunCreate
  <2>2. ASSUME NEW h \in Unused, child' = Created(h, Record(c).session, mat[c].of)
        PROVE  Twins' \subseteq Twins
    <3>1. h \in Homes /\ \A x \in Homes \ {h} : child'[x] = child[x]
      BY <1>0, <2>2 DEF Created, Unused
    <3>2. child'[h].state = "creating"
      BY <1>0, <2>2, <3>1 DEF Created
    <3>. QED  BY <3>1, <3>2, TwinsShrink
  <2>3. CASE child' = child
    BY <2>3, TwinsShrink
  <2>. QED  BY <2>1, <2>2, <2>3
<1>4. ASSUME NEW c \in Callers, RunRebind(c)
      PROVE  Twins' \subseteq Twins
  <2>1. mat[c].step = "rebind" /\ ChildMoves(c)
    BY <1>4 DEF RunRebind, ChildMoves, Record
  <2>2. MatInv(c) /\ WaitInv(c)
    BY <1>0
  <2>. QED  BY <1>0, <2>1, <2>2, ChildFields, TwinsShrink
<1>5. ASSUME NEW c \in Callers, RunCommit(c)
      PROVE  Twins' \subseteq Twins \/ (Runs(c) /\ Misplaced(c))
  <2>. DEFINE h0 == mat[c].home
  <2>1. Runs(c) /\ mat[c].step = "commit" /\ ChildMoves(c)
    BY <1>5 DEF RunCommit, ChildMoves, Record
  <2>2. MatInv(c) /\ WaitInv(c)
    BY <1>0
  <2>3. /\ h0 \in Homes /\ \A h \in Homes \ {h0} : child'[h] = child[h]
        /\ child'[h0].of = child[h0].of
    BY <1>0, <2>1, <2>2, ChildFields
  <2>4. CASE child[h0].state = "ready"
    <3>1. \A h \in Homes : child'[h].state = "ready" =>
            child[h].state = "ready" /\ child'[h].of = child[h].of
      BY <2>3, <2>4
    <3>. QED  BY <3>1, TwinsShrink
  <2>5. CASE child[h0].state # "ready" /\ ~Misplaced(c)
    <3>1. \A g \in Homes : child[g].state = "ready" => child[g].of # child[h0].of
      BY <2>1, <2>5, CommitsOne
    <3>. HIDE DEF h0
    <3>2. ASSUME NEW h \in Homes, NEW g \in Homes, h # g, child'[g].of = child'[h].of,
                 child'[h].state = "ready", child'[g].state = "ready"
          PROVE  child[h].state = "ready" /\ child[g].state = "ready"
                 /\ child[g].of = child[h].of
      <4>1. CASE h = h0
        BY <2>3, <3>1, <3>2, <4>1
      <4>2. CASE g = h0
        BY <2>3, <3>1, <3>2, <4>2
      <4>3. CASE h # h0 /\ g # h0
        BY <2>3, <3>2, <4>3
      <4>. QED  BY <4>1, <4>2, <4>3
    <3>. QED  BY <3>2 DEF Twins, ReadyHomes
  <2>. QED  BY <2>1, <2>4, <2>5
<1>6. \/ child' = child \/ Crash
      \/ \E c \in Callers : RunCreate(c) \/ RunCommit(c) \/ RunRebind(c)
  BY DEF Next, vars, StartTurn, RecordTurn, EndTurn, EndUnnamed, RunPersist, LiveChild,
         Read, Begin, TakeSnapshot, Refuse, Align, RunReconcile, Restore, Rollback,
         OpenWithout, RunReplace, RunNote, Materialize, RunFails
<1>. HIDE DEF Known
<1>. QED  BY <1>1, <1>2, <1>3, <1>4, <1>5, <1>6

-----------------------------------------------------------------------------
(* The theorem of one Thread.                                              *)

(* At the start nobody has a child and nobody waits for one.               *)
LEMMA TwinInit == Init => TwinInv
<1>. SUFFICES ASSUME Init PROVE TwinInv
  OBVIOUS
<1>1. /\ First \in Sessions /\ \A s \in Sessions : native[s] = <<>>
      /\ stored.session = First /\ loaded = First /\ live.turn = None
      /\ \A c \in Callers : call[c].pc = "new" /\ mat[c].step = "nothing"
      /\ \A h \in Homes : ~Stored(h) /\ child[h].of = None
      /\ Rollbacks \subseteq Callers
  BY HistoryAssumption
     DEF Init, Ended, NoWait, NoTurn, Stored, NoChild, Callers, Calls
<1>2. RequestsInv
  BY <1>1 DEF RequestsInv
<1>3. Parted
  BY <1>1 DEF Parted
<1>4. \A c \in Callers : WaitInv(c)
  BY <1>1 DEF WaitInv
<1>5. \A c \in Rollbacks : OpeningInv(c) /\ Untouched(c) /\ NotingInv(c)
  BY <1>1 DEF OpeningInv, Untouched, NotingInv
<1>6. OneChild
  <2>1. \A s \in Sessions : Elements(native[s]) = {}
    BY <1>1
  <2>2. Spawn(stored.session) = {}
    <3>. HIDE DEF Elements
    <3>. QED  BY <1>1, <2>1, HistoryAssumption, SubagentsAssumption DEF Spawn
  <2>. QED  BY <2>2 DEF OneChild
<1>. HIDE DEF Elements
<1>. QED  BY <1>2, <1>3, <1>4, <1>5, <1>6 DEF TwinInv

(* What is known of a step between states of the invariant.                *)
LEMMA StepKnows ==
  ASSUME Inv, TwinInv, [Next]_vars
  PROVE  Known /\ CallsInv' /\ Types
<1>1. Types /\ HistoryInv /\ ChildInv /\ \A c \in Callers : MatInv(c)
  BY DEF Inv, ChildrenInv
<1>2. /\ TurnsInv /\ StoreInv /\ MemInv /\ Orderly /\ CallsInv /\ MemoryInv
  BY <1>1 DEF HistoryInv
<1>3. Types' /\ CallsInv'
  BY InvStep DEF Inv, HistoryInv
<1>4. Grown /\ StoreInv'
  BY <1>1, <1>2, <1>3, GrownStep, StoreStep
<1>. QED  BY <1>1, <1>3, <1>4 DEF Known, Between

(* While the children are not left behind, they stay one for a Turn.       *)
LEMMA TogetherStep ==
  ASSUME Known, CallsInv', [Next]_vars, OneChild, \A d \in Rollbacks : NotingInv(d),
         Crash => loaded \in {None, stored.session}
  PROVE  OneChild' /\ \A d \in Rollbacks : NotingInv(d)'
<1>1. CASE Crash
  <2>1. OneChild'
    BY <1>1, OneChildCrash
  <2>2. Types /\ Rollbacks \subseteq Callers
    BY DEF Known, Between, Callers, Calls
  <2>3. ASSUME NEW d \in Rollbacks PROVE NotingInv(d)'
    <3>1. ~Busy(d)'
      BY <1>1, <2>2, CrashEnds
    <3>. QED  BY <3>1 DEF NotingInv, Busy
  <2>. QED  BY <2>1, <2>3
<1>2. CASE ~Crash
  <2>1. OneChild'
    BY <1>2, OneChildStep
  <2>2. \A d \in Rollbacks : NotingInv(d)'
    BY NotingStep
  <2>. QED  BY <2>1, <2>2
<1>. QED  BY <1>1, <1>2

(* Every step keeps that.                                                  *)
LEMMA TwinStep ==
  ASSUME Inv, TwinInv, [Next]_vars
  PROVE  TwinInv'
<1>1. Known /\ CallsInv'
  BY StepKnows
<1>. HIDE DEF Known
<1>2. RequestsInv' /\ Parted' /\ \A c \in Callers : WaitInv(c)'
  BY <1>1, RequestsStep, PartedStep, WaitsStep
<1>3. \A c \in Rollbacks : OpeningInv(c)' /\ Untouched(c)'
  BY <1>1, OpeningStep, UntouchedStep
<1>4. ASSUME "not moved" \notin apart'
      PROVE  OneChild' /\ \A c \in Rollbacks : NotingInv(c)'
  <2>1. OneChild /\ \A c \in Rollbacks : NotingInv(c)
    BY <1>1, <1>4, ApartStays, Zenon DEF TwinInv
  <2>2. Crash => loaded \in {None, stored.session}
    BY <1>1, <1>4, CrashTogether, Zenon
  <2>. QED  BY <1>1, <2>1, <2>2, TogetherStep, Zenon
<1>. QED  BY <1>2, <1>3, <1>4, Zenon DEF TwinInv

(* A Subagent gets no second Thread, but for a caller that projects a      *)
(* session the store does not have any more, and for children that were    *)
(* left behind (materializeSubagentThread, called by live events, reads    *)
(* and rollbacks in any order).                                            *)
THEOREM OneThread == Spec => OneThreadPerChild
<1>1. Init => Inv /\ TwinInv
  BY InvInit, TwinInit
<1>2. Inv /\ TwinInv /\ [Next]_vars => (Inv /\ TwinInv)'
  BY InvStep, TwinStep
<1>3. ASSUME Inv, TwinInv, [Next]_vars
      PROVE  \/ Twins' \subseteq Twins
             \/ "not moved" \in apart
             \/ \E c \in Callers : Runs(c) /\ Misplaced(c)
  <2>. SUFFICES ASSUME "not moved" \notin apart
                PROVE  \/ Twins' \subseteq Twins
                       \/ \E c \in Callers : Runs(c) /\ Misplaced(c)
    BY Zenon
  <2>1. OneChild /\ \A c \in Rollbacks : NotingInv(c)
    BY <1>3, Zenon DEF TwinInv
  <2>2. Known
    BY <1>3, StepKnows, Zenon
  <2>. QED  BY <1>3, <2>1, <2>2, NoTwins, Zenon
<1>. QED  BY <1>1, <1>2, <1>3, PTL DEF Spec, OneThreadPerChild
=============================================================================
