--------------------------- MODULE RecyclerProofs ---------------------------
(***************************************************************************)
(* Slot recycling, for any readers, stripes, vertices, handles, arena size,*)
(* watermarks and insert paths.                                            *)
(*                                                                         *)
(* Ownership: every slot the cursor has handed out has one home.  Grace: a *)
(* pending batch with a slot a reader walks is due later than the phase,   *)
(* and, until the bucket the next phase reuses has been seen empty, one    *)
(* step later for its readers; a slot a root load may return is due two    *)
(* steps from now.  Pins: an old batch with a slot of a pinned snapshot is *)
(* stamped after it, and no other recyclable place has one.                *)
(*                                                                         *)
(* The one thing that breaks ownership is a path-copying batch that fails  *)
(* on its second attempt (run chain_retry): the theorems that need         *)
(* ownership suppose that this does not happen, and nothing else.          *)
(***************************************************************************)
EXTENDS ArenaRecycler, FiniteSetTheorems, TLAPS

\* insert_sorted_by_path_copy goes back to the marks of its first attempt.
PathRetryFails == kind = "path" /\ retried /\ (ArenaFull \/ AppendFails)

InTree == wpc \in {"alloc", "full", "built", "chain"} \/ wret = "full"
Inserting == InTree \/ wret = "alloc"
Subroutine == {"retire", "reclaim", "advance", "scan", "drain"}
PreCommit == wpc = "open" \/ Inserting \/ wret = "open"
Used == 0 .. (bump - 1)
Waiting(x) == x \in PendingIn(young) \/ x \in PendingIn(old)

\* A subroutine knows where to return to; an insert's locals live as long as
\* it; the log is empty once the guard has retired it.
ControlOK ==
  /\ wret # "idle" <=> wpc \in Subroutine
  /\ wret = "full" => wpc # "retire"
  /\ ~Inserting => cur = {} /\ fresh = {} /\ base = {} /\ steps = 0 /\ ~retried
  /\ wpc = "chain" \/ wret = "alloc" => fresh = {}
  /\ wret = "alloc" => base = {} /\ steps = 0 /\ (wpc = "retire" \/ log = {})
  /\ PreCommit \/ wpc \in {"dropPrev", "retire"} \/ log = {}

\* What an insert has superseded so far, and what a truncation goes back to.
InsertOK ==
  /\ ~(kind = "path" /\ retried) => mark = Cardinality(base)
  /\ ~Inserting => mark = 0
  /\ base \subseteq log
  /\ Inserting /\ steps = 0 => cur = live[op] /\ (InTree => log = base)
  /\ Inserting /\ kind # "rebuild" => live[op] \subseteq cur \cup log
  /\ Inserting /\ kind = "rebuild" /\ wpc # "chain" => steps = 0
  /\ Inserting /\ kind = "rebuild" /\ wpc = "chain" => cur \cap live[op] = {}

\* Every slot handed out has a home, and one only.
Homed(x) ==
  \/ x \in free \/ x \in fresh \/ x \in leaked \/ x \in log \/ x \in cur \/ Waiting(x)
  \/ \E v \in Vertices : x \in live[v]
OffRoots(x) ==
  /\ x \in free => ~(x \in fresh \/ x \in leaked \/ x \in log \/ x \in cur \/ Waiting(x))
  /\ x \in fresh => ~(x \in leaked \/ x \in log \/ x \in cur \/ Waiting(x))
  /\ x \in leaked => ~(x \in log \/ x \in cur \/ Waiting(x))
  /\ Waiting(x) => ~(x \in log \/ x \in cur)
  /\ x \in log => x \notin cur
  /\ ~(x \in PendingIn(young) /\ x \in PendingIn(old))
OnRoots(x) ==
  \A v \in Vertices : x \in live[v] =>
    /\ ~(x \in free \/ x \in fresh \/ x \in leaked \/ Waiting(x))
    /\ v # op => x \notin cur
    /\ x \in log => v = op /\ InTree /\ x \notin base
    /\ \A w \in Vertices : x \in live[w] => v = w
OneHome(x) == OffRoots(x) /\ OnRoots(x)
Apart(q) == \A i, j \in DOMAIN q : i # j => q[i].slots \cap q[j].slots = {}
Ownership ==
  /\ \A x \in Slots : (x \in Used <=> Homed(x)) /\ OneHome(x)
  /\ Apart(young) /\ Apart(old)

\* A batch of q that has slot x is due at phase g or later; was stamped after
\* epoch e.
DueFrom(q, x, g) == \A i \in DOMAIN q : x \in q[i].slots => g <= q[i].grace
StampedAfter(q, x, e) == \A i \in DOMAIN q : x \in q[i].slots => e < q[i].stamp
InUse(x) == x \in Used /\ x \notin free /\ x \notin fresh
Safe(x, g) == InUse(x) /\ DueFrom(young, x, g) /\ DueFrom(old, x, g)
Due(r) == IF bucket[r] = (phase + 1) % 2 THEN phase + 1 ELSE phase + 2

VisibleOK ==
  /\ \A v \in Vertices : \A t \in vis[v] : \A x \in t : Safe(x, phase + 2)
  /\ wpc = "scan" => \A v \in Vertices : vis[v] = {live[v]}
ReadersOK ==
  \A r \in Readers :
    /\ rpc[r] # "walk" => rtree[r] = {}
    /\ \A x \in rtree[r] :
         /\ Safe(x, Due(r))
         /\ wpc = "scan" /\ StripeOf[r] \notin unread /\ bucket[r] = (phase + 1) % 2
            => ~Waiting(x)

\* The snapshot left behind is the published roots but for the touched ones.
CommitOK ==
  /\ ~poisoned => \A v \in Vertices \ touched : latest.table[v] = live[v]
  /\ PreCommit \/ touched = {}
  /\ wpc # "idle" => ~poisoned

EpochsOK ==
  /\ PreCommit => stamp <= epoch + 1
  /\ \A s \in Pinned :
       /\ s.epoch <= epoch
       /\ PreCommit => s.epoch < stamp
       /\ wpc \in {"advance", "scan", "drain"} => wmin <= s.epoch
PinsOK ==
  \A s \in Pinned : \A v \in Vertices : \A x \in s.table[v] :
    /\ InUse(x) /\ x \notin PendingIn(young) /\ StampedAfter(old, x, s.epoch)
    /\ x \in log => x < ystart /\ s.epoch < stamp
    /\ PreCommit => x < ystart

Protected == VisibleOK /\ ReadersOK /\ PinsOK

-----------------------------------------------------------------------------
(* The queues of pending batches.                                          *)

\* What enqueue() makes of a queue: each batch keeps its slots and is never
\* due or stamped earlier, and the new slots are in one batch that carries
\* their stamp and phase at least.
LEMMA EnqueueBatches ==
  ASSUME NEW q \in Seq(Batches), NEW slots \in Trees, NEW st \in Nat, NEW gr \in Nat
  PROVE  /\ Enqueue(q, slots, st, gr) \in Seq(Batches)
         /\ DOMAIN q \subseteq DOMAIN Enqueue(q, slots, st, gr)
         /\ \A i \in DOMAIN Enqueue(q, slots, st, gr) :
              LET b == Enqueue(q, slots, st, gr)[i] IN
                \/ i \in DOMAIN q /\ b = q[i]
                \/ /\ i \in DOMAIN q /\ i = Len(Enqueue(q, slots, st, gr))
                   /\ b.slots = q[i].slots \cup slots
                   /\ b.stamp >= q[i].stamp /\ b.grace >= q[i].grace
                   /\ b.stamp >= st /\ b.grace >= gr
                \/ /\ i \notin DOMAIN q /\ i = Len(Enqueue(q, slots, st, gr))
                   /\ b.slots = slots /\ b.stamp = st /\ b.grace = gr
         /\ slots # {} =>
              LET n == Len(Enqueue(q, slots, st, gr)) IN
                n > 0 /\ slots \subseteq Enqueue(q, slots, st, gr)[n].slots
<1> DEFINE new == [stamp |-> st, grace |-> gr, slots |-> slots]
           e == Enqueue(q, slots, st, gr)
<1>1. CASE slots = {}
  BY <1>1 DEF Enqueue
<1>2. CASE slots # {} /\ q # <<>> /\ Cardinality(q[Len(q)].slots) + Cardinality(slots) <= CoalesceSlots
  <2> DEFINE n == Len(q)
             m == [stamp |-> Larger(q[n].stamp, st), grace |-> Larger(q[n].grace, gr),
                   slots |-> q[n].slots \cup slots]
  <2>1. e = [q EXCEPT ![n] = m]
    BY <1>2 DEF Enqueue
  <2>2. n \in DOMAIN q /\ q[n] \in Batches
    BY <1>2
  <2>3. m \in Batches /\ m.stamp >= q[n].stamp /\ m.stamp >= st /\ m.grace >= q[n].grace /\ m.grace >= gr
        /\ m.slots = q[n].slots \cup slots
    BY <2>2 DEF Batches, Larger, Trees
  <2> HIDE DEF m
  <2>4. e \in Seq(Batches) /\ DOMAIN e = DOMAIN q /\ Len(e) = n /\ e[n] = m
        /\ \A i \in DOMAIN q : i # n => e[i] = q[i]
    BY <2>1, <2>2, <2>3
  <2> QED
    BY <2>2, <2>3, <2>4
<1>3. CASE slots # {} /\ ~(q # <<>> /\ Cardinality(q[Len(q)].slots) + Cardinality(slots) <= CoalesceSlots)
  <2>1. e = Append(q, new)
    BY <1>3 DEF Enqueue
  <2>2. new \in Batches
    BY DEF Batches
  <2> HIDE DEF new
  <2>3. e \in Seq(Batches) /\ Len(e) = Len(q) + 1 /\ e[Len(q) + 1] = new
        /\ \A i \in DOMAIN q : e[i] = q[i]
    BY <2>1, <2>2
  <2> QED
    BY <2>3 DEF new
<1> QED
  BY <1>1, <1>2, <1>3

\* What that is to the slots: the pending ones are the old ones and the new,
\* still in one batch each.
LEMMA EnqueueSlots ==
  ASSUME NEW q \in Seq(Batches), NEW slots \in Trees, NEW st \in Nat, NEW gr \in Nat,
         Apart(q), slots \cap PendingIn(q) = {}
  PROVE  LET e == Enqueue(q, slots, st, gr) IN
         /\ e \in Seq(Batches) /\ Apart(e)
         /\ \A x : x \in PendingIn(e) <=> x \in PendingIn(q) \/ x \in slots
<1> DEFINE e == Enqueue(q, slots, st, gr)
<1> HIDE DEF e
<1>1. e \in Seq(Batches) /\ DOMAIN q \subseteq DOMAIN e
  BY EnqueueBatches DEF e
<1>2. \A i \in DOMAIN e :
        \/ i \in DOMAIN q /\ e[i] = q[i]
        \/ i \in DOMAIN q /\ i = Len(e) /\ e[i].slots = q[i].slots \cup slots
        \/ i \notin DOMAIN q /\ i = Len(e) /\ e[i].slots = slots
  BY EnqueueBatches DEF e
<1>3. slots # {} => Len(e) > 0 /\ slots \subseteq e[Len(e)].slots
  BY EnqueueBatches DEF e
<1>4. Apart(e)
  <2> SUFFICES ASSUME NEW i \in DOMAIN e, NEW j \in DOMAIN e, i # j,
                      NEW x, x \in e[i].slots, x \in e[j].slots
               PROVE  FALSE
    BY DEF Apart
  <2>1. \A k \in DOMAIN e : x \in e[k].slots =>
          (k \in DOMAIN q /\ x \in q[k].slots) \/ (k = Len(e) /\ x \in slots)
    BY <1>2
  <2>2. \A k \in DOMAIN q : x \in q[k].slots => x \notin slots
    BY DEF PendingIn
  <2> QED
    BY <2>1, <2>2 DEF Apart
<1>5. ASSUME NEW x PROVE x \in PendingIn(e) <=> x \in PendingIn(q) \/ x \in slots
  <2>1. x \in PendingIn(e) => x \in PendingIn(q) \/ x \in slots
    BY <1>2 DEF PendingIn
  <2>2. x \in slots => x \in PendingIn(e)
    BY <1>1, <1>3 DEF PendingIn
  <2>3. x \in PendingIn(q) => x \in PendingIn(e)
    <3> SUFFICES ASSUME NEW i \in DOMAIN q, x \in q[i].slots PROVE x \in PendingIn(e)
      BY DEF PendingIn
    <3>1. i \in DOMAIN e /\ x \in e[i].slots
      BY <1>1, <1>2
    <3> QED
      BY <3>1 DEF PendingIn
  <2> QED
    BY <2>1, <2>2, <2>3
<1> QED
  BY <1>1, <1>4, <1>5 DEF e

\* A slot is due no earlier than it was, or than the phase given to enqueue();
\* stamped likewise.
LEMMA EnqueueDue ==
  ASSUME NEW q \in Seq(Batches), NEW slots \in Trees, NEW st \in Nat, NEW gr \in Nat,
         NEW x, NEW g \in Nat
  PROVE  LET e == Enqueue(q, slots, st, gr) IN
         /\ DueFrom(q, x, g) /\ (x \in slots => g <= gr) => DueFrom(e, x, g)
         /\ StampedAfter(q, x, g) /\ (x \in slots => g < st) => StampedAfter(e, x, g)
<1> DEFINE e == Enqueue(q, slots, st, gr)
<1> HIDE DEF e
<1>0. \A p \in Seq(Batches) : \A i \in DOMAIN p : p[i].stamp \in Nat /\ p[i].grace \in Nat
  <2> SUFFICES ASSUME NEW p \in Seq(Batches), NEW i \in DOMAIN p
               PROVE  p[i].stamp \in Nat /\ p[i].grace \in Nat
    OBVIOUS
  <2>1. p[i] \in Batches
    OBVIOUS
  <2> QED
    BY <2>1 DEF Batches
<1>1. e \in Seq(Batches) /\ \A i \in DOMAIN e : e[i].stamp \in Nat /\ e[i].grace \in Nat
  <2>1. e \in Seq(Batches)
    BY EnqueueBatches DEF e
  <2> QED
    BY <1>0, <2>1
<1>2. \A i \in DOMAIN q : q[i].stamp \in Nat /\ q[i].grace \in Nat
  BY <1>0
<1>3. \A i \in DOMAIN e :
        \/ i \in DOMAIN q /\ e[i] = q[i]
        \/ /\ i \in DOMAIN q /\ e[i].slots = q[i].slots \cup slots
           /\ e[i].stamp >= q[i].stamp /\ e[i].grace >= q[i].grace
           /\ e[i].stamp >= st /\ e[i].grace >= gr
        \/ e[i].stamp = st /\ e[i].grace = gr /\ e[i].slots = slots
  BY EnqueueBatches DEF e
<1>4. ASSUME DueFrom(q, x, g), x \in slots => g <= gr, NEW i \in DOMAIN e, x \in e[i].slots
      PROVE  g <= e[i].grace
  BY <1>1, <1>2, <1>3, <1>4 DEF DueFrom
<1>5. ASSUME StampedAfter(q, x, g), x \in slots => g < st, NEW i \in DOMAIN e, x \in e[i].slots
      PROVE  g < e[i].stamp
  <2>1. e[i].stamp \in Nat /\ (i \in DOMAIN q => q[i].stamp \in Nat)
    BY <1>1, <1>2, <1>5
  <2>2. \/ i \in DOMAIN q /\ x \in q[i].slots /\ e[i].stamp >= q[i].stamp
        \/ x \in slots /\ e[i].stamp >= st
    BY <1>2, <1>3, <1>5
  <2>3. i \in DOMAIN q /\ x \in q[i].slots => g < q[i].stamp
    BY <1>5 DEF StampedAfter
  <2> QED
    BY <1>5, <2>1, <2>2, <2>3
<1> QED
  BY <1>4, <1>5 DEF DueFrom, StampedAfter, e

\* Freeing the batch at the front.
LEMMA FreeBatch ==
  ASSUME NEW q \in Seq(Batches), q # <<>>, Apart(q)
  PROVE  /\ Head(q) \in Batches /\ Tail(q) \in Seq(Batches) /\ Apart(Tail(q))
         /\ \A x : x \in PendingIn(q) <=> x \in Head(q).slots \/ x \in PendingIn(Tail(q))
         /\ \A x : ~(x \in Head(q).slots /\ x \in PendingIn(Tail(q)))
         /\ \A x, g : DueFrom(q, x, g) =>
              DueFrom(Tail(q), x, g) /\ (x \in Head(q).slots => g <= Head(q).grace)
         /\ \A x, e : StampedAfter(q, x, e) =>
              StampedAfter(Tail(q), x, e) /\ (x \in Head(q).slots => e < Head(q).stamp)
<1> DEFINE t == Tail(q)
<1>1. /\ t \in Seq(Batches) /\ Len(q) \in Nat \ {0} /\ Len(t) = Len(q) - 1
      /\ DOMAIN q = 1 .. Len(q) /\ DOMAIN t = 1 .. Len(t)
      /\ \A i \in DOMAIN t : t[i] = q[i + 1]
  OBVIOUS
<1>2. Head(q) = q[1] /\ 1 \in DOMAIN q /\ q[1] \in Batches
  BY <1>1
<1> HIDE DEF t
<1>3. \A i \in DOMAIN t : i + 1 \in DOMAIN q /\ i + 1 # 1 /\ t[i] = q[i + 1]
  BY <1>1
<1>4. \A i \in DOMAIN q : i # 1 => i - 1 \in DOMAIN t /\ t[i - 1] = q[i]
  <2> SUFFICES ASSUME NEW i \in DOMAIN q, i # 1 PROVE i - 1 \in DOMAIN t /\ t[i - 1] = q[i]
    OBVIOUS
  <2>1. i - 1 \in DOMAIN t /\ (i - 1) + 1 = i
    BY <1>1
  <2> QED
    BY <1>3, <2>1
<1>5. Apart(t)
  <2> SUFFICES ASSUME NEW i \in DOMAIN t, NEW j \in DOMAIN t, i # j
               PROVE  t[i].slots \cap t[j].slots = {}
    BY DEF Apart
  <2>1. i + 1 # j + 1
    BY <1>1
  <2> QED
    BY <1>3, <2>1 DEF Apart
<1>6. \A x : x \in PendingIn(q) <=> x \in q[1].slots \/ x \in PendingIn(t)
  BY <1>2, <1>3, <1>4 DEF PendingIn
<1>7. ASSUME NEW x, x \in q[1].slots, x \in PendingIn(t) PROVE FALSE
  <2>1. PICK i \in DOMAIN t : x \in t[i].slots
    BY <1>7 DEF PendingIn
  <2> QED
    BY <1>2, <1>3, <1>7, <2>1 DEF Apart
<1>8. \A x, g : DueFrom(q, x, g) => DueFrom(t, x, g) /\ (x \in q[1].slots => g <= q[1].grace)
  BY <1>2, <1>3 DEF DueFrom
<1>9. \A x, e : StampedAfter(q, x, e) =>
        StampedAfter(t, x, e) /\ (x \in q[1].slots => e < q[1].stamp)
  BY <1>2, <1>3 DEF StampedAfter
<1> QED
  BY <1>1, <1>2, <1>5, <1>6, <1>7, <1>8, <1>9 DEF t

\* A slot no batch of the queue has is due at no phase at all.
LEMMA NotWaiting ==
  ASSUME NEW q, NEW x, x \notin PendingIn(q)
  PROVE  \A n : DueFrom(q, x, n) /\ StampedAfter(q, x, n)
BY DEF PendingIn, DueFrom, StampedAfter

-----------------------------------------------------------------------------
(* Types.                                                                  *)

LEMMA TypeInit == Init => TypeOK
<1> SUFFICES ASSUME Init PROVE TypeOK
  OBVIOUS
<1> USE RecyclerAssumption DEF Init, EmptyTable, Trees, Slots, Snapshots, Batches, InsertKinds
<1>1. /\ phase \in Nat /\ epoch \in Nat /\ bump \in 0..NumSlots
      /\ free \in Trees /\ leaked \in Trees /\ young \in Seq(Batches) /\ old \in Seq(Batches)
      /\ ystart \in Nat /\ stamp \in Nat /\ log \in Trees /\ mark \in Nat /\ base \in Trees
      /\ touched \subseteq Vertices /\ kind \in InsertKinds /\ op \in Vertices
      /\ cur \in Trees /\ fresh \in Trees /\ steps \in Nat
      /\ wmin \in Nat /\ pass \in {0, 1} /\ unread \subseteq Stripes
      /\ held \subseteq Handles /\ dropping \subseteq Snapshots
  OBVIOUS
<1>2. /\ rpc \in [Readers -> {"out", "steered", "in", "walk"}]
      /\ bucket \in [Readers -> {0, 1}] /\ rtree \in [Readers -> Trees]
      /\ live \in [Vertices -> Trees] /\ vis \in [Vertices -> SUBSET Trees]
      /\ latest \in Snapshots /\ snap \in [Handles -> Snapshots]
  OBVIOUS
<1>3. poisoned \in BOOLEAN /\ walFailed \in BOOLEAN /\ retried \in BOOLEAN
  BY Zenon
<1> QED
  BY <1>1, <1>2, <1>3, Zenon DEF TypeOK

ReaderTypes ==
  /\ rpc \in [Readers -> {"out", "steered", "in", "walk"}]
  /\ bucket \in [Readers -> {0, 1}] /\ rtree \in [Readers -> Trees]
PinTypes ==
  /\ epoch \in Nat /\ latest \in Snapshots /\ dropping \subseteq Snapshots
  /\ held \subseteq Handles /\ snap \in [Handles -> Snapshots]
RootTypes == live \in [Vertices -> Trees] /\ vis \in [Vertices -> SUBSET Trees]
ArenaTypes ==
  /\ bump \in 0..NumSlots /\ free \in Trees /\ leaked \in Trees
  /\ young \in Seq(Batches) /\ old \in Seq(Batches)
GuardTypes ==
  /\ ystart \in Nat /\ stamp \in Nat /\ log \in Trees /\ mark \in Nat /\ base \in Trees
  /\ touched \subseteq Vertices /\ walFailed \in BOOLEAN /\ poisoned \in BOOLEAN
OpTypes ==
  /\ kind \in InsertKinds /\ op \in Vertices /\ cur \in Trees /\ fresh \in Trees
  /\ steps \in Nat /\ retried \in BOOLEAN
ScanTypes == wmin \in Nat /\ pass \in {0, 1} /\ unread \subseteq Stripes /\ phase \in Nat
PcTypes ==
  /\ wpc \in {"idle", "open", "alloc", "full", "built", "chain", "retire", "reclaim",
              "advance", "scan", "drain", "dropPrev", "commitReclaim", "release"}
  /\ wret \in {"idle", "full", "alloc", "open", "commitReclaim", "release"}
Types ==
  /\ ReaderTypes /\ PinTypes /\ RootTypes /\ ArenaTypes
  /\ GuardTypes /\ OpTypes /\ ScanTypes /\ PcTypes

LEMMA TypeParts == TypeOK <=> Types
BY Zenon
DEF Types, TypeOK, ReaderTypes, PinTypes, RootTypes, ArenaTypes, GuardTypes, OpTypes,
    ScanTypes, PcTypes

LEMMA TypeFrames ==
  ASSUME Types
  PROVE  /\ UNCHANGED <<rpc, bucket, rtree>> => ReaderTypes'
         /\ UNCHANGED commitVars => PinTypes'
         /\ UNCHANGED rootVars => RootTypes'
         /\ UNCHANGED arenaVars => ArenaTypes'
         /\ UNCHANGED guardVars => GuardTypes'
         /\ UNCHANGED opVars => OpTypes'
         /\ UNCHANGED <<scanVars, phase>> => ScanTypes'
         /\ UNCHANGED <<wpc, wret>> => PcTypes'
<1> USE DEF Types
<1>1. UNCHANGED <<rpc, bucket, rtree>> => ReaderTypes'
  BY DEF ReaderTypes
<1>2. UNCHANGED commitVars => PinTypes'
  BY DEF PinTypes, commitVars
<1>3. UNCHANGED rootVars => RootTypes'
  BY DEF RootTypes, rootVars
<1>4. UNCHANGED arenaVars => ArenaTypes'
  BY DEF ArenaTypes, arenaVars
<1>5. UNCHANGED guardVars => GuardTypes'
  BY Zenon DEF GuardTypes, guardVars
<1>6. UNCHANGED opVars => OpTypes'
  BY Zenon DEF OpTypes, opVars
<1>7. UNCHANGED <<scanVars, phase>> => ScanTypes'
  BY DEF ScanTypes, scanVars
<1>8. UNCHANGED <<wpc, wret>> => PcTypes'
  BY DEF PcTypes
<1> QED
  BY <1>1, <1>2, <1>3, <1>4, <1>5, <1>6, <1>7, <1>8

LEMMA ReaderTypeStep ==
  ASSUME Types, NEW r \in Readers, ReaderStep(r)
  PROVE  Types'
<1>1. UNCHANGED <<phase, rootVars, commitVars, arenaVars, guardVars, opVars, scanVars, wpc, wret>>
  BY DEF ReaderStep, Steer, Enter, LoadRoot, Leave
<1>2. ReaderTypes'
  <2> USE DEF Types, ReaderTypes
  <2>1. CASE Steer(r)
    <3>1. PICK p \in 0..phase : bucket' = [bucket EXCEPT ![r] = p % 2]
      BY <2>1 DEF Steer
    <3>2. p % 2 \in {0, 1}
      BY <3>1 DEF ScanTypes
    <3> QED
      BY <2>1, <3>1, <3>2 DEF Steer
  <2>2. CASE Enter(r)
    BY <2>2 DEF Enter
  <2>3. CASE LoadRoot(r)
    BY <2>3 DEF LoadRoot, RootTypes
  <2>4. CASE Leave(r)
    BY <2>4 DEF Leave, Trees
  <2> QED
    BY <2>1, <2>2, <2>3, <2>4 DEF ReaderStep
<1> QED
  BY <1>1, <1>2, TypeFrames DEF Types

LEMMA SnapshotTypeStep ==
  ASSUME Types, SnapshotStep \/ TickClock
  PROVE  Types'
<1>1. UNCHANGED <<gateVars, rootVars, arenaVars, guardVars, opVars, scanVars, wpc, wret>>
  BY DEF SnapshotStep, Acquire, DropSnapshot, CloneSnapshot, snapshotFrame, TickClock
<1>2. PinTypes'
  <2> USE DEF Types, PinTypes, snapshotFrame
  <2>1. ASSUME NEW h \in Handles, Acquire(h) PROVE PinTypes'
    BY <2>1 DEF Acquire
  <2>2. ASSUME NEW h \in Handles, NEW g \in Handles, CloneSnapshot(h, g) PROVE PinTypes'
    BY <2>2 DEF CloneSnapshot
  <2>3. ASSUME NEW h \in Handles, DropSnapshot(h) PROVE PinTypes'
    <3>1. [epoch |-> 0, table |-> EmptyTable] \in Snapshots
      BY DEF Snapshots, EmptyTable, Trees
    <3> QED
      BY <2>3, <3>1 DEF DropSnapshot
  <2>4. CASE TickClock
    BY <2>4 DEF TickClock
  <2> QED
    BY <2>1, <2>2, <2>3, <2>4 DEF SnapshotStep
<1> QED
  BY <1>1, <1>2, TypeFrames DEF Types, gateVars

\* An insert touches neither the readers, the pins nor the scan.
LEMMA InsertFrame ==
  ASSUME InsertStep
  PROVE  UNCHANGED <<gateVars, commitVars, young, old, ystart, stamp, poisoned, scanVars>>
BY DEF InsertStep, BeginInsert, AllocFree, AllocBump, AllocExhausted, AllocReclaimed, RebalanceFails,
       ArenaFull, TreeStep, ChainNext, InsertDuplicate, AppendFails, Publish, allocFrame, arenaVars,
       guardVars

LEMMA EndInsertTypes == ASSUME Types, EndInsert PROVE OpTypes' /\ mark' \in Nat /\ base' \in Trees
<1>1. kind' \in InsertKinds /\ op' \in Vertices /\ cur' \in Trees /\ fresh' \in Trees /\ steps' \in Nat
      /\ mark' \in Nat /\ base' \in Trees
  BY DEF EndInsert, Types, OpTypes, InsertKinds, Trees
<1>2. retried' \in BOOLEAN
  BY Zenon DEF EndInsert
<1> QED
  BY <1>1, <1>2, Zenon DEF OpTypes

LEMMA InsertTypeStep == ASSUME Types, InsertStep PROVE Types'
<1>1. ReaderTypes' /\ PinTypes' /\ ScanTypes'
  BY InsertFrame, TypeFrames DEF gateVars
<1> SUFFICES RootTypes' /\ ArenaTypes' /\ GuardTypes' /\ OpTypes' /\ PcTypes'
  BY <1>1 DEF Types
<1> USE DEF Types
<1>2. ASSUME NEW v \in Vertices, NEW k \in Kinds, BeginInsert(v, k)
      PROVE  RootTypes' /\ ArenaTypes' /\ GuardTypes' /\ OpTypes' /\ PcTypes'
  <2>1. RootTypes' /\ ArenaTypes'
    BY <1>2, TypeFrames DEF BeginInsert
  <2>2. kind' \in InsertKinds /\ op' \in Vertices /\ cur' \in Trees /\ fresh' \in Trees /\ steps' \in Nat
    BY <1>2, RecyclerAssumption DEF BeginInsert, OpTypes, RootTypes
  <2>3. IsFiniteSet(log) /\ Cardinality(log) \in Nat
    <3>1. IsFiniteSet(Slots)
      BY RecyclerAssumption, FS_Interval DEF Slots
    <3> QED
      BY <3>1, FS_Subset, FS_CardinalityType DEF GuardTypes, Trees
  <2>4. mark' \in Nat /\ base' \in Trees /\ log' \in Trees /\ ystart' \in Nat /\ stamp' \in Nat
        /\ touched' \subseteq Vertices
    BY <1>2, <2>3 DEF BeginInsert, GuardTypes
  <2>5. OpTypes' /\ GuardTypes'
    BY <1>2, <2>2, <2>4, Zenon DEF BeginInsert, GuardTypes, OpTypes
  <2> QED
    BY <1>2, <2>1, <2>5 DEF BeginInsert, PcTypes
<1>3. CASE AllocFree \/ AllocBump \/ AllocExhausted \/ AllocReclaimed \/ RebalanceFails \/ ChainNext
  <2> USE DEF AllocFree, AllocBump, AllocExhausted, AllocReclaimed, RebalanceFails, ChainNext, allocFrame
  <2>1. RootTypes' /\ GuardTypes' /\ UNCHANGED <<kind, op, cur, steps, retried, leaked>>
    BY <1>3, TypeFrames
  <2>2. bump' \in 0..NumSlots /\ free' \in Trees /\ fresh' \in Trees
    <3> USE RecyclerAssumption DEF ArenaTypes, OpTypes, Trees, Slots
    <3>1. CASE AllocFree \/ AllocReclaimed
      BY <3>1
    <3>2. CASE AllocBump
      BY <3>2
    <3>3. CASE AllocExhausted \/ RebalanceFails \/ ChainNext
      BY <3>3
    <3> QED
      BY <1>3, <3>1, <3>2, <3>3
  <2>3. ArenaTypes'
    BY <1>3, <2>1, <2>2 DEF ArenaTypes
  <2>4. OpTypes'
    BY <2>1, <2>2, Zenon DEF OpTypes
  <2> QED
    BY <1>3, <2>1, <2>3, <2>4 DEF PcTypes
<1>4. CASE ArenaFull
  <2>1. RootTypes' /\ UNCHANGED <<bump, free, young, old, ystart, stamp, touched, walFailed, poisoned>>
    BY <1>4, TypeFrames DEF ArenaFull
  <2>2. log' \in Trees /\ leaked' \in Trees
    BY <1>4 DEF ArenaFull, Truncations, GuardTypes, ArenaTypes, OpTypes, Trees
  <2>3. ArenaTypes'
    BY <2>1, <2>2 DEF ArenaTypes
  <2>4. CASE retried
    <3>1. EndInsert /\ wpc' = "open" /\ wret' = wret
      BY <1>4, <2>4 DEF ArenaFull
    <3>2. GuardTypes'
      BY <3>1, EndInsertTypes, <2>1, <2>2, Zenon DEF GuardTypes
    <3> QED
      BY <3>1, <3>2, EndInsertTypes, <2>1, <2>3 DEF PcTypes
  <2>5. CASE ~retried
    <3>1. /\ retried' = TRUE /\ wpc' = "retire" /\ wret' = "alloc" /\ cur' = live[op] /\ fresh' = {}
          /\ steps' = 0 /\ base' = {} /\ mark' = (IF kind = "path" THEN mark ELSE 0)
          /\ UNCHANGED <<kind, op>>
      BY <1>4, <2>5 DEF ArenaFull
    <3>2. cur' \in Trees /\ fresh' \in Trees /\ steps' \in Nat /\ base' \in Trees /\ mark' \in Nat
      BY <3>1 DEF OpTypes, GuardTypes, RootTypes, Trees
    <3>3. OpTypes'
      BY <3>1, <3>2, Zenon DEF OpTypes
    <3>4. GuardTypes'
      BY <3>1, <3>2, <2>1, <2>2, Zenon DEF GuardTypes
    <3> QED
      BY <3>1, <3>3, <3>4, <2>1, <2>3 DEF PcTypes
  <2> QED
    BY <2>4, <2>5
<1>5. CASE TreeStep
  <2>1. /\ RootTypes'
        /\ UNCHANGED <<bump, free, young, old, ystart, stamp, mark, base, touched, walFailed, poisoned,
                       kind, op, retried, wret>>
        /\ fresh' = {} /\ steps' = steps + 1 /\ wpc' = "chain"
    BY <1>5, TypeFrames DEF TreeStep
  <2>2. cur' \in Trees /\ log' \in Trees /\ leaked' \in Trees
    BY <1>5 DEF TreeStep, OpTypes, GuardTypes, ArenaTypes, Trees
  <2>3. fresh' \in Trees /\ steps' \in Nat
    BY <2>1 DEF OpTypes, Trees
  <2>4. ArenaTypes'
    BY <2>1, <2>2 DEF ArenaTypes
  <2>5. OpTypes' /\ GuardTypes'
    BY <2>1, <2>2, <2>3, Zenon DEF OpTypes, GuardTypes
  <2> QED
    BY <2>1, <2>4, <2>5 DEF PcTypes
<1>6. CASE InsertDuplicate
  <2>1. RootTypes' /\ ArenaTypes'
    BY <1>6, TypeFrames DEF InsertDuplicate
  <2>2. OpTypes' /\ mark' \in Nat /\ base' \in Trees
    BY <1>6, EndInsertTypes DEF InsertDuplicate
  <2>3. GuardTypes'
    BY <1>6, <2>2, Zenon DEF InsertDuplicate, GuardTypes
  <2> QED
    BY <1>6, <2>1, <2>2, <2>3 DEF InsertDuplicate, PcTypes
<1>7. CASE AppendFails
  <2>1. RootTypes' /\ UNCHANGED <<bump, free, young, old, ystart, stamp, touched, poisoned>>
    BY <1>7, TypeFrames DEF AppendFails
  <2>2. log' \in Trees /\ leaked' \in Trees
    BY <1>7 DEF AppendFails, Truncations, GuardTypes, ArenaTypes, OpTypes, Trees
  <2>3. OpTypes' /\ mark' \in Nat /\ base' \in Trees
    BY <1>7, EndInsertTypes DEF AppendFails
  <2>4. walFailed' = TRUE
    BY <1>7 DEF AppendFails
  <2>5. GuardTypes'
    BY <2>1, <2>2, <2>3, <2>4, Zenon DEF GuardTypes
  <2> QED
    BY <1>7, <2>1, <2>2, <2>3, <2>5 DEF AppendFails, ArenaTypes, PcTypes
<1>8. CASE Publish
  <2>1. ArenaTypes' /\ UNCHANGED <<ystart, stamp, walFailed, poisoned>>
    BY <1>8, TypeFrames DEF Publish
  <2>2. RootTypes'
    BY <1>8 DEF Publish, RootTypes, OpTypes
  <2>3. log' \in Trees /\ touched' \subseteq Vertices
    BY <1>8 DEF Publish, GuardTypes, RootTypes, OpTypes, Trees
  <2>4. OpTypes' /\ mark' \in Nat /\ base' \in Trees
    BY <1>8, EndInsertTypes DEF Publish
  <2>5. GuardTypes'
    BY <2>1, <2>3, <2>4, Zenon DEF GuardTypes
  <2> QED
    BY <1>8, <2>1, <2>2, <2>4, <2>5 DEF Publish, PcTypes
<1> QED
  BY <1>2, <1>3, <1>4, <1>5, <1>6, <1>7, <1>8 DEF InsertStep

LEMMA BatchQueues ==
  ASSUME NEW q \in Seq(Batches), q # <<>>
  PROVE  Head(q) \in Batches /\ Tail(q) \in Seq(Batches) /\ Head(q).slots \in Trees
<1>1. Head(q) \in Batches
  OBVIOUS
<1> QED
  BY <1>1 DEF Batches

LEMMA ReclaimTypeStep == ASSUME Types, ReclaimStep PROVE Types'
<1>1. UNCHANGED <<rpc, bucket, rtree, live, commitVars, bump, leaked, opVars>>
  BY DEF ReclaimStep, Retire, ReclaimReady, Fence, ScanStripe, StorePhase, DrainYoung, DrainOld,
         DrainDone, gateVars, rootVars, arenaVars, scanFrame, drainFrame
<1>2. ReaderTypes' /\ PinTypes' /\ OpTypes'
  BY <1>1, TypeFrames
<1> SUFFICES RootTypes' /\ ArenaTypes' /\ GuardTypes' /\ ScanTypes' /\ PcTypes'
  BY <1>2 DEF Types
<1> USE DEF Types
<1>3. CASE Retire
  <2>1. RootTypes' /\ ScanTypes' /\ UNCHANGED <<bump, free, leaked, ystart, stamp, mark, base,
                                               touched, walFailed, poisoned>>
    BY <1>3, TypeFrames DEF Retire, gateVars
  <2>2. stamp \in Nat /\ phase + 2 \in Nat /\ young \in Seq(Batches) /\ old \in Seq(Batches)
        /\ {s \in log : s >= ystart} \in Trees /\ {s \in log : s < ystart} \in Trees
    BY DEF GuardTypes, ScanTypes, ArenaTypes, Trees
  <2>3. young' \in Seq(Batches) /\ old' \in Seq(Batches)
    BY <1>3, <2>2, EnqueueBatches DEF Retire
  <2>4. log' \in Trees
    BY <1>3 DEF Retire, Trees
  <2>5. ArenaTypes'
    BY <2>1, <2>3 DEF ArenaTypes
  <2>6. GuardTypes'
    BY <2>1, <2>4, Zenon DEF GuardTypes
  <2> QED
    BY <1>3, <2>1, <2>5, <2>6 DEF Retire, PcTypes
<1>4. CASE ReclaimReady
  <2>1. RootTypes' /\ ArenaTypes' /\ GuardTypes'
    BY <1>4, TypeFrames DEF ReclaimReady
  <2>2. PICK m \in 0..epoch :
          LET need == YoungNeed \cup OldNeed(m) IN
            IF need = {} THEN wpc' = wret /\ wret' = "idle" /\ UNCHANGED wmin
            ELSE /\ wmin' = m
                 /\ wpc' = IF \E g \in need : phase < g THEN "advance" ELSE "drain"
                 /\ UNCHANGED wret
    BY <1>4 DEF ReclaimReady
  <2>3. wmin' \in Nat /\ PcTypes'
    BY <2>2 DEF PcTypes, ScanTypes, PinTypes
  <2> QED
    BY <1>4, <2>1, <2>3 DEF ReclaimReady, ScanTypes, gateVars
<1>5. CASE Fence
  <2>1. ArenaTypes' /\ GuardTypes'
    BY <1>5, TypeFrames DEF Fence
  <2>2. RootTypes'
    BY <1>5 DEF Fence, RootTypes
  <2> QED
    BY <1>5, <2>1, <2>2 DEF Fence, ScanTypes, PcTypes, gateVars
<1>6. ASSUME NEW st \in Stripes, ScanStripe(st)
      PROVE  RootTypes' /\ ArenaTypes' /\ GuardTypes' /\ ScanTypes' /\ PcTypes'
  <2>1. ArenaTypes' /\ GuardTypes' /\ RootTypes'
    BY <1>6, TypeFrames DEF ScanStripe, scanFrame
  <2> QED
    BY <1>6, <2>1 DEF ScanStripe, scanFrame, ScanTypes, PcTypes
<1>7. CASE StorePhase
  <2>1. ArenaTypes' /\ GuardTypes' /\ RootTypes'
    BY <1>7, TypeFrames DEF StorePhase, scanFrame
  <2> QED
    BY <1>7, <2>1 DEF StorePhase, scanFrame, ScanTypes, PcTypes
<1>8. CASE DrainYoung \/ DrainOld
  <2>1. GuardTypes' /\ RootTypes' /\ ScanTypes' /\ PcTypes' /\ UNCHANGED <<bump, leaked>>
    BY <1>8, TypeFrames DEF DrainYoung, DrainOld, drainFrame, ScanTypes, gateVars, PcTypes
  <2>2. free' \in Trees /\ young' \in Seq(Batches) /\ old' \in Seq(Batches)
    <3>1. CASE DrainYoung
      <4>1. Tail(young) \in Seq(Batches) /\ Head(young).slots \in Trees
        BY <3>1, BatchQueues DEF DrainYoung, YoungReady, ArenaTypes
      <4> QED
        BY <3>1, <4>1 DEF DrainYoung, ArenaTypes, Trees
    <3>2. CASE DrainOld
      <4>1. Tail(old) \in Seq(Batches) /\ Head(old).slots \in Trees
        BY <3>2, BatchQueues DEF DrainOld, OldReady, ArenaTypes
      <4> QED
        BY <3>2, <4>1 DEF DrainOld, ArenaTypes, Trees
    <3> QED
      BY <1>8, <3>1, <3>2
  <2> QED
    BY <2>1, <2>2 DEF ArenaTypes
<1>9. CASE DrainDone
  <2>1. GuardTypes' /\ RootTypes' /\ ArenaTypes'
    BY <1>9, TypeFrames DEF DrainDone, drainFrame, arenaVars
  <2> QED
    BY <1>9, <2>1 DEF DrainDone, drainFrame, ScanTypes, PcTypes, gateVars
<1> QED
  BY <1>3, <1>4, <1>5, <1>6, <1>7, <1>8, <1>9 DEF ReclaimStep

LEMMA GuardTypeStep == ASSUME Types, GuardStep PROVE Types'
<1>1. UNCHANGED <<gateVars, rootVars, bump, free, young, old, scanVars, held, snap>>
  BY DEF GuardStep, OpenGuard, Commit, DropPrev, CommitReclaim, Release, Poison, commitVars, arenaVars
<1>2. ReaderTypes' /\ RootTypes' /\ ScanTypes'
  BY <1>1, TypeFrames DEF gateVars
<1> SUFFICES PinTypes' /\ ArenaTypes' /\ GuardTypes' /\ OpTypes' /\ PcTypes'
  BY <1>2 DEF Types
<1> USE DEF Types
<1>3. CASE OpenGuard
  <2>1. PinTypes' /\ ArenaTypes' /\ OpTypes'
    BY <1>3, TypeFrames DEF OpenGuard
  <2>2. ystart' \in Nat /\ stamp' \in Nat /\ UNCHANGED <<log, mark, base, touched, walFailed, poisoned>>
    BY <1>3 DEF OpenGuard, ArenaTypes, PinTypes
  <2>3. GuardTypes'
    BY <2>2, Zenon DEF GuardTypes
  <2> QED
    BY <1>3, <2>1, <2>3 DEF OpenGuard, PcTypes
<1>4. CASE Commit
  <2>1. ArenaTypes' /\ OpTypes' /\ UNCHANGED <<ystart, log, mark, base, walFailed, poisoned>>
    BY <1>4, TypeFrames DEF Commit
  <2>2. stamp' \in Nat /\ touched' \subseteq Vertices /\ epoch' \in Nat
    BY <1>4 DEF Commit, PinTypes
  <2>3. latest' \in Snapshots /\ dropping' \subseteq Snapshots
    <3>1. CASE touched = {}
      BY <1>4, <3>1 DEF Commit, PinTypes
    <3>2. CASE touched # {}
      <4> DEFINE t == [v \in Vertices |-> IF v \in touched THEN live[v] ELSE latest.table[v]]
      <4>1. t \in [Vertices -> Trees]
        BY DEF PinTypes, RootTypes, Snapshots
      <4>2. latest' = [epoch |-> epoch + 1, table |-> t] /\ dropping' = {latest}
        BY <1>4, <3>2 DEF Commit
      <4> HIDE DEF t
      <4> QED
        BY <4>1, <4>2 DEF Snapshots, PinTypes
    <3> QED
      BY <3>1, <3>2
  <2>4. GuardTypes'
    BY <2>1, <2>2, Zenon DEF GuardTypes
  <2> QED
    BY <1>1, <1>4, <2>1, <2>2, <2>3, <2>4 DEF Commit, PcTypes, PinTypes
<1>5. CASE DropPrev
  BY <1>5, TypeFrames DEF DropPrev, PcTypes, PinTypes
<1>6. CASE CommitReclaim \/ Release
  BY <1>6, TypeFrames DEF CommitReclaim, Release, PcTypes
<1>7. CASE Poison
  <2>1. PinTypes' /\ UNCHANGED <<bump, free, young, old, ystart, stamp>>
    BY <1>7, TypeFrames DEF Poison
  <2>2. leaked' \in Trees /\ log' \in Trees /\ touched' \subseteq Vertices
    BY <1>7 DEF Poison, ArenaTypes, GuardTypes, OpTypes, Trees
  <2>3. OpTypes' /\ mark' \in Nat /\ base' \in Trees
    BY <1>7, EndInsertTypes DEF Poison
  <2>4. poisoned' = TRUE /\ walFailed' = FALSE
    BY <1>7 DEF Poison
  <2>5. GuardTypes'
    BY <2>1, <2>2, <2>3, <2>4, Zenon DEF GuardTypes
  <2> QED
    BY <1>7, <2>1, <2>2, <2>3, <2>5 DEF Poison, ArenaTypes, PcTypes
<1> QED
  BY <1>3, <1>4, <1>5, <1>6, <1>7 DEF GuardStep

\* Every step keeps the types.
LEMMA TypeStep == Types /\ [Next]_vars => Types'
<1> SUFFICES ASSUME Types, [Next]_vars PROVE Types'
  OBVIOUS
<1>1. CASE UNCHANGED vars
  BY <1>1, TypeFrames DEF vars, gateVars, Types
<1> QED
  BY <1>1, ReaderTypeStep, SnapshotTypeStep, InsertTypeStep, ReclaimTypeStep, GuardTypeStep DEF Next

-----------------------------------------------------------------------------
(* Control, commits and epochs: whatever the insert paths do.              *)

LEMMA ControlFrame ==
  ASSUME ControlOK, UNCHANGED <<wpc, wret, cur, fresh, base, steps, retried, log>>
  PROVE  ControlOK'
BY Zenon DEF ControlOK, Inserting, InTree, PreCommit

\* Only these steps move the guard.
LEMMA ControlStep == Types /\ ControlOK /\ [Next]_vars => ControlOK'
<1> SUFFICES ASSUME Types, ControlOK, [Next]_vars PROVE ControlOK'
  OBVIOUS
<1>1. CASE UNCHANGED vars
  BY <1>1, ControlFrame DEF vars, opVars, guardVars
<1>2. ASSUME NEW r \in Readers, ReaderStep(r) PROVE ControlOK'
  BY <1>2, ControlFrame DEF ReaderStep, Steer, Enter, LoadRoot, Leave, opVars, guardVars
<1>3. CASE SnapshotStep \/ TickClock
  BY <1>3, ControlFrame
  DEF SnapshotStep, Acquire, DropSnapshot, CloneSnapshot, snapshotFrame, TickClock, opVars, guardVars
<1> USE DEF ControlOK, Inserting, InTree, PreCommit, Subroutine
<1>4. ASSUME NEW v \in Vertices, NEW k \in Kinds, BeginInsert(v, k) PROVE ControlOK'
  BY <1>4 DEF BeginInsert
<1>5. CASE AllocFree \/ AllocBump \/ AllocExhausted \/ AllocReclaimed
  BY <1>5 DEF AllocFree, AllocBump, AllocExhausted, AllocReclaimed, allocFrame, guardVars
<1>6. CASE RebalanceFails \/ ChainNext
  BY <1>6 DEF RebalanceFails, ChainNext, allocFrame, guardVars
<1>7. CASE TreeStep
  BY <1>7 DEF TreeStep
<1>8. CASE InsertDuplicate
  BY <1>8 DEF InsertDuplicate, EndInsert
<1>9. CASE ArenaFull
  BY <1>9 DEF ArenaFull, EndInsert
<1>10. CASE AppendFails
  BY <1>10 DEF AppendFails, EndInsert
<1>11. CASE Publish
  BY <1>11 DEF Publish, EndInsert
<1>12. CASE Retire
  BY <1>12 DEF Retire, opVars, Types, PcTypes
<1>13. CASE ReclaimReady
  BY <1>13 DEF ReclaimReady, opVars, guardVars, Types, PcTypes
<1>14. CASE Fence
  BY <1>14 DEF Fence, opVars, guardVars
<1>15. ASSUME NEW st \in Stripes, ScanStripe(st) PROVE ControlOK'
  BY <1>15 DEF ScanStripe, scanFrame, opVars, guardVars
<1>16. CASE StorePhase
  BY <1>16 DEF StorePhase, scanFrame, opVars, guardVars
<1>17. CASE DrainYoung \/ DrainOld
  BY <1>17 DEF DrainYoung, DrainOld, drainFrame, opVars, guardVars
<1>18. CASE DrainDone
  BY <1>18 DEF DrainDone, drainFrame, opVars, guardVars, Types, PcTypes
<1>19. CASE OpenGuard \/ CommitReclaim \/ Release
  BY <1>19 DEF OpenGuard, CommitReclaim, Release, opVars, guardVars
<1>20. CASE Commit \/ DropPrev
  BY <1>20 DEF Commit, DropPrev, opVars, guardVars
<1>21. CASE Poison
  BY <1>21 DEF Poison, EndInsert
<1> QED
  BY <1>1, <1>2, <1>3, <1>4, <1>5, <1>6, <1>7, <1>8, <1>9, <1>10, <1>11, <1>12, <1>13, <1>14,
     <1>15, <1>16, <1>17, <1>18, <1>19, <1>20, <1>21, Zenon
  DEF Next, InsertStep, ReclaimStep, GuardStep

\* A commit replaces the graph's snapshot; nothing else pins a new one.
Commits ==
  /\ wpc = "open" /\ ~walFailed /\ touched # {}
  /\ latest' = [epoch |-> epoch + 1,
                table |-> [v \in Vertices |-> IF v \in touched THEN live[v] ELSE latest.table[v]]]
  /\ Pinned' \subseteq Pinned \cup {latest'}

LEMMA PinnedStep ==
  ASSUME Types, [Next]_vars
  PROVE  \/ latest' = latest /\ Pinned' \subseteq Pinned
         \/ Commit /\ Commits
<1> USE DEF Pinned
<1>1. CASE UNCHANGED commitVars
  BY <1>1 DEF commitVars
<1>2. CASE UNCHANGED vars
  BY <1>1, <1>2 DEF vars
<1>3. ASSUME NEW r \in Readers, ReaderStep(r) PROVE UNCHANGED commitVars
  BY <1>3 DEF ReaderStep, Steer, Enter, LoadRoot, Leave
<1>4. ASSUME NEW h \in Handles, Acquire(h) PROVE latest' = latest /\ Pinned' \subseteq Pinned
  BY <1>4 DEF Acquire, snapshotFrame, Types, PinTypes
<1>5. ASSUME NEW h \in Handles, DropSnapshot(h) PROVE latest' = latest /\ Pinned' \subseteq Pinned
  BY <1>5 DEF DropSnapshot, snapshotFrame, Types, PinTypes
<1>6. ASSUME NEW h \in Handles, NEW g \in Handles, CloneSnapshot(h, g)
      PROVE latest' = latest /\ Pinned' \subseteq Pinned
  BY <1>6 DEF CloneSnapshot, snapshotFrame, Types, PinTypes
<1>7. CASE TickClock \/ DropPrev
  BY <1>7 DEF TickClock, DropPrev
<1>8. CASE InsertStep
  BY <1>1, <1>8, InsertFrame
<1>9. CASE ReclaimStep
  <2>1. UNCHANGED commitVars
    BY <1>9 DEF ReclaimStep, Retire, ReclaimReady, Fence, ScanStripe, StorePhase, DrainYoung, DrainOld,
         DrainDone, scanFrame, drainFrame
  <2> QED
    BY <1>1, <2>1
<1>10. CASE OpenGuard \/ CommitReclaim \/ Release \/ Poison
  BY <1>1, <1>10 DEF OpenGuard, CommitReclaim, Release, Poison
<1>11. CASE Commit
  <2>1. CASE touched = {}
    BY <1>11, <2>1 DEF Commit
  <2>2. CASE touched # {}
    BY <1>11, <2>2 DEF Commit, Commits
  <2> QED
    BY <2>1, <2>2
<1> QED
  BY <1>1, <1>2, <1>3, <1>4, <1>5, <1>6, <1>7, <1>8, <1>9, <1>10, <1>11, Zenon
  DEF Next, SnapshotStep, GuardStep

\* The snapshot a guard leaves behind.
LEMMA CommitStep == Types /\ ControlOK /\ CommitOK /\ [Next]_vars => CommitOK'
<1> SUFFICES ASSUME Types, ControlOK, CommitOK, [Next]_vars PROVE CommitOK'
  OBVIOUS
<1> USE DEF CommitOK, PreCommit, Inserting, InTree
<1>0. CASE UNCHANGED <<wpc, wret, poisoned, touched, latest, live>>
  BY <1>0, Zenon
<1>1. CASE UNCHANGED vars
  BY <1>0, <1>1 DEF vars, guardVars, commitVars, rootVars
<1>2. ASSUME NEW r \in Readers, ReaderStep(r) PROVE CommitOK'
  BY <1>0, <1>2 DEF ReaderStep, Steer, Enter, LoadRoot, Leave, guardVars, commitVars, rootVars
<1>3. CASE SnapshotStep \/ TickClock
  BY <1>0, <1>3 DEF SnapshotStep, Acquire, DropSnapshot, CloneSnapshot, snapshotFrame, TickClock,
                    guardVars, commitVars, rootVars
<1>4. CASE InsertStep
  <2>1. UNCHANGED <<latest, poisoned>>
    BY <1>4, InsertFrame DEF commitVars
  <2>2. CASE Publish
    <3>1. wpc = "chain" /\ touched' = touched \cup {op} /\ live' = [live EXCEPT ![op] = cur]
          /\ (wpc' = "open" \/ (wpc' = "retire" /\ wret' = "open"))
      BY <2>2 DEF Publish
    <3>2. \A v \in Vertices \ touched' : live'[v] = live[v] /\ v \notin touched
      BY <3>1 DEF Types, RootTypes
    <3> QED
      BY <2>1, <3>1, <3>2
  <2>3. ASSUME NEW v \in Vertices, NEW k \in Kinds, BeginInsert(v, k)
        PROVE  UNCHANGED <<touched, live>> /\ PreCommit /\ PreCommit' /\ wpc # "idle"
    BY <2>3 DEF BeginInsert, rootVars
  <2>4. ASSUME AllocFree \/ AllocBump \/ AllocExhausted \/ AllocReclaimed \/ RebalanceFails
                 \/ ArenaFull \/ TreeStep \/ ChainNext \/ InsertDuplicate \/ AppendFails
        PROVE  UNCHANGED <<touched, live>> /\ PreCommit /\ PreCommit' /\ wpc # "idle"
    BY <2>4 DEF AllocFree, AllocBump, AllocExhausted, AllocReclaimed, RebalanceFails, ArenaFull,
                TreeStep, ChainNext, InsertDuplicate, AppendFails, allocFrame, guardVars, rootVars
  <2>5. UNCHANGED <<touched, live>> /\ PreCommit /\ PreCommit' /\ wpc # "idle" => CommitOK'
    BY <2>1
  <2> QED
    BY <1>4, <2>2, <2>3, <2>4, <2>5, Zenon DEF InsertStep
<1>5. CASE ReclaimStep
  <2>1. UNCHANGED <<touched, live, latest, poisoned>>
    BY <1>5 DEF ReclaimStep, Retire, ReclaimReady, Fence, ScanStripe, StorePhase, DrainYoung, DrainOld,
         DrainDone, scanFrame, drainFrame, commitVars, guardVars, rootVars
  <2>2. wpc \in Subroutine
    BY <1>5 DEF ReclaimStep, Retire, ReclaimReady, Fence, ScanStripe, StorePhase, DrainYoung, DrainOld,
         DrainDone, Subroutine
  <2>3. (wpc' \in Subroutine /\ wret' = wret) \/ wpc' = wret
    BY <1>5 DEF ReclaimStep, Retire, ReclaimReady, Fence, ScanStripe, StorePhase, DrainYoung, DrainOld,
         DrainDone, Subroutine, scanFrame, drainFrame
  <2>4. PreCommit => PreCommit'
    BY <2>2, <2>3 DEF ControlOK, Subroutine
  <2> QED
    BY <2>1, <2>2, <2>4 DEF Subroutine
<1>6. CASE OpenGuard
  BY <1>6 DEF OpenGuard, commitVars, rootVars
<1>7. CASE Commit
  BY <1>7 DEF Commit, rootVars, Types, PinTypes, Snapshots
<1>8. CASE DropPrev \/ CommitReclaim \/ Release
  BY <1>8 DEF DropPrev, CommitReclaim, Release, commitVars, guardVars, rootVars, ControlOK, Subroutine
<1>9. CASE Poison
  BY <1>9 DEF Poison
<1> QED
  BY <1>1, <1>2, <1>3, <1>4, <1>5, <1>6, <1>7, <1>8, <1>9, Zenon DEF Next, GuardStep

PinnedTypes == \A s \in Pinned : s \in Snapshots /\ s.epoch \in Nat /\ s.table \in [Vertices -> Trees]

LEMMA PinnedTyped == Types => PinnedTypes
<1> SUFFICES ASSUME Types, NEW s \in Pinned
             PROVE  s \in Snapshots /\ s.epoch \in Nat /\ s.table \in [Vertices -> Trees]
  BY DEF PinnedTypes
<1>1. s \in Snapshots
  BY DEF Pinned, Types, PinTypes
<1> QED
  BY <1>1 DEF Snapshots

\* Pins survive the steps that neither commit nor open a guard nor read the
\* pinned minimum.
LEMMA EpochsFrame ==
  ASSUME Types, EpochsOK, Pinned' \subseteq Pinned, epoch' \in Nat, epoch <= epoch', stamp' = stamp,
         PreCommit' => PreCommit,
         wpc' \in {"advance", "scan", "drain"} =>
           wmin' = wmin /\ wpc \in {"advance", "scan", "drain"}
  PROVE  EpochsOK'
<1>1. ASSUME PreCommit' PROVE stamp' <= epoch' + 1
  <2>1. epoch \in Nat /\ stamp \in Nat
    BY DEF Types, PinTypes, GuardTypes
  <2>2. stamp <= epoch + 1
    BY <1>1 DEF EpochsOK
  <2>3. \A a, b, c \in Nat : a <= b + 1 /\ b <= c => a <= c + 1
    OBVIOUS
  <2> QED
    BY <2>1, <2>2, <2>3
<1>2. ASSUME NEW s \in Pinned'
      PROVE  /\ s.epoch <= epoch'
             /\ PreCommit' => s.epoch < stamp'
             /\ wpc' \in {"advance", "scan", "drain"} => wmin' <= s.epoch
  <2>1. s \in Pinned /\ s.epoch \in Nat /\ epoch \in Nat
    BY PinnedTyped DEF PinnedTypes, Types, PinTypes
  <2> QED
    BY <2>1 DEF EpochsOK
<1> QED
  BY <1>1, <1>2 DEF EpochsOK

LEMMA EpochsStep == Types /\ Types' /\ ControlOK /\ EpochsOK /\ [Next]_vars => EpochsOK'
<1> SUFFICES ASSUME Types, Types', ControlOK, EpochsOK, [Next]_vars PROVE EpochsOK'
  OBVIOUS
<1>0. epoch \in Nat /\ stamp \in Nat /\ epoch' \in Nat
  BY DEF Types, PinTypes, GuardTypes
<1> DEFINE Scan == {"advance", "scan", "drain"}
<1>1. (Pinned' \subseteq Pinned) /\ epoch <= epoch' /\ stamp' = stamp /\ (PreCommit' => PreCommit)
      /\ (wpc' \in Scan => wmin' = wmin /\ wpc \in Scan) => EpochsOK'
  BY <1>0, EpochsFrame
<1> USE DEF PreCommit, Inserting, InTree
<1>2. CASE UNCHANGED vars
  BY <1>0, <1>1, <1>2, PinnedStep DEF vars, guardVars, commitVars, scanVars, Pinned
<1>3. ASSUME NEW r \in Readers, ReaderStep(r) PROVE EpochsOK'
  <2>1. UNCHANGED <<commitVars, guardVars, scanVars, wpc, wret>>
    BY <1>3 DEF ReaderStep, Steer, Enter, LoadRoot, Leave
  <2> QED
    BY <1>0, <1>1, <2>1 DEF guardVars, commitVars, scanVars, Pinned
<1>4. CASE SnapshotStep \/ TickClock
  <2>1. UNCHANGED <<guardVars, scanVars, wpc, wret, latest>> /\ epoch <= epoch'
    BY <1>0, <1>4 DEF SnapshotStep, Acquire, DropSnapshot, CloneSnapshot, snapshotFrame, TickClock
  <2>2. Pinned' \subseteq Pinned
    <3>1. ~Commit
      BY <1>4 DEF SnapshotStep, Acquire, DropSnapshot, CloneSnapshot, snapshotFrame, TickClock, Commit
    <3> QED
      BY <3>1, PinnedStep DEF Next
  <2> QED
    BY <1>0, <1>1, <2>1, <2>2 DEF guardVars, scanVars
<1>5. CASE InsertStep
  <2>1. UNCHANGED <<commitVars, scanVars, stamp>>
    BY <1>5, InsertFrame
  <2>2. PreCommit /\ wpc' \notin Scan
    BY <1>5 DEF InsertStep, BeginInsert, AllocFree, AllocBump, AllocExhausted, AllocReclaimed,
                RebalanceFails, ArenaFull, TreeStep, ChainNext, InsertDuplicate, AppendFails, Publish
  <2> QED
    BY <1>0, <1>1, <2>1, <2>2 DEF commitVars, scanVars, Pinned
<1>6. CASE ReclaimStep
  <2>1. UNCHANGED <<commitVars, stamp>>
    BY <1>6 DEF ReclaimStep, Retire, ReclaimReady, Fence, ScanStripe, StorePhase, DrainYoung, DrainOld,
         DrainDone, scanFrame, drainFrame, guardVars
  <2>2. PreCommit' => PreCommit
    <3>1. (wpc' \in Subroutine /\ wret' = wret) \/ (wpc' = wret /\ wret' = "idle")
      BY <1>6 DEF ReclaimStep, Retire, ReclaimReady, Fence, ScanStripe, StorePhase, DrainYoung, DrainOld,
         DrainDone, scanFrame, drainFrame, Subroutine
    <3> QED
      BY <3>1 DEF Subroutine, Types, PcTypes
  <2>3. CASE ReclaimReady
    <3>1. \A s \in Pinned : s.epoch \in Nat /\ (wpc' \in Scan => wmin' <= s.epoch)
      BY <2>3, PinnedTyped DEF ReclaimReady, IsMinPinned, PinnedTypes, ControlOK, Subroutine, Types, PcTypes
    <3>2. Pinned' = Pinned
      BY <2>1 DEF Pinned, commitVars
    <3> QED
      BY <2>1, <2>2, <3>1, <3>2 DEF EpochsOK, commitVars
  <2>4. CASE ~ReclaimReady
    <3>1. wpc' \in Scan => wmin' = wmin /\ wpc \in Scan
      BY <1>6, <2>4 DEF ReclaimStep, Retire, Fence, ScanStripe, StorePhase, DrainYoung, DrainOld,
         DrainDone, scanFrame, drainFrame, scanVars, Types, PcTypes
    <3> QED
      BY <1>0, <1>1, <2>1, <2>2, <3>1 DEF commitVars, Pinned
  <2> QED
    BY <2>3, <2>4
<1>7. CASE OpenGuard
  <2>1. stamp' = epoch + 1 /\ epoch' = epoch /\ Pinned' = Pinned /\ wpc' = "open"
    BY <1>7 DEF OpenGuard, commitVars, Pinned
  <2>2. \A s \in Pinned : s.epoch \in Nat
    BY PinnedTyped DEF PinnedTypes
  <2> QED
    BY <1>0, <2>1, <2>2 DEF EpochsOK
<1>8. CASE Commit
  <2>1. epoch' = epoch + 1 /\ wpc' = "dropPrev" /\ ~PreCommit'
    BY <1>8 DEF Commit, ControlOK, Subroutine
  <2>2. \A s \in Pinned : s.epoch \in Nat /\ s.epoch <= epoch
    BY PinnedTyped DEF PinnedTypes, EpochsOK
  <2>3. Commits => latest'.epoch = epoch + 1
    BY DEF Commits
  <2>4. ASSUME NEW s \in Pinned' PROVE s.epoch <= epoch'
    BY <1>0, <2>1, <2>2, <2>3, <2>4, PinnedStep DEF Commits
  <2> QED
    BY <2>1, <2>4 DEF EpochsOK
<1>9. CASE DropPrev \/ CommitReclaim \/ Release
  <2>1. epoch' = epoch /\ stamp' = stamp /\ wpc' \notin Scan /\ ~PreCommit'
    BY <1>9 DEF DropPrev, CommitReclaim, Release, commitVars, guardVars, ControlOK, Subroutine
  <2>2. Pinned' \subseteq Pinned
    BY <1>9, PinnedStep DEF DropPrev, CommitReclaim, Release, Commit
  <2> QED
    BY <1>0, <1>1, <2>1, <2>2
<1>10. CASE Poison
  <2>1. UNCHANGED <<commitVars, stamp>> /\ wpc' = "idle" /\ ~PreCommit'
    BY <1>10 DEF Poison, ControlOK, Subroutine
  <2> QED
    BY <1>0, <1>1, <2>1 DEF commitVars, Pinned
<1> QED
  BY <1>2, <1>3, <1>4, <1>5, <1>6, <1>7, <1>8, <1>9, <1>10, Zenon DEF Next, GuardStep

-----------------------------------------------------------------------------
(* Inserts and owners: as long as no path-copying batch fails twice.       *)

LEMMA LogFinite == Types => IsFiniteSet(log) /\ Cardinality(log) \in Nat
<1>1. IsFiniteSet(Slots)
  BY RecyclerAssumption, FS_Interval DEF Slots
<1> QED
  BY <1>1, FS_Subset, FS_CardinalityType DEF Types, GuardTypes, Trees

\* A truncation takes the log back to what it was before the insert.
LEMMA TruncatedToBase ==
  ASSUME Types, InsertOK, ~(kind = "path" /\ retried), NEW k \in Truncations
  PROVE  k = base
<1>1. IsFiniteSet(log) /\ Cardinality(log) \in Nat
  BY LogFinite
<1>2. base \subseteq log /\ mark = Cardinality(base)
  BY DEF InsertOK
<1>3. /\ IsFiniteSet(base) /\ Cardinality(base) \in Nat /\ Cardinality(base) <= Cardinality(log)
  BY <1>1, <1>2, FS_Subset, FS_CardinalityType
<1>4. /\ k \subseteq log /\ base \subseteq k
      /\ Cardinality(k) = IF mark < Cardinality(log) THEN mark ELSE Cardinality(log)
  BY DEF Truncations
<1>5. Cardinality(k) = Cardinality(base)
  BY <1>1, <1>2, <1>3, <1>4
<1>6. IsFiniteSet(k)
  BY <1>1, <1>4, FS_Subset
<1> QED
  BY <1>4, <1>5, <1>6, FS_Subset

LEMMA InsertEnded ==
  ASSUME EndInsert, wpc' = "open" \/ wpc' = "idle" \/ (wpc' = "retire" /\ wret' = "open"),
         wret' \notin {"full", "alloc"}
  PROVE  InsertOK'
<1>1. mark' = 0 /\ base' = {} /\ ~retried' /\ ~Inserting'
  BY DEF EndInsert, Inserting, InTree
<1>2. Cardinality({}) = 0
  BY FS_EmptySet
<1> QED
  BY <1>1, <1>2 DEF InsertOK

LEMMA InsertInvFrame ==
  ASSUME InsertOK, UNCHANGED <<opVars, log, mark, base, live>>,
         Inserting' <=> Inserting, InTree' => InTree, wpc' = "chain" <=> wpc = "chain"
  PROVE  InsertOK'
BY DEF InsertOK, opVars

LEMMA InsertInvStep ==
  Types /\ ControlOK /\ InsertOK /\ Ownership /\ [Next]_vars /\ ~PathRetryFails => InsertOK'
<1> SUFFICES ASSUME Types, ControlOK, InsertOK, Ownership, [Next]_vars, ~PathRetryFails PROVE InsertOK'
  OBVIOUS
<1>1. CASE UNCHANGED vars
  BY <1>1, InsertInvFrame DEF vars, guardVars, rootVars, Inserting, InTree
<1>2. ASSUME NEW r \in Readers, ReaderStep(r) PROVE InsertOK'
  BY <1>2, InsertInvFrame DEF ReaderStep, Steer, Enter, LoadRoot, Leave, guardVars, rootVars, Inserting, InTree
<1>3. CASE SnapshotStep \/ TickClock
  BY <1>3, InsertInvFrame
  DEF SnapshotStep, Acquire, DropSnapshot, CloneSnapshot, snapshotFrame, TickClock, guardVars, rootVars,
      Inserting, InTree
<1>4. ASSUME NEW v \in Vertices, NEW k \in Kinds, BeginInsert(v, k) PROVE InsertOK'
  BY <1>4 DEF BeginInsert, InsertOK, rootVars, Inserting, InTree, ControlOK, Subroutine
<1>5. CASE AllocFree \/ AllocBump \/ AllocExhausted \/ AllocReclaimed \/ RebalanceFails \/ ChainNext
  <2> USE DEF AllocFree, AllocBump, AllocExhausted, AllocReclaimed, RebalanceFails, ChainNext,
              allocFrame, guardVars, rootVars, Inserting, InTree, InsertOK
  <2>1. CASE AllocFree \/ AllocBump \/ AllocExhausted \/ AllocReclaimed
    BY <1>5, <2>1
  <2>2. CASE RebalanceFails \/ ChainNext
    BY <1>5, <2>2
  <2> QED
    BY <1>5, <2>1, <2>2
<1>6. CASE TreeStep
  <2>1. PICK kept \in SUBSET fresh, gone \in SUBSET cur :
          /\ cur' = (cur \ gone) \cup kept
          /\ log \subseteq log'
          /\ kind = "rebuild" => kept = fresh /\ gone = cur
          /\ kind # "rebuild" => gone \subseteq log'
    BY <1>6 DEF TreeStep
  <2>2. /\ steps' = steps + 1 /\ steps' # 0 /\ wpc' = "chain" /\ Inserting /\ wpc # "chain"
        /\ UNCHANGED <<mark, base, kind, op, retried, live>> /\ Inserting'
    BY <1>6 DEF TreeStep, rootVars, Inserting, InTree, Types, OpTypes
  <2>3. kind = "rebuild" => cur' \cap live[op] = {}
    <3>1. ASSUME kind = "rebuild", NEW x \in Slots, x \in cur', x \in live[op] PROVE FALSE
      BY <2>1, <3>1 DEF Ownership, OneHome, OffRoots, OnRoots, Types, OpTypes
    <3> QED
      BY <2>1, <3>1 DEF Types, OpTypes, Trees
  <2>4. kind # "rebuild" => live[op] \subseteq cur' \cup log'
    BY <2>1, <2>2 DEF InsertOK
  <2> QED
    BY <2>1, <2>2, <2>3, <2>4 DEF InsertOK
<1>7. CASE InsertDuplicate \/ AppendFails \/ Publish \/ Poison
  <2>1. wret = "idle"
    BY <1>7 DEF ControlOK, Subroutine, InsertDuplicate, AppendFails, Publish, Poison
  <2> QED
    BY <1>7, <2>1, InsertEnded DEF InsertDuplicate, AppendFails, Publish, Poison
<1>8. CASE ArenaFull
  <2>0. wret = "idle"
    BY <1>8 DEF ControlOK, Subroutine, ArenaFull
  <2>1. CASE retried
    BY <1>8, <2>0, <2>1, InsertEnded DEF ArenaFull
  <2>2. CASE ~retried
    <3>1. /\ wpc' = "retire" /\ wret' = "alloc" /\ cur' = live[op] /\ steps' = 0 /\ base' = {}
          /\ mark' = (IF kind = "path" THEN mark ELSE 0) /\ retried' = TRUE
          /\ UNCHANGED <<kind, op, live>>
      BY <1>8, <2>2 DEF ArenaFull, rootVars
    <3>2. Cardinality({}) = 0
      BY FS_EmptySet
    <3> QED
      BY <3>1, <3>2 DEF InsertOK, Inserting, InTree
  <2> QED
    BY <2>1, <2>2
<1>9. CASE Retire
  <2>1. UNCHANGED <<opVars, mark, base, live>> /\ log' = {} /\ wpc = "retire"
        /\ \/ wpc' = wret /\ wret' = "idle"
           \/ wpc' = "reclaim" /\ wret' = wret
    BY <1>9 DEF Retire, rootVars
  <2>2. base = {} /\ (Inserting => wret = "alloc" /\ steps = 0)
    BY <2>1 DEF ControlOK, Inserting, InTree, Subroutine
  <2>3. Inserting' => Inserting
    BY <2>1, <2>2 DEF ControlOK, Inserting, InTree, Subroutine, Types, PcTypes
  <2>4. wpc' # "chain"
    BY <2>1 DEF Types, PcTypes
  <2>5. Inserting <=> Inserting'
    BY <2>1, <2>2, <2>3 DEF Inserting, InTree
  <2> QED
    BY <2>1, <2>2, <2>4, <2>5 DEF InsertOK, opVars
<1>10. CASE ReclaimReady \/ DrainDone
  <2>1. UNCHANGED <<opVars, mark, base, live, log>> /\ wpc \in Subroutine \ {"retire"}
        /\ \/ wpc' = wret /\ wret' = "idle"
           \/ wpc' \in Subroutine /\ wret' = wret
    BY <1>10 DEF ReclaimReady, DrainDone, drainFrame, rootVars, guardVars, Subroutine
  <2>2. Inserting' <=> Inserting
    BY <2>1 DEF Inserting, InTree, Subroutine, Types, PcTypes
  <2>3. wpc # "chain" /\ wpc' # "chain"
    BY <2>1 DEF Subroutine, Types, PcTypes
  <2>4. InTree' => InTree \/ log = base
    BY <2>1 DEF Inserting, InTree, Subroutine, Types, PcTypes, ControlOK
  <2> QED
    BY <2>1, <2>2, <2>3, <2>4 DEF InsertOK, opVars
<1>11. CASE Fence \/ StorePhase \/ DrainYoung \/ DrainOld
  BY <1>11, InsertInvFrame
  DEF Fence, StorePhase, DrainYoung, DrainOld, scanFrame, drainFrame, rootVars, guardVars, Inserting, InTree
<1>12. ASSUME NEW st \in Stripes, ScanStripe(st) PROVE InsertOK'
  BY <1>12, InsertInvFrame DEF ScanStripe, scanFrame, rootVars, guardVars, Inserting, InTree
<1>13. CASE OpenGuard \/ Commit \/ DropPrev \/ CommitReclaim \/ Release
  <2>1. ~Inserting /\ ~Inserting' /\ UNCHANGED <<opVars, mark, base, live, log>>
    BY <1>13 DEF OpenGuard, Commit, DropPrev, CommitReclaim, Release, rootVars, guardVars, Inserting,
                 InTree, ControlOK, Subroutine
  <2> QED
    BY <2>1 DEF InsertOK, opVars
<1> QED
  BY <1>1, <1>2, <1>3, <1>4, <1>5, <1>6, <1>7, <1>8, <1>9, <1>10, <1>11, <1>12, <1>13, Zenon
  DEF Next, InsertStep, ReclaimStep, GuardStep

ownVars == <<bump, free, fresh, leaked, log, cur, young, old, live, op, base>>

LEMMA OwnershipFrame ==
  ASSUME Ownership, UNCHANGED ownVars, InTree => InTree'
  PROVE  Ownership'
<1>1. \A x : Waiting(x)' = Waiting(x)
  BY DEF Waiting, ownVars
<1>2. \A x \in Slots : (x \in Used <=> Homed(x)) /\ OneHome(x)
  BY DEF Ownership
<1>3. Apart(young)' /\ Apart(old)'
  BY DEF Ownership, ownVars, Apart
<1>4. ASSUME NEW x \in Slots PROVE (x \in Used' <=> Homed(x)') /\ OneHome(x)'
  BY <1>1, <1>2 DEF Used, Homed, OneHome, OffRoots, OnRoots, ownVars
<1> QED
  BY <1>3, <1>4 DEF Ownership

LEMMA OwnershipInserts ==
  ASSUME Types, ControlOK, InsertOK, Ownership, ~PathRetryFails, InsertStep
  PROVE  Ownership'
<1>0. UNCHANGED <<young, old>>
  BY InsertFrame
<1>1. \A x : Waiting(x)' = Waiting(x)
  BY <1>0 DEF Waiting
<1>2. \A x \in Slots : (x \in Used <=> Homed(x)) /\ OneHome(x)
  BY DEF Ownership
<1>3. Apart(young)' /\ Apart(old)'
  BY <1>0 DEF Ownership, Apart
<1> SUFFICES ASSUME NEW x \in Slots PROVE (x \in Used' <=> Homed(x)') /\ OneHome(x)'
  BY <1>3 DEF Ownership
<1> USE <1>0, <1>1, <1>2 DEF OneHome, OffRoots, OnRoots, Homed, Used, rootVars, allocFrame, guardVars, InTree
<1>4. ASSUME NEW v \in Vertices, NEW k \in Kinds, BeginInsert(v, k)
      PROVE  (x \in Used' <=> Homed(x)') /\ OneHome(x)'
  BY <1>4 DEF BeginInsert, arenaVars, ControlOK, Inserting, Subroutine
<1>5. CASE AllocFree \/ AllocReclaimed
  BY <1>5 DEF AllocFree, AllocReclaimed
<1>6. CASE AllocBump
  BY <1>6 DEF AllocBump, Types, ArenaTypes
<1>7. CASE AllocExhausted \/ RebalanceFails \/ ChainNext
  BY <1>7 DEF AllocExhausted, RebalanceFails, ChainNext
<1>8. CASE TreeStep
  <2>1. PICK kept \in SUBSET fresh, gone \in SUBSET cur :
          /\ cur' = (cur \ gone) \cup kept
          /\ \/ kind = "rebuild" /\ kept = fresh /\ gone = cur /\ log' = log /\ leaked' = leaked
             \/ kind # "rebuild" /\ log' = log \cup gone \cup (fresh \ kept) /\ leaked' = leaked
             \/ kind # "rebuild" /\ log' = log \cup gone /\ leaked' = leaked \cup (fresh \ kept)
    BY <1>8 DEF TreeStep
  <2>2. /\ fresh' = {} /\ UNCHANGED <<bump, free, live, op, base, kind>> /\ InTree /\ InTree'
        /\ kind = "rebuild" => cur = live[op]
    BY <1>8 DEF TreeStep, InsertOK, Inserting
  <2>3. x \in Used' <=> Homed(x)'
    BY <2>1, <2>2 DEF Types, OpTypes
  <2>4. OneHome(x)'
    BY <2>1, <2>2, <1>8 DEF InsertOK, TreeStep, Types, OpTypes
  <2> QED
    BY <2>3, <2>4
<1>9. CASE InsertDuplicate
  <2>1. cur = live[op] /\ log = base /\ fresh = {} /\ op \in Vertices
    BY <1>9 DEF InsertDuplicate, InsertOK, Inserting, Types, OpTypes
  <2>2. UNCHANGED <<bump, free, leaked, log, live, op>> /\ cur' = {} /\ fresh' = {} /\ base' = {}
    BY <1>9 DEF InsertDuplicate, EndInsert, arenaVars
  <2>3. x \in log => \A v \in Vertices : x \notin live[v]
    BY <2>1
  <2>4. x \in Used' <=> Homed(x)'
    BY <2>1, <2>2
  <2>5. OneHome(x)'
    BY <2>1, <2>2, <2>3
  <2> QED
    BY <2>4, <2>5
<1>10. CASE ArenaFull \/ AppendFails
  <2>1. op \in Vertices /\ InTree
    BY <1>10 DEF ArenaFull, AppendFails, Types, OpTypes
  <2>2. log' = base
    BY <1>10, TruncatedToBase DEF ArenaFull, AppendFails, PathRetryFails
  <2>3. leaked' = leaked \cup fresh \cup ((cur \cup log) \ (live[op] \cup base))
    <3>1. CASE ArenaFull
      BY <3>1, TruncatedToBase DEF ArenaFull, PathRetryFails
    <3>2. CASE AppendFails
      BY <3>2, TruncatedToBase DEF AppendFails, PathRetryFails, ControlOK
    <3> QED
      BY <1>10, <3>1, <3>2
  <2>4. UNCHANGED <<bump, free, live, op>> /\ fresh' = {} /\ base' = {} /\ (cur' = {} \/ cur' = live[op])
    BY <1>10 DEF ArenaFull, AppendFails, EndInsert
  <2>5. base \subseteq log /\ \A v \in Vertices : x \in base => x \notin live[v]
    BY DEF InsertOK
  <2>6. x \in Used' <=> Homed(x)'
    BY <2>1, <2>2, <2>3, <2>4, <2>5
  <2>7. OneHome(x)'
    BY <2>1, <2>2, <2>3, <2>4, <2>5
  <2> QED
    BY <2>6, <2>7
<1>11. CASE Publish
  <2>1. /\ op \in Vertices /\ fresh = {} /\ live \in [Vertices -> Trees]
        /\ base \subseteq log
        /\ kind # "rebuild" => live[op] \subseteq cur \cup log
        /\ kind = "rebuild" => cur \cap live[op] = {}
    BY <1>11 DEF Publish, ControlOK, InsertOK, Inserting, Types, OpTypes, RootTypes
  <2>2. /\ live' = [live EXCEPT ![op] = cur] /\ cur' = {} /\ base' = {} /\ fresh' = {}
        /\ log' = (IF kind = "rebuild" THEN log \cup live[op] ELSE log)
        /\ UNCHANGED <<bump, free, leaked, op>>
    BY <1>11 DEF Publish, EndInsert, arenaVars
  <2>3. \A v \in Vertices : live'[v] = IF v = op THEN cur ELSE live[v]
    BY <2>1, <2>2
  <2>4. x \in log' => \A v \in Vertices : x \notin live'[v]
    BY <2>1, <2>2, <2>3
  <2>5. x \in Used' <=> Homed(x)'
    BY <2>1, <2>2, <2>3
  <2>6. OneHome(x)'
    BY <2>1, <2>2, <2>3, <2>4
  <2> QED
    BY <2>5, <2>6
<1> QED
  BY <1>4, <1>5, <1>6, <1>7, <1>8, <1>9, <1>10, <1>11 DEF InsertStep

\* The log has nothing a root reaches when it is stamped.
LEMMA RetiredUnreachable ==
  ASSUME Types, ControlOK, Ownership, wpc = "retire"
  PROVE  ~InTree /\ \A x \in log : \A v \in Vertices : x \notin live[v]
<1>1. ~InTree
  BY DEF ControlOK, InTree
<1>2. log \subseteq Slots
  BY DEF Types, GuardTypes, Trees
<1> QED
  BY <1>1, <1>2 DEF Ownership, OneHome, OnRoots

\* retire() hands the whole log to the two queues.
LEMMA RetireSlots ==
  ASSUME Types, Ownership, Retire
  PROVE  /\ young' \in Seq(Batches) /\ old' \in Seq(Batches) /\ Apart(young') /\ Apart(old')
         /\ \A x : x \in PendingIn(young') <=> x \in PendingIn(young) \/ (x \in log /\ x >= ystart)
         /\ \A x : x \in PendingIn(old') <=> x \in PendingIn(old) \/ (x \in log /\ x < ystart)
         /\ log' = {} /\ UNCHANGED <<bump, free, fresh, leaked, cur, live, op, base>>
<1> DEFINE Y == {s \in log : s >= ystart}
           O == {s \in log : s < ystart}
           g == phase + 2
<1>1. /\ young \in Seq(Batches) /\ old \in Seq(Batches) /\ Y \in Trees /\ O \in Trees
      /\ stamp \in Nat /\ g \in Nat /\ log \subseteq Slots
  BY DEF Types, ArenaTypes, GuardTypes, ScanTypes, Trees
<1>2. Apart(young) /\ Apart(old) /\ \A x \in log : ~Waiting(x)
  BY <1>1 DEF Ownership, OneHome, OffRoots
<1>3. Y \cap PendingIn(young) = {} /\ O \cap PendingIn(old) = {}
  BY <1>2 DEF Waiting
<1>4. young' = Enqueue(young, Y, stamp, g) /\ old' = Enqueue(old, O, stamp, g)
      /\ log' = {} /\ UNCHANGED <<bump, free, fresh, leaked, cur, live, op, base>>
  BY DEF Retire, rootVars, opVars
<1>5. \A x : (x \in Y <=> x \in log /\ x >= ystart) /\ (x \in O <=> x \in log /\ x < ystart)
  OBVIOUS
<1> HIDE DEF Y, O, g
<1>6. /\ Enqueue(young, Y, stamp, g) \in Seq(Batches) /\ Apart(Enqueue(young, Y, stamp, g))
      /\ \A x : x \in PendingIn(Enqueue(young, Y, stamp, g)) <=> x \in PendingIn(young) \/ x \in Y
  BY ONLY <1>1, <1>2, <1>3, EnqueueSlots
<1>7. /\ Enqueue(old, O, stamp, g) \in Seq(Batches) /\ Apart(Enqueue(old, O, stamp, g))
      /\ \A x : x \in PendingIn(Enqueue(old, O, stamp, g)) <=> x \in PendingIn(old) \/ x \in O
  BY ONLY <1>1, <1>2, <1>3, EnqueueSlots
<1> QED
  BY <1>4, <1>5, <1>6, <1>7

LEMMA OwnershipRetire ==
  ASSUME Types, ControlOK, InsertOK, Ownership, Retire
  PROVE  Ownership'
<1>1. ~InTree /\ \A x \in log : \A v \in Vertices : x \notin live[v]
  BY RetiredUnreachable DEF Retire
<1>2. \A x \in Slots : (x \in Used <=> Homed(x)) /\ OneHome(x)
  BY DEF Ownership
<1>3. Apart(young)' /\ Apart(old)'
  BY RetireSlots DEF Apart
<1>4. ASSUME NEW x \in Slots PROVE (x \in Used' <=> Homed(x)') /\ OneHome(x)'
  <2>0. ystart \in Nat /\ x \in Nat
    BY RecyclerAssumption DEF Types, GuardTypes, Slots
  <2>1. /\ x \in PendingIn(young)' <=> x \in PendingIn(young) \/ (x \in log /\ x >= ystart)
        /\ x \in PendingIn(old)' <=> x \in PendingIn(old) \/ (x \in log /\ x < ystart)
    BY RetireSlots DEF PendingIn
  <2>2. log' = {} /\ UNCHANGED <<bump, free, fresh, leaked, cur, live, op, base>>
    BY RetireSlots
  <2>3. Waiting(x)' <=> Waiting(x) \/ x \in log
    BY <2>0, <2>1 DEF Waiting
  <2>4. ~(x \in PendingIn(young)' /\ x \in PendingIn(old)')
    BY <1>2, <2>0, <2>1 DEF OneHome, OffRoots, Waiting
  <2>5. x \in Used' <=> Homed(x)'
    BY <1>2, <2>2, <2>3 DEF Used, Homed
  <2>6. OffRoots(x)'
    BY <1>2, <2>2, <2>3, <2>4 DEF OneHome, OffRoots
  <2>7. OnRoots(x)'
    BY <1>1, <1>2, <2>2, <2>3 DEF OneHome, OnRoots
  <2> QED
    BY <2>5, <2>6, <2>7 DEF OneHome
<1> QED
  BY <1>3, <1>4 DEF Ownership

LEMMA OwnershipDrain ==
  ASSUME Types, Ownership, DrainYoung \/ DrainOld
  PROVE  Ownership'
<1>1. young \in Seq(Batches) /\ old \in Seq(Batches) /\ Apart(young) /\ Apart(old)
  BY DEF Types, ArenaTypes, Ownership
<1>2. \A x \in Slots : (x \in Used <=> Homed(x)) /\ OneHome(x)
  BY DEF Ownership
<1>3. UNCHANGED <<bump, fresh, leaked, log, cur, live, op, base, wpc, wret>>
  BY DEF DrainYoung, DrainOld, drainFrame, rootVars, guardVars, opVars
<1>4. PICK b : /\ Apart(young)' /\ Apart(old)' /\ free' = free \cup b
               /\ \A x : Waiting(x) <=> Waiting(x)' \/ x \in b
               /\ \A x \in Slots : ~(x \in b /\ Waiting(x)')
               /\ \A x : x \in PendingIn(young)' => x \in PendingIn(young)
               /\ \A x : x \in PendingIn(old)' => x \in PendingIn(old)
  <2>1. CASE DrainYoung
    <3>1. young # <<>> /\ young' = Tail(young) /\ old' = old /\ free' = free \cup Head(young).slots
      BY <2>1 DEF DrainYoung, YoungReady
    <3>2. /\ Apart(young') /\ Apart(old')
          /\ \A x : x \in PendingIn(young) <=> x \in Head(young).slots \/ x \in PendingIn(young')
          /\ \A x : ~(x \in Head(young).slots /\ x \in PendingIn(young'))
          /\ \A x : x \in PendingIn(old') <=> x \in PendingIn(old)
      BY <1>1, <3>1, FreeBatch
    <3>3. \A x \in Slots : ~(x \in Head(young).slots /\ Waiting(x)')
      BY <1>2, <3>2 DEF OneHome, OffRoots, Waiting, PendingIn
    <3>4. \A x : Waiting(x) <=> Waiting(x)' \/ x \in Head(young).slots
      BY <3>1, <3>2 DEF Waiting, PendingIn
    <3>5. /\ Apart(young)' /\ Apart(old)'
          /\ \A x : x \in PendingIn(young)' => x \in PendingIn(young)
          /\ \A x : x \in PendingIn(old)' => x \in PendingIn(old)
      BY <3>2 DEF Apart, PendingIn
    <3> QED
      BY <3>1, <3>3, <3>4, <3>5
  <2>2. CASE DrainOld
    <3>1. old # <<>> /\ old' = Tail(old) /\ young' = young /\ free' = free \cup Head(old).slots
      BY <2>2 DEF DrainOld, OldReady
    <3>2. /\ Apart(young') /\ Apart(old')
          /\ \A x : x \in PendingIn(old) <=> x \in Head(old).slots \/ x \in PendingIn(old')
          /\ \A x : ~(x \in Head(old).slots /\ x \in PendingIn(old'))
          /\ \A x : x \in PendingIn(young') <=> x \in PendingIn(young)
      BY <1>1, <3>1, FreeBatch
    <3>3. \A x \in Slots : ~(x \in Head(old).slots /\ Waiting(x)')
      BY <1>2, <3>2 DEF OneHome, OffRoots, Waiting, PendingIn
    <3>4. \A x : Waiting(x) <=> Waiting(x)' \/ x \in Head(old).slots
      BY <3>1, <3>2 DEF Waiting, PendingIn
    <3>5. /\ Apart(young)' /\ Apart(old)'
          /\ \A x : x \in PendingIn(young)' => x \in PendingIn(young)
          /\ \A x : x \in PendingIn(old)' => x \in PendingIn(old)
      BY <3>2 DEF Apart, PendingIn
    <3> QED
      BY <3>1, <3>3, <3>4, <3>5
  <2> QED
    BY <2>1, <2>2
<1>5. ASSUME NEW x \in Slots PROVE (x \in Used' <=> Homed(x)') /\ OneHome(x)'
  <2>1. InTree' <=> InTree
    BY <1>3 DEF InTree
  <2>2. x \in Used' <=> Homed(x)'
    BY <1>2, <1>3, <1>4 DEF Used, Homed
  <2>3. OffRoots(x)'
    BY <1>2, <1>3, <1>4 DEF OneHome, OffRoots
  <2>4. OnRoots(x)'
    BY <1>2, <1>3, <1>4, <2>1 DEF OneHome, OnRoots
  <2> QED
    BY <2>2, <2>3, <2>4 DEF OneHome
<1> QED
  BY <1>4, <1>5 DEF Ownership

\* Poisoning leaks what the insert and the log held.
LEMMA OwnershipPoison ==
  ASSUME Types, ControlOK, InsertOK, Ownership, Poison
  PROVE  Ownership'
<1>1. /\ leaked' = leaked \cup fresh \cup ((cur \cup log) \ live[op])
      /\ log' = {} /\ cur' = {} /\ fresh' = {} /\ base' = {}
      /\ UNCHANGED <<bump, free, young, old, live, op>> /\ op \in Vertices
  BY DEF Poison, EndInsert, rootVars, Types, OpTypes
<1>2. \A x \in Slots : (x \in Used <=> Homed(x)) /\ OneHome(x)
  BY DEF Ownership
<1>3. Apart(young)' /\ Apart(old)'
  BY <1>1 DEF Ownership, Apart
<1>4. ASSUME NEW x \in Slots PROVE (x \in Used' <=> Homed(x)') /\ OneHome(x)'
  <2>1. Waiting(x)' <=> Waiting(x)
    BY <1>1 DEF Waiting
  <2>2. x \in Used' <=> Homed(x)'
    BY <1>1, <1>2, <2>1 DEF Used, Homed
  <2>3. OffRoots(x)'
    BY <1>1, <1>2, <2>1 DEF OneHome, OffRoots
  <2>4. OnRoots(x)'
    BY <1>1, <1>2, <2>1 DEF OneHome, OnRoots
  <2> QED
    BY <2>2, <2>3, <2>4 DEF OneHome
<1> QED
  BY <1>3, <1>4 DEF Ownership

LEMMA OwnershipStep ==
  Types /\ ControlOK /\ InsertOK /\ Ownership /\ [Next]_vars /\ ~PathRetryFails => Ownership'
<1> SUFFICES ASSUME Types, ControlOK, InsertOK, Ownership, [Next]_vars, ~PathRetryFails
             PROVE  Ownership'
  OBVIOUS
<1> USE DEF ownVars, InTree, guardVars, rootVars, arenaVars, opVars
<1>1. CASE UNCHANGED vars
  BY <1>1, OwnershipFrame DEF vars
<1>2. ASSUME NEW r \in Readers, ReaderStep(r) PROVE Ownership'
  BY <1>2, OwnershipFrame DEF ReaderStep, Steer, Enter, LoadRoot, Leave
<1>3. CASE SnapshotStep \/ TickClock
  BY <1>3, OwnershipFrame DEF SnapshotStep, Acquire, DropSnapshot, CloneSnapshot, snapshotFrame, TickClock
<1>4. CASE ReclaimReady \/ DrainDone
  <2>1. UNCHANGED ownVars
    BY <1>4 DEF ReclaimReady, DrainDone, drainFrame
  <2>2. InTree => InTree'
    BY <1>4 DEF ReclaimReady, DrainDone, ControlOK, Subroutine
  <2> QED
    BY <2>1, <2>2, OwnershipFrame
<1>5. CASE Fence \/ StorePhase
  BY <1>5, OwnershipFrame DEF Fence, StorePhase, scanFrame
<1>6. ASSUME NEW st \in Stripes, ScanStripe(st) PROVE Ownership'
  BY <1>6, OwnershipFrame DEF ScanStripe, scanFrame
<1>7. CASE OpenGuard \/ Commit \/ DropPrev \/ CommitReclaim \/ Release
  <2>1. UNCHANGED ownVars
    BY <1>7 DEF OpenGuard, Commit, DropPrev, CommitReclaim, Release
  <2>2. ~InTree
    BY <1>7 DEF OpenGuard, Commit, DropPrev, CommitReclaim, Release, ControlOK, Subroutine
  <2> QED
    BY <2>1, <2>2, OwnershipFrame
<1> QED
  BY <1>1, <1>2, <1>3, <1>4, <1>5, <1>6, <1>7, OwnershipInserts, OwnershipRetire, OwnershipDrain,
     OwnershipPoison, Zenon
  DEF Next, ReclaimStep, GuardStep

-----------------------------------------------------------------------------
(* What readers and pins protect.                                          *)

\* A published or half-built tree is made of slots nobody recycles.
LEMMA TreesInUse ==
  ASSUME Types, Ownership
  PROVE  /\ \A v \in Vertices : \A x \in live[v] : InUse(x) /\ ~Waiting(x)
         /\ \A x \in cur : InUse(x) /\ ~Waiting(x)
<1>1. \A x \in Slots : (x \in Used <=> Homed(x)) /\ OneHome(x)
  BY DEF Ownership
<1>2. cur \subseteq Slots /\ \A v \in Vertices : live[v] \subseteq Slots
  BY DEF Types, OpTypes, RootTypes, Trees
<1> QED
  BY <1>1, <1>2 DEF Homed, OneHome, OffRoots, OnRoots, InUse

\* A slot in use stays so unless its batch is freed.
LEMMA UseKept ==
  ASSUME Types, [Next]_vars, NEW x, InUse(x),
         DrainYoung => x \notin Head(young).slots,
         DrainOld => x \notin Head(old).slots
  PROVE  InUse(x)'
<1> USE DEF InUse, Used, arenaVars, opVars
<1>1. CASE UNCHANGED vars
  BY <1>1 DEF vars
<1>2. ASSUME NEW r \in Readers, ReaderStep(r) PROVE InUse(x)'
  BY <1>2 DEF ReaderStep, Steer, Enter, LoadRoot, Leave
<1>3. CASE SnapshotStep \/ TickClock
  BY <1>3 DEF SnapshotStep, Acquire, DropSnapshot, CloneSnapshot, snapshotFrame, TickClock
<1>4. CASE InsertStep
  <2>1. ASSUME NEW v \in Vertices, NEW k \in Kinds, BeginInsert(v, k) PROVE InUse(x)'
    BY <2>1 DEF BeginInsert
  <2>2. CASE AllocFree \/ AllocReclaimed \/ AllocExhausted \/ RebalanceFails \/ ChainNext
    BY <2>2 DEF AllocFree, AllocReclaimed, AllocExhausted, RebalanceFails, ChainNext
  <2>3. CASE AllocBump
    BY <2>3 DEF AllocBump, Types, ArenaTypes
  <2>4. CASE TreeStep \/ ArenaFull
    BY <2>4 DEF TreeStep, ArenaFull, EndInsert
  <2>5. CASE InsertDuplicate \/ AppendFails \/ Publish
    BY <2>5 DEF InsertDuplicate, AppendFails, Publish, EndInsert
  <2> QED
    BY <1>4, <2>1, <2>2, <2>3, <2>4, <2>5 DEF InsertStep
<1>5. CASE ReclaimStep
  <2>1. bump' = bump /\ fresh' = fresh
    BY <1>5 DEF ReclaimStep, Retire, ReclaimReady, Fence, ScanStripe, StorePhase, DrainYoung, DrainOld,
         DrainDone, scanFrame, drainFrame
  <2>2. \/ free' = free
        \/ DrainYoung /\ free' = free \cup Head(young).slots
        \/ DrainOld /\ free' = free \cup Head(old).slots
    BY <1>5 DEF ReclaimStep, Retire, ReclaimReady, Fence, ScanStripe, StorePhase, DrainYoung, DrainOld,
         DrainDone, scanFrame, drainFrame
  <2> QED
    BY <2>1, <2>2
<1>6. CASE GuardStep
  BY <1>6 DEF GuardStep, OpenGuard, Commit, DropPrev, CommitReclaim, Release, Poison, EndInsert
<1> QED
  BY <1>1, <1>2, <1>3, <1>4, <1>5, <1>6 DEF Next

\* Only these steps touch the queues.
LEMMA QueuesStep ==
  ASSUME [Next]_vars
  PROVE  \/ UNCHANGED <<young, old>>
         \/ Retire
         \/ DrainYoung /\ young # <<>> /\ young' = Tail(young) /\ old' = old
         \/ DrainOld /\ old # <<>> /\ old' = Tail(old) /\ young' = young
<1> USE DEF arenaVars
<1>1. CASE UNCHANGED vars
  BY <1>1 DEF vars
<1>2. ASSUME NEW r \in Readers, ReaderStep(r) PROVE UNCHANGED <<young, old>>
  BY <1>2 DEF ReaderStep, Steer, Enter, LoadRoot, Leave
<1>3. CASE SnapshotStep \/ TickClock
  BY <1>3 DEF SnapshotStep, Acquire, DropSnapshot, CloneSnapshot, snapshotFrame, TickClock
<1>4. CASE InsertStep
  BY <1>4, InsertFrame
<1>5. CASE ReclaimStep
  BY <1>5 DEF ReclaimStep, Retire, ReclaimReady, Fence, ScanStripe, StorePhase, DrainYoung, DrainOld,
         DrainDone, scanFrame, drainFrame, YoungReady, OldReady
<1>6. CASE GuardStep
  BY <1>6 DEF GuardStep, OpenGuard, Commit, DropPrev, CommitReclaim, Release, Poison
<1> QED
  BY <1>1, <1>2, <1>3, <1>4, <1>5, <1>6 DEF Next

\* A slot is never due or stamped earlier than it was, and a slot that is
\* retired now is due two phase steps from here.
LEMMA DueKept ==
  ASSUME Types, Ownership, [Next]_vars, NEW x, NEW g \in Nat
  PROVE  /\ DueFrom(young, x, g) /\ (Retire /\ x \in log => g <= phase + 2) => DueFrom(young', x, g)
         /\ DueFrom(old, x, g) /\ (Retire /\ x \in log => g <= phase + 2) => DueFrom(old', x, g)
         /\ StampedAfter(old, x, g) /\ (Retire /\ x \in log => g < stamp) => StampedAfter(old', x, g)
<1>1. young \in Seq(Batches) /\ old \in Seq(Batches) /\ Apart(young) /\ Apart(old)
  BY DEF Types, ArenaTypes, Ownership
<1>2. CASE UNCHANGED <<young, old>>
  BY <1>2
<1>3. CASE Retire
  <2> DEFINE Y == {s \in log : s >= ystart}
             O == {s \in log : s < ystart}
             n == phase + 2
  <2>1. Y \in Trees /\ O \in Trees /\ stamp \in Nat /\ n \in Nat
    BY DEF Types, GuardTypes, ScanTypes, Trees
  <2>2. young' = Enqueue(young, Y, stamp, n) /\ old' = Enqueue(old, O, stamp, n)
    BY <1>3 DEF Retire
  <2>3. (x \in Y => x \in log) /\ (x \in O => x \in log)
    OBVIOUS
  <2> HIDE DEF Y, O, n
  <2>4. DueFrom(young, x, g) /\ (x \in Y => g <= n) => DueFrom(Enqueue(young, Y, stamp, n), x, g)
    BY ONLY <1>1, <2>1, g \in Nat, EnqueueDue
  <2>5. DueFrom(old, x, g) /\ (x \in O => g <= n) => DueFrom(Enqueue(old, O, stamp, n), x, g)
    BY ONLY <1>1, <2>1, g \in Nat, EnqueueDue
  <2>6. StampedAfter(old, x, g) /\ (x \in O => g < stamp) => StampedAfter(Enqueue(old, O, stamp, n), x, g)
    BY ONLY <1>1, <2>1, g \in Nat, EnqueueDue
  <2> QED
    BY <1>3, <2>2, <2>3, <2>4, <2>5, <2>6 DEF n
<1>4. CASE young # <<>> /\ young' = Tail(young) /\ old' = old
  BY <1>1, <1>4, FreeBatch
<1>5. CASE old # <<>> /\ old' = Tail(old) /\ young' = young
  BY <1>1, <1>5, FreeBatch
<1> QED
  BY <1>2, <1>3, <1>4, <1>5, QueuesStep

\* A slot due later than the phase is not freed; one no batch has is due at
\* no phase at all.
LEMMA NotFreed ==
  ASSUME Types, Ownership, NEW x, NEW g \in Nat, g > phase
  PROVE  /\ DrainYoung /\ DueFrom(young, x, g) => x \notin Head(young).slots
         /\ DrainOld /\ DueFrom(old, x, g) => x \notin Head(old).slots
<1>1. young \in Seq(Batches) /\ old \in Seq(Batches) /\ Apart(young) /\ Apart(old) /\ phase \in Nat
  BY DEF Types, ArenaTypes, Ownership, ScanTypes
<1>2. ASSUME DrainYoung, DueFrom(young, x, g), x \in Head(young).slots PROVE FALSE
  <2>1. young # <<>> /\ Head(young).grace <= phase
    BY <1>2 DEF DrainYoung, YoungReady
  <2>2. Head(young) \in Batches /\ g <= Head(young).grace
    BY <1>1, <1>2, <2>1, FreeBatch
  <2>3. Head(young).grace \in Nat
    BY <2>2 DEF Batches
  <2> QED
    BY <1>1, <2>1, <2>2, <2>3
<1>3. ASSUME DrainOld, DueFrom(old, x, g), x \in Head(old).slots PROVE FALSE
  <2>1. old # <<>> /\ Head(old).grace <= phase
    BY <1>3 DEF DrainOld, OldReady
  <2>2. Head(old) \in Batches /\ g <= Head(old).grace
    BY <1>1, <1>3, <2>1, FreeBatch
  <2>3. Head(old).grace \in Nat
    BY <2>2 DEF Batches
  <2> QED
    BY <1>1, <2>1, <2>2, <2>3
<1> QED
  BY <1>2, <1>3

\* What is safe until phase g, later than this one, stays so.
LEMMA SafeKept ==
  ASSUME Types, Ownership, [Next]_vars, NEW x, NEW g \in Nat, g > phase,
         Safe(x, g), Retire /\ x \in log => g <= phase + 2
  PROVE  InUse(x)' /\ DueFrom(young', x, g) /\ DueFrom(old', x, g)
<1>1. (DrainYoung => x \notin Head(young).slots) /\ (DrainOld => x \notin Head(old).slots)
  BY NotFreed DEF Safe
<1>2. InUse(x)'
  BY <1>1, UseKept DEF Safe
<1> QED
  BY <1>2, DueKept DEF Safe

LEMMA UnownedSafe ==
  ASSUME NEW x, InUse(x), ~Waiting(x)
  PROVE  \A g : Safe(x, g)
BY NotWaiting DEF Safe, Waiting

\* The phase and the scan.
LEMMA PhaseStep ==
  ASSUME Types, [Next]_vars
  PROVE  /\ phase' = phase \/ StorePhase
         /\ vis' = vis \/ Publish \/ Fence
         /\ Publish \/ live' = live
         /\ wpc' = "scan" => Fence \/ (wpc = "scan" /\ live' = live /\ vis' = vis)
         /\ wpc' = "scan" /\ ~Fence /\ ~StorePhase => unread' = unread \/ \E st \in Stripes : ScanStripe(st)
<1> USE DEF gateVars, rootVars, scanVars
<1>1. CASE UNCHANGED vars
  BY <1>1 DEF vars
<1>2. ASSUME NEW r \in Readers, ReaderStep(r)
      PROVE  UNCHANGED <<phase, live, vis, wpc, unread>>
  BY <1>2 DEF ReaderStep, Steer, Enter, LoadRoot, Leave
<1>3. CASE SnapshotStep \/ TickClock
  BY <1>3 DEF SnapshotStep, Acquire, DropSnapshot, CloneSnapshot, snapshotFrame, TickClock
<1>4. CASE InsertStep
  <2>1. UNCHANGED <<phase, unread>>
    BY <1>4, InsertFrame
  <2>2. Publish \/ UNCHANGED <<live, vis>>
    BY <1>4 DEF InsertStep, BeginInsert, AllocFree, AllocBump, AllocExhausted, AllocReclaimed,
        RebalanceFails, ArenaFull, TreeStep, ChainNext, InsertDuplicate, AppendFails, allocFrame
  <2>3. wpc' # "scan"
    BY <1>4 DEF InsertStep, BeginInsert, AllocFree, AllocBump, AllocExhausted, AllocReclaimed,
        RebalanceFails, ArenaFull, TreeStep, ChainNext, InsertDuplicate, AppendFails, Publish
  <2> QED
    BY <2>1, <2>2, <2>3
<1>5. CASE Retire \/ ReclaimReady \/ DrainYoung \/ DrainOld \/ DrainDone
  <2>1. UNCHANGED <<phase, live, vis>>
    BY <1>5 DEF Retire, ReclaimReady, DrainYoung, DrainOld, DrainDone, drainFrame
  <2>2. wpc' # "scan"
    BY <1>5 DEF Retire, ReclaimReady, DrainYoung, DrainOld, DrainDone, drainFrame, Types, PcTypes
  <2> QED
    BY <2>1, <2>2
<1>6. CASE Fence
  BY <1>6 DEF Fence
<1>7. ASSUME NEW st \in Stripes, ScanStripe(st)
      PROVE  UNCHANGED <<phase, live, vis>> /\ wpc = "scan"
  BY <1>7 DEF ScanStripe, scanFrame
<1>8. CASE StorePhase
  BY <1>8 DEF StorePhase, scanFrame
<1>9. CASE GuardStep
  BY <1>9 DEF GuardStep, OpenGuard, Commit, DropPrev, CommitReclaim, Release, Poison
<1> QED
  BY <1>1, <1>2, <1>3, <1>4, <1>5, <1>6, <1>7, <1>8, <1>9 DEF Next, ReclaimStep

LEMMA VisibleStep ==
  Types /\ Types' /\ ControlOK /\ Ownership /\ Ownership' /\ VisibleOK /\ [Next]_vars => VisibleOK'
<1> SUFFICES ASSUME Types, Types', ControlOK, Ownership, Ownership', VisibleOK, [Next]_vars
             PROVE  VisibleOK'
  OBVIOUS
<1>0. phase \in Nat /\ live \in [Vertices -> Trees] /\ vis \in [Vertices -> SUBSET Trees] /\ op \in Vertices
      /\ phase' \in Nat /\ live' \in [Vertices -> Trees]
  BY DEF Types, ScanTypes, RootTypes, OpTypes
<1>1. \A v \in Vertices : \A x \in live[v] : InUse(x) /\ ~Waiting(x)
  BY TreesInUse
<1>2. \A x \in cur : InUse(x) /\ ~Waiting(x)
  BY TreesInUse
<1>3. wpc = "scan" => \A v \in Vertices : vis[v] = {live[v]}
  BY DEF VisibleOK
<1>4. ASSUME NEW v \in Vertices, NEW t \in vis'[v], NEW x \in t PROVE Safe(x, phase + 2)
  <2>1. CASE t \in vis[v]
    BY <2>1 DEF VisibleOK
  <2>2. CASE Publish /\ t \notin vis[v]
    <3>1. t = cur
      BY <1>0, <2>2 DEF Publish
    <3> QED
      BY <1>2, <3>1, UnownedSafe
  <2>3. CASE Fence
    <3>1. t = live[v]
      BY <2>3 DEF Fence
    <3> QED
      BY <1>1, <3>1, UnownedSafe
  <2> QED
    BY <2>1, <2>2, <2>3, PhaseStep
<1>5. ASSUME StorePhase, NEW v \in Vertices, NEW t \in vis'[v], NEW x \in t PROVE ~Waiting(x)
  <2>1. vis' = vis /\ wpc = "scan"
    BY <1>5 DEF StorePhase, scanFrame, rootVars
  <2> QED
    BY <1>1, <1>3, <1>5, <2>1
<1>6. ASSUME NEW v \in Vertices, NEW t \in vis'[v], NEW x \in t PROVE Safe(x, phase + 2)'
  <2>1. phase + 2 \in Nat /\ phase + 2 > phase /\ Safe(x, phase + 2)
    BY <1>0, <1>4
  <2>2. InUse(x)' /\ DueFrom(young', x, phase + 2) /\ DueFrom(old', x, phase + 2)
    BY <2>1, SafeKept
  <2>3. CASE phase' = phase
    BY <2>2, <2>3 DEF Safe, DueFrom
  <2>4. CASE StorePhase
    <3>1. ~Waiting(x) /\ young' = young /\ old' = old
      BY <1>5, <2>4 DEF StorePhase, scanFrame, arenaVars
    <3>2. \A n : DueFrom(young', x, n) /\ DueFrom(old', x, n)
      BY <3>1, NotWaiting DEF Waiting
    <3> QED
      BY <2>2, <3>2 DEF Safe, DueFrom
  <2> QED
    BY <2>3, <2>4, PhaseStep
<1>7. wpc' = "scan" => \A v \in Vertices : vis'[v] = {live'[v]}
  <2>1. CASE Fence
    BY <1>0, <2>1 DEF Fence
  <2> QED
    BY <1>3, <2>1, PhaseStep
<1> QED
  BY <1>6, <1>7 DEF VisibleOK

\* A reader's own steps: it holds nothing until it loads a root, and then
\* what a root load may return.
LEMMA ReaderMoves ==
  ASSUME Types, Ownership, VisibleOK, ReadersOK, NEW r \in Readers, ReaderStep(r)
  PROVE  ReadersOK'
<1>0. /\ phase \in Nat /\ rpc \in [Readers -> {"out", "steered", "in", "walk"}]
      /\ bucket \in [Readers -> {0, 1}] /\ rtree \in [Readers -> Trees]
  BY DEF Types, ScanTypes, ReaderTypes
<1>1. UNCHANGED <<phase, bump, free, fresh, young, old, wpc, unread, live, vis>>
  BY DEF ReaderStep, Steer, Enter, LoadRoot, Leave, arenaVars, opVars, scanVars, rootVars
<1>2. \A x : Waiting(x)' = Waiting(x)
  BY <1>1 DEF Waiting
<1>3. ASSUME NEW q \in Readers, q # r
      PROVE  rpc'[q] = rpc[q] /\ bucket'[q] = bucket[q] /\ rtree'[q] = rtree[q]
  BY <1>0, <1>3 DEF ReaderStep, Steer, Enter, LoadRoot, Leave
<1>4. \A x, g : Safe(x, g) <=> InUse(x)' /\ DueFrom(young', x, g) /\ DueFrom(old', x, g)
  BY <1>1 DEF Safe, InUse, Used
<1>5. /\ rpc'[r] # "walk" => rtree'[r] = {}
      /\ rtree'[r] # {} => LoadRoot(r) \/ (rtree'[r] = rtree[r] /\ bucket'[r] = bucket[r])
  <2>1. CASE Steer(r)
    BY <1>0, <2>1 DEF Steer, ReadersOK
  <2>2. CASE Enter(r)
    BY <1>0, <2>2 DEF Enter, ReadersOK
  <2>3. CASE LoadRoot(r)
    BY <1>0, <2>3 DEF LoadRoot
  <2>4. CASE Leave(r)
    BY <1>0, <2>4 DEF Leave
  <2> QED
    BY <2>1, <2>2, <2>3, <2>4 DEF ReaderStep
<1>6. ASSUME LoadRoot(r), NEW x \in rtree'[r]
      PROVE  Safe(x, phase + 2) /\ bucket' = bucket /\ (wpc = "scan" => ~Waiting(x))
  <2>0. PICK v \in Vertices : \E t \in vis[v] : rtree' = [rtree EXCEPT ![r] = t]
    BY <1>6 DEF LoadRoot
  <2>1. PICK t \in vis[v] : rtree' = [rtree EXCEPT ![r] = t]
    BY <2>0
  <2>2. rtree'[r] = t
    BY <1>0, <2>1
  <2>3. Safe(x, phase + 2)
    BY <1>6, <2>2 DEF VisibleOK
  <2>4. wpc = "scan" => t = live[v]
    BY DEF VisibleOK
  <2> QED
    BY <1>6, <2>2, <2>3, <2>4, TreesInUse DEF LoadRoot
<1>7. ASSUME NEW x, Safe(x, phase + 2) PROVE Safe(x, phase + 1)
  <2>1. \A q \in Seq(Batches) : DueFrom(q, x, phase + 2) => DueFrom(q, x, phase + 1)
    <3> SUFFICES ASSUME NEW q \in Seq(Batches), NEW i \in DOMAIN q, phase + 2 <= q[i].grace
                 PROVE  phase + 1 <= q[i].grace
      BY DEF DueFrom
    <3>1. q[i] \in Batches
      OBVIOUS
    <3> QED
      BY <1>0, <3>1 DEF Batches
  <2> QED
    BY <1>7, <2>1 DEF Safe, Types, ArenaTypes
<1>8. ASSUME NEW q \in Readers, NEW x \in rtree'[q]
      PROVE  /\ Safe(x, Due(q))'
             /\ wpc' = "scan" /\ StripeOf[q] \notin unread' /\ bucket'[q] = (phase' + 1) % 2
                => ~Waiting(x)'
  <2>1. CASE rtree'[q] = rtree[q] /\ bucket'[q] = bucket[q]
    <3>1. Safe(x, Due(q)) /\ Due(q)' = Due(q)
      BY <1>1, <1>8, <2>1 DEF ReadersOK, Due
    <3>2. wpc = "scan" /\ StripeOf[q] \notin unread /\ bucket[q] = (phase + 1) % 2 => ~Waiting(x)
      BY <1>8, <2>1 DEF ReadersOK
    <3> QED
      BY <1>1, <1>2, <1>4, <2>1, <3>1, <3>2 DEF Safe
  <2>2. CASE LoadRoot(r) /\ q = r
    <3>1. Safe(x, Due(q)')
      BY <1>1, <1>6, <1>7, <1>8, <2>2 DEF Due
    <3> QED
      BY <1>1, <1>2, <1>4, <1>6, <1>8, <2>2, <3>1 DEF Safe
  <2> QED
    BY <1>3, <1>5, <1>8, <2>1, <2>2
<1>9. \A q \in Readers : rpc'[q] # "walk" => rtree'[q] = {}
  BY <1>3, <1>5 DEF ReadersOK
<1> QED
  BY <1>8, <1>9 DEF ReadersOK

\* The bucket the phase leaves behind is empty of slots that wait.
LEMMA PhaseMoves ==
  ASSUME Types, Ownership, ReadersOK, StorePhase
  PROVE  ReadersOK'
<1>0. phase \in Nat /\ bucket \in [Readers -> {0, 1}] /\ StripeOf \in [Readers -> Stripes]
  BY RecyclerAssumption DEF Types, ScanTypes, ReaderTypes
<1>1. /\ wpc = "scan" /\ unread = {} /\ phase' = phase + 1
      /\ UNCHANGED <<rpc, bucket, rtree, bump, free, fresh, young, old>>
      /\ wpc' = "scan" => unread' = Stripes
  BY DEF StorePhase, scanFrame, arenaVars, opVars
<1>2. ASSUME NEW r \in Readers, NEW x \in rtree[r] PROVE Safe(x, Due(r))'
  <2>1. Safe(x, Due(r))
    BY <1>2 DEF ReadersOK
  <2>2. CASE bucket[r] = (phase + 1) % 2
    <3>1. ~Waiting(x)
      BY <1>1, <1>2, <2>2 DEF ReadersOK
    <3>2. \A g : Safe(x, g)
      BY <2>1, <3>1, UnownedSafe DEF Safe
    <3> QED
      BY <1>1, <3>2 DEF Safe, InUse, Used
  <2>3. CASE bucket[r] # (phase + 1) % 2
    <3>1. bucket[r] \in {0, 1} /\ (phase + 1) % 2 \in {0, 1} /\ (phase + 2) % 2 \in {0, 1}
          /\ (phase + 1) % 2 # (phase + 2) % 2
      BY <1>0
    <3>2. Due(r) = phase + 2 /\ Due(r)' = phase + 2
      BY <1>0, <1>1, <2>3, <3>1 DEF Due
    <3> QED
      BY <1>1, <2>1, <3>2 DEF Safe, InUse, Used
  <2> QED
    BY <2>2, <2>3
<1>3. \A r \in Readers : StripeOf[r] \in Stripes
  BY <1>0
<1> QED
  BY <1>1, <1>2, <1>3 DEF ReadersOK

LEMMA ReadersStep ==
  Types /\ Ownership /\ VisibleOK /\ ReadersOK /\ [Next]_vars => ReadersOK'
<1> SUFFICES ASSUME Types, Ownership, VisibleOK, ReadersOK, [Next]_vars PROVE ReadersOK'
  OBVIOUS
<1>0. phase \in Nat /\ bucket \in [Readers -> {0, 1}]
  BY DEF Types, ScanTypes, ReaderTypes
<1>1. CASE \E r \in Readers : ReaderStep(r)
  BY <1>1, ReaderMoves
<1>2. CASE StorePhase
  BY <1>2, PhaseMoves
<1>3. CASE ~(\E r \in Readers : ReaderStep(r)) /\ ~StorePhase
  <2>1. UNCHANGED <<rpc, bucket, rtree>>
    BY <1>3, InsertFrame
    DEF Next, vars, gateVars, SnapshotStep, Acquire, DropSnapshot, CloneSnapshot, snapshotFrame, TickClock,
        ReclaimStep, Retire, ReclaimReady, Fence, ScanStripe, DrainYoung, DrainOld, DrainDone,
        scanFrame, drainFrame,
        GuardStep, OpenGuard, Commit, DropPrev, CommitReclaim, Release, Poison
  <2>2. phase' = phase
    BY <1>3, PhaseStep
  <2>3. ASSUME NEW r \in Readers, NEW x \in rtree[r] PROVE Safe(x, Due(r))'
    <3>1. Safe(x, Due(r)) /\ Due(r)' = Due(r) /\ Due(r) \in Nat /\ Due(r) > phase /\ Due(r) <= phase + 2
      BY <1>0, <2>1, <2>2, <2>3 DEF ReadersOK, Due
    <3>2. InUse(x)' /\ DueFrom(young', x, Due(r)) /\ DueFrom(old', x, Due(r))
      BY <3>1, SafeKept
    <3> QED
      BY <3>1, <3>2 DEF Safe, DueFrom
  <2>4. ASSUME NEW r \in Readers, NEW x \in rtree[r], wpc' = "scan", StripeOf[r] \notin unread',
               bucket[r] = (phase + 1) % 2
        PROVE  ~Waiting(x)'
    <3>1. StripeOf[r] \in Stripes /\ rpc[r] = "walk"
      BY <2>4, RecyclerAssumption DEF ReadersOK
    <3>2. ~Fence
      BY <2>4, <3>1 DEF Fence
    <3>3. wpc = "scan" /\ (unread' = unread \/ \E st \in Stripes : ScanStripe(st))
      BY <1>3, <2>4, <3>2, PhaseStep
    <3>4. StripeOf[r] \notin unread
      <4>1. ASSUME NEW st \in Stripes, ScanStripe(st), StripeOf[r] \in unread PROVE FALSE
        <5>1. ~Occupied(st, (phase + 1) % 2) /\ unread' = unread \ {st}
          BY <2>4, <4>1 DEF ScanStripe
        <5>2. StripeOf[r] = st
          BY <2>4, <4>1, <5>1
        <5> QED
          BY <2>4, <3>1, <5>1, <5>2 DEF Occupied
      <4> QED
        BY <2>4, <3>3, <4>1
    <3>5. ~Waiting(x)
      BY <2>4, <3>3, <3>4 DEF ReadersOK
    <3>6. UNCHANGED <<young, old>>
      BY <3>3, QueuesStep DEF Retire, DrainYoung, DrainOld
    <3> QED
      BY <3>5, <3>6 DEF Waiting
  <2> QED
    BY <2>1, <2>2, <2>3, <2>4 DEF ReadersOK
<1> QED
  BY <1>1, <1>2, <1>3

\* Only an open guard logs, and only OpenGuard moves the start of the young.
LEMMA GuardMoves ==
  ASSUME Types, ControlOK, [Next]_vars
  PROVE  \/ OpenGuard
         \/ /\ ystart' = ystart /\ (PreCommit' => PreCommit)
            /\ stamp' = stamp \/ Commit
            /\ log' \subseteq log \/ PreCommit
<1> USE DEF guardVars
<1> DEFINE Moves == /\ ystart' = ystart /\ (PreCommit' => PreCommit)
                    /\ stamp' = stamp \/ Commit
                    /\ log' \subseteq log \/ PreCommit
<1>1. CASE UNCHANGED vars
  BY <1>1 DEF vars, PreCommit, Inserting, InTree
<1>2. ASSUME NEW r \in Readers, ReaderStep(r) PROVE Moves
  BY <1>2 DEF ReaderStep, Steer, Enter, LoadRoot, Leave, PreCommit, Inserting, InTree
<1>3. CASE SnapshotStep \/ TickClock
  BY <1>3 DEF SnapshotStep, Acquire, DropSnapshot, CloneSnapshot, snapshotFrame, TickClock, PreCommit,
              Inserting, InTree
<1>4. CASE InsertStep
  <2>1. UNCHANGED <<ystart, stamp>>
    BY <1>4, InsertFrame
  <2>2. PreCommit
    BY <1>4 DEF InsertStep, BeginInsert, AllocFree, AllocBump, AllocExhausted, AllocReclaimed,
                RebalanceFails, ArenaFull, TreeStep, ChainNext, InsertDuplicate, AppendFails, Publish,
                PreCommit, Inserting, InTree
  <2> QED
    BY <2>1, <2>2
<1>5. CASE ReclaimStep
  <2>1. UNCHANGED <<ystart, stamp>> /\ log' \subseteq log
    BY <1>5 DEF ReclaimStep, Retire, ReclaimReady, Fence, ScanStripe, StorePhase, DrainYoung, DrainOld,
         DrainDone, scanFrame, drainFrame
  <2>2. (wpc' \in Subroutine /\ wret' = wret) \/ (wpc' = wret /\ wret' = "idle")
    BY <1>5 DEF ReclaimStep, Retire, ReclaimReady, Fence, ScanStripe, StorePhase, DrainYoung, DrainOld,
         DrainDone, scanFrame, drainFrame, Subroutine
  <2>3. PreCommit' => PreCommit
    BY <2>2 DEF Subroutine, Types, PcTypes, PreCommit, Inserting, InTree
  <2> QED
    BY <2>1, <2>3
<1>6. CASE Commit \/ DropPrev \/ CommitReclaim \/ Release \/ Poison
  <2>1. ystart' = ystart /\ (stamp' = stamp \/ Commit) /\ log' \subseteq log
    BY <1>6 DEF Commit, DropPrev, CommitReclaim, Release, Poison
  <2>2. ~PreCommit'
    BY <1>6 DEF Commit, DropPrev, CommitReclaim, Release, Poison, ControlOK, Subroutine, PreCommit,
                Inserting, InTree
  <2> QED
    BY <2>1, <2>2
<1> QED
  BY <1>1, <1>2, <1>3, <1>4, <1>5, <1>6 DEF Next, GuardStep

\* No slot of a pinned snapshot is freed, put among the young, or stamped too
\* early.
LEMMA PinKept ==
  ASSUME Types, ControlOK, EpochsOK, Ownership, PinsOK, [Next]_vars,
         NEW s \in Pinned, NEW v \in Vertices, NEW x \in s.table[v]
  PROVE  InUse(x)' /\ x \notin PendingIn(young)' /\ StampedAfter(old', x, s.epoch)
<1>0. /\ s.epoch \in Nat /\ x \in Nat /\ ystart \in Nat /\ stamp \in Nat /\ wmin \in Nat
      /\ young \in Seq(Batches) /\ old \in Seq(Batches) /\ Apart(young) /\ Apart(old)
  <2>1. s.epoch \in Nat /\ s.table[v] \in Trees
    BY PinnedTyped DEF PinnedTypes
  <2> QED
    BY <2>1, RecyclerAssumption DEF Types, GuardTypes, ScanTypes, ArenaTypes, Ownership, Trees, Slots
<1>1. /\ InUse(x) /\ x \notin PendingIn(young) /\ StampedAfter(old, x, s.epoch)
      /\ x \in log => x < ystart /\ s.epoch < stamp
  BY DEF PinsOK
<1>2. ASSUME DrainYoung PROVE x \notin Head(young).slots
  <2>1. young # <<>>
    BY <1>2 DEF DrainYoung, YoungReady
  <2> QED
    BY <1>0, <1>1, <2>1, FreeBatch
<1>3. ASSUME DrainOld PROVE x \notin Head(old).slots
  <2>1. old # <<>> /\ Head(old).stamp <= wmin /\ wpc = "drain"
    BY <1>3 DEF DrainOld, OldReady
  <2>2. wmin <= s.epoch
    BY <2>1 DEF EpochsOK
  <2>3. Head(old) \in Batches /\ (x \in Head(old).slots => s.epoch < Head(old).stamp)
    BY <1>0, <1>1, <2>1, FreeBatch
  <2>4. Head(old).stamp \in Nat
    BY <2>3 DEF Batches
  <2> QED
    BY <1>0, <2>1, <2>2, <2>3, <2>4
<1>4. InUse(x)'
  BY <1>1, <1>2, <1>3, UseKept
<1>5. StampedAfter(old', x, s.epoch)
  BY <1>0, <1>1, DueKept
<1>6. x \notin PendingIn(young')
  <2>1. CASE UNCHANGED <<young, old>>
    BY <1>1, <2>1
  <2>2. CASE Retire
    BY <1>0, <1>1, <2>2, RetireSlots
  <2>3. CASE young # <<>> /\ young' = Tail(young)
    BY <1>0, <1>1, <2>3, FreeBatch
  <2>4. CASE young' = young
    BY <1>1, <2>4
  <2> QED
    BY <2>1, <2>2, <2>3, <2>4, QueuesStep
<1> QED
  BY <1>4, <1>5, <1>6 DEF PendingIn

LEMMA PinsStep ==
  Types /\ Types' /\ ControlOK /\ CommitOK /\ EpochsOK /\ Ownership /\ PinsOK /\ [Next]_vars => PinsOK'
<1> SUFFICES ASSUME Types, Types', ControlOK, CommitOK, EpochsOK, Ownership, PinsOK, [Next]_vars,
                    NEW s \in Pinned', NEW v \in Vertices, NEW x \in s.table[v]
             PROVE  /\ InUse(x)' /\ x \notin PendingIn(young)' /\ StampedAfter(old', x, s.epoch)
                    /\ x \in log' => x < ystart' /\ s.epoch < stamp'
                    /\ PreCommit' => x < ystart'
  BY DEF PinsOK, StampedAfter
<1>0. epoch \in Nat
  BY DEF Types, PinTypes
<1>1. CASE s \in Pinned
  <2>1. InUse(x)' /\ x \notin PendingIn(young)' /\ StampedAfter(old', x, s.epoch)
    BY <1>1, PinKept
  <2>2. /\ x \in Used /\ s.epoch \in Nat /\ s.epoch <= epoch
        /\ x \in log => x < ystart /\ s.epoch < stamp
        /\ PreCommit => x < ystart /\ s.epoch < stamp
    BY <1>1, PinnedTyped DEF PinsOK, InUse, PinnedTypes, EpochsOK
  <2>3. CASE OpenGuard
    <3>1. log' = {} /\ ystart' = bump
      BY <2>3 DEF OpenGuard, ControlOK, Subroutine, PreCommit, Inserting, InTree
    <3>2. x < bump
      BY <2>2 DEF Used, Types, ArenaTypes
    <3> QED
      BY <2>1, <3>1, <3>2
  <2>4. CASE ystart' = ystart /\ (PreCommit' => PreCommit) /\ (stamp' = stamp \/ Commit)
             /\ (log' \subseteq log \/ PreCommit)
    <3>1. Commit => stamp' = epoch + 1
      BY DEF Commit
    <3>2. x \in log' => x < ystart /\ s.epoch < stamp
      BY <2>2, <2>4
    <3>3. s.epoch < epoch + 1
      BY <1>0, <2>2
    <3> QED
      BY <2>1, <2>2, <2>4, <3>1, <3>2, <3>3
  <2> QED
    BY <2>3, <2>4, GuardMoves
<1>2. CASE s \notin Pinned
  <2>1. Commit /\ Commits /\ s = latest'
    BY <1>2, PinnedStep DEF Commits
  <2>2. wpc = "open" /\ ~InTree /\ ~PreCommit'
    BY <2>1 DEF Commit, ControlOK, Subroutine, PreCommit, Inserting, InTree
  <2>3. x \in live[v]
    <3>1. s.table[v] = IF v \in touched THEN live[v] ELSE latest.table[v]
      BY <2>1 DEF Commits
    <3>2. v \notin touched => latest.table[v] = live[v]
      BY <2>2 DEF CommitOK
    <3> QED
      BY <3>1, <3>2
  <2>4. InUse(x) /\ ~Waiting(x) /\ x \in Slots
    BY <2>3, TreesInUse DEF Types, RootTypes, Trees
  <2>5. x \notin log
    BY <2>2, <2>3, <2>4 DEF Ownership, OneHome, OnRoots
  <2>6. UNCHANGED <<bump, free, fresh, young, old, log>>
    BY <2>1 DEF Commit, arenaVars, opVars
  <2>7. StampedAfter(old', x, s.epoch)
    BY <2>4, <2>6, NotWaiting DEF Waiting
  <2> QED
    BY <2>2, <2>4, <2>5, <2>6, <2>7 DEF InUse, Used, Waiting, PendingIn
<1> QED
  BY <1>1, <1>2

-----------------------------------------------------------------------------
(* The invariant.                                                          *)

\* What holds whatever the insert paths do, and what needs ownership.
GuardInv == Types /\ ControlOK /\ CommitOK /\ EpochsOK
RecyclerInv == GuardInv /\ InsertOK /\ Ownership /\ Protected

LEMMA GuardInit == Init => GuardInv
<1> SUFFICES ASSUME Init PROVE GuardInv
  OBVIOUS
<1>1. Types
  BY TypeInit, TypeParts
<1>2. wpc = "idle" /\ wret = "idle" /\ ~Inserting /\ ~InTree /\ ~PreCommit
  BY DEF Init, Inserting, InTree, PreCommit
<1>3. ControlOK
  BY <1>2 DEF Init, ControlOK, Subroutine
<1>4. CommitOK
  BY <1>2 DEF Init, CommitOK
<1>5. EpochsOK
  BY <1>2 DEF Init, EpochsOK, Pinned
<1> QED
  BY <1>1, <1>3, <1>4, <1>5 DEF GuardInv

LEMMA GuardStays == GuardInv /\ [Next]_vars => GuardInv'
BY TypeStep, ControlStep, CommitStep, EpochsStep, Zenon DEF GuardInv

LEMMA RecyclerInit == Init => RecyclerInv
<1> SUFFICES ASSUME Init PROVE RecyclerInv
  OBVIOUS
<1>1. /\ wpc = "idle" /\ wret = "idle" /\ ~Inserting /\ ~InTree /\ ~PreCommit
      /\ bump = 0 /\ free = {} /\ fresh = {} /\ leaked = {} /\ log = {} /\ cur = {} /\ base = {}
      /\ mark = 0 /\ retried = FALSE /\ young = <<>> /\ old = <<>> /\ live = EmptyTable
  BY DEF Init, Inserting, InTree, PreCommit
<1>2. InsertOK
  BY <1>1, FS_EmptySet DEF InsertOK
<1>3. Ownership
  <2>1. DOMAIN young = {} /\ DOMAIN old = {}
    BY <1>1
  <2>2. Used = {} /\ \A x : ~Waiting(x)
    BY <1>1, <2>1 DEF Used, Waiting, PendingIn
  <2>3. \A v \in Vertices : live[v] = {}
    BY <1>1 DEF EmptyTable
  <2>4. Apart(young) /\ Apart(old)
    BY <2>1 DEF Apart
  <2>5. ASSUME NEW x \in Slots PROVE (x \in Used <=> Homed(x)) /\ OneHome(x)
    BY <1>1, <2>1, <2>2, <2>3 DEF Homed, OneHome, OffRoots, OnRoots, PendingIn
  <2> QED
    BY <2>4, <2>5 DEF Ownership
<1>4. VisibleOK
  BY <1>1 DEF Init, VisibleOK
<1>5. ReadersOK
  BY DEF Init, ReadersOK
<1>6. PinsOK
  <2>1. \A s \in Pinned : \A v \in Vertices : s.table[v] = {}
    BY DEF Init, Pinned, EmptyTable
  <2> QED
    BY <2>1 DEF PinsOK
<1> QED
  BY <1>2, <1>3, <1>4, <1>5, <1>6, GuardInit DEF RecyclerInv, Protected

LEMMA RecyclerStays == RecyclerInv /\ [Next]_vars /\ ~PathRetryFails => RecyclerInv'
<1> SUFFICES ASSUME RecyclerInv, [Next]_vars, ~PathRetryFails PROVE RecyclerInv'
  OBVIOUS
<1>1. Types /\ ControlOK /\ CommitOK /\ EpochsOK /\ InsertOK /\ Ownership /\ VisibleOK /\ ReadersOK /\ PinsOK
  BY DEF RecyclerInv, GuardInv, Protected
<1>2. GuardInv' /\ Types'
  BY GuardStays DEF RecyclerInv, GuardInv
<1>3. InsertOK' /\ Ownership'
  BY <1>1, InsertInvStep, OwnershipStep
<1>4. VisibleOK' /\ ReadersOK' /\ PinsOK'
  BY <1>1, <1>2, <1>3, VisibleStep, ReadersStep, PinsStep
<1> QED
  BY <1>2, <1>3, <1>4 DEF RecyclerInv, Protected

\* The recycler's state is always well formed, and so are the guard's own
\* locals: what an insert has in hand lives as long as the insert.
THEOREM TypeCorrect == Spec => []TypeOK
<1>1. Spec => []GuardInv
  BY GuardInit, GuardStays, PTL DEF Spec
<1>2. GuardInv => TypeOK
  BY TypeParts DEF GuardInv
<1> QED
  BY <1>1, <1>2, PTL

\* A commit re-reads only the leaves an insert touched (build_table), and yet
\* the snapshot it leaves behind is the published roots.
THEOREM LatestIsLiveAlways == Spec => []LatestIsLive
<1>1. Spec => []GuardInv
  BY GuardInit, GuardStays, PTL DEF Spec
<1>2. GuardInv => LatestIsLive
  <2> SUFFICES ASSUME GuardInv, wpc = "idle", ~poisoned PROVE latest.table = live
    BY DEF LatestIsLive
  <2>1. touched = {}
    BY DEF GuardInv, CommitOK, ControlOK, PreCommit, Inserting, InTree, Subroutine
  <2>2. latest.table \in [Vertices -> Trees] /\ live \in [Vertices -> Trees]
    BY DEF GuardInv, Types, PinTypes, RootTypes, Snapshots
  <2>3. \A v \in Vertices : latest.table[v] = live[v]
    BY <2>1 DEF GuardInv, CommitOK
  <2> QED
    BY <2>2, <2>3
<1> QED
  BY <1>1, <1>2, PTL

\* The invariant of the whole recycler, as long as no path-copying batch
\* fails on its second attempt.
THEOREM RecyclerInvariance == Spec /\ [][~PathRetryFails]_vars => []RecyclerInv
<1>1. UNCHANGED vars => ~PathRetryFails
  BY DEF vars, PathRetryFails, ArenaFull, AppendFails
<1>2. RecyclerInv /\ [Next]_vars /\ [~PathRetryFails]_vars => RecyclerInv'
  BY <1>1, RecyclerStays
<1> QED
  BY <1>2, RecyclerInit, PTL DEF Spec

\* reclaim_ready() never frees a slot a gated reader is walking, whatever the
\* order of its stale phase load, entry and root load and of the writer's
\* scans and phase stores.
THEOREM ReadersIntactAlways == Spec /\ [][~PathRetryFails]_vars => []ReadersIntact
<1>1. RecyclerInv => ReadersIntact
  BY DEF RecyclerInv, Protected, ReadersOK, ReadersIntact, Safe, InUse
<1> QED
  BY <1>1, RecyclerInvariance, PTL

\* No slot of a pinned snapshot is freed or rewritten: snapshots are read
\* outside the gate, and the stamp on the old batches is all that guards them.
THEOREM PinnedIntactAlways == Spec /\ [][~PathRetryFails]_vars => []PinnedIntact
<1>1. RecyclerInv => PinnedIntact
  BY DEF RecyclerInv, Protected, PinsOK, PinnedIntact, InUse
<1> QED
  BY <1>1, RecyclerInvariance, PTL

\* retire()'s contract: no published root reaches a slot of the log that is
\* being stamped.
THEOREM RetireContractAlways == Spec /\ [][~PathRetryFails]_vars => []RetireContract
<1>1. RecyclerInv => RetireContract
  BY RetiredUnreachable DEF RecyclerInv, GuardInv, RetireContract, LiveSlots
<1> QED
  BY <1>1, RecyclerInvariance, PTL

\* Between operations every slot the cursor has handed out is in one tree, in
\* the log, in one batch, free or leaked, and in one of them only.
THEOREM OneOwnerAlways == Spec /\ [][~PathRetryFails]_vars => []OneOwner
<1>1. RecyclerInv => OneOwner
  <2> SUFFICES ASSUME RecyclerInv, wpc \in {"idle", "open"}
               PROVE  LET parts == <<LiveSlots, log, PendingIn(young), PendingIn(old), free, leaked>> IN
                        /\ UNION {parts[i] : i \in 1..6} = Used
                        /\ \A i, j \in 1..6 : i # j => parts[i] \cap parts[j] = {}
                        /\ \A v, w \in Vertices : v # w => live[v] \cap live[w] = {}
                        /\ \A q \in {young, old} : \A i, j \in DOMAIN q :
                             i # j => q[i].slots \cap q[j].slots = {}
    BY DEF OneOwner, Used
  <2> DEFINE parts == <<LiveSlots, log, PendingIn(young), PendingIn(old), free, leaked>>
  <2>1. ~InTree /\ cur = {} /\ fresh = {}
    BY DEF RecyclerInv, GuardInv, ControlOK, Inserting, InTree, Subroutine
  <2>2. /\ Used \subseteq Slots /\ log \subseteq Slots /\ free \subseteq Slots /\ leaked \subseteq Slots
        /\ \A v \in Vertices : live[v] \subseteq Slots
        /\ PendingIn(young) \subseteq Slots /\ PendingIn(old) \subseteq Slots
    <3>1. \A q \in Seq(Batches) : PendingIn(q) \subseteq Slots
      <4> SUFFICES ASSUME NEW q \in Seq(Batches), NEW i \in DOMAIN q PROVE q[i].slots \subseteq Slots
        BY DEF PendingIn
      <4>1. q[i] \in Batches
        OBVIOUS
      <4> QED
        BY <4>1 DEF Batches, Trees
    <3>2. Used \subseteq Slots
      BY RecyclerAssumption DEF RecyclerInv, GuardInv, Types, ArenaTypes, Used, Slots
    <3> QED
      BY <3>1, <3>2 DEF RecyclerInv, GuardInv, Types, ArenaTypes, GuardTypes, RootTypes, Trees
  <2>3. \A x \in Slots : (x \in Used <=> Homed(x)) /\ OneHome(x)
    BY DEF RecyclerInv, Ownership
  <2>4. LiveSlots \subseteq Slots /\ \A x : x \in LiveSlots <=> \E v \in Vertices : x \in live[v]
    BY <2>2 DEF LiveSlots
  <2>5. LiveSlots \cup log \cup PendingIn(young) \cup PendingIn(old) \cup free \cup leaked = Used
    BY <2>1, <2>2, <2>3, <2>4 DEF Homed, Waiting
  <2>6. /\ LiveSlots \cap (log \cup PendingIn(young) \cup PendingIn(old) \cup free \cup leaked) = {}
        /\ log \cap (PendingIn(young) \cup PendingIn(old) \cup free \cup leaked) = {}
        /\ PendingIn(young) \cap (PendingIn(old) \cup free \cup leaked) = {}
        /\ PendingIn(old) \cap (free \cup leaked) = {}
        /\ free \cap leaked = {}
    BY <2>1, <2>2, <2>3, <2>4 DEF OneHome, OffRoots, OnRoots, Waiting
  <2>7. UNION {parts[i] : i \in 1..6} = Used
    BY <2>5
  <2>8. \A i, j \in 1..6 : i # j => parts[i] \cap parts[j] = {}
    BY <2>6
  <2>9. \A v, w \in Vertices : v # w => live[v] \cap live[w] = {}
    BY <2>2, <2>3 DEF OneHome, OnRoots
  <2> QED
    BY <2>7, <2>8, <2>9 DEF RecyclerInv, Ownership, Apart
<1> QED
  BY <1>1, RecyclerInvariance, PTL

\* A graph whose batches never take the path-copying chain needs no such
\* supposition.
THEOREM OnlyChainsRetry ==
  ASSUME "path" \notin Kinds
  PROVE  Spec => [][~PathRetryFails]_vars
<1> DEFINE Inv == kind # "path"
<1>1. Init => Inv
  BY DEF Init
<1>2. Inv /\ [Next]_vars => Inv'
  <2> SUFFICES ASSUME Inv, [Next]_vars PROVE Inv'
    OBVIOUS
  <2>1. ASSUME NEW v \in Vertices, NEW k \in Kinds, BeginInsert(v, k) PROVE Inv'
    BY <2>1 DEF BeginInsert
  <2>2. CASE AllocFree \/ AllocBump \/ AllocExhausted \/ AllocReclaimed \/ RebalanceFails \/ ArenaFull
               \/ TreeStep \/ ChainNext \/ InsertDuplicate \/ AppendFails \/ Publish
    BY <2>2 DEF AllocFree, AllocBump, AllocExhausted, AllocReclaimed, RebalanceFails, ArenaFull,
                TreeStep, ChainNext, InsertDuplicate, AppendFails, Publish, allocFrame, EndInsert
  <2>3. CASE GuardStep
    BY <2>3 DEF GuardStep, OpenGuard, Commit, DropPrev, CommitReclaim, Release, Poison, EndInsert, opVars
  <2>4. CASE ReclaimStep
    BY <2>4 DEF ReclaimStep, Retire, ReclaimReady, Fence, ScanStripe, StorePhase, DrainYoung, DrainOld,
                DrainDone, scanFrame, drainFrame, opVars
  <2>5. ASSUME NEW r \in Readers, ReaderStep(r) PROVE Inv'
    BY <2>5 DEF ReaderStep, Steer, Enter, LoadRoot, Leave, opVars
  <2>6. CASE SnapshotStep \/ TickClock
    BY <2>6 DEF SnapshotStep, Acquire, DropSnapshot, CloneSnapshot, snapshotFrame, TickClock, opVars
  <2>7. CASE UNCHANGED vars
    BY <2>7 DEF vars, opVars
  <2> QED
    BY <2>1, <2>2, <2>3, <2>4, <2>5, <2>6, <2>7 DEF Next, InsertStep
<1>3. Inv => ~PathRetryFails
  BY DEF PathRetryFails
<1> QED
  BY <1>1, <1>2, <1>3, PTL DEF Spec

-----------------------------------------------------------------------------
(* The recycler drives the reader gate as ReadGate specifies it.           *)

\* ReadGate's readers: one that walks a tree is still counted.
Counted == [r \in Readers |-> IF rpc[r] = "walk" THEN "in" ELSE rpc[r]]

\* A step that is not the gate's own business.
LEMMA GateStutters ==
  ASSUME UNCHANGED <<phase, bucket, pass, unread>>, Counted' = Counted, wpc' = "scan" <=> wpc = "scan"
  PROVE  UNCHANGED Gate!vars
BY DEF Gate!vars, Counted

LEMMA GateReaderStep ==
  ASSUME Types, NEW r \in Readers, ReaderStep(r)
  PROVE  [Gate!Next]_(Gate!vars)
<1>0. rpc \in [Readers -> {"out", "steered", "in", "walk"}] /\ phase \in Nat
  BY DEF Types, ReaderTypes, ScanTypes
<1>1. UNCHANGED <<phase, pass, unread, wpc>>
  BY DEF ReaderStep, Steer, Enter, LoadRoot, Leave, scanVars
<1>2. CASE Steer(r)
  <2>1. PICK p \in 0..phase : bucket' = [bucket EXCEPT ![r] = p % 2]
    BY <1>2 DEF Steer
  <2>2. Counted[r] = "out" /\ Counted' = [Counted EXCEPT ![r] = "steered"]
    BY <1>0, <1>2 DEF Steer, Counted
  <2>3. p % 2 \in {0, 1} /\ (phase = 0 => p = 0)
    BY <1>0, <2>1
  <2>4. ~(phase > 0) => p % 2 = phase % 2
    BY <1>0, <2>3
  <2>5. Gate!Steer(r)
    BY <1>1, <2>1, <2>2, <2>3, <2>4 DEF Gate!Steer, Gate!Bit, Gate!writerVars, Counted
  <2> QED
    BY <2>5 DEF Gate!Next, Gate!ReaderStep
<1>3. CASE Enter(r)
  <2>1. Counted[r] = "steered" /\ Counted' = [Counted EXCEPT ![r] = "in"] /\ bucket' = bucket
    BY <1>0, <1>3 DEF Enter, Counted
  <2>2. Gate!Enter(r)
    BY <1>1, <2>1 DEF Gate!Enter, Gate!writerVars, Counted
  <2> QED
    BY <2>2 DEF Gate!Next, Gate!ReaderStep
<1>4. CASE LoadRoot(r)
  <2>1. Counted' = Counted /\ bucket' = bucket
    BY <1>0, <1>4 DEF LoadRoot, Counted
  <2> QED
    BY <1>1, <2>1, GateStutters
<1>5. CASE Leave(r)
  <2>1. Counted[r] = "in" /\ Counted' = [Counted EXCEPT ![r] = "out"]
        /\ bucket' = [bucket EXCEPT ![r] = 0]
    BY <1>0, <1>5 DEF Leave, Counted
  <2>2. Gate!Leave(r)
    BY <1>1, <2>1 DEF Gate!Leave, Gate!writerVars, Counted
  <2> QED
    BY <2>2 DEF Gate!Next, Gate!ReaderStep
<1> QED
  BY <1>2, <1>3, <1>4, <1>5 DEF ReaderStep

LEMMA GateScanStep ==
  ASSUME Types, Fence \/ StorePhase \/ \E st \in Stripes : ScanStripe(st)
  PROVE  Gate!Next
<1>0. phase \in Nat /\ (phase + 1) % 2 = 1 - (phase % 2)
  BY DEF Types, ScanTypes
<1>1. UNCHANGED <<rpc, bucket>> /\ Counted' = Counted
  BY DEF Fence, StorePhase, ScanStripe, scanFrame, gateVars, Counted
<1>2. CASE Fence
  <2>1. wpc # "scan" /\ wpc' = "scan" /\ pass' = 0 /\ unread' = Stripes /\ phase' = phase
    BY <1>2 DEF Fence, gateVars
  <2>2. Gate!BeginAdvance
    BY <1>1, <2>1 DEF Gate!BeginAdvance, Gate!readerVars, Counted
  <2> QED
    BY <2>2 DEF Gate!Next, Gate!Advance
<1>3. ASSUME NEW st \in Stripes, ScanStripe(st) PROVE Gate!Next
  <2>1. Gate!Occupied(st, Gate!NextBucket) <=> Occupied(st, (phase + 1) % 2)
    <3>1. \A r \in Readers : Counted[r] = "in" <=> rpc[r] \in {"in", "walk"}
      BY DEF Counted
    <3> QED
      BY <1>0, <3>1 DEF Gate!Occupied, Gate!NextBucket, Occupied, Counted
  <2>2. wpc = "scan" /\ st \in unread /\ phase' = phase /\ pass' = pass
    BY <1>3 DEF ScanStripe
  <2>3. CASE Occupied(st, (phase + 1) % 2)
    <3>1. wpc' = "drain" /\ unread' = {}
      BY <1>3, <2>3 DEF ScanStripe
    <3>2. Gate!ScanOccupied(st)
      BY <1>1, <2>1, <2>2, <2>3, <3>1 DEF Gate!ScanOccupied, Gate!readerVars, Counted
    <3> QED
      BY <3>2 DEF Gate!Next, Gate!Advance
  <2>4. CASE ~Occupied(st, (phase + 1) % 2)
    <3>1. wpc' = "scan" /\ unread' = unread \ {st}
      BY <1>3, <2>4 DEF ScanStripe
    <3>2. Gate!ScanEmpty(st)
      BY <1>1, <2>1, <2>2, <2>4, <3>1 DEF Gate!ScanEmpty, Gate!readerVars, Counted
    <3> QED
      BY <3>2 DEF Gate!Next, Gate!Advance
  <2> QED
    BY <2>3, <2>4
<1>4. CASE StorePhase
  <2>1. /\ wpc = "scan" /\ unread = {} /\ phase' = phase + 1 /\ phase' > 0
        /\ IF pass = 0 THEN pass' = 1 /\ unread' = Stripes /\ wpc' = wpc
                       ELSE wpc' = "drain" /\ pass' = pass /\ unread' = unread
    BY <1>0, <1>4 DEF StorePhase
  <2>2. (phase % 2)' = Gate!NextBucket
    BY <1>0, <2>1 DEF Gate!NextBucket
  <2>3. Gate!StorePhase
    BY <1>1, <2>1, <2>2 DEF Gate!StorePhase, Gate!readerVars, Counted
  <2> QED
    BY <2>3 DEF Gate!Next, Gate!Advance
<1> QED
  BY <1>2, <1>3, <1>4

\* Whatever the writer is doing besides, it moves the phase by advance()'s
\* two proofs of emptiness, and readers enter and leave by their own bucket:
\* what is proved of the gate holds inside the recycler.
THEOREM GateImplemented == Spec => GateSpec
<1>1. Init => Gate!Init
  <2> SUFFICES ASSUME Init PROVE Gate!Init
    OBVIOUS
  <2>1. phase = 0 /\ rpc = [r \in Readers |-> "out"] /\ bucket = [r \in Readers |-> 0]
        /\ wpc = "idle" /\ pass = 0 /\ unread = {}
    BY DEF Init
  <2>2. Counted = [r \in Readers |-> "out"]
    BY <2>1 DEF Counted
  <2> QED
    BY <2>1, <2>2 DEF Gate!Init, Counted
<1>2. Types /\ [Next]_vars => [Gate!Next]_(Gate!vars)
  <2> SUFFICES ASSUME Types, [Next]_vars PROVE [Gate!Next]_(Gate!vars)
    OBVIOUS
  <2>1. CASE (\E r \in Readers : ReaderStep(r))
    BY <2>1, GateReaderStep
  <2>2. CASE Fence \/ StorePhase \/ \E st \in Stripes : ScanStripe(st)
    BY <2>2, GateScanStep
  <2>3. CASE UNCHANGED vars \/ SnapshotStep \/ TickClock
    <3>1. UNCHANGED <<gateVars, pass, unread, wpc>>
      BY <2>3 DEF vars, scanVars, SnapshotStep, Acquire, DropSnapshot, CloneSnapshot, snapshotFrame, TickClock
    <3> QED
      BY <3>1, GateStutters DEF gateVars, Counted
  <2>4. CASE InsertStep
    <3>1. UNCHANGED <<gateVars, pass, unread>>
      BY <2>4, InsertFrame DEF scanVars
    <3>2. wpc # "scan" /\ wpc' # "scan"
      BY <2>4 DEF InsertStep, BeginInsert, AllocFree, AllocBump, AllocExhausted, AllocReclaimed,
                  RebalanceFails, ArenaFull, TreeStep, ChainNext, InsertDuplicate, AppendFails, Publish
    <3> QED
      BY <3>1, <3>2, GateStutters DEF gateVars, Counted
  <2>5. CASE Retire \/ ReclaimReady \/ DrainYoung \/ DrainOld \/ DrainDone
    <3>1. UNCHANGED <<gateVars, pass, unread>>
      BY <2>5 DEF Retire, ReclaimReady, DrainYoung, DrainOld, DrainDone, drainFrame, scanVars
    <3>2. wpc # "scan" /\ wpc' # "scan"
      BY <2>5 DEF Retire, ReclaimReady, DrainYoung, DrainOld, DrainDone, drainFrame, Types, PcTypes
    <3> QED
      BY <3>1, <3>2, GateStutters DEF gateVars, Counted
  <2>6. CASE GuardStep
    <3>1. UNCHANGED <<gateVars, pass, unread>> /\ wpc # "scan" /\ wpc' # "scan"
      BY <2>6 DEF GuardStep, OpenGuard, Commit, DropPrev, CommitReclaim, Release, Poison, scanVars
    <3> QED
      BY <3>1, GateStutters DEF gateVars, Counted
  <2> QED
    BY <2>1, <2>2, <2>3, <2>4, <2>5, <2>6, Zenon DEF Next, ReclaimStep
<1>3. Spec => []Types
  BY TypeInit, TypeParts, TypeStep, PTL DEF Spec
<1> QED
  BY <1>1, <1>2, <1>3, PTL DEF Spec, GateSpec, Gate!Spec
=============================================================================
