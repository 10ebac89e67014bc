---------------------------- MODULE ArenaRecycler ----------------------------
(***************************************************************************)
(* Slot recycling in the dynamic graph: the C-tree arena with its free     *)
(* list and pending batches (crates/aether-graph/src/arena.rs), the writer *)
(* guard that allocates, publishes and retires slots (writer.rs), gated    *)
(* readers of live roots (graph.rs) and pinned snapshots read without the  *)
(* gate (snapshot.rs).                                                     *)
(*                                                                         *)
(* A tree is the set of slots it is made of.  An insert allocates fresh    *)
(* slots, supersedes some slots of the old tree and publishes the rest.    *)
(* The 64-byte chunk region and the 16-byte interior region follow one     *)
(* discipline (one free list, one bump cursor, one young index each), so   *)
(* one region stands for both.  The WAL appears here only as an append or  *)
(* a sync that can fail.                                                   *)
(*                                                                         *)
(* Memory model.  A root store is Release, so until the writer's next      *)
(* SeqCst fence a root load may return any root stored since the previous  *)
(* fence: vis[v] is the set of trees a load of v's root may return.  The   *)
(* relaxed phase load in enter() may return any phase ever stored.         *)
(***************************************************************************)
EXTENDS Naturals, Sequences, FiniteSets

CONSTANTS
  Readers, Stripes, StripeOf,   \* as in ReadGate
  Vertices,
  Handles,        \* places a user can keep an acquired Snapshot in
  NumSlots,       \* arena capacity, in slots
  LogCap,         \* RetireLog::wants_flush threshold
  CoalesceSlots,  \* COALESCE_SLOTS
  Kinds,          \* the insert paths in use, among InsertKinds
  MaxChain,       \* bound: destinations of one path-copying batch
  MaxFresh,       \* bound: nodes one tree operation allocates
  MaxPhase,       \* bound: no insert starts at this gate phase
  MaxEpoch        \* bound: no guard opens and no clock tick at this epoch

\* insert_edge, insert_sorted_by_path_copy, insert_sorted_by_rebuild.
InsertKinds == {"edge", "path", "rebuild"}

ASSUME RecyclerAssumption ==
  /\ StripeOf \in [Readers -> Stripes]
  /\ NumSlots \in Nat
  /\ LogCap \in Nat \ {0}
  /\ CoalesceSlots \in Nat
  /\ Kinds \subseteq InsertKinds
  /\ MaxChain \in Nat \ {0}
  /\ MaxFresh \in Nat \ {0}
  /\ MaxPhase \in Nat
  /\ MaxEpoch \in Nat

Slots == 0..(NumSlots - 1)
Trees == SUBSET Slots
Batches == [stamp : Nat, grace : Nat, slots : Trees]
Snapshots == [epoch : Nat, table : [Vertices -> Trees]]

VARIABLES
  (* reader gate and the gated readers *)
  phase, rpc, bucket,
  rtree,      \* the tree a reader in the gate is walking
  (* roots *)
  live,       \* roots, as the writer last stored them
  vis,        \* trees a reader's root load may return
  (* commits and pins *)
  epoch,      \* the shared EpochClock
  latest,     \* DynamicGraph.latest
  dropping,   \* the snapshot publish_commit has replaced and not yet dropped
  held, snap, \* handles in use, and the snapshot in each
  poisoned,
  (* arena *)
  bump, free, young, old,
  (* the writer guard and what it is doing *)
  wpc, wret,  \* program counter, and where a subroutine returns to
  ystart,     \* young_chunk_start: bump cursor when the guard opened
  stamp,      \* retire_stamp, then the epoch publish_commit returned
  log,        \* retire_log
  mark,       \* chunks_mark / interiors_mark: a length of the retire log
  base,       \* the entries of the log that are older than the insert
  touched,    \* vertices in touched_leaves
  walFailed,
  kind, op, cur, fresh,  \* the insert: path, source, tree so far, new nodes
  steps, retried,        \* destinations inserted so far; second attempt
  wmin, pass, unread,       \* reclaim_ready's min_pinned; advance()'s scan
  leaked      \* history: slots no structure refers to any more

gateVars   == <<phase, rpc, bucket, rtree>>
rootVars   == <<live, vis>>
commitVars == <<epoch, latest, dropping, held, snap>>
arenaVars  == <<bump, free, young, old, leaked>>
guardVars  == <<ystart, stamp, log, mark, base, touched, walFailed, poisoned>>
opVars     == <<kind, op, cur, fresh, steps, retried>>
scanVars   == <<wmin, pass, unread>>
vars == <<gateVars, rootVars, commitVars, arenaVars, guardVars, opVars,
          scanVars, wpc, wret>>

EmptyTable == [v \in Vertices |-> {}]

Init ==
  /\ phase = 0
  /\ rpc = [r \in Readers |-> "out"]
  /\ bucket = [r \in Readers |-> 0]
  /\ rtree = [r \in Readers |-> {}]
  /\ live = EmptyTable
  /\ vis = [v \in Vertices |-> {{}}]
  /\ epoch = 0
  /\ latest = [epoch |-> 0, table |-> EmptyTable]
  /\ dropping = {}
  /\ held = {}
  /\ snap = [h \in Handles |-> latest]
  /\ poisoned = FALSE
  /\ bump = 0 /\ free = {} /\ young = <<>> /\ old = <<>> /\ leaked = {}
  /\ wpc = "idle" /\ wret = "idle"
  /\ ystart = 0 /\ stamp = 0
  /\ log = {} /\ mark = 0 /\ base = {} /\ touched = {} /\ walFailed = FALSE
  /\ kind = "edge" /\ op \in Vertices /\ cur = {} /\ fresh = {}
  /\ steps = 0 /\ retried = FALSE
  /\ wmin = 0 /\ pass = 0 /\ unread = {}

-----------------------------------------------------------------------------
(* Gated readers of live roots *)

\* enter(): the relaxed phase load picks a bucket.
Steer(r) ==
  /\ rpc[r] = "out"
  /\ \E p \in 0..phase : bucket' = [bucket EXCEPT ![r] = p % 2]
  /\ rpc' = [rpc EXCEPT ![r] = "steered"]
  /\ UNCHANGED <<phase, rtree, rootVars, commitVars, arenaVars, guardVars,
                 opVars, scanVars, wpc, wret>>

\* enter(): fetch_add on the chosen bucket of the reader's stripe.
Enter(r) ==
  /\ rpc[r] = "steered"
  /\ rpc' = [rpc EXCEPT ![r] = "in"]
  /\ UNCHANGED <<phase, bucket, rtree, rootVars, commitVars, arenaVars,
                 guardVars, opVars, scanVars, wpc, wret>>

\* tree_for(): the SeqCst root load under the guard, then the walk.
LoadRoot(r) ==
  /\ rpc[r] = "in"
  /\ \E v \in Vertices : \E t \in vis[v] : rtree' = [rtree EXCEPT ![r] = t]
  /\ rpc' = [rpc EXCEPT ![r] = "walk"]
  /\ UNCHANGED <<phase, bucket, rootVars, commitVars, arenaVars, guardVars,
                 opVars, scanVars, wpc, wret>>

\* ReadGuard::drop.
Leave(r) ==
  /\ rpc[r] = "walk"
  /\ rpc' = [rpc EXCEPT ![r] = "out"]
  /\ bucket' = [bucket EXCEPT ![r] = 0]
  /\ rtree' = [rtree EXCEPT ![r] = {}]
  /\ UNCHANGED <<phase, rootVars, commitVars, arenaVars, guardVars, opVars,
                 scanVars, wpc, wret>>

-----------------------------------------------------------------------------
(* Snapshots and pins *)

\* Snapshots whose PinTicket is registered.  The graph's own snapshot is
\* always one of them.
Pinned == {latest} \cup dropping \cup {snap[h] : h \in held}

\* PinRegistry::min_pinned returns e.
IsMinPinned(e) ==
  /\ \E s \in Pinned : s.epoch = e
  /\ \A s \in Pinned : e <= s.epoch

snapshotFrame == <<epoch, latest, dropping, gateVars, rootVars, arenaVars,
                   guardVars, opVars, scanVars, wpc, wret>>

\* acquire(): clone the latest snapshot, registering its epoch again.
Acquire(h) ==
  /\ h \notin held
  /\ held' = held \cup {h}
  /\ snap' = [snap EXCEPT ![h] = latest]
  /\ UNCHANGED snapshotFrame

\* Snapshot::clone: re-registers the same epoch.
CloneSnapshot(h, g) ==
  /\ h \in held /\ g \notin held
  /\ held' = held \cup {g}
  /\ snap' = [snap EXCEPT ![g] = snap[h]]
  /\ UNCHANGED snapshotFrame

\* PinTicket::drop.
DropSnapshot(h) ==
  /\ h \in held
  /\ held' = held \ {h}
  /\ snap' = [snap EXCEPT ![h] = [epoch |-> 0, table |-> EmptyTable]]
  /\ UNCHANGED snapshotFrame

\* Another subsystem that shares the EpochClock advances it.
TickClock ==
  /\ epoch < MaxEpoch
  /\ epoch' = epoch + 1
  /\ UNCHANGED <<latest, dropping, held, snap, gateVars, rootVars, arenaVars,
                 guardVars, opVars, scanVars, wpc, wret>>

-----------------------------------------------------------------------------
(* The writer guard: opening, and inserts *)

\* writer(): refused while poisoned; the arena handle notes the bump cursor
\* and the guard notes a stamp above every committed epoch.
OpenGuard ==
  /\ wpc = "idle"
  /\ ~poisoned
  /\ epoch < MaxEpoch
  /\ wpc' = "open"
  /\ ystart' = bump
  /\ stamp' = epoch + 1
  /\ UNCHANGED <<gateVars, rootVars, commitVars, arenaVars, log, mark, base,
                 touched, walFailed, poisoned, opVars, scanVars, wret>>

\* insert_edge / insert_edges_sorted: check_wal, load the root, note how
\* long the retire log is.
BeginInsert(v, k) ==
  /\ wpc = "open"
  /\ ~walFailed
  /\ phase < MaxPhase
  /\ wpc' = "alloc"
  /\ kind' = k
  /\ op' = v
  /\ cur' = live[v]
  /\ mark' = Cardinality(log)
  /\ base' = log
  /\ UNCHANGED <<gateVars, rootVars, commitVars, arenaVars, ystart, stamp, log,
                 touched, walFailed, poisoned, fresh, steps, retried, scanVars,
                 wret>>

\* The insert is over, one way or another: its locals are gone.
EndInsert ==
  /\ kind' = "edge" /\ cur' = {} /\ fresh' = {} /\ steps' = 0
  /\ retried' = FALSE /\ mark' = 0 /\ base' = {}
  /\ UNCHANGED op

allocFrame == <<gateVars, rootVars, commitVars, young, old, leaked, guardVars,
                kind, op, cur, steps, retried, scanVars>>

\* alloc_chunk / alloc_interior: pop the free list.
AllocFree ==
  /\ wpc = "alloc"
  /\ Cardinality(fresh) < MaxFresh
  /\ \E s \in free : free' = free \ {s} /\ fresh' = fresh \cup {s}
  /\ UNCHANGED <<allocFrame, bump, wpc, wret>>

\* The free list is empty: bump the cursor.
AllocBump ==
  /\ wpc = "alloc"
  /\ Cardinality(fresh) < MaxFresh
  /\ free = {}
  /\ bump < NumSlots
  /\ fresh' = fresh \cup {bump}
  /\ bump' = bump + 1
  /\ UNCHANGED <<allocFrame, free, wpc, wret>>

\* The cursors have met: reclaim what is ready before giving up.
AllocExhausted ==
  /\ wpc = "alloc"
  /\ Cardinality(fresh) < MaxFresh
  /\ free = {}
  /\ bump = NumSlots
  /\ wpc' = "reclaim"
  /\ wret' = "full"
  /\ UNCHANGED <<allocFrame, bump, free, fresh>>

\* ... and the free list is tried once more.
AllocReclaimed ==
  /\ wpc = "full"
  /\ \E s \in free : free' = free \ {s} /\ fresh' = fresh \cup {s}
  /\ wpc' = "alloc"
  /\ UNCHANGED <<allocFrame, bump, wret>>

\* rebalance() fails for lack of space after the path copy succeeded: the
\* un-rebalanced tree is kept and the partial rebuild leaks.
RebalanceFails ==
  /\ wpc = "full"
  /\ kind \in {"edge", "path"}
  /\ free = {} /\ fresh # {}
  /\ wpc' = "built"
  /\ UNCHANGED <<allocFrame, bump, free, fresh, wret>>

\* insert_with_scratch / from_sorted succeed.  The new tree keeps some nodes
\* of the old one and some fresh ones.  A path copy logs what it superseded
\* (at least the leaf that changed, and on a rebalance some of its own fresh
\* nodes); a rebuild keeps nothing and logs only after the root store.
TreeStep ==
  /\ wpc \in {"alloc", "built"}
  /\ steps < MaxChain
  /\ \E kept \in SUBSET fresh, gone \in SUBSET cur :
       /\ kept # {}
       /\ cur # {} => gone # {}
       /\ cur' = (cur \ gone) \cup kept
       /\ \/ /\ kind = "rebuild" /\ kept = fresh /\ gone = cur
             /\ UNCHANGED <<log, leaked>>
          \/ /\ kind # "rebuild" /\ wpc = "alloc"
             /\ log' = log \cup gone \cup (fresh \ kept)
             /\ UNCHANGED leaked
          \/ /\ kind # "rebuild" /\ wpc = "built"
             /\ log' = log \cup gone
             /\ leaked' = leaked \cup (fresh \ kept)
  /\ fresh' = {}
  /\ steps' = steps + 1
  /\ wpc' = "chain"
  /\ UNCHANGED <<gateVars, rootVars, commitVars, bump, free, young, old, ystart,
                 stamp, mark, base, touched, walFailed, poisoned, kind, op,
                 retried, scanVars, wret>>

\* insert_sorted_by_path_copy goes on to its next destination.
ChainNext ==
  /\ wpc = "chain"
  /\ kind = "path"
  /\ steps < MaxChain
  /\ wpc' = "alloc"
  /\ UNCHANGED <<allocFrame, bump, free, fresh, wret>>

\* Nothing new to insert: the published tree stays.
InsertDuplicate ==
  /\ wpc = "alloc"
  /\ fresh = {} /\ steps = 0 /\ ~retried
  /\ wpc' = "open"
  /\ EndInsert
  /\ UNCHANGED <<gateVars, rootVars, commitVars, arenaVars, ystart, stamp, log,
                 touched, walFailed, poisoned, scanVars, wret>>

\* Vec::truncate to the marks: the log keeps its first mark entries, all of
\* it when it is shorter.
Truncations ==
  {k \in SUBSET log :
     /\ base \subseteq k
     /\ Cardinality(k) = IF mark < Cardinality(log) THEN mark
                                                    ELSE Cardinality(log)}

\* ArenaFull: un-log what the failed insert superseded, its fresh nodes leak.
\* The first time, stamp the log and retry from the published tree;
\* insert_edge takes its marks again, the path-copying chain does not.  The
\* second time it is an error.
ArenaFull ==
  /\ wpc = "full"
  /\ free = {}
  /\ \E k \in Truncations :
       /\ log' = k
       /\ leaked' = leaked \cup fresh \cup ((cur \cup log) \ (live[op] \cup k))
  /\ \/ /\ retried
        /\ wpc' = "open"
        /\ EndInsert
        /\ UNCHANGED wret
     \/ /\ ~retried
        /\ retried' = TRUE
        /\ wpc' = "retire" /\ wret' = "alloc"
        /\ cur' = live[op] /\ fresh' = {} /\ steps' = 0 /\ base' = {}
        /\ mark' = IF kind = "path" THEN mark ELSE 0
        /\ UNCHANGED <<kind, op>>
  /\ UNCHANGED <<gateVars, rootVars, commitVars, bump, free, young, old, ystart,
                 stamp, touched, walFailed, poisoned, scanVars>>

\* Mutant of AppendFails: the error is returned, but neither the log nor
\* wal_failed is touched.
AppendFailsSwallowed ==
  /\ wpc = "chain"
  /\ leaked' = leaked \cup (cur \ live[op])
  /\ wpc' = "open"
  /\ EndInsert
  /\ UNCHANGED <<gateVars, rootVars, commitVars, bump, free, young, old, ystart,
                 stamp, log, touched, walFailed, poisoned, scanVars, wret>>

\* append_edge / append_batch fails before the root store: the old tree
\* stays published, so its nodes are un-logged.
AppendFails ==
  /\ wpc = "chain"
  /\ \E k \in Truncations :
       /\ log' = k
       /\ leaked' = leaked \cup ((cur \cup log) \ (live[op] \cup k))
  /\ walFailed' = TRUE
  /\ wpc' = "open"
  /\ EndInsert
  /\ UNCHANGED <<gateVars, rootVars, commitVars, bump, free, young, old, ystart,
                 stamp, touched, poisoned, scanVars, wret>>

\* Mutant of Publish: note_root_store is forgotten.
PublishUnnoted ==
  /\ wpc = "chain"
  /\ live' = [live EXCEPT ![op] = cur]
  /\ vis' = [vis EXCEPT ![op] = @ \cup {cur}]
  /\ log' = IF kind = "rebuild" THEN log \cup live[op] ELSE log
  /\ IF Cardinality(log') >= LogCap
       THEN wpc' = "retire" /\ wret' = "open"
       ELSE wpc' = "open" /\ UNCHANGED wret
  /\ EndInsert
  /\ UNCHANGED <<gateVars, commitVars, arenaVars, ystart, stamp, touched,
                 walFailed, poisoned, scanVars>>

\* The record is appended: store the root (Release), note the leaf, log the
\* old tree of a rebuild, and stamp the log at its watermark.
Publish ==
  /\ wpc = "chain"
  /\ live' = [live EXCEPT ![op] = cur]
  /\ vis' = [vis EXCEPT ![op] = @ \cup {cur}]
  /\ touched' = touched \cup {op}
  /\ log' = IF kind = "rebuild" THEN log \cup live[op] ELSE log
  /\ IF Cardinality(log') >= LogCap
       THEN wpc' = "retire" /\ wret' = "open"
       ELSE wpc' = "open" /\ UNCHANGED wret
  /\ EndInsert
  /\ UNCHANGED <<gateVars, commitVars, arenaVars, ystart, stamp, walFailed,
                 poisoned, scanVars>>

-----------------------------------------------------------------------------
(* retire() and reclaim_ready() *)

Larger(a, b) == IF a >= b THEN a ELSE b

\* Mutant of Enqueue: coalescing replaces the newest batch's slots.
EnqueueOverwrites(q, slots, st, grace) ==
  IF slots = {} THEN q
  ELSE IF q # <<>> /\ Cardinality(q[Len(q)].slots) + Cardinality(slots)
                        <= CoalesceSlots
    THEN [q EXCEPT ![Len(q)] = [stamp |-> st, grace |-> grace, slots |-> slots]]
    ELSE Append(q, [stamp |-> st, grace |-> grace, slots |-> slots])

\* enqueue(): fold small batches into the newest one.
Enqueue(q, slots, st, grace) ==
  IF slots = {} THEN q
  ELSE IF q # <<>> /\ Cardinality(q[Len(q)].slots) + Cardinality(slots)
                        <= CoalesceSlots
    THEN [q EXCEPT ![Len(q)] =
            [stamp |-> Larger(@.stamp, st), grace |-> Larger(@.grace, grace),
             slots |-> @.slots \cup slots]]
    ELSE Append(q, [stamp |-> st, grace |-> grace, slots |-> slots])

\* Mutant of Retire: one phase step is taken to be grace enough.
RetireOneStep ==
  /\ wpc = "retire"
  /\ young' = Enqueue(young, {s \in log : s >= ystart}, stamp, phase + 1)
  /\ old' = Enqueue(old, {s \in log : s < ystart}, stamp, phase + 1)
  /\ log' = {}
  /\ IF log = {} THEN wpc' = wret /\ wret' = "idle"
                 ELSE wpc' = "reclaim" /\ UNCHANGED wret
  /\ UNCHANGED <<gateVars, rootVars, commitVars, bump, free, leaked, ystart,
                 stamp, mark, base, touched, walFailed, poisoned, opVars,
                 scanVars>>

\* retire(): stamp the log with phase + 2 and split it at the cursor the
\* guard started from; slots at or past it were never in a snapshot.
Retire ==
  /\ wpc = "retire"
  /\ young' = Enqueue(young, {s \in log : s >= ystart}, stamp, phase + 2)
  /\ old' = Enqueue(old, {s \in log : s < ystart}, stamp, phase + 2)
  /\ log' = {}
  /\ IF log = {} THEN wpc' = wret /\ wret' = "idle"
                 ELSE wpc' = "reclaim" /\ UNCHANGED wret
  /\ UNCHANGED <<gateVars, rootVars, commitVars, bump, free, leaked, ystart,
                 stamp, mark, base, touched, walFailed, poisoned, opVars,
                 scanVars>>

\* The front batch's grace phase, if there is a front batch nothing but
\* the gate holds back.
YoungNeed == IF young = <<>> THEN {} ELSE {Head(young).grace}
OldNeed(min) ==
  IF old = <<>> \/ Head(old).stamp > min THEN {} ELSE {Head(old).grace}

\* reclaim_ready(): read the pinned minimum and decide whether the gate
\* has to move.
ReclaimReady ==
  /\ wpc = "reclaim"
  /\ \E m \in 0..epoch :
       /\ IsMinPinned(m)
       /\ LET need == YoungNeed \cup OldNeed(m) IN
            IF need = {}
              THEN wpc' = wret /\ wret' = "idle" /\ UNCHANGED wmin
              ELSE /\ wmin' = m
                   /\ wpc' = IF \E g \in need : phase < g
                               THEN "advance" ELSE "drain"
                   /\ UNCHANGED wret
  /\ UNCHANGED <<gateVars, rootVars, commitVars, arenaVars, guardVars, opVars,
                 pass, unread>>

\* advance(): the SeqCst fence.  Root loads from here on return the roots
\* as stored.
Fence ==
  /\ wpc = "advance"
  /\ vis' = [v \in Vertices |-> {live[v]}]
  /\ wpc' = "scan"
  /\ pass' = 0
  /\ unread' = Stripes
  /\ UNCHANGED <<gateVars, live, commitVars, arenaVars, guardVars, opVars, wmin,
                 wret>>

Occupied(st, b) ==
  \E r \in Readers : /\ rpc[r] \in {"in", "walk"}
                     /\ bucket[r] = b
                     /\ StripeOf[r] = st

scanFrame == <<rpc, bucket, rtree, rootVars, commitVars, arenaVars, guardVars,
               opVars, wmin, wret>>

\* bucket_empty(): load one stripe's counter.
ScanStripe(st) ==
  /\ wpc = "scan"
  /\ st \in unread
  /\ IF Occupied(st, (phase + 1) % 2)
       THEN wpc' = "drain" /\ unread' = {}
       ELSE wpc' = "scan" /\ unread' = unread \ {st}
  /\ UNCHANGED <<scanFrame, phase, pass>>

\* Mutant of StorePhase: one emptiness proof moves the phase by two.
StorePhaseTwice ==
  /\ wpc = "scan"
  /\ unread = {}
  /\ phase' = phase + 2
  /\ wpc' = "drain"
  /\ UNCHANGED <<scanFrame, pass, unread>>

\* The bucket was empty: store the phase; two steps at most.
StorePhase ==
  /\ wpc = "scan"
  /\ unread = {}
  /\ phase' = phase + 1
  /\ IF pass = 0
       THEN pass' = 1 /\ unread' = Stripes /\ UNCHANGED wpc
       ELSE wpc' = "drain" /\ UNCHANGED <<pass, unread>>
  /\ UNCHANGED scanFrame

\* Mutant of OldReady: gate grace alone frees a batch a snapshot can reach.
OldReadyUnpinned == old # <<>> /\ Head(old).grace <= phase

YoungReady == young # <<>> /\ Head(young).grace <= phase
OldReady   == old # <<>> /\ Head(old).grace <= phase /\ Head(old).stamp <= wmin

drainFrame == <<gateVars, rootVars, commitVars, bump, leaked, guardVars, opVars,
                pass, unread>>

\* reclaim_ready(): free young batches from the front (free_batch).
DrainYoung ==
  /\ wpc = "drain"
  /\ YoungReady
  /\ free' = free \cup Head(young).slots
  /\ young' = Tail(young)
  /\ UNCHANGED <<drainFrame, old, wmin, wpc, wret>>

\* Then old batches, up to the first one a pin or a reader holds.
DrainOld ==
  /\ wpc = "drain"
  /\ ~YoungReady /\ OldReady
  /\ free' = free \cup Head(old).slots
  /\ old' = Tail(old)
  /\ UNCHANGED <<drainFrame, young, wmin, wpc, wret>>

DrainDone ==
  /\ wpc = "drain"
  /\ ~YoungReady /\ ~OldReady
  /\ wpc' = wret
  /\ wret' = "idle"
  /\ wmin' = 0
  /\ UNCHANGED <<drainFrame, young, old, free>>

-----------------------------------------------------------------------------
(* Writer::drop *)

\* Clean drop, WAL synced: build the table from the touched leaves, advance
\* the epoch and swap the snapshot in under the lock.  With nothing
\* published only the epoch moves.
Commit ==
  /\ wpc = "open"
  /\ ~walFailed
  /\ epoch' = epoch + 1
  /\ stamp' = epoch + 1
  /\ IF touched = {}
       THEN UNCHANGED <<latest, dropping>>
       ELSE /\ latest' = [epoch |-> epoch + 1,
                          table |-> [v \in Vertices |->
                            IF v \in touched THEN live[v]
                                             ELSE latest.table[v]]]
            /\ dropping' = {latest}
  /\ touched' = {}
  /\ wpc' = "dropPrev"
  /\ UNCHANGED <<held, snap, gateVars, rootVars, arenaVars, ystart, log, mark,
                 base, walFailed, poisoned, opVars, scanVars, wret>>

\* The replaced snapshot is dropped after the lock is released; then the
\* rest of the log is retired.
DropPrev ==
  /\ wpc = "dropPrev"
  /\ dropping' = {}
  /\ wpc' = "retire"
  /\ wret' = "commitReclaim"
  /\ UNCHANGED <<epoch, latest, held, snap, gateVars, rootVars, arenaVars,
                 guardVars, opVars, scanVars>>

\* reclaim() once more before the slot is released.
CommitReclaim ==
  /\ wpc = "commitReclaim"
  /\ wpc' = "reclaim"
  /\ wret' = "release"
  /\ UNCHANGED <<gateVars, rootVars, commitVars, arenaVars, guardVars, opVars,
                 scanVars>>

Release ==
  /\ wpc = "release"
  /\ wpc' = "idle"
  /\ UNCHANGED <<gateVars, rootVars, commitVars, arenaVars, guardVars, opVars,
                 scanVars, wret>>

\* Drop after a WAL failure, a failed sync, or a panic in the middle of an
\* insert: poison, and let the un-stamped log die with the guard.
Poison ==
  /\ wpc \in {"open", "alloc", "full", "built", "chain"}
  /\ poisoned' = TRUE
  /\ leaked' = leaked \cup fresh \cup ((cur \cup log) \ live[op])
  /\ log' = {} /\ touched' = {} /\ walFailed' = FALSE
  /\ EndInsert
  /\ wpc' = "idle"
  /\ UNCHANGED <<gateVars, rootVars, commitVars, bump, free, young, old, ystart,
                 stamp, scanVars, wret>>

ReaderStep(r) == Steer(r) \/ Enter(r) \/ LoadRoot(r) \/ Leave(r)

SnapshotStep ==
  \/ \E h \in Handles : Acquire(h) \/ DropSnapshot(h)
  \/ \E h, g \in Handles : CloneSnapshot(h, g)

InsertStep ==
  \/ \E v \in Vertices, k \in Kinds : BeginInsert(v, k)
  \/ AllocFree \/ AllocBump \/ AllocExhausted \/ AllocReclaimed
  \/ RebalanceFails \/ ArenaFull \/ TreeStep \/ ChainNext \/ InsertDuplicate
  \/ AppendFails \/ Publish

ReclaimStep ==
  \/ Retire \/ ReclaimReady \/ Fence
  \/ \E st \in Stripes : ScanStripe(st)
  \/ StorePhase \/ DrainYoung \/ DrainOld \/ DrainDone

GuardStep ==
  \/ OpenGuard \/ Commit \/ DropPrev \/ CommitReclaim \/ Release \/ Poison

Next ==
  \/ \E r \in Readers : ReaderStep(r)
  \/ SnapshotStep
  \/ TickClock
  \/ InsertStep
  \/ ReclaimStep
  \/ GuardStep

Spec == Init /\ [][Next]_vars

-----------------------------------------------------------------------------
(* Properties *)

TypeOK ==
  /\ phase \in Nat
  /\ rpc \in [Readers -> {"out", "steered", "in", "walk"}]
  /\ bucket \in [Readers -> {0, 1}]
  /\ rtree \in [Readers -> Trees]
  /\ live \in [Vertices -> Trees]
  /\ vis \in [Vertices -> SUBSET Trees]
  /\ epoch \in Nat
  /\ latest \in Snapshots
  /\ dropping \subseteq Snapshots
  /\ held \subseteq Handles
  /\ snap \in [Handles -> Snapshots]
  /\ poisoned \in BOOLEAN
  /\ bump \in 0..NumSlots
  /\ free \in Trees /\ leaked \in Trees
  /\ young \in Seq(Batches) /\ old \in Seq(Batches)
  /\ wpc \in {"idle", "open", "alloc", "full", "built", "chain", "retire",
              "reclaim", "advance", "scan", "drain", "dropPrev",
              "commitReclaim", "release"}
  /\ wret \in {"idle", "full", "alloc", "open", "commitReclaim", "release"}
  /\ ystart \in Nat /\ stamp \in Nat
  /\ log \in Trees /\ mark \in Nat /\ base \in Trees
  /\ touched \subseteq Vertices /\ walFailed \in BOOLEAN
  /\ kind \in InsertKinds /\ op \in Vertices
  /\ cur \in Trees /\ fresh \in Trees
  /\ steps \in Nat /\ retried \in BOOLEAN
  /\ wmin \in Nat /\ pass \in {0, 1} /\ unread \subseteq Stripes

PendingIn(q) == UNION {q[i].slots : i \in DOMAIN q}
LiveSlots == UNION {live[v] : v \in Vertices}

\* No slot a gated reader may be walking is on the free list or being
\* rewritten by an insert, however its bucket load, entry, root load and exit
\* interleave with retire(), advance() and reclaim_ready().
ReadersIntact ==
  \A r \in Readers : rtree[r] \cap (free \cup fresh) = {}

\* No slot reachable from a snapshot that is still pinned (the graph's own,
\* one being replaced, or one a user holds) is free or being rewritten:
\* snapshots are read without the gate, the pin alone protects them.
PinnedIntact ==
  \A s \in Pinned : \A v \in Vertices :
    s.table[v] \cap (free \cup fresh) = {}

\* Between operations every slot the bump cursor has handed out has exactly
\* one owner: a published tree, the log, one pending batch, the free list,
\* or it leaked with a failed insert.  A slot logged twice, freed twice or
\* dropped by a coalescing queue breaks it.
OneOwner ==
  wpc \in {"idle", "open"} /\ ~walFailed =>
    LET parts == <<LiveSlots, log, PendingIn(young), PendingIn(old), free,
                   leaked>>
    IN /\ UNION {parts[i] : i \in 1..6} = 0..(bump - 1)
       /\ \A i, j \in 1..6 : i # j => parts[i] \cap parts[j] = {}
       /\ \A v, w \in Vertices : v # w => live[v] \cap live[w] = {}
       /\ \A q \in {young, old} : \A i, j \in DOMAIN q :
            i # j => q[i].slots \cap q[j].slots = {}

\* The snapshot a clean commit leaves behind is exactly the published roots,
\* although it is built by re-reading only the touched leaves.
LatestIsLive ==
  wpc = "idle" /\ ~poisoned => latest.table = live

\* retire()'s contract: every logged slot is unreachable from every
\* published root when the log is stamped.
RetireContract == wpc = "retire" => log \cap LiveSlots = {}

\* The recycler drives the reader gate as ReadGate specifies it.
Gate ==
  INSTANCE ReadGate WITH
    phaseBit <- phase % 2,
    stale    <- phase > 0,
    rpc      <- [r \in Readers |-> IF rpc[r] = "walk" THEN "in" ELSE rpc[r]],
    scanning <- wpc = "scan"

GateSpec == Gate!Spec

=============================================================================
