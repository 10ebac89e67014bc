# AetherGraph: TLA+ models, checks and proofs

This directory specifies the concurrent, crash-prone and pointer-juggling parts
of AetherGraph: the dynamic graph of `crates/aether-graph`, the loaders,
samplers, caches and readers of `crates/aethergraph-core`, the streamed table
and network data path of `crates/aether-stream`, and the memory pools of
`crates/aether-mem`. TLC checks the modules on small instances; TLAPS proves
what matters most for every value of the constants. `PROJECT.json` maps each
definition to the lines it models and lists hazards, runs, mutants and theorems.

Paths are relative to `src/crates/`; `AG` is `aether-graph/src`, `CORE` is
`aethergraph-core/src`, `STREAM` is `aether-stream/src`, and `PF` is
`CORE/loader/prefetch.rs`.

## 1. The system

| Component | State | Operations | What must hold |
|---|---|---|---|
| Reader gate (`AG/arena.rs`) | phase, two counters per stripe | `enter`, guard drop, `advance` | a slot stamped two phases ahead is held by no reader when the phase gets there; overlapping readers do not stop the phase |
| Arena, writer guard, snapshots (`AG/arena.rs`, `writer.rs`, `snapshot.rs`) | free list, bump cursors, retire log, stamped batches, pins, roots, latest snapshot, poison flag | `alloc_*`, `retire`, `reclaim_ready`, inserts, guard drop, `acquire` | one owner per slot; nothing a gated reader or a pinned snapshot can reach is rewritten; a commit's snapshot is the published roots |
| Epoch clock (`aether-epoch`) | one counter several graphs may share | `advance` | stamps and pins stay comparable |
| C-tree and chunks (`AG/ctree.rs`, `chunk.rs`) | persistent trees of sorted chunks | insert, batches, scapegoat rebalance, bulk build, lookup | trees are their edges; depth bounded; the retire log names exactly what left |
| Compaction (`AG/compact.rs`) | whole arena | `compact` | same edges, disjoint regions of exact size |
| Log and recovery (`AG/wal.rs`, `graph.rs`) | file, buffer, header, directory entry | open, replay, append, spill, `sync`, ring commit, close | an edge of a cleanly dropped guard is in every later recovered graph, once |
| Dirty tracking, historical sampling (`AG/dirty.rs`, `historical.rs`, `embedding_cache.rs`) | marks, bitmap, drained list, embeddings | `note_dirty`, `drain_dirty`, `prepare_batch`, `commit_batch` | a cached embedding that misses an edge is flagged on its way to the layer |
| Ingest loops (`AG/ingest.rs`) | channel, `Committer`, stop flag, counters | `run`, `run_batches`, `spawn`, `drain_into` | a crash loses at most one interval; inserted edges are committed in the end |
| Prefetching loaders (`PF`) | three bounded queues, reorder buffer, stop signal, fault | `submit`, `next`, `try_next`, `shutdown`, worker loops | no batch lost or doubled, order kept, every end explained, nobody left blocked |
| Neighbour samplers (`CORE/loader/sampler.rs`) | re-tagged dedup table, frontier, output | `sample`, hop expansion, subgraph types | local indices, edges, counts and times are those of the graph |
| Batched reads (`CORE/internal/uring.rs`) | submission and completion queues, in-flight count | `batch_read` | the call returns only when the kernel is done with every buffer |
| Page-fault pager (`CORE/internal/uffd.rs`) | resident pages, eviction heap, failure flag | fault, evict, install, fail | checked pages hold data; budget kept; every access completes |
| Feature stores and caches (`CORE/features`) | GPU and CPU tiers, spill file, cold store | `get_batch`, `insert`, promote, spill | a backed row is never reported missing; a tier is a SIEVE queue |
| Memory pools (`aether-mem/src/ring.rs`) | tagged free-list head, links | `acquire`, `release`, `release_many` | a slot is in one place |
| Feature table (`STREAM/feature_table.rs`) | head and tail versions around each row | `write_node`, `read_node`, remote read | an accepted row is one write's |
| RDMA data path (`STREAM/rdma`) | queue pairs, completion queues, staging rows | the SRD, pooled and GPUDirect gathers | rows are those of the call; a caller that has its answer has no READ left |
| Packet ingest (`STREAM/ingest.rs`, `xdp/`) | fill and receive rings, frames | refill, poll, send, release | no frame lost or doubled; the driver is not left waiting |
| Asynchronous store, static storage, succinct encodings, CLI, Python bindings | | | not modelled, see section 6 |

How they interact: an ingest loop (or a user) opens the one writer guard. An
insert allocates slots (reclaiming when the arena is full), copies a tree,
appends to the log, stores the root, logs the superseded slots for `retire` and
buffers the touched vertices. Dropping the guard syncs the log, flushes edge
count and marks, and publishes a snapshot at the next epoch; a failure poisons
the graph instead. Readers of live roots run inside the gate, snapshot readers
hold a pin, and `reclaim_ready` needs both protections to expire. A training
thread drains the bitmap for the historical layers, submits seeds to a
prefetching loader whose workers sample and gather features, which come out of
the tiered cache, a paged or `io_uring`-read file, or a remote table.

Hard parts: relaxed phase loads and stripe-by-stripe scans against readers, pins
against epoch ticks, out-of-space retries inside an insert, power failures
between any two file operations, word-by-word drains against marking, sequence
locks read over a network, devices that complete late or never, caches with a
lock per tier, and the races of stop, fault and shutdown.

## 2. Modules

| Module | Models | State and actions |
|---|---|---|
| `ReadGate` | `ReadGate`, `ReadGuard` | `Steer` is the relaxed phase load, `Enter` the `fetch_add`, `Leave` the drop; `BeginAdvance`, `ScanEmpty`, `ScanOccupied`, `StorePhase` are `advance` and `bucket_empty`, a stripe per step |
| `ReadGateGrace` | what `retire` relies on | one stamped batch, its possible holders, whether its root stores were fenced: the gate's abstract promise |
| `ArenaRecycler` | arena, guard, snapshots, gated and pinned readers | trees are sets of slots; the `Alloc*` actions are the allocation ladder, `TreeStep` and `ChainNext` the copying insert, then `Publish`, `Retire`, `ReclaimReady` to `DrainDone`, `Commit`, `DropPrev`, `CommitReclaim`, `Poison`. Implements `ReadGate` (`GateSpec`) |
| `CTree` | trees as an algorithm, and compaction | nodes are sequences or interior records; an operation may find the arena full at any allocation; each compaction thread builds its range in a step |
| `Wal` | log, commit, recovery | the file is the kernel's records, the prefix on the medium and a torn flag; one action per file operation, `ProcessCrash` and `PowerFailure` between any two |
| `HistoricalSampling` | marks, drain, layers | one action per word marked or drained; an embedding is valid or not, and behind or not |
| `Ingest` | the four loops | `driver` picks the loop; `Committer` is `held`, `overdue` and the guard; another writer may take the slot when it is free |
| `PrefetchPipeline` | loaders | per-thread program counters; queues hold submission numbers; `stopped`, `shutdown`, `tripped`, `fault` are the four writes of `StopSignal` |
| `NeighborSampler` | the homogeneous sampler | one step per frontier node; every random draw is a choice; dedup slots carry a wrapping tag; a disjoint call without seeds begins no block |
| `UringRead` | `batch_read`, the kernel's side external | places of both queues, in-flight and drained counts, buffers the kernel may still write |
| `PagedRegion` | the pager and its readers, the kernel's side external | one action per pager step, with failing calls |
| `SieveTier`, `SieveQueue`, `SieveCache` | a cache tier: operators of a queue with a hand, that queue as a specification, and the linked slab rows that implement it (`IsSieveQueue`) | `Get`, `Overwrite`, `InsertFresh`, `InsertEvicting`, `RemoveNode`, with the sweep turn by turn |
| `FeatureCache` | the tiers together | one action per lock section or file operation of a call; calls interleave between them |
| `FreeList` | the lock-free free list | one action per atomic access; the tag wraps at `TagMod` |
| `FeatureTable` | one slot of the table | one action per store and load; a remote snapshot lands its words in any order |
| `StagingClients` | the shard gather and the queue-pair pool side by side | both own staging memory the device may still write (`StagingIsQuiet`) |
| `SrdGather`, `ShardedQpPool`, `RcGather` | the three gather clients, devices external | posting, completions, deadlines, poisoning and retirement of queue pairs |
| `PacketIngest` | the AF_XDP loop of one queue, driver external | rings with cached, wrapping indices |
| `*Proofs` | | theorems and proofs |
| `MC*` | | constants for TLC |

Composition. `ArenaRecycler` holds the arena, the gate and the guard in one
module, since their steps interleave inside one insert, and is related back to
`ReadGate` by `INSTANCE ... WITH`. The other modules meet the recycler at one
point each, the guard, which they model by what it does to their own state.
`FeatureCache` is built from the operators of `SieveTier`, which `SieveCache` is
shown to implement. Components that share no state are checked in one run each
per theme: such an MC module is their sum, and its variable `part` says which
of them a behaviour exercises.

Choices that readers should know:

- One slot region of the recycler stands for the chunk and the interior region,
  which follow one discipline. A tree is the set of its slots there; `CTree` has
  the algorithm, with superseded slots free at once.
- Memory model: until the writer's next `SeqCst` fence a root load may return
  any root stored since the last one, and a phase load any older phase. In the
  feature table, stores between two fences happen in any order. The free list's
  accesses are sequentially consistent.
- A record of the log is its edge, or `Bad` when the CRC would not match. Power
  failure keeps a prefix of unsynced records or turns them into garbage.
- Historical layers read live roots, and a list is delivered to a layer between
  its batches, as the comment on `advance_epoch` asks.
- In `PrefetchPipeline` a thread's channel ends die when its body ends, before
  `run_worker` looks at the result: the order `catch_unwind` gives. A thread at
  work and one waiting to deliver are one program point.
- A READ handed to a device may land at any later time, until the queue pair is
  destroyed; a completion may be late, in error, or never come.

## 3. Runs

| Run | Instance | States | Shows |
|---|---|---|---|
| `recycler_gate` | two readers on two stripes, one vertex, three slots, log of one, batches of two destinations on every path | 768,472 | `ReadersIntact`, `RetireContract`, and that the recycler implements `ReadGate` |
| `recycler_pins` | two handles, four slots, log of two, three epochs, no gated reader | 575,906 | `PinnedIntact`, `OneOwner`, `LatestIsLive` |
| `readers` | three readers on two stripes; three pages, budget two, two readers, two failing calls; two callers on one queue pair, three jobs | 320,642 | `GracePeriod`, `CheckedIsData`, `ResidencyBounded`, and under fairness `GateKeepsMoving`, `AccessesComplete`, `CallersAnswered` |
| `disk_backed` | three edges, batches of two, a one-record buffer, two crashes, io_uring; four nodes in a tier of two, one warm and one pinned; three nodes and two loaders over tiers of two and one, one I/O error | 775,500 | `CommittedSurvives`, `CommittedOnce`, `PublishedLogged`, `PoisonedReadOnly`, `NoFalseMiss`, `TierIsSieveQueue` |
| `neighbors` | two vertices in two words, two layers, watermark two; four nodes, eight edges (parallel, loop, corrupt), 13 configurations, seed lists with repeats and the empty one, generation wrapping at four | 2,016,474 | `StaleIsFlagged`, `CommitIsAccounted`, `SubgraphIsReal`, `EdgesAsAsked` |
| `ingest` | four loops, three edges and a bad one, interval two; two frames, rings of two, indices modulo four | 381,516 | `CrashWindow`, `EndIsAccounted`, and under fairness `IngestGoesOn`, `LoopGoesOn` |
| `data_path` | free list of three slots and two threads; a table slot with two writers, a reader, a panic; SRD with two shards; pool of two queue pairs; GPUDirect with windows of two; packets with a bad descriptor; two trees of up to eight values, chunks of two | 1,030,233 | `OnePlace`, `AcceptedIsOneWrite`, `StagingIsQuiet`, `SnapshotsApart`, `WindowsKeepOrder`, `FramesConserved`, `TreesAreTheirEdges`, `RetireLogExact`, `DepthBounded` |
| `prefetch` | one submitter, one consumer, two samplers and the feature loader, queues of one, both pipelines, seeded or not; a batch of four on rings of two, of each kind, with a failing enter | 355,622 | `NothingLost`, `YieldOrder`, `EndIsExplained`, `BatchIsWhole`, and under fairness `LoadingGoesOn` |

Why the bounds are enough for the cases to happen:

- Two stripes put one reader behind and one ahead of a scan; a third phase lets
  a stale reader enter a bucket twice recycled. Three or four slots exhaust the
  arena inside an insert, so the reclaiming and failing branches run; a log of
  one or two makes `retire` run inside guards and coalesce; two handles let a
  clone outlive its original.
- A one-record buffer makes every batch of two spill; two crashes allow one
  after a recovery; three edges leave one to insert after both.
- A budget of two with a two-page access makes every fault evict; a tier of two
  makes the sweep wrap past warm and pinned nodes; two loaders see each other's
  promotes and spills between any two locks.
- A watermark of two is reached inside a batch; two words let marks and drains
  overtake each other; the generation wraps inside the second call.
- Queues of one block every stage; two submissions overtake each other between
  samplers and fill the loader's look-ahead. A batch twice the ring's size needs
  places back from both queues. With two callers a second one finds the queue
  pair already retired. Chunks of two give trees of depth three and rebuilds
  inside eight values. Tags and indices wrap within the run.

`data_path`, `readers`, `ingest`, `neighbors` and `tree_depth` turn the deadlock
check off: their systems stop when their bounded calls are made. The passing
runs take every action and every disjunct of the next-state relations.

Runs that end in a violation, each of one statement of the repository:

| Run | Statement | What TLC shows |
|---|---|---|
| `chain_retry` | `retire()`: "Every logged slot must already be unreachable from every published root" | the marks of a path-copying batch are taken before its retry loop; a second out-of-space truncates to a stale mark and leaves live slots in the log (`AG/writer.rs:398`) |
| `create_killed` | "crash after a clean drop loses zero inserts" | a process killed between writing the header and syncing the directory leaves a log that the next opener never syncs (`AG/wal.rs:275`) |
| `fault_masked` | "The first fault wins; later ones describe its fallout" | the feature loader sees the last sampler's queue close before that sampler records its panic (`PF:319`) |
| `tree_depth` | "depth stays bounded" by `MAX_DEPTH` (`AG/ctree.rs:404-406`) | a path of exactly `MAX_DEPTH` interiors is let through and its leaf split; with the rebalance out of space the tree is one deeper (`AG/ctree.rs:296`) |

## 4. Fairness

All of it is weak fairness, and less than an operating system that runs every
runnable thread gives.

- Gate: a reader that has begun to enter enters and leaves, the writer keeps
  calling `advance` (every `retire` and commit calls `reclaim`), stores become
  visible. New walks may start for ever.
- Pager: the pager thread, and a reader inside an access. Pool: a caller that
  sends, each worker, and a deadline that passes while the client runs. Nothing
  is assumed of the device.
- Ingest: the loop's thread; nothing of the source, the caller, the clock or the
  other writer. Packets: the loop, and the driver taking filled frames and
  raising its flag; no packet need arrive.
- Pipeline: some thread inside `submit`, `shutdown` or a worker gets on, and
  every consumer does and keeps asking. Failures, timeouts, new submissions and
  the call of `shutdown` are not fair. Reads: the calling thread and the kernel.

The other parts state safety only.

## 5. Proofs

26,460 obligations in eight modules, none open. Everything is proved for every
value of the constants that the modules' named `ASSUME`s allow; these type the
constants and say what the constructors ensure: finitely many threads and
shards and frames, index arithmetic modulo a multiple of the ring's size, at
least one sampler (`.max(1)`), `NoCaller` not a caller, a budget of two pages at
least, the rows of the cold store among the nodes, a value other than "nil" for
every node, row offsets that never decrease (`check_monotone` at load), integer
timestamps on the edges, seeds among the graph's nodes and with times up to
`Infinity` (the times are only compared). Each module proves a type invariant for itself and an
inductive invariant stronger than the property it is after.

| Module | Obligations | Theorems on the runs' properties |
|---|---|---|
| `ReadGateProofs` | 788 | `GracePeriodHolds`, `CheckedIsDataAlways`, `ResidencyBoundedAlways` |
| `RecyclerProofs` | 2,397 | `ReadersIntactAlways`, `PinnedIntactAlways`, `RetireContractAlways`, `OneOwnerAlways`, `LatestIsLiveAlways`, `GateImplemented` |
| `DiskBackedProofs` | 5,040 | `CommittedEdgesSurvive`, `CommittedIsOnce`, `PublishedIsLogged`, `PoisonedIsReadOnly`, `TierIsSieveQueueAlways` |
| `SamplingProofs` | 8,381 | `SubgraphIsRealAlways`, `EdgesAsAskedAlways`, `StaleAlwaysFlagged`, `CommitAlwaysAccounted` |
| `IngestProofs` | 354 | `CrashWindowAlways`, `EndIsAccountedAlways` |
| `LoadingProofs` | 3,240 | `NothingLostAlways`, `YieldOrderAlways`, `EndIsExplainedAlways`, `BatchIsWholeAlways`, `NoFalseMissAlways` |
| `BufferProofs` | 2,319 | `OnePlaceAlways`, `FramesConservedAlways` |
| `DataPathProofs` | 3,941 | `AcceptedIsOneWriteAlways`, `SnapshotsApartAlways`, `WindowsKeepOrderAlways`, `StagingIsQuietAlways` |

The arguments:

- **Gate.** `GracePeriod` speaks of the end of the grace period only, so it is
  not inductive. `GraceInv` adds who may still hold a slot in between: holders
  are inside the gate; an unfenced batch is fresh; after one phase step all
  holders are in the bucket the next step must prove empty; during a scan a
  holder in that bucket is in a stripe still to be read.
- **Recycler.** Three parts on top of the guard's bookkeeping. Ownership: each
  slot the cursor handed out has one home, and the log's marks of an insert
  separate what it superseded from what came before. Grace: a batch with a slot
  some reader walks is due later than the phase by as many steps as the reader's
  bucket needs. Pins: an old batch with a slot of a pinned snapshot is stamped
  after it, and the minimum `reclaim_ready` drains under bounds every pin. The
  step of the run `chain_retry`, a path-copying batch that runs out of space on
  its second attempt, breaks ownership; the four theorems that need it suppose
  `[][~PathRetryFails]_vars`, and `OnlyChainsRetry` shows the supposition
  to hold without the path-copying kind. `GateImplemented`, the step-by-step
  refinement of `ReadGate`, and `LatestIsLiveAlways` suppose nothing.
- **Log.** `DurabilityInv`: a promised edge is on the medium with no bad record
  before it; the file has a synced header and directory entry before anything
  is promised; after recovery's cut there is no bad record. `OnceInv`: file and
  buffer together hold each committed edge once, and only live edges.
  `StopsInv`: no guard is open on a poisoned graph and a healthy one has nothing
  pending outside a guard. The durability theorems assume `~KillInCreate`,
  without which `create_killed` refutes them.
- **Historical sampling.** `FreshnessInv` adds what the guard has in hand at
  each program point, so that neither a publish nor a flush overwrites vertices
  not yet noted, and that embeddings computed for a batch but not yet stored
  are flagged too.
- **Ingest.** While the loop has the slot, what is not committed came in since
  its guard opened, one edge for each it counts; while nobody has the slot and
  the graph is healthy, everything is committed.
- **Free list.** The stack is described without walking it: the links of free
  slots are injective, stay inside and never lead to the head; a thread whose
  word still is the head holds the link it read. `Tick` supposes that the tag
  does not come full circle under one stalled thread (2^32 operations).
- **Packet frames.** Every step moves a set of frames from one of eight places
  to another, so the places stay disjoint and together hold what they held. What
  a ring holds is read through indices that wrap: the entries between the two
  indices are all different because the ring's size divides 2^32, and the indices
  a side has cached only understate what it may put in or take out. The proof
  needed the numbers' types in the assumption, which TLC had not asked for.
- **Feature table.** While no write is poisoned the head only grows, an even
  head means that every word is of the newest generation, and a word's
  generation only grows. A local reader copied between two sights of one head;
  a remote reader's two agreeing snapshots are separated by a moment at which
  the row was complete.
- **SRD gather.** A draining shard waits for at least as many completions as
  there are READs out and completions of its generation queued, so a drain that
  reaches 0 leaves it quiet, and one that ends otherwise fails the call and
  gives the shard up.
- **GPUDirect gather.** The windows hold the rows of the round, and all of them.
  A good completion comes alone with nothing behind it, so at the flush every
  READ of the chain has been written; all READs of a round write one stamp, so
  what is settled stays so; and rows accepted earlier are not read again.
- **Queue-pair pool.** A batch is in one place and the device holds only READs
  of the batch its worker serves. Only a window's last READ is signaled; after
  a failure the marker is behind everything.
- **Pager.** A zero page, a released registration and a pager on its way out
  all come after the failure flag is set, which the reader checks last. For the
  budget (`BudgetInv`): what is mapped is on the record and what is on the record
  has a live entry in the queue. Fewer recent installs are protected than the
  budget holds, so at the limit there is a victim, or the page to be installed is
  on the record already and installing it adds nothing.
- **io_uring reads.** Every entry pushed is in one of seven places, and what is
  counted as drained is what was reaped; equal counts mean nothing is in flight.
- **Feature cache.** Every row in a memory tier, or on its way between two, has a
  copy in the spill file or the cold store, and records are only added. A node
  that was there when the call began and is not in the spill file when that is
  read is therefore in the cold store (`CacheInv`). What a whole batch does to a
  tier is a recursive function along the batch; that it exists and keeps a tier a
  tier (each node once, the hand on one of them) is shown from the least index at
  which it would not (`Repeated`, `Along`), without the induction theorems.
- **Cache tier.** The specification is a queue with a hand; the code keeps slab
  rows linked both ways, an index, a free list and a hand that is a row. `SieveInv`
  gives the linked rows an order, oldest first, with which links, index, hand,
  free list and slab all agree. Unlinking and pushing a row are then facts about
  orders; the eviction loop, which turns at most twice round and two steps on, is
  followed turn by turn by the place its hand has in that order, and the queue's
  recursive sweep is unrolled along with it from the least turn at which the two
  would part (`LinkedRowsAreSieveQueue`, `TierIsSieveQueueAlways`).
- **Sampler.** Within a pass the dedup table and the node list name each other
  and nothing in the table is of a later generation (`Sound`), so a new
  generation makes every node unknown, also when it wraps. Picks, seeds, induced
  rows and mirrored edges are folds along a sequence, each described by what one
  step preserves. A finished block is joined behind the earlier ones, its edges
  shifted by their length; the counts plus the nodes of the current hop are the
  nodes at any time (`SamplerInv`).
- **Sampled edges.** `AskedInv` says, of the pass at hand and of the blocks
  joined before it, why the edges are those the config asks for. Frontier and
  next frontier are the tail of the node list, in its order, so within a hop the
  local indices expanded rise by one, and no source has an edge before its turn
  (`PassAligned`). Cumulative hops mark an edge with the hop that emitted
  it and later ones refuse it, and a draw picks distinct positions, so a source
  has no edge twice (`PassOnce`). A node's time is at most those of its seeds and of the
  edges that led to it so far, and an edge is older than its source's time when
  it is taken (`CausalPass`). A node's hop is read from the counts of new nodes,
  and the edges from it number what that hop's fanout takes, less the corrupt
  ones (`Fanned`). Joining a block shifts all of these, and an induced block is
  described row by row (`WholeTo`). The last step gives these facts the form
  the property has, in which the counts are cardinalities.
- **Pipeline.** A flag or a trip of the stop signal has its reason recorded
  first. As long as no queue end has died and nothing stopped (`Calm`), every
  worker is at work, and each step moves one copy of a number from one queue,
  hand or buffer to the next or ends the calm: `Copies = 1` while calm, at most 1
  always. The attempt found a mistake in the model, two overlapping cases in the
  initial program counters that TLC resolves by their order and logic does not.

Only model-checked, and why:

- every liveness property: fairness and `ENABLED` are beyond the prover;
- `TreesAreTheirEdges`, `RetireLogExact`, `DepthBounded`: `CTree` is recursive
  over trees of any depth, which needs induction over data.
## 6. Not modelled

- Whole components: static graph storage (immutable once loaded), the
  asynchronous store (one `batch_read` per lookup), succinct encodings, the
  command line, the Python bindings.
- Of the samplers: heterogeneous, parallel and GPU ones, lazily derived local
  indices, refusals of badly sized inputs. Of `uring.rs`: building a ring,
  provided buffers, the lane pool; `IOPOLL` rings are treated as `SQPOLL` ones.
- Of the stores and caches: the stores' files, shared-memory stores, checksums
  and formats. Of the data path: connecting, registration, atomics, writes, the
  control plane, the persistent GPU ring, socket set-up, CUDA calls.
- Of the pager: set-up, teardown, the forked copy. Of the pools: mapping and
  NUMA placement.
- Inside modelled components: statistics, generations of the embedding cache
  beyond valid or not, `clear_all` and `stale_nodes`, batch contents and
  feature-load errors, which travel with a result.

Differences between text and code met on the way, without a run of their own:

- `AG/wal.rs:13` says a crash in the middle of a guard loses every insert of
  it; records spilled at `AG/wal.rs:317` may be recovered.
- Recovery presents records that are only in the page cache as committed
  (`AG/graph.rs:198`); a power failure right after can still lose them.
- The comment at `AG/ingest.rs:460` says `drain_into` returns when `stop` is
  set; the flag is read only between bursts (`AG/ingest.rs:438`).
- A sampler that computes from pinned snapshots can use a mark up before the
  snapshot with the edge exists (`AG/writer.rs:679` before `:687`), although
  `AG/historical.rs:47-49` calls its embedding a valid approximation.
- `ARCH.md:583` describes an epoch per replayed record; replay runs under one
  guard (`AG/graph.rs:198`).
- `AG/ctree.rs:632` says every interior node of a build is weight-balanced;
  sixteen values make a full leaf beside a leaf of one.
- `PF:403-405` bounds the producer, but consumers move results into an
  unbounded reorder buffer while one worker is slow; and a consumer that blocks
  on the result queue times out although its batch has reached that buffer
  (`PF:498`).
- `CORE/loader/sampler.rs:39-40` and `:1015` say each ordered endpoint pair
  appears once in a bidirectional subgraph; parallel edges that were sampled
  both stay.
- `CORE/features/cache/mod.rs:554` says the two memory tiers hold disjoint
  nodes; calls that overlap can leave a node in both. `:325` calls a record
  immutable once written, while `insert` writes it again.
- `CORE/internal/uring.rs:1330` says completions never spill; places of the
  completion queue are returned at the next sync only, so they may.
- With a budget of a few pages, readers of accesses that straddle two pages can
  evict each other's pages for ever, whatever the protection of recent installs.
- The safety comment at `STREAM/rdma/srd.rs:957-958` says no READ is in flight
  outside `gather`; those of a poisoned shard may be (see `QuietOrPoisoned`).

## 7. Plan

1. Proofs: `CTree`, with its recursion over trees made one over heights.
2. Modules: the lane pool of the rings, the shared store's ownership of its
   socket path, the persistent GPU ring, the encodings as pure algorithms, and
   an abstract graph (a set of edges with a committed prefix) that `Wal` and
   `ArenaRecycler` implement.

## 8. Running

    tlc -workers 2 -config MCDiskBacked.cfg MCDiskBacked
    tlapm LoadingProofs.tla

Each run is one `.cfg`; `PROJECT.json` names its module and what it expects.
