-------------------------------- MODULE Ingest --------------------------------
(***************************************************************************)
(* The ingest loops of the dynamic graph (crates/aether-graph/src/         *)
(* ingest.rs): run, run_batches, spawn and drain_into (drain_channel and   *)
(* spawn_channel), over the one Committer they share, which drops its      *)
(* writer guard to commit and has to win the writer slot again.            *)
(*                                                                         *)
(* The source is a bounded queue of edges: the channel of drain_into, and  *)
(* what the closure or the iterator of the other three reads from.  The    *)
(* graph is the set of edges it holds, the set that is committed, and the  *)
(* writer slot, for which another thread may compete.                      *)
(***************************************************************************)
EXTENDS Naturals, Sequences, FiniteSets

CONSTANTS
  Drivers,   \* the loops in use, among Loops
  Edges,
  BadEdges,  \* edges with a vertex out of range
  Capacity,  \* ChannelIngestorConfig.capacity
  Interval,  \* COMMIT_INTERVAL_EDGES
  IdleSpins  \* empty reads of spawn's source before it commits

Loops == {"run", "batches", "spawn", "channel"}

ASSUME IngestAssumption ==
  /\ Drivers \subseteq Loops
  /\ BadEdges \subseteq Edges
  /\ Capacity \in Nat \ {0}
  /\ Interval \in Nat \ {0}
  /\ IdleSpins \in Nat

VARIABLES
  driver,
  (* the source *)
  queue,     \* edges sent and not yet received
  open,      \* the sender lives, the closure or iterator may yield more
  stop,      \* the caller's stop flag
  accepted,  \* history: edges whose send succeeded
  (* the ingest thread *)
  pc, ret,   \* ret: where the loop goes on after a commit
  next,      \* the edges in hand: one, or none
  held,      \* Committer.edges
  overdue,   \* COMMIT_MAX_LATENCY has passed since Committer.opened
  uncounted, \* LocalCounts.received
  spins,     \* idle_spins
  fatal,     \* drive_edge returned false
  failed,    \* a reacquire failed
  (* the graph *)
  slot,      \* the writer slot: "free", "ingest", "other"
  live, committed, poisoned,
  walFailed  \* the ingest thread's guard has failed an append

sourceVars == <<queue, open, stop, accepted>>
loopVars   == <<next, held, uncounted, spins, fatal, failed>>
graphVars  == <<slot, live, committed, poisoned, walFailed>>
vars == <<driver, sourceVars, pc, ret, loopVars, overdue, graphVars>>

Init ==
  /\ driver \in Drivers
  /\ queue = <<>> /\ open = TRUE /\ stop = FALSE /\ accepted = {}
  /\ pc = "open" /\ ret = "top" /\ next = <<>>
  /\ held = 0 /\ overdue = FALSE /\ uncounted = 0 /\ spins = 0
  /\ fatal = FALSE /\ failed = FALSE
  /\ slot = "free" /\ live = {} /\ committed = {} /\ poisoned = FALSE
  /\ walFailed = FALSE

-----------------------------------------------------------------------------
(* The source, the caller and the clock *)

\* SyncSender::send: blocks while the queue is full, fails once the
\* receiver is gone.
Send(e) ==
  /\ open
  /\ pc # "done"
  /\ Len(queue) < Capacity
  /\ queue' = Append(queue, e)
  /\ accepted' = accepted \cup {e}
  /\ UNCHANGED <<driver, open, stop, pc, ret, loopVars, overdue, graphVars>>

\* The sender is dropped, or the closure or iterator comes to its end.
CloseSource ==
  /\ open
  /\ open' = FALSE
  /\ UNCHANGED <<driver, queue, stop, accepted, pc, ret, loopVars, overdue,
                 graphVars>>

Stoppable == driver \in {"spawn", "channel"}

SetStop ==
  /\ Stoppable
  /\ ~stop
  /\ stop' = TRUE
  /\ UNCHANGED <<driver, queue, open, accepted, pc, ret, loopVars, overdue,
                 graphVars>>

LatencyPasses ==
  /\ slot = "ingest"
  /\ ~overdue
  /\ overdue' = TRUE
  /\ UNCHANGED <<driver, sourceVars, pc, ret, loopVars, graphVars>>

\* Another thread takes the writer slot, and commits or panics.
OtherOpens ==
  /\ slot = "free" /\ ~poisoned
  /\ slot' = "other"
  /\ UNCHANGED <<driver, sourceVars, pc, ret, loopVars, overdue, live,
                 committed, poisoned, walFailed>>

OtherDrops ==
  /\ slot = "other"
  /\ slot' = "free"
  /\ \/ committed' = live /\ UNCHANGED poisoned
     \/ poisoned' = TRUE /\ UNCHANGED committed
  /\ UNCHANGED <<driver, sourceVars, pc, ret, loopVars, overdue, live,
                 walFailed>>

-----------------------------------------------------------------------------
(* The Committer *)

Full == held >= Interval
Due  == Full \/ (held > 0 /\ overdue)

Flush == uncounted' = 0

\* Committer::open and the reacquire in commit(): refused while the slot is
\* taken or the graph poisoned, which ends the loop.
Acquire ==
  /\ pc \in {"open", "reopen"}
  /\ IF slot = "free" /\ ~poisoned
       THEN /\ slot' = "ingest" /\ pc' = ret
            /\ held' = 0 /\ overdue' = FALSE
            /\ UNCHANGED failed
       ELSE /\ failed' = TRUE /\ pc' = "dropRx"
            /\ UNCHANGED <<slot, held, overdue>>
  /\ UNCHANGED <<driver, sourceVars, ret, next, uncounted, spins, fatal, live,
                 committed, poisoned, walFailed>>

\* The guard drops, in commit() or when the loop has ended: a commit, unless
\* an append failed or the log cannot be synced.
DropGuard ==
  /\ pc \in {"commit", "exit"}
  /\ slot' = "free"
  /\ walFailed' = FALSE
  /\ \/ ~walFailed /\ committed' = live /\ UNCHANGED poisoned
     \/ poisoned' = TRUE /\ UNCHANGED committed
  /\ pc' = IF pc = "commit" THEN "reopen" ELSE "dropRx"
  /\ UNCHANGED <<driver, sourceVars, ret, loopVars, overdue, live>>

\* Last of all the receiver is dropped, with what is still queued.
DropReceiver ==
  /\ pc = "dropRx"
  /\ pc' = "done"
  /\ queue' = <<>>
  /\ UNCHANGED <<driver, open, stop, accepted, ret, loopVars, overdue,
                 graphVars>>

-----------------------------------------------------------------------------
(* The loops *)

frame == <<driver, open, stop, accepted, overdue, graphVars>>

\* The loop condition: spawn and drain_into look at the stop flag.
TestStop ==
  /\ pc = "top"
  /\ IF Stoppable /\ stop THEN pc' = "exit" /\ Flush
                          ELSE pc' = "recv" /\ UNCHANGED uncounted
  /\ UNCHANGED <<frame, queue, ret, next, held, spins, fatal, failed>>

\* An edge is received.
Receive ==
  /\ pc = "recv"
  /\ queue # <<>>
  /\ next' = <<Head(queue)>> /\ queue' = Tail(queue)
  /\ spins' = 0
  /\ pc' = "insert"
  /\ UNCHANGED <<frame, ret, held, uncounted, fatal, failed>>

\* The source is exhausted; spawn has no such end and waits for stop.
SourceEnds ==
  /\ pc = "recv"
  /\ driver # "spawn"
  /\ queue = <<>> /\ ~open
  /\ pc' = "exit"
  /\ Flush
  /\ UNCHANGED <<frame, queue, ret, next, held, spins, fatal, failed>>

\* commit_pending: commit only if the guard holds an edge.
CommitPending ==
  IF held > 0 THEN pc' = "commit" /\ ret' = "top"
              ELSE pc' = "top" /\ UNCHANGED ret

\* Mutant of ChannelQuiet: a quiet channel does not commit.
ChannelQuietHolds ==
  /\ pc = "recv"
  /\ driver = "channel"
  /\ queue = <<>> /\ open
  /\ Flush
  /\ pc' = "top"
  /\ UNCHANGED <<frame, queue, ret, next, held, spins, fatal, failed>>

\* recv_timeout times out.
ChannelQuiet ==
  /\ pc = "recv"
  /\ driver = "channel"
  /\ queue = <<>> /\ open
  /\ Flush
  /\ CommitPending
  /\ UNCHANGED <<frame, queue, next, held, spins, fatal, failed>>

\* spawn's source is dry: spin for a while, then commit and park.
SourceDry ==
  /\ pc = "recv"
  /\ driver = "spawn"
  /\ queue = <<>>
  /\ Flush
  /\ spins' = IF spins < IdleSpins THEN spins + 1 ELSE spins
  /\ IF spins' < IdleSpins THEN pc' = "top" /\ UNCHANGED ret
                           ELSE CommitPending
  /\ UNCHANGED <<frame, queue, next, held, fatal, failed>>

\* run_batches gets an empty batch.
EmptyBatch ==
  /\ pc = "recv"
  /\ driver = "batches"
  /\ open
  /\ pc' = "batchEnd"
  /\ UNCHANGED <<frame, queue, ret, loopVars>>

\* drive_edge, when the insert succeeds, finds a duplicate, or skips an
\* edge that is out of range.
Insert ==
  /\ pc = "insert"
  /\ live' = live \cup ({next[1]} \ BadEdges)
  /\ held' = held + 1
  /\ uncounted' = uncounted + 1
  /\ next' = <<>>
  /\ pc' = "inserted"
  /\ UNCHANGED <<driver, sourceVars, overdue, ret, spins, fatal, failed, slot,
                 committed, poisoned, walFailed>>

\* The arena is full, or the append to the log fails: the loop breaks.
InsertFails ==
  /\ pc = "insert"
  /\ next[1] \notin BadEdges \cup live
  /\ walFailed' \in BOOLEAN
  /\ fatal' = TRUE
  /\ next' = <<>>
  /\ Flush
  /\ pc' = "exit"
  /\ UNCHANGED <<driver, sourceVars, overdue, ret, held, spins, failed, slot,
                 live, committed, poisoned>>

\* Mutant of AfterInsert: run_batches and drain_into leave the commit to the
\* end of the batch or burst.
AfterInsertUnbounded ==
  /\ pc = "inserted"
  /\ LET goOn == CASE driver \in {"run", "spawn"} -> "top"
                   [] driver = "batches" -> "batch"
                   [] driver = "channel" -> "burst"
     IN IF driver \in {"run", "spawn"} /\ Due
          THEN pc' = "commit" /\ ret' = goOn /\ Flush
          ELSE pc' = goOn /\ UNCHANGED <<ret, uncounted>>
  /\ UNCHANGED <<frame, queue, next, held, spins, fatal, failed>>

\* run and spawn commit when a commit is due; inside a batch or a burst only
\* a full guard commits.
AfterInsert ==
  /\ pc = "inserted"
  /\ LET goOn == CASE driver \in {"run", "spawn"} -> "top"
                   [] driver = "batches" -> "batch"
                   [] driver = "channel" -> "burst"
     IN IF Full \/ (driver \in {"run", "spawn"} /\ Due)
          THEN pc' = "commit" /\ ret' = goOn /\ Flush
          ELSE pc' = goOn /\ UNCHANGED <<ret, uncounted>>
  /\ UNCHANGED <<frame, queue, next, held, spins, fatal, failed>>

\* The next edge of the batch, or try_recv: the burst goes on, and nobody
\* looks at the stop flag.
NextOfBurst ==
  /\ pc \in {"batch", "burst"}
  /\ queue # <<>>
  /\ next' = <<Head(queue)>> /\ queue' = Tail(queue)
  /\ pc' = "insert"
  /\ UNCHANGED <<frame, ret, held, uncounted, spins, fatal, failed>>

\* Mutant of BurstEnds: when a commit is due, try_recv's next edge is gone.
BurstEndsDropping ==
  /\ pc = "burst"
  /\ Flush
  /\ queue' = IF Due /\ queue # <<>> THEN Tail(queue) ELSE queue
  /\ IF Due THEN pc' = "commit" /\ ret' = "top"
            ELSE pc' = "top" /\ UNCHANGED ret
  /\ UNCHANGED <<frame, next, held, spins, fatal, failed>>

\* try_recv finds the channel empty.
BurstEnds ==
  /\ pc = "burst"
  /\ queue = <<>>
  /\ Flush
  /\ IF Due THEN pc' = "commit" /\ ret' = "top"
            ELSE pc' = "top" /\ UNCHANGED ret
  /\ UNCHANGED <<frame, queue, next, held, spins, fatal, failed>>

\* A batch ends wherever the iterator ends it.
BatchEnds ==
  /\ pc \in {"batch", "batchEnd"}
  /\ IF Due THEN pc' = "commit" /\ ret' = "top" /\ Flush
            ELSE pc' = "top" /\ UNCHANGED <<ret, uncounted>>
  /\ UNCHANGED <<frame, queue, next, held, spins, fatal, failed>>

IngestStep ==
  \/ Acquire \/ DropGuard \/ DropReceiver
  \/ TestStop \/ Receive \/ SourceEnds
  \/ ChannelQuiet \/ SourceDry \/ EmptyBatch
  \/ Insert \/ InsertFails \/ AfterInsert
  \/ NextOfBurst \/ BurstEnds \/ BatchEnds

SourceStep ==
  \/ \E e \in Edges : Send(e)
  \/ CloseSource \/ SetStop

\* Everybody has finished.
Finished ==
  /\ pc = "done" /\ ~open /\ (Stoppable => stop) /\ poisoned
  /\ UNCHANGED vars

Next ==
  \/ SourceStep
  \/ LatencyPasses
  \/ OtherOpens \/ OtherDrops
  \/ IngestStep
  \/ Finished

Spec == Init /\ [][Next]_vars

\* The ingest thread keeps running.  Nothing is assumed of the source, the
\* caller, the clock or the other thread.
FairSpec == Spec /\ WF_vars(IngestStep)

-----------------------------------------------------------------------------
(* Properties *)

TypeOK ==
  /\ driver \in Drivers
  /\ queue \in Seq(Edges) /\ Len(queue) <= Capacity
  /\ open \in BOOLEAN /\ stop \in BOOLEAN /\ accepted \subseteq Edges
  /\ pc \in {"open", "top", "recv", "insert", "inserted", "burst", "batch",
             "batchEnd", "commit", "reopen", "exit", "dropRx", "done"}
  /\ ret \in {"top", "burst", "batch"}
  /\ next \in Seq(Edges) /\ Len(next) <= 1
  /\ held \in 0..Interval /\ uncounted \in 0..Interval
  /\ overdue \in BOOLEAN /\ spins \in 0..IdleSpins
  /\ fatal \in BOOLEAN /\ failed \in BOOLEAN
  /\ slot \in {"free", "ingest", "other"}
  /\ live \subseteq Edges \ BadEdges /\ committed \subseteq live
  /\ poisoned \in BOOLEAN /\ walFailed \in BOOLEAN

\* COMMIT_INTERVAL_EDGES "bounds the window of inserts a crash can lose":
\* in every loop, inside batches and bursts too.
CrashWindow == Cardinality(live \ committed) <= Interval

\* When the loop ends, however it ends, every edge it received has been
\* folded into the shared statistics; and when it ends because its source
\* did, it has committed every edge the source delivered.
EndIsAccounted ==
  pc = "done" =>
    /\ uncounted = 0
    /\ ~fatal /\ ~failed /\ ~stop /\ ~poisoned => accepted \ BadEdges \subseteq committed

\* An edge that spawn or drain_into has inserted is committed in the end, by
\* an interval, a quiet source or the end of the loop, unless
\* the graph is poisoned.
InsertedIsCommitted ==
  \A e \in Edges :
    Stoppable /\ e \in live ~> e \in committed \/ poisoned

\* spawn, told to stop, ends, however its source goes on.
SpawnStops == driver = "spawn" /\ stop ~> pc = "done"

\* An ingest loop neither holds edges back nor outlives its stop.
IngestGoesOn == InsertedIsCommitted /\ SpawnStops

=============================================================================
