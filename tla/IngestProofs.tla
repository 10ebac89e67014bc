---------------------------- MODULE IngestProofs ----------------------------
(***************************************************************************)
(* The ingest loops, for any edges, commit interval, channel capacity and  *)
(* number of spins: what a crash can lose never exceeds the interval       *)
(* (CrashWindow), and a loop that ended because its source did has         *)
(* committed what it was given (EndIsAccounted).                           *)
(*                                                                         *)
(* The argument: while the loop has the slot, what is not committed came   *)
(* in since its guard opened, one edge for each it counts; while nobody    *)
(* has the slot and the graph is not poisoned, everything is committed.    *)
(***************************************************************************)
EXTENDS Ingest, FiniteSetTheorems, TLAPS

InLoop == {"top", "recv", "insert", "inserted", "burst", "batch", "batchEnd"}
HasSlot == InLoop \cup {"commit", "exit"}
NoSlot == {"open", "reopen", "dropRx", "done"}

Queued == {queue[i] : i \in DOMAIN queue}
InHand == {next[i] : i \in DOMAIN next}
Lag == live \ committed

\* The loop counts at most an interval of edges, and below it where it takes
\* the next one; what it has not folded into the statistics it still counts.
CountsOK ==
  /\ held \in 0 .. Interval /\ uncounted \in 0 .. held
  /\ pc \in InLoop \ {"inserted"} => held < Interval
  /\ pc \notin InLoop => uncounted = 0

HandOK ==
  /\ queue \in Seq(Edges) /\ next \in Seq(Edges)
  /\ IF pc = "insert" THEN Len(next) = 1 ELSE next = <<>>
  /\ accepted \subseteq Edges

SlotOK ==
  /\ driver \in Drivers
  /\ pc \in HasSlot \cup NoSlot
  /\ pc \in {"commit", "open", "reopen"} => ret \in {"top", "burst", "batch"}
  /\ slot \in {"free", "ingest", "other"}
  /\ slot = "ingest" <=> pc \in HasSlot
  /\ slot = "ingest" => ~poisoned
  /\ failed => pc \in {"dropRx", "done"}

LagOK ==
  /\ IsFiniteSet(live) /\ committed \subseteq live
  /\ slot = "ingest" => Cardinality(Lag) <= held
  /\ slot # "ingest" /\ ~poisoned => committed = live
  /\ CrashWindow

\* What was accepted is in the graph, in hand or queued, until the receiver
\* is dropped; and the loop leaves nothing queued unless it was stopped or
\* failed.
Delivered ==
  /\ pc # "done" /\ ~fatal => accepted \ BadEdges \subseteq live \cup InHand \cup Queued
  /\ pc \in {"exit", "dropRx"} /\ ~fatal /\ ~failed /\ ~stop => queue = <<>> /\ ~open
  /\ pc = "done" /\ ~fatal /\ ~failed /\ ~stop => accepted \ BadEdges \subseteq live

IngestInv == CountsOK /\ HandOK /\ SlotOK /\ LagOK /\ Delivered

LEMMA InitInv == Init => IngestInv
<1> SUFFICES ASSUME Init PROVE IngestInv
  OBVIOUS
<1> USE IngestAssumption DEF Init
<1>1. CountsOK /\ HandOK /\ SlotOK
  BY DEF CountsOK, HandOK, SlotOK, InLoop, HasSlot, NoSlot
<1>2. LagOK
  <2>1. live \ committed = {}
    OBVIOUS
  <2> QED
    BY <2>1, FS_EmptySet DEF LagOK, CrashWindow, Lag
<1>3. Delivered
  BY DEF Delivered
<1> QED
  BY <1>1, <1>2, <1>3 DEF IngestInv

\* Neither the graph nor what was delivered changes in the steps that only
\* move the loop on.
LEMMA LoopMoves ==
  ASSUME IngestInv, CountsOK', HandOK', SlotOK',
         UNCHANGED <<live, committed, slot, poisoned, accepted, open>>,
         slot = "ingest" => held <= held',
         InHand \cup Queued \subseteq InHand' \cup Queued',
         stop => stop', fatal => fatal', failed => failed',
         pc' # "done", pc # "done",
         pc' \in {"exit", "dropRx"} /\ ~fatal' /\ ~failed' /\ ~stop' => queue' = <<>> /\ ~open
  PROVE  IngestInv'
<1>1. LagOK'
  <2>1. Lag' = Lag
    BY DEF Lag
  <2>2. Cardinality(Lag) \in Nat
    BY FS_Subset, FS_CardinalityType DEF IngestInv, LagOK, Lag
  <2> QED
    BY <2>1, <2>2 DEF IngestInv, LagOK, CrashWindow, Lag, CountsOK
<1>2. Delivered'
  BY DEF IngestInv, Delivered
<1> QED
  BY <1>1, <1>2 DEF IngestInv

\* An edge is taken from the source.
LEMMA Taken ==
  ASSUME queue \in Seq(Edges), queue # <<>>,
         next' = <<Head(queue)>>, queue' = Tail(queue)
  PROVE  /\ queue' \in Seq(Edges) /\ next' \in Seq(Edges) /\ Len(next') = 1
         /\ Queued \subseteq InHand' \cup Queued'
<1>1. queue' \in Seq(Edges) /\ next' \in Seq(Edges) /\ Len(next') = 1 /\ next'[1] = queue[1]
  OBVIOUS
<1>2. ASSUME NEW i \in DOMAIN queue PROVE queue[i] \in InHand' \cup Queued'
  <2>1. CASE i = 1
    <3>1. 1 \in DOMAIN next'
      BY <1>1
    <3> QED
      BY <1>1, <2>1, <3>1 DEF InHand
  <2>2. CASE i # 1
    <3>1. i - 1 \in DOMAIN queue' /\ queue'[i - 1] = queue[i]
      BY <2>2
    <3> QED
      BY <3>1 DEF Queued
  <2> QED
    BY <2>1, <2>2
<1> QED
  BY <1>1, <1>2 DEF Queued

\* The source, the caller, the clock and the other thread.
LEMMA OutsideSteps ==
  IngestInv /\ (SourceStep \/ LatencyPasses \/ OtherOpens \/ OtherDrops \/ Finished) => IngestInv'
<1> SUFFICES ASSUME IngestInv, SourceStep \/ LatencyPasses \/ OtherOpens \/ OtherDrops \/ Finished
    PROVE IngestInv'
  OBVIOUS
<1> USE DEF IngestInv, sourceVars, loopVars, graphVars
<1>1. ASSUME NEW e \in Edges, Send(e) PROVE IngestInv'
  <2>1. queue' = Append(queue, e) /\ accepted' = accepted \cup {e} /\ open /\ pc # "done"
        /\ UNCHANGED <<driver, open, stop, pc, ret, loopVars, graphVars>>
    BY <1>1 DEF Send
  <2>2. queue' \in Seq(Edges) /\ Queued \cup {e} \subseteq Queued'
    <3>1. queue' \in Seq(Edges) /\ Len(queue') = Len(queue) + 1 /\ queue'[Len(queue) + 1] = e
          /\ \A i \in DOMAIN queue : i \in DOMAIN queue' /\ queue'[i] = queue[i]
      BY <2>1 DEF HandOK
    <3>2. Len(queue) + 1 \in DOMAIN queue'
      BY <3>1, <2>1 DEF HandOK
    <3> QED
      BY <3>1, <3>2 DEF Queued
  <2>3. CountsOK' /\ SlotOK' /\ HandOK'
    BY <2>1, <2>2 DEF CountsOK, SlotOK, HandOK
  <2>4. LagOK'
    BY <2>1 DEF LagOK, CrashWindow, Lag
  <2>5. Delivered'
    BY <2>1, <2>2 DEF Delivered, InHand
  <2> QED
    BY <2>3, <2>4, <2>5
<1>2. CASE CloseSource \/ SetStop \/ LatencyPasses \/ Finished
  <2>1. UNCHANGED <<driver, queue, accepted, pc, ret, loopVars, graphVars>> /\ (stop => stop') /\ (~open => ~open')
    BY <1>2 DEF CloseSource, SetStop, LatencyPasses, Finished, vars
  <2>2. CountsOK' /\ HandOK' /\ SlotOK' /\ LagOK'
    BY <2>1 DEF CountsOK, HandOK, SlotOK, LagOK, CrashWindow, Lag
  <2>3. Delivered'
    BY <2>1 DEF Delivered, InHand, Queued
  <2> QED
    BY <2>2, <2>3
<1>3. CASE OtherOpens \/ OtherDrops
  <2>1. UNCHANGED <<driver, queue, open, stop, accepted, pc, ret, loopVars, live, walFailed>>
    BY <1>3 DEF OtherOpens, OtherDrops
  <2>2. slot \in {"free", "other"} /\ slot' \in {"free", "other"}
    BY <1>3 DEF OtherOpens, OtherDrops
  <2>3. CountsOK' /\ HandOK' /\ Delivered'
    BY <2>1 DEF CountsOK, HandOK, Delivered, InHand, Queued
  <2>4. SlotOK'
    BY <2>1, <2>2 DEF SlotOK, HasSlot, NoSlot, InLoop
  <2>5. committed' = live \/ (committed' = committed /\ (poisoned' = poisoned \/ poisoned' = TRUE))
    BY <1>3, Zenon DEF OtherOpens, OtherDrops
  <2>6. LagOK'
    <3>1. CASE committed' = committed
      BY <2>1, <2>2, <2>5, <3>1 DEF LagOK, CrashWindow, Lag
    <3>2. CASE committed' = live
      <4>1. live \ live = {}
        OBVIOUS
      <4> QED
        BY <2>1, <2>2, <3>2, <4>1, FS_EmptySet, IngestAssumption DEF LagOK, CrashWindow, Lag
    <3> QED
      BY <2>5, <3>1, <3>2
  <2> QED
    BY <2>3, <2>4, <2>6
<1> QED
  BY <1>1, <1>2, <1>3 DEF SourceStep

\* Winning the slot, and giving it back.
LEMMA SlotSteps == IngestInv /\ (Acquire \/ DropGuard \/ DropReceiver) => IngestInv'
<1> SUFFICES ASSUME IngestInv, Acquire \/ DropGuard \/ DropReceiver PROVE IngestInv'
  OBVIOUS
<1> USE IngestAssumption DEF IngestInv, sourceVars, loopVars, graphVars
<1>1. CASE Acquire
  <2>1. HandOK' /\ CountsOK' /\ SlotOK'
    BY <1>1 DEF Acquire, HandOK, CountsOK, SlotOK, InLoop, HasSlot, NoSlot
  <2>2. LagOK'
    <3>1. CASE slot = "free" /\ ~poisoned
      <4>1. live = committed /\ Lag' = {} /\ held' = 0 /\ UNCHANGED <<live, committed, poisoned>>
        BY <1>1, <3>1 DEF Acquire, LagOK, Lag
      <4> QED
        BY <4>1, FS_EmptySet, <3>1 DEF LagOK, CrashWindow, Lag
    <3>2. CASE ~(slot = "free" /\ ~poisoned)
      BY <1>1, <3>2 DEF Acquire, LagOK, CrashWindow, Lag
    <3> QED
      BY <3>1, <3>2
  <2>3. Delivered'
    BY <1>1 DEF Acquire, SlotOK, Delivered, InHand, Queued
  <2> QED
    BY <2>1, <2>2, <2>3
<1>2. CASE DropGuard
  <2>1. HandOK' /\ CountsOK'
    BY <1>2 DEF DropGuard, HandOK, CountsOK, InLoop
  <2>2. SlotOK'
    BY <1>2 DEF DropGuard, SlotOK, InLoop, HasSlot, NoSlot
  <2>3. LagOK'
    <3>1. CASE committed' = live /\ poisoned' = poisoned
      <4>1. Lag' = {} /\ live' = live
        BY <1>2, <3>1 DEF DropGuard, Lag
      <4> QED
        BY <1>2, <3>1, <4>1, FS_EmptySet DEF DropGuard, LagOK, CrashWindow, Lag
    <3>2. CASE poisoned' /\ committed' = committed
      BY <1>2, <3>2 DEF DropGuard, LagOK, CrashWindow, Lag
    <3> QED
      BY <1>2, <3>1, <3>2 DEF DropGuard
  <2>4. Delivered'
    BY <1>2 DEF DropGuard, Delivered, InHand, Queued
  <2> QED
    BY <2>1, <2>2, <2>3, <2>4
<1>3. CASE DropReceiver
  <2>1. HandOK' /\ CountsOK' /\ SlotOK' /\ LagOK'
    BY <1>3 DEF DropReceiver, HandOK, CountsOK, SlotOK, LagOK, CrashWindow, Lag, InLoop, HasSlot, NoSlot
  <2>2. Delivered'
    <3>1. InHand = {}
      BY <1>3 DEF DropReceiver, HandOK, InHand
    <3>2. queue = <<>> => Queued = {}
      BY DEF Queued
    <3> QED
      BY <1>3, <3>1, <3>2 DEF DropReceiver, Delivered
  <2> QED
    BY <2>1, <2>2
<1> QED
  BY <1>1, <1>2, <1>3

\* What the steps of the loops that leave the graph alone have in common.
MovesOn ==
  /\ UNCHANGED <<driver, live, committed, slot, poisoned, accepted, open, stop, fatal, failed, held>>
  /\ pc \in InLoop \ {"insert"} /\ pc' \in InLoop \cup {"commit", "exit"}
  /\ \/ uncounted' = 0
     \/ uncounted' = uncounted /\ pc' \in InLoop
  /\ pc' \in InLoop => pc' # "inserted" /\ (pc = "inserted" => held < Interval)
  /\ (ret' = ret /\ pc' # "commit") \/ ret' \in {"top", "burst", "batch"}
  /\ \/ UNCHANGED <<queue, next>> /\ pc' # "insert"
     \/ queue # <<>> /\ next' = <<Head(queue)>> /\ queue' = Tail(queue) /\ pc' = "insert"
  /\ pc' = "exit" => stop \/ (queue' = <<>> /\ ~open)

LEMMA LoopSteps ==
  IngestInv /\ (\/ TestStop \/ Receive \/ SourceEnds \/ ChannelQuiet \/ SourceDry \/ EmptyBatch
                \/ AfterInsert \/ NextOfBurst \/ BurstEnds \/ BatchEnds)
    => MovesOn
<1> SUFFICES ASSUME IngestInv,
                    \/ TestStop \/ Receive \/ SourceEnds \/ ChannelQuiet \/ SourceDry \/ EmptyBatch
                    \/ AfterInsert \/ NextOfBurst \/ BurstEnds \/ BatchEnds
    PROVE MovesOn
  OBVIOUS
<1> USE DEF MovesOn, InLoop, frame, graphVars, Flush, CommitPending
<1>1. CASE TestStop
  <2>1. pc = "top" /\ UNCHANGED <<frame, queue, ret, next, held, spins, fatal, failed>>
    BY <1>1 DEF TestStop
  <2>2. CASE Stoppable /\ stop
    <3>1. pc' = "exit" /\ uncounted' = 0
      BY <1>1, <2>2 DEF TestStop
    <3>2. stop
      BY <2>2, Zenon
    <3> HIDE <2>2
    <3> QED
      BY <2>1, <3>1, <3>2
  <2>3. CASE ~(Stoppable /\ stop)
    <3>1. pc' = "recv" /\ uncounted' = uncounted
      BY <1>1, <2>3 DEF TestStop
    <3> QED
      BY <2>1, <3>1
  <2> QED
    BY <2>2, <2>3
<1>2. CASE Receive
  BY <1>2, IngestAssumption DEF Receive
<1>3. CASE SourceEnds
  BY <1>3, IngestAssumption DEF SourceEnds
<1>4. CASE ChannelQuiet
  BY <1>4, IngestAssumption DEF ChannelQuiet
<1>5. CASE SourceDry
  BY <1>5, IngestAssumption DEF SourceDry
<1>6. CASE EmptyBatch
  BY <1>6, IngestAssumption DEF EmptyBatch, loopVars
<1>7. CASE AfterInsert
  <2>1. pc = "inserted" /\ UNCHANGED <<frame, queue, next, held, spins, fatal, failed>>
    BY <1>7 DEF AfterInsert
  <2>2. PICK goOn \in {"top", "batch", "burst"} :
          \/ pc' = "commit" /\ ret' = goOn /\ uncounted' = 0
          \/ pc' = goOn /\ ret' = ret /\ uncounted' = uncounted /\ ~Full
    <3> DEFINE g == CASE driver \in {"run", "spawn"} -> "top"
                   [] driver = "batches" -> "batch"
                   [] driver = "channel" -> "burst"
    <3>1. g \in {"top", "batch", "burst"}
      BY IngestAssumption DEF IngestInv, SlotOK, Loops
    <3>2. \/ pc' = "commit" /\ ret' = g /\ uncounted' = 0
          \/ pc' = g /\ ret' = ret /\ uncounted' = uncounted /\ ~Full
      BY <1>7, Zenon DEF AfterInsert
    <3> QED
      BY <3>1, <3>2
  <2>3. ~Full => held < Interval
    BY IngestAssumption DEF Full, IngestInv, CountsOK
  <2> QED
    BY <2>1, <2>2, <2>3
<1>8. CASE NextOfBurst
  BY <1>8, IngestAssumption DEF NextOfBurst
<1>9. CASE BurstEnds
  BY <1>9, IngestAssumption DEF BurstEnds
<1>10. CASE BatchEnds
  BY <1>10, IngestAssumption DEF BatchEnds
<1> QED
  BY <1>1, <1>2, <1>3, <1>4, <1>5, <1>6, <1>7, <1>8, <1>9, <1>10

LEMMA LoopKeeps == IngestInv /\ MovesOn => IngestInv'
<1> SUFFICES ASSUME IngestInv, MovesOn PROVE IngestInv'
  OBVIOUS
<1> USE DEF IngestInv, MovesOn
<1>1. CountsOK'
  BY IngestAssumption DEF CountsOK, InLoop
<1>2. HandOK' /\ (InHand \cup Queued \subseteq InHand' \cup Queued')
  <2>1. next = <<>> /\ InHand = {}
    BY DEF HandOK, InHand
  <2>2. CASE UNCHANGED <<queue, next>> /\ pc' # "insert"
    BY <2>1, <2>2 DEF HandOK, InHand, Queued
  <2>3. CASE queue # <<>> /\ next' = <<Head(queue)>> /\ queue' = Tail(queue) /\ pc' = "insert"
    BY <2>1, <2>3, Taken DEF HandOK
  <2> QED
    BY <2>2, <2>3
<1>3. SlotOK'
  BY DEF SlotOK, InLoop, HasSlot, NoSlot
<1> QED
  BY <1>1, <1>2, <1>3, LoopMoves DEF InLoop, CountsOK

\* An insert adds at most the edge it counts.
LEMMA InsertSteps == IngestInv /\ (Insert \/ InsertFails) => IngestInv'
<1> SUFFICES ASSUME IngestInv, Insert \/ InsertFails PROVE IngestInv'
  OBVIOUS
<1> USE DEF IngestInv, sourceVars, loopVars, graphVars
<1>1. CASE Insert
  <2>1. CountsOK' /\ SlotOK' /\ HandOK'
    BY <1>1, IngestAssumption DEF Insert, CountsOK, SlotOK, HandOK, InLoop, HasSlot, NoSlot
  <2>2. InHand = {next[1]} /\ InHand' = {}
    BY <1>1 DEF Insert, HandOK, InHand
  <2>3. Lag' \subseteq Lag \cup {next[1]} /\ slot = "ingest" /\ slot' = slot
    BY <1>1 DEF Insert, Lag, SlotOK, HasSlot, InLoop
  <2>4. IsFiniteSet(live') /\ IsFiniteSet(Lag) /\ Cardinality(Lag) \in Nat /\ Cardinality(Lag) <= held
    <3>1. IsFiniteSet(live \cup {next[1]}) /\ live' \subseteq live \cup {next[1]}
      BY <1>1, FS_AddElement DEF Insert, LagOK
    <3> QED
      BY <3>1, <2>3, FS_Subset, FS_CardinalityType DEF LagOK, Lag
  <2>5. Cardinality(Lag') <= held' /\ Cardinality(Lag') \in Nat
    <3> DEFINE more == Lag \cup {next[1]}
    <3>1. IsFiniteSet(more) /\ Cardinality(more) <= Cardinality(Lag) + 1 /\ Cardinality(more) \in Nat
      <4>1. /\ IsFiniteSet(more)
            /\ Cardinality(more) = IF next[1] \in Lag THEN Cardinality(Lag) ELSE Cardinality(Lag) + 1
        BY <2>4, FS_AddElement
      <4> HIDE DEF more
      <4> QED
        BY <2>4, <4>1
    <3>2. Cardinality(Lag') <= Cardinality(more) /\ Cardinality(Lag') \in Nat
      BY <2>3, <3>1, FS_Subset, FS_CardinalityType
    <3> QED
      BY <1>1, <2>4, <3>1, <3>2 DEF Insert, CountsOK
  <2>6. LagOK'
    BY <1>1, <2>1, <2>3, <2>4, <2>5, IngestAssumption DEF Insert, LagOK, CrashWindow, Lag, CountsOK
  <2>7. Delivered'
    BY <1>1, <2>2 DEF Insert, Delivered, Queued
  <2> QED
    BY <2>1, <2>6, <2>7
<1>2. CASE InsertFails
  <2>1. CountsOK' /\ SlotOK' /\ HandOK'
    BY <1>2, IngestAssumption DEF InsertFails, Flush, CountsOK, SlotOK, HandOK, InLoop, HasSlot, NoSlot
  <2>2. LagOK'
    BY <1>2 DEF InsertFails, LagOK, CrashWindow, Lag
  <2>3. Delivered'
    BY <1>2 DEF InsertFails, Delivered
  <2> QED
    BY <2>1, <2>2, <2>3
<1> QED
  BY <1>1, <1>2

\* The account holds in every reachable state, whatever the loop, the source,
\* the clock and the other writers do.
THEOREM IngestInvariance == Spec => []IngestInv
<1>1. IngestInv /\ [Next]_vars => IngestInv'
  <2> SUFFICES ASSUME IngestInv, Next \/ UNCHANGED vars PROVE IngestInv'
    OBVIOUS
  <2>1. CASE UNCHANGED vars
    BY <2>1 DEF vars, sourceVars, loopVars, graphVars, IngestInv, CountsOK, HandOK, SlotOK, LagOK,
                CrashWindow, Lag, Delivered, InHand, Queued
  <2>2. CASE Next
    BY <2>2, OutsideSteps, SlotSteps, LoopSteps, LoopKeeps, InsertSteps DEF Next, IngestStep
  <2> QED
    BY <2>1, <2>2
<1> QED
  BY <1>1, InitInv, PTL DEF Spec

\* A crash never loses more than an interval of inserts, in any of the loops
\* (ingest.rs, COMMIT_INTERVAL_EDGES).
THEOREM CrashWindowAlways == Spec => []CrashWindow
<1>1. IngestInv => CrashWindow
  BY DEF IngestInv, LagOK
<1> QED
  BY <1>1, IngestInvariance, PTL

\* A loop that has ended folded its counts, and committed what its source
\* delivered unless it was stopped, failed or poisoned (ingest.rs).
THEOREM EndIsAccountedAlways == Spec => []EndIsAccounted
<1>1. IngestInv => EndIsAccounted
  BY DEF IngestInv, CountsOK, SlotOK, LagOK, Delivered, EndIsAccounted, InLoop, HasSlot
<1> QED
  BY <1>1, IngestInvariance, PTL
=============================================================================
