--------------------------- MODULE PrefetchPipeline ---------------------------
(***************************************************************************)
(* The submit/deliver machinery of the prefetching loaders                 *)
(* (crates/aethergraph-core/src/loader/prefetch.rs): a bounded work queue  *)
(* into a pool of sampler threads, a bounded result queue back, in the     *)
(* feature pipeline one more queue and a feature-loader thread between     *)
(* them, a reorder buffer for seeded loaders, and the stop signal every    *)
(* blocking point watches.                                                 *)
(*                                                                         *)
(* A batch is its submission number.  What sampling and feature loading    *)
(* compute is left out; that a worker can fail in them is not.  A thread's *)
(* channel ends are dropped when its body ends, before run_worker looks at *)
(* how it ended.                                                           *)
(***************************************************************************)
EXTENDS Naturals, Sequences, FiniteSets

CONSTANTS
  Submitters, Consumers, Samplers,
  Loader,      \* the feature-loader thread
  Modes,       \* constructors in use: "pool" (new, new_nvme, hetero) or
               \* "features" (with_features)
  WorkCap, SampleCap, ResultCap,
  MaxSubmits   \* bound: submissions that get a number

ASSUME PipelineAssumption ==
  /\ Loader \notin Samplers /\ Samplers # {}
  /\ IsFiniteSet(Submitters) /\ IsFiniteSet(Consumers) /\ IsFiniteSet(Samplers)
  /\ Modes \subseteq {"pool", "features"}
  /\ {WorkCap, SampleCap, ResultCap} \subseteq Nat \ {0}
  /\ MaxSubmits \in Nat

Workers == Samplers \cup {Loader}
Numbers == 0..(MaxSubmits - 1)

VARIABLES
  mode, ordered,              \* fixed by the constructor
  (* StopSignal *)
  stopped, shutdown, tripped,
  fault,                      \* "none", "own" (a worker's panic or error) or
                              \* "early" (finished before the loader stopped)
  (* queues *)
  nextSeq, workq, sampleq, resultq,
  (* threads; the number each one has in hand, as a sequence of at most one *)
  spc, sseq,                  \* submit()
  wpc, wseq,                  \* samplers and the feature loader
  ahead,                      \* the feature loader's next batch
  cpc, polling, hand,         \* next_timeout(), or try_next() when polling
  opc,                        \* the thread that calls shutdown()
  (* reorder buffer *)
  nextOut, pending,
  delivered                   \* history: numbers returned, in order

configVars  == <<mode, ordered>>
stopVars    == <<stopped, shutdown, tripped, fault>>
submitVars  == <<nextSeq, spc, sseq>>
workerVars  == <<wpc, wseq, ahead>>
reorderVars == <<nextOut, pending, delivered>>
consumeVars == <<cpc, polling, hand>>
vars == <<configVars, stopVars, submitVars, workq, sampleq, resultq,
          workerVars, consumeVars, opc, reorderVars>>

Init ==
  /\ mode \in Modes /\ ordered \in BOOLEAN
  /\ stopped = FALSE /\ shutdown = FALSE /\ tripped = FALSE /\ fault = "none"
  /\ nextSeq = 0 /\ workq = <<>> /\ sampleq = <<>> /\ resultq = <<>>
  /\ spc = [s \in Submitters |-> "out"] /\ sseq = [s \in Submitters |-> <<>>]
  /\ wpc = [w \in Workers |-> IF mode = "features" THEN "top"
                              ELSE IF w = Loader THEN "done" ELSE "start"]
  /\ wseq = [w \in Workers |-> <<>>] /\ ahead = <<>>
  /\ cpc = [c \in Consumers |-> "out"]
  /\ polling = [c \in Consumers |-> FALSE]
  /\ hand = [c \in Consumers |-> <<>>]
  /\ opc = "run"
  /\ nextOut = 0 /\ pending = {} /\ delivered = <<>>

-----------------------------------------------------------------------------
(* Channels *)

\* The thread's body has ended and its channel ends are dropped.
Ended(w) == wpc[w] \in {"left", "failed", "stop", "trip", "done"}

Inbox(w) == IF w = Loader THEN sampleq ELSE workq

\* Every sender of the thread's inbox is dropped.  The pipeline keeps a
\* sender of the work queue; only the samplers hold one of the sample queue.
InboxClosed(w) == w = Loader /\ \A s \in Samplers : Ended(s)

\* The thread feeds the sample queue.
FeedsLoader(w) == w # Loader /\ mode = "features"

\* Every receiver of the thread's outbox is dropped.  The pipeline keeps the
\* receiver of the result queue.
OutboxClosed(w) == FeedsLoader(w) /\ Ended(Loader)

-----------------------------------------------------------------------------
(* submit() *)

\* A submission is refused once the loader has stopped; otherwise it takes
\* the next number.
Submit(s) ==
  /\ spc[s] = "out"
  /\ ~stopped
  /\ nextSeq < MaxSubmits
  /\ nextSeq' = nextSeq + 1
  /\ sseq' = [sseq EXCEPT ![s] = <<nextSeq>>]
  /\ spc' = [spc EXCEPT ![s] = "send"]
  /\ UNCHANGED <<configVars, stopVars, workq, sampleq, resultq, workerVars,
                 consumeVars, opc, reorderVars>>

\* Mutant of Enqueue: the number is taken and the send given up.
EnqueueForgets(s) ==
  /\ spc[s] = "send"
  /\ Len(workq) < WorkCap
  /\ \E w \in Samplers : ~Ended(w)
  /\ sseq' = [sseq EXCEPT ![s] = <<>>]
  /\ spc' = [spc EXCEPT ![s] = "out"]
  /\ UNCHANGED <<configVars, stopVars, nextSeq, workq, sampleq, resultq, workerVars,
                 consumeVars, opc, reorderVars>>

\* The select's send arm: there is room and a worker left to receive.
Enqueue(s) ==
  /\ spc[s] = "send"
  /\ Len(workq) < WorkCap
  /\ \E w \in Samplers : ~Ended(w)
  /\ workq' = workq \o sseq[s]
  /\ sseq' = [sseq EXCEPT ![s] = <<>>]
  /\ spc' = [spc EXCEPT ![s] = "out"]
  /\ UNCHANGED <<configVars, stopVars, nextSeq, sampleq, resultq, workerVars,
                 consumeVars, opc, reorderVars>>

\* The stop signal, or no worker left: the submission is refused.
Refused(s) ==
  /\ spc[s] = "send"
  /\ tripped \/ \A w \in Samplers : Ended(w)
  /\ sseq' = [sseq EXCEPT ![s] = <<>>]
  /\ spc' = [spc EXCEPT ![s] = "out"]
  /\ UNCHANGED <<configVars, stopVars, nextSeq, workq, sampleq, resultq,
                 workerVars, consumeVars, opc, reorderVars>>

-----------------------------------------------------------------------------
(* Worker threads *)

workerFrame == <<configVars, submitVars, consumeVars, opc, reorderVars>>

Goes(w, pc) == wpc' = [wpc EXCEPT ![w] = pc]

\* The loop's head: the feature loader's batch in advance, or recv_work(),
\* which looks at the stop flag before it blocks.
Top(w) ==
  /\ wpc[w] \in {"start", "top"}
  /\ IF w = Loader /\ ahead # <<>>
       THEN /\ wseq' = [wseq EXCEPT ![w] = ahead]
            /\ ahead' = <<>>
            /\ Goes(w, "peek")
       ELSE /\ Goes(w, IF stopped THEN "left" ELSE "select")
            /\ UNCHANGED <<wseq, ahead>>
  /\ UNCHANGED <<workerFrame, stopVars, workq, sampleq, resultq>>

\* The thread of an NVMe loader sets its ring up first, and may fail to.
StartFails(w) ==
  /\ wpc[w] = "start"
  /\ Goes(w, "failed")
  /\ UNCHANGED <<workerFrame, stopVars, workq, sampleq, resultq, wseq, ahead>>

\* recv_work() receives.
Receive(w) ==
  /\ wpc[w] = "select"
  /\ Inbox(w) # <<>>
  /\ wseq' = [wseq EXCEPT ![w] = <<Head(Inbox(w))>>]
  /\ IF w = Loader
       THEN Goes(w, "peek") /\ sampleq' = Tail(sampleq) /\ UNCHANGED workq
       ELSE Goes(w, "work") /\ workq' = Tail(workq) /\ UNCHANGED sampleq
  /\ UNCHANGED <<workerFrame, stopVars, resultq, ahead>>

\* recv_work() returns None: the stop signal, or a closed queue.  The body
\* returns.
ReceiveEnds(w) ==
  /\ wpc[w] = "select"
  /\ tripped \/ (InboxClosed(w) /\ Inbox(w) = <<>>)
  /\ Goes(w, "left")
  /\ UNCHANGED <<workerFrame, stopVars, workq, sampleq, resultq, wseq, ahead>>

\* Mutant of Peek: the next batch is taken for its hints and not kept.
PeekDrops(w) ==
  /\ wpc[w] = "peek"
  /\ sampleq' = IF sampleq # <<>> THEN Tail(sampleq) ELSE sampleq
  /\ Goes(w, "work")
  /\ UNCHANGED <<workerFrame, stopVars, workq, resultq, wseq, ahead>>

\* The feature loader takes the next sampled batch early.
Peek(w) ==
  /\ wpc[w] = "peek"
  /\ IF sampleq # <<>>
       THEN ahead' = <<Head(sampleq)>> /\ sampleq' = Tail(sampleq)
       ELSE UNCHANGED <<ahead, sampleq>>
  /\ Goes(w, "work")
  /\ UNCHANGED <<workerFrame, stopVars, workq, resultq, wseq>>

\* Sampling fails, or anything panics: the body ends and its batch is lost.
\* A thread still at work and one waiting to deliver are the same here.
WorkFails(w) ==
  /\ wpc[w] = "work"
  /\ wseq' = [wseq EXCEPT ![w] = <<>>]
  /\ Goes(w, "failed")
  /\ UNCHANGED <<workerFrame, stopVars, workq, sampleq, resultq, ahead>>

\* The batch is sampled, or its features are loaded (a load error travels
\* with the result), and the send arm of deliver()'s select takes it.
Deliver(w) ==
  /\ wpc[w] = "work"
  /\ ~OutboxClosed(w)
  /\ IF FeedsLoader(w)
       THEN /\ Len(sampleq) < SampleCap
            /\ sampleq' = sampleq \o wseq[w] /\ UNCHANGED resultq
       ELSE /\ Len(resultq) < ResultCap
            /\ resultq' = resultq \o wseq[w] /\ UNCHANGED sampleq
  /\ wseq' = [wseq EXCEPT ![w] = <<>>]
  /\ Goes(w, "top")
  /\ UNCHANGED <<workerFrame, stopVars, workq, ahead>>

\* deliver() returns false: the stop signal, or the receiver is gone.
DeliverEnds(w) ==
  /\ wpc[w] = "work"
  /\ tripped \/ OutboxClosed(w)
  /\ wseq' = [wseq EXCEPT ![w] = <<>>]
  /\ Goes(w, "left")
  /\ UNCHANGED <<workerFrame, stopVars, workq, sampleq, resultq, ahead>>

faultFrame == <<workerFrame, stopped, shutdown, tripped, workq, sampleq,
                resultq, wseq, ahead>>

\* OnceLock::set: the first fault wins.
Record(f) == fault' = IF fault = "none" THEN f ELSE fault

\* run_worker, the body returned Ok: fine after a stop, a fault before one.
Left(w) ==
  /\ wpc[w] = "left"
  /\ IF stopped THEN Goes(w, "done") /\ UNCHANGED fault
                ELSE Goes(w, "stop") /\ Record("early")
  /\ UNCHANGED faultFrame

\* Mutant of RecordFault: a worker's own error only stops the pipeline.
RecordFaultSilently(w) ==
  /\ wpc[w] = "failed"
  /\ Goes(w, "stop")
  /\ UNCHANGED <<fault, faultFrame>>

\* run_worker, the body failed: fail() records the message ...
RecordFault(w) ==
  /\ wpc[w] = "failed"
  /\ Goes(w, "stop")
  /\ Record("own")
  /\ UNCHANGED faultFrame

\* ... stop() sets the flag ...
WorkerStops(w) ==
  /\ wpc[w] = "stop"
  /\ stopped' = TRUE
  /\ Goes(w, "trip")
  /\ UNCHANGED <<workerFrame, shutdown, tripped, fault, workq, sampleq,
                 resultq, wseq, ahead>>

\* ... and drops the only sender of the signal.
WorkerTrips(w) ==
  /\ wpc[w] = "trip"
  /\ tripped' = TRUE
  /\ Goes(w, "done")
  /\ UNCHANGED <<workerFrame, stopped, shutdown, fault, workq, sampleq,
                 resultq, wseq, ahead>>

-----------------------------------------------------------------------------
(* next_timeout() and try_next() *)

consumeFrame == <<configVars, stopVars, submitVars, workq, sampleq, workerVars,
                  opc>>

\* The call is over.
Returns(c) ==
  /\ cpc' = [cpc EXCEPT ![c] = "out"]
  /\ polling' = [polling EXCEPT ![c] = FALSE]

\* The call looks at the stop flag first.
Call(c, try) ==
  /\ cpc[c] = "out"
  /\ cpc' = [cpc EXCEPT ![c] = IF stopped THEN "outcome" ELSE "pop"]
  /\ polling' = [polling EXCEPT ![c] = try]
  /\ UNCHANGED <<consumeFrame, resultq, hand, reorderVars>>

\* Mutant of PopReady: the smallest number in the buffer is ready.
PopReadySmallest(c) ==
  /\ cpc[c] = "pop"
  /\ IF ordered /\ pending # {}
       THEN /\ nextOut' = CHOOSE n \in pending : \A m \in pending : n <= m
            /\ pending' = pending \ {nextOut'}
            /\ delivered' = Append(delivered, nextOut')
            /\ Returns(c)
       ELSE /\ cpc' = [cpc EXCEPT ![c] = "poll"]
            /\ UNCHANGED <<polling, reorderVars>>
  /\ UNCHANGED <<consumeFrame, resultq, hand>>

\* BatchReorder::pop_ready, for seeded loaders.
PopReady(c) ==
  /\ cpc[c] = "pop"
  /\ IF ordered /\ nextOut \in pending
       THEN /\ pending' = pending \ {nextOut}
            /\ nextOut' = nextOut + 1
            /\ delivered' = Append(delivered, nextOut)
            /\ Returns(c)
       ELSE /\ cpc' = [cpc EXCEPT ![c] = "poll"]
            /\ UNCHANGED <<polling, reorderVars>>
  /\ UNCHANGED <<consumeFrame, resultq, hand>>

\* try_recv, or the receive arm of the select, has a result.  A seeded
\* loader puts it into the reorder buffer next.
Take(c) ==
  /\ cpc[c] \in {"poll", "wait"}
  /\ resultq # <<>>
  /\ resultq' = Tail(resultq)
  /\ IF ordered
       THEN /\ hand' = [hand EXCEPT ![c] = <<Head(resultq)>>]
            /\ cpc' = [cpc EXCEPT ![c] = "insert"]
            /\ UNCHANGED <<polling, delivered>>
       ELSE /\ delivered' = Append(delivered, Head(resultq))
            /\ Returns(c)
            /\ UNCHANGED hand
  /\ UNCHANGED <<consumeFrame, nextOut, pending>>

\* The reorder buffer takes the result, and the loop runs again.
Insert(c) ==
  /\ cpc[c] = "insert"
  /\ pending' = pending \cup {hand[c][1]}
  /\ hand' = [hand EXCEPT ![c] = <<>>]
  /\ cpc' = [cpc EXCEPT ![c] = "pop"]
  /\ UNCHANGED <<consumeFrame, resultq, polling, nextOut, delivered>>

\* try_recv finds nothing: try_next returns, next_timeout blocks.
PollEmpty(c) ==
  /\ cpc[c] = "poll"
  /\ resultq = <<>>
  /\ IF polling[c] THEN Returns(c)
                   ELSE cpc' = [cpc EXCEPT ![c] = "wait"] /\ UNCHANGED polling
  /\ UNCHANGED <<consumeFrame, resultq, hand, reorderVars>>

\* The stop arm of the select.
WaitEnds(c) ==
  /\ cpc[c] = "wait"
  /\ tripped
  /\ cpc' = [cpc EXCEPT ![c] = "outcome"]
  /\ UNCHANGED <<consumeFrame, resultq, polling, hand, reorderVars>>

\* The default arm: nothing was ready for the whole window.
Timeout(c) ==
  /\ cpc[c] = "wait"
  /\ resultq = <<>> /\ ~tripped
  /\ Returns(c)
  /\ UNCHANGED <<consumeFrame, resultq, hand, reorderVars>>

\* outcome(): the clean end if shutdown is set, WorkerExited with the fault
\* otherwise.
Outcome(c) ==
  /\ cpc[c] = "outcome"
  /\ Returns(c)
  /\ UNCHANGED <<consumeFrame, resultq, hand, reorderVars>>

-----------------------------------------------------------------------------
(* shutdown() *)

ownerFrame == <<configVars, tripped, fault, submitVars, workq, sampleq,
                resultq, workerVars, consumeVars, reorderVars>>

RequestShutdown ==
  /\ opc = "run"
  /\ shutdown' = TRUE
  /\ opc' = "stop"
  /\ UNCHANGED <<ownerFrame, stopped>>

OwnerStops ==
  /\ opc = "stop"
  /\ stopped' = TRUE
  /\ opc' = "trip"
  /\ UNCHANGED <<ownerFrame, shutdown>>

OwnerTrips ==
  /\ opc = "trip"
  /\ tripped' = TRUE
  /\ opc' = "join"
  /\ UNCHANGED <<configVars, stopped, shutdown, fault, submitVars, workq,
                 sampleq, resultq, workerVars, consumeVars, reorderVars>>

\* Every thread has been joined.
Joined ==
  /\ opc = "join"
  /\ \A w \in Workers : wpc[w] = "done"
  /\ opc' = "down"
  /\ UNCHANGED <<ownerFrame, stopped, shutdown>>

SubmitStep(s) == Enqueue(s) \/ Refused(s)

WorkerStep(w) ==
  \/ Top(w) \/ Receive(w) \/ ReceiveEnds(w) \/ Peek(w)
  \/ Deliver(w) \/ DeliverEnds(w)
  \/ Left(w) \/ RecordFault(w) \/ WorkerStops(w) \/ WorkerTrips(w)

ConsumeStep(c) ==
  \/ \E try \in BOOLEAN : Call(c, try)
  \/ PopReady(c) \/ Take(c) \/ Insert(c) \/ PollEmpty(c)
  \/ WaitEnds(c) \/ Outcome(c)

OwnerStep == OwnerStops \/ OwnerTrips \/ Joined

Next ==
  \/ \E s \in Submitters : Submit(s) \/ SubmitStep(s)
  \/ \E w \in Workers : WorkerStep(w) \/ StartFails(w) \/ WorkFails(w)
  \/ \E c \in Consumers : ConsumeStep(c) \/ Timeout(c)
  \/ RequestShutdown \/ OwnerStep

Spec == Init /\ [][Next]_vars

\* Some thread inside submit, shutdown or a worker body always gets on, and
\* every consumer does: a weaker assumption than a scheduler that runs every
\* thread.  Consumers keep asking.  Nothing is assumed of new submissions,
\* failures, timeouts or the call of shutdown.
FairSpec ==
  /\ Spec
  /\ WF_vars(\/ \E s \in Submitters : SubmitStep(s)
             \/ \E w \in Workers : WorkerStep(w)
             \/ OwnerStep)
  /\ \A c \in Consumers : WF_vars(ConsumeStep(c))

-----------------------------------------------------------------------------
(* Properties *)

InHand(s) == Len(s) <= 1 /\ \A i \in DOMAIN s : s[i] \in Numbers

TypeOK ==
  /\ mode \in Modes /\ ordered \in BOOLEAN
  /\ {stopped, shutdown, tripped} \subseteq BOOLEAN
  /\ fault \in {"none", "own", "early"}
  /\ nextSeq \in 0..MaxSubmits
  /\ workq \in Seq(Numbers) /\ Len(workq) <= WorkCap
  /\ sampleq \in Seq(Numbers) /\ Len(sampleq) <= SampleCap
  /\ resultq \in Seq(Numbers) /\ Len(resultq) <= ResultCap
  /\ \A s \in Submitters : spc[s] \in {"out", "send"} /\ InHand(sseq[s])
  /\ \A w \in Workers :
       /\ wpc[w] \in {"start", "top", "select", "peek", "work",
                      "left", "failed", "stop", "trip", "done"}
       /\ InHand(wseq[w])
  /\ InHand(ahead)
  /\ \A c \in Consumers :
       /\ cpc[c] \in {"out", "pop", "poll", "wait", "insert", "outcome"}
       /\ polling[c] \in BOOLEAN /\ InHand(hand[c])
  /\ opc \in {"run", "stop", "trip", "join", "down"}
  /\ nextOut \in 0..MaxSubmits /\ pending \subseteq Numbers
  /\ delivered \in Seq(Numbers)

\* In how many queues, hands and buffers a number is.
Copies(n) ==
  LET In(s) == Cardinality({i \in DOMAIN s : s[i] = n})
      Holders(f) == Cardinality({x \in DOMAIN f : f[x] = <<n>>})
  IN In(workq) + In(sampleq) + In(resultq) + In(ahead) + In(delivered)
     + Holders(sseq) + Holders(wseq) + Holders(hand)
     + (IF n \in pending THEN 1 ELSE 0)

\* While no worker has failed and nobody has stopped the loader, every
\* number handed out is in exactly one place: no batch is lost or doubled
\* between submit, the workers, the loader's look-ahead and the reorder
\* buffer, so the next number a seeded consumer waits for always arrives.
NothingLost ==
  ~stopped /\ (\A w \in Workers : wpc[w] \notin {"failed", "stop"}) =>
    \A n \in 0..(nextSeq - 1) : Copies(n) = 1

\* A seeded loader "yields results in submission order, so a multi-worker
\* pool reproduces a single worker exactly"; an unseeded one yields each
\* result once.
YieldOrder ==
  IF ordered THEN \A i \in DOMAIN delivered : delivered[i] = i - 1
             ELSE \A i, j \in DOMAIN delivered :
                    i # j => delivered[i] # delivered[j]

\* A stream that ends says why: a consumer that is about to report the
\* outcome finds a requested shutdown or a recorded fault, whichever came
\* first and however the flags, the signal and the dropped channel ends
\* interleave (StopSignal::outcome).
EndIsExplained ==
  \A c \in Consumers : cpc[c] = "outcome" => shutdown \/ fault # "none"

\* Nobody is blocked any more: workers have ended, no submit is under way,
\* calls of next return at once, and shutdown has joined every thread.
Released ==
  /\ \A w \in Workers : wpc[w] = "done"
  /\ \A s \in Submitters : spc[s] = "out"
  /\ \A c \in Consumers : cpc[c] \in {"out", "outcome"}
  /\ opc \in {"run", "down"}

\* After shutdown or a fault every thread comes out of whatever it was
\* blocked in ("either wakes every thread at once").
StopReleasesAll == stopped ~> Released

\* The consumers catch up with the submitters again and again, unless the
\* loader stops: bounded queues, the look-ahead and the reorder buffer never
\* wait for each other in a circle, and no accepted batch stays behind.
ConsumersCatchUp == []<>(stopped \/ Len(delivered) = nextSeq)

\* The loader always goes on: it delivers, or it lets every thread go.
LoaderGoesOn == StopReleasesAll /\ ConsumersCatchUp

\* "The first fault wins; later ones describe its fallout" (fail's comment):
\* a thread that merely finished early is never the recorded fault.
FirstFaultIsCause == fault # "early"

\* "No result arrived within the wait window" (PrefetchError::Timeout): when
\* a call times out and nobody else is inside one, the batch it was waiting
\* for is not sitting in the reorder buffer.
TimeoutMeansNothing ==
  [][\A c \in Consumers :
       /\ Timeout(c)
       /\ \A d \in Consumers \ {c} : cpc[d] = "out"
       => nextOut \notin pending]_vars

=============================================================================
