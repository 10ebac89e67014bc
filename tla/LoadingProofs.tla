--------------------------- MODULE LoadingProofs ---------------------------
(***************************************************************************)
(* The loading path.                                                       *)
(*                                                                         *)
(* A batched read returns with nothing of its buffers left to the kernel,  *)
(* and success means that every read arrived whole (BatchIsWhole), for any *)
(* queue sizes, tier, batch sizes and number of failed enters.  What is    *)
(* submitted is in one place of the rings or reaped, so a call that has    *)
(* counted as many completions as it pushed has nothing in flight.         *)
(*                                                                         *)
(* The prefetch pipeline loses and doubles no batch, a seeded loader       *)
(* yields them in order, and a stream that ends has its reason on record,  *)
(* for any numbers of threads and any capacities of the queues.  Every     *)
(* step moves a number from one queue, hand or buffer to another, or ends  *)
(* the calm in which nothing is lost.                                      *)
(*                                                                         *)
(* The feature cache reports no row missing that it could have served,     *)
(* for any nodes, loaders, capacities and disk failures: whatever is in a  *)
(* memory tier has a copy below.                                           *)
(***************************************************************************)
EXTENDS PrefetchPipeline, UringRead, FeatureCache, SequenceTheorems, FiniteSetTheorems,
        WellFoundedInduction, TLAPS

-----------------------------------------------------------------------------
(* Batched reads through io_uring.                                         *)

InFlight == pushed \cup visible \cup taken \cup finished \cup cq \cup spilled

PushPhase == {"next", "room", "roomWait", "roomFailed", "push", "stride", "reap"}
DrainPhase == {"submit", "drain", "wait", "drainWait", "aborted"}

UringTypeOK ==
  /\ upc \in {"idle"} \cup PushPhase \cup DrainPhase
  /\ reads \in Nat /\ submitted \in 0 .. reads /\ completed \in Nat
  /\ firstErr \in BOOLEAN
  /\ InFlight \subseteq 1 .. submitted
  /\ outcome \in [1 .. reads -> {"none", "whole", "bad"}]

\* A read is in one place at a time.
Apart ==
  /\ pushed \cap (visible \cup taken \cup finished \cup cq \cup spilled) = {}
  /\ visible \cap (taken \cup finished \cup cq \cup spilled) = {}
  /\ taken \cap (finished \cup cq \cup spilled) = {}
  /\ finished \cap (cq \cup spilled) = {}
  /\ cq \cap spilled = {}

\* What is submitted and not counted is in flight.
Counted == Cardinality(InFlight) + completed = submitted

\* Without an error on record, every reaped read came whole.
ReapedWhole == ~firstErr => \A r \in (1 .. submitted) \ InFlight : outcome[r] = "whole"

\* The whole batch is submitted when the drain begins, unless an error is on
\* record; there is room for another read when one is pushed; and between
\* calls nothing is in flight.
PhaseOK ==
  /\ upc \in DrainPhase => submitted = reads \/ firstErr
  /\ upc \in {"room", "roomWait", "roomFailed", "push"} => submitted < reads
  /\ upc = "idle" => InFlight = {}
  /\ answer = "ok" => upc = "idle" /\ submitted = reads /\ ~firstErr

UringInv == UringTypeOK /\ Apart /\ Counted /\ ReapedWhole /\ PhaseOK

\* What lies in the rings is finite.
LEMMA InFlightFinite ==
  ASSUME UringTypeOK
  PROVE  /\ IsFiniteSet(InFlight) /\ Cardinality(InFlight) \in Nat
         /\ \A S \in SUBSET InFlight : IsFiniteSet(S) /\ Cardinality(S) \in Nat
<1>1. IsFiniteSet(1 .. submitted)
  BY FS_Interval DEF UringTypeOK
<1>2. IsFiniteSet(InFlight)
  BY <1>1, FS_Subset DEF UringTypeOK
<1> QED
  BY <1>2, FS_Subset, FS_CardinalityType

\* A step that moves reads between the places, and ends some that the device
\* holds, keeps the account.
LEMMA Moved ==
  ASSUME UringInv, InFlight' = InFlight, Apart',
         UNCHANGED <<reads, submitted, completed>>,
         outcome' \in [1 .. reads -> {"none", "whole", "bad"}],
         \A r \in (1 .. reads) \ InFlight : outcome'[r] = outcome[r],
         firstErr' \in BOOLEAN, firstErr => firstErr',
         upc' \in {"idle"} \cup PushPhase \cup DrainPhase, PhaseOK'
  PROVE  UringInv'
<1>1. UringTypeOK'
  BY DEF UringInv, UringTypeOK
<1>2. Counted'
  BY DEF UringInv, Counted
<1>3. ReapedWhole'
  BY DEF UringInv, UringTypeOK, ReapedWhole
<1> QED
  BY <1>1, <1>2, <1>3 DEF UringInv

\* Getting events moves what is due to the completion queue or to the list.
LEMMA EventsMove ==
  ASSUME GetEvents
  PROVE  \E S \in SUBSET (finished \cup spilled) :
           /\ cq' = cq \cup S /\ spilled' = (finished \cup spilled) \ S /\ finished' = {}
BY DEF GetEvents, Fitting

\* An enter moves what it takes, and what is due.
LEMMA EnterMoves ==
  ASSUME UringInv, NEW get \in BOOLEAN, NEW entries \in SUBSET (visible \cup pushed),
         Enter(get, entries),
         \/ entries = visible /\ pushed' = pushed
         \/ entries = Visible /\ pushed' = {}
  PROVE  InFlight' = InFlight /\ Apart' /\ outcome' = outcome
<1> USE DEF UringInv
<1>1. PICK took \in SUBSET entries : visible' = entries \ took /\ taken' = taken \cup took
  BY DEF Enter
<1>2. CASE get
  <2>1. PICK S \in SUBSET (finished \cup spilled) :
          cq' = cq \cup S /\ spilled' = (finished \cup spilled) \ S /\ finished' = {}
    BY <1>2, EventsMove DEF Enter
  <2>2. InFlight' = InFlight
    BY <1>1, <2>1 DEF InFlight, Visible
  <2>3. Apart'
    BY <1>1, <2>1 DEF Apart, Visible
  <2> QED
    BY <2>2, <2>3 DEF Enter
<1>3. CASE ~get
  <2>1. cq' = cq /\ spilled' = spilled /\ finished' = finished
    BY <1>3 DEF Enter
  <2>2. InFlight' = InFlight
    BY <1>1, <2>1 DEF InFlight, Visible
  <2>3. Apart'
    BY <1>1, <2>1 DEF Apart, Visible
  <2> QED
    BY <2>2, <2>3 DEF Enter
<1> QED
  BY <1>2, <1>3

\* A pass over the completion queue counts what it takes away.
LEMMA Reaps ==
  ASSUME UringInv, NEW back \in BOOLEAN, ReapPass(back),
         upc \in PushPhase \cup DrainPhase, upc' \in PushPhase \cup DrainPhase,
         upc' \in DrainPhase <=> upc \in DrainPhase,
         upc' \in {"room", "roomWait", "roomFailed", "push"} =>
           upc \in {"room", "roomWait", "roomFailed", "push"}
  PROVE  UringInv'
<1> USE DEF UringInv
<1>1. InFlight' = InFlight \ cq
  BY DEF ReapPass, queuevars, InFlight, Apart
<1>2. cq \subseteq InFlight
  BY DEF InFlight
<1>3. Cardinality(InFlight') = Cardinality(InFlight) - Cardinality(cq)
  <2>1. InFlight \cap cq = cq
    BY <1>2
  <2> QED
    BY <1>1, <2>1, InFlightFinite, FS_Difference
<1>4. Cardinality(cq) \in Nat /\ Cardinality(InFlight) \in Nat
  BY <1>2, InFlightFinite
<1>5. UNCHANGED <<reads, submitted, answer, outcome>> /\ completed' = completed + Cardinality(cq)
  BY DEF ReapPass, callvars
<1>6. UringTypeOK'
  <2>1. firstErr' \in BOOLEAN
    BY Zenon DEF ReapPass, UringTypeOK
  <2>2. reads' \in Nat /\ submitted' \in 0 .. reads' /\ completed' \in Nat
    BY <1>4, <1>5 DEF UringTypeOK
  <2>3. InFlight' \subseteq 1 .. submitted'
    BY <1>1, <1>5 DEF UringTypeOK
  <2>4. outcome' \in [1 .. reads' -> {"none", "whole", "bad"}]
    BY <1>5 DEF UringTypeOK
  <2>5. upc' \in {"idle"} \cup PushPhase \cup DrainPhase
    OBVIOUS
  <2> QED
    BY <2>1, <2>2, <2>3, <2>4, <2>5, Zenon DEF UringTypeOK
<1>7. Apart'
  BY DEF Apart, ReapPass, queuevars
<1>8. Counted'
  BY <1>3, <1>4, <1>5 DEF Counted, UringTypeOK
<1>9. ReapedWhole'
  BY <1>1, <1>2, <1>5 DEF ReapedWhole, ReapPass
<1>10. PhaseOK'
  BY <1>5 DEF PhaseOK, ReapPass, PushPhase, DrainPhase
<1> QED
  BY <1>6, <1>7, <1>8, <1>9, <1>10

\* A new call finds nothing in flight.
LEMMA BeginStep == UringInv /\ Begin => UringInv'
<1> SUFFICES ASSUME UringInv, Begin PROVE UringInv'
  OBVIOUS
<1> USE DEF UringInv
<1>1. InFlight = {}
  BY DEF Begin, PhaseOK
<1>2. InFlight' = {}
  BY <1>1 DEF Begin, queuevars, InFlight
<1>3. UringTypeOK'
  <2>1. reads' \in Nat /\ submitted' = 0 /\ completed' = 0 /\ upc' = "next" /\ firstErr' = FALSE
    BY UringAssumption DEF Begin
  <2>2. outcome' \in [1 .. reads' -> {"none", "whole", "bad"}]
    BY DEF Begin
  <2>3. InFlight' \subseteq 1 .. submitted'
    BY <1>2
  <2>4. submitted' \in 0 .. reads' /\ completed' \in Nat
    BY <2>1
  <2>5. upc' \in {"idle"} \cup PushPhase \cup DrainPhase /\ firstErr' \in BOOLEAN
    BY <2>1 DEF PushPhase
  <2> QED
    BY <2>1, <2>2, <2>3, <2>4, <2>5, Zenon DEF UringTypeOK
<1>4. Apart'
  BY <1>2 DEF InFlight, Apart
<1>5. Counted'
  BY <1>2, FS_EmptySet DEF Begin, Counted
<1>6. ReapedWhole' /\ PhaseOK'
  BY DEF Begin, ReapedWhole, PhaseOK, DrainPhase
<1> QED
  BY <1>3, <1>4, <1>5, <1>6

LEMMA PushStep == UringInv /\ Push => UringInv'
<1> SUFFICES ASSUME UringInv, Push PROVE UringInv'
  OBVIOUS
<1> USE DEF UringInv
<1>1. /\ InFlight' = InFlight \cup {submitted + 1} /\ submitted + 1 \notin InFlight
      /\ submitted < reads /\ upc' \in {"stride", "next"}
      /\ UNCHANGED <<reads, completed, firstErr, answer, outcome>>
  BY DEF Push, callvars, devicevars, InFlight, UringTypeOK, PhaseOK
<1>2. Cardinality(InFlight') = Cardinality(InFlight) + 1 /\ Cardinality(InFlight) \in Nat
  BY <1>1, InFlightFinite, FS_AddElement
<1>3. UringTypeOK'
  BY <1>1 DEF Push, UringTypeOK, PushPhase
<1>4. Apart'
  BY <1>1 DEF Push, devicevars, Apart, InFlight
<1>5. Counted'
  BY <1>1, <1>2 DEF Push, Counted, UringTypeOK
<1>6. ReapedWhole'
  BY <1>1 DEF Push, ReapedWhole, UringTypeOK
<1>7. PhaseOK'
  BY <1>1 DEF Push, PhaseOK, DrainPhase
<1> QED
  BY <1>3, <1>4, <1>5, <1>6, <1>7

\* The steps of the push phase and of the drain that move nothing.
LEMMA QuietSteps ==
  UringInv /\ (NextRead \/ WaitReturns \/ WaitFails \/ Return \/ PollSleeps) => UringInv'
<1> SUFFICES ASSUME UringInv, NextRead \/ WaitReturns \/ WaitFails \/ Return \/ PollSleeps
    PROVE UringInv'
  OBVIOUS
<1> USE DEF UringInv
<1>1. InFlight' = InFlight /\ UNCHANGED <<reads, submitted, completed, firstErr, outcome>>
  BY DEF NextRead, WaitReturns, WaitFails, Return, PollSleeps, InFlight, callvars, uservars,
         queuevars, devicevars
<1>2. Apart'
  BY DEF NextRead, WaitReturns, WaitFails, Return, PollSleeps, Apart, callvars, uservars,
         queuevars, devicevars
<1>3. upc' \in {"idle"} \cup PushPhase \cup DrainPhase
  BY DEF NextRead, WaitReturns, WaitFails, Return, PollSleeps, uservars, UringTypeOK,
         PushPhase, DrainPhase
<1>4. PhaseOK'
  <2>1. CASE NextRead
    BY <1>1, <2>1 DEF NextRead, PhaseOK, DrainPhase, callvars, UringTypeOK
  <2>2. CASE WaitReturns \/ WaitFails
    BY <1>1, <2>2 DEF WaitReturns, WaitFails, PhaseOK, DrainPhase, callvars
  <2>3. CASE Return
    <3>1. InFlight = {}
      BY <2>3, InFlightFinite, FS_EmptySet DEF Return, Outstanding, Counted, UringTypeOK
    <3> QED
      BY <1>1, <2>3, <3>1 DEF Return, PhaseOK, DrainPhase
  <2>4. CASE PollSleeps
    BY <1>1, <2>4 DEF PollSleeps, PhaseOK, callvars, uservars
  <2> QED
    BY <2>1, <2>2, <2>3, <2>4
<1> QED
  BY <1>1, <1>2, <1>3, <1>4, Moved DEF UringTypeOK

\* The steps that hand entries over.
LEMMA HandOverSteps ==
  UringInv /\ (WaitForRoom \/ Kick \/ PushPhaseFails \/ SubmitRest \/ Wait) => UringInv'
<1> SUFFICES ASSUME UringInv, WaitForRoom \/ Kick \/ PushPhaseFails \/ SubmitRest \/ Wait
    PROVE UringInv'
  OBVIOUS
<1> USE DEF UringInv
<1>1. UNCHANGED <<reads, submitted, completed, answer>> /\ firstErr' \in BOOLEAN /\ (firstErr => firstErr')
  BY DEF WaitForRoom, Kick, PushPhaseFails, SubmitRest, Wait, callvars, UringTypeOK
<1>2. upc' \in {"idle"} \cup PushPhase \cup DrainPhase
  BY DEF WaitForRoom, Kick, PushPhaseFails, SubmitRest, Wait, UringTypeOK, PushPhase, DrainPhase
<1>3. InFlight' = InFlight /\ Apart' /\ outcome' = outcome
  <2>1. CASE visible' = Visible /\ pushed' = {} /\ UNCHANGED <<taken, finished, cq, spilled, outcome>>
    BY <2>1 DEF Visible, InFlight, Apart
  <2>2. CASE \E get \in BOOLEAN : Enter(get, Visible) /\ pushed' = {}
    BY <2>2, EnterMoves DEF Visible
  <2>3. CASE Enter(TRUE, visible) /\ pushed' = pushed
    BY <2>3, EnterMoves
  <2> QED
    BY <2>1, <2>2, <2>3 DEF WaitForRoom, Kick, PushPhaseFails, SubmitRest, Wait, Synced, devicevars
<1>4. PhaseOK'
  BY <1>1, <1>3 DEF WaitForRoom, Kick, PushPhaseFails, SubmitRest, Wait, PhaseOK, DrainPhase
<1> QED
  BY <1>1, <1>2, <1>3, <1>4, Moved DEF UringTypeOK

LEMMA ReapSteps == UringInv /\ (ReapForRoom \/ Reap \/ Drain) => UringInv'
<1> SUFFICES ASSUME UringInv, ReapForRoom \/ Reap \/ Drain PROVE UringInv'
  OBVIOUS
<1>1. CASE ReapForRoom
  BY <1>1, Reaps DEF ReapForRoom, PushPhase, DrainPhase
<1>2. CASE Reap
  BY <1>2, Reaps DEF Reap, PushPhase, DrainPhase
<1>3. CASE Drain
  BY <1>3, Reaps DEF Drain, PushPhase, DrainPhase
<1> QED
  BY <1>1, <1>2, <1>3

\* The kernel moves what it holds, between calls nothing.
LEMMA KernelSteps == UringInv /\ KernelStep => UringInv'
<1> SUFFICES ASSUME UringInv, KernelStep PROVE UringInv'
  OBVIOUS
<1> USE DEF UringInv
<1>1. UNCHANGED <<reads, submitted, completed, firstErr, answer, upc>>
  BY DEF KernelStep, WaitGetsEvents, DeviceDone, PollTakes, callvars, uservars
<1>2. /\ InFlight' = InFlight /\ Apart' /\ outcome' \in [1 .. reads -> {"none", "whole", "bad"}]
      /\ \A r \in (1 .. reads) \ InFlight : outcome'[r] = outcome[r]
  <2>1. CASE WaitGetsEvents
    <3>1. PICK S \in SUBSET (finished \cup spilled) :
            cq' = cq \cup S /\ spilled' = (finished \cup spilled) \ S /\ finished' = {}
      BY <2>1, EventsMove DEF WaitGetsEvents
    <3>2. UNCHANGED <<pushed, visible, taken, outcome>>
      BY <2>1 DEF WaitGetsEvents, queuevars
    <3> QED
      BY <3>1, <3>2 DEF InFlight, Apart, UringTypeOK
  <2>2. ASSUME NEW r, DeviceDone(r)
        PROVE  /\ InFlight' = InFlight /\ Apart'
               /\ outcome' \in [1 .. reads -> {"none", "whole", "bad"}]
               /\ \A i \in (1 .. reads) \ InFlight : outcome'[i] = outcome[i]
    <3>1. /\ r \in taken /\ taken' = taken \ {r} /\ UNCHANGED <<pushed, visible>>
          /\ \/ finished' = finished \cup {r} /\ UNCHANGED <<cq, spilled>>
             \/ cq' = cq \cup {r} /\ UNCHANGED <<finished, spilled>>
             \/ spilled' = spilled \cup {r} /\ UNCHANGED <<finished, cq>>
      BY <2>2 DEF DeviceDone, queuevars
    <3>2. InFlight' = InFlight
      BY <3>1 DEF InFlight
    <3>3. Apart'
      BY <3>1 DEF Apart
    <3>4. r \in InFlight
      BY <3>1 DEF InFlight
    <3>5. /\ outcome' \in [1 .. reads -> {"none", "whole", "bad"}]
          /\ \A i \in (1 .. reads) \ InFlight : outcome'[i] = outcome[i]
      BY <2>2, <3>4 DEF DeviceDone, UringTypeOK
    <3> QED
      BY <3>2, <3>3, <3>5
  <2>3. ASSUME NEW r, PollTakes(r)
        PROVE  InFlight' = InFlight /\ Apart' /\ outcome' = outcome
    BY <2>3 DEF PollTakes, InFlight, Apart
  <2> QED
    BY <2>1, <2>2, <2>3 DEF KernelStep, UringTypeOK
<1>3. PhaseOK'
  BY <1>1, <1>2 DEF PhaseOK
<1> QED
  BY <1>1, <1>2, <1>3, Moved DEF UringTypeOK

\* What is in flight is in one place, and what is reaped without an error came
\* whole, in every reachable state.
THEOREM UringInvariance == UringSpec => []UringInv
<1>1. UringInit => UringInv
  <2> SUFFICES ASSUME UringInit PROVE UringInv
    OBVIOUS
  <2>1. InFlight = {} /\ Apart
    BY DEF UringInit, InFlight, Apart
  <2>2. UringTypeOK
    <3>1. outcome = << >> /\ 1 .. 0 = {}
      BY DEF UringInit
    <3>2. outcome \in [1 .. 0 -> {"none", "whole", "bad"}]
      BY <3>1
    <3>3. reads = 0 /\ submitted = 0 /\ completed = 0 /\ upc = "idle" /\ firstErr = FALSE
      BY Zenon DEF UringInit
    <3>4. reads \in Nat /\ submitted \in 0 .. reads /\ completed \in Nat
      BY <3>3
    <3>5. InFlight \subseteq 1 .. submitted
      BY <2>1
    <3>6. outcome \in [1 .. reads -> {"none", "whole", "bad"}]
      BY <3>2, <3>3
    <3> QED
      BY <3>3, <3>4, <3>5, <3>6, Zenon DEF UringTypeOK
  <2>3. Counted
    BY <2>1, FS_EmptySet DEF UringInit, Counted
  <2>4. ReapedWhole /\ PhaseOK
    BY <2>1 DEF UringInit, ReapedWhole, PhaseOK, DrainPhase
  <2> QED
    BY <2>1, <2>2, <2>3, <2>4 DEF UringInv
<1>2. UringInv /\ [UringNext]_uvars => UringInv'
  <2> SUFFICES ASSUME UringInv, UringNext \/ UNCHANGED uvars PROVE UringInv'
    OBVIOUS
  <2>1. CASE UNCHANGED uvars
    BY <2>1 DEF uvars, callvars, uservars, queuevars, devicevars, UringInv, UringTypeOK, Apart,
                Counted, ReapedWhole, PhaseOK, InFlight
  <2>2. CASE UringNext
    BY <2>1, <2>2, BeginStep, PushStep, QuietSteps, HandOverSteps, ReapSteps, KernelSteps
    DEF UringNext, CallStep
  <2> QED
    BY <2>1, <2>2
<1> QED
  BY <1>1, <1>2, PTL DEF UringSpec

\* A call that has returned left no buffer to the kernel, and success means a
\* whole batch (uring.rs, batch_read): for any ring, batch and failures.
THEOREM BatchIsWholeAlways == UringSpec => []BatchIsWhole
<1>1. UringInv => BatchIsWhole
  BY DEF UringInv, UringTypeOK, PhaseOK, ReapedWhole, BatchIsWhole, InFlight
<1> QED
  BY <1>1, UringInvariance, PTL

-----------------------------------------------------------------------------
(* The prefetch pipeline.                                                   *)

\* What a thread has in hand: one number or none.
Hands == {<<>>} \cup {<<n>> : n \in Numbers}
WorkerPcs == {"start", "top", "select", "peek", "work", "left", "failed", "stop", "trip", "done"}

PipeTypes ==
  /\ mode \in Modes /\ fault \in {"none", "own", "early"}
  /\ nextSeq \in 0..MaxSubmits
  /\ workq \in Seq(Numbers) /\ sampleq \in Seq(Numbers) /\ resultq \in Seq(Numbers)
  /\ spc \in [Submitters -> {"out", "send"}] /\ sseq \in [Submitters -> Hands]
  /\ wpc \in [Workers -> WorkerPcs] /\ wseq \in [Workers -> Hands] /\ ahead \in Hands
  /\ cpc \in [Consumers -> {"out", "pop", "poll", "wait", "insert", "outcome"}]
  /\ hand \in [Consumers -> Hands]
  /\ opc \in {"run", "stop", "trip", "join", "down"}
  /\ nextOut \in Nat /\ pending \subseteq Numbers /\ delivered \in Seq(Numbers)

PipeFlags ==
  /\ ordered \in BOOLEAN /\ stopped \in BOOLEAN /\ shutdown \in BOOLEAN /\ tripped \in BOOLEAN
  /\ polling \in [Consumers -> BOOLEAN]

\* A thread that is about to take a number has none, and one that is about to
\* pass its number on has it.
HandsFree ==
  /\ \A s \in Submitters : spc[s] = "out" <=> sseq[s] = <<>>
  /\ \A w \in Workers : wseq[w] # <<>> <=> wpc[w] \in {"peek", "work"}
  /\ wpc[Loader] \in {"select", "peek"} => ahead = <<>>
  /\ \A w \in Workers : wpc[w] = "peek" => w = Loader
  /\ \A c \in Consumers : hand[c] # <<>> <=> cpc[c] = "insert"

\* The stop's reasons precede the stop.
StopOK ==
  /\ tripped => stopped
  /\ stopped => shutdown \/ fault # "none"
  /\ \A w \in Workers : wpc[w] \in {"stop", "trip"} => fault # "none"
  /\ opc \in {"stop", "trip"} => shutdown
  /\ \A w \in Workers : wpc[w] = "trip" => stopped
  /\ opc = "trip" => stopped
  /\ \A c \in Consumers : cpc[c] = "outcome" => stopped

Calm == ~stopped /\ \A w \in Workers : wpc[w] \notin {"failed", "stop"}

\* While nothing has failed and nobody has stopped the loader every thread of
\* the pipeline is at work.
AllAtWork == Calm => \A w \in Workers : Ended(w) => w = Loader /\ mode = "pool"

\* How often the number is in a queue, and by how many threads it is held.
Cnt(q, n) == Cardinality({i \in DOMAIN q : q[i] = n})
Hold(f, n) == Cardinality({x \in DOMAIN f : f[x] = <<n>>})
PlacesOK == \A n \in Numbers :
  /\ Copies(n) <= 1
  /\ n >= nextSeq => Copies(n) = 0
  /\ Calm /\ n < nextSeq => Copies(n) = 1

\* A seeded loader has yielded 0, 1, 2, ... and waits for the next.
InOrder ==
  /\ ordered => /\ Len(delivered) = nextOut
                /\ \A i \in 1 .. Len(delivered) : delivered[i] = i - 1
  /\ ~ordered => nextOut = 0

Within ==
  Len(workq) <= WorkCap /\ Len(sampleq) <= SampleCap /\ Len(resultq) <= ResultCap

PipeInv ==
  /\ PipeTypes /\ PipeFlags /\ Within
  /\ HandsFree /\ StopOK /\ AllAtWork /\ PlacesOK /\ InOrder

LEMMA CntNat ==
  ASSUME NEW S, NEW q \in Seq(S), NEW n
  PROVE  Cnt(q, n) \in Nat /\ IsFiniteSet({i \in DOMAIN q : q[i] = n})
<1>1. IsFiniteSet(DOMAIN q)
  BY LenProperties, FS_Interval
<1> QED
  BY <1>1, FS_Subset, FS_CardinalityType DEF Cnt

\* A number that stands at two places of a queue counts twice.
LEMMA CntTwice ==
  ASSUME NEW S, NEW q \in Seq(S), NEW i \in DOMAIN q, NEW j \in DOMAIN q,
         i # j, q[i] = q[j]
  PROVE  Cnt(q, q[i]) >= 2
<1> DEFINE I == {k \in DOMAIN q : q[k] = q[i]}
<1>1. IsFiniteSet(I)
  BY CntNat
<1>2. {i, j} \in SUBSET I
  OBVIOUS
<1>3. Cnt(q, q[i]) = Cardinality(I)
  BY DEF Cnt
<1>4. IsFiniteSet({i}) /\ Cardinality({i}) = 1
  BY FS_Singleton
<1>5. Cardinality({i} \cup {j}) = 2
  <2> DEFINE both == Cardinality({i} \cup {j})
             one == Cardinality({i})
  <2>1. both = one + 1 /\ one = 1
    BY <1>4, FS_AddElement
  <2> HIDE DEF both, one
  <2>2. both = 2
    BY <2>1
  <2> QED
    BY <2>2 DEF both
<1>6. {i} \cup {j} = {i, j}
  OBVIOUS
<1> HIDE DEF I
<1>7. Cardinality({i, j}) <= Cardinality(I) /\ Cardinality(I) \in Nat
  BY <1>1, <1>2, FS_Subset, FS_CardinalityType
<1> DEFINE two == Cardinality({i, j})
<1>8. two = 2
  BY <1>5, <1>6, Zenon
<1> HIDE DEF Cnt, two
<1>9. two <= Cardinality(I)
  BY <1>7 DEF two
<1> QED
  BY <1>3, <1>7, <1>8, <1>9

LEMMA CntEmpty == \A n : Cnt(<<>>, n) = 0
<1> SUFFICES ASSUME NEW n PROVE Cnt(<<>>, n) = 0
  OBVIOUS
<1>1. {i \in DOMAIN <<>> : <<>>[i] = n} = {}
  OBVIOUS
<1> QED
  BY <1>1, FS_EmptySet DEF Cnt

LEMMA CntAppend ==
  ASSUME NEW S, NEW q \in Seq(S), NEW e \in S, NEW n
  PROVE  Cnt(Append(q, e), n) = Cnt(q, n) + (IF e = n THEN 1 ELSE 0)
<1> DEFINE I == {i \in DOMAIN q : q[i] = n}
           J == {i \in DOMAIN Append(q, e) : Append(q, e)[i] = n}
           last == Len(q) + 1
<1>1. /\ Append(q, e) \in Seq(S) /\ Len(Append(q, e)) = Len(q) + 1 /\ Len(q) \in Nat
      /\ \A i \in 1 .. Len(q) : Append(q, e)[i] = q[i]
      /\ Append(q, e)[last] = e
  BY AppendProperties, LenProperties
<1>2. DOMAIN q = 1 .. Len(q) /\ DOMAIN Append(q, e) = 1 .. Len(q) + 1
  BY <1>1, LenProperties
<1>3. last \notin I
  BY <1>1, <1>2
<1>4. J = IF e = n THEN I \cup {last} ELSE I
  BY <1>1, <1>2
<1>5. IsFiniteSet(I)
  BY CntNat
<1>6. Cardinality(I) = Cnt(q, n) /\ Cardinality(J) = Cnt(Append(q, e), n)
  BY DEF Cnt
<1> HIDE DEF I, J, last
<1>7. Cardinality(I) \in Nat
  BY <1>5, FS_CardinalityType
<1>8. Cardinality(I \cup {last}) = Cardinality(I) + 1
  BY <1>3, <1>5, FS_AddElement
<1>9. CASE e = n
  BY <1>4, <1>6, <1>8, <1>9
<1>10. CASE e # n
  BY <1>4, <1>6, <1>7, <1>10
<1> QED
  BY <1>9, <1>10

LEMMA CntTail ==
  ASSUME NEW S, NEW q \in Seq(S), q # <<>>, NEW n
  PROVE  Cnt(q, n) = Cnt(Tail(q), n) + (IF Head(q) = n THEN 1 ELSE 0)
<1> DEFINE I == {i \in DOMAIN q : q[i] = n}
           J == {i \in DOMAIN Tail(q) : Tail(q)[i] = n}
           shift == [j \in J |-> j + 1]
<1>1. /\ Tail(q) \in Seq(S) /\ Len(Tail(q)) = Len(q) - 1 /\ Len(q) \in Nat \ {0}
      /\ \A i \in 1 .. Len(Tail(q)) : Tail(q)[i] = q[i + 1]
      /\ Head(q) = q[1]
  BY HeadTailProperties, EmptySeq
<1>2. DOMAIN q = 1 .. Len(q) /\ DOMAIN Tail(q) = 1 .. Len(q) - 1
  BY <1>1, LenProperties
<1>3. J \subseteq Nat /\ \A j \in J : j + 1 \in I \ {1}
  BY <1>1, <1>2
<1>4. \A i \in I \ {1} : i - 1 \in J /\ i = (i - 1) + 1
  BY <1>1, <1>2
<1>5. shift \in Bijection(J, I \ {1})
  <2>1. shift \in [J -> I \ {1}]
    BY <1>3
  <2>2. \A i, j \in J : shift[i] = shift[j] => i = j
    BY <1>3
  <2>3. \A i \in I \ {1} : \E j \in J : shift[j] = i
    BY <1>4
  <2> HIDE DEF shift, I, J
  <2> QED
    BY <2>1, <2>2, <2>3 DEF Bijection, Injection, IsInjective, Surjection
<1>6. IsFiniteSet(I)
  BY CntNat
<1>7. IsFiniteSet(J)
  BY <1>1, CntNat
<1>8. 1 \in I <=> Head(q) = n
  BY <1>1, <1>2
<1>9. Cardinality(I) = Cnt(q, n) /\ Cardinality(J) = Cnt(Tail(q), n)
  BY DEF Cnt
<1> HIDE DEF I, J, shift
<1>10. Cardinality(J) \in Nat /\ Cardinality(I) \in Nat
  BY <1>6, <1>7, FS_CardinalityType
<1>11. Cardinality(J) = Cardinality(I \ {1})
  <2>1. ExistsBijection(J, I \ {1})
    BY <1>5 DEF ExistsBijection
  <2>2. IsFiniteSet(I \ {1})
    BY <1>6, FS_Subset
  <2> QED
    BY <2>1, <2>2, <1>7, FS_Bijection
<1>12. ASSUME Head(q) = n PROVE Cnt(q, n) = Cnt(Tail(q), n) + 1
  <2>1. Cardinality(I \ {1}) = Cardinality(I) - 1
    BY <1>6, <1>8, <1>12, FS_RemoveElement
  <2> QED
    BY <2>1, <1>9, <1>10, <1>11, <1>12
<1>13. ASSUME Head(q) # n PROVE Cnt(q, n) = Cnt(Tail(q), n) + 0
  <2>1. I \ {1} = I
    BY <1>8, <1>13
  <2>2. Cardinality(J) = Cardinality(I)
    BY <2>1, <1>11
  <2> HIDE DEF Cnt
  <2> QED
    BY <2>2, <1>9, <1>10
<1> QED
  BY <1>12, <1>13, Zenon

LEMMA HandCases ==
  ASSUME NEW h \in Hands
  PROVE  /\ h = <<>> \/ (h = <<h[1]>> /\ h[1] \in Numbers)
         /\ h \in Seq(Numbers)
         /\ \A n : Cnt(h, n) = IF h = <<n>> THEN 1 ELSE 0
         /\ \A n : <<n>> # <<>>
<1>0. \A n : <<n>> # <<>>
  OBVIOUS
<1>1. CASE h = <<>>
  BY <1>0, <1>1, CntEmpty, EmptySeq
<1>2. CASE h # <<>>
  <2>1. PICK m \in Numbers : h = <<m>>
    BY <1>2 DEF Hands
  <2>3. ASSUME NEW n PROVE Cnt(h, n) = IF h = <<n>> THEN 1 ELSE 0
    <3>1. CASE h = <<n>>
      <4>1. {i \in DOMAIN h : h[i] = n} = {1}
        BY <3>1
      <4> QED
        BY <3>1, <4>1, FS_Singleton DEF Cnt
    <3>2. CASE h # <<n>>
      <4>1. {i \in DOMAIN h : h[i] = n} = {}
        BY <2>1, <3>2
      <4> QED
        BY <3>2, <4>1, FS_EmptySet DEF Cnt
    <3> QED
      BY <3>1, <3>2
  <2>4. h = <<h[1]>> /\ h[1] \in Numbers /\ h \in Seq(Numbers)
    BY <2>1
  <2> QED
    BY <1>0, <2>3, <2>4
<1> QED
  BY <1>1, <1>2

LEMMA JoinHand ==
  ASSUME NEW q \in Seq(Numbers), NEW h \in Hands
  PROVE  /\ q \o h \in Seq(Numbers)
         /\ Len(q \o h) <= Len(q) + 1 /\ Len(q) \in Nat /\ Len(q \o h) \in Nat
         /\ \A n : Cnt(q \o h, n) = Cnt(q, n) + (IF h = <<n>> THEN 1 ELSE 0)
<1>0. Len(q) \in Nat /\ \A n : Cnt(q, n) \in Nat
  BY LenProperties, CntNat
<1>1. CASE h = <<>>
  <2>1. q \o h = q
    BY <1>1, ConcatEmptySeq
  <2>2. \A n : h # <<n>>
    BY <1>1
  <2> QED
    BY <1>0, <2>1, <2>2
<1>2. CASE h # <<>>
  <2>1. PICK m \in Numbers : h = <<m>>
    BY <1>2 DEF Hands
  <2>2. q \o h = Append(q, m)
    BY <2>1, AppendIsConcat
  <2>3. Append(q, m) \in Seq(Numbers) /\ Len(Append(q, m)) = Len(q) + 1
    BY AppendProperties
  <2>4. ASSUME NEW n
        PROVE  Cnt(q \o h, n) = Cnt(q, n) + (IF h = <<n>> THEN 1 ELSE 0)
    <3>1. Cnt(Append(q, m), n) = Cnt(q, n) + (IF m = n THEN 1 ELSE 0)
      BY CntAppend
    <3>2. m = n <=> h = <<n>>
      BY <2>1
    <3> QED
      BY <2>2, <3>1, <3>2
  <2> QED
    BY <1>0, <2>2, <2>3, <2>4
<1> QED
  BY <1>1, <1>2

\* One thread's hand changes, the other threads keep theirs.
LEMMA HoldMoves ==
  ASSUME NEW D, IsFiniteSet(D), NEW f, DOMAIN f = D, NEW g, DOMAIN g = D, NEW x \in D,
         \A y \in D \ {x} : g[y] = f[y], NEW n
  PROVE  \E c \in Nat : /\ Hold(f, n) = c + (IF f[x] = <<n>> THEN 1 ELSE 0)
                         /\ Hold(g, n) = c + (IF g[x] = <<n>> THEN 1 ELSE 0)
<1> DEFINE B == {y \in D \ {x} : f[y] = <<n>>}
           F == {y \in DOMAIN f : f[y] = <<n>>}
           G == {y \in DOMAIN g : g[y] = <<n>>}
<1>1. /\ f[x] = <<n>> => F = B \cup {x}
      /\ f[x] # <<n>> => F = B
  OBVIOUS
<1>2. /\ g[x] = <<n>> => G = B \cup {x}
      /\ g[x] # <<n>> => G = B
  OBVIOUS
<1>3. B \in SUBSET D /\ x \notin B
  OBVIOUS
<1>4. Hold(f, n) = Cardinality(F) /\ Hold(g, n) = Cardinality(G)
  BY DEF Hold
<1> HIDE DEF B, F, G
<1>5. IsFiniteSet(B)
  BY <1>3, FS_Subset
<1>6. Cardinality(B) \in Nat
  BY <1>5, FS_CardinalityType
<1>7. Cardinality(B \cup {x}) = Cardinality(B) + 1
  BY <1>3, <1>5, FS_AddElement
<1>8. /\ f[x] = <<n>> => Hold(f, n) = Cardinality(B) + 1
      /\ f[x] # <<n>> => Hold(f, n) = Cardinality(B)
      /\ g[x] = <<n>> => Hold(g, n) = Cardinality(B) + 1
      /\ g[x] # <<n>> => Hold(g, n) = Cardinality(B)
  BY <1>1, <1>2, <1>4, <1>7
<1> DEFINE k == Cardinality(B)
<1>9. /\ k \in Nat
      /\ Hold(f, n) = k + (IF f[x] = <<n>> THEN 1 ELSE 0)
      /\ Hold(g, n) = k + (IF g[x] = <<n>> THEN 1 ELSE 0)
  BY <1>6, <1>8
<1> HIDE DEF k
<1> QED
  BY <1>9

\* A thread takes a number into its empty hand, or puts down what it has.
LEMMA HoldTake ==
  ASSUME NEW D, IsFiniteSet(D), NEW f, DOMAIN f = D, NEW g, DOMAIN g = D, NEW x \in D,
         \A y \in D \ {x} : g[y] = f[y], NEW n, NEW m
  PROVE  f[x] = <<>> /\ g[x] = <<m>> => Hold(g, n) = Hold(f, n) + (IF m = n THEN 1 ELSE 0)
<1>1. PICK c \in Nat : /\ Hold(f, n) = c + (IF f[x] = <<n>> THEN 1 ELSE 0)
                       /\ Hold(g, n) = c + (IF g[x] = <<n>> THEN 1 ELSE 0)
  BY HoldMoves
<1> SUFFICES ASSUME f[x] = <<>>, g[x] = <<m>>
             PROVE  Hold(g, n) = Hold(f, n) + (IF m = n THEN 1 ELSE 0)
  OBVIOUS
<1>2. f[x] # <<n>> /\ (g[x] = <<n>> <=> m = n)
  OBVIOUS
<1> QED
  BY <1>1, <1>2

LEMMA HoldDrop ==
  ASSUME NEW D, IsFiniteSet(D), NEW f, DOMAIN f = D, NEW g, DOMAIN g = D, NEW x \in D,
         \A y \in D \ {x} : g[y] = f[y], g[x] = <<>>, NEW n
  PROVE  Hold(g, n) + (IF f[x] = <<n>> THEN 1 ELSE 0) = Hold(f, n)
<1>1. PICK c \in Nat : /\ Hold(f, n) = c + (IF f[x] = <<n>> THEN 1 ELSE 0)
                       /\ Hold(g, n) = c + (IF g[x] = <<n>> THEN 1 ELSE 0)
  BY HoldMoves
<1>2. g[x] # <<n>>
  OBVIOUS
<1> QED
  BY <1>1, <1>2

LEMMA HoldNat ==
  ASSUME NEW D, IsFiniteSet(D), NEW V, NEW f \in [D -> V], NEW n
  PROVE  Hold(f, n) \in Nat
<1>1. {x \in DOMAIN f : f[x] = <<n>>} \in SUBSET D
  OBVIOUS
<1> QED
  BY <1>1, FS_Subset, FS_CardinalityType DEF Hold

\* The queues, hands and program counters keep their types.
LEMMA PipeTypesStep == PipeTypes /\ HandsFree /\ [Next]_vars => PipeTypes'
<1> SUFFICES ASSUME PipeTypes, HandsFree, [Next]_vars PROVE PipeTypes'
  OBVIOUS
<1> USE DEF PipeTypes, vars, configVars, stopVars, submitVars, workerVars, reorderVars,
            consumeVars, workerFrame, faultFrame, consumeFrame, ownerFrame, Goes, WorkerPcs
<1>0. <<>> \in Hands /\ (\A n \in Numbers : <<n>> \in Hands) /\ MaxSubmits \in Nat
  BY PipelineAssumption DEF Hands
<1>a. ASSUME NEW q \in Seq(Numbers), q # <<>>
      PROVE  Head(q) \in Numbers /\ Tail(q) \in Seq(Numbers)
  BY <1>a, HeadTailProperties
<1>b. \A q \in Seq(Numbers) : \A h \in Hands : q \o h \in Seq(Numbers)
  BY JoinHand
<1>c. \A q \in Seq(Numbers) : \A n \in Numbers : Append(q, n) \in Seq(Numbers)
  BY AppendProperties
<1>1. ASSUME NEW s \in Submitters, Submit(s) PROVE PipeTypes'
  <2>1. nextSeq \in Numbers /\ nextSeq + 1 \in 0..MaxSubmits
    BY <1>0, <1>1 DEF Submit, Numbers
  <2> QED
    BY <1>0, <1>1, <2>1 DEF Submit
<1>2. ASSUME NEW s \in Submitters, Enqueue(s) PROVE PipeTypes'
  <2>1. workq \o sseq[s] \in Seq(Numbers)
    BY <1>b
  <2> QED
    BY <1>0, <1>2, <2>1 DEF Enqueue
<1>3. ASSUME NEW s \in Submitters, Refused(s) PROVE PipeTypes'
  BY <1>0, <1>3 DEF Refused
<1>4. ASSUME NEW w \in Workers, Top(w) PROVE PipeTypes'
  BY <1>0, <1>4 DEF Top
<1>5. ASSUME NEW w \in Workers, StartFails(w) PROVE PipeTypes'
  BY <1>5 DEF StartFails
<1>6. ASSUME NEW w \in Workers, Receive(w) PROVE PipeTypes'
  <2>1. Inbox(w) \in Seq(Numbers) /\ Inbox(w) # <<>>
    BY <1>6 DEF Inbox, Receive
  <2>2. Head(Inbox(w)) \in Numbers /\ Tail(Inbox(w)) \in Seq(Numbers)
    BY <1>a, <2>1
  <2> QED
    BY <1>0, <1>6, <2>2 DEF Receive, Inbox
<1>7. ASSUME NEW w \in Workers, ReceiveEnds(w) PROVE PipeTypes'
  BY <1>7 DEF ReceiveEnds
<1>8. ASSUME NEW w \in Workers, Peek(w) PROVE PipeTypes'
  BY <1>0, <1>8, <1>a DEF Peek
<1>9. ASSUME NEW w \in Workers, WorkFails(w) PROVE PipeTypes'
  BY <1>0, <1>9 DEF WorkFails
<1>10. ASSUME NEW w \in Workers, Deliver(w) PROVE PipeTypes'
  <2>1. sampleq \o wseq[w] \in Seq(Numbers) /\ resultq \o wseq[w] \in Seq(Numbers)
    BY <1>b
  <2> QED
    BY <1>0, <1>10, <2>1 DEF Deliver
<1>11. ASSUME NEW w \in Workers, DeliverEnds(w) PROVE PipeTypes'
  BY <1>0, <1>11 DEF DeliverEnds
<1>12. ASSUME NEW w \in Workers, Left(w) PROVE PipeTypes'
  BY <1>12 DEF Left, Record
<1>13. ASSUME NEW w \in Workers, RecordFault(w) PROVE PipeTypes'
  BY <1>13 DEF RecordFault, Record
<1>14. ASSUME NEW w \in Workers, WorkerStops(w) \/ WorkerTrips(w) PROVE PipeTypes'
  BY <1>14 DEF WorkerStops, WorkerTrips
<1>15. ASSUME NEW c \in Consumers, NEW try \in BOOLEAN, Call(c, try) PROVE PipeTypes'
  BY <1>15 DEF Call
<1>16. ASSUME NEW c \in Consumers, PopReady(c) PROVE PipeTypes'
  <2>1. ASSUME ordered, nextOut \in pending PROVE PipeTypes'
    <3>1. Append(delivered, nextOut) \in Seq(Numbers)
      BY <1>c, <2>1
    <3>2. /\ pending' = pending \ {nextOut} /\ nextOut' = nextOut + 1
          /\ delivered' = Append(delivered, nextOut)
          /\ cpc' = [cpc EXCEPT ![c] = "out"]
          /\ UNCHANGED <<mode, fault, nextSeq, workq, sampleq, resultq, spc, sseq, wpc, wseq,
                         ahead, hand, opc>>
      BY <1>16, <2>1, Zenon DEF PopReady, Returns
    <3> QED
      BY <3>1, <3>2
  <2>2. ASSUME ~(ordered /\ nextOut \in pending) PROVE PipeTypes'
    BY <1>16, <2>2 DEF PopReady
  <2> QED
    BY <2>1, <2>2, Zenon
<1>17. ASSUME NEW c \in Consumers, Take(c) PROVE PipeTypes'
  <2>1. Head(resultq) \in Numbers /\ Tail(resultq) \in Seq(Numbers)
    BY <1>17, <1>a DEF Take
  <2> QED
    BY <1>0, <1>17, <1>c, <2>1 DEF Take, Returns
<1>18. ASSUME NEW c \in Consumers, Insert(c) PROVE PipeTypes'
  <2>1. hand[c] # <<>>
    BY <1>18 DEF Insert, HandsFree
  <2>2. hand[c][1] \in Numbers
    BY <2>1, HandCases
  <2> QED
    BY <1>0, <1>18, <2>2 DEF Insert
<1>19. ASSUME NEW c \in Consumers,
              PollEmpty(c) \/ WaitEnds(c) \/ Timeout(c) \/ Outcome(c)
       PROVE  PipeTypes'
  BY <1>19 DEF PollEmpty, WaitEnds, Timeout, Outcome, Returns
<1>20. CASE RequestShutdown \/ OwnerStep
  BY <1>20 DEF RequestShutdown, OwnerStep, OwnerStops, OwnerTrips, Joined
<1>21. CASE UNCHANGED vars
  BY <1>21
<1> QED
  <2> HIDE DEF PipeTypes
  <2>1. ASSUME NEW s \in Submitters, Submit(s) \/ SubmitStep(s) PROVE PipeTypes'
    BY <1>1, <1>2, <1>3, <2>1 DEF SubmitStep
  <2>2. ASSUME NEW w \in Workers, WorkerStep(w) \/ StartFails(w) \/ WorkFails(w)
        PROVE  PipeTypes'
    BY <1>4, <1>5, <1>6, <1>7, <1>8, <1>9, <1>10, <1>11, <1>12, <1>13, <1>14, <2>2
    DEF WorkerStep
  <2>3. ASSUME NEW c \in Consumers, ConsumeStep(c) \/ Timeout(c) PROVE PipeTypes'
    BY <1>15, <1>16, <1>17, <1>18, <1>19, <2>3, Zenon DEF ConsumeStep
  <2> QED
    <3>1. \/ \E s \in Submitters : Submit(s) \/ SubmitStep(s)
          \/ \E w \in Workers : WorkerStep(w) \/ StartFails(w) \/ WorkFails(w)
          \/ \E c \in Consumers : ConsumeStep(c) \/ Timeout(c)
          \/ RequestShutdown \/ OwnerStep \/ UNCHANGED vars
      BY Zenon DEF Next
    <3> QED
      BY <1>20, <1>21, <2>1, <2>2, <2>3, <3>1, Zenon

LEMMA PipeFlagsStep == PipeFlags /\ [Next]_vars => PipeFlags'
<1> SUFFICES ASSUME PipeFlags, [Next]_vars PROVE PipeFlags'
  OBVIOUS
<1> USE DEF PipeFlags, vars, configVars, stopVars, submitVars, workerVars, reorderVars,
            consumeVars, workerFrame, faultFrame, consumeFrame, ownerFrame
<1>1. ASSUME NEW s \in Submitters, Submit(s) \/ SubmitStep(s) PROVE PipeFlags'
  BY <1>1, Zenon DEF Submit, SubmitStep, Enqueue, Refused
<1>2. ASSUME NEW w \in Workers, WorkerStep(w) \/ StartFails(w) \/ WorkFails(w)
      PROVE  PipeFlags'
  <2>1. ASSUME Top(w) \/ Receive(w) \/ ReceiveEnds(w) \/ Peek(w) \/ Deliver(w)
               \/ DeliverEnds(w) \/ StartFails(w) \/ WorkFails(w)
        PROVE  PipeFlags'
    BY <2>1, Zenon DEF Top, Receive, ReceiveEnds, Peek, Deliver, DeliverEnds, StartFails,
                       WorkFails
  <2>2. ASSUME Left(w) \/ RecordFault(w) \/ WorkerStops(w) \/ WorkerTrips(w)
        PROVE  PipeFlags'
    BY <2>2, Zenon DEF Left, RecordFault, WorkerStops, WorkerTrips
  <2> QED
    BY <1>2, <2>1, <2>2, Zenon DEF WorkerStep
<1>3. ASSUME NEW c \in Consumers, ConsumeStep(c) \/ Timeout(c) PROVE PipeFlags'
  <2>1. ASSUME NEW try \in BOOLEAN, Call(c, try) PROVE PipeFlags'
    BY <2>1, Zenon DEF Call
  <2>2. ASSUME PopReady(c) \/ Take(c) \/ Insert(c) \/ PollEmpty(c) PROVE PipeFlags'
    BY <2>2, Zenon DEF PopReady, Take, Insert, PollEmpty, Returns
  <2>3. ASSUME WaitEnds(c) \/ Outcome(c) \/ Timeout(c) PROVE PipeFlags'
    BY <2>3, Zenon DEF WaitEnds, Outcome, Timeout, Returns
  <2> QED
    BY <1>3, <2>1, <2>2, <2>3, Zenon DEF ConsumeStep
<1>4. CASE RequestShutdown \/ OwnerStep
  BY <1>4, Zenon DEF RequestShutdown, OwnerStep, OwnerStops, OwnerTrips, Joined
<1>5. CASE UNCHANGED vars
  BY <1>5, Zenon
<1> QED
  BY <1>1, <1>2, <1>3, <1>4, <1>5, Zenon DEF Next

\* The bounded queues keep their bounds.
LEMMA WithinStep == PipeTypes /\ Within /\ [Next]_vars => Within'
<1> SUFFICES ASSUME PipeTypes, Within, [Next]_vars PROVE Within'
  OBVIOUS
<1> USE DEF Within, vars, configVars, stopVars, submitVars, workerVars, reorderVars,
            consumeVars, workerFrame, faultFrame, consumeFrame, ownerFrame
<1>1. ASSUME NEW q \in Seq(Numbers), q # <<>> PROVE Len(Tail(q)) < Len(q)
  BY <1>1, HeadTailProperties
<1>2. workq \in Seq(Numbers) /\ sampleq \in Seq(Numbers) /\ resultq \in Seq(Numbers)
  BY DEF PipeTypes
<1>3. /\ Len(workq) \in Nat /\ Len(sampleq) \in Nat /\ Len(resultq) \in Nat
      /\ WorkCap \in Nat /\ SampleCap \in Nat /\ ResultCap \in Nat
  BY <1>2, LenProperties, PipelineAssumption
<1>4. ASSUME NEW s \in Submitters, Submit(s) \/ SubmitStep(s) PROVE Within'
  <2>1. ASSUME Enqueue(s) PROVE Within'
    <3>1. sseq[s] \in Hands
      BY DEF PipeTypes
    <3>2. Len(workq \o sseq[s]) <= Len(workq) + 1 /\ Len(workq \o sseq[s]) \in Nat
      BY <1>2, <3>1, JoinHand
    <3> QED
      BY <1>3, <2>1, <3>2 DEF Enqueue
  <2> QED
    BY <1>4, <2>1 DEF Submit, SubmitStep, Refused
<1>5. ASSUME NEW w \in Workers, WorkerStep(w) \/ StartFails(w) \/ WorkFails(w)
      PROVE  Within'
  <2>1. ASSUME Deliver(w) PROVE Within'
    <3>1. wseq[w] \in Hands
      BY DEF PipeTypes
    <3>2. /\ Len(sampleq \o wseq[w]) <= Len(sampleq) + 1 /\ Len(sampleq \o wseq[w]) \in Nat
          /\ Len(resultq \o wseq[w]) <= Len(resultq) + 1 /\ Len(resultq \o wseq[w]) \in Nat
      BY <1>2, <3>1, JoinHand
    <3> QED
      BY <1>3, <2>1, <3>2 DEF Deliver
  <2>2. ASSUME Receive(w) PROVE Within'
    <3>1. \/ workq # <<>> /\ workq' = Tail(workq) /\ UNCHANGED <<sampleq, resultq>>
          \/ sampleq # <<>> /\ sampleq' = Tail(sampleq) /\ UNCHANGED <<workq, resultq>>
      BY <2>2 DEF Receive, Inbox
    <3> QED
      BY <1>1, <1>2, <1>3, <3>1, LenProperties, HeadTailProperties
  <2>3. ASSUME Peek(w) PROVE Within'
    <3>1. \/ sampleq # <<>> /\ sampleq' = Tail(sampleq) /\ UNCHANGED <<workq, resultq>>
          \/ UNCHANGED <<workq, sampleq, resultq>>
      BY <2>3 DEF Peek
    <3> QED
      BY <1>1, <1>2, <1>3, <3>1, LenProperties, HeadTailProperties
  <2>4. ASSUME Top(w) \/ ReceiveEnds(w) \/ DeliverEnds(w) \/ StartFails(w) \/ WorkFails(w)
        PROVE  Within'
    BY <2>4 DEF Top, ReceiveEnds, DeliverEnds, StartFails, WorkFails
  <2>5. ASSUME Left(w) \/ RecordFault(w) \/ WorkerStops(w) \/ WorkerTrips(w) PROVE Within'
    BY <2>5 DEF Left, RecordFault, WorkerStops, WorkerTrips
  <2> QED
    BY <1>5, <2>1, <2>2, <2>3, <2>4, <2>5, Zenon DEF WorkerStep
<1>6. ASSUME NEW c \in Consumers, ConsumeStep(c) \/ Timeout(c) PROVE Within'
  <2>1. ASSUME Take(c) PROVE Within'
    <3>1. resultq # <<>> /\ resultq' = Tail(resultq) /\ UNCHANGED <<workq, sampleq>>
      BY <2>1 DEF Take
    <3> QED
      BY <1>1, <1>2, <1>3, <3>1, LenProperties, HeadTailProperties
  <2>2. ASSUME \/ \E try \in BOOLEAN : Call(c, try)
               \/ PopReady(c) \/ Insert(c) \/ PollEmpty(c)
        PROVE  Within'
    BY <2>2 DEF Call, PopReady, Insert, PollEmpty
  <2>3. ASSUME WaitEnds(c) \/ Outcome(c) \/ Timeout(c) PROVE Within'
    BY <2>3 DEF WaitEnds, Outcome, Timeout
  <2> QED
    BY <1>6, <2>1, <2>2, <2>3, Zenon DEF ConsumeStep
<1>7. CASE RequestShutdown \/ OwnerStep \/ UNCHANGED vars
  BY <1>7 DEF RequestShutdown, OwnerStep, OwnerStops, OwnerTrips, Joined
<1> QED
  BY <1>4, <1>5, <1>6, <1>7, Zenon DEF Next

\* Whoever takes a number has empty hands, whoever passes one on has one.
LEMMA HandsFreeStep == PipeTypes /\ HandsFree /\ [Next]_vars => HandsFree'
<1> SUFFICES ASSUME PipeTypes, HandsFree, [Next]_vars PROVE HandsFree'
  OBVIOUS
<1> USE DEF HandsFree, vars, configVars, stopVars, submitVars, workerVars, reorderVars,
            consumeVars, workerFrame, faultFrame, consumeFrame, ownerFrame, Goes
<1>0. \A n : <<n>> # <<>>
  OBVIOUS
<1>1. /\ spc \in [Submitters -> {"out", "send"}] /\ DOMAIN sseq = Submitters
      /\ wpc \in [Workers -> WorkerPcs] /\ DOMAIN wseq = Workers /\ Loader \in Workers
      /\ DOMAIN cpc = Consumers /\ DOMAIN hand = Consumers
  BY DEF PipeTypes, Workers
<1>2. ASSUME NEW s \in Submitters, Submit(s) \/ SubmitStep(s) PROVE HandsFree'
  <2>1. ASSUME Submit(s) PROVE HandsFree'
    BY <1>0, <1>1, <2>1 DEF Submit
  <2>2. ASSUME Enqueue(s) \/ Refused(s) PROVE HandsFree'
    <3>1. /\ sseq' = [sseq EXCEPT ![s] = <<>>] /\ spc' = [spc EXCEPT ![s] = "out"]
          /\ UNCHANGED <<wpc, wseq, ahead, cpc, hand>>
      BY <2>2, Zenon DEF Enqueue, Refused
    <3> QED
      BY <1>1, <3>1
  <2> QED
    BY <1>2, <2>1, <2>2, Zenon DEF SubmitStep
<1>3. ASSUME NEW w \in Workers, WorkerStep(w) \/ StartFails(w) \/ WorkFails(w)
      PROVE  HandsFree'
  <2>1. ASSUME Top(w) PROVE HandsFree'
    BY <1>1, <2>1 DEF Top
  <2>2. ASSUME Receive(w) PROVE HandsFree'
    BY <1>0, <1>1, <2>2 DEF Receive
  <2>3. ASSUME Peek(w) PROVE HandsFree'
    BY <1>1, <2>3 DEF Peek
  <2>4. ASSUME Deliver(w) PROVE HandsFree'
    BY <1>1, <2>4 DEF Deliver
  <2>5. ASSUME ReceiveEnds(w) \/ DeliverEnds(w) \/ StartFails(w) \/ WorkFails(w)
        PROVE  HandsFree'
    BY <1>1, <2>5 DEF ReceiveEnds, DeliverEnds, StartFails, WorkFails
  <2>6. ASSUME Left(w) \/ RecordFault(w) \/ WorkerStops(w) \/ WorkerTrips(w)
        PROVE  HandsFree'
    <3>1. PICK to \in {"done", "stop", "trip"} :
            /\ wpc[w] \in {"left", "failed", "stop", "trip"}
            /\ wpc' = [wpc EXCEPT ![w] = to]
            /\ UNCHANGED <<spc, sseq, wseq, ahead, cpc, hand>>
      BY <2>6, Zenon DEF Left, RecordFault, WorkerStops, WorkerTrips
    <3> QED
      BY <1>1, <3>1
  <2> QED
    BY <1>3, <2>1, <2>2, <2>3, <2>4, <2>5, <2>6, Zenon DEF WorkerStep
<1>4. ASSUME NEW c \in Consumers, ConsumeStep(c) \/ Timeout(c) PROVE HandsFree'
  <2>1. ASSUME Take(c) PROVE HandsFree'
    <3>1. ASSUME ordered PROVE HandsFree'
      <4>1. /\ cpc[c] \in {"poll", "wait"}
            /\ hand' = [hand EXCEPT ![c] = <<Head(resultq)>>]
            /\ cpc' = [cpc EXCEPT ![c] = "insert"]
            /\ UNCHANGED <<spc, sseq, wpc, wseq, ahead>>
        BY <2>1, <3>1, Zenon DEF Take
      <4> QED
        BY <1>0, <1>1, <4>1
    <3>2. ASSUME ~ordered PROVE HandsFree'
      <4>1. /\ cpc[c] \in {"poll", "wait"}
            /\ cpc' = [cpc EXCEPT ![c] = "out"]
            /\ UNCHANGED <<hand, spc, sseq, wpc, wseq, ahead>>
        BY <2>1, <3>2, Zenon DEF Take, Returns
      <4> QED
        BY <1>1, <4>1
    <3> QED
      BY <3>1, <3>2, Zenon
  <2>2. ASSUME Insert(c) PROVE HandsFree'
    BY <1>1, <2>2 DEF Insert
  <2>3. ASSUME \/ \E try \in BOOLEAN : Call(c, try)
               \/ PopReady(c) \/ PollEmpty(c) \/ WaitEnds(c) \/ Outcome(c) \/ Timeout(c)
        PROVE  HandsFree'
    <3>1. PICK to \in {"out", "pop", "poll", "wait", "outcome"} :
            /\ cpc[c] \in {"out", "pop", "poll", "wait", "outcome"}
            /\ cpc' = [cpc EXCEPT ![c] = to]
            /\ UNCHANGED <<spc, sseq, wpc, wseq, ahead, hand>>
      BY <2>3, Zenon DEF Call, PopReady, PollEmpty, WaitEnds, Outcome, Timeout, Returns
    <3> QED
      BY <1>1, <3>1
  <2> QED
    BY <1>4, <2>1, <2>2, <2>3, Zenon DEF ConsumeStep
<1>5. CASE RequestShutdown \/ OwnerStep \/ UNCHANGED vars
  BY <1>5 DEF RequestShutdown, OwnerStep, OwnerStops, OwnerTrips, Joined
<1> QED
  BY <1>2, <1>3, <1>4, <1>5, Zenon DEF Next

\* The flag of a stop is only ever set.
LEMMA StoppedStays == [Next]_vars => stopped' = stopped \/ stopped' = TRUE
<1> SUFFICES ASSUME [Next]_vars PROVE stopped' = stopped \/ stopped' = TRUE
  BY Zenon
<1> USE DEF vars, configVars, stopVars, submitVars, workerVars, reorderVars,
            consumeVars, workerFrame, faultFrame, consumeFrame, ownerFrame
<1>1. ASSUME NEW s \in Submitters, Submit(s) \/ SubmitStep(s) PROVE stopped' = stopped
  BY <1>1, Zenon DEF Submit, SubmitStep, Enqueue, Refused
<1>2. ASSUME NEW w \in Workers, WorkerStep(w) \/ StartFails(w) \/ WorkFails(w)
      PROVE  stopped' = stopped \/ stopped' = TRUE
  <2>1. ASSUME Top(w) \/ Receive(w) \/ ReceiveEnds(w) \/ Peek(w) \/ Deliver(w)
               \/ DeliverEnds(w) \/ StartFails(w) \/ WorkFails(w)
        PROVE  stopped' = stopped
    BY <2>1, Zenon DEF Top, Receive, ReceiveEnds, Peek, Deliver, DeliverEnds, StartFails,
                       WorkFails
  <2>2. ASSUME Left(w) \/ RecordFault(w) \/ WorkerStops(w) \/ WorkerTrips(w)
        PROVE  stopped' = stopped \/ stopped' = TRUE
    BY <2>2, Zenon DEF Left, RecordFault, WorkerStops, WorkerTrips
  <2> QED
    BY <1>2, <2>1, <2>2, Zenon DEF WorkerStep
<1>3. ASSUME NEW c \in Consumers, ConsumeStep(c) \/ Timeout(c) PROVE stopped' = stopped
  BY <1>3, Zenon DEF ConsumeStep, Call, PopReady, Take, Insert, PollEmpty, WaitEnds, Outcome,
                     Timeout
<1>4. CASE RequestShutdown \/ OwnerStep
  BY <1>4, Zenon DEF RequestShutdown, OwnerStep, OwnerStops, OwnerTrips, Joined
<1>5. CASE UNCHANGED vars
  BY <1>5, Zenon
<1> QED
  BY <1>1, <1>2, <1>3, <1>4, <1>5, Zenon DEF Next

\* Whoever stops the loader has its reason on record.
LEMMA StopStep == PipeTypes /\ StopOK /\ [Next]_vars => StopOK'
<1> SUFFICES ASSUME PipeTypes, StopOK, [Next]_vars PROVE StopOK'
  OBVIOUS
<1> USE DEF vars, configVars, stopVars, submitVars, workerVars, reorderVars,
            consumeVars, workerFrame, faultFrame, consumeFrame, ownerFrame, Goes
<1> DEFINE Same == UNCHANGED <<stopped, shutdown, tripped>>
<1>1. DOMAIN wpc = Workers /\ DOMAIN cpc = Consumers
  BY DEF PipeTypes
<1>2. ASSUME NEW s \in Submitters, Submit(s) \/ SubmitStep(s) PROVE StopOK'
  <2>1. Same /\ UNCHANGED <<fault, wpc, cpc, opc>>
    BY <1>2, Zenon DEF Submit, SubmitStep, Enqueue, Refused
  <2> QED
    BY <2>1 DEF StopOK
<1>3. ASSUME NEW w \in Workers, WorkerStep(w) \/ StartFails(w) \/ WorkFails(w)
      PROVE  StopOK'
  <2>1. ASSUME Top(w) \/ Receive(w) \/ ReceiveEnds(w) \/ Peek(w) \/ Deliver(w)
               \/ DeliverEnds(w) \/ StartFails(w) \/ WorkFails(w)
        PROVE  StopOK'
    <3>1. /\ Same /\ UNCHANGED <<fault, cpc, opc>>
          /\ \E to \in {"peek", "left", "select", "work", "top", "failed"} :
               wpc' = [wpc EXCEPT ![w] = to]
      BY <2>1, Zenon DEF Top, Receive, ReceiveEnds, Peek, Deliver, DeliverEnds, StartFails,
                         WorkFails
    <3> QED
      BY <1>1, <3>1 DEF StopOK
  <2>2. ASSUME Left(w) PROVE StopOK'
    <3>1. Same /\ UNCHANGED <<cpc, opc>>
      BY <2>2, Zenon DEF Left
    <3>2. \/ wpc' = [wpc EXCEPT ![w] = "done"] /\ fault' = fault
          \/ /\ wpc' = [wpc EXCEPT ![w] = "stop"]
             /\ fault' = IF fault = "none" THEN "early" ELSE fault
      BY <2>2, Zenon DEF Left, Record
    <3> QED
      BY <1>1, <3>1, <3>2 DEF StopOK
  <2>3. ASSUME RecordFault(w) PROVE StopOK'
    <3>1. Same /\ UNCHANGED <<cpc, opc>>
      BY <2>3, Zenon DEF RecordFault
    <3>2. /\ wpc' = [wpc EXCEPT ![w] = "stop"]
          /\ fault' = IF fault = "none" THEN "own" ELSE fault
      BY <2>3, Zenon DEF RecordFault, Record
    <3> QED
      BY <1>1, <3>1, <3>2 DEF StopOK
  <2>4. ASSUME WorkerStops(w) PROVE StopOK'
    <3>1. stopped' /\ (shutdown' = shutdown) /\ (tripped' = tripped)
          /\ UNCHANGED <<fault, cpc, opc>>
      BY <2>4, Zenon DEF WorkerStops
    <3>2. wpc[w] = "stop" /\ wpc' = [wpc EXCEPT ![w] = "trip"]
      BY <2>4, Zenon DEF WorkerStops
    <3> QED
      BY <1>1, <3>1, <3>2 DEF StopOK
  <2>5. ASSUME WorkerTrips(w) PROVE StopOK'
    <3>1. (stopped' = stopped) /\ (shutdown' = shutdown) /\ UNCHANGED <<fault, cpc, opc>>
      BY <2>5, Zenon DEF WorkerTrips
    <3>2. wpc[w] = "trip" /\ wpc' = [wpc EXCEPT ![w] = "done"]
      BY <2>5, Zenon DEF WorkerTrips
    <3> QED
      BY <1>1, <3>1, <3>2 DEF StopOK
  <2> QED
    BY <1>3, <2>1, <2>2, <2>3, <2>4, <2>5, Zenon DEF WorkerStep
<1>4. ASSUME NEW c \in Consumers, ConsumeStep(c) \/ Timeout(c) PROVE StopOK'
  <2> DEFINE Other == \E to \in {"out", "pop", "poll", "wait", "insert"} :
                        cpc' = [cpc EXCEPT ![c] = to]
             Told == cpc' = [cpc EXCEPT ![c] = "outcome"] /\ (stopped \/ tripped)
  <2>1. Same /\ UNCHANGED <<fault, wpc, opc>> /\ (Other \/ Told)
    <3>1. ASSUME NEW try \in BOOLEAN, Call(c, try) PROVE Same /\ UNCHANGED <<fault, wpc, opc>> /\ (Other \/ Told)
      <4>1. CASE stopped
        BY <3>1, <4>1, Zenon DEF Call
      <4>2. CASE ~stopped
        BY <3>1, <4>2, Zenon DEF Call
      <4> QED
        BY <4>1, <4>2, Zenon
    <3>2. ASSUME PopReady(c) \/ Take(c) \/ Insert(c) \/ PollEmpty(c) PROVE Same /\ UNCHANGED <<fault, wpc, opc>> /\ (Other \/ Told)
      BY <3>2, Zenon DEF PopReady, Take, Insert, PollEmpty, Returns
    <3>3. ASSUME Outcome(c) \/ Timeout(c) PROVE Same /\ UNCHANGED <<fault, wpc, opc>> /\ (Other \/ Told)
      BY <3>3, Zenon DEF Outcome, Timeout, Returns
    <3>4. ASSUME WaitEnds(c) PROVE Same /\ UNCHANGED <<fault, wpc, opc>> /\ (Other \/ Told)
      <4>1. Same /\ UNCHANGED <<fault, wpc, opc>>
        BY <3>4, Zenon DEF WaitEnds
      <4>2. cpc' = [cpc EXCEPT ![c] = "outcome"] /\ tripped
        BY <3>4, Zenon DEF WaitEnds
      <4>3. Told
        BY <4>2, Zenon
      <4> QED
        BY <4>1, <4>3, Zenon
    <3> QED
      BY <1>4, <3>1, <3>2, <3>3, <3>4, Zenon DEF ConsumeStep
  <2> QED
    BY <1>1, <2>1 DEF StopOK
<1>5. CASE RequestShutdown
  <2>1. (stopped' = stopped) /\ shutdown' /\ (tripped' = tripped)
        /\ opc' = "stop" /\ UNCHANGED <<fault, wpc, cpc>>
    BY <1>5, Zenon DEF RequestShutdown
  <2> QED
    BY <2>1 DEF StopOK
<1>6. CASE OwnerStops
  <2>1. stopped' /\ (shutdown' = shutdown) /\ (tripped' = tripped)
        /\ opc = "stop" /\ opc' = "trip" /\ UNCHANGED <<fault, wpc, cpc>>
    BY <1>6, Zenon DEF OwnerStops
  <2> QED
    BY <2>1 DEF StopOK
<1>7. CASE OwnerTrips
  <2>1. (stopped' = stopped) /\ (shutdown' = shutdown)
        /\ opc = "trip" /\ opc' = "join" /\ UNCHANGED <<fault, wpc, cpc>>
    BY <1>7, Zenon DEF OwnerTrips
  <2> QED
    BY <2>1 DEF StopOK
<1>8. CASE Joined
  <2>1. Same /\ opc' = "down" /\ UNCHANGED <<fault, wpc, cpc>>
    BY <1>8, Zenon DEF Joined
  <2> QED
    BY <2>1 DEF StopOK
<1>9. CASE UNCHANGED vars
  <2>1. Same /\ UNCHANGED <<fault, wpc, cpc, opc>>
    BY <1>9, Zenon
  <2> QED
    BY <2>1 DEF StopOK
<1> QED
  BY <1>2, <1>3, <1>4, <1>5, <1>6, <1>7, <1>8, <1>9, Zenon DEF Next, OwnerStep

\* A failure or a stop is not taken back.
LEMMA CalmWas == PipeTypes /\ [Next]_vars /\ Calm' => Calm
<1> SUFFICES ASSUME PipeTypes, [Next]_vars, Calm' PROVE Calm
  OBVIOUS
<1> USE DEF vars, configVars, stopVars, submitVars, workerVars, reorderVars,
            consumeVars, workerFrame, faultFrame, consumeFrame, ownerFrame, Goes
<1>1. ~stopped /\ ~stopped' /\ \A w \in Workers : wpc'[w] \notin {"failed", "stop"}
  BY StoppedStays DEF Calm
<1>2. SUFFICES \A w \in Workers : wpc[w] \notin {"failed", "stop"}
  BY <1>1 DEF Calm
<1>3. DOMAIN wpc = Workers
  BY DEF PipeTypes
<1> DEFINE Kept == \A w \in Workers : wpc[w] \notin {"failed", "stop"}
<1>4. ASSUME NEW w \in Workers, WorkerStep(w) \/ StartFails(w) \/ WorkFails(w) PROVE Kept
  <2>1. ASSUME RecordFault(w) \/ WorkerStops(w) PROVE FALSE
    <3>1. wpc'[w] = "stop" \/ stopped'
      BY <1>3, <2>1 DEF RecordFault, WorkerStops
    <3> QED
      BY <1>1, <3>1
  <2>2. ASSUME Top(w) \/ Receive(w) \/ ReceiveEnds(w) \/ Peek(w) \/ Deliver(w)
               \/ DeliverEnds(w) \/ StartFails(w) \/ WorkFails(w) \/ Left(w) \/ WorkerTrips(w)
        PROVE  Kept
    <3>1. /\ wpc[w] \notin {"failed", "stop"}
          /\ \A v \in Workers \ {w} : wpc'[v] = wpc[v]
      BY <1>3, <2>2 DEF Top, Receive, ReceiveEnds, Peek, Deliver, DeliverEnds, StartFails,
                        WorkFails, Left, WorkerTrips
    <3> QED
      BY <1>1, <3>1
  <2> QED
    BY <1>4, <2>1, <2>2, Zenon DEF WorkerStep
<1>5. ASSUME \A w \in Workers : ~WorkerStep(w) /\ ~StartFails(w) /\ ~WorkFails(w) PROVE Kept
  <2>1. wpc' = wpc
    BY <1>5, Zenon DEF Next, Submit, SubmitStep, Enqueue, Refused, ConsumeStep, Call, PopReady,
       Take, Insert, PollEmpty, WaitEnds, Outcome, Timeout, RequestShutdown, OwnerStep,
       OwnerStops, OwnerTrips, Joined
  <2> QED
    BY <1>1, <2>1
<1> QED
  BY <1>4, <1>5, Zenon

\* As long as nothing has failed and nobody stops it, every thread works on.
LEMMA AtWorkStep ==
  PipeTypes /\ StopOK /\ AllAtWork /\ [Next]_vars => AllAtWork'
<1> SUFFICES ASSUME PipeTypes, StopOK, AllAtWork, [Next]_vars, Calm'
             PROVE  \A w \in Workers : Ended(w)' => w = Loader /\ mode' = "pool"
  BY DEF AllAtWork
<1> USE DEF vars, configVars, stopVars, submitVars, workerVars, reorderVars,
            consumeVars, workerFrame, faultFrame, consumeFrame, ownerFrame, Goes
<1>1. Calm /\ ~stopped /\ ~tripped
  BY CalmWas DEF Calm, StopOK
<1>2. \A w \in Workers : Ended(w) => w = Loader /\ mode = "pool"
  BY <1>1 DEF AllAtWork
<1>3. DOMAIN wpc = Workers /\ Samplers \subseteq Workers /\ Loader \notin Samplers
      /\ \E w \in Samplers : TRUE
  BY PipelineAssumption DEF PipeTypes, Workers
<1>4. \A w \in Workers : wpc'[w] \notin {"failed", "stop"} /\ wpc[w] # "trip"
  BY <1>1 DEF Calm, StopOK
<1> DEFINE Kept == \A w \in Workers : Ended(w)' => w = Loader /\ mode' = "pool"
<1>5. ASSUME NEW w \in Workers, WorkerStep(w) \/ StartFails(w) \/ WorkFails(w) PROVE Kept
  <2>1. ASSUME ReceiveEnds(w) PROVE FALSE
    <3>1. \A s \in Samplers : Ended(s)
      BY <1>1, <2>1 DEF ReceiveEnds, InboxClosed
    <3> QED
      BY <1>2, <1>3, <3>1
  <2>2. ASSUME DeliverEnds(w) PROVE FALSE
    <3>1. mode = "features" /\ Ended(Loader) /\ Loader \in Workers
      BY <1>1, <2>2 DEF DeliverEnds, OutboxClosed, FeedsLoader, Workers
    <3> QED
      BY <1>2, <3>1
  <2>3. ASSUME StartFails(w) \/ WorkFails(w) \/ RecordFault(w) PROVE FALSE
    <3>1. wpc'[w] \in {"failed", "stop"}
      BY <1>3, <2>3 DEF StartFails, WorkFails, RecordFault
    <3> QED
      BY <1>4, <3>1
  <2>4. ASSUME Left(w) \/ WorkerStops(w) \/ WorkerTrips(w) PROVE FALSE
    <3>1. wpc[w] # "trip" /\ ~stopped'
      BY <1>4 DEF Calm
    <3>2. ASSUME Left(w) PROVE wpc' = [wpc EXCEPT ![w] = "stop"]
      BY <1>1, <3>2, Zenon DEF Left
    <3>3. ~Left(w)
      BY <1>3, <1>4, <3>2
    <3>4. ~WorkerStops(w)
      BY <3>1, Zenon DEF WorkerStops
    <3>5. ~WorkerTrips(w)
      BY <3>1, Zenon DEF WorkerTrips
    <3> QED
      BY <2>4, <3>3, <3>4, <3>5, Zenon
  <2>5. ASSUME Top(w) \/ Receive(w) \/ Peek(w) \/ Deliver(w) PROVE Kept
    <3>1. PICK to \in {"peek", "select", "work", "top"} :
            wpc' = [wpc EXCEPT ![w] = to] /\ mode' = mode
      BY <1>1, <2>5, Zenon DEF Top, Receive, Peek, Deliver
    <3> QED
      BY <1>2, <1>3, <3>1 DEF Ended
  <2> QED
    BY <1>5, <2>1, <2>2, <2>3, <2>4, <2>5, Zenon DEF WorkerStep
<1>6. ASSUME \A w \in Workers : ~WorkerStep(w) /\ ~StartFails(w) /\ ~WorkFails(w) PROVE Kept
  <2>1. wpc' = wpc /\ mode' = mode
    BY <1>6, Zenon DEF Next, Submit, SubmitStep, Enqueue, Refused, ConsumeStep, Call, PopReady,
       Take, Insert, PollEmpty, WaitEnds, Outcome, Timeout, RequestShutdown, OwnerStep,
       OwnerStops, OwnerTrips, Joined
  <2> QED
    BY <1>2, <2>1 DEF Ended
<1> QED
  BY <1>5, <1>6, Zenon

\* How often the number is in a queue or the output, and in a thread's hand.
Stored(n) == Cnt(workq, n) + Cnt(sampleq, n) + Cnt(resultq, n) + Cnt(ahead, n)
             + Cnt(delivered, n) + (IF n \in pending THEN 1 ELSE 0)
Held(n) == Hold(sseq, n) + Hold(wseq, n) + Hold(hand, n)

LEMMA CopiesNow ==
  ASSUME PipeTypes
  PROVE  \A n : /\ Cnt(workq, n) \in Nat /\ Cnt(sampleq, n) \in Nat
                /\ Cnt(resultq, n) \in Nat /\ Cnt(ahead, n) \in Nat
                /\ Cnt(delivered, n) \in Nat
                /\ Hold(sseq, n) \in Nat /\ Hold(wseq, n) \in Nat /\ Hold(hand, n) \in Nat
                /\ Copies(n) = Stored(n) + Held(n)
<1>1. ahead \in Seq(Numbers)
  BY HandCases DEF PipeTypes
<1>2. /\ IsFiniteSet(Submitters) /\ IsFiniteSet(Workers) /\ IsFiniteSet(Consumers)
  <2>1. IsFiniteSet(Samplers \cup {Loader})
    BY PipelineAssumption, FS_AddElement
  <2> QED
    BY <2>1, PipelineAssumption DEF Workers
<1> SUFFICES ASSUME NEW n
             PROVE  /\ Cnt(workq, n) \in Nat /\ Cnt(sampleq, n) \in Nat
                    /\ Cnt(resultq, n) \in Nat /\ Cnt(ahead, n) \in Nat
                    /\ Cnt(delivered, n) \in Nat
                    /\ Hold(sseq, n) \in Nat /\ Hold(wseq, n) \in Nat /\ Hold(hand, n) \in Nat
                    /\ Copies(n) = Stored(n) + Held(n)
  OBVIOUS
<1>3. /\ Cnt(workq, n) \in Nat /\ Cnt(sampleq, n) \in Nat /\ Cnt(resultq, n) \in Nat
      /\ Cnt(ahead, n) \in Nat /\ Cnt(delivered, n) \in Nat
  BY <1>1, CntNat DEF PipeTypes
<1>4. Hold(sseq, n) \in Nat /\ Hold(wseq, n) \in Nat /\ Hold(hand, n) \in Nat
  BY <1>2, HoldNat DEF PipeTypes
<1>5. Copies(n) = Cnt(workq, n) + Cnt(sampleq, n) + Cnt(resultq, n) + Cnt(ahead, n)
           + Cnt(delivered, n) + Hold(sseq, n) + Hold(wseq, n) + Hold(hand, n)
           + (IF n \in pending THEN 1 ELSE 0)
  BY DEF Copies, Cnt, Hold
<1> QED
  BY <1>3, <1>4, <1>5 DEF Stored, Held

LEMMA CopiesAre ==
  ASSUME PipeTypes, PipeTypes'
  PROVE  /\ \A n : /\ Cnt(workq, n) \in Nat /\ Cnt(sampleq, n) \in Nat
                   /\ Cnt(resultq, n) \in Nat /\ Cnt(ahead, n) \in Nat
                   /\ Cnt(delivered, n) \in Nat
                   /\ Hold(sseq, n) \in Nat /\ Hold(wseq, n) \in Nat /\ Hold(hand, n) \in Nat
         /\ \A n : /\ Cnt(workq', n) \in Nat /\ Cnt(sampleq', n) \in Nat
                   /\ Cnt(resultq', n) \in Nat /\ Cnt(ahead', n) \in Nat
                   /\ Cnt(delivered', n) \in Nat
                   /\ Hold(sseq', n) \in Nat /\ Hold(wseq', n) \in Nat
                   /\ Hold(hand', n) \in Nat
         /\ \A n : Copies(n) = Stored(n) + Held(n) /\ Copies(n)' = Stored(n)' + Held(n)'
<1>1. /\ ahead \in Seq(Numbers) /\ ahead' \in Seq(Numbers)
  BY HandCases DEF PipeTypes
<1>2. /\ IsFiniteSet(Submitters) /\ IsFiniteSet(Workers) /\ IsFiniteSet(Consumers)
  <2>1. IsFiniteSet(Samplers \cup {Loader})
    BY PipelineAssumption, FS_AddElement
  <2> QED
    BY <2>1, PipelineAssumption DEF Workers
<1>3. ASSUME NEW n
      PROVE  /\ Cnt(workq, n) \in Nat /\ Cnt(sampleq, n) \in Nat /\ Cnt(resultq, n) \in Nat
             /\ Cnt(ahead, n) \in Nat /\ Cnt(delivered, n) \in Nat
             /\ Cnt(workq', n) \in Nat /\ Cnt(sampleq', n) \in Nat /\ Cnt(resultq', n) \in Nat
             /\ Cnt(ahead', n) \in Nat /\ Cnt(delivered', n) \in Nat
  BY <1>1, CntNat DEF PipeTypes
<1>4. ASSUME NEW n
      PROVE  /\ Hold(sseq, n) \in Nat /\ Hold(wseq, n) \in Nat /\ Hold(hand, n) \in Nat
             /\ Hold(sseq', n) \in Nat /\ Hold(wseq', n) \in Nat /\ Hold(hand', n) \in Nat
  BY <1>2, HoldNat DEF PipeTypes
<1>5. ASSUME NEW n
      PROVE  Copies(n) = Stored(n) + Held(n) /\ Copies(n)' = Stored(n)' + Held(n)'
  <2>1. /\ Copies(n) = Cnt(workq, n) + Cnt(sampleq, n) + Cnt(resultq, n) + Cnt(ahead, n)
             + Cnt(delivered, n) + Hold(sseq, n) + Hold(wseq, n) + Hold(hand, n)
             + (IF n \in pending THEN 1 ELSE 0)
        /\ Copies(n)' = Cnt(workq', n) + Cnt(sampleq', n) + Cnt(resultq', n) + Cnt(ahead', n)
             + Cnt(delivered', n) + Hold(sseq', n) + Hold(wseq', n) + Hold(hand', n)
             + (IF n \in pending' THEN 1 ELSE 0)
    BY DEF Copies, Cnt, Hold
  <2> QED
    BY <1>3, <1>4, <2>1 DEF Stored, Held
<1> QED
  BY <1>3, <1>4, <1>5

\* What a step may do to the copies of the numbers.
SameCopies == /\ \A n \in Numbers : Copies(n)' = Copies(n)
              /\ nextSeq' = nextSeq
LostCopies == /\ \A n \in Numbers : Copies(n)' <= Copies(n) /\ Copies(n)' \in Nat
              /\ nextSeq' = nextSeq /\ ~Calm'
NewCopy == /\ \A n \in Numbers : Copies(n)' = Copies(n) + (IF n = nextSeq THEN 1 ELSE 0)
           /\ nextSeq' = nextSeq + 1

LEMMA SubmitCopies ==
  ASSUME PipeTypes, PipeTypes', HandsFree, StopOK, AllAtWork, NEW s \in Submitters,
         Submit(s) \/ SubmitStep(s)
  PROVE  SameCopies \/ LostCopies \/ NewCopy
<1> USE DEF configVars, stopVars, workerVars, reorderVars, consumeVars
<1>1. /\ IsFiniteSet(Submitters)
      /\ DOMAIN sseq = Submitters /\ DOMAIN sseq' = Submitters
  BY PipelineAssumption DEF PipeTypes
<1>3. ASSUME Submit(s) PROVE NewCopy
  <2>1. /\ sseq[s] = <<>> /\ sseq'[s] = <<nextSeq>> /\ nextSeq' = nextSeq + 1
        /\ \A y \in Submitters \ {s} : sseq'[y] = sseq[y]
        /\ UNCHANGED <<workq, sampleq, resultq, ahead, delivered, pending, wseq, hand>>
    BY <1>1, <1>3 DEF Submit, HandsFree
  <2>2. ASSUME NEW n \in Numbers
        PROVE  Copies(n)' = Copies(n) + (IF n = nextSeq THEN 1 ELSE 0)
    <3> DEFINE b == IF nextSeq = n THEN 1 ELSE 0
    <3>1. Hold(sseq', n) = Hold(sseq, n) + b
      BY <1>1, <2>1, HoldTake
    <3>2. b \in Nat /\ b = IF n = nextSeq THEN 1 ELSE 0
      OBVIOUS
    <3> HIDE DEF b
    <3>3. Stored(n)' = Stored(n)
      BY <2>1 DEF Stored
    <3>6. Held(n)' = Held(n) + b
      <4>1. Held(n)' = Hold(sseq', n) + Hold(wseq, n) + Hold(hand, n)
        BY <2>1 DEF Held
      <4> QED
        BY <3>1, <3>2, <4>1, CopiesAre DEF Held
    <3>4. Stored(n) \in Nat /\ Held(n) \in Nat
      BY CopiesAre DEF Stored, Held
    <3>5. Copies(n)' = Copies(n) + b
      BY <3>2, <3>3, <3>6, <3>4, CopiesAre
    <3> QED
      BY <3>2, <3>5
  <2> QED
    BY <2>1, <2>2 DEF NewCopy
<1>4. ASSUME Enqueue(s) PROVE SameCopies
  <2>1. /\ workq' = workq \o sseq[s] /\ sseq'[s] = <<>>
        /\ \A y \in Submitters \ {s} : sseq'[y] = sseq[y]
        /\ UNCHANGED <<nextSeq, sampleq, resultq, ahead, delivered, pending, wseq, hand>>
    BY <1>1, <1>4 DEF Enqueue
  <2>2. ASSUME NEW n \in Numbers PROVE Copies(n)' = Copies(n)
    <3> DEFINE b == IF sseq[s] = <<n>> THEN 1 ELSE 0
    <3>1. Hold(sseq', n) + b = Hold(sseq, n)
      <4>1. sseq'[s] = <<>> /\ \A y \in Submitters \ {s} : sseq'[y] = sseq[y]
        BY <2>1
      <4> QED
        BY <1>1, <4>1, HoldDrop
    <3>2. Cnt(workq \o sseq[s], n) = Cnt(workq, n) + b
      <4>1. workq \in Seq(Numbers) /\ sseq[s] \in Hands
        BY DEF PipeTypes
      <4> QED
        BY <4>1, JoinHand
    <3>4. b \in Nat
      OBVIOUS
    <3> HIDE DEF b
    <3>3. Stored(n)' + Held(n)' = Stored(n) + Held(n)
      <4>1. /\ Stored(n)' = Cnt(workq', n) + Cnt(sampleq, n) + Cnt(resultq, n) + Cnt(ahead, n)
                            + Cnt(delivered, n) + (IF n \in pending THEN 1 ELSE 0)
            /\ Held(n)' = Hold(sseq', n) + Hold(wseq, n) + Hold(hand, n)
        BY <2>1 DEF Stored, Held
      <4>2. Cnt(workq', n) = Cnt(workq, n) + b
        BY <2>1, <3>2
      <4> QED
        BY <3>1, <3>4, <4>1, <4>2, CopiesAre DEF Stored, Held
    <3> QED
      BY <3>3, CopiesAre
  <2> QED
    BY <2>1, <2>2 DEF SameCopies
<1>5. ASSUME Refused(s) PROVE LostCopies
  <2>1. /\ sseq'[s] = <<>> /\ \A y \in Submitters \ {s} : sseq'[y] = sseq[y]
        /\ UNCHANGED <<nextSeq, workq, sampleq, resultq, ahead, delivered, pending, wseq, hand>>
    BY <1>1, <1>5 DEF Refused
  <2>2. ASSUME NEW n \in Numbers PROVE Copies(n)' <= Copies(n) /\ Copies(n)' \in Nat
    <3> DEFINE b == IF sseq[s] = <<n>> THEN 1 ELSE 0
    <3>1. Hold(sseq', n) + b = Hold(sseq, n) /\ b \in Nat
      BY <1>1, <2>1, HoldDrop
    <3> HIDE DEF b
    <3>2. Held(n)' <= Held(n) /\ Held(n) \in Nat /\ Held(n)' \in Nat
      <4>1. UNCHANGED <<wseq, hand>>
        BY <2>1
      <4> QED
        BY <3>1, <4>1, CopiesAre DEF Held
    <3>3. Stored(n)' = Stored(n) /\ Stored(n) \in Nat
      BY <2>1, CopiesAre DEF Stored
    <3> QED
      BY <3>2, <3>3, CopiesAre
  <2>3. ~Calm'
    <3>1. Calm => ~tripped /\ (\A w \in Workers : Ended(w) => w = Loader)
      BY DEF Calm, StopOK, AllAtWork
    <3>2. ~Calm
      BY <1>5, <3>1, PipelineAssumption DEF Refused, Workers
    <3>3. stopped' = stopped /\ wpc' = wpc
      BY <1>5, Zenon DEF Refused
    <3> QED
      BY <3>2, <3>3 DEF Calm
  <2> QED
    BY <2>1, <2>2, <2>3 DEF LostCopies
<1> QED
  BY <1>3, <1>4, <1>5, Zenon DEF SubmitStep

LEMMA SameData ==
  ASSUME PipeTypes, PipeTypes',
         UNCHANGED <<nextSeq, workq, sampleq, resultq, ahead, delivered, pending, sseq, wseq,
                     hand>>
  PROVE  SameCopies
<1>1. ASSUME NEW n \in Numbers PROVE Copies(n)' = Copies(n)
  <2>1. Stored(n)' = Stored(n) /\ Held(n)' = Held(n)
    BY DEF Stored, Held
  <2> QED
    BY <2>1, CopiesAre
<1> QED
  BY <1>1 DEF SameCopies

LEMMA WorkerCopies ==
  ASSUME PipeTypes, PipeTypes', HandsFree, StopOK, AllAtWork, NEW w \in Workers,
         WorkerStep(w) \/ StartFails(w) \/ WorkFails(w)
  PROVE  SameCopies \/ LostCopies
<1> USE DEF configVars, stopVars, submitVars, reorderVars, consumeVars, workerFrame, faultFrame,
            Goes
<1>1. /\ IsFiniteSet(Workers)
      /\ DOMAIN wseq = Workers /\ DOMAIN wseq' = Workers
      /\ DOMAIN wpc = Workers /\ DOMAIN wpc' = Workers
  <2>1. IsFiniteSet(Samplers \cup {Loader})
    BY PipelineAssumption, FS_AddElement
  <2> QED
    BY <2>1 DEF PipeTypes, Workers
<1>2. ASSUME Top(w) PROVE SameCopies
  <2>1. CASE w = Loader /\ ahead # <<>>
    <3>1. /\ wseq[w] = <<>> /\ wseq'[w] = ahead /\ ahead' = <<>>
          /\ \A y \in Workers \ {w} : wseq'[y] = wseq[y]
          /\ UNCHANGED <<nextSeq, workq, sampleq, resultq, delivered, pending, sseq, hand>>
      BY <1>1, <1>2, <2>1 DEF Top, HandsFree
    <3>2. ahead \in Hands
      BY DEF PipeTypes
    <3>3. PICK m \in Numbers : ahead = <<m>>
      BY <2>1, <3>2 DEF Hands
    <3>4. ASSUME NEW n \in Numbers PROVE Copies(n)' = Copies(n)
      <4> DEFINE b == IF m = n THEN 1 ELSE 0
      <4>1. Hold(wseq', n) = Hold(wseq, n) + b /\ b \in Nat
        BY <1>1, <3>1, <3>3, HoldTake
      <4>2. Cnt(ahead, n) = b
        BY <3>2, <3>3, HandCases
      <4>3. Cnt(ahead', n) = 0
        BY <3>1, CntEmpty
      <4> HIDE DEF b
      <4>4. /\ Stored(n)' = Cnt(workq, n) + Cnt(sampleq, n) + Cnt(resultq, n) + 0
                            + Cnt(delivered, n) + (IF n \in pending THEN 1 ELSE 0)
            /\ Held(n)' = Hold(sseq, n) + Hold(wseq', n) + Hold(hand, n)
        BY <3>1, <4>3 DEF Stored, Held
      <4>5. Stored(n)' + Held(n)' = Stored(n) + Held(n)
        BY <4>1, <4>2, <4>4, CopiesAre DEF Stored, Held
      <4> QED
        BY <4>5, CopiesAre
    <3> QED
      BY <3>1, <3>4 DEF SameCopies
  <2>2. CASE ~(w = Loader /\ ahead # <<>>)
    BY <1>2, <2>2, SameData DEF Top
  <2> QED
    BY <2>1, <2>2, Zenon
<1>3. ASSUME Receive(w) PROVE SameCopies
  <2> DEFINE m == Head(Inbox(w))
  <2>1. /\ wseq[w] = <<>> /\ wseq'[w] = <<m>>
        /\ \A y \in Workers \ {w} : wseq'[y] = wseq[y]
        /\ UNCHANGED <<nextSeq, resultq, ahead, delivered, pending, sseq, hand>>
    BY <1>1, <1>3 DEF Receive, HandsFree
  <2>2. \/ /\ workq # <<>> /\ m = Head(workq) /\ workq' = Tail(workq) /\ sampleq' = sampleq
        \/ /\ sampleq # <<>> /\ m = Head(sampleq) /\ sampleq' = Tail(sampleq)
           /\ workq' = workq
    BY <1>3 DEF Receive, Inbox
  <2> HIDE DEF m
  <2>3. ASSUME NEW n \in Numbers PROVE Copies(n)' = Copies(n)
    <3> DEFINE b == IF m = n THEN 1 ELSE 0
    <3>1. Hold(wseq', n) = Hold(wseq, n) + b /\ b \in Nat
      BY <1>1, <2>1, HoldTake
    <3>2. ASSUME NEW q \in Seq(Numbers), q # <<>>, m = Head(q)
          PROVE  Cnt(q, n) = Cnt(Tail(q), n) + b
      BY <3>2, CntTail
    <3>3. workq \in Seq(Numbers) /\ sampleq \in Seq(Numbers)
      BY DEF PipeTypes
    <3> HIDE DEF b
    <3>4. \/ Cnt(workq, n) = Cnt(workq', n) + b /\ Cnt(sampleq', n) = Cnt(sampleq, n)
          \/ Cnt(sampleq, n) = Cnt(sampleq', n) + b /\ Cnt(workq', n) = Cnt(workq, n)
      BY <2>2, <3>2, <3>3
    <3>5. /\ Stored(n)' = Cnt(workq', n) + Cnt(sampleq', n) + Cnt(resultq, n) + Cnt(ahead, n)
                          + Cnt(delivered, n) + (IF n \in pending THEN 1 ELSE 0)
          /\ Held(n)' = Hold(sseq, n) + Hold(wseq', n) + Hold(hand, n)
      BY <2>1 DEF Stored, Held
    <3>6. Stored(n)' + Held(n)' = Stored(n) + Held(n)
      BY <3>1, <3>4, <3>5, CopiesAre DEF Stored, Held
    <3> QED
      BY <3>6, CopiesAre
  <2> QED
    BY <2>1, <2>3 DEF SameCopies
<1>4. ASSUME Peek(w) PROVE SameCopies
  <2>1. CASE sampleq # <<>>
    <3> DEFINE m == Head(sampleq)
    <3>1. /\ ahead = <<>> /\ ahead' = <<m>> /\ sampleq' = Tail(sampleq)
          /\ UNCHANGED <<nextSeq, workq, resultq, delivered, pending, sseq, wseq, hand>>
      BY <1>4, <2>1 DEF Peek, HandsFree
    <3>2. ahead' \in Hands /\ sampleq \in Seq(Numbers)
      BY DEF PipeTypes
    <3>3. ASSUME NEW n \in Numbers PROVE Copies(n)' = Copies(n)
      <4> DEFINE b == IF m = n THEN 1 ELSE 0
      <4>1. Cnt(sampleq, n) = Cnt(Tail(sampleq), n) + b
        BY <2>1, <3>2, CntTail
      <4>2. b \in Nat /\ b = IF ahead' = <<n>> THEN 1 ELSE 0
        BY <3>1
      <4>3. Cnt(ahead', n) = b
        BY <3>2, <4>2, HandCases
      <4>4. Cnt(ahead, n) = 0
        BY <3>1, CntEmpty
      <4> HIDE DEF b, m
      <4>5. /\ Stored(n)' = Cnt(workq, n) + Cnt(sampleq', n) + Cnt(resultq, n)
                            + Cnt(ahead', n) + Cnt(delivered, n)
                            + (IF n \in pending THEN 1 ELSE 0)
            /\ Held(n)' = Held(n)
        BY <3>1 DEF Stored, Held
      <4>6. Cnt(sampleq, n) = Cnt(sampleq', n) + b
        BY <3>1, <4>1
      <4>7. Stored(n)' = Stored(n)
        BY <4>2, <4>3, <4>4, <4>5, <4>6, CopiesAre DEF Stored
      <4> QED
        BY <4>5, <4>7, CopiesAre
    <3> QED
      BY <3>1, <3>3 DEF SameCopies
  <2>2. CASE sampleq = <<>>
    BY <1>4, <2>2, SameData DEF Peek
  <2> QED
    BY <2>1, <2>2
<1>5. ASSUME Deliver(w) PROVE SameCopies
  <2>1. /\ wseq'[w] = <<>> /\ \A y \in Workers \ {w} : wseq'[y] = wseq[y]
        /\ UNCHANGED <<nextSeq, workq, ahead, delivered, pending, sseq, hand>>
    BY <1>1, <1>5 DEF Deliver
  <2>2. \/ sampleq' = sampleq \o wseq[w] /\ resultq' = resultq
        \/ resultq' = resultq \o wseq[w] /\ sampleq' = sampleq
    BY <1>5 DEF Deliver
  <2>3. sampleq \in Seq(Numbers) /\ resultq \in Seq(Numbers) /\ wseq[w] \in Hands
    BY DEF PipeTypes
  <2>4. ASSUME NEW n \in Numbers PROVE Copies(n)' = Copies(n)
    <3> DEFINE b == IF wseq[w] = <<n>> THEN 1 ELSE 0
    <3>1. Hold(wseq', n) + b = Hold(wseq, n) /\ b \in Nat
      BY <1>1, <2>1, HoldDrop
    <3>2. ASSUME NEW q \in Seq(Numbers) PROVE Cnt(q \o wseq[w], n) = Cnt(q, n) + b
      BY <2>3, JoinHand
    <3> HIDE DEF b
    <3>3. /\ Cnt(sampleq \o wseq[w], n) = Cnt(sampleq, n) + b
          /\ Cnt(resultq \o wseq[w], n) = Cnt(resultq, n) + b
      BY <2>3, <3>2
    <3>4. \/ Cnt(sampleq', n) = Cnt(sampleq, n) + b /\ Cnt(resultq', n) = Cnt(resultq, n)
          \/ Cnt(resultq', n) = Cnt(resultq, n) + b /\ Cnt(sampleq', n) = Cnt(sampleq, n)
      BY <2>2, <3>3
    <3>5. /\ Stored(n)' = Cnt(workq, n) + Cnt(sampleq', n) + Cnt(resultq', n) + Cnt(ahead, n)
                          + Cnt(delivered, n) + (IF n \in pending THEN 1 ELSE 0)
          /\ Held(n)' = Hold(sseq, n) + Hold(wseq', n) + Hold(hand, n)
      BY <2>1 DEF Stored, Held
    <3>6. Stored(n)' + Held(n)' = Stored(n) + Held(n)
      BY <3>1, <3>4, <3>5, CopiesAre DEF Stored, Held
    <3> QED
      BY <3>6, CopiesAre
  <2> QED
    BY <2>1, <2>4 DEF SameCopies
<1>6. ASSUME WorkFails(w) \/ DeliverEnds(w) PROVE LostCopies
  <2>1. /\ wseq'[w] = <<>> /\ \A y \in Workers \ {w} : wseq'[y] = wseq[y]
        /\ UNCHANGED <<nextSeq, workq, sampleq, resultq, ahead, delivered, pending, sseq, hand>>
    BY <1>1, <1>6 DEF WorkFails, DeliverEnds
  <2>2. ASSUME NEW n \in Numbers PROVE Copies(n)' <= Copies(n) /\ Copies(n)' \in Nat
    <3> DEFINE b == IF wseq[w] = <<n>> THEN 1 ELSE 0
    <3>1. Hold(wseq', n) + b = Hold(wseq, n) /\ b \in Nat
      BY <1>1, <2>1, HoldDrop
    <3> HIDE DEF b
    <3>2. Held(n)' <= Held(n) /\ Held(n) \in Nat /\ Held(n)' \in Nat
      <4>1. UNCHANGED <<sseq, hand>>
        BY <2>1
      <4> QED
        BY <3>1, <4>1, CopiesAre DEF Held
    <3>3. Stored(n)' = Stored(n) /\ Stored(n) \in Nat
      BY <2>1, CopiesAre DEF Stored
    <3> QED
      BY <3>2, <3>3, CopiesAre
  <2>3. ~Calm'
    <3>1. ASSUME WorkFails(w) PROVE ~Calm'
      BY <1>1, <3>1 DEF WorkFails, Calm
    <3>2. ASSUME DeliverEnds(w) PROVE ~Calm'
      <4>1. Calm => ~tripped /\ ~(Ended(Loader) /\ mode = "features")
        BY DEF Calm, StopOK, AllAtWork, Workers
      <4>2. ~Calm
        BY <3>2, <4>1 DEF DeliverEnds, OutboxClosed, FeedsLoader
      <4>3. /\ stopped' = stopped
            /\ \A v \in Workers : wpc[v] \in {"failed", "stop"} => wpc'[v] = wpc[v]
        <5>1. stopped' = stopped
          BY <3>2, Zenon DEF DeliverEnds
        <5> QED
          BY <1>1, <3>2, <5>1 DEF DeliverEnds
      <4> QED
        BY <4>2, <4>3 DEF Calm
    <3> QED
      BY <1>6, <3>1, <3>2
  <2> QED
    BY <2>1, <2>2, <2>3 DEF LostCopies
<1>7. ASSUME \/ StartFails(w) \/ ReceiveEnds(w) \/ Left(w) \/ RecordFault(w)
             \/ WorkerStops(w) \/ WorkerTrips(w)
      PROVE  SameCopies
  <2>1. UNCHANGED <<nextSeq, workq, sampleq, resultq, ahead, delivered, pending, sseq, wseq,
                    hand>>
    BY <1>7, Zenon DEF StartFails, ReceiveEnds, Left, RecordFault, WorkerStops, WorkerTrips
  <2> QED
    BY <2>1, SameData
<1> QED
  BY <1>2, <1>3, <1>4, <1>5, <1>6, <1>7, Zenon DEF WorkerStep

LEMMA ConsumerCopies ==
  ASSUME PipeTypes, PipeTypes', HandsFree, PlacesOK, NEW c \in Consumers,
         ConsumeStep(c) \/ Timeout(c)
  PROVE  SameCopies
<1> USE DEF configVars, stopVars, submitVars, workerVars, reorderVars, consumeFrame
<1>1. /\ IsFiniteSet(Consumers) /\ DOMAIN hand = Consumers /\ DOMAIN hand' = Consumers
      /\ resultq \in Seq(Numbers) /\ delivered \in Seq(Numbers) /\ pending \subseteq Numbers
  BY PipelineAssumption DEF PipeTypes
<1>2. ASSUME PopReady(c) PROVE SameCopies
  <2>1. ASSUME ordered, nextOut \in pending PROVE SameCopies
    <3>1. /\ pending' = pending \ {nextOut} /\ delivered' = Append(delivered, nextOut)
          /\ UNCHANGED <<nextSeq, workq, sampleq, resultq, ahead, sseq, wseq, hand>>
      BY <1>2, <2>1, Zenon DEF PopReady
    <3>2. ASSUME NEW n \in Numbers PROVE Copies(n)' = Copies(n)
      <4> DEFINE b == IF nextOut = n THEN 1 ELSE 0
                 p == IF n \in pending THEN 1 ELSE 0
                 q == IF n \in pending' THEN 1 ELSE 0
      <4>1. Cnt(Append(delivered, nextOut), n) = Cnt(delivered, n) + b
        BY <1>1, <2>1, CntAppend
      <4>2. p = q + b /\ b \in Nat /\ q \in Nat
        BY <2>1, <3>1
      <4>3. /\ Stored(n)' = Cnt(workq, n) + Cnt(sampleq, n) + Cnt(resultq, n) + Cnt(ahead, n)
                            + Cnt(Append(delivered, nextOut), n) + q
            /\ Stored(n) = Cnt(workq, n) + Cnt(sampleq, n) + Cnt(resultq, n) + Cnt(ahead, n)
                           + Cnt(delivered, n) + p
            /\ Held(n)' = Held(n)
        BY <3>1 DEF Stored, Held
      <4> HIDE DEF b, p, q
      <4>4. Stored(n)' = Stored(n)
        BY <4>1, <4>2, <4>3, CopiesAre
      <4> QED
        BY <4>3, <4>4, CopiesAre
    <3> QED
      BY <3>1, <3>2 DEF SameCopies
  <2>2. ASSUME ~(ordered /\ nextOut \in pending) PROVE SameCopies
    <3>1. UNCHANGED <<nextSeq, workq, sampleq, resultq, ahead, delivered, pending, sseq, wseq,
                      hand>>
      BY <1>2, <2>2, Zenon DEF PopReady
    <3> QED
      BY <3>1, SameData
  <2> QED
    BY <2>1, <2>2, Zenon
<1>3. ASSUME Take(c) PROVE SameCopies
  <2> DEFINE m == Head(resultq)
  <2>1. /\ resultq # <<>> /\ resultq' = Tail(resultq) /\ cpc[c] \in {"poll", "wait"}
        /\ UNCHANGED <<nextSeq, workq, sampleq, ahead, pending, sseq, wseq>>
    BY <1>3, Zenon DEF Take
  <2>2. hand[c] = <<>> /\ m \in Numbers
    BY <1>1, <2>1, HeadTailProperties DEF HandsFree
  <2> HIDE DEF m
  <2>3. ASSUME NEW n \in Numbers
        PROVE  Cnt(resultq, n) = Cnt(resultq', n) + (IF m = n THEN 1 ELSE 0)
    BY <1>1, <2>1, CntTail DEF m
  <2>4. ASSUME ordered PROVE SameCopies
    <3>1. hand' = [hand EXCEPT ![c] = <<m>>] /\ delivered' = delivered
      BY <1>3, <2>4, Zenon DEF Take, m
    <3>2. hand'[c] = <<m>> /\ \A y \in Consumers \ {c} : hand'[y] = hand[y]
      BY <1>1, <3>1
    <3>3. ASSUME NEW n \in Numbers PROVE Copies(n)' = Copies(n)
      <4> DEFINE b == IF m = n THEN 1 ELSE 0
      <4>1. Hold(hand', n) = Hold(hand, n) + b /\ b \in Nat
        BY <1>1, <2>2, <3>2, HoldTake
      <4>2. Cnt(resultq, n) = Cnt(resultq', n) + b
        BY <2>3
      <4> HIDE DEF b
      <4>3. /\ Stored(n)' = Cnt(workq, n) + Cnt(sampleq, n) + Cnt(resultq', n) + Cnt(ahead, n)
                            + Cnt(delivered, n) + (IF n \in pending THEN 1 ELSE 0)
            /\ Held(n)' = Hold(sseq, n) + Hold(wseq, n) + Hold(hand', n)
        BY <2>1, <3>1 DEF Stored, Held
      <4>4. Stored(n)' + Held(n)' = Stored(n) + Held(n)
        BY <4>1, <4>2, <4>3, CopiesAre DEF Stored, Held
      <4> QED
        BY <4>4, CopiesAre
    <3> QED
      BY <2>1, <3>3 DEF SameCopies
  <2>5. ASSUME ~ordered PROVE SameCopies
    <3>1. delivered' = Append(delivered, m) /\ hand' = hand
      BY <1>3, <2>5, Zenon DEF Take, m
    <3>2. ASSUME NEW n \in Numbers PROVE Copies(n)' = Copies(n)
      <4> DEFINE b == IF m = n THEN 1 ELSE 0
      <4>1. Cnt(Append(delivered, m), n) = Cnt(delivered, n) + b
        BY <1>1, <2>2, CntAppend
      <4>2. Cnt(resultq, n) = Cnt(resultq', n) + b /\ b \in Nat
        BY <2>3
      <4> HIDE DEF b
      <4>3. /\ Stored(n)' = Cnt(workq, n) + Cnt(sampleq, n) + Cnt(resultq', n) + Cnt(ahead, n)
                            + Cnt(Append(delivered, m), n) + (IF n \in pending THEN 1 ELSE 0)
            /\ Held(n)' = Held(n)
        BY <2>1, <3>1 DEF Stored, Held
      <4>4. Stored(n)' = Stored(n)
        BY <4>1, <4>2, <4>3, CopiesAre DEF Stored
      <4> QED
        BY <4>3, <4>4, CopiesAre
    <3> QED
      BY <2>1, <3>2 DEF SameCopies
  <2> QED
    BY <2>4, <2>5, Zenon
<1>4. ASSUME Insert(c) PROVE SameCopies
  <2> DEFINE m == hand[c][1]
  <2>1. /\ hand'[c] = <<>> /\ \A y \in Consumers \ {c} : hand'[y] = hand[y]
        /\ pending' = pending \cup {m} /\ cpc[c] = "insert"
        /\ UNCHANGED <<nextSeq, workq, sampleq, resultq, ahead, delivered, sseq, wseq>>
    BY <1>1, <1>4 DEF Insert
  <2>2. hand[c] \in Hands /\ hand[c] # <<>>
    BY <2>1 DEF HandsFree, PipeTypes
  <2>3. hand[c] = <<m>> /\ m \in Numbers
    BY <2>2, HandCases
  <2> HIDE DEF m
  <2>4. \A n : hand[c] = <<n>> <=> m = n
    BY <2>3
  <2>5. ASSUME NEW n PROVE Hold(hand', n) + (IF m = n THEN 1 ELSE 0) = Hold(hand, n)
    <3>1. Hold(hand', n) + (IF hand[c] = <<n>> THEN 1 ELSE 0) = Hold(hand, n)
      BY <1>1, <2>1, HoldDrop
    <3> QED
      BY <2>4, <3>1
  <2>6. m \notin pending
    <3>1. Hold(hand, m) >= 1
      BY <2>5, CopiesAre
    <3>2. Copies(m) <= 1
      BY <2>3 DEF PlacesOK
    <3>3. SUFFICES ASSUME m \in pending PROVE FALSE
      OBVIOUS
    <3>4. Stored(m) >= 1
      BY <3>3, CopiesAre DEF Stored
    <3>5. Held(m) >= 1
      BY <3>1, CopiesAre DEF Held
    <3>6. Stored(m) \in Nat /\ Held(m) \in Nat
      BY CopiesAre DEF Stored, Held
    <3> QED
      BY <3>2, <3>4, <3>5, <3>6, CopiesAre
  <2>7. ASSUME NEW n \in Numbers PROVE Copies(n)' = Copies(n)
    <3> DEFINE b == IF m = n THEN 1 ELSE 0
               p == IF n \in pending THEN 1 ELSE 0
               q == IF n \in pending' THEN 1 ELSE 0
    <3>1. q = p + b /\ b \in Nat /\ p \in Nat
      BY <2>1, <2>6
    <3>2. Hold(hand', n) + b = Hold(hand, n)
      BY <2>5
    <3>3. /\ Stored(n)' = Cnt(workq, n) + Cnt(sampleq, n) + Cnt(resultq, n) + Cnt(ahead, n)
                          + Cnt(delivered, n) + q
          /\ Stored(n) = Cnt(workq, n) + Cnt(sampleq, n) + Cnt(resultq, n) + Cnt(ahead, n)
                         + Cnt(delivered, n) + p
          /\ Held(n)' = Hold(sseq, n) + Hold(wseq, n) + Hold(hand', n)
      BY <2>1 DEF Stored, Held
    <3> HIDE DEF b, p, q
    <3>4. Stored(n)' + Held(n)' = Stored(n) + Held(n)
      BY <3>1, <3>2, <3>3, CopiesAre DEF Held
    <3> QED
      BY <3>4, CopiesAre
  <2> QED
    BY <2>1, <2>7 DEF SameCopies
<1>5. ASSUME \/ \E try \in BOOLEAN : Call(c, try)
             \/ PollEmpty(c) \/ WaitEnds(c) \/ Outcome(c) \/ Timeout(c)
      PROVE  SameCopies
  <2>1. UNCHANGED <<nextSeq, workq, sampleq, resultq, ahead, delivered, pending, sseq, wseq,
                    hand>>
    BY <1>5, Zenon DEF Call, PollEmpty, WaitEnds, Outcome, Timeout
  <2> QED
    BY <2>1, SameData
<1> QED
  BY <1>2, <1>3, <1>4, <1>5, Zenon DEF ConsumeStep

\* Every number that was handed out is in one place, as long as all goes well;
\* no number is ever in two.
LEMMA PlacesStep ==
  ASSUME PipeTypes, PipeTypes', HandsFree, StopOK, AllAtWork, PlacesOK, [Next]_vars
  PROVE  PlacesOK'
<1> USE DEF vars, configVars, stopVars, submitVars, workerVars, reorderVars, consumeVars,
            workerFrame, consumeFrame, ownerFrame
<1>0. Calm' => Calm
  BY CalmWas
<1>1. SameCopies \/ LostCopies \/ NewCopy
  <2>1. ASSUME NEW s \in Submitters, Submit(s) \/ SubmitStep(s)
        PROVE  SameCopies \/ LostCopies \/ NewCopy
    BY <2>1, SubmitCopies, Zenon
  <2>2. ASSUME NEW w \in Workers, WorkerStep(w) \/ StartFails(w) \/ WorkFails(w)
        PROVE  SameCopies \/ LostCopies
    BY <2>2, WorkerCopies, Zenon
  <2>3. ASSUME NEW c \in Consumers, ConsumeStep(c) \/ Timeout(c) PROVE SameCopies
    BY <2>3, ConsumerCopies, Zenon
  <2>4. ASSUME RequestShutdown \/ OwnerStep \/ UNCHANGED vars PROVE SameCopies
    <3>1. UNCHANGED <<nextSeq, workq, sampleq, resultq, ahead, delivered, pending, sseq, wseq,
                      hand>>
      BY <2>4, Zenon DEF RequestShutdown, OwnerStep, OwnerStops, OwnerTrips, Joined
    <3> QED
      BY <3>1, SameData
  <2> QED
    BY <2>1, <2>2, <2>3, <2>4, Zenon DEF Next
<1>2. nextSeq \in Nat
  BY PipelineAssumption DEF PipeTypes
<1>3. ASSUME NEW n \in Numbers
      PROVE  n \in Nat /\ Copies(n) \in Nat /\ Copies(n)' \in Nat
  <2>1. n \in Nat
    BY PipelineAssumption DEF Numbers
  <2>2. Stored(n) \in Nat /\ Held(n) \in Nat
    BY CopiesAre DEF Stored, Held
  <2>3. Stored(n)' \in Nat /\ Held(n)' \in Nat
    BY CopiesAre DEF Stored, Held
  <2> QED
    BY <2>1, <2>2, <2>3, CopiesAre
<1>4. ASSUME SameCopies PROVE PlacesOK'
  BY <1>0, <1>4 DEF SameCopies, PlacesOK
<1>5. ASSUME LostCopies PROVE PlacesOK'
  BY <1>3, <1>5 DEF LostCopies, PlacesOK
<1>6. ASSUME NewCopy PROVE PlacesOK'
  BY <1>0, <1>2, <1>3, <1>6 DEF NewCopy, PlacesOK
<1> QED
  BY <1>1, <1>4, <1>5, <1>6

\* A seeded loader yields the numbers from 0 on.
LEMMA OrderStep ==
  ASSUME PipeTypes, PipeFlags, InOrder, [Next]_vars
  PROVE  InOrder'
<1> USE DEF vars, configVars, stopVars, submitVars, workerVars, reorderVars, consumeVars,
            workerFrame, faultFrame, consumeFrame, ownerFrame
<1>1. delivered \in Seq(Numbers) /\ nextOut \in Nat
  BY DEF PipeTypes
<1>2. ASSUME UNCHANGED <<ordered, nextOut, delivered>> PROVE InOrder'
  BY <1>2 DEF InOrder
<1>3. ASSUME NEW c \in Consumers, PopReady(c) PROVE InOrder'
  <2>1. ASSUME ordered, nextOut \in pending PROVE InOrder'
    <3>1. /\ nextOut' = nextOut + 1 /\ delivered' = Append(delivered, nextOut)
          /\ ordered' = ordered
      BY <1>3, <2>1, Zenon DEF PopReady
    <3>2. Len(delivered) = nextOut /\ \A i \in 1 .. Len(delivered) : delivered[i] = i - 1
      BY <2>1 DEF InOrder
    <3>3. nextOut \in Numbers
      BY <2>1 DEF PipeTypes
    <3>4. /\ Len(Append(delivered, nextOut)) = Len(delivered) + 1
          /\ \A i \in 1 .. Len(delivered) : Append(delivered, nextOut)[i] = delivered[i]
          /\ Append(delivered, nextOut)[Len(delivered) + 1] = nextOut
      BY <1>1, <3>3, AppendProperties
    <3>5. /\ Len(delivered') = nextOut'
          /\ \A i \in 1 .. Len(delivered') : delivered'[i] = i - 1
      BY <1>1, <3>1, <3>2, <3>4
    <3> QED
      BY <2>1, <3>1, <3>5 DEF InOrder
  <2>2. ASSUME ~(ordered /\ nextOut \in pending) PROVE InOrder'
    <3>1. UNCHANGED <<ordered, nextOut, delivered>>
      BY <1>3, <2>2, Zenon DEF PopReady
    <3> QED
      BY <1>2, <3>1
  <2> QED
    BY <2>1, <2>2, Zenon
<1>4. ASSUME NEW c \in Consumers, Take(c) PROVE InOrder'
  <2>1. ASSUME ordered PROVE InOrder'
    <3>1. UNCHANGED <<ordered, nextOut, delivered>>
      BY <1>4, <2>1, Zenon DEF Take
    <3> QED
      BY <1>2, <3>1
  <2>2. ASSUME ~ordered PROVE InOrder'
    <3>1. nextOut' = nextOut /\ ordered' = ordered
      BY <1>4, <2>2, Zenon DEF Take
    <3> QED
      BY <2>2, <3>1 DEF InOrder
  <2> QED
    BY <2>1, <2>2, Zenon
<1>5. ASSUME NEW s \in Submitters, Submit(s) \/ SubmitStep(s) PROVE InOrder'
  <2>1. UNCHANGED <<ordered, nextOut, delivered>>
    BY <1>5, Zenon DEF Submit, SubmitStep, Enqueue, Refused
  <2> QED
    BY <1>2, <2>1
<1>6. ASSUME NEW w \in Workers, WorkerStep(w) \/ StartFails(w) \/ WorkFails(w) PROVE InOrder'
  <2>1. UNCHANGED <<ordered, nextOut, delivered>>
    BY <1>6, Zenon DEF WorkerStep, Top, Receive, ReceiveEnds, Peek, Deliver, DeliverEnds,
       StartFails, WorkFails, Left, RecordFault, WorkerStops, WorkerTrips
  <2> QED
    BY <1>2, <2>1
<1>7. ASSUME NEW c \in Consumers,
             \/ \E try \in BOOLEAN : Call(c, try)
             \/ Insert(c) \/ PollEmpty(c) \/ WaitEnds(c) \/ Outcome(c) \/ Timeout(c)
      PROVE  InOrder'
  <2>1. UNCHANGED <<ordered, nextOut, delivered>>
    BY <1>7, Zenon DEF Call, Insert, PollEmpty, WaitEnds, Outcome, Timeout
  <2> QED
    BY <1>2, <2>1
<1>8. ASSUME RequestShutdown \/ OwnerStep \/ UNCHANGED vars PROVE InOrder'
  <2>1. UNCHANGED <<ordered, nextOut, delivered>>
    BY <1>8, Zenon DEF RequestShutdown, OwnerStep, OwnerStops, OwnerTrips, Joined
  <2> QED
    BY <1>2, <2>1
<1> QED
  BY <1>3, <1>4, <1>5, <1>6, <1>7, <1>8, Zenon DEF Next, ConsumeStep

LEMMA PipeStep == PipeInv /\ [Next]_vars => PipeInv'
<1> SUFFICES ASSUME PipeInv, [Next]_vars PROVE PipeInv'
  OBVIOUS
<1>1. PipeTypes /\ PipeFlags /\ Within /\ HandsFree /\ StopOK /\ AllAtWork /\ PlacesOK /\ InOrder
  BY DEF PipeInv
<1>2. PipeTypes'
  BY <1>1, PipeTypesStep, Zenon
<1>3. PipeFlags' /\ Within' /\ HandsFree'
  BY <1>1, PipeFlagsStep, WithinStep, HandsFreeStep, Zenon
<1>4. StopOK' /\ AllAtWork'
  BY <1>1, StopStep, AtWorkStep, Zenon
<1>5. PlacesOK' /\ InOrder'
  BY <1>1, <1>2, PlacesStep, OrderStep, Zenon
<1> QED
  BY <1>2, <1>3, <1>4, <1>5, Zenon DEF PipeInv

\* Nothing is anywhere at the start.
LEMMA PipeStart == Init => PipeInv
<1> SUFFICES ASSUME Init PROVE PipeInv
  OBVIOUS
<1>1. PipeTypes
  BY PipelineAssumption DEF Init, PipeTypes, Hands, WorkerPcs
<1>2. PipeFlags
  BY Zenon DEF Init, PipeFlags
<1>3. Within
  BY PipelineAssumption DEF Init, Within
<1>4. HandsFree
  BY DEF Init, HandsFree
<1>5. StopOK
  BY DEF Init, StopOK
<1>6. AllAtWork
  <2>1. ASSUME NEW w \in Workers
        PROVE  /\ mode = "features" => wpc[w] = "top"
               /\ w # Loader => wpc[w] \in {"top", "start"}
    BY DEF Init
  <2>2. mode \in {"pool", "features"}
    BY PipelineAssumption DEF Init
  <2> QED
    BY <2>1, <2>2 DEF AllAtWork, Ended
<1>7. PlacesOK
  <2>1. ASSUME NEW f, \A x \in DOMAIN f : f[x] = <<>>, NEW n PROVE Hold(f, n) = 0
    <3>1. {x \in DOMAIN f : f[x] = <<n>>} = {}
      BY <2>1
    <3> QED
      BY <3>1, FS_EmptySet DEF Hold
  <2>2. ASSUME NEW n \in Numbers PROVE Copies(n) = 0
    <3>1. Hold(sseq, n) = 0 /\ Hold(wseq, n) = 0 /\ Hold(hand, n) = 0
      BY <2>1 DEF Init
    <3>2. /\ Cnt(workq, n) = 0 /\ Cnt(sampleq, n) = 0 /\ Cnt(resultq, n) = 0
          /\ Cnt(ahead, n) = 0 /\ Cnt(delivered, n) = 0 /\ n \notin pending
      BY CntEmpty DEF Init
    <3>3. Copies(n) = Cnt(workq, n) + Cnt(sampleq, n) + Cnt(resultq, n) + Cnt(ahead, n)
             + Cnt(delivered, n) + Hold(sseq, n) + Hold(wseq, n) + Hold(hand, n)
             + (IF n \in pending THEN 1 ELSE 0)
      BY DEF Copies, Cnt, Hold
    <3> QED
      BY <3>1, <3>2, <3>3
  <2>3. nextSeq = 0 /\ \A n \in Numbers : n \in Nat
    BY PipelineAssumption DEF Init, Numbers
  <2> QED
    BY <2>2, <2>3 DEF PlacesOK
<1>8. InOrder
  BY DEF Init, InOrder
<1> QED
  BY <1>1, <1>2, <1>3, <1>4, <1>5, <1>6, <1>7, <1>8 DEF PipeInv

LEMMA PipeAlways == Spec => []PipeInv
<1> QED
  BY PipeStart, PipeStep, PTL DEF Spec

\* The state of the pipeline keeps its types and its queues their bounds,
\* whatever the threads do and in which order.
THEOREM PipelineTypeCorrect == Spec => []TypeOK
<1>1. PipeInv => TypeOK
  <2> SUFFICES ASSUME PipeInv PROVE TypeOK
    OBVIOUS
  <2>1. PipeTypes /\ PipeFlags /\ Within /\ InOrder
    BY DEF PipeInv
  <2>2. ASSUME NEW h \in Hands PROVE InHand(h)
    <3>1. CASE h = <<>>
      BY <3>1 DEF InHand
    <3>2. CASE h # <<>>
      <4>1. PICK n \in Numbers : h = <<n>>
        BY <3>2 DEF Hands
      <4> QED
        BY <4>1 DEF InHand
    <3> QED
      BY <3>1, <3>2
  <2>3. nextOut \in 0..MaxSubmits
    <3>1. CASE ordered
      <4>1. Len(delivered) = nextOut /\ \A i \in 1 .. Len(delivered) : delivered[i] = i - 1
        BY <2>1, <3>1 DEF InOrder
      <4>2. CASE nextOut = 0
        BY <4>2, PipelineAssumption
      <4>3. CASE nextOut # 0
        <5>1. nextOut \in 1 .. Len(delivered) /\ delivered[nextOut] \in Numbers
          BY <2>1, <4>1, <4>3 DEF PipeTypes
        <5> QED
          BY <4>1, <5>1, PipelineAssumption DEF Numbers
      <4> QED
        BY <4>2, <4>3
    <3>2. CASE ~ordered
      BY <2>1, <3>2, PipelineAssumption DEF InOrder
    <3> QED
      BY <3>1, <3>2
  <2>4. /\ ordered \in BOOLEAN /\ {stopped, shutdown, tripped} \subseteq BOOLEAN
        /\ \A c \in Consumers : polling[c] \in BOOLEAN
    BY <2>1, Zenon DEF PipeFlags
  <2>5. /\ \A s \in Submitters : spc[s] \in {"out", "send"} /\ InHand(sseq[s])
        /\ \A w \in Workers : wpc[w] \in WorkerPcs /\ InHand(wseq[w])
        /\ InHand(ahead)
        /\ \A c \in Consumers :
             /\ cpc[c] \in {"out", "pop", "poll", "wait", "insert", "outcome"}
             /\ InHand(hand[c])
    BY <2>1, <2>2 DEF PipeTypes
  <2>6. /\ mode \in Modes /\ fault \in {"none", "own", "early"} /\ nextSeq \in 0..MaxSubmits
        /\ workq \in Seq(Numbers) /\ sampleq \in Seq(Numbers) /\ resultq \in Seq(Numbers)
        /\ opc \in {"run", "stop", "trip", "join", "down"}
        /\ pending \subseteq Numbers /\ delivered \in Seq(Numbers)
        /\ Len(workq) <= WorkCap /\ Len(sampleq) <= SampleCap /\ Len(resultq) <= ResultCap
    BY <2>1 DEF PipeTypes, Within
  <2> QED
    BY <2>3, <2>4, <2>5, <2>6, Zenon DEF TypeOK, WorkerPcs
<1> QED
  BY <1>1, PipeAlways, PTL

\* A stream that ends has a requested shutdown or a recorded fault to report:
\* whoever sets the stop flag or trips the signal has left its reason first
\* (StopSignal::fail and shutdown), and consumers read the reason last.
THEOREM EndIsExplainedAlways == Spec => []EndIsExplained
<1>1. PipeInv => EndIsExplained
  BY DEF PipeInv, StopOK, EndIsExplained
<1> QED
  BY <1>1, PipeAlways, PTL

\* A seeded loader yields 0, 1, 2, ... in this order and an unseeded one no
\* number twice, for every number of workers, consumers and submitters and
\* every capacity of the queues (BatchReorder, and the moves of a batch from
\* queue to queue).
THEOREM YieldOrderAlways == Spec => []YieldOrder
<1>1. PipeInv => YieldOrder
  <2> SUFFICES ASSUME PipeInv PROVE YieldOrder
    OBVIOUS
  <2>1. PipeTypes /\ PlacesOK /\ InOrder
    BY DEF PipeInv
  <2>2. delivered \in Seq(Numbers)
    BY <2>1 DEF PipeTypes
  <2>3. CASE ordered
    BY <2>1, <2>2, <2>3, LenProperties DEF YieldOrder, InOrder
  <2>4. CASE ~ordered
    <3>1. ASSUME NEW i \in DOMAIN delivered, NEW j \in DOMAIN delivered, i # j,
                 delivered[i] = delivered[j]
          PROVE  FALSE
      <4> DEFINE n == delivered[i]
      <4>1. Cnt(delivered, n) >= 2
        BY <2>2, <3>1, CntTwice
      <4>2. n \in Numbers
        BY <2>2
      <4> HIDE DEF n
      <4>3. Copies(n) <= 1
        BY <2>1, <4>2 DEF PlacesOK
      <4>4. /\ Cnt(workq, n) \in Nat /\ Cnt(sampleq, n) \in Nat /\ Cnt(resultq, n) \in Nat
            /\ Cnt(ahead, n) \in Nat /\ Cnt(delivered, n) \in Nat
            /\ Hold(sseq, n) \in Nat /\ Hold(wseq, n) \in Nat /\ Hold(hand, n) \in Nat
            /\ Copies(n) = Stored(n) + Held(n)
        BY <2>1, CopiesNow
      <4>5. Stored(n) >= 2 /\ Stored(n) \in Nat
        BY <4>1, <4>4 DEF Stored
      <4>6. Held(n) \in Nat
        BY <4>4 DEF Held
      <4> QED
        BY <4>3, <4>4, <4>5, <4>6
    <3> QED
      BY <2>4, <3>1 DEF YieldOrder
  <2> QED
    BY <2>3, <2>4
<1> QED
  BY <1>1, PipeAlways, PTL

\* While no worker has failed and nobody has stopped the loader, every number
\* handed out is in exactly one place: no batch is lost or doubled between
\* submit, the workers, the look-ahead and the reorder buffer.
THEOREM NothingLostAlways == Spec => []NothingLost
<1>1. PipeInv => NothingLost
  <2> SUFFICES ASSUME PipeInv, Calm, NEW n \in 0..(nextSeq - 1) PROVE Copies(n) = 1
    BY DEF NothingLost, Calm
  <2>1. PlacesOK /\ nextSeq \in 0..MaxSubmits
    BY DEF PipeInv, PipeTypes
  <2>2. n \in Numbers /\ n < nextSeq
    BY <2>1, PipelineAssumption DEF Numbers
  <2> QED
    BY <2>1, <2>2 DEF PlacesOK
<1> QED
  BY <1>1, PipeAlways, PTL

-----------------------------------------------------------------------------
(* The tiered feature cache *)

\* A tier over the nodes S: each node once, and the hand on one of them.
TierOf(S, tier) ==
  /\ tier \in [queue : Seq(S), hand : S \cup {NIL}, visited : SUBSET S]
  /\ IsInjective(tier.queue) /\ tier.hand \in Resident(tier) \cup {NIL}

LEMMA FirstOf ==
  ASSUME NEW S \in SUBSET Nat, S # {}
  PROVE  \E k \in S : \A j \in S : k <= j
<1>1. IsWellFoundedOn(OpToRel(<, Nat), Nat)
  BY NatLessThanWellFounded
<1>2. PICK k \in S : \A j \in S : ~(<<j, k>> \in OpToRel(<, Nat))
  BY <1>1, WFMin
<1>3. ASSUME NEW j \in S PROVE k <= j
  <2>1. j \in Nat /\ k \in Nat
    OBVIOUS
  <2>2. j < k => <<j, k>> \in OpToRel(<, Nat)
    BY <2>1 DEF OpToRel
  <2>3. ~(j < k)
    BY <1>2, <2>2, Zenon
  <2> QED
    BY <2>1, <2>3
<1> QED
  BY <1>3

LEMMA MinIn ==
  ASSUME NEW S \in SUBSET Nat, S # {}
  PROVE  Min(S) \in S
BY FirstOf, Zenon DEF Min

LEMMA PositionIn ==
  ASSUME NEW S, NEW q \in Seq(S), NEW n \in ToSet(q)
  PROVE  Position(q, n) \in 1 .. Len(q) /\ q[Position(q, n)] = n
<1>1. \E i \in DOMAIN q : q[i] = n
  BY DEF ToSet
<1>2. Position(q, n) \in DOMAIN q /\ q[Position(q, n)] = n
  BY <1>1, Zenon DEF Position
<1> QED
  BY <1>2

\* What follows position p of a sequence.
LEMMA Upper ==
  ASSUME NEW S, NEW q \in Seq(S), NEW p \in Nat, p <= Len(q)
  PROVE  /\ SubSeq(q, p + 1, Len(q)) \in Seq(S) /\ Len(SubSeq(q, p + 1, Len(q))) = Len(q) - p
         /\ \A i \in 1 .. Len(q) - p : SubSeq(q, p + 1, Len(q))[i] = q[p + i]
<1> DEFINE m == p + 1
           n == Len(q)
           high == SubSeq(q, m, n)
<1>1. /\ m \in Int /\ n \in Int /\ \A i \in m .. n : q[i] \in S
      /\ n \in Nat /\ p <= n
  OBVIOUS
<1>2. n - m + 1 = n - p /\ (m <= n \/ n - p = 0) /\ \A i \in 1 .. n - p : m + i - 1 = p + i
  BY <1>1
<1> HIDE DEF m, n
<1>3. /\ high \in Seq(S) /\ Len(high) = IF m <= n THEN n - m + 1 ELSE 0
      /\ \A i \in 1 .. n - m + 1 : high[i] = q[m + i - 1]
  BY <1>1, SubSeqProperties
<1> HIDE DEF high
<1>4. Len(high) = n - p
  BY <1>1, <1>2, <1>3 DEF m
<1>5. \A i \in 1 .. n - p : high[i] = q[p + i]
  BY <1>2, <1>3, Zenon
<1> QED
  BY <1>3, <1>4, <1>5, Zenon DEF high, m, n

\* Taking one entry out of a sequence without repetitions takes out that entry.
LEMMA OneRemoved ==
  ASSUME NEW S, NEW q \in Seq(S), IsInjective(q), NEW p \in 1 .. Len(q)
  PROVE  /\ RemoveAt(q, p) \in Seq(S) /\ IsInjective(RemoveAt(q, p))
         /\ ToSet(RemoveAt(q, p)) = ToSet(q) \ {q[p]}
<1> DEFINE low == SubSeq(q, 1, p - 1)
           high == SubSeq(q, p + 1, Len(q))
<1>1. Len(q) \in Nat /\ p \in Nat /\ p >= 1 /\ p <= Len(q) /\ DOMAIN q = 1 .. Len(q)
  OBVIOUS
<1>2. low \in Seq(S) /\ Len(low) = p - 1 /\ \A i \in 1 .. p - 1 : low[i] = q[i]
  BY <1>1, SubSeqProperties
<1>3. /\ high \in Seq(S) /\ Len(high) = Len(q) - p
      /\ \A i \in 1 .. Len(q) - p : high[i] = q[p + i]
  BY <1>1, Upper
<1> HIDE DEF low, high
<1>4. RemoveAt(q, p) = low \o high
  BY DEF RemoveAt, low, high
<1> DEFINE left == low \o high
<1>5. /\ left \in Seq(S) /\ Len(left) = Len(q) - 1
      /\ \A i \in 1 .. Len(q) - 1 : left[i] = IF i < p THEN q[i] ELSE q[i + 1]
  <2>1. left \in Seq(S) /\ Len(left) = Len(low) + Len(high)
    BY <1>2, <1>3, ConcatProperties
  <2>2. \A i \in 1 .. Len(low) + Len(high) : left[i] = IF i <= Len(low) THEN low[i] ELSE high[i - Len(low)]
    BY <1>2, <1>3, ConcatProperties
  <2>3. ASSUME NEW i \in 1 .. Len(q) - 1 PROVE left[i] = IF i < p THEN q[i] ELSE q[i + 1]
    <3>1. left[i] = IF i <= p - 1 THEN low[i] ELSE high[i - (p - 1)]
      BY <1>1, <1>2, <1>3, <2>2
    <3>2. CASE i < p
      <4>1. i <= p - 1 /\ i \in 1 .. p - 1
        BY <1>1, <3>2
      <4> QED
        BY <1>2, <3>1, <3>2, <4>1, Zenon
    <3>3. CASE i >= p
      <4>1. i - (p - 1) \in 1 .. Len(q) - p /\ p + (i - (p - 1)) = i + 1 /\ ~(i <= p - 1) /\ ~(i < p)
        BY <1>1, <3>3
      <4>2. left[i] = high[i - (p - 1)]
        BY <3>1, <4>1, Zenon
      <4>3. high[i - (p - 1)] = q[p + (i - (p - 1))]
        BY <1>3, <4>1, Zenon
      <4> QED
        BY <4>1, <4>2, <4>3, Zenon
    <3>4. i < p \/ i >= p
      BY <1>1
    <3> QED
      BY <3>2, <3>3, <3>4
  <2> QED
    BY <1>1, <1>2, <1>3, <2>1, <2>3
<1> HIDE DEF left
<1>6. DOMAIN left = 1 .. Len(q) - 1
  BY <1>1, <1>5
<1>7. IsInjective(left)
  <2> DEFINE at(i) == IF i < p THEN i ELSE i + 1
  <2>1. \A i \in 1 .. Len(q) - 1 : at(i) \in DOMAIN q /\ left[i] = q[at(i)]
    BY <1>1, <1>5
  <2>2. \A i, j \in 1 .. Len(q) - 1 : at(i) = at(j) => i = j
    BY <1>1
  <2> HIDE DEF at
  <2> QED
    BY <1>6, <2>1, <2>2, Zenon DEF IsInjective
<1>8. ToSet(left) = ToSet(q) \ {q[p]}
  <2>1. ASSUME NEW i \in 1 .. Len(q) - 1 PROVE left[i] \in ToSet(q) /\ left[i] # q[p]
    BY <1>1, <1>5, <2>1 DEF IsInjective, ToSet
  <2>2. ASSUME NEW j \in 1 .. Len(q), j # p PROVE q[j] \in ToSet(left)
    <3>1. CASE j < p
      BY <1>1, <1>5, <1>6, <3>1 DEF ToSet
    <3>2. CASE j > p
      <4>1. j - 1 \in 1 .. Len(q) - 1 /\ left[j - 1] = q[j]
        BY <1>1, <1>5, <3>2
      <4> QED
        BY <1>6, <4>1 DEF ToSet
    <3> QED
      BY <1>1, <2>2, <3>1, <3>2
  <2> QED
    BY <1>1, <1>6, <2>1, <2>2 DEF ToSet
<1> QED
  BY <1>4, <1>5, <1>7, <1>8 DEF left

LEMMA WithoutNode ==
  ASSUME NEW S, NIL \notin S, NEW tier, TierOf(S, tier), NEW n
  PROVE  /\ TierOf(S, Without(tier, n))
         /\ Resident(Without(tier, n)) = Resident(tier) \ {n}
<1> DEFINE q == tier.queue
           p == Position(q, n)
<1>1. /\ q \in Seq(S) /\ IsInjective(q) /\ tier.hand \in Resident(tier) \cup {NIL}
      /\ tier.hand \in S \cup {NIL} /\ tier.visited \in SUBSET S /\ Resident(tier) = ToSet(q)
  BY DEF TierOf, Resident
<1>2. CASE n \notin Resident(tier)
  BY <1>2 DEF Without
<1>3. CASE n \in Resident(tier)
  <2>1. p \in 1 .. Len(q) /\ q[p] = n
    BY <1>1, <1>3, PositionIn
  <2> DEFINE rest == RemoveAt(q, p)
             handAt == IF tier.hand = n THEN NextOf(q, n) ELSE tier.hand
  <2>2. rest \in Seq(S) /\ IsInjective(rest) /\ ToSet(rest) = ToSet(q) \ {n}
    BY <1>1, <2>1, OneRemoved
  <2>3. Without(tier, n) = [queue |-> rest, hand |-> handAt, visited |-> tier.visited \ {n}]
    BY <1>3 DEF Without
  <2>4. handAt \in ToSet(rest) \cup {NIL}
    <3>1. NextOf(q, n) = IF p = Len(q) THEN NIL ELSE q[p + 1]
      BY DEF NextOf
    <3>2. CASE tier.hand = n /\ p # Len(q)
      <4>1. p + 1 \in 1 .. Len(q) /\ DOMAIN q = 1 .. Len(q) /\ p + 1 # p
        BY <1>1, <2>1, <3>2
      <4>2. q[p + 1] \in ToSet(q) /\ q[p + 1] # q[p]
        BY <1>1, <2>1, <4>1 DEF IsInjective, ToSet
      <4> QED
        BY <2>1, <2>2, <3>1, <3>2, <4>2
    <3>3. CASE tier.hand = n /\ p = Len(q)
      BY <3>1, <3>3
    <3>4. CASE tier.hand # n
      BY <1>1, <2>2, <3>4
    <3> QED
      BY <3>2, <3>3, <3>4
  <2>5. ToSet(rest) \subseteq S
    BY <2>2 DEF ToSet
  <2> HIDE DEF rest, handAt
  <2> QED
    BY <1>1, <2>2, <2>3, <2>4, <2>5 DEF TierOf, Resident
<1> QED
  BY <1>2, <1>3

LEMMA HandOrderIn ==
  ASSUME NEW S, NIL \notin S, NEW tier, TierOf(S, tier)
  PROVE  /\ HandOrder(tier) \in Seq(S) /\ Len(HandOrder(tier)) = Len(tier.queue)
         /\ \A i \in DOMAIN HandOrder(tier) : HandOrder(tier)[i] \in Resident(tier)
         /\ tier.queue # <<>> => Start(tier) \in 1 .. Len(tier.queue)
<1> DEFINE q == tier.queue
           s == Start(tier)
<1>1. q \in Seq(S) /\ Len(q) \in Nat /\ DOMAIN q = 1 .. Len(q) /\ tier.hand \in Resident(tier) \cup {NIL}
  BY DEF TierOf
<1>2. s \in 1 .. Len(q) \/ (s = 1 /\ Len(q) = 0)
  <2>1. CASE tier.hand = NIL
    BY <1>1, <2>1 DEF Start
  <2>2. CASE tier.hand # NIL
    <3>1. tier.hand \in ToSet(q)
      BY <1>1, <2>2 DEF Resident
    <3>2. s = Position(q, tier.hand)
      BY <2>2 DEF Start
    <3> QED
      BY <1>1, <3>1, <3>2, PositionIn
  <2> QED
    BY <2>1, <2>2
<1> HIDE DEF s
<1>3. PICK p \in Nat : s = p + 1 /\ p <= Len(q)
  <2>1. s - 1 \in Nat /\ s = (s - 1) + 1 /\ s - 1 <= Len(q)
    BY <1>1, <1>2
  <2> QED
    BY <2>1
<1> DEFINE high == SubSeq(q, p + 1, Len(q))
           low == SubSeq(q, 1, p)
<1>4. /\ high \in Seq(S) /\ Len(high) = Len(q) - p
      /\ \A i \in 1 .. Len(q) - p : high[i] = q[p + i]
  BY <1>1, <1>3, Upper
<1>5. low \in Seq(S) /\ Len(low) = p /\ \A i \in 1 .. p : low[i] = q[i]
  <2>1. p \in Int /\ 1 \in Int /\ \A i \in 1 .. p : q[i] \in S
    BY <1>1, <1>3
  <2> QED
    BY <1>3, <2>1, SubSeqProperties
<1>6. HandOrder(tier) = high \o low
  <2>1. s - 1 = p
    BY <1>3
  <2> QED
    BY <1>3, <2>1 DEF HandOrder, s
<1> HIDE DEF high, low
<1>7. /\ high \o low \in Seq(S) /\ Len(high \o low) = Len(q)
      /\ \A i \in 1 .. Len(q) : (high \o low)[i] = IF i <= Len(q) - p THEN high[i] ELSE low[i - (Len(q) - p)]
  <2>1. high \o low \in Seq(S) /\ Len(high \o low) = Len(high) + Len(low)
    BY <1>4, <1>5, ConcatProperties
  <2>2. \A i \in 1 .. Len(high) + Len(low) :
          (high \o low)[i] = IF i <= Len(high) THEN high[i] ELSE low[i - Len(high)]
    BY <1>4, <1>5, ConcatProperties
  <2>3. Len(high) + Len(low) = Len(q)
    BY <1>1, <1>3, <1>4, <1>5
  <2> QED
    BY <1>4, <2>1, <2>2, <2>3
<1> DEFINE both == high \o low
<1>8. ASSUME NEW i \in 1 .. Len(q) PROVE both[i] \in Resident(tier)
  <2>1. CASE i <= Len(q) - p
    <3>1. i \in 1 .. Len(q) - p /\ p + i \in 1 .. Len(q)
      BY <1>1, <1>3, <2>1
    <3>2. both[i] = q[p + i]
      BY <1>4, <1>7, <2>1, <3>1
    <3> QED
      BY <1>1, <3>1, <3>2 DEF Resident, ToSet
  <2>2. CASE ~(i <= Len(q) - p)
    <3> DEFINE k == i - (Len(q) - p)
    <3>1. k \in 1 .. p /\ k \in 1 .. Len(q)
      BY <1>1, <1>3, <2>2
    <3>2. both[i] = low[k]
      BY <1>7, <2>2, Zenon
    <3> HIDE DEF k
    <3>3. both[i] = q[k]
      BY <1>5, <3>1, <3>2
    <3> QED
      BY <1>1, <3>1, <3>3 DEF Resident, ToSet
  <2> QED
    BY <2>1, <2>2
<1>9. DOMAIN both = 1 .. Len(q)
  BY <1>7
<1>10. tier.queue # <<>> => s \in 1 .. Len(q)
  BY <1>1, <1>2
<1> HIDE DEF both
<1> QED
  BY <1>6, <1>7, <1>8, <1>9, <1>10 DEF both, s

LEMMA EvictedNode ==
  ASSUME NEW S, NIL \notin S, NEW tier, TierOf(S, tier), NEW pinned
  PROVE  /\ TierOf(S, Evicted(tier, pinned).tier)
         /\ Resident(Evicted(tier, pinned).tier) \subseteq Resident(tier)
         /\ Evicted(tier, pinned).victim \in Resident(tier) \cup {NIL}
<1> DEFINE order == HandOrder(tier)
           free == {i \in DOMAIN order : order[i] \notin pinned}
           unvisited == {i \in free : order[i] \notin tier.visited}
           passed == IF unvisited = {} THEN Resident(tier)
                     ELSE {order[i] : i \in 1 .. Min(unvisited) - 1}
           victim == order[IF unvisited = {} THEN Min(free) ELSE Min(unvisited)]
           over == (Start(tier) + 1) % Len(order)
           out == Evicted(tier, pinned)
<1>1. /\ order \in Seq(S) /\ Len(order) = Len(tier.queue) /\ Len(order) \in Nat
      /\ \A i \in DOMAIN order : order[i] \in Resident(tier)
      /\ tier.queue # <<>> => Start(tier) \in 1 .. Len(tier.queue)
      /\ DOMAIN order = 1 .. Len(order)
  BY HandOrderIn
<1>2. /\ tier \in [queue : Seq(S), hand : S \cup {NIL}, visited : SUBSET S]
      /\ IsInjective(tier.queue) /\ tier.hand \in Resident(tier) \cup {NIL}
      /\ Resident(tier) \subseteq S
  BY DEF TierOf, Resident, ToSet
<1>3. CASE order = <<>>
  <2>1. out = [tier |-> tier, victim |-> NIL]
    BY <1>3 DEF Evicted
  <2> QED
    BY <2>1
<1>4. CASE order # <<>> /\ free = {}
  <2> DEFINE handAt == IF over = 0 THEN NIL ELSE tier.queue[over + 1]
  <2>1. out = [tier |-> [tier EXCEPT !.hand = handAt], victim |-> NIL]
    BY <1>4 DEF Evicted
  <2>2. handAt \in Resident(tier) \cup {NIL}
    <3>1. tier.queue # <<>> /\ Len(order) > 0
      BY <1>1, <1>2, <1>4
    <3>2. over \in 0 .. Len(order) - 1
      BY <1>1, <3>1
    <3>3. over + 1 \in DOMAIN tier.queue
      BY <1>1, <1>2, <3>2
    <3> QED
      BY <3>3 DEF Resident, ToSet
  <2> HIDE DEF handAt
  <2>3. TierOf(S, [tier EXCEPT !.hand = handAt]) /\ Resident([tier EXCEPT !.hand = handAt]) = Resident(tier)
    BY <1>2, <2>2 DEF TierOf, Resident
  <2> QED
    BY <2>1, <2>3
<1>5. CASE order # <<>> /\ free # {}
  <2> DEFINE marked == [tier EXCEPT !.hand = victim, !.visited = @ \ (passed \ pinned)]
  <2>1. out = [tier |-> Without(marked, victim), victim |-> victim]
    BY <1>5, Zenon DEF Evicted
  <2>2. victim \in Resident(tier)
    <3>1. /\ free \in SUBSET Nat /\ unvisited \in SUBSET Nat
          /\ free \subseteq DOMAIN order /\ unvisited \subseteq DOMAIN order
      BY <1>1
    <3> HIDE DEF free, unvisited, order
    <3>2. (IF unvisited = {} THEN Min(free) ELSE Min(unvisited)) \in DOMAIN order
      BY <1>5, <3>1, MinIn
    <3> QED
      BY <1>1, <3>2
  <2> HIDE DEF victim, passed
  <2>3. TierOf(S, marked) /\ Resident(marked) = Resident(tier)
    BY <1>2, <2>2 DEF TierOf, Resident
  <2> HIDE DEF marked
  <2>4. TierOf(S, Without(marked, victim)) /\ Resident(Without(marked, victim)) = Resident(tier) \ {victim}
    BY <2>3, WithoutNode
  <2> QED
    BY <2>1, <2>2, <2>4
<1> QED
  BY <1>3, <1>4, <1>5

LEMMA InsertedNode ==
  ASSUME NEW S, NIL \notin S, NEW tier, TierOf(S, tier), NEW n \in S,
         NEW capacity, NEW warm, NEW pinned
  PROVE  LET done == Inserted(tier, n, capacity, warm, pinned)
         IN /\ TierOf(S, done.tier) /\ Resident(done.tier) \subseteq Resident(tier) \cup {n}
            /\ done.kind \in {"stored", "refused", "evicting"}
            /\ done.kind = "evicting" => done.victim \in Resident(tier)
<1> DEFINE done == Inserted(tier, n, capacity, warm, pinned)
           out == Evicted(tier, pinned)
           WithNode(t) == [t EXCEPT !.queue = Append(@, n), !.visited = @ \cup ({n} \cap warm)]
<1>1. ASSUME NEW t, TierOf(S, t), n \notin Resident(t)
      PROVE  TierOf(S, WithNode(t)) /\ Resident(WithNode(t)) = Resident(t) \cup {n}
  <2>1. /\ t \in [queue : Seq(S), hand : S \cup {NIL}, visited : SUBSET S]
        /\ IsInjective(t.queue) /\ t.hand \in Resident(t) \cup {NIL}
    BY <1>1 DEF TierOf
  <2> DEFINE long == Append(t.queue, n)
  <2>2. /\ long \in Seq(S) /\ Len(t.queue) \in Nat /\ DOMAIN t.queue = 1 .. Len(t.queue)
        /\ DOMAIN long = 1 .. Len(t.queue) + 1
        /\ \A i \in 1 .. Len(t.queue) + 1 : long[i] = IF i <= Len(t.queue) THEN t.queue[i] ELSE n
    BY <2>1
  <2> HIDE DEF long
  <2>3. ToSet(long) = ToSet(t.queue) \cup {n}
    <3>1. ToSet(long) \subseteq ToSet(t.queue) \cup {n}
      BY <2>2 DEF ToSet
    <3>2. n \in ToSet(long)
      <4>1. Len(t.queue) + 1 \in DOMAIN long /\ long[Len(t.queue) + 1] = n
        BY <2>2
      <4> QED
        BY <4>1 DEF ToSet
    <3>3. ToSet(t.queue) \subseteq ToSet(long)
      BY <2>2 DEF ToSet
    <3> QED
      BY <3>1, <3>2, <3>3
  <2>4. IsInjective(long)
    <3>1. \A i \in 1 .. Len(t.queue) : t.queue[i] # n
      BY <1>1, <2>2 DEF Resident, ToSet
    <3> QED
      BY <2>1, <2>2, <3>1 DEF IsInjective
  <2>5. WithNode(t) = [queue |-> long, hand |-> t.hand, visited |-> t.visited \cup ({n} \cap warm)]
    <3>1. WithNode(t) = [[t EXCEPT !.queue = long] EXCEPT !.visited = t.visited \cup ({n} \cap warm)]
      BY <2>1 DEF long
    <3>2. [t EXCEPT !.queue = long] = [queue |-> long, hand |-> t.hand, visited |-> t.visited]
      BY <2>1
    <3> HIDE DEF WithNode
    <3> QED
      BY <3>1, <3>2
  <2> HIDE DEF WithNode
  <2> QED
    BY <2>1, <2>2, <2>3, <2>4, <2>5 DEF TierOf, Resident
<1>2. CASE n \in Resident(tier)
  <2>1. done = [tier |-> Touched(tier, n), kind |-> "stored", victim |-> NIL]
    BY <1>2 DEF Inserted
  <2>2. TierOf(S, Touched(tier, n)) /\ Resident(Touched(tier, n)) = Resident(tier)
    BY DEF TierOf, Resident, Touched
  <2> QED
    BY <2>1, <2>2
<1>3. CASE n \notin Resident(tier) /\ Len(tier.queue) < capacity
  <2>1. done = [tier |-> WithNode(tier), kind |-> "stored", victim |-> NIL]
    BY <1>3 DEF Inserted
  <2> HIDE DEF WithNode
  <2> QED
    BY <1>1, <1>3, <2>1
<1>4. CASE n \notin Resident(tier) /\ ~(Len(tier.queue) < capacity)
  <2>1. done = IF out.victim = NIL THEN [tier |-> out.tier, kind |-> "refused", victim |-> NIL]
               ELSE [tier |-> WithNode(out.tier), kind |-> "evicting", victim |-> out.victim]
    BY <1>4, Zenon DEF Inserted
  <2>2. /\ TierOf(S, out.tier) /\ Resident(out.tier) \subseteq Resident(tier)
        /\ out.victim \in Resident(tier) \cup {NIL}
    BY EvictedNode
  <2> HIDE DEF WithNode, out
  <2>3. TierOf(S, WithNode(out.tier)) /\ Resident(WithNode(out.tier)) = Resident(out.tier) \cup {n}
    BY <1>1, <1>4, <2>2
  <2> HIDE DEF done
  <2>4. CASE out.victim = NIL
    BY <2>1, <2>2, <2>4 DEF done
  <2>5. CASE out.victim # NIL
    BY <2>1, <2>2, <2>3, <2>5 DEF done
  <2> QED
    BY <2>4, <2>5 DEF done
<1> QED
  BY <1>2, <1>3, <1>4

\* Induction along a sequence.
LEMMA Along ==
  ASSUME NEW T, NEW n \in Nat, NEW h, h[0] \in T,
         \A i \in 1 .. n : h[i - 1] \in T => h[i] \in T
  PROVE  h[n] \in T
<1> DEFINE Wrong == {i \in 0 .. n : h[i] \notin T}
<1> SUFFICES ASSUME Wrong # {} PROVE FALSE
  OBVIOUS
<1>1. PICK k \in Wrong : \A j \in Wrong : k <= j
  <2>1. Wrong \in SUBSET Nat
    OBVIOUS
  <2> HIDE DEF Wrong
  <2> QED
    BY <2>1, FirstOf
<1>2. k \in 1 .. n
  BY <1>1
<1>3. k - 1 \in 0 .. n /\ ~(k <= k - 1)
  BY <1>2
<1>4. h[k - 1] \in T
  BY <1>1, <1>3
<1> QED
  BY <1>1, <1>2, <1>4

IsRun(g, F, base, n, T) ==
  /\ g \in [0 .. n -> T] /\ g[0] = base
  /\ \A i \in 1 .. n : g[i] = F[<<g[i - 1], i>>]

\* What takes a value and an entry to a value can be repeated along a sequence.
LEMMA Repeated ==
  ASSUME NEW T, NEW base, base \in T, NEW n, n \in Nat, NEW F, F \in [T \X (1 .. n) -> T]
  PROVE  \E g : IsRun(g, F, base, n, T)
<1> USE DEF IsRun
<1> DEFINE Runs(k) == {g \in [0 .. k -> T] : g[0] = base /\ \A i \in 1 .. k : g[i] = F[<<g[i - 1], i>>]}
           Wrong == {k \in 0 .. n : Runs(k) = {}}
<1> SUFFICES ASSUME Wrong # {} PROVE FALSE
  <2>1. n \in 0 .. n
    OBVIOUS
  <2>2. ASSUME Wrong = {} PROVE \E g : g \in Runs(n)
    BY <2>1, <2>2
  <2>3. ASSUME NEW g, g \in Runs(n) PROVE IsRun(g, F, base, n, T)
    BY <2>3
  <2> QED
    BY <2>2, <2>3, Zenon
<1>1. PICK k \in Wrong : \A j \in Wrong : k <= j
  <2>1. Wrong \in SUBSET Nat
    OBVIOUS
  <2> HIDE DEF Wrong
  <2> QED
    BY <2>1, FirstOf
<1>2. CASE k = 0
  <2>1. [i \in 0 .. 0 |-> base] \in Runs(0)
    OBVIOUS
  <2> QED
    BY <1>1, <1>2, <2>1
<1>3. CASE k # 0
  <2>1. k \in 1 .. n /\ k - 1 \in 0 .. n /\ ~(k <= k - 1)
    BY <1>1, <1>3
  <2>2. PICK g \in Runs(k - 1) : TRUE
    BY <1>1, <2>1
  <2> DEFINE next == F[<<g[k - 1], k>>]
             h == [i \in 0 .. k |-> IF i = k THEN next ELSE g[i]]
  <2>3. g[k - 1] \in T /\ next \in T
    BY <2>1, <2>2
  <2>4. h \in [0 .. k -> T]
    <3>1. \A i \in 0 .. k : i # k => i \in 0 .. k - 1
      BY <2>1
    <3> HIDE DEF next
    <3> QED
      BY <2>2, <2>3, <3>1
  <2>5. h[0] = base
    BY <2>1, <2>2
  <2>6. ASSUME NEW i \in 1 .. k PROVE h[i] = F[<<h[i - 1], i>>]
    <3>1. CASE i = k
      <4>1. h[k] = next /\ h[k - 1] = g[k - 1]
        BY <2>1
      <4> QED
        BY <3>1, <4>1, Zenon
    <3>2. CASE i # k
      <4>1. i \in 1 .. k - 1 /\ i - 1 \in 0 .. k /\ i - 1 # k /\ i \in 0 .. k
        BY <2>1, <3>2
      <4>2. h[i] = g[i] /\ h[i - 1] = g[i - 1]
        BY <3>2, <4>1, Zenon
      <4> QED
        BY <2>2, <4>1, <4>2, Zenon
    <3> QED
      BY <3>1, <3>2
  <2> HIDE DEF h
  <2>7. h \in Runs(k)
    BY <2>4, <2>5, <2>6
  <2> QED
    BY <1>1, <2>7
<1> QED
  BY <1>2, <1>3

LEMMA WithoutNodes ==
  ASSUME NEW S, NIL \notin S, NEW tier, TierOf(S, tier), NEW nodes \in Seq(S)
  PROVE  TierOf(S, WithoutAll(tier, nodes))
<1> DEFINE n == Len(nodes)
           T == {t \in [queue : Seq(S), hand : S \cup {NIL}, visited : SUBSET S] : TierOf(S, t)}
           F == [x \in T \X (1 .. n) |-> Without(x[1], nodes[x[2]])]
           Run(g) == [i \in 0 .. n |-> IF i = 0 THEN tier ELSE Without(g[i - 1], nodes[i])]
           left == CHOOSE g : g = Run(g)
<1>1. n \in Nat /\ tier \in T
  BY DEF TierOf
<1>2. \A t \in T : \A m : Without(t, m) \in T
  <2> SUFFICES ASSUME NEW t \in T, NEW m PROVE Without(t, m) \in T
    OBVIOUS
  <2>1. TierOf(S, Without(t, m))
    BY WithoutNode
  <2> QED
    BY <2>1 DEF TierOf
<1> HIDE DEF T
<1>3. F \in [T \X (1 .. n) -> T]
  BY <1>2
<1>4. \A t \in T, i \in 1 .. n : F[<<t, i>>] = Without(t, nodes[i])
  OBVIOUS
<1> HIDE DEF F, n
<1>5. PICK g : IsRun(g, F, tier, n, T)
  BY <1>1, <1>3, Repeated, Zenon
<1>6. \A i \in 1 .. n : g[i] = Without(g[i - 1], nodes[i])
  <2> TAKE i \in 1 .. n
  <2>1. i - 1 \in 0 .. n
    BY <1>1
  <2>2. g[i - 1] \in T
    BY <1>5, <2>1 DEF IsRun
  <2> QED
    BY <1>4, <1>5, <2>2, Zenon DEF IsRun
<1>7. g = Run(g)
  BY <1>1, <1>5, <1>6 DEF IsRun
<1> HIDE DEF Run
<1>8. left = Run(left)
  BY <1>7, Zenon
<1>9. WithoutAll(tier, nodes) = left[n]
  BY DEF WithoutAll, left, Run, n
<1> HIDE DEF left
<1>10. left[0] = tier /\ \A i \in 1 .. n : left[i] = Without(left[i - 1], nodes[i])
  BY <1>1, <1>8 DEF Run
<1>11. left[n] \in T
  BY <1>1, <1>2, <1>10, Along
<1> QED
  BY <1>9, <1>11 DEF T

LEMMA AddedNodes ==
  ASSUME NEW S, NIL \notin S, NEW tier, TierOf(S, tier), NEW nodes \in Seq(S),
         NEW capacity, NEW warm, NEW pinned
  PROVE  LET done == AddedAll(tier, nodes, capacity, warm, pinned)
         IN TierOf(S, done.tier) /\ done.out \in Seq(S)
<1> DEFINE n == Len(nodes)
           T == {a \in [tier : [queue : Seq(S), hand : S \cup {NIL}, visited : SUBSET S], out : Seq(S)] :
                   TierOf(S, a.tier)}
           F == [x \in T \X (1 .. n) |-> Added(x[1], nodes[x[2]], capacity, warm, pinned)]
           base == [tier |-> tier, out |-> <<>>]
           Run(g) == [i \in 0 .. n |-> IF i = 0 THEN base
                                       ELSE Added(g[i - 1], nodes[i], capacity, warm, pinned)]
           added == CHOOSE g : g = Run(g)
<1>1. n \in Nat /\ base \in T
  BY DEF TierOf
<1>2. ASSUME NEW a \in T, NEW m \in S PROVE Added(a, m, capacity, warm, pinned) \in T
  <2> DEFINE done == Inserted(a.tier, m, capacity, warm, pinned)
             out == CASE done.kind = "stored" -> a.out
                      [] done.kind = "evicting" -> Append(a.out, done.victim)
                      [] done.kind = "refused" -> Append(a.out, m)
  <2>1. /\ TierOf(S, done.tier)
        /\ done.kind \in {"stored", "refused", "evicting"}
        /\ done.kind = "evicting" => done.victim \in Resident(a.tier)
    BY InsertedNode
  <2>2. Resident(a.tier) \subseteq S
    BY DEF TierOf, Resident, ToSet
  <2>3. Added(a, m, capacity, warm, pinned) = [tier |-> done.tier, out |-> out]
    BY Zenon DEF Added
  <2> HIDE DEF done
  <2>4. out \in Seq(S)
    BY <2>1, <2>2
  <2> HIDE DEF out
  <2> QED
    BY <2>1, <2>3, <2>4 DEF TierOf
<1> HIDE DEF T, base
<1>3. \A i \in 1 .. n : nodes[i] \in S
  OBVIOUS
<1>4. F \in [T \X (1 .. n) -> T]
  BY <1>2, <1>3
<1>5. \A a \in T, i \in 1 .. n : F[<<a, i>>] = Added(a, nodes[i], capacity, warm, pinned)
  OBVIOUS
<1> HIDE DEF F, n
<1>6. PICK g : IsRun(g, F, base, n, T)
  BY <1>1, <1>4, Repeated, Zenon
<1>7. \A i \in 1 .. n : g[i] = Added(g[i - 1], nodes[i], capacity, warm, pinned)
  <2> TAKE i \in 1 .. n
  <2>1. i - 1 \in 0 .. n
    BY <1>1
  <2>2. g[i - 1] \in T
    BY <1>6, <2>1 DEF IsRun
  <2> QED
    BY <1>5, <1>6, <2>2, Zenon DEF IsRun
<1>8. g = Run(g)
  BY <1>1, <1>6, <1>7 DEF IsRun
<1> HIDE DEF Run
<1>9. added = Run(added)
  BY <1>8, Zenon
<1>10. AddedAll(tier, nodes, capacity, warm, pinned) = added[n]
  BY DEF AddedAll, added, Run, n, base
<1> HIDE DEF added
<1>11. added[0] = base
       /\ \A i \in 1 .. n : added[i] = Added(added[i - 1], nodes[i], capacity, warm, pinned)
  BY <1>1, <1>9 DEF Run
<1>12. added[n] \in T
  <2>1. \A i \in 1 .. n : added[i - 1] \in T => added[i] \in T
    BY <1>2, <1>3, <1>11
  <2> QED
    BY <1>1, <1>11, <2>1, Along, Zenon
<1> QED
  BY <1>10, <1>12 DEF T

LEMMA TierWithin ==
  ASSUME NEW S, NEW U, S \subseteq U, NEW tier, TierOf(S, tier)
  PROVE  TierOf(U, tier)
BY DEF TierOf, Resident

LEMMA EntriesOf ==
  ASSUME NEW S, NEW seq \in Seq(S), NEW set, NEW r \in Only(seq, set)
  PROVE  r \in Seq(S) /\ ToSet(r) \subseteq ToSet(seq) \cap set /\ r \in Seq(S \cap set)
<1> DEFINE chosen == {i \in DOMAIN seq : seq[i] \in set}
<1>1. PICK at \in [1 .. Cardinality(chosen) -> chosen] : r = [i \in DOMAIN at |-> seq[at[i]]]
  BY DEF Only
<1>2. DOMAIN at = 1 .. Cardinality(chosen)
      /\ \A i \in DOMAIN at : at[i] \in DOMAIN seq /\ seq[at[i]] \in S /\ seq[at[i]] \in set
  OBVIOUS
<1>3. Cardinality(chosen) \in Nat
  <2>1. IsFiniteSet(1 .. Len(seq))
    BY FS_Interval
  <2>2. chosen \in SUBSET (1 .. Len(seq))
    OBVIOUS
  <2> QED
    BY <2>1, <2>2, FS_Subset, FS_CardinalityType
<1> HIDE DEF chosen
<1>4. /\ r \in Seq(S) /\ r \in Seq(S \cap set)
      /\ DOMAIN r = DOMAIN at /\ \A i \in DOMAIN at : r[i] = seq[at[i]]
  BY <1>1, <1>2, <1>3
<1>5. \A i \in DOMAIN r : r[i] \in ToSet(seq) /\ r[i] \in set
  BY <1>2, <1>4 DEF ToSet
<1> QED
  BY <1>4, <1>5 DEF ToSet

-----------------------------------------------------------------------------

PerLoader(v) == v = [c \in Loaders |-> v[c]]

LoaderOK(c) ==
  /\ rows[c] \in Seq(IF step[c] = "save" THEN CacheNodes ELSE Backed)
  /\ demoted[c] \in Seq(Backed) /\ known[c] \subseteq Backed
  /\ missing[c] \in Seq(CacheNodes) /\ spills[c] \in Seq(CacheNodes)
  /\ step[c] \in {"admit", "cold"} => \A n \in ToSet(missing[c]) : n \in known[c] => n \in cold

\* Every row in a memory tier, or on its way between them, has a copy below;
\* what a call still misses once the spill file was read, and could be served
\* when the call began, is in the cold store.
CacheInv ==
  /\ present \subseteq CacheNodes /\ cold \subseteq CacheNodes
  /\ TierOf(Backed, gpu) /\ TierOf(Backed, cpu)
  /\ PerLoader(step) /\ PerLoader(rows) /\ PerLoader(missing) /\ PerLoader(demoted)
  /\ PerLoader(spills) /\ PerLoader(known)
  /\ \A c \in Loaders : LoaderOK(c)
  /\ falseMisses = {}

LEMMA CacheInitInv == CacheInit => CacheInv
<1> SUFFICES ASSUME CacheInit PROVE CacheInv
  OBVIOUS
<1>1. present \subseteq CacheNodes /\ cold \subseteq CacheNodes /\ falseMisses = {}
  BY CacheAssumption DEF CacheInit
<1>2. TierOf(Backed, EmptyTier)
  BY DEF TierOf, EmptyTier, Resident, IsInjective
<1>3. /\ PerLoader(step) /\ PerLoader(rows) /\ PerLoader(missing) /\ PerLoader(demoted)
      /\ PerLoader(spills) /\ PerLoader(known)
  BY DEF CacheInit, PerLoader
<1>4. \A c \in Loaders : LoaderOK(c)
  BY DEF CacheInit, LoaderOK
<1> QED
  BY <1>1, <1>2, <1>3, <1>4 DEF CacheInv, CacheInit

\* What a step of one loader has to establish.
LEMMA OneLoader ==
  ASSUME CacheInv, NEW c \in Loaders,
         cold' = cold, present \subseteq present', present' \subseteq CacheNodes,
         step' = [step EXCEPT ![c] = step'[c]], rows' = [rows EXCEPT ![c] = rows'[c]],
         missing' = [missing EXCEPT ![c] = missing'[c]], demoted' = [demoted EXCEPT ![c] = demoted'[c]],
         spills' = [spills EXCEPT ![c] = spills'[c]], known' = [known EXCEPT ![c] = known'[c]],
         LoaderOK(c)', TierOf(Backed', gpu'), TierOf(Backed', cpu'), falseMisses' = {}
  PROVE  CacheInv'
<1>1. Backed \subseteq Backed' /\ cold' \subseteq CacheNodes
  BY DEF Backed, CacheInv
<1>2. ASSUME NEW d \in Loaders, d # c PROVE LoaderOK(d)'
  <2>1. /\ step'[d] = step[d] /\ rows'[d] = rows[d] /\ missing'[d] = missing[d]
        /\ demoted'[d] = demoted[d] /\ spills'[d] = spills[d] /\ known'[d] = known[d]
    BY <1>2 DEF CacheInv, PerLoader
  <2>2. LoaderOK(d)
    BY DEF CacheInv
  <2>3. Seq(Backed) \subseteq Seq(Backed')
    BY <1>1
  <2> QED
    BY <1>1, <2>1, <2>2, <2>3 DEF LoaderOK
<1>3. \A d \in Loaders : LoaderOK(d)'
  BY <1>2
<1>4. /\ PerLoader(step)' /\ PerLoader(rows)' /\ PerLoader(missing)' /\ PerLoader(demoted)'
      /\ PerLoader(spills)' /\ PerLoader(known)'
  BY DEF CacheInv, PerLoader
<1> HIDE DEF LoaderOK
<1> QED
  BY <1>1, <1>3, <1>4 DEF CacheInv

\* Hits leave a tier's nodes as they are.
LEMMA TouchedTier ==
  ASSUME NEW S, NEW tier, TierOf(S, tier), NEW nodes \in SUBSET S
  PROVE  TierOf(S, Touch(tier, nodes))
BY DEF TierOf, Touch, Resident

LEMMA BackedNodes == CacheInv => Backed \subseteq CacheNodes /\ NIL \notin Backed
  BY CacheAssumption DEF CacheInv, Backed

LEMMA Went ==
  ASSUME CacheInv, NEW c \in Loaders, NEW s, Goto(c, s)
  PROVE  /\ step'[c] = s /\ step' = [step EXCEPT ![c] = step'[c]]
         /\ known' = [known EXCEPT ![c] = known'[c]] /\ known'[c] \subseteq known[c]
         /\ known'[c] \subseteq Backed
<1>1. known = [d \in Loaders |-> known[d]] /\ step = [d \in Loaders |-> step[d]] /\ known[c] \subseteq Backed
  BY DEF CacheInv, PerLoader, LoaderOK
<1>2. step' = [step EXCEPT ![c] = s] /\ known' \in {known, [known EXCEPT ![c] = {}]}
  BY DEF Goto
<1> QED
  BY <1>1, <1>2

LEMMA Begun ==
  ASSUME CacheInv, NEW c \in Loaders, NEW s, BeginCall(c, s)
  PROVE  /\ step'[c] = s /\ step' = [step EXCEPT ![c] = step'[c]]
         /\ known' = [known EXCEPT ![c] = known'[c]] /\ known'[c] \subseteq Backed
         /\ step[c] = "idle" /\ falseMisses' = falseMisses
<1>1. known = [d \in Loaders |-> known[d]] /\ step = [d \in Loaders |-> step[d]]
  BY DEF CacheInv, PerLoader
<1>2. Resident(gpu) \subseteq Backed /\ Resident(cpu) \subseteq Backed
  BY DEF CacheInv, TierOf, Resident, ToSet
<1> DEFINE at == IF s = "idle" THEN {} ELSE Backed \cup Resident(gpu) \cup Resident(cpu)
<1>3. at \subseteq Backed
  BY <1>2
<1>4. /\ step' = [step EXCEPT ![c] = s] /\ known' = [known EXCEPT ![c] = at]
      /\ step[c] = "idle" /\ falseMisses' = falseMisses
  BY DEF BeginCall
<1> HIDE DEF at
<1> QED
  BY <1>1, <1>3, <1>4

\* What changes for one loader only, and what does not change.
LEMMA SameTables ==
  ASSUME CacheInv, NEW c \in Loaders
  PROVE  /\ rows = [rows EXCEPT ![c] = rows[c]] /\ missing = [missing EXCEPT ![c] = missing[c]]
         /\ demoted = [demoted EXCEPT ![c] = demoted[c]] /\ spills = [spills EXCEPT ![c] = spills[c]]
         /\ LoaderOK(c) /\ TierOf(Backed, gpu) /\ TierOf(Backed, cpu)
         /\ present \subseteq CacheNodes /\ falseMisses = {}
         /\ \A v : /\ [rows EXCEPT ![c] = v][c] = v /\ [missing EXCEPT ![c] = v][c] = v
                   /\ [demoted EXCEPT ![c] = v][c] = v /\ [spills EXCEPT ![c] = v][c] = v
BY DEF CacheInv, PerLoader

LEMMA CacheReadGpu ==
  ASSUME CacheInv, NEW c \in Loaders, ReadGpu(c)
  PROVE  CacheInv'
<1>1. PICK batch \in Batches(c) : \E r \in Only(batch, CacheNodes \ Resident(gpu)) :
        /\ gpu' = Touch(gpu, ToSet(batch) \cap Resident(gpu))
        /\ missing' = [missing EXCEPT ![c] = r]
        /\ BeginCall(c, IF r = <<>> THEN "idle" ELSE "cpu")
  BY DEF ReadGpu
<1>2. PICK r \in Only(batch, CacheNodes \ Resident(gpu)) :
        /\ gpu' = Touch(gpu, ToSet(batch) \cap Resident(gpu))
        /\ missing' = [missing EXCEPT ![c] = r]
        /\ BeginCall(c, IF r = <<>> THEN "idle" ELSE "cpu")
  BY <1>1
<1>3. /\ cold' = cold /\ present' = present /\ cpu' = cpu /\ rows' = rows /\ demoted' = demoted
      /\ spills' = spills /\ Backed' = Backed
  BY DEF ReadGpu, Backed
<1>4. batch \in Seq(CacheNodes)
  BY CacheAssumption DEF Batches
<1>5. r \in Seq(CacheNodes)
  BY <1>2, <1>4, EntriesOf
<1>6. TierOf(Backed', gpu')
  <2>1. ToSet(batch) \cap Resident(gpu) \in SUBSET Backed
    BY SameTables DEF TierOf, Resident, ToSet
  <2> QED
    BY <1>2, <1>3, <2>1, SameTables, TouchedTier
<1>7. /\ step'[c] \in {"idle", "cpu"} /\ step[c] = "idle" /\ step' = [step EXCEPT ![c] = step'[c]]
      /\ known' = [known EXCEPT ![c] = known'[c]] /\ known'[c] \subseteq Backed /\ falseMisses' = falseMisses
  BY <1>2, Begun
<1>8. LoaderOK(c)'
  <2>1. missing'[c] = r
    BY <1>2, SameTables
  <2> QED
    BY <1>3, <1>5, <1>7, <2>1, SameTables DEF LoaderOK
<1> QED
  BY <1>2, <1>3, <1>6, <1>7, <1>8, SameTables, OneLoader

LEMMA CacheReadCpu ==
  ASSUME CacheInv, NEW c \in Loaders, ReadCpu(c)
  PROVE  CacheInv'
<1>1. PICK hits \in Only(missing[c], Resident(cpu)), r \in Only(missing[c], CacheNodes \ Resident(cpu)) :
        /\ cpu' = Touch(cpu, ToSet(hits))
        /\ rows' = [rows EXCEPT ![c] = hits]
        /\ missing' = [missing EXCEPT ![c] = r]
        /\ Goto(c, IF hits = <<>> THEN "nvme" ELSE "promote")
  BY DEF ReadCpu
<1>2. /\ cold' = cold /\ present' = present /\ gpu' = gpu /\ demoted' = demoted /\ spills' = spills
      /\ Backed' = Backed /\ falseMisses' = falseMisses
  BY DEF ReadCpu, Backed
<1>3. missing[c] \in Seq(CacheNodes) /\ Resident(cpu) \subseteq Backed
  BY SameTables DEF LoaderOK, TierOf, Resident, ToSet
<1>4. r \in Seq(CacheNodes) /\ hits \in Seq(CacheNodes \cap Resident(cpu)) /\ ToSet(hits) \in SUBSET Backed
  <2>1. r \in Seq(CacheNodes)
    BY <1>1, <1>3, EntriesOf
  <2>2. hits \in Seq(CacheNodes \cap Resident(cpu)) /\ ToSet(hits) \subseteq Resident(cpu)
    BY <1>1, <1>3, EntriesOf
  <2> QED
    BY <1>3, <2>1, <2>2
<1>5. hits \in Seq(Backed)
  BY <1>3, <1>4
<1>6. TierOf(Backed', cpu')
  BY <1>1, <1>2, <1>4, SameTables, TouchedTier
<1>7. /\ step'[c] \in {"nvme", "promote"} /\ step' = [step EXCEPT ![c] = step'[c]]
      /\ known' = [known EXCEPT ![c] = known'[c]] /\ known'[c] \subseteq Backed
  BY <1>1, Went
<1>8. LoaderOK(c)'
  <2>1. missing'[c] = r /\ rows'[c] = hits
    BY <1>1, SameTables
  <2> QED
    BY <1>2, <1>4, <1>5, <1>7, <2>1, SameTables DEF LoaderOK
<1> QED
  BY <1>1, <1>2, <1>6, <1>7, <1>8, SameTables, OneLoader

LEMMA CachePromote ==
  ASSUME CacheInv, NEW c \in Loaders, Promote(c)
  PROVE  CacheInv'
<1> DEFINE done == AddedAll(gpu, rows[c], GpuCapacity, WarmNodes, PinnedNodes)
<1>1. /\ gpu' = done.tier /\ demoted' = [demoted EXCEPT ![c] = done.out] /\ Goto(c, "settle")
      /\ step[c] = "promote"
  BY DEF Promote
<1>2. /\ cold' = cold /\ present' = present /\ cpu' = cpu /\ rows' = rows /\ missing' = missing
      /\ spills' = spills /\ Backed' = Backed /\ falseMisses' = falseMisses
  BY DEF Promote, Backed
<1>3. rows[c] \in Seq(Backed)
  BY <1>1, SameTables DEF LoaderOK
<1>4. TierOf(Backed, done.tier) /\ done.out \in Seq(Backed)
  BY <1>3, BackedNodes, SameTables, AddedNodes
<1> HIDE DEF done
<1>5. /\ step'[c] = "settle" /\ step' = [step EXCEPT ![c] = step'[c]]
      /\ known' = [known EXCEPT ![c] = known'[c]] /\ known'[c] \subseteq Backed
  BY <1>1, Went
<1>6. LoaderOK(c)'
  <2>1. demoted'[c] = done.out
    BY <1>1, SameTables
  <2> QED
    BY <1>2, <1>3, <1>4, <1>5, <2>1, SameTables DEF LoaderOK
<1> QED
  BY <1>1, <1>2, <1>4, <1>5, <1>6, SameTables, OneLoader

LEMMA AdmittedNodes ==
  ASSUME CacheInv, NEW c \in Loaders, NEW tier, TierOf(Backed, tier), NEW nodes \in Seq(Backed),
         AdmitAll(c, tier, nodes)
  PROVE  /\ TierOf(Backed, cpu') /\ spills'[c] \in Seq(CacheNodes)
         /\ spills' = [spills EXCEPT ![c] = spills'[c]]
<1> DEFINE done == AddedAll(tier, nodes, CpuCapacity, WarmNodes, {})
<1>1. TierOf(Backed, done.tier) /\ done.out \in Seq(Backed)
  BY BackedNodes, AddedNodes
<1>2. cpu' = done.tier
      /\ \E lost \in Only(done.out, CacheNodes \ Backed) : spills' = [spills EXCEPT ![c] = @ \o lost]
  BY DEF AdmitAll
<1> HIDE DEF done
<1>3. PICK lost \in Only(done.out, CacheNodes \ Backed) : spills' = [spills EXCEPT ![c] = spills[c] \o lost]
  BY <1>2
<1>4. lost \in Seq(CacheNodes) /\ spills[c] \in Seq(CacheNodes)
  <2>1. Backed \subseteq CacheNodes /\ spills[c] \in Seq(CacheNodes)
    BY BackedNodes, SameTables DEF LoaderOK
  <2>2. done.out \in Seq(CacheNodes)
    BY <1>1, <2>1
  <2> QED
    BY <1>3, <2>1, <2>2, EntriesOf
<1>5. spills'[c] = spills[c] \o lost
  BY <1>3, SameTables
<1>6. spills' = [spills EXCEPT ![c] = spills'[c]]
  BY <1>3, <1>5
<1>7. spills'[c] \in Seq(CacheNodes)
  BY <1>4, <1>5
<1> QED
  BY <1>1, <1>2, <1>6, <1>7

LEMMA CacheSettle ==
  ASSUME CacheInv, NEW c \in Loaders, Settle(c)
  PROVE  CacheInv'
<1>1. /\ AdmitAll(c, WithoutAll(cpu, rows[c]), demoted[c]) /\ step[c] = "settle"
      /\ rows' = [rows EXCEPT ![c] = <<>>] /\ demoted' = [demoted EXCEPT ![c] = <<>>]
      /\ Goto(c, IF missing[c] = <<>> THEN "spill" ELSE "nvme")
  BY DEF Settle
<1>2. /\ cold' = cold /\ present' = present /\ gpu' = gpu /\ missing' = missing
      /\ Backed' = Backed /\ falseMisses' = falseMisses
  BY DEF Settle, Backed
<1>3. rows[c] \in Seq(Backed) /\ demoted[c] \in Seq(Backed)
  BY <1>1, SameTables DEF LoaderOK
<1>4. TierOf(Backed, WithoutAll(cpu, rows[c]))
  BY <1>3, BackedNodes, SameTables, WithoutNodes
<1>5. /\ TierOf(Backed, cpu') /\ spills'[c] \in Seq(CacheNodes)
      /\ spills' = [spills EXCEPT ![c] = spills'[c]]
  BY <1>1, <1>3, <1>4, AdmittedNodes
<1>6. /\ step'[c] \in {"spill", "nvme"} /\ step' = [step EXCEPT ![c] = step'[c]]
      /\ known' = [known EXCEPT ![c] = known'[c]] /\ known'[c] \subseteq Backed
  BY <1>1, Went
<1>7. LoaderOK(c)'
  <2>1. rows'[c] = <<>> /\ demoted'[c] = <<>>
    BY <1>1, SameTables
  <2> QED
    BY <1>2, <1>5, <1>6, <2>1, SameTables DEF LoaderOK
<1> QED
  BY <1>1, <1>2, <1>5, <1>6, <1>7, SameTables, OneLoader

LEMMA CacheAdmit ==
  ASSUME CacheInv, NEW c \in Loaders, Admit(c)
  PROVE  CacheInv'
<1>1. /\ AdmitAll(c, cpu, rows[c]) /\ step[c] = "admit"
      /\ rows' = [rows EXCEPT ![c] = <<>>]
      /\ Goto(c, IF missing[c] = <<>> THEN "spill" ELSE "cold")
  BY DEF Admit
<1>2. /\ cold' = cold /\ present' = present /\ gpu' = gpu /\ missing' = missing /\ demoted' = demoted
      /\ Backed' = Backed /\ falseMisses' = falseMisses
  BY DEF Admit, Backed
<1>3. rows[c] \in Seq(Backed)
  BY <1>1, SameTables DEF LoaderOK
<1>4. /\ TierOf(Backed, cpu') /\ spills'[c] \in Seq(CacheNodes)
      /\ spills' = [spills EXCEPT ![c] = spills'[c]]
  BY <1>1, <1>3, SameTables, AdmittedNodes
<1>5. /\ step'[c] \in {"spill", "cold"} /\ step' = [step EXCEPT ![c] = step'[c]]
      /\ known' = [known EXCEPT ![c] = known'[c]] /\ known'[c] \subseteq Backed /\ known'[c] \subseteq known[c]
  BY <1>1, Went
<1>6. LoaderOK(c)'
  <2>1. rows'[c] = <<>>
    BY <1>1, SameTables
  <2>2. /\ demoted[c] \in Seq(Backed) /\ missing[c] \in Seq(CacheNodes)
        /\ \A n \in ToSet(missing[c]) : n \in known[c] => n \in cold
    BY <1>1, SameTables DEF LoaderOK
  <2> QED
    BY <1>2, <1>4, <1>5, <2>1, <2>2 DEF LoaderOK
<1> QED
  BY <1>1, <1>2, <1>4, <1>5, <1>6, SameTables, OneLoader

LEMMA CacheAbandon ==
  ASSUME CacheInv, NEW c \in Loaders, NEW nodes, Abandon(c, nodes), step[c] # "save",
         \A n \in nodes : n \notin known[c]
  PROVE  CacheInv'
<1>1. /\ falseMisses' = falseMisses \cup (nodes \cap known[c])
      /\ missing' = [missing EXCEPT ![c] = <<>>] /\ spills' = [spills EXCEPT ![c] = <<>>]
      /\ Goto(c, "idle") /\ gpu' = gpu /\ cpu' = cpu /\ present' = present /\ cold' = cold
      /\ rows' = rows /\ demoted' = demoted
  BY DEF Abandon
<1>2. falseMisses' = {} /\ Backed' = Backed
  BY <1>1, SameTables DEF Backed
<1>3. /\ step'[c] = "idle" /\ step' = [step EXCEPT ![c] = step'[c]]
      /\ known' = [known EXCEPT ![c] = known'[c]] /\ known'[c] \subseteq Backed
  BY <1>1, Went
<1>4. LoaderOK(c)'
  <2>1. missing'[c] = <<>> /\ spills'[c] = <<>>
    BY <1>1, SameTables
  <2> QED
    BY <1>1, <1>2, <1>3, <2>1, SameTables DEF LoaderOK
<1> QED
  BY <1>1, <1>2, <1>3, <1>4, SameTables, OneLoader

LEMMA CacheLoadNvme ==
  ASSUME CacheInv, NEW c \in Loaders, LoadNvme(c)
  PROVE  CacheInv'
<1>1. PICK loaded \in Only(missing[c], present), absent \in Only(missing[c], CacheNodes \ present) :
        \/ /\ rows' = [rows EXCEPT ![c] = loaded]
           /\ missing' = [missing EXCEPT ![c] = absent]
           /\ Goto(c, "admit")
           /\ UNCHANGED <<gpu, cpu, present, cold, demoted, spills, ioErrors, falseMisses>>
        \/ cold = {} /\ Abandon(c, ToSet(absent))
        \/ Abandon(c, {})
  BY DEF LoadNvme
<1>2. step[c] = "nvme" /\ missing[c] \in Seq(CacheNodes) /\ known[c] \subseteq Backed
  BY SameTables DEF LoadNvme, LoaderOK
<1>3. absent \in Seq(CacheNodes) /\ \A n \in ToSet(absent) : n \notin present
  <2>1. absent \in Seq(CacheNodes) /\ ToSet(absent) \subseteq ToSet(missing[c]) \cap (CacheNodes \ present)
    BY <1>2, EntriesOf, Zenon
  <2> QED
    BY <2>1
<1>4. CASE /\ rows' = [rows EXCEPT ![c] = loaded]
           /\ missing' = [missing EXCEPT ![c] = absent]
           /\ Goto(c, "admit")
           /\ UNCHANGED <<gpu, cpu, present, cold, demoted, spills, ioErrors, falseMisses>>
  <2>1. loaded \in Seq(Backed)
    <3>1. loaded \in Seq(CacheNodes \cap present)
      BY <1>2, EntriesOf
    <3> QED
      BY <3>1 DEF Backed
  <2>2. /\ step'[c] = "admit" /\ step' = [step EXCEPT ![c] = step'[c]]
        /\ known' = [known EXCEPT ![c] = known'[c]] /\ known'[c] \subseteq Backed
    BY <1>4, Went
  <2>3. missing'[c] = absent /\ rows'[c] = loaded /\ Backed' = Backed
    BY <1>4, SameTables DEF Backed
  <2>4. \A n \in ToSet(absent) : n \in known'[c] => n \in cold'
    BY <1>3, <1>4, <2>2 DEF Backed
  <2>5. demoted'[c] \in Seq(Backed') /\ spills'[c] \in Seq(CacheNodes)
    BY <1>4, <2>3, SameTables DEF LoaderOK
  <2>6. LoaderOK(c)'
    BY <1>3, <2>1, <2>2, <2>3, <2>4, <2>5 DEF LoaderOK
  <2> QED
    BY <1>4, <2>2, <2>3, <2>6, SameTables, OneLoader
<1>5. CASE cold = {} /\ Abandon(c, ToSet(absent))
  <2>1. \A n \in ToSet(absent) : n \notin known[c]
    BY <1>2, <1>3, <1>5 DEF Backed
  <2> QED
    BY <1>2, <1>5, <2>1, CacheAbandon
<1>6. CASE Abandon(c, {})
  BY <1>2, <1>6, CacheAbandon
<1> QED
  BY <1>1, <1>4, <1>5, <1>6

LEMMA CacheGatherCold ==
  ASSUME CacheInv, NEW c \in Loaders, GatherCold(c)
  PROVE  CacheInv'
<1> DEFINE lost == ToSet(missing[c]) \ cold
<1>1. \/ /\ lost = {}
         /\ rows' = [rows EXCEPT ![c] = missing[c]]
         /\ missing' = [missing EXCEPT ![c] = <<>>]
         /\ Goto(c, "admit")
         /\ UNCHANGED <<gpu, cpu, present, cold, demoted, spills, ioErrors, falseMisses>>
      \/ Abandon(c, lost)
      \/ Abandon(c, {})
  BY DEF GatherCold
<1>2. /\ step[c] = "cold" /\ missing[c] \in Seq(CacheNodes)
      /\ \A n \in ToSet(missing[c]) : n \in known[c] => n \in cold
  BY SameTables DEF GatherCold, LoaderOK
<1>3. CASE /\ lost = {}
           /\ rows' = [rows EXCEPT ![c] = missing[c]]
           /\ missing' = [missing EXCEPT ![c] = <<>>]
           /\ Goto(c, "admit")
           /\ UNCHANGED <<gpu, cpu, present, cold, demoted, spills, ioErrors, falseMisses>>
  <2>1. missing[c] \in Seq(Backed)
    BY <1>2, <1>3 DEF Backed, ToSet
  <2>2. /\ step'[c] = "admit" /\ step' = [step EXCEPT ![c] = step'[c]]
        /\ known' = [known EXCEPT ![c] = known'[c]] /\ known'[c] \subseteq Backed
    BY <1>3, Went
  <2>3. missing'[c] = <<>> /\ rows'[c] = missing[c] /\ Backed' = Backed
    BY <1>3, SameTables DEF Backed
  <2>4. demoted'[c] \in Seq(Backed') /\ spills'[c] \in Seq(CacheNodes)
    BY <1>3, <2>3, SameTables DEF LoaderOK
  <2>5. LoaderOK(c)'
    <3>1. ToSet(<<>>) = {} /\ <<>> \in Seq(CacheNodes)
      BY DEF ToSet
    <3> QED
      BY <2>1, <2>2, <2>3, <2>4, <3>1 DEF LoaderOK
  <2> QED
    BY <1>3, <2>2, <2>3, <2>5, SameTables, OneLoader
<1>4. CASE Abandon(c, lost)
  BY <1>2, <1>4, CacheAbandon
<1>5. CASE Abandon(c, {})
  BY <1>2, <1>5, CacheAbandon
<1> QED
  BY <1>1, <1>3, <1>4, <1>5

\* Records are only ever added.
LEMMA MoreRecords ==
  ASSUME CacheInv, cold' = cold, present \subseteq present', gpu' = gpu, cpu' = cpu
  PROVE  Backed \subseteq Backed' /\ TierOf(Backed', gpu') /\ TierOf(Backed', cpu')
<1>1. Backed \subseteq Backed'
  BY DEF Backed
<1> QED
  BY <1>1, TierWithin DEF CacheInv

LEMMA CacheSpill ==
  ASSUME CacheInv, NEW c \in Loaders, Spill(c)
  PROVE  CacheInv'
<1>1. PICK written \in 0 .. Len(spills[c]) :
        present' = present \cup ToSet(SubSeq(spills[c], 1, written))
  BY DEF Spill
<1>2. /\ step[c] = "spill" /\ spills' = [spills EXCEPT ![c] = <<>>] /\ Goto(c, "idle")
      /\ cold' = cold /\ gpu' = gpu /\ cpu' = cpu /\ rows' = rows /\ missing' = missing
      /\ demoted' = demoted /\ falseMisses' = falseMisses
  BY DEF Spill
<1>3. spills[c] \in Seq(CacheNodes)
  BY SameTables DEF LoaderOK
<1>4. present \subseteq present' /\ present' \subseteq CacheNodes
  <2>1. SubSeq(spills[c], 1, written) \in Seq(CacheNodes)
    BY <1>3
  <2> QED
    BY <1>1, <2>1, SameTables DEF ToSet
<1>5. Backed \subseteq Backed' /\ TierOf(Backed', gpu') /\ TierOf(Backed', cpu')
  BY <1>2, <1>4, MoreRecords
<1>6. /\ step'[c] = "idle" /\ step' = [step EXCEPT ![c] = step'[c]]
      /\ known' = [known EXCEPT ![c] = known'[c]] /\ known'[c] \subseteq Backed
  BY <1>2, Went
<1>7. LoaderOK(c)'
  <2>1. spills'[c] = <<>> /\ Seq(Backed) \subseteq Seq(Backed')
    <3>1. spills'[c] = <<>>
      BY <1>2, SameTables
    <3>2. Seq(Backed) \subseteq Seq(Backed')
      BY <1>5
    <3> QED
      BY <3>1, <3>2
  <2> QED
    BY <1>2, <1>5, <1>6, <2>1, SameTables DEF LoaderOK
<1> QED
  BY <1>2, <1>4, <1>5, <1>6, <1>7, SameTables, OneLoader

LEMMA CacheBeginInsert ==
  ASSUME CacheInv, NEW c \in Loaders, BeginInsert(c)
  PROVE  CacheInv'
<1>1. PICK n \in CacheNodes : rows' = [rows EXCEPT ![c] = <<n>>]
  BY DEF BeginInsert
<1>2. /\ BeginCall(c, "save") /\ cold' = cold /\ present' = present /\ gpu' = gpu /\ cpu' = cpu
      /\ missing' = missing /\ demoted' = demoted /\ spills' = spills /\ Backed' = Backed
  BY DEF BeginInsert, Backed
<1>3. /\ step'[c] = "save" /\ step' = [step EXCEPT ![c] = step'[c]]
      /\ known' = [known EXCEPT ![c] = known'[c]] /\ known'[c] \subseteq Backed /\ falseMisses' = falseMisses
  BY <1>2, Begun
<1>4. LoaderOK(c)'
  <2>1. rows'[c] = <<n>> /\ <<n>> \in Seq(CacheNodes)
    BY <1>1, SameTables
  <2> QED
    BY <1>2, <1>3, <2>1, SameTables DEF LoaderOK
<1> QED
  BY <1>1, <1>2, <1>3, <1>4, SameTables, OneLoader

LEMMA CacheSave ==
  ASSUME CacheInv, NEW c \in Loaders, Save(c)
  PROVE  CacheInv'
<1>1. /\ step[c] = "save" /\ gpu' = gpu /\ cpu' = cpu /\ cold' = cold /\ missing' = missing
      /\ demoted' = demoted /\ spills' = spills /\ falseMisses' = falseMisses
      /\ rows[c] \in Seq(CacheNodes)
  BY SameTables DEF Save, LoaderOK
<1>2. CASE present' = present \cup ToSet(rows[c]) /\ Goto(c, "promote") /\ UNCHANGED <<rows, ioErrors>>
  <2>1. present \subseteq present' /\ present' \subseteq CacheNodes
    BY <1>1, <1>2, SameTables DEF ToSet
  <2>2. Backed \subseteq Backed' /\ TierOf(Backed', gpu') /\ TierOf(Backed', cpu')
    BY <1>1, <2>1, MoreRecords
  <2>3. /\ step'[c] = "promote" /\ step' = [step EXCEPT ![c] = step'[c]]
        /\ known' = [known EXCEPT ![c] = known'[c]] /\ known'[c] \subseteq Backed
    BY <1>2, Went
  <2>4. rows'[c] \in Seq(Backed')
    BY <1>1, <1>2 DEF Backed, ToSet
  <2>5. LoaderOK(c)'
    <3>1. Seq(Backed) \subseteq Seq(Backed')
      BY <2>2
    <3> QED
      BY <1>1, <2>2, <2>3, <2>4, <3>1, SameTables DEF LoaderOK
  <2> QED
    BY <1>1, <1>2, <2>1, <2>2, <2>3, <2>5, SameTables, OneLoader
<1>3. CASE rows' = [rows EXCEPT ![c] = <<>>] /\ Goto(c, "idle") /\ UNCHANGED present
  <2>1. Backed' = Backed
    BY <1>1, <1>3 DEF Backed
  <2>2. /\ step'[c] = "idle" /\ step' = [step EXCEPT ![c] = step'[c]]
        /\ known' = [known EXCEPT ![c] = known'[c]] /\ known'[c] \subseteq Backed
    BY <1>3, Went
  <2>3. LoaderOK(c)'
    <3>1. rows'[c] = <<>>
      BY <1>3, SameTables
    <3> QED
      BY <1>1, <2>1, <2>2, <3>1, SameTables DEF LoaderOK
  <2> QED
    BY <1>1, <1>3, <2>1, <2>2, <2>3, SameTables, OneLoader
<1> QED
  BY <1>2, <1>3 DEF Save

LEMMA CacheStepInv == CacheInv /\ [CacheNext]_cvars => CacheInv'
<1> SUFFICES ASSUME CacheInv, [CacheNext]_cvars PROVE CacheInv'
  OBVIOUS
<1>1. ASSUME NEW c \in Loaders, CacheStep(c) PROVE CacheInv'
  BY <1>1, CacheReadGpu, CacheReadCpu, CachePromote, CacheSettle, CacheLoadNvme, CacheAdmit,
     CacheGatherCold, CacheSpill, CacheBeginInsert, CacheSave, Zenon DEF CacheStep
<1>2. CASE UNCHANGED cvars
  BY <1>2 DEF cvars, CacheInv, PerLoader, LoaderOK, Backed, TierOf, Resident
<1> QED
  BY <1>1, <1>2, Zenon DEF CacheNext

\* A node that could be served when a call began is not reported to be in no
\* tier (mod.rs, get_into and get_batch): for every number of nodes and of
\* loaders, all capacities, pins and cold stores, and any failures of the disk.
THEOREM NoFalseMissAlways == CacheSpec => []NoFalseMiss
<1>1. CacheInv => NoFalseMiss
  BY DEF CacheInv, NoFalseMiss
<1> QED
  BY <1>1, CacheInitInv, CacheStepInv, PTL DEF CacheSpec
=============================================================================
