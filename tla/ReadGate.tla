------------------------------ MODULE ReadGate ------------------------------
(***************************************************************************)
(* The two-phase striped reader gate of the C-tree arena                   *)
(* (crates/aether-graph/src/arena.rs, ReadGate and ReadGuard).             *)
(*                                                                         *)
(* A reader picks one of two buckets from a relaxed load of the phase,     *)
(* adds itself to that bucket's counter in its own stripe, and later       *)
(* leaves the bucket it entered.  The writer's advance() moves the phase   *)
(* only over a bucket it has just seen empty in every stripe.              *)
(*                                                                         *)
(* Only the low bit of the phase steers anybody, so this module keeps just *)
(* that bit.  A striped counter is represented by who is counted in it:    *)
(* entry and exit are exact increments and decrements of one counter.      *)
(***************************************************************************)
EXTENDS Naturals

CONSTANTS
  Readers,   \* live ReadGuards; nested guards of one thread are two readers
  Stripes,   \* the GATE_STRIPES counters pairs
  StripeOf   \* the stripe gate_stripe() gives each reader's thread

ASSUME StripeAssumption == StripeOf \in [Readers -> Stripes]

VARIABLES
  phaseBit,  \* low bit of ReadGate.phase
  stale,     \* a phase store has not reached every reader yet (Relaxed)
  rpc,       \* reader: "out", "steered" (bucket chosen), "in" (counted)
  bucket,    \* reader: the bucket it chose
  scanning,  \* the writer is inside advance()
  pass,      \* advance(): completed iterations of its two-step loop
  unread     \* bucket_empty(): stripes whose counter is still to be loaded

readerVars == <<rpc, bucket>>
writerVars == <<phaseBit, scanning, pass, unread>>
vars == <<phaseBit, stale, rpc, bucket, scanning, pass, unread>>

Bit == {0, 1}

TypeOK ==
  /\ phaseBit \in Bit
  /\ stale \in BOOLEAN
  /\ rpc \in [Readers -> {"out", "steered", "in"}]
  /\ bucket \in [Readers -> Bit]
  /\ scanning \in BOOLEAN
  /\ pass \in Bit
  /\ unread \subseteq Stripes

Init ==
  /\ phaseBit = 0
  /\ stale = FALSE
  /\ rpc = [r \in Readers |-> "out"]
  /\ bucket = [r \in Readers |-> 0]
  /\ scanning = FALSE
  /\ pass = 0
  /\ unread = {}

-----------------------------------------------------------------------------
(* Readers *)

\* Mutant of Steer: enter() takes the bucket of the next phase.
SteerToNext(r) ==
  /\ rpc[r] = "out"
  /\ bucket' = [bucket EXCEPT ![r] = 1 - phaseBit]
  /\ rpc' = [rpc EXCEPT ![r] = "steered"]
  /\ UNCHANGED <<stale, writerVars>>

\* enter(), first half: the relaxed load of the phase.  While a store is
\* still propagating the load may return the old phase or the new one.
Steer(r) ==
  /\ rpc[r] = "out"
  /\ \E b \in IF stale THEN Bit ELSE {phaseBit} :
       bucket' = [bucket EXCEPT ![r] = b]
  /\ rpc' = [rpc EXCEPT ![r] = "steered"]
  /\ UNCHANGED <<stale, writerVars>>

\* enter(), second half: fetch_add on the chosen bucket.  Any number of
\* phase stores may have happened since the load.
Enter(r) ==
  /\ rpc[r] = "steered"
  /\ rpc' = [rpc EXCEPT ![r] = "in"]
  /\ UNCHANGED <<bucket, stale, writerVars>>

\* ReadGuard::drop: fetch_sub on the bucket the guard entered; the guard's
\* reference to that bucket dies with it.
Leave(r) ==
  /\ rpc[r] = "in"
  /\ rpc' = [rpc EXCEPT ![r] = "out"]
  /\ bucket' = [bucket EXCEPT ![r] = 0]
  /\ UNCHANGED <<stale, writerVars>>

-----------------------------------------------------------------------------
(* Writer *)

\* The bucket that the next phase reuses.
NextBucket == 1 - phaseBit

\* The counter of stripe st and bucket b is not zero.
Occupied(st, b) ==
  \E r \in Readers : rpc[r] = "in" /\ bucket[r] = b /\ StripeOf[r] = st

\* advance(), up to its fence: the first emptiness proof starts.
BeginAdvance ==
  /\ ~scanning
  /\ scanning' = TRUE
  /\ pass' = 0
  /\ unread' = Stripes
  /\ UNCHANGED <<phaseBit, stale, readerVars>>

\* bucket_empty(): one stripe's counter is loaded and is zero.
ScanEmpty(st) ==
  /\ scanning
  /\ st \in unread
  /\ ~Occupied(st, NextBucket)
  /\ unread' = unread \ {st}
  /\ UNCHANGED <<phaseBit, stale, readerVars, scanning, pass>>

\* bucket_empty(): one stripe's counter is not zero, advance() gives up.
ScanOccupied(st) ==
  /\ scanning
  /\ st \in unread
  /\ Occupied(st, NextBucket)
  /\ scanning' = FALSE
  /\ unread' = {}
  /\ UNCHANGED <<phaseBit, stale, readerVars, pass>>

\* Every stripe was empty: the phase is stored, and the loop runs again
\* unless this was its second iteration.
StorePhase ==
  /\ scanning
  /\ unread = {}
  /\ phaseBit' = NextBucket
  /\ stale' = TRUE
  /\ IF pass = 0
       THEN pass' = 1 /\ unread' = Stripes /\ UNCHANGED scanning
       ELSE scanning' = FALSE /\ UNCHANGED <<pass, unread>>
  /\ UNCHANGED readerVars

\* The memory system makes the last phase store visible to everybody.
PhaseVisible ==
  /\ stale
  /\ stale' = FALSE
  /\ UNCHANGED <<readerVars, writerVars>>

ReaderStep(r) == Steer(r) \/ Enter(r) \/ Leave(r)

Advance ==
  \/ BeginAdvance
  \/ \E st \in Stripes : ScanEmpty(st) \/ ScanOccupied(st)
  \/ StorePhase

Next ==
  \/ \E r \in Readers : ReaderStep(r)
  \/ Advance
  \/ PhaseVisible

Spec == Init /\ [][Next]_vars

-----------------------------------------------------------------------------
(* Properties *)

\* Readers that enter and leave for ever, overlapping so that the gate is
\* never empty, cannot stop the writer from moving the phase: new readers
\* are steered to the bucket the next advance does not need (enter()
\* against advance()).
PhaseKeepsMoving == []<>(phaseBit = 0) /\ []<>(phaseBit = 1)

=============================================================================
