---------------------------- MODULE PacketIngest ----------------------------
(***************************************************************************)
(* The AF_XDP ingest loop of one NIC queue (aether-stream, ingest.rs) over *)
(* the single-producer single-consumer rings it shares with the driver     *)
(* (xdp/rings.rs) and the frame pool (umem.rs), and the consumer of the    *)
(* channel it feeds.  The user side of a ring keeps a cached copy of the   *)
(* driver's index and refreshes it only when the copy says empty or full;  *)
(* all indices wrap.  The pool is a set here: FreeList shows it is one.    *)
(* Nothing in the crate transmits, so the completion ring stays empty.     *)
(***************************************************************************)
EXTENDS Naturals, Sequences, FiniteSets

CONSTANTS
  Frames,       \* of the UMEM
  RingSize,     \* entries of a ring, a power of two
  IndexMod,     \* 2^32, a multiple of RingSize
  RxBatch, FillBatch,
  ChannelCap,   \* batches the channel holds
  MaxBad        \* bound: descriptors the driver hands back out of bounds

NoFrame == "none"

ASSUME PacketAssumption ==
  /\ RingSize \in Nat \ {0} /\ IndexMod \in Nat /\ IndexMod % RingSize = 0 /\ IndexMod > RingSize
  /\ RxBatch \in Nat \ {0} /\ FillBatch \in Nat \ {0} /\ ChannelCap \in Nat \ {0}
  /\ MaxBad \in Nat /\ IsFiniteSet(Frames) /\ NoFrame \notin Frames

VARIABLES
  lpc,          \* the loop: top, refill, flag, kick, poll, send, exit
  pool,         \* free frames
  fillRing, fillProd, fillCons, seenCons,   \* seenCons: cached_cons
  rxRing, rxProd, rxCons, seenProd,         \* seenProd: cached_prod
  hand,         \* the batch being sent
  channel,      \* batches inside the channel
  rented,       \* frames the consumer has not released yet
  hungUp,       \* the last receiver is gone
  stopped,
  \* the driver
  nic,          \* frames it may fill
  needWakeup,   \* XDP_RING_NEED_WAKEUP of the fill ring
  drowsy,       \* it has seen the fill ring empty and is about to raise the flag
  \* history
  badDescs,          \* how many the driver returned out of bounds
  lost          \* frames that go back to no pool

kvars == <<lpc, pool, fillRing, fillProd, fillCons, seenCons, rxRing, rxProd, rxCons,
           seenProd, hand, channel, rented, hungUp, stopped, nic, needWakeup, drowsy, badDescs, lost>>
fillVars == <<fillRing, fillProd, fillCons, seenCons>>
rxVars == <<rxRing, rxProd, rxCons, seenProd>>
driverVars == <<nic, needWakeup, drowsy, badDescs>>
channelVars == <<channel, rented, hungUp, lost>>

Entries == 0 .. RingSize - 1
Ahead(to, from) == (to + IndexMod - from) % IndexMod     \* wrapping_sub
At(index) == index % RingSize                            \* & mask
Least(a, b) == IF a < b THEN a ELSE b

\* An index other than 0: the mirrors are seeded from the mapping.
PacketInit ==
  /\ lpc = "top" /\ pool = Frames /\ hand = {} /\ channel = <<>> /\ rented = {}
  /\ hungUp = FALSE /\ stopped = FALSE
  /\ fillRing = [e \in Entries |-> NoFrame] /\ rxRing = fillRing
  /\ fillProd = IndexMod - 1 /\ fillCons = fillProd /\ seenCons = fillProd
  /\ rxProd = IndexMod - 1 /\ rxCons = rxProd /\ seenProd = rxProd
  /\ nic = {} /\ needWakeup = TRUE /\ drowsy = FALSE
  /\ badDescs = 0 /\ lost = {}

-----------------------------------------------------------------------------
(* The loop *)

Top ==
  /\ lpc = "top"
  /\ lpc' = IF stopped THEN "exit" ELSE "refill"
  /\ UNCHANGED <<pool, fillVars, rxVars, hand, stopped, driverVars, channelVars>>

\* free_slots: the driver's index is loaded again only when the copy says full.
FreeSlots == IF Ahead(fillProd, seenCons) = RingSize THEN fillCons ELSE seenCons

\* As many frames as there are slots, batch and pool for; the entries become
\* visible with the one store of the producer index.
Refill ==
  /\ lpc = "refill"
  /\ seenCons' = FreeSlots
  /\ LET want == Least(RingSize - Ahead(fillProd, seenCons'), FillBatch)
         n == Least(want, Cardinality(pool))
     IN \E taken \in [1 .. n -> pool] :
          /\ \A i, j \in 1 .. n : i # j => taken[i] # taken[j]
          /\ pool' = pool \ {taken[i] : i \in 1 .. n}
          /\ fillRing' = [e \in Entries |->
                IF \E i \in 1 .. n : At(fillProd + i - 1) = e
                THEN taken[CHOOSE i \in 1 .. n : At(fillProd + i - 1) = e]
                ELSE fillRing[e]]
          /\ fillProd' = (fillProd + n) % IndexMod
  /\ lpc' = "flag"
  /\ UNCHANGED <<fillCons, rxVars, hand, stopped, driverVars, channelVars>>

\* Mutant of CheckFlag: the flag is looked at only while frames are left.
CheckFlagWhenFilled ==
  /\ lpc = "flag"
  /\ lpc' = IF needWakeup /\ pool # {} THEN "kick" ELSE "poll"
  /\ UNCHANGED <<pool, fillVars, rxVars, hand, stopped, driverVars, channelVars>>

CheckFlag ==
  /\ lpc = "flag"
  /\ lpc' = IF needWakeup THEN "kick" ELSE "poll"
  /\ UNCHANGED <<pool, fillVars, rxVars, hand, stopped, driverVars, channelVars>>

\* recvfrom: the driver resumes.
Kick ==
  /\ lpc = "kick" /\ lpc' = "poll"
  /\ needWakeup' = FALSE /\ drowsy' = FALSE
  /\ UNCHANGED <<pool, fillVars, rxVars, hand, stopped, nic, badDescs, channelVars>>

\* available, peek and advance_consumer: descriptors out of the UMEM's bounds
\* are dropped; an empty batch is not sent.
PollRx ==
  /\ lpc = "poll"
  /\ seenProd' = IF seenProd = rxCons THEN rxProd ELSE seenProd
  /\ LET n == Least(Ahead(seenProd', rxCons), RxBatch)
         got == {rxRing[At(rxCons + i)] : i \in 0 .. n - 1} \ {NoFrame}
     IN /\ rxCons' = (rxCons + n) % IndexMod
        /\ hand' = got
        /\ lpc' = IF got = {} THEN "top" ELSE "send"
  /\ UNCHANGED <<pool, fillVars, rxRing, rxProd, stopped, driverVars, channelVars>>

SendBatch ==
  /\ lpc = "send" /\ ~hungUp /\ Len(channel) < ChannelCap
  /\ channel' = Append(channel, hand)
  /\ hand' = {} /\ lpc' = "top"
  /\ UNCHANGED <<pool, fillVars, rxVars, stopped, driverVars, rented, hungUp, lost>>

\* Mutant of GiveBack: the frames in hand are not released.
GiveBackForgets ==
  /\ lpc = "send" /\ (hungUp \/ (stopped /\ Len(channel) >= ChannelCap))
  /\ hand' = {} /\ lpc' = "exit"
  /\ UNCHANGED <<pool, fillVars, rxVars, stopped, driverVars, channelVars>>

\* The receiver is gone, or 10 ms passed on a full channel and the stop flag is set: the
\* batch goes back to the pool.  A timeout without a stop tries again.
GiveBack ==
  /\ lpc = "send" /\ (hungUp \/ (stopped /\ Len(channel) >= ChannelCap))
  /\ pool' = pool \cup hand /\ hand' = {} /\ lpc' = "exit"
  /\ UNCHANGED <<fillVars, rxVars, stopped, driverVars, channelVars>>

-----------------------------------------------------------------------------
(* The consumer, and the owner of the pool *)

TakeBatch ==
  /\ ~hungUp /\ channel # <<>>
  /\ rented' = rented \cup Head(channel) /\ channel' = Tail(channel)
  /\ UNCHANGED <<lpc, pool, fillVars, rxVars, hand, stopped, driverVars, hungUp, lost>>

Release ==
  /\ \E f \in rented : rented' = rented \ {f} /\ pool' = pool \cup {f}
  /\ UNCHANGED <<lpc, fillVars, rxVars, hand, channel, hungUp, stopped, driverVars, lost>>

\* Batches inside the channel are dropped with it.
HangUp ==
  /\ ~hungUp /\ hungUp' = TRUE
  /\ lost' = lost \cup UNION {channel[i] : i \in 1 .. Len(channel)}
  /\ channel' = <<>>
  /\ UNCHANGED <<lpc, pool, fillVars, rxVars, hand, rented, stopped, driverVars>>

\* IngestPool::drop, which then joins the thread.
RaiseStop ==
  /\ ~stopped /\ stopped' = TRUE
  /\ UNCHANGED <<lpc, pool, fillVars, rxVars, hand, driverVars, channelVars>>

-----------------------------------------------------------------------------
(* The driver *)

TakeFill ==
  /\ ~needWakeup /\ fillCons # fillProd
  /\ nic' = nic \cup {fillRing[At(fillCons)]}
  /\ fillCons' = (fillCons + 1) % IndexMod
  /\ UNCHANGED <<lpc, pool, fillRing, fillProd, seenCons, rxVars, hand, stopped, needWakeup,
                 drowsy, badDescs, channelVars>>

\* It stops pulling once it has caught up; an entry may come in before the flag.
CatchUp ==
  /\ ~needWakeup /\ ~drowsy /\ fillCons = fillProd
  /\ drowsy' = TRUE
  /\ UNCHANGED <<lpc, pool, fillVars, rxVars, hand, stopped, nic, needWakeup, badDescs, channelVars>>

RaiseFlag ==
  /\ drowsy /\ drowsy' = FALSE /\ needWakeup' = TRUE
  /\ UNCHANGED <<lpc, pool, fillVars, rxVars, hand, stopped, nic, badDescs, channelVars>>

\* A packet arrives; a driver bug may return an address outside the UMEM.
Deliver ==
  /\ Ahead(rxProd, rxCons) < RingSize
  /\ \E f \in nic :
       /\ nic' = nic \ {f}
       /\ \/ rxRing' = [rxRing EXCEPT ![At(rxProd)] = f] /\ UNCHANGED <<badDescs, lost>>
          \/ /\ badDescs < MaxBad /\ badDescs' = badDescs + 1
             /\ rxRing' = [rxRing EXCEPT ![At(rxProd)] = NoFrame]
             /\ lost' = lost \cup {f}
  /\ rxProd' = (rxProd + 1) % IndexMod
  /\ UNCHANGED <<lpc, pool, fillVars, rxCons, seenProd, hand, stopped, needWakeup, drowsy,
                 channel, rented, hungUp>>

-----------------------------------------------------------------------------
LoopStep == Top \/ Refill \/ CheckFlag \/ Kick \/ PollRx \/ SendBatch \/ GiveBack
DriverStep == TakeFill \/ CatchUp \/ RaiseFlag
ConsumerStep == TakeBatch \/ Release \/ HangUp
PacketNext == LoopStep \/ ConsumerStep \/ RaiseStop \/ DriverStep \/ Deliver

\* The pinned thread runs and the driver works while it is awake.  No packet has
\* to arrive, and the consumer need not receive, release or hang up.
PacketFairness ==
  /\ WF_kvars(LoopStep)
  /\ WF_kvars(TakeFill) /\ WF_kvars(RaiseFlag)
PacketSpec == PacketInit /\ [][PacketNext]_kvars /\ PacketFairness

-----------------------------------------------------------------------------
Between(ring, from, to) == {ring[At(from + i)] : i \in 0 .. Ahead(to, from) - 1} \ {NoFrame}
Filled == Between(fillRing, fillCons, fillProd)
Received == Between(rxRing, rxCons, rxProd)
InChannel == UNION {channel[i] : i \in 1 .. Len(channel)}

\* Every frame is in exactly one place, so the driver never writes a packet
\* into a frame somebody reads; neither ring is ever over-full, although the
\* loop works from stale indices that wrap; and a frame is lost only with a
\* descriptor that is out of bounds or with the channel (ingest.rs, "dropped").
FramesConserved ==
  /\ pool \cup Filled \cup nic \cup Received \cup hand \cup InChannel \cup rented \cup lost = Frames
  /\ Cardinality(pool) + Cardinality(Filled) + Cardinality(nic) + Cardinality(Received)
       + Cardinality(hand) + Cardinality(InChannel) + Cardinality(rented) + Cardinality(lost)
         = Cardinality(Frames)
  /\ Ahead(fillProd, fillCons) <= RingSize /\ Ahead(rxProd, rxCons) <= RingSize
  /\ ~hungUp => Cardinality(lost) <= badDescs

\* The busy poll does not livelock: the driver is not left asleep over a fill
\* ring with frames in it, whatever the order of its flag and the loop's look
\* at it (kick_rx), unless the loop ended or is parked on a full channel.
DriverWoken ==
  (needWakeup /\ fillCons # fillProd) ~> (~needWakeup \/ lpc \in {"exit", "send"})

\* A stop ends the loop, also one parked on a channel nobody drains.
StopEnds == stopped ~> lpc = "exit"

\* The packet loop always goes on: to serve, or to its end.
LoopGoesOn == DriverWoken /\ StopEnds

=============================================================================
