----------------------------- MODULE SrdGather -----------------------------
(***************************************************************************)
(* The SRD feature client (rdma/srd.rs): a gather reads every row twice    *)
(* into two staging regions, over one or several shards, each a queue pair *)
(* of its own whose READs complete one by one in any order.  One thread    *)
(* posts on every shard, then drains every shard; a post may stop short, a *)
(* READ may fail or never complete, the completion queue may fail.  One    *)
(* shard is SrdFeatureClient.                                              *)
(*                                                                         *)
(* Whether two snapshots agree is FeatureTable's business: here it is a    *)
(* free choice, and what is followed is which READ wrote which staging row.*)
(***************************************************************************)
EXTENDS Naturals, FiniteSets

CONSTANTS Shards,       \* 1..n, in posting order
          MaxInflight,  \* rows of a staging region
          MaxReread,    \* MAX_RETRIES
          NodeCounts,   \* bound: sizes of the node lists
          MaxGathers    \* bound: calls

ASSUME SrdAssumption ==
  /\ IsFiniteSet(Shards) /\ Shards = 1 .. Cardinality(Shards) /\ Shards # {}
  /\ MaxInflight \in Nat \ {0} /\ MaxReread \in Nat /\ MaxGathers \in Nat
  /\ NodeCounts \subseteq Nat \ {0}

VARIABLES
  phase,    \* idle, post, drain or check
  cursor,   \* the shard the loop is at
  snap,     \* 1 or 2
  reread,   \* rounds left
  call,     \* calls made, the identity of the present one
  wanted,   \* shard -> rows of this call
  rows,     \* shard -> rows still torn
  posted,   \* shard -> completions left to reap of the last post
  bad,      \* an error was met in this phase
  forced,   \* the drain of the cursor's shard has forced its QP into error
  outcome,  \* of the last call
  tag,      \* shard -> generation of its last post
  failed, poisoned,   \* shard -> flags of the client
  \* the device
  wire,     \* shard -> READs the NIC may still perform
  cq,       \* shard -> completions to poll
  qpErr,    \* shard -> the QP is in the error state
  buf       \* shard -> region -> row -> the READ that wrote it last

gvars == <<phase, cursor, snap, reread, call, wanted, rows, posted, bad, forced,
           outcome, tag, failed, poisoned, wire, cq, qpErr, buf>>
callVars == <<reread, call, wanted, outcome>>
deviceVars == <<wire, cq, qpErr, buf>>

Slots == 1 .. MaxInflight
Unread == [call |-> 0, round |-> 0]
First == 1
LastShard == Cardinality(Shards)

SrdInit ==
  /\ phase = "idle" /\ cursor = First /\ snap = 1 /\ reread = 0 /\ call = 0
  /\ wanted = [s \in Shards |-> {}] /\ rows = [s \in Shards |-> {}]
  /\ posted = [s \in Shards |-> 0]
  /\ bad = FALSE /\ forced = FALSE /\ outcome = "none"
  /\ tag = [s \in Shards |-> 0]
  /\ failed = [s \in Shards |-> FALSE] /\ poisoned = [s \in Shards |-> FALSE]
  /\ wire = [s \in Shards |-> {}] /\ cq = [s \in Shards |-> {}]
  /\ qpErr = [s \in Shards |-> FALSE]
  /\ buf = [s \in Shards |-> [g \in 1..2 |-> [i \in Slots |-> Unread]]]

-----------------------------------------------------------------------------
(* The call *)

\* nodes[s*chunk ..], the even split of n nodes with chunk = ceil(n / shards).
Slice(n, s) ==
  LET chunk == (n + LastShard - 1) \div LastShard
      left == IF n > (s - 1) * chunk THEN n - (s - 1) * chunk ELSE 0
  IN 1 .. (IF left < chunk THEN left ELSE chunk)

\* A failed shard refuses the call, as does a slice wider than a region.
Gather(n) ==
  /\ phase = "idle" /\ call < MaxGathers
  /\ call' = call + 1
  /\ \/ /\ (\E s \in Shards : failed[s]) \/ Cardinality(Slice(n, First)) > MaxInflight
        /\ outcome' = "refused"
        /\ UNCHANGED <<phase, snap, reread, wanted, rows>>
     \/ /\ \A s \in Shards : ~failed[s]
        /\ Cardinality(Slice(n, First)) <= MaxInflight
        /\ wanted' = [s \in Shards |-> Slice(n, s)]
        /\ rows' = wanted'
        /\ reread' = MaxReread
        /\ snap' = 1 /\ phase' = "post" /\ outcome' = "none"
  /\ UNCHANGED <<cursor, posted, bad, forced, tag, failed, poisoned, deviceVars>>

\* post_snapshot: rows go out in order; the provider may refuse the k-th.
PostSnapshot ==
  /\ phase = "post"
  /\ \E k \in 0 .. Cardinality(rows[cursor]) :
       LET accepted == {i \in rows[cursor] : Cardinality({j \in rows[cursor] : j < i}) < k}
       IN /\ posted' = [posted EXCEPT ![cursor] = k]
          /\ tag' = [tag EXCEPT ![cursor] = IF rows[cursor] = {} THEN @ ELSE @ + 1]
          /\ wire' = [wire EXCEPT ![cursor] = @ \cup
                        {[tag |-> tag'[cursor], row |-> i, snap |-> snap,
                          round |-> reread, call |-> call] : i \in accepted}]
          /\ bad' = (bad \/ k < Cardinality(rows[cursor]))
  /\ IF cursor = LastShard THEN phase' = "drain" /\ cursor' = First
                      ELSE phase' = phase /\ cursor' = cursor + 1
  /\ UNCHANGED <<snap, rows, forced, failed, poisoned, cq, qpErr, buf, callVars>>

\* The shard's drain is over; after the last one the phase's errors surface.
NextDrain(error) ==
  /\ forced' = FALSE
  /\ posted' = [posted EXCEPT ![cursor] = 0]
  /\ IF cursor < LastShard
     THEN /\ cursor' = cursor + 1 /\ bad' = error
          /\ UNCHANGED <<phase, snap, outcome, rows>>
     ELSE /\ cursor' = First /\ bad' = FALSE
          /\ phase' = IF error THEN "idle" ELSE IF snap = 1 THEN "post" ELSE "check"
          /\ outcome' = IF error THEN "err" ELSE outcome
          /\ snap' = IF error THEN 1 ELSE 2
          /\ rows' = IF error THEN [s \in Shards |-> {}] ELSE rows

\* Mutant of Drained: the drain ends one completion early.
DrainedEarly ==
  /\ phase = "drain" /\ posted[cursor] <= 1
  /\ NextDrain(bad)
  /\ UNCHANGED <<reread, call, wanted, tag, failed, poisoned, deviceVars>>

Drained ==
  /\ phase = "drain" /\ posted[cursor] = 0
  /\ NextDrain(bad)
  /\ UNCHANGED <<reread, call, wanted, tag, failed, poisoned, deviceVars>>

\* A completion of another generation is a stray and is not counted.
Reap ==
  /\ phase = "drain" /\ posted[cursor] > 0
  /\ \E c \in cq[cursor] :
       /\ cq' = [cq EXCEPT ![cursor] = @ \ {c}]
       /\ posted' = [posted EXCEPT ![cursor] = IF c.tag = tag[cursor] THEN @ - 1 ELSE @]
       /\ bad' = (bad \/ (c.tag = tag[cursor] /\ ~c.ok))
  /\ UNCHANGED <<phase, cursor, snap, rows, forced, tag, failed, poisoned, wire, qpErr,
                 buf, callVars>>

\* poll_many fails: what is still in flight stays in flight.
PollFails ==
  /\ phase = "drain" /\ posted[cursor] > 0
  /\ poisoned' = [poisoned EXCEPT ![cursor] = TRUE]
  /\ failed' = [failed EXCEPT ![cursor] = TRUE]
  /\ NextDrain(TRUE)
  /\ UNCHANGED <<reread, call, wanted, tag, deviceVars>>

\* Mutant of Deadline: the second one gives up without poisoning the shard.
DeadlineForgives ==
  /\ phase = "drain" /\ posted[cursor] > 0 /\ cq[cursor] = {}
  /\ \/ /\ ~forced
        /\ forced' = TRUE /\ bad' = TRUE
        /\ failed' = [failed EXCEPT ![cursor] = TRUE]
        /\ \E ok \in BOOLEAN : qpErr' = [qpErr EXCEPT ![cursor] = @ \/ ok]
        /\ UNCHANGED <<phase, cursor, snap, rows, posted, outcome>>
     \/ forced /\ NextDrain(TRUE) /\ UNCHANGED <<failed, qpErr>>
  /\ UNCHANGED <<reread, call, wanted, tag, wire, cq, buf, poisoned>>

\* An empty poll past the deadline: force the QP into error (which may itself
\* fail) and wait once more; past the second deadline give up.
Deadline ==
  /\ phase = "drain" /\ posted[cursor] > 0 /\ cq[cursor] = {}
  /\ \/ /\ ~forced
        /\ forced' = TRUE /\ bad' = TRUE
        /\ failed' = [failed EXCEPT ![cursor] = TRUE]
        /\ \E ok \in BOOLEAN : qpErr' = [qpErr EXCEPT ![cursor] = @ \/ ok]
        /\ UNCHANGED <<phase, cursor, snap, rows, posted, outcome, poisoned>>
     \/ /\ forced
        /\ poisoned' = [poisoned EXCEPT ![cursor] = TRUE]
        /\ NextDrain(TRUE)
        /\ UNCHANGED <<failed, qpErr>>
  /\ UNCHANGED <<reread, call, wanted, tag, wire, cq, buf>>

\* torn_rows on every shard, and the next round or the end of the call.
CheckRows ==
  /\ phase = "check"
  /\ rows' \in [Shards -> SUBSET Slots]
  /\ \A s \in Shards : rows'[s] \subseteq rows[s]
  /\ snap' = 1
  /\ IF \A s \in Shards : rows'[s] = {}
     THEN phase' = "idle" /\ outcome' = "ok" /\ UNCHANGED reread
     ELSE IF reread > 0
     THEN phase' = "post" /\ reread' = reread - 1 /\ UNCHANGED outcome
     ELSE phase' = "idle" /\ outcome' = "err" /\ UNCHANGED reread
  /\ UNCHANGED <<cursor, call, wanted, posted, bad, forced, tag, failed, poisoned, deviceVars>>

-----------------------------------------------------------------------------
(* The device *)

Complete(s, rd, ok) ==
  /\ wire' = [wire EXCEPT ![s] = @ \ {rd}]
  /\ cq' = [cq EXCEPT ![s] = @ \cup {[tag |-> rd.tag, row |-> rd.row, ok |-> ok]}]
  /\ UNCHANGED <<phase, cursor, snap, rows, posted, bad, forced, tag, failed, poisoned,
                 qpErr, callVars>>

LandRead(s) ==
  \E rd \in wire[s] :
    /\ ~qpErr[s]
    /\ buf' = [buf EXCEPT ![s][rd.snap][rd.row] = [call |-> rd.call, round |-> rd.round]]
    /\ Complete(s, rd, TRUE)

\* A transport error, or the flush of a stopped QP.
FailRead(s) == \E rd \in wire[s] : Complete(s, rd, FALSE) /\ UNCHANGED buf

-----------------------------------------------------------------------------
ClientStep == PostSnapshot \/ Drained \/ Reap \/ PollFails \/ Deadline \/ CheckRows
SrdNext ==
  \/ \E n \in NodeCounts : Gather(n)
  \/ ClientStep
  \/ \E s \in Shards : LandRead(s) \/ FailRead(s)

SrdSpec == SrdInit /\ [][SrdNext]_gvars

-----------------------------------------------------------------------------
\* Outside gather no READ can write the staging rows, unless the client has
\* marked the shard poisoned, which keeps its buffer from ever being freed,
\* and failed, which keeps the shard from being used again (srd.rs, drain).
QuietOrPoisoned ==
  phase = "idle" => \A s \in Shards : wire[s] # {} => poisoned[s] /\ failed[s]

\* The rows of a successful gather were each written, in the region dst_slice
\* returns, by a READ of this very call, and both regions by its last round;
\* and the order the two-snapshot rule rests on holds: while a row's second
\* READ is in flight, its first one of the same round is over and its bytes
\* are in (post_snapshot and drain, once per snapshot).
SnapshotsApart ==
  /\ outcome = "ok" => \A s \in Shards : \A i \in wanted[s] :
       buf[s][1][i].call = call /\ buf[s][2][i] = buf[s][1][i]
  /\ phase # "idle" => \A s \in Shards : \A rd \in wire[s] : rd.snap = 2 =>
       /\ ~ \E e \in wire[s] : e.snap = 1
       /\ buf[s][1][rd.row] = [call |-> call, round |-> reread]

=============================================================================
