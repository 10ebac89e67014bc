---------------------------- MODULE MCDataPath ----------------------------
(***************************************************************************)
(* The hand-overs of memory, side by side in one run: the free list slots  *)
(* come from, the feature table's slot, the three clients that read it     *)
(* into staging rows, the packet ingest loop, and the C-trees whose nodes  *)
(* are arena slots.  They share no state, so a behaviour exercises one of  *)
(* them.                                                                   *)
(***************************************************************************)
EXTENDS FreeList, FeatureTable, StagingClients, RcGather, PacketIngest, CTree

\* Values in nearly ascending order make the deepest trees: with chunks of two
\* the seventh is the first to need a rebalance, for which ten allocations are
\* too few.
MCDestinations == <<1 .. 8, {}>>
MCBatches == <<{<<5, 9>>}, {<<1, 2>>}>>

VARIABLE part

MCInit ==
  /\ FreeListInit /\ TableInit /\ SrdInit /\ PoolInit /\ RcInit /\ PacketInit
  /\ CTreeInit
  /\ part \in {"freelist", "table", "srd", "pool", "rc", "packets", "trees"}

MCNext ==
  /\ UNCHANGED part
  /\ \/ part = "freelist" /\ FreeListNext /\ UNCHANGED <<tvars, gvars, pvars, rcvars, kvars, ctvars>>
     \/ part = "table" /\ TableNext /\ UNCHANGED <<flvars, gvars, pvars, rcvars, kvars, ctvars>>
     \/ part = "srd" /\ SrdNext /\ UNCHANGED <<flvars, tvars, pvars, rcvars, kvars, ctvars>>
     \/ part = "pool" /\ PoolNext /\ UNCHANGED <<flvars, tvars, gvars, rcvars, kvars, ctvars>>
     \/ part = "rc" /\ RcNext /\ UNCHANGED <<flvars, tvars, gvars, pvars, kvars, ctvars>>
     \/ part = "packets" /\ PacketNext /\ UNCHANGED <<flvars, tvars, gvars, pvars, rcvars, ctvars>>
     \/ part = "trees" /\ CTreeNext /\ UNCHANGED <<flvars, tvars, gvars, pvars, rcvars, kvars>>

MCSpec == MCInit /\ [][MCNext]_<<flvars, tvars, gvars, pvars, rcvars, kvars, ctvars, part>>
=============================================================================
