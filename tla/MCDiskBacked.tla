---------------------------- MODULE MCDiskBacked ----------------------------
(***************************************************************************)
(* What memory may lose because a disk still has it: the graph's edges and *)
(* their log, one tier of the feature cache as linked rows, and the tiers  *)
(* above the spill file with two loaders.  The three share no state, so a  *)
(* behaviour exercises one of them.                                        *)
(***************************************************************************)
EXTENDS Wal, SieveCache, FeatureCache

CONSTANTS l1, l2

\* One loader reads batches and inserts, the other inserts only.
MCMaxBatch == [c \in {l1, l2} |-> IF c = l1 THEN 2 ELSE 0]

VARIABLE part

MCInit ==
  /\ Init /\ SieveInit /\ CacheInit /\ part \in {"log", "tier", "tiers"}
  /\ part # "tiers" => cold = {}
MCNext ==
  /\ UNCHANGED part
  /\ \/ part = "log" /\ Next /\ UNCHANGED <<svars, cvars>>
     \/ part = "tier" /\ SieveNext /\ UNCHANGED <<vars, cvars>>
     \/ part = "tiers" /\ CacheNext /\ UNCHANGED <<vars, svars>>
MCSpec == MCInit /\ [][MCNext]_<<vars, svars, cvars, part>>
=============================================================================
