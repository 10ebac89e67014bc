--------------------------- MODULE StagingClients ---------------------------
(***************************************************************************)
(* The two clients whose READs write memory that a caller will reuse: the  *)
(* SRD client's staging regions and the rows of the sharded pool's callers.*)
(* They run side by side, on queue pairs of their own.                     *)
(***************************************************************************)
EXTENDS SrdGather, ShardedQpPool

StagingSpec == SrdSpec /\ PoolSpec

\* QuietOrPoisoned (SrdGather) and AnsweredIsQuiet (ShardedQpPool): once a
\* client's call is answered no device writes its staging rows any more, or the
\* client never uses them again (srd.rs, drain; rdma/qp.rs, quiesce).
StagingIsQuiet == QuietOrPoisoned /\ AnsweredIsQuiet
=============================================================================
