------------------------------ MODULE MCLoading ------------------------------
(***************************************************************************)
(* Getting batches to a consumer: the prefetch pipeline, and the batched   *)
(* reads through io_uring that gathers make.  They share no state, so a    *)
(* behaviour exercises one of them.                                        *)
(***************************************************************************)
EXTENDS MCPrefetch, UringRead

VARIABLE part

MCInit ==
  /\ Init /\ UringInit
  /\ \/ part = "pipeline" /\ kind = "plain"
     \/ part = "reads" /\ mode = "pool" /\ ordered
MCNext ==
  /\ UNCHANGED part
  /\ \/ part = "pipeline" /\ Next /\ UNCHANGED uvars
     \/ part = "reads" /\ UringNext /\ UNCHANGED vars

\* FairSpec's and FairUringSpec's fairness, of the part that runs.
InPipeline(A) == part = "pipeline" /\ A
InReads(A) == part = "reads" /\ A
MCFairness ==
  /\ WF_vars(InPipeline(\/ \E s \in Submitters : SubmitStep(s)
                        \/ \E w \in Workers : WorkerStep(w)
                        \/ OwnerStep))
  /\ \A c \in Consumers : WF_vars(InPipeline(ConsumeStep(c)))
  /\ WF_uvars(InReads(CallStep)) /\ WF_uvars(InReads(KernelStep))
MCSpec == MCInit /\ [][MCNext]_<<vars, uvars, part>> /\ MCFairness

\* StopReleasesAll, ConsumersCatchUp (PrefetchPipeline) and BatchReturns
\* (UringRead): a stop or a fault releases every thread, what is submitted is
\* yielded, and a batched read returns or aborts.
LoadingGoesOn == LoaderGoesOn /\ BatchReturns
=============================================================================
