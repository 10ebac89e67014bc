----------------------------- MODULE MCReaders -----------------------------
(***************************************************************************)
(* Who reads without a lock, and who waits for a read.  Readers of the     *)
(* graph's arena go through the reader gate, two of them on one stripe and *)
(* one alone; readers of a mapped feature store through the pager; two     *)
(* callers share one queue pair, which the second may find retired.  The   *)
(* three share no state, so a behaviour exercises one of them.             *)
(***************************************************************************)
EXTENDS ReadGateGrace, PagedRegion, ShardedQpPool

CONSTANTS r1, r2, r3
MCReaders == {r1, r2, r3}
MCStripeOf == [r \in MCReaders |-> IF r = r3 THEN 1 ELSE 0]

\* The first page holds a hub, which outweighs everything else.
MCPageWeight == [p \in PageNos |-> IF p = 0 THEN 5 ELSE 0]

VARIABLE part

MCInit == GraceInit /\ PagerInit /\ PoolInit /\ part \in {"gate", "pager", "pool"}
MCNext ==
  /\ UNCHANGED part
  /\ \/ part = "gate" /\ GraceNext /\ UNCHANGED <<uvars, pvars>>
     \/ part = "pager" /\ PagerNext /\ UNCHANGED <<allVars, pvars>>
     \/ part = "pool" /\ PoolNext /\ UNCHANGED <<allVars, uvars>>

\* GraceFairness, PagerFairness and PoolFairness, of the part that runs.
InGate(A) == part = "gate" /\ A
InPager(A) == part = "pager" /\ A
InPool(A) == part = "pool" /\ A
MCFairness ==
  /\ \A r \in Readers : WF_allVars(InGate(GraceEnter(r))) /\ WF_allVars(InGate(GraceLeave(r)))
  /\ WF_allVars(InGate(GraceAdvance)) /\ WF_allVars(InGate(PhaseVisible /\ UNCHANGED graceVars))
  /\ WF_uvars(InPager(PagerStep)) /\ \A t \in PagedReaders : WF_uvars(InPager(PagedStep(t)))
  /\ \A c \in Callers : WF_pvars(InPool(Running /\ Send(c)))
  /\ \A s \in Pairs : /\ WF_pvars(InPool(Running /\ WorkerStep(s)))
                       /\ WF_pvars(InPool(Running /\ (GiveUp(s) \/ Abort(s))))
MCSpec == MCInit /\ [][MCNext]_<<allVars, uvars, pvars, part>> /\ MCFairness

\* PhaseKeepsMoving (ReadGate), where the gate runs.
GateKeepsMoving == part = "gate" => PhaseKeepsMoving
=============================================================================
