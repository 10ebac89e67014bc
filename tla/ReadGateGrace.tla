---------------------------- MODULE ReadGateGrace ----------------------------
(***************************************************************************)
(* What the reader gate promises the recycler: slots unpublished while the *)
(* phase was p are held by nobody once the phase reaches p + 2 (ReadGate's *)
(* comment in arena.rs, and retire()'s grace_phase = phase + 2).           *)
(*                                                                         *)
(* The module adds to ReadGate one stamped batch and the readers that may  *)
(* hold its slots: those inside the gate when the batch is stamped, and    *)
(* those that enter before the next advance() reaches its SeqCst fence,    *)
(* whose root load may still return the superseded root.                   *)
(***************************************************************************)
EXTENDS ReadGate, Integers

VARIABLES
  togo,     \* grace_phase - phase of the stamped batch, 0 when reclaimable
  holders,  \* readers inside the gate that may hold a slot of the batch
  fenced    \* the unpublishing root stores were ordered by a SeqCst fence

graceVars == <<togo, holders, fenced>>
allVars == <<vars, graceVars>>

GraceTypeOK ==
  /\ TypeOK
  /\ togo \in 0..2
  /\ holders \subseteq Readers
  /\ fenced \in BOOLEAN

GraceInit ==
  /\ Init
  /\ togo = 0
  /\ holders = {}
  /\ fenced = TRUE

\* retire(): the batch is stamped after its root stores, with phase + 2.
Stamp ==
  /\ ~scanning
  /\ togo = 0
  /\ togo' = 2
  /\ holders' = {r \in Readers : rpc[r] = "in"}
  /\ fenced' = FALSE
  /\ UNCHANGED vars

\* A reader that enters before the fence may load a superseded root.
GraceEnter(r) ==
  /\ Enter(r)
  /\ holders' = IF fenced THEN holders ELSE holders \cup {r}
  /\ UNCHANGED <<togo, fenced>>

GraceLeave(r) ==
  /\ Leave(r)
  /\ holders' = holders \ {r}
  /\ UNCHANGED <<togo, fenced>>

\* Mutant of GraceBeginAdvance: advance() without its SeqCst fence, so the
\* emptiness proof does not order the root stores before later root loads.
GraceBeginAdvanceUnfenced ==
  /\ BeginAdvance
  /\ UNCHANGED graceVars

GraceBeginAdvance ==
  /\ BeginAdvance
  /\ fenced' = TRUE
  /\ UNCHANGED <<togo, holders>>

GraceStorePhase ==
  /\ StorePhase
  /\ togo' = IF togo = 0 THEN 0 ELSE togo - 1
  /\ UNCHANGED <<holders, fenced>>

GraceAdvance ==
  \/ GraceBeginAdvance
  \/ \E st \in Stripes :
       (ScanEmpty(st) \/ ScanOccupied(st)) /\ UNCHANGED graceVars
  \/ GraceStorePhase

GraceNext ==
  \/ Stamp
  \/ \E r \in Readers :
       (Steer(r) /\ UNCHANGED graceVars) \/ GraceEnter(r) \/ GraceLeave(r)
  \/ GraceAdvance
  \/ PhaseVisible /\ UNCHANGED graceVars

GraceSpec == GraceInit /\ [][GraceNext]_allVars

\* A reader that has begun to enter gets on with it and finishes its walk,
\* but may start new walks for ever; the writer keeps calling advance();
\* stores become visible.
GraceFairness ==
  /\ \A r \in Readers : WF_allVars(GraceEnter(r)) /\ WF_allVars(GraceLeave(r))
  /\ WF_allVars(GraceAdvance)
  /\ WF_allVars(PhaseVisible /\ UNCHANGED graceVars)

FairGraceSpec == GraceSpec /\ GraceFairness

\* Two phase steps after a batch is stamped no reader can hold one of its
\* slots, whatever bucket a stale phase load steered it to and however the
\* stripe loads interleave with entries and exits (reclaim_ready frees the
\* batch exactly then).
GracePeriod == togo = 0 => holders = {}

\* The inductive strengthening: who may still hold a slot of the batch while
\* one phase step, or part of a scan, is done.
GraceInv ==
  /\ GraceTypeOK
  /\ \A r \in holders : rpc[r] = "in"
  /\ ~fenced => togo = 2 /\ ~scanning
  /\ togo = 1 => \A r \in holders : bucket[r] = NextBucket
  /\ scanning => \A r \in holders :
                   bucket[r] = NextBucket => StripeOf[r] \in unread
  /\ GracePeriod

=============================================================================
