----------------------------- MODULE SieveQueue -----------------------------
(***************************************************************************)
(* What one tier of the feature cache promises: a bounded SIEVE queue of   *)
(* nodes with a row for each.                                              *)
(***************************************************************************)
EXTENDS SieveTier

CONSTANTS TierNodes, Versions, Capacity, Warm, Pinned

VARIABLES
  tier,
  content,   \* node -> its row, or NIL
  outcome    \* of the last call: its kind, the victim, and the row handed out

qvars == <<tier, content, outcome>>

QueueInit == tier = EmptyTier /\ content = [n \in TierNodes |-> NIL] /\ outcome = <<NIL, NIL, NIL>>

QueueGet(n) ==
  /\ outcome' = <<IF n \in Resident(tier) THEN "hit" ELSE "miss", NIL, content[n]>>
  /\ tier' = IF n \in Resident(tier) THEN Touched(tier, n) ELSE tier
  /\ UNCHANGED content

\* The victim's row is returned with it; a refused row is the caller's.
QueueInsert(n, f) ==
  LET done == Inserted(tier, n, Capacity, Warm, Pinned)
  IN /\ tier' = done.tier
     /\ content' = [m \in TierNodes |-> IF m = n /\ done.kind # "refused" THEN f
                                    ELSE IF m = done.victim THEN NIL ELSE content[m]]
     /\ outcome' = <<done.kind, done.victim, IF done.victim = NIL THEN NIL ELSE content[done.victim]>>

QueueRemove(n) ==
  /\ tier' = Without(tier, n)
  /\ content' = [content EXCEPT ![n] = NIL]
  /\ outcome' = <<IF n \in Resident(tier) THEN "removed" ELSE "absent", NIL, NIL>>

QueueNext ==
  \E n \in TierNodes : QueueGet(n) \/ QueueRemove(n) \/ \E f \in {n} \X Versions : QueueInsert(n, f)
QueueSpec == QueueInit /\ [][QueueNext]_qvars
=============================================================================
