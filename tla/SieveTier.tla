----------------------------- MODULE SieveTier -----------------------------
(***************************************************************************)
(* One memory tier of the feature cache (sieve.rs) as a queue, oldest node *)
(* first, with the hand of the SIEVE policy on one of its nodes.  Each     *)
(* operator is a method of SieveCache on such a tier; SieveCache shows     *)
(* that the linked rows implement it.                                      *)
(***************************************************************************)
EXTENDS Integers, SequencesExt, FiniteSetsExt

NIL == "nil"
EmptyTier == [queue |-> <<>>, hand |-> NIL, visited |-> {}]
Resident(tier) == ToSet(tier.queue)

Position(q, n) == CHOOSE i \in DOMAIN q : q[i] = n
NextOf(q, n) == IF Position(q, n) = Len(q) THEN NIL ELSE q[Position(q, n) + 1]

\* get on a hit, and insert of a resident node
Touched(tier, n) == [tier EXCEPT !.visited = @ \cup {n}]

\* remove: a hand on the node steps to its newer neighbour.
Without(tier, n) ==
  IF n \notin Resident(tier) THEN tier
  ELSE [queue |-> RemoveAt(tier.queue, Position(tier.queue, n)),
        hand |-> IF tier.hand = n THEN NextOf(tier.queue, n) ELSE tier.hand,
        visited |-> tier.visited \ {n}]

\* The order the hand meets the nodes in; past the newest it wraps.
Start(tier) == IF tier.hand = NIL THEN 1 ELSE Position(tier.queue, tier.hand)
HandOrder(tier) ==
  SubSeq(tier.queue, Start(tier), Len(tier.queue)) \o SubSeq(tier.queue, 1, Start(tier) - 1)

\* The hand steps over pinned nodes and clears the bit of visited ones; two
\* sweeps find a victim unless all are pinned, and the budget then runs out
\* with the hand two nodes on.
Evicted(tier, pinned) ==
  LET order == HandOrder(tier)
      free == {i \in DOMAIN order : order[i] \notin pinned}
      unvisited == {i \in free : order[i] \notin tier.visited}
      passed == IF unvisited = {} THEN Resident(tier)
                ELSE {order[i] : i \in 1 .. Min(unvisited) - 1}
      victim == order[IF unvisited = {} THEN Min(free) ELSE Min(unvisited)]
      over == (Start(tier) + 1) % Len(order)
  IN IF order = <<>> THEN [tier |-> tier, victim |-> NIL]
     ELSE IF free = {}
     THEN [tier |-> [tier EXCEPT !.hand = IF over = 0 THEN NIL ELSE tier.queue[over + 1]],
           victim |-> NIL]
     ELSE [tier |-> Without([tier EXCEPT !.hand = victim, !.visited = @ \ (passed \ pinned)], victim),
           victim |-> victim]

\* insert.  kind is the InsertOutcome; a node of the warm-up enters visited.
Inserted(tier, n, capacity, warm, pinned) ==
  LET out == Evicted(tier, pinned)
      Push(t) == [t EXCEPT !.queue = Append(@, n), !.visited = @ \cup ({n} \cap warm)]
  IN IF n \in Resident(tier) THEN [tier |-> Touched(tier, n), kind |-> "stored", victim |-> NIL]
     ELSE IF Len(tier.queue) < capacity
     THEN [tier |-> Push(tier), kind |-> "stored", victim |-> NIL]
     ELSE IF out.victim = NIL THEN [tier |-> out.tier, kind |-> "refused", victim |-> NIL]
     ELSE [tier |-> Push(out.tier), kind |-> "evicting", victim |-> out.victim]

WithoutAll(tier, nodes) ==
  LET left[i \in 0 .. Len(nodes)] == IF i = 0 THEN tier ELSE Without(left[i - 1], nodes[i])
  IN left[Len(nodes)]

\* acc.out is what has no place in the tier any more: victims and newcomers
\* that are refused.
Added(acc, n, capacity, warm, pinned) ==
  LET done == Inserted(acc.tier, n, capacity, warm, pinned)
  IN [tier |-> done.tier,
      out |-> CASE done.kind = "stored" -> acc.out
                [] done.kind = "evicting" -> Append(acc.out, done.victim)
                [] done.kind = "refused" -> Append(acc.out, n)]

AddedAll(tier, nodes, capacity, warm, pinned) ==
  LET added[i \in 0 .. Len(nodes)] ==
        IF i = 0 THEN [tier |-> tier, out |-> <<>>]
        ELSE Added(added[i - 1], nodes[i], capacity, warm, pinned)
  IN added[Len(nodes)]
=============================================================================
