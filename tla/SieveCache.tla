----------------------------- MODULE SieveCache -----------------------------
(***************************************************************************)
(* One memory tier of the feature cache as sieve.rs and slab.rs build it:  *)
(* a map from nodes to slab rows, the queue as links between rows, rows    *)
(* recycled through a free list, and the eviction loop step by step.  All  *)
(* calls hold the tier's lock, except that get only marks a bit.           *)
(***************************************************************************)
EXTENDS Integers, SequencesExt

CONSTANTS TierNodes, Versions, Capacity, Warm, Pinned

NoRow == 0            \* no row; rows count from 1
None == "nil"       \* no node and no features

ASSUME SieveAssumption ==
  /\ Capacity \in Nat /\ Versions # {}
  /\ Warm \subseteq TierNodes /\ Pinned \subseteq TierNodes /\ None \notin TierNodes

VARIABLES
  cache,      \* node -> row, or NoRow
  links,      \* row -> [node, visited, prev, next]
  slab,       \* row -> features
  freeRows,   \* the slab's released rows, last released last
  head, tail, hand,
  returned    \* what the last call returned

svars == <<cache, links, slab, freeRows, head, tail, hand, returned>>

SieveInit ==
  /\ cache = [n \in TierNodes |-> NoRow] /\ links = <<>> /\ slab = <<>> /\ freeRows = <<>>
  /\ head = NoRow /\ tail = NoRow /\ hand = NoRow
  /\ returned = <<None, None, None>>

-----------------------------------------------------------------------------
(* The queue, as a record of its links and ends *)

Queue == [links |-> links, head |-> head, tail |-> tail, hand |-> hand]

Unlink(q, r) ==
  LET prev == q.links[r].prev
      next == q.links[r].next
      mended == [i \in DOMAIN q.links |->
                   IF i = r THEN [q.links[i] EXCEPT !.prev = NoRow, !.next = NoRow]
                   ELSE IF i = prev THEN [q.links[i] EXCEPT !.next = next]
                   ELSE IF i = next THEN [q.links[i] EXCEPT !.prev = prev]
                   ELSE q.links[i]]
  IN [q EXCEPT !.links = mended,
               !.tail = IF prev = NoRow THEN next ELSE @,
               !.head = IF next = NoRow THEN prev ELSE @]

PushHead(q, r) ==
  LET old == q.head
      spliced == [i \in DOMAIN q.links |->
                    IF i = r THEN [q.links[i] EXCEPT !.prev = old, !.next = NoRow]
                    ELSE IF i = old THEN [q.links[i] EXCEPT !.next = r]
                    ELSE q.links[i]]
  IN [q EXCEPT !.links = spliced, !.head = r, !.tail = IF old = NoRow THEN r ELSE @]

\* Step the hand past an entry that stays.
Passed(q) == [q EXCEPT !.links[q.hand].visited = @ /\ q.links[q.hand].node \in Pinned,
                       !.hand = q.links[q.hand].next]

\* One turn of the loop: a hand past the newest entry starts again at the
\* oldest, and takes out the entry it is on or steps past it.
Wrapped(q) == [q EXCEPT !.hand = IF @ = NoRow THEN q.tail ELSE @]
Stays(q, r) == q.links[r].node \in Pinned \/ q.links[r].visited
Turn(q) == IF q.hand = NoRow THEN [queue |-> q, found |-> NoRow]
           ELSE IF Stays(q, q.hand) THEN [queue |-> Passed(q), found |-> NoRow]
           ELSE [queue |-> Unlink([q EXCEPT !.hand = q.links[q.hand].next], q.hand),
                 found |-> q.hand]

\* evict: sweep[k] is the queue after k turns of the loop and the row found.
Sweep(q0, budget) ==
  LET sweep[k \in 0 .. budget] ==
        IF k = 0 THEN [queue |-> q0, found |-> NoRow]
        ELSE IF sweep[k - 1].found # NoRow THEN sweep[k - 1]
        ELSE Turn(Wrapped(sweep[k - 1].queue))
  IN sweep[budget]

-----------------------------------------------------------------------------
(* The tier's methods *)

SetQueue(q) == links' = q.links /\ head' = q.head /\ tail' = q.tail /\ hand' = q.hand

Get(n) ==
  /\ IF cache[n] = NoRow THEN returned' = <<"miss", None, None>> /\ UNCHANGED links
     ELSE /\ links' = [links EXCEPT ![cache[n]].visited = TRUE]
          /\ returned' = <<"hit", None, slab[cache[n]]>>
  /\ UNCHANGED <<cache, slab, freeRows, head, tail, hand>>

Overwrite(n, f) ==
  /\ cache[n] # NoRow
  /\ links' = [links EXCEPT ![cache[n]].visited = TRUE]
  /\ slab' = [slab EXCEPT ![cache[n]] = f]
  /\ returned' = <<"stored", None, None>>
  /\ UNCHANGED <<cache, freeRows, head, tail, hand>>

Full == Cardinality({n \in TierNodes : cache[n] # NoRow}) >= Capacity
Turns == 2 * Cardinality({n \in TierNodes : cache[n] # NoRow}) + 2

\* Every entry is pinned: the node is refused, and the hand has moved on.
Refuse(n) ==
  /\ cache[n] = NoRow /\ Full
  /\ LET swept == Sweep(Queue, Turns)
     IN swept.found = NoRow /\ SetQueue(swept.queue)
  /\ returned' = <<"refused", None, None>>
  /\ UNCHANGED <<cache, slab, freeRows>>

\* The node takes the last released row, or a new one, and heads the queue.
Store(n, f, q, released, kept, outcome) ==
  LET row == IF released = <<>> THEN Len(slab) + 1 ELSE Last(released)
      vacant == IF row > Len(q.links) THEN Append(q.links, [node |-> None]) ELSE q.links
      entry == [node |-> n, visited |-> n \in Warm, prev |-> NoRow, next |-> NoRow]
  IN /\ freeRows' = IF released = <<>> THEN <<>> ELSE Front(released)
     /\ slab' = IF row > Len(slab) THEN Append(slab, f) ELSE [slab EXCEPT ![row] = f]
     /\ SetQueue(PushHead([q EXCEPT !.links = [vacant EXCEPT ![row] = entry]], row))
     /\ cache' = [kept EXCEPT ![n] = row]
     /\ returned' = outcome

InsertFresh(n, f) ==
  /\ cache[n] = NoRow /\ ~Full
  /\ Store(n, f, Queue, freeRows, cache, <<"stored", None, None>>)

InsertEvicting(n, f) ==
  /\ cache[n] = NoRow /\ Full
  /\ LET swept == Sweep(Queue, Turns)
         victim == links[swept.found].node
     IN /\ swept.found # NoRow
        /\ Store(n, f, swept.queue, Append(freeRows, swept.found), [cache EXCEPT ![victim] = NoRow],
                 <<"evicting", victim, slab[swept.found]>>)

\* Mutant of SteppedOff: the hand stays on the entry that is taken out.
HandKept(q, r) == q

\* A hand on the entry steps to its newer neighbour.
SteppedOff(q, r) == [q EXCEPT !.hand = IF @ = r THEN q.links[r].next ELSE @]

RemoveRow(n) ==
  /\ SetQueue(Unlink(SteppedOff(Queue, cache[n]), cache[n]))
  /\ cache' = [cache EXCEPT ![n] = NoRow]
  /\ freeRows' = Append(freeRows, cache[n])

RemoveNode(n) ==
  /\ IF cache[n] = NoRow THEN UNCHANGED <<cache, links, freeRows, head, tail, hand>> ELSE RemoveRow(n)
  /\ returned' = <<IF cache[n] = NoRow THEN "absent" ELSE "removed", None, None>>
  /\ UNCHANGED slab

SieveNext ==
  \E n \in TierNodes :
    \/ Get(n) \/ RemoveNode(n) \/ Refuse(n)
    \/ \E f \in {n} \X Versions : Overwrite(n, f) \/ InsertFresh(n, f) \/ InsertEvicting(n, f)
SieveSpec == SieveInit /\ [][SieveNext]_svars

-----------------------------------------------------------------------------
\* The nodes from the tail, oldest first, and the tier and rows they make.
OldestFirst(q) ==
  LET row[k \in 1 .. Capacity] == IF k = 1 THEN q.tail
                                  ELSE IF row[k - 1] = NoRow THEN NoRow ELSE q.links[row[k - 1]].next
      count == Cardinality({k \in 1 .. Capacity : row[k] # NoRow})
  IN [k \in 1 .. count |-> q.links[row[k]].node]

TierSeen(q, index) == [queue |-> OldestFirst(q),
                       hand |-> IF q.hand = NoRow THEN None ELSE q.links[q.hand].node,
                       visited |-> {n \in TierNodes : index[n] # NoRow /\ q.links[index[n]].visited}]
RowsSeen(index, rows) == [n \in TierNodes |-> IF index[n] = NoRow THEN None ELSE rows[index[n]]]

Abstract == INSTANCE SieveQueue WITH
  tier <- TierSeen(Queue, cache), content <- RowsSeen(cache, slab), outcome <- returned

\* Every slab row is a resident node's alone, or on the free list once: the
\* slab never grows past the tier's capacity and no row is shared (slab.rs).
RowsAccounted ==
  /\ \A r \in DOMAIN slab :
       Cardinality({n \in TierNodes : cache[n] = r}) + Cardinality({i \in DOMAIN freeRows : freeRows[i] = r}) = 1
  /\ Len(slab) <= Capacity

\* The linked rows behave as the SIEVE queue: the same victims with their own
\* rows, the hand in the same place, whatever the order of hits, inserts and
\* removals (sieve.rs).
IsSieveQueue == Abstract!QueueSpec

\* IsSieveQueue, one step at a time, and no row is lost or shared on the way
\* (sieve.rs, slab.rs).
TierIsSieveQueue ==
  /\ []RowsAccounted
  /\ Abstract!QueueInit
  /\ [][UNCHANGED svars \/ [Abstract!QueueNext]_Abstract!qvars]_svars
=============================================================================
