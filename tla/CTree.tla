-------------------------------- MODULE CTree --------------------------------
(***************************************************************************)
(* Adjacency lists as C-trees in the arena: persistent trees of sorted     *)
(* chunks, changed by path copying and kept shallow by scapegoat rebuilds, *)
(* and the compaction that rebuilds them all into a fresh arena.  What the *)
(* operations put in the retire log is free at once here; how long a slot  *)
(* really waits is the subject of ArenaRecycler.  An operation may find    *)
(* the arena full at any of its allocations; its one retry, after the      *)
(* exhausted allocator reclaims, is the next call.                         *)
(*                                                                         *)
(* A slot is a tagged offset: chunks are 0, 1, ..., interior nodes Tag,    *)
(* Tag + 1, ...  A node is a sequence of values or an interior record.     *)
(***************************************************************************)
EXTENDS Integers, FiniteSets, SequencesExt

CONSTANTS
  TreeVertices,  \* the vertices, as sources: 1..n
  Destinations,  \* vertex -> the values inserted into its tree
  SortedBatches, \* vertex -> the batches, sorted, inserted into its tree
  ChunkCap,      \* CHUNK_CAP
  MaxDepth,      \* MAX_DEPTH
  Tag,           \* INTERIOR_BIT
  Ranges,        \* compaction threads
  FailAt,        \* allocations that may be granted before the arena is full
  TreeWindow,        \* bound: how far out of order single values arrive
  MaxEvents      \* bound: compactions, and operations that find the arena full

Sorted(S) ==
  [i \in 1 .. Cardinality(S) |-> CHOOSE x \in S : Cardinality({y \in S : y < x}) = i - 1]

ASSUME CTreeAssumption ==
  /\ TreeVertices = 1 .. Cardinality(TreeVertices)
  /\ ChunkCap \in Nat \ {0, 1} /\ MaxDepth \in Nat /\ Tag \in Nat /\ Ranges \in Nat \ {0}
  /\ \A v \in TreeVertices :
       /\ Destinations[v] \subseteq Nat
       /\ \A batch \in SortedBatches[v] : batch \in Seq(Nat) /\ batch = Sorted(Range(batch))

VARIABLES
  nodes,     \* slot -> node, for every slot ever allocated in this arena
  freeSlots, \* slots the retire log has given back
  roots,     \* vertex -> root slot, or Null
  rebuild,   \* a compaction: its arena, bounds, roots and ranges left; or Idle
  \* history
  leaked,      \* slots of operations that failed half way
  edges,     \* vertex -> destinations inserted
  strained,  \* vertices whose last rebalance failed
  events     \* failed operations and compactions so far

ctvars == <<nodes, freeSlots, roots, rebuild, leaked, edges, strained, events>>

Null == -1
Idle == [ranges |-> {}]

-----------------------------------------------------------------------------
(* Reading a tree in an arena h.                                           *)

IsLeaf(s) == s < Tag
Size(h, s) == IF IsLeaf(s) THEN Len(h[s]) ELSE h[s].count

RECURSIVE Elements(_, _)
Elements(h, s) ==
  IF s = Null THEN <<>>
  ELSE IF IsLeaf(s) THEN h[s] ELSE Elements(h, h[s].left) \o Elements(h, h[s].right)

RECURSIVE SlotsUnder(_, _)
SlotsUnder(h, s) ==
  IF s = Null THEN {}
  ELSE IF IsLeaf(s) THEN {s}
  ELSE {s} \cup SlotsUnder(h, h[s].left) \cup SlotsUnder(h, h[s].right)

RECURSIVE Descent(_, _, _)     \* the slots from s to the leaf val belongs to
Descent(h, s, val) ==
  IF IsLeaf(s) THEN <<s>>
  ELSE <<s>> \o Descent(h, IF val < h[s].key THEN h[s].left ELSE h[s].right, val)

TreeContains(h, s, val) ==
  s # Null /\ val \in Range(h[Last(Descent(h, s, val))])

-----------------------------------------------------------------------------
(* Allocating.  An allocation state a: the arena, its free slots, how many *)
(* allocations are still granted, the slot of the last one, those so far,  *)
(* and whether all were granted.  A compaction thread allocates from a     *)
(* region instead, whose next chunk and interior slots are a.next.         *)

NoRegion == [chunk |-> Null, interior |-> Null]
Granting(n) == [h |-> nodes, free |-> freeSlots, left |-> n, last |-> Null,
                got |-> {}, ok |-> TRUE, next |-> NoRegion]
Region(h, chunk, interior) ==
  [h |-> h, free |-> {}, left |-> -1, last |-> Null, got |-> {}, ok |-> TRUE,
   next |-> [chunk |-> chunk, interior |-> interior]]

NextFree(a, leaf) ==
  LET reuse == {s \in a.free : IsLeaf(s) = leaf}
      used == {s \in DOMAIN a.h : IsLeaf(s) = leaf}
  IN IF reuse # {} THEN CHOOSE s \in reuse : \A t \in reuse : s <= t
     ELSE Cardinality(used) + (IF leaf THEN 0 ELSE Tag)
Stored(a, s, node) ==
  [a EXCEPT !.h = [t \in DOMAIN @ \cup {s} |-> IF t = s THEN node ELSE @[t]],
            !.free = @ \ {s}, !.left = @ - 1, !.last = s, !.got = @ \cup {s}]

Put(a, node, leaf) ==
  IF ~a.ok \/ a.left = 0 THEN [a EXCEPT !.ok = FALSE]
  ELSE IF a.next = NoRegion THEN Stored(a, NextFree(a, leaf), node)
  ELSE IF leaf THEN [Stored(a, a.next.chunk, node) EXCEPT !.next.chunk = @ + 1]
  ELSE [Stored(a, a.next.interior, node) EXCEPT !.next.interior = @ + 1]
Interior(l, r, count, key) == [left |-> l, right |-> r, count |-> count, key |-> key]

LeavesOf(n) == (n + ChunkCap - 1) \div ChunkCap

RECURSIVE BuildBalanced(_, _)
BuildBalanced(a, vals) ==
  IF Len(vals) <= ChunkCap THEN Put(a, vals, TRUE)
  ELSE LET mid == (LeavesOf(Len(vals)) \div 2) * ChunkCap
           l == BuildBalanced(a, SubSeq(vals, 1, mid))
           r == BuildBalanced(l, SubSeq(vals, mid + 1, Len(vals)))
       IN Put(r, Interior(l.last, r.last, Len(vals), vals[mid + 1]), FALSE)
SlotCost(deg) ==
  IF deg = 0 THEN [chunks |-> 0, interiors |-> 0]
  ELSE [chunks |-> LeavesOf(deg), interiors |-> LeavesOf(deg) - 1]

-----------------------------------------------------------------------------
(* Inserting one value.                                                    *)

WithValue(vals, val) == Sorted(Range(vals) \cup {val})

PutLeafBySide(a, chunk, val) ==
  IF Len(chunk) < ChunkCap THEN Put(a, WithValue(chunk, val), TRUE)
  ELSE LET mid == Len(chunk) \div 2
           lower == SubSeq(chunk, 1, mid)
           upper == SubSeq(chunk, mid + 1, Len(chunk))
           l == Put(a, IF val < Last(lower) THEN WithValue(lower, val) ELSE lower, TRUE)
           r == Put(l, IF val < Last(lower) THEN upper ELSE WithValue(upper, val), TRUE)
       IN Put(r, Interior(l.last, r.last, Len(chunk) + 1, upper[1]), FALSE)

(* The new leaf, or a full leaf's two halves under a new interior *)
PutLeaf(a, chunk, val) ==
  IF Len(chunk) < ChunkCap THEN Put(a, WithValue(chunk, val), TRUE)
  ELSE LET mid == Len(chunk) \div 2
           lower == SubSeq(chunk, 1, mid)
           upper == SubSeq(chunk, mid + 1, Len(chunk))
           key == upper[1]
           l == Put(a, IF val < key THEN WithValue(lower, val) ELSE lower, TRUE)
           r == Put(l, IF val < key THEN upper ELSE WithValue(upper, val), TRUE)
       IN Put(r, Interior(l.last, r.last, Len(chunk) + 1, key), FALSE)

(* Copies of the interiors path[1..i], the last with child as the child the *)
(* value descends to; grow is added to their counts.                        *)
RECURSIVE CopyUp(_, _, _, _, _, _)
CopyUp(a, path, i, val, child, grow) ==
  IF i = 0 \/ ~a.ok THEN [alloc |-> a, root |-> child, copies |-> <<>>]
  ELSE LET old == a.h[path[i]]
           left == val < old.key
           new == Put(a, Interior(IF left THEN child ELSE old.left,
                                  IF left THEN old.right ELSE child,
                                  old.count + grow, old.key), FALSE)
           up == CopyUp(new, path, i - 1, val, new.last, grow)
       IN [up EXCEPT !.copies = Append(@, new.last)]

Log2(n) == CHOOSE k \in 0 .. n : 2^k <= n /\ n < 2^(k + 1)
DepthLimit(n) ==     \* floor(log_{3/2}(max(n, 2)))
  LET m == IF n < 2 THEN 2 ELSE n
  IN CHOOSE k \in 0 .. 2 * m : 3^k <= m * 2^k /\ m * 2^(k + 1) < 3^(k + 1)
TooDeepLate(depth, total) == depth > 2 * DepthLimit(total)
TooDeep(depth, total) ==
  depth > Log2(IF total < 2 THEN 2 ELSE total) /\ depth > DepthLimit(total)

Unbalanced(h, s) ==
  LET n == h[s] IN 3 * Size(h, n.left) > 2 * n.count \/ 3 * Size(h, n.right) > 2 * n.count
Scapegoat(h, copies) ==    \* the highest unbalanced one, or the root
  LET bad == {i \in DOMAIN copies : Unbalanced(h, copies[i])}
  IN IF bad = {} THEN 1 ELSE CHOOSE i \in bad : \A j \in bad : i <= j

(* Rebuild the scapegoat's subtree of the freshly copied tree, and copy    *)
(* the copies above it again.                                              *)
RebalancedRetiresCopies(up, val) ==
  LET a == up.alloc
      top == IF up.copies = <<>> THEN 1 ELSE Scapegoat(a.h, up.copies)
      target == IF up.copies = <<>> THEN up.root ELSE up.copies[top]
      built == BuildBalanced(a, Elements(a.h, target))
      above == CopyUp(built, up.copies, top - 1, val, built.last, 0)
  IN [alloc |-> above.alloc, root |-> above.root, retired |-> Range(up.copies)]
Rebalanced(up, val) ==
  LET a == up.alloc
      top == IF up.copies = <<>> THEN 1 ELSE Scapegoat(a.h, up.copies)
      target == IF up.copies = <<>> THEN up.root ELSE up.copies[top]
      built == BuildBalanced(a, Elements(a.h, target))
      above == CopyUp(built, up.copies, top - 1, val, built.last, 0)
  IN [alloc |-> above.alloc, root |-> above.root,
      retired |-> SlotsUnder(a.h, target) \cup {up.copies[i] : i \in 1 .. top - 1}]
Unchanged(kind, a, root) ==
  [kind |-> kind, alloc |-> a, root |-> root, retired |-> {}, failed |-> FALSE]

InsertOne(a, root, val) ==
  IF root = Null
  THEN LET new == Put(a, <<val>>, TRUE) IN
       IF new.ok THEN Unchanged("inserted", new, new.last)
       ELSE Unchanged("full", new, root)
  ELSE LET way == Descent(a.h, root, val)
           leaf == Last(way)
           path == Front(way)
           split == Len(a.h[leaf]) = ChunkCap
           total == Size(a.h, root) + 1
           child == PutLeaf(a, a.h[leaf], val)
           up == CopyUp(child, path, Len(path), val, child.last, 1)
           old == Range(path) \cup {leaf}
           bal == Rebalanced(up, val)
       IN IF Len(path) > MaxDepth THEN Unchanged("full", a, root)
          ELSE IF val \in Range(a.h[leaf]) THEN Unchanged("duplicate", a, root)
          ELSE IF ~up.alloc.ok THEN Unchanged("full", up.alloc, root)
          ELSE IF ~TooDeep(Len(path) + (IF split THEN 1 ELSE 0), total)
          THEN [kind |-> "inserted", alloc |-> up.alloc, root |-> up.root,
                retired |-> old, failed |-> FALSE]
          ELSE IF ~bal.alloc.ok
          THEN [kind |-> "inserted", alloc |-> bal.alloc, root |-> up.root,
                retired |-> old, failed |-> TRUE]
          ELSE [kind |-> "inserted", alloc |-> bal.alloc, root |-> bal.root,
                retired |-> old \cup bal.retired, failed |-> FALSE]

(* A batch as a chain of single inserts, of which only the last is         *)
(* published                                                               *)
Chain(a, root, vals) ==
  LET Step[i \in 0 .. Len(vals)] ==
        IF i = 0 THEN Unchanged("duplicate", a, root)
        ELSE LET p == Step[i - 1]
                 q == InsertOne(p.alloc, p.root, vals[i])
             IN IF p.kind = "full" THEN p
                ELSE [kind |-> IF q.kind = "duplicate" THEN p.kind ELSE q.kind,
                      alloc |-> q.alloc, root |-> q.root,
                      retired |-> p.retired \cup q.retired,
                      failed |-> p.failed \/ q.failed]
  IN Step[Len(vals)]

(* A batch merged with the old values and built anew                       *)
Rebuild(a, root, vals) ==
  LET old == Elements(a.h, root)
      merged == Sorted(Range(old) \cup Range(vals))
      new == BuildBalanced(a, merged)
  IN IF Len(merged) = Len(old) THEN Unchanged("duplicate", a, root)
     ELSE IF ~new.ok THEN Unchanged("full", new, root)
     ELSE [kind |-> "inserted", alloc |-> new, root |-> new.last,
           retired |-> SlotsUnder(a.h, root), failed |-> FALSE]

PreferPathCopy(degree, k) ==
  LET leaves == LeavesOf(degree)
      depth == Log2(IF leaves = 0 THEN 1 ELSE leaves) + 2
  IN k * depth < 2 * LeavesOf(degree + k)

-----------------------------------------------------------------------------
CTreeInit ==
  /\ nodes = << >>
  /\ freeSlots = {}
  /\ roots = [v \in TreeVertices |-> Null]
  /\ rebuild = Idle
  /\ leaked = {}
  /\ edges = [v \in TreeVertices |-> {}]
  /\ strained = {}
  /\ events = 0

Degree(v) == IF roots[v] = Null THEN 0 ELSE Size(nodes, roots[v])

Enough == 100    \* more allocations than any operation makes

(* What one insert or batch into v's tree comes to.  A tree that stays     *)
(* published keeps its nodes; the ones allocated for the other leak.       *)
Settle(v, vals, r) ==
  LET whole == r.root # roots[v] /\ SlotsUnder(nodes, roots[v]) \subseteq r.retired IN
  /\ nodes' = r.alloc.h
  /\ IF r.kind = "inserted"
     THEN /\ roots' = [roots EXCEPT ![v] = r.root]
          /\ freeSlots' = r.alloc.free \cup r.retired
          /\ edges' = [edges EXCEPT ![v] = @ \cup Range(vals)]
          /\ leaked' = IF r.alloc.ok THEN leaked
                       ELSE leaked \cup (r.alloc.got \ (SlotsUnder(r.alloc.h, r.root)
                                                       \cup r.retired))
          /\ strained' = IF r.failed THEN strained \cup {v}
                         ELSE IF whole THEN strained \ {v} ELSE strained
     ELSE /\ freeSlots' = r.alloc.free
          /\ leaked' = leaked \cup r.alloc.got
          /\ UNCHANGED <<roots, edges, strained>>
  /\ events' = events + (IF r.alloc.ok THEN 0 ELSE 1)
  /\ UNCHANGED rebuild

Grants == {Enough} \cup (IF events < MaxEvents THEN FailAt ELSE {})
AsGranted(n, r) == n = Enough \/ ~r.alloc.ok

InsertEdge(v, val) ==
  /\ rebuild = Idle
  /\ \E n \in Grants :
       \E r \in {InsertOne(Granting(n), roots[v], val)} :
         AsGranted(n, r) /\ Settle(v, <<val>>, r)

InsertSorted(v, vals) ==
  /\ rebuild = Idle
  /\ \E n \in Grants :
       \E r \in {IF PreferPathCopy(Degree(v), Len(vals))
                  THEN Chain(Granting(n), roots[v], vals)
                  ELSE Rebuild(Granting(n), roots[v], vals)} :
         AsGranted(n, r) /\ Settle(v, vals, r)

-----------------------------------------------------------------------------
(* Compaction.  The vertices are cut into ranges of about equal edge count; *)
(* each range is built, by a thread of its own, into slots reserved for it. *)

SumOf(f(_), S) == LET T[D \in SUBSET S] ==
                        IF D = {} THEN 0
                        ELSE LET d == CHOOSE x \in D : TRUE IN f(d) + T[D \ {d}]
                  IN T[S]
EdgesBefore(v) == SumOf(Degree, {u \in TreeVertices : u < v})

(* bounds[t] is the last vertex of the ranges up to t *)
Bounds ==
  LET nv == Cardinality(TreeVertices)
      Cut(t) == Cardinality({v \in TreeVertices :
                  EdgesBefore(v) < (EdgesBefore(nv + 1) * t) \div Ranges})
  IN [t \in 0 .. Ranges |-> IF t = 0 THEN 0 ELSE IF t = Ranges THEN nv
                            ELSE Max({Cut(u) : u \in 1 .. t})]
RangeCost(bounds, t) ==
  LET mine == bounds[t - 1] + 1 .. bounds[t]
      Chunks(v) == SlotCost(Degree(v)).chunks
      Interiors(v) == SlotCost(Degree(v)).interiors
  IN [chunks |-> SumOf(Chunks, mine), interiors |-> SumOf(Interiors, mine)]

BeginCompact ==
  /\ rebuild = Idle
  /\ events < MaxEvents
  /\ events' = events + 1
  /\ rebuild' = [ranges |-> 1 .. Ranges, bounds |-> Bounds,
                 arena |-> << >>, roots |-> [v \in TreeVertices |-> Null]]
  /\ UNCHANGED <<nodes, freeSlots, roots, leaked, edges, strained>>

(* One thread builds its range's trees into its region, the slots after    *)
(* those of the ranges before it                                           *)
RECURSIVE BuildRegion(_, _, _, _)
BuildRegion(a, newRoots, v, last) ==
  IF v > last THEN [arena |-> a.h, roots |-> newRoots]
  ELSE IF Degree(v) = 0 THEN BuildRegion(a, newRoots, v + 1, last)
  ELSE LET b == BuildBalanced(a, Elements(nodes, roots[v])) IN
       BuildRegion(b, [newRoots EXCEPT ![v] = b.last], v + 1, last)

RegionBase(bounds, t) ==
  LET Chunks(u) == RangeCost(bounds, u).chunks
      Interiors(u) == RangeCost(bounds, u).interiors
  IN [chunks |-> SumOf(Chunks, 1 .. t - 1), interiors |-> SumOf(Interiors, 1 .. t - 1)]

BuildRange(t) ==
  /\ rebuild # Idle /\ t \in rebuild.ranges
  /\ LET base == RegionBase(rebuild.bounds, t)
         built == BuildRegion(Region(rebuild.arena, base.chunks, Tag + base.interiors),
                              rebuild.roots, rebuild.bounds[t - 1] + 1, rebuild.bounds[t])
     IN rebuild' = [rebuild EXCEPT !.ranges = @ \ {t}, !.arena = built.arena,
                                   !.roots = built.roots]
  /\ UNCHANGED <<nodes, freeSlots, roots, leaked, edges, strained, events>>

(* commit_regions, then the new arena and roots replace the old ones       *)
Extent(bounds) ==
  LET all == RegionBase(bounds, Ranges + 1)
  IN (0 .. all.chunks - 1) \cup (Tag .. Tag + all.interiors - 1)
EndCompact ==
  /\ rebuild # Idle /\ rebuild.ranges = {}
  /\ nodes' = [s \in Extent(rebuild.bounds) |->
                 IF s \in DOMAIN rebuild.arena THEN rebuild.arena[s] ELSE <<>>]
  /\ freeSlots' = {} /\ leaked' = {} /\ strained' = {}
  /\ roots' = rebuild.roots
  /\ rebuild' = Idle
  /\ UNCHANGED <<edges, events>>

CTreeNext ==
  \/ \E v \in TreeVertices : \E val \in Destinations[v] :
       val <= Cardinality(edges[v]) + TreeWindow /\ InsertEdge(v, val)
  \/ \E v \in TreeVertices : \E batch \in SortedBatches[v] : InsertSorted(v, batch)
  \/ BeginCompact
  \/ \E t \in 1 .. Ranges : BuildRange(t)
  \/ EndCompact

CTreeSpec == CTreeInit /\ [][CTreeNext]_ctvars

-----------------------------------------------------------------------------
(* Properties.                                                             *)

Live == UNION {SlotsUnder(nodes, roots[v]) : v \in TreeVertices}
Depth(v) == CHOOSE d \in 0 .. 2 * Enough :
  LET ways == {Len(Descent(nodes, roots[v], val)) - 1 : val \in edges[v]}
  IN d \in ways \cup {0} /\ \A e \in ways : e <= d

(* Whatever was inserted, in whatever order and with whatever failures and *)
(* compactions between, each published tree lists exactly its edges in     *)
(* order, search finds exactly them, and the counts the balance relies on  *)
(* are the sizes of the subtrees.                                          *)
TreesAreTheirEdges ==
  \A v \in TreeVertices :
    /\ Elements(nodes, roots[v]) = Sorted(edges[v])
    /\ \A val \in Destinations[v] \cup edges[v] :
         TreeContains(nodes, roots[v], val) <=> val \in edges[v]
    /\ \A s \in SlotsUnder(nodes, roots[v]) :
         Size(nodes, s) = Len(Elements(nodes, s)) /\ (IsLeaf(s) => Len(nodes[s]) <= ChunkCap)

(* The retire log is exact: a slot it gives back is in no published tree,  *)
(* no two trees share a slot, and a slot that is in no tree and was not    *)
(* given back leaked in an operation that the full arena cut short.  After *)
(* a compaction the reservations cover the committed extents exactly.      *)
RetireLogExact ==
  /\ Live \cap (freeSlots \cup leaked) = {} /\ freeSlots \cap leaked = {}
  /\ DOMAIN nodes = Live \cup freeSlots \cup leaked
  /\ \A u, v \in TreeVertices :
       u # v => SlotsUnder(nodes, roots[u]) \cap SlotsUnder(nodes, roots[v]) = {}

(* ctree.rs:73: the scapegoat invariant keeps depth <= log_{3/2}(count) + 1, *)
(* unless a rebalance found the arena full.                                *)
DepthBounded ==
  \A v \in TreeVertices \ strained :
    roots[v] # Null => Depth(v) <= DepthLimit(Size(nodes, roots[v])) + 1

(* ctree.rs:403: "Repeated failures can only deepen the tree to MAX_DEPTH:  *)
(* the descent above returns ArenaFull past that, so depth stays bounded." *)
(* The descent lets a path of exactly MAX_DEPTH interiors through, and the *)
(* split of its leaf then adds one more.                                   *)
DepthWithinMax ==
  \A v \in TreeVertices : roots[v] # Null => Depth(v) <= MaxDepth
=============================================================================
