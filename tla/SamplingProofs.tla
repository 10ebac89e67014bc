---------------------------- MODULE SamplingProofs ----------------------------
(***************************************************************************)
(* Proofs about the samplers: the neighbour sampler's subgraphs, and the   *)
(* dirty tracking and cached embeddings of historical sampling.            *)
(***************************************************************************)
EXTENDS HistoricalSampling, NeighborSampler, FiniteSetTheorems, SequenceTheorems, WellFoundedInduction, TLAPS

-----------------------------------------------------------------------------
(* Folds along a sequence.                                                 *)

\* A nonempty set of naturals has a least one.
LEMMA FirstOf ==
  ASSUME NEW S \in SUBSET Nat, S # {}
  PROVE  \E k \in S : \A j \in S : k <= j
<1>1. IsWellFoundedOn(OpToRel(<, Nat), Nat)
  BY NatLessThanWellFounded, Zenon
<1>2. PICK k \in S : \A j \in S : ~(<<j, k>> \in OpToRel(<, Nat))
  BY <1>1, WFMin, Zenon
<1>3. ASSUME NEW j \in S PROVE k <= j
  <2>1. j \in Nat /\ k \in Nat
    OBVIOUS
  <2>2. j < k => <<j, k>> \in OpToRel(<, Nat)
    BY <2>1 DEF OpToRel
  <2>3. ~(j < k)
    BY <1>2, <2>2, Zenon
  <2> QED
    BY <2>1, <2>3
<1> QED
  BY <1>3

\* Induction along a sequence.
LEMMA Along ==
  ASSUME NEW T, NEW n \in Nat, NEW h, h[0] \in T,
         \A i \in 1 .. n : h[i - 1] \in T => h[i] \in T
  PROVE  h[n] \in T
<1> DEFINE Wrong == {i \in 0 .. n : h[i] \notin T}
<1> SUFFICES ASSUME Wrong # {} PROVE FALSE
  OBVIOUS
<1>1. PICK k \in Wrong : \A j \in Wrong : k <= j
  <2>1. Wrong \in SUBSET Nat
    OBVIOUS
  <2> HIDE DEF Wrong
  <2> QED
    BY <2>1, FirstOf
<1>2. k \in 1 .. n
  BY <1>1
<1>3. k - 1 \in 0 .. n /\ ~(k <= k - 1)
  BY <1>2
<1>4. h[k - 1] \in T
  BY <1>1, <1>3
<1> QED
  BY <1>1, <1>2, <1>4

IsRun(g, F, base, n, T) ==
  /\ g \in [0 .. n -> T] /\ g[0] = base
  /\ \A i \in 1 .. n : g[i] = F[<<g[i - 1], i>>]

\* What takes a value and an entry to a value can be repeated along a sequence.
LEMMA Repeated ==
  ASSUME NEW T, NEW base, base \in T, NEW n, n \in Nat, NEW F, F \in [T \X (1 .. n) -> T]
  PROVE  \E g : IsRun(g, F, base, n, T)
<1> USE DEF IsRun
<1> DEFINE Runs(k) == {g \in [0 .. k -> T] : g[0] = base /\ \A i \in 1 .. k : g[i] = F[<<g[i - 1], i>>]}
           Wrong == {k \in 0 .. n : Runs(k) = {}}
<1> SUFFICES ASSUME Wrong # {} PROVE FALSE
  <2>1. n \in 0 .. n
    OBVIOUS
  <2>2. ASSUME Wrong = {} PROVE \E g : g \in Runs(n)
    BY <2>1, <2>2, Zenon
  <2>3. ASSUME NEW g, g \in Runs(n) PROVE IsRun(g, F, base, n, T)
    BY <2>3
  <2> QED
    BY <2>2, <2>3, Zenon
<1>1. PICK k \in Wrong : \A j \in Wrong : k <= j
  <2>1. Wrong \in SUBSET Nat
    OBVIOUS
  <2> HIDE DEF Wrong
  <2> QED
    BY <2>1, FirstOf
<1>2. CASE k = 0
  <2>1. [i \in 0 .. 0 |-> base] \in Runs(0)
    OBVIOUS
  <2> QED
    BY <1>1, <1>2, <2>1
<1>3. CASE k # 0
  <2>1. k \in 1 .. n /\ k - 1 \in 0 .. n /\ ~(k <= k - 1)
    BY <1>1, <1>3
  <2>2. PICK g \in Runs(k - 1) : TRUE
    BY <1>1, <2>1
  <2> DEFINE next == F[<<g[k - 1], k>>]
             h == [i \in 0 .. k |-> IF i = k THEN next ELSE g[i]]
  <2>3. g[k - 1] \in T /\ next \in T
    BY <2>1, <2>2
  <2>4. h \in [0 .. k -> T]
    <3>1. \A i \in 0 .. k : i # k => i \in 0 .. k - 1
      BY <2>1
    <3> HIDE DEF next
    <3> QED
      BY <2>2, <2>3, <3>1
  <2>5. h[0] = base
    BY <2>1, <2>2
  <2>6. ASSUME NEW i \in 1 .. k PROVE h[i] = F[<<h[i - 1], i>>]
    <3>1. CASE i = k
      <4>1. h[k] = next /\ h[k - 1] = g[k - 1]
        BY <2>1
      <4> QED
        BY <3>1, <4>1, Zenon
    <3>2. CASE i # k
      <4>1. i \in 1 .. k - 1 /\ i - 1 \in 0 .. k /\ i - 1 # k /\ i \in 0 .. k
        BY <2>1, <3>2
      <4>2. h[i] = g[i] /\ h[i - 1] = g[i - 1]
        BY <3>2, <4>1, Zenon
      <4> QED
        BY <2>2, <4>1, <4>2, Zenon
    <3> QED
      BY <3>1, <3>2
  <2> HIDE DEF h
  <2>7. h \in Runs(k)
    BY <2>4, <2>5, <2>6
  <2> QED
    BY <1>1, <2>7, Zenon
<1> QED
  BY <1>2, <1>3

-----------------------------------------------------------------------------
(* The sampler.                                                            *)

(* What the scratch of a pass, and a call, are made of.                    *)
EdgeRec == [src : SampleNodes, dst : SampleNodes, eid : Nat, sl : Nat, dl : Nat]
Moments == {Timestamp[e] : e \in Nat} \cup SeedTimes \cup {Infinity}
Slots == [SampleNodes -> [tag : Nat, idx : Nat]]
Dedups == [tag : Nat, slots : Slots]
Emissions == UNION {[D -> Nat] : D \in SUBSET Nat}
Passes == [nodes : Seq(SampleNodes), times : Seq(Moments), edges : Seq(EdgeRec),
           emitted : Emissions, frontier : Seq(SampleNodes), next : Seq(SampleNodes),
           counted : Nat]
Scratches == [dedup : Dedups, pass : Passes]

\* The table and the list of nodes name each other.
Matched(d, nodes) ==
  /\ \A i \in DOMAIN nodes : Known(d, nodes[i]) /\ Local(d, nodes[i]) = i
  /\ \A n \in SampleNodes :
       Known(d, n) => Local(d, n) \in DOMAIN nodes /\ nodes[Local(d, n)] = n
AllKnown(d, s) == \A i \in DOMAIN s : Known(d, s[i])
RealEdge(nodes, e) ==
  /\ {e.sl, e.dl} \subseteq DOMAIN nodes
  /\ nodes[e.sl] = e.src /\ nodes[e.dl] = e.dst
  /\ InGraph(e)

\* Entries of the table are of this generation or of older ones.
NotAhead(d) == \A n \in SampleNodes : d.slots[n].tag <= d.tag
Sound(st) ==
  /\ st.dedup.tag \in 1 .. Generations - 1
  /\ NotAhead(st.dedup)
  /\ Matched(st.dedup, st.pass.nodes)
  /\ AllKnown(st.dedup, st.pass.frontier) /\ AllKnown(st.dedup, st.pass.next)
  /\ \A i \in DOMAIN st.pass.edges : RealEdge(st.pass.nodes, st.pass.edges[i])
  /\ Temporal => Len(st.pass.times) = Len(st.pass.nodes)
Scratch == {st \in Scratches : Sound(st)}

Outs == [nodes : Seq(SampleNodes), edges : Seq(EdgeRec), seedLocals : Seq(Nat), batch : Seq(Nat),
         newNodes : [0 .. Hops -> Nat], newEdges : [1 .. Hops -> Int]]
Calls == [seeds : Seq(SampleNodes), times : Seq(Moments), begun : Nat, out : Outs]

\* The blocks a call has finished, the first last of them.
RealIn(nodes, batch, e) ==
  /\ {e.sl, e.dl} \subseteq DOMAIN nodes
  /\ batch[e.sl] = batch[e.dl]
  /\ nodes[e.sl] = e.src /\ nodes[e.dl] = e.dst
  /\ InGraph(e) \/ (scfg.subgraph = "bidirectional" /\ InGraph(Reversed(e)))
Apart(nodes, batch) == \A i, j \in DOMAIN nodes : nodes[i] = nodes[j] /\ batch[i] = batch[j] => i = j
BlocksReal(out, last) ==
  /\ Len(out.batch) = Len(out.nodes)
  /\ \A i \in DOMAIN out.batch : out.batch[i] \in 1 .. last
  /\ Apart(out.nodes, out.batch)
  /\ \A i \in DOMAIN out.edges : RealIn(out.nodes, out.batch, out.edges[i])

\* The seeds begun have their indices, the last ones in the block at hand.
SeedsPlaced(seeds, locals, nodes, batch) ==
  \A i \in DOMAIN locals :
    /\ locals[i] \in DOMAIN nodes
    /\ nodes[locals[i]] = seeds[i]
    /\ scfg.disjoint => batch[locals[i]] = i
AllNodes(call, p) == call.out.nodes \o p.nodes
AllBatch(call, p) == call.out.batch \o [i \in DOMAIN p.nodes |-> call.begun]

\* A finished call.
IsWhole(call) ==
  /\ call \in Calls
  /\ \E last \in Nat : BlocksReal(call.out, last)
  /\ Len(call.out.seedLocals) = Len(call.seeds)
  /\ SeedsPlaced(call.seeds, call.out.seedLocals, call.out.nodes, call.out.batch)
  /\ NodesBy(call.out.newNodes, Hops) = Len(call.out.nodes)

\* Block b may begin; and a pass over it is on.
Ready(call, b) ==
  /\ call \in Calls /\ Len(call.times) = Len(call.seeds) /\ b \in Nat \ {0}
  /\ BlocksReal(call.out, b - 1)
  /\ IF scfg.disjoint THEN b <= Len(call.seeds) /\ Len(call.out.seedLocals) = b - 1
                      ELSE b = 1 /\ call.out.seedLocals = <<>>
  /\ SeedsPlaced(call.seeds, call.out.seedLocals, call.out.nodes, call.out.batch)
  /\ NodesBy(call.out.newNodes, Hops) = Len(call.out.nodes)
InPass(call, st, h, x) ==
  /\ call \in Calls /\ Len(call.times) = Len(call.seeds) /\ call.begun \in Nat \ {0}
  /\ st \in Scratch /\ h \in 1 .. Hops + 1 /\ x \in Nat
  /\ h > Hops => st.pass.next = <<>>
  /\ BlocksReal(call.out, call.begun - 1)
  /\ IF scfg.disjoint THEN call.begun <= Len(call.seeds) /\ Len(call.out.seedLocals) = call.begun
                      ELSE call.begun = 1 /\ Len(call.out.seedLocals) = Len(call.seeds)
  /\ SeedsPlaced(call.seeds, call.out.seedLocals, AllNodes(call, st.pass), AllBatch(call, st.pass))
  /\ NodesBy(call.out.newNodes, Hops) + Len(st.pass.next) = Len(call.out.nodes) + Len(st.pass.nodes)

\* The inductive invariant: between calls, or within a pass of one.
Between ==
  /\ sphase = "idle"
  /\ dedup \in Dedups /\ dedup.tag < Generations /\ NotAhead(dedup)
  /\ scalls > 0 => IsWhole(scall)
Within ==
  /\ sphase = "hops"
  /\ InPass(scall, [dedup |-> dedup, pass |-> pass], hop, expanded)
SamplerInv ==
  /\ scfg \in Configs /\ scalls \in Nat
  /\ Between \/ Within

\* The row of a node is a sequence of edge ids.
LEMMA RowIsSeq ==
  ASSUME NEW u \in SampleNodes
  PROVE  /\ RowOf(u) \in Seq(Nat)
         /\ DOMAIN RowOf(u) = 1 .. Len(RowOf(u)) /\ Len(RowOf(u)) \in Nat
<1>1. /\ u \in 0 .. NodeCount /\ u + 1 \in 0 .. NodeCount
  BY SamplerAssumption DEF SampleNodes
<1>2. /\ Offsets[u] \in Nat /\ Offsets[u + 1] \in Nat /\ Offsets[u] <= Offsets[u + 1]
  BY <1>1, SamplerAssumption
<1> DEFINE n == Offsets[u + 1] - Offsets[u]
<1>3. n \in Nat
  BY <1>2
<1>4. RowOf(u) = [i \in 1 .. n |-> Offsets[u] + i]
  BY DEF RowOf
<1> HIDE DEF n
<1>5. RowOf(u) \in [1 .. n -> Nat]
  BY <1>2, <1>4
<1> QED
  BY <1>3, <1>5

\* Keeping some entries of a sequence keeps no others.
LEMMA KeptEntries ==
  ASSUME NEW V, NEW s \in Seq(V), NEW S
  PROVE  Kept(s, S) \in Seq({x \in V : x \in S /\ x \in Range(s)})
<1> DEFINE n == Len(s)
           W == {x \in V : x \in S /\ x \in Range(s)}
           T == Seq(W)
           F == [x \in T \X (1 .. n) |-> IF s[x[2]] \in S THEN Append(x[1], s[x[2]]) ELSE x[1]]
           Run(g) == [i \in 0 .. n |-> IF i = 0 THEN <<>>
                                       ELSE IF s[i] \in S THEN Append(g[i - 1], s[i]) ELSE g[i - 1]]
           some == CHOOSE g : g = Run(g)
<1>1. n \in Nat /\ <<>> \in T /\ \A i \in 1 .. n : s[i] \in V /\ s[i] \in Range(s)
  BY DEF Range
<1>2. \A t \in T, i \in 1 .. n : (IF s[i] \in S THEN Append(t, s[i]) ELSE t) \in T
  <2> TAKE t \in T, i \in 1 .. n
  <2>1. s[i] \in S => s[i] \in W
    BY <1>1
  <2> HIDE DEF W
  <2> QED
    BY <2>1
<1> HIDE DEF T, W
<1>3. F \in [T \X (1 .. n) -> T]
  BY <1>2
<1>4. \A t \in T, i \in 1 .. n : F[<<t, i>>] = IF s[i] \in S THEN Append(t, s[i]) ELSE t
  OBVIOUS
<1> HIDE DEF F, n
<1>5. PICK g : IsRun(g, F, <<>>, n, T)
  BY <1>1, <1>3, Repeated, Zenon
<1>6. \A i \in 1 .. n : g[i] = IF s[i] \in S THEN Append(g[i - 1], s[i]) ELSE g[i - 1]
  <2> TAKE i \in 1 .. n
  <2>1. i - 1 \in 0 .. n
    BY <1>1
  <2>2. g[i - 1] \in T
    BY <1>5, <2>1 DEF IsRun
  <2> QED
    BY <1>4, <1>5, <2>2, Zenon DEF IsRun
<1>7. g = Run(g)
  <2>1. \A i \in 0 .. n : i # 0 => i \in 1 .. n
    BY <1>1
  <2>2. g = [i \in 0 .. n |-> g[i]] /\ g[0] = <<>>
    BY <1>5 DEF IsRun
  <2>3. \A i \in 0 .. n : g[i] = IF i = 0 THEN <<>> ELSE IF s[i] \in S THEN Append(g[i - 1], s[i]) ELSE g[i - 1]
    BY <1>6, <2>1, <2>2, Zenon
  <2> QED
    BY <2>2, <2>3, Zenon
<1>8. \A h : h = Run(h) => /\ h[0] = <<>>
                            /\ \A i \in 1 .. n : h[i] = IF s[i] \in S THEN Append(h[i - 1], s[i]) ELSE h[i - 1]
  <2> TAKE h
  <2> HAVE h = Run(h)
  <2>1. 0 \in 0 .. n /\ \A i \in 1 .. n : i # 0 /\ i \in 0 .. n
    BY <1>1
  <2> QED
    BY <2>1, Zenon
<1> HIDE DEF Run
<1>9. some = Run(some)
  BY <1>7, Zenon
<1>10. Kept(s, S) = some[n]
  BY DEF Kept, some, Run, n
<1> HIDE DEF some
<1>11. some[0] = <<>> /\ \A i \in 1 .. n : some[i] = IF s[i] \in S THEN Append(some[i - 1], s[i]) ELSE some[i - 1]
  BY <1>9, <1>8, Zenon
<1>12. some[n] \in T
  <2>1. \A i \in 1 .. n : some[i - 1] \in T => some[i] \in T
    BY <1>2, <1>11, Zenon
  <2> QED
    BY <1>1, <1>11, <2>1, Along, Zenon
<1> QED
  BY <1>10, <1>12 DEF T, W

\* Floyd's draws are positions of the row.
LEMMA FloydPositions ==
  ASSUME NEW n \in Nat, NEW k \in Nat, k <= n
  PROVE  FloydPicks(n, k) \subseteq Seq(1 .. n)
<1> DEFINE P == 1 .. n
           T == SUBSET Seq(P)
           Drawn(S, top) == {Append(s, IF j \in Range(s) THEN top ELSE j) : s \in S, j \in 1 .. top}
           F == [x \in T \X (1 .. k) |-> Drawn(x[1], n - k + x[2])]
           base == {<<>>}
           Run(g) == [m \in 0 .. k |-> IF m = 0 THEN base ELSE Drawn(g[m - 1], n - k + m)]
           draw == CHOOSE g : g = Run(g)
<1>1. base \in T
  OBVIOUS
<1>2. \A t \in T, m \in 1 .. k : Drawn(t, n - k + m) \in T
  <2> TAKE t \in T, m \in 1 .. k
  <2> DEFINE top == n - k + m
  <2>1. top \in 1 .. n /\ 1 .. top \subseteq P
    OBVIOUS
  <2> HIDE DEF top, P
  <2>2. ASSUME NEW s \in t, NEW j \in 1 .. top
        PROVE  Append(s, IF j \in Range(s) THEN top ELSE j) \in Seq(P)
    <3>1. s \in Seq(P) /\ (IF j \in Range(s) THEN top ELSE j) \in P
      BY <2>1 DEF P
    <3> QED
      BY <3>1, AppendProperties, Zenon
  <2>3. \A x \in Drawn(t, top) : x \in Seq(P)
    BY <2>2
  <2>4. Drawn(t, top) \in T
    BY <2>3
  <2> HIDE DEF Drawn, T
  <2> QED
    BY <2>4 DEF top
<1> HIDE DEF T, P, Drawn, base
<1>3. F \in [T \X (1 .. k) -> T]
  BY <1>2
<1>4. \A t \in T, m \in 1 .. k : F[<<t, m>>] = Drawn(t, n - k + m)
  OBVIOUS
<1> HIDE DEF F
<1>5. PICK g : IsRun(g, F, base, k, T)
  BY <1>1, <1>3, Repeated, Zenon
<1>6. \A m \in 1 .. k : g[m] = Drawn(g[m - 1], n - k + m)
  <2> TAKE m \in 1 .. k
  <2>1. m - 1 \in 0 .. k
    OBVIOUS
  <2>2. g[m - 1] \in T
    BY <1>5, <2>1 DEF IsRun
  <2> QED
    BY <1>4, <1>5, <2>2, Zenon DEF IsRun
<1>7. g = Run(g)
  BY <1>5, <1>6 DEF IsRun
<1>8. \A h : h = Run(h) => h[0] = base /\ \A m \in 1 .. k : h[m] = Drawn(h[m - 1], n - k + m)
  <2> TAKE h
  <2> HAVE h = Run(h)
  <2>1. 0 \in 0 .. k /\ \A m \in 1 .. k : m # 0 /\ m \in 0 .. k
    OBVIOUS
  <2> QED
    BY <2>1, Zenon
<1> HIDE DEF Run
<1>9. draw = Run(draw)
  BY <1>7, Zenon
<1>10. FloydPicks(n, k) = draw[k]
  BY DEF FloydPicks, draw, Run, base, Drawn
<1> HIDE DEF draw
<1>11. draw[0] = base /\ \A m \in 1 .. k : draw[m] = Drawn(draw[m - 1], n - k + m)
  BY <1>8, <1>9, Zenon
<1>12. draw[k] \in T
  <2>1. \A m \in 1 .. k : draw[m - 1] \in T => draw[m] \in T
    BY <1>2, <1>11, Zenon
  <2> QED
    BY <1>1, <1>11, <2>1, Along, Zenon
<1> QED
  BY <1>10, <1>12 DEF T, P

\* A function on the first positions is a sequence.
LEMMA TupleIsSequence ==
  ASSUME NEW S, NEW k \in Nat, NEW f \in [1 .. k -> S]
  PROVE  f \in Seq(S) /\ Len(f) = k /\ DOMAIN f = 1 .. k
OBVIOUS

\* Entries picked by position are a sequence of entries.
LEMMA SelectedIsSequence ==
  ASSUME NEW S, NEW V, NEW el \in Seq(V), NEW s \in Seq(1 .. Len(el))
  PROVE  [i \in 1 .. Len(s) |-> el[s[i]]] \in Seq(V)
<1>1. Len(s) \in Nat /\ \A i \in 1 .. Len(s) : s[i] \in 1 .. Len(el)
  OBVIOUS
<1>2. \A j \in 1 .. Len(el) : el[j] \in V
  OBVIOUS
<1>3. [i \in 1 .. Len(s) |-> el[s[i]]] \in [1 .. Len(s) -> V]
  BY <1>1, <1>2
<1> QED
  BY <1>1, <1>3, TupleIsSequence

\* Every other way to draw gives positions of the row as well.
LEMMA ArrangedPositions ==
  ASSUME NEW V, NEW S \in SUBSET V, Cardinality(S) \in Nat
  PROVE  Arrangements(S) \subseteq Seq(V)
<1> SUFFICES ASSUME NEW s \in Arrangements(S) PROVE s \in Seq(V)
  OBVIOUS
<1>1. s \in [1 .. Cardinality(S) -> S]
  BY DEF Arrangements
<1>2. s \in Seq(S)
  BY <1>1, TupleIsSequence
<1> QED
  BY <1>2

\* The hub cap keeps positions of the row.
LEMMA EligiblePositions ==
  ASSUME scfg \in Configs, NEW row \in Seq(Nat), NEW capped
  PROVE  Eligible(row, capped) \subseteq Seq(1 .. Len(row))
<1> DEFINE n == Len(row)
<1>1. n \in Nat /\ scfg.cap \in Nat
  BY SamplerAssumption DEF ConfigOK
<1> SUFFICES ASSUME NEW p \in Eligible(row, capped) PROVE p \in Seq(1 .. n)
  OBVIOUS
<1>2. CASE p \in HubPicks(n, scfg.cap)
  <2>1. p \in [1 .. scfg.cap -> 1 .. n]
    BY <1>2 DEF HubPicks
  <2> QED
    BY <1>1, <2>1, TupleIsSequence, Zenon
<1>3. CASE p = [i \in 1 .. n |-> i]
  <2>1. p \in [1 .. n -> 1 .. n]
    BY <1>3
  <2> QED
    BY <1>1, <2>1, TupleIsSequence, Zenon
<1> QED
  BY <1>2, <1>3 DEF Eligible

\* Both weighted draws give positions of the weights.
LEMMA WeightedPositions ==
  ASSUME NEW w, NEW k \in Nat, Len(w) \in Nat
  PROVE  /\ WeightedReplace(w, k) \subseteq Seq(1 .. Len(w))
         /\ WeightedNoReplace(w, k) \subseteq Seq(1 .. Len(w))
<1> DEFINE n == Len(w)
           positive == {i \in 1 .. n : w[i] > 0}
<1>1. ASSUME NEW p \in WeightedReplace(w, k) PROVE p \in Seq(1 .. n)
  <2>1. CASE n = 0
    <3>1. p = <<>>
      BY <1>1, <2>1 DEF WeightedReplace
    <3> QED
      BY <3>1
  <2>2. CASE n # 0
    <3>1. p \in [1 .. k -> positive \cup {n}]
      BY <1>1, <2>2 DEF WeightedReplace
    <3>2. positive \cup {n} \subseteq 1 .. n
      BY <2>2
    <3> HIDE DEF positive, n
    <3>3. p \in [1 .. k -> 1 .. n]
      BY <3>1, <3>2
    <3> QED
      BY <3>3, TupleIsSequence, Zenon
  <2> QED
    BY <2>1, <2>2
<1>2. ASSUME NEW p \in WeightedNoReplace(w, k) PROVE p \in Seq(1 .. n)
  <2>1. CASE p = [i \in 1 .. n |-> i]
    <3>1. p \in [1 .. n -> 1 .. n]
      BY <2>1
    <3> QED
      BY <3>1, TupleIsSequence
  <2>2. ASSUME NEW S \in SUBSET (1 .. n), Cardinality(S) = k, p \in Arrangements(S)
        PROVE  p \in Seq(1 .. n)
    <3> HIDE DEF n
    <3> QED
      BY <2>2, ArrangedPositions, Zenon
  <2> HIDE DEF positive
  <2>3. \/ p = [i \in 1 .. n |-> i]
        \/ \E S \in SUBSET (1 .. n) : Cardinality(S) = k /\ p \in Arrangements(S)
    <3>1. CASE k >= n
      BY <1>2, <3>1 DEF WeightedNoReplace
    <3>2. CASE ~(k >= n)
      <4>1. p \in UNION {Arrangements(S) : S \in {T \in SUBSET (1 .. n) :
                           Cardinality(T) = k /\ (T \subseteq positive \/ positive \subseteq T)}}
        BY <1>2, <3>2 DEF WeightedNoReplace, positive
      <4> HIDE DEF n
      <4> QED
        BY <4>1
    <3> QED
      BY <3>1, <3>2
  <2> HIDE DEF n
  <2> QED
    BY <2>1, <2>2, <2>3
<1> QED
  BY <1>1, <1>2

\* A draw without times gives positions of the row.
LEMMA NormalPositions ==
  ASSUME scfg \in Configs, NEW row \in Seq(Nat), NEW k \in Nat
  PROVE  NormalPicks(row, k) \subseteq Seq(1 .. Len(row))
<1> DEFINE n == Len(row)
           w == [i \in 1 .. n |-> Weight[row[i]]]
           Some(el) == [i \in 1 .. Len(el) |-> w[el[i]]]
           Draws(el) == IF scfg.replace THEN WeightedReplace(Some(el), k)
                                        ELSE WeightedNoReplace(Some(el), k)
           Mapped(el, s) == [i \in 1 .. Len(s) |-> el[s[i]]]
<1>1. n \in Nat
  OBVIOUS
<1> SUFFICES ASSUME NEW p \in NormalPicks(row, k) PROVE p \in Seq(1 .. n)
  OBVIOUS
<1>2. CASE scfg.weighted
  <2>1. p \in UNION {{Mapped(el, s) : s \in Draws(el)} : el \in Eligible(row, TRUE)}
    BY <1>2, Zenon DEF NormalPicks
  <2> HIDE DEF Mapped, Draws
  <2>2. PICK el \in Eligible(row, TRUE) : p \in {Mapped(el, s) : s \in Draws(el)}
    BY <2>1, Zenon
  <2>3. PICK s \in Draws(el) : p = Mapped(el, s)
    BY <2>2
  <2>4. el \in Seq(1 .. n)
    BY EligiblePositions, Zenon
  <2> HIDE DEF n
  <2>5. Len(el) \in Nat /\ Len(Some(el)) = Len(el)
    BY <2>4
  <2> HIDE DEF Some
  <2>6. s \in Seq(1 .. Len(el))
    BY <2>3, <2>5, WeightedPositions DEF Draws
  <2> QED
    BY <2>3, <2>4, <2>6, SelectedIsSequence, Zenon DEF Mapped
<1>3. CASE ~scfg.weighted
  <2>1. \/ p \in [1 .. k -> 1 .. n]
        \/ p = [i \in 1 .. n |-> i]
        \/ ~(k >= n) /\ p \in FloydPicks(n, k)
    BY <1>3 DEF NormalPicks
  <2> HIDE DEF n
  <2>2. CASE p \in [1 .. k -> 1 .. n]
    BY <2>2, TupleIsSequence, Zenon
  <2>3. CASE p = [i \in 1 .. n |-> i]
    <3>1. p \in [1 .. n -> 1 .. n]
      BY <2>3
    <3> QED
      BY <1>1, <3>1, TupleIsSequence
  <2>4. CASE ~(k >= n) /\ p \in FloydPicks(n, k)
    <3>1. k <= n
      BY <1>1, <2>4
    <3> QED
      BY <1>1, <2>4, <3>1, FloydPositions
  <2> QED
    BY <2>1, <2>2, <2>3, <2>4
<1> QED
  BY <1>2, <1>3

\* A draw among the older edges gives some of them.
LEMMA OlderPositions ==
  ASSUME NEW V, NEW row, NEW older \in Seq(V), NEW k \in Nat
  PROVE  OlderPicks(row, older, k) \subseteq Seq(V)
<1> SUFFICES ASSUME NEW p \in OlderPicks(row, older, k) PROVE p \in Seq(V)
  OBVIOUS
<1>1. CASE k >= Len(older)
  BY <1>1 DEF OlderPicks
<1>2. CASE ~(k >= Len(older)) /\ scfg.strategy = "uniform"
  <2> DEFINE Mapped(s) == [i \in 1 .. Len(s) |-> older[s[i]]]
  <2>1. p \in {Mapped(s) : s \in FloydPicks(Len(older), k)}
    BY <1>2 DEF OlderPicks
  <2>2. PICK s \in FloydPicks(Len(older), k) : p = Mapped(s)
    BY <2>1
  <2>3. k <= Len(older) /\ Len(older) \in Nat
    BY <1>2
  <2>4. s \in Seq(1 .. Len(older))
    BY <2>3, FloydPositions
  <2> QED
    BY <2>2, <2>4, SelectedIsSequence
<1>3. CASE ~(k >= Len(older)) /\ scfg.strategy # "uniform"
  <2>1. p \in UNION {Arrangements(S) : S \in LatestOf(row, older, k)}
    BY <1>3 DEF OlderPicks
  <2>2. PICK S \in LatestOf(row, older, k) : p \in Arrangements(S)
    BY <2>1
  <2>3. S \in SUBSET Range(older) /\ Cardinality(S) = k
    BY DEF LatestOf
  <2>4. Range(older) \subseteq V
    BY DEF Range
  <2> QED
    BY <2>2, <2>3, <2>4, ArrangedPositions
<1> QED
  BY <1>1, <1>2, <1>3

\* A draw under a bound on time gives positions of the row.
LEMMA TemporalPositions ==
  ASSUME scfg \in Configs, NEW row \in Seq(Nat), NEW bound, NEW k \in Nat
  PROVE  TemporalPicks(row, bound, k) \subseteq Seq(1 .. Len(row))
<1> DEFINE Early == {i \in DOMAIN row : Timestamp[row[i]] < bound}
<1> SUFFICES ASSUME NEW p \in TemporalPicks(row, bound, k) PROVE p \in Seq(1 .. Len(row))
  OBVIOUS
<1>1. p \in UNION {OlderPicks(row, Kept(el, Early), k) : el \in Eligible(row, scfg.strategy = "uniform")}
  BY Zenon DEF TemporalPicks
<1> HIDE DEF Early
<1>2. PICK el \in Eligible(row, scfg.strategy = "uniform") : p \in OlderPicks(row, Kept(el, Early), k)
  BY <1>1
<1>3. el \in Seq(1 .. Len(row))
  BY EligiblePositions
<1> DEFINE V == 1 .. Len(row)
           K == {x \in V : x \in Early /\ x \in Range(el)}
<1> HIDE DEF V
<1>4. Kept(el, Early) \in Seq(K)
  BY <1>3, KeptEntries, Zenon DEF V
<1> HIDE DEF K
<1>5. p \in Seq(K) /\ K \subseteq V
  BY <1>2, <1>4, OlderPositions DEF K
<1>6. p \in Seq(V)
  BY <1>5
<1> QED
  BY <1>6 DEF V

\* What a node draws are positions of its row.
LEMMA PicksArePositions ==
  ASSUME scfg \in Configs, hop \in 1 .. Hops, NEW u \in SampleNodes, NEW p \in Picks(u)
  PROVE  p \in Seq(1 .. Len(RowOf(u)))
<1> DEFINE row == RowOf(u)
           most == scfg.fanout[hop]
<1>1. most \in Nat
  BY SamplerAssumption DEF ConfigOK, Hops
<1>2. row \in Seq(Nat)
  BY RowIsSeq
<1>3. \/ p = <<>>
      \/ p \in TemporalPicks(row, pass.times[Local(dedup, u)], most)
      \/ p \in NormalPicks(row, most)
  BY DEF Picks
<1> HIDE DEF row, most
<1>4. CASE p = <<>>
  BY <1>4
<1>5. CASE p \in TemporalPicks(row, pass.times[Local(dedup, u)], most)
  BY <1>1, <1>2, <1>5, TemporalPositions DEF row
<1>6. CASE p \in NormalPicks(row, most)
  BY <1>1, <1>2, <1>6, NormalPositions DEF row
<1> QED
  BY <1>3, <1>4, <1>5, <1>6

\* What a step of a pass leaves in place.
Grown(st, x) ==
  /\ x.dedup.tag = st.dedup.tag
  /\ \A n \in SampleNodes : Known(st.dedup, n) =>
       Known(x.dedup, n) /\ Local(x.dedup, n) = Local(st.dedup, n)
  /\ DOMAIN st.pass.nodes \subseteq DOMAIN x.pass.nodes
  /\ \A i \in DOMAIN st.pass.nodes : x.pass.nodes[i] = st.pass.nodes[i]
SameButNodes(p, q) ==
  /\ q.edges = p.edges /\ q.emitted = p.emitted /\ q.frontier = p.frontier
  /\ q.next = p.next /\ q.counted = p.counted
IsRegistered(st, n, x) ==
  /\ x \in Scratch /\ Grown(st, x) /\ Known(x.dedup, n)
  /\ SameButNodes(st.pass, x.pass)
  /\ Len(x.pass.nodes) = Len(st.pass.nodes) + (IF Known(st.dedup, n) THEN 0 ELSE 1)

\* A node that is not known gets the next index.
LEMMA InsertedNode ==
  ASSUME NEW st \in Scratch, NEW n \in SampleNodes, ~Known(st.dedup, n), NEW time \in Moments
  PROVE  IsRegistered(st, n, Inserted(st, n, time))
<1> DEFINE d == st.dedup
           p == st.pass
           L == Len(p.nodes)
           row == [tag |-> d.tag, idx |-> L + 1]
           d2 == [d EXCEPT !.slots[n] = row]
           p2 == [p EXCEPT !.nodes = Append(@, n), !.times = IF Temporal THEN Append(@, time) ELSE @]
           nodes2 == Append(p.nodes, n)
           times2 == IF Temporal THEN Append(p.times, time) ELSE p.times
           slots2 == [d.slots EXCEPT ![n] = row]
           x == Inserted(st, n, time)
<1>1. /\ d \in Dedups /\ p \in Passes /\ Sound(st) /\ L \in Nat
      /\ DOMAIN p.nodes = 1 .. L /\ \A i \in 1 .. L : p.nodes[i] \in SampleNodes
  BY DEF Scratch, Scratches, Passes
<1>2. x = [dedup |-> d2, pass |-> p2] /\ x.dedup = d2 /\ x.pass = p2
  BY DEF Inserted
<1>3. row \in [tag : Nat, idx : Nat]
  BY <1>1 DEF Dedups
<1>4. d2.tag = d.tag /\ d2.slots = slots2 /\ d2 \in Dedups
  <2>1. d2 = [tag |-> d.tag, slots |-> slots2]
    BY <1>1 DEF Dedups
  <2>2. slots2 \in Slots
    BY <1>1, <1>3 DEF Dedups, Slots
  <2> HIDE DEF row, slots2, d2
  <2> QED
    BY <1>1, <2>1, <2>2 DEF Dedups
<1>5. /\ nodes2 \in Seq(SampleNodes) /\ Len(nodes2) = L + 1 /\ DOMAIN nodes2 = 1 .. L + 1
      /\ \A i \in 1 .. L : nodes2[i] = p.nodes[i] /\ i \in 1 .. L + 1
      /\ nodes2[L + 1] = n
  BY <1>1 DEF Passes
<1>6. times2 \in Seq(Moments) /\ (Temporal => Len(times2) = Len(p.times) + 1)
  <2>1. p.times \in Seq(Moments)
    BY <1>1 DEF Passes
  <2> QED
    BY <2>1
<1>7. p2.nodes = nodes2 /\ p2.times = times2 /\ SameButNodes(p, p2) /\ p2 \in Passes
  <2>1. p2 = [p EXCEPT !.nodes = nodes2, !.times = times2]
    OBVIOUS
  <2> HIDE DEF p2, nodes2, times2
  <2>2. p2.nodes = nodes2 /\ p2.times = times2
    BY <1>1, <2>1 DEF Passes
  <2>3. SameButNodes(p, p2)
    BY <1>1, <2>1 DEF Passes, SameButNodes
  <2>4. p2 \in Passes
    BY <1>1, <1>5, <1>6, <2>1, Zenon DEF Passes
  <2> QED
    BY <2>2, <2>3, <2>4
<1>8. /\ slots2[n] = row
      /\ \A m \in SampleNodes : m # n => slots2[m] = d.slots[m]
  BY <1>1 DEF Dedups, Slots
<1>9. row.tag = d.tag /\ row.idx = L + 1
  OBVIOUS
<1> HIDE DEF d2, p2, nodes2, times2, slots2, row, x
<1>10. /\ Known(d2, n) /\ Local(d2, n) = L + 1
       /\ \A m \in SampleNodes : m # n => /\ Known(d2, m) <=> Known(d, m)
                                          /\ Local(d2, m) = Local(d, m)
  BY <1>4, <1>8, <1>9 DEF Known, Local
<1>11. Grown(st, x)
  <2>1. \A m \in SampleNodes : Known(d, m) => Known(d2, m) /\ Local(d2, m) = Local(d, m)
    BY <1>10
  <2> QED
    BY <1>1, <1>2, <1>4, <1>5, <1>7, <2>1 DEF Grown
<1>12. Matched(d2, nodes2)
  <2>1. Matched(d, p.nodes)
    BY <1>1 DEF Sound
  <2>2. \A i \in 1 .. L : p.nodes[i] # n /\ Known(d, p.nodes[i]) /\ Local(d, p.nodes[i]) = i
    BY <1>1, <2>1 DEF Matched
  <2>3. \A i \in 1 .. L + 1 : Known(d2, nodes2[i]) /\ Local(d2, nodes2[i]) = i
    <3> TAKE i \in 1 .. L + 1
    <3>1. CASE i = L + 1
      BY <1>5, <1>10, <3>1
    <3>2. CASE i # L + 1
      <4>1. i \in 1 .. L
        BY <1>1, <3>2
      <4> QED
        BY <1>1, <1>5, <1>10, <2>2, <4>1
    <3> QED
      BY <3>1, <3>2
  <2>4. ASSUME NEW m \in SampleNodes, Known(d2, m)
        PROVE  Local(d2, m) \in 1 .. L + 1 /\ nodes2[Local(d2, m)] = m
    <3>1. CASE m = n
      BY <1>1, <1>5, <1>10, <3>1
    <3>2. CASE m # n
      <4>1. Local(d, m) \in 1 .. L /\ p.nodes[Local(d, m)] = m /\ Local(d2, m) = Local(d, m)
        BY <1>1, <1>10, <2>1, <2>4, <3>2 DEF Matched
      <4> QED
        BY <1>5, <4>1
    <3> QED
      BY <3>1, <3>2
  <2> QED
    BY <1>5, <2>3, <2>4 DEF Matched
<1>13. Sound(x)
  <2>1. NotAhead(d2) /\ d2.tag \in 1 .. Generations - 1
    BY <1>1, <1>4, <1>8, <1>9 DEF Sound, NotAhead
  <2>2. AllKnown(d2, p2.frontier) /\ AllKnown(d2, p2.next)
    <3>1. AllKnown(d, p.frontier) /\ p2.frontier = p.frontier /\ p.frontier \in Seq(SampleNodes)
      BY <1>1, <1>7 DEF Sound, SameButNodes, Passes
    <3>2. AllKnown(d, p.next) /\ p2.next = p.next /\ p.next \in Seq(SampleNodes)
      BY <1>1, <1>7 DEF Sound, SameButNodes, Passes
    <3>3. /\ \A i \in DOMAIN p.frontier : p.frontier[i] \in SampleNodes
          /\ \A i \in DOMAIN p.next : p.next[i] \in SampleNodes
      BY <3>1, <3>2
    <3> QED
      BY <1>10, <3>1, <3>2, <3>3 DEF AllKnown
  <2>3. \A i \in DOMAIN p2.edges : RealEdge(nodes2, p2.edges[i])
    <3>1. p2.edges = p.edges /\ \A i \in DOMAIN p.edges : RealEdge(p.nodes, p.edges[i])
      BY <1>1, <1>7 DEF Sound, SameButNodes
    <3>2. ASSUME NEW i \in DOMAIN p.edges PROVE RealEdge(nodes2, p.edges[i])
      <4> DEFINE e == p.edges[i]
      <4>1. RealEdge(p.nodes, e)
        BY <3>1
      <4> HIDE DEF e
      <4>2. RealEdge(nodes2, e)
        BY <1>1, <1>5, <4>1, Zenon DEF RealEdge
      <4> QED
        BY <4>2 DEF e
    <3> QED
      BY <3>1, <3>2
  <2>4. Temporal => Len(times2) = Len(nodes2)
    BY <1>1, <1>5, <1>6, Zenon DEF Sound
  <2> QED
    BY <1>2, <1>7, <1>12, <2>1, <2>2, <2>3, <2>4 DEF Sound
<1>14. x \in Scratch
  BY <1>2, <1>4, <1>7, <1>13 DEF Scratch, Scratches
<1>15. Len(x.pass.nodes) = L + (IF Known(d, n) THEN 0 ELSE 1)
  BY <1>2, <1>5, <1>7
<1>16. IsRegistered(st, n, x)
  BY <1>2, <1>7, <1>10, <1>11, <1>14, <1>15 DEF IsRegistered
<1> QED
  BY <1>16 DEF x

\* Registering a node gives it an index, and every other node keeps its own.
LEMMA RegisteredNode ==
  ASSUME NEW st \in Scratch, NEW n \in SampleNodes, NEW time \in Moments
  PROVE  IsRegistered(st, n, Register(st, n, time))
<1> DEFINE x == Register(st, n, time)
           l == Local(st.dedup, n)
<1>1. CASE ~Known(st.dedup, n)
  <2>1. x = Inserted(st, n, time)
    BY <1>1 DEF Register
  <2> QED
    BY <1>1, <2>1, InsertedNode
<1>2. CASE Known(st.dedup, n) /\ x = st
  <2>1. Grown(st, st) /\ SameButNodes(st.pass, st.pass)
    BY DEF Grown, SameButNodes
  <2>2. Len(st.pass.nodes) \in Nat
    BY DEF Scratch, Scratches, Passes
  <2> HIDE DEF x
  <2>3. IsRegistered(st, n, x)
    BY <1>2, <2>1, <2>2 DEF IsRegistered
  <2> QED
    BY <2>3 DEF x
<1>3. CASE Known(st.dedup, n) /\ Temporal /\ x = [st EXCEPT !.pass.times[l] = time]
  <2> DEFINE p == st.pass
             times2 == [p.times EXCEPT ![l] = time]
             p2 == [p EXCEPT !.times = times2]
  <2>1. st \in Scratches /\ Sound(st) /\ p \in Passes /\ st.dedup \in Dedups
    BY DEF Scratch, Scratches
  <2>2. x = [dedup |-> st.dedup, pass |-> p2] /\ x.dedup = st.dedup /\ x.pass = p2
    BY <1>3, <2>1 DEF Scratches
  <2>3. p.times \in Seq(Moments) /\ Len(p.times) = Len(p.nodes) /\ p.nodes \in Seq(SampleNodes)
    BY <1>3, <2>1 DEF Passes, Sound
  <2>4. l \in DOMAIN p.nodes
    BY <1>3, <2>1 DEF Sound, Matched
  <2> HIDE DEF x, l
  <2>5. times2 \in Seq(Moments) /\ Len(times2) = Len(p.times)
    BY <2>3, <2>4
  <2> HIDE DEF times2
  <2>6. p2 \in Passes /\ SameButNodes(p, p2) /\ p2.nodes = p.nodes /\ p2.times = times2
    BY <2>1, <2>5, Zenon DEF Passes, SameButNodes
  <2> HIDE DEF p2
  <2>7. Sound(x)
    BY <2>1, <2>2, <2>3, <2>5, <2>6 DEF Sound, SameButNodes
  <2>8. x \in Scratch
    BY <2>1, <2>2, <2>6, <2>7 DEF Scratch, Scratches
  <2>9. Grown(st, x)
    BY <2>2, <2>6 DEF Grown
  <2>10. Len(x.pass.nodes) = Len(p.nodes) + 0
    BY <2>2, <2>3, <2>6
  <2>11. IsRegistered(st, n, x)
    BY <1>3, <2>2, <2>6, <2>8, <2>9, <2>10 DEF IsRegistered, Grown
  <2> QED
    BY <2>11 DEF x
<1>4. \/ ~Known(st.dedup, n)
      \/ Known(st.dedup, n) /\ Temporal /\ x = [st EXCEPT !.pass.times[l] = time]
      \/ Known(st.dedup, n) /\ x = st
  BY DEF Register
<1> QED
  BY <1>1, <1>2, <1>3, <1>4

\* An edge is emitted with real ends, and a node is new exactly if it goes to the next hop.
IsEmitted(st, x) ==
  /\ x \in Scratch /\ Grown(st, x) /\ x.pass.frontier = st.pass.frontier
  /\ Len(x.pass.nodes) + Len(st.pass.next) = Len(st.pass.nodes) + Len(x.pass.next)

\* A pass's lists have lengths.
LEMMA PassLengths ==
  ASSUME NEW st \in Scratch
  PROVE  Len(st.pass.nodes) \in Nat /\ Len(st.pass.next) \in Nat /\ Len(st.pass.frontier) \in Nat
BY DEF Scratch, Scratches, Passes

\* Noting the hop that emitted an edge touches nothing else.
LEMMA MarkedEdge ==
  ASSUME NEW st \in Scratch, NEW e \in Nat, hop \in Nat,
         NEW x, x = [st EXCEPT !.pass.emitted = [y \in DOMAIN @ \cup {e} |-> IF y = e THEN hop ELSE @[y]]]
  PROVE  /\ x \in Scratch /\ x.dedup = st.dedup /\ x.pass.nodes = st.pass.nodes
         /\ x.pass.edges = st.pass.edges /\ x.pass.frontier = st.pass.frontier /\ x.pass.next = st.pass.next
<1> DEFINE p == st.pass
           m == p.emitted
           m2 == [y \in DOMAIN m \cup {e} |-> IF y = e THEN hop ELSE m[y]]
           p2 == [p EXCEPT !.emitted = m2]
<1>1. st \in Scratches /\ Sound(st) /\ p \in Passes /\ st.dedup \in Dedups
  BY DEF Scratch, Scratches
<1>2. x = [dedup |-> st.dedup, pass |-> p2] /\ x.dedup = st.dedup /\ x.pass = p2
  BY <1>1 DEF Scratches
<1>3. m2 \in Emissions
  <2>1. PICK D \in SUBSET Nat : m \in [D -> Nat]
    BY <1>1, Zenon DEF Passes, Emissions
  <2>2. DOMAIN m = D /\ \A y \in D : m[y] \in Nat
    BY <2>1
  <2> HIDE DEF m
  <2>3. m2 \in [D \cup {e} -> Nat] /\ D \cup {e} \in SUBSET Nat
    BY <2>2
  <2> QED
    BY <2>3, Zenon DEF Emissions
<1> HIDE DEF m2
<1>4. p2 \in Passes /\ p2.nodes = p.nodes /\ p2.edges = p.edges /\ p2.frontier = p.frontier
      /\ p2.next = p.next /\ p2.times = p.times
  BY <1>1, <1>3, Zenon DEF Passes
<1> HIDE DEF p2
<1>5. Sound(x)
  BY <1>1, <1>2, <1>4, Zenon DEF Sound
<1> QED
  BY <1>1, <1>2, <1>4, <1>5 DEF Scratch, Scratches

WithEdge(st, next2, e) == [st EXCEPT !.pass.next = next2, !.pass.edges = Append(@, e)]
\* An edge whose ends are known goes to the end of the list.
LEMMA LinkedEdge ==
  ASSUME NEW st \in Scratch, NEW e \in EdgeRec, RealEdge(st.pass.nodes, e),
         NEW next2 \in Seq(SampleNodes), AllKnown(st.dedup, next2)
  PROVE  LET x == WithEdge(st, next2, e)
         IN /\ x \in Scratch /\ x.dedup = st.dedup /\ x.pass.nodes = st.pass.nodes
            /\ x.pass.frontier = st.pass.frontier /\ x.pass.next = next2
<1> DEFINE x == WithEdge(st, next2, e)
           p == st.pass
           found2 == Append(p.edges, e)
           p2 == [p EXCEPT !.next = next2, !.edges = found2]
<1>1. st \in Scratches /\ Sound(st) /\ p \in Passes /\ st.dedup \in Dedups /\ p.edges \in Seq(EdgeRec)
  BY DEF Scratch, Scratches, Passes
<1>2. x = [dedup |-> st.dedup, pass |-> p2] /\ x.dedup = st.dedup /\ x.pass = p2
  <2>1. x = [st EXCEPT !.pass.next = next2, !.pass.edges = Append(@, e)]
    BY DEF WithEdge
  <2> HIDE DEF x
  <2> QED
    BY <1>1, <2>1, Zenon DEF Scratches, Passes
<1> HIDE DEF x
<1>3. found2 \in Seq(EdgeRec) /\ \A i \in DOMAIN found2 : RealEdge(p.nodes, found2[i])
  <2>1. \A i \in DOMAIN p.edges : RealEdge(p.nodes, p.edges[i])
    BY <1>1 DEF Sound
  <2>2. /\ found2 \in Seq(EdgeRec) /\ Len(found2) = Len(p.edges) + 1 /\ Len(p.edges) \in Nat
        /\ \A i \in 1 .. Len(p.edges) : found2[i] = p.edges[i]
        /\ found2[Len(p.edges) + 1] = e
    BY <1>1, AppendProperties
  <2> HIDE DEF found2
  <2>3. ASSUME NEW i \in DOMAIN found2 PROVE RealEdge(p.nodes, found2[i])
    <3>1. i \in 1 .. Len(p.edges) + 1
      BY <2>2
    <3>2. i = Len(p.edges) + 1 \/ i \in 1 .. Len(p.edges)
      BY <2>2, <3>1
    <3>3. DOMAIN p.edges = 1 .. Len(p.edges)
      BY <1>1
    <3> QED
      BY <2>1, <2>2, <3>2, <3>3, Zenon
  <2> QED
    BY <2>2, <2>3
<1> HIDE DEF found2
<1>4. p2 \in Passes /\ p2.nodes = p.nodes /\ p2.edges = found2 /\ p2.frontier = p.frontier
      /\ p2.next = next2 /\ p2.times = p.times
  BY <1>1, <1>3, Zenon DEF Passes
<1> HIDE DEF p2
<1>5. Sound(x)
  BY <1>1, <1>2, <1>3, <1>4 DEF Sound
<1>6. /\ x \in Scratch /\ x.dedup = st.dedup /\ x.pass.nodes = p.nodes
      /\ x.pass.frontier = p.frontier /\ x.pass.next = next2
  BY <1>1, <1>2, <1>4, <1>5 DEF Scratch, Scratches
<1> QED
  BY <1>6 DEF x

\* One edge: refused, corrupt, or emitted with both ends known.
LEMMA EmittedEdge ==
  ASSUME NEW st \in Scratch, hop \in Nat, NEW u \in SampleNodes, Known(st.dedup, u),
         NEW e \in Nat, e \in Range(RowOf(u))
  PROVE  IsEmitted(st, EmitEdge(st, u, e))
<1> DEFINE d == Dst[e]
           seen == IF ~scfg.cumulative THEN st
                   ELSE [st EXCEPT !.pass.emitted =
                           [x \in DOMAIN @ \cup {e} |-> IF x = e THEN hop ELSE @[x]]]
           time == IF Temporal THEN Timestamp[e] ELSE Infinity
           reg == Register(seen, d, time)
           next2 == IF Known(st.dedup, d) THEN reg.pass.next ELSE Append(reg.pass.next, d)
           edge == [src |-> u, dst |-> d, eid |-> e, sl |-> Local(st.dedup, u), dl |-> Local(reg.dedup, d)]
           last == [reg EXCEPT !.pass.next = next2, !.pass.edges = Append(@, edge)]
           x == EmitEdge(st, u, e)
<1>1. x = IF ~FreshEdge(st, e) THEN st ELSE IF d \notin SampleNodes THEN seen ELSE last
  BY DEF EmitEdge
<1>2. /\ seen \in Scratch /\ seen.dedup = st.dedup /\ seen.pass.nodes = st.pass.nodes
      /\ seen.pass.frontier = st.pass.frontier /\ seen.pass.next = st.pass.next
  <2>1. CASE ~scfg.cumulative
    BY <2>1
  <2>2. CASE scfg.cumulative
    <3>1. seen = [st EXCEPT !.pass.emitted = [y \in DOMAIN @ \cup {e} |-> IF y = e THEN hop ELSE @[y]]]
      BY <2>2
    <3> HIDE DEF seen
    <3> QED
      BY <3>1, MarkedEdge, Zenon
  <2> QED
    BY <2>1, <2>2
<1> HIDE DEF seen
<1>3. Grown(st, seen)
  BY <1>2 DEF Grown
<1>4. IsEmitted(st, st) /\ IsEmitted(st, seen)
  BY <1>2, <1>3, PassLengths DEF IsEmitted, Grown
<1>5. ASSUME d \in SampleNodes PROVE IsEmitted(st, last)
  <2>1. time \in Moments
    BY DEF Moments
  <2> HIDE DEF time
  <2>2. IsRegistered(seen, d, reg)
    BY <1>2, <1>5, <2>1, RegisteredNode
  <2> HIDE DEF reg, d
  <2>3. reg \in Scratch /\ Grown(seen, reg) /\ Known(reg.dedup, d) /\ SameButNodes(seen.pass, reg.pass)
        /\ Len(reg.pass.nodes) = Len(seen.pass.nodes) + (IF Known(seen.dedup, d) THEN 0 ELSE 1)
    BY <2>2 DEF IsRegistered
  <2>4. Grown(st, reg)
    BY <1>2, <2>3 DEF Grown
  <2>5. /\ reg \in Scratches /\ Sound(reg) /\ Matched(reg.dedup, reg.pass.nodes)
        /\ Sound(st) /\ Matched(st.dedup, st.pass.nodes)
        /\ reg.pass.nodes \in Seq(SampleNodes) /\ reg.pass.next \in Seq(SampleNodes)
    BY <2>3, Zenon DEF Scratch, Sound, Scratches, Passes
  <2>6. /\ edge.sl \in DOMAIN reg.pass.nodes /\ reg.pass.nodes[edge.sl] = u
        /\ edge.dl \in DOMAIN reg.pass.nodes /\ reg.pass.nodes[edge.dl] = d
    BY <1>5, <2>3, <2>4, <2>5 DEF Matched, Grown
  <2>7. edge.src = u /\ edge.dst = d /\ edge.eid = e /\ DOMAIN reg.pass.nodes \subseteq Nat
    BY <2>5
  <2>8. edge \in EdgeRec
    BY <1>5, <2>6, <2>7 DEF EdgeRec
  <2>9. RealEdge(reg.pass.nodes, edge)
    <3>1. InGraph(edge)
      BY <2>7 DEF InGraph, d
    <3> HIDE DEF edge
    <3> QED
      BY <2>6, <2>7, <3>1 DEF RealEdge
  <2>10. /\ next2 \in Seq(SampleNodes) /\ AllKnown(reg.dedup, next2)
         /\ Len(next2) = Len(reg.pass.next) + (IF Known(st.dedup, d) THEN 0 ELSE 1)
    <3>1. AllKnown(reg.dedup, reg.pass.next) /\ Len(reg.pass.next) \in Nat
      BY <2>5 DEF Sound
    <3>2. CASE Known(st.dedup, d)
      BY <2>5, <3>1, <3>2
    <3>3. CASE ~Known(st.dedup, d)
      <4>1. next2 = Append(reg.pass.next, d)
        BY <3>3
      <4> HIDE DEF next2
      <4>2. next2 \in Seq(SampleNodes) /\ Len(next2) = Len(reg.pass.next) + 1
        BY <1>5, <2>5, <4>1
      <4>3. \A i \in DOMAIN next2 : next2[i] = d \/ (i \in DOMAIN reg.pass.next /\ next2[i] = reg.pass.next[i])
        BY <1>5, <2>5, <4>1
      <4> QED
        BY <2>3, <3>1, <3>3, <4>2, <4>3, Zenon DEF AllKnown
    <3> QED
      BY <3>2, <3>3, Zenon
  <2> HIDE DEF edge, next2
  <2>11. /\ last \in Scratch /\ last.dedup = reg.dedup /\ last.pass.nodes = reg.pass.nodes
         /\ last.pass.frontier = reg.pass.frontier /\ last.pass.next = next2
    <3>1. last = WithEdge(reg, next2, edge)
      BY DEF WithEdge
    <3> HIDE DEF last
    <3> QED
      BY <2>3, <2>8, <2>9, <2>10, <3>1, LinkedEdge, Zenon
  <2> HIDE DEF last
  <2>12. Grown(st, last)
    BY <2>4, <2>11 DEF Grown
  <2>13. last.pass.frontier = st.pass.frontier
    BY <1>2, <2>3, <2>11 DEF SameButNodes
  <2>14. Len(last.pass.nodes) + Len(st.pass.next) = Len(st.pass.nodes) + Len(last.pass.next)
    <3>1. reg.pass.next = st.pass.next /\ seen.dedup = st.dedup /\ seen.pass.nodes = st.pass.nodes
      BY <1>2, <2>3 DEF SameButNodes
    <3>2. Len(st.pass.nodes) \in Nat /\ Len(st.pass.next) \in Nat
      BY PassLengths
    <3> DEFINE one == IF Known(st.dedup, d) THEN 0 ELSE 1
    <3>3. one \in Nat
      OBVIOUS
    <3>4. Len(last.pass.nodes) = Len(st.pass.nodes) + one /\ Len(last.pass.next) = Len(st.pass.next) + one
      BY <2>3, <2>10, <2>11, <3>1, Zenon
    <3> HIDE DEF one
    <3> DEFINE a == Len(st.pass.nodes)
               b == Len(st.pass.next)
               a2 == Len(last.pass.nodes)
               b2 == Len(last.pass.next)
    <3>5. a \in Nat /\ b \in Nat /\ a2 = a + one /\ b2 = b + one
      BY <3>2, <3>4
    <3> HIDE DEF a, b, a2, b2
    <3>6. a2 + b = a + b2
      BY <3>3, <3>5
    <3> QED
      BY <3>6, Zenon DEF a, b, a2, b2
  <2> QED
    BY <2>11, <2>12, <2>13, <2>14, Zenon DEF IsEmitted
<1> HIDE DEF last, x
<1>6. x = st \/ x = seen \/ (d \in SampleNodes /\ x = last)
  BY <1>1
<1>7. IsEmitted(st, x)
  BY <1>4, <1>5, <1>6
<1> QED
  BY <1>7 DEF x

\* Two emissions in a row are an emission.
LEMMA EmittedTwice ==
  ASSUME NEW st \in Scratch, NEW x, IsEmitted(st, x), NEW y, IsEmitted(x, y)
  PROVE  IsEmitted(st, y)
<1>1. x \in Scratch /\ y \in Scratch /\ y.pass.frontier = st.pass.frontier
  BY DEF IsEmitted
<1>2. Grown(st, y)
  <2>1. Grown(st, x) /\ Grown(x, y)
    BY DEF IsEmitted
  <2> QED
    BY <2>1 DEF Grown
<1>3. Len(y.pass.nodes) + Len(st.pass.next) = Len(st.pass.nodes) + Len(y.pass.next)
  <2> DEFINE a == Len(st.pass.nodes)
             b == Len(st.pass.next)
             a1 == Len(x.pass.nodes)
             b1 == Len(x.pass.next)
             a2 == Len(y.pass.nodes)
             b2 == Len(y.pass.next)
  <2>1. {a, b, a1, b1, a2, b2} \subseteq Nat
    BY <1>1, PassLengths
  <2>2. a1 + b = a + b1 /\ a2 + b1 = a1 + b2
    BY Zenon DEF IsEmitted
  <2> HIDE DEF a, b, a1, b1, a2, b2
  <2>3. a2 + b = a + b2
    BY <2>1, <2>2
  <2> QED
    BY <2>3, Zenon DEF a, b, a2, b2
<1> QED
  BY <1>1, <1>2, <1>3, Zenon DEF IsEmitted

\* So is every edge a node draws.
LEMMA EmittedPicks ==
  ASSUME NEW st \in Scratch, hop \in Nat, NEW u \in SampleNodes, Known(st.dedup, u),
         NEW picks \in Seq(1 .. Len(RowOf(u)))
  PROVE  IsEmitted(st, EmitPicks(st, u, picks))
<1> DEFINE n == Len(picks)
           T == {x \in Scratch : IsEmitted(st, x)}
           e(i) == RowOf(u)[picks[i]]
           F == [x \in T \X (1 .. n) |-> EmitEdge(x[1], u, e(x[2]))]
           Run(g) == [i \in 0 .. n |-> IF i = 0 THEN st ELSE EmitEdge(g[i - 1], u, e(i))]
           emitted == CHOOSE g : g = Run(g)
<1>1. n \in Nat /\ st \in T
  BY PassLengths DEF IsEmitted, Grown
<1>2. ASSUME NEW t \in T, NEW i \in 1 .. n PROVE EmitEdge(t, u, e(i)) \in T
  <2>1. t \in Scratch /\ IsEmitted(st, t) /\ Known(t.dedup, u)
    BY Zenon DEF IsEmitted, Grown
  <2>2. e(i) \in Nat /\ e(i) \in Range(RowOf(u))
    <3>1. picks[i] \in 1 .. Len(RowOf(u))
      OBVIOUS
    <3> QED
      BY <3>1, RowIsSeq DEF Range
  <2> HIDE DEF e
  <2>3. IsEmitted(t, EmitEdge(t, u, e(i)))
    BY <2>1, <2>2, EmittedEdge
  <2>4. IsEmitted(st, EmitEdge(t, u, e(i)))
    BY <2>1, <2>3, EmittedTwice, Zenon
  <2> QED
    BY <2>4, Zenon DEF IsEmitted
<1> HIDE DEF T, e
<1>3. F \in [T \X (1 .. n) -> T]
  BY <1>2
<1>4. \A t \in T, i \in 1 .. n : F[<<t, i>>] = EmitEdge(t, u, e(i))
  OBVIOUS
<1> HIDE DEF F, n
<1>5. PICK g : IsRun(g, F, st, n, T)
  BY <1>1, <1>3, Repeated, Zenon
<1>6. \A i \in 1 .. n : g[i] = EmitEdge(g[i - 1], u, e(i))
  <2> TAKE i \in 1 .. n
  <2>1. i - 1 \in 0 .. n
    BY <1>1
  <2>2. g[i - 1] \in T
    BY <1>5, <2>1, Zenon DEF IsRun
  <2> QED
    BY <1>4, <1>5, <2>2, Zenon DEF IsRun
<1>7. g = Run(g)
  BY <1>1, <1>5, <1>6 DEF IsRun
<1>8. \A h : h = Run(h) => h[0] = st /\ \A i \in 1 .. n : h[i] = EmitEdge(h[i - 1], u, e(i))
  <2> TAKE h
  <2> HAVE h = Run(h)
  <2>1. 0 \in 0 .. n /\ \A i \in 1 .. n : i # 0 /\ i \in 0 .. n
    BY <1>1
  <2> QED
    BY <2>1, Zenon
<1> HIDE DEF Run
<1>9. emitted = Run(emitted)
  BY <1>7, Zenon
<1>10. EmitPicks(st, u, picks) = emitted[n]
  BY DEF EmitPicks, emitted, Run, n, e
<1> HIDE DEF emitted
<1>11. emitted[0] = st /\ \A i \in 1 .. n : emitted[i] = EmitEdge(emitted[i - 1], u, e(i))
  BY <1>8, <1>9, Zenon
<1>12. emitted[n] \in T
  <2>1. \A i \in 1 .. n : emitted[i - 1] \in T => emitted[i] \in T
    BY <1>2, <1>11, Zenon
  <2> QED
    BY <1>1, <1>11, <2>1, Along, Zenon
<1> QED
  BY <1>10, <1>12 DEF T

\* A new generation makes every entry of the table old.
LEMMA FreshDedup ==
  ASSUME dedup \in Dedups, dedup.tag < Generations, NotAhead(dedup)
  PROVE  /\ BeginDedup \in Dedups /\ BeginDedup.tag \in 1 .. Generations - 1 /\ NotAhead(BeginDedup)
         /\ \A n \in SampleNodes : ~Known(BeginDedup, n)
<1> USE SamplerAssumption
<1> DEFINE d == BeginDedup
<1>1. dedup.tag \in Nat /\ Generations \in Nat /\ Generations > 1 /\ dedup.slots \in Slots
  BY DEF Dedups
<1>2. CASE dedup.tag + 1 = Generations
  <2>1. d = [tag |-> 1, slots |-> Slots0]
    BY <1>2 DEF BeginDedup
  <2>2. Slots0 \in Slots /\ \A n \in SampleNodes : Slots0[n].tag = 0
    BY DEF Slots, Slots0
  <2> HIDE DEF d
  <2>3. d.tag = 1 /\ d.slots = Slots0
    BY <2>1
  <2>4. d \in Dedups /\ d.tag \in 1 .. Generations - 1 /\ NotAhead(d) /\ \A n \in SampleNodes : ~Known(d, n)
    BY <1>1, <2>1, <2>2, <2>3 DEF Dedups, NotAhead, Known
  <2> QED
    BY <2>4 DEF d
<1>3. CASE dedup.tag + 1 # Generations
  <2>1. d = [dedup EXCEPT !.tag = @ + 1]
    BY <1>3 DEF BeginDedup
  <2> HIDE DEF d
  <2>2. d \in Dedups /\ d.tag = dedup.tag + 1 /\ d.slots = dedup.slots
    BY <1>1, <2>1 DEF Dedups
  <2>3. \A n \in SampleNodes : d.slots[n].tag \in Nat /\ d.slots[n].tag < d.tag
    BY <1>1, <2>2 DEF NotAhead, Slots
  <2>4. d.tag \in 1 .. Generations - 1 /\ NotAhead(d) /\ \A n \in SampleNodes : ~Known(d, n)
    BY <1>1, <1>3, <2>2, <2>3 DEF NotAhead, Known
  <2> QED
    BY <2>2, <2>4 DEF d
<1> QED
  BY <1>2, <1>3

\* A pass begins empty, with a fresh generation.
LEMMA EmptyPass ==
  ASSUME dedup \in Dedups, dedup.tag < Generations, NotAhead(dedup)
  PROVE  [dedup |-> BeginDedup, pass |-> NoPass] \in Scratch
<1>1. NoPass \in Passes
  <2>1. <<>> \in Emissions
    <3>1. <<>> \in [{} -> Nat]
      OBVIOUS
    <3> QED
      BY <3>1, Zenon DEF Emissions
  <2> QED
    BY <2>1 DEF NoPass, Passes
<1>2. NoPass.nodes = <<>> /\ NoPass.frontier = <<>> /\ NoPass.next = <<>> /\ NoPass.edges = <<>> /\ NoPass.times = <<>>
  BY DEF NoPass
<1> DEFINE d == BeginDedup
           x == [dedup |-> d, pass |-> NoPass]
<1>3. d \in Dedups /\ d.tag \in 1 .. Generations - 1 /\ NotAhead(d) /\ \A n \in SampleNodes : ~Known(d, n)
  BY FreshDedup
<1> HIDE DEF d
<1>4. x.dedup = d /\ x.pass = NoPass /\ x \in Scratches
  BY <1>1, <1>3 DEF Scratches
<1> HIDE DEF x
<1>5. Sound(x)
  BY <1>2, <1>3, <1>4 DEF Sound, Matched, AllKnown
<1>6. x \in Scratch
  BY <1>4, <1>5 DEF Scratch
<1> QED
  BY <1>6 DEF x, d

\* The seeds' order in the frontier; a seed listed again adds nothing.
SeededOne(st, n, time) ==
  LET reg == Register(st, n, time)
  IN IF Known(st.dedup, n) THEN reg ELSE [reg EXCEPT !.pass.frontier = Append(@, n)]
\* A seed is registered, and joins the frontier when it is new.
LEMMA SeededNode ==
  ASSUME NEW st \in Scratch, NEW n \in SampleNodes, NEW time \in Moments
  PROVE  LET x == SeededOne(st, n, time)
         IN x \in Scratch /\ Grown(st, x) /\ Known(x.dedup, n) /\ x.pass.next = st.pass.next
<1> DEFINE reg == Register(st, n, time)
           x == SeededOne(st, n, time)
           f2 == Append(reg.pass.frontier, n)
           p2 == [reg.pass EXCEPT !.frontier = f2]
<1>1. IsRegistered(st, n, reg)
  BY RegisteredNode
<1>2. x = reg \/ x = [reg EXCEPT !.pass.frontier = Append(@, n)]
  BY DEF SeededOne
<1> HIDE DEF reg, x
<1>3. reg \in Scratch /\ Grown(st, reg) /\ Known(reg.dedup, n) /\ reg.pass.next = st.pass.next
  BY <1>1 DEF IsRegistered, SameButNodes
<1>4. reg \in Scratches /\ Sound(reg) /\ reg.pass \in Passes /\ reg.pass.frontier \in Seq(SampleNodes)
  BY <1>3 DEF Scratch, Scratches, Passes
<1>5. ASSUME x = [reg EXCEPT !.pass.frontier = Append(@, n)]
      PROVE  x \in Scratch /\ Grown(st, x) /\ Known(x.dedup, n) /\ x.pass.next = st.pass.next
  <2>1. x = [dedup |-> reg.dedup, pass |-> p2] /\ x.dedup = reg.dedup /\ x.pass = p2
    BY <1>4, <1>5, Zenon DEF Scratches, Passes
  <2>2. f2 \in Seq(SampleNodes) /\ AllKnown(reg.dedup, f2)
    <3>1. f2 \in Seq(SampleNodes)
      BY <1>4
    <3>2. \A i \in DOMAIN f2 : f2[i] = n \/ (i \in DOMAIN reg.pass.frontier /\ f2[i] = reg.pass.frontier[i])
      BY <1>4
    <3> HIDE DEF f2
    <3> QED
      BY <1>3, <1>4, <3>1, <3>2 DEF Sound, AllKnown
  <2> HIDE DEF f2
  <2>3. p2 \in Passes /\ p2.nodes = reg.pass.nodes /\ p2.edges = reg.pass.edges /\ p2.frontier = f2
        /\ p2.next = reg.pass.next /\ p2.times = reg.pass.times
    BY <1>4, <2>2, Zenon DEF Passes
  <2> HIDE DEF p2
  <2>4. Sound(x)
    BY <1>4, <2>1, <2>2, <2>3 DEF Sound
  <2>5. x \in Scratch
    BY <1>4, <2>1, <2>3, <2>4 DEF Scratch, Scratches
  <2> QED
    BY <1>3, <2>1, <2>3, <2>5 DEF Grown
<1>6. x \in Scratch /\ Grown(st, x) /\ Known(x.dedup, n) /\ x.pass.next = st.pass.next
  BY <1>2, <1>3, <1>5
<1> QED
  BY <1>6 DEF x

\* After all seeds of a block every one of them is known.
LEMMA SeededPass ==
  ASSUME dedup \in Dedups, dedup.tag < Generations, NotAhead(dedup),
         NEW seeds \in Seq(SampleNodes), NEW times, \A i \in 1 .. Len(seeds) : times[i] \in Moments
  PROVE  LET st == Seeded(seeds, times)
         IN st \in Scratch /\ st.pass.next = <<>> /\ \A i \in 1 .. Len(seeds) : Known(st.dedup, seeds[i])
<1> DEFINE n == Len(seeds)
           T == {x \in Scratch : x.pass.next = <<>>}
           base == [dedup |-> BeginDedup, pass |-> NoPass]
           F == [x \in T \X (1 .. n) |-> SeededOne(x[1], seeds[x[2]], times[x[2]])]
           Run(g) == [i \in 0 .. n |-> IF i = 0 THEN base ELSE SeededOne(g[i - 1], seeds[i], times[i])]
           reg == CHOOSE g : g = Run(g)
<1>1. n \in Nat /\ base \in T /\ \A i \in 1 .. n : seeds[i] \in SampleNodes
  BY EmptyPass DEF NoPass
<1>2. \A t \in T, i \in 1 .. n : /\ SeededOne(t, seeds[i], times[i]) \in T
                                /\ Grown(t, SeededOne(t, seeds[i], times[i]))
                                /\ Known(SeededOne(t, seeds[i], times[i]).dedup, seeds[i])
  BY <1>1, SeededNode
<1> HIDE DEF T, base
<1>3. F \in [T \X (1 .. n) -> T]
  BY <1>2
<1>4. \A t \in T, i \in 1 .. n : F[<<t, i>>] = SeededOne(t, seeds[i], times[i])
  OBVIOUS
<1> HIDE DEF F
<1>5. PICK g : IsRun(g, F, base, n, T)
  BY <1>1, <1>3, Repeated, Zenon
<1>6. \A i \in 1 .. n : g[i] = SeededOne(g[i - 1], seeds[i], times[i])
  <2> TAKE i \in 1 .. n
  <2>1. i - 1 \in 0 .. n
    BY <1>1
  <2>2. g[i - 1] \in T
    BY <1>5, <2>1 DEF IsRun
  <2> QED
    BY <1>4, <1>5, <2>2, Zenon DEF IsRun
<1>7. g = Run(g)
  BY <1>1, <1>5, <1>6 DEF IsRun
<1>8. \A h : h = Run(h) => h[0] = base /\ \A i \in 1 .. n : h[i] = SeededOne(h[i - 1], seeds[i], times[i])
  <2> TAKE h
  <2> HAVE h = Run(h)
  <2>1. 0 \in 0 .. n /\ \A i \in 1 .. n : i # 0 /\ i \in 0 .. n
    BY <1>1
  <2> QED
    BY <2>1, Zenon
<1>9. Seeded(seeds, times) = reg[n]
  BY DEF Seeded, SeededOne, base
<1> HIDE DEF Run
<1>10. reg = Run(reg)
  BY <1>7, Zenon
<1> HIDE DEF reg
<1>11. reg[0] = base /\ \A i \in 1 .. n : reg[i] = SeededOne(reg[i - 1], seeds[i], times[i])
  BY <1>8, <1>10, Zenon
<1> HIDE DEF n
<1> DEFINE h == [i \in 0 .. n |-> <<reg[i], i>>]
           R == {x \in T \X (0 .. n) : \A j \in 1 .. x[2] : Known(x[1].dedup, seeds[j])}
<1>12. h[n] \in R
  <2>1. h[0] \in R
    BY <1>1, <1>11
  <2>2. ASSUME NEW i \in 1 .. n, h[i - 1] \in R PROVE h[i] \in R
    <3>1. i - 1 \in 0 .. n /\ i \in 0 .. n /\ h[i - 1] = <<reg[i - 1], i - 1>> /\ h[i] = <<reg[i], i>>
      BY <1>1
    <3>2. reg[i - 1] \in T /\ \A j \in 1 .. i - 1 : Known(reg[i - 1].dedup, seeds[j])
      BY <2>2, <3>1
    <3>3. reg[i] \in T /\ Grown(reg[i - 1], reg[i]) /\ Known(reg[i].dedup, seeds[i])
      BY <1>2, <1>11, <3>2
    <3>4. ASSUME NEW j \in 1 .. i PROVE Known(reg[i].dedup, seeds[j])
      <4>1. j = i \/ (j \in 1 .. i - 1 /\ j \in 1 .. n)
        BY <1>1
      <4> QED
        BY <1>1, <3>2, <3>3, <4>1 DEF Grown
    <3> QED
      BY <3>1, <3>3, <3>4
  <2> HIDE DEF h, R
  <2> QED
    BY <1>1, <2>1, <2>2, Along
<1>13. h[n] = <<reg[n], n>>
  BY <1>1
<1>14. reg[n] \in T /\ \A j \in 1 .. n : Known(reg[n].dedup, seeds[j])
  BY <1>12, <1>13
<1> QED
  BY <1>9, <1>14 DEF T, n

\* Mirroring adds edges of the pass reversed.
LEMMA MirroredEdges ==
  ASSUME NEW st \in Scratch
  PROVE  /\ Mirror(st) \in Seq(EdgeRec)
         /\ \A i \in DOMAIN Mirror(st) :
              LET e == Mirror(st)[i]
              IN RealEdge(st.pass.nodes, e) \/ RealEdge(st.pass.nodes, Reversed(e))
<1> DEFINE forward == st.pass.edges
           n == Len(forward)
           E == {e \in EdgeRec : RealEdge(st.pass.nodes, e) \/ RealEdge(st.pass.nodes, Reversed(e))}
           T == Seq(E)
           Pairs(s) == {<<s[i].sl, s[i].dl>> : i \in DOMAIN s}
           Step(t, i) == IF <<forward[i].dl, forward[i].sl>> \in Pairs(t) THEN t
                         ELSE Append(t, Reversed(forward[i]))
           F == [x \in T \X (1 .. n) |-> Step(x[1], x[2])]
           Run(g) == [i \in 0 .. n |-> IF i = 0 THEN forward ELSE Step(g[i - 1], i)]
           mirrored == CHOOSE g : g = Run(g)
<1>1. /\ n \in Nat /\ forward \in Seq(EdgeRec)
      /\ \A i \in 1 .. n : forward[i] \in EdgeRec /\ RealEdge(st.pass.nodes, forward[i])
  BY DEF Scratch, Scratches, Passes, Sound
<1>2. \A i \in 1 .. n : forward[i] \in E /\ Reversed(forward[i]) \in E
  <2> TAKE i \in 1 .. n
  <2> DEFINE e == forward[i]
  <2>1. e \in EdgeRec /\ RealEdge(st.pass.nodes, e)
    BY <1>1
  <2> HIDE DEF e
  <2>2. Reversed(e) \in EdgeRec /\ Reversed(Reversed(e)) = e
    BY <2>1 DEF Reversed, EdgeRec
  <2>3. e \in E /\ Reversed(e) \in E
    BY <2>1, <2>2
  <2> QED
    BY <2>3 DEF e
<1> HIDE DEF E, Pairs
<1>3. forward \in T /\ \A t \in T, i \in 1 .. n : Step(t, i) \in T
  <2>1. forward \in T
    <3>1. forward \in [1 .. n -> E]
      BY <1>1, <1>2
    <3> QED
      BY <1>1, <3>1
  <2>2. \A t \in T, i \in 1 .. n : Step(t, i) \in T
    BY <1>2
  <2> QED
    BY <2>1, <2>2
<1> HIDE DEF T, Step
<1>4. F \in [T \X (1 .. n) -> T]
  BY <1>3
<1>5. \A t \in T, i \in 1 .. n : F[<<t, i>>] = Step(t, i)
  OBVIOUS
<1> HIDE DEF F
<1>6. PICK g : IsRun(g, F, forward, n, T)
  BY <1>1, <1>3, <1>4, Repeated, Zenon
<1>7. \A i \in 1 .. n : g[i] = Step(g[i - 1], i)
  <2> TAKE i \in 1 .. n
  <2>1. i - 1 \in 0 .. n
    BY <1>1
  <2>2. g[i - 1] \in T
    BY <1>6, <2>1 DEF IsRun
  <2> QED
    BY <1>5, <1>6, <2>2, Zenon DEF IsRun
<1>8. g = Run(g)
  BY <1>1, <1>6, <1>7 DEF IsRun
<1>9. \A h : h = Run(h) => h[0] = forward /\ \A i \in 1 .. n : h[i] = Step(h[i - 1], i)
  <2> TAKE h
  <2> HAVE h = Run(h)
  <2>1. 0 \in 0 .. n /\ \A i \in 1 .. n : i # 0 /\ i \in 0 .. n
    BY <1>1
  <2> QED
    BY <2>1, Zenon
<1>10. Mirror(st) = mirrored[n]
  BY DEF Mirror, Step, Pairs
<1> HIDE DEF Run
<1>11. mirrored = Run(mirrored)
  BY <1>8, Zenon
<1> HIDE DEF mirrored
<1>12. mirrored[0] = forward /\ \A i \in 1 .. n : mirrored[i] = Step(mirrored[i - 1], i)
  BY <1>9, <1>11, Zenon
<1>13. mirrored[n] \in T
  <2>1. \A i \in 1 .. n : mirrored[i - 1] \in T => mirrored[i] \in T
    BY <1>3, <1>12, Zenon
  <2> QED
    BY <1>1, <1>3, <1>12, <2>1, Along, Zenon
<1>14. Mirror(st) \in Seq(E)
  BY <1>10, <1>13 DEF T
<1>15. E \subseteq EdgeRec
  BY DEF E
<1>16. Mirror(st) \in Seq(EdgeRec) /\ \A i \in DOMAIN Mirror(st) : Mirror(st)[i] \in E
  BY <1>14, <1>15
<1> QED
  BY <1>16 DEF E

\* Every edge of the graph that an induced subgraph takes joins two of its nodes.
LEMMA EdgesFromNode ==
  ASSUME NEW st \in Scratch, NEW ul \in DOMAIN st.pass.nodes
  PROVE  EdgesFrom(st, ul) \in Seq({e \in EdgeRec : RealEdge(st.pass.nodes, e)})
<1> DEFINE u == st.pass.nodes[ul]
           S == {e \in Range(RowOf(u)) : /\ Temporal => Timestamp[e] < st.pass.times[ul]
                                         /\ Known(st.dedup, Dst[e])}
           held == Kept(RowOf(u), S)
           edge(i) == [src |-> u, dst |-> Dst[held[i]], eid |-> held[i],
                       sl |-> ul, dl |-> Local(st.dedup, Dst[held[i]])]
           E == {e \in EdgeRec : RealEdge(st.pass.nodes, e)}
           V == {x \in Nat : x \in S /\ x \in Range(RowOf(u))}
<1>1. /\ Matched(st.dedup, st.pass.nodes) /\ st.pass.nodes \in Seq(SampleNodes)
      /\ u \in SampleNodes /\ ul \in Nat
  BY DEF Scratch, Scratches, Passes, Sound
<1>2. held \in Seq(V)
  <2> HIDE DEF S, u
  <2>1. RowOf(u) \in Seq(Nat)
    BY <1>1, RowIsSeq
  <2> QED
    BY <2>1, KeptEntries
<1>3. Len(held) \in Nat /\ \A i \in 1 .. Len(held) : held[i] \in V
  <2> HIDE DEF V, held
  <2> QED
    BY <1>2
<1>4. \A x \in V : x \in Nat /\ x \in Range(RowOf(u)) /\ Known(st.dedup, Dst[x])
  OBVIOUS
<1>5. EdgesFrom(st, ul) = [i \in 1 .. Len(held) |-> edge(i)]
  BY DEF EdgesFrom
<1> HIDE DEF held, V, S
<1>6. ASSUME NEW i \in 1 .. Len(held) PROVE edge(i) \in E
  <2> DEFINE x == held[i]
             d == Dst[x]
             e == edge(i)
  <2>1. x \in Nat /\ x \in Range(RowOf(u)) /\ Known(st.dedup, d)
    BY <1>3, <1>4
  <2>2. d \in SampleNodes
    BY <2>1 DEF Known
  <2>3. Local(st.dedup, d) \in DOMAIN st.pass.nodes /\ st.pass.nodes[Local(st.dedup, d)] = d
    BY <1>1, <2>1, <2>2 DEF Matched
  <2>4. DOMAIN st.pass.nodes \subseteq Nat
    BY <1>1
  <2>5. e.src = u /\ e.dst = d /\ e.eid = x /\ e.sl = ul /\ e.dl = Local(st.dedup, d)
    OBVIOUS
  <2>6. e \in EdgeRec
    BY <1>1, <2>1, <2>2, <2>3, <2>4 DEF EdgeRec
  <2>7. InGraph(e)
    BY <2>1, <2>5 DEF InGraph
  <2> HIDE DEF e
  <2>8. e \in E
    BY <1>1, <2>3, <2>5, <2>6, <2>7 DEF RealEdge
  <2> QED
    BY <2>8 DEF e
<1> HIDE DEF E, edge
<1>7. [i \in 1 .. Len(held) |-> edge(i)] \in [1 .. Len(held) -> E]
  BY <1>6
<1>8. EdgesFrom(st, ul) \in Seq(E)
  BY <1>3, <1>5, <1>7, TupleIsSequence
<1> QED
  BY <1>8 DEF E

\* So is the list of all of them.
LEMMA InducedEdges ==
  ASSUME NEW st \in Scratch
  PROVE  /\ Induce(st) \in Seq(EdgeRec)
         /\ \A i \in DOMAIN Induce(st) : RealEdge(st.pass.nodes, Induce(st)[i])
<1> DEFINE n == Len(st.pass.nodes)
           E == {e \in EdgeRec : RealEdge(st.pass.nodes, e)}
           T == Seq(E)
           seqs == [ul \in 1 .. n |-> EdgesFrom(st, ul)]
           F == [x \in T \X (1 .. n) |-> x[1] \o seqs[x[2]]]
           Run(g) == [i \in 1 .. Len(seqs) |-> IF i = 1 THEN seqs[i] ELSE g[i - 1] \o seqs[i]]
           flatten == CHOOSE g : g = Run(g)
<1>1. n \in Nat /\ DOMAIN st.pass.nodes = 1 .. n
  BY DEF Scratch, Scratches, Passes
<1>2. \A i \in 1 .. n : seqs[i] \in T
  BY <1>1, EdgesFromNode
<1>3. Len(seqs) = n
  BY <1>1
<1>4. Induce(st) = IF Len(seqs) = 0 THEN seqs ELSE flatten[Len(seqs)]
  BY DEF Induce, FlattenSeq
<1>5. Induce(st) \in T
  <2>1. CASE n = 0
    <3>1. Induce(st) = <<>>
      BY <1>1, <1>3, <1>4, <2>1
    <3> QED
      BY <3>1
  <2>2. CASE n # 0
    <3> HIDE DEF T, seqs, n
    <3>1. <<>> \in T /\ \A t \in T, i \in 1 .. n : t \o seqs[i] \in T
      BY <1>2 DEF T
    <3>2. F \in [T \X (1 .. n) -> T]
      BY <3>1
    <3>3. \A t \in T, i \in 1 .. n : F[<<t, i>>] = t \o seqs[i]
      BY Zenon
    <3> HIDE DEF F
    <3>4. PICK g : IsRun(g, F, <<>>, n, T)
      BY <1>1, <3>1, <3>2, Repeated, Zenon
    <3>5. \A i \in 1 .. n : g[i] = g[i - 1] \o seqs[i] /\ g[i] \in T
      <4> TAKE i \in 1 .. n
      <4>1. i - 1 \in 0 .. n /\ i \in 0 .. n
        BY <1>1
      <4>2. g[i - 1] \in T /\ g[i] \in T
        BY <3>4, <4>1 DEF IsRun
      <4> QED
        BY <3>3, <3>4, <4>2, Zenon DEF IsRun
    <3>6. 1 \in 1 .. n /\ g[1] = seqs[1]
      <4>1. 1 \in 1 .. n /\ 1 - 1 = 0
        BY <1>1, <2>2
      <4>2. g[1] = <<>> \o seqs[1] /\ seqs[1] \in Seq(E)
        BY <1>2, <3>4, <3>5, <4>1, Zenon DEF IsRun, T
      <4> HIDE DEF E
      <4> QED
        BY <4>1, <4>2
    <3> DEFINE h == [i \in 1 .. n |-> g[i]]
    <3>7. h = Run(h)
      <4>1. \A i \in 1 .. n : i # 1 => i - 1 \in 1 .. n
        BY <1>1
      <4>2. \A i \in 1 .. n : h[i] = IF i = 1 THEN seqs[i] ELSE h[i - 1] \o seqs[i]
        BY <3>5, <3>6, <4>1, Zenon
      <4> QED
        BY <1>3, <4>2, Zenon
    <3>8. \A f : f = Run(f) => /\ f[1] = seqs[1]
                               /\ \A i \in 2 .. n : f[i] = f[i - 1] \o seqs[i]
      <4> TAKE f
      <4> HAVE f = Run(f)
      <4>1. 1 \in 1 .. n /\ \A i \in 2 .. n : i # 1 /\ i \in 1 .. n
        BY <1>1, <3>6
      <4> QED
        BY <1>3, <4>1, Zenon
    <3> HIDE DEF Run
    <3>9. flatten = Run(flatten)
      BY <3>7, Zenon
    <3> HIDE DEF flatten
    <3>10. flatten[1] = seqs[1] /\ \A i \in 2 .. n : flatten[i] = flatten[i - 1] \o seqs[i]
      BY <3>8, <3>9, Zenon
    <3> DEFINE k == n - 1
               a == [i \in 0 .. k |-> flatten[i + 1]]
    <3>11. k \in Nat /\ a[0] \in T /\ a[k] = flatten[n]
      BY <1>1, <1>2, <2>2, <3>6, <3>10
    <3>12. \A i \in 1 .. k : a[i - 1] \in T => a[i] \in T
      <4> TAKE i \in 1 .. k
      <4>1. i - 1 \in 0 .. k /\ i \in 0 .. k /\ i + 1 \in 2 .. n /\ i + 1 \in 1 .. n /\ (i + 1) - 1 = i /\ (i - 1) + 1 = i
        BY <1>1, <2>2
      <4>2. a[i - 1] = flatten[i] /\ a[i] = flatten[i] \o seqs[i + 1]
        BY <3>10, <4>1, Zenon
      <4> QED
        BY <3>1, <4>1, <4>2, Zenon
    <3> HIDE DEF a, k
    <3>13. a[k] \in T
      BY <3>11, <3>12, Along, Zenon
    <3> QED
      BY <1>3, <1>4, <2>2, <3>11, <3>13
  <2> QED
    BY <2>1, <2>2
<1>6. E \subseteq EdgeRec
  OBVIOUS
<1> HIDE DEF E
<1>7. Induce(st) \in Seq(EdgeRec) /\ \A i \in DOMAIN Induce(st) : Induce(st)[i] \in E
  BY <1>5, <1>6
<1> QED
  BY <1>7 DEF E

\* Whatever the subgraph type, the edges it returns are real, or reversed ones.
LEMMA TypedEdgesReal ==
  ASSUME NEW st \in Scratch, scfg \in Configs
  PROVE  /\ TypedEdges(st) \in Seq(EdgeRec)
         /\ \A i \in DOMAIN TypedEdges(st) :
              LET e == TypedEdges(st)[i]
              IN \/ RealEdge(st.pass.nodes, e)
                 \/ (scfg.subgraph = "bidirectional" /\ RealEdge(st.pass.nodes, Reversed(e)))
<1>1. scfg.subgraph \in {"directional", "induced", "bidirectional"}
  BY SamplerAssumption DEF ConfigOK
<1>2. CASE scfg.subgraph = "directional"
  <2>1. TypedEdges(st) = st.pass.edges
    BY <1>2 DEF TypedEdges
  <2>2. st.pass.edges \in Seq(EdgeRec) /\ \A i \in DOMAIN st.pass.edges : RealEdge(st.pass.nodes, st.pass.edges[i])
    BY DEF Scratch, Scratches, Passes, Sound
  <2> QED
    BY <2>1, <2>2
<1>3. CASE scfg.subgraph = "induced"
  <2>1. TypedEdges(st) = Induce(st)
    BY <1>3 DEF TypedEdges
  <2> QED
    BY <2>1, InducedEdges
<1>4. CASE scfg.subgraph = "bidirectional"
  <2>1. TypedEdges(st) = Mirror(st)
    BY <1>4 DEF TypedEdges
  <2> QED
    BY <1>4, <2>1, MirroredEdges
<1> QED
  BY <1>1, <1>2, <1>3, <1>4

\* The counts of a call add up hop by hop.
IsCount(f, counts, h) ==
  /\ f \in [0 .. h -> Nat] /\ f[0] = counts[0]
  /\ \A g \in 1 .. h : f[g] = f[g - 1] + counts[g]
  /\ NodesBy(counts, h) = f[h]
\* NodesBy sums the counts up to a hop.
LEMMA NodesCounted ==
  ASSUME NEW h \in Nat, NEW counts \in [0 .. h -> Nat]
  PROVE  \E f : IsCount(f, counts, h)
<1> DEFINE F == [x \in Nat \X (1 .. h) |-> x[1] + counts[x[2]]]
           Run(g) == [i \in 0 .. h |-> IF i = 0 THEN counts[0] ELSE g[i - 1] + counts[i]]
           by == CHOOSE g : g = Run(g)
<1>1. F \in [Nat \X (1 .. h) -> Nat]
  OBVIOUS
<1>2. \A t \in Nat, i \in 1 .. h : F[<<t, i>>] = t + counts[i]
  OBVIOUS
<1> HIDE DEF F
<1>3. counts[0] \in Nat
  OBVIOUS
<1>4. PICK g : IsRun(g, F, counts[0], h, Nat)
  BY <1>1, <1>3, Repeated, Zenon
<1>5. \A i \in 1 .. h : g[i] = g[i - 1] + counts[i]
  <2> TAKE i \in 1 .. h
  <2>1. i - 1 \in 0 .. h
    OBVIOUS
  <2>2. g[i - 1] \in Nat
    BY <1>4, <2>1 DEF IsRun
  <2> QED
    BY <1>2, <1>4, <2>2, Zenon DEF IsRun
<1>6. g = Run(g)
  BY <1>4, <1>5 DEF IsRun
<1>7. by = Run(by)
  BY <1>6, Zenon
<1>8. NodesBy(counts, h) = by[h]
  BY DEF NodesBy
<1> HIDE DEF by
<1>9. /\ by = [i \in 0 .. h |-> by[i]] /\ by[0] = counts[0]
      /\ \A i \in 1 .. h : by[i] = by[i - 1] + counts[i]
  <2>1. 0 \in 0 .. h /\ \A i \in 1 .. h : i # 0 /\ i \in 0 .. h
    OBVIOUS
  <2>2. by[0] = counts[0] /\ \A i \in 1 .. h : by[i] = by[i - 1] + counts[i]
    BY <1>7, <2>1, Zenon
  <2>3. by = [i \in 0 .. h |-> by[i]]
    BY <1>7
  <2> QED
    BY <2>2, <2>3, Zenon
<1> HIDE DEF Run
<1>10. ASSUME NEW k \in 0 .. h PROVE by[k] \in Nat
  <2>1. ASSUME NEW i \in 1 .. k, by[i - 1] \in Nat PROVE by[i] \in Nat
    <3>1. i \in 1 .. h /\ counts[i] \in Nat
      OBVIOUS
    <3>2. by[i] = by[i - 1] + counts[i]
      BY <1>9, <3>1, Zenon
    <3> QED
      BY <2>1, <3>1, <3>2
  <2>2. by[0] \in Nat /\ k \in Nat
    BY <1>3, <1>9
  <2> QED
    BY <2>1, <2>2, Along, Zenon
<1>11. by \in [0 .. h -> Nat]
  BY <1>9, <1>10
<1> QED
  BY <1>8, <1>9, <1>11, Zenon DEF IsCount

IsAdded(counts, counts2, i, k) == counts2 = [counts EXCEPT ![i] = @ + k]
LEMMA NodesAdded ==
  ASSUME NEW h \in Nat, NEW counts \in [0 .. h -> Nat], NEW i \in 0 .. h, NEW k \in Nat,
         NEW counts2, IsAdded(counts, counts2, i, k)
  PROVE  /\ counts2 \in [0 .. h -> Nat] /\ NodesBy(counts, h) \in Nat
         /\ NodesBy(counts2, h) = NodesBy(counts, h) + k
<1> USE DEF IsAdded
<1>1. counts2 \in [0 .. h -> Nat]
  OBVIOUS
<1>2. PICK f : IsCount(f, counts, h)
  BY NodesCounted
<1>3. PICK f2 : IsCount(f2, counts2, h)
  BY <1>1, NodesCounted, Zenon
<1> DEFINE More(g) == IF g >= i THEN k ELSE 0
           pairs == [g \in 0 .. h |-> <<f[g], f2[g], g>>]
           T == {x \in Nat \X Nat \X (0 .. h) : x[2] = x[1] + More(x[3])}
<1>4. pairs[0] \in T
  <2>1. counts2[0] = counts[0] + More(0) /\ pairs[0] = <<f[0], f2[0], 0>>
    OBVIOUS
  <2>2. f[0] \in Nat /\ f2[0] \in Nat /\ f2[0] = f[0] + More(0)
    BY <1>2, <1>3, <2>1 DEF IsCount
  <2> QED
    BY <2>1, <2>2
<1>5. ASSUME NEW g \in 1 .. h, pairs[g - 1] \in T PROVE pairs[g] \in T
  <2>1. g - 1 \in 0 .. h /\ g \in 0 .. h /\ pairs[g - 1] = <<f[g - 1], f2[g - 1], g - 1>> /\ pairs[g] = <<f[g], f2[g], g>>
    OBVIOUS
  <2>2. f2[g - 1] = f[g - 1] + More(g - 1) /\ f[g - 1] \in Nat /\ f2[g - 1] \in Nat
    BY <1>5, <2>1, Zenon
  <2>3. counts2[g] = counts[g] + (IF g = i THEN k ELSE 0) /\ counts[g] \in Nat
    BY <2>1
  <2>4. f[g] = f[g - 1] + counts[g] /\ f2[g] = f2[g - 1] + counts2[g] /\ f[g] \in Nat /\ f2[g] \in Nat
    BY <1>2, <1>3, <2>1 DEF IsCount
  <2>5. More(g) = More(g - 1) + (IF g = i THEN k ELSE 0) /\ More(g - 1) \in Nat
    OBVIOUS
  <2> HIDE DEF More
  <2>6. f2[g] = f[g] + More(g)
    <3> DEFINE a == f[g - 1]
               m == More(g - 1)
               c == counts[g]
               one == IF g = i THEN k ELSE 0
    <3>1. a \in Nat /\ m \in Nat /\ c \in Nat /\ one \in Nat
      BY <2>2, <2>3, <2>5
    <3>2. f[g] = a + c /\ f2[g] = (a + m) + (c + one) /\ More(g) = m + one
      BY <2>2, <2>3, <2>4, <2>5, Zenon
    <3> HIDE DEF a, m, c, one
    <3> QED
      BY <3>1, <3>2
  <2> QED
    BY <2>1, <2>4, <2>6, Zenon
<1>6. h \in 0 .. h /\ pairs[h] = <<f[h], f2[h], h>>
  OBVIOUS
<1> HIDE DEF pairs, T
<1>7. pairs[h] \in T
  BY <1>4, <1>5, Along
<1>8. f[h] \in Nat /\ f2[h] = f[h] + k
  BY <1>6, <1>7 DEF T
<1> QED
  BY <1>1, <1>2, <1>3, <1>8, Zenon DEF IsCount

\* A call begins with no nodes counted.
LEMMA NoNodes ==
  ASSUME NEW h \in Nat, NEW counts, counts = [g \in 0 .. h |-> 0]
  PROVE  NodesBy(counts, h) = 0
<1>1. counts \in [0 .. h -> Nat] /\ counts[0] = 0 /\ \A g \in 1 .. h : counts[g] = 0
  OBVIOUS
<1>2. PICK f : IsCount(f, counts, h)
  BY <1>1, NodesCounted
<1>3. f[0] \in {0} /\ \A g \in 1 .. h : f[g - 1] \in {0} => f[g] \in {0}
  BY <1>1, <1>2 DEF IsCount
<1> DEFINE T == {0}
<1>4. f[h] \in T
  <2>1. f[0] \in T /\ \A g \in 1 .. h : f[g - 1] \in T => f[g] \in T
    BY <1>3
  <2> HIDE DEF T
  <2> QED
    BY <2>1, Along, Zenon
<1> QED
  BY <1>2, <1>4 DEF IsCount

\* Where the entries of two joined sequences are.
IsJoin(s, t, r) ==
  /\ Len(r) = Len(s) + Len(t) /\ Len(s) \in Nat /\ Len(t) \in Nat
  /\ \A i \in DOMAIN s : i \in DOMAIN r /\ r[i] = s[i]
  /\ \A j \in DOMAIN t : Len(s) + j \in DOMAIN r /\ r[Len(s) + j] = t[j]
  /\ \A k \in DOMAIN r : k \in DOMAIN s \/ \E j \in DOMAIN t : k = Len(s) + j
LEMMA JoinedEntries ==
  ASSUME NEW S, NEW s \in Seq(S), NEW t \in Seq(S)
  PROVE  s \o t \in Seq(S) /\ IsJoin(s, t, s \o t)
<1> DEFINE r == s \o t
<1>1. /\ r \in Seq(S) /\ Len(r) = Len(s) + Len(t) /\ Len(s) \in Nat /\ Len(t) \in Nat
      /\ DOMAIN s = 1 .. Len(s) /\ DOMAIN t = 1 .. Len(t) /\ DOMAIN r = 1 .. Len(s) + Len(t)
  OBVIOUS
<1>2. \A i \in 1 .. Len(s) : r[i] = s[i]
  OBVIOUS
<1>3. \A j \in 1 .. Len(t) : r[Len(s) + j] = t[j]
  OBVIOUS
<1> HIDE DEF r
<1>4. \A k \in DOMAIN r : k \in DOMAIN s \/ \E j \in DOMAIN t : k = Len(s) + j
  <2> TAKE k \in DOMAIN r
  <2>1. k \in 1 .. Len(s) \/ (k - Len(s) \in 1 .. Len(t) /\ k = Len(s) + (k - Len(s)))
    BY <1>1
  <2> QED
    BY <1>1, <2>1
<1>5. \A j \in DOMAIN t : Len(s) + j \in DOMAIN r
  BY <1>1
<1>6. \A i \in DOMAIN s : i \in DOMAIN r
  BY <1>1
<1>7. IsJoin(s, t, r)
  BY <1>1, <1>2, <1>3, <1>4, <1>5, <1>6 DEF IsJoin
<1> QED
  BY <1>1, <1>7 DEF r

\* An edge of the pass, its ends shifted past the earlier blocks.
ShiftedEdge(e, by) == [e EXCEPT !.sl = @ + by, !.dl = @ + by]
LEMMA ShiftedFields ==
  ASSUME NEW e \in EdgeRec, NEW by \in Nat
  PROVE  LET s == ShiftedEdge(e, by)
         IN /\ s \in EdgeRec /\ s.src = e.src /\ s.dst = e.dst /\ s.eid = e.eid
            /\ s.sl = by + e.sl /\ s.dl = by + e.dl
<1> DEFINE s == ShiftedEdge(e, by)
<1>1. s = [e EXCEPT !.sl = @ + by, !.dl = @ + by]
  BY DEF ShiftedEdge
<1>2. e.sl \in Nat /\ e.dl \in Nat
  BY DEF EdgeRec
<1> HIDE DEF s
<1>3. s.sl = by + e.sl /\ s.dl = by + e.dl /\ s.src = e.src /\ s.dst = e.dst /\ s.eid = e.eid
  BY <1>1, <1>2 DEF EdgeRec
<1>4. s \in EdgeRec
  <2> DEFINE l == e.sl + by
             m == e.dl + by
  <2>1. l \in Nat /\ m \in Nat
    BY <1>2
  <2>2. s = [e EXCEPT !.sl = l, !.dl = m]
    BY <1>1
  <2> HIDE DEF l, m
  <2> QED
    BY <2>1, <2>2, Zenon DEF EdgeRec
<1> QED
  BY <1>3, <1>4 DEF s

\* The blocks before and the pass at hand, one after the other.
IsBlock(call, p, b) ==
  LET nodes == AllNodes(call, p)
      batch == AllBatch(call, p)
  IN /\ nodes \in Seq(SampleNodes) /\ batch \in Seq(Nat) /\ Len(batch) = Len(nodes)
     /\ IsJoin(call.out.nodes, p.nodes, nodes)
     /\ \A i \in DOMAIN call.out.nodes : batch[i] = call.out.batch[i] /\ batch[i] \in 1 .. b - 1
     /\ \A j \in DOMAIN p.nodes : batch[Len(call.out.nodes) + j] = b
     /\ \A i \in DOMAIN batch : batch[i] \in 1 .. b
     /\ Apart(nodes, batch)
LEMMA BlockNodes ==
  ASSUME NEW call \in Calls, NEW st \in Scratch, NEW b \in Nat \ {0}, call.begun = b,
         BlocksReal(call.out, b - 1)
  PROVE  IsBlock(call, st.pass, b)
<1> DEFINE out == call.out
           p == st.pass
           tags == [i \in DOMAIN p.nodes |-> b]
           nodes == AllNodes(call, p)
           batch == AllBatch(call, p)
           L == Len(out.nodes)
<1>1. /\ out \in Outs /\ out.nodes \in Seq(SampleNodes) /\ out.batch \in Seq(Nat) /\ p.nodes \in Seq(SampleNodes)
      /\ Sound(st) /\ Matched(st.dedup, p.nodes)
  BY Zenon DEF Calls, Outs, Scratch, Scratches, Passes, Sound
<1>2. /\ Len(out.batch) = L /\ Apart(out.nodes, out.batch)
      /\ \A i \in DOMAIN out.batch : out.batch[i] \in 1 .. b - 1
  BY DEF BlocksReal
<1>3. tags \in Seq(Nat) /\ Len(tags) = Len(p.nodes) /\ DOMAIN tags = DOMAIN p.nodes /\ \A j \in DOMAIN tags : tags[j] = b
  BY <1>1
<1>4. nodes = out.nodes \o p.nodes /\ batch = out.batch \o tags
  BY DEF AllNodes, AllBatch
<1> HIDE DEF tags, nodes, batch, out, p
<1>5. nodes \in Seq(SampleNodes) /\ IsJoin(out.nodes, p.nodes, nodes)
  BY <1>1, <1>4, JoinedEntries
<1>6. batch \in Seq(Nat) /\ IsJoin(out.batch, tags, batch)
  BY <1>1, <1>3, <1>4, JoinedEntries
<1>7. DOMAIN out.nodes = DOMAIN out.batch /\ DOMAIN nodes = DOMAIN batch /\ Len(batch) = Len(nodes) /\ L \in Nat
  <2>1. Len(batch) = Len(nodes)
    BY <1>2, <1>3, <1>5, <1>6 DEF IsJoin
  <2> QED
    BY <1>1, <1>2, <1>5, <1>6, <2>1
<1>8. \A i \in DOMAIN out.nodes : batch[i] = out.batch[i] /\ batch[i] \in 1 .. b - 1
  BY <1>2, <1>6, <1>7 DEF IsJoin
<1>9. \A j \in DOMAIN p.nodes : batch[L + j] = b
  BY <1>2, <1>3, <1>6, Zenon DEF IsJoin
<1>10. \A k \in DOMAIN nodes : k \in DOMAIN out.nodes \/ \E j \in DOMAIN p.nodes : k = L + j
  BY <1>5, Zenon DEF IsJoin
<1>11. \A i \in DOMAIN batch : batch[i] \in 1 .. b
  BY <1>7, <1>8, <1>9, <1>10
<1>12. Apart(nodes, batch)
  <2> SUFFICES ASSUME NEW i \in DOMAIN nodes, NEW j \in DOMAIN nodes, nodes[i] = nodes[j], batch[i] = batch[j]
               PROVE  i = j
    BY DEF Apart
  <2>1. CASE i \in DOMAIN out.nodes /\ j \in DOMAIN out.nodes
    <3>1. nodes[i] = out.nodes[i] /\ nodes[j] = out.nodes[j] /\ batch[i] = out.batch[i] /\ batch[j] = out.batch[j]
      BY <1>5, <1>8, <2>1, Zenon DEF IsJoin
    <3> QED
      BY <1>2, <2>1, <3>1, Zenon DEF Apart
  <2>2. ASSUME NEW k \in DOMAIN p.nodes, NEW m \in DOMAIN p.nodes, i = L + k, j = L + m
        PROVE  i = j
    <3>1. nodes[i] = p.nodes[k] /\ nodes[j] = p.nodes[m]
      BY <1>5, <2>2, Zenon DEF IsJoin
    <3>2. Local(st.dedup, p.nodes[k]) = k /\ Local(st.dedup, p.nodes[m]) = m
      BY <1>1, <2>2, Zenon DEF Matched
    <3>3. k = m
      BY <3>1, <3>2, Zenon
    <3> QED
      BY <2>2, <3>3
  <2>3. CASE i \in DOMAIN out.nodes /\ \E m \in DOMAIN p.nodes : j = L + m
    <3>1. batch[i] \in 1 .. b - 1 /\ batch[j] = b
      BY <1>8, <1>9, <2>3
    <3> QED
      BY <3>1
  <2>4. CASE j \in DOMAIN out.nodes /\ \E m \in DOMAIN p.nodes : i = L + m
    <3>1. batch[j] \in 1 .. b - 1 /\ batch[i] = b
      BY <1>8, <1>9, <2>4
    <3> QED
      BY <3>1
  <2> QED
    BY <1>10, <2>1, <2>2, <2>3, <2>4
<1> QED
  BY <1>5, <1>6, <1>7, <1>8, <1>9, <1>11, <1>12 DEF nodes, batch, out, p, IsBlock

\* A finished pass becomes the call's next block.
Closed(call) == [call EXCEPT !.out = Joined(@, call.begun)]
LEMMA JoinedBlock ==
  ASSUME scfg \in Configs, NEW call \in Calls, NEW b \in Nat \ {0}, call.begun = b,
         [dedup |-> dedup, pass |-> pass] \in Scratch, BlocksReal(call.out, b - 1)
  PROVE  /\ Closed(call) \in Calls /\ BlocksReal(Closed(call).out, b)
         /\ Closed(call).out.nodes = AllNodes(call, pass) /\ Closed(call).out.batch = AllBatch(call, pass)
         /\ Closed(call).out.seedLocals = call.out.seedLocals /\ Closed(call).out.newNodes = call.out.newNodes
         /\ Closed(call).seeds = call.seeds /\ Closed(call).times = call.times /\ Closed(call).begun = b
<1> DEFINE st == [dedup |-> dedup, pass |-> pass]
           out == call.out
           L == Len(out.nodes)
           typed == TypedEdges(st)
           moved == Shifted(typed, L)
           found == out.edges \o moved
           nodes == AllNodes(call, pass)
           batch == AllBatch(call, pass)
           closed == Closed(call)
           out2 == Joined(out, b)
<1>1. st \in Scratch /\ st.pass = pass /\ out \in Outs /\ pass.nodes \in Seq(SampleNodes)
  BY DEF Calls, Scratch, Scratches, Passes
<1>2. typed \in Seq(EdgeRec)
      /\ \A i \in DOMAIN typed : \/ RealEdge(pass.nodes, typed[i])
                                 \/ (scfg.subgraph = "bidirectional" /\ RealEdge(pass.nodes, Reversed(typed[i])))
  BY <1>1, TypedEdgesReal
<1>3. out2 = [out EXCEPT !.edges = found, !.nodes = nodes, !.batch = batch]
  BY DEF Joined, AllNodes, AllBatch
<1>4. closed = [call EXCEPT !.out = out2]
  BY DEF Closed
<1> HIDE DEF typed
<1>5. moved = [i \in DOMAIN typed |-> ShiftedEdge(typed[i], L)]
  BY DEF Shifted, ShiftedEdge
<1>6. L \in Nat /\ out.edges \in Seq(EdgeRec) /\ out.nodes \in Seq(SampleNodes)
  BY <1>1 DEF Outs
<1>7. moved \in Seq(EdgeRec) /\ DOMAIN moved = DOMAIN typed
  <2> HIDE DEF moved, L
  <2>1. \A i \in DOMAIN typed : ShiftedEdge(typed[i], L) \in EdgeRec
    BY <1>2, <1>6, ShiftedFields
  <2>2. DOMAIN typed = 1 .. Len(typed) /\ Len(typed) \in Nat
    BY <1>2
  <2>3. moved \in [1 .. Len(typed) -> EdgeRec] /\ DOMAIN moved = DOMAIN typed
    BY <1>5, <2>1, <2>2
  <2> QED
    BY <2>2, <2>3, TupleIsSequence, Zenon
<1>8. /\ nodes \in Seq(SampleNodes) /\ batch \in Seq(Nat) /\ Len(batch) = Len(nodes)
      /\ IsJoin(out.nodes, pass.nodes, nodes)
      /\ \A i \in DOMAIN out.nodes : batch[i] = out.batch[i] /\ batch[i] \in 1 .. b - 1
      /\ \A j \in DOMAIN pass.nodes : batch[L + j] = b
      /\ \A i \in DOMAIN batch : batch[i] \in 1 .. b
      /\ Apart(nodes, batch)
  <2> HIDE DEF st
  <2>1. IsBlock(call, st.pass, b)
    BY <1>1, BlockNodes
  <2>2. IsBlock(call, pass, b)
    BY <1>1, <2>1
  <2> QED
    BY <2>2 DEF IsBlock
<1> HIDE DEF moved, nodes, batch, out, closed, out2, L
<1>9. found \in Seq(EdgeRec) /\ IsJoin(out.edges, moved, found)
  BY <1>6, <1>7, JoinedEntries
<1> HIDE DEF found
<1>10. /\ out2 \in Outs /\ out2.nodes = nodes /\ out2.batch = batch /\ out2.edges = found
       /\ out2.seedLocals = out.seedLocals /\ out2.newNodes = out.newNodes
  BY <1>1, <1>3, <1>8, <1>9, Zenon DEF Outs
<1>11. /\ closed \in Calls /\ closed.out = out2
       /\ closed.seeds = call.seeds /\ closed.times = call.times /\ closed.begun = b
  BY <1>4, <1>10 DEF Calls
<1>12. ASSUME NEW k \in DOMAIN found PROVE RealIn(nodes, batch, found[k])
  <2>1. CASE k \in DOMAIN out.edges
    <3> DEFINE e == out.edges[k]
    <3>1. found[k] = e
      BY <1>9, <2>1 DEF IsJoin
    <3>2. RealIn(out.nodes, out.batch, e)
      BY <2>1 DEF BlocksReal, out
    <3> HIDE DEF e
    <3>3. RealIn(nodes, batch, e)
      BY <1>8, <3>2, Zenon DEF RealIn, IsJoin
    <3> QED
      BY <3>1, <3>3
  <2>2. ASSUME NEW j \in DOMAIN moved, k = Len(out.edges) + j PROVE RealIn(nodes, batch, found[k])
    <3> DEFINE e == typed[j]
               s == ShiftedEdge(e, L)
    <3>1. found[k] = moved[j] /\ moved[j] = s
      BY <1>5, <1>7, <1>9, <2>2 DEF IsJoin
    <3>2. e \in EdgeRec
      BY <1>2, <1>7, <2>2
    <3>3. RealEdge(pass.nodes, e) \/ (scfg.subgraph = "bidirectional" /\ RealEdge(pass.nodes, Reversed(e)))
      BY <1>2, <1>7, <2>2
    <3> HIDE DEF e
    <3>4. s.src = e.src /\ s.dst = e.dst /\ s.eid = e.eid /\ s.sl = L + e.sl /\ s.dl = L + e.dl
      BY <1>6, <3>2, ShiftedFields, Zenon
    <3> HIDE DEF s
    <3>5. /\ e.sl \in DOMAIN pass.nodes /\ e.dl \in DOMAIN pass.nodes
          /\ pass.nodes[e.sl] = e.src /\ pass.nodes[e.dl] = e.dst
      BY <3>3 DEF RealEdge, Reversed
    <3>6. InGraph(s) \/ (scfg.subgraph = "bidirectional" /\ InGraph(Reversed(s)))
      BY <3>3, <3>4 DEF RealEdge, Reversed, InGraph
    <3>7. /\ s.sl \in DOMAIN nodes /\ s.dl \in DOMAIN nodes
          /\ nodes[s.sl] = s.src /\ nodes[s.dl] = s.dst
          /\ batch[s.sl] = b /\ batch[s.dl] = b
      <4>1. \A i \in DOMAIN pass.nodes : L + i \in DOMAIN nodes /\ nodes[L + i] = pass.nodes[i] /\ batch[L + i] = b
        BY <1>8, Zenon DEF IsJoin, L
      <4>2. L + e.sl \in DOMAIN nodes /\ nodes[L + e.sl] = e.src /\ batch[L + e.sl] = b
        BY <3>5, <4>1
      <4>3. L + e.dl \in DOMAIN nodes /\ nodes[L + e.dl] = e.dst /\ batch[L + e.dl] = b
        BY <3>5, <4>1
      <4> QED
        BY <3>4, <4>2, <4>3
    <3>8. RealIn(nodes, batch, s)
      BY <3>6, <3>7 DEF RealIn
    <3> QED
      BY <3>1, <3>8
  <2> QED
    BY <1>9, <2>1, <2>2 DEF IsJoin
<1>13. BlocksReal(out2, b)
  BY <1>8, <1>10, <1>12 DEF BlocksReal
<1> QED
  BY <1>10, <1>11, <1>13 DEF nodes, batch, out, closed

\* Beginning a block: its seeds get their indices in a table where nothing else is known.
OpenedOut(out, locals, counts) == [out EXCEPT !.seedLocals = locals, !.newNodes = counts]
Opened(call, b, out) == [call EXCEPT !.begun = b, !.out = out]
LEMMA OpenedFields ==
  ASSUME NEW call \in Calls, NEW b \in Nat, NEW locals \in Seq(Nat), NEW counts \in [0 .. Hops -> Nat]
  PROVE  LET c == Opened(call, b, OpenedOut(call.out, locals, counts))
         IN /\ c \in Calls /\ c.begun = b /\ c.seeds = call.seeds /\ c.times = call.times
            /\ c.out.nodes = call.out.nodes /\ c.out.edges = call.out.edges /\ c.out.batch = call.out.batch
            /\ c.out.seedLocals = locals /\ c.out.newNodes = counts
<1> DEFINE out == OpenedOut(call.out, locals, counts)
           c == Opened(call, b, out)
<1>1. call.out \in Outs
  BY DEF Calls
<1>2. out = [call.out EXCEPT !.seedLocals = locals, !.newNodes = counts]
  BY DEF OpenedOut
<1> HIDE DEF out
<1>3. /\ out \in Outs /\ out.seedLocals = locals /\ out.newNodes = counts
      /\ out.nodes = call.out.nodes /\ out.edges = call.out.edges /\ out.batch = call.out.batch
  BY <1>1, <1>2, Zenon DEF Outs
<1>4. c = [call EXCEPT !.begun = b, !.out = out]
  BY DEF Opened
<1> HIDE DEF c
<1>5. c \in Calls /\ c.begun = b /\ c.seeds = call.seeds /\ c.times = call.times /\ c.out = out
  BY <1>3, <1>4, Zenon DEF Calls
<1> QED
  BY <1>3, <1>5 DEF c, out

\* The seeds that block b begins with, and what they are called.
BlockSeeds(call, b) == IF scfg.disjoint THEN <<call.seeds[b]>> ELSE call.seeds
BlockTimes(call, b) == IF scfg.disjoint THEN <<call.times[b]>> ELSE call.times
BlockLocals(call, b, st) ==
  IF scfg.disjoint THEN <<Len(call.out.nodes) + Local(st.dedup, call.seeds[b])>>
  ELSE [i \in DOMAIN call.seeds |-> Local(st.dedup, call.seeds[i])]
\* BeginBlock in these words.
LEMMA BlockBegun ==
  ASSUME NEW call \in Calls, NEW b \in Nat, BeginBlock(call, b)
  PROVE  \E st : /\ st = Seeded(BlockSeeds(call, b), BlockTimes(call, b))
                 /\ dedup' = st.dedup /\ pass' = st.pass /\ hop' = 1 /\ expanded' = 0
                 /\ scall' = Opened(call, b, OpenedOut(call.out, call.out.seedLocals \o BlockLocals(call, b, st),
                                           [call.out.newNodes EXCEPT ![0] = @ + Len(st.pass.nodes)]))
<1> DEFINE st == Seeded(BlockSeeds(call, b), BlockTimes(call, b))
           locals == BlockLocals(call, b, st)
           counts == [call.out.newNodes EXCEPT ![0] = @ + Len(st.pass.nodes)]
<1>1. /\ dedup' = st.dedup /\ pass' = st.pass /\ hop' = 1 /\ expanded' = 0
      /\ scall' = [call EXCEPT !.begun = b, !.out.seedLocals = @ \o locals,
                               !.out.newNodes[0] = @ + Len(st.pass.nodes)]
  BY DEF BeginBlock, BlockSeeds, BlockTimes, BlockLocals
<1> HIDE DEF st, locals
<1>2. scall' = Opened(call, b, OpenedOut(call.out, call.out.seedLocals \o locals, counts))
  BY <1>1, Zenon DEF Opened, OpenedOut, Calls, Outs
<1> QED
  BY <1>1, <1>2, Zenon DEF st, locals

\* The seeds of a block that is ready are its nodes.
LEMMA BlockSeeded ==
  ASSUME scfg \in Configs, dedup \in Dedups, dedup.tag < Generations, NotAhead(dedup),
         NEW call, NEW b, Ready(call, b), NEW st, st = Seeded(BlockSeeds(call, b), BlockTimes(call, b))
  PROVE  /\ st \in Scratch /\ st.pass.next = <<>>
         /\ scfg.disjoint => Known(st.dedup, call.seeds[b])
         /\ ~scfg.disjoint => \A i \in DOMAIN call.seeds : Known(st.dedup, call.seeds[i])
<1> DEFINE seeds == BlockSeeds(call, b)
           times == BlockTimes(call, b)
<1>1. /\ call.seeds \in Seq(SampleNodes) /\ call.times \in Seq(Moments) /\ Len(call.times) = Len(call.seeds)
      /\ b \in Nat \ {0} /\ (scfg.disjoint => b <= Len(call.seeds))
  BY DEF Ready, Calls
<1>2. CASE scfg.disjoint
  <2>1. seeds = <<call.seeds[b]>> /\ times = <<call.times[b]>>
    BY <1>2 DEF BlockSeeds, BlockTimes
  <2>2. call.seeds[b] \in SampleNodes /\ call.times[b] \in Moments
    <3>1. b \in 1 .. Len(call.seeds) /\ b \in 1 .. Len(call.times)
      BY <1>1, <1>2
    <3> QED
      BY <1>1, <3>1, ElementOfSeq
  <2>3. seeds \in Seq(SampleNodes) /\ Len(seeds) = 1 /\ seeds[1] = call.seeds[b] /\ \A i \in 1 .. Len(seeds) : times[i] \in Moments
    <3> HIDE DEF seeds, times
    <3> QED
      BY <2>1, <2>2
  <2> HIDE DEF seeds, times
  <2>4. LET x == Seeded(seeds, times)
        IN x \in Scratch /\ x.pass.next = <<>> /\ \A i \in 1 .. Len(seeds) : Known(x.dedup, seeds[i])
    BY <2>3, SeededPass, Zenon
  <2>5. st \in Scratch /\ st.pass.next = <<>> /\ \A i \in 1 .. Len(seeds) : Known(st.dedup, seeds[i])
    BY <2>4 DEF seeds, times
  <2>6. Known(st.dedup, seeds[1])
    BY <2>3, <2>5
  <2> QED
    BY <1>2, <2>3, <2>5, <2>6
<1>3. CASE ~scfg.disjoint
  <2>1. seeds = call.seeds /\ times = call.times
    BY <1>3 DEF BlockSeeds, BlockTimes
  <2>2. seeds \in Seq(SampleNodes) /\ DOMAIN call.seeds = 1 .. Len(seeds) /\ \A i \in 1 .. Len(seeds) : times[i] \in Moments
    <3> HIDE DEF seeds, times
    <3> QED
      BY <1>1, <2>1
  <2> HIDE DEF seeds, times
  <2>3. LET x == Seeded(seeds, times)
        IN x \in Scratch /\ x.pass.next = <<>> /\ \A i \in 1 .. Len(seeds) : Known(x.dedup, seeds[i])
    BY <2>2, SeededPass
  <2>4. st \in Scratch /\ st.pass.next = <<>> /\ \A i \in 1 .. Len(seeds) : Known(st.dedup, seeds[i])
    BY <2>3 DEF seeds, times
  <2> QED
    BY <1>3, <2>1, <2>2, <2>4
<1> QED
  BY <1>2, <1>3

\* Their indices follow the indices of the blocks before.
LEMMA BlockLocalsPlaced ==
  ASSUME scfg \in Configs, NEW call, NEW b, Ready(call, b), NEW st \in Scratch,
         scfg.disjoint => Known(st.dedup, call.seeds[b]),
         ~scfg.disjoint => \A i \in DOMAIN call.seeds : Known(st.dedup, call.seeds[i]),
         NEW locals, locals = BlockLocals(call, b, st)
  PROVE  /\ locals \in Seq(Nat)
         /\ Len(locals) = IF scfg.disjoint THEN 1 ELSE Len(call.seeds)
         /\ \A j \in DOMAIN locals :
              LET s == call.seeds[Len(call.out.seedLocals) + j]
              IN /\ s \in SampleNodes /\ Known(st.dedup, s)
                 /\ locals[j] = Len(call.out.nodes) + Local(st.dedup, s)
                 /\ scfg.disjoint => Len(call.out.seedLocals) + j = b
<1>1. /\ call.seeds \in Seq(SampleNodes) /\ call.out \in Outs /\ b \in Nat \ {0}
      /\ BlocksReal(call.out, b - 1)
      /\ IF scfg.disjoint THEN b <= Len(call.seeds) /\ Len(call.out.seedLocals) = b - 1
                          ELSE b = 1 /\ call.out.seedLocals = <<>>
  BY DEF Ready, Calls
<1>2. Len(call.out.nodes) \in Nat /\ call.out.batch \in Seq(Nat)
  BY <1>1 DEF Outs
<1>3. \A s \in SampleNodes : Local(st.dedup, s) \in Nat
  BY DEF Local, Scratch, Scratches, Dedups, Slots
<1>4. CASE scfg.disjoint
  <2> DEFINE v == Len(call.out.nodes) + Local(st.dedup, call.seeds[b])
  <2>1. locals = <<v>>
    BY <1>4 DEF BlockLocals
  <2>2. call.seeds[b] \in SampleNodes
    BY <1>1, <1>4
  <2>3. v \in Nat
    BY <1>2, <1>3, <2>2
  <2> HIDE DEF v
  <2>4. locals \in Seq(Nat) /\ Len(locals) = 1 /\ DOMAIN locals = {1} /\ locals[1] = v
    BY <2>1, <2>3
  <2>5. Len(call.out.seedLocals) + 1 = b
    BY <1>1, <1>4
  <2> QED
    BY <1>4, <2>2, <2>4, <2>5 DEF v
<1>5. CASE ~scfg.disjoint
  <2>1. locals = [i \in DOMAIN call.seeds |-> Local(st.dedup, call.seeds[i])]
    BY <1>5 DEF BlockLocals
  <2>2. Len(call.out.nodes) = 0
    <3>1. Len(call.out.batch) = Len(call.out.nodes) /\ \A i \in DOMAIN call.out.batch : call.out.batch[i] \in 1 .. b - 1
      BY <1>1 DEF BlocksReal
    <3>2. b - 1 = 0
      BY <1>1, <1>5
    <3>3. DOMAIN call.out.batch = {}
      BY <3>1, <3>2
    <3>4. DOMAIN call.out.batch = 1 .. Len(call.out.batch) /\ Len(call.out.batch) \in Nat
      BY <1>2
    <3> DEFINE m == Len(call.out.batch)
    <3>5. m \in Nat /\ 1 .. m = {} /\ m = Len(call.out.nodes)
      BY <3>1, <3>3, <3>4, Zenon
    <3> HIDE DEF m
    <3>6. m = 0
      BY <3>5
    <3> QED
      BY <3>5, <3>6
  <2>3. Len(call.out.seedLocals) = 0
    BY <1>1, <1>5
  <2>4. DOMAIN call.seeds = 1 .. Len(call.seeds) /\ Len(call.seeds) \in Nat
    BY <1>1
  <2>5. \A i \in DOMAIN call.seeds : call.seeds[i] \in SampleNodes /\ Local(st.dedup, call.seeds[i]) \in Nat
    BY <1>1, <1>3
  <2>6. locals \in [1 .. Len(call.seeds) -> Nat] /\ DOMAIN locals = 1 .. Len(call.seeds)
    BY <2>1, <2>4, <2>5
  <2>7. locals \in Seq(Nat) /\ Len(locals) = Len(call.seeds)
    BY <2>4, <2>6, TupleIsSequence, Zenon
  <2>8. ASSUME NEW j \in DOMAIN locals
        PROVE  LET s == call.seeds[Len(call.out.seedLocals) + j]
               IN /\ s \in SampleNodes /\ Known(st.dedup, s)
                  /\ locals[j] = Len(call.out.nodes) + Local(st.dedup, s)
    <3>1. j \in DOMAIN call.seeds /\ Len(call.out.seedLocals) + j = j
      BY <2>3, <2>4, <2>6
    <3>2. locals[j] = 0 + Local(st.dedup, call.seeds[j])
      BY <2>1, <2>5, <3>1
    <3> QED
      BY <1>5, <2>2, <2>5, <3>1, <3>2
  <2> QED
    BY <1>5, <2>7, <2>8
<1> QED
  BY <1>4, <1>5

\* The indices of earlier seeds stay, and the new ones are in the block at hand.
LEMMA SeedsAdded ==
  ASSUME scfg \in Configs, NEW call, NEW b, Ready(call, b), NEW st \in Scratch,
         NEW locals \in Seq(Nat),
         \A j \in DOMAIN locals :
              LET s == call.seeds[Len(call.out.seedLocals) + j]
              IN /\ s \in SampleNodes /\ Known(st.dedup, s)
                 /\ locals[j] = Len(call.out.nodes) + Local(st.dedup, s)
                 /\ scfg.disjoint => Len(call.out.seedLocals) + j = b,
         NEW call2 \in Calls, call2.begun = b, call2.seeds = call.seeds,
         call2.out.nodes = call.out.nodes, call2.out.batch = call.out.batch,
         call2.out.edges = call.out.edges,
         call2.out.seedLocals = call.out.seedLocals \o locals
  PROVE  /\ BlocksReal(call2.out, b - 1)
         /\ SeedsPlaced(call2.seeds, call2.out.seedLocals, AllNodes(call2, st.pass), AllBatch(call2, st.pass))
<1> DEFINE nodes == AllNodes(call2, st.pass)
           batch == AllBatch(call2, st.pass)
           old == call.out.seedLocals
           all == call2.out.seedLocals
           L == Len(call.out.nodes)
<1>1. b \in Nat \ {0} /\ old \in Seq(Nat) /\ Matched(st.dedup, st.pass.nodes)
  BY DEF Ready, Calls, Outs, Scratch, Sound
<1>2. BlocksReal(call2.out, b - 1)
  <2>1. BlocksReal(call.out, b - 1)
    BY DEF Ready
  <2> QED
    BY <2>1 DEF BlocksReal
<1>3. IsBlock(call2, st.pass, b)
  BY <1>1, <1>2, BlockNodes
<1>4. /\ IsJoin(call.out.nodes, st.pass.nodes, nodes)
      /\ \A i \in DOMAIN call.out.nodes : batch[i] = call.out.batch[i]
      /\ \A j \in DOMAIN st.pass.nodes : batch[L + j] = b
  BY <1>3 DEF IsBlock
<1>5. IsJoin(old, locals, all)
  BY <1>1, JoinedEntries
<1>6. \A i \in DOMAIN old : /\ old[i] \in DOMAIN call.out.nodes
                            /\ call.out.nodes[old[i]] = call.seeds[i]
                            /\ scfg.disjoint => call.out.batch[old[i]] = i
  BY DEF Ready, SeedsPlaced
<1> HIDE DEF nodes, batch, L
<1>7. ASSUME NEW i \in DOMAIN all
      PROVE  /\ all[i] \in DOMAIN nodes /\ nodes[all[i]] = call.seeds[i]
             /\ scfg.disjoint => batch[all[i]] = i
  <2>1. CASE i \in DOMAIN old
    <3>1. all[i] = old[i]
      BY <1>5, <2>1 DEF IsJoin
    <3>2. old[i] \in DOMAIN nodes /\ nodes[old[i]] = call.out.nodes[old[i]] /\ batch[old[i]] = call.out.batch[old[i]]
      BY <1>4, <1>6, <2>1, Zenon DEF IsJoin
    <3> QED
      BY <1>6, <2>1, <3>1, <3>2, Zenon
  <2>2. ASSUME NEW j \in DOMAIN locals, i = Len(old) + j
        PROVE  /\ all[i] \in DOMAIN nodes /\ nodes[all[i]] = call.seeds[i]
               /\ scfg.disjoint => batch[all[i]] = i
    <3> DEFINE s == call.seeds[i]
               k == Local(st.dedup, s)
    <3>1. all[i] = locals[j]
      BY <1>5, <2>2, Zenon DEF IsJoin
    <3>2. s \in SampleNodes /\ Known(st.dedup, s) /\ locals[j] = L + k /\ (scfg.disjoint => i = b)
      BY <2>2 DEF L
    <3> HIDE DEF s
    <3>3. k \in DOMAIN st.pass.nodes /\ st.pass.nodes[k] = s
      BY <1>1, <3>2 DEF Matched
    <3> HIDE DEF k
    <3>4. L + k \in DOMAIN nodes /\ nodes[L + k] = s /\ batch[L + k] = b
      BY <1>4, <3>3, Zenon DEF IsJoin, L
    <3> QED
      BY <3>1, <3>2, <3>4 DEF s
  <2> QED
    BY <1>5, <2>1, <2>2, Zenon DEF IsJoin
<1>8. SeedsPlaced(call2.seeds, all, nodes, batch)
  BY <1>7, Zenon DEF SeedsPlaced
<1> QED
  BY <1>2, <1>8 DEF nodes, batch

\* So a block that was ready is being sampled.
LEMMA BegunBlock ==
  ASSUME scfg \in Configs, dedup \in Dedups, dedup.tag < Generations, NotAhead(dedup),
         NEW call, NEW b, Ready(call, b), BeginBlock(call, b)
  PROVE  InPass(scall', [dedup |-> dedup', pass |-> pass'], hop', expanded')
<1>1. call \in Calls /\ b \in Nat \ {0} /\ Len(call.times) = Len(call.seeds) /\ call.seeds \in Seq(SampleNodes)
  BY DEF Ready, Calls
<1>2. PICK st : /\ st = Seeded(BlockSeeds(call, b), BlockTimes(call, b))
                /\ dedup' = st.dedup /\ pass' = st.pass /\ hop' = 1 /\ expanded' = 0
                /\ scall' = Opened(call, b, OpenedOut(call.out, call.out.seedLocals \o BlockLocals(call, b, st),
                                           [call.out.newNodes EXCEPT ![0] = @ + Len(st.pass.nodes)]))
  BY <1>1, BlockBegun, Zenon
<1>3. /\ st \in Scratch /\ st.pass.next = <<>>
      /\ scfg.disjoint => Known(st.dedup, call.seeds[b])
      /\ ~scfg.disjoint => \A i \in DOMAIN call.seeds : Known(st.dedup, call.seeds[i])
  BY <1>2, BlockSeeded
<1> DEFINE locals == BlockLocals(call, b, st)
           n == Len(st.pass.nodes)
           counts == call.out.newNodes
           counts2 == [counts EXCEPT ![0] = @ + n]
           all == call.out.seedLocals \o locals
           call2 == Opened(call, b, OpenedOut(call.out, all, counts2))
<1>4. [dedup |-> dedup', pass |-> pass'] = st
  BY <1>2, <1>3 DEF Scratch, Scratches
<1>5. /\ locals \in Seq(Nat)
      /\ Len(locals) = IF scfg.disjoint THEN 1 ELSE Len(call.seeds)
      /\ \A j \in DOMAIN locals :
              LET s == call.seeds[Len(call.out.seedLocals) + j]
              IN /\ s \in SampleNodes /\ Known(st.dedup, s)
                 /\ locals[j] = Len(call.out.nodes) + Local(st.dedup, s)
                 /\ scfg.disjoint => Len(call.out.seedLocals) + j = b
  <2> HIDE DEF locals
  <2>1. locals = BlockLocals(call, b, st)
    BY DEF locals
  <2> QED
    BY <1>3, <2>1, BlockLocalsPlaced
<1> HIDE DEF locals
<1>6. call.out.seedLocals \in Seq(Nat) /\ counts \in [0 .. Hops -> Nat] /\ n \in Nat /\ Hops \in Nat
  <2>1. Hops \in Nat
    BY SamplerAssumption DEF Hops, ConfigOK
  <2> QED
    BY <1>1, <1>3, <2>1, PassLengths, Zenon DEF Calls, Outs
<1> HIDE DEF counts, n
<1>7. all \in Seq(Nat) /\ Len(all) = Len(call.out.seedLocals) + Len(locals)
  <2>1. locals \in Seq(Nat)
    BY <1>5
  <2>2. \A s \in Seq(Nat), t \in Seq(Nat) : s \o t \in Seq(Nat) /\ Len(s \o t) = Len(s) + Len(t)
    OBVIOUS
  <2> QED
    BY <1>6, <2>1, <2>2
<1>8. counts2 \in [0 .. Hops -> Nat] /\ NodesBy(counts2, Hops) = NodesBy(counts, Hops) + n /\ NodesBy(counts, Hops) \in Nat
  <2>1. 0 \in 0 .. Hops
    BY <1>6
  <2>2. IsAdded(counts, counts2, 0, n)
    BY DEF IsAdded
  <2> HIDE DEF counts2
  <2> QED
    BY <1>6, <2>1, <2>2, NodesAdded, Zenon
<1> HIDE DEF all, counts2
<1>9. /\ call2 \in Calls /\ call2.begun = b /\ call2.seeds = call.seeds /\ call2.times = call.times
      /\ call2.out.nodes = call.out.nodes /\ call2.out.edges = call.out.edges /\ call2.out.batch = call.out.batch
      /\ call2.out.seedLocals = all /\ call2.out.newNodes = counts2
  BY <1>1, <1>7, <1>8, OpenedFields
<1>10. scall' = call2
  BY <1>2 DEF all, counts2, counts, n, locals
<1> HIDE DEF call2
<1>11. /\ BlocksReal(call2.out, b - 1)
       /\ SeedsPlaced(call2.seeds, call2.out.seedLocals, AllNodes(call2, st.pass), AllBatch(call2, st.pass))
  BY <1>3, <1>5, <1>9, SeedsAdded, Zenon DEF all
<1>12. NodesBy(call2.out.newNodes, Hops) + Len(st.pass.next) = Len(call2.out.nodes) + Len(st.pass.nodes)
  <2>1. NodesBy(counts, Hops) = Len(call.out.nodes)
    BY DEF Ready, counts
  <2>2. Len(st.pass.next) = 0
    BY <1>3
  <2> QED
    BY <1>6, <1>8, <1>9, <2>1, <2>2 DEF n
<1>13. IF scfg.disjoint THEN b <= Len(call2.seeds) /\ Len(call2.out.seedLocals) = b
                        ELSE b = 1 /\ Len(call2.out.seedLocals) = Len(call2.seeds)
  <2>1. IF scfg.disjoint THEN b <= Len(call.seeds) /\ Len(call.out.seedLocals) = b - 1
                         ELSE b = 1 /\ call.out.seedLocals = <<>>
    BY DEF Ready
  <2>2. CASE scfg.disjoint
    <3>1. Len(locals) = 1 /\ Len(call.out.seedLocals) = b - 1 /\ b <= Len(call.seeds)
      BY <1>5, <2>1, <2>2
    <3> QED
      BY <1>1, <1>7, <1>9, <2>2, <3>1
  <2>3. CASE ~scfg.disjoint
    <3>1. Len(locals) = Len(call.seeds) /\ Len(call.out.seedLocals) = 0 /\ b = 1 /\ Len(call.seeds) \in Nat
      BY <1>1, <1>5, <2>1, <2>3
    <3> QED
      BY <1>7, <1>9, <2>3, <3>1
  <2> QED
    BY <2>2, <2>3
<1>14. hop' \in 1 .. Hops + 1 /\ expanded' \in Nat /\ Len(call2.times) = Len(call2.seeds)
  BY <1>1, <1>2, <1>6, <1>9
<1>15. InPass(call2, st, hop', expanded')
  BY <1>1, <1>3, <1>9, <1>11, <1>12, <1>13, <1>14, Zenon DEF InPass
<1> QED
  BY <1>4, <1>10, <1>15

\* The config of a sampler stays, and with it what is said of its calls.
LEMMA WithinKept ==
  ASSUME scfg' = scfg, sphase' = "hops",
         InPass(scall', [dedup |-> dedup', pass |-> pass'], hop', expanded')
  PROVE  Within'
<1> DEFINE st == [dedup |-> dedup', pass |-> pass']
<1>1. Hops' = Hops /\ Temporal' = Temporal
  BY DEF Hops, Temporal
<1>2. Outs' = Outs
  BY <1>1 DEF Outs
<1>3. Calls' = Calls
  BY <1>2 DEF Calls
<1>4. Scratch' = Scratch
  BY <1>1 DEF Scratch, Sound
<1>5. BlocksReal(scall.out, scall.begun - 1)' <=> BlocksReal(scall'.out, scall'.begun - 1)
  BY DEF BlocksReal, RealIn
<1>6. SeedsPlaced(scall.seeds, scall.out.seedLocals, AllNodes(scall, [dedup |-> dedup, pass |-> pass].pass),
                  AllBatch(scall, [dedup |-> dedup, pass |-> pass].pass))'
      <=> SeedsPlaced(scall'.seeds, scall'.out.seedLocals, AllNodes(scall', st.pass), AllBatch(scall', st.pass))
  BY DEF SeedsPlaced
<1> HIDE DEF st
<1>7. InPass(scall', st, hop', expanded')
  BY DEF st
<1>8. InPass(scall, [dedup |-> dedup, pass |-> pass], hop, expanded)'
  BY <1>1, <1>3, <1>4, <1>5, <1>6, <1>7, Zenon DEF InPass, st
<1> QED
  BY <1>8 DEF Within

\* A whole call is whole in the next state when it is the call there.
LEMMA WholeKept ==
  ASSUME scfg' = scfg, IsWhole(scall')
  PROVE  IsWhole(scall)'
<1>1. Hops' = Hops
  BY DEF Hops
<1>2. Outs' = Outs
  BY <1>1 DEF Outs
<1>3. Calls' = Calls
  BY <1>2 DEF Calls
<1>4. \A last : BlocksReal(scall.out, last)' <=> BlocksReal(scall'.out, last)
  BY DEF BlocksReal, RealIn
<1>5. SeedsPlaced(scall.seeds, scall.out.seedLocals, scall.out.nodes, scall.out.batch)'
      <=> SeedsPlaced(scall'.seeds, scall'.out.seedLocals, scall'.out.nodes, scall'.out.batch)
  BY DEF SeedsPlaced
<1> QED
  BY <1>1, <1>3, <1>4, <1>5 DEF IsWhole

\* A seed keeps its index while the pass brings more nodes.
LEMMA SeedsStay ==
  ASSUME NEW call \in Calls, NEW b \in Nat \ {0}, call.begun = b, BlocksReal(call.out, b - 1),
         NEW st \in Scratch, NEW x \in Scratch, Grown(st, x), NEW seeds, NEW locals,
         SeedsPlaced(seeds, locals, AllNodes(call, st.pass), AllBatch(call, st.pass))
  PROVE  SeedsPlaced(seeds, locals, AllNodes(call, x.pass), AllBatch(call, x.pass))
<1> DEFINE nodes == AllNodes(call, st.pass)
           batch == AllBatch(call, st.pass)
           nodes2 == AllNodes(call, x.pass)
           batch2 == AllBatch(call, x.pass)
           L == Len(call.out.nodes)
<1>1. IsBlock(call, st.pass, b) /\ IsBlock(call, x.pass, b)
  BY BlockNodes
<1>2. /\ IsJoin(call.out.nodes, st.pass.nodes, nodes) /\ IsJoin(call.out.nodes, x.pass.nodes, nodes2)
      /\ \A i \in DOMAIN call.out.nodes : batch[i] = call.out.batch[i] /\ batch2[i] = call.out.batch[i]
      /\ \A j \in DOMAIN st.pass.nodes : batch[L + j] = b
      /\ \A j \in DOMAIN x.pass.nodes : batch2[L + j] = b
  BY <1>1 DEF IsBlock
<1>3. \A i \in DOMAIN st.pass.nodes : i \in DOMAIN x.pass.nodes /\ x.pass.nodes[i] = st.pass.nodes[i]
  BY DEF Grown
<1> HIDE DEF nodes, batch, nodes2, batch2, L
<1>4. ASSUME NEW k \in DOMAIN nodes PROVE k \in DOMAIN nodes2 /\ nodes2[k] = nodes[k] /\ batch2[k] = batch[k]
  <2>1. CASE k \in DOMAIN call.out.nodes
    BY <1>2, <2>1, Zenon DEF IsJoin
  <2>2. ASSUME NEW j \in DOMAIN st.pass.nodes, k = L + j
        PROVE  k \in DOMAIN nodes2 /\ nodes2[k] = nodes[k] /\ batch2[k] = batch[k]
    <3>1. nodes[k] = st.pass.nodes[j] /\ batch[k] = b
      BY <1>2, <2>2, Zenon DEF IsJoin, L
    <3>2. k \in DOMAIN nodes2 /\ nodes2[k] = x.pass.nodes[j] /\ batch2[k] = b
      BY <1>2, <1>3, <2>2, Zenon DEF IsJoin, L
    <3> QED
      BY <1>3, <3>1, <3>2
  <2> QED
    BY <1>2, <2>1, <2>2, Zenon DEF IsJoin, L
<1>5. SeedsPlaced(seeds, locals, nodes, batch)
  BY DEF nodes, batch
<1>6. SeedsPlaced(seeds, locals, nodes2, batch2)
  BY <1>4, <1>5 DEF SeedsPlaced
<1> QED
  BY <1>6 DEF nodes2, batch2

\* Expand keeps the invariant: it emits the picks of a node that is known.
LEMMA ExpandKeeps ==
  ASSUME SamplerInv, Expand
  PROVE  SamplerInv'
<1> DEFINE st == [dedup |-> dedup, pass |-> pass]
           u == pass.frontier[expanded + 1]
<1>1. /\ scfg \in Configs /\ scalls \in Nat /\ InPass(scall, st, hop, expanded)
      /\ scfg' = scfg /\ scalls' = scalls /\ sphase' = "hops" /\ hop' = hop /\ scall' = scall
      /\ expanded' = expanded + 1 /\ hop <= Hops /\ expanded < Len(pass.frontier)
  BY DEF SamplerInv, Between, Within, Expand
<1>2. /\ st \in Scratch /\ hop \in 1 .. Hops + 1 /\ expanded \in Nat /\ scall \in Calls
      /\ scall.begun \in Nat \ {0} /\ BlocksReal(scall.out, scall.begun - 1)
      /\ SeedsPlaced(scall.seeds, scall.out.seedLocals, AllNodes(scall, st.pass), AllBatch(scall, st.pass))
      /\ NodesBy(scall.out.newNodes, Hops) + Len(st.pass.next) = Len(scall.out.nodes) + Len(st.pass.nodes)
  BY <1>1, Zenon DEF InPass
<1>3. pass.frontier \in Seq(SampleNodes) /\ AllKnown(dedup, pass.frontier)
  BY <1>2 DEF Scratch, Scratches, Passes, Sound
<1>4. expanded + 1 \in DOMAIN pass.frontier /\ u \in SampleNodes /\ Known(dedup, u)
  <2>1. expanded + 1 \in 1 .. Len(pass.frontier)
    BY <1>1, <1>2, <1>3
  <2>2. u \in SampleNodes
    BY <1>3, <2>1, ElementOfSeq
  <2>3. expanded + 1 \in DOMAIN pass.frontier
    BY <1>3, <2>1
  <2> QED
    BY <1>3, <2>2, <2>3 DEF AllKnown
<1>5. PICK picks \in Picks(u) : dedup' = EmitPicks(st, u, picks).dedup /\ pass' = EmitPicks(st, u, picks).pass
  BY DEF Expand
<1> DEFINE x == EmitPicks(st, u, picks)
<1>6. hop \in 1 .. Hops /\ hop \in Nat /\ Hops \in Nat /\ ~(hop > Hops)
  <2>1. Hops \in Nat
    BY <1>1, SamplerAssumption DEF Hops, ConfigOK
  <2> QED
    BY <1>1, <1>2, <2>1
<1>7. picks \in Seq(1 .. Len(RowOf(u)))
  BY <1>1, <1>4, <1>6, PicksArePositions
<1>8. Known(st.dedup, u)
  BY <1>4
<1> HIDE DEF st, u
<1>9. IsEmitted(st, x)
  BY <1>2, <1>4, <1>6, <1>7, <1>8, EmittedPicks
<1> HIDE DEF x
<1>10. x \in Scratch /\ Grown(st, x) /\ Len(x.pass.nodes) + Len(st.pass.next) = Len(st.pass.nodes) + Len(x.pass.next)
  BY <1>9, Zenon DEF IsEmitted
<1>11. SeedsPlaced(scall.seeds, scall.out.seedLocals, AllNodes(scall, x.pass), AllBatch(scall, x.pass))
  BY <1>2, <1>10, SeedsStay, Zenon
<1>12. NodesBy(scall.out.newNodes, Hops) + Len(x.pass.next) = Len(scall.out.nodes) + Len(x.pass.nodes)
  <2>1. scall.out.newNodes \in [0 .. Hops -> Nat] /\ Len(scall.out.nodes) \in Nat
    BY <1>2 DEF Calls, Outs
  <2>2. NodesBy(scall.out.newNodes, Hops) \in Nat
    <3>1. PICK f : IsCount(f, scall.out.newNodes, Hops)
      BY <1>6, <2>1, NodesCounted, Zenon
    <3> QED
      BY <1>6, <3>1 DEF IsCount
  <2> DEFINE a == NodesBy(scall.out.newNodes, Hops)
             c == Len(scall.out.nodes)
             n1 == Len(st.pass.nodes)
             n2 == Len(x.pass.nodes)
             m1 == Len(st.pass.next)
             m2 == Len(x.pass.next)
  <2>3. a \in Nat /\ c \in Nat /\ n1 \in Nat /\ n2 \in Nat /\ m1 \in Nat /\ m2 \in Nat
    BY <1>2, <1>10, <2>1, <2>2, PassLengths
  <2>4. a + m1 = c + n1 /\ n2 + m1 = n1 + m2
    BY <1>2, <1>10, Zenon
  <2> HIDE DEF a, c, n1, n2, m1, m2
  <2>5. a + m2 = c + n2
    BY <2>3, <2>4
  <2> QED
    BY <2>5, Zenon DEF a, c, n2, m2
<1>13. InPass(scall, x, hop, expanded + 1)
  <2>1. expanded + 1 \in Nat
    BY <1>2
  <2> QED
    BY <1>1, <1>2, <1>6, <1>10, <1>11, <1>12, <2>1, Zenon DEF InPass
<1>14. [dedup |-> dedup', pass |-> pass'] = x
  BY <1>5, <1>10 DEF x, Scratch, Scratches
<1>15. Within'
  BY <1>1, <1>13, <1>14, WithinKept
<1> QED
  BY <1>1, <1>15 DEF SamplerInv

\* The end of a hop moves the nodes it brought from the list to the counts.
HopOut(out, counts, found) == [out EXCEPT !.newNodes = counts, !.newEdges = found]
HopCall(call, out) == [call EXCEPT !.out = out]
LEMMA HopFields ==
  ASSUME NEW call \in Calls, NEW counts \in [0 .. Hops -> Nat], NEW found \in [1 .. Hops -> Int]
  PROVE  LET c == HopCall(call, HopOut(call.out, counts, found))
         IN /\ c \in Calls /\ c.begun = call.begun /\ c.seeds = call.seeds /\ c.times = call.times
            /\ c.out.nodes = call.out.nodes /\ c.out.edges = call.out.edges /\ c.out.batch = call.out.batch
            /\ c.out.seedLocals = call.out.seedLocals /\ c.out.newNodes = counts
<1> DEFINE out == HopOut(call.out, counts, found)
           c == HopCall(call, out)
<1>1. call.out \in Outs
  BY DEF Calls
<1>2. out = [call.out EXCEPT !.newNodes = counts, !.newEdges = found]
  BY DEF HopOut
<1> HIDE DEF out
<1>3. /\ out \in Outs /\ out.seedLocals = call.out.seedLocals /\ out.newNodes = counts
      /\ out.nodes = call.out.nodes /\ out.edges = call.out.edges /\ out.batch = call.out.batch
  BY <1>1, <1>2, Zenon DEF Outs
<1>4. c = [call EXCEPT !.out = out]
  BY DEF HopCall
<1> HIDE DEF c
<1>5. c \in Calls /\ c.begun = call.begun /\ c.seeds = call.seeds /\ c.times = call.times /\ c.out = out
  BY <1>3, <1>4, Zenon DEF Calls
<1> QED
  BY <1>3, <1>5 DEF c, out

HopPass(p, frontier) == [p EXCEPT !.frontier = frontier, !.next = <<>>, !.counted = Len(p.edges)]
\* The frontier that the next hop expands is known.
LEMMA HopPassSound ==
  ASSUME NEW st \in Scratch, NEW frontier \in Seq(SampleNodes), AllKnown(st.dedup, frontier)
  PROVE  LET x == [dedup |-> st.dedup, pass |-> HopPass(st.pass, frontier)]
         IN x \in Scratch /\ x.pass.nodes = st.pass.nodes /\ x.pass.next = <<>> /\ Grown(st, x)
<1> DEFINE p == HopPass(st.pass, frontier)
           x == [dedup |-> st.dedup, pass |-> p]
<1>1. st.dedup \in Dedups /\ st.pass \in Passes /\ Sound(st)
  BY DEF Scratch, Scratches
<1>2. p = [st.pass EXCEPT !.frontier = frontier, !.next = <<>>, !.counted = Len(st.pass.edges)]
  BY DEF HopPass
<1> HIDE DEF p
<1>3. Len(st.pass.edges) \in Nat /\ <<>> \in Seq(SampleNodes)
  BY <1>1 DEF Passes
<1>4. /\ p \in Passes /\ p.nodes = st.pass.nodes /\ p.times = st.pass.times /\ p.edges = st.pass.edges
      /\ p.frontier = frontier /\ p.next = <<>>
  BY <1>1, <1>2, <1>3, Zenon DEF Passes
<1>5. x \in Scratches /\ x.dedup = st.dedup /\ x.pass = p
  BY <1>1, <1>4 DEF Scratches
<1> HIDE DEF x
<1>6. AllKnown(x.dedup, x.pass.next)
  BY <1>4, <1>5 DEF AllKnown
<1>7. Sound(x)
  BY <1>1, <1>4, <1>5, <1>6 DEF Sound
<1>8. Grown(st, x)
  BY <1>4, <1>5 DEF Grown
<1> QED
  BY <1>4, <1>5, <1>7, <1>8 DEF Scratch, x, p

\* EndHop keeps the invariant: the nodes it counts are those it takes off the list.
LEMMA EndHopKeeps ==
  ASSUME SamplerInv, EndHop
  PROVE  SamplerInv'
<1> DEFINE st == [dedup |-> dedup, pass |-> pass]
           front == IF scfg.cumulative THEN pass.frontier \o pass.next ELSE pass.next
           counts == scall.out.newNodes
           counts2 == [counts EXCEPT ![hop] = @ + Len(pass.next)]
           found == scall.out.newEdges
           found2 == [found EXCEPT ![hop] = @ + Len(pass.edges) - pass.counted]
           call2 == HopCall(scall, HopOut(scall.out, counts2, found2))
           x == [dedup |-> dedup, pass |-> HopPass(pass, front)]
<1>1. /\ scfg \in Configs /\ scalls \in Nat /\ InPass(scall, st, hop, expanded)
      /\ scfg' = scfg /\ scalls' = scalls /\ sphase' = "hops" /\ hop' = hop + 1 /\ dedup' = dedup
      /\ expanded' = 0 /\ hop <= Hops
  BY DEF SamplerInv, Between, Within, EndHop
<1>2. /\ st \in Scratch /\ hop \in 1 .. Hops + 1 /\ scall \in Calls
      /\ scall.begun \in Nat \ {0} /\ BlocksReal(scall.out, scall.begun - 1)
      /\ SeedsPlaced(scall.seeds, scall.out.seedLocals, AllNodes(scall, st.pass), AllBatch(scall, st.pass))
      /\ NodesBy(scall.out.newNodes, Hops) + Len(st.pass.next) = Len(scall.out.nodes) + Len(st.pass.nodes)
  BY <1>1, Zenon DEF InPass
<1>3. Hops \in Nat /\ hop \in 1 .. Hops /\ hop \in 0 .. Hops /\ hop + 1 \in 1 .. Hops + 1
  <2>1. Hops \in Nat
    BY <1>1, SamplerAssumption DEF Hops, ConfigOK
  <2> QED
    BY <1>1, <1>2, <2>1
<1>4. /\ pass \in Passes /\ pass.frontier \in Seq(SampleNodes) /\ pass.next \in Seq(SampleNodes)
      /\ AllKnown(dedup, pass.frontier) /\ AllKnown(dedup, pass.next)
      /\ Len(pass.next) \in Nat /\ Len(pass.edges) \in Nat /\ pass.counted \in Nat
  BY <1>2 DEF Scratch, Scratches, Sound, Passes
<1>5. scall.out \in Outs /\ counts \in [0 .. Hops -> Nat] /\ found \in [1 .. Hops -> Int]
  BY <1>2, Zenon DEF Calls, Outs
<1>6. scall' = [scall EXCEPT !.out.newNodes[hop] = @ + Len(pass.next),
                             !.out.newEdges[hop] = @ + Len(pass.edges) - pass.counted]
      /\ pass' = HopPass(pass, front)
  BY DEF EndHop, HopPass
<1>7. scall' = call2
  BY <1>2, <1>5, <1>6, Zenon DEF HopCall, HopOut, Calls, Outs
<1> HIDE DEF call2
<1>8. front \in Seq(SampleNodes) /\ AllKnown(dedup, front)
  <2>1. CASE scfg.cumulative
    <3>1. front = pass.frontier \o pass.next
      BY <2>1, Zenon
    <3> HIDE DEF front
    <3>2. front \in Seq(SampleNodes) /\ IsJoin(pass.frontier, pass.next, front)
      BY <1>4, <3>1, JoinedEntries
    <3>3. AllKnown(dedup, front)
      BY <1>4, <3>2, Zenon DEF AllKnown, IsJoin
    <3> QED
      BY <3>2, <3>3
  <2>2. CASE ~scfg.cumulative
    BY <1>4, <2>2
  <2> QED
    BY <2>1, <2>2
<1> HIDE DEF front
<1>9. x \in Scratch /\ x.pass.nodes = st.pass.nodes /\ x.pass.next = <<>> /\ Grown(st, x)
  <2> HIDE DEF st
  <2>1. st.dedup = dedup /\ st.pass = pass
    BY DEF st
  <2> HIDE DEF x
  <2>2. x = [dedup |-> st.dedup, pass |-> HopPass(st.pass, front)]
    BY <2>1 DEF x
  <2> QED
    BY <1>2, <1>8, <2>1, <2>2, HopPassSound
<1> HIDE DEF x
<1>10. /\ counts2 \in [0 .. Hops -> Nat] /\ NodesBy(counts, Hops) \in Nat
       /\ NodesBy(counts2, Hops) = NodesBy(counts, Hops) + Len(pass.next)
  <2>1. IsAdded(counts, counts2, hop, Len(pass.next))
    BY DEF IsAdded
  <2> HIDE DEF counts2, counts, st
  <2> DEFINE k == Len(pass.next)
  <2>2. k \in Nat /\ Hops \in Nat /\ hop \in 0 .. Hops /\ counts \in [0 .. Hops -> Nat]
    BY <1>3, <1>4, <1>5
  <2> HIDE DEF k
  <2>3. IsAdded(counts, counts2, hop, k)
    BY <2>1 DEF k
  <2>4. /\ counts2 \in [0 .. Hops -> Nat] /\ NodesBy(counts, Hops) \in Nat
        /\ NodesBy(counts2, Hops) = NodesBy(counts, Hops) + k
    BY <2>2, <2>3, NodesAdded
  <2> QED
    BY <2>4 DEF k
<1>11. found2 \in [1 .. Hops -> Int]
  <2> HIDE DEF found
  <2>1. found[hop] \in Int
    BY <1>3, <1>5
  <2>2. found[hop] + Len(pass.edges) - pass.counted \in Int
    BY <1>4, <2>1
  <2> QED
    BY <1>5, <2>2, Zenon
<1> HIDE DEF counts2, found2
<1>12. /\ call2 \in Calls /\ call2.begun = scall.begun /\ call2.seeds = scall.seeds /\ call2.times = scall.times
       /\ call2.out.nodes = scall.out.nodes /\ call2.out.edges = scall.out.edges /\ call2.out.batch = scall.out.batch
       /\ call2.out.seedLocals = scall.out.seedLocals /\ call2.out.newNodes = counts2
  BY <1>2, <1>10, <1>11, HopFields DEF call2
<1>13. BlocksReal(call2.out, call2.begun - 1)
  BY <1>2, <1>12 DEF BlocksReal
<1>14. SeedsPlaced(call2.seeds, call2.out.seedLocals, AllNodes(call2, x.pass), AllBatch(call2, x.pass))
  BY <1>2, <1>9, <1>12 DEF AllNodes, AllBatch
<1>15. NodesBy(call2.out.newNodes, Hops) + Len(x.pass.next) = Len(call2.out.nodes) + Len(x.pass.nodes)
  <2>1. Len(x.pass.next) = 0
    BY <1>9
  <2>2. st.pass.next = pass.next
    OBVIOUS
  <2>3. NodesBy(counts2, Hops) = Len(scall.out.nodes) + Len(st.pass.nodes)
    BY <1>2, <1>10, <2>2, Zenon
  <2>4. Len(call2.out.nodes) + Len(x.pass.nodes) = NodesBy(counts2, Hops)
    BY <1>9, <1>12, <2>3
  <2>5. NodesBy(counts2, Hops) \in Nat /\ NodesBy(call2.out.newNodes, Hops) = NodesBy(counts2, Hops)
    BY <1>4, <1>10, <1>12
  <2> DEFINE q == NodesBy(counts2, Hops)
             m == Len(x.pass.next)
  <2>6. q + m = q
    <3>1. q \in Nat /\ m = 0
      BY <2>1, <2>5
    <3> HIDE DEF q, m
    <3> QED
      BY <3>1
  <2> QED
    BY <2>4, <2>5, <2>6, Zenon
<1>16. InPass(call2, x, hop + 1, 0)
  BY <1>1, <1>3, <1>9, <1>12, <1>13, <1>14, <1>15, Zenon DEF InPass
<1>17. [dedup |-> dedup', pass |-> pass'] = x
  BY <1>1, <1>6 DEF x
<1>18. Within'
  BY <1>1, <1>7, <1>16, <1>17, WithinKept
<1> QED
  BY <1>1, <1>18 DEF SamplerInv

\* A pass ends: its block is joined, and the next begins or the call is done.
IsPassEnd(b, st, closed) ==
  /\ scfg \in Configs /\ scfg' = scfg /\ scalls' = scalls /\ scalls \in Nat
  /\ dedup \in Dedups /\ dedup.tag < Generations /\ NotAhead(dedup)
  /\ st = [dedup |-> dedup, pass |-> pass] /\ st \in Scratch /\ st.pass.next = <<>>
  /\ scall \in Calls /\ b \in Nat \ {0} /\ scall.begun = b /\ BlocksReal(scall.out, b - 1)
  /\ hop \in 1 .. Hops + 1 /\ hop > Hops /\ (~scfg.disjoint => b = 1)
  /\ sphase = "hops" /\ closed = Closed(scall)
  /\ \/ /\ scfg.disjoint /\ Ready(closed, b + 1)
        /\ BeginBlock(closed, b + 1) /\ sphase' = "hops"
     \/ IsWhole(closed) /\ sphase' = "idle" /\ scall' = closed /\ dedup' = dedup
LEMMA EndPassFacts ==
  ASSUME SamplerInv, EndPass
  PROVE  \E b, st, closed : IsPassEnd(b, st, closed)
<1> DEFINE st == [dedup |-> dedup, pass |-> pass]
           b == scall.begun
           closed == Closed(scall)
<1>1. /\ scfg \in Configs /\ scalls \in Nat /\ InPass(scall, st, hop, expanded)
      /\ scfg' = scfg /\ scalls' = scalls /\ sphase = "hops" /\ hop > Hops
  BY DEF SamplerInv, Between, Within, EndPass
<1>2. /\ st \in Scratch /\ scall \in Calls /\ b \in Nat \ {0} /\ BlocksReal(scall.out, b - 1)
      /\ Len(scall.times) = Len(scall.seeds) /\ pass.next = <<>>
      /\ SeedsPlaced(scall.seeds, scall.out.seedLocals, AllNodes(scall, pass), AllBatch(scall, pass))
      /\ NodesBy(scall.out.newNodes, Hops) + Len(pass.next) = Len(scall.out.nodes) + Len(pass.nodes)
      /\ IF scfg.disjoint THEN b <= Len(scall.seeds) /\ Len(scall.out.seedLocals) = b
                          ELSE b = 1 /\ Len(scall.out.seedLocals) = Len(scall.seeds)
  BY <1>1, Zenon DEF InPass
<1>3. /\ dedup \in Dedups /\ dedup.tag < Generations /\ NotAhead(dedup)
  <2>1. dedup \in Dedups /\ dedup.tag \in 1 .. Generations - 1 /\ NotAhead(dedup)
    BY <1>2 DEF Scratch, Scratches, Sound
  <2> QED
    BY <2>1, SamplerAssumption
<1>4. /\ closed \in Calls /\ BlocksReal(closed.out, b)
      /\ closed.out.nodes = AllNodes(scall, pass) /\ closed.out.batch = AllBatch(scall, pass)
      /\ closed.out.seedLocals = scall.out.seedLocals /\ closed.out.newNodes = scall.out.newNodes
      /\ closed.seeds = scall.seeds /\ closed.times = scall.times /\ closed.begun = b
  <2> HIDE DEF b, closed
  <2>1. b = scall.begun /\ closed = Closed(scall)
    BY DEF b, closed
  <2> QED
    BY <1>1, <1>2, <2>1, JoinedBlock
<1>5. NodesBy(closed.out.newNodes, Hops) = Len(closed.out.nodes)
  <2>1. IsBlock(scall, st.pass, b)
    BY <1>2, BlockNodes
  <2>2. Len(AllNodes(scall, pass)) = Len(scall.out.nodes) + Len(pass.nodes)
    BY <2>1, Zenon DEF IsBlock, IsJoin
  <2>3. Len(pass.next) = 0
    BY <1>2
  <2>4. NodesBy(scall.out.newNodes, Hops) \in Nat
    <3>1. Hops \in Nat /\ scall.out.newNodes \in [0 .. Hops -> Nat]
      BY <1>1, <1>2, SamplerAssumption DEF Hops, ConfigOK, Calls, Outs
    <3>2. PICK f : IsCount(f, scall.out.newNodes, Hops)
      BY <3>1, NodesCounted, Zenon
    <3> QED
      BY <3>1, <3>2 DEF IsCount
  <2> DEFINE q == NodesBy(scall.out.newNodes, Hops)
             m == Len(pass.next)
  <2>5. q + m = q
    <3>1. q \in Nat /\ m = 0
      BY <2>3, <2>4
    <3> HIDE DEF q, m
    <3> QED
      BY <3>1
  <2>6. q = Len(scall.out.nodes) + Len(pass.nodes)
    BY <1>2, <2>5, Zenon
  <2> QED
    BY <1>4, <2>2, <2>6
<1>6. SeedsPlaced(closed.seeds, closed.out.seedLocals, closed.out.nodes, closed.out.batch)
  BY <1>2, <1>4
<1>7. /\ Len(scall.seeds) \in Nat
      /\ \/ /\ scfg.disjoint /\ b < Len(scall.seeds)
            /\ BeginBlock(closed, b + 1) /\ sphase' = "hops"
         \/ /\ ~(scfg.disjoint /\ b < Len(scall.seeds))
            /\ sphase' = "idle" /\ scall' = closed /\ dedup' = dedup
  BY <1>1, <1>2 DEF EndPass, Closed, Calls
<1> HIDE DEF closed, b, st
<1>8. ASSUME scfg.disjoint /\ b < Len(scall.seeds) /\ BeginBlock(closed, b + 1) /\ sphase' = "hops"
      PROVE  Ready(closed, b + 1)
  <2>1. b + 1 \in Nat \ {0} /\ b + 1 - 1 = b /\ b + 1 <= Len(closed.seeds) /\ Len(closed.times) = Len(closed.seeds)
    BY <1>2, <1>4, <1>7, <1>8
  <2>2. Len(closed.out.seedLocals) = b + 1 - 1
    BY <1>2, <1>4, <1>8, <2>1
  <2>3. BlocksReal(closed.out, b + 1 - 1)
    BY <1>4, <2>1
  <2> QED
    BY <1>4, <1>5, <1>6, <1>8, <2>1, <2>2, <2>3 DEF Ready
<1>9. ASSUME ~(scfg.disjoint /\ b < Len(scall.seeds)) /\ sphase' = "idle" /\ scall' = closed /\ dedup' = dedup
      PROVE  IsWhole(closed)
  <2>1. Len(closed.out.seedLocals) = Len(closed.seeds)
    BY <1>2, <1>4, <1>7, <1>9
  <2> QED
    BY <1>2, <1>4, <1>5, <1>6, <2>1 DEF IsWhole
<1>10. \/ /\ scfg.disjoint /\ Ready(closed, b + 1)
          /\ BeginBlock(closed, b + 1) /\ sphase' = "hops"
       \/ IsWhole(closed) /\ sphase' = "idle" /\ scall' = closed /\ dedup' = dedup
  BY <1>7, <1>8, <1>9
<1>11. st.pass.next = <<>> /\ (~scfg.disjoint => b = 1) /\ hop \in 1 .. Hops + 1
  BY <1>1, <1>2 DEF st, InPass
<1>12. IsPassEnd(b, st, closed)
  BY <1>1, <1>2, <1>3, <1>10, <1>11 DEF IsPassEnd, st, b, closed
<1> QED
  BY <1>12

\* EndPass keeps the invariant: it joins a block, then begins the next or ends the call.
LEMMA EndPassKeeps ==
  ASSUME SamplerInv, EndPass
  PROVE  SamplerInv'
<1>1. PICK b, st, closed : IsPassEnd(b, st, closed)
  BY EndPassFacts
<1>2. /\ scfg \in Configs /\ scfg' = scfg /\ scalls' = scalls /\ scalls \in Nat
      /\ dedup \in Dedups /\ dedup.tag < Generations /\ NotAhead(dedup)
  BY <1>1 DEF IsPassEnd
<1>3. CASE scfg.disjoint /\ Ready(closed, b + 1) /\ BeginBlock(closed, b + 1) /\ sphase' = "hops"
  <2>1. InPass(scall', [dedup |-> dedup', pass |-> pass'], hop', expanded')
    BY <1>2, <1>3, BegunBlock
  <2>2. Within'
    BY <1>2, <1>3, <2>1, WithinKept
  <2> QED
    BY <1>2, <2>2 DEF SamplerInv
<1>4. CASE IsWhole(closed) /\ sphase' = "idle" /\ scall' = closed /\ dedup' = dedup
  <2>1. IsWhole(scall)'
    BY <1>2, <1>4, WholeKept
  <2>2. Between'
    BY <1>2, <1>4, <2>1 DEF Between, NotAhead
  <2> QED
    BY <1>2, <2>2 DEF SamplerInv
<1> QED
  BY <1>1, <1>3, <1>4 DEF IsPassEnd

\* A call begins with nothing found.
LEMMA NewCallReady ==
  ASSUME scfg \in Configs, NEW seeds \in SeedLists,
         NEW times \in [DOMAIN seeds -> IF Temporal THEN SeedTimes ELSE {Infinity}]
  PROVE  LET call == NewCall(seeds, times)
         IN /\ (scfg.disjoint => seeds # <<>>) => Ready(call, 1)
            /\ seeds = <<>> => IsWhole(call)
<1> DEFINE call == NewCall(seeds, times)
           counts == [h \in 0 .. Hops |-> 0]
           grown == [h \in 1 .. Hops |-> 0]
           out == [NoSubgraph EXCEPT !.newNodes = counts, !.newEdges = grown]
<1>1. seeds \in Seq(SampleNodes) /\ DOMAIN seeds = 1 .. Len(seeds) /\ Len(seeds) \in Nat
  BY SamplerAssumption
<1>2. times \in Seq(Moments) /\ Len(times) = Len(seeds)
  <2>1. times \in [1 .. Len(seeds) -> Moments]
    <3>1. SeedTimes \subseteq Moments /\ {Infinity} \subseteq Moments
      BY DEF Moments
    <3> QED
      BY <1>1, <3>1
  <2> QED
    BY <1>1, <2>1, TupleIsSequence
<1>3. Hops \in Nat
  BY SamplerAssumption DEF Hops, ConfigOK
<1>4. counts \in [0 .. Hops -> Nat] /\ NodesBy(counts, Hops) = 0
  <2>1. counts = [g \in 0 .. Hops |-> 0]
    OBVIOUS
  <2>2. counts \in [0 .. Hops -> Nat]
    OBVIOUS
  <2> HIDE DEF counts
  <2> QED
    BY <1>3, <2>1, <2>2, NoNodes
<1> HIDE DEF counts
<1>5. /\ out \in Outs /\ out.nodes = <<>> /\ out.edges = <<>> /\ out.batch = <<>>
      /\ out.seedLocals = <<>> /\ out.newNodes = counts
  <2>1. grown \in [1 .. Hops -> Int] /\ <<>> \in Seq(SampleNodes) /\ <<>> \in Seq(EdgeRec) /\ <<>> \in Seq(Nat)
    OBVIOUS
  <2> HIDE DEF grown
  <2>2. out = [NoSubgraph EXCEPT !.newNodes = counts, !.newEdges = grown]
    OBVIOUS
  <2> HIDE DEF out
  <2>3. /\ out.nodes = <<>> /\ out.edges = <<>> /\ out.batch = <<>> /\ out.seedLocals = <<>>
        /\ out.newNodes = counts /\ out.newEdges = grown
    BY <2>2 DEF NoSubgraph
  <2>4. out \in [nodes : Seq(SampleNodes), edges : Seq(EdgeRec), seedLocals : Seq(Nat), batch : Seq(Nat),
                 newNodes : [0 .. Hops -> Nat], newEdges : [1 .. Hops -> Int]]
    BY <1>4, <2>1, <2>2, Zenon DEF NoSubgraph
  <2> QED
    BY <2>3, <2>4 DEF Outs
<1>6. call = [seeds |-> seeds, times |-> times, begun |-> 0, out |-> out]
  BY DEF NewCall, counts, grown
<1> HIDE DEF out, call
<1>7. call \in Calls /\ call.seeds = seeds /\ call.times = times /\ call.out = out
  BY <1>1, <1>2, <1>5, <1>6 DEF Calls
<1>8. BlocksReal(call.out, 0)
  BY <1>5, <1>7 DEF BlocksReal, Apart
<1>9. SeedsPlaced(call.seeds, call.out.seedLocals, call.out.nodes, call.out.batch)
  BY <1>5, <1>7 DEF SeedsPlaced
<1>10. NodesBy(call.out.newNodes, Hops) = Len(call.out.nodes)
  BY <1>4, <1>5, <1>7
<1>11. ASSUME scfg.disjoint => seeds # <<>> PROVE Ready(call, 1)
  <2>1. scfg.disjoint => 1 <= Len(seeds)
    BY <1>1, <1>11
  <2>2. Len(call.out.seedLocals) = 1 - 1 /\ 1 \in Nat \ {0} /\ 1 - 1 = 0
    BY <1>5, <1>7
  <2>3. BlocksReal(call.out, 1 - 1)
    BY <1>8, <2>2
  <2> QED
    BY <1>2, <1>5, <1>7, <1>9, <1>10, <2>1, <2>2, <2>3 DEF Ready
<1>12. ASSUME seeds = <<>> PROVE IsWhole(call)
  BY <1>5, <1>7, <1>8, <1>9, <1>10, <1>12 DEF IsWhole
<1> QED
  BY <1>11, <1>12 DEF call

\* So does a new call, whatever generation the table is at.
LEMMA BeginCallKeeps ==
  ASSUME SamplerInv, NEW seeds \in SeedLists,
         NEW times \in [DOMAIN seeds -> IF Temporal THEN SeedTimes ELSE {Infinity}],
         BeginCall(seeds, times) \/ EmptyCall(seeds, times)
  PROVE  SamplerInv'
<1> DEFINE call == NewCall(seeds, times)
<1>1. /\ scfg \in Configs /\ scalls \in Nat /\ dedup \in Dedups /\ dedup.tag < Generations /\ NotAhead(dedup)
      /\ scfg' = scfg /\ scalls' = scalls + 1
  BY DEF SamplerInv, Between, Within, BeginCall, EmptyCall
<1>2. /\ (scfg.disjoint => seeds # <<>>) => Ready(call, 1)
      /\ seeds = <<>> => IsWhole(call)
  BY <1>1, NewCallReady
<1>3. CASE BeginCall(seeds, times)
  <2>1. (scfg.disjoint => seeds # <<>>) /\ BeginBlock(call, 1) /\ sphase' = "hops"
    BY <1>3 DEF BeginCall
  <2> HIDE DEF call
  <2>2. InPass(scall', [dedup |-> dedup', pass |-> pass'], hop', expanded')
    BY <1>1, <1>2, <2>1, BegunBlock
  <2>3. Within'
    BY <1>1, <2>1, <2>2, WithinKept
  <2> QED
    BY <1>1, <2>3 DEF SamplerInv
<1>4. CASE EmptyCall(seeds, times)
  <2>1. seeds = <<>> /\ sphase = "idle" /\ sphase' = sphase /\ scall' = call /\ dedup' = dedup
    BY <1>4 DEF EmptyCall
  <2>2. IsWhole(scall)'
    BY <1>1, <1>2, <2>1, WholeKept
  <2>3. Between'
    BY <1>1, <2>1, <2>2 DEF Between, NotAhead
  <2> QED
    BY <1>1, <2>3 DEF SamplerInv
<1> QED
  BY <1>3, <1>4

\* A new sampler has made no call.
LEMMA SamplerInitially ==
  ASSUME SamplerInit
  PROVE  SamplerInv
<1>1. scfg \in Configs /\ dedup = [tag |-> 0, slots |-> Slots0] /\ sphase = "idle" /\ scalls = 0
  BY DEF SamplerInit
<1>2. Slots0 \in Slots /\ \A n \in SampleNodes : Slots0[n].tag = 0
  BY DEF Slots, Slots0
<1>3. dedup.tag = 0 /\ dedup.slots = Slots0 /\ dedup \in Dedups
  BY <1>1, <1>2 DEF Dedups
<1>4. NotAhead(dedup) /\ dedup.tag < Generations
  BY <1>2, <1>3, SamplerAssumption DEF NotAhead
<1> QED
  BY <1>1, <1>3, <1>4 DEF SamplerInv, Between

\* A stutter keeps the invariant.
LEMMA SamplerStays ==
  ASSUME SamplerInv, UNCHANGED svars
  PROVE  SamplerInv'
<1>1. /\ scfg' = scfg /\ dedup' = dedup /\ pass' = pass /\ hop' = hop /\ expanded' = expanded
      /\ scall' = scall /\ sphase' = sphase /\ scalls' = scalls
  BY DEF svars
<1>2. CASE Between
  <2>1. scalls > 0 => IsWhole(scall')
    BY <1>1, <1>2 DEF Between
  <2>2. scalls > 0 => IsWhole(scall)'
    BY <1>1, <2>1, WholeKept
  <2>3. Between'
    BY <1>1, <1>2, <2>2 DEF Between, NotAhead
  <2> QED
    BY <1>1, <2>3 DEF SamplerInv
<1>3. CASE Within
  <2>1. InPass(scall', [dedup |-> dedup', pass |-> pass'], hop', expanded')
    BY <1>1, <1>3 DEF Within
  <2>2. Within'
    BY <1>1, <1>3, <2>1, WithinKept DEF Within
  <2> QED
    BY <1>1, <2>2 DEF SamplerInv
<1> QED
  BY <1>2, <1>3 DEF SamplerInv

\* A whole call is what SubgraphIsReal says.
LEMMA SamplerSafe ==
  ASSUME SamplerInv
  PROVE  SubgraphIsReal
<1> SUFFICES ASSUME Finished PROVE SubgraphIsReal
  BY DEF SubgraphIsReal
<1>1. IsWhole(scall) /\ scall \in Calls
  BY DEF Finished, SamplerInv, Between, Within, IsWhole
<1>2. PICK last \in Nat : BlocksReal(scall.out, last)
  BY <1>1 DEF IsWhole
<1>3. Apart(Out.nodes, Out.batch) /\ \A i \in DOMAIN Out.edges : RealIn(Out.nodes, Out.batch, Out.edges[i])
  BY <1>2 DEF BlocksReal, Out
<1>4. \A e \in Range(Out.edges) : RealIn(Out.nodes, Out.batch, e)
  BY <1>3 DEF Range
<1>5. \A e \in Range(Out.edges) :
         /\ {e.sl, e.dl} \subseteq DOMAIN Out.nodes
         /\ Out.batch[e.sl] = Out.batch[e.dl]
         /\ Out.nodes[e.sl] = e.src /\ Out.nodes[e.dl] = e.dst
         /\ InGraph(e) \/ (scfg.subgraph = "bidirectional" /\ InGraph(Reversed(e)))
  BY <1>4 DEF RealIn
<1>6. Len(Out.seedLocals) = Len(scall.seeds) /\ DOMAIN scall.seeds = DOMAIN Out.seedLocals
  BY <1>1 DEF IsWhole, Out, Calls, Outs
<1>7. \A i \in DOMAIN scall.seeds :
         /\ Out.seedLocals[i] \in DOMAIN Out.nodes
         /\ Out.nodes[Out.seedLocals[i]] = scall.seeds[i]
         /\ scfg.disjoint => Out.batch[Out.seedLocals[i]] = i
  BY <1>1, <1>6 DEF IsWhole, SeedsPlaced, Out
<1>8. NodesBy(Out.newNodes, Hops) = Len(Out.nodes)
  BY <1>1 DEF IsWhole, Out
<1>9. \A i, j \in DOMAIN Out.nodes :
         Out.nodes[i] = Out.nodes[j] /\ Out.batch[i] = Out.batch[j] => i = j
  BY <1>3 DEF Apart
<1> QED
  BY <1>5, <1>6, <1>7, <1>8, <1>9 DEF SubgraphIsReal

\* Every step keeps the invariant.
LEMMA SamplerStep ==
  ASSUME SamplerInv, [SamplerNext]_svars
  PROVE  SamplerInv'
<1>1. CASE UNCHANGED svars
  BY <1>1, SamplerStays
<1>2. CASE Expand
  BY <1>2, ExpandKeeps
<1>3. CASE EndHop
  BY <1>3, EndHopKeeps
<1>4. CASE EndPass
  BY <1>4, EndPassKeeps
<1>5. ASSUME NEW seeds \in SeedLists,
             NEW times \in [DOMAIN seeds -> IF Temporal THEN SeedTimes ELSE {Infinity}],
             BeginCall(seeds, times) \/ EmptyCall(seeds, times)
      PROVE  SamplerInv'
  BY <1>5, BeginCallKeeps
<1> QED
  BY <1>1, <1>2, <1>3, <1>4, <1>5 DEF SamplerNext

(* Whatever calls one sampler served before, over however many generations *)
(* of its dedup table, a finished call's subgraph is real: no node twice   *)
(* in a block, every edge between nodes of one block and an edge of the    *)
(* graph (or the reverse of one), every seed where its index says, and     *)
(* the per-hop counts the nodes'.                                          *)
THEOREM SubgraphIsRealAlways == SamplerSpec => []SubgraphIsReal
<1>1. SamplerInit => SamplerInv
  BY SamplerInitially
<1>2. SamplerInv /\ [SamplerNext]_svars => SamplerInv'
  BY SamplerStep
<1>3. SamplerInv => SubgraphIsReal
  BY SamplerSafe
<1> QED
  BY <1>1, <1>2, <1>3, PTL DEF SamplerSpec

-----------------------------------------------------------------------------
(* The sampler's times.                                                    *)

\* Exactly what registering a node and emitting an edge do to a pass.
Lowered(times, k, t) == IF t < times[k] THEN [times EXCEPT ![k] = t] ELSE times
IsEntry(st, x, n, time) ==
  IF Known(st.dedup, n)
  THEN /\ x.pass.nodes = st.pass.nodes
       /\ Local(x.dedup, n) = Local(st.dedup, n)
       /\ Temporal => x.pass.times = Lowered(st.pass.times, Local(st.dedup, n), time)
  ELSE /\ x.pass.nodes = Append(st.pass.nodes, n)
       /\ Local(x.dedup, n) = Len(st.pass.nodes) + 1
       /\ Temporal => x.pass.times = Append(st.pass.times, time)
LEMMA RegisteredEntry ==
  ASSUME NEW st \in Scratch, NEW n \in SampleNodes, NEW time \in Moments
  PROVE  IsEntry(st, Register(st, n, time), n, time)
<1> DEFINE x == Register(st, n, time)
           p == st.pass
<1>1. st \in Scratches /\ p \in Passes /\ p.nodes \in Seq(SampleNodes) /\ p.times \in Seq(Moments)
  BY DEF Scratch, Scratches, Passes
<1>2. CASE ~Known(st.dedup, n)
  <2>1. x = Inserted(st, n, time)
    BY <1>2 DEF Register
  <2>2. x.pass = [p EXCEPT !.nodes = Append(@, n), !.times = IF Temporal THEN Append(@, time) ELSE @]
    BY <2>1 DEF Inserted
  <2>3. IsRegistered(st, n, x)
    BY <1>2, <2>1, InsertedNode
  <2> HIDE DEF x
  <2>4. x.pass.nodes = Append(p.nodes, n) /\ (Temporal => x.pass.times = Append(p.times, time))
    BY <1>1, <2>2, Zenon DEF Passes
  <2>5. Matched(x.dedup, x.pass.nodes)
    BY <2>3 DEF IsRegistered, Scratch, Sound
  <2>6. Len(p.nodes) + 1 \in DOMAIN x.pass.nodes /\ x.pass.nodes[Len(p.nodes) + 1] = n
    BY <1>1, <2>4
  <2>7. Local(x.dedup, n) = Len(p.nodes) + 1
    BY <2>5, <2>6 DEF Matched
  <2>8. IsEntry(st, x, n, time)
    BY <1>2, <2>4, <2>7 DEF IsEntry
  <2> QED
    BY <2>8 DEF x
<1>3. CASE Known(st.dedup, n)
  <2> DEFINE l == Local(st.dedup, n)
  <2>1. x = IF Temporal /\ time < p.times[l] THEN [st EXCEPT !.pass.times[l] = time] ELSE st
    BY <1>3 DEF Register
  <2> HIDE DEF x
  <2>2. x.dedup = st.dedup
    BY <1>1, <2>1 DEF Scratches
  <2>3. x.pass.nodes = p.nodes
    BY <1>1, <2>1 DEF Scratches, Passes
  <2>4. Temporal => x.pass.times = Lowered(p.times, l, time)
    BY <1>1, <2>1 DEF Scratches, Passes, Lowered
  <2>5. IsEntry(st, x, n, time)
    BY <1>3, <2>2, <2>3, <2>4 DEF IsEntry
  <2> QED
    BY <2>5 DEF x
<1> QED
  BY <1>2, <1>3

EdgeOf(u, e, sl, dl) == [src |-> u, dst |-> Dst[e], eid |-> e, sl |-> sl, dl |-> dl]
IsEmission(st, x, u, e) ==
  /\ Dst[e] \in SampleNodes
  /\ IsEntry(st, x, Dst[e], IF Temporal THEN Timestamp[e] ELSE Infinity)
  /\ x.pass.edges = Append(st.pass.edges, EdgeOf(u, e, Local(st.dedup, u), Local(x.dedup, Dst[e])))
  /\ x.pass.next = IF Known(st.dedup, Dst[e]) THEN st.pass.next ELSE Append(st.pass.next, Dst[e])
IsRefusal(st, x) ==
  /\ x.dedup = st.dedup /\ x.pass.nodes = st.pass.nodes /\ x.pass.times = st.pass.times
  /\ x.pass.edges = st.pass.edges /\ x.pass.next = st.pass.next
Noted(emitted, e) == [y \in DOMAIN emitted \cup {e} |-> IF y = e THEN hop ELSE emitted[y]]
EmitOutcome(st, x, u, e) ==
  /\ x.pass.emitted = IF scfg.cumulative /\ FreshEdge(st, e) THEN Noted(st.pass.emitted, e)
                      ELSE st.pass.emitted
  /\ \/ FreshEdge(st, e) /\ IsEmission(st, x, u, e)
     \/ (FreshEdge(st, e) => Dst[e] \notin SampleNodes) /\ IsRefusal(st, x)
LEMMA EmittedOutcome ==
  ASSUME NEW st \in Scratch, hop \in Nat, NEW u \in SampleNodes, Known(st.dedup, u),
         NEW e \in Nat, e \in Range(RowOf(u))
  PROVE  EmitOutcome(st, EmitEdge(st, u, e), u, e)
<1> DEFINE d == Dst[e]
           seen == IF ~scfg.cumulative THEN st
                   ELSE [st EXCEPT !.pass.emitted =
                           [x \in DOMAIN @ \cup {e} |-> IF x = e THEN hop ELSE @[x]]]
           time == IF Temporal THEN Timestamp[e] ELSE Infinity
           reg == Register(seen, d, time)
           next2 == IF Known(st.dedup, d) THEN reg.pass.next ELSE Append(reg.pass.next, d)
           edge == [src |-> u, dst |-> d, eid |-> e, sl |-> Local(st.dedup, u), dl |-> Local(reg.dedup, d)]
           last == [reg EXCEPT !.pass.next = next2, !.pass.edges = Append(@, edge)]
           marked == IF scfg.cumulative THEN Noted(st.pass.emitted, e) ELSE st.pass.emitted
           x == EmitEdge(st, u, e)
<1>1. x = IF ~FreshEdge(st, e) THEN st ELSE IF d \notin SampleNodes THEN seen ELSE last
  BY DEF EmitEdge
<1>2. st \in Scratches /\ st.pass \in Passes
  BY DEF Scratch, Scratches
<1>3. /\ seen \in Scratch /\ IsRefusal(st, seen) /\ seen.pass.emitted = marked
      /\ seen.pass.frontier = st.pass.frontier
  <2>1. CASE ~scfg.cumulative
    BY <2>1 DEF IsRefusal
  <2>2. CASE scfg.cumulative
    <3>1. seen = [st EXCEPT !.pass.emitted = [y \in DOMAIN @ \cup {e} |-> IF y = e THEN hop ELSE @[y]]]
      BY <2>2
    <3> HIDE DEF seen
    <3>2. seen \in Scratch /\ seen.dedup = st.dedup /\ seen.pass.nodes = st.pass.nodes
         /\ seen.pass.edges = st.pass.edges /\ seen.pass.frontier = st.pass.frontier /\ seen.pass.next = st.pass.next
      BY <3>1, MarkedEdge, Zenon
    <3>3. seen.pass = [st.pass EXCEPT !.emitted = Noted(st.pass.emitted, e)]
      BY <1>2, <3>1 DEF Scratches, Noted
    <3>4. seen.pass.times = st.pass.times /\ seen.pass.emitted = Noted(st.pass.emitted, e)
      BY <1>2, <3>3 DEF Passes
    <3> QED
      BY <2>2, <3>2, <3>4 DEF IsRefusal
  <2> QED
    BY <2>1, <2>2
<1> HIDE DEF seen, marked
<1>4. ASSUME d \in SampleNodes PROVE IsEmission(st, last, u, e) /\ last.pass.emitted = marked
  <2>1. time \in Moments
    BY DEF Moments
  <2> HIDE DEF time
  <2>2. IsRegistered(seen, d, reg) /\ IsEntry(seen, reg, d, time)
    BY <1>3, <1>4, <2>1, RegisteredNode, RegisteredEntry
  <2> HIDE DEF reg, d
  <2>3. reg \in Scratch /\ SameButNodes(seen.pass, reg.pass) /\ reg \in Scratches /\ reg.pass \in Passes
    BY <2>2 DEF IsRegistered, Scratch, Scratches
  <2>4. IsEntry(st, reg, d, time)
    BY <1>3, <2>2 DEF IsEntry, IsRefusal
  <2>5. reg.pass.edges = st.pass.edges /\ reg.pass.next = st.pass.next /\ reg.pass.emitted = marked
    BY <1>3, <2>3 DEF SameButNodes, IsRefusal
  <2> HIDE DEF edge, next2
  <2>6. last.dedup = reg.dedup /\ last.pass = [reg.pass EXCEPT !.next = next2, !.edges = Append(@, edge)]
    BY <2>3 DEF Scratches, Passes
  <2> HIDE DEF last
  <2>7. /\ last.pass.nodes = reg.pass.nodes /\ last.pass.times = reg.pass.times /\ last.pass.emitted = reg.pass.emitted
        /\ last.pass.next = next2 /\ last.pass.edges = Append(reg.pass.edges, edge)
    BY <2>3, <2>6, Zenon DEF Passes
  <2>8. IsEntry(st, last, d, time)
    BY <2>4, <2>6, <2>7 DEF IsEntry
  <2>9. edge = EdgeOf(u, e, Local(st.dedup, u), Local(last.dedup, d))
    BY <2>6 DEF edge, EdgeOf, d
  <2>10. next2 = IF Known(st.dedup, d) THEN st.pass.next ELSE Append(st.pass.next, d)
    BY <2>5 DEF next2
  <2> QED
    BY <1>4, <2>5, <2>7, <2>8, <2>9, <2>10 DEF IsEmission, time, d
<1> HIDE DEF last, x
<1>5. CASE ~FreshEdge(st, e)
  BY <1>1, <1>5 DEF EmitOutcome, IsRefusal, x
<1>6. CASE FreshEdge(st, e) /\ d \notin SampleNodes
  BY <1>1, <1>3, <1>6 DEF EmitOutcome, marked, x
<1>7. CASE FreshEdge(st, e) /\ d \in SampleNodes
  BY <1>1, <1>4, <1>7 DEF EmitOutcome, marked, x
<1> QED
  BY <1>5, <1>6, <1>7

\* A node's edges are emitted one after the other.
IsEmitRun(g, st, u, picks) ==
  /\ g[0] = st /\ g[Len(picks)] = EmitPicks(st, u, picks)
  /\ \A i \in 1 .. Len(picks) : g[i] = EmitEdge(g[i - 1], u, RowOf(u)[picks[i]])
  /\ \A i \in 0 .. Len(picks) : g[i] \in Scratch /\ IsEmitted(st, g[i])
LEMMA EmitRuns ==
  ASSUME NEW st \in Scratch, hop \in Nat, NEW u \in SampleNodes, Known(st.dedup, u),
         NEW picks \in Seq(1 .. Len(RowOf(u)))
  PROVE  \E g : IsEmitRun(g, st, u, picks)
<1> DEFINE n == Len(picks)
           T == {x \in Scratch : IsEmitted(st, x)}
           e(i) == RowOf(u)[picks[i]]
           F == [x \in T \X (1 .. n) |-> EmitEdge(x[1], u, e(x[2]))]
           Run(g) == [i \in 0 .. n |-> IF i = 0 THEN st ELSE EmitEdge(g[i - 1], u, e(i))]
           emitted == CHOOSE g : g = Run(g)
<1>1. n \in Nat /\ st \in T
  BY PassLengths DEF IsEmitted, Grown
<1>2. ASSUME NEW t \in T, NEW i \in 1 .. n PROVE EmitEdge(t, u, e(i)) \in T
  <2>1. t \in Scratch /\ IsEmitted(st, t) /\ Known(t.dedup, u)
    BY Zenon DEF IsEmitted, Grown
  <2>2. e(i) \in Nat /\ e(i) \in Range(RowOf(u))
    <3>1. picks[i] \in 1 .. Len(RowOf(u))
      OBVIOUS
    <3> QED
      BY <3>1, RowIsSeq DEF Range
  <2> HIDE DEF e
  <2>3. IsEmitted(t, EmitEdge(t, u, e(i)))
    BY <2>1, <2>2, EmittedEdge
  <2>4. IsEmitted(st, EmitEdge(t, u, e(i)))
    BY <2>1, <2>3, EmittedTwice, Zenon
  <2> QED
    BY <2>4, Zenon DEF IsEmitted
<1> HIDE DEF T, e
<1>3. F \in [T \X (1 .. n) -> T]
  BY <1>2
<1>4. \A t \in T, i \in 1 .. n : F[<<t, i>>] = EmitEdge(t, u, e(i))
  OBVIOUS
<1> HIDE DEF F, n
<1>5. PICK g : IsRun(g, F, st, n, T)
  BY <1>1, <1>3, Repeated, Zenon
<1>6. \A i \in 1 .. n : g[i] = EmitEdge(g[i - 1], u, e(i))
  <2> TAKE i \in 1 .. n
  <2>1. i - 1 \in 0 .. n
    BY <1>1
  <2>2. g[i - 1] \in T
    BY <1>5, <2>1, Zenon DEF IsRun
  <2> QED
    BY <1>4, <1>5, <2>2, Zenon DEF IsRun
<1>7. g = Run(g)
  BY <1>1, <1>5, <1>6 DEF IsRun
<1>8. \A h : h = Run(h) => h[0] = st /\ \A i \in 1 .. n : h[i] = EmitEdge(h[i - 1], u, e(i))
  <2> TAKE h
  <2> HAVE h = Run(h)
  <2>1. 0 \in 0 .. n /\ \A i \in 1 .. n : i # 0 /\ i \in 0 .. n
    BY <1>1
  <2> QED
    BY <2>1, Zenon
<1> HIDE DEF Run
<1>9. emitted = Run(emitted)
  BY <1>7, Zenon
<1>10. EmitPicks(st, u, picks) = emitted[n]
  BY DEF EmitPicks, emitted, Run, n, e
<1> HIDE DEF emitted
<1>11. emitted[0] = st /\ \A i \in 1 .. n : emitted[i] = EmitEdge(emitted[i - 1], u, e(i))
  BY <1>8, <1>9, Zenon
<1>12. ASSUME NEW k \in 0 .. n PROVE emitted[k] \in T
  <2>1. k \in Nat /\ \A i \in 1 .. k : i \in 1 .. n
    BY <1>1
  <2>2. \A i \in 1 .. k : emitted[i - 1] \in T => emitted[i] \in T
    BY <1>2, <1>11, <2>1, Zenon
  <2> QED
    BY <1>1, <1>11, <2>1, <2>2, Along, Zenon
<1>13. IsEmitRun(emitted, st, u, picks)
  BY <1>10, <1>11, <1>12 DEF IsEmitRun, T, n, e
<1> QED
  BY <1>13

\* The seeds of a block are registered one after the other.
IsSeedRun(g, seeds, times) ==
  /\ g[0] = [dedup |-> BeginDedup, pass |-> NoPass] /\ g[Len(seeds)] = Seeded(seeds, times)
  /\ \A i \in 1 .. Len(seeds) : g[i] = SeededOne(g[i - 1], seeds[i], times[i])
  /\ \A i \in 0 .. Len(seeds) : g[i] \in Scratch
LEMMA SeedRuns ==
  ASSUME dedup \in Dedups, dedup.tag < Generations, NotAhead(dedup),
         NEW seeds \in Seq(SampleNodes), NEW times, \A i \in 1 .. Len(seeds) : times[i] \in Moments
  PROVE  \E g : IsSeedRun(g, seeds, times)
<1> DEFINE n == Len(seeds)
           T == Scratch
           base == [dedup |-> BeginDedup, pass |-> NoPass]
           F == [x \in T \X (1 .. n) |-> SeededOne(x[1], seeds[x[2]], times[x[2]])]
           Run(g) == [i \in 0 .. n |-> IF i = 0 THEN base ELSE SeededOne(g[i - 1], seeds[i], times[i])]
           reg == CHOOSE g : g = Run(g)
<1>1. n \in Nat /\ base \in T /\ \A i \in 1 .. n : seeds[i] \in SampleNodes
  BY EmptyPass
<1>2. \A t \in T, i \in 1 .. n : SeededOne(t, seeds[i], times[i]) \in T
  BY <1>1, SeededNode
<1> HIDE DEF T, base
<1>3. F \in [T \X (1 .. n) -> T]
  BY <1>2
<1>4. \A t \in T, i \in 1 .. n : F[<<t, i>>] = SeededOne(t, seeds[i], times[i])
  OBVIOUS
<1> HIDE DEF F
<1>5. PICK g : IsRun(g, F, base, n, T)
  BY <1>1, <1>3, Repeated, Zenon
<1>6. \A i \in 1 .. n : g[i] = SeededOne(g[i - 1], seeds[i], times[i])
  <2> TAKE i \in 1 .. n
  <2>1. i - 1 \in 0 .. n
    BY <1>1
  <2>2. g[i - 1] \in T
    BY <1>5, <2>1 DEF IsRun
  <2> QED
    BY <1>4, <1>5, <2>2, Zenon DEF IsRun
<1>7. g = Run(g)
  BY <1>1, <1>5, <1>6 DEF IsRun
<1>8. \A h : h = Run(h) => h[0] = base /\ \A i \in 1 .. n : h[i] = SeededOne(h[i - 1], seeds[i], times[i])
  <2> TAKE h
  <2> HAVE h = Run(h)
  <2>1. 0 \in 0 .. n /\ \A i \in 1 .. n : i # 0 /\ i \in 0 .. n
    BY <1>1
  <2> QED
    BY <2>1, Zenon
<1>9. Seeded(seeds, times) = reg[n]
  BY DEF Seeded, SeededOne, base
<1> HIDE DEF Run
<1>10. reg = Run(reg)
  BY <1>7, Zenon
<1> HIDE DEF reg
<1>11. reg[0] = base /\ \A i \in 1 .. n : reg[i] = SeededOne(reg[i - 1], seeds[i], times[i])
  BY <1>8, <1>10, Zenon
<1> HIDE DEF n
<1>12. ASSUME NEW k \in 0 .. n PROVE reg[k] \in T
  <2>1. k \in Nat /\ \A i \in 1 .. k : i \in 1 .. n
    BY <1>1
  <2>2. \A i \in 1 .. k : reg[i - 1] \in T => reg[i] \in T
    BY <1>2, <1>11, <2>1, Zenon
  <2> QED
    BY <1>1, <1>11, <2>1, <2>2, Along, Zenon
<1>13. IsSeedRun(reg, seeds, times)
  BY <1>9, <1>11, <1>12 DEF IsSeedRun, T, n, base
<1> QED
  BY <1>13

\* Exactly what a seed does to a pass.
IsSeeding(st, x, n, time) ==
  /\ x \in Scratch /\ Grown(st, x) /\ Known(x.dedup, n) /\ IsEntry(st, x, n, time)
  /\ x.pass.edges = st.pass.edges /\ x.pass.emitted = st.pass.emitted /\ x.pass.next = st.pass.next
  /\ x.pass.frontier = IF Known(st.dedup, n) THEN st.pass.frontier ELSE Append(st.pass.frontier, n)
LEMMA SeededOutcome ==
  ASSUME NEW st \in Scratch, NEW n \in SampleNodes, NEW time \in Moments
  PROVE  IsSeeding(st, SeededOne(st, n, time), n, time)
<1> DEFINE reg == Register(st, n, time)
           x == SeededOne(st, n, time)
<1>1. IsRegistered(st, n, reg) /\ IsEntry(st, reg, n, time)
  BY RegisteredNode, RegisteredEntry
<1>2. x \in Scratch /\ Grown(st, x) /\ Known(x.dedup, n) /\ x.pass.next = st.pass.next
  BY SeededNode
<1>3. x = IF Known(st.dedup, n) THEN reg ELSE [reg EXCEPT !.pass.frontier = Append(@, n)]
  BY DEF SeededOne
<1> HIDE DEF reg, x
<1>4. reg \in Scratches /\ reg.pass \in Passes /\ SameButNodes(st.pass, reg.pass)
  BY <1>1 DEF IsRegistered, Scratch, Scratches
<1>5. CASE Known(st.dedup, n)
  <2>1. x = reg
    BY <1>3, <1>5
  <2> QED
    BY <1>1, <1>2, <1>4, <1>5, <2>1 DEF IsSeeding, SameButNodes, x
<1>6. CASE ~Known(st.dedup, n)
  <2>1. x = [reg EXCEPT !.pass.frontier = Append(@, n)]
    BY <1>3, <1>6
  <2>2. x.dedup = reg.dedup /\ x.pass = [reg.pass EXCEPT !.frontier = Append(@, n)]
    BY <1>4, <2>1 DEF Scratches
  <2>3. /\ x.pass.nodes = reg.pass.nodes /\ x.pass.times = reg.pass.times /\ x.pass.edges = reg.pass.edges
        /\ x.pass.emitted = reg.pass.emitted /\ x.pass.frontier = Append(reg.pass.frontier, n)
    BY <1>4, <2>2, Zenon DEF Passes
  <2>4. IsEntry(st, x, n, time)
    BY <1>1, <2>2, <2>3 DEF IsEntry
  <2>5. IsSeeding(st, x, n, time)
    BY <1>2, <1>4, <1>6, <2>3, <2>4 DEF IsSeeding, SameButNodes
  <2> QED
    BY <2>5 DEF x
<1> QED
  BY <1>5, <1>6

\* The nodes of a pass are those it is done with, its frontier and its next frontier.
Start(p) == Len(p.nodes) - Len(p.frontier) - Len(p.next)
Aligned(p) ==
  /\ Start(p) \in Nat
  /\ \A i \in DOMAIN p.frontier : p.nodes[Start(p) + i] = p.frontier[i]
  /\ \A i \in DOMAIN p.next : p.nodes[Start(p) + Len(p.frontier) + i] = p.next[i]
  /\ scfg.cumulative => Start(p) = 0

\* Registering at most one node keeps what is queued at the tail of the nodes.
LEMMA StepAligned ==
  ASSUME NEW st \in Scratch, Aligned(st.pass), NEW x \in Scratch, Grown(st, x),
         NEW n \in SampleNodes, NEW more \in {0, 1},
         more = 0 => x.pass.nodes = st.pass.nodes /\ x.pass.next = st.pass.next,
         more = 1 => x.pass.nodes = Append(st.pass.nodes, n) /\ x.pass.next = Append(st.pass.next, n),
         x.pass.frontier = st.pass.frontier
  PROVE  Aligned(x.pass) /\ Start(x.pass) = Start(st.pass)
<1> DEFINE p == st.pass
           q == x.pass
<1>1. /\ p.nodes \in Seq(SampleNodes) /\ p.frontier \in Seq(SampleNodes) /\ p.next \in Seq(SampleNodes)
      /\ q.nodes \in Seq(SampleNodes) /\ q.next \in Seq(SampleNodes)
  BY Zenon DEF Scratch, Scratches, Passes
<1>2. CASE more = 0
  BY <1>2, Zenon DEF Aligned, Start
<1>3. CASE more = 1
  <2> DEFINE L == Len(p.nodes)
             F == Len(p.frontier)
             N == Len(p.next)
             s == Start(p)
  <2>1. q.nodes = Append(p.nodes, n) /\ q.next = Append(p.next, n) /\ q.frontier = p.frontier
    BY <1>3
  <2> HIDE DEF p, q
  <2>2. /\ L \in Nat /\ F \in Nat /\ N \in Nat /\ DOMAIN p.frontier = 1 .. F /\ DOMAIN p.next = 1 .. N
        /\ Len(q.nodes) = L + 1 /\ Len(q.next) = N + 1 /\ DOMAIN q.next = 1 .. N + 1
        /\ q.nodes[L + 1] = n /\ q.next[N + 1] = n
        /\ \A i \in 1 .. L : q.nodes[i] = p.nodes[i]
        /\ \A i \in 1 .. N : q.next[i] = p.next[i]
    BY <1>1, <2>1
  <2>3. /\ s = L - F - N /\ s \in Nat
        /\ \A i \in 1 .. F : p.nodes[s + i] = p.frontier[i]
        /\ \A i \in 1 .. N : p.nodes[s + F + i] = p.next[i]
        /\ scfg.cumulative => s = 0
    BY <2>2, Zenon DEF Aligned, Start, p
  <2>4. Start(q) = s
    <3>1. Start(q) = Len(q.nodes) - Len(q.frontier) - Len(q.next)
      BY DEF Start
    <3>2. Start(q) = (L + 1) - F - (N + 1)
      BY <2>1, <2>2, <3>1
    <3> HIDE DEF L, F, N, s
    <3> QED
      BY <2>2, <2>3, <3>2
  <2> HIDE DEF L, F, N, s
  <2>5. \A i \in 1 .. F : q.nodes[s + i] = q.frontier[i]
    <3> TAKE i \in 1 .. F
    <3>1. s + i \in 1 .. L
      BY <2>2, <2>3
    <3> QED
      BY <2>1, <2>2, <2>3, <3>1, Zenon
  <2>6. \A i \in 1 .. N + 1 : q.nodes[s + F + i] = q.next[i]
    <3> TAKE i \in 1 .. N + 1
    <3>1. CASE i = N + 1
      <4>1. s + F + i = L + 1
        BY <2>2, <2>3, <3>1
      <4> QED
        BY <2>2, <3>1, <4>1
    <3>2. CASE i # N + 1
      <4>1. i \in 1 .. N /\ s + F + i \in 1 .. L
        BY <2>2, <2>3, <3>2
      <4> QED
        BY <2>2, <2>3, <4>1
    <3> QED
      BY <3>1, <3>2
  <2>7. Aligned(q)
    BY <2>1, <2>2, <2>3, <2>4, <2>5, <2>6, Zenon DEF Aligned, F
  <2> QED
    BY <2>4, <2>7 DEF q, s, p
<1> QED
  BY <1>2, <1>3

\* An emitted edge or a refused one moves no node of the frontiers.
LEMMA EmissionAligned ==
  ASSUME NEW st \in Scratch, hop \in Nat, NEW u \in SampleNodes, Known(st.dedup, u),
         NEW e \in Nat, e \in Range(RowOf(u)), Aligned(st.pass)
  PROVE  Aligned(EmitEdge(st, u, e).pass) /\ Start(EmitEdge(st, u, e).pass) = Start(st.pass)
<1> DEFINE x == EmitEdge(st, u, e)
           n == Dst[e]
<1>1. x \in Scratch /\ Grown(st, x) /\ x.pass.frontier = st.pass.frontier /\ EmitOutcome(st, x, u, e)
  BY EmittedEdge, EmittedOutcome, Zenon DEF IsEmitted
<1> HIDE DEF x, n
<1>2. CASE IsRefusal(st, x)
  <2>1. Start(x.pass) = Start(st.pass) /\ Aligned(x.pass)
    BY <1>1, <1>2, Zenon DEF Aligned, Start, IsRefusal
  <2> QED
    BY <2>1 DEF x
<1>3. CASE IsEmission(st, x, u, e) /\ Known(st.dedup, n)
  <2>1. x.pass.nodes = st.pass.nodes /\ x.pass.next = st.pass.next
    BY <1>3 DEF IsEmission, IsEntry, n
  <2>2. Start(x.pass) = Start(st.pass) /\ Aligned(x.pass)
    BY <1>1, <2>1, Zenon DEF Aligned, Start
  <2> QED
    BY <2>2 DEF x
<1>4. CASE IsEmission(st, x, u, e) /\ ~Known(st.dedup, n)
  <2>1. n \in SampleNodes /\ x.pass.nodes = Append(st.pass.nodes, n) /\ x.pass.next = Append(st.pass.next, n)
    BY <1>4 DEF IsEmission, IsEntry, n
  <2>2. Aligned(x.pass) /\ Start(x.pass) = Start(st.pass)
    BY <1>1, <2>1, StepAligned
  <2> QED
    BY <2>2 DEF x
<1> QED
  BY <1>1, <1>2, <1>3, <1>4 DEF EmitOutcome

\* A pass's edges are edge records between its nodes.
LEMMA EdgesTyped ==
  ASSUME NEW st \in Scratch
  PROVE  /\ st.pass.edges \in Seq(EdgeRec) /\ Len(st.pass.edges) \in Nat
         /\ DOMAIN st.pass.edges = 1 .. Len(st.pass.edges)
         /\ \A i \in DOMAIN st.pass.edges : /\ st.pass.edges[i] \in EdgeRec
                                            /\ RealEdge(st.pass.nodes, st.pass.edges[i])
<1> DEFINE s == st.pass.edges
<1>1. s \in Seq(EdgeRec) /\ \A i \in DOMAIN s : RealEdge(st.pass.nodes, s[i])
  BY DEF Scratch, Scratches, Passes, Sound
<1> HIDE DEF s
<1>2. Len(s) \in Nat /\ DOMAIN s = 1 .. Len(s) /\ \A i \in DOMAIN s : s[i] \in EdgeRec
  BY <1>1
<1> QED
  BY <1>1, <1>2 DEF s

\* No edge is drawn twice from one node; of those this hop emitted, none is from a
\* node past l, and from l only edges of E.
OnceTo(p, h, l, E) ==
  /\ \A i, j \in DOMAIN p.edges : p.edges[i].eid = p.edges[j].eid /\ p.edges[i].sl = p.edges[j].sl => i = j
  /\ \A i \in DOMAIN p.edges :
       /\ scfg.cumulative => p.edges[i].eid \in DOMAIN p.emitted /\ p.emitted[p.edges[i].eid] <= h
       /\ (scfg.cumulative => p.emitted[p.edges[i].eid] = h) =>
            p.edges[i].sl <= l /\ (p.edges[i].sl = l => p.edges[i].eid \in E)
LEMMA OnceEmitted ==
  ASSUME NEW st \in Scratch, hop \in Nat, NEW u \in SampleNodes, Known(st.dedup, u),
         NEW e \in Nat, e \in Range(RowOf(u)), NEW E, e \notin E,
         NEW l \in Nat, l = Local(st.dedup, u), OnceTo(st.pass, hop, l, E)
  PROVE  OnceTo(EmitEdge(st, u, e).pass, hop, l, E \cup {e})
<1> DEFINE x == EmitEdge(st, u, e)
           p == st.pass
           q == x.pass
           marks == q.emitted
<1>1. EmitOutcome(st, x, u, e)
  BY EmittedOutcome
<1>2. p.edges \in Seq(EdgeRec) /\ Len(p.edges) \in Nat /\ DOMAIN p.edges = 1 .. Len(p.edges)
  BY EdgesTyped
<1> HIDE DEF x
<1>3. marks = IF scfg.cumulative /\ FreshEdge(st, e) THEN Noted(p.emitted, e) ELSE p.emitted
  BY <1>1 DEF EmitOutcome
<1>4. scfg.cumulative /\ e \in DOMAIN p.emitted /\ FreshEdge(st, e) => p.emitted[e] = hop
  BY DEF FreshEdge
<1>5. ASSUME NEW y \in DOMAIN p.emitted PROVE y \in DOMAIN marks /\ marks[y] = p.emitted[y]
  BY <1>3, <1>4 DEF Noted
<1>6. ASSUME NEW i \in DOMAIN p.edges
      PROVE  /\ scfg.cumulative => p.edges[i].eid \in DOMAIN marks /\ marks[p.edges[i].eid] <= hop
             /\ (scfg.cumulative => marks[p.edges[i].eid] = hop) =>
                  p.edges[i].sl <= l /\ (p.edges[i].sl = l => p.edges[i].eid \in E)
  BY <1>5 DEF OnceTo
<1>7. CASE IsRefusal(st, x)
  <2>1. q.edges = p.edges
    BY <1>7 DEF IsRefusal
  <2>2. OnceTo(q, hop, l, E \cup {e})
    BY <1>6, <2>1 DEF OnceTo
  <2> QED
    BY <2>2 DEF x
<1>8. CASE FreshEdge(st, e) /\ IsEmission(st, x, u, e)
  <2> DEFINE last == EdgeOf(u, e, Local(st.dedup, u), Local(x.dedup, Dst[e]))
             k == Len(p.edges) + 1
  <2>1. q.edges = Append(p.edges, last)
    BY <1>8 DEF IsEmission
  <2>2. last.eid = e /\ last.sl = l
    BY DEF EdgeOf
  <2> HIDE DEF last
  <2>3. /\ DOMAIN q.edges = 1 .. k /\ q.edges[k] = last
        /\ \A i \in DOMAIN p.edges : q.edges[i] = p.edges[i]
        /\ \A i \in 1 .. k : i = k \/ i \in DOMAIN p.edges
    BY <1>2, <2>1
  <2>4. ASSUME NEW i \in DOMAIN p.edges, p.edges[i].eid = e, p.edges[i].sl = l PROVE FALSE
    <3>1. scfg.cumulative => p.emitted[e] = hop
      BY <1>4, <1>8, <2>4 DEF OnceTo
    <3>2. e \in E
      BY <2>4, <3>1 DEF OnceTo
    <3> QED
      BY <3>2
  <2>5. scfg.cumulative => e \in DOMAIN marks /\ marks[e] = hop
    BY <1>3, <1>8 DEF Noted
  <2> HIDE DEF k, p, q, marks
  <2>6. ASSUME NEW i \in DOMAIN q.edges, NEW j \in DOMAIN q.edges,
               q.edges[i].eid = q.edges[j].eid, q.edges[i].sl = q.edges[j].sl
        PROVE  i = j
    <3>1. \A m, o \in DOMAIN p.edges : p.edges[m].eid = p.edges[o].eid /\ p.edges[m].sl = p.edges[o].sl => m = o
      BY DEF OnceTo, p
    <3> QED
      BY <2>2, <2>3, <2>4, <2>6, <3>1
  <2>7. ASSUME NEW i \in DOMAIN q.edges
        PROVE  /\ scfg.cumulative => q.edges[i].eid \in DOMAIN marks /\ marks[q.edges[i].eid] <= hop
               /\ (scfg.cumulative => marks[q.edges[i].eid] = hop) =>
                    q.edges[i].sl <= l /\ (q.edges[i].sl = l => q.edges[i].eid \in E \cup {e})
    <3>1. CASE i = k
      BY <2>2, <2>3, <2>5, <3>1
    <3>2. CASE i \in DOMAIN p.edges
      BY <1>6, <2>3, <3>2
    <3> QED
      BY <2>3, <3>1, <3>2
  <2>8. OnceTo(q, hop, l, E \cup {e})
    BY <2>6, <2>7 DEF OnceTo, marks
  <2> QED
    BY <2>8 DEF q, x
<1> QED
  BY <1>1, <1>7, <1>8 DEF EmitOutcome

\* A draw without replacement draws no edge twice.
DrawnOf(u, picks, i) == {RowOf(u)[picks[j]] : j \in 1 .. i}
LEMMA DrawnOnce ==
  ASSUME NEW u \in SampleNodes, NEW picks \in Seq(1 .. Len(RowOf(u))), NEW i \in 1 .. Len(picks)
  PROVE  /\ RowOf(u)[picks[i]] \in Nat /\ RowOf(u)[picks[i]] \in Range(RowOf(u))
         /\ DrawnOf(u, picks, i) = DrawnOf(u, picks, i - 1) \cup {RowOf(u)[picks[i]]}
         /\ IsInjective(picks) => RowOf(u)[picks[i]] \notin DrawnOf(u, picks, i - 1)
<1> DEFINE row == RowOf(u)
           n == Len(row)
<1>1. /\ row \in Seq(Nat) /\ DOMAIN row = 1 .. n /\ n \in Nat
      /\ \A k, m \in 1 .. n : row[k] = row[m] => k = m
      /\ \A k \in 1 .. n : row[k] \in Nat /\ row[k] \in Range(row)
  <2>1. row \in Seq(Nat) /\ DOMAIN row = 1 .. n /\ n \in Nat
    BY RowIsSeq
  <2> DEFINE off == Offsets[u]
  <2>2. off \in Nat
    <3>1. u \in 0 .. NodeCount
      BY SamplerAssumption DEF SampleNodes
    <3> QED
      BY <3>1, SamplerAssumption
  <2>3. \A k \in DOMAIN row : row[k] = off + k
    BY DEF RowOf
  <2> HIDE DEF row, n, off
  <2>4. ASSUME NEW k \in 1 .. n, NEW m \in 1 .. n, row[k] = row[m] PROVE k = m
    <3>1. off + k = off + m
      BY <2>1, <2>3, <2>4, Zenon
    <3> QED
      BY <2>2, <3>1
  <2>5. ASSUME NEW k \in 1 .. n PROVE row[k] \in Nat /\ row[k] \in Range(row)
    <3>1. k \in DOMAIN row
      BY <2>1
    <3>2. row[k] \in Range(row)
      BY <3>1, Zenon DEF Range
    <3> QED
      BY <2>1, <3>1, <3>2
  <2> QED
    BY <2>1, <2>4, <2>5
<1>2. picks \in Seq(1 .. n) /\ Len(picks) \in Nat /\ DOMAIN picks = 1 .. Len(picks)
      /\ \A j \in 1 .. Len(picks) : picks[j] \in 1 .. n
  BY <1>1
<1>3. 1 .. i = 1 .. (i - 1) \cup {i} /\ i \notin 1 .. (i - 1) /\ \A j \in 1 .. i - 1 : j \in 1 .. Len(picks)
  BY <1>2
<1>4. DrawnOf(u, picks, i) = DrawnOf(u, picks, i - 1) \cup {row[picks[i]]}
  BY <1>3, Zenon DEF DrawnOf
<1>5. ASSUME IsInjective(picks), row[picks[i]] \in DrawnOf(u, picks, i - 1) PROVE FALSE
  <2>1. PICK j \in 1 .. i - 1 : row[picks[i]] = row[picks[j]]
    BY <1>5, Zenon DEF DrawnOf
  <2>2. picks[i] = picks[j]
    BY <1>1, <1>2, <1>3, <2>1
  <2>3. i = j
    BY <1>2, <1>3, <1>5, <2>2, Zenon DEF IsInjective
  <2> QED
    BY <1>3, <2>3
<1> QED
  BY <1>1, <1>2, <1>4, <1>5

\* Emitting distinct picks of a node gives it no edge twice.
LEMMA OncePicked ==
  ASSUME NEW st \in Scratch, hop \in Nat, NEW u \in SampleNodes, Known(st.dedup, u),
         NEW picks \in Seq(1 .. Len(RowOf(u))), IsInjective(picks),
         NEW l \in Nat, l = Local(st.dedup, u), OnceTo(st.pass, hop, l, {})
  PROVE  OnceTo(EmitPicks(st, u, picks).pass, hop, l, DrawnOf(u, picks, Len(picks)))
<1> DEFINE n == Len(picks)
           E(i) == DrawnOf(u, picks, i)
<1>1. PICK g : IsEmitRun(g, st, u, picks)
  BY EmitRuns
<1>2. n \in Nat /\ E(0) = {}
  BY DEF DrawnOf
<1> DEFINE T == {y \in Scratch \X (0 .. n) : OnceTo(y[1].pass, hop, l, E(y[2]))}
           h == [i \in 0 .. n |-> <<g[i], i>>]
<1>3. h[0] \in T
  <2>1. h[0] = <<st, 0>> /\ 0 \in 0 .. n
    BY <1>1, <1>2 DEF IsEmitRun
  <2>2. OnceTo(st.pass, hop, l, E(0))
    <3> HIDE DEF E
    <3> QED
      BY <1>2, Zenon
  <2> HIDE DEF h, E, n
  <2> QED
    BY <2>1, <2>2
<1>4. ASSUME NEW i \in 1 .. n, h[i - 1] \in T PROVE h[i] \in T
  <2>1. i - 1 \in 0 .. n /\ i \in 0 .. n /\ h[i - 1] = <<g[i - 1], i - 1>> /\ h[i] = <<g[i], i>>
    BY <1>2
  <2> DEFINE e == RowOf(u)[picks[i]]
             x == g[i - 1]
  <2>2. e \in Nat /\ e \in Range(RowOf(u)) /\ E(i) = E(i - 1) \cup {e} /\ e \notin E(i - 1)
    BY DrawnOnce
  <2>3. x \in Scratch /\ g[i] \in Scratch /\ IsEmitted(st, x) /\ g[i] = EmitEdge(x, u, e)
    BY <1>1, <2>1, Zenon DEF IsEmitRun
  <2>4. Known(x.dedup, u) /\ l = Local(x.dedup, u)
    BY <2>3 DEF IsEmitted, Grown
  <2>5. OnceTo(x.pass, hop, l, E(i - 1))
    BY <1>4, <2>1, Zenon
  <2> HIDE DEF e, x, E, h
  <2>6. OnceTo(EmitEdge(x, u, e).pass, hop, l, E(i - 1) \cup {e})
    BY <2>2, <2>3, <2>4, <2>5, OnceEmitted, Zenon
  <2>7. OnceTo(g[i].pass, hop, l, E(i))
    BY <2>2, <2>3, <2>6
  <2> QED
    BY <2>1, <2>3, <2>7
<1>5. n \in 0 .. n /\ h[n] = <<g[n], n>>
  BY <1>2
<1> HIDE DEF T, h, n
<1>6. h[n] \in T
  BY <1>2, <1>3, <1>4, Along
<1>7. OnceTo(g[n].pass, hop, l, E(n))
  BY <1>5, <1>6 DEF T
<1> QED
  BY <1>1, <1>7 DEF IsEmitRun, n

\* Emitting picks keeps what is queued at the tail of the nodes.
LEMMA PickedAligned ==
  ASSUME NEW st \in Scratch, hop \in Nat, NEW u \in SampleNodes, Known(st.dedup, u),
         NEW picks \in Seq(1 .. Len(RowOf(u))), Aligned(st.pass)
  PROVE  Aligned(EmitPicks(st, u, picks).pass) /\ Start(EmitPicks(st, u, picks).pass) = Start(st.pass)
<1> DEFINE n == Len(picks)
           T == {x \in Scratch : Aligned(x.pass) /\ Start(x.pass) = Start(st.pass)}
<1>1. PICK g : IsEmitRun(g, st, u, picks)
  BY EmitRuns
<1>2. n \in Nat /\ g[0] \in T
  BY <1>1 DEF IsEmitRun
<1>3. ASSUME NEW i \in 1 .. n, g[i - 1] \in T PROVE g[i] \in T
  <2> DEFINE e == RowOf(u)[picks[i]]
             x == g[i - 1]
  <2>1. i - 1 \in 0 .. n /\ i \in 0 .. n
    BY <1>2
  <2>2. e \in Nat /\ e \in Range(RowOf(u))
    BY DrawnOnce
  <2>3. x \in Scratch /\ g[i] \in Scratch /\ IsEmitted(st, x) /\ g[i] = EmitEdge(x, u, e)
    BY <1>1, <2>1, Zenon DEF IsEmitRun
  <2>4. Known(x.dedup, u)
    BY <2>3 DEF IsEmitted, Grown
  <2>5. Aligned(x.pass) /\ Start(x.pass) = Start(st.pass)
    BY <1>3
  <2> HIDE DEF e, x
  <2>6. Aligned(EmitEdge(x, u, e).pass) /\ Start(EmitEdge(x, u, e).pass) = Start(x.pass)
    BY <2>2, <2>3, <2>4, <2>5, EmissionAligned
  <2> QED
    BY <2>3, <2>5, <2>6
<1> HIDE DEF T, n
<1>4. g[n] \in T
  BY <1>2, <1>3, Along
<1> QED
  BY <1>1, <1>4 DEF IsEmitRun, n, T

-----------------------------------------------------------------------------
(* Draws without replacement.                                              *)

IsDraw(s, n, k) == s \in Seq(1 .. n) /\ Len(s) = k /\ IsInjective(s)

\* Another entry keeps the draw distinct.
LEMMA LongerDraw ==
  ASSUME NEW n \in Nat, NEW m \in Nat, m <= n, NEW k \in Nat, NEW s, IsDraw(s, m, k),
         NEW j \in 1 .. n, j \notin Range(s)
  PROVE  IsDraw(Append(s, j), n, k + 1)
<1> DEFINE t == Append(s, j)
<1>1. s \in Seq(1 .. n) /\ Len(s) = k /\ DOMAIN s = 1 .. k
  <2>1. s \in Seq(1 .. m) /\ Len(s) = k /\ 1 .. m \subseteq 1 .. n
    BY DEF IsDraw
  <2> QED
    BY <2>1
<1>2. t \in Seq(1 .. n) /\ Len(t) = k + 1 /\ DOMAIN t = 1 .. k + 1 /\ t[k + 1] = j
      /\ \A i \in 1 .. k : t[i] = s[i]
  BY <1>1
<1> HIDE DEF t
<1>3. ASSUME NEW a \in 1 .. k + 1, NEW b \in 1 .. k + 1, t[a] = t[b] PROVE a = b
  <2>1. \A i \in 1 .. k : s[i] # j
    BY <1>1, Zenon DEF Range
  <2>2. \A i, o \in 1 .. k : s[i] = s[o] => i = o
    BY <1>1, Zenon DEF IsDraw, IsInjective
  <2>3. (a = k + 1 \/ a \in 1 .. k) /\ (b = k + 1 \/ b \in 1 .. k)
    OBVIOUS
  <2> QED
    BY <1>2, <1>3, <2>1, <2>2, <2>3, Zenon
<1>4. IsDraw(t, n, k + 1)
  BY <1>2, <1>3 DEF IsDraw, IsInjective
<1> QED
  BY <1>4 DEF t

\* Floyd's draws are distinct.
LEMMA FloydDraws ==
  ASSUME NEW n \in Nat, NEW k \in Nat, k <= n, NEW p \in FloydPicks(n, k)
  PROVE  IsDraw(p, n, k)
<1> DEFINE P == 1 .. n
           T == SUBSET Seq(P)
           Drawn(S, top) == {Append(s, IF j \in Range(s) THEN top ELSE j) : s \in S, j \in 1 .. top}
           F == [x \in T \X (1 .. k) |-> Drawn(x[1], n - k + x[2])]
           base == {<<>>}
           Run(g) == [m \in 0 .. k |-> IF m = 0 THEN base ELSE Drawn(g[m - 1], n - k + m)]
           draw == CHOOSE g : g = Run(g)
<1>1. base \in T
  OBVIOUS
<1>2. ASSUME NEW t \in T, NEW m \in 1 .. k PROVE Drawn(t, n - k + m) \in T
  <2> DEFINE top == n - k + m
  <2>1. top \in 1 .. n /\ 1 .. top \subseteq P
    OBVIOUS
  <2> HIDE DEF top, P
  <2>2. ASSUME NEW s \in t, NEW j \in 1 .. top
        PROVE  Append(s, IF j \in Range(s) THEN top ELSE j) \in Seq(P)
    <3>1. s \in Seq(P) /\ (IF j \in Range(s) THEN top ELSE j) \in P
      BY <2>1 DEF P
    <3> QED
      BY <3>1, AppendProperties, Zenon
  <2>3. \A x \in Drawn(t, top) : x \in Seq(P)
    BY <2>2
  <2>4. Drawn(t, top) \in T
    BY <2>3
  <2> HIDE DEF Drawn, T
  <2> QED
    BY <2>4 DEF top
<1> HIDE DEF T, P, Drawn, base
<1>3. F \in [T \X (1 .. k) -> T]
  BY <1>2
<1>4. \A t \in T, m \in 1 .. k : F[<<t, m>>] = Drawn(t, n - k + m)
  OBVIOUS
<1> HIDE DEF F
<1>5. PICK g : IsRun(g, F, base, k, T)
  BY <1>1, <1>3, Repeated, Zenon
<1>6. \A m \in 1 .. k : g[m] = Drawn(g[m - 1], n - k + m)
  <2> TAKE m \in 1 .. k
  <2>1. m - 1 \in 0 .. k
    OBVIOUS
  <2>2. g[m - 1] \in T
    BY <1>5, <2>1 DEF IsRun
  <2> QED
    BY <1>4, <1>5, <2>2, Zenon DEF IsRun
<1>7. g = Run(g)
  BY <1>5, <1>6 DEF IsRun
<1>8. \A h : h = Run(h) => h[0] = base /\ \A m \in 1 .. k : h[m] = Drawn(h[m - 1], n - k + m)
  <2> TAKE h
  <2> HAVE h = Run(h)
  <2>1. 0 \in 0 .. k /\ \A m \in 1 .. k : m # 0 /\ m \in 0 .. k
    OBVIOUS
  <2> QED
    BY <2>1, Zenon
<1> HIDE DEF Run
<1>9. draw = Run(draw)
  BY <1>7, Zenon
<1>10. FloydPicks(n, k) = draw[k]
  BY DEF FloydPicks, draw, Run, base, Drawn
<1> HIDE DEF draw
<1>11. draw[0] = base /\ \A m \in 1 .. k : draw[m] = Drawn(draw[m - 1], n - k + m)
  BY <1>8, <1>9, Zenon
<1> DEFINE c == n - k
           Draws(m) == {s \in Seq(1 .. c + m) : IsDraw(s, c + m, m)}
           h == [m \in 0 .. k |-> <<draw[m], m>>]
           R == {x \in T \X (0 .. k) : \A s \in x[1] : IsDraw(s, c + x[2], x[2])}
<1>12. h[0] \in R
  <2>1. 0 \in 0 .. k /\ h[0] = <<base, 0>>
    BY <1>11
  <2>2. ASSUME NEW s \in base PROVE IsDraw(s, c + 0, 0)
    BY <2>2 DEF base, IsDraw, IsInjective
  <2> HIDE DEF h
  <2> QED
    BY <1>1, <2>1, <2>2
<1>13. ASSUME NEW m \in 1 .. k, h[m - 1] \in R PROVE h[m] \in R
  <2> DEFINE top == c + m
  <2>1. /\ m - 1 \in 0 .. k /\ m \in 0 .. k /\ m - 1 \in Nat /\ (m - 1) + 1 = m
        /\ h[m - 1] = <<draw[m - 1], m - 1>> /\ h[m] = <<draw[m], m>>
        /\ top \in Nat /\ top = n - k + m /\ c + (m - 1) \in Nat /\ c + (m - 1) <= top
        /\ top \notin 1 .. c + (m - 1) /\ top \in 1 .. top
    OBVIOUS
  <2>2. draw[m - 1] \in T /\ \A s \in draw[m - 1] : IsDraw(s, c + (m - 1), m - 1)
    BY <1>13, <2>1
  <2>3. draw[m] = Drawn(draw[m - 1], top)
    BY <1>11, <2>1
  <2> HIDE DEF h, R, top
  <2>4. ASSUME NEW s \in draw[m - 1], NEW j \in 1 .. top
        PROVE  IsDraw(Append(s, IF j \in Range(s) THEN top ELSE j), top, m)
    <3> DEFINE v == IF j \in Range(s) THEN top ELSE j
    <3>1. IsDraw(s, c + (m - 1), m - 1)
      BY <2>2
    <3>2. top \notin Range(s)
      <4>1. s \in Seq(1 .. c + (m - 1))
        BY <3>1 DEF IsDraw
      <4> DEFINE V == 1 .. c + (m - 1)
      <4> HIDE DEF V
      <4>2. \A i \in DOMAIN s : s[i] \in V
        BY <4>1 DEF V
      <4> QED
        BY <2>1, <4>2 DEF Range, V
    <3>3. v \in 1 .. top /\ v \notin Range(s)
      BY <2>1, <3>2
    <3> HIDE DEF v
    <3> DEFINE m1 == m - 1
               c1 == c + (m - 1)
    <3>4. m1 \in Nat /\ c1 \in Nat /\ c1 <= top /\ m1 + 1 = m /\ IsDraw(s, c1, m1) /\ top \in Nat
      BY <2>1, <3>1
    <3> HIDE DEF m1, c1
    <3>5. IsDraw(Append(s, v), top, m1 + 1)
      BY <3>3, <3>4, LongerDraw
    <3> QED
      BY <3>4, <3>5 DEF v
  <2>5. ASSUME NEW x \in Drawn(draw[m - 1], top) PROVE IsDraw(x, top, m)
    <3>1. PICK s \in draw[m - 1], j \in 1 .. top : x = Append(s, IF j \in Range(s) THEN top ELSE j)
      <4> DEFINE S == draw[m - 1]
      <4> HIDE DEF S
      <4>1. \E s \in S, j \in 1 .. top : x = Append(s, IF j \in Range(s) THEN top ELSE j)
        BY SMT DEF Drawn, S
      <4> QED
        BY <4>1 DEF S
    <3> QED
      BY <2>4, <3>1, Zenon
  <2>6. draw[m] \in T
    BY <1>2, <2>1, <2>2, <2>3
  <2> QED
    BY <2>1, <2>3, <2>5, <2>6 DEF R, top
<1>14. k \in 0 .. k /\ h[k] = <<draw[k], k>> /\ c + k = n
  OBVIOUS
<1> HIDE DEF h, R, c
<1>15. h[k] \in R
  BY <1>12, <1>13, Along
<1>16. \A s \in draw[k] : IsDraw(s, n, k)
  BY <1>14, <1>15 DEF R
<1> QED
  BY <1>10, <1>16

Through(el, s) == [i \in 1 .. Len(s) |-> el[s[i]]]
LEMMA DrawThrough ==
  ASSUME NEW n \in Nat, NEW el, IsDraw(el, n, Len(el)), NEW k \in Nat, NEW s, IsDraw(s, Len(el), k)
  PROVE  IsDraw(Through(el, s), n, k)
<1> DEFINE t == Through(el, s)
           c == Len(el)
<1>1. /\ el \in Seq(1 .. n) /\ c \in Nat /\ DOMAIN el = 1 .. c
      /\ \A i, j \in 1 .. c : el[i] = el[j] => i = j
      /\ \A i \in 1 .. c : el[i] \in 1 .. n
  BY DEF IsDraw, IsInjective
<1>2. /\ s \in Seq(1 .. c) /\ Len(s) = k /\ DOMAIN s = 1 .. k
      /\ \A i, j \in 1 .. k : s[i] = s[j] => i = j
      /\ \A i \in 1 .. k : s[i] \in 1 .. c
  <2>1. s \in Seq(1 .. c) /\ Len(s) = k /\ IsInjective(s)
    BY DEF IsDraw
  <2> DEFINE V == 1 .. c
  <2> HIDE DEF V
  <2>2. DOMAIN s = 1 .. k /\ \A i \in 1 .. k : s[i] \in V
    <3>1. s \in Seq(V)
      BY <2>1 DEF V
    <3> QED
      BY <2>1, <3>1
  <2>3. DOMAIN s = 1 .. k /\ \A i \in 1 .. k : s[i] \in 1 .. c
    BY <2>2 DEF V
  <2> QED
    BY <2>1, <2>3, Zenon DEF IsInjective
<1>3. t = [i \in 1 .. k |-> el[s[i]]]
  BY <1>2 DEF Through
<1> HIDE DEF t, c
<1>4. t \in [1 .. k -> 1 .. n]
  BY <1>1, <1>2, <1>3, Zenon
<1>5. t \in Seq(1 .. n) /\ Len(t) = k
  BY <1>4, TupleIsSequence
<1>6. IsInjective(t)
  BY <1>1, <1>2, <1>3 DEF IsInjective
<1> QED
  BY <1>5, <1>6 DEF IsDraw, t

\* Some of the positions, in any order.
LEMMA ArrangedDraws ==
  ASSUME NEW n \in Nat, NEW S \in SUBSET (1 .. n), NEW p \in Arrangements(S)
  PROVE  Cardinality(S) \in Nat /\ IsDraw(p, n, Cardinality(S))
<1> DEFINE c == Cardinality(S)
<1>1. IsFiniteSet(S) /\ c \in Nat
  <2>1. IsFiniteSet(1 .. n)
    BY FS_Interval
  <2>2. IsFiniteSet(S)
    BY <2>1, FS_Subset, Zenon
  <2> QED
    BY <2>2, FS_CardinalityType
<1>2. p \in [1 .. c -> S] /\ Range(p) = S
  BY DEF Arrangements
<1>3. IsFiniteSet(1 .. c) /\ Cardinality(1 .. c) = c
  BY <1>1, FS_Interval
<1> HIDE DEF c
<1>4. p \in Surjection(1 .. c, S)
  BY <1>2 DEF Surjection, Range
<1>5. p \in Injection(1 .. c, S)
  BY <1>3, <1>4, FS_SurjSameCardinalityImpliesInj DEF c
<1>6. IsInjective(p)
  BY <1>5 DEF Injection
<1>7. p \in [1 .. c -> 1 .. n]
  BY <1>2, Zenon
<1>8. p \in Seq(1 .. n) /\ Len(p) = c
  BY <1>1, <1>7, TupleIsSequence
<1> QED
  BY <1>1, <1>6, <1>8 DEF IsDraw, c

\* Taking the whole row is a draw.
LEMMA WholeDraw ==
  ASSUME NEW n \in Nat, NEW p, p = [i \in 1 .. n |-> i]
  PROVE  IsDraw(p, n, n)
<1>1. p \in [1 .. n -> 1 .. n]
  OBVIOUS
<1>2. p \in Seq(1 .. n) /\ Len(p) = n
  BY <1>1, TupleIsSequence
<1> QED
  BY <1>2 DEF IsDraw, IsInjective

\* A hub longer than max_degree keeps that many positions, another node all.
HubKeeps(row, capped) == IF capped /\ scfg.cap > 0 /\ Len(row) > scfg.cap THEN scfg.cap ELSE Len(row)
LEMMA EligibleDraws ==
  ASSUME scfg \in Configs, NEW row \in Seq(Nat), NEW capped, NEW p \in Eligible(row, capped)
  PROVE  IsDraw(p, Len(row), HubKeeps(row, capped))
<1> DEFINE n == Len(row)
           c == scfg.cap
<1>1. n \in Nat /\ c \in Nat
  BY SamplerAssumption DEF ConfigOK
<1>2. CASE capped /\ c > 0 /\ n > c
  <2>1. p \in HubPicks(n, c) /\ HubKeeps(row, capped) = c
    BY <1>2 DEF Eligible, HubKeeps
  <2> HIDE DEF n, c
  <2>2. p \in [1 .. c -> 1 .. n] /\ \A i, j \in 1 .. c : i < j => p[i] < p[j]
    BY <2>1 DEF HubPicks
  <2>3. p \in Seq(1 .. n) /\ Len(p) = c /\ DOMAIN p = 1 .. c
    BY <1>1, <2>2, TupleIsSequence
  <2>4. ASSUME NEW i \in 1 .. c, NEW j \in 1 .. c, p[i] = p[j] PROVE i = j
    <3>1. i < j \/ i = j \/ j < i
      OBVIOUS
    <3>2. p[i] \in Nat /\ p[j] \in Nat
      BY <2>2
    <3>3. ~(p[i] < p[j]) /\ ~(p[j] < p[i])
      BY <2>4, <3>2
    <3> QED
      BY <2>2, <3>1, <3>3
  <2>5. IsInjective(p)
    BY <2>3, <2>4 DEF IsInjective
  <2>6. IsDraw(p, n, c)
    BY <2>3, <2>5 DEF IsDraw
  <2> QED
    BY <2>1, <2>6 DEF n
<1>3. CASE ~(capped /\ c > 0 /\ n > c)
  <2>1. p = [i \in 1 .. n |-> i] /\ HubKeeps(row, capped) = n
    BY <1>3 DEF Eligible, HubKeeps
  <2> HIDE DEF n, c
  <2>2. IsDraw(p, n, n)
    BY <1>1, <2>1, WholeDraw
  <2> QED
    BY <2>1, <2>2 DEF n
<1> QED
  BY <1>2, <1>3

AtMost(k, n) == IF k >= n THEN n ELSE k
LEMMA WeightedDraws ==
  ASSUME NEW w, NEW k \in Nat, Len(w) \in Nat, NEW p \in WeightedNoReplace(w, k)
  PROVE  IsDraw(p, Len(w), AtMost(k, Len(w)))
<1> DEFINE n == Len(w)
           positive == {i \in 1 .. n : w[i] > 0}
<1>1. CASE k >= n
  <2>1. p = [i \in 1 .. n |-> i]
    BY <1>1 DEF WeightedNoReplace
  <2>2. n \in Nat
    OBVIOUS
  <2> HIDE DEF n
  <2>3. IsDraw(p, n, n)
    BY <2>1, <2>2, WholeDraw
  <2> QED
    BY <1>1, <2>3 DEF AtMost, n
<1>2. CASE ~(k >= n)
  <2>1. p \in UNION {Arrangements(S) : S \in {T \in SUBSET (1 .. n) :
                       Cardinality(T) = k /\ (T \subseteq positive \/ positive \subseteq T)}}
    BY <1>2 DEF WeightedNoReplace, positive
  <2> HIDE DEF positive
  <2>2. n \in Nat
    OBVIOUS
  <2> HIDE DEF n
  <2>3. PICK S \in SUBSET (1 .. n) : Cardinality(S) = k /\ p \in Arrangements(S)
    BY <2>1
  <2>4. IsDraw(p, n, k)
    BY <2>2, <2>3, ArrangedDraws
  <2> QED
    BY <1>2, <2>4 DEF AtMost, n
<1> QED
  BY <1>1, <1>2

\* How many edges a node draws without replacement and without times.
LEMMA NormalDraws ==
  ASSUME scfg \in Configs, ~scfg.replace, NEW row \in Seq(Nat), NEW k \in Nat, NEW p \in NormalPicks(row, k)
  PROVE  IsDraw(p, Len(row), AtMost(k, HubKeeps(row, scfg.weighted)))
<1> DEFINE n == Len(row)
           w == [i \in 1 .. n |-> Weight[row[i]]]
           Some(el) == [i \in 1 .. Len(el) |-> w[el[i]]]
           Draws(el) == IF scfg.replace THEN WeightedReplace(Some(el), k)
                                        ELSE WeightedNoReplace(Some(el), k)
<1>1. n \in Nat
  OBVIOUS
<1>2. CASE scfg.weighted
  <2>1. p \in UNION {{Through(el, s) : s \in Draws(el)} : el \in Eligible(row, TRUE)}
    BY <1>2, Zenon DEF NormalPicks, Through
  <2> HIDE DEF Draws
  <2>2. PICK el \in Eligible(row, TRUE) : p \in {Through(el, s) : s \in Draws(el)}
    BY <2>1, Zenon
  <2>3. PICK s \in Draws(el) : p = Through(el, s)
    BY <2>2
  <2> HIDE DEF n
  <2>4. IsDraw(el, n, HubKeeps(row, scfg.weighted))
    <3>1. IsDraw(el, n, HubKeeps(row, TRUE))
      BY EligibleDraws, Zenon DEF n
    <3> QED
      BY <1>2, <3>1 DEF HubKeeps
  <2>5. Len(el) = HubKeeps(row, scfg.weighted) /\ Len(el) \in Nat /\ Len(Some(el)) = Len(el)
    BY <2>4 DEF IsDraw
  <2> HIDE DEF Some
  <2>6. IsDraw(s, Len(el), AtMost(k, Len(el)))
    <3>1. s \in WeightedNoReplace(Some(el), k)
      BY <2>3 DEF Draws
    <3>2. IsDraw(s, Len(Some(el)), AtMost(k, Len(Some(el))))
      BY <2>5, <3>1, WeightedDraws
    <3> QED
      BY <2>5, <3>2
  <2>7. AtMost(k, Len(el)) \in Nat
    BY <2>5 DEF AtMost
  <2>8. IsDraw(Through(el, s), n, AtMost(k, Len(el)))
    BY <1>1, <2>4, <2>5, <2>6, <2>7, DrawThrough
  <2> QED
    BY <2>3, <2>5, <2>8 DEF n
<1>3. CASE ~scfg.weighted
  <2>1. HubKeeps(row, scfg.weighted) = n
    BY <1>3 DEF HubKeeps
  <2>2. \/ k >= n /\ p = [i \in 1 .. n |-> i]
        \/ ~(k >= n) /\ p \in FloydPicks(n, k)
    BY <1>3 DEF NormalPicks
  <2> HIDE DEF n
  <2>3. CASE k >= n /\ p = [i \in 1 .. n |-> i]
    <3>1. IsDraw(p, n, n)
      BY <1>1, <2>3, WholeDraw
    <3> QED
      BY <2>1, <2>3, <3>1 DEF AtMost, n
  <2>4. CASE ~(k >= n) /\ p \in FloydPicks(n, k)
    <3>1. k <= n
      BY <1>1, <2>4
    <3>2. IsDraw(p, n, k)
      BY <1>1, <2>4, <3>1, FloydDraws
    <3> QED
      BY <2>1, <2>4, <3>2 DEF AtMost, n
  <2> QED
    BY <2>2, <2>3, <2>4
<1> QED
  BY <1>2, <1>3

\* Which entries of a sequence are kept.
IsKeptRun(f, s, S) ==
  /\ f[0] = <<>> /\ f[Len(s)] = Kept(s, S)
  /\ \A i \in 1 .. Len(s) : f[i] = IF s[i] \in S THEN Append(f[i - 1], s[i]) ELSE f[i - 1]
LEMMA KeptRuns ==
  ASSUME NEW V, NEW s \in Seq(V), NEW S
  PROVE  \E f : IsKeptRun(f, s, S)
<1> DEFINE n == Len(s)
           T == Seq(V)
           F == [x \in T \X (1 .. n) |-> IF s[x[2]] \in S THEN Append(x[1], s[x[2]]) ELSE x[1]]
           Run(g) == [i \in 0 .. n |-> IF i = 0 THEN <<>>
                                       ELSE IF s[i] \in S THEN Append(g[i - 1], s[i]) ELSE g[i - 1]]
           some == CHOOSE g : g = Run(g)
<1>1. n \in Nat /\ <<>> \in T /\ \A i \in 1 .. n : s[i] \in V
  OBVIOUS
<1>2. \A t \in T, i \in 1 .. n : (IF s[i] \in S THEN Append(t, s[i]) ELSE t) \in T
  BY <1>1
<1> HIDE DEF T
<1>3. F \in [T \X (1 .. n) -> T]
  BY <1>2
<1>4. \A t \in T, i \in 1 .. n : F[<<t, i>>] = IF s[i] \in S THEN Append(t, s[i]) ELSE t
  OBVIOUS
<1> HIDE DEF F, n
<1>5. PICK g : IsRun(g, F, <<>>, n, T)
  BY <1>1, <1>3, Repeated, Zenon
<1>6. \A i \in 1 .. n : g[i] = IF s[i] \in S THEN Append(g[i - 1], s[i]) ELSE g[i - 1]
  <2> TAKE i \in 1 .. n
  <2>1. i - 1 \in 0 .. n
    BY <1>1
  <2>2. g[i - 1] \in T
    BY <1>5, <2>1 DEF IsRun
  <2> QED
    BY <1>4, <1>5, <2>2, Zenon DEF IsRun
<1>7. g = Run(g)
  <2>1. \A i \in 0 .. n : i # 0 => i \in 1 .. n
    BY <1>1
  <2>2. g = [i \in 0 .. n |-> g[i]] /\ g[0] = <<>>
    BY <1>5 DEF IsRun
  <2>3. \A i \in 0 .. n : g[i] = IF i = 0 THEN <<>> ELSE IF s[i] \in S THEN Append(g[i - 1], s[i]) ELSE g[i - 1]
    BY <1>6, <2>1, <2>2, Zenon
  <2> QED
    BY <2>2, <2>3, Zenon
<1>8. \A h : h = Run(h) => /\ h[0] = <<>>
                            /\ \A i \in 1 .. n : h[i] = IF s[i] \in S THEN Append(h[i - 1], s[i]) ELSE h[i - 1]
  <2> TAKE h
  <2> HAVE h = Run(h)
  <2>1. 0 \in 0 .. n /\ \A i \in 1 .. n : i # 0 /\ i \in 0 .. n
    BY <1>1
  <2> QED
    BY <2>1, Zenon
<1> HIDE DEF Run
<1>9. some = Run(some)
  BY <1>7, Zenon
<1>10. Kept(s, S) = some[n]
  BY DEF Kept, some, Run, n
<1> HIDE DEF some
<1>11. some[0] = <<>> /\ \A i \in 1 .. n : some[i] = IF s[i] \in S THEN Append(some[i - 1], s[i]) ELSE some[i - 1]
  BY <1>9, <1>8, Zenon
<1>12. IsKeptRun(some, s, S)
  BY <1>10, <1>11 DEF IsKeptRun, n
<1> QED
  BY <1>12

\* r is the entries of s[1..n] that are in S, once each: m says where.
IsPart(r, s, S, m, n) ==
  /\ m \in [1 .. Len(r) -> 1 .. n]
  /\ \A k, o \in 1 .. Len(r) : m[k] = m[o] => k = o
  /\ \A k \in 1 .. Len(r) : r[k] = s[m[k]]
  /\ \A i \in 1 .. n : s[i] \in S <=> \E k \in 1 .. Len(r) : m[k] = i
HasPart(r, s, S, n) == \E m : IsPart(r, s, S, m, n)
LEMMA LongerPart ==
  ASSUME NEW V, NEW r \in Seq(V), NEW s, NEW S, NEW m, NEW n \in Nat, IsPart(r, s, S, m, n),
         s[n + 1] \in V
  PROVE  \/ s[n + 1] \in S /\ \E m2 : IsPart(Append(r, s[n + 1]), s, S, m2, n + 1)
         \/ s[n + 1] \notin S /\ IsPart(r, s, S, m, n + 1)
<1> DEFINE c == Len(r)
           q == n + 1
           r2 == Append(r, s[q])
           m2 == [k \in 1 .. c + 1 |-> IF k = c + 1 THEN q ELSE m[k]]
<1>1. c \in Nat /\ q \in Nat /\ q \in 1 .. q /\ q \notin 1 .. n /\ \A i \in 1 .. q : i = q \/ i \in 1 .. n
  OBVIOUS
<1>2. 1 .. n \subseteq 1 .. q
  OBVIOUS
<1>3. /\ m \in [1 .. c -> 1 .. n]
      /\ \A k, o \in 1 .. c : m[k] = m[o] => k = o
      /\ \A k \in 1 .. c : r[k] = s[m[k]]
      /\ \A i \in 1 .. n : s[i] \in S <=> \E k \in 1 .. c : m[k] = i
  BY DEF IsPart
<1>4. Len(r2) = c + 1 /\ r2[c + 1] = s[q] /\ \A k \in 1 .. c : r2[k] = r[k]
  OBVIOUS
<1>5. \A k \in 1 .. c + 1 : k = c + 1 \/ k \in 1 .. c
  OBVIOUS
<1>6. m2 \in [1 .. c + 1 -> 1 .. q] /\ m2[c + 1] = q /\ \A k \in 1 .. c : m2[k] = m[k] /\ m[k] \in 1 .. n
  <2>1. \A k \in 1 .. c : k # c + 1 /\ k \in 1 .. c + 1
    OBVIOUS
  <2>2. c + 1 \in 1 .. c + 1
    OBVIOUS
  <2> HIDE DEF c, q
  <2> QED
    BY <1>1, <1>2, <1>3, <1>5, <2>1, <2>2
<1> HIDE DEF c, q, r2, m2
<1>7. CASE s[q] \in S
  <2>1. \A k, o \in 1 .. c + 1 : m2[k] = m2[o] => k = o
    BY <1>1, <1>3, <1>5, <1>6, Zenon
  <2>2. \A k \in 1 .. c + 1 : r2[k] = s[m2[k]]
    BY <1>3, <1>4, <1>5, <1>6, Zenon
  <2>3. ASSUME NEW i \in 1 .. q PROVE s[i] \in S <=> \E k \in 1 .. c + 1 : m2[k] = i
    <3>1. \A k \in 1 .. c : k \in 1 .. c + 1
      BY <1>1
    <3>2. c + 1 \in 1 .. c + 1
      BY <1>1
    <3> QED
      BY <1>1, <1>3, <1>5, <1>6, <1>7, <3>1, <3>2, Zenon
  <2>4. IsPart(r2, s, S, m2, q)
    BY <1>4, <1>6, <2>1, <2>2, <2>3 DEF IsPart
  <2> QED
    BY <1>7, <2>4 DEF r2, q
<1>8. CASE s[q] \notin S
  <2>1. m \in [1 .. c -> 1 .. q]
    BY <1>2, <1>3
  <2>2. \A i \in 1 .. q : s[i] \in S <=> \E k \in 1 .. c : m[k] = i
    <3> TAKE i \in 1 .. q
    <3>1. CASE i = q
      BY <1>1, <1>6, <1>8, <3>1
    <3>2. CASE i \in 1 .. n
      BY <1>3, <3>2
    <3> QED
      BY <1>1, <3>1, <3>2
  <2>3. IsPart(r, s, S, m, q)
    BY <1>3, <2>1, <2>2 DEF IsPart, c
  <2> QED
    BY <1>8, <2>3 DEF q
<1> QED
  BY <1>7, <1>8

\* What a filter keeps is a part of the sequence, in order.
LEMMA KeptPart ==
  ASSUME NEW V, NEW s \in Seq(V), NEW S
  PROVE  Kept(s, S) \in Seq(V) /\ \E m : IsPart(Kept(s, S), s, S, m, Len(s))
<1> DEFINE n == Len(s)
           T == {y \in Seq(V) \X (0 .. n) : HasPart(y[1], s, S, y[2])}
<1>1. PICK f : IsKeptRun(f, s, S)
  BY KeptRuns, Zenon
<1> DEFINE h == [i \in 0 .. n |-> <<f[i], i>>]
<1>2. n \in Nat /\ \A i \in 1 .. n : s[i] \in V
  OBVIOUS
<1>3. h[0] \in T
  <2> DEFINE z == f[0]
             I == 0 .. n
             o == 0
  <2>1. h[o] = <<z, o>> /\ o \in I /\ z = <<>>
    BY <1>1, <1>2 DEF IsKeptRun
  <2> HIDE DEF h, z, n
  <2>2. z \in Seq(V) /\ Len(z) = 0
    BY <2>1
  <2>3. IsPart(z, s, S, [k \in 1 .. 0 |-> k], 0)
    BY <2>2 DEF IsPart
  <2>4. HasPart(z, s, S, o)
    BY <2>3 DEF HasPart
  <2> HIDE DEF I, o
  <2>5. h[o] \in T
    <3> DEFINE W == Seq(V)
               pr == <<z, o>>
    <3>1. pr \in W \X I /\ pr[1] = z /\ pr[2] = o
      BY <2>1, <2>2, Zenon
    <3>2. T = {y \in W \X I : HasPart(y[1], s, S, y[2])}
      BY DEF I
    <3> HIDE DEF T, W, pr
    <3>3. pr \in T
      BY <3>1, <3>2, <2>4
    <3> QED
      BY <3>3, <2>1 DEF pr
  <2> QED
    BY <2>5 DEF o
<1>4. ASSUME NEW i \in 1 .. n, h[i - 1] \in T PROVE h[i] \in T
  <2>1. /\ i - 1 \in 0 .. n /\ i \in 0 .. n /\ i - 1 \in Nat /\ (i - 1) + 1 = i
        /\ h[i - 1] = <<f[i - 1], i - 1>> /\ h[i] = <<f[i], i>>
    BY <1>2
  <2> DEFINE r == f[i - 1]
             o == i - 1
  <2>2. r \in Seq(V) /\ HasPart(r, s, S, o)
    BY <1>4, <2>1
  <2>3. f[i] = IF s[i] \in S THEN Append(r, s[i]) ELSE r
    BY <1>1 DEF IsKeptRun
  <2>4. o \in Nat /\ o + 1 = i /\ s[i] \in V
    BY <1>2, <2>1
  <2> HIDE DEF h, r, o
  <2>5. PICK m : IsPart(r, s, S, m, o)
    BY <2>2 DEF HasPart
  <2>6. \/ s[i] \in S /\ \E m2 : IsPart(Append(r, s[i]), s, S, m2, i)
        \/ s[i] \notin S /\ IsPart(r, s, S, m, i)
    <3>1. s[o + 1] \in V
      BY <2>4
    <3>2. \/ s[o + 1] \in S /\ \E m2 : IsPart(Append(r, s[o + 1]), s, S, m2, o + 1)
          \/ s[o + 1] \notin S /\ IsPart(r, s, S, m, o + 1)
      BY <2>2, <2>4, <2>5, <3>1, LongerPart
    <3> QED
      BY <2>4, <3>2
  <2>7. f[i] \in Seq(V) /\ HasPart(f[i], s, S, i)
    BY <2>2, <2>3, <2>4, <2>6 DEF HasPart
  <2> QED
    BY <2>1, <2>7
<1>5. n \in 0 .. n /\ h[n] = <<f[n], n>>
  BY <1>2
<1> HIDE DEF h, T, n
<1>6. h[n] \in T
  BY <1>2, <1>3, <1>4, Along
<1>7. f[n] \in Seq(V) /\ HasPart(f[n], s, S, n)
  BY <1>5, <1>6 DEF T
<1> QED
  BY <1>1, <1>7 DEF IsKeptRun, HasPart, n

\* What is kept of distinct entries is distinct.
LEMMA KeptOnce ==
  ASSUME NEW V, NEW s \in Seq(V), IsInjective(s), NEW S
  PROVE  Kept(s, S) \in Seq(V) /\ IsInjective(Kept(s, S))
<1> DEFINE r == Kept(s, S)
<1>1. r \in Seq(V) /\ \E m : IsPart(r, s, S, m, Len(s))
  BY KeptPart
<1> HIDE DEF r
<1>2. PICK m : IsPart(r, s, S, m, Len(s))
  BY <1>1
<1>3. DOMAIN r = 1 .. Len(r) /\ DOMAIN s = 1 .. Len(s)
  BY <1>1
<1>4. ASSUME NEW k \in DOMAIN r, NEW o \in DOMAIN r, r[k] = r[o] PROVE k = o
  <2>1. r[k] = s[m[k]] /\ r[o] = s[m[o]] /\ m[k] \in DOMAIN s /\ m[o] \in DOMAIN s
    BY <1>2, <1>3 DEF IsPart
  <2>2. m[k] = m[o]
    BY <1>4, <2>1, Zenon DEF IsInjective
  <2> QED
    BY <1>2, <1>3, <2>2 DEF IsPart
<1>5. IsInjective(r)
  BY <1>4 DEF IsInjective
<1> QED
  BY <1>1, <1>5 DEF r

\* The draws among the older edges are distinct.
LEMMA OlderDraws ==
  ASSUME NEW n \in Nat, NEW row, NEW older, IsDraw(older, n, Len(older)), NEW k \in Nat,
         NEW p \in OlderPicks(row, older, k)
  PROVE  IsDraw(p, n, AtMost(k, Len(older)))
<1> DEFINE c == Len(older)
<1>1. c \in Nat
  BY DEF IsDraw
<1>2. CASE k >= c
  <2>1. p = older
    BY <1>2 DEF OlderPicks
  <2> QED
    BY <1>2, <2>1 DEF AtMost
<1>3. CASE ~(k >= c) /\ scfg.strategy = "uniform"
  <2>1. PICK s \in FloydPicks(c, k) : p = Through(older, s)
    BY <1>3 DEF OlderPicks, Through
  <2>2. k <= c
    BY <1>1, <1>3
  <2> HIDE DEF c
  <2>3. IsDraw(s, c, k)
    BY <1>1, <2>2, FloydDraws
  <2>4. IsDraw(p, n, k)
    BY <2>1, <2>3, DrawThrough DEF c
  <2> QED
    BY <1>3, <2>4 DEF AtMost, c
<1>4. CASE ~(k >= c) /\ scfg.strategy # "uniform"
  <2>1. PICK S \in LatestOf(row, older, k) : p \in Arrangements(S)
    BY <1>4 DEF OlderPicks
  <2>2. S \subseteq Range(older) /\ Cardinality(S) = k
    BY <2>1 DEF LatestOf
  <2>3. Range(older) \subseteq 1 .. n
    <3>1. \A i \in DOMAIN older : older[i] \in 1 .. n
      BY DEF IsDraw
    <3> QED
      BY <3>1 DEF Range
  <2>4. S \in SUBSET (1 .. n)
    BY <2>2, <2>3
  <2>5. IsDraw(p, n, k)
    BY <2>1, <2>2, <2>4, ArrangedDraws
  <2> QED
    BY <1>4, <2>5 DEF AtMost
<1> QED
  BY <1>2, <1>3, <1>4

\* What a temporal draw takes of a row: distinct edges, older than the bound.
IsEarly(p, row, bound) ==
  /\ p \in Seq(1 .. Len(row)) /\ IsInjective(p)
  /\ \A i \in DOMAIN p : Timestamp[row[p[i]]] < bound
LEMMA TemporalDraws ==
  ASSUME scfg \in Configs, NEW row \in Seq(Nat), NEW bound, NEW k \in Nat,
         NEW p \in TemporalPicks(row, bound, k)
  PROVE  IsEarly(p, row, bound)
<1> DEFINE Early == {i \in DOMAIN row : Timestamp[row[i]] < bound}
           n == Len(row)
           V == 1 .. n
<1>1. p \in UNION {OlderPicks(row, Kept(el, Early), k) : el \in Eligible(row, scfg.strategy = "uniform")}
  BY Zenon DEF TemporalPicks
<1> HIDE DEF Early
<1>2. PICK el \in Eligible(row, scfg.strategy = "uniform") : p \in OlderPicks(row, Kept(el, Early), k)
  BY <1>1
<1>3. n \in Nat /\ el \in Seq(1 .. n) /\ IsInjective(el)
  BY EligibleDraws DEF IsDraw
<1> HIDE DEF V, n
<1> DEFINE older == Kept(el, Early)
           K == {x \in V : x \in Early /\ x \in Range(el)}
<1>4. older \in Seq(V) /\ IsInjective(older)
  BY <1>3, KeptOnce DEF V
<1>5. older \in Seq(K)
  BY <1>3, KeptEntries DEF V
<1> HIDE DEF K, older
<1>6. IsDraw(older, n, Len(older))
  BY <1>4 DEF IsDraw, V
<1>7. p \in OlderPicks(row, older, k)
  BY <1>2 DEF older
<1>8. p \in Seq(V) /\ IsInjective(p)
  BY <1>3, <1>6, <1>7, OlderDraws DEF IsDraw, V
<1>9. p \in Seq(K)
  BY <1>5, <1>7, OlderPositions
<1>10. \A i \in DOMAIN p : p[i] \in K
  BY <1>9
<1>11. \A i \in DOMAIN p : Timestamp[row[p[i]]] < bound
  BY <1>10 DEF K, Early
<1> QED
  BY <1>8, <1>11 DEF IsEarly, V, n

\* Without replacement, a node draws no edge twice.
LEMMA PicksOnce ==
  ASSUME scfg \in Configs, hop \in 1 .. Hops, ~scfg.replace, NEW u \in SampleNodes, NEW p \in Picks(u)
  PROVE  IsInjective(p)
<1> DEFINE row == RowOf(u)
           most == scfg.fanout[hop]
           bound == pass.times[Local(dedup, u)]
<1>1. most \in Nat
  BY SamplerAssumption DEF ConfigOK, Hops
<1>2. row \in Seq(Nat)
  BY RowIsSeq
<1>3. \/ p = <<>>
      \/ p \in TemporalPicks(row, bound, most)
      \/ p \in NormalPicks(row, most)
  BY DEF Picks
<1> HIDE DEF row, most, bound
<1>4. CASE p = <<>>
  BY <1>4 DEF IsInjective
<1>5. CASE p \in TemporalPicks(row, bound, most)
  BY <1>1, <1>2, <1>5, TemporalDraws DEF IsEarly
<1>6. CASE p \in NormalPicks(row, most)
  BY <1>1, <1>2, <1>6, NormalDraws DEF IsDraw
<1> QED
  BY <1>3, <1>4, <1>5, <1>6

\* A temporal pass draws edges older than its bound for the node.
LEMMA PicksEarly ==
  ASSUME scfg \in Configs, hop \in 1 .. Hops, Temporal, NEW u \in SampleNodes, NEW p \in Picks(u)
  PROVE  \A i \in DOMAIN p : Timestamp[RowOf(u)[p[i]]] < pass.times[Local(dedup, u)]
<1> DEFINE row == RowOf(u)
           most == scfg.fanout[hop]
           bound == pass.times[Local(dedup, u)]
<1>1. most \in Nat
  BY SamplerAssumption DEF ConfigOK, Hops
<1>2. row \in Seq(Nat)
  BY RowIsSeq
<1>3. p = <<>> \/ p \in TemporalPicks(row, bound, most)
  BY DEF Picks
<1> HIDE DEF row, most, bound
<1>4. CASE p = <<>>
  BY <1>4
<1>5. CASE p \in TemporalPicks(row, bound, most)
  BY <1>1, <1>2, <1>5, TemporalDraws, Zenon DEF IsEarly, row, bound
<1> QED
  BY <1>3, <1>4, <1>5

-----------------------------------------------------------------------------
(* No edge from the future.                                                *)

\* The order in which a pass reaches its nodes: R has the local indices and
\* the times of its seeds.
HasSeed(R, k) == \E r \in R : r[1] = k
Enters(es, j, k) == es[j].dl = k /\ es[j].sl # k
InOrderAt(es, R, i) ==
  /\ HasSeed(R, es[i].sl) \/ \E j \in 1 .. i - 1 : Enters(es, j, es[i].sl)
  /\ \A j \in 1 .. i - 1 : Enters(es, j, es[i].sl) =>
       Timestamp[es[i].eid] < Timestamp[es[j].eid]
  /\ \A r \in R : r[1] = es[i].sl => Timestamp[es[i].eid] < r[2]
InOrder(es, R) == \A i \in DOMAIN es : InOrderAt(es, R, i)
Bounded(n, times, es, R) ==
  /\ \A k \in 1 .. n : times[k] \in Int
  /\ \A r \in R : r[1] \in 1 .. n /\ r[2] \in Int /\ times[r[1]] <= r[2]
  /\ \A i \in DOMAIN es : /\ Timestamp[es[i].eid] \in Int
                             /\ es[i].dl \in 1 .. n
                             /\ times[es[i].dl] <= Timestamp[es[i].eid]
Reached(n, es, R) == \A k \in 1 .. n : HasSeed(R, k) \/ \E j \in DOMAIN es : Enters(es, j, k)
Causal(n, times, es, R) ==
  Bounded(n, times, es, R) /\ Reached(n, es, R) /\ InOrder(es, R)

\* The node at index l is being expanded, with this bound.
Before(es, R, l, bound) ==
  /\ bound \in Int
  /\ \A j \in DOMAIN es : Enters(es, j, l) => bound <= Timestamp[es[j].eid]
  /\ \A r \in R : r[1] = l => bound <= r[2]

\* Another edge out of the node keeps this.
LEMMA CausalEdge ==
  ASSUME NEW n \in Nat, NEW times, NEW es \in Seq(EdgeRec), NEW R, NEW l \in 1 .. n, NEW bound,
         Causal(n, times, es, R), Before(es, R, l, bound),
         NEW e \in EdgeRec, e.sl = l, Timestamp[e.eid] \in Int, Timestamp[e.eid] < bound,
         NEW n2 \in Nat, n <= n2, NEW times2, e.dl \in 1 .. n2, \A k \in 1 .. n2 : k \in 1 .. n \/ (k = e.dl /\ k # l),
         \A k \in 1 .. n2 : times2[k] \in Int, \A k \in 1 .. n : times2[k] <= times[k],
         times2[e.dl] <= Timestamp[e.eid]
  PROVE  Causal(n2, times2, Append(es, e), R) /\ Before(Append(es, e), R, l, bound)
<1> DEFINE more == Append(es, e)
           c == Len(es)
<1>1. /\ c \in Nat /\ DOMAIN es = 1 .. c /\ DOMAIN more = 1 .. c + 1 /\ more[c + 1] = e
      /\ \A i \in 1 .. c : more[i] = es[i] /\ i \in 1 .. c + 1
      /\ \A i \in 1 .. c + 1 : i = c + 1 \/ i \in 1 .. c
      /\ 1 .. (c + 1) - 1 = 1 .. c
      /\ \A i \in 1 .. c : \A j \in 1 .. i - 1 : j \in 1 .. c
  OBVIOUS
<1>2. \A k \in 1 .. n : k \in 1 .. n2
  OBVIOUS
<1> HIDE DEF more, c
<1>3. Bounded(n2, times2, more, R)
  <2>1. ASSUME NEW r \in R PROVE r[1] \in 1 .. n2 /\ r[2] \in Int /\ times2[r[1]] <= r[2]
    <3> DEFINE k == r[1]
               b == r[2]
    <3>1. k \in 1 .. n /\ b \in Int /\ times[k] <= b /\ times[k] \in Int
      BY Zenon DEF Causal, Bounded
    <3>2. times2[k] \in Int /\ times2[k] <= times[k] /\ k \in 1 .. n2
      BY <1>2, <3>1, Zenon
    <3> HIDE DEF k, b
    <3>3. times2[k] <= b
      BY <3>1, <3>2
    <3> QED
      BY <3>1, <3>2, <3>3 DEF k, b
  <2>2. ASSUME NEW i \in DOMAIN more
        PROVE  /\ Timestamp[more[i].eid] \in Int /\ more[i].dl \in 1 .. n2
               /\ times2[more[i].dl] <= Timestamp[more[i].eid]
    <3>1. CASE i = c + 1
      BY <1>1, <3>1, Zenon
    <3>2. CASE i \in 1 .. c
      <4> DEFINE k == es[i].dl
                 b == Timestamp[es[i].eid]
      <4>1. k \in 1 .. n /\ b \in Int /\ times[k] <= b /\ times[k] \in Int
        BY <1>1, <3>2, Zenon DEF Causal, Bounded
      <4>2. times2[k] \in Int /\ times2[k] <= times[k] /\ k \in 1 .. n2
        BY <1>2, <4>1, Zenon
      <4> HIDE DEF k, b
      <4>3. times2[k] <= b
        BY <4>1, <4>2
      <4> QED
        BY <1>1, <3>2, <4>1, <4>2, <4>3, Zenon DEF k, b
    <3> QED
      BY <1>1, <3>1, <3>2
  <2> QED
    BY <2>1, <2>2 DEF Bounded
<1>4. Reached(n2, more, R)
  <2>1. ASSUME NEW k \in 1 .. n2 PROVE HasSeed(R, k) \/ \E j \in DOMAIN more : Enters(more, j, k)
    <3>1. CASE k \in 1 .. n
      <4>1. HasSeed(R, k) \/ \E j \in DOMAIN es : Enters(es, j, k)
        BY <3>1 DEF Causal, Reached
      <4>2. \A j \in DOMAIN es : Enters(es, j, k) => j \in DOMAIN more /\ Enters(more, j, k)
        BY <1>1 DEF Enters
      <4> QED
        BY <4>1, <4>2
    <3>2. CASE k = e.dl /\ k # l
      <4>1. c + 1 \in DOMAIN more /\ Enters(more, c + 1, k)
        <5>1. c + 1 \in 1 .. c + 1
          BY <1>1
        <5> QED
          BY <1>1, <3>2, <5>1 DEF Enters
      <4> QED
        BY <4>1
    <3> QED
      BY <3>1, <3>2
  <2> QED
    BY <2>1, Zenon DEF Reached
<1>5. ASSUME NEW i \in DOMAIN more PROVE InOrderAt(more, R, i)
  <2>1. CASE i \in 1 .. c
    <3>1. InOrderAt(es, R, i)
      BY <1>1, <2>1 DEF Causal, InOrder
    <3>2. more[i] = es[i]
      BY <1>1, <2>1
    <3>3. \A j \in 1 .. i - 1 : more[j] = es[j]
      BY <1>1, <2>1
    <3> QED
      BY <3>1, <3>2, <3>3, Zenon DEF InOrderAt, Enters
  <2>2. CASE i = c + 1
    <3>1. more[i] = e /\ 1 .. i - 1 = DOMAIN es /\ \A j \in 1 .. i - 1 : more[j] = es[j]
      BY <1>1, <2>2
    <3>2. \A j \in 1 .. i - 1 : Enters(more, j, l) <=> Enters(es, j, l)
      BY <3>1 DEF Enters
    <3>3. HasSeed(R, l) \/ \E j \in 1 .. i - 1 : Enters(more, j, l)
      BY <3>1, <3>2, Zenon DEF Causal, Reached
    <3>4. ASSUME NEW j \in 1 .. i - 1, Enters(more, j, l)
          PROVE  Timestamp[e.eid] < Timestamp[more[j].eid]
      <4> DEFINE a == Timestamp[e.eid]
                 b == Timestamp[es[j].eid]
      <4>1. b \in Int /\ bound <= b /\ bound \in Int /\ a \in Int /\ a < bound
        BY <3>1, <3>2, <3>4, Zenon DEF Causal, Bounded, Before
      <4> HIDE DEF a, b
      <4>2. a < b
        BY <4>1
      <4> QED
        BY <3>1, <4>2 DEF a, b
    <3>5. ASSUME NEW r \in R, r[1] = l PROVE Timestamp[e.eid] < r[2]
      <4> DEFINE a == Timestamp[e.eid]
                 b == r[2]
      <4>1. b \in Int /\ bound <= b /\ bound \in Int /\ a \in Int /\ a < bound
        BY <3>5 DEF Causal, Bounded, Before
      <4> HIDE DEF a, b
      <4>2. a < b
        BY <4>1
      <4> QED
        BY <4>2 DEF a, b
    <3> QED
      BY <3>1, <3>3, <3>4, <3>5 DEF InOrderAt
  <2> QED
    BY <1>1, <2>1, <2>2
<1>6. Before(more, R, l, bound)
  <2>1. ASSUME NEW j \in DOMAIN more, Enters(more, j, l) PROVE bound <= Timestamp[more[j].eid]
    <3>1. j # c + 1
      BY <1>1, <2>1 DEF Enters
    <3>2. j \in DOMAIN es /\ more[j] = es[j]
      BY <1>1, <3>1
    <3> QED
      BY <2>1, <3>2 DEF Before, Enters
  <2> QED
    BY <2>1 DEF Before
<1> QED
  BY <1>3, <1>4, <1>5, <1>6 DEF Causal, InOrder, more

\* The same of a pass.
CausalPass(p, R) == Causal(Len(p.nodes), p.times, p.edges, R)
Expanding(p, R, l, bound) == CausalPass(p, R) /\ Before(p.edges, R, l, bound)
LEMMA CausalEmitted ==
  ASSUME Temporal, NEW st \in Scratch, hop \in Nat, NEW u \in SampleNodes, Known(st.dedup, u),
         NEW e \in Nat, e \in Range(RowOf(u)), Timestamp[e] \in Int,
         NEW l, l = Local(st.dedup, u), NEW R, NEW bound, Timestamp[e] < bound,
         Expanding(st.pass, R, l, bound)
  PROVE  Expanding(EmitEdge(st, u, e).pass, R, l, bound)
<1> DEFINE x == EmitEdge(st, u, e)
<1>1. EmitOutcome(st, x, u, e)
  BY EmittedOutcome
<1>2. IsEmitted(st, x)
  BY EmittedEdge
<1> HIDE DEF x
<1>3. x \in Scratch /\ Grown(st, x)
  BY <1>2 DEF IsEmitted
<1>4. CASE IsRefusal(st, x)
  BY <1>4 DEF IsRefusal, Expanding, CausalPass, x
<1>5. CASE IsEmission(st, x, u, e)
  <2> DEFINE n == Len(st.pass.nodes)
             n2 == Len(x.pass.nodes)
             t1 == st.pass.times
             t2 == x.pass.times
             k == Local(x.dedup, Dst[e])
             w == EdgeOf(u, e, l, k)
             t == Timestamp[e]
  <2>1. /\ Dst[e] \in SampleNodes /\ IsEntry(st, x, Dst[e], t)
        /\ x.pass.edges = Append(st.pass.edges, w)
    BY <1>5 DEF IsEmission
  <2>2. w.sl = l /\ w.dl = k /\ w.eid = e
    BY DEF EdgeOf
  <2>3. w \in EdgeRec
    <3>1. x.pass.edges \in Seq(EdgeRec) /\ st.pass.edges \in Seq(EdgeRec)
      BY <1>3 DEF Scratch, Scratches, Passes
    <3> DEFINE a == st.pass.edges
               b == x.pass.edges
               i == Len(a) + 1
    <3> HIDE DEF w
    <3>2. i \in DOMAIN b /\ b[i] = w
      BY <2>1, <3>1
    <3> QED
      BY <3>1, <3>2
  <2>4. n \in Nat /\ n2 \in Nat /\ st.pass.nodes \in Seq(SampleNodes) /\ t1 \in Seq(Moments) /\ Len(t1) = n
        /\ DOMAIN st.pass.nodes = 1 .. n
    BY DEF Scratch, Scratches, Passes, Sound
  <2>5. l \in 1 .. n
    BY <2>4 DEF Scratch, Sound, Matched
  <2>6. Bounded(n, t1, st.pass.edges, R)
    BY DEF Expanding, CausalPass, Causal
  <2>7. \A i \in 1 .. n : t1[i] \in Int
    BY <2>6 DEF Bounded
  <2>8. t \in Int /\ t < bound
    OBVIOUS
  <2> HIDE DEF n, n2, t1, t2, k, w, t
  <2>9. /\ n <= n2 /\ k \in 1 .. n2 /\ \A i \in 1 .. n2 : i \in 1 .. n \/ (i = k /\ k # l)
        /\ \A i \in 1 .. n2 : t2[i] \in Int
        /\ \A i \in 1 .. n : t2[i] <= t1[i]
        /\ t2[k] <= t
    <3>1. CASE Known(st.dedup, Dst[e])
      <4>1. x.pass.nodes = st.pass.nodes /\ k = Local(st.dedup, Dst[e]) /\ t2 = Lowered(t1, k, t)
        BY <2>1, <3>1 DEF IsEntry, k, t1, t2
      <4>2. n2 = n
        BY <4>1 DEF n, n2
      <4>3. k \in 1 .. n
        BY <2>1, <2>4, <3>1, <4>1 DEF Scratch, Sound, Matched
      <4>4. CASE t < t1[k]
        <5>1. t2 = [t1 EXCEPT ![k] = t]
          BY <4>1, <4>4 DEF Lowered
        <5>2. t2[k] = t /\ \A i \in 1 .. n : i # k => t2[i] = t1[i]
          BY <2>4, <4>3, <5>1
        <5>3. \A i \in 1 .. n : t2[i] \in Int /\ t2[i] <= t1[i]
          <6> TAKE i \in 1 .. n
          <6>1. CASE i = k
            BY <2>7, <2>8, <4>3, <4>4, <5>2, <6>1
          <6>2. CASE i # k
            BY <2>7, <5>2, <6>2
          <6> QED
            BY <6>1, <6>2
        <5> QED
          BY <2>4, <2>8, <4>2, <4>3, <5>2, <5>3
      <4>5. CASE ~(t < t1[k])
        <5>1. t2 = t1
          BY <4>1, <4>5 DEF Lowered
        <5>2. t1[k] \in Int
          BY <2>7, <4>3
        <5>3. \A i \in 1 .. n : t2[i] \in Int /\ t2[i] <= t1[i]
          BY <2>7, <5>1
        <5> QED
          BY <2>4, <2>8, <4>2, <4>3, <4>5, <5>1, <5>2, <5>3
      <4> QED
        BY <4>4, <4>5
    <3>2. CASE ~Known(st.dedup, Dst[e])
      <4>1. x.pass.nodes = Append(st.pass.nodes, Dst[e]) /\ k = n + 1 /\ t2 = Append(t1, t)
        BY <2>1, <3>2 DEF IsEntry, k, t1, t2, n
      <4>2. n2 = n + 1
        BY <2>1, <2>4, <4>1 DEF n2, n
      <4>3. t2[n + 1] = t /\ \A i \in 1 .. n : t2[i] = t1[i]
        BY <2>4, <4>1
      <4>4. \A i \in 1 .. n2 : i \in 1 .. n \/ i = n + 1
        BY <2>4, <4>2
      <4>5. \A i \in 1 .. n : t2[i] <= t1[i]
        BY <2>7, <4>3
      <4>6. \A i \in 1 .. n2 : t2[i] \in Int
        BY <2>7, <2>8, <4>3, <4>4
      <4>7. n <= n2 /\ k \in 1 .. n2 /\ k # l /\ t2[k] <= t
        BY <2>4, <2>5, <2>8, <4>1, <4>2, <4>3
      <4> QED
        BY <4>1, <4>4, <4>5, <4>6, <4>7, Zenon
    <3> QED
      BY <3>1, <3>2
  <2> DEFINE es == st.pass.edges
  <2>10. es \in Seq(EdgeRec) /\ Causal(n, t1, es, R) /\ Before(es, R, l, bound)
    BY DEF Expanding, CausalPass, n, t1, Scratch, Scratches, Passes
  <2> HIDE DEF es
  <2>11. Timestamp[w.eid] = t
    BY <2>2 DEF t
  <2>12. Causal(n2, t2, Append(es, w), R) /\ Before(Append(es, w), R, l, bound)
    <3>1. w.sl = l /\ Timestamp[w.eid] \in Int /\ Timestamp[w.eid] < bound /\ w.dl \in 1 .. n2
      BY <2>2, <2>8, <2>9, <2>11
    <3>2. /\ \A i \in 1 .. n2 : i \in 1 .. n \/ (i = w.dl /\ i # l)
          /\ t2[w.dl] <= Timestamp[w.eid]
      BY <2>2, <2>9, <2>11
    <3> QED
      BY <2>3, <2>4, <2>5, <2>9, <2>10, <3>1, <3>2, CausalEdge, Zenon
  <2> QED
    BY <2>1, <2>12 DEF Expanding, CausalPass, n2, t2, es, x
<1> QED
  BY <1>1, <1>4, <1>5 DEF EmitOutcome, x

\* Expanding a node keeps the order.
LEMMA CausalPicked ==
  ASSUME Temporal, NEW st \in Scratch, hop \in Nat, NEW u \in SampleNodes, Known(st.dedup, u),
         NEW picks \in Seq(1 .. Len(RowOf(u))), NEW R, CausalPass(st.pass, R),
         \A i \in DOMAIN picks : Timestamp[RowOf(u)[picks[i]]] < st.pass.times[Local(st.dedup, u)]
  PROVE  CausalPass(EmitPicks(st, u, picks).pass, R)
<1> DEFINE n == Len(picks)
           l == Local(st.dedup, u)
           bound == st.pass.times[l]
           row == RowOf(u)
<1>1. PICK g : IsEmitRun(g, st, u, picks)
  BY EmitRuns
<1>2. n \in Nat /\ DOMAIN picks = 1 .. n
  OBVIOUS
<1>3. /\ DOMAIN st.pass.nodes = 1 .. Len(st.pass.nodes)
      /\ l \in DOMAIN st.pass.nodes
  BY DEF Scratch, Scratches, Passes, Sound, Matched
<1> HIDE DEF l
<1>4. Expanding(st.pass, R, l, bound)
  <2> DEFINE es == st.pass.edges
  <2>1. bound \in Int
    BY <1>3 DEF CausalPass, Causal, Bounded
  <2>2. ASSUME NEW j \in DOMAIN es, Enters(es, j, l) PROVE bound <= Timestamp[es[j].eid]
    BY <2>2 DEF CausalPass, Causal, Bounded, Enters
  <2>3. ASSUME NEW r \in R, r[1] = l PROVE bound <= r[2]
    BY <2>3 DEF CausalPass, Causal, Bounded
  <2> HIDE DEF es, bound
  <2>4. Before(es, R, l, bound)
    BY <2>1, <2>2, <2>3 DEF Before
  <2> QED
    BY <2>4 DEF Expanding, es
<1> HIDE DEF bound
<1>5. \A i \in 1 .. n : Timestamp[row[picks[i]]] \in Int /\ Timestamp[row[picks[i]]] < bound
  <2> TAKE i \in 1 .. n
  <2>1. row[picks[i]] \in Offsets[u] + 1 .. Offsets[u + 1]
    <3>1. u \in 0 .. NodeCount /\ u + 1 \in 0 .. NodeCount
      BY SamplerAssumption DEF SampleNodes
    <3>2. /\ Offsets[u] \in Nat /\ Offsets[u + 1] \in Nat /\ Offsets[u] <= Offsets[u + 1]
      BY <3>1, SamplerAssumption
    <3> DEFINE a == Offsets[u]
               b == Offsets[u + 1]
               j == picks[i]
               c == b - a
    <3>3. row = [o \in 1 .. c |-> a + o]
      BY DEF RowOf
    <3> HIDE DEF a, b
    <3>4. c \in Nat
      BY <3>2 DEF a, b
    <3>5. Len(row) = c
      <4> HIDE DEF c, row
      <4> QED
        BY <3>3, <3>4
    <3>6. j \in 1 .. c
      <4> DEFINE V == 1 .. c
      <4>1. picks \in Seq(V)
        BY <3>5
      <4> HIDE DEF V, c
      <4>2. j \in V
        BY <1>2, <4>1
      <4> QED
        BY <4>2 DEF V
    <3> HIDE DEF j, row
    <3>7. row[j] = a + j
      BY <3>3, <3>6
    <3> HIDE DEF c
    <3>8. a \in Int /\ b \in Int /\ c = b - a
      BY <3>2 DEF a, b, c
    <3>9. a + j \in a + 1 .. b
      BY <3>6, <3>8
    <3> QED
      BY <3>7, <3>9 DEF j, a, b
  <2>2. Timestamp[row[picks[i]]] \in Int
    BY <2>1, SamplerAssumption, Zenon
  <2> QED
    BY <1>2, <2>2 DEF bound, l
<1> DEFINE T == {y \in Scratch : Expanding(y.pass, R, l, bound) /\ IsEmitted(st, y)}
<1>6. g[0] \in T
  BY <1>1, <1>2, <1>4 DEF IsEmitRun
<1>7. ASSUME NEW i \in 1 .. n, g[i - 1] \in T PROVE g[i] \in T
  <2> DEFINE e == row[picks[i]]
             y == g[i - 1]
  <2>1. e \in Nat /\ e \in Range(row) /\ g[i] = EmitEdge(y, u, e)
    BY <1>1, DrawnOnce DEF IsEmitRun
  <2>2. y \in Scratch /\ Expanding(y.pass, R, l, bound) /\ IsEmitted(st, y)
    BY <1>7
  <2>3. g[i] \in Scratch /\ IsEmitted(st, g[i])
    BY <1>1, <1>2 DEF IsEmitRun
  <2>4. Timestamp[e] \in Int /\ Timestamp[e] < bound
    BY <1>5
  <2> HIDE DEF y, e
  <2>5. Known(y.dedup, u) /\ Local(y.dedup, u) = l
    BY <2>2 DEF IsEmitted, Grown, l
  <2>6. Expanding(EmitEdge(y, u, e).pass, R, l, bound)
    BY <2>1, <2>2, <2>4, <2>5, CausalEmitted, Zenon
  <2> QED
    BY <2>1, <2>3, <2>6
<1> HIDE DEF T, n
<1>8. g[n] \in T
  BY <1>2, <1>6, <1>7, Along, Zenon
<1> QED
  BY <1>1, <1>8 DEF T, IsEmitRun, Expanding, n

\* Seeding lists every seed once, at the earliest time given for it.
Unexpanded(p) == p.frontier = p.nodes /\ p.next = <<>> /\ p.edges = <<>>
AtSeed(st, n, time) == Known(st.dedup, n) /\ (Temporal => st.pass.times[Local(st.dedup, n)] <= time)
SeededTo(st, seeds, times, i) ==
  /\ Unexpanded(st.pass)
  /\ \A k \in DOMAIN st.pass.nodes : Temporal => st.pass.times[k] \in Int
  /\ \A k \in DOMAIN st.pass.nodes : \E j \in 1 .. i : Local(st.dedup, seeds[j]) = k
  /\ \A j \in 1 .. i : AtSeed(st, seeds[j], times[j])

\* Registering one more seed.
LEMMA SeededFurther ==
  ASSUME NEW st \in Scratch, NEW seeds, NEW times, NEW i \in Nat, SeededTo(st, seeds, times, i),
         \A j \in 1 .. i + 1 : seeds[j] \in SampleNodes /\ (Temporal => times[j] \in Int),
         NEW x, IsSeeding(st, x, seeds[i + 1], times[i + 1])
  PROVE  SeededTo(x, seeds, times, i + 1)
<1> DEFINE c == Len(st.pass.nodes)
           c2 == Len(x.pass.nodes)
           q == i + 1
           n == seeds[q]
           t == times[q]
           k == Local(x.dedup, n)
           t1 == st.pass.times
           t2 == x.pass.times
<1>1. /\ x \in Scratch /\ Grown(st, x) /\ Known(x.dedup, n) /\ IsEntry(st, x, n, t)
      /\ x.pass.edges = st.pass.edges /\ x.pass.next = st.pass.next
      /\ x.pass.frontier = IF Known(st.dedup, n) THEN st.pass.frontier ELSE Append(st.pass.frontier, n)
  BY DEF IsSeeding
<1>2. /\ c \in Nat /\ st.pass.nodes \in Seq(SampleNodes) /\ DOMAIN st.pass.nodes = 1 .. c
      /\ c2 \in Nat /\ x.pass.nodes \in Seq(SampleNodes) /\ DOMAIN x.pass.nodes = 1 .. c2
      /\ Temporal => t1 \in Seq(Moments) /\ Len(t1) = c /\ DOMAIN t1 = 1 .. c
  BY <1>1 DEF Scratch, Scratches, Passes, Sound
<1>3. /\ q \in Nat /\ n \in SampleNodes /\ (Temporal => t \in Int) /\ q \in 1 .. q
      /\ \A j \in 1 .. q : j = q \/ j \in 1 .. i
      /\ \A j \in 1 .. i : j \in 1 .. q /\ seeds[j] \in SampleNodes /\ (Temporal => times[j] \in Int)
  OBVIOUS
<1>4. /\ Unexpanded(st.pass) /\ \A o \in 1 .. c : Temporal => t1[o] \in Int
      /\ \A o \in 1 .. c : \E j \in 1 .. i : Local(st.dedup, seeds[j]) = o
      /\ \A j \in 1 .. i : AtSeed(st, seeds[j], times[j])
  BY <1>2, Zenon DEF SeededTo
<1>5. \A j \in 1 .. i : Local(x.dedup, seeds[j]) = Local(st.dedup, seeds[j]) /\ Known(x.dedup, seeds[j])
  BY <1>1, <1>3, <1>4 DEF Grown, AtSeed
<1>6. \A m \in SampleNodes : /\ Known(st.dedup, m) => Local(st.dedup, m) \in 1 .. c
                             /\ Known(x.dedup, m) => Local(x.dedup, m) \in 1 .. c2
  BY <1>1, <1>2, Zenon DEF Scratch, Sound, Matched
<1> HIDE DEF c, c2, q, n, t, k, t1, t2
<1>7. /\ Unexpanded(x.pass)
      /\ k \in 1 .. c2 /\ 1 .. c \subseteq 1 .. c2 /\ \A o \in 1 .. c2 : o = k \/ o \in 1 .. c
      /\ Temporal => /\ \A o \in 1 .. c2 : t2[o] \in Int
                     /\ \A o \in 1 .. c : t2[o] <= t1[o]
                     /\ t2[k] <= t
  <2>1. CASE Known(st.dedup, n)
    <3>1. /\ x.pass.nodes = st.pass.nodes /\ k = Local(st.dedup, n) /\ (Temporal => t2 = Lowered(t1, k, t))
          /\ x.pass.frontier = st.pass.frontier
      BY <1>1, <2>1 DEF IsEntry, k, t1, t2, n
    <3>2. c2 = c /\ Unexpanded(x.pass)
      BY <1>1, <1>4, <3>1 DEF c, c2, Unexpanded
    <3>3. k \in 1 .. c
      BY <1>3, <1>6, <2>1, <3>1
    <3>4. ASSUME Temporal
          PROVE  (\A o \in 1 .. c : t2[o] \in Int /\ t2[o] <= t1[o]) /\ t2[k] <= t
      <4>1. CASE t < t1[k]
        <5>1. t2 = [t1 EXCEPT ![k] = t]
          BY <3>1, <3>4, <4>1 DEF Lowered
        <5>2. t2[k] = t /\ \A o \in 1 .. c : o # k => t2[o] = t1[o]
          BY <1>2, <3>3, <3>4, <5>1
        <5>3. \A o \in 1 .. c : t2[o] \in Int /\ t2[o] <= t1[o]
          <6> TAKE o \in 1 .. c
          <6>1. CASE o = k
            BY <1>3, <1>4, <3>3, <3>4, <4>1, <5>2, <6>1
          <6>2. CASE o # k
            BY <1>4, <3>4, <5>2, <6>2
          <6> QED
            BY <6>1, <6>2
        <5> QED
          BY <1>3, <3>4, <5>2, <5>3
      <4>2. CASE ~(t < t1[k])
        <5>1. t2 = t1
          BY <3>1, <3>4, <4>2 DEF Lowered
        <5>2. t1[k] \in Int /\ t \in Int
          BY <1>3, <1>4, <3>3, <3>4
        <5> QED
          BY <1>4, <3>4, <4>2, <5>1, <5>2
      <4> QED
        BY <4>1, <4>2
    <3> QED
      BY <3>2, <3>3, <3>4
  <2>2. CASE ~Known(st.dedup, n)
    <3>1. /\ x.pass.nodes = Append(st.pass.nodes, n) /\ k = c + 1 /\ (Temporal => t2 = Append(t1, t))
          /\ x.pass.frontier = Append(st.pass.frontier, n)
      BY <1>1, <2>2 DEF IsEntry, k, t1, t2, n, c
    <3>2. c2 = c + 1
      BY <1>2, <1>3, <3>1 DEF c, c2
    <3>3. Unexpanded(x.pass)
      BY <1>1, <1>4, <3>1, Zenon DEF Unexpanded
    <3>4. k \in 1 .. c2 /\ 1 .. c \subseteq 1 .. c2 /\ \A o \in 1 .. c2 : o = k \/ o \in 1 .. c
      BY <1>2, <3>1, <3>2
    <3>5. ASSUME Temporal
          PROVE  (\A o \in 1 .. c2 : t2[o] \in Int) /\ (\A o \in 1 .. c : t2[o] <= t1[o]) /\ t2[k] <= t
      <4>1. t2[c + 1] = t /\ \A o \in 1 .. c : t2[o] = t1[o]
        <5>1. t1 \in Seq(Moments) /\ Len(t1) = c /\ t2 = Append(t1, t)
          BY <1>2, <3>1, <3>5
        <5> QED
          BY <1>2, <5>1
      <4>2. \A o \in 1 .. c : t1[o] \in Int
        BY <1>4, <3>5
      <4>3. t \in Int
        BY <1>3, <3>5
      <4> QED
        BY <3>1, <3>4, <4>1, <4>2, <4>3
    <3> QED
      BY <3>3, <3>4, <3>5
  <2> QED
    BY <2>1, <2>2
<1>8. \A o \in 1 .. c2 : \E j \in 1 .. q : Local(x.dedup, seeds[j]) = o
  <2> TAKE o \in 1 .. c2
  <2>1. CASE o = k
    BY <1>3, <2>1 DEF k, n
  <2>2. CASE o \in 1 .. c
    <3>1. PICK j \in 1 .. i : Local(st.dedup, seeds[j]) = o
      BY <1>4, <2>2
    <3> QED
      BY <1>3, <1>5, <3>1
  <2> QED
    BY <1>7, <2>1, <2>2
<1>9. \A j \in 1 .. q : AtSeed(x, seeds[j], times[j])
  <2> TAKE j \in 1 .. q
  <2>1. CASE j = q
    BY <1>1, <1>7, <2>1 DEF AtSeed, n, t, k, t2
  <2>2. CASE j \in 1 .. i
    <3> DEFINE o == Local(st.dedup, seeds[j])
    <3>1. o \in 1 .. c /\ AtSeed(st, seeds[j], times[j])
      BY <1>3, <1>4, <1>6, <2>2 DEF AtSeed
    <3>2. ASSUME Temporal PROVE t2[o] <= times[j]
      <4>1. t1[o] <= times[j] /\ t1[o] \in Int /\ times[j] \in Int
        BY <1>3, <1>4, <2>2, <3>1, <3>2 DEF AtSeed, t1
      <4>2. t2[o] \in Int /\ t2[o] <= t1[o]
        BY <1>7, <3>1, <3>2
      <4> DEFINE a == t2[o]
                 b == t1[o]
                 d == times[j]
      <4> HIDE DEF a, b, d
      <4>3. a <= d
        BY <4>1, <4>2 DEF a, b, d
      <4> QED
        BY <4>3 DEF a, d
    <3> QED
      BY <1>5, <2>2, <3>2 DEF AtSeed, t2
  <2> QED
    BY <1>3, <2>1, <2>2
<1>10. \A o \in 1 .. c2 : Temporal => x.pass.times[o] \in Int
  BY <1>7 DEF t2
<1>11. DOMAIN x.pass.nodes = 1 .. c2
  BY <1>2
<1> QED
  BY <1>7, <1>8, <1>9, <1>10, <1>11, Zenon DEF SeededTo, q

\* Registering every seed of a pass.
LEMMA SeededAll ==
  ASSUME dedup \in Dedups, dedup.tag < Generations, NotAhead(dedup),
         NEW seeds \in Seq(SampleNodes), NEW times,
         \A i \in 1 .. Len(seeds) : times[i] \in Moments /\ (Temporal => times[i] \in Int)
  PROVE  SeededTo(Seeded(seeds, times), seeds, times, Len(seeds))
<1> DEFINE n == Len(seeds)
<1>1. n \in Nat /\ DOMAIN seeds = 1 .. n /\ \A i \in 1 .. n : seeds[i] \in SampleNodes
  OBVIOUS
<1>2. PICK g : IsSeedRun(g, seeds, times)
  BY SeedRuns, Zenon
<1> DEFINE T == {y \in Scratch \X (0 .. n) : SeededTo(y[1], seeds, times, y[2])}
           h == [i \in 0 .. n |-> <<g[i], i>>]
<1>3. h[0] \in T
  <2> DEFINE z == g[0]
  <2>1. h[0] = <<z, 0>> /\ 0 \in 0 .. n /\ z \in Scratch
    BY <1>1, <1>2 DEF IsSeedRun
  <2>2. z.pass = NoPass
    BY <1>2 DEF IsSeedRun
  <2>3. z.pass.nodes = <<>> /\ z.pass.frontier = <<>> /\ z.pass.next = <<>> /\ z.pass.edges = <<>>
    BY <2>2 DEF NoPass
  <2> HIDE DEF h, z, n
  <2>4. SeededTo(z, seeds, times, 0)
    BY <2>3 DEF SeededTo, Unexpanded
  <2> QED
    BY <2>1, <2>4
<1>4. ASSUME NEW i \in 1 .. n, h[i - 1] \in T PROVE h[i] \in T
  <2> DEFINE o == i - 1
             y == g[o]
             x == g[i]
  <2>1. /\ o \in 0 .. n /\ i \in 0 .. n /\ o \in Nat /\ o + 1 = i
        /\ h[i - 1] = <<y, o>> /\ h[i] = <<x, i>>
    BY <1>1
  <2>2. y \in Scratch /\ SeededTo(y, seeds, times, o) /\ x \in Scratch
    <3>1. x \in Scratch
      BY <1>2, <2>1 DEF IsSeedRun
    <3> QED
      BY <1>4, <2>1, <3>1
  <2>3. x = SeededOne(y, seeds[i], times[i])
    BY <1>2 DEF IsSeedRun
  <2> HIDE DEF h, o, y, x
  <2>4. seeds[i] \in SampleNodes /\ times[i] \in Moments
    BY <1>1
  <2>5. IsSeeding(y, x, seeds[i], times[i])
    BY <2>2, <2>3, <2>4, SeededOutcome
  <2>6. \A j \in 1 .. i : seeds[j] \in SampleNodes /\ (Temporal => times[j] \in Int)
    <3>1. \A j \in 1 .. i : j \in 1 .. n
      BY <1>1
    <3> QED
      BY <1>1, <3>1
  <2>7. SeededTo(x, seeds, times, o + 1)
    <3>1. \A j \in 1 .. o + 1 : seeds[j] \in SampleNodes /\ (Temporal => times[j] \in Int)
      BY <2>1, <2>6
    <3>2. IsSeeding(y, x, seeds[o + 1], times[o + 1])
      BY <2>1, <2>5
    <3> QED
      BY <2>1, <2>2, <3>1, <3>2, SeededFurther
  <2> QED
    BY <2>1, <2>2, <2>7
<1>5. h[n] = <<g[n], n>> /\ n \in 0 .. n
  BY <1>1
<1> HIDE DEF h, T, n
<1>6. h[n] \in T
  BY <1>1, <1>3, <1>4, Along
<1>7. SeededTo(g[n], seeds, times, n)
  BY <1>5, <1>6 DEF T
<1> QED
  BY <1>2, <1>7 DEF IsSeedRun, n

\* So a pass starts in order.
LEMMA SeedsInOrder ==
  ASSUME Temporal, NEW st \in Scratch, NEW seeds, NEW times, NEW n \in Nat, SeededTo(st, seeds, times, n),
         \A j \in 1 .. n : seeds[j] \in SampleNodes /\ times[j] \in Int,
         NEW R, \A r \in R : \E j \in 1 .. n : r[1] = Local(st.dedup, seeds[j]) /\ r[2] = times[j],
         \A j \in 1 .. n : \E r \in R : r[1] = Local(st.dedup, seeds[j])
  PROVE  CausalPass(st.pass, R)
<1> DEFINE c == Len(st.pass.nodes)
<1>1. DOMAIN st.pass.nodes = 1 .. c
  BY DEF Scratch, Scratches, Passes
<1>2. st.pass.edges = <<>>
  BY DEF SeededTo, Unexpanded
<1>3. \A m \in SampleNodes : Known(st.dedup, m) => Local(st.dedup, m) \in 1 .. c
  BY <1>1 DEF Scratch, Sound, Matched
<1>4. ASSUME NEW r \in R PROVE r[1] \in 1 .. c /\ r[2] \in Int /\ st.pass.times[r[1]] <= r[2]
  <2>2. PICK j \in 1 .. n : r[1] = Local(st.dedup, seeds[j]) /\ r[2] = times[j]
    BY <1>4
  <2>3. AtSeed(st, seeds[j], times[j]) /\ seeds[j] \in SampleNodes /\ times[j] \in Int
    BY DEF SeededTo
  <2> HIDE DEF c
  <2> QED
    BY <1>3, <2>2, <2>3 DEF AtSeed
<1>5. ASSUME NEW k \in 1 .. c PROVE HasSeed(R, k)
  <2>1. PICK j \in 1 .. n : Local(st.dedup, seeds[j]) = k
    BY <1>1, Zenon DEF SeededTo
  <2> QED
    BY <2>1, Zenon DEF HasSeed
<1>6. \A k \in 1 .. c : st.pass.times[k] \in Int
  BY <1>1, Zenon DEF SeededTo
<1> HIDE DEF c
<1>7. Causal(c, st.pass.times, <<>>, R)
  BY <1>4, <1>5, <1>6 DEF Causal, Bounded, Reached, InOrder
<1> QED
  BY <1>2, <1>7 DEF CausalPass, c

-----------------------------------------------------------------------------
(* The counts of a pass's hops.                                            *)

\* What does not fall from one index to the next does not fall at all.
LEMMA Rising ==
  ASSUME NEW n \in Nat, NEW f \in [0 .. n -> Nat], \A g \in 1 .. n : f[g - 1] <= f[g],
         NEW a \in 0 .. n, NEW b \in 0 .. n, a <= b
  PROVE  f[a] <= f[b]
<1> DEFINE m == b - a
           h == [i \in 0 .. m |-> a + i]
           T == {i \in 0 .. n : f[a] <= f[i]}
<1>1. m \in Nat /\ h[0] = a /\ h[m] = b
  OBVIOUS
<1>2. h[0] \in T
  BY <1>1
<1>3. ASSUME NEW i \in 1 .. m, h[i - 1] \in T PROVE h[i] \in T
  <2> DEFINE c == a + i
             d == c - 1
  <2>1. c \in 1 .. n /\ d \in 0 .. n /\ c \in 0 .. n /\ h[i] = c /\ h[i - 1] = d
    OBVIOUS
  <2>2. f[d] <= f[c] /\ f[a] <= f[d]
    BY <1>3, <2>1
  <2>3. f[a] \in Nat /\ f[d] \in Nat /\ f[c] \in Nat
    BY <2>1
  <2> HIDE DEF h, c, d
  <2>4. f[a] <= f[c]
    BY <2>2, <2>3
  <2> QED
    BY <2>1, <2>4
<1> HIDE DEF h, T, m
<1>4. h[m] \in T
  BY <1>1, <1>2, <1>3, Along
<1> QED
  BY <1>1, <1>4 DEF T

\* The nodes after each hop.
LEMMA LevelFacts ==
  ASSUME NEW n \in Nat, NEW counts \in [0 .. n -> Nat]
  PROVE  /\ \A g \in 0 .. n : NodesBy(counts, g) \in Nat
         /\ NodesBy(counts, 0) = counts[0]
         /\ \A g \in 1 .. n : NodesBy(counts, g) = NodesBy(counts, g - 1) + counts[g]
         /\ \A a, b \in 0 .. n : a <= b => NodesBy(counts, a) <= NodesBy(counts, b)
<1>1. PICK f : IsCount(f, counts, n)
  BY NodesCounted
<1>2. f \in [0 .. n -> Nat] /\ f[0] = counts[0] /\ \A g \in 1 .. n : f[g] = f[g - 1] + counts[g]
  BY <1>1 DEF IsCount
<1>3. ASSUME NEW g \in 0 .. n PROVE NodesBy(counts, g) = f[g]
  <2>1. g \in Nat /\ 0 .. g \subseteq 0 .. n /\ 1 .. g \subseteq 1 .. n
    OBVIOUS
  <2> DEFINE c == [i \in 0 .. g |-> counts[i]]
  <2>2. PICK f2 : /\ f2 \in [0 .. g -> Nat] /\ f2[0] = counts[0]
                  /\ \A i \in 1 .. g : f2[i] = f2[i - 1] + counts[i]
                  /\ NodesBy(counts, g) = f2[g]
    <3> DEFINE T == Nat
               F == [x \in T \X (1 .. g) |-> x[1] + counts[x[2]]]
               base == counts[0]
               Run(b) == [i \in 0 .. g |-> IF i = 0 THEN base ELSE b[i - 1] + counts[i]]
               by == CHOOSE b : b = Run(b)
    <3>1. base \in T /\ F \in [T \X (1 .. g) -> T]
      BY <2>1
    <3>2. \A t \in T, i \in 1 .. g : F[<<t, i>>] = t + counts[i]
      BY Zenon
    <3> HIDE DEF F, T, base
    <3>3. PICK b : IsRun(b, F, base, g, T)
      BY <2>1, <3>1, Repeated, Zenon
    <3>4. b \in [0 .. g -> T] /\ b[0] = base /\ \A i \in 1 .. g : b[i] = F[<<b[i - 1], i>>]
      BY <3>3 DEF IsRun
    <3>5. \A i \in 1 .. g : i - 1 \in 0 .. g /\ i \in 0 .. g /\ i # 0
      BY <2>1
    <3>6. \A i \in 1 .. g : b[i] = b[i - 1] + counts[i]
      BY <3>2, <3>4, <3>5, Zenon
    <3>7. b = Run(b)
      <4>1. \A i \in 0 .. g : b[i] = IF i = 0 THEN base ELSE b[i - 1] + counts[i]
        <5>1. \A i \in 0 .. g : i = 0 \/ i \in 1 .. g
          BY <2>1
        <5> QED
          BY <3>4, <3>6, <5>1
      <4> QED
        BY <3>4, <4>1
    <3>8. \A z : z = Run(z) => z[0] = base /\ \A i \in 1 .. g : z[i] = z[i - 1] + counts[i]
      <4> TAKE z
      <4> HAVE z = Run(z)
      <4>1. 0 \in 0 .. g
        BY <2>1
      <4> QED
        BY <3>5, <4>1, Zenon
    <3>9. \A z : z = Run(z) => z \in [0 .. g -> {Run(z)[i] : i \in 0 .. g}]
      BY Zenon
    <3> HIDE DEF Run
    <3>10. by = Run(by)
      BY <3>7, Zenon
    <3>11. NodesBy(counts, g) = by[g]
      BY DEF NodesBy, by, Run, base
    <3> HIDE DEF by
    <3>12. by[0] = base /\ \A i \in 1 .. g : by[i] = by[i - 1] + counts[i]
      BY <3>8, <3>10
    <3> DEFINE S == {i \in 0 .. g : by[i] = b[i]}
               h == [i \in 0 .. g |-> i]
    <3>13. \A k \in 0 .. g : h[k] \in S
      <4> TAKE k \in 0 .. g
      <4>1. k \in Nat /\ h[0] \in S
        BY <2>1, <3>4, <3>12
      <4>2. \A i \in 1 .. k : h[i - 1] \in S => h[i] \in S
        <5> TAKE i \in 1 .. k
        <5> HAVE h[i - 1] \in S
        <5>1. i \in 1 .. g /\ h[i - 1] = i - 1 /\ h[i] = i /\ i \in 0 .. g
          BY <2>1
        <5>2. by[i - 1] = b[i - 1]
          BY <5>1
        <5> QED
          BY <3>6, <3>12, <5>1, <5>2
      <4> HIDE DEF S, h
      <4> QED
        BY <4>1, <4>2, Along
    <3>14. by[g] = b[g]
      <4>1. g \in 0 .. g
        BY <2>1
      <4> QED
        BY <3>13, <4>1
    <3> QED
      BY <3>4, <3>6, <3>11, <3>14, Zenon DEF base, T
  <2> DEFINE S == {i \in 0 .. g : f2[i] = f[i]}
             h == [i \in 0 .. g |-> i]
  <2>3. h[0] \in S
    BY <1>2, <2>1, <2>2
  <2>4. ASSUME NEW i \in 1 .. g, h[i - 1] \in S PROVE h[i] \in S
    <3>1. i - 1 \in 0 .. g /\ i \in 0 .. g /\ i \in 1 .. n
      BY <2>1
    <3>2. f2[i - 1] = f[i - 1]
      BY <2>4, <3>1
    <3> QED
      BY <1>2, <2>2, <3>1, <3>2
  <2>5. h[g] = g
    BY <2>1
  <2> HIDE DEF h, S
  <2>6. h[g] \in S
    BY <2>1, <2>3, <2>4, Along
  <2> QED
    BY <2>2, <2>5, <2>6 DEF S
<1>4. \A g \in 1 .. n : g - 1 \in 0 .. n /\ g \in 0 .. n
  OBVIOUS
<1>5. \A g \in 1 .. n : f[g - 1] <= f[g]
  <2> TAKE g \in 1 .. n
  <2>1. f[g - 1] \in Nat /\ counts[g] \in Nat /\ f[g] = f[g - 1] + counts[g]
    BY <1>2, <1>4
  <2> DEFINE a == f[g - 1]
             b == f[g]
             c == counts[g]
  <2> HIDE DEF a, b, c
  <2>2. a <= b
    BY <2>1 DEF a, b, c
  <2> QED
    BY <2>2 DEF a, b
<1>6. \A a, b \in 0 .. n : a <= b => f[a] <= f[b]
  BY <1>2, <1>5, Rising, Zenon
<1> QED
  BY <1>2, <1>3, <1>4, <1>6

\* Counting more nodes at a hop leaves the earlier sums.
LEMMA LevelKept ==
  ASSUME NEW n \in Nat, NEW counts \in [0 .. n -> Nat], NEW i \in 0 .. n, NEW k \in Nat,
         NEW counts2, IsAdded(counts, counts2, i, k), NEW g \in 0 .. n, g < i
  PROVE  NodesBy(counts2, g) = NodesBy(counts, g)
<1>1. counts2 \in [0 .. n -> Nat] /\ \A o \in 0 .. g : counts2[o] = counts[o]
  BY DEF IsAdded
<1> DEFINE T == {o \in 0 .. g : NodesBy(counts2, o) = NodesBy(counts, o)}
           h == [o \in 0 .. g |-> o]
<1>2. g \in Nat /\ h[g] = g /\ h[0] = 0 /\ 0 \in 0 .. g
  OBVIOUS
<1>3. h[0] \in T
  BY <1>1, <1>2, LevelFacts, Zenon
<1>4. ASSUME NEW o \in 1 .. g, h[o - 1] \in T PROVE h[o] \in T
  <2>1. h[o - 1] = o - 1 /\ h[o] = o /\ o \in 0 .. g /\ o \in 1 .. n
    OBVIOUS
  <2>2. NodesBy(counts2, o - 1) = NodesBy(counts, o - 1)
    BY <1>4, <2>1
  <2>3. NodesBy(counts2, o) = NodesBy(counts2, o - 1) + counts2[o]
    BY <1>1, <2>1, LevelFacts, Zenon
  <2>4. NodesBy(counts, o) = NodesBy(counts, o - 1) + counts[o]
    BY <2>1, LevelFacts, Zenon
  <2> HIDE DEF h
  <2> QED
    BY <1>1, <2>1, <2>2, <2>3, <2>4
<1> HIDE DEF h, T
<1>5. h[g] \in T
  BY <1>2, <1>3, <1>4, Along
<1> QED
  BY <1>2, <1>5 DEF T

\* No edge is in two rows.
LEMMA RowsApart ==
  ASSUME NEW u \in SampleNodes, NEW v \in SampleNodes, NEW e, e \in Range(RowOf(u)), e \in Range(RowOf(v))
  PROVE  u = v
<1>1. NodeCount \in Nat /\ Offsets \in [0 .. NodeCount -> Nat]
  BY SamplerAssumption
<1>2. \A g \in 1 .. NodeCount : Offsets[g - 1] <= Offsets[g]
  <2> TAKE g \in 1 .. NodeCount
  <2>1. g - 1 \in SampleNodes /\ (g - 1) + 1 = g
    BY <1>1 DEF SampleNodes
  <2> QED
    BY <2>1, SamplerAssumption, Zenon
<1>3. ASSUME NEW w \in SampleNodes, e \in Range(RowOf(w))
      PROVE  e \in Int /\ Offsets[w] < e /\ e <= Offsets[w + 1]
  <2>1. w \in 0 .. NodeCount /\ w + 1 \in 0 .. NodeCount
    BY <1>1 DEF SampleNodes
  <2>2. /\ Offsets[w] \in Nat /\ Offsets[w + 1] \in Nat /\ Offsets[w] <= Offsets[w + 1]
    BY <2>1, SamplerAssumption
  <2> DEFINE a == Offsets[w]
             b == Offsets[w + 1]
  <2>3. PICK i \in 1 .. b - a : e = a + i
    BY <1>3 DEF RowOf, Range
  <2> HIDE DEF a, b
  <2>4. a \in Nat /\ b \in Nat /\ a <= b
    BY <2>2 DEF a, b
  <2>5. e \in Int /\ a < e /\ e <= b
    BY <2>3, <2>4
  <2> QED
    BY <2>5 DEF a, b
<1>4. ASSUME NEW w \in SampleNodes, NEW z \in SampleNodes, w < z, e \in Range(RowOf(w)), e \in Range(RowOf(z))
      PROVE  FALSE
  <2>1. w + 1 \in 0 .. NodeCount /\ z \in 0 .. NodeCount /\ w + 1 <= z
    BY <1>1, <1>4 DEF SampleNodes
  <2>2. Offsets[w + 1] <= Offsets[z]
    BY <1>1, <1>2, <2>1, Rising, Zenon
  <2>3. e <= Offsets[w + 1] /\ Offsets[z] < e /\ e \in Int
    BY <1>3, <1>4
  <2>4. Offsets[w + 1] \in Nat /\ Offsets[z] \in Nat
    BY <1>1, <2>1
  <2> DEFINE a == Offsets[w + 1]
             b == Offsets[z]
  <2> HIDE DEF a, b
  <2> QED
    BY <2>2, <2>3, <2>4 DEF a, b
<1>5. u \in Int /\ v \in Int
  BY <1>1 DEF SampleNodes
<1>6. ~(u < v) /\ ~(v < u)
  BY <1>4
<1> QED
  BY <1>5, <1>6

\* The edges out of a local index, and the picks that a corrupt destination spoils.
OutOf(es, k) == {i \in DOMAIN es : es[i].sl = k}
Spoiled(u, picks, i) == {j \in 1 .. i : Dst[RowOf(u)[picks[j]]] \notin SampleNodes}
CountedTo(es0, es, u, l, picks, i) ==
  /\ IsFiniteSet(OutOf(es, l))
  /\ Cardinality(OutOf(es, l)) + Cardinality(Spoiled(u, picks, i)) = i
  /\ \A k \in Nat : k # l => OutOf(es, k) = OutOf(es0, k)

\* One more pick spoils at most one more edge.
LEMMA SpoiledNext ==
  ASSUME NEW u, NEW picks, NEW i \in Nat
  PROVE  /\ IsFiniteSet(Spoiled(u, picks, i)) /\ Cardinality(Spoiled(u, picks, i)) \in Nat
         /\ Cardinality(Spoiled(u, picks, i)) <= i
         /\ Cardinality(Spoiled(u, picks, i + 1)) =
              IF Dst[RowOf(u)[picks[i + 1]]] \in SampleNodes THEN Cardinality(Spoiled(u, picks, i))
              ELSE Cardinality(Spoiled(u, picks, i)) + 1
<1> DEFINE S == Spoiled(u, picks, i)
           q == i + 1
           good == Dst[RowOf(u)[picks[q]]] \in SampleNodes
<1>1. IsFiniteSet(1 .. i) /\ Cardinality(1 .. i) = i
  <2>1. 1 \in Int /\ i \in Int
    OBVIOUS
  <2>2. IsFiniteSet(1 .. i) /\ Cardinality(1 .. i) = IF 1 > i THEN 0 ELSE i - 1 + 1
    BY <2>1, FS_Interval
  <2>3. (IF 1 > i THEN 0 ELSE i - 1 + 1) = i
    OBVIOUS
  <2> QED
    BY <2>2, <2>3
<1>2. S \in SUBSET (1 .. i)
  BY DEF Spoiled
<1>3. IsFiniteSet(S) /\ Cardinality(S) <= i
  <2> HIDE DEF S
  <2> QED
    BY <1>1, <1>2, FS_Subset, Zenon
<1>4. Cardinality(S) \in Nat
  BY <1>3, FS_CardinalityType
<1>5. q \notin S
  <2>1. q \notin 1 .. i
    OBVIOUS
  <2> QED
    BY <1>2, <2>1
<1>6. Spoiled(u, picks, q) = IF good THEN S ELSE S \cup {q}
  <2>1. \A j : j \in 1 .. q <=> j = q \/ j \in 1 .. i
    OBVIOUS
  <2> QED
    BY <2>1 DEF Spoiled
<1> HIDE DEF S, good
<1>7. Cardinality(S \cup {q}) = Cardinality(S) + 1
  BY <1>3, <1>5, FS_AddElement
<1> QED
  BY <1>3, <1>4, <1>6, <1>7 DEF S, good

\* One more pick adds its edge, unless it is corrupt.
LEMMA CountedEdge ==
  ASSUME NEW es0, NEW es \in Seq(EdgeRec), NEW u, NEW l \in Nat, NEW picks, NEW i \in Nat,
         CountedTo(es0, es, u, l, picks, i), NEW e \in EdgeRec, e.sl = l,
         NEW es2, \/ es2 = es /\ Dst[RowOf(u)[picks[i + 1]]] \notin SampleNodes
                  \/ es2 = Append(es, e) /\ Dst[RowOf(u)[picks[i + 1]]] \in SampleNodes
  PROVE  CountedTo(es0, es2, u, l, picks, i + 1)
<1> DEFINE A == OutOf(es, l)
           a == Cardinality(A)
           b == Cardinality(Spoiled(u, picks, i))
           b2 == Cardinality(Spoiled(u, picks, i + 1))
           good == Dst[RowOf(u)[picks[i + 1]]] \in SampleNodes
           c == Len(es) + 1
<1>1. IsFiniteSet(A) /\ a + b = i /\ \A k \in Nat : k # l => OutOf(es, k) = OutOf(es0, k)
  BY DEF CountedTo
<1>2. b \in Nat /\ b2 = IF good THEN b ELSE b + 1
  BY SpoiledNext
<1>3. a \in Nat
  BY <1>1, FS_CardinalityType
<1>4. CASE ~good
  <2>1. es2 = es
    BY <1>4
  <2> HIDE DEF a, b, b2
  <2>2. a + b2 = i + 1
    BY <1>1, <1>2, <1>3, <1>4
  <2> QED
    BY <1>1, <2>1, <2>2 DEF CountedTo, a, b2
<1>5. CASE good
  <2>1. es2 = Append(es, e)
    BY <1>5
  <2>2. /\ DOMAIN es = 1 .. Len(es) /\ c \notin DOMAIN es /\ DOMAIN es2 = DOMAIN es \cup {c}
        /\ es2[c] = e /\ \A k \in DOMAIN es : es2[k] = es[k]
    BY <2>1
  <2>3. OutOf(es2, l) = A \cup {c} /\ c \notin A
    BY <2>2 DEF OutOf
  <2>4. \A k \in Nat : k # l => OutOf(es2, k) = OutOf(es, k)
    BY <2>2 DEF OutOf
  <2> HIDE DEF A, c
  <2>5. IsFiniteSet(A \cup {c}) /\ Cardinality(A \cup {c}) = a + 1
    BY <1>1, <2>3, FS_AddElement
  <2> HIDE DEF a, b, b2
  <2>6. (a + 1) + b2 = i + 1
    BY <1>1, <1>2, <1>3, <1>5
  <2>7. Cardinality(OutOf(es2, l)) + b2 = i + 1
    BY <2>3, <2>5, <2>6
  <2> QED
    BY <1>1, <2>3, <2>4, <2>5, <2>7 DEF CountedTo, b2
<1> QED
  BY <1>4, <1>5

\* The picks of a node that had no edge are its edges, less the spoiled ones.
LEMMA PickedCounts ==
  ASSUME ~scfg.cumulative, NEW st \in Scratch, hop \in Nat, NEW u \in SampleNodes, Known(st.dedup, u),
         NEW picks \in Seq(1 .. Len(RowOf(u))), NEW l, l = Local(st.dedup, u), OutOf(st.pass.edges, l) = {}
  PROVE  CountedTo(st.pass.edges, EmitPicks(st, u, picks).pass.edges, u, l, picks, Len(picks))
<1> DEFINE n == Len(picks)
           row == RowOf(u)
           es0 == st.pass.edges
<1>1. PICK g : IsEmitRun(g, st, u, picks)
  BY EmitRuns
<1>2. n \in Nat /\ DOMAIN picks = 1 .. n
  OBVIOUS
<1>3. l \in Nat
  BY DEF Scratch, Scratches, Passes, Sound, Matched
<1> HIDE DEF n, es0
<1> DEFINE T == {y \in Scratch \X (0 .. n) : IsEmitted(st, y[1]) /\ CountedTo(es0, y[1].pass.edges, u, l, picks, y[2])}
           h == [i \in 0 .. n |-> <<g[i], i>>]
<1>4. h[0] \in T
  <2>1. h[0] = <<st, 0>> /\ 0 \in 0 .. n /\ IsEmitted(st, st)
    BY <1>1, <1>2 DEF IsEmitRun, n
  <2>2. CountedTo(es0, es0, u, l, picks, 0)
    <3>1. Spoiled(u, picks, 0) = {} /\ OutOf(es0, l) = {}
      BY DEF Spoiled, es0
    <3>2. IsFiniteSet(OutOf(es0, l))
      BY <3>1, FS_EmptySet
    <3>3. Cardinality(OutOf(es0, l)) = 0 /\ Cardinality(Spoiled(u, picks, 0)) = 0
      BY <3>1, FS_EmptySet, Zenon
    <3> DEFINE a == Cardinality(OutOf(es0, l))
               b == Cardinality(Spoiled(u, picks, 0))
    <3> HIDE DEF a, b
    <3>4. a + b = 0
      BY <3>3 DEF a, b
    <3> QED
      BY <3>2, <3>4 DEF CountedTo, a, b
  <2> HIDE DEF h
  <2> QED
    BY <2>1, <2>2 DEF es0
<1>5. ASSUME NEW i \in 1 .. n, h[i - 1] \in T PROVE h[i] \in T
  <2> DEFINE o == i - 1
             y == g[o]
             x == g[i]
             e == row[picks[i]]
  <2>1. o \in 0 .. n /\ i \in 0 .. n /\ o \in Nat /\ o + 1 = i /\ h[i - 1] = <<y, o>> /\ h[i] = <<x, i>>
    BY <1>2
  <2>2. y \in Scratch /\ IsEmitted(st, y) /\ CountedTo(es0, y.pass.edges, u, l, picks, o)
    BY <1>5, <2>1
  <2>3. x \in Scratch /\ IsEmitted(st, x) /\ x = EmitEdge(y, u, e)
    BY <1>1, <2>1 DEF IsEmitRun, n
  <2>4. e \in Nat /\ e \in Range(row)
    BY DrawnOnce DEF n
  <2> HIDE DEF h, o, y, x, e
  <2>5. Known(y.dedup, u) /\ Local(y.dedup, u) = l
    BY <2>2 DEF IsEmitted, Grown
  <2>6. EmitOutcome(y, x, u, e)
    BY <2>2, <2>3, <2>4, <2>5, EmittedOutcome
  <2>7. FreshEdge(y, e)
    BY DEF FreshEdge
  <2> DEFINE w == EdgeOf(u, e, l, Local(x.dedup, Dst[e]))
             es == y.pass.edges
             es2 == x.pass.edges
  <2>8. es \in Seq(EdgeRec) /\ es2 \in Seq(EdgeRec)
    BY <2>2, <2>3 DEF Scratch, Scratches, Passes
  <2>9. \/ es2 = es /\ Dst[e] \notin SampleNodes
        \/ es2 = Append(es, w) /\ Dst[e] \in SampleNodes
    BY <2>5, <2>6, <2>7 DEF EmitOutcome, IsRefusal, IsEmission
  <2>10. w.sl = l
    BY DEF EdgeOf
  <2> HIDE DEF w, es, es2
  <2>11. e = row[picks[o + 1]]
    BY <2>1 DEF e
  <2>12. CountedTo(es0, es2, u, l, picks, o + 1)
    <3>1. CASE es2 = es /\ Dst[e] \notin SampleNodes
      <4> DEFINE v == [src |-> u, dst |-> u, eid |-> 0, sl |-> l, dl |-> 0]
      <4>1. v \in EdgeRec /\ v.sl = l
        BY <1>3 DEF EdgeRec
      <4> HIDE DEF v
      <4>2. CountedTo(es0, es, u, l, picks, o)
        BY <2>2 DEF es
      <4> QED
        BY <1>3, <2>1, <2>8, <2>11, <3>1, <4>1, <4>2, CountedEdge
    <3>2. CASE es2 = Append(es, w) /\ Dst[e] \in SampleNodes
      <4>1. w \in EdgeRec
        <5> DEFINE k == Len(es) + 1
        <5>1. k \in DOMAIN es2 /\ es2[k] = w
          BY <2>8, <3>2
        <5> QED
          BY <2>8, <5>1
      <4>2. CountedTo(es0, es, u, l, picks, o)
        BY <2>2 DEF es
      <4> QED
        BY <1>3, <2>1, <2>8, <2>10, <2>11, <3>2, <4>1, <4>2, CountedEdge, Zenon
    <3> QED
      BY <2>9, <3>1, <3>2
  <2> QED
    BY <2>1, <2>3, <2>12 DEF es2
<1>6. h[n] = <<g[n], n>>
  BY <1>2
<1> HIDE DEF h, T
<1>7. h[n] \in T
  BY <1>2, <1>4, <1>5, Along
<1>8. CountedTo(es0, g[n].pass.edges, u, l, picks, n)
  BY <1>6, <1>7 DEF T
<1> QED
  BY <1>1, <1>8 DEF IsEmitRun, n, es0

\* A node takes what the fanout asks for.
TakenAt(u, h, got) ==
  IF scfg.replace THEN got <= scfg.fanout[h]
  ELSE got <= Picked(u, h) /\ got >= Picked(u, h) - CorruptIn(u)

\* Distinct picks spoil no more edges than the row has corrupt ones.
LEMMA SpoiledAreCorrupt ==
  ASSUME NEW u \in SampleNodes, NEW picks \in Seq(1 .. Len(RowOf(u))), IsInjective(picks)
  PROVE  CorruptIn(u) \in Nat /\ Cardinality(Spoiled(u, picks, Len(picks))) <= CorruptIn(u)
<1> DEFINE row == RowOf(u)
           C == {e \in Range(row) : Dst[e] \notin SampleNodes}
           S == Spoiled(u, picks, Len(picks))
           f == [j \in S |-> row[picks[j]]]
<1>1. row \in Seq(Nat) /\ DOMAIN row = 1 .. Len(row) /\ Len(row) \in Nat
  BY RowIsSeq
<1>2. IsFiniteSet(Range(row))
  <2>1. IsFiniteSet(1 .. Len(row))
    <3>1. 1 \in Int /\ Len(row) \in Int
      BY <1>1
    <3> HIDE DEF row
    <3> QED
      BY <3>1, FS_Interval
  <2>2. row \in Surjection(DOMAIN row, Range(row))
    <3> HIDE DEF row
    <3>1. row = [i \in DOMAIN row |-> row[i]]
      BY <1>1
    <3> QED
      BY <3>1 DEF Surjection, Range
  <2> HIDE DEF row
  <2> QED
    BY <1>1, <2>1, <2>2, FS_Surjection
<1>3. C \in SUBSET Range(row)
  OBVIOUS
<1>4. IsFiniteSet(C)
  <2> HIDE DEF C, row
  <2> QED
    BY <1>2, <1>3, FS_Subset
<1>5. Cardinality(C) \in Nat
  BY <1>4, FS_CardinalityType
<1>6. ASSUME NEW j \in S
      PROVE  j \in DOMAIN picks /\ row[picks[j]] \in Range(row) /\ Dst[row[picks[j]]] \notin SampleNodes
  <2>1. j \in 1 .. Len(picks) /\ Dst[row[picks[j]]] \notin SampleNodes
    BY DEF Spoiled
  <2>2. j \in DOMAIN picks /\ picks[j] \in 1 .. Len(row)
    BY <2>1
  <2>3. row \in Seq(Nat)
    BY RowIsSeq
  <2>4. picks[j] \in DOMAIN row
    <3> HIDE DEF row
    <3> QED
      BY <2>2, <2>3
  <2>5. row[picks[j]] \in Range(row)
    BY <2>4 DEF Range
  <2> QED
    BY <2>1, <2>2, <2>5
<1>7. \A o, q \in DOMAIN row : row[o] = row[q] => o = q
  <2> DEFINE a == Offsets[u]
             c == Offsets[u + 1] - a
  <2>1. a \in Nat
    <3>1. u \in 0 .. NodeCount
      BY SamplerAssumption DEF SampleNodes
    <3> QED
      BY <3>1, SamplerAssumption
  <2>2. row = [i \in 1 .. c |-> a + i]
    BY DEF RowOf
  <2> HIDE DEF a, c
  <2> QED
    BY <2>1, <2>2
<1>8. ASSUME NEW j \in S, NEW k \in S, f[j] = f[k] PROVE j = k
  <2>1. row[picks[j]] = row[picks[k]] /\ j \in DOMAIN picks /\ k \in DOMAIN picks
    BY <1>6, <1>8
  <2>2. picks[j] \in DOMAIN row /\ picks[k] \in DOMAIN row
    <3> DEFINE V == 1 .. Len(row)
    <3>1. picks \in Seq(V) /\ V = DOMAIN row
      BY <1>1
    <3> HIDE DEF V
    <3> QED
      BY <2>1, <3>1
  <2>3. picks[j] = picks[k]
    BY <1>7, <2>1, <2>2
  <2> QED
    BY <2>1, <2>3 DEF IsInjective
<1>9. f \in [S -> C]
  BY <1>6
<1>10. f \in Injection(S, C)
  BY <1>8, <1>9 DEF Injection, IsInjective
<1> HIDE DEF f, S, C
<1>11. Cardinality(S) <= Cardinality(C)
  BY <1>4, <1>10, FS_Injection
<1>12. CorruptIn(u) = Cardinality(C)
  BY DEF CorruptIn, C, row
<1> QED
  BY <1>5, <1>11, <1>12 DEF S

\* A draw with replacement takes no more than it is asked for.
LEMMA ReplacedLength ==
  ASSUME scfg \in Configs, scfg.replace, NEW row \in Seq(Nat), NEW k \in Nat, NEW p \in NormalPicks(row, k)
  PROVE  Len(p) <= k
<1> DEFINE n == Len(row)
           w == [i \in 1 .. n |-> Weight[row[i]]]
           Some(el) == [i \in 1 .. Len(el) |-> w[el[i]]]
           Draws(el) == IF scfg.replace THEN WeightedReplace(Some(el), k)
                                        ELSE WeightedNoReplace(Some(el), k)
<1>1. CASE scfg.weighted
  <2>1. p \in UNION {{Through(el, s) : s \in Draws(el)} : el \in Eligible(row, TRUE)}
    BY <1>1, Zenon DEF NormalPicks, Through
  <2>9. \A el : Draws(el) = WeightedReplace(Some(el), k)
    OBVIOUS
  <2> HIDE DEF Draws, Some
  <2>10. PICK el \in Eligible(row, TRUE) : p \in {Through(el, s) : s \in Draws(el)}
    BY <2>1, Zenon
  <2>2. PICK s \in WeightedReplace(Some(el), k) : p = Through(el, s)
    BY <2>9, <2>10
  <2>3. s = <<>> \/ \E S : s \in [1 .. k -> S]
    BY Zenon DEF WeightedReplace
  <2>4. Len(s) \in Nat /\ Len(s) <= k
    <3>1. CASE s = <<>>
      BY <3>1
    <3>2. CASE \E S : s \in [1 .. k -> S]
      BY <3>2
    <3> QED
      BY <2>3, <3>1, <3>2
  <2>5. Len(p) = Len(s)
    BY <2>2, <2>4 DEF Through
  <2> QED
    BY <2>4, <2>5
<1>2. CASE ~scfg.weighted
  <2>1. p \in [1 .. k -> 1 .. n]
    BY <1>2 DEF NormalPicks
  <2> QED
    BY <2>1
<1> QED
  BY <1>1, <1>2

\* The edges a node gets from its picks are within its fanout.
LEMMA PicksTaken ==
  ASSUME scfg \in Configs, hop \in 1 .. Hops, ~Temporal, NEW u \in SampleNodes, NEW picks \in Picks(u),
         NEW got \in Nat, got + Cardinality(Spoiled(u, picks, Len(picks))) = Len(picks)
  PROVE  TakenAt(u, hop, got)
<1> DEFINE row == RowOf(u)
           most == scfg.fanout[hop]
           n == Len(picks)
           b == Cardinality(Spoiled(u, picks, n))
           c == CorruptIn(u)
           some == HubKeeps(row, scfg.weighted)
<1>1. most \in Nat
  BY SamplerAssumption DEF ConfigOK, Hops
<1>2. row \in Seq(Nat) /\ Len(row) \in Nat
  BY RowIsSeq
<1>3. picks \in Seq(1 .. Len(row))
  BY PicksArePositions
<1>4. n \in Nat
  BY <1>3
<1>5. b \in Nat
  BY <1>4, SpoiledNext
<1>6. (row = <<>> /\ picks = <<>>) \/ picks \in NormalPicks(row, most)
  BY DEF Picks
<1>7. Picked(u, hop) = AtMost(most, some)
  <2> DEFINE z == Len(row)
  <2>1. some = IF scfg.weighted /\ scfg.cap > 0 /\ z > scfg.cap THEN scfg.cap ELSE z
    BY DEF HubKeeps
  <2>2. some \in Nat
    <3>1. scfg.cap \in Nat
      BY SamplerAssumption DEF ConfigOK
    <3> HIDE DEF row
    <3> QED
      BY <1>2, <2>1, <3>1
  <2>3. Picked(u, hop) = IF most < some THEN most ELSE some
    BY <2>1 DEF Picked
  <2> HIDE DEF some, most
  <2> QED
    BY <1>1, <2>2, <2>3 DEF AtMost
<1>8. scfg.cap \in Nat
  BY SamplerAssumption DEF ConfigOK
<1>9. CASE scfg.replace
  <2>1. n <= most
    <3>1. CASE picks = <<>>
      BY <1>1, <3>1
    <3>2. CASE picks \in NormalPicks(row, most)
      <4> HIDE DEF row, most
      <4> QED
        BY <1>1, <1>2, <1>9, <3>2, ReplacedLength
    <3> QED
      BY <1>6, <3>1, <3>2
  <2> HIDE DEF b, n, most
  <2>2. got <= most
    BY <1>1, <1>4, <1>5, <2>1 DEF b, n
  <2> QED
    BY <1>9, <2>2 DEF TakenAt, most
<1>10. CASE ~scfg.replace
  <2>1. n = AtMost(most, some)
    <3>1. CASE row = <<>> /\ picks = <<>>
      <4>1. Len(row) = 0 /\ n = 0
        BY <3>1
      <4>2. some = 0
        <5> HIDE DEF row
        <5> QED
          BY <1>8, <4>1 DEF HubKeeps
      <4> HIDE DEF some, most, row, n
      <4> QED
        BY <1>1, <4>1, <4>2 DEF AtMost
    <3>2. CASE picks \in NormalPicks(row, most)
      <4> HIDE DEF row, most
      <4> QED
        BY <1>1, <1>2, <1>10, <3>2, NormalDraws DEF IsDraw
    <3> QED
      BY <1>6, <3>1, <3>2
  <2>2. IsInjective(picks)
    BY <1>10, PicksOnce
  <2>3. c \in Nat /\ b <= c
    BY <1>3, <2>2, SpoiledAreCorrupt
  <2>4. got + b = n
    OBVIOUS
  <2> HIDE DEF b, n, most, some, c
  <2>5. got <= n /\ got >= n - c
    BY <1>4, <1>5, <2>3, <2>4
  <2> QED
    BY <1>7, <1>10, <2>1, <2>5 DEF TakenAt, c
<1> QED
  BY <1>9, <1>10

-----------------------------------------------------------------------------
(* Induced blocks are whole.                                               *)

\* A sequence of sequences flattened, one after the other.
IsFlattening(a, seqs, n) ==
  /\ a[1] = seqs[1] /\ a[n] = FlattenSeq(seqs)
  /\ \A i \in 2 .. n : a[i] = a[i - 1] \o seqs[i]
LEMMA FlattenRuns ==
  ASSUME NEW E, NEW n \in Nat \ {0}, NEW seqs \in [1 .. n -> Seq(E)]
  PROVE  \E a : IsFlattening(a, seqs, n) /\ \A i \in 1 .. n : a[i] \in Seq(E)
<1> DEFINE T == Seq(E)
           F == [x \in T \X (1 .. n) |-> x[1] \o seqs[x[2]]]
           Run(g) == [i \in 1 .. Len(seqs) |-> IF i = 1 THEN seqs[i] ELSE g[i - 1] \o seqs[i]]
           flatten == CHOOSE g : g = Run(g)
<1>1. Len(seqs) = n /\ n \in Nat /\ n # 0 /\ \A i \in 1 .. n : seqs[i] \in T
  OBVIOUS
<1>2. FlattenSeq(seqs) = flatten[n]
  BY <1>1 DEF FlattenSeq
<1>3. <<>> \in T /\ \A t \in T, i \in 1 .. n : t \o seqs[i] \in T
  BY <1>1
<1> HIDE DEF T
<1>4. F \in [T \X (1 .. n) -> T]
  BY <1>3
<1>5. \A t \in T, i \in 1 .. n : F[<<t, i>>] = t \o seqs[i]
  BY Zenon
<1> HIDE DEF F
<1>6. PICK g : IsRun(g, F, <<>>, n, T)
  BY <1>1, <1>3, <1>4, Repeated, Zenon
<1>7. \A i \in 1 .. n : g[i] = g[i - 1] \o seqs[i] /\ g[i] \in T
  <2> TAKE i \in 1 .. n
  <2>1. i - 1 \in 0 .. n /\ i \in 0 .. n
    BY <1>1
  <2>2. g[i - 1] \in T /\ g[i] \in T
    BY <1>6, <2>1 DEF IsRun
  <2> QED
    BY <1>5, <1>6, <2>2, Zenon DEF IsRun
<1>8. 1 \in 1 .. n /\ g[1] = seqs[1]
  <2>1. 1 \in 1 .. n /\ 1 - 1 = 0
    BY <1>1
  <2>2. g[1] = <<>> \o seqs[1] /\ seqs[1] \in Seq(E)
    BY <1>1, <1>6, <1>7, <2>1, Zenon DEF IsRun, T
  <2> QED
    BY <2>1, <2>2
<1> DEFINE h == [i \in 1 .. n |-> g[i]]
<1>9. h = Run(h)
  <2>1. \A i \in 1 .. n : i # 1 => i - 1 \in 1 .. n
    BY <1>1
  <2>2. \A i \in 1 .. n : h[i] = IF i = 1 THEN seqs[i] ELSE h[i - 1] \o seqs[i]
    BY <1>7, <1>8, <2>1, Zenon
  <2> QED
    BY <1>1, <2>2, Zenon
<1>10. \A f : f = Run(f) => /\ f[1] = seqs[1]
                            /\ \A i \in 2 .. n : f[i] = f[i - 1] \o seqs[i]
  <2> TAKE f
  <2> HAVE f = Run(f)
  <2>1. 1 \in 1 .. n /\ \A i \in 2 .. n : i # 1 /\ i \in 1 .. n
    BY <1>1, <1>8
  <2> QED
    BY <1>1, <2>1, Zenon
<1> HIDE DEF Run
<1>11. flatten = Run(flatten)
  BY <1>9, Zenon
<1> HIDE DEF flatten
<1>12. flatten[1] = seqs[1] /\ \A i \in 2 .. n : flatten[i] = flatten[i - 1] \o seqs[i]
  BY <1>10, <1>11, Zenon
<1>13. ASSUME NEW q \in 1 .. n PROVE flatten[q] \in T
  <2> DEFINE k == q - 1
             a == [i \in 0 .. k |-> flatten[i + 1]]
  <2>1. k \in Nat /\ a[0] \in T /\ a[k] = flatten[q]
    BY <1>1, <1>8, <1>12
  <2>2. \A i \in 1 .. k : a[i - 1] \in T => a[i] \in T
    <3> TAKE i \in 1 .. k
    <3>1. i - 1 \in 0 .. k /\ i \in 0 .. k /\ i + 1 \in 2 .. n /\ i + 1 \in 1 .. n /\ (i + 1) - 1 = i /\ (i - 1) + 1 = i
      BY <1>1
    <3>2. a[i - 1] = flatten[i] /\ a[i] = flatten[i] \o seqs[i + 1]
      BY <1>12, <3>1, Zenon
    <3> QED
      BY <1>3, <3>1, <3>2, Zenon
  <2> HIDE DEF a, k
  <2>3. a[k] \in T
    BY <2>1, <2>2, Along, Zenon
  <2> QED
    BY <2>1, <2>3
<1>14. IsFlattening(flatten, seqs, n)
  BY <1>2, <1>12, Zenon DEF IsFlattening
<1> QED
  BY <1>13, <1>14 DEF T

\* The edges between known nodes out of the first i nodes: each of them, once.
WholeTo(st, r, lo, hi) ==
  /\ \A x, y \in DOMAIN r : r[x].eid = r[y].eid => x = y
  /\ \A x \in DOMAIN r : r[x].sl \in lo .. hi /\ r[x].eid \in Range(RowOf(st.pass.nodes[r[x].sl]))
  /\ \A k \in lo .. hi : \A e \in Range(RowOf(st.pass.nodes[k])) :
       Known(st.dedup, Dst[e]) => \E x \in DOMAIN r : r[x].eid = e /\ r[x].sl = k

\* A row holds each edge id once.
LEMMA RowOnce ==
  ASSUME NEW u \in SampleNodes
  PROVE  IsInjective(RowOf(u))
<1> DEFINE a == Offsets[u]
           c == Offsets[u + 1] - a
<1>1. a \in Nat
  <2>1. u \in 0 .. NodeCount
    BY SamplerAssumption DEF SampleNodes
  <2> QED
    BY <2>1, SamplerAssumption
<1>2. RowOf(u) = [i \in 1 .. c |-> a + i]
  BY DEF RowOf
<1> HIDE DEF a, c
<1> QED
  BY <1>1, <1>2 DEF IsInjective

\* The induced edges from one node are all its edges to the nodes of the block.
LEMMA EdgesFromWhole ==
  ASSUME ~Temporal, NEW st \in Scratch, NEW ul \in DOMAIN st.pass.nodes
  PROVE  WholeTo(st, EdgesFrom(st, ul), ul, ul)
<1> DEFINE u == st.pass.nodes[ul]
           row == RowOf(u)
           S == {e \in Range(row) : /\ Temporal => Timestamp[e] < st.pass.times[ul]
                                    /\ Known(st.dedup, Dst[e])}
           held == Kept(row, S)
           r == EdgesFrom(st, ul)
<1>1. u \in SampleNodes /\ ul \in Nat
  BY DEF Scratch, Scratches, Passes
<1>2. row \in Seq(Nat) /\ IsInjective(row)
  BY <1>1, RowIsSeq, RowOnce
<1>3. S = {e \in Range(row) : Known(st.dedup, Dst[e])}
  OBVIOUS
<1> HIDE DEF u, row, S
<1>4. held \in Seq(Nat) /\ IsInjective(held)
  BY <1>2, KeptOnce
<1>5. PICK m : IsPart(held, row, S, m, Len(row))
  BY <1>2, KeptPart, Zenon
<1>6. held \in Seq({x \in Nat : x \in S /\ x \in Range(row)})
  BY <1>2, KeptEntries
<1> HIDE DEF held
<1>7. DOMAIN held = 1 .. Len(held) /\ Len(held) \in Nat /\ \A i \in DOMAIN held : held[i] \in Range(row)
  BY <1>6
<1>8. r = [i \in 1 .. Len(held) |->
             [src |-> u, dst |-> Dst[held[i]], eid |-> held[i], sl |-> ul, dl |-> Local(st.dedup, Dst[held[i]])]]
  BY DEF EdgesFrom, held, S, row, u
<1> HIDE DEF r
<1>9. DOMAIN r = DOMAIN held /\ \A i \in DOMAIN r : r[i].eid = held[i] /\ r[i].sl = ul
  BY <1>7, <1>8
<1>10. \A x, y \in DOMAIN r : r[x].eid = r[y].eid => x = y
  BY <1>4, <1>9 DEF IsInjective
<1>11. \A x \in DOMAIN r : r[x].sl \in ul .. ul /\ r[x].eid \in Range(RowOf(st.pass.nodes[r[x].sl]))
  BY <1>1, <1>7, <1>9 DEF row, u
<1>12. ASSUME NEW k \in ul .. ul, NEW e \in Range(RowOf(st.pass.nodes[k])), Known(st.dedup, Dst[e])
       PROVE  \E x \in DOMAIN r : r[x].eid = e /\ r[x].sl = k
  <2>1. k = ul
    BY <1>1
  <2>2. e \in Range(row) /\ e \in S
    BY <1>3, <1>12, <2>1 DEF row, u
  <2>3. PICK i \in DOMAIN row : row[i] = e
    BY <2>2 DEF Range
  <2>4. i \in 1 .. Len(row)
    BY <1>2
  <2>5. PICK x \in 1 .. Len(held) : m[x] = i
    BY <1>5, <2>2, <2>3, <2>4 DEF IsPart
  <2>6. held[x] = e
    BY <1>5, <2>3, <2>5 DEF IsPart
  <2> QED
    BY <1>7, <1>9, <2>1, <2>5, <2>6
<1>13. WholeTo(st, r, ul, ul)
  BY <1>10, <1>11, <1>12 DEF WholeTo
<1> QED
  BY <1>13 DEF r

\* The induced edges of one more node go behind those of the nodes before.
LEMMA WholeJoined ==
  ASSUME NEW st \in Scratch, NEW i \in Nat \ {0}, i + 1 \in DOMAIN st.pass.nodes, NEW E, NEW r \in Seq(E), NEW s \in Seq(E),
         WholeTo(st, r, 1, i), WholeTo(st, s, i + 1, i + 1)
  PROVE  WholeTo(st, r \o s, 1, i + 1)
<1> DEFINE q == i + 1
           t == r \o s
           N == st.pass.nodes
<1>1. IsJoin(r, s, t)
  BY JoinedEntries
<1>2. /\ N \in Seq(SampleNodes) /\ DOMAIN N = 1 .. Len(N) /\ Matched(st.dedup, N)
  BY DEF Scratch, Scratches, Passes, Sound
<1>3. /\ q \in DOMAIN N /\ \A k \in 1 .. i : k \in DOMAIN N /\ k # q /\ k \in 1 .. q
      /\ \A k \in 1 .. q : k = q \/ k \in 1 .. i
      /\ q \in 1 .. q /\ q .. q = {q}
  BY <1>2
<1>4. \A a, b \in DOMAIN N : N[a] = N[b] => a = b
  BY <1>2 DEF Matched
<1>5. /\ \A x \in DOMAIN r : x \in DOMAIN t /\ t[x] = r[x]
      /\ \A y \in DOMAIN s : Len(r) + y \in DOMAIN t /\ t[Len(r) + y] = s[y]
      /\ \A z \in DOMAIN t : z \in DOMAIN r \/ \E y \in DOMAIN s : z = Len(r) + y
  BY <1>1, Zenon DEF IsJoin
<1> HIDE DEF t, q, N
<1>6. \A x \in DOMAIN r : r[x].sl \in 1 .. i /\ r[x].eid \in Range(RowOf(N[r[x].sl]))
  BY DEF WholeTo, N
<1>7. \A y \in DOMAIN s : s[y].sl = q /\ s[y].eid \in Range(RowOf(N[q]))
  <2>1. \A y \in DOMAIN s : s[y].sl \in q .. q /\ s[y].eid \in Range(RowOf(N[s[y].sl]))
    BY DEF WholeTo, N, q
  <2> QED
    BY <1>3, <2>1
<1>8. ASSUME NEW x \in DOMAIN r, NEW y \in DOMAIN s PROVE r[x].eid # s[y].eid
  <2> SUFFICES ASSUME r[x].eid = s[y].eid PROVE FALSE
    OBVIOUS
  <2> DEFINE a == r[x].sl
  <2>1. a \in DOMAIN N /\ a # q /\ N[a] \in SampleNodes /\ N[q] \in SampleNodes
    BY <1>2, <1>3, <1>6
  <2>2. r[x].eid \in Range(RowOf(N[a])) /\ r[x].eid \in Range(RowOf(N[q]))
    BY <1>6, <1>7
  <2> HIDE DEF a
  <2>3. N[a] = N[q]
    BY <2>1, <2>2, RowsApart
  <2> QED
    BY <1>3, <1>4, <2>1, <2>3
<1>9. ASSUME NEW x \in DOMAIN t, NEW y \in DOMAIN t, t[x].eid = t[y].eid PROVE x = y
  <2>1. \A a, b \in DOMAIN r : r[a].eid = r[b].eid => a = b
    BY DEF WholeTo
  <2>2. \A a, b \in DOMAIN s : s[a].eid = s[b].eid => a = b
    BY DEF WholeTo
  <2>3. CASE x \in DOMAIN r /\ y \in DOMAIN r
    BY <1>5, <1>9, <2>1, <2>3
  <2>4. CASE x \in DOMAIN r /\ \E o \in DOMAIN s : y = Len(r) + o
    BY <1>5, <1>8, <1>9, <2>4
  <2>5. CASE y \in DOMAIN r /\ \E o \in DOMAIN s : x = Len(r) + o
    BY <1>5, <1>8, <1>9, <2>5
  <2>6. CASE (\E o \in DOMAIN s : x = Len(r) + o) /\ (\E o \in DOMAIN s : y = Len(r) + o)
    <3>1. PICK o \in DOMAIN s : x = Len(r) + o
      BY <2>6
    <3>2. PICK p \in DOMAIN s : y = Len(r) + p
      BY <2>6
    <3>3. o = p
      BY <1>5, <1>9, <2>2, <3>1, <3>2
    <3> QED
      BY <3>1, <3>2, <3>3
  <2> QED
    BY <1>5, <2>3, <2>4, <2>5, <2>6
<1>10. ASSUME NEW x \in DOMAIN t PROVE t[x].sl \in 1 .. q /\ t[x].eid \in Range(RowOf(N[t[x].sl]))
  <2>1. CASE x \in DOMAIN r
    BY <1>3, <1>5, <1>6, <2>1
  <2>2. CASE \E o \in DOMAIN s : x = Len(r) + o
    BY <1>3, <1>5, <1>7, <2>2
  <2> QED
    BY <1>5, <2>1, <2>2
<1>11. ASSUME NEW k \in 1 .. q, NEW e \in Range(RowOf(N[k])), Known(st.dedup, Dst[e])
       PROVE  \E x \in DOMAIN t : t[x].eid = e /\ t[x].sl = k
  <2>1. CASE k = q
    <3>1. PICK y \in DOMAIN s : s[y].eid = e /\ s[y].sl = k
      BY <1>3, <1>11, <2>1 DEF WholeTo, N, q
    <3> QED
      BY <1>5, <3>1
  <2>2. CASE k \in 1 .. i
    <3>1. PICK y \in DOMAIN r : r[y].eid = e /\ r[y].sl = k
      BY <1>11, <2>2 DEF WholeTo, N
    <3> QED
      BY <1>5, <3>1
  <2> QED
    BY <1>3, <2>1, <2>2
<1>12. WholeTo(st, t, 1, q)
  BY <1>9, <1>10, <1>11 DEF WholeTo, N
<1> QED
  BY <1>12 DEF t, q

\* The induced edges are all the edges between the nodes of the block.
LEMMA InducedWhole ==
  ASSUME ~Temporal, NEW st \in Scratch
  PROVE  WholeTo(st, Induce(st), 1, Len(st.pass.nodes))
<1> DEFINE n == Len(st.pass.nodes)
           E == {e \in EdgeRec : RealEdge(st.pass.nodes, e)}
           seqs == [ul \in 1 .. n |-> EdgesFrom(st, ul)]
<1>1. n \in Nat /\ DOMAIN st.pass.nodes = 1 .. n
  BY DEF Scratch, Scratches, Passes
<1>2. seqs \in [1 .. n -> Seq(E)]
  BY <1>1, EdgesFromNode
<1>3. Induce(st) = FlattenSeq(seqs)
  BY DEF Induce
<1>4. CASE n = 0
  <2>1. Len(seqs) = 0 /\ seqs = <<>>
    BY <1>1, <1>4
  <2>2. Induce(st) = <<>>
    BY <1>3, <2>1 DEF FlattenSeq
  <2> HIDE DEF n, seqs
  <2> QED
    BY <1>4, <2>2 DEF WholeTo, n
<1>5. CASE n # 0
  <2> HIDE DEF E, seqs, n
  <2>1. n \in Nat \ {0}
    BY <1>1, <1>5
  <2>2. PICK a : IsFlattening(a, seqs, n) /\ \A i \in 1 .. n : a[i] \in Seq(E)
    BY <1>2, <2>1, FlattenRuns
  <2>3. \A i \in 1 .. n : seqs[i] \in Seq(E) /\ WholeTo(st, seqs[i], i, i)
    BY <1>1, <1>2, EdgesFromWhole DEF seqs
  <2> DEFINE k == n - 1
             T == {y \in Seq(E) \X (1 .. n) : WholeTo(st, y[1], 1, y[2])}
             h == [i \in 0 .. k |-> <<a[i + 1], i + 1>>]
  <2>4. k \in Nat /\ h[k] = <<a[n], n>> /\ n \in 1 .. n
    BY <2>1
  <2>5. h[0] \in T
    <3> DEFINE z == a[1]
    <3>1. h[0] = <<z, 1>> /\ 1 \in 1 .. n /\ z \in Seq(E) /\ WholeTo(st, z, 1, 1)
      BY <2>1, <2>2, <2>3 DEF IsFlattening
    <3> HIDE DEF h, z
    <3> QED
      BY <3>1
  <2>6. ASSUME NEW i \in 1 .. k, h[i - 1] \in T PROVE h[i] \in T
    <3> DEFINE x == a[i]
               q == i + 1
               y == a[q]
    <3>1. /\ i - 1 \in 0 .. k /\ i \in 0 .. k /\ (i - 1) + 1 = i /\ q \in 2 .. n /\ q \in 1 .. n /\ q - 1 = i
          /\ i \in 1 .. n /\ i \in Nat \ {0}
      BY <2>1
    <3>2. h[i - 1] = <<x, i>> /\ h[i] = <<y, q>>
      BY <3>1
    <3>3. y = x \o seqs[q] /\ x \in Seq(E) /\ y \in Seq(E)
      BY <2>2, <3>1, Zenon DEF IsFlattening
    <3> HIDE DEF h, x, y
    <3>4. WholeTo(st, x, 1, i)
      BY <2>6, <3>2
    <3>5. seqs[q] \in Seq(E) /\ WholeTo(st, seqs[q], q, q)
      BY <2>3, <3>1
    <3>6. WholeTo(st, x \o seqs[q], 1, q)
      BY <1>1, <3>1, <3>3, <3>4, <3>5, WholeJoined, Zenon
    <3>7. y \in Seq(E) /\ q \in 1 .. n /\ WholeTo(st, y, 1, q)
      BY <3>1, <3>3, <3>6
    <3> HIDE DEF q
    <3> QED
      BY <3>2, <3>7
  <2> HIDE DEF h, k, T
  <2>7. h[k] \in T
    BY <2>4, <2>5, <2>6, Along
  <2>8. WholeTo(st, a[n], 1, n)
    BY <2>4, <2>7 DEF T
  <2> QED
    BY <1>3, <2>2, <2>8 DEF IsFlattening, n
<1> QED
  BY <1>4, <1>5

-----------------------------------------------------------------------------
(* What a pass keeps while it expands.                                     *)

PassAligned(p, x) == Aligned(p) /\ x \in Nat /\ x <= Len(p.frontier)
PassOnce(p, h, x) == ~scfg.replace => OnceTo(p, h, Start(p) + x + 1, {})

\* Which hop brought a node; and every node expanded took what was asked.
IsHop(counts, k, g) == k <= NodesBy(counts, g) /\ \A f \in 0 .. g - 1 : k > NodesBy(counts, f)
HasTaken(counts, u, es, k, h) ==
  \E g \in 1 .. Hops : g <= h /\ IsHop(counts, k, g - 1) /\ TakenAt(u, g, Cardinality(OutOf(es, k)))
Fanned(p, counts, h, x) ==
  /\ \A g \in h .. Hops : counts[g] = 0
  /\ Start(p) + Len(p.frontier) = NodesBy(counts, h - 1)
  /\ Start(p) = IF h = 1 THEN 0 ELSE NodesBy(counts, h - 2)
  /\ \A k \in DOMAIN p.nodes : IF k <= Start(p) + x THEN HasTaken(counts, p.nodes[k], p.edges, k, h)
                               ELSE OutOf(p.edges, k) = {}

\* The step of an expansion.
IsExpansion(st, u, picks, l) ==
  /\ st = [dedup |-> dedup, pass |-> pass] /\ st \in Scratch /\ scfg \in Configs
  /\ hop \in 1 .. Hops /\ hop \in Nat /\ expanded \in Nat /\ expanded < Len(st.pass.frontier)
  /\ u \in SampleNodes /\ Known(st.dedup, u) /\ picks \in Picks(u) /\ picks \in Seq(1 .. Len(RowOf(u)))
  /\ l \in Nat /\ l = Local(st.dedup, u)
  /\ PassAligned(st.pass, expanded) => l = Start(st.pass) + expanded + 1
  /\ scfg' = scfg /\ hop' = hop /\ scall' = scall /\ sphase' = "hops" /\ expanded' = expanded + 1
  /\ [dedup |-> dedup', pass |-> pass'] = EmitPicks(st, u, picks)
LEMMA ExpandFacts ==
  ASSUME SamplerInv, Expand
  PROVE  \E st, u, picks, l : IsExpansion(st, u, picks, l)
<1> DEFINE st == [dedup |-> dedup, pass |-> pass]
           u == pass.frontier[expanded + 1]
           l == Local(dedup, u)
<1>1. /\ scfg \in Configs /\ InPass(scall, st, hop, expanded)
      /\ scfg' = scfg /\ sphase' = "hops" /\ hop' = hop /\ scall' = scall
      /\ expanded' = expanded + 1 /\ hop <= Hops /\ expanded < Len(pass.frontier)
  BY DEF SamplerInv, Between, Within, Expand
<1>2. st \in Scratch /\ hop \in 1 .. Hops + 1 /\ expanded \in Nat
  BY <1>1 DEF InPass
<1>3. /\ pass.frontier \in Seq(SampleNodes) /\ AllKnown(dedup, pass.frontier)
      /\ pass.nodes \in Seq(SampleNodes) /\ Matched(dedup, pass.nodes)
  BY <1>2 DEF Scratch, Scratches, Passes, Sound
<1>4. expanded + 1 \in DOMAIN pass.frontier /\ u \in SampleNodes /\ Known(dedup, u)
  <2>1. expanded + 1 \in 1 .. Len(pass.frontier)
    BY <1>1, <1>2, <1>3
  <2>2. u \in SampleNodes
    BY <1>3, <2>1, ElementOfSeq
  <2>3. expanded + 1 \in DOMAIN pass.frontier
    BY <1>3, <2>1
  <2> QED
    BY <1>3, <2>2, <2>3 DEF AllKnown
<1>5. PICK picks \in Picks(u) : dedup' = EmitPicks(st, u, picks).dedup /\ pass' = EmitPicks(st, u, picks).pass
  BY DEF Expand
<1> DEFINE x == EmitPicks(st, u, picks)
<1>6. hop \in 1 .. Hops /\ hop \in Nat
  <2>1. Hops \in Nat
    BY <1>1, SamplerAssumption DEF Hops, ConfigOK
  <2> QED
    BY <1>1, <1>2, <2>1
<1>7. picks \in Seq(1 .. Len(RowOf(u)))
  BY <1>1, <1>4, <1>6, PicksArePositions
<1>8. Known(st.dedup, u)
  BY <1>4
<1>9. l \in DOMAIN pass.nodes /\ pass.nodes[l] = u /\ l \in Nat
  <2>1. l \in DOMAIN pass.nodes /\ pass.nodes[l] = u
    BY <1>3, <1>4 DEF Matched
  <2> QED
    BY <1>3, <2>1
<1>10. ASSUME PassAligned(pass, expanded) PROVE l = Start(pass) + expanded + 1
  <2>1. Start(pass) \in Nat /\ pass.nodes[Start(pass) + (expanded + 1)] = u
    BY <1>4, <1>10 DEF PassAligned, Aligned
  <2> DEFINE s == Start(pass)
             q == s + (expanded + 1)
             a == Len(pass.nodes)
             b == Len(pass.frontier)
             c == Len(pass.next)
  <2>2. a \in Nat /\ b \in Nat /\ c \in Nat /\ s = a - b - c /\ expanded < b
    BY <1>1, <1>2 DEF Scratch, Scratches, Passes, Start
  <2>3. q \in 1 .. a
    <3> HIDE DEF a, b, c, s
    <3> QED
      BY <1>2, <2>1, <2>2 DEF s
  <2>4. q \in DOMAIN pass.nodes
    BY <1>3, <2>3
  <2>5. Local(dedup, pass.nodes[q]) = q
    BY <1>3, <2>4 DEF Matched
  <2>6. l = q
    BY <2>1, <2>5
  <2> QED
    BY <1>2, <2>1, <2>6
<1> HIDE DEF u
<1>11. IsEmitted(st, x)
  <2> HIDE DEF st
  <2> QED
    BY <1>2, <1>4, <1>6, <1>7, <1>8, EmittedPicks
<1>12. [dedup |-> dedup', pass |-> pass'] = x
  <2> HIDE DEF x
  <2>1. x \in Scratch
    BY <1>11 DEF IsEmitted
  <2> QED
    BY <1>5, <2>1 DEF x, Scratch, Scratches
<1>13. st.pass = pass /\ st.dedup = dedup
  OBVIOUS
<1> HIDE DEF st, x, l
<1>14. IsExpansion(st, u, picks, l)
  BY <1>1, <1>2, <1>4, <1>5, <1>6, <1>7, <1>8, <1>9, <1>10, <1>12, <1>13 DEF IsExpansion, x, l, st
<1> QED
  BY <1>14

\* Expanding a node keeps what is queued at the tail of the nodes.
LEMMA ExpandAligned ==
  ASSUME NEW st, NEW u, NEW picks, NEW l, IsExpansion(st, u, picks, l), PassAligned(st.pass, expanded)
  PROVE  LET p == EmitPicks(st, u, picks).pass
         IN PassAligned(p, expanded + 1) /\ Start(p) = Start(st.pass)
<1>1. st \in Scratch /\ hop \in Nat /\ u \in SampleNodes /\ Known(st.dedup, u) /\ picks \in Seq(1 .. Len(RowOf(u)))
  BY DEF IsExpansion
<1> DEFINE x == EmitPicks(st, u, picks)
<1>2. Aligned(st.pass)
  BY DEF PassAligned
<1>3. Aligned(x.pass) /\ Start(x.pass) = Start(st.pass)
  BY <1>1, <1>2, PickedAligned
<1>4. x.pass.frontier = st.pass.frontier
  BY <1>1, EmittedPicks, Zenon DEF IsEmitted
<1>5. expanded \in Nat /\ expanded < Len(st.pass.frontier) /\ Len(st.pass.frontier) \in Nat
  BY DEF IsExpansion, Scratch, Scratches, Passes
<1> DEFINE c == Len(st.pass.frontier)
<1> HIDE DEF x, c
<1>6. expanded + 1 \in Nat /\ expanded + 1 <= c
  BY <1>5 DEF c
<1> QED
  BY <1>3, <1>4, <1>6 DEF PassAligned, x, c

\* Expanding a node without replacement returns no edge of it twice.
LEMMA ExpandOnce ==
  ASSUME NEW st, NEW u, NEW picks, NEW l, IsExpansion(st, u, picks, l), PassAligned(st.pass, expanded),
         PassOnce(st.pass, hop, expanded)
  PROVE  PassOnce(EmitPicks(st, u, picks).pass, hop, expanded + 1)
<1> SUFFICES ASSUME ~scfg.replace
             PROVE  LET p == EmitPicks(st, u, picks).pass IN OnceTo(p, hop, Start(p) + (expanded + 1) + 1, {})
  BY DEF PassOnce
<1>1. /\ st \in Scratch /\ hop \in Nat /\ u \in SampleNodes /\ Known(st.dedup, u)
      /\ picks \in Seq(1 .. Len(RowOf(u))) /\ l \in Nat /\ l = Local(st.dedup, u)
      /\ l = Start(st.pass) + expanded + 1 /\ expanded \in Nat /\ Start(st.pass) \in Nat
  BY DEF IsExpansion, PassAligned, Aligned
<1>2. IsInjective(picks)
  BY PicksOnce DEF IsExpansion
<1>3. OnceTo(st.pass, hop, l, {})
  BY <1>1 DEF PassOnce
<1> DEFINE x == EmitPicks(st, u, picks)
           E == DrawnOf(u, picks, Len(picks))
<1>4. OnceTo(x.pass, hop, l, E)
  BY <1>1, <1>2, <1>3, OncePicked, Zenon
<1>5. Start(x.pass) = Start(st.pass)
  BY ExpandAligned
<1>6. x \in Scratch
  BY <1>1, EmittedPicks, Zenon DEF IsEmitted
<1> DEFINE q == Start(x.pass) + (expanded + 1) + 1
<1>7. q = l + 1
  BY <1>1, <1>5
<1> HIDE DEF x, E, q
<1>8. \A i \in DOMAIN x.pass.edges : x.pass.edges[i].sl <= l => x.pass.edges[i].sl <= q /\ x.pass.edges[i].sl # q
  <2> TAKE i \in DOMAIN x.pass.edges
  <2> DEFINE k == x.pass.edges[i].sl
  <2>1. k \in Nat
    BY <1>6, EdgesTyped DEF EdgeRec
  <2> HIDE DEF k
  <2>2. k <= l => k <= q /\ k # q
    BY <1>1, <1>7, <2>1
  <2> QED
    BY <2>2 DEF k
<1>9. OnceTo(x.pass, hop, q, {})
  BY <1>4, <1>8 DEF OnceTo
<1> QED
  BY <1>9 DEF q, x

\* Expanding a node under its bound leads to no later edge.
LEMMA ExpandCausal ==
  ASSUME Temporal, NEW st, NEW u, NEW picks, NEW l, IsExpansion(st, u, picks, l),
         NEW R, CausalPass(st.pass, R)
  PROVE  CausalPass(EmitPicks(st, u, picks).pass, R)
<1>1. /\ st \in Scratch /\ hop \in Nat /\ u \in SampleNodes /\ Known(st.dedup, u)
      /\ picks \in Seq(1 .. Len(RowOf(u)))
      /\ st.dedup = dedup /\ st.pass = pass
  BY DEF IsExpansion
<1>2. \A i \in DOMAIN picks : Timestamp[RowOf(u)[picks[i]]] < pass.times[Local(dedup, u)]
  BY PicksEarly, Zenon DEF IsExpansion
<1> QED
  BY <1>1, <1>2, CausalPicked, Zenon

\* Expanding a node takes the edges its fanout asks for.
LEMMA ExpandFanned ==
  ASSUME ~Temporal, ~scfg.cumulative, NEW st, NEW u, NEW picks, NEW l, IsExpansion(st, u, picks, l),
         PassAligned(st.pass, expanded), NEW counts \in [0 .. Hops -> Nat], Fanned(st.pass, counts, hop, expanded)
  PROVE  Fanned(EmitPicks(st, u, picks).pass, counts, hop, expanded + 1)
<1> DEFINE x == EmitPicks(st, u, picks)
           p == st.pass
           q == x.pass
           s == Start(p)
           n == Len(p.nodes)
           n2 == Len(q.nodes)
           c == Len(p.frontier)
           got == Cardinality(OutOf(q.edges, l))
<1>1. /\ st \in Scratch /\ hop \in 1 .. Hops /\ hop \in Nat /\ u \in SampleNodes /\ Known(st.dedup, u)
      /\ picks \in Picks(u) /\ picks \in Seq(1 .. Len(RowOf(u))) /\ l \in Nat /\ l = Local(st.dedup, u)
      /\ l = s + expanded + 1 /\ expanded \in Nat /\ expanded < c /\ s \in Nat /\ scfg \in Configs
  BY DEF IsExpansion, PassAligned, Aligned
<1>2. IsEmitted(st, x)
  BY <1>1, EmittedPicks
<1>3. Start(q) = s
  BY ExpandAligned
<1> HIDE DEF x
<1>4. x \in Scratch /\ Grown(st, x) /\ q.frontier = p.frontier
  BY <1>2 DEF IsEmitted
<1>5. /\ n \in Nat /\ n2 \in Nat /\ DOMAIN p.nodes = 1 .. n /\ DOMAIN q.nodes = 1 .. n2 /\ c \in Nat /\ Len(p.next) \in Nat
      /\ s = n - c - Len(p.next)
      /\ l \in 1 .. n /\ p.nodes[l] = u
  <2>1. /\ p.nodes \in Seq(SampleNodes) /\ q.nodes \in Seq(SampleNodes) /\ p.frontier \in Seq(SampleNodes)
        /\ p.next \in Seq(SampleNodes)
    BY <1>1, <1>4, Zenon DEF Scratch, Scratches, Passes
  <2>2. /\ n \in Nat /\ n2 \in Nat /\ DOMAIN p.nodes = 1 .. n /\ DOMAIN q.nodes = 1 .. n2 /\ c \in Nat
        /\ Len(p.next) \in Nat
    <3> HIDE DEF p, q
    <3> QED
      BY <2>1
  <2>3. s = n - c - Len(p.next)
    BY DEF Start
  <2>4. l \in DOMAIN p.nodes /\ p.nodes[l] = u
    BY <1>1, Zenon DEF Scratch, Sound, Matched
  <2> HIDE DEF p, q, s, n, n2, c
  <2> QED
    BY <2>2, <2>3, <2>4
<1>6. \A k \in 1 .. n : k \in 1 .. n2 /\ q.nodes[k] = p.nodes[k]
  BY <1>4, <1>5, Zenon DEF Grown
<1>7. /\ \A g \in hop .. Hops : counts[g] = 0
      /\ s + c = NodesBy(counts, hop - 1)
      /\ s = IF hop = 1 THEN 0 ELSE NodesBy(counts, hop - 2)
      /\ \A k \in 1 .. n : IF k <= s + expanded THEN HasTaken(counts, p.nodes[k], p.edges, k, hop)
                           ELSE OutOf(p.edges, k) = {}
  BY <1>5, Zenon DEF Fanned
<1>8. OutOf(p.edges, l) = {}
  <2>1. ~(l <= s + expanded)
    <3> HIDE DEF s
    <3> QED
      BY <1>1
  <2> QED
    BY <1>5, <1>7, <2>1, Zenon
<1>9. CountedTo(p.edges, q.edges, u, l, picks, Len(picks))
  BY <1>1, <1>7, <1>8, PickedCounts, Zenon DEF x
<1>10. got \in Nat /\ got + Cardinality(Spoiled(u, picks, Len(picks))) = Len(picks)
  <2>1. IsFiniteSet(OutOf(q.edges, l))
    BY <1>9 DEF CountedTo
  <2>2. got \in Nat
    BY <2>1, FS_CardinalityType
  <2> QED
    BY <1>9, <2>2 DEF CountedTo
<1> HIDE DEF got
<1>11. TakenAt(u, hop, got)
  BY <1>1, <1>10, PicksTaken
<1> DEFINE h == hop
<1>12. IsHop(counts, l, h - 1)
  <2>1. l <= s + c
    <3> HIDE DEF s, c
    <3> QED
      BY <1>1, <1>5
  <2>2. Hops \in Nat
    BY <1>1, SamplerAssumption DEF Hops, ConfigOK
  <2>3. ASSUME NEW f \in 0 .. h - 1 - 1 PROVE l > NodesBy(counts, f)
    <3>1. h # 1 /\ f \in 0 .. Hops /\ h - 2 \in 0 .. Hops /\ f <= h - 2
      BY <1>1, <2>2
    <3>2. NodesBy(counts, f) <= NodesBy(counts, h - 2) /\ NodesBy(counts, f) \in Nat
      BY <2>2, <3>1, LevelFacts, Zenon
    <3>3. s = NodesBy(counts, h - 2)
      BY <1>7, <3>1
    <3> DEFINE a == NodesBy(counts, f)
    <3> HIDE DEF a, s
    <3>4. a <= s /\ a \in Nat
      BY <3>2, <3>3 DEF a
    <3>5. l > a
      BY <1>1, <3>4
    <3> QED
      BY <3>5 DEF a
  <2> QED
    BY <1>7, <2>1, <2>3 DEF IsHop
<1>13. \A k \in Nat : k # l => OutOf(q.edges, k) = OutOf(p.edges, k)
  BY <1>9 DEF CountedTo
<1>14. \A k \in Nat : k \notin 1 .. n => OutOf(p.edges, k) = {}
  <2>1. \A i \in DOMAIN p.edges : p.edges[i].sl \in 1 .. n
    BY <1>1, <1>5, EdgesTyped, Zenon DEF RealEdge
  <2> QED
    BY <2>1 DEF OutOf
<1>15. ASSUME NEW k \in 1 .. n2
       PROVE  IF k <= s + (expanded + 1) THEN HasTaken(counts, q.nodes[k], q.edges, k, h)
              ELSE OutOf(q.edges, k) = {}
  <2>1. k \in Nat /\ (k = l \/ k <= s + expanded \/ ~(k <= s + (expanded + 1)))
        /\ l <= s + (expanded + 1) /\ (k <= s + expanded => k <= s + (expanded + 1) /\ k # l)
        /\ (~(k <= s + (expanded + 1)) => ~(k <= s + expanded) /\ k # l)
    <3>1. k \in Nat
      <4> HIDE DEF n2
      <4> QED
        BY <1>5
    <3> HIDE DEF s, n, n2, c
    <3> QED
      BY <1>1, <3>1
  <2>2. CASE k = l
    <3>1. HasTaken(counts, u, q.edges, l, h)
      BY <1>1, <1>11, <1>12 DEF HasTaken, got
    <3>2. q.nodes[k] = u
      BY <1>5, <1>6, <2>2
    <3> HIDE DEF s, q
    <3> QED
      BY <2>1, <2>2, <3>1, <3>2
  <2>3. CASE k <= s + expanded
    <3>1. k \in 1 .. n
      <4>1. k >= 1
        <5> HIDE DEF n2
        <5> QED
          BY <1>5
      <4> DEFINE z == Len(p.next)
      <4>2. s = n - c - z /\ z \in Nat
        BY <1>5
      <4> HIDE DEF n, c, s, z
      <4> QED
        BY <1>1, <1>5, <2>1, <2>3, <4>1, <4>2, SMTT(60)
    <3>2. HasTaken(counts, p.nodes[k], p.edges, k, h) /\ q.nodes[k] = p.nodes[k] /\ OutOf(q.edges, k) = OutOf(p.edges, k)
      BY <1>6, <1>7, <1>13, <2>1, <2>3, <3>1
    <3>3. HasTaken(counts, q.nodes[k], q.edges, k, h)
      BY <3>2 DEF HasTaken
    <3> QED
      BY <2>1, <2>3, <3>3
  <2>4. CASE ~(k <= s + (expanded + 1))
    <3>1. OutOf(p.edges, k) = {}
      BY <1>7, <1>14, <2>1, <2>4
    <3> QED
      BY <1>13, <2>1, <2>4, <3>1
  <2> HIDE DEF s
  <2> QED
    BY <2>1, <2>2, <2>3, <2>4
<1>16. Start(q) + Len(q.frontier) = NodesBy(counts, h - 1)
  BY <1>3, <1>4, <1>7
<1> QED
  BY <1>3, <1>5, <1>7, <1>15, <1>16 DEF Fanned, x

\* The step that ends a hop.
SameBlocks(call, call2) ==
  /\ call2 \in Calls /\ call2.begun = call.begun /\ call2.seeds = call.seeds /\ call2.times = call.times
  /\ call2.out.nodes = call.out.nodes /\ call2.out.edges = call.out.edges /\ call2.out.batch = call.out.batch
  /\ call2.out.seedLocals = call.out.seedLocals
IsHopEnd(st, x, front) ==
  /\ st = [dedup |-> dedup, pass |-> pass] /\ st \in Scratch /\ scfg \in Configs
  /\ Hops \in Nat /\ hop \in 1 .. Hops /\ expanded = Len(st.pass.frontier)
  /\ front \in Seq(SampleNodes)
  /\ front = IF scfg.cumulative THEN st.pass.frontier \o st.pass.next ELSE st.pass.next
  /\ x.pass.nodes = st.pass.nodes /\ x.pass.times = st.pass.times /\ x.pass.edges = st.pass.edges
  /\ x.pass.emitted = st.pass.emitted /\ x.pass.frontier = front /\ x.pass.next = <<>>
  /\ x = [dedup |-> dedup', pass |-> pass']
  /\ scfg' = scfg /\ hop' = hop + 1 /\ sphase' = "hops" /\ expanded' = 0
  /\ scall \in Calls /\ SameBlocks(scall, scall')
  /\ IsAdded(scall.out.newNodes, scall'.out.newNodes, hop, Len(st.pass.next))
LEMMA HopFacts ==
  ASSUME SamplerInv, EndHop
  PROVE  \E st, x, front : IsHopEnd(st, x, front)
<1> DEFINE st == [dedup |-> dedup, pass |-> pass]
           front == IF scfg.cumulative THEN pass.frontier \o pass.next ELSE pass.next
           counts == scall.out.newNodes
           counts2 == [counts EXCEPT ![hop] = @ + Len(pass.next)]
           found == scall.out.newEdges
           found2 == [found EXCEPT ![hop] = @ + Len(pass.edges) - pass.counted]
           call2 == HopCall(scall, HopOut(scall.out, counts2, found2))
           x == [dedup |-> dedup', pass |-> pass']
<1>1. /\ scfg \in Configs /\ InPass(scall, st, hop, expanded)
      /\ scfg' = scfg /\ sphase' = "hops" /\ hop' = hop + 1 /\ dedup' = dedup
      /\ expanded' = 0 /\ hop <= Hops /\ expanded = Len(pass.frontier)
  BY DEF SamplerInv, Between, Within, EndHop
<1>2. st \in Scratch /\ hop \in 1 .. Hops + 1 /\ scall \in Calls
  BY <1>1 DEF InPass
<1>3. Hops \in Nat /\ hop \in 1 .. Hops /\ hop \in 0 .. Hops
  <2>1. Hops \in Nat
    BY <1>1, SamplerAssumption DEF Hops, ConfigOK
  <2> QED
    BY <1>1, <1>2, <2>1
<1>4. /\ pass \in Passes /\ pass.frontier \in Seq(SampleNodes) /\ pass.next \in Seq(SampleNodes)
      /\ Len(pass.next) \in Nat /\ Len(pass.edges) \in Nat /\ pass.counted \in Nat
  BY <1>2 DEF Scratch, Scratches, Sound, Passes
<1>5. scall.out \in Outs /\ counts \in [0 .. Hops -> Nat] /\ found \in [1 .. Hops -> Int]
  BY <1>2, Zenon DEF Calls, Outs
<1>6. scall' = [scall EXCEPT !.out.newNodes[hop] = @ + Len(pass.next),
                             !.out.newEdges[hop] = @ + Len(pass.edges) - pass.counted]
      /\ pass' = HopPass(pass, front)
  BY DEF EndHop, HopPass
<1>7. scall' = call2
  BY <1>2, <1>5, <1>6, Zenon DEF HopCall, HopOut, Calls, Outs
<1> HIDE DEF call2
<1>8. front \in Seq(SampleNodes)
  BY <1>4
<1> HIDE DEF front
<1>9. /\ pass'.nodes = pass.nodes /\ pass'.times = pass.times /\ pass'.edges = pass.edges
      /\ pass'.emitted = pass.emitted /\ pass'.frontier = front /\ pass'.next = <<>>
  BY <1>4, <1>6 DEF HopPass, Passes
<1>10. counts2 \in [0 .. Hops -> Nat] /\ IsAdded(counts, counts2, hop, Len(pass.next))
  <2>1. IsAdded(counts, counts2, hop, Len(pass.next))
    BY DEF IsAdded
  <2> HIDE DEF counts2, counts, st
  <2> DEFINE k == Len(pass.next)
  <2>2. k \in Nat /\ Hops \in Nat /\ hop \in 0 .. Hops /\ counts \in [0 .. Hops -> Nat]
    BY <1>3, <1>4, <1>5
  <2> HIDE DEF k
  <2>3. IsAdded(counts, counts2, hop, k)
    BY <2>1 DEF k
  <2>4. counts2 \in [0 .. Hops -> Nat]
    BY <2>2, <2>3, NodesAdded, Zenon
  <2> QED
    BY <2>1, <2>4
<1>11. found2 \in [1 .. Hops -> Int]
  <2> HIDE DEF found
  <2>1. found[hop] \in Int
    BY <1>3, <1>5
  <2>2. found[hop] + Len(pass.edges) - pass.counted \in Int
    BY <1>4, <2>1
  <2> QED
    BY <1>5, <2>2, Zenon
<1> HIDE DEF counts2, found2, counts
<1>12. SameBlocks(scall, call2) /\ call2.out.newNodes = counts2
  BY <1>2, <1>10, <1>11, HopFields DEF call2, SameBlocks
<1>13. st.pass = pass /\ st.dedup = dedup /\ x.pass = pass' /\ x.dedup = dedup'
  OBVIOUS
<1> HIDE DEF st, x
<1>14. front = IF scfg.cumulative THEN st.pass.frontier \o st.pass.next ELSE st.pass.next
  BY <1>13 DEF front
<1>15. IsAdded(scall.out.newNodes, scall'.out.newNodes, hop, Len(st.pass.next))
  BY <1>7, <1>10, <1>12, <1>13 DEF counts
<1>16. SameBlocks(scall, scall')
  BY <1>7, <1>12
<1>17. IsHopEnd(st, x, front)
  BY <1>1, <1>2, <1>3, <1>8, <1>9, <1>13, <1>14, <1>15, <1>16 DEF IsHopEnd, st, x
<1> QED
  BY <1>17

\* The next hop starts where the frontier it takes does.
LEMMA HopAligned ==
  ASSUME NEW st, NEW x, NEW front, IsHopEnd(st, x, front), Aligned(st.pass)
  PROVE  /\ PassAligned(x.pass, 0)
         /\ Start(x.pass) = IF scfg.cumulative THEN 0 ELSE Start(st.pass) + Len(st.pass.frontier)
         /\ Start(x.pass) + Len(x.pass.frontier) = Start(st.pass) + Len(st.pass.frontier) + Len(st.pass.next)
<1> DEFINE p == st.pass
           q == x.pass
           n == Len(p.nodes)
           a == Len(p.frontier)
           b == Len(p.next)
           s == Start(p)
<1>1. /\ p.nodes \in Seq(SampleNodes) /\ p.frontier \in Seq(SampleNodes) /\ p.next \in Seq(SampleNodes)
      /\ q.nodes = p.nodes /\ q.frontier = front /\ q.next = <<>>
      /\ front = IF scfg.cumulative THEN p.frontier \o p.next ELSE p.next
  BY DEF IsHopEnd, Scratch, Scratches, Passes
<1>2. /\ s \in Nat /\ (scfg.cumulative => s = 0)
      /\ \A i \in DOMAIN p.frontier : p.nodes[s + i] = p.frontier[i]
      /\ \A i \in DOMAIN p.next : p.nodes[s + a + i] = p.next[i]
  BY DEF Aligned
<1> HIDE DEF p, q
<1>3. n \in Nat /\ a \in Nat /\ b \in Nat /\ s = n - a - b
  BY <1>1 DEF Start
<1>4. Start(q) = n - Len(front) - 0
  BY <1>1 DEF Start
<1> HIDE DEF s, n, a, b
<1>5. CASE scfg.cumulative
  <2>1. front = p.frontier \o p.next /\ s = 0
    BY <1>1, <1>2, <1>5, Zenon
  <2>2. IsJoin(p.frontier, p.next, front)
    BY <1>1, <2>1, JoinedEntries, Zenon
  <2>3. Len(front) = a + b
    BY <2>2 DEF IsJoin, a, b
  <2>4. Start(q) = 0
    BY <1>3, <1>4, <2>1, <2>3
  <2>5. \A i \in DOMAIN front : q.nodes[0 + i] = front[i]
    <3> TAKE i \in DOMAIN front
    <3>1. CASE i \in DOMAIN p.frontier
      <4>1. front[i] = p.frontier[i] /\ p.nodes[0 + i] = p.frontier[i]
        BY <1>2, <2>1, <2>2, <3>1 DEF IsJoin
      <4> QED
        BY <1>1, <4>1, Zenon
    <3>2. CASE \E j \in DOMAIN p.next : i = a + j
      <4>1. PICK j \in DOMAIN p.next : i = a + j
        BY <3>2
      <4>2. front[i] = p.next[j]
        BY <2>2, <4>1, Zenon DEF IsJoin, a
      <4>3. p.nodes[0 + a + j] = p.next[j]
        BY <1>2, <2>1
      <4>4. j \in Nat
        BY <1>1
      <4>5. 0 + a + j = 0 + i
        BY <1>3, <4>1, <4>4
      <4> QED
        BY <1>1, <4>2, <4>3, <4>5, Zenon
    <3> QED
      BY <2>2, <3>1, <3>2, Zenon DEF IsJoin, a
  <2>6. \A i \in DOMAIN q.next : q.nodes[Start(q) + Len(q.frontier) + i] = q.next[i]
    BY <1>1
  <2> DEFINE s2 == Start(q)
  <2>7. Aligned(q)
    <3>1. s2 \in Nat /\ (scfg.cumulative => s2 = 0)
      BY <2>4
    <3>2. /\ \A i \in DOMAIN q.frontier : q.nodes[s2 + i] = q.frontier[i]
          /\ \A i \in DOMAIN q.next : q.nodes[s2 + Len(q.frontier) + i] = q.next[i]
      <4>1. s2 = 0
        BY <2>4
      <4> HIDE DEF s2
      <4>2. q.frontier = front /\ q.next = <<>>
        BY <1>1
      <4>3. \A i \in DOMAIN front : q.nodes[s2 + i] = front[i]
        BY <2>5, <4>1
      <4>4. DOMAIN q.next = {}
        BY <4>2
      <4> QED
        BY <4>2, <4>3, <4>4
    <3> HIDE DEF q
    <3> QED
      BY <3>1, <3>2 DEF Aligned, s2
  <2>8. Len(q.frontier) = a + b
    BY <1>1, <2>3, Zenon
  <2>9. PassAligned(q, 0) /\ Start(q) + Len(q.frontier) = s + a + b
    <3>1. 0 <= a + b /\ 0 + (a + b) = 0 + a + b
      BY <1>3
    <3> QED
      BY <2>1, <2>4, <2>7, <2>8, <3>1 DEF PassAligned
  <2> QED
    BY <1>5, <2>4, <2>9 DEF p, q, s, a, b
<1>6. CASE ~scfg.cumulative
  <2>1. front = p.next /\ Len(front) = b
    BY <1>1, <1>6 DEF b
  <2>2. Start(q) = s + a
    BY <1>3, <1>4, <2>1
  <2>3. \A i \in DOMAIN front : q.nodes[s + a + i] = front[i]
    BY <1>1, <1>2, <2>1, Zenon
  <2>4. \A i \in DOMAIN q.next : q.nodes[Start(q) + Len(q.frontier) + i] = q.next[i]
    BY <1>1
  <2>5. s + a \in Nat
    BY <1>2, <1>3
  <2>6. Aligned(q)
    BY <1>1, <1>6, <2>2, <2>3, <2>4, <2>5 DEF Aligned
  <2>7. PassAligned(q, 0) /\ Start(q) + Len(q.frontier) = s + a + b
    <3>1. Len(q.frontier) = b
      BY <1>1, <2>1, Zenon
    <3>2. 0 <= Len(q.frontier)
      BY <1>3, <3>1
    <3> QED
      BY <2>2, <2>6, <3>1, <3>2 DEF PassAligned
  <2> QED
    BY <1>6, <2>2, <2>7 DEF p, q, s, a, b
<1> QED
  BY <1>5, <1>6

\* The end of a hop leaves every edge once.
LEMMA HopOnce ==
  ASSUME NEW st, NEW x, NEW front, IsHopEnd(st, x, front), Aligned(st.pass), PassOnce(st.pass, hop, expanded)
  PROVE  PassOnce(x.pass, hop + 1, 0)
<1> SUFFICES ASSUME ~scfg.replace PROVE OnceTo(x.pass, hop + 1, Start(x.pass) + 0 + 1, {})
  BY DEF PassOnce
<1> DEFINE p == st.pass
           q == x.pass
           l == Start(p) + expanded + 1
           l2 == Start(q) + 0 + 1
<1>1. OnceTo(p, hop, l, {})
  BY DEF PassOnce
<1>2. /\ q.edges = p.edges /\ q.emitted = p.emitted /\ st \in Scratch /\ hop \in Nat
      /\ expanded = Len(p.frontier) /\ Len(p.frontier) \in Nat /\ Start(p) \in Nat
      /\ p.emitted \in Emissions
  BY DEF IsHopEnd, Aligned, Scratch, Scratches, Passes
<1>3. Start(q) = IF scfg.cumulative THEN 0 ELSE Start(p) + Len(p.frontier)
  BY HopAligned
<1> DEFINE Starting == Start(q)
<1>4. CASE scfg.cumulative
  <2>1. \A i \in DOMAIN p.edges : p.edges[i].eid \in DOMAIN p.emitted => p.emitted[p.edges[i].eid] \in Nat
    BY <1>2, Zenon DEF Emissions
  <2>2. ASSUME NEW i \in DOMAIN p.edges
        PROVE  /\ p.edges[i].eid \in DOMAIN p.emitted /\ p.emitted[p.edges[i].eid] <= hop + 1
               /\ p.emitted[p.edges[i].eid] # hop + 1
    <3> DEFINE m == p.emitted[p.edges[i].eid]
    <3>1. p.edges[i].eid \in DOMAIN p.emitted /\ m <= hop /\ m \in Nat
      BY <1>1, <1>4, <2>1 DEF OnceTo
    <3> HIDE DEF m
    <3>2. m <= hop + 1 /\ m # hop + 1
      BY <1>2, <3>1
    <3> QED
      BY <3>1, <3>2 DEF m
  <2> HIDE DEF p, q, l2
  <2> QED
    BY <1>1, <1>2, <1>4, <2>2 DEF OnceTo, q, p, l2
<1>5. CASE ~scfg.cumulative
  <2>1. l2 = l
    <3> DEFINE s == Start(p)
               s2 == Start(q)
               a == Len(p.frontier)
    <3>1. s2 = s + a /\ s \in Nat /\ a \in Nat /\ expanded = a
      BY <1>2, <1>3, <1>5
    <3> HIDE DEF s, s2, a
    <3>2. s2 + 0 + 1 = s + expanded + 1
      BY <3>1
    <3> QED
      BY <3>2 DEF s, s2
  <2> HIDE DEF p, q, l, l2
  <2>2. OnceTo(q, hop + 1, l2, {})
    BY <1>1, <1>2, <1>5, <2>1 DEF OnceTo
  <2> QED
    BY <2>2 DEF q, l2
<1> QED
  BY <1>4, <1>5

\* The end of a hop leaves the order of times.
LEMMA HopCausal ==
  ASSUME NEW st, NEW x, NEW front, IsHopEnd(st, x, front), NEW R, CausalPass(st.pass, R)
  PROVE  CausalPass(x.pass, R)
<1>1. x.pass.nodes = st.pass.nodes /\ x.pass.times = st.pass.times /\ x.pass.edges = st.pass.edges
  BY DEF IsHopEnd
<1> QED
  BY <1>1 DEF CausalPass

\* The counts of earlier hops are final, so which hop brought a node stays.
LEMMA HopStays ==
  ASSUME NEW n \in Nat, NEW counts \in [0 .. n -> Nat], NEW i \in 0 .. n, NEW k \in Nat,
         NEW counts2, IsAdded(counts, counts2, i, k), NEW j, NEW g \in 0 .. n, g < i, IsHop(counts, j, g)
  PROVE  IsHop(counts2, j, g)
<1>1. \A f \in 0 .. g : f \in 0 .. n /\ f < i
  OBVIOUS
<1>2. \A f \in 0 .. g : NodesBy(counts2, f) = NodesBy(counts, f)
  BY <1>1, LevelKept
<1>3. g \in 0 .. g /\ \A f \in 0 .. g - 1 : f \in 0 .. g
  OBVIOUS
<1> QED
  BY <1>2, <1>3 DEF IsHop

\* Hop i of n is counted, by k nodes.
HopCounted(n, counts, i, k, counts2) ==
  /\ n \in Nat /\ counts \in [0 .. n -> Nat] /\ i \in 0 .. n /\ k \in Nat
  /\ IsAdded(counts, counts2, i, k)
LEMMA EarlierHops ==
  ASSUME NEW n, NEW counts, NEW i, NEW k, NEW counts2, HopCounted(n, counts, i, k, counts2),
         NEW g \in 0 .. n, g < i
  PROVE  /\ NodesBy(counts2, g) = NodesBy(counts, g)
         /\ \A j : IsHop(counts, j, g) => IsHop(counts2, j, g)
<1>1. n \in Nat /\ counts \in [0 .. n -> Nat] /\ i \in 0 .. n /\ k \in Nat /\ IsAdded(counts, counts2, i, k)
  BY DEF HopCounted
<1>2. NodesBy(counts2, g) = NodesBy(counts, g)
  BY <1>1, LevelKept
<1>3. ASSUME NEW j, IsHop(counts, j, g) PROVE IsHop(counts2, j, g)
  BY <1>1, <1>3, HopStays
<1> QED
  BY <1>2, <1>3

\* The end of a hop counts the new nodes as the next hop's.
LEMMA HopFanned ==
  ASSUME ~scfg.cumulative, NEW st, NEW x, NEW front, IsHopEnd(st, x, front), Aligned(st.pass),
         NEW counts, counts = scall.out.newNodes, Fanned(st.pass, counts, hop, expanded),
         NEW counts2, counts2 = scall'.out.newNodes
  PROVE  Fanned(x.pass, counts2, hop + 1, 0)
<1> DEFINE p == st.pass
           q == x.pass
           s == Start(p)
           a == Len(p.frontier)
           b == Len(p.next)
           n == Hops
<1>1. /\ q.edges = p.edges /\ q.nodes = p.nodes /\ n \in Nat /\ hop \in 1 .. n /\ expanded = a
      /\ IsAdded(counts, counts2, hop, b) /\ counts \in [0 .. n -> Nat] /\ st \in Scratch
  BY Zenon DEF IsHopEnd, Calls, Outs
<1>2. s \in Nat /\ a \in Nat /\ b \in Nat /\ DOMAIN p.nodes \subseteq Nat
  <2>1. p.nodes \in Seq(SampleNodes) /\ a \in Nat /\ b \in Nat
    BY <1>1 DEF Scratch, Scratches, Passes
  <2>2. s \in Nat
    BY DEF Aligned
  <2> QED
    BY <2>1, <2>2
<1>3. Start(q) = s + a /\ Start(q) + Len(q.frontier) = s + a + b
  BY HopAligned
<1>4. /\ \A g \in hop .. n : counts[g] = 0
      /\ s + a = NodesBy(counts, hop - 1)
      /\ \A k \in DOMAIN p.nodes : IF k <= s + expanded THEN HasTaken(counts, p.nodes[k], p.edges, k, hop)
                                   ELSE OutOf(p.edges, k) = {}
  BY DEF Fanned
<1> HIDE DEF p, q, s, a, b, n
<1>5. /\ hop \in 0 .. n /\ hop \in hop .. n /\ hop - 1 \in 0 .. n /\ hop - 1 < hop /\ hop \in Nat
      /\ \A g \in hop + 1 .. n : g \in 0 .. n /\ g \in hop .. n /\ g # hop
  BY <1>1
<1>6. /\ counts2[hop] = b /\ counts2 \in [0 .. n -> Nat] /\ \A g \in hop + 1 .. n : counts2[g] = 0
  <2>1. counts2 = [counts EXCEPT ![hop] = @ + b] /\ counts[hop] = 0
    BY <1>1, <1>4, <1>5 DEF IsAdded
  <2>2. counts[hop] + b = b /\ counts[hop] + b \in Nat
    BY <1>2, <2>1
  <2>3. \A g \in hop + 1 .. n : counts2[g] = counts[g]
    BY <1>1, <1>5, <2>1
  <2>4. counts2[hop] = b
    BY <1>1, <1>5, <2>1, <2>2
  <2>5. counts2 \in [0 .. n -> Nat]
    BY <1>1, <2>1, <2>2
  <2>6. \A g \in hop + 1 .. n : counts2[g] = 0
    BY <1>4, <1>5, <2>3
  <2> QED
    BY <2>4, <2>5, <2>6
<1>7. NodesBy(counts2, hop - 1) = s + a
  <2>1. HopCounted(n, counts, hop, b, counts2)
    BY <1>1, <1>2, <1>5, Zenon DEF HopCounted
  <2>2. hop - 1 \in 0 .. n /\ hop - 1 < hop
    BY <1>5
  <2>3. NodesBy(counts2, hop - 1) = NodesBy(counts, hop - 1)
    BY <2>1, <2>2, EarlierHops
  <2> QED
    BY <1>4, <2>3
<1>8. NodesBy(counts2, hop) = NodesBy(counts2, hop - 1) + counts2[hop]
  BY <1>1, <1>6, LevelFacts, Zenon
<1>9. NodesBy(counts2, hop) = s + a + b
  BY <1>6, <1>7, <1>8
<1>10. hop + 1 - 1 = hop /\ hop + 1 - 2 = hop - 1 /\ hop + 1 # 1
  BY <1>5, <1>1
<1>11. \A k \in DOMAIN q.nodes : IF k <= Start(q) + 0 THEN HasTaken(counts2, q.nodes[k], q.edges, k, hop + 1)
                                 ELSE OutOf(q.edges, k) = {}
  <2>1. Start(q) + 0 = s + expanded
    BY <1>1, <1>2, <1>3
  <2>2. ASSUME NEW k \in DOMAIN p.nodes, HasTaken(counts, p.nodes[k], p.edges, k, hop)
        PROVE  HasTaken(counts2, p.nodes[k], p.edges, k, hop + 1)
    <3>1. PICK g \in 1 .. n : g <= hop /\ IsHop(counts, k, g - 1) /\ TakenAt(p.nodes[k], g, Cardinality(OutOf(p.edges, k)))
      BY <2>2 DEF HasTaken, n
    <3>2. g - 1 \in 0 .. n /\ g - 1 < hop /\ g <= hop + 1
      BY <1>1, <1>5, <3>1
    <3>3. IsHop(counts2, k, g - 1)
      <4>1. HopCounted(n, counts, hop, b, counts2)
        BY <1>1, <1>2, <1>5, Zenon DEF HopCounted
      <4>2. IsHop(counts, k, g - 1)
        BY <3>1
      <4> QED
        BY <3>2, <4>1, <4>2, EarlierHops
    <3> QED
      BY <3>1, <3>2, <3>3 DEF HasTaken, n
  <2> QED
    BY <1>1, <1>4, <2>1, <2>2, Zenon
<1> HIDE DEF Start
<1>12. /\ \A g \in hop + 1 .. Hops : counts2[g] = 0
       /\ Start(q) + Len(q.frontier) = NodesBy(counts2, hop + 1 - 1)
       /\ Start(q) = IF hop + 1 = 1 THEN 0 ELSE NodesBy(counts2, hop + 1 - 2)
  BY <1>3, <1>6, <1>7, <1>9, <1>10 DEF n
<1> DEFINE h == hop + 1
<1>14. /\ h - 1 = hop /\ h - 2 = hop - 1 /\ h # 1
  BY <1>5
<1>15. \A k \in DOMAIN q.nodes : IF k <= Start(q) + 0 THEN HasTaken(counts2, q.nodes[k], q.edges, k, h)
                                 ELSE OutOf(q.edges, k) = {}
  BY <1>11
<1>16. /\ \A g \in h .. Hops : counts2[g] = 0
       /\ Start(q) + Len(q.frontier) = NodesBy(counts2, h - 1)
       /\ Start(q) = IF h = 1 THEN 0 ELSE NodesBy(counts2, h - 2)
  BY <1>10, <1>12, <1>14
<1> HIDE DEF h
<1>13. Fanned(q, counts2, h, 0)
  BY <1>15, <1>16, Zenon DEF Fanned
<1> QED
  BY <1>13 DEF q, h

-----------------------------------------------------------------------------
\* The seeds of a call that are placed, and those of the pass at hand with their indices in it.
AllSeeds(call) == {<<call.out.seedLocals[k], call.times[k]>> : k \in DOMAIN call.out.seedLocals}
PassSeeds(call) ==
  {<<call.out.seedLocals[k] - Len(call.out.nodes), call.times[k]>> :
     k \in {j \in DOMAIN call.out.seedLocals : call.out.seedLocals[j] > Len(call.out.nodes)}}
OutOnce(out) ==
  \A i, j \in DOMAIN out.edges :
    out.edges[i].eid = out.edges[j].eid /\ out.edges[i].sl = out.edges[j].sl => i = j
OutWhole(out) ==
  /\ \A i, j \in DOMAIN out.edges :
       out.edges[i].eid = out.edges[j].eid /\ out.batch[out.edges[i].sl] = out.batch[out.edges[j].sl] => i = j
  /\ \A k, o \in DOMAIN out.nodes : \A e \in Range(RowOf(out.nodes[k])) :
       Dst[e] = out.nodes[o] /\ out.batch[k] = out.batch[o] =>
         \E x \in DOMAIN out.edges : out.edges[x].eid = e /\ out.edges[x].sl = k
FanDone(out) ==
  \A k \in DOMAIN out.nodes :
    \/ \E g \in 1 .. Hops : /\ IsHop(out.newNodes, k, g - 1)
                            /\ TakenAt(out.nodes[k], g, Cardinality(OutOf(out.edges, k)))
    \/ IsHop(out.newNodes, k, Hops) /\ OutOf(out.edges, k) = {}

\* Of the blocks joined, of the pass at hand, and of a call that is done.
AskedOut(call) ==
  /\ scfg.subgraph = "directional" /\ ~scfg.replace => OutOnce(call.out)
  /\ scfg.subgraph = "directional" /\ Temporal => InOrder(call.out.edges, AllSeeds(call))
  /\ scfg.subgraph = "induced" /\ ~Temporal => OutWhole(call.out)
  /\ Temporal => \A k \in DOMAIN call.times : call.times[k] \in Int
OnceEach == ~Temporal /\ ~scfg.cumulative /\ ~scfg.disjoint
AskedPass(call, st, h, x) ==
  /\ PassAligned(st.pass, x) /\ (h > Hops => x = 0)
  /\ PassOnce(st.pass, h, x)
  /\ Temporal => CausalPass(st.pass, PassSeeds(call))
  /\ OnceEach => Fanned(st.pass, call.out.newNodes, h, x)
AskedDone(call) ==
  AskedOut(call) /\ (scfg.subgraph = "directional" /\ OnceEach => FanDone(call.out))
AskedInv ==
  /\ sphase = "idle" /\ scalls > 0 => AskedDone(scall)
  /\ sphase = "hops" => /\ AskedOut(scall)
                        /\ AskedPass(scall, [dedup |-> dedup, pass |-> pass], hop, expanded)

\* A seed of another block is no matter to an edge.
LEMMA OrderKept ==
  ASSUME NEW es, NEW R, InOrder(es, R), NEW R2, R \subseteq R2,
         \A r \in R2 : r \in R \/ \A i \in DOMAIN es : es[i].sl # r[1]
  PROVE  InOrder(es, R2)
<1> SUFFICES ASSUME NEW i \in DOMAIN es PROVE InOrderAt(es, R2, i)
  BY DEF InOrder
<1>1. InOrderAt(es, R, i)
  BY DEF InOrder
<1>2. HasSeed(R, es[i].sl) => HasSeed(R2, es[i].sl)
  BY DEF HasSeed
<1>3. \A r \in R2 : r[1] = es[i].sl => r \in R
  OBVIOUS
<1> QED
  BY <1>1, <1>2, <1>3 DEF InOrderAt

\* What is said of the blocks joined does not depend on the hop counts.
LEMMA SameAsked ==
  ASSUME NEW call, NEW call2, SameBlocks(call, call2)
  PROVE  /\ AskedOut(call) => AskedOut(call2)
         /\ PassSeeds(call2) = PassSeeds(call)
<1>1. /\ call2.times = call.times /\ call2.out.nodes = call.out.nodes /\ call2.out.edges = call.out.edges
      /\ call2.out.batch = call.out.batch /\ call2.out.seedLocals = call.out.seedLocals
  BY DEF SameBlocks
<1>2. AllSeeds(call2) = AllSeeds(call) /\ PassSeeds(call2) = PassSeeds(call)
  BY <1>1 DEF AllSeeds, PassSeeds
<1>3. (OutOnce(call.out) => OutOnce(call2.out)) /\ (OutWhole(call.out) => OutWhole(call2.out))
  BY <1>1 DEF OutOnce, OutWhole
<1> QED
  BY <1>1, <1>2, <1>3 DEF AskedOut

\* The config stays.
LEMMA AskedKept ==
  ASSUME scfg' = scfg
  PROVE  /\ AskedDone(scall') => AskedDone(scall)'
         /\ AskedOut(scall') => AskedOut(scall)'
         /\ AskedPass(scall', [dedup |-> dedup', pass |-> pass'], hop', expanded')
              => AskedPass(scall, [dedup |-> dedup, pass |-> pass], hop, expanded)'
<1>1. Hops' = Hops /\ Temporal' = Temporal /\ OnceEach' = OnceEach
  BY DEF Hops, Temporal, OnceEach
<1>2. AskedOut(scall') => AskedOut(scall)'
  BY <1>1 DEF AskedOut
<1>3. FanDone(scall'.out) => FanDone(scall.out)'
  BY <1>1 DEF FanDone, TakenAt, Picked
<1>4. Aligned(pass') => Aligned(pass)'
  BY DEF Aligned
<1> DEFINE st == [dedup |-> dedup, pass |-> pass]
           x == [dedup |-> dedup', pass |-> pass']
<1>5. st' = x /\ x.pass = pass' /\ st.pass = pass
  OBVIOUS
<1>6. PassOnce(pass', hop', expanded') => PassOnce(pass, hop, expanded)'
  BY DEF PassOnce, OnceTo
<1>7. Fanned(pass', scall'.out.newNodes, hop', expanded') => Fanned(pass, scall.out.newNodes, hop, expanded)'
  BY <1>1 DEF Fanned, HasTaken, TakenAt, Picked
<1>8. AskedPass(scall', x, hop', expanded') => AskedPass(scall, st, hop, expanded)'
  BY <1>1, <1>4, <1>6, <1>7 DEF AskedPass, PassAligned
<1> QED
  BY <1>1, <1>2, <1>3, <1>8 DEF AskedDone

\* The seeds of block b, with the places they have in the call.
LEMMA BlockPlaces ==
  ASSUME NEW call, NEW b, Ready(call, b)
  PROVE  LET seeds == BlockSeeds(call, b)
             times == BlockTimes(call, b)
             o == Len(call.out.seedLocals)
         IN /\ seeds \in Seq(SampleNodes) /\ Len(seeds) = IF scfg.disjoint THEN 1 ELSE Len(call.seeds)
            /\ \A j \in 1 .. Len(seeds) : /\ o + j \in DOMAIN call.times
                                          /\ seeds[j] = call.seeds[o + j] /\ times[j] = call.times[o + j]
                                          /\ seeds[j] \in SampleNodes /\ times[j] \in Moments
<1> DEFINE seeds == BlockSeeds(call, b)
           times == BlockTimes(call, b)
           o == Len(call.out.seedLocals)
<1>1. /\ call.seeds \in Seq(SampleNodes) /\ call.times \in Seq(Moments) /\ Len(call.times) = Len(call.seeds)
      /\ b \in Nat \ {0} /\ Len(call.seeds) \in Nat
      /\ DOMAIN call.times = 1 .. Len(call.times) /\ DOMAIN call.seeds = 1 .. Len(call.seeds)
  BY DEF Ready, Calls
<1>2. CASE scfg.disjoint
  <2>1. seeds = <<call.seeds[b]>> /\ times = <<call.times[b]>>
    BY <1>2 DEF BlockSeeds, BlockTimes
  <2>2. b <= Len(call.seeds) /\ o = b - 1
    BY <1>2 DEF Ready
  <2>3. b \in 1 .. Len(call.seeds) /\ o + 1 = b
    BY <1>1, <2>2
  <2>4. call.seeds[b] \in SampleNodes /\ call.times[b] \in Moments /\ b \in DOMAIN call.times
    <3>1. b \in 1 .. Len(call.times)
      BY <1>1, <2>3
    <3> QED
      BY <1>1, <2>3, <3>1, ElementOfSeq
  <2> HIDE DEF seeds, times, o
  <2>5. seeds \in Seq(SampleNodes) /\ Len(seeds) = 1 /\ seeds[1] = call.seeds[b] /\ times[1] = call.times[b]
    BY <2>1, <2>4
  <2>6. \A j \in 1 .. Len(seeds) : j = 1
    BY <2>5
  <2>7. \A j \in 1 .. Len(seeds) : /\ o + j \in DOMAIN call.times
                                   /\ seeds[j] = call.seeds[o + j] /\ times[j] = call.times[o + j]
                                   /\ seeds[j] \in SampleNodes /\ times[j] \in Moments
    BY <2>3, <2>4, <2>5, <2>6
  <2> QED
    BY <1>2, <2>5, <2>7 DEF seeds, times, o
<1>3. CASE ~scfg.disjoint
  <2>1. seeds = call.seeds /\ times = call.times
    BY <1>3 DEF BlockSeeds, BlockTimes
  <2>2. o = 0
    <3>1. call.out.seedLocals = <<>>
      BY <1>3 DEF Ready
    <3> QED
      BY <3>1
  <2> HIDE DEF seeds, times, o
  <2>3. \A j \in 1 .. Len(seeds) : /\ o + j = j /\ j \in DOMAIN call.times
                                   /\ seeds[j] \in SampleNodes /\ times[j] \in Moments
    BY <1>1, <2>1, <2>2
  <2> QED
    BY <1>1, <1>3, <2>1, <2>3, Zenon DEF seeds, times, o
<1> QED
  BY <1>2, <1>3

\* A block is begun.
IsBegun(call, b, st, locals, call2) ==
  /\ st \in Scratch /\ st = [dedup |-> dedup', pass |-> pass'] /\ hop' = 1 /\ expanded' = 0
  /\ call2 = scall' /\ call2.out.nodes = call.out.nodes /\ call2.out.edges = call.out.edges
  /\ call2.out.batch = call.out.batch /\ call2.times = call.times
  /\ call2.out.seedLocals = call.out.seedLocals \o locals
  /\ IsAdded(call.out.newNodes, call2.out.newNodes, 0, Len(st.pass.nodes))
  /\ SeededTo(st, BlockSeeds(call, b), BlockTimes(call, b), Len(BlockSeeds(call, b)))
  /\ locals \in Seq(Nat) /\ Len(locals) = Len(BlockSeeds(call, b))
  /\ \A j \in 1 .. Len(locals) :
       /\ Known(st.dedup, BlockSeeds(call, b)[j])
       /\ locals[j] = Len(call.out.nodes) + Local(st.dedup, BlockSeeds(call, b)[j])
LEMMA BegunFacts ==
  ASSUME scfg \in Configs, dedup \in Dedups, dedup.tag < Generations, NotAhead(dedup),
         NEW call, NEW b, Ready(call, b), BeginBlock(call, b),
         Temporal => \A k \in DOMAIN call.times : call.times[k] \in Int
  PROVE  \E st, locals, call2 : IsBegun(call, b, st, locals, call2)
<1>1. call \in Calls /\ b \in Nat \ {0}
  BY DEF Ready, Calls
<1>2. PICK st : /\ st = Seeded(BlockSeeds(call, b), BlockTimes(call, b))
                /\ dedup' = st.dedup /\ pass' = st.pass /\ hop' = 1 /\ expanded' = 0
                /\ scall' = Opened(call, b, OpenedOut(call.out, call.out.seedLocals \o BlockLocals(call, b, st),
                                           [call.out.newNodes EXCEPT ![0] = @ + Len(st.pass.nodes)]))
  BY <1>1, BlockBegun
<1>3. /\ st \in Scratch
      /\ scfg.disjoint => Known(st.dedup, call.seeds[b])
      /\ ~scfg.disjoint => \A i \in DOMAIN call.seeds : Known(st.dedup, call.seeds[i])
  BY <1>2, BlockSeeded
<1> DEFINE seeds == BlockSeeds(call, b)
           times == BlockTimes(call, b)
           o == Len(call.out.seedLocals)
           locals == BlockLocals(call, b, st)
           n == Len(st.pass.nodes)
           counts == call.out.newNodes
           counts2 == [counts EXCEPT ![0] = @ + n]
           all == call.out.seedLocals \o locals
           call2 == Opened(call, b, OpenedOut(call.out, all, counts2))
<1>4. [dedup |-> dedup', pass |-> pass'] = st
  BY <1>2, <1>3 DEF Scratch, Scratches
<1>5. /\ seeds \in Seq(SampleNodes) /\ Len(seeds) = IF scfg.disjoint THEN 1 ELSE Len(call.seeds)
      /\ \A j \in 1 .. Len(seeds) : /\ o + j \in DOMAIN call.times
                                    /\ seeds[j] = call.seeds[o + j] /\ times[j] = call.times[o + j]
                                    /\ seeds[j] \in SampleNodes /\ times[j] \in Moments
  BY BlockPlaces, Zenon
<1>6. /\ locals \in Seq(Nat) /\ Len(locals) = IF scfg.disjoint THEN 1 ELSE Len(call.seeds)
      /\ \A j \in DOMAIN locals :
              LET s == call.seeds[o + j]
              IN /\ s \in SampleNodes /\ Known(st.dedup, s)
                 /\ locals[j] = Len(call.out.nodes) + Local(st.dedup, s)
  <2> HIDE DEF locals
  <2>1. locals = BlockLocals(call, b, st)
    BY DEF locals
  <2> QED
    BY <1>3, <2>1, BlockLocalsPlaced
<1> HIDE DEF seeds, times, o
<1>7. SeededTo(st, seeds, times, Len(seeds))
  <2>1. \A i \in 1 .. Len(seeds) : times[i] \in Moments /\ (Temporal => times[i] \in Int)
    BY <1>5
  <2>2. SeededTo(Seeded(seeds, times), seeds, times, Len(seeds))
    BY <1>5, <2>1, SeededAll, Zenon
  <2> QED
    BY <1>2, <2>2 DEF seeds, times
<1> HIDE DEF locals
<1>8. Len(locals) = Len(seeds) /\ DOMAIN locals = 1 .. Len(locals)
  BY <1>5, <1>6
<1>9. \A j \in 1 .. Len(locals) : Known(st.dedup, seeds[j]) /\ locals[j] = Len(call.out.nodes) + Local(st.dedup, seeds[j])
  BY <1>5, <1>6, <1>8, Zenon
<1>10. /\ call2 \in Calls /\ call2.times = call.times
       /\ call2.out.nodes = call.out.nodes /\ call2.out.edges = call.out.edges /\ call2.out.batch = call.out.batch
       /\ call2.out.seedLocals = all /\ call2.out.newNodes = counts2
  <2>1. call.out.seedLocals \in Seq(Nat) /\ counts \in [0 .. Hops -> Nat] /\ n \in Nat /\ Hops \in Nat
    <3>1. Hops \in Nat
      BY SamplerAssumption DEF Hops, ConfigOK
    <3> QED
      BY <1>1, <1>3, <3>1, PassLengths, Zenon DEF Calls, Outs
  <2> HIDE DEF counts, n
  <2>2. all \in Seq(Nat)
    <3>1. \A s \in Seq(Nat), t \in Seq(Nat) : s \o t \in Seq(Nat)
      OBVIOUS
    <3> QED
      BY <1>6, <2>1, <3>1
  <2>3. counts2 \in [0 .. Hops -> Nat]
    <3>1. counts[0] + n \in Nat
      BY <2>1
    <3> QED
      BY <2>1, <3>1
  <2> HIDE DEF all, counts2
  <2> QED
    BY <1>1, <2>2, <2>3, OpenedFields
<1>11. IsAdded(call.out.newNodes, call2.out.newNodes, 0, Len(st.pass.nodes))
  <2>1. IsAdded(counts, counts2, 0, n)
    BY DEF IsAdded
  <2> HIDE DEF counts2
  <2> QED
    BY <1>10, <2>1
<1>12. scall' = call2
  BY <1>2 DEF locals
<1> HIDE DEF call2
<1>13. IsBegun(call, b, st, locals, call2)
  BY <1>2, <1>3, <1>4, <1>6, <1>7, <1>8, <1>9, <1>10, <1>11, <1>12 DEF IsBegun, seeds, times
<1> QED
  BY <1>13

\* The indices of earlier seeds lie in the blocks joined, the new ones behind them.
LEMMA BegunLocals ==
  ASSUME NEW call, NEW b, Ready(call, b), NEW st, NEW locals, NEW call2, IsBegun(call, b, st, locals, call2)
  PROVE  LET seeds == BlockSeeds(call, b)
             o == Len(call.out.seedLocals)
             L == Len(call.out.nodes)
             all == call2.out.seedLocals
         IN /\ L \in Nat /\ o \in Nat
            /\ \A k \in DOMAIN all : \/ k \in DOMAIN call.out.seedLocals /\ all[k] = call.out.seedLocals[k] /\ all[k] <= L
                                     \/ \E j \in 1 .. Len(seeds) : k = o + j
            /\ \A k \in DOMAIN call.out.seedLocals : k \in DOMAIN all /\ all[k] = call.out.seedLocals[k]
            /\ \A j \in 1 .. Len(seeds) :
                 /\ o + j \in DOMAIN all /\ all[o + j] = L + Local(st.dedup, seeds[j])
                 /\ Local(st.dedup, seeds[j]) \in Nat /\ Local(st.dedup, seeds[j]) >= 1
<1> DEFINE seeds == BlockSeeds(call, b)
           old == call.out.seedLocals
           o == Len(old)
           L == Len(call.out.nodes)
           all == call2.out.seedLocals
<1>1. /\ call \in Calls /\ old \in Seq(Nat) /\ locals \in Seq(Nat) /\ all = old \o locals
      /\ Len(locals) = Len(seeds) /\ L \in Nat /\ o \in Nat /\ st \in Scratch
      /\ call.out.nodes \in Seq(SampleNodes)
  BY DEF Ready, IsBegun, Calls, Outs
<1>2. \A j \in 1 .. Len(locals) : Known(st.dedup, seeds[j]) /\ locals[j] = L + Local(st.dedup, seeds[j])
  BY DEF IsBegun
<1>3. \A k \in DOMAIN old : old[k] <= L
  <2>1. \A k \in DOMAIN old : old[k] \in DOMAIN call.out.nodes
    BY DEF Ready, SeedsPlaced
  <2>2. DOMAIN call.out.nodes = 1 .. L
    BY <1>1
  <2> QED
    BY <2>1, <2>2
<1>4. IsJoin(old, locals, all)
  BY <1>1, JoinedEntries
<1>5. Matched(st.dedup, st.pass.nodes) /\ st.pass.nodes \in Seq(SampleNodes)
  BY <1>1 DEF Scratch, Scratches, Passes, Sound
<1> HIDE DEF seeds, old, o, L, all
<1>6. \A j \in 1 .. Len(seeds) : Local(st.dedup, seeds[j]) \in Nat /\ Local(st.dedup, seeds[j]) >= 1
  <2> TAKE j \in 1 .. Len(seeds)
  <2> DEFINE c == Local(st.dedup, seeds[j])
  <2>1. Known(st.dedup, seeds[j])
    BY <1>1, <1>2
  <2>2. c \in DOMAIN st.pass.nodes
    BY <1>5, <2>1 DEF Matched, Known
  <2> HIDE DEF c
  <2>3. c \in Nat /\ c >= 1
    BY <1>5, <2>2
  <2> QED
    BY <2>3 DEF c
<1>7. \A k \in DOMAIN old : k \in DOMAIN all /\ all[k] = old[k]
  BY <1>4 DEF IsJoin
<1>8. DOMAIN locals = 1 .. Len(seeds)
  BY <1>1
<1>9. \A j \in 1 .. Len(seeds) : o + j \in DOMAIN all /\ all[o + j] = L + Local(st.dedup, seeds[j])
  BY <1>1, <1>2, <1>4, <1>8, Zenon DEF IsJoin, o
<1>10. \A k \in DOMAIN all : \/ k \in DOMAIN old /\ all[k] = old[k] /\ all[k] <= L
                             \/ \E j \in 1 .. Len(seeds) : k = o + j
  BY <1>3, <1>4, <1>7, <1>8 DEF IsJoin, o
<1> QED
  BY <1>1, <1>6, <1>7, <1>9, <1>10, Zenon DEF seeds, old, o, L, all

\* Beginning a pass leaves what the output's edges are.
LEMMA BegunOut ==
  ASSUME NEW call, NEW b, Ready(call, b), NEW st, NEW locals, NEW call2, IsBegun(call, b, st, locals, call2),
         AskedOut(call)
  PROVE  AskedOut(call2)
<1> DEFINE L == Len(call.out.nodes)
           old == call.out.seedLocals
           all == call2.out.seedLocals
           o == Len(old)
           R == AllSeeds(call)
           R2 == AllSeeds(call2)
           es == call.out.edges
<1>1. /\ call2.out.nodes = call.out.nodes /\ call2.out.edges = es
      /\ call2.out.batch = call.out.batch /\ call2.times = call.times
  BY DEF IsBegun
<1>2. /\ L \in Nat /\ o \in Nat
      /\ \A k \in DOMAIN all : \/ k \in DOMAIN old /\ all[k] = old[k]
                               \/ \E j \in 1 .. Len(BlockSeeds(call, b)) : k = o + j
      /\ \A k \in DOMAIN old : k \in DOMAIN all /\ all[k] = old[k]
      /\ \A j \in 1 .. Len(BlockSeeds(call, b)) :
           /\ all[o + j] = L + Local(st.dedup, BlockSeeds(call, b)[j])
           /\ Local(st.dedup, BlockSeeds(call, b)[j]) \in Nat /\ Local(st.dedup, BlockSeeds(call, b)[j]) >= 1
  BY BegunLocals
<1>3. (OutOnce(call.out) => OutOnce(call2.out)) /\ (OutWhole(call.out) => OutWhole(call2.out))
  BY <1>1 DEF OutOnce, OutWhole
<1>4. \A i \in DOMAIN es : es[i].sl \in Nat /\ es[i].sl <= L
  <2>1. \A i \in DOMAIN es : es[i].sl \in DOMAIN call.out.nodes
    BY DEF Ready, BlocksReal, RealIn
  <2>2. DOMAIN call.out.nodes = 1 .. L
    BY DEF Ready, Calls, Outs
  <2> QED
    BY <1>2, <2>1, <2>2
<1> HIDE DEF L, old, all, es, o
<1>5. R \subseteq R2
  BY <1>1, <1>2 DEF AllSeeds, old, all
<1>6. ASSUME NEW r \in R2 PROVE r \in R \/ \A i \in DOMAIN es : es[i].sl # r[1]
  <2>1. PICK k \in DOMAIN all : r = <<all[k], call.times[k]>>
    BY <1>1 DEF AllSeeds, all
  <2>2. CASE k \in DOMAIN old /\ all[k] = old[k]
    BY <2>1, <2>2 DEF AllSeeds, old
  <2>3. CASE \E j \in 1 .. Len(BlockSeeds(call, b)) : k = o + j
    <3>1. PICK j \in 1 .. Len(BlockSeeds(call, b)) : k = o + j
      BY <2>3
    <3> DEFINE c == Local(st.dedup, BlockSeeds(call, b)[j])
    <3>2. r[1] = L + c /\ c \in Nat /\ c >= 1
      BY <1>2, <2>1, <3>1
    <3> HIDE DEF c
    <3>3. \A i \in DOMAIN es : es[i].sl # r[1]
      BY <1>2, <1>4, <3>2
    <3> QED
      BY <3>3
  <2> QED
    BY <1>2, <2>2, <2>3
<1> HIDE DEF R, R2
<1>7. InOrder(es, R) => InOrder(es, R2)
  BY <1>5, <1>6, OrderKept
<1>8. scfg.subgraph = "directional" /\ Temporal => InOrder(call2.out.edges, AllSeeds(call2))
  BY <1>1, <1>7 DEF AskedOut, R, R2, es
<1> QED
  BY <1>1, <1>3, <1>8 DEF AskedOut

\* The seeds of a pass bound its nodes' times.
LEMMA BegunCausal ==
  ASSUME Temporal, NEW call, NEW b, Ready(call, b), NEW st, NEW locals, NEW call2, IsBegun(call, b, st, locals, call2),
         \A k \in DOMAIN call.times : call.times[k] \in Int
  PROVE  CausalPass(st.pass, PassSeeds(call2))
<1> DEFINE seeds == BlockSeeds(call, b)
           times == BlockTimes(call, b)
           n == Len(seeds)
           o == Len(call.out.seedLocals)
           L == Len(call.out.nodes)
           all == call2.out.seedLocals
           R == PassSeeds(call2)
<1>1. /\ seeds \in Seq(SampleNodes)
      /\ \A j \in 1 .. n : /\ o + j \in DOMAIN call.times
                           /\ times[j] = call.times[o + j] /\ seeds[j] \in SampleNodes
  BY BlockPlaces
<1>2. /\ L \in Nat
      /\ \A k \in DOMAIN all : (all[k] \in Nat /\ all[k] <= L) \/ \E j \in 1 .. n : k = o + j
      /\ \A j \in 1 .. n :
           /\ o + j \in DOMAIN all /\ all[o + j] = L + Local(st.dedup, seeds[j])
           /\ Local(st.dedup, seeds[j]) \in Nat /\ Local(st.dedup, seeds[j]) >= 1
  <2>1. \A k \in DOMAIN call.out.seedLocals : call.out.seedLocals[k] \in Nat
    BY DEF Ready, Calls, Outs
  <2> QED
    BY <2>1, BegunLocals
<1>3. st \in Scratch /\ SeededTo(st, seeds, times, n) /\ call2.times = call.times /\ call2.out.nodes = call.out.nodes
  BY DEF IsBegun
<1>4. n \in Nat /\ \A j \in 1 .. n : seeds[j] \in SampleNodes /\ times[j] \in Int
  BY <1>1
<1> HIDE DEF seeds, times, n, o, L, all
<1>5. R = {<<all[k] - L, call.times[k]>> : k \in {j \in DOMAIN all : all[j] > L}}
  BY <1>3 DEF PassSeeds, all, L
<1> HIDE DEF R
<1>6. ASSUME NEW r \in R PROVE \E j \in 1 .. n : r[1] = Local(st.dedup, seeds[j]) /\ r[2] = times[j]
  <2>1. PICK k \in DOMAIN all : all[k] > L /\ r = <<all[k] - L, call.times[k]>>
    BY <1>5
  <2>2. CASE \E j \in 1 .. n : k = o + j
    <3>1. PICK j \in 1 .. n : k = o + j
      BY <2>2
    <3> DEFINE c == Local(st.dedup, seeds[j])
    <3>2. c \in Nat /\ all[k] = L + c /\ times[j] = call.times[k]
      BY <1>1, <1>2, <3>1
    <3> HIDE DEF c
    <3>3. all[k] - L = c
      BY <1>2, <3>2
    <3>4. r[1] = c /\ r[2] = times[j]
      BY <2>1, <3>2, <3>3
    <3> QED
      BY <3>4 DEF c
  <2>3. CASE all[k] \in Nat /\ all[k] <= L /\ ~\E j \in 1 .. n : k = o + j
    <3> DEFINE e == all[k]
    <3>1. e > L /\ e <= L /\ e \in Nat
      BY <2>1, <2>3
    <3> HIDE DEF e
    <3>2. FALSE
      BY <1>2, <3>1
    <3> QED
      BY <3>2
  <2> QED
    BY <1>2, <2>2, <2>3
<1>7. ASSUME NEW j \in 1 .. n PROVE \E r \in R : r[1] = Local(st.dedup, seeds[j])
  <2> DEFINE c == Local(st.dedup, seeds[j])
             k == o + j
             r == <<all[k] - L, call.times[k]>>
  <2>1. k \in DOMAIN all /\ all[k] = L + c /\ c \in Nat /\ c >= 1
    BY <1>2
  <2> HIDE DEF c, k
  <2>2. all[k] > L /\ all[k] - L = c
    BY <1>2, <2>1
  <2>3. r \in R
    BY <1>5, <2>1, <2>2
  <2>4. r[1] = c
    BY <2>2
  <2> QED
    BY <2>3, <2>4 DEF c
<1> QED
  BY <1>3, <1>4, <1>6, <1>7, SeedsInOrder DEF R

\* A pass begins with nothing but its seeds.
LEMMA BegunPass ==
  ASSUME NEW call, NEW b, Ready(call, b), NEW st, NEW locals, NEW call2, IsBegun(call, b, st, locals, call2),
         AskedOut(call), ~scfg.disjoint => \A g \in 0 .. Hops : call.out.newNodes[g] = 0, Hops \in Nat
  PROVE  AskedPass(call2, st, 1, 0)
<1> DEFINE p == st.pass
           n == Len(p.nodes)
           s == Start(p)
<1>1. /\ p.nodes \in Seq(SampleNodes) /\ p.frontier = p.nodes /\ p.next = <<>> /\ p.edges = <<>>
  BY DEF IsBegun, SeededTo, Unexpanded, Scratch, Scratches, Passes
<1>2. n \in Nat /\ s = n - n - 0
  <2>1. n \in Nat
    BY <1>1
  <2>2. Len(p.frontier) = n
    BY <1>1
  <2>3. Len(p.next) = 0
    BY <1>1
  <2>4. s = n - Len(p.frontier) - Len(p.next)
    BY DEF Start
  <2> HIDE DEF n, s, p
  <2> QED
    BY <2>1, <2>2, <2>3, <2>4
<1> HIDE DEF n, p
<1>3. s = 0
  BY <1>2
<1>4. Aligned(p)
  <2>1. \A i \in DOMAIN p.frontier : p.nodes[s + i] = p.frontier[i]
    <3> HIDE DEF s
    <3>1. \A i \in DOMAIN p.frontier : s + i = i
      BY <1>1, <1>3
    <3> QED
      BY <1>1, <3>1
  <2>2. DOMAIN p.next = {}
    BY <1>1
  <2>3. s \in Nat
    BY <1>3
  <2> HIDE DEF s
  <2> QED
    BY <1>3, <2>1, <2>2, <2>3 DEF Aligned, s
<1>5. PassAligned(p, 0)
  BY <1>1, <1>2, <1>4 DEF PassAligned, n
<1>6. PassOnce(p, 1, 0)
  BY <1>1 DEF PassOnce, OnceTo
<1>7. Temporal => CausalPass(p, PassSeeds(call2))
  BY BegunCausal DEF AskedOut, p
<1>8. ASSUME OnceEach PROVE Fanned(p, call2.out.newNodes, 1, 0)
  <2> DEFINE counts == call.out.newNodes
             counts2 == call2.out.newNodes
  <2>1. IsAdded(counts, counts2, 0, n) /\ counts \in [0 .. Hops -> Nat]
    BY Zenon DEF IsBegun, n, p, Ready, Calls, Outs
  <2>2. \A g \in 0 .. Hops : counts[g] = 0
    BY <1>8 DEF OnceEach
  <2>3. 0 \in 0 .. Hops /\ \A g \in 1 .. Hops : g \in 0 .. Hops /\ g # 0
    OBVIOUS
  <2> HIDE DEF counts, counts2
  <2>4. counts2 = [counts EXCEPT ![0] = @ + n]
    BY <2>1 DEF IsAdded
  <2>5. counts2[0] = n /\ counts2 \in [0 .. Hops -> Nat] /\ \A g \in 1 .. Hops : counts2[g] = 0
    <3>1. counts[0] + n = n
      BY <1>2, <2>2, <2>3
    <3>2. counts2[0] = n
      BY <2>1, <2>3, <2>4, <3>1
    <3>3. counts2 \in [0 .. Hops -> Nat]
      BY <1>2, <2>1, <2>4, <3>1
    <3>4. \A g \in 1 .. Hops : counts2[g] = counts[g]
      BY <2>1, <2>3, <2>4
    <3> QED
      BY <2>2, <2>3, <3>2, <3>3, <3>4
  <2>6. NodesBy(counts2, 0) = n
    BY <2>5, LevelFacts, Zenon
  <2>7. Len(p.frontier) = n
    BY <1>1 DEF n
  <2>8. \A k \in DOMAIN p.nodes : ~(k <= 0) /\ OutOf(p.edges, k) = {}
    BY <1>1 DEF OutOf
  <2> HIDE DEF s
  <2>9. s + Len(p.frontier) = NodesBy(counts2, 0) /\ \A k \in DOMAIN p.nodes : ~(k <= s + 0)
    BY <1>2, <1>3, <2>6, <2>7, <2>8
  <2>10. s + Len(p.frontier) = NodesBy(counts2, 1 - 1)
    <3> DEFINE z == 1 - 1
    <3>1. z = 0
      OBVIOUS
    <3> HIDE DEF z
    <3>2. s + Len(p.frontier) = NodesBy(counts2, z)
      BY <2>9, <3>1
    <3> QED
      BY <3>2 DEF z
  <2> QED
    BY <1>3, <2>5, <2>8, <2>9, <2>10, Zenon DEF Fanned, s, counts2
<1> QED
  BY <1>5, <1>6, <1>7, <1>8 DEF AskedPass, p

\* Beginning a block, every part of the invariant.
LEMMA BlockAsked ==
  ASSUME scfg \in Configs, dedup \in Dedups, dedup.tag < Generations, NotAhead(dedup),
         NEW call, NEW b, Ready(call, b), BeginBlock(call, b), AskedOut(call),
         ~scfg.disjoint => \A g \in 0 .. Hops : call.out.newNodes[g] = 0
  PROVE  /\ AskedOut(scall')
         /\ AskedPass(scall', [dedup |-> dedup', pass |-> pass'], hop', expanded')
<1>1. Temporal => \A k \in DOMAIN call.times : call.times[k] \in Int
  BY DEF AskedOut
<1>2. PICK st, locals, call2 : IsBegun(call, b, st, locals, call2)
  BY <1>1, BegunFacts
<1>3. Hops \in Nat
  BY SamplerAssumption DEF Hops, ConfigOK
<1>4. AskedOut(call2) /\ AskedPass(call2, st, 1, 0)
  BY <1>2, <1>3, BegunOut, BegunPass
<1>5. call2 = scall' /\ st = [dedup |-> dedup', pass |-> pass'] /\ hop' = 1 /\ expanded' = 0
  BY <1>2 DEF IsBegun
<1> QED
  BY <1>4, <1>5

\* A block's edges go behind those of the blocks before, their ends shifted.
Spliced(es, r, L, es2) ==
  /\ Len(es) \in Nat /\ Len(r) \in Nat /\ Len(es2) = Len(es) + Len(r)
  /\ DOMAIN es = 1 .. Len(es) /\ DOMAIN r = 1 .. Len(r) /\ DOMAIN es2 = 1 .. Len(es2)
  /\ \A i \in DOMAIN es : i \in DOMAIN es2 /\ es2[i] = es[i]
  /\ \A j \in DOMAIN r : /\ Len(es) + j \in DOMAIN es2
                         /\ es2[Len(es) + j].eid = r[j].eid
                         /\ es2[Len(es) + j].sl = L + r[j].sl /\ es2[Len(es) + j].dl = L + r[j].dl
                         /\ r[j].sl \in Nat /\ r[j].dl \in Nat
  /\ \A k \in DOMAIN es2 : k \in DOMAIN es \/ \E j \in DOMAIN r : k = Len(es) + j
LEMMA SplicedEdges ==
  ASSUME NEW es \in Seq(EdgeRec), NEW r \in Seq(EdgeRec), NEW L \in Nat
  PROVE  Spliced(es, r, L, es \o Shifted(r, L))
<1> DEFINE moved == Shifted(r, L)
           es2 == es \o moved
<1>1. moved = [i \in DOMAIN r |-> ShiftedEdge(r[i], L)]
  BY DEF Shifted, ShiftedEdge
<1>2. DOMAIN r = 1 .. Len(r) /\ Len(r) \in Nat /\ \A i \in DOMAIN r : r[i] \in EdgeRec
  OBVIOUS
<1> HIDE DEF moved
<1>3. \A i \in DOMAIN r : /\ ShiftedEdge(r[i], L) \in EdgeRec /\ ShiftedEdge(r[i], L).eid = r[i].eid
                          /\ ShiftedEdge(r[i], L).sl = L + r[i].sl /\ ShiftedEdge(r[i], L).dl = L + r[i].dl
  BY <1>2, ShiftedFields, Zenon
<1>4. moved \in Seq(EdgeRec) /\ Len(moved) = Len(r) /\ DOMAIN moved = DOMAIN r
  <2>1. moved \in [1 .. Len(r) -> EdgeRec]
    BY <1>1, <1>2, <1>3
  <2> QED
    BY <1>2, <2>1, TupleIsSequence
<1>5. es2 \in Seq(EdgeRec) /\ IsJoin(es, moved, es2)
  BY <1>4, JoinedEntries
<1> HIDE DEF es2
<1>6. /\ Len(es2) = Len(es) + Len(r) /\ Len(es) \in Nat
      /\ \A i \in DOMAIN es : i \in DOMAIN es2 /\ es2[i] = es[i]
      /\ \A j \in DOMAIN r : Len(es) + j \in DOMAIN es2 /\ es2[Len(es) + j] = moved[j]
      /\ \A k \in DOMAIN es2 : k \in DOMAIN es \/ \E j \in DOMAIN r : k = Len(es) + j
  BY <1>4, <1>5 DEF IsJoin
<1>7. DOMAIN es = 1 .. Len(es) /\ DOMAIN es2 = 1 .. Len(es2)
  BY <1>5
<1>8. \A j \in DOMAIN r : r[j].sl \in Nat /\ r[j].dl \in Nat
  BY <1>2, Zenon DEF EdgeRec
<1>9. \A j \in DOMAIN r : moved[j] = ShiftedEdge(r[j], L)
  BY <1>1
<1> QED
  BY <1>2, <1>3, <1>6, <1>7, <1>8, <1>9, SMTT(60) DEF Spliced, es2, moved

\* A pass is joined to its call.
IsClosing(call, b, st, r, out2) ==
  /\ st = [dedup |-> dedup, pass |-> pass] /\ st \in Scratch /\ b \in Nat \ {0} /\ call \in Calls
  /\ r = TypedEdges(st) /\ Len(call.out.nodes) \in Nat
  /\ Spliced(call.out.edges, r, Len(call.out.nodes), out2.edges)
  /\ out2.nodes = AllNodes(call, st.pass) /\ out2.batch = AllBatch(call, st.pass)
  /\ out2.seedLocals = call.out.seedLocals /\ out2.newNodes = call.out.newNodes
  /\ BlocksReal(call.out, b - 1) /\ IsBlock(call, st.pass, b)
  /\ \A i \in DOMAIN r : \/ RealEdge(st.pass.nodes, r[i])
                         \/ (scfg.subgraph = "bidirectional" /\ RealEdge(st.pass.nodes, Reversed(r[i])))
LEMMA ClosingFacts ==
  ASSUME scfg \in Configs, NEW call \in Calls, NEW b \in Nat \ {0}, call.begun = b,
         [dedup |-> dedup, pass |-> pass] \in Scratch, BlocksReal(call.out, b - 1)
  PROVE  \E st, r : IsClosing(call, b, st, r, Closed(call).out)
<1> DEFINE st == [dedup |-> dedup, pass |-> pass]
           r == TypedEdges(st)
           L == Len(call.out.nodes)
           out2 == Closed(call).out
<1>1. st \in Scratch /\ st.pass = pass /\ call.out \in Outs
  BY DEF Calls
<1>2. call.out.edges \in Seq(EdgeRec) /\ L \in Nat
  BY <1>1 DEF Outs
<1>3. /\ r \in Seq(EdgeRec)
      /\ \A i \in DOMAIN r : \/ RealEdge(st.pass.nodes, r[i])
                             \/ (scfg.subgraph = "bidirectional" /\ RealEdge(st.pass.nodes, Reversed(r[i])))
  <2> HIDE DEF st
  <2> QED
    BY <1>1, TypedEdgesReal
<1>4. /\ out2.nodes = AllNodes(call, pass) /\ out2.batch = AllBatch(call, pass)
      /\ out2.seedLocals = call.out.seedLocals /\ out2.newNodes = call.out.newNodes
  BY JoinedBlock
<1>5. out2.edges = call.out.edges \o Shifted(r, L)
  <2> DEFINE o2 == Joined(call.out, b)
  <2>1. o2 = [call.out EXCEPT !.edges = @ \o Shifted(r, L), !.nodes = @ \o pass.nodes,
                              !.batch = @ \o [i \in DOMAIN pass.nodes |-> b]]
    BY DEF Joined
  <2>2. Closed(call) = [call EXCEPT !.out = o2]
    BY DEF Closed
  <2> HIDE DEF o2, r, st
  <2>3. out2 = o2
    BY <2>2 DEF Calls
  <2>4. o2.edges = call.out.edges \o Shifted(r, L)
    BY <1>1, <2>1, Zenon DEF Outs
  <2> QED
    BY <2>3, <2>4
<1>6. IsBlock(call, st.pass, b)
  <2> HIDE DEF st
  <2> QED
    BY <1>1, BlockNodes
<1> HIDE DEF r, out2
<1>7. Spliced(call.out.edges, r, L, out2.edges)
  BY <1>2, <1>3, <1>5, SplicedEdges
<1>8. IsClosing(call, b, st, r, out2)
  BY <1>1, <1>2, <1>3, <1>4, <1>6, <1>7 DEF IsClosing, r
<1> QED
  BY <1>8 DEF out2

\* The ends of earlier edges lie in the earlier blocks, those of the pass behind them.
Split(es, r, L) ==
  /\ \A i \in DOMAIN es : es[i].sl \in Nat /\ es[i].dl \in Nat /\ es[i].sl <= L /\ es[i].dl <= L
  /\ \A j \in DOMAIN r : r[j].sl >= 1 /\ r[j].dl >= 1
LEMMA ClosingSplit ==
  ASSUME NEW call, NEW b, NEW st, NEW r, NEW out2, IsClosing(call, b, st, r, out2)
  PROVE  Split(call.out.edges, r, Len(call.out.nodes))
<1> DEFINE es == call.out.edges
           L == Len(call.out.nodes)
<1>1. /\ call.out.nodes \in Seq(SampleNodes) /\ st.pass.nodes \in Seq(SampleNodes) /\ L \in Nat
  BY DEF IsClosing, Calls, Outs, Scratch, Scratches, Passes
<1>2. DOMAIN call.out.nodes = 1 .. L /\ DOMAIN st.pass.nodes \subseteq Nat \ {0}
  BY <1>1
<1>3. \A i \in DOMAIN es : es[i].sl \in DOMAIN call.out.nodes /\ es[i].dl \in DOMAIN call.out.nodes
  BY DEF IsClosing, BlocksReal, RealIn
<1>4. \A j \in DOMAIN r : r[j].sl \in DOMAIN st.pass.nodes /\ r[j].dl \in DOMAIN st.pass.nodes
  <2> TAKE j \in DOMAIN r
  <2>1. RealEdge(st.pass.nodes, r[j]) \/ RealEdge(st.pass.nodes, Reversed(r[j]))
    BY DEF IsClosing
  <2> QED
    BY <2>1 DEF RealEdge, Reversed
<1> HIDE DEF es, L
<1>5. \A i \in DOMAIN es : es[i].sl \in Nat /\ es[i].dl \in Nat /\ es[i].sl <= L /\ es[i].dl <= L
  BY <1>1, <1>2, <1>3
<1>6. \A j \in DOMAIN r : r[j].sl >= 1 /\ r[j].dl >= 1
  <2> TAKE j \in DOMAIN r
  <2>1. r[j].sl \in Nat \ {0} /\ r[j].dl \in Nat \ {0}
    BY <1>2, <1>4
  <2> QED
    BY <2>1
<1> QED
  BY <1>5, <1>6 DEF Split, es, L

\* Joining a block repeats no edge.
LEMMA ClosedOnce ==
  ASSUME NEW call, NEW b, NEW st, NEW r, NEW out2, IsClosing(call, b, st, r, out2),
         scfg.subgraph = "directional", ~scfg.replace, OutOnce(call.out), NEW h, NEW x, PassOnce(st.pass, h, x)
  PROVE  OutOnce(out2)
<1> DEFINE es == call.out.edges
           es2 == out2.edges
           L == Len(call.out.nodes)
<1>1. r = st.pass.edges
  BY DEF IsClosing, TypedEdges
<1>2. \A i, j \in DOMAIN r : r[i].eid = r[j].eid /\ r[i].sl = r[j].sl => i = j
  BY <1>1 DEF PassOnce, OnceTo
<1>3. Spliced(es, r, L, es2) /\ L \in Nat /\ Split(es, r, L)
  BY ClosingSplit, Zenon DEF IsClosing
<1>4. \A i, j \in DOMAIN es : es[i].eid = es[j].eid /\ es[i].sl = es[j].sl => i = j
  BY DEF OutOnce
<1> HIDE DEF es, es2, L
<1>5. /\ \A i \in DOMAIN es : es2[i] = es[i] /\ es[i].sl \in Nat /\ es[i].sl <= L
      /\ \A j \in DOMAIN r : /\ es2[Len(es) + j].eid = r[j].eid /\ es2[Len(es) + j].sl = L + r[j].sl
                             /\ r[j].sl \in Nat /\ r[j].sl >= 1
      /\ \A k \in DOMAIN es2 : k \in DOMAIN es \/ \E j \in DOMAIN r : k = Len(es) + j
  BY <1>3, Zenon DEF Spliced, Split
<1> SUFFICES ASSUME NEW i \in DOMAIN es2, NEW j \in DOMAIN es2, es2[i].eid = es2[j].eid, es2[i].sl = es2[j].sl
             PROVE  i = j
  BY DEF OutOnce, es2
<1>6. CASE i \in DOMAIN es /\ j \in DOMAIN es
  BY <1>4, <1>5, <1>6
<1>7. ASSUME NEW k \in DOMAIN es, NEW m \in DOMAIN r PROVE es2[k].sl # es2[Len(es) + m].sl
  <2> DEFINE v == es[k].sl
             w == r[m].sl
  <2>1. es2[k].sl = v /\ es2[Len(es) + m].sl = L + w /\ v \in Nat /\ v <= L /\ w \in Nat /\ w >= 1
    BY <1>5
  <2> HIDE DEF v, w
  <2>2. v # L + w
    BY <1>3, <2>1
  <2> QED
    BY <2>1, <2>2
<1>8. ASSUME NEW k \in DOMAIN r, NEW m \in DOMAIN r, i = Len(es) + k, j = Len(es) + m PROVE i = j
  <2> DEFINE v == r[k].sl
             w == r[m].sl
  <2>1. es2[i].sl = L + v /\ es2[j].sl = L + w /\ v \in Nat /\ w \in Nat /\ r[k].eid = r[m].eid
    BY <1>5, <1>8
  <2>4. L + v = L + w
    BY <2>1, Zenon
  <2> HIDE DEF v, w
  <2>2. v = w
    BY <1>3, <2>1, <2>4
  <2>3. k = m
    BY <1>2, <2>1, <2>2 DEF v, w
  <2> QED
    BY <1>8, <2>3
<1> QED
  BY <1>5, <1>6, <1>7, <1>8

\* Joining a block keeps the order of times.
LEMMA ClosedInOrder ==
  ASSUME NEW call, NEW b, NEW st, NEW r, NEW out2, IsClosing(call, b, st, r, out2),
         call.out.seedLocals \in Seq(Nat),
         scfg.subgraph = "directional", InOrder(call.out.edges, AllSeeds(call)), InOrder(st.pass.edges, PassSeeds(call))
  PROVE  InOrder(out2.edges, AllSeeds(call))
<1> DEFINE es == call.out.edges
           es2 == out2.edges
           L == Len(call.out.nodes)
           all == call.out.seedLocals
           A == AllSeeds(call)
           R == PassSeeds(call)
           n == Len(es)
<1>1. r = st.pass.edges
  BY DEF IsClosing, TypedEdges
<1>2. Spliced(es, r, L, es2) /\ L \in Nat /\ Split(es, r, L)
  BY ClosingSplit, Zenon DEF IsClosing
<1>3. /\ A = {<<all[k], call.times[k]>> : k \in DOMAIN all}
      /\ R = {<<all[k] - L, call.times[k]>> : k \in {j \in DOMAIN all : all[j] > L}}
      /\ \A k \in DOMAIN all : all[k] \in Nat
  BY DEF AllSeeds, PassSeeds
<1>4. InOrder(es, A) /\ InOrder(r, R)
  BY <1>1
<1> HIDE DEF es, es2, L, all, A, R, n
<1>5. /\ n \in Nat /\ DOMAIN es = 1 .. n /\ DOMAIN r \subseteq Nat \ {0}
      /\ \A i \in DOMAIN es : /\ es2[i] = es[i] /\ es[i].sl \in Nat /\ es[i].sl <= L
                              /\ es[i].dl \in Nat /\ es[i].dl <= L
      /\ \A j \in DOMAIN r : /\ es2[n + j].eid = r[j].eid /\ es2[n + j].sl = L + r[j].sl
                             /\ es2[n + j].dl = L + r[j].dl
                             /\ r[j].sl \in Nat /\ r[j].sl >= 1 /\ r[j].dl \in Nat
      /\ \A k \in DOMAIN es2 : k \in DOMAIN es \/ \E j \in DOMAIN r : k = n + j
  <2>1. DOMAIN r \subseteq Nat \ {0}
    BY <1>2 DEF Spliced
  <2> QED
    BY <1>2, <2>1 DEF Spliced, Split, n
<1>6. ASSUME NEW i \in DOMAIN es PROVE InOrderAt(es2, A, i)
  <2>1. InOrderAt(es, A, i) /\ es2[i] = es[i]
    BY <1>4, <1>5 DEF InOrder
  <2>2. \A j \in 1 .. i - 1 : j \in DOMAIN es
    BY <1>5
  <2>3. \A j \in 1 .. i - 1 : es2[j] = es[j]
    BY <1>5, <2>2
  <2>4. \A j \in 1 .. i - 1 : \A k : Enters(es2, j, k) <=> Enters(es, j, k)
    BY <2>3 DEF Enters
  <2> QED
    BY <2>1, <2>3, <2>4 DEF InOrderAt
<1>7. ASSUME NEW m \in DOMAIN r PROVE InOrderAt(es2, A, n + m)
  <2> DEFINE k == r[m].sl
             i == n + m
  <2>1. k \in Nat /\ k >= 1 /\ es2[i].sl = L + k /\ es2[i].eid = r[m].eid /\ InOrderAt(r, R, m)
        /\ m \in Nat \ {0}
    BY <1>4, <1>5 DEF InOrder
  <2>2. \A j \in 1 .. i - 1 : j \in 1 .. n \/ \E o \in 1 .. m - 1 : j = n + o
    <3> TAKE j \in 1 .. i - 1
    <3>1. j \in 1 .. n \/ (j - n \in 1 .. m - 1 /\ j = n + (j - n))
      BY <1>5, <2>1
    <3> QED
      BY <3>1
  <2>3. \A o \in 1 .. m - 1 : o \in DOMAIN r /\ n + o \in 1 .. i - 1
    <3>1. \A o \in 1 .. m - 1 : n + o \in 1 .. i - 1
      BY <1>5, <2>1
    <3>2. DOMAIN r = 1 .. Len(r) /\ Len(r) \in Nat
      BY <1>2 DEF Spliced
    <3>3. \A o \in 1 .. m - 1 : o \in DOMAIN r
      BY <3>2
    <3> QED
      BY <3>1, <3>3
  <2> HIDE DEF k
  <2>4. \A o \in 1 .. m - 1 : Enters(es2, n + o, L + k) <=> Enters(r, o, k)
    <3> TAKE o \in 1 .. m - 1
    <3> DEFINE v == r[o].sl
               w == r[o].dl
    <3>1. es2[n + o].sl = L + v /\ es2[n + o].dl = L + w /\ v \in Nat /\ w \in Nat
      BY <1>5, <2>3, Zenon
    <3> HIDE DEF v, w
    <3>2. (L + w = L + k <=> w = k) /\ (L + v # L + k <=> v # k)
      BY <1>2, <2>1, <3>1
    <3> QED
      BY <3>1, <3>2 DEF Enters, v, w
  <2>5. \A j \in 1 .. n : ~Enters(es2, j, L + k)
    <3> TAKE j \in 1 .. n
    <3> DEFINE w == es[j].dl
    <3>1. es2[j].dl = w /\ w \in Nat /\ w <= L
      BY <1>5, Zenon
    <3> HIDE DEF w
    <3>2. w # L + k
      BY <1>2, <2>1, <3>1
    <3> QED
      BY <3>1, <3>2 DEF Enters
  <2>6. \A q \in A : q[1] = L + k => \E s \in R : s[1] = k /\ s[2] = q[2]
    <3> SUFFICES ASSUME NEW q \in A, q[1] = L + k PROVE \E s \in R : s[1] = k /\ s[2] = q[2]
      OBVIOUS
    <3>1. PICK j \in DOMAIN all : q = <<all[j], call.times[j]>>
      BY <1>3
    <3> DEFINE v == all[j]
    <3>2. v \in Nat /\ v = L + k /\ q[2] = call.times[j]
      BY <1>3, <3>1
    <3> HIDE DEF v
    <3>3. v > L /\ v - L = k
      BY <1>2, <2>1, <3>2
    <3>4. <<v - L, call.times[j]>> \in R
      BY <1>3, <3>3 DEF v
    <3> QED
      BY <3>2, <3>3, <3>4, Zenon
  <2>7. HasSeed(R, k) => HasSeed(A, L + k)
    <3> SUFFICES ASSUME HasSeed(R, k) PROVE HasSeed(A, L + k)
      OBVIOUS
    <3>1. PICK s \in R : s[1] = k
      BY DEF HasSeed
    <3>2. PICK j \in DOMAIN all : all[j] > L /\ s = <<all[j] - L, call.times[j]>>
      BY <1>3
    <3> DEFINE v == all[j]
    <3>3. v \in Nat /\ v - L = k
      BY <1>3, <3>1, <3>2
    <3>4. <<v, call.times[j]>> \in A
      BY <1>3
    <3> HIDE DEF v
    <3>5. v = L + k
      BY <1>2, <2>1, <3>3
    <3> QED
      BY <3>4, <3>5 DEF HasSeed
  <2> HIDE DEF i
  <2>8. HasSeed(R, k) \/ \E o \in 1 .. m - 1 : Enters(r, o, k)
    BY <2>1 DEF InOrderAt, k
  <2>9. HasSeed(A, es2[i].sl) \/ \E j \in 1 .. i - 1 : Enters(es2, j, es2[i].sl)
    BY <2>1, <2>3, <2>4, <2>7, <2>8
  <2>10. ASSUME NEW j \in 1 .. i - 1, Enters(es2, j, es2[i].sl)
         PROVE  Timestamp[es2[i].eid] < Timestamp[es2[j].eid]
    <3>1. PICK o \in 1 .. m - 1 : j = n + o
      BY <2>1, <2>2, <2>5, <2>10
    <3>2. Enters(r, o, k) /\ es2[j].eid = r[o].eid
      BY <1>5, <2>1, <2>3, <2>4, <2>10, <3>1
    <3>3. Timestamp[r[m].eid] < Timestamp[r[o].eid]
      BY <2>1, <3>2 DEF InOrderAt, k
    <3> QED
      BY <2>1, <3>2, <3>3
  <2>11. ASSUME NEW q \in A, q[1] = es2[i].sl PROVE Timestamp[es2[i].eid] < q[2]
    <3>1. PICK s \in R : s[1] = k /\ s[2] = q[2]
      BY <2>1, <2>6, <2>11
    <3>2. Timestamp[r[m].eid] < s[2]
      BY <2>1, <3>1 DEF InOrderAt, k
    <3> QED
      BY <2>1, <3>1, <3>2
  <2>12. InOrderAt(es2, A, i)
    BY <2>9, <2>10, <2>11 DEF InOrderAt
  <2> QED
    BY <2>12 DEF i
<1>8. InOrder(es2, A)
  BY <1>5, <1>6, <1>7 DEF InOrder
<1> QED
  BY <1>8 DEF es2, A

\* Where the nodes of the joined blocks are.
LEMMA ClosedNodes ==
  ASSUME NEW call, NEW b, NEW st, NEW r, NEW out2, IsClosing(call, b, st, r, out2)
  PROVE  LET L == Len(call.out.nodes)
         IN /\ \A i \in DOMAIN call.out.nodes :
                 /\ out2.nodes[i] = call.out.nodes[i] /\ out2.batch[i] = call.out.batch[i] /\ out2.batch[i] # b
            /\ \A j \in DOMAIN st.pass.nodes : out2.nodes[L + j] = st.pass.nodes[j] /\ out2.batch[L + j] = b
            /\ \A k \in DOMAIN out2.nodes : k \in DOMAIN call.out.nodes \/ \E j \in DOMAIN st.pass.nodes : k = L + j
<1>1. b \in Nat \ {0} /\ \A v \in 1 .. b - 1 : v # b
  BY DEF IsClosing
<1>2. IsBlock(call, st.pass, b) /\ out2.nodes = AllNodes(call, st.pass) /\ out2.batch = AllBatch(call, st.pass)
  BY DEF IsClosing
<1> DEFINE nodes == AllNodes(call, st.pass)
           batch == AllBatch(call, st.pass)
<1>3. /\ IsJoin(call.out.nodes, st.pass.nodes, nodes)
      /\ \A i \in DOMAIN call.out.nodes : batch[i] = call.out.batch[i] /\ batch[i] \in 1 .. b - 1
      /\ \A j \in DOMAIN st.pass.nodes : batch[Len(call.out.nodes) + j] = b
  BY <1>2 DEF IsBlock
<1> HIDE DEF nodes, batch
<1>4. out2.nodes = nodes /\ out2.batch = batch
  BY <1>2 DEF nodes, batch
<1> QED
  BY <1>1, <1>3, <1>4, Zenon DEF IsJoin

\* Joining an induced block leaves every block whole.
LEMMA ClosedWhole ==
  ASSUME NEW call, NEW b, NEW st, NEW r, NEW out2, IsClosing(call, b, st, r, out2),
         scfg.subgraph = "induced", ~Temporal, OutWhole(call.out)
  PROVE  OutWhole(out2)
<1> DEFINE es == call.out.edges
           es2 == out2.edges
           L == Len(call.out.nodes)
           n == Len(es)
           nodes == call.out.nodes
           nodes2 == out2.nodes
           batch == call.out.batch
           batch2 == out2.batch
           N == DOMAIN st.pass.nodes
<1>1. r = Induce(st) /\ st \in Scratch /\ L \in Nat /\ Spliced(es, r, L, es2)
  BY DEF IsClosing, TypedEdges
<1>2. N = 1 .. Len(st.pass.nodes) /\ Matched(st.dedup, st.pass.nodes)
  BY <1>1 DEF Scratch, Scratches, Passes, Sound
<1>3. WholeTo(st, r, 1, Len(st.pass.nodes))
  BY <1>1, InducedWhole
<1>4. /\ \A x, y \in DOMAIN r : r[x].eid = r[y].eid => x = y
      /\ \A x \in DOMAIN r : r[x].sl \in N
      /\ \A k \in N : \A e \in Range(RowOf(st.pass.nodes[k])) :
           Known(st.dedup, Dst[e]) => \E x \in DOMAIN r : r[x].eid = e /\ r[x].sl = k
  BY <1>2, <1>3 DEF WholeTo
<1>5. /\ \A i \in DOMAIN nodes : nodes2[i] = nodes[i] /\ batch2[i] = batch[i] /\ batch2[i] # b
      /\ \A j \in N : nodes2[L + j] = st.pass.nodes[j] /\ batch2[L + j] = b
      /\ \A k \in DOMAIN nodes2 : k \in DOMAIN nodes \/ \E j \in N : k = L + j
  BY ClosedNodes
<1>6. /\ \A i, j \in DOMAIN es : es[i].eid = es[j].eid /\ batch[es[i].sl] = batch[es[j].sl] => i = j
      /\ \A k, o \in DOMAIN nodes : \A e \in Range(RowOf(nodes[k])) :
           Dst[e] = nodes[o] /\ batch[k] = batch[o] =>
             \E x \in DOMAIN es : es[x].eid = e /\ es[x].sl = k
  BY DEF OutWhole
<1>7. \A i \in DOMAIN es : es[i].sl \in DOMAIN nodes
  BY DEF IsClosing, BlocksReal, RealIn
<1> HIDE DEF es, es2, L, n, nodes, nodes2, batch, batch2, N
<1>8. /\ \A i \in DOMAIN es : i \in DOMAIN es2 /\ es2[i] = es[i]
      /\ \A j \in DOMAIN r : /\ n + j \in DOMAIN es2 /\ es2[n + j].eid = r[j].eid /\ es2[n + j].sl = L + r[j].sl
      /\ \A k \in DOMAIN es2 : k \in DOMAIN es \/ \E j \in DOMAIN r : k = n + j
  BY <1>1 DEF Spliced, n
<1>9. \A k \in DOMAIN es : batch2[es2[k].sl] = batch[es[k].sl] /\ batch2[es2[k].sl] # b
  BY <1>5, <1>7, <1>8
<1>10. \A m \in DOMAIN r : batch2[es2[n + m].sl] = b
  BY <1>4, <1>5, <1>8
<1>11. ASSUME NEW i \in DOMAIN es2, NEW j \in DOMAIN es2, es2[i].eid = es2[j].eid,
              batch2[es2[i].sl] = batch2[es2[j].sl]
       PROVE  i = j
  <2>1. CASE i \in DOMAIN es /\ j \in DOMAIN es
    <3>1. es[i].eid = es[j].eid /\ batch[es[i].sl] = batch[es[j].sl]
      BY <1>8, <1>9, <1>11, <2>1
    <3> QED
      BY <1>6, <2>1, <3>1
  <2>2. ASSUME NEW k \in DOMAIN r, NEW m \in DOMAIN r, i = n + k, j = n + m PROVE i = j
    <3>1. r[k].eid = r[m].eid
      BY <1>8, <1>11, <2>2
    <3> QED
      BY <1>4, <2>2, <3>1
  <2> QED
    BY <1>8, <1>9, <1>10, <1>11, <2>1, <2>2
<1>12. ASSUME NEW k \in DOMAIN nodes2, NEW o \in DOMAIN nodes2, NEW e \in Range(RowOf(nodes2[k])),
              Dst[e] = nodes2[o], batch2[k] = batch2[o]
       PROVE  \E x \in DOMAIN es2 : es2[x].eid = e /\ es2[x].sl = k
  <2>1. CASE k \in DOMAIN nodes /\ o \in DOMAIN nodes
    <3>1. e \in Range(RowOf(nodes[k])) /\ Dst[e] = nodes[o] /\ batch[k] = batch[o]
      BY <1>5, <1>12, <2>1
    <3>2. PICK x \in DOMAIN es : es[x].eid = e /\ es[x].sl = k
      BY <1>6, <2>1, <3>1
    <3> QED
      BY <1>8, <3>2
  <2>2. ASSUME NEW i \in N, NEW j \in N, k = L + i, o = L + j
        PROVE  \E x \in DOMAIN es2 : es2[x].eid = e /\ es2[x].sl = k
    <3>1. nodes2[k] = st.pass.nodes[i] /\ nodes2[o] = st.pass.nodes[j]
      BY <1>5, <2>2
    <3>2. Known(st.dedup, Dst[e])
      <4>1. Known(st.dedup, st.pass.nodes[j])
        BY <1>2 DEF Matched, N
      <4> QED
        BY <1>12, <3>1, <4>1
    <3>3. PICK x \in DOMAIN r : r[x].eid = e /\ r[x].sl = i
      BY <1>4, <1>12, <3>1, <3>2
    <3>4. n + x \in DOMAIN es2 /\ es2[n + x].eid = e /\ es2[n + x].sl = k
      BY <1>8, <2>2, <3>3
    <3> QED
      BY <3>4
  <2>3. \A i \in DOMAIN nodes : \A j \in N : batch2[i] # batch2[L + j]
    BY <1>5
  <2> QED
    BY <1>5, <1>12, <2>1, <2>2, <2>3
<1> QED
  BY <1>11, <1>12 DEF OutWhole, es2, nodes2, batch2

\* A call of one pass ends with that pass's counts.
LEMMA ClosedFan ==
  ASSUME NEW call, NEW st, NEW r, NEW out2, IsClosing(call, 1, st, r, out2),
         scfg.subgraph = "directional", Hops \in Nat, st.pass.next = <<>>, PassAligned(st.pass, 0),
         Fanned(st.pass, call.out.newNodes, Hops + 1, 0)
  PROVE  FanDone(out2)
<1> DEFINE p == st.pass
           es == call.out.edges
           es2 == out2.edges
           L == Len(call.out.nodes)
           counts == call.out.newNodes
           s == Start(p)
           h == Hops + 1
<1>1. /\ r = p.edges /\ st \in Scratch /\ L \in Nat /\ Spliced(es, r, L, es2) /\ out2.newNodes = counts
      /\ counts \in [0 .. Hops -> Nat] /\ call.out.batch \in Seq(Nat) /\ call.out.nodes \in Seq(SampleNodes)
  BY DEF IsClosing, TypedEdges, Calls, Outs
<1>2. p.nodes \in Seq(SampleNodes) /\ p.frontier \in Seq(SampleNodes) /\ s \in Nat
  BY <1>1, Zenon DEF Scratch, Scratches, Passes, PassAligned, Aligned
<1>3. DOMAIN call.out.nodes = {} /\ L = 0
  <2>1. Len(call.out.batch) = L /\ \A i \in DOMAIN call.out.batch : call.out.batch[i] \in 1 .. 1 - 1
    BY DEF IsClosing, BlocksReal
  <2>2. DOMAIN call.out.batch = {}
    BY <2>1
  <2>4. DOMAIN call.out.batch = 1 .. L /\ DOMAIN call.out.nodes = 1 .. L
    BY <1>1, <2>1
  <2> HIDE DEF L
  <2>5. 1 .. L = {}
    BY <2>2, <2>4, Zenon
  <2>6. L \in Nat
    BY <1>1
  <2>3. L = 0
    BY <2>5, <2>6
  <2> QED
    BY <2>3, <2>4, <2>5
<1>4. DOMAIN es = {}
  BY <1>3 DEF IsClosing, BlocksReal, RealIn
<1>5. /\ \A j \in DOMAIN p.nodes : out2.nodes[L + j] = p.nodes[j]
      /\ \A k \in DOMAIN out2.nodes : k \in DOMAIN call.out.nodes \/ \E j \in DOMAIN p.nodes : k = L + j
  BY ClosedNodes
<1>6. \A j \in DOMAIN p.nodes : L + j = j
  BY <1>2, <1>3
<1>7. \A k \in DOMAIN out2.nodes : k \in DOMAIN p.nodes /\ out2.nodes[k] = p.nodes[k]
  BY <1>3, <1>5, <1>6
<1> HIDE DEF es, es2, L
<1>8. \A k \in Nat : OutOf(es2, k) = OutOf(r, k)
  <2>1. Len(es) = 0
    BY <1>1, <1>4 DEF Spliced
  <2>2. DOMAIN es2 = DOMAIN r
    BY <1>1, <2>1 DEF Spliced
  <2>3. \A j \in DOMAIN r : Len(es) + j = j /\ es2[Len(es) + j].sl = L + r[j].sl /\ r[j].sl \in Nat
    BY <1>1, <2>1 DEF Spliced
  <2>4. \A j \in DOMAIN r : es2[j].sl = r[j].sl
    <3> TAKE j \in DOMAIN r
    <3>1. es2[j].sl = L + r[j].sl /\ r[j].sl \in Nat
      BY <2>3
    <3> QED
      BY <1>3, <3>1
  <2> QED
    BY <2>2, <2>4 DEF OutOf
<1>9. h - 1 = Hops /\ h - 2 = Hops - 1 /\ (h = 1 <=> Hops = 0)
  OBVIOUS
<1>10. /\ s + Len(p.frontier) = NodesBy(counts, h - 1)
       /\ s = IF h = 1 THEN 0 ELSE NodesBy(counts, h - 2)
       /\ \A k \in DOMAIN p.nodes : IF k <= s + 0 THEN HasTaken(counts, p.nodes[k], p.edges, k, h)
                                    ELSE OutOf(p.edges, k) = {}
  BY DEF Fanned
<1> HIDE DEF h
<1>11. /\ s + Len(p.frontier) = NodesBy(counts, Hops)
       /\ s = IF Hops = 0 THEN 0 ELSE NodesBy(counts, Hops - 1)
  BY <1>9, <1>10
<1>12. DOMAIN p.nodes = 1 .. Len(p.nodes) /\ s + Len(p.frontier) = Len(p.nodes)
  <2> DEFINE n == Len(p.nodes)
             a == Len(p.frontier)
  <2>1. Len(p.next) = 0 /\ s = n - a - Len(p.next) /\ n \in Nat /\ a \in Nat
    BY <1>2 DEF Start
  <2> HIDE DEF n, a, s
  <2>2. s + a = n
    BY <2>1
  <2> QED
    BY <1>2, <2>2 DEF n, a
<1> HIDE DEF s, counts
<1>13. ASSUME NEW k \in DOMAIN out2.nodes
       PROVE  \/ \E g \in 1 .. Hops : /\ IsHop(out2.newNodes, k, g - 1)
                                      /\ TakenAt(out2.nodes[k], g, Cardinality(OutOf(es2, k)))
              \/ IsHop(out2.newNodes, k, Hops) /\ OutOf(es2, k) = {}
  <2>1. k \in DOMAIN p.nodes /\ out2.nodes[k] = p.nodes[k] /\ k \in Nat /\ k <= Len(p.nodes) /\ k >= 1
    BY <1>2, <1>7, <1>12
  <2>2. OutOf(es2, k) = OutOf(p.edges, k)
    BY <1>1, <1>8, <2>1
  <2>3. CASE k <= s + 0
    <3>1. HasTaken(counts, p.nodes[k], p.edges, k, h)
      BY <1>10, <2>1, <2>3
    <3> QED
      BY <1>1, <2>1, <2>2, <3>1 DEF HasTaken
  <2>4. CASE ~(k <= s + 0)
    <3>1. OutOf(p.edges, k) = {}
      BY <1>10, <2>1, <2>4
    <3>2. k > s /\ k <= NodesBy(counts, Hops)
      BY <1>2, <1>11, <1>12, <2>1, <2>4
    <3>3. \A f \in 0 .. Hops - 1 : k > NodesBy(counts, f)
      <4> TAKE f \in 0 .. Hops - 1
      <4>1. Hops # 0 /\ f \in 0 .. Hops /\ Hops - 1 \in 0 .. Hops /\ f <= Hops - 1
        OBVIOUS
      <4>2. NodesBy(counts, f) <= NodesBy(counts, Hops - 1) /\ NodesBy(counts, f) \in Nat
        BY <1>1, <4>1, LevelFacts, Zenon
      <4>3. s = NodesBy(counts, Hops - 1)
        BY <1>11, <4>1
      <4> QED
        BY <1>2, <2>1, <3>2, <4>2, <4>3
    <3>4. IsHop(counts, k, Hops)
      BY <3>2, <3>3 DEF IsHop
    <3> QED
      BY <1>1, <2>2, <3>1, <3>4
  <2> QED
    BY <2>3, <2>4
<1> QED
  BY <1>13 DEF FanDone, es2

\* A pass that ends leaves the blocks joined as asked.
LEMMA ClosedAsked ==
  ASSUME scfg \in Configs, NEW call \in Calls, NEW b \in Nat \ {0}, call.begun = b,
         NEW st, st = [dedup |-> dedup, pass |-> pass], st \in Scratch, BlocksReal(call.out, b - 1),
         AskedOut(call), NEW h, NEW x, AskedPass(call, st, h, x)
  PROVE  /\ AskedOut(Closed(call))
         /\ scfg.subgraph = "directional" /\ OnceEach /\ st.pass.next = <<>> /\ h \in 1 .. Hops + 1 /\ h > Hops /\ b = 1
              => FanDone(Closed(call).out)
<1> DEFINE c2 == Closed(call)
           out2 == c2.out
<1>1. PICK s, r : IsClosing(call, b, s, r, out2)
  BY ClosingFacts
<1>2. s = st
  BY <1>1 DEF IsClosing
<1>3. IsClosing(call, b, st, r, out2)
  BY <1>1, <1>2
<1>4. out2.seedLocals = call.out.seedLocals /\ call.out.seedLocals \in Seq(Nat) /\ c2.times = call.times
  BY JoinedBlock, Zenon DEF Calls, Outs
<1> HIDE DEF c2
<1>5. scfg.subgraph = "directional" /\ ~scfg.replace => OutOnce(out2)
  BY <1>3, ClosedOnce DEF AskedOut, AskedPass
<1>6. scfg.subgraph = "directional" /\ Temporal => InOrder(out2.edges, AllSeeds(call))
  <2> SUFFICES ASSUME scfg.subgraph = "directional", Temporal PROVE InOrder(out2.edges, AllSeeds(call))
    OBVIOUS
  <2>1. InOrder(call.out.edges, AllSeeds(call)) /\ InOrder(st.pass.edges, PassSeeds(call))
    BY DEF AskedOut, AskedPass, CausalPass, Causal
  <2> QED
    BY <1>3, <1>4, <2>1, ClosedInOrder
<1>7. AllSeeds(c2) = AllSeeds(call)
  BY <1>4 DEF AllSeeds
<1>8. scfg.subgraph = "induced" /\ ~Temporal => OutWhole(out2)
  BY <1>3, ClosedWhole DEF AskedOut
<1>9. AskedOut(c2)
  BY <1>4, <1>5, <1>6, <1>7, <1>8 DEF AskedOut
<1>10. ASSUME scfg.subgraph = "directional", OnceEach, st.pass.next = <<>>, h \in 1 .. Hops + 1, h > Hops, b = 1
       PROVE  FanDone(out2)
  <2>1. Hops \in Nat
    BY SamplerAssumption DEF Hops, ConfigOK
  <2>2. h = Hops + 1
    BY <1>10, <2>1
  <2>3. x = 0 /\ PassAligned(st.pass, 0) /\ Fanned(st.pass, call.out.newNodes, Hops + 1, 0)
    BY <1>10, <2>2 DEF AskedPass
  <2> QED
    BY <1>3, <1>10, <2>1, <2>3, ClosedFan
<1> QED
  BY <1>9, <1>10 DEF c2

\* Expanding a node keeps the invariant.
LEMMA ExpandAsked ==
  ASSUME SamplerInv, AskedInv, Expand
  PROVE  AskedInv'
<1>1. PICK st, u, picks, l : IsExpansion(st, u, picks, l)
  BY ExpandFacts
<1> DEFINE x == EmitPicks(st, u, picks)
<1>2. /\ st = [dedup |-> dedup, pass |-> pass] /\ hop \in 1 .. Hops /\ expanded \in Nat /\ scfg \in Configs
      /\ scfg' = scfg /\ hop' = hop /\ scall' = scall /\ sphase' = "hops" /\ expanded' = expanded + 1
      /\ x = [dedup |-> dedup', pass |-> pass']
  BY <1>1 DEF IsExpansion
<1>3. AskedOut(scall) /\ AskedPass(scall, st, hop, expanded)
  BY <1>2 DEF AskedInv, Expand
<1> HIDE DEF x
<1>4. PassAligned(x.pass, expanded + 1)
  BY <1>1, <1>3, ExpandAligned DEF AskedPass, x
<1>5. PassOnce(x.pass, hop, expanded + 1)
  BY <1>1, <1>3, ExpandOnce DEF AskedPass, x
<1>6. Temporal => CausalPass(x.pass, PassSeeds(scall))
  BY <1>1, <1>3, ExpandCausal DEF AskedPass, x
<1>7. ASSUME OnceEach PROVE Fanned(x.pass, scall.out.newNodes, hop, expanded + 1)
  <2>1. scall.out.newNodes \in [0 .. Hops -> Nat]
    <3>1. scall \in Calls
      BY DEF SamplerInv, Between, Within, Expand, InPass
    <3> QED
      BY <3>1 DEF Calls, Outs
  <2>2. ~Temporal /\ ~scfg.cumulative
    BY <1>7 DEF OnceEach
  <2>3. PassAligned(st.pass, expanded) /\ Fanned(st.pass, scall.out.newNodes, hop, expanded)
    BY <1>3, <1>7 DEF AskedPass
  <2> QED
    BY <1>1, <2>1, <2>2, <2>3, ExpandFanned DEF x
<1>8. ~(hop > Hops)
  <2>1. Hops \in Nat
    BY <1>2, SamplerAssumption DEF Hops, ConfigOK
  <2> QED
    BY <1>2, <2>1
<1>9. AskedPass(scall, x, hop, expanded + 1)
  BY <1>4, <1>5, <1>6, <1>7, <1>8 DEF AskedPass
<1>10. AskedOut(scall)' /\ AskedPass(scall, [dedup |-> dedup, pass |-> pass], hop, expanded)'
  BY <1>2, <1>3, <1>9, AskedKept
<1> QED
  BY <1>2, <1>10 DEF AskedInv

\* Ending a hop keeps the invariant.
LEMMA EndHopAsked ==
  ASSUME SamplerInv, AskedInv, EndHop
  PROVE  AskedInv'
<1>1. PICK st, x, front : IsHopEnd(st, x, front)
  BY HopFacts
<1>2. /\ st = [dedup |-> dedup, pass |-> pass] /\ hop \in 1 .. Hops /\ SameBlocks(scall, scall')
      /\ scfg' = scfg /\ hop' = hop + 1 /\ sphase' = "hops" /\ expanded' = 0
      /\ x = [dedup |-> dedup', pass |-> pass']
  BY <1>1 DEF IsHopEnd
<1>3. AskedOut(scall) /\ AskedPass(scall, st, hop, expanded) /\ Aligned(st.pass)
  BY <1>2 DEF AskedInv, EndHop, AskedPass, PassAligned
<1>4. AskedOut(scall') /\ PassSeeds(scall') = PassSeeds(scall)
  BY <1>2, <1>3, SameAsked
<1>5. PassAligned(x.pass, 0) /\ PassOnce(x.pass, hop + 1, 0)
  BY <1>1, <1>3, HopAligned, HopOnce DEF AskedPass
<1>6. Temporal => CausalPass(x.pass, PassSeeds(scall'))
  BY <1>1, <1>3, <1>4, HopCausal DEF AskedPass
<1>7. ASSUME OnceEach PROVE Fanned(x.pass, scall'.out.newNodes, hop + 1, 0)
  <2>1. ~scfg.cumulative /\ Fanned(st.pass, scall.out.newNodes, hop, expanded)
    BY <1>3, <1>7 DEF OnceEach, AskedPass
  <2> DEFINE counts == scall.out.newNodes
             counts2 == scall'.out.newNodes
  <2> HIDE DEF counts, counts2
  <2>2. Fanned(st.pass, counts, hop, expanded) /\ counts = scall.out.newNodes /\ counts2 = scall'.out.newNodes
    BY <2>1 DEF counts, counts2
  <2>3. Fanned(x.pass, counts2, hop + 1, 0)
    BY <1>1, <1>3, <2>1, <2>2, HopFanned
  <2> QED
    BY <2>3 DEF counts2
<1>8. AskedPass(scall', x, hop + 1, 0)
  BY <1>5, <1>6, <1>7 DEF AskedPass
<1>9. AskedOut(scall)' /\ AskedPass(scall, [dedup |-> dedup, pass |-> pass], hop, expanded)'
  BY <1>2, <1>4, <1>8, AskedKept
<1> QED
  BY <1>2, <1>9 DEF AskedInv

\* Ending a pass keeps the invariant.
LEMMA EndPassAsked ==
  ASSUME SamplerInv, AskedInv, EndPass
  PROVE  AskedInv'
<1>1. PICK b, st, closed : IsPassEnd(b, st, closed)
  BY EndPassFacts
<1>2. /\ scfg \in Configs /\ scfg' = scfg /\ dedup \in Dedups /\ dedup.tag < Generations /\ NotAhead(dedup)
      /\ st = [dedup |-> dedup, pass |-> pass] /\ st \in Scratch /\ st.pass.next = <<>>
      /\ scall \in Calls /\ b \in Nat \ {0} /\ scall.begun = b /\ BlocksReal(scall.out, b - 1)
      /\ hop \in 1 .. Hops + 1 /\ hop > Hops /\ (~scfg.disjoint => b = 1)
      /\ sphase = "hops" /\ closed = Closed(scall)
  BY <1>1 DEF IsPassEnd
<1>3. AskedOut(scall) /\ AskedPass(scall, st, hop, expanded)
  BY <1>2 DEF AskedInv
<1>4. /\ AskedOut(closed)
      /\ scfg.subgraph = "directional" /\ OnceEach => FanDone(closed.out)
  BY <1>2, <1>3, ClosedAsked DEF OnceEach
<1>5. CASE scfg.disjoint /\ Ready(closed, b + 1) /\ BeginBlock(closed, b + 1) /\ sphase' = "hops"
  <2>1. AskedOut(scall') /\ AskedPass(scall', [dedup |-> dedup', pass |-> pass'], hop', expanded')
    BY <1>2, <1>4, <1>5, BlockAsked
  <2>2. AskedOut(scall)' /\ AskedPass(scall, [dedup |-> dedup, pass |-> pass], hop, expanded)'
    BY <1>2, <2>1, AskedKept
  <2> QED
    BY <1>5, <2>2 DEF AskedInv
<1>6. CASE sphase' = "idle" /\ scall' = closed
  <2>1. AskedDone(scall')
    BY <1>4, <1>6 DEF AskedDone
  <2>2. AskedDone(scall)'
    BY <1>2, <2>1, AskedKept
  <2> QED
    BY <1>6, <2>2 DEF AskedInv
<1> QED
  BY <1>1, <1>5, <1>6 DEF IsPassEnd

\* A new call has asked nothing yet.
LEMMA NewCallAsked ==
  ASSUME scfg \in Configs, NEW seeds \in SeedLists,
         NEW times \in [DOMAIN seeds -> IF Temporal THEN SeedTimes ELSE {Infinity}]
  PROVE  LET call == NewCall(seeds, times)
         IN /\ AskedOut(call)
            /\ \A g \in 0 .. Hops : call.out.newNodes[g] = 0
            /\ FanDone(call.out)
<1> DEFINE call == NewCall(seeds, times)
           counts == [h \in 0 .. Hops |-> 0]
           grown == [h \in 1 .. Hops |-> 0]
           out == [NoSubgraph EXCEPT !.newNodes = counts, !.newEdges = grown]
<1>1. call = [seeds |-> seeds, times |-> times, begun |-> 0, out |-> out]
  BY DEF NewCall
<1>2. out.nodes = <<>> /\ out.edges = <<>> /\ out.newNodes = counts
  <2> HIDE DEF counts, grown
  <2> QED
    BY DEF NoSubgraph
<1>3. \A g \in 0 .. Hops : counts[g] = 0
  OBVIOUS
<1> HIDE DEF out, counts
<1>4. call.out = out /\ call.times = times
  BY <1>1
<1> HIDE DEF call
<1>5. Temporal => \A k \in DOMAIN times : times[k] \in Int
  BY SamplerAssumption, Zenon
<1>6. OutOnce(call.out) /\ OutWhole(call.out) /\ FanDone(call.out) /\ InOrder(call.out.edges, AllSeeds(call))
  BY <1>2, <1>4 DEF OutOnce, OutWhole, FanDone, InOrder
<1>7. \A g \in 0 .. Hops : call.out.newNodes[g] = 0
  BY <1>2, <1>3, <1>4
<1> QED
  BY <1>4, <1>5, <1>6, <1>7 DEF AskedOut, call

\* Beginning a call keeps the invariant.
LEMMA BeginCallAsked ==
  ASSUME SamplerInv, AskedInv, NEW seeds \in SeedLists,
         NEW times \in [DOMAIN seeds -> IF Temporal THEN SeedTimes ELSE {Infinity}],
         BeginCall(seeds, times) \/ EmptyCall(seeds, times)
  PROVE  AskedInv'
<1> DEFINE call == NewCall(seeds, times)
<1>1. /\ scfg \in Configs /\ dedup \in Dedups /\ dedup.tag < Generations /\ NotAhead(dedup) /\ scfg' = scfg
  BY DEF SamplerInv, Between, Within, BeginCall, EmptyCall
<1>2. (scfg.disjoint => seeds # <<>>) => Ready(call, 1)
  BY <1>1, NewCallReady
<1>3. /\ AskedOut(call) /\ FanDone(call.out)
      /\ \A g \in 0 .. Hops : call.out.newNodes[g] = 0
  BY <1>1, NewCallAsked
<1>4. CASE BeginCall(seeds, times)
  <2>1. (scfg.disjoint => seeds # <<>>) /\ BeginBlock(call, 1) /\ sphase' = "hops"
    BY <1>4 DEF BeginCall
  <2> HIDE DEF call
  <2>2. AskedOut(scall') /\ AskedPass(scall', [dedup |-> dedup', pass |-> pass'], hop', expanded')
    BY <1>1, <1>2, <1>3, <2>1, BlockAsked
  <2>3. AskedOut(scall)' /\ AskedPass(scall, [dedup |-> dedup, pass |-> pass], hop, expanded)'
    BY <1>1, <2>2, AskedKept
  <2> QED
    BY <2>1, <2>3 DEF AskedInv
<1>5. CASE EmptyCall(seeds, times)
  <2>1. sphase = "idle" /\ sphase' = sphase /\ scall' = call
    BY <1>5 DEF EmptyCall
  <2> HIDE DEF call
  <2>2. AskedDone(scall')
    BY <1>3, <2>1 DEF AskedDone
  <2>3. AskedDone(scall)'
    BY <1>1, <2>2, AskedKept
  <2> QED
    BY <2>1, <2>3 DEF AskedInv
<1> QED
  BY <1>4, <1>5

\* A stutter keeps the invariant.
LEMMA AskedStays ==
  ASSUME AskedInv, UNCHANGED svars
  PROVE  AskedInv'
<1>1. /\ scfg' = scfg /\ dedup' = dedup /\ pass' = pass /\ hop' = hop /\ expanded' = expanded
      /\ scall' = scall /\ sphase' = sphase /\ scalls' = scalls
  BY DEF svars
<1>2. /\ AskedDone(scall) => AskedDone(scall)'
      /\ AskedOut(scall) => AskedOut(scall)'
      /\ AskedPass(scall, [dedup |-> dedup, pass |-> pass], hop, expanded)
           => AskedPass(scall, [dedup |-> dedup, pass |-> pass], hop, expanded)'
  BY <1>1, AskedKept
<1> QED
  BY <1>1, <1>2 DEF AskedInv

-----------------------------------------------------------------------------
\* What the invariant says of a finished call.
LEMMA FinishedCall ==
  ASSUME SamplerInv, AskedInv, Finished
  PROVE  IsWhole(scall) /\ scall \in Calls /\ AskedDone(scall) /\ Out = scall.out
BY DEF Finished, SamplerInv, Between, Within, IsWhole, AskedInv, Out

\* The order of times is what the property says of them.
LEMMA NoFutureHolds ==
  ASSUME SamplerInv, AskedInv
  PROVE  NoFutureEdge
<1> SUFFICES ASSUME Finished, Temporal, scfg.subgraph = "directional", NEW i \in DOMAIN Out.edges
             PROVE  LET e == Out.edges[i]
                        into == {j \in 1 .. i - 1 : Out.edges[j].dl = e.sl /\ Out.edges[j].sl # e.sl}
                        asSeed == {k \in DOMAIN scall.seeds : Out.seedLocals[k] = e.sl}
                    IN /\ into # {} \/ asSeed # {}
                       /\ \A j \in into : Timestamp[e.eid] < Timestamp[Out.edges[j].eid]
                       /\ \A k \in asSeed : Timestamp[e.eid] < scall.times[k]
  BY DEF NoFutureEdge
<1> DEFINE es == Out.edges
           e == es[i]
           A == AllSeeds(scall)
           into == {j \in 1 .. i - 1 : es[j].dl = e.sl /\ es[j].sl # e.sl}
           asSeed == {k \in DOMAIN scall.seeds : Out.seedLocals[k] = e.sl}
<1>1. IsWhole(scall) /\ scall \in Calls /\ AskedDone(scall) /\ Out = scall.out
  BY FinishedCall
<1>2. DOMAIN scall.seeds = DOMAIN Out.seedLocals
  BY <1>1 DEF IsWhole, Calls, Outs
<1>3. InOrderAt(es, A, i)
  BY <1>1 DEF AskedDone, AskedOut, InOrder
<1>4. A = {<<Out.seedLocals[k], scall.times[k]>> : k \in DOMAIN Out.seedLocals}
  BY <1>1 DEF AllSeeds
<1> HIDE DEF es, A
<1>5. \A j \in 1 .. i - 1 : j \in into <=> Enters(es, j, e.sl)
  BY DEF Enters
<1>6. HasSeed(A, e.sl) => asSeed # {}
  <2> SUFFICES ASSUME HasSeed(A, e.sl) PROVE asSeed # {}
    OBVIOUS
  <2>1. PICK r \in A : r[1] = e.sl
    BY DEF HasSeed
  <2>2. PICK k \in DOMAIN Out.seedLocals : r = <<Out.seedLocals[k], scall.times[k]>>
    BY <1>4
  <2> QED
    BY <1>2, <2>1, <2>2
<1>7. into # {} \/ asSeed # {}
  BY <1>3, <1>5, <1>6 DEF InOrderAt
<1>8. \A j \in into : Timestamp[e.eid] < Timestamp[es[j].eid]
  BY <1>3, <1>5 DEF InOrderAt
<1>9. ASSUME NEW k \in asSeed PROVE Timestamp[e.eid] < scall.times[k]
  <2> DEFINE r == <<Out.seedLocals[k], scall.times[k]>>
  <2>1. r \in A /\ r[1] = e.sl /\ r[2] = scall.times[k]
    BY <1>2, <1>4
  <2> HIDE DEF r
  <2>2. Timestamp[e.eid] < r[2]
    BY <1>3, <2>1 DEF InOrderAt
  <2> QED
    BY <2>1, <2>2
<1> QED
  BY <1>7, <1>8, <1>9 DEF es

\* Every edge once in the output is what the property says.
LEMMA NoEdgeTwiceHolds ==
  ASSUME SamplerInv, AskedInv
  PROVE  NoEdgeTwice
<1> SUFFICES ASSUME Finished, scfg.subgraph = "directional", ~scfg.replace PROVE OutOnce(Out)
  BY DEF NoEdgeTwice, OutOnce
<1> QED
  BY FinishedCall DEF AskedDone, AskedOut

\* As many entries are kept as places, when the places' ids differ.
Numbers(n, g, T) ==
  /\ n \in Nat /\ \A x, y \in 1 .. n : g[x] = g[y] => x = y
  /\ \A t : t \in T <=> \E x \in 1 .. n : g[x] = t
LEMMA CountedOnce ==
  ASSUME NEW n, NEW g, NEW T, Numbers(n, g, T)
  PROVE  Cardinality(T) = n
<1> DEFINE f == [x \in 1 .. n |-> g[x]]
<1> USE DEF Numbers
<1>1. IsFiniteSet(1 .. n) /\ Cardinality(1 .. n) = n
  <2>1. 1 \in Int /\ n \in Int
    OBVIOUS
  <2>2. IsFiniteSet(1 .. n) /\ Cardinality(1 .. n) = IF 1 > n THEN 0 ELSE n - 1 + 1
    BY <2>1, FS_Interval
  <2> QED
    BY <2>2
<1>2. f \in Surjection(1 .. n, T)
  <2>1. f \in [1 .. n -> T]
    OBVIOUS
  <2>2. \A t \in T : \E s \in 1 .. n : f[s] = t
    OBVIOUS
  <2> HIDE DEF f
  <2> QED
    BY <2>1, <2>2 DEF Surjection
<1>3. f \in Injection(1 .. n, T)
  <2>1. f \in [1 .. n -> T] /\ DOMAIN f = 1 .. n
    OBVIOUS
  <2>2. \A x, y \in 1 .. n : f[x] = f[y] => x = y
    OBVIOUS
  <2> HIDE DEF f
  <2> QED
    BY <2>1, <2>2 DEF Injection, IsInjective
<1> HIDE DEF f
<1>4. Cardinality(T) = Cardinality(1 .. n)
  BY <1>1, <1>2, <1>3, FS_Surjection
<1> QED
  BY <1>1, <1>4

\* Whole blocks are what the property says of them.
LEMMA InducedHolds ==
  ASSUME SamplerInv, AskedInv
  PROVE  InducedIsWhole
<1> SUFFICES ASSUME Finished, scfg.subgraph = "induced", ~Temporal, NEW b \in Range(Out.batch)
             PROVE  LET ids == Kept(Out.edges, {e \in Range(Out.edges) : e.sl \in Block(b)})
                        held == {Out.nodes[i] : i \in Block(b)}
                    IN /\ {ids[i].eid : i \in DOMAIN ids} =
                            UNION {{e \in Range(RowOf(u)) : Dst[e] \in held} : u \in held}
                       /\ Cardinality({ids[i].eid : i \in DOMAIN ids}) = Len(ids)
  BY Zenon DEF InducedIsWhole
<1> DEFINE es == Out.edges
           nodes == Out.nodes
           batch == Out.batch
           S == {e \in Range(es) : e.sl \in Block(b)}
           ids == Kept(es, S)
           held == {nodes[i] : i \in Block(b)}
           n == Len(ids)
<1>1. scall \in Calls /\ IsWhole(scall) /\ OutWhole(Out) /\ Out = scall.out
  BY FinishedCall DEF AskedDone, AskedOut
<1>2. es \in Seq(EdgeRec) /\ DOMAIN es = 1 .. Len(es) /\ Len(es) \in Nat
  BY <1>1 DEF Calls, Outs
<1>3. \A i \in DOMAIN es : RealIn(nodes, batch, es[i])
  BY <1>1 DEF IsWhole, BlocksReal
<1>4. /\ \A i, j \in DOMAIN es :
           es[i].eid = es[j].eid /\ batch[es[i].sl] = batch[es[j].sl] => i = j
      /\ \A k, o \in DOMAIN nodes : \A e \in Range(RowOf(nodes[k])) :
           Dst[e] = nodes[o] /\ batch[k] = batch[o] =>
             \E x \in DOMAIN es : es[x].eid = e /\ es[x].sl = k
  BY <1>1 DEF OutWhole
<1>5. \A k : k \in Block(b) <=> k \in DOMAIN nodes /\ batch[k] = b
  BY DEF Block
<1> HIDE DEF es, nodes, batch
<1>6. \A i \in DOMAIN es : es[i] \in Range(es)
  BY DEF Range
<1>7. \A i \in DOMAIN es : es[i] \in S <=> es[i].sl \in Block(b)
  BY <1>6
<1> HIDE DEF S
<1>8. ids \in Seq(EdgeRec) /\ \E m : IsPart(ids, es, S, m, Len(es))
  BY <1>2, KeptPart
<1> HIDE DEF ids
<1>9. PICK m : IsPart(ids, es, S, m, Len(es))
  BY <1>8
<1>10. n \in Nat /\ DOMAIN ids = 1 .. n
  BY <1>8
<1>11. /\ \A k \in 1 .. n : m[k] \in DOMAIN es /\ ids[k] = es[m[k]] /\ es[m[k]] \in S
       /\ \A k, o \in 1 .. n : m[k] = m[o] => k = o
       /\ \A i \in DOMAIN es : es[i] \in S => \E k \in 1 .. n : m[k] = i
  BY <1>2, <1>9, Zenon DEF IsPart
<1> HIDE DEF n, held
<1>12. ASSUME NEW k \in 1 .. n
       PROVE  \E u \in held : ids[k].eid \in {e \in Range(RowOf(u)) : Dst[e] \in held}
  <2> DEFINE x == es[m[k]]
  <2>1. ids[k] = x /\ x.sl \in Block(b) /\ RealIn(nodes, batch, x)
    BY <1>3, <1>7, <1>11
  <2> HIDE DEF x
  <2>2. /\ x.sl \in DOMAIN nodes /\ x.dl \in DOMAIN nodes /\ batch[x.dl] = b
        /\ nodes[x.sl] = x.src /\ nodes[x.dl] = x.dst /\ InGraph(x)
    BY <1>5, <2>1 DEF RealIn
  <2>3. x.dl \in Block(b)
    BY <1>5, <2>2
  <2>4. x.src \in held /\ x.dst \in held
    BY <2>1, <2>2, <2>3 DEF held
  <2> QED
    BY <2>1, <2>2, <2>4 DEF InGraph
<1>13. ASSUME NEW u \in held, NEW e \in Range(RowOf(u)), Dst[e] \in held
       PROVE  \E k \in 1 .. n : ids[k].eid = e
  <2>1. PICK i \in Block(b) : u = nodes[i]
    BY DEF held
  <2>2. PICK o \in Block(b) : Dst[e] = nodes[o]
    BY <1>13 DEF held
  <2>3. PICK x \in DOMAIN es : es[x].eid = e /\ es[x].sl = i
    BY <1>4, <1>5, <2>1, <2>2
  <2>4. PICK k \in 1 .. n : m[k] = x
    BY <1>7, <1>11, <2>1, <2>3
  <2> QED
    BY <1>11, <2>3, <2>4
<1>14. {ids[i].eid : i \in 1 .. n} = UNION {{e \in Range(RowOf(u)) : Dst[e] \in held} : u \in held}
  <2> DEFINE W(u) == {e \in Range(RowOf(u)) : Dst[e] \in held}
             I == {ids[i].eid : i \in 1 .. n}
             U == UNION {W(u) : u \in held}
  <2>1. \A u : \A e : e \in W(u) <=> e \in Range(RowOf(u)) /\ Dst[e] \in held
    OBVIOUS
  <2>2. ASSUME NEW k \in 1 .. n PROVE \E u \in held : ids[k].eid \in W(u)
    BY <1>12
  <2> HIDE DEF W
  <2>3. ASSUME NEW e \in I PROVE e \in U
    BY <2>2
  <2>4. ASSUME NEW e \in U PROVE e \in I
    <3>1. PICK u \in held : e \in W(u)
      BY <2>4
    <3>2. PICK k \in 1 .. n : ids[k].eid = e
      BY <1>13, <2>1, <3>1
    <3> QED
      BY <3>2
  <2>5. I = U
    BY <2>3, <2>4
  <2> QED
    BY <2>5 DEF W
<1>15. Cardinality({ids[i].eid : i \in 1 .. n}) = n
  <2> DEFINE g == [k \in 1 .. n |-> ids[k].eid]
  <2>1. ASSUME NEW k \in 1 .. n, NEW o \in 1 .. n, g[k] = g[o] PROVE k = o
    <3>1. ids[k].eid = ids[o].eid
      BY <2>1
    <3>2. /\ ids[k] = es[m[k]] /\ ids[o] = es[m[o]] /\ m[k] \in DOMAIN es /\ m[o] \in DOMAIN es
          /\ es[m[k]].sl \in Block(b) /\ es[m[o]].sl \in Block(b)
      BY <1>7, <1>11
    <3>3. batch[es[m[k]].sl] = batch[es[m[o]].sl] /\ es[m[k]].eid = es[m[o]].eid
      BY <1>5, <3>1, <3>2
    <3>4. m[k] = m[o]
      BY <1>4, <3>2, <3>3
    <3> QED
      BY <1>11, <3>4
  <2> DEFINE T == {ids[k].eid : k \in 1 .. n}
  <2>2. \A t : t \in T <=> \E k \in 1 .. n : g[k] = t
    OBVIOUS
  <2> HIDE DEF g, T
  <2>3. \A k, o \in 1 .. n : g[k] = g[o] => k = o
    BY <2>1
  <2>4. Cardinality(T) = n
    <3>1. Numbers(n, g, T)
      BY <1>10, <2>2, <2>3 DEF Numbers
    <3> QED
      BY <3>1, CountedOnce
  <2> QED
    BY <2>4 DEF T
<1> QED
  BY <1>10, <1>14, <1>15, Zenon DEF n, held, ids, S, es, nodes

\* The counts of edges are what the property says of them.
LEMMA FanoutHolds ==
  ASSUME SamplerInv, AskedInv
  PROVE  FanoutTaken
<1> SUFFICES ASSUME Finished, scfg.subgraph = "directional", ~Temporal, ~scfg.cumulative, ~scfg.disjoint,
                    NEW k \in DOMAIN Out.nodes
             PROVE  LET u == Out.nodes[k]
                        h == HopOf(k) + 1
                        got == Cardinality({i \in DOMAIN Out.edges : Out.edges[i].sl = k})
                    IN IF h > Hops THEN got = 0
                       ELSE IF scfg.replace THEN RowOf(u) # <<>> => got <= scfg.fanout[h]
                       ELSE /\ got <= Picked(u, h)
                            /\ got >= Picked(u, h) - CorruptIn(u)
  BY DEF FanoutTaken
<1> DEFINE u == Out.nodes[k]
           counts == Out.newNodes
           got == Cardinality(OutOf(Out.edges, k))
<1>1. /\ scfg \in Configs /\ FanDone(Out) /\ counts \in [0 .. Hops -> Nat] /\ k \in Nat
  <2>1. scall \in Calls /\ FanDone(Out) /\ Out = scall.out
    BY FinishedCall DEF AskedDone, OnceEach
  <2>2. scall.out \in Outs
    BY <2>1 DEF Calls
  <2>3. scall.out.nodes \in Seq(SampleNodes)
    BY <2>2 DEF Outs
  <2> QED
    BY <2>1, <2>2, <2>3 DEF SamplerInv, Outs
<1>2. Hops \in Nat
  BY <1>1, SamplerAssumption DEF Hops, ConfigOK
<1>3. got = Cardinality({i \in DOMAIN Out.edges : Out.edges[i].sl = k})
  BY DEF OutOf
<1> HIDE DEF u, counts, got
<1>4. ASSUME NEW g \in 0 .. Hops, IsHop(counts, k, g) PROVE HopOf(k) = g
  <2> DEFINE Brought(h) == /\ k <= NodesBy(Out.newNodes, h)
                           /\ \A f \in 0 .. h - 1 : k > NodesBy(Out.newNodes, f)
  <2>1. \A h : Brought(h) <=> IsHop(counts, k, h)
    BY DEF IsHop, counts
  <2> HIDE DEF Brought
  <2>2. HopOf(k) = CHOOSE h \in 0 .. Hops : Brought(h)
    BY DEF HopOf, Brought
  <2> DEFINE c == CHOOSE h \in 0 .. Hops : Brought(h)
  <2>3. c \in 0 .. Hops /\ IsHop(counts, k, c)
    BY <1>4, <2>1
  <2> HIDE DEF c
  <2>4. \A f \in 0 .. Hops : NodesBy(counts, f) \in Nat
    BY <1>1, <1>2, LevelFacts, Zenon
  <2>5. ~(c < g)
    <3> SUFFICES ASSUME c < g PROVE FALSE
      OBVIOUS
    <3>1. c \in 0 .. g - 1
      BY <2>3
    <3>2. k > NodesBy(counts, c) /\ k <= NodesBy(counts, c)
      BY <1>4, <2>3, <3>1 DEF IsHop
    <3> QED
      BY <1>1, <2>3, <2>4, <3>2
  <2>6. ~(g < c)
    <3> SUFFICES ASSUME g < c PROVE FALSE
      OBVIOUS
    <3>1. g \in 0 .. c - 1
      BY <2>3
    <3>2. k > NodesBy(counts, g) /\ k <= NodesBy(counts, g)
      BY <1>4, <2>3, <3>1 DEF IsHop
    <3> QED
      BY <1>1, <2>4, <3>2
  <2>7. c = g
    BY <2>3, <2>5, <2>6
  <2> QED
    BY <2>2, <2>7 DEF c
<1>5. \/ \E g \in 1 .. Hops : IsHop(counts, k, g - 1) /\ TakenAt(u, g, got)
      \/ IsHop(counts, k, Hops) /\ OutOf(Out.edges, k) = {}
  BY <1>1 DEF FanDone, u, counts, got
<1>6. CASE \E g \in 1 .. Hops : IsHop(counts, k, g - 1) /\ TakenAt(u, g, got)
  <2>1. PICK g \in 1 .. Hops : IsHop(counts, k, g - 1) /\ TakenAt(u, g, got)
    BY <1>6
  <2>2. g - 1 \in 0 .. Hops /\ g - 1 + 1 = g /\ ~(g > Hops)
    BY <1>2
  <2>3. HopOf(k) = g - 1
    BY <1>4, <2>1, <2>2
  <2>4. HopOf(k) + 1 = g
    BY <2>2, <2>3
  <2> QED
    BY <1>3, <2>1, <2>2, <2>4, Zenon DEF TakenAt, u
<1>7. CASE IsHop(counts, k, Hops) /\ OutOf(Out.edges, k) = {}
  <2>1. Hops \in 0 .. Hops
    BY <1>2
  <2>2. HopOf(k) = Hops
    BY <1>4, <1>7, <2>1
  <2>3. HopOf(k) + 1 > Hops
    BY <1>2, <2>2
  <2>4. Cardinality(OutOf(Out.edges, k)) = 0
    BY <1>7, FS_EmptySet
  <2> QED
    BY <1>3, <2>3, <2>4 DEF got
<1> QED
  BY <1>5, <1>6, <1>7

\* What every step keeps.
LEMMA AskedInitially ==
  ASSUME SamplerInit
  PROVE  AskedInv
BY DEF SamplerInit, AskedInv

\* Every step keeps what makes the edges those asked for.
LEMMA AskedStep ==
  ASSUME SamplerInv, AskedInv, [SamplerNext]_svars
  PROVE  AskedInv'
<1>1. CASE UNCHANGED svars
  BY <1>1, AskedStays
<1>2. CASE Expand
  BY <1>2, ExpandAsked
<1>3. CASE EndHop
  BY <1>3, EndHopAsked
<1>4. CASE EndPass
  BY <1>4, EndPassAsked
<1>5. ASSUME NEW seeds \in SeedLists,
             NEW times \in [DOMAIN seeds -> IF Temporal THEN SeedTimes ELSE {Infinity}],
             BeginCall(seeds, times) \/ EmptyCall(seeds, times)
      PROVE  AskedInv'
  BY <1>5, BeginCallAsked
<1> QED
  BY <1>1, <1>2, <1>3, <1>4, <1>5 DEF SamplerNext

(* The edges a finished call returns are those its config asks for,        *)
(* whatever the fanouts, the caps, the graph and the calls before: none    *)
(* is from the future of its source or of an edge that led there, none is  *)
(* returned twice when sampling is without replacement, an induced block   *)
(* holds each edge between its nodes once, and a node expanded once has    *)
(* as many as its hop's fanout allows.                                     *)
THEOREM EdgesAsAskedAlways == SamplerSpec => []EdgesAsAsked
<1>1. SamplerInit => SamplerInv /\ AskedInv
  BY SamplerInitially, AskedInitially
<1>2. SamplerInv /\ AskedInv /\ [SamplerNext]_svars => SamplerInv' /\ AskedInv'
  BY SamplerStep, AskedStep
<1>3. SamplerInv /\ AskedInv => EdgesAsAsked
  BY NoFutureHolds, InducedHolds, NoEdgeTwiceHolds, FanoutHolds DEF EdgesAsAsked
<1> QED
  BY <1>1, <1>2, <1>3, PTL DEF SamplerSpec

-----------------------------------------------------------------------------
(* Dirty tracking and cached embeddings.                                   *)

USE SamplingAssumption

\* The number of words is a natural.
LEMMA NumWordsType == NumWords \in Nat
  BY DEF NumWords

\* A function on the first positions is a sequence.
LEMMA TupleIsSeq ==
  ASSUME NEW S, NEW n \in Nat, NEW f \in [1..n -> S]
  PROVE  f \in Seq(S) /\ Len(f) = n
  OBVIOUS

\* A nonempty sequence is its head and its tail.
LEMMA HeadTail ==
  ASSUME NEW S, NEW q \in Seq(S), q # <<>>
  PROVE  /\ Head(q) \in S /\ Tail(q) \in Seq(S)
         /\ Len(Tail(q)) = Len(q) - 1
         /\ Len(q) = 1 <=> Tail(q) = <<>>
         /\ Elements(q) = {Head(q)} \cup Elements(Tail(q))
<1>1. /\ Head(q) \in S /\ Tail(q) \in Seq(S)
      /\ Len(Tail(q)) = Len(q) - 1 /\ Len(q) \in Nat \ {0}
  OBVIOUS
<1>2. Len(q) = 1 <=> Tail(q) = <<>>
  BY <1>1, EmptySeq
<1>3. Elements(q) = {q[i] : i \in 1..Len(q)}
  BY DEF Elements
<1>4. Elements(Tail(q)) = {q[i + 1] : i \in 1..(Len(q) - 1)}
  <2>1. \A i \in 1..(Len(q) - 1) : Tail(q)[i] = q[i + 1]
    BY <1>1
  <2>2. DOMAIN Tail(q) = 1..(Len(q) - 1)
    BY <1>1
  <2> QED
    BY <2>1, <2>2, Zenon DEF Elements
<1>5. Elements(q) \subseteq {Head(q)} \cup Elements(Tail(q))
  <2> SUFFICES ASSUME NEW i \in 1..Len(q), i # 1
               PROVE  \E j \in 1..(Len(q) - 1) : q[i] = q[j + 1]
    BY <1>3, <1>4
  <2>1. i - 1 \in 1..(Len(q) - 1) /\ q[i] = q[(i - 1) + 1]
    BY <1>1
  <2> QED
    BY <2>1
<1>6. {Head(q)} \cup Elements(Tail(q)) \subseteq Elements(q)
  <2>1. Head(q) = q[1] /\ 1 \in 1..Len(q)
    BY <1>1
  <2>2. \A i \in 1..(Len(q) - 1) : i + 1 \in 1..Len(q)
    BY <1>1
  <2> QED
    BY <1>3, <1>4, <2>1, <2>2
<1> QED
  BY <1>1, <1>2, <1>5, <1>6

\* Appending adds one element.
LEMMA ElementsAppend ==
  ASSUME NEW S, NEW q \in Seq(S), NEW x \in S
  PROVE  Append(q, x) \in Seq(S) /\ Len(Append(q, x)) = Len(q) + 1
         /\ Elements(Append(q, x)) = Elements(q) \cup {x}
<1>1. Append(q, x) \in Seq(S) /\ Len(Append(q, x)) = Len(q) + 1
  OBVIOUS
<1>2. /\ \A i \in 1..Len(q) : Append(q, x)[i] = q[i]
      /\ Append(q, x)[Len(q) + 1] = x
  OBVIOUS
<1> QED
  BY <1>1, <1>2 DEF Elements

\* The empty sequence has no elements.
LEMMA EmptyElements == Elements(<<>>) = {}
  BY DEF Elements

\* The order in which a note marks is a sequence of nodes.
LEMMA NoteOrderType ==
  ASSUME NEW s \in Nodes, NEW ds \in SortedDsts
  PROVE  /\ ds \in Seq(Nodes) /\ Len(ds) \in 1..2
         /\ Append(ds, s) \in Seq(Nodes) /\ Len(Append(ds, s)) <= 3
<1>1. ds \in Seq(Nodes) /\ Len(ds) \in 1..2
  <2>1. CASE \E d \in Nodes : ds = <<d>>
    BY <2>1
  <2>2. CASE ds \in [1..2 -> Nodes]
    BY <2>2, TupleIsSeq, 2 \in Nat
  <2> QED
    BY <2>1, <2>2 DEF SortedDsts
<1>2. Append(ds, s) \in Seq(Nodes) /\ Len(Append(ds, s)) = Len(ds) + 1
  BY <1>1, ElementsAppend
<1>3. Len(Append(ds, s)) <= 3
  <2>1. \A n \in 1..2 : n + 1 <= 3
    OBVIOUS
  <2> QED
    BY <1>1, <1>2, <2>1, Zenon
<1> QED
  BY <1>1, <1>2, <1>3, Zenon

\* Every step keeps the types.
LEMMA TypeStep == TypeOK /\ GuardInv /\ [Next]_vars => TypeOK'
<1> SUFFICES ASSUME TypeOK, GuardInv, [Next]_vars PROVE TypeOK'
  OBVIOUS
<1> USE NumWordsType
<1> USE DEF TypeOK, vars, graphVars, guardVars, drainVars, layerVars
<1>1. CASE OpenGuard
  BY <1>1 DEF OpenGuard
<1>2. ASSUME NEW s \in Nodes, NEW d \in Nodes, InsertEdge(s, d) PROVE TypeOK'
  BY <1>2 DEF InsertEdge, Publish
<1>3. ASSUME NEW s \in Nodes, NEW ds \in SortedDsts, InsertBatch(s, ds)
      PROVE TypeOK'
  BY <1>3, NoteOrderType DEF InsertBatch, Publish
<1>4. CASE NoteDirty
  <2>1. CASE Len(buf) = FlushAt
    BY <1>4, <2>1 DEF NoteDirty, Elements
  <2>2. CASE Len(buf) # FlushAt
    <3>1. todo # <<>>
      BY <1>4 DEF NoteDirty, GuardInv
    <3>2. /\ Head(todo) \in Nodes
          /\ Tail(todo) \in Seq(Nodes) /\ Len(Tail(todo)) <= 3
      BY <3>1, HeadTail
    <3>3. /\ Append(buf, Head(todo)) \in Seq(Nodes)
          /\ Len(Append(buf, Head(todo))) <= FlushAt
      BY <2>2, <3>2, ElementsAppend
    <3> QED
      BY <1>4, <2>2, <3>2, <3>3, Zenon DEF NoteDirty
  <2> QED
    BY <2>1, <2>2, Zenon
<1>5. CASE MarkWord
  BY <1>5 DEF MarkWord, Word
<1>6. CASE FlushBookkeeping
  BY <1>6 DEF FlushBookkeeping, Elements
<1>7. CASE Commit
  BY <1>7 DEF Commit
<1>8. CASE Poison
  BY <1>8 DEF Poison
<1>9. CASE BeginDrain
  BY <1>9 DEF BeginDrain
<1>10. CASE DrainWord
  BY <1>10 DEF DrainWord, Word
<1>11. ASSUME NEW l \in Layers, AdvanceEpochWith(l) PROVE TypeOK'
  BY <1>11 DEF AdvanceEpochWith, Invalidate
<1>12. ASSUME NEW l \in Layers, PrepareBatch(l) PROVE TypeOK'
  BY <1>12 DEF PrepareBatch
<1>13. ASSUME NEW l \in Layers, CommitBatch(l) PROVE TypeOK'
  BY <1>13 DEF CommitBatch
<1>14. ASSUME NEW l \in Layers, NEW n \in Nodes, Compute(l, n) PROVE TypeOK'
  BY <1>14 DEF Compute
<1>15. CASE UNCHANGED vars
  BY <1>15
<1> QED
  BY Zenon, <1>1, <1>2, <1>3, <1>4, <1>5, <1>6, <1>7, <1>8, <1>9, <1>10, <1>11,
     <1>12, <1>13, <1>14, <1>15 DEF Next, GuardStep, LayerStep

\* Every step keeps the sweep within its guard.
LEMMA GuardStepInv == TypeOK /\ GuardInv /\ [Next]_vars => GuardInv'
<1> SUFFICES ASSUME TypeOK, GuardInv, [Next]_vars PROVE GuardInv'
  OBVIOUS
<1> USE NumWordsType
<1> USE DEF TypeOK, GuardInv, Booked, vars, graphVars, guardVars, drainVars, layerVars
<1>1. CASE OpenGuard
  BY <1>1 DEF OpenGuard
<1>2. ASSUME NEW s \in Nodes, NEW d \in Nodes, InsertEdge(s, d)
      PROVE GuardInv'
  BY <1>2 DEF InsertEdge, Publish
<1>3. ASSUME NEW s \in Nodes, NEW ds \in SortedDsts, InsertBatch(s, ds)
      PROVE GuardInv'
  <2>1. Append(ds, s) # <<>> /\ Len(ds) \in Nat
    <3>1. /\ ds \in Seq(Nodes) /\ Append(ds, s) \in Seq(Nodes)
          /\ Len(Append(ds, s)) = Len(ds) + 1
      BY NoteOrderType, ElementsAppend
    <3> QED
      BY <3>1, EmptySeq
  <2>2. ASSUME NEW order, order # <<>>, Publish(s, ds, order)
        PROVE  GuardInv'
    BY <2>1, <2>2 DEF Publish
  <2> QED
    BY <1>3, <2>1, <2>2, Zenon DEF InsertBatch
<1>4. CASE NoteDirty
  <2>1. todo # <<>> /\ wret = "idle"
    BY <1>4, Zenon DEF NoteDirty
  <2>2. Len(todo) = 1 <=> Tail(todo) = <<>>
    BY <2>1, HeadTail
  <2>3. CASE Len(buf) = FlushAt
    BY <1>4, <2>1, <2>3 DEF NoteDirty
  <2>4. CASE Len(buf) # FlushAt
    BY <1>4, <2>1, <2>2, <2>4, Zenon DEF NoteDirty
  <2> QED
    BY <2>3, <2>4
<1>5. CASE MarkWord
  <2>1. CASE marking' = {}
    BY <1>5, <2>1 DEF MarkWord
  <2>2. CASE marking' # {}
    BY <1>5, <2>2 DEF MarkWord
  <2> QED
    BY <2>1, <2>2
<1>6. CASE FlushBookkeeping
  BY <1>6 DEF FlushBookkeeping, Elements
<1>7. CASE Commit
  BY <1>7 DEF Commit
<1>8. CASE Poison
  BY <1>8 DEF Poison
<1>9. CASE BeginDrain
  BY <1>9 DEF BeginDrain
<1>10. CASE DrainWord
  BY <1>10 DEF DrainWord
<1>11. ASSUME NEW l \in Layers, AdvanceEpochWith(l) PROVE GuardInv'
  BY <1>11 DEF AdvanceEpochWith, Invalidate
<1>12. ASSUME NEW l \in Layers, PrepareBatch(l) PROVE GuardInv'
  BY <1>12 DEF PrepareBatch
<1>13. ASSUME NEW l \in Layers, CommitBatch(l) PROVE GuardInv'
  BY <1>13 DEF CommitBatch
<1>14. ASSUME NEW l \in Layers, NEW n \in Nodes, Compute(l, n)
      PROVE GuardInv'
  BY <1>14 DEF Compute
<1>15. CASE UNCHANGED vars
  BY <1>15
<1> QED
  BY <1>1, <1>2, <1>3, <1>4, <1>5, <1>6, <1>7, <1>8, <1>9, <1>10, <1>11,
     <1>12, <1>13, <1>14, <1>15 DEF Next, GuardStep, LayerStep

\* Every step keeps what is booked of each layer.
LEMMA LayerStepInv == TypeOK /\ LayerInv /\ [Next]_vars => LayerInv'
<1> SUFFICES ASSUME TypeOK, LayerInv, [Next]_vars PROVE LayerInv'
  OBVIOUS
<1> USE DEF TypeOK, LayerInv, vars, graphVars, guardVars, drainVars, layerVars
<1>1. CASE OpenGuard
  BY <1>1 DEF OpenGuard
<1>2. ASSUME NEW s \in Nodes, NEW d \in Nodes, InsertEdge(s, d)
      PROVE LayerInv'
  BY <1>2 DEF InsertEdge, Publish
<1>3. ASSUME NEW s \in Nodes, NEW ds \in SortedDsts, InsertBatch(s, ds)
      PROVE LayerInv'
  BY <1>3, Zenon DEF InsertBatch, Publish
<1>4. CASE NoteDirty
  BY <1>4 DEF NoteDirty
<1>5. CASE MarkWord
  BY <1>5 DEF MarkWord
<1>6. CASE FlushBookkeeping
  BY <1>6 DEF FlushBookkeeping
<1>7. CASE Commit
  BY <1>7 DEF Commit
<1>8. CASE Poison
  BY <1>8 DEF Poison
<1>9. CASE BeginDrain
  BY <1>9 DEF BeginDrain
<1>10. CASE DrainWord
  BY <1>10 DEF DrainWord
<1>11. ASSUME NEW l \in Layers, AdvanceEpochWith(l) PROVE LayerInv'
  BY <1>11 DEF AdvanceEpochWith, Invalidate
<1>12. ASSUME NEW l \in Layers, PrepareBatch(l) PROVE LayerInv'
  BY <1>12 DEF PrepareBatch
<1>13. ASSUME NEW l \in Layers, CommitBatch(l) PROVE LayerInv'
  BY <1>13 DEF CommitBatch
<1>14. ASSUME NEW l \in Layers, NEW n \in Nodes, Compute(l, n)
      PROVE LayerInv'
  BY <1>14 DEF Compute
<1>15. CASE UNCHANGED vars
  BY <1>15
<1> QED
  BY <1>1, <1>2, <1>3, <1>4, <1>5, <1>6, <1>7, <1>8, <1>9, <1>10, <1>11,
     <1>12, <1>13, <1>14, <1>15 DEF Next, GuardStep, LayerStep

\* FlagInv's condition on one vertex of one layer.
Flagged(l, n) ==
  n \in Visible(l) \cup marking \cup Elements(buf) \cup Elements(todo)

\* Every step keeps the flags of what is still to be marked.
LEMMA FlagStepInv ==
  TypeOK /\ GuardInv /\ LayerInv /\ FlagInv /\ [Next]_vars => FlagInv'
<1> SUFFICES ASSUME TypeOK, GuardInv, LayerInv, FlagInv, [Next]_vars,
                    ~poisoned', NEW k \in Layers, NEW m \in behind'[k]
             PROVE  Flagged(k, m)'
  BY DEF FlagInv, Flagged
<1> USE NumWordsType, EmptyElements
<1> USE DEF TypeOK, LayerInv, Flagged, Visible, vars, graphVars, guardVars,
        drainVars, layerVars
<1>0. /\ ~poisoned => (m \in behind[k] => Flagged(k, m))
      /\ wpc # "flush" => marking = {}
      /\ wpc = "guard" \/ Booked => todo = <<>>
      /\ wpc = "note" => todo # <<>>
      /\ sweep < NumWords => fan = {}
  BY DEF FlagInv, GuardInv
<1>1. CASE OpenGuard
  BY <1>0, <1>1 DEF OpenGuard
<1>2. ASSUME NEW s \in Nodes, NEW d \in Nodes, InsertEdge(s, d)
      PROVE Flagged(k, m)'
  BY <1>0, <1>2 DEF InsertEdge, Publish
<1>3. ASSUME NEW s \in Nodes, NEW ds \in SortedDsts, InsertBatch(s, ds)
      PROVE Flagged(k, m)'
  BY <1>0, <1>3 DEF InsertBatch, Publish
<1>4. CASE NoteDirty
  <2>1. CASE Len(buf) = FlushAt
    BY <1>0, <1>4, <2>1 DEF NoteDirty
  <2>2. CASE Len(buf) # FlushAt
    <3>1. todo # <<>> /\ marking = {}
      BY <1>0, <1>4 DEF NoteDirty
    <3>2. /\ Head(todo) \in Nodes
          /\ Elements(todo) = {Head(todo)} \cup Elements(Tail(todo))
      BY <3>1, HeadTail
    <3>3. Elements(Append(buf, Head(todo))) = Elements(buf) \cup {Head(todo)}
      BY <3>2, ElementsAppend
    <3>4. buf' = Append(buf, Head(todo))
      BY <1>4, <2>2 DEF NoteDirty
    <3>5. Elements(buf') = Elements(buf) \cup {Head(todo)}
      BY <3>3, <3>4, Zenon
    <3> QED
      BY <1>0, <1>4, <2>2, <3>2, <3>5, Zenon DEF NoteDirty
  <2> QED
    BY <2>1, <2>2
<1>5. CASE MarkWord
  BY <1>0, <1>5 DEF MarkWord
<1>6. CASE FlushBookkeeping
  BY <1>0, <1>6 DEF FlushBookkeeping
<1>7. CASE Commit
  BY <1>0, <1>7 DEF Commit
<1>8. CASE Poison
  BY <1>0, <1>8 DEF Poison
<1>9. CASE BeginDrain
  BY <1>0, <1>9 DEF BeginDrain
<1>10. CASE DrainWord
  BY <1>0, <1>10 DEF DrainWord
<1>11. ASSUME NEW l \in Layers, AdvanceEpochWith(l) PROVE Flagged(k, m)'
  BY <1>0, <1>11 DEF AdvanceEpochWith, Invalidate
<1>12. ASSUME NEW l \in Layers, PrepareBatch(l) PROVE Flagged(k, m)'
  BY <1>0, <1>12 DEF PrepareBatch
<1>13. ASSUME NEW l \in Layers, CommitBatch(l) PROVE Flagged(k, m)'
  BY <1>0, <1>13 DEF CommitBatch
<1>14. ASSUME NEW l \in Layers, NEW n \in Nodes, Compute(l, n)
      PROVE Flagged(k, m)'
  BY <1>0, <1>14 DEF Compute
<1>15. CASE UNCHANGED vars
  BY <1>15, <1>0 DEF Elements
<1> QED
  BY <1>1, <1>2, <1>3, <1>4, <1>5, <1>6, <1>7, <1>8, <1>9, <1>10, <1>11,
     <1>12, <1>13, <1>14, <1>15 DEF Next, GuardStep, LayerStep

\* The invariant holds at first.
LEMMA FreshnessInit == Init => TypeOK /\ FreshnessInv
<1> SUFFICES ASSUME Init PROVE TypeOK /\ FreshnessInv
  OBVIOUS
<1> USE NumWordsType DEF Init
<1>1. TypeOK
  <2>1. todo \in Seq(Nodes) /\ Len(todo) <= 3
    OBVIOUS
  <2>2. buf \in Seq(Nodes) /\ Len(buf) <= FlushAt
    OBVIOUS
  <2>3. sweep \in 0..NumWords /\ edges \in 0..MaxEdges
    OBVIOUS
  <2>4. /\ valid \in [Layers -> SUBSET Nodes]
        /\ job \in [Layers -> SUBSET Nodes]
        /\ done \in [Layers -> SUBSET Nodes]
        /\ behind \in [Layers -> SUBSET Nodes]
    OBVIOUS
  <2> QED
    BY <2>1, <2>2, <2>3, <2>4, Zenon DEF TypeOK
<1>2. GuardInv
  BY DEF GuardInv, Booked
<1>3. LayerInv /\ FlagInv
  BY DEF LayerInv, FlagInv
<1> QED
  BY <1>1, <1>2, <1>3 DEF FreshnessInv

\* The inductive invariant, for any vertices, word size, layers, buffer and
\* number of edges.
THEOREM FreshnessInvariance == Spec => [](TypeOK /\ FreshnessInv)
<1>1. TypeOK /\ FreshnessInv /\ [Next]_vars => (TypeOK /\ FreshnessInv)'
  BY TypeStep, GuardStepInv, LayerStepInv, FlagStepInv DEF FreshnessInv
<1> QED
  BY FreshnessInit, <1>1, PTL DEF Spec

\* Types of the guard's buffer, the bitmap, the drain and the layers; the
\* buffer never outgrows its watermark (note_dirty).
THEOREM SamplingTypeCorrect == Spec => []TypeOK
  BY FreshnessInvariance, PTL

\* Every cached embedding that misses a published edge is on its way to its
\* layer (note_dirty, mark_sorted, drain_dirty, advance_epoch_with).
THEOREM StaleAlwaysFlagged == Spec => []StaleIsFlagged
<1>1. FreshnessInv => StaleIsFlagged
  BY DEF FreshnessInv, FlagInv, StaleIsFlagged, Stale
<1> QED
  BY FreshnessInvariance, <1>1, PTL

\* Outside a guard the edge count is exact and every stale vertex is in the
\* bitmap or in a drained list (Writer::drop's order).
THEOREM CommitAlwaysAccounted == Spec => []CommitIsAccounted
<1>1. TypeOK /\ FreshnessInv => CommitIsAccounted
  <2> SUFFICES ASSUME TypeOK, FreshnessInv, wpc = "idle", ~poisoned
               PROVE  /\ numEdges = edges
                      /\ \A l \in Layers, n \in Nodes :
                           Stale(l, n) => n \in Visible(l)
    BY DEF CommitIsAccounted
  <2>1. /\ todo = <<>> /\ buf = <<>> /\ marking = {}
        /\ pendingEdges = 0 /\ numEdges + pendingEdges = edges
    BY DEF FreshnessInv, GuardInv, Booked
  <2>2. numEdges = edges
    BY <2>1 DEF TypeOK
  <2>3. ASSUME NEW l \in Layers, NEW n \in Nodes, Stale(l, n)
        PROVE  n \in Visible(l)
    BY <2>1, <2>3, EmptyElements DEF FreshnessInv, FlagInv, Stale
  <2> QED
    BY <2>2, <2>3
<1> QED
  BY FreshnessInvariance, <1>1, PTL

=============================================================================
