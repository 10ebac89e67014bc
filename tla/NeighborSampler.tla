--------------------------- MODULE NeighborSampler ---------------------------
(***************************************************************************)
(* The homogeneous neighbour sampler.  One sampler serves many calls: its  *)
(* dedup table is not cleared between passes but re-tagged with a new      *)
(* generation, which wraps.  A pass expands one seed (disjoint sampling)   *)
(* or all seeds of the call, hop by hop; every draw of the random          *)
(* generator is a choice.  One step expands one frontier node.             *)
(*                                                                         *)
(* Edge ids are positions in the CSR arrays, from 1; local indices count   *)
(* from 1.  A destination equal to NodeCount stands for the corrupt edge    *)
(* bodies that an OffsetsOnly load leaves unchecked.                       *)
(***************************************************************************)
EXTENDS Integers, FiniteSets, SequencesExt

CONSTANTS NodeCount,    \* nodes are 0..NodeCount-1
          Offsets,     \* node -> where its row starts, with a last entry
          Dst,         \* edge id -> destination
          Timestamp,   \* edge id -> timestamp
          Weight,      \* edge id -> 0, or a positive weight
          Configs,     \* the SamplingConfigs tried, see ConfigOK
          SeedLists,   \* the seed lists of the calls
          SeedTimes,   \* the input times of temporal calls; Infinity is one
          Generations, \* the dedup generation wraps to 0 here (2^32 in the code)
          MaxCalls     \* bound: calls made of one sampler

Infinity == 1000
SampleNodes == 0 .. NodeCount - 1
ConfigOK(c) ==
  /\ c.fanout \in Seq(Nat) /\ c.cap \in Nat    \* cap 0: max_degree is None
  /\ c.strategy \in {"none", "uniform", "last"}
  /\ c.subgraph \in {"directional", "induced", "bidirectional"}
  /\ {c.replace, c.cumulative, c.weighted, c.disjoint} \subseteq BOOLEAN

ASSUME SamplerAssumption ==
  /\ NodeCount \in Nat /\ Generations \in Nat \ {0, 1} /\ MaxCalls \in Nat
  /\ \A c \in Configs : ConfigOK(c)
  /\ Offsets \in [0 .. NodeCount -> Nat] /\ \A u \in SampleNodes : Offsets[u] <= Offsets[u + 1]
  /\ SeedLists \subseteq Seq(SampleNodes)
  /\ \A u \in SampleNodes : \A e \in Offsets[u] + 1 .. Offsets[u + 1] : Timestamp[e] \in Int
  /\ SeedTimes \subseteq Int /\ \A t \in SeedTimes : t <= Infinity

VARIABLES
  scfg,      \* the sampler's config
  dedup,     \* GenSlots: [tag, slots], the generation and node -> [tag, idx]
  pass,      \* scratch of the pass: nodes, times, edges, emitted, frontier, next
  hop,       \* hop being expanded, from 1
  expanded,  \* frontier entries of this hop already expanded
  scall,     \* the call: seeds, times, blocks begun, and the SampledSubgraph so far
  sphase,    \* "idle", or "hops" inside a pass
  scalls     \* calls begun

svars == <<scfg, dedup, pass, hop, expanded, scall, sphase, scalls>>

Temporal == scfg.strategy # "none"
Hops == Len(scfg.fanout)
RowOf(u) == [i \in 1 .. Offsets[u + 1] - Offsets[u] |-> Offsets[u] + i]
(* The entries of a sequence that are in a set, in their order *)
Kept(s, S) ==
  LET Some[i \in 0 .. Len(s)] ==
        IF i = 0 THEN <<>> ELSE IF s[i] \in S THEN Append(Some[i - 1], s[i]) ELSE Some[i - 1]
  IN Some[Len(s)]
Slots0 == [n \in SampleNodes |-> [tag |-> 0, idx |-> 0]]
NoPass == [nodes |-> <<>>, times |-> <<>>, edges |-> <<>>, emitted |-> <<>>,
           frontier |-> <<>>, next |-> <<>>, counted |-> 0]
NoSubgraph == [nodes |-> <<>>, edges |-> <<>>, seedLocals |-> <<>>, batch |-> <<>>,
               newNodes |-> <<>>, newEdges |-> <<>>]

SamplerInit ==
  /\ scfg \in Configs
  /\ dedup = [tag |-> 0, slots |-> Slots0]
  /\ pass = NoPass
  /\ hop = 0 /\ expanded = 0
  /\ scall = [seeds |-> <<>>, times |-> <<>>, begun |-> 0, out |-> NoSubgraph]
  /\ sphase = "idle"
  /\ scalls = 0

-----------------------------------------------------------------------------
(* The draws.  Each operator is the set of pick sequences that some outcome *)
(* of the random generator produces.                                       *)

(* Floyd: k distinct positions of 1..n, the m-th drawn below n-k+m *)
FloydPicks(n, k) ==
  LET Drawn(S, top) ==
        {Append(s, IF j \in Range(s) THEN top ELSE j) : s \in S, j \in 1 .. top}
      Draw[m \in 0 .. k] == IF m = 0 THEN {<<>>} ELSE Drawn(Draw[m - 1], n - k + m)
  IN Draw[k]

(* The same, sorted *)
HubPicks(n, k) ==
  {s \in [1 .. k -> 1 .. n] :
     /\ \A i, j \in 1 .. k : i < j => s[i] < s[j]
     /\ \E drawn \in FloydPicks(n, k) : Range(drawn) = Range(s)}

(* The row positions a hub keeps, when its row is longer than max_degree *)
Eligible(row, capped) ==
  IF capped /\ scfg.cap > 0 /\ Len(row) > scfg.cap
  THEN HubPicks(Len(row), scfg.cap)
  ELSE {[i \in 1 .. Len(row) |-> i]}

Arrangements(S) == {s \in [1 .. Cardinality(S) -> S] : Range(s) = S}

(* The k smallest keys -ln(u)/w; a weight that is not positive has key +inf *)
WeightedNoReplace(w, k) ==
  LET n == Len(w)
      positive == {i \in 1 .. n : w[i] > 0}
  IN IF k >= n THEN {[i \in 1 .. n |-> i]}
     ELSE UNION {Arrangements(S) : S \in {T \in SUBSET (1 .. n) :
            Cardinality(T) = k /\ (T \subseteq positive \/ positive \subseteq T)}}

(* A point on the cumulative weights; one at or past the total takes the last *)
WeightedReplace(w, k) ==
  IF Len(w) = 0 THEN {<<>>}
  ELSE [1 .. k -> {i \in 1 .. Len(w) : w[i] > 0} \cup {Len(w)}]

NormalPicks(row, k) ==
  LET n == Len(row)
      w == [i \in 1 .. n |-> Weight[row[i]]]
  IN IF scfg.weighted
     THEN UNION {LET some == [i \in 1 .. Len(el) |-> w[el[i]]] IN
                 {[i \in 1 .. Len(s) |-> el[s[i]]] :
                     s \in IF scfg.replace THEN WeightedReplace(some, k)
                                           ELSE WeightedNoReplace(some, k)}
                 : el \in Eligible(row, TRUE)}
     ELSE IF scfg.replace THEN [1 .. k -> 1 .. n]
     ELSE IF k >= n THEN {[i \in 1 .. n |-> i]}
     ELSE FloydPicks(n, k)

(* Edges older than the node's bound; of those any k, or the k latest *)
LatestOf(row, older, k) ==
  {S \in SUBSET Range(older) : Cardinality(S) = k /\
      \A i \in S, j \in Range(older) \ S : Timestamp[row[i]] >= Timestamp[row[j]]}
OlderPicks(row, older, k) ==
  IF k >= Len(older) THEN {older}
  ELSE IF scfg.strategy = "uniform"
  THEN {[i \in 1 .. Len(s) |-> older[s[i]]] : s \in FloydPicks(Len(older), k)}
  ELSE UNION {Arrangements(S) : S \in LatestOf(row, older, k)}
TemporalPicks(row, bound, k) ==
  UNION {OlderPicks(row, Kept(el, {i \in DOMAIN row : Timestamp[row[i]] < bound}), k)
         : el \in Eligible(row, scfg.strategy = "uniform")}

-----------------------------------------------------------------------------
(* Registering nodes and emitting edges, on a scratch [dedup, pass].       *)

Known(ded, n) == n \in SampleNodes /\ ded.slots[n].tag = ded.tag
Local(ded, n) == ded.slots[n].idx

Inserted(st, n, time) ==
  [dedup |-> [st.dedup EXCEPT !.slots[n] =
                [tag |-> st.dedup.tag, idx |-> Len(st.pass.nodes) + 1]],
   pass |-> [st.pass EXCEPT !.nodes = Append(@, n),
                            !.times = IF Temporal THEN Append(@, time) ELSE @]]
RegisterKeepsFirst(st, n, time) ==
  IF ~Known(st.dedup, n) THEN Inserted(st, n, time) ELSE st

(* A node reached again keeps the earliest bound any path gave it *)
Register(st, n, time) ==
  IF ~Known(st.dedup, n) THEN Inserted(st, n, time)
  ELSE IF Temporal /\ time < st.pass.times[Local(st.dedup, n)]
  THEN [st EXCEPT !.pass.times[Local(st.dedup, n)] = time]
  ELSE st

(* In cumulative mode an edge that an earlier hop emitted is refused *)
FreshEdge(st, e) ==
  scfg.cumulative /\ e \in DOMAIN st.pass.emitted => st.pass.emitted[e] = hop

EmitEdge(st, u, e) ==
  LET d == Dst[e]
      seen == IF ~scfg.cumulative THEN st
              ELSE [st EXCEPT !.pass.emitted =
                      [x \in DOMAIN @ \cup {e} |-> IF x = e THEN hop ELSE @[x]]]
      reg == Register(seen, d, IF Temporal THEN Timestamp[e] ELSE Infinity)
  IN IF ~FreshEdge(st, e) THEN st
     ELSE IF d \notin SampleNodes THEN seen
     ELSE [reg EXCEPT
             !.pass.next = IF Known(st.dedup, d) THEN @ ELSE Append(@, d),
             !.pass.edges = Append(@, [src |-> u, dst |-> d, eid |-> e,
                                       sl |-> Local(st.dedup, u), dl |-> Local(reg.dedup, d)])]

EmitPicks(st, u, picks) ==
  LET Emitted[i \in 0 .. Len(picks)] ==
        IF i = 0 THEN st ELSE EmitEdge(Emitted[i - 1], u, RowOf(u)[picks[i]])
  IN Emitted[Len(picks)]

-----------------------------------------------------------------------------
(* The subgraph types rewrite the pass's edges.                            *)

EdgesFrom(st, ul) ==
  LET u == st.pass.nodes[ul]
      held == Kept(RowOf(u), {e \in Range(RowOf(u)) :
                /\ Temporal => Timestamp[e] < st.pass.times[ul]
                /\ Known(st.dedup, Dst[e])})
  IN [i \in 1 .. Len(held) |->
        [src |-> u, dst |-> Dst[held[i]], eid |-> held[i],
         sl |-> ul, dl |-> Local(st.dedup, Dst[held[i]])]]
Induce(st) == FlattenSeq([ul \in 1 .. Len(st.pass.nodes) |-> EdgesFrom(st, ul)])

Reversed(e) == [src |-> e.dst, dst |-> e.src, eid |-> e.eid, sl |-> e.dl, dl |-> e.sl]
Mirror(st) ==
  LET forward == st.pass.edges
      Pairs(s) == {<<s[i].sl, s[i].dl>> : i \in DOMAIN s}
      Mirrored[i \in 0 .. Len(forward)] ==
        IF i = 0 THEN forward
        ELSE IF <<forward[i].dl, forward[i].sl>> \in Pairs(Mirrored[i - 1])
        THEN Mirrored[i - 1]
        ELSE Append(Mirrored[i - 1], Reversed(forward[i]))
  IN Mirrored[Len(forward)]

TypedEdges(st) == CASE scfg.subgraph = "directional" -> st.pass.edges
                    [] scfg.subgraph = "induced" -> Induce(st)
                    [] scfg.subgraph = "bidirectional" -> Mirror(st)

-----------------------------------------------------------------------------
(* A call: its blocks, one pass each.                                      *)

(* A new generation makes every old entry stale; when it wraps, the table  *)
(* is cleared and generation 0 skipped.                                    *)
BeginDedupUncleared ==
  [dedup EXCEPT !.tag = IF @ + 1 = Generations THEN 1 ELSE @ + 1]
BeginDedup == IF dedup.tag + 1 = Generations THEN [tag |-> 1, slots |-> Slots0]
              ELSE [dedup EXCEPT !.tag = @ + 1]

Seeded(seeds, times) ==
  LET Reg[i \in 0 .. Len(seeds)] ==
        IF i = 0 THEN [dedup |-> BeginDedup, pass |-> NoPass]
        ELSE LET st == Reg[i - 1]
                 reg == Register(st, seeds[i], times[i])
             IN IF Known(st.dedup, seeds[i]) THEN reg
                ELSE [reg EXCEPT !.pass.frontier = Append(@, seeds[i])]
  IN Reg[Len(seeds)]

(* Begin block b of a call: the seed b alone, or every seed at once *)
BeginBlock(call, b) ==
  LET only == scfg.disjoint
      st == Seeded(IF only THEN <<call.seeds[b]>> ELSE call.seeds,
                   IF only THEN <<call.times[b]>> ELSE call.times)
      locals == IF only THEN <<Len(call.out.nodes) + Local(st.dedup, call.seeds[b])>>
                ELSE [i \in DOMAIN call.seeds |-> Local(st.dedup, call.seeds[i])]
  IN /\ dedup' = st.dedup
     /\ pass' = st.pass
     /\ hop' = 1 /\ expanded' = 0
     /\ scall' = [call EXCEPT !.begun = b,
                              !.out.seedLocals = @ \o locals,
                              !.out.newNodes[0] = @ + Len(st.pass.nodes)]

NewCall(seeds, times) ==
  [seeds |-> seeds, times |-> times, begun |-> 0,
   out |-> [NoSubgraph EXCEPT !.newNodes = [h \in 0 .. Hops |-> 0],
                              !.newEdges = [h \in 1 .. Hops |-> 0]]]
BeginCall(seeds, times) ==
  /\ sphase = "idle"
  /\ scalls < MaxCalls
  /\ scfg.disjoint => seeds # <<>>
  /\ scalls' = scalls + 1
  /\ sphase' = "hops"
  /\ BeginBlock(NewCall(seeds, times), 1)
  /\ UNCHANGED scfg

(* Without a seed disjoint sampling begins no block. *)
EmptyCall(seeds, times) ==
  /\ sphase = "idle"
  /\ scalls < MaxCalls
  /\ scfg.disjoint /\ seeds = <<>>
  /\ scalls' = scalls + 1
  /\ scall' = NewCall(seeds, times)
  /\ UNCHANGED <<scfg, dedup, pass, hop, expanded, sphase>>

Picks(u) ==
  LET row == RowOf(u)
      fan == scfg.fanout[hop]
  IN IF row = <<>> THEN {<<>>}
     ELSE IF Temporal
     THEN TemporalPicks(row, pass.times[Local(dedup, u)], fan)
     ELSE NormalPicks(row, fan)

Expand ==
  /\ sphase = "hops"
  /\ hop <= Hops /\ expanded < Len(pass.frontier)
  /\ LET u == pass.frontier[expanded + 1] IN
     \E picks \in Picks(u) :
        LET st == EmitPicks([dedup |-> dedup, pass |-> pass], u, picks) IN
        /\ dedup' = st.dedup
        /\ pass' = st.pass
  /\ expanded' = expanded + 1
  /\ UNCHANGED <<scfg, hop, scall, sphase, scalls>>

EndHop ==
  /\ sphase = "hops"
  /\ hop <= Hops /\ expanded = Len(pass.frontier)
  /\ scall' = [scall EXCEPT !.out.newNodes[hop] = @ + Len(pass.next),
                            !.out.newEdges[hop] = @ + Len(pass.edges) - pass.counted]
  /\ pass' = [pass EXCEPT !.frontier = IF scfg.cumulative THEN @ \o pass.next ELSE pass.next,
                          !.next = <<>>,
                          !.counted = Len(pass.edges)]
  /\ hop' = hop + 1
  /\ expanded' = 0
  /\ UNCHANGED <<scfg, dedup, sphase, scalls>>

Shifted(edges, by) ==
  [i \in DOMAIN edges |-> [edges[i] EXCEPT !.sl = @ + by, !.dl = @ + by]]
Joined(out, b) ==
  [out EXCEPT !.edges = @ \o Shifted(TypedEdges([dedup |-> dedup, pass |-> pass]),
                                     Len(out.nodes)),
              !.nodes = @ \o pass.nodes,
              !.batch = @ \o [i \in DOMAIN pass.nodes |-> b]]

EndPass ==
  /\ sphase = "hops"
  /\ hop > Hops
  /\ LET done == [scall EXCEPT !.out = Joined(@, scall.begun)] IN
     IF scfg.disjoint /\ scall.begun < Len(scall.seeds)
     THEN BeginBlock(done, scall.begun + 1) /\ UNCHANGED sphase
     ELSE /\ sphase' = "idle"
          /\ scall' = done
          /\ pass' = NoPass
          /\ hop' = 0 /\ expanded' = 0
          /\ UNCHANGED dedup
  /\ UNCHANGED <<scfg, scalls>>

SamplerNext ==
  \/ \E seeds \in SeedLists :
       \E times \in [DOMAIN seeds -> IF Temporal THEN SeedTimes ELSE {Infinity}] :
          BeginCall(seeds, times) \/ EmptyCall(seeds, times)
  \/ Expand
  \/ EndHop
  \/ EndPass

SamplerSpec == SamplerInit /\ [][SamplerNext]_svars

-----------------------------------------------------------------------------
(* Properties, of a finished call's subgraph.                              *)

Out == scall.out
Finished == sphase = "idle" /\ scalls > 0
Block(b) == {i \in DOMAIN Out.nodes : Out.batch[i] = b}
InGraph(e) == e.eid \in Range(RowOf(e.src)) /\ Dst[e.eid] = e.dst

(* The nodes that the seeds and the first h hops brought *)
NodesBy(counts, h) ==
  LET By[g \in 0 .. h] == IF g = 0 THEN counts[0] ELSE By[g - 1] + counts[g]
  IN By[h]

(* A subgraph's local indices mean what its global ids say, whatever the   *)
(* sampler was used for before: within a block every node has one index,   *)
(* every edge's endpoints lie in its block and name the edge its id has in *)
(* the graph (or that edge reversed), every seed's index is the seed, and  *)
(* the per-hop counts add up to the nodes.                                 *)
SubgraphIsReal ==
  Finished =>
    /\ \A i, j \in DOMAIN Out.nodes :
         Out.nodes[i] = Out.nodes[j] /\ Out.batch[i] = Out.batch[j] => i = j
    /\ \A e \in Range(Out.edges) :
         /\ {e.sl, e.dl} \subseteq DOMAIN Out.nodes
         /\ Out.batch[e.sl] = Out.batch[e.dl]
         /\ Out.nodes[e.sl] = e.src /\ Out.nodes[e.dl] = e.dst
         /\ InGraph(e) \/ (scfg.subgraph = "bidirectional" /\ InGraph(Reversed(e)))
    /\ Len(Out.seedLocals) = Len(scall.seeds)
    /\ \A i \in DOMAIN scall.seeds :
         /\ Out.seedLocals[i] \in DOMAIN Out.nodes
         /\ Out.nodes[Out.seedLocals[i]] = scall.seeds[i]
         /\ scfg.disjoint => Out.batch[Out.seedLocals[i]] = i
    /\ NodesBy(Out.newNodes, Hops) = Len(Out.nodes)

Picked(u, h) ==
  LET n == Len(RowOf(u))
      some == IF scfg.weighted /\ scfg.cap > 0 /\ n > scfg.cap THEN scfg.cap ELSE n
  IN IF scfg.fanout[h] < some THEN scfg.fanout[h] ELSE some
CorruptIn(u) == Cardinality({e \in Range(RowOf(u)) : Dst[e] \notin SampleNodes})
HopOf(i) == CHOOSE h \in 0 .. Hops :
              /\ i <= NodesBy(Out.newNodes, h)
              /\ \A g \in 0 .. h - 1 : i > NodesBy(Out.newNodes, g)
(* Temporal sampling takes no edge from the future: an edge is older than  *)
(* the earliest time its source has as a seed, and than every edge by      *)
(* which the pass had reached its source before it was expanded; a source  *)
(* that is no seed was so reached.                                         *)
NoFutureEdge ==
  Finished /\ Temporal /\ scfg.subgraph = "directional" =>
    \A i \in DOMAIN Out.edges :
      LET e == Out.edges[i]
          into == {j \in 1 .. i - 1 : Out.edges[j].dl = e.sl /\ Out.edges[j].sl # e.sl}
          asSeed == {k \in DOMAIN scall.seeds : Out.seedLocals[k] = e.sl}
      IN /\ into # {} \/ asSeed # {}
         /\ \A j \in into : Timestamp[e.eid] < Timestamp[Out.edges[j].eid]
         /\ \A k \in asSeed : Timestamp[e.eid] < scall.times[k]

(* An induced block holds every edge between its nodes, once.              *)
InducedIsWhole ==
  Finished /\ scfg.subgraph = "induced" /\ ~Temporal =>
    \A b \in Range(Out.batch) :
      LET ids == Kept(Out.edges, {e \in Range(Out.edges) : e.sl \in Block(b)})
          held == {Out.nodes[i] : i \in Block(b)}
      IN /\ {ids[i].eid : i \in DOMAIN ids} =
              UNION {{e \in Range(RowOf(u)) : Dst[e] \in held} : u \in held}
         /\ Cardinality({ids[i].eid : i \in DOMAIN ids}) = Len(ids)

(* Sampling without replacement returns no edge twice, also when           *)
(* cumulative hops expand a node again.                                    *)
NoEdgeTwice ==
  Finished /\ scfg.subgraph = "directional" /\ ~scfg.replace =>
    \A i, j \in DOMAIN Out.edges :
      Out.edges[i].eid = Out.edges[j].eid /\ Out.edges[i].sl = Out.edges[j].sl => i = j

(* A node expanded once has its whole row, or as many edges as the fanout  *)
(* (less the corrupt ones among them); a node not expanded has none.       *)
FanoutTaken ==
  Finished /\ scfg.subgraph = "directional" /\ ~Temporal /\ ~scfg.cumulative /\ ~scfg.disjoint =>
    \A k \in DOMAIN Out.nodes :
      LET u == Out.nodes[k]
          h == HopOf(k) + 1
          got == Cardinality({i \in DOMAIN Out.edges : Out.edges[i].sl = k})
      IN IF h > Hops THEN got = 0
         ELSE IF scfg.replace THEN RowOf(u) # <<>> => got <= scfg.fanout[h]
         ELSE /\ got <= Picked(u, h)
              /\ got >= Picked(u, h) - CorruptIn(u)

(* The edges are those the config asks for.                                *)
EdgesAsAsked == NoFutureEdge /\ InducedIsWhole /\ NoEdgeTwice /\ FanoutTaken
=============================================================================
