---------------------------- MODULE MCNeighbors ----------------------------
(***************************************************************************)
(* What training reads of a graph: the neighbourhoods a sampler draws, and *)
(* the embeddings that historical sampling keeps while edges arrive.  The  *)
(* two share no state, so a behaviour exercises one of them.               *)
(***************************************************************************)
EXTENDS HistoricalSampling, NeighborSampler

CONSTANTS l1, l2

\* Node 0 has parallel edges, node 2 a loop and a corrupt edge, whose destination
\* 4 is out of range, and node 3 none.
MCOffsets == (0 :> 0) @@ (1 :> 3) @@ (2 :> 5) @@ (3 :> 8) @@ (4 :> 8)
MCDst == <<1, 2, 1,  0, 3,  2, 4, 3>>
MCTimestamp == <<3, 1, 2,  2, 1,  2, 1, 1>>
MCWeight == <<1, 0, 1,  1, 0,  0, 0, 1>>

Plain == [fanout |-> <<2, 1>>, replace |-> FALSE, cumulative |-> FALSE,
          weighted |-> FALSE, cap |-> 0, strategy |-> "none",
          subgraph |-> "directional", disjoint |-> FALSE]
MCConfigs == {
  Plain,
  [Plain EXCEPT !.fanout = <<1, 2>>, !.cumulative = TRUE],
  [Plain EXCEPT !.fanout = <<1, 1>>, !.disjoint = TRUE],
  [Plain EXCEPT !.fanout = <<1, 2>>, !.weighted = TRUE, !.cap = 2],
  [Plain EXCEPT !.fanout = <<2>>, !.weighted = TRUE, !.replace = TRUE],
  [Plain EXCEPT !.fanout = <<2, 1>>, !.replace = TRUE, !.cumulative = TRUE],
  [Plain EXCEPT !.fanout = <<2, 2>>, !.strategy = "uniform", !.cap = 2],
  [Plain EXCEPT !.fanout = <<2, 2>>, !.strategy = "last"],
  [Plain EXCEPT !.fanout = <<1, 1>>, !.strategy = "last"],
  [Plain EXCEPT !.fanout = <<1, 1>>, !.subgraph = "induced"],
  [Plain EXCEPT !.fanout = <<2, 1>>, !.subgraph = "induced", !.strategy = "uniform"],
  [Plain EXCEPT !.fanout = <<1, 1>>, !.subgraph = "bidirectional", !.disjoint = TRUE],
  [Plain EXCEPT !.fanout = <<2>>, !.subgraph = "bidirectional", !.replace = TRUE]}
MCSeedLists == {<<0, 1>>, <<2, 0>>, <<1, 1>>, <<3, 2>>, <<>>}
VARIABLE part

MCInit == /\ Init /\ SamplerInit /\ part \in {"historical", "sampler"}
          /\ (part = "historical" => scfg = Plain)
MCNext ==
  /\ UNCHANGED part
  /\ \/ part = "historical" /\ Next /\ UNCHANGED svars
     \/ part = "sampler" /\ SamplerNext /\ UNCHANGED vars
MCSpec == MCInit /\ [][MCNext]_<<vars, svars, part>>
=============================================================================
