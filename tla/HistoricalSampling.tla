-------------------------- MODULE HistoricalSampling --------------------------
(***************************************************************************)
(* Dirty tracking and cached embeddings of the dynamic graph: the writer   *)
(* guard that buffers the vertices it touched and folds them into a        *)
(* bitmap (crates/aether-graph/src/writer.rs, dirty.rs), the training      *)
(* thread that drains the bitmap and hands the list to the sampler of      *)
(* every GNN layer, and the layers' embedding caches (historical.rs,       *)
(* embedding_cache.rs).                                                    *)
(*                                                                         *)
(* Of an edge only the two vertices it changes matter, and of an embedding *)
(* only whether it misses an edge its vertex has by now.  The generation   *)
(* of a slot is kept as valid (not zero) or not, which is all the sampler  *)
(* asks of it.  Inserts of edges that are already there change nothing.    *)
(***************************************************************************)
EXTENDS Naturals, Sequences

CONSTANTS
  NumNodes,    \* vertices
  WordBits,    \* vertices that share a word of the bitmap
  Layers,      \* GNN layers, each with a sampler of its own
  FlushAt,     \* DIRTY_BUF_FLUSH_THRESHOLD
  MaxEdges     \* bound: edges of the graph

ASSUME SamplingAssumption ==
  /\ NumNodes \in Nat \ {0}
  /\ WordBits \in Nat \ {0}
  /\ FlushAt \in Nat \ {0}
  /\ MaxEdges \in Nat

Nodes == 0..(NumNodes - 1)
NumWords == (NumNodes + WordBits - 1) \div WordBits
Word(w) == {n \in Nodes : n \div WordBits = w}

VARIABLES
  (* the graph *)
  edges,      \* how many edges the published roots hold
  numEdges,   \* DynamicGraph.num_edges
  dirty,      \* vertices whose bit is set
  poisoned,
  (* the writer guard *)
  wpc,        \* "idle", "guard", "note", "flush", "commit"
  wret,       \* where flush_dirty returns to
  pendingEdges,
  todo,       \* vertices of the published edges still to be noted
  buf,        \* Scratch.dirty
  marking,    \* sorted buffer whose words are still to be marked
  (* the training thread *)
  sweep,      \* drain_dirty's next word; NumWords when it is not draining
  list,       \* the drained vertices
  fan,        \* layers the list is still to be given to
  (* the layers *)
  valid,      \* vertices whose slot has a generation other than 0
  job,        \* recompute_nodes of the layer's batch
  done,       \* those whose embedding has been computed
  behind      \* vertices whose embedding, cached or computed for the batch,
              \* misses an edge

graphVars == <<edges, numEdges, dirty, poisoned>>
guardVars == <<wpc, wret, pendingEdges, todo, buf, marking>>
drainVars == <<sweep, list, fan>>
layerVars == <<valid, job, done, behind>>
vars == <<graphVars, guardVars, drainVars, layerVars>>

Init ==
  /\ edges = 0 /\ numEdges = 0 /\ dirty = {}
  /\ poisoned = FALSE
  /\ wpc = "idle" /\ wret = "idle"
  /\ pendingEdges = 0 /\ todo = <<>> /\ buf = <<>> /\ marking = {}
  /\ sweep = NumWords /\ list = {} /\ fan = {}
  /\ valid = [l \in Layers |-> {}]
  /\ job = [l \in Layers |-> {}] /\ done = [l \in Layers |-> {}]
  /\ behind = [l \in Layers |-> {}]

Elements(s) == {s[i] : i \in DOMAIN s}

-----------------------------------------------------------------------------
(* The writer guard *)

OpenGuard ==
  /\ wpc = "idle"
  /\ ~poisoned
  /\ wpc' = "guard"
  /\ UNCHANGED <<graphVars, wret, pendingEdges, todo, buf, marking, drainVars,
                 layerVars>>

\* The new edges from src to dsts become visible with one root store; every
\* embedding of their ends misses them.  insert_edge notes the source first,
\* publish_batch notes it last.
Publish(src, dsts, order) ==
  /\ wpc = "guard"
  /\ edges + Len(dsts) <= MaxEdges
  /\ edges' = edges + Len(dsts)
  /\ pendingEdges' = pendingEdges + Len(dsts)
  /\ behind' = [l \in Layers |-> behind[l] \cup
                  (Elements(order) \cap (valid[l] \cup done[l]))]
  /\ todo' = order
  /\ wpc' = "note"
  /\ UNCHANGED <<numEdges, dirty, poisoned, wret, buf, marking, drainVars,
                 valid, job, done>>

InsertEdge(src, dst) == Publish(src, <<dst>>, <<src, dst>>)
InsertBatch(src, dsts) == Publish(src, dsts, Append(dsts, src))

\* Strictly ascending sequences of one or two vertices (SortedDsts).
SortedDsts ==
  {<<d>> : d \in Nodes} \cup
  {s \in [1..2 -> Nodes] : s[1] < s[2]}

\* note_dirty: a full buffer is flushed first.
NoteDirty ==
  /\ wpc = "note"
  /\ IF Len(buf) = FlushAt
       THEN /\ marking' = Elements(buf) /\ buf' = <<>>
            /\ wpc' = "flush" /\ wret' = "note"
            /\ UNCHANGED todo
       ELSE /\ buf' = Append(buf, Head(todo)) /\ todo' = Tail(todo)
            /\ wpc' = IF Len(todo) = 1 THEN "guard" ELSE "note"
            /\ UNCHANGED <<marking, wret>>
  /\ UNCHANGED <<graphVars, pendingEdges, drainVars, layerVars>>

\* mark_sorted: one fetch_or per word, in ascending order.
MarkWord ==
  /\ wpc = "flush"
  /\ \E w \in 0..(NumWords - 1) :
       /\ Word(w) \cap marking # {}
       /\ \A n \in marking : n \div WordBits >= w
       /\ dirty' = dirty \cup (Word(w) \cap marking)
       /\ marking' = marking \ Word(w)
  /\ IF marking' = {} THEN wpc' = wret /\ wret' = "idle"
                      ELSE UNCHANGED <<wpc, wret>>
  /\ UNCHANGED <<edges, numEdges, poisoned, pendingEdges, todo, buf,
                 drainVars, layerVars>>

\* Mutant of FlushBookkeeping: the epoch advances with the marks still in
\* the guard's buffer.
FlushBookkeepingCountOnly ==
  /\ wpc = "guard"
  /\ numEdges' = numEdges + pendingEdges
  /\ pendingEdges' = 0
  /\ wpc' = "commit"
  /\ UNCHANGED <<edges, dirty, poisoned, wret, todo, buf, marking,
                 drainVars, layerVars>>

\* flush_bookkeeping, when the guard drops and its log is synced: the edge
\* count, then the buffered marks.
FlushBookkeeping ==
  /\ wpc = "guard"
  /\ numEdges' = numEdges + pendingEdges
  /\ pendingEdges' = 0
  /\ marking' = Elements(buf) /\ buf' = <<>>
  /\ IF buf = <<>> THEN wpc' = "commit" /\ UNCHANGED wret
                   ELSE wpc' = "flush" /\ wret' = "commit"
  /\ UNCHANGED <<edges, dirty, poisoned, todo, drainVars, layerVars>>

\* publish_commit: the epoch advances; samplers here read live roots, so
\* the snapshot that is swapped in is left out.
Commit ==
  /\ wpc = "commit"
  /\ wpc' = "idle"
  /\ UNCHANGED <<edges, numEdges, dirty, poisoned, wret, pendingEdges, todo,
                 buf, marking, drainVars, layerVars>>

\* The guard drops after a WAL failure or a panic: the graph is poisoned and
\* the guard's buffered bookkeeping is discarded (Scratch::park).
Poison ==
  /\ wpc = "guard"
  /\ poisoned' = TRUE
  /\ pendingEdges' = 0 /\ buf' = <<>>
  /\ wpc' = "idle"
  /\ UNCHANGED <<edges, numEdges, dirty, wret, todo, marking,
                 drainVars, layerVars>>

-----------------------------------------------------------------------------
(* The training thread *)

\* drain_dirty starts on an empty result; the previous list has reached
\* every layer.
BeginDrain ==
  /\ sweep = NumWords
  /\ fan = {}
  /\ sweep' = 0
  /\ UNCHANGED <<list, fan, graphVars, guardVars, layerVars>>

\* drain_dirty: swap one word with 0.
DrainWord ==
  /\ sweep < NumWords
  /\ list' = list \cup (Word(sweep) \cap dirty)
  /\ dirty' = dirty \ Word(sweep)
  /\ sweep' = sweep + 1
  /\ fan' = IF sweep' = NumWords THEN Layers ELSE {}
  /\ UNCHANGED <<edges, numEdges, poisoned, guardVars, layerVars>>

\* The drained vertices that have a slot are invalidated.
Invalidate(l) ==
  /\ valid' = [valid EXCEPT ![l] = @ \ list]
  /\ behind' = [behind EXCEPT ![l] = @ \ list]

\* Mutant of AdvanceEpochWith: the list is used up by the first layer.
AdvanceEpochStealing(l) ==
  /\ l \in fan
  /\ job[l] = {}
  /\ Invalidate(l)
  /\ fan' = fan \ {l}
  /\ list' = {}
  /\ UNCHANGED <<sweep, graphVars, guardVars, job, done>>

\* advance_epoch_with, between two batches of the layer.
AdvanceEpochWith(l) ==
  /\ l \in fan
  /\ job[l] = {}
  /\ Invalidate(l)
  /\ fan' = fan \ {l}
  /\ list' = IF fan' = {} THEN {} ELSE list
  /\ UNCHANGED <<sweep, graphVars, guardVars, job, done>>

\* prepare_batch: the vertices of the batch that have no valid embedding are
\* to be recomputed.
PrepareBatch(l) ==
  /\ job[l] = {}
  /\ \E ns \in SUBSET Nodes :
       /\ ns \ valid[l] # {}
       /\ job' = [job EXCEPT ![l] = ns \ valid[l]]
  /\ UNCHANGED <<valid, done, behind, graphVars, guardVars, drainVars>>

\* The neighbourhood of one vertex is read from its live root and its
\* embedding computed.
Compute(l, n) ==
  /\ n \in job[l] \ done[l]
  /\ done' = [done EXCEPT ![l] = @ \cup {n}]
  /\ UNCHANGED <<behind, valid, job, graphVars, guardVars, drainVars>>

\* commit_batch: update() every recomputed vertex, which makes it valid.
CommitBatch(l) ==
  /\ job[l] # {} /\ done[l] = job[l]
  /\ valid' = [valid EXCEPT ![l] = @ \cup job[l]]
  /\ job' = [job EXCEPT ![l] = {}]
  /\ done' = [done EXCEPT ![l] = {}]
  /\ UNCHANGED <<behind, graphVars, guardVars, drainVars>>

GuardStep ==
  \/ OpenGuard
  \/ \E s, d \in Nodes : InsertEdge(s, d)
  \/ \E s \in Nodes, ds \in SortedDsts : InsertBatch(s, ds)
  \/ NoteDirty \/ MarkWord \/ FlushBookkeeping \/ Commit \/ Poison

LayerStep(l) ==
  \/ AdvanceEpochWith(l) \/ PrepareBatch(l) \/ CommitBatch(l)
  \/ \E n \in Nodes : Compute(l, n)

Next ==
  \/ GuardStep
  \/ BeginDrain \/ DrainWord
  \/ \E l \in Layers : LayerStep(l)

Spec == Init /\ [][Next]_vars

-----------------------------------------------------------------------------
(* Properties *)

TypeOK ==
  /\ edges \in 0..MaxEdges
  /\ numEdges \in Nat /\ pendingEdges \in Nat
  /\ dirty \subseteq Nodes /\ marking \subseteq Nodes /\ list \subseteq Nodes
  /\ poisoned \in BOOLEAN
  /\ wpc \in {"idle", "guard", "note", "flush", "commit"}
  /\ wret \in {"idle", "note", "commit"}
  /\ todo \in Seq(Nodes) /\ Len(todo) <= 3
  /\ buf \in Seq(Nodes) /\ Len(buf) <= FlushAt
  /\ sweep \in 0..NumWords /\ fan \subseteq Layers
  /\ valid \in [Layers -> SUBSET Nodes]
  /\ job \in [Layers -> SUBSET Nodes] /\ done \in [Layers -> SUBSET Nodes]
  /\ behind \in [Layers -> SUBSET Nodes]

\* The layer would serve an embedding that misses published edges.
Stale(l, n) == n \in valid[l] \cap behind[l]

\* Vertices the layer is going to be told about: marked, or drained into a
\* list the layer has not been given yet.
Visible(l) == dirty \cup (IF sweep < NumWords \/ l \in fan THEN list ELSE {})

\* No change is forgotten: whenever a layer holds an embedding that misses an
\* edge, the vertex is on its way to the layer, in the guard's buffer, a
\* half-marked flush, the bitmap or a half-delivered list
\* (writer.rs note_dirty to historical.rs advance_epoch_with).
StaleIsFlagged ==
  ~poisoned => \A l \in Layers, n \in Nodes : Stale(l, n) =>
    n \in Visible(l) \cup marking \cup Elements(buf) \cup Elements(todo)

\* Whoever observes a commit finds its dirty vertices in the bitmap and its
\* edges in num_edges (Writer::drop: bookkeeping before the epoch).
CommitIsAccounted ==
  wpc = "idle" /\ ~poisoned =>
    /\ numEdges = edges
    /\ \A l \in Layers, n \in Nodes : Stale(l, n) => n \in Visible(l)

-----------------------------------------------------------------------------
(* The inductive invariant of StaleIsFlagged and CommitIsAccounted *)

\* The guard's drop is past its bookkeeping.
Booked == wpc \in {"idle", "commit"} \/ (wpc = "flush" /\ wret = "commit")

\* What the guard has in hand at each point: nothing is overwritten when a
\* batch is published or a buffer is flushed.
GuardInv ==
  /\ wpc = "flush" <=> wret # "idle"
  /\ wpc = "note" \/ (wpc = "flush" /\ wret = "note") => todo # <<>>
  /\ wpc = "guard" \/ Booked => todo = <<>>
  /\ wpc # "flush" => marking = {}
  /\ Booked => buf = <<>> /\ pendingEdges = 0
  /\ ~poisoned => numEdges + pendingEdges = edges
  /\ sweep < NumWords => fan = {}

\* Only embeddings a layer holds can be behind, and a layer computes only
\* what its batch asked for.
LayerInv ==
  \A l \in Layers :
    done[l] \subseteq job[l] /\ behind[l] \subseteq valid[l] \cup done[l]

\* Everything that is behind is flagged, computed embeddings included.
FlagInv ==
  ~poisoned => \A l \in Layers :
    behind[l] \subseteq
      Visible(l) \cup marking \cup Elements(buf) \cup Elements(todo)

FreshnessInv == GuardInv /\ LayerInv /\ FlagInv

=============================================================================
