---------------------------- MODULE FeatureCache ----------------------------
(***************************************************************************)
(* The tiered feature cache (features/cache/mod.rs): a GPU and a CPU tier, *)
(* each a SIEVE queue behind its own lock, above the NVMe spill file and,  *)
(* when it is configured, the compressed cold store.  No lock is held from *)
(* one tier to the next, so calls interleave between any two of their      *)
(* steps.  A node has one row for good (nvme.rs), so the row is the node.  *)
(***************************************************************************)
EXTENDS SieveTier

CONSTANTS
  CacheNodes, Loaders,
  GpuCapacity, CpuCapacity,
  WarmNodes, PinnedNodes,   \* seen by the warm-up; pinned in the GPU tier
  ColdRows,                 \* rows of the cold store, when there is one
  MaxBatchNodes,            \* bound: nodes of one get_batch, per loader
  MaxIoErrors               \* bound: reads and writes that fail

\* new clamps the pins so that one slot stays evictable.
ASSUME CacheAssumption ==
  /\ GpuCapacity \in Nat \ {0} /\ CpuCapacity \in Nat /\ MaxIoErrors \in Nat
  /\ MaxBatchNodes \in [Loaders -> Nat]
  /\ NIL \notin CacheNodes /\ ColdRows \subseteq CacheNodes
  /\ PinnedNodes \subseteq WarmNodes /\ Cardinality(PinnedNodes) < GpuCapacity

VARIABLES
  gpu, cpu,    \* the tiers
  present,     \* nodes with an NVMe record
  cold,        \* nodes the cold store serves; {} without one
  step,        \* loader -> idle, cpu, promote, settle, nvme, admit, cold, spill, save
  rows,        \* loader -> nodes whose rows it is about to put into a tier
  missing,     \* loader -> nodes it has still to find
  demoted,     \* loader -> nodes the GPU tier displaced
  spills,      \* loader -> displaced nodes with no copy below
  ioErrors,
  \* history
  known,       \* loader -> nodes that could be served when its present call began
  falseMisses  \* of those, the ones a call reported to be in no tier

cvars == <<gpu, cpu, present, cold, step, rows, missing, demoted, spills, ioErrors, known,
           falseMisses>>

CacheInit ==
  /\ gpu = EmptyTier /\ cpu = EmptyTier /\ present = {} /\ cold \in {{}, ColdRows}
  /\ step = [c \in Loaders |-> "idle"]
  /\ rows = [c \in Loaders |-> <<>>] /\ missing = rows /\ demoted = rows /\ spills = rows
  /\ ioErrors = 0
  /\ known = [c \in Loaders |-> {}] /\ falseMisses = {}

Backed == present \cup cold

\* The sequences of the entries of seq in set, in their order: there is one.
Only(seq, set) ==
  LET kept == {i \in DOMAIN seq : seq[i] \in set}
  IN {[i \in DOMAIN at |-> seq[at[i]]] :
        at \in {f \in [1 .. Cardinality(kept) -> kept] :
                  \A i, j \in DOMAIN f : i < j => f[i] < f[j]}}

Goto(c, s) ==
  /\ step' = [step EXCEPT ![c] = s]
  /\ known' = IF s = "idle" THEN [known EXCEPT ![c] = {}] ELSE known

\* Bound on the reads and writes that fail.
Fails == ioErrors < MaxIoErrors /\ ioErrors' = ioErrors + 1

\* A call begins, and may be over at once.
BeginCall(c, s) ==
  /\ step[c] = "idle"
  /\ step' = [step EXCEPT ![c] = s]
  /\ known' = [known EXCEPT ![c] = IF s = "idle" THEN {} ELSE Backed \cup Resident(gpu) \cup Resident(cpu)]
  /\ UNCHANGED falseMisses

Touch(tier, nodes) == [tier EXCEPT !.visited = @ \cup nodes]

-----------------------------------------------------------------------------
(* get_into, and get_batch over the distinct nodes of a batch *)

Batches(c) == {s \in UNION {[1 .. k -> CacheNodes] : k \in 1 .. MaxBatchNodes[c]} : IsInjective(s)}

\* Hits in the GPU tier only mark their nodes.
ReadGpu(c) ==
  /\ \E batch \in Batches(c) : \E rest \in Only(batch, CacheNodes \ Resident(gpu)) :
       /\ gpu' = Touch(gpu, ToSet(batch) \cap Resident(gpu))
       /\ missing' = [missing EXCEPT ![c] = rest]
       /\ BeginCall(c, IF rest = <<>> THEN "idle" ELSE "cpu")
  /\ UNCHANGED <<cpu, present, cold, rows, demoted, spills, ioErrors>>

ReadCpu(c) ==
  /\ step[c] = "cpu"
  /\ \E hits \in Only(missing[c], Resident(cpu)), rest \in Only(missing[c], CacheNodes \ Resident(cpu)) :
       /\ cpu' = Touch(cpu, ToSet(hits))
       /\ rows' = [rows EXCEPT ![c] = hits]
       /\ missing' = [missing EXCEPT ![c] = rest]
       /\ Goto(c, IF hits = <<>> THEN "nvme" ELSE "promote")
  /\ UNCHANGED <<gpu, present, cold, demoted, spills, ioErrors, falseMisses>>

\* promote_from_cpu under the GPU tier's lock: its victims, and newcomers it
\* refuses because every slot is pinned, are to move down.
Promote(c) ==
  /\ step[c] = "promote"
  /\ LET done == AddedAll(gpu, rows[c], GpuCapacity, WarmNodes, PinnedNodes)
     IN gpu' = done.tier /\ demoted' = [demoted EXCEPT ![c] = done.out]
  /\ Goto(c, "settle")
  /\ UNCHANGED <<cpu, present, cold, rows, missing, spills, ioErrors, falseMisses>>

\* admit_one_cpu: a displaced row is spilled unless it can be recovered.
AdmitAll(c, tier, nodes) ==
  LET done == AddedAll(tier, nodes, CpuCapacity, WarmNodes, {})
  IN /\ cpu' = done.tier
     /\ \E lost \in Only(done.out, CacheNodes \ Backed) : spills' = [spills EXCEPT ![c] = @ \o lost]

\* promote_from_cpu under the CPU tier's lock.
Settle(c) ==
  /\ step[c] = "settle"
  /\ AdmitAll(c, WithoutAll(cpu, rows[c]), demoted[c])
  /\ rows' = [rows EXCEPT ![c] = <<>>] /\ demoted' = [demoted EXCEPT ![c] = <<>>]
  /\ Goto(c, IF missing[c] = <<>> THEN "spill" ELSE "nvme")
  /\ UNCHANGED <<gpu, present, cold, missing, ioErrors, falseMisses>>

\* The call returns an error; what it still had to spill is dropped with it.
Abandon(c, nodes) ==
  /\ falseMisses' = falseMisses \cup (nodes \cap known[c])
  /\ missing' = [missing EXCEPT ![c] = <<>>] /\ spills' = [spills EXCEPT ![c] = <<>>]
  /\ Goto(c, "idle")
  /\ UNCHANGED <<gpu, cpu, present, cold, rows, demoted>>

\* load_blocking and load_batch: records are never removed, so a node found
\* present is read.  Without a cold store an absent one is a miss.
LoadNvme(c) ==
  /\ step[c] = "nvme"
  /\ \E loaded \in Only(missing[c], present), absent \in Only(missing[c], CacheNodes \ present) :
        \/ /\ absent = <<>> \/ cold # {}
           /\ rows' = [rows EXCEPT ![c] = loaded]
           /\ missing' = [missing EXCEPT ![c] = absent]
           /\ Goto(c, "admit")
           /\ UNCHANGED <<gpu, cpu, present, cold, demoted, spills, ioErrors, falseMisses>>
        \/ /\ absent # <<>> /\ cold = {}
           /\ Abandon(c, ToSet(absent)) /\ UNCHANGED ioErrors
        \/ /\ loaded # <<>> /\ Fails /\ Abandon(c, {})

Admit(c) ==
  /\ step[c] = "admit"
  /\ AdmitAll(c, cpu, rows[c])
  /\ rows' = [rows EXCEPT ![c] = <<>>]
  /\ Goto(c, IF missing[c] = <<>> THEN "spill" ELSE "cold")
  /\ UNCHANGED <<gpu, present, cold, missing, demoted, ioErrors, falseMisses>>

\* One gather for what the spill file has not; a node past its rows is a miss.
GatherCold(c) ==
  /\ step[c] = "cold"
  /\ LET lost == ToSet(missing[c]) \ cold
     IN \/ /\ lost = {}
           /\ rows' = [rows EXCEPT ![c] = missing[c]]
           /\ missing' = [missing EXCEPT ![c] = <<>>]
           /\ Goto(c, "admit")
           /\ UNCHANGED <<gpu, cpu, present, cold, demoted, spills, ioErrors, falseMisses>>
        \/ lost # {} /\ Abandon(c, lost) /\ UNCHANGED ioErrors
        \/ lost = {} /\ Fails /\ Abandon(c, {})

\* The displaced rows are written in order up to the first failure, which is
\* only logged.
Spill(c) ==
  /\ step[c] = "spill"
  /\ \E written \in 0 .. Len(spills[c]) :
       /\ IF written = Len(spills[c]) THEN UNCHANGED ioErrors ELSE Fails
       /\ present' = present \cup ToSet(SubSeq(spills[c], 1, written))
  /\ spills' = [spills EXCEPT ![c] = <<>>]
  /\ Goto(c, "idle")
  /\ UNCHANGED <<gpu, cpu, cold, rows, missing, demoted, falseMisses>>

-----------------------------------------------------------------------------
(* insert *)

BeginInsert(c) ==
  /\ BeginCall(c, "save")
  /\ \E n \in CacheNodes : rows' = [rows EXCEPT ![c] = <<n>>]
  /\ UNCHANGED <<gpu, cpu, present, cold, missing, demoted, spills, ioErrors>>

\* Mutant of Save: the row is promoted although its record was not written.
SaveOptional(c) ==
  /\ step[c] = "save"
  /\ \/ present' = present \cup ToSet(rows[c]) /\ UNCHANGED ioErrors
     \/ Fails /\ UNCHANGED present
  /\ Goto(c, "promote")
  /\ UNCHANGED <<gpu, cpu, cold, rows, missing, demoted, spills, falseMisses>>

\* The record first; a failed write fails the insert.
Save(c) ==
  /\ step[c] = "save"
  /\ \/ /\ present' = present \cup ToSet(rows[c])
        /\ Goto(c, "promote")
        /\ UNCHANGED <<rows, ioErrors>>
     \/ /\ Fails
        /\ rows' = [rows EXCEPT ![c] = <<>>]
        /\ Goto(c, "idle")
        /\ UNCHANGED present
  /\ UNCHANGED <<gpu, cpu, cold, missing, demoted, spills, falseMisses>>

-----------------------------------------------------------------------------
CacheStep(c) ==
  \/ ReadGpu(c) \/ ReadCpu(c) \/ Promote(c) \/ Settle(c) \/ LoadNvme(c) \/ Admit(c)
  \/ GatherCold(c) \/ Spill(c) \/ BeginInsert(c) \/ Save(c)
CacheNext == \E c \in Loaders : CacheStep(c)
CacheSpec == CacheInit /\ [][CacheNext]_cvars

-----------------------------------------------------------------------------
\* A node that could be served when a call began is not reported to be in no
\* tier, although rows move between tiers that are locked one at a time and a
\* spill that fails is only logged: every row in a memory tier has a copy
\* below (mod.rs, admit_one_cpu).
NoFalseMiss == falseMisses = {}
=============================================================================
