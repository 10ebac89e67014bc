---------------------------- MODULE FeatureTable ----------------------------
(***************************************************************************)
(* One slot of the streamed feature table: a sequence lock whose head and  *)
(* tail versions bracket the payload, written in place by local writers    *)
(* and read by local readers (read_node) and by remote ones, which see the *)
(* slot through RDMA READs that may return its bytes in any order and      *)
(* accept a row on two agreeing snapshots.  Slots share nothing, so one    *)
(* stands for the table.                                                   *)
(*                                                                         *)
(* The fences of the code order the odd head before the payload stores and *)
(* the payload before the even versions; between two fences the stores, and*)
(* the loads of a copy, happen in any order.                               *)
(***************************************************************************)
EXTENDS Naturals, FiniteSets

CONSTANTS Writers,      \* threads that call write_node
          Readers,      \* callers of read_node or of a remote gather
          Words,        \* the payload's 8-byte words
          MaxRetries,   \* MAX_RETRIES, re-reads of a torn row
          MaxWrites,    \* bound: writes begun
          MaxPanics     \* bound: writers that panic inside write_node

ASSUME FeatureTableAssumption ==
  /\ MaxRetries \in Nat /\ MaxWrites \in Nat /\ MaxPanics \in Nat
  /\ Words # {} /\ Words \cap {"head", "tail"} = {}

VARIABLES
  slot,    \* location -> version (head, tail) or generation (payload word)
  wpc,     \* writer -> idle, copy, tail, head, or unwind inside the guard's drop
  wjob,    \* writer -> the write it is in: target version, generation, words left
  rpc,     \* reader -> idle, start, copy, check (local) or snap1, snap2 (remote)
  rver,    \* reader -> h1
  snap1,   \* reader -> its copy: what it has loaded so far
  snap2,   \* reader -> the second snapshot of a remote read
  round,   \* reader -> re-reads left
  result,  \* reader -> the row its last call returned, Nothing if it returned none
  \* history
  gen,     \* writes begun; each stores its own generation in every word
  done,    \* generations published
  panics,
  floor,   \* reader -> newest generation published when its call began
  dirty    \* reader -> a write was poisoned during its call

tvars == <<slot, wpc, wjob, rpc, rver, snap1, snap2, round, result,
           gen, done, panics, floor, dirty>>
writerVars == <<wpc, wjob, gen, done, panics>>
readerVars == <<rpc, rver, snap1, snap2, round, result, floor>>

Locs == Words \cup {"head", "tail"}
Nothing == [l \in {} |-> 0]
NoJob == [target |-> 0, gen |-> 0, todo |-> {}]
Row(copy) == [w \in Words |-> copy[w]]
Newest == IF done = {} THEN 0 ELSE CHOOSE g \in done : \A h \in done : h <= g

TableInit ==
  /\ slot = [l \in Locs |-> 0]
  /\ wpc = [w \in Writers |-> "idle"]
  /\ wjob = [w \in Writers |-> NoJob]
  /\ rpc = [r \in Readers |-> "idle"]
  /\ rver = [r \in Readers |-> 0]
  /\ snap1 = [r \in Readers |-> Nothing]
  /\ snap2 = [r \in Readers |-> Nothing]
  /\ round = [r \in Readers |-> 0]
  /\ result = [r \in Readers |-> Nothing]
  /\ gen = 0 /\ done = {} /\ panics = 0
  /\ floor = [r \in Readers |-> 0]
  /\ dirty = [r \in Readers |-> FALSE]

-----------------------------------------------------------------------------
(* Writers *)

\* The CAS of the head from even to odd; an odd head is spun on.
BeginWrite(w) ==
  /\ wpc[w] = "idle" /\ gen < MaxWrites
  /\ slot["head"] % 2 = 0
  /\ slot' = [slot EXCEPT !["head"] = @ + 1]
  /\ gen' = gen + 1
  /\ wjob' = [wjob EXCEPT ![w] = [target |-> slot["head"] + 2, gen |-> gen + 1, todo |-> Words]]
  /\ wpc' = [wpc EXCEPT ![w] = "copy"]
  /\ UNCHANGED <<done, panics, readerVars, dirty>>

StoreWord(w) ==
  /\ wpc[w] = "copy"
  /\ \E d \in wjob[w].todo :
       /\ slot' = [slot EXCEPT ![d] = wjob[w].gen]
       /\ wjob' = [wjob EXCEPT ![w].todo = @ \ {d}]
  /\ wpc' = [wpc EXCEPT ![w] = IF wjob'[w].todo = {} THEN "tail" ELSE "copy"]
  /\ UNCHANGED <<gen, done, panics, readerVars, dirty>>

StoreTail(w) ==
  /\ wpc[w] = "tail"
  /\ slot' = [slot EXCEPT !["tail"] = wjob[w].target]
  /\ wpc' = [wpc EXCEPT ![w] = "head"]
  /\ UNCHANGED <<wjob, gen, done, panics, readerVars, dirty>>

StoreHead(w) ==
  /\ wpc[w] = "head"
  /\ slot' = [slot EXCEPT !["head"] = wjob[w].target]
  /\ wpc' = [wpc EXCEPT ![w] = "idle"]
  /\ done' = done \cup {wjob[w].gen}
  /\ wjob' = [wjob EXCEPT ![w] = NoJob]
  /\ UNCHANGED <<gen, panics, readerVars, dirty>>

\* A panic between the two head stores drops the guard: tail, then head, to 0.
Panic(w) ==
  /\ wpc[w] \in {"copy", "tail", "head"} /\ panics < MaxPanics
  /\ panics' = panics + 1
  /\ slot' = [slot EXCEPT !["tail"] = 0]
  /\ wpc' = [wpc EXCEPT ![w] = "unwind"]
  /\ dirty' = [r \in Readers |-> TRUE]
  /\ UNCHANGED <<wjob, gen, done, readerVars>>

PoisonHead(w) ==
  /\ wpc[w] = "unwind"
  /\ slot' = [slot EXCEPT !["head"] = 0]
  /\ wpc' = [wpc EXCEPT ![w] = "idle"]
  /\ wjob' = [wjob EXCEPT ![w] = NoJob]
  /\ dirty' = [r \in Readers |-> TRUE]
  /\ UNCHANGED <<gen, done, panics, readerVars>>

-----------------------------------------------------------------------------
(* Local readers: read_node *)

Call(r, pc) ==
  /\ rpc[r] = "idle"
  /\ rpc' = [rpc EXCEPT ![r] = pc]
  /\ floor' = [floor EXCEPT ![r] = Newest]
  /\ dirty' = [dirty EXCEPT ![r] = FALSE]
  /\ result' = [result EXCEPT ![r] = Nothing]
  /\ UNCHANGED <<slot, rver, writerVars>>

\* A caller keeps nothing of a read but its row.
Return(r, what) ==
  /\ rpc' = [rpc EXCEPT ![r] = "idle"]
  /\ result' = [result EXCEPT ![r] = what]
  /\ rver' = [rver EXCEPT ![r] = 0]
  /\ snap1' = [snap1 EXCEPT ![r] = Nothing]
  /\ snap2' = [snap2 EXCEPT ![r] = Nothing]

ReadNode(r) == Call(r, "start") /\ UNCHANGED <<snap1, snap2, round>>

LoadVersion(r) ==
  /\ rpc[r] = "start"
  /\ \/ /\ slot["head"] = 0                             \* never written
        /\ Return(r, Nothing)
     \/ /\ slot["head"] # 0 /\ slot["head"] % 2 = 0     \* odd: spin
        /\ rver' = [rver EXCEPT ![r] = slot["head"]]
        /\ snap1' = [snap1 EXCEPT ![r] = Nothing]
        /\ rpc' = [rpc EXCEPT ![r] = "copy"]
        /\ UNCHANGED <<snap2, result>>
  /\ UNCHANGED <<slot, round, floor, dirty, writerVars>>

LoadWord(r) ==
  /\ rpc[r] = "copy"
  /\ \E d \in Words \ DOMAIN snap1[r] :
       snap1' = [snap1 EXCEPT ![r] = [l \in DOMAIN @ \cup {d} |->
                                        IF l = d THEN slot[d] ELSE @[l]]]
  /\ rpc' = [rpc EXCEPT ![r] = IF DOMAIN snap1'[r] = Words THEN "tail" ELSE "copy"]
  /\ UNCHANGED <<slot, rver, snap2, round, result, floor, dirty, writerVars>>

\* h1 == t; a mismatch starts over whatever the head's re-load returns.
LoadTail(r) ==
  /\ rpc[r] = "tail"
  /\ rpc' = [rpc EXCEPT ![r] = IF slot["tail"] = rver[r] THEN "head" ELSE "start"]
  /\ UNCHANGED <<slot, rver, snap1, snap2, round, result, floor, dirty, writerVars>>

\* h1 == h2.
ReloadHead(r) ==
  /\ rpc[r] = "head"
  /\ \/ slot["head"] = rver[r] /\ Return(r, Row(snap1[r]))
     \/ /\ slot["head"] # rver[r]
        /\ rpc' = [rpc EXCEPT ![r] = "start"]
        /\ UNCHANGED <<rver, snap1, snap2, result>>
  /\ UNCHANGED <<slot, round, floor, dirty, writerVars>>

-----------------------------------------------------------------------------
(* Remote readers: two snapshots, the second begun after the first is whole *)

GatherRow(r) ==
  /\ Call(r, "snap1")
  /\ round' = [round EXCEPT ![r] = MaxRetries]
  /\ UNCHANGED <<snap1, snap2>>

Land(copy, l) == [k \in DOMAIN copy \cup {l} |-> IF k = l THEN slot[l] ELSE copy[k]]

LandFirst(r) ==
  /\ rpc[r] = "snap1"
  /\ \E l \in Locs \ DOMAIN snap1[r] : snap1' = [snap1 EXCEPT ![r] = Land(@, l)]
  /\ rpc' = [rpc EXCEPT ![r] = IF DOMAIN snap1'[r] = Locs THEN "snap2" ELSE "snap1"]
  /\ UNCHANGED <<slot, rver, snap2, round, result, floor, dirty, writerVars>>

LandSecond(r) ==
  /\ rpc[r] = "snap2"
  /\ \E l \in Locs \ DOMAIN snap2[r] : snap2' = [snap2 EXCEPT ![r] = Land(@, l)]
  /\ rpc' = [rpc EXCEPT ![r] = IF DOMAIN snap2'[r] = Locs THEN "check" ELSE "snap2"]
  /\ UNCHANGED <<slot, rver, snap1, round, result, floor, dirty, writerVars>>

\* Mutant of Accept: one READ is trusted on its own two versions.
AcceptOneSnapshot(a, b) == a["head"] = a["tail"] /\ a["head"] # 0 /\ a["head"] % 2 = 0

\* Four equal versions, even and not 0, and the same payload twice.
Accept(a, b) ==
  /\ a["head"] = a["tail"] /\ a["head"] = b["head"] /\ a["head"] = b["tail"]
  /\ a["head"] # 0 /\ a["head"] % 2 = 0
  /\ Row(a) = Row(b)

ValidateRow(r) ==
  /\ rpc[r] = "check"
  /\ \/ /\ Accept(snap1[r], snap2[r])
        /\ Return(r, Row(snap1[r]))
        /\ UNCHANGED round
     \/ /\ ~Accept(snap1[r], snap2[r]) /\ round[r] > 0
        /\ round' = [round EXCEPT ![r] = @ - 1]
        /\ snap1' = [snap1 EXCEPT ![r] = Nothing]
        /\ snap2' = [snap2 EXCEPT ![r] = Nothing]
        /\ rpc' = [rpc EXCEPT ![r] = "snap1"]
        /\ UNCHANGED <<rver, result>>
     \/ /\ ~Accept(snap1[r], snap2[r]) /\ round[r] = 0
        /\ Return(r, Nothing)
        /\ UNCHANGED round
  /\ UNCHANGED <<slot, floor, dirty, writerVars>>

-----------------------------------------------------------------------------
WriterStep(w) == StoreWord(w) \/ StoreTail(w) \/ StoreHead(w) \/ PoisonHead(w)
ReaderStep(r) ==
  \/ LoadVersion(r) \/ LoadWord(r) \/ LoadTail(r) \/ ReloadHead(r)
  \/ LandFirst(r) \/ LandSecond(r) \/ ValidateRow(r)

TableNext ==
  \/ \E w \in Writers : BeginWrite(w) \/ Panic(w) \/ WriterStep(w)
  \/ \E r \in Readers : ReadNode(r) \/ GatherRow(r) \/ ReaderStep(r)

TableSpec == TableInit /\ [][TableNext]_tvars

-----------------------------------------------------------------------------
Returned(r) == rpc[r] = "idle" /\ result[r] # Nothing

\* A row a reader accepts is the payload of one published write, never a mix
\* of two nor a write still in progress, for the local reader's re-load of the
\* head as for the remote reader's two snapshots (feature_table.rs, "RDMA
\* reader contract"), and it is at least as new as the newest write published
\* before the call.  A version restarts at 0 when a write is poisoned
\* (SeqlockWriteGuard), so a call a poisoning overlaps is excepted.
AcceptedIsOneWrite ==
  \A r \in Readers : Returned(r) /\ ~dirty[r] =>
    \E g \in done : g >= floor[r] /\ result[r] = [w \in Words |-> g]

=============================================================================
