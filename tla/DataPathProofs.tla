--------------------------- MODULE DataPathProofs ---------------------------
(***************************************************************************)
(* The streamed feature table and the clients that read it.                *)
(*                                                                         *)
(* FeatureTable: for any writers, readers, payload size, retries and       *)
(* number of panics, an accepted row is one published write                *)
(* (AcceptedIsOneWrite).  While no write is poisoned the head only grows,  *)
(* so a head seen twice has not moved in between; while it is even and not *)
(* 0 every word is the newest generation; and a word's generation only     *)
(* grows.  A local reader copied between two sights of one head.  Of a     *)
(* remote reader's two snapshots the first shows each word at most as new  *)
(* as when it was complete and the second at least as new as then, so rows *)
(* that agree are the generation of that moment.                           *)
(*                                                                         *)
(* SrdGather: for any shards and sizes, SnapshotsApart and QuietOrPoisoned.*)
(* Every READ that is out belongs to the round and snapshot being gathered,*)
(* and a draining shard waits for at least as many completions as there    *)
(* are READs out and completions of its generation queued: a drain that    *)
(* counts down to 0 leaves the shard quiet with every row of the snapshot  *)
(* written, and one that ends any other way fails the call and gives the   *)
(* shard up for good.                                                      *)
(*                                                                         *)
(* ShardedQpPool: for any callers, shards, windows and channels,           *)
(* AnsweredIsQuiet.  A batch is in one place, and all the device holds of  *)
(* a shard is of the batch its worker serves.  A window's only signaled    *)
(* READ is its last, so a good completion comes alone with nothing behind  *)
(* it; after a failure the marker is behind everything, and its completion *)
(* is the last one.                                                        *)
(*                                                                         *)
(* RcGather: for any gathers, queue depth and retries, WindowsKeepOrder.   *)
(* The windows hold the rows of the round, and all of them.  A good        *)
(* completion comes alone with nothing behind it, so at the flush each READ*)
(* of the chain has been written; every READ of the round writes the same  *)
(* stamp, so what is settled stays so; and rows accepted in an earlier     *)
(* round are not read again.                                               *)
(***************************************************************************)
EXTENDS FeatureTable, StagingClients, RcGather, FiniteSetTheorems, SequenceTheorems,
        WellFoundedInduction, TLAPS

-----------------------------------------------------------------------------
(* The feature table.                                                      *)

Active(w) == wpc[w] # "idle"
Even(v) == v # 0 /\ v % 2 = 0
LocalPcs == {"start", "copy", "tail", "head"}
RemotePcs == {"snap1", "snap2", "check"}
Copy(c) == DOMAIN c \subseteq Locs /\ c \in [DOMAIN c -> Nat]
Copies(snaps) == snaps = [r \in Readers |-> snaps[r]] /\ \A r \in Readers : Copy(snaps[r])

TableTypeOK ==
  /\ slot \in [Locs -> Nat]
  /\ wpc \in [Writers -> {"idle", "copy", "tail", "head", "unwind"}]
  /\ wjob \in [Writers -> [target : Nat, gen : Nat, todo : SUBSET Words]]
  /\ rpc \in [Readers -> {"idle"} \cup LocalPcs \cup RemotePcs]
  /\ rver \in [Readers -> Nat]
  /\ Copies(snap1) /\ Copies(snap2)
  /\ result = [r \in Readers |-> result[r]]
  /\ gen \in Nat /\ done \subseteq 1 .. gen
  /\ floor \in [Readers -> Nat]
  /\ dirty \in [Readers -> BOOLEAN]

\* One writer at a time, and only while the head is odd; what it stores is the
\* newest generation.
WriterOK ==
  /\ \A v, w \in Writers : Active(v) /\ Active(w) => v = w
  /\ \A w \in Writers : Active(w) => slot["head"] % 2 = 1
  /\ \A w \in Writers : wpc[w] \in {"copy", "tail", "head"} =>
       /\ wjob[w].gen = gen /\ gen > 0
       /\ wjob[w].target = slot["head"] + 1
       /\ \A d \in Words \ wjob[w].todo : slot[d] = gen
       /\ wpc[w] # "copy" => wjob[w].todo = {}

\* No word is newer than the newest generation, and all are that generation,
\* a published one, while the head is even; the newest published one exists.
SlotOK ==
  /\ \A d \in Words : slot[d] <= gen
  /\ Even(slot["head"]) => gen \in done /\ \A d \in Words : slot[d] = gen
  /\ done = {} \/ \E g \in done : \A h \in done : h <= g

\* A local reader's copy is current while the head still is the one it loaded.
LocalOK(r) ==
  rpc[r] \in {"copy", "tail", "head"} /\ ~dirty[r] =>
    /\ Even(rver[r]) /\ rver[r] <= slot["head"]
    /\ DOMAIN snap1[r] \subseteq Words
    /\ slot["head"] = rver[r] => \A d \in DOMAIN snap1[r] : snap1[r][d] = slot[d]
    /\ rpc[r] # "copy" => DOMAIN snap1[r] = Words

\* What is loaded of the head and the words is never ahead of the slot.
Behind(copy) ==
  /\ \A d \in DOMAIN copy \cap Words : copy[d] <= slot[d]
  /\ "head" \in DOMAIN copy => copy["head"] <= slot["head"]

\* Once the second snapshot has the head of the first, a published generation
\* separates the two.
Apart(r, g) ==
  /\ g \in done /\ g >= floor[r]
  /\ \A d \in Words : snap1[r][d] <= g /\ g <= slot[d]
  /\ \A d \in DOMAIN snap2[r] \cap Words : g <= snap2[r][d]

RemoteOK(r) ==
  /\ rpc[r] = "idle" => snap1[r] = Nothing /\ snap2[r] = Nothing
  /\ rpc[r] \in RemotePcs =>
      /\ rpc[r] # "snap1" => DOMAIN snap1[r] = Locs
      /\ rpc[r] = "check" => DOMAIN snap2[r] = Locs
      /\ rpc[r] = "snap1" => snap2[r] = Nothing
      /\ ~dirty[r] =>
           /\ Behind(snap1[r]) /\ Behind(snap2[r])
           /\ /\ "head" \in DOMAIN snap1[r] /\ "head" \notin DOMAIN snap2[r]
              /\ Even(snap1[r]["head"]) /\ snap1[r]["head"] = slot["head"]
              => \A d \in DOMAIN snap2[r] \cap Words : snap2[r][d] = slot[d]
           /\ /\ "head" \in DOMAIN snap2[r]
              /\ Even(snap2[r]["head"]) /\ snap1[r]["head"] = snap2[r]["head"]
              => \E g \in done : Apart(r, g)

ReaderOK(r) ==
  /\ floor[r] <= gen
  /\ LocalOK(r) /\ RemoteOK(r)
  /\ Returned(r) /\ ~dirty[r] =>
       \E g \in done : g >= floor[r] /\ result[r] = [w \in Words |-> g]

TableInv ==
  TableTypeOK /\ WriterOK /\ SlotOK /\ \A r \in Readers : ReaderOK(r)

WordsApart == \A d \in Words : d # "head" /\ d # "tail"

LEMMA Distinct == WordsApart
BY FeatureTableAssumption DEF WordsApart

LEMMA Parity ==
  ASSUME NEW n \in Nat
  PROVE  /\ n % 2 = 0 => (n + 1) % 2 = 1 /\ (n + 2) % 2 = 0
         /\ n % 2 = 1 => (n + 1) % 2 = 0
         /\ n % 2 \in {0, 1}
OBVIOUS

\* A load adds one location to a copy.
Landed(n, c, l) ==
  /\ Copy(n) /\ DOMAIN n = DOMAIN c \cup {l} /\ n[l] = slot[l]
  /\ \A k \in DOMAIN c : k # l => n[k] = c[k]

LEMMA Landing ==
  ASSUME NEW c, Copy(c), NEW l \in Locs, slot \in [Locs -> Nat]
  PROVE  Landed(Land(c, l), c, l)
BY DEF Copy, Land, Landed

LEMMA NoCopy == Copy(Nothing) /\ DOMAIN Nothing = {}
BY DEF Copy, Nothing

SlotTypes ==
  /\ slot \in [Locs -> Nat]
  /\ wpc \in [Writers -> {"idle", "copy", "tail", "head", "unwind"}]
  /\ wjob \in [Writers -> [target : Nat, gen : Nat, todo : SUBSET Words]]
  /\ gen \in Nat /\ done \subseteq 1 .. gen
CallTypes ==
  /\ rpc \in [Readers -> {"idle"} \cup LocalPcs \cup RemotePcs]
  /\ rver \in [Readers -> Nat]
  /\ Copies(snap1) /\ Copies(snap2)
  /\ result = [r \in Readers |-> result[r]]
  /\ floor \in [Readers -> Nat]
DirtyTypes == dirty \in [Readers -> BOOLEAN]

LEMMA TableTypes == TableTypeOK <=> SlotTypes /\ CallTypes /\ DirtyTypes
BY DEF TableTypeOK, SlotTypes, CallTypes, DirtyTypes

\* What a writer does to the slot: unless the write is poisoned the head, the
\* words and the generations only grow, and the words move only under an odd
\* head.
Grows ==
  /\ gen <= gen' /\ done \subseteq done'
  /\ slot["head"] <= slot'["head"]
  /\ \A d \in Words : slot[d] <= slot'[d]
  /\ slot'["head"] = slot["head"] /\ Even(slot["head"]) => \A d \in Words : slot'[d] = slot[d]
Poisons == gen' = gen /\ done' = done /\ \A r \in Readers : dirty'[r] = TRUE
Writes(w) == BeginWrite(w) \/ Panic(w) \/ WriterStep(w)

LEMMA WriterMoves ==
  ASSUME SlotTypes, WriterOK, SlotOK, NEW w \in Writers, Writes(w)
  PROVE  /\ SlotTypes' /\ WriterOK' /\ SlotOK'
         /\ Poisons \/ (dirty' = dirty /\ Grows)
         /\ UNCHANGED readerVars
<1> DEFINE h == slot["head"]
<1>0. /\ h \in Nat /\ slot["tail"] \in Nat /\ gen \in Nat
      /\ \A d \in Words : slot[d] \in Nat
      /\ wjob[w] \in [target : Nat, gen : Nat, todo : SUBSET Words]
  BY DEF SlotTypes, Locs
<1>1. UNCHANGED readerVars
  BY DEF Writes, BeginWrite, Panic, WriterStep, StoreWord, StoreTail, StoreHead, PoisonHead
<1>2. CASE BeginWrite(w)
  <2>1. /\ wpc[w] = "idle" /\ h % 2 = 0 /\ gen' = gen + 1 /\ done' = done /\ dirty' = dirty
        /\ slot' = [slot EXCEPT !["head"] = h + 1]
        /\ wjob' = [wjob EXCEPT ![w] = [target |-> h + 2, gen |-> gen + 1, todo |-> Words]]
        /\ wpc' = [wpc EXCEPT ![w] = "copy"]
    BY <1>2 DEF BeginWrite
  <2>2. slot'["head"] = h + 1 /\ slot'["head"] % 2 = 1 /\ \A d \in Words : slot'[d] = slot[d]
    BY <1>0, <2>1, Parity, Distinct DEF SlotTypes, Locs, WordsApart
  <2>3. \A v \in Writers : ~Active(v)
    BY <2>1, <1>0 DEF WriterOK
  <2>4. SlotTypes'
    BY <1>0, <2>1 DEF SlotTypes, Locs
  <2>5. /\ wpc'[w] = "copy" /\ wjob'[w] = [target |-> h + 2, gen |-> gen + 1, todo |-> Words]
        /\ \A v \in Writers : v # w => wpc'[v] = "idle"
    BY <2>1, <2>3 DEF SlotTypes, Active
  <2>6. WriterOK'
    BY <1>0, <2>1, <2>2, <2>5 DEF WriterOK, Active
  <2>7. SlotOK'
    BY <1>0, <2>1, <2>2 DEF SlotOK, Even
  <2>8. Grows
    BY <1>0, <2>1, <2>2 DEF Grows
  <2> QED
    BY <1>1, <2>1, <2>4, <2>6, <2>7, <2>8
<1>3. CASE StoreWord(w)
  <2>1. PICK d \in wjob[w].todo : /\ slot' = [slot EXCEPT ![d] = wjob[w].gen]
                                  /\ wjob' = [wjob EXCEPT ![w].todo = @ \ {d}]
    BY <1>3 DEF StoreWord
  <2>2. /\ wpc[w] = "copy" /\ gen' = gen /\ done' = done /\ dirty' = dirty
        /\ wpc' = [wpc EXCEPT ![w] = IF wjob'[w].todo = {} THEN "tail" ELSE "copy"]
    BY <1>3 DEF StoreWord
  <2>3. Active(w) /\ h % 2 = 1 /\ wjob[w].gen = gen /\ gen > 0 /\ wjob[w].target = h + 1
        /\ \A e \in Words \ wjob[w].todo : slot[e] = gen
    BY <2>2 DEF WriterOK, Active
  <2>4. d \in Words /\ slot'[d] = gen /\ \A e \in Locs : e # d => slot'[e] = slot[e]
    BY <1>0, <2>1, <2>3 DEF SlotTypes, Locs
  <2>5. slot'["head"] = h
    BY <2>4, Distinct DEF WordsApart, Locs
  <2>6. SlotTypes'
    BY <1>0, <2>1, <2>2 DEF SlotTypes, Locs
  <2>7. wjob'[w].gen = gen /\ wjob'[w].target = h + 1 /\ wjob'[w].todo = wjob[w].todo \ {d}
        /\ \A v \in Writers : v # w => wjob'[v] = wjob[v]
    BY <1>0, <2>1, <2>3 DEF SlotTypes
  <2>8. /\ wpc'[w] \in {"copy", "tail"} /\ (wpc'[w] # "copy" => wjob'[w].todo = {})
        /\ \A v \in Writers : v # w => wpc'[v] = wpc[v] /\ wpc[v] = "idle"
    BY <2>2, <2>3 DEF SlotTypes, WriterOK, Active
  <2>9. \A e \in Words \ wjob'[w].todo : slot'[e] = gen
    BY <2>3, <2>4, <2>7 DEF Locs
  <2>10. WriterOK'
    BY <2>2, <2>3, <2>5, <2>7, <2>8, <2>9 DEF WriterOK, Active
  <2>11. SlotOK'
    BY <1>0, <2>2, <2>3, <2>4, <2>5 DEF SlotOK, Even, Locs
  <2>12. Grows
    BY <1>0, <2>2, <2>3, <2>4, <2>5 DEF Grows, SlotOK, Even, Locs
  <2> QED
    BY <1>1, <2>2, <2>6, <2>10, <2>11, <2>12
<1>4. CASE StoreTail(w)
  <2>1. /\ wpc[w] = "tail" /\ gen' = gen /\ done' = done /\ dirty' = dirty /\ wjob' = wjob
        /\ slot' = [slot EXCEPT !["tail"] = wjob[w].target] /\ wpc' = [wpc EXCEPT ![w] = "head"]
    BY <1>4 DEF StoreTail
  <2>2. slot'["head"] = h /\ \A d \in Words : slot'[d] = slot[d]
    BY <2>1, Distinct DEF SlotTypes, Locs, WordsApart
  <2>3. SlotTypes'
    BY <1>0, <2>1 DEF SlotTypes, Locs
  <2>4. WriterOK'
    BY <2>1, <2>2 DEF WriterOK, Active, SlotTypes
  <2>5. SlotOK' /\ Grows
    BY <1>0, <2>1, <2>2 DEF SlotOK, Grows
  <2> QED
    BY <1>1, <2>1, <2>3, <2>4, <2>5
<1>5. CASE StoreHead(w)
  <2>1. /\ wpc[w] = "head" /\ gen' = gen /\ done' = done \cup {wjob[w].gen} /\ dirty' = dirty
        /\ slot' = [slot EXCEPT !["head"] = wjob[w].target]
        /\ wjob' = [wjob EXCEPT ![w] = NoJob] /\ wpc' = [wpc EXCEPT ![w] = "idle"]
    BY <1>5 DEF StoreHead
  <2>2. wjob[w].gen = gen /\ gen > 0 /\ wjob[w].target = h + 1 /\ \A d \in Words : slot[d] = gen
    BY <2>1 DEF WriterOK
  <2>3. slot'["head"] = h + 1 /\ \A d \in Words : slot'[d] = slot[d]
    BY <2>1, <2>2, Distinct DEF SlotTypes, Locs, WordsApart
  <2>4. \A v \in Writers : wpc'[v] = "idle"
    BY <2>1 DEF WriterOK, Active, SlotTypes
  <2>5. SlotTypes'
    BY <1>0, <2>1, <2>2 DEF SlotTypes, Locs, NoJob
  <2>6. WriterOK'
    BY <2>4 DEF WriterOK, Active
  <2>7. SlotOK'
    BY <1>0, <2>1, <2>2, <2>3 DEF SlotOK, SlotTypes
  <2>8. Grows
    BY <1>0, <2>1, <2>2, <2>3 DEF Grows
  <2> QED
    BY <1>1, <2>1, <2>5, <2>6, <2>7, <2>8
<1>6. CASE Panic(w)
  <2>1. /\ wpc[w] \in {"copy", "tail", "head"} /\ gen' = gen /\ done' = done /\ wjob' = wjob
        /\ dirty' = [r \in Readers |-> TRUE]
        /\ slot' = [slot EXCEPT !["tail"] = 0] /\ wpc' = [wpc EXCEPT ![w] = "unwind"]
    BY <1>6 DEF Panic
  <2>2. slot'["head"] = h /\ \A d \in Words : slot'[d] = slot[d]
    BY <2>1, Distinct DEF SlotTypes, Locs, WordsApart
  <2>3. SlotTypes'
    BY <1>0, <2>1 DEF SlotTypes, Locs
  <2>4. WriterOK'
    BY <2>1, <2>2 DEF WriterOK, Active, SlotTypes
  <2>5. SlotOK' /\ Poisons
    BY <2>1, <2>2 DEF SlotOK, Poisons
  <2> QED
    BY <1>1, <2>3, <2>4, <2>5
<1>7. CASE PoisonHead(w)
  <2>1. /\ wpc[w] = "unwind" /\ gen' = gen /\ done' = done
        /\ dirty' = [r \in Readers |-> TRUE] /\ wjob' = [wjob EXCEPT ![w] = NoJob]
        /\ slot' = [slot EXCEPT !["head"] = 0] /\ wpc' = [wpc EXCEPT ![w] = "idle"]
    BY <1>7 DEF PoisonHead
  <2>2. slot'["head"] = 0 /\ \A d \in Words : slot'[d] = slot[d]
    BY <2>1, Distinct DEF SlotTypes, Locs, WordsApart
  <2>3. SlotTypes'
    BY <1>0, <2>1 DEF SlotTypes, Locs, NoJob
  <2>4. \A v \in Writers : wpc'[v] = "idle"
    BY <2>1 DEF WriterOK, Active, SlotTypes
  <2>5. WriterOK'
    BY <2>4 DEF WriterOK, Active
  <2>6. SlotOK' /\ Poisons
    BY <2>1, <2>2 DEF SlotOK, Poisons, Even
  <2> QED
    BY <1>1, <2>3, <2>5, <2>6
<1> QED
  BY <1>2, <1>3, <1>4, <1>5, <1>6, <1>7 DEF Writes, WriterStep

\* A call in progress when nobody touches its reader, and a writer may.
LEMMA ReaderKept ==
  ASSUME SlotTypes, SlotTypes', CallTypes, NEW r \in Readers, ReaderOK(r), UNCHANGED readerVars,
         Poisons \/ (dirty' = dirty /\ Grows)
  PROVE  ReaderOK(r)'
<1>0. /\ Copy(snap1[r]) /\ Copy(snap2[r]) /\ floor[r] \in Nat /\ rver[r] \in Nat
      /\ gen \in Nat /\ gen' \in Nat
      /\ \A l \in Locs : slot[l] \in Nat /\ slot'[l] \in Nat
      /\ "head" \in Locs /\ Words \subseteq Locs
      /\ \A g \in done : g \in Nat
  BY DEF SlotTypes, CallTypes, Copies, Locs
<1>1. /\ rpc'[r] = rpc[r] /\ rver'[r] = rver[r] /\ snap1'[r] = snap1[r] /\ snap2'[r] = snap2[r]
      /\ result'[r] = result[r] /\ floor'[r] = floor[r]
      /\ (Returned(r)' <=> Returned(r))
  BY DEF readerVars, Returned
<1>2. /\ floor[r] <= gen
      /\ rpc[r] = "idle" => snap1[r] = Nothing /\ snap2[r] = Nothing
      /\ rpc[r] \in RemotePcs => /\ rpc[r] # "snap1" => DOMAIN snap1[r] = Locs
                                 /\ rpc[r] = "check" => DOMAIN snap2[r] = Locs
                                 /\ rpc[r] = "snap1" => snap2[r] = Nothing
  BY DEF ReaderOK, RemoteOK
<1>3. CASE Poisons
  <2>1. dirty'[r] = TRUE /\ gen' = gen
    BY <1>3 DEF Poisons
  <2> QED
    BY <1>1, <1>2, <2>1 DEF ReaderOK, LocalOK, RemoteOK
<1>4. CASE dirty' = dirty /\ Grows
  <2>1. CASE dirty[r]
    BY <1>0, <1>1, <1>2, <1>4, <2>1 DEF ReaderOK, LocalOK, RemoteOK, Grows
  <2>2. CASE ~dirty[r]
    <3>1. floor'[r] <= gen'
      BY <1>0, <1>1, <1>2, <1>4 DEF Grows
    <3>2. LocalOK(r)'
      BY <1>0, <1>1, <1>4, <2>2 DEF ReaderOK, LocalOK, Grows
    <3>3. ASSUME NEW c, Copy(c), Behind(c)
          PROVE  /\ \A d \in DOMAIN c \cap Words : c[d] <= slot'[d]
                 /\ "head" \in DOMAIN c => c["head"] <= slot'["head"]
      <4>1. \A l \in DOMAIN c : c[l] \in Nat
        BY <3>3 DEF Copy
      <4> QED
        BY <1>0, <1>4, <3>3, <4>1 DEF Behind, Grows
    <3>4. ASSUME NEW g \in done, Apart(r, g) PROVE g \in done' /\ Apart(r, g)'
      BY <1>0, <1>1, <1>4, <3>4 DEF Apart, Grows
    <3>5. RemoteOK(r)'
      <4>1. CASE rpc[r] \in RemotePcs
        <5>1. Behind(snap1[r])' /\ Behind(snap2[r])'
          <6>1. Behind(snap1[r]) /\ Behind(snap2[r])
            BY <2>2, <4>1 DEF ReaderOK, RemoteOK
          <6> QED
            BY <1>0, <1>1, <3>3, <6>1 DEF Behind
        <5>2. ASSUME "head" \in DOMAIN snap1[r], "head" \notin DOMAIN snap2[r],
                     Even(snap1[r]["head"]), snap1[r]["head"] = slot'["head"]
              PROVE  \A d \in DOMAIN snap2[r] \cap Words : snap2[r][d] = slot'[d]
          <6>1. snap1[r]["head"] <= slot["head"] /\ snap1[r]["head"] \in Nat
            BY <1>0, <2>2, <4>1, <5>2 DEF ReaderOK, RemoteOK, Behind, Copy
          <6>2. slot["head"] = slot'["head"]
            BY <1>0, <1>4, <5>2, <6>1 DEF Grows
          <6> QED
            BY <1>0, <1>4, <2>2, <4>1, <5>2, <6>2 DEF ReaderOK, RemoteOK, Grows
        <5>3. ASSUME "head" \in DOMAIN snap2[r], Even(snap2[r]["head"]), snap1[r]["head"] = snap2[r]["head"]
              PROVE  \E g \in done' : Apart(r, g)'
          <6>1. \E g \in done : Apart(r, g)
            BY <2>2, <4>1, <5>3 DEF ReaderOK, RemoteOK
          <6> QED
            BY <3>4, <6>1
        <5> QED
          BY <1>1, <1>2, <5>1, <5>2, <5>3 DEF RemoteOK
      <4>2. CASE rpc[r] \notin RemotePcs
        BY <1>1, <1>2, <4>2 DEF RemoteOK
      <4> QED
        BY <4>1, <4>2
    <3>6. Returned(r)' /\ ~dirty'[r] =>
            \E g \in done' : g >= floor'[r] /\ result'[r] = [w \in Words |-> g]
      BY <1>0, <1>1, <1>4, <2>2 DEF ReaderOK, Grows
    <3> QED
      BY <3>1, <3>2, <3>5, <3>6 DEF ReaderOK
  <2> QED
    BY <2>1, <2>2
<1> QED
  BY <1>3, <1>4

\* Readers do not disturb each other, nor the slot.
Same(q) ==
  /\ rpc'[q] = rpc[q] /\ rver'[q] = rver[q] /\ snap1'[q] = snap1[q] /\ snap2'[q] = snap2[q]
  /\ result'[q] = result[q] /\ floor'[q] = floor[q] /\ dirty'[q] = dirty[q]

LEMMA SameKept ==
  ASSUME NEW q \in Readers, ReaderOK(q), Same(q), UNCHANGED <<slot, gen, done>>
  PROVE  ReaderOK(q)'
<1>1. floor'[q] <= gen'
  BY DEF ReaderOK, Same
<1>2. LocalOK(q)'
  BY DEF ReaderOK, LocalOK, Same
<1>3. RemoteOK(q)'
  <2>1. \A g : Apart(q, g)' <=> Apart(q, g)
    BY DEF Apart, Same
  <2>2. (Behind(snap1[q])' <=> Behind(snap1[q])) /\ (Behind(snap2[q])' <=> Behind(snap2[q]))
    BY DEF Behind, Same
  <2> QED
    BY <2>1, <2>2 DEF ReaderOK, RemoteOK, Same
<1>4. Returned(q)' <=> Returned(q)
  BY DEF Returned, Same
<1> QED
  BY <1>1, <1>2, <1>3, <1>4 DEF ReaderOK, Same

Calls(r) == ReadNode(r) \/ GatherRow(r)

LEMMA ReaderAlone ==
  ASSUME CallTypes, DirtyTypes, NEW r \in Readers, Calls(r) \/ ReaderStep(r)
  PROVE  /\ UNCHANGED <<slot, writerVars>>
         /\ \A q \in Readers \ {r} : Same(q)
<1> USE DEF CallTypes, Copies, DirtyTypes, Same
<1>1. UNCHANGED <<slot, writerVars>>
  BY DEF Calls, ReadNode, GatherRow, Call, ReaderStep, LoadVersion, LoadWord, LoadTail, ReloadHead,
         LandFirst, LandSecond, ValidateRow
<1>2. CASE ReadNode(r)
  BY <1>2 DEF ReadNode, Call
<1>3. CASE GatherRow(r)
  BY <1>3 DEF GatherRow, Call
<1>10. \A x : Return(r, x) /\ UNCHANGED <<floor, dirty>> => \A q \in Readers \ {r} : Same(q)
  <2> SUFFICES ASSUME NEW x, Return(r, x), UNCHANGED <<floor, dirty>>, NEW q \in Readers \ {r}
               PROVE  Same(q)
    OBVIOUS
  <2>1. snap1'[q] = snap1[q]
    BY DEF Return
  <2>2. snap2'[q] = snap2[q]
    BY DEF Return
  <2>3. rpc'[q] = rpc[q] /\ rver'[q] = rver[q] /\ result'[q] = result[q]
    BY DEF Return
  <2> QED
    BY <2>1, <2>2, <2>3
<1>4. CASE LoadVersion(r)
  BY <1>4, <1>10 DEF LoadVersion
<1>5. CASE LoadWord(r) \/ LoadTail(r)
  BY <1>5 DEF LoadWord, LoadTail
<1>6. CASE ReloadHead(r)
  BY <1>6, <1>10 DEF ReloadHead
<1>7. CASE LandFirst(r) \/ LandSecond(r)
  BY <1>7 DEF LandFirst, LandSecond
<1>8. CASE ValidateRow(r)
  BY <1>8, <1>10 DEF ValidateRow
<1> QED
  BY <1>1, <1>2, <1>3, <1>4, <1>5, <1>6, <1>7, <1>8 DEF Calls, ReaderStep

\* The newest published generation, or 0.
LEMMA NewestIs ==
  ASSUME SlotTypes, SlotOK
  PROVE  Newest \in Nat /\ Newest <= gen
<1>1. done \subseteq 1 .. gen /\ gen \in Nat
  BY DEF SlotTypes
<1>2. CASE done = {}
  BY <1>1, <1>2 DEF Newest
<1>3. CASE done # {}
  <2>1. Newest \in done
    BY <1>3 DEF Newest, SlotOK
  <2> QED
    BY <1>1, <2>1
<1> QED
  BY <1>2, <1>3

LEMMA CallMoves ==
  ASSUME SlotTypes, CallTypes, DirtyTypes, SlotOK, NEW r \in Readers, ReaderOK(r), Calls(r)
  PROVE  CallTypes' /\ DirtyTypes' /\ ReaderOK(r)'
<1>0. Newest \in Nat /\ Newest <= gen
  BY NewestIs
<1>1. /\ rpc[r] = "idle"
      /\ \E pc \in {"start", "snap1"} : rpc' = [rpc EXCEPT ![r] = pc]
      /\ floor' = [floor EXCEPT ![r] = Newest] /\ dirty' = [dirty EXCEPT ![r] = FALSE]
      /\ result' = [result EXCEPT ![r] = Nothing]
      /\ UNCHANGED <<slot, rver, snap1, snap2, gen, done>>
  BY DEF Calls, ReadNode, GatherRow, Call, writerVars
<1>2. rpc'[r] \in {"start", "snap1"} /\ floor'[r] = Newest
  BY <1>1 DEF CallTypes
<1>3. CallTypes'
  BY <1>0, <1>1 DEF CallTypes, Copies, LocalPcs, RemotePcs
<1>4. DirtyTypes'
  BY <1>1 DEF DirtyTypes
<1>5. snap1'[r] = Nothing /\ snap2'[r] = Nothing
  BY <1>1 DEF ReaderOK, RemoteOK
<1>6. RemoteOK(r)'
  <2>1. Behind(snap1[r])' /\ Behind(snap2[r])'
    BY <1>5, NoCopy DEF Behind
  <2> QED
    BY <1>2, <1>5, <2>1, NoCopy DEF RemoteOK, RemotePcs
<1> QED
  BY <1>0, <1>1, <1>2, <1>3, <1>4, <1>6 DEF ReaderOK, LocalOK, Returned

LEMMA Returns ==
  ASSUME CallTypes, NEW r \in Readers, NEW row, Return(r, row)
  PROVE  /\ rpc'[r] = "idle" /\ result'[r] = row
         /\ snap1'[r] = Nothing /\ snap2'[r] = Nothing
         /\ UNCHANGED floor => CallTypes'
<1>1. rpc'[r] = "idle" /\ result'[r] = row /\ snap1'[r] = Nothing /\ snap2'[r] = Nothing
  BY DEF CallTypes, Copies, Return
<1>2. Copies(snap1') /\ Copies(snap2')
  <2>1. \A q \in Readers : Copy(snap1[q]) /\ Copy(snap2[q])
    BY DEF CallTypes, Copies
  <2>2. snap1' = [q \in Readers |-> IF q = r THEN Nothing ELSE snap1[q]]
    BY DEF CallTypes, Copies, Return
  <2>3. snap2' = [q \in Readers |-> IF q = r THEN Nothing ELSE snap2[q]]
    BY DEF CallTypes, Copies, Return
  <2> QED
    BY <2>1, <2>2, <2>3, NoCopy DEF Copies
<1>3. result' = [q \in Readers |-> result'[q]]
  BY DEF CallTypes, Return
<1>4. UNCHANGED floor => CallTypes'
  BY <1>2, <1>3 DEF CallTypes, Copies, Return
<1> QED
  BY <1>1, <1>4

\* A reader that has returned owes only its row.
LEMMA Idle ==
  ASSUME NEW r \in Readers, rpc'[r] = "idle", snap1'[r] = Nothing, snap2'[r] = Nothing,
         floor'[r] <= gen',
         result'[r] # Nothing /\ ~dirty'[r] =>
           \E g \in done' : g >= floor'[r] /\ result'[r] = [w \in Words |-> g]
  PROVE  ReaderOK(r)'
BY DEF ReaderOK, LocalOK, RemoteOK, RemotePcs, Returned

\* A local read, step by step.
LEMMA LocalMoves ==
  ASSUME SlotTypes, CallTypes, DirtyTypes, SlotOK, NEW r \in Readers, ReaderOK(r),
         LoadVersion(r) \/ LoadWord(r) \/ LoadTail(r) \/ ReloadHead(r)
  PROVE  CallTypes' /\ DirtyTypes' /\ ReaderOK(r)'
<1>0. /\ UNCHANGED <<slot, floor, dirty, gen, done>> /\ floor[r] <= gen /\ floor[r] \in Nat
      /\ DirtyTypes' /\ slot["head"] \in Nat /\ Copy(snap1[r])
      /\ rpc[r] \in {"start", "copy", "tail", "head"}
  BY DEF LoadVersion, LoadWord, LoadTail, ReloadHead, writerVars, ReaderOK, CallTypes, SlotTypes, Locs,
         DirtyTypes, Copies
<1>1. CASE LoadVersion(r) /\ Return(r, Nothing)
  <2>1. rpc'[r] = "idle" /\ result'[r] = Nothing /\ snap1'[r] = Nothing /\ snap2'[r] = Nothing /\ CallTypes'
    BY <1>0, <1>1, Returns
  <2> QED
    BY <1>0, <2>1, Idle
<1>2. CASE LoadVersion(r) /\ ~Return(r, Nothing)
  <2>1. /\ Even(slot["head"])
        /\ rver' = [rver EXCEPT ![r] = slot["head"]] /\ snap1' = [snap1 EXCEPT ![r] = Nothing]
        /\ rpc' = [rpc EXCEPT ![r] = "copy"] /\ UNCHANGED <<snap2, result>>
    BY <1>2 DEF LoadVersion, Even
  <2>2. rpc'[r] = "copy" /\ rver'[r] = slot["head"] /\ snap1'[r] = Nothing
    BY <2>1 DEF CallTypes, Copies
  <2>3. CallTypes'
    BY <1>0, <2>1, NoCopy DEF CallTypes, Copies, LocalPcs
  <2>4. LocalOK(r)' /\ RemoteOK(r)' /\ ~Returned(r)'
    BY <1>0, <2>1, <2>2, NoCopy DEF LocalOK, RemoteOK, RemotePcs, Returned
  <2> QED
    BY <1>0, <2>3, <2>4 DEF ReaderOK
<1>3. CASE LoadWord(r)
  <2>1. PICK d \in Words \ DOMAIN snap1[r] :
          snap1' = [snap1 EXCEPT ![r] = [l \in DOMAIN snap1[r] \cup {d} |->
                                           IF l = d THEN slot[d] ELSE snap1[r][l]]]
    BY <1>3 DEF LoadWord, CallTypes, Copies
  <2>2. /\ snap1'[r] = Land(snap1[r], d)
        /\ rpc[r] = "copy" /\ UNCHANGED <<rver, snap2, result>>
        /\ rpc' = [rpc EXCEPT ![r] = IF DOMAIN snap1'[r] = Words THEN "tail" ELSE "copy"]
    BY <1>3, <2>1 DEF LoadWord, CallTypes, Copies, Land
  <2>3. /\ Copy(snap1'[r]) /\ DOMAIN snap1'[r] = DOMAIN snap1[r] \cup {d} /\ snap1'[r][d] = slot[d]
        /\ \A k \in DOMAIN snap1[r] : k # d => snap1'[r][k] = snap1[r][k]
    <3>1. d \in Locs /\ slot \in [Locs -> Nat]
      BY DEF SlotTypes, Locs
    <3>2. Landed(snap1'[r], snap1[r], d)
      BY <1>0, <2>2, <3>1, Landing
    <3> QED
      BY <3>2 DEF Landed
  <2>4. rpc'[r] \in {"copy", "tail"} /\ (rpc'[r] # "copy" => DOMAIN snap1'[r] = Words)
    BY <2>2 DEF CallTypes
  <2>5. CallTypes'
    <3>1. \A q \in Readers : q # r => snap1'[q] = snap1[q]
      BY <2>1 DEF CallTypes, Copies
    <3>2. Copies(snap1')
      BY <2>1, <2>3, <3>1 DEF CallTypes, Copies
    <3> QED
      BY <1>0, <2>2, <3>2 DEF CallTypes, LocalPcs, Copies
  <2>6. LocalOK(r)'
    <3>1. /\ ~dirty[r] => DOMAIN snap1'[r] \subseteq Words
          /\ rver'[r] = rver[r] /\ dirty'[r] = dirty[r] /\ slot' = slot
      BY <1>0, <2>2, <2>3 DEF ReaderOK, LocalOK
    <3>2. ~dirty[r] => Even(rver[r]) /\ rver[r] <= slot["head"]
      BY <2>2 DEF ReaderOK, LocalOK
    <3>3. ~dirty[r] /\ slot["head"] = rver[r] => \A k \in DOMAIN snap1'[r] : snap1'[r][k] = slot[k]
      BY <2>2, <2>3 DEF ReaderOK, LocalOK
    <3> QED
      BY <2>4, <3>1, <3>2, <3>3 DEF LocalOK
  <2>7. RemoteOK(r)' /\ ~Returned(r)'
    BY <2>4 DEF RemoteOK, RemotePcs, Returned
  <2> QED
    BY <1>0, <2>5, <2>6, <2>7 DEF ReaderOK
<1>4. CASE LoadTail(r) \/ (ReloadHead(r) /\ slot["head"] # rver[r])
  <2>1. /\ rpc[r] \in {"tail", "head"} /\ UNCHANGED <<rver, snap1, snap2, result>>
        /\ \E pc \in {"head", "start"} : rpc' = [rpc EXCEPT ![r] = pc]
    BY <1>4 DEF LoadTail, ReloadHead
  <2>2. rpc'[r] \in {"head", "start"}
    BY <2>1 DEF CallTypes
  <2>3. CallTypes'
    BY <1>0, <2>1 DEF CallTypes, Copies, LocalPcs
  <2>4. LocalOK(r)'
    BY <1>0, <2>1, <2>2 DEF ReaderOK, LocalOK
  <2>5. RemoteOK(r)' /\ ~Returned(r)'
    BY <2>2 DEF RemoteOK, RemotePcs, Returned
  <2> QED
    BY <1>0, <2>3, <2>4, <2>5 DEF ReaderOK
<1>5. CASE ReloadHead(r) /\ slot["head"] = rver[r]
  <2>1. rpc[r] = "head" /\ Return(r, Row(snap1[r]))
    BY <1>5 DEF ReloadHead
  <2>2. rpc'[r] = "idle" /\ result'[r] = Row(snap1[r]) /\ snap1'[r] = Nothing /\ snap2'[r] = Nothing
        /\ CallTypes'
    BY <1>0, <2>1, Returns
  <2>3. ASSUME ~dirty'[r] PROVE gen \in done /\ Row(snap1[r]) = [w \in Words |-> gen]
    <3>1. Even(slot["head"]) /\ DOMAIN snap1[r] = Words
          /\ \A d \in DOMAIN snap1[r] : snap1[r][d] = slot[d]
      BY <1>0, <1>5, <2>1, <2>3 DEF ReaderOK, LocalOK
    <3>2. gen \in done /\ \A d \in Words : slot[d] = gen
      BY <3>1 DEF SlotOK
    <3> QED
      BY <3>1, <3>2 DEF Row
  <2> QED
    BY <1>0, <2>2, <2>3, Idle DEF SlotTypes
<1> QED
  BY <1>1, <1>2, <1>3, <1>4, <1>5

\* A remote read, step by step.
LEMMA FirstMoves ==
  ASSUME SlotTypes, CallTypes, DirtyTypes, SlotOK, NEW r \in Readers, ReaderOK(r), LandFirst(r)
  PROVE  CallTypes' /\ DirtyTypes' /\ ReaderOK(r)'
<1>0. /\ UNCHANGED <<slot, floor, dirty, gen, done, rver, snap2, result>> /\ floor[r] <= gen
      /\ DirtyTypes' /\ Copy(snap1[r]) /\ rpc[r] = "snap1" /\ slot \in [Locs -> Nat]
  BY DEF LandFirst, writerVars, ReaderOK, CallTypes, SlotTypes, DirtyTypes, Copies
<1>1. PICK l \in Locs \ DOMAIN snap1[r] : snap1' = [snap1 EXCEPT ![r] = Land(snap1[r], l)]
  BY DEF LandFirst, CallTypes, Copies
<1>2. /\ rpc' = [rpc EXCEPT ![r] = IF DOMAIN snap1'[r] = Locs THEN "snap2" ELSE "snap1"]
      /\ snap1'[r] = Land(snap1[r], l)
  BY <1>1 DEF LandFirst, CallTypes, Copies
<1>3. /\ Copy(snap1'[r]) /\ DOMAIN snap1'[r] = DOMAIN snap1[r] \cup {l} /\ snap1'[r][l] = slot[l]
      /\ \A k \in DOMAIN snap1[r] : k # l => snap1'[r][k] = snap1[r][k]
  <2>1. Landed(snap1'[r], snap1[r], l)
    BY <1>0, <1>2, Landing
  <2> QED
    BY <2>1 DEF Landed
<1>4. rpc'[r] \in {"snap1", "snap2"} /\ (rpc'[r] = "snap2" => DOMAIN snap1'[r] = Locs)
  BY <1>2 DEF CallTypes
<1>5. CallTypes'
  <2>1. \A q \in Readers : q # r => snap1'[q] = snap1[q]
    BY <1>1 DEF CallTypes, Copies
  <2>2. Copies(snap1')
    BY <1>1, <1>3, <2>1 DEF CallTypes, Copies
  <2> QED
    BY <1>0, <1>2, <2>2 DEF CallTypes, RemotePcs, Copies
<1>6. snap2[r] = Nothing /\ DOMAIN snap2[r] = {}
  BY <1>0, NoCopy DEF ReaderOK, RemoteOK, RemotePcs
<1>7. ASSUME ~dirty[r] PROVE Behind(snap1[r])' /\ Behind(snap2[r])'
  <2>1. Behind(snap1[r])
    BY <1>0, <1>7 DEF ReaderOK, RemoteOK, RemotePcs
  <2>2. \A k \in Locs : slot[k] <= slot[k]
    BY <1>0
  <2>3. Behind(snap1[r])'
    BY <1>0, <1>3, <2>1, <2>2 DEF Behind, Copy
  <2> QED
    BY <1>0, <1>6, <2>3 DEF Behind
<1>8. LocalOK(r)' /\ ~Returned(r)'
  BY <1>4 DEF LocalOK, Returned
<1>9. RemoteOK(r)'
  BY <1>0, <1>4, <1>6, <1>7 DEF RemoteOK
<1> QED
  BY <1>0, <1>5, <1>8, <1>9 DEF ReaderOK

LEMMA SecondMoves ==
  ASSUME SlotTypes, CallTypes, DirtyTypes, SlotOK, NEW r \in Readers, ReaderOK(r), LandSecond(r)
  PROVE  CallTypes' /\ DirtyTypes' /\ ReaderOK(r)'
<1>0. /\ UNCHANGED <<slot, floor, dirty, gen, done, rver, snap1, result>> /\ floor[r] <= gen
      /\ DirtyTypes' /\ Copy(snap1[r]) /\ Copy(snap2[r]) /\ rpc[r] = "snap2" /\ slot \in [Locs -> Nat]
      /\ floor[r] \in Nat /\ gen \in Nat
  BY DEF LandSecond, writerVars, ReaderOK, CallTypes, SlotTypes, DirtyTypes, Copies
<1>1. PICK l \in Locs \ DOMAIN snap2[r] : snap2' = [snap2 EXCEPT ![r] = Land(snap2[r], l)]
  BY DEF LandSecond, CallTypes, Copies
<1>2. /\ rpc' = [rpc EXCEPT ![r] = IF DOMAIN snap2'[r] = Locs THEN "check" ELSE "snap2"]
      /\ snap2'[r] = Land(snap2[r], l)
  BY <1>1 DEF LandSecond, CallTypes, Copies
<1>3. /\ Copy(snap2'[r]) /\ DOMAIN snap2'[r] = DOMAIN snap2[r] \cup {l} /\ snap2'[r][l] = slot[l]
      /\ \A k \in DOMAIN snap2[r] : k # l => snap2'[r][k] = snap2[r][k]
  <2>1. Landed(snap2'[r], snap2[r], l)
    BY <1>0, <1>2, Landing
  <2> QED
    BY <2>1 DEF Landed
<1>4. rpc'[r] \in {"snap2", "check"} /\ (rpc'[r] = "check" => DOMAIN snap2'[r] = Locs)
  BY <1>2 DEF CallTypes
<1>5. CallTypes'
  <2>1. \A q \in Readers : q # r => snap2'[q] = snap2[q]
    BY <1>1 DEF CallTypes, Copies
  <2>2. Copies(snap2')
    BY <1>1, <1>3, <2>1 DEF CallTypes, Copies
  <2> QED
    BY <1>0, <1>2, <2>2 DEF CallTypes, RemotePcs, Copies
<1>6. DOMAIN snap1[r] = Locs /\ "head" \in Locs /\ Words \subseteq Locs
  BY <1>0 DEF ReaderOK, RemoteOK, RemotePcs, Locs
<1>7. ASSUME ~dirty[r]
      PROVE  /\ Behind(snap1[r])' /\ Behind(snap2[r])'
             /\ /\ "head" \notin DOMAIN snap2'[r]
                /\ Even(snap1[r]["head"]) /\ snap1[r]["head"] = slot["head"]
                => \A d \in DOMAIN snap2'[r] \cap Words : snap2'[r][d] = slot[d]
             /\ /\ "head" \in DOMAIN snap2'[r]
                /\ Even(snap2'[r]["head"]) /\ snap1[r]["head"] = snap2'[r]["head"]
                => \E g \in done : Apart(r, g)'
  <2>1. /\ Behind(snap1[r]) /\ Behind(snap2[r])
        /\ /\ "head" \notin DOMAIN snap2[r]
           /\ Even(snap1[r]["head"]) /\ snap1[r]["head"] = slot["head"]
           => \A d \in DOMAIN snap2[r] \cap Words : snap2[r][d] = slot[d]
        /\ /\ "head" \in DOMAIN snap2[r]
           /\ Even(snap2[r]["head"]) /\ snap1[r]["head"] = snap2[r]["head"]
           => \E g \in done : Apart(r, g)
    BY <1>0, <1>6, <1>7 DEF ReaderOK, RemoteOK, RemotePcs
  <2>2. \A k \in Locs : slot[k] <= slot[k]
    BY <1>0
  <2>3. Behind(snap1[r])' /\ Behind(snap2[r])'
    BY <1>0, <1>3, <2>1, <2>2 DEF Behind, Copy
  <2>4. ASSUME "head" \notin DOMAIN snap2'[r], Even(snap1[r]["head"]), snap1[r]["head"] = slot["head"]
        PROVE  \A d \in DOMAIN snap2'[r] \cap Words : snap2'[r][d] = slot[d]
    BY <1>3, <2>1, <2>4
  <2>5. ASSUME "head" \in DOMAIN snap2'[r], Even(snap2'[r]["head"]),
               snap1[r]["head"] = snap2'[r]["head"]
        PROVE  \E g \in done : Apart(r, g)'
    <3>1. CASE l = "head"
      <4>1. slot["head"] = snap2'[r]["head"] /\ "head" \notin DOMAIN snap2[r]
        BY <1>3, <3>1
      <4>2. gen \in done /\ \A d \in Words : slot[d] = gen
        BY <2>5, <4>1 DEF SlotOK
      <4>3. \A d \in Words : snap1[r][d] <= slot[d]
        BY <1>6, <2>1 DEF Behind
      <4>4. \A d \in DOMAIN snap2'[r] \cap Words : snap2'[r][d] = slot[d]
        BY <1>3, <2>1, <2>5, <3>1, <4>1, Distinct DEF WordsApart
      <4> QED
        BY <1>0, <4>2, <4>3, <4>4 DEF Apart
    <3>2. CASE l # "head"
      <4>1. PICK g \in done : Apart(r, g)
        BY <1>3, <2>1, <2>5, <3>2
      <4>2. Apart(r, g)'
        BY <1>0, <1>3, <4>1 DEF Apart
      <4> QED
        BY <4>2
    <3> QED
      BY <3>1, <3>2
  <2> QED
    BY <2>3, <2>4, <2>5
<1>8. LocalOK(r)' /\ ~Returned(r)'
  BY <1>4 DEF LocalOK, Returned
<1>9. RemoteOK(r)'
  BY <1>0, <1>4, <1>6, <1>7 DEF RemoteOK
<1> QED
  BY <1>0, <1>5, <1>8, <1>9 DEF ReaderOK

LEMMA CheckMoves ==
  ASSUME SlotTypes, CallTypes, DirtyTypes, NEW r \in Readers, ReaderOK(r), ValidateRow(r)
  PROVE  CallTypes' /\ DirtyTypes' /\ ReaderOK(r)'
<1>0. /\ UNCHANGED <<slot, floor, dirty, gen, done>> /\ floor[r] <= gen
      /\ DirtyTypes' /\ rpc[r] = "check"
  BY DEF ValidateRow, writerVars, ReaderOK, DirtyTypes
<1>1. CASE Return(r, Nothing)
  <2>1. rpc'[r] = "idle" /\ result'[r] = Nothing /\ snap1'[r] = Nothing /\ snap2'[r] = Nothing /\ CallTypes'
    BY <1>0, <1>1, Returns
  <2> QED
    BY <1>0, <2>1, Idle
<1>2. CASE /\ rpc' = [rpc EXCEPT ![r] = "snap1"] /\ UNCHANGED <<rver, result>>
           /\ snap1' = [snap1 EXCEPT ![r] = Nothing] /\ snap2' = [snap2 EXCEPT ![r] = Nothing]
  <2>1. rpc'[r] = "snap1" /\ snap1'[r] = Nothing /\ snap2'[r] = Nothing
    BY <1>2 DEF CallTypes, Copies
  <2>2. CallTypes'
    <3>1. Copies(snap1') /\ Copies(snap2')
      BY <1>2, NoCopy DEF CallTypes, Copies
    <3> QED
      BY <1>0, <1>2, <3>1 DEF CallTypes, RemotePcs, Copies
  <2>3. Behind(snap1[r])' /\ Behind(snap2[r])'
    BY <2>1, NoCopy DEF Behind
  <2>4. RemoteOK(r)' /\ LocalOK(r)' /\ ~Returned(r)'
    BY <2>1, <2>3, NoCopy DEF RemoteOK, LocalOK, Returned
  <2> QED
    BY <1>0, <2>2, <2>4 DEF ReaderOK
<1>3. CASE Accept(snap1[r], snap2[r]) /\ Return(r, Row(snap1[r]))
  <2>1. rpc'[r] = "idle" /\ result'[r] = Row(snap1[r]) /\ snap1'[r] = Nothing /\ snap2'[r] = Nothing
        /\ CallTypes'
    BY <1>0, <1>3, Returns
  <2>2. ASSUME ~dirty'[r]
        PROVE  \E g \in done : g >= floor[r] /\ Row(snap1[r]) = [w \in Words |-> g]
    <3>1. DOMAIN snap1[r] = Locs /\ DOMAIN snap2[r] = Locs /\ Words \subseteq Locs /\ "head" \in Locs
      BY <1>0 DEF ReaderOK, RemoteOK, RemotePcs, Locs
    <3>2. /\ snap1[r]["head"] = snap2[r]["head"] /\ Even(snap2[r]["head"])
          /\ Row(snap1[r]) = Row(snap2[r])
      BY <1>3 DEF Accept, Even
    <3>3. PICK g \in done : Apart(r, g)
      BY <1>0, <2>2, <3>1, <3>2 DEF ReaderOK, RemoteOK, RemotePcs
    <3>4. ASSUME NEW d \in Words PROVE snap1[r][d] = g
      <4>1. snap1[r][d] = snap2[r][d]
        BY <3>2 DEF Row
      <4>2. snap1[r][d] \in Nat /\ g \in Nat /\ snap1[r][d] <= g /\ g <= snap2[r][d]
        BY <3>1, <3>3 DEF Apart, CallTypes, Copies, Copy, SlotTypes
      <4> QED
        BY <4>1, <4>2
    <3>5. Row(snap1[r]) = [w \in Words |-> g]
      BY <3>4 DEF Row
    <3> QED
      BY <3>3, <3>5 DEF Apart
  <2> QED
    BY <1>0, <2>1, <2>2, Idle
<1> QED
  BY <1>1, <1>2, <1>3 DEF ValidateRow

LEMMA TableStep == TableInv /\ [TableNext]_tvars => TableInv'
<1> SUFFICES ASSUME TableInv, [TableNext]_tvars PROVE TableInv'
  OBVIOUS
<1>0. SlotTypes /\ CallTypes /\ DirtyTypes /\ WriterOK /\ SlotOK /\ \A r \in Readers : ReaderOK(r)
  BY TableTypes DEF TableInv
<1> SUFFICES SlotTypes' /\ CallTypes' /\ DirtyTypes' /\ WriterOK' /\ SlotOK' /\ \A r \in Readers : ReaderOK(r)'
  BY DEF TableInv, TableTypeOK, SlotTypes, CallTypes, DirtyTypes
<1>1. CASE UNCHANGED tvars
  <2>1. \A r \in Readers : ReaderOK(r)'
    BY <1>0, <1>1, SameKept DEF tvars, Same
  <2>2. SlotTypes' /\ WriterOK' /\ SlotOK'
    BY <1>0, <1>1 DEF tvars, SlotTypes, WriterOK, SlotOK, Active
  <2>3. CallTypes' /\ DirtyTypes'
    BY <1>0, <1>1 DEF tvars, CallTypes, DirtyTypes
  <2> QED
    BY <2>1, <2>2, <2>3
<1>2. ASSUME NEW w \in Writers, Writes(w)
      PROVE  SlotTypes' /\ CallTypes' /\ DirtyTypes' /\ WriterOK' /\ SlotOK' /\ \A r \in Readers : ReaderOK(r)'
  <2>1. /\ SlotTypes' /\ WriterOK' /\ SlotOK' /\ UNCHANGED readerVars
        /\ Poisons \/ (dirty' = dirty /\ Grows)
    BY <1>0, <1>2, WriterMoves
  <2>2. CallTypes'
    BY <1>0, <2>1 DEF readerVars, CallTypes
  <2>3. DirtyTypes'
    BY <1>0, <1>2 DEF DirtyTypes, Writes, BeginWrite, Panic, WriterStep, StoreWord, StoreTail, StoreHead,
                      PoisonHead
  <2>4. \A r \in Readers : ReaderOK(r)'
    BY <1>0, <2>1, ReaderKept
  <2> QED
    BY <2>1, <2>2, <2>3, <2>4
<1>3. ASSUME NEW r \in Readers, Calls(r) \/ ReaderStep(r)
      PROVE  SlotTypes' /\ CallTypes' /\ DirtyTypes' /\ WriterOK' /\ SlotOK' /\ \A q \in Readers : ReaderOK(q)'
  <2>1. UNCHANGED <<slot, writerVars>> /\ \A q \in Readers \ {r} : Same(q)
    BY <1>0, <1>3, ReaderAlone
  <2>2. SlotTypes' /\ WriterOK' /\ SlotOK'
    BY <1>0, <2>1 DEF writerVars, SlotTypes, WriterOK, SlotOK, Active
  <2>3. CallTypes' /\ DirtyTypes' /\ ReaderOK(r)'
    BY <1>0, <1>3, CallMoves, LocalMoves, FirstMoves, SecondMoves, CheckMoves DEF ReaderStep
  <2>4. \A q \in Readers \ {r} : ReaderOK(q)'
    BY <1>0, <2>1, SameKept DEF writerVars
  <2> QED
    BY <2>2, <2>3, <2>4
<1> QED
  BY <1>1, <1>2, <1>3 DEF TableNext, Writes, Calls

LEMMA TableStart == TableInit => TableInv
<1> SUFFICES ASSUME TableInit PROVE TableInv
  OBVIOUS
<1>1. TableTypeOK
  <2>1. SlotTypes
    BY DEF TableInit, SlotTypes, NoJob
  <2>2. Copies(snap1) /\ Copies(snap2)
    BY NoCopy DEF TableInit, Copies
  <2>3. CallTypes
    BY <2>2 DEF TableInit, CallTypes
  <2>4. DirtyTypes
    BY DEF TableInit, DirtyTypes
  <2> QED
    BY <2>1, <2>3, <2>4, TableTypes
<1>2. /\ slot["head"] = 0 /\ gen = 0 /\ done = {} /\ \A d \in Words : slot[d] = 0
      /\ \A w \in Writers : wpc[w] = "idle"
      /\ \A r \in Readers : /\ rpc[r] = "idle" /\ snap1[r] = Nothing /\ snap2[r] = Nothing
                            /\ floor[r] = 0 /\ result[r] = Nothing
  BY DEF TableInit, Locs
<1>3. WriterOK /\ SlotOK
  BY <1>2 DEF WriterOK, SlotOK, Active, Even
<1>4. \A r \in Readers : ReaderOK(r)
  BY <1>2 DEF ReaderOK, LocalOK, RemoteOK, RemotePcs, Returned
<1> QED
  BY <1>1, <1>3, <1>4 DEF TableInv

\* The table's state is well formed, and one writer at a time holds the slot.
THEOREM TableTypeCorrect == TableSpec => [](TableTypeOK /\ WriterOK)
<1>1. TableInv => TableTypeOK /\ WriterOK
  BY DEF TableInv
<1> QED
  BY <1>1, TableStart, TableStep, PTL DEF TableSpec

\* A row read_node or a remote gather accepts is the payload of one published
\* write, at least as new as the newest when the call began, for any number of
\* writers, readers, words, retries and panics.
THEOREM AcceptedIsOneWriteAlways == TableSpec => []AcceptedIsOneWrite
<1>1. TableInv => AcceptedIsOneWrite
  BY DEF TableInv, AcceptedIsOneWrite, ReaderOK
<1> QED
  BY <1>1, TableStart, TableStep, PTL DEF TableSpec

-----------------------------------------------------------------------------
(* The SRD gather.                                                          *)

Read == [tag : Nat, row : Slots, snap : 1..2, round : Nat, call : Nat]
Done == [tag : Nat, row : Slots, ok : BOOLEAN]
Source == [call : Nat, round : Nat]

SrdTypeOK ==
  /\ phase \in {"idle", "post", "drain", "check"} /\ cursor \in Shards /\ snap \in 1..2
  /\ reread \in Nat /\ call \in Nat
  /\ wanted \in [Shards -> SUBSET Slots] /\ rows \in [Shards -> SUBSET Slots]
  /\ posted \in [Shards -> Nat] /\ tag \in [Shards -> Nat]
  /\ outcome \in {"none", "refused", "err", "ok"}
  /\ wire \in [Shards -> SUBSET Read] /\ cq \in [Shards -> SUBSET Done]
  /\ buf \in [Shards -> [1..2 -> [Slots -> Source]]]

SrdFlagsOK ==
  /\ bad \in BOOLEAN /\ forced \in BOOLEAN
  /\ failed \in [Shards -> BOOLEAN] /\ poisoned \in [Shards -> BOOLEAN]
  /\ qpErr \in [Shards -> BOOLEAN]

\* Completions of the shard's last post that are not reaped yet.
Back(s) == {c \in cq[s] : c.tag = tag[s]}
Quiet(s) == wire[s] = {} /\ Back(s) = {}
GivenUp(s) == poisoned[s] /\ failed[s]

\* What the device holds is finite, and no newer than the last post.
DeviceOK(s) ==
  /\ IsFiniteSet(wire[s]) /\ IsFiniteSet(cq[s])
  /\ \A rd \in wire[s] : rd.tag <= tag[s]
  /\ \A c \in cq[s] : c.tag <= tag[s]

\* The drain waits for every READ it posted.
Counted(s) == Cardinality(wire[s]) + Cardinality(Back(s)) <= posted[s]

\* During a call only the READs of the present round and snapshot are out.
Current(s) == \A rd \in wire[s] :
  /\ rd.tag = tag[s] /\ rd.snap = snap /\ rd.round = reread /\ rd.call = call
  /\ rd.row \in rows[s]

\* The region's row was written by the present round.
Written(s, g, i) == buf[s][g][i] = [call |-> call, round |-> reread]
AllWritten(s, g) == \A i \in rows[s] : Written(s, g, i)

\* Every row is written, still out, or its READ has failed.
Heard(s, i) ==
  \/ Written(s, snap, i)
  \/ \E rd \in wire[s] : rd.row = i
  \/ \E c \in Back(s) : ~c.ok
Answered(s) == \A i \in rows[s] : Heard(s, i)

\* Both regions of the row hold bytes of one round of this call.
Whole(s, i) == buf[s][1][i].call = call /\ buf[s][2][i] = buf[s][1][i]

Drains(s) == Counted(s) /\ (bad \/ Answered(s))
HasDrained(s) == \/ Quiet(s) /\ (bad \/ AllWritten(s, snap))
                 \/ GivenUp(s) /\ bad

ShardOK(s) ==
  /\ DeviceOK(s)
  /\ phase = "idle" => Quiet(s) \/ GivenUp(s)
  /\ outcome = "ok" => wire[s] = {} /\ \A i \in wanted[s] : Whole(s, i)
  /\ phase # "idle" =>
       /\ Current(s) /\ rows[s] \subseteq wanted[s]
       /\ snap = 2 => AllWritten(s, 1)
       /\ \A i \in wanted[s] \ rows[s] : Whole(s, i)
  /\ phase = "post" => IF s < cursor THEN Drains(s) ELSE Quiet(s)
  /\ phase = "drain" => IF s < cursor THEN HasDrained(s) ELSE Drains(s)
  /\ phase = "check" => Quiet(s) /\ snap = 2 /\ AllWritten(s, 2)

SrdInv ==
  /\ SrdTypeOK /\ SrdFlagsOK
  /\ outcome = "ok" => phase = "idle"
  /\ phase \in {"idle", "check"} => cursor = First
  /\ forced => phase = "drain" /\ failed[cursor]
  /\ \A s \in Shards : ShardOK(s)

LEMMA Shards1 ==
  /\ LastShard \in Nat \ {0} /\ Shards = 1 .. LastShard /\ First \in Shards
  /\ \A s \in Shards : s \in Nat
<1>1. Cardinality(Shards) \in Nat /\ Shards = 1 .. Cardinality(Shards) /\ Shards # {}
  BY SrdAssumption, FS_CardinalityType
<1> QED
  BY <1>1 DEF LastShard, First

\* The even split never gives a shard more rows than the first one.
LEMMA SliceFits ==
  ASSUME NEW n \in NodeCounts, NEW s \in Shards,
         Cardinality(Slice(n, First)) <= MaxInflight
  PROVE  Slice(n, s) \subseteq Slots
<1> DEFINE chunk == (n + LastShard - 1) \div LastShard
           before == (s - 1) * chunk
           left == IF n > before THEN n - before ELSE 0
<1>1. n \in Nat \ {0}
  BY SrdAssumption
<1>2. chunk \in Nat
  BY <1>1, Shards1
<1>3. before \in Nat
  BY <1>2, Shards1
<1>4. Slice(n, s) = 1 .. (IF left < chunk THEN left ELSE chunk)
  BY DEF Slice
<1>5. Slice(n, First) = 1 .. (IF n < chunk THEN n ELSE chunk)
  BY <1>1, <1>2 DEF Slice, First
<1> HIDE DEF chunk, before
<1>6. Cardinality(Slice(n, First)) = IF n < chunk THEN n ELSE chunk
  BY <1>1, <1>2, <1>5, FS_Interval
<1>7. left \in Nat /\ left <= n
  BY <1>1, <1>3
<1> QED
  BY <1>1, <1>2, <1>4, <1>6, <1>7, SrdAssumption DEF Slots

LEMMA SrdFlagsStep == SrdFlagsOK /\ [SrdNext]_gvars => SrdFlagsOK'
<1> SUFFICES ASSUME SrdFlagsOK, [SrdNext]_gvars PROVE SrdFlagsOK'
  OBVIOUS
<1> USE DEF SrdFlagsOK, callVars, deviceVars
<1>1. ASSUME NEW n \in NodeCounts, Gather(n) PROVE SrdFlagsOK'
  BY <1>1, Zenon DEF Gather
<1>2. CASE PostSnapshot
  BY <1>2, Zenon DEF PostSnapshot
<1>3. CASE Drained
  BY <1>3, Zenon DEF Drained, NextDrain
<1>4. CASE Reap
  BY <1>4, Zenon DEF Reap
<1>5. CASE PollFails
  BY <1>5, Zenon DEF PollFails, NextDrain
<1>6. CASE Deadline
  BY <1>6, Zenon DEF Deadline, NextDrain
<1>7. CASE CheckRows
  BY <1>7, Zenon DEF CheckRows
<1>8. ASSUME NEW s \in Shards, LandRead(s) \/ FailRead(s) PROVE SrdFlagsOK'
  BY <1>8, Zenon DEF LandRead, FailRead, Complete
<1>9. CASE UNCHANGED gvars
  BY <1>9, Zenon DEF gvars
<1> QED
  BY <1>1, <1>2, <1>3, <1>4, <1>5, <1>6, <1>7, <1>8, <1>9, Zenon DEF SrdNext, ClientStep

LEMMA NextDrainTypes ==
  ASSUME SrdTypeOK, NEW e, NextDrain(e)
  PROVE  /\ cursor' \in Shards /\ rows' \in [Shards -> SUBSET Slots]
         /\ posted' \in [Shards -> Nat]
         /\ phase' \in {"idle", "post", "drain", "check"} /\ snap' \in 1..2
         /\ outcome' \in {"none", "refused", "err", "ok"}
<1> USE Shards1 DEF SrdTypeOK, NextDrain
<1>1. cursor' \in Shards
  OBVIOUS
<1>2. rows' \in [Shards -> SUBSET Slots] /\ posted' \in [Shards -> Nat]
  OBVIOUS
<1>3. /\ phase' \in {"idle", "post", "drain", "check"} /\ snap' \in 1..2
      /\ outcome' \in {"none", "refused", "err", "ok"}
  OBVIOUS
<1> QED
  BY <1>1, <1>2, <1>3

LEMMA SrdTypeStep == SrdTypeOK /\ [SrdNext]_gvars => SrdTypeOK'
<1> SUFFICES ASSUME SrdTypeOK, [SrdNext]_gvars PROVE SrdTypeOK'
  OBVIOUS
<1> USE DEF SrdTypeOK
<1>1. ASSUME NEW n \in NodeCounts, Gather(n) PROVE SrdTypeOK'
  <2>1. /\ UNCHANGED <<cursor, posted, tag, wire, cq, buf>>
        /\ call' \in Nat
    BY <1>1 DEF Gather, deviceVars
  <2>2. CASE outcome' = "refused" /\ UNCHANGED <<phase, snap, reread, wanted, rows>>
    BY <2>1, <2>2
  <2>3. CASE /\ Cardinality(Slice(n, First)) <= MaxInflight
             /\ wanted' = [s \in Shards |-> Slice(n, s)] /\ rows' = wanted'
             /\ reread' = MaxReread /\ snap' = 1 /\ phase' = "post" /\ outcome' = "none"
    <3>1. wanted' \in [Shards -> SUBSET Slots]
      BY <2>3, SliceFits
    <3> QED
      BY <2>1, <2>3, <3>1, SrdAssumption
  <2> QED
    BY <1>1, <2>2, <2>3 DEF Gather
<1>2. CASE PostSnapshot
  <2>1. UNCHANGED <<snap, rows, cq, buf, reread, call, wanted, outcome>>
    BY <1>2 DEF PostSnapshot, callVars
  <2>2. cursor' \in Shards /\ phase' \in {"idle", "post", "drain", "check"}
    <3>1. IF cursor = LastShard THEN phase' = "drain" /\ cursor' = First
                                ELSE phase' = phase /\ cursor' = cursor + 1
      BY <1>2 DEF PostSnapshot
    <3>2. cursor' \in Shards
      BY <3>1, Shards1
    <3> QED
      BY <3>1, <3>2
  <2>3. PICK k \in 0 .. Cardinality(rows[cursor]) :
          LET accepted == {i \in rows[cursor] : Cardinality({j \in rows[cursor] : j < i}) < k}
          IN /\ posted' = [posted EXCEPT ![cursor] = k]
             /\ tag' = [tag EXCEPT ![cursor] = IF rows[cursor] = {} THEN @ ELSE @ + 1]
             /\ wire' = [wire EXCEPT ![cursor] = @ \cup
                           {[tag |-> tag'[cursor], row |-> i, snap |-> snap,
                             round |-> reread, call |-> call] : i \in accepted}]
    BY <1>2 DEF PostSnapshot
  <2>4. posted' \in [Shards -> Nat] /\ tag' \in [Shards -> Nat]
    BY <2>3
  <2>5. wire' \in [Shards -> SUBSET Read]
    <3> DEFINE new == {[tag |-> tag'[cursor], row |-> i, snap |-> snap, round |-> reread,
                        call |-> call] :
                       i \in {i \in rows[cursor] : Cardinality({j \in rows[cursor] : j < i}) < k}}
    <3>1. new \subseteq Read
      <4> SUFFICES ASSUME NEW i \in rows[cursor]
                   PROVE  [tag |-> tag'[cursor], row |-> i, snap |-> snap, round |-> reread,
                           call |-> call] \in Read
        OBVIOUS
      <4>1. i \in Slots /\ tag'[cursor] \in Nat
        BY <2>4
      <4> QED
        BY <4>1 DEF Read
    <3>2. wire' = [wire EXCEPT ![cursor] = @ \cup new]
      BY <2>3
    <3> HIDE DEF new
    <3> QED
      BY <3>1, <3>2
  <2> QED
    BY <2>1, <2>2, <2>4, <2>5
<1>3. CASE Drained
  <2>1. UNCHANGED <<reread, call, wanted, tag, wire, cq, buf>>
    BY <1>3 DEF Drained, deviceVars
  <2> QED
    BY <1>3, <2>1, NextDrainTypes DEF Drained
<1>4. CASE Reap
  <2>1. UNCHANGED <<phase, cursor, snap, rows, tag, wire, buf, reread, call, wanted, outcome>>
    BY <1>4 DEF Reap, callVars
  <2>2. posted' \in [Shards -> Nat] /\ cq' \in [Shards -> SUBSET Done]
    BY <1>4 DEF Reap
  <2> QED
    BY <2>1, <2>2
<1>5. CASE PollFails
  <2>1. UNCHANGED <<reread, call, wanted, tag, wire, cq, buf>>
    BY <1>5 DEF PollFails, deviceVars
  <2> QED
    BY <1>5, <2>1, NextDrainTypes DEF PollFails
<1>6. CASE Deadline
  <2>1. UNCHANGED <<reread, call, wanted, tag, wire, cq, buf>>
    BY <1>6 DEF Deadline
  <2>2. CASE NextDrain(TRUE)
    BY <2>1, <2>2, NextDrainTypes
  <2>3. CASE UNCHANGED <<phase, cursor, snap, rows, posted, outcome>>
    BY <2>1, <2>3
  <2> QED
    BY <1>6, <2>2, <2>3 DEF Deadline
<1>7. CASE CheckRows
  <2>1. UNCHANGED <<cursor, call, wanted, posted, tag, wire, cq, buf>>
    BY <1>7 DEF CheckRows, deviceVars
  <2>2. rows' \in [Shards -> SUBSET Slots] /\ snap' = 1 /\ reread' \in Nat
    BY <1>7 DEF CheckRows
  <2>3. /\ phase' \in {"idle", "post", "drain", "check"}
        /\ outcome' \in {"none", "refused", "err", "ok"}
    BY <1>7 DEF CheckRows
  <2> QED
    BY <2>1, <2>2, <2>3
<1>8. ASSUME NEW s \in Shards, LandRead(s) \/ FailRead(s) PROVE SrdTypeOK'
  <2>1. PICK rd \in wire[s], ok \in BOOLEAN :
          /\ Complete(s, rd, ok)
          /\ \/ UNCHANGED buf
             \/ buf' = [buf EXCEPT ![s][rd.snap][rd.row] = [call |-> rd.call, round |-> rd.round]]
    BY <1>8 DEF LandRead, FailRead
  <2>2. rd \in Read
    OBVIOUS
  <2>3. UNCHANGED <<phase, cursor, snap, rows, posted, tag, reread, call, wanted, outcome>>
    BY <2>1 DEF Complete, callVars
  <2>4. wire' \in [Shards -> SUBSET Read]
    BY <2>1 DEF Complete
  <2>5. cq' \in [Shards -> SUBSET Done]
    <3>1. [tag |-> rd.tag, row |-> rd.row, ok |-> ok] \in Done
      BY <2>2 DEF Read, Done
    <3> QED
      BY <2>1, <3>1 DEF Complete
  <2>6. buf' \in [Shards -> [1..2 -> [Slots -> Source]]]
    <3>1. [call |-> rd.call, round |-> rd.round] \in Source
      BY <2>2 DEF Read, Source
    <3>2. rd.snap \in 1..2 /\ rd.row \in Slots
      BY <2>2 DEF Read
    <3>3. CASE buf' = [buf EXCEPT ![s][rd.snap][rd.row] =
                        [call |-> rd.call, round |-> rd.round]]
      <4> DEFINE v == [call |-> rd.call, round |-> rd.round]
      <4>1. [buf[s] EXCEPT ![rd.snap][rd.row] = v] \in [1..2 -> [Slots -> Source]]
        <5>1. buf[s] \in [1..2 -> [Slots -> Source]]
          OBVIOUS
        <5>2. [buf[s][rd.snap] EXCEPT ![rd.row] = v] \in [Slots -> Source]
          BY <3>1, <3>2, <5>1
        <5> HIDE DEF v
        <5> QED
          BY <5>1, <5>2, <3>2
      <4>2. buf' = [buf EXCEPT ![s] = [buf[s] EXCEPT ![rd.snap][rd.row] = v]]
        BY <3>3
      <4> HIDE DEF v
      <4> QED
        BY <4>1, <4>2
    <3> QED
      BY <2>1, <3>3
  <2> QED
    BY <2>3, <2>4, <2>5, <2>6
<1>9. CASE UNCHANGED gvars
  BY <1>9 DEF gvars
<1> QED
  BY <1>1, <1>2, <1>3, <1>4, <1>5, <1>6, <1>7, <1>8, <1>9 DEF SrdNext, ClientStep

\* Rows are posted in order, so the provider accepted at most k of them.
LEMMA AtMostAccepted ==
  ASSUME NEW R \in SUBSET Nat, IsFiniteSet(R), NEW k \in Nat, NEW W,
         \A w \in W : w.row \in R /\ Cardinality({j \in R : j < w.row}) < k,
         \A v, w \in W : v.row = w.row => v = w
  PROVE  IsFiniteSet(W) /\ Cardinality(W) <= k
<1> DEFINE Below(i) == {j \in R : j < i}
           rank == [w \in W |-> Cardinality(Below(w.row))]
<1>1. ASSUME NEW i \in R PROVE IsFiniteSet(Below(i)) /\ Cardinality(Below(i)) \in Nat
  <2>1. Below(i) \in SUBSET R
    OBVIOUS
  <2> QED
    BY <2>1, FS_Subset, FS_CardinalityType
<1>2. ASSUME NEW i \in R, NEW j \in R, i < j
      PROVE  Cardinality(Below(i)) < Cardinality(Below(j))
  <2>1. Below(i) \cup {i} \in SUBSET Below(j) /\ i \notin Below(i)
    <3>1. R \subseteq Nat /\ i \in Nat /\ j \in Nat
      OBVIOUS
    <3>2. ASSUME NEW h \in Below(i) \cup {i} PROVE h \in Below(j)
      BY <1>2, <3>1
    <3>3. i \notin Below(i)
      BY <3>1
    <3> HIDE DEF Below
    <3> QED
      BY <3>2, <3>3
  <2>2. Cardinality(Below(i) \cup {i}) = Cardinality(Below(i)) + 1
    BY <1>1, <2>1, FS_AddElement
  <2>3. Cardinality(Below(i) \cup {i}) <= Cardinality(Below(j))
    BY <1>1, <2>1, FS_Subset
  <2> HIDE DEF Below
  <2> QED
    BY <1>1, <2>2, <2>3
<1>3. rank \in [W -> 0 .. (k - 1)]
  <2> SUFFICES ASSUME NEW w \in W PROVE Cardinality(Below(w.row)) \in 0 .. (k - 1)
    OBVIOUS
  <2>1. Cardinality(Below(w.row)) \in Nat /\ Cardinality(Below(w.row)) < k
    BY <1>1
  <2> HIDE DEF Below
  <2> QED
    BY <2>1
<1>4. \A v, w \in W : rank[v] = rank[w] => v = w
  <2> SUFFICES ASSUME NEW v \in W, NEW w \in W, rank[v] = rank[w] PROVE v.row = w.row
    OBVIOUS
  <2>1. v.row \in Nat /\ w.row \in Nat /\ v.row \in R /\ w.row \in R
    OBVIOUS
  <2>2. Cardinality(Below(v.row)) = Cardinality(Below(w.row))
    OBVIOUS
  <2> HIDE DEF Below, rank
  <2> QED
    BY <1>1, <1>2, <2>1, <2>2
<1>5. rank \in Injection(W, 0 .. (k - 1))
  BY <1>3, <1>4 DEF Injection, IsInjective
<1>6. IsFiniteSet(0 .. (k - 1)) /\ Cardinality(0 .. (k - 1)) = k
  BY FS_Interval
<1> HIDE DEF rank
<1> QED
  BY <1>5, <1>6, FS_Injection

LEMMA FiniteRows ==
  ASSUME SrdTypeOK, NEW s \in Shards
  PROVE  rows[s] \in SUBSET Nat /\ IsFiniteSet(rows[s]) /\ Cardinality(rows[s]) \in Nat
<1>1. rows[s] \in SUBSET Slots /\ Slots \subseteq Nat
  BY SrdAssumption DEF SrdTypeOK, Slots
<1>2. IsFiniteSet(Slots)
  BY SrdAssumption, FS_Interval DEF Slots
<1> QED
  BY <1>1, <1>2, FS_Subset, FS_CardinalityType

\* A drain that has reaped every READ it posted leaves the shard quiet.
LEMMA DrainedIsQuiet ==
  ASSUME NEW s \in Shards, DeviceOK(s), Counted(s), posted[s] = 0
  PROVE  Quiet(s)
<1>1. IsFiniteSet(Back(s))
  <2>1. Back(s) \in SUBSET cq[s]
    BY DEF Back
  <2> QED
    BY <2>1, FS_Subset DEF DeviceOK
<1>2. Cardinality(wire[s]) = 0 /\ Cardinality(Back(s)) = 0
  BY <1>1, FS_CardinalityType DEF DeviceOK, Counted
<1> QED
  BY <1>1, <1>2, FS_EmptySet DEF DeviceOK, Quiet

\* A call that begins finds every shard quiet, for a failed one refuses it.
LEMMA GatherStep ==
  ASSUME SrdInv, SrdTypeOK', NEW n \in NodeCounts, Gather(n), NEW s \in Shards
  PROVE  ShardOK(s)'
<1>1. /\ ShardOK(s) /\ phase = "idle"
      /\ UNCHANGED <<posted, tag, failed, poisoned, wire, cq, buf>>
  BY DEF Gather, SrdInv, deviceVars
<1>2. DeviceOK(s)' /\ (Quiet(s)' <=> Quiet(s)) /\ (GivenUp(s)' <=> GivenUp(s))
  BY <1>1 DEF ShardOK, DeviceOK, Quiet, Back, GivenUp
<1>3. CASE outcome' = "refused" /\ phase' = phase
  BY <1>1, <1>2, <1>3 DEF ShardOK
<1>4. CASE /\ \A t \in Shards : ~failed[t]
           /\ rows' = wanted' /\ snap' = 1 /\ phase' = "post" /\ outcome' = "none"
  <2>1. Quiet(s)
    BY <1>1, <1>4 DEF ShardOK, GivenUp
  <2>2. Current(s)'
    BY <1>1, <2>1 DEF Current, Quiet
  <2>3. cursor' = First /\ ~(s < First)
    BY <1>1, Shards1 DEF Gather, SrdInv, First
  <2> HIDE DEF First
  <2> QED
    BY <1>2, <1>4, <2>1, <2>2, <2>3 DEF ShardOK
<1> QED
  BY <1>1, <1>3, <1>4 DEF Gather

\* What the post of one snapshot puts on the cursor's shard.
LEMMA PostedShard ==
  ASSUME SrdInv, SrdTypeOK', PostSnapshot, NEW s \in Shards, s = cursor
  PROVE  DeviceOK(s)' /\ Current(s)' /\ Counted(s)' /\ (bad' \/ Answered(s)')
<1> DEFINE R == rows[s]
<1>0. /\ Quiet(s) /\ DeviceOK(s)
      /\ UNCHANGED <<snap, rows, cq, buf, reread, call>>
  <2>1. ShardOK(s) /\ phase = "post" /\ s \in Nat
    BY Shards1 DEF PostSnapshot, SrdInv
  <2>2. ~(s < cursor)
    BY <2>1
  <2>3. UNCHANGED <<snap, rows, cq, buf, reread, call>>
    BY DEF PostSnapshot, callVars
  <2> QED
    BY <2>1, <2>2, <2>3 DEF ShardOK
<1>1. PICK k \in 0 .. Cardinality(R) :
        LET accepted == {i \in R : Cardinality({j \in R : j < i}) < k}
        IN /\ posted' = [posted EXCEPT ![s] = k]
           /\ tag' = [tag EXCEPT ![s] = IF R = {} THEN @ ELSE @ + 1]
           /\ wire' = [wire EXCEPT ![s] = @ \cup
                         {[tag |-> tag'[s], row |-> i, snap |-> snap,
                           round |-> reread, call |-> call] : i \in accepted}]
           /\ k < Cardinality(R) => bad'
  <2>1. PICK k \in 0 .. Cardinality(rows[cursor]) :
          LET a == {i \in rows[cursor] : Cardinality({j \in rows[cursor] : j < i}) < k}
          IN /\ posted' = [posted EXCEPT ![cursor] = k]
             /\ tag' = [tag EXCEPT ![cursor] = IF rows[cursor] = {} THEN @ ELSE @ + 1]
             /\ wire' = [wire EXCEPT ![cursor] = @ \cup
                           {[tag |-> tag'[cursor], row |-> i, snap |-> snap,
                             round |-> reread, call |-> call] : i \in a}]
             /\ bad' = (bad \/ k < Cardinality(rows[cursor]))
    BY DEF PostSnapshot
  <2>2. k < Cardinality(rows[cursor]) => bad'
    BY <2>1, Zenon
  <2> QED
    BY <2>1, <2>2
<1>2. R \in SUBSET Nat /\ IsFiniteSet(R) /\ Cardinality(R) \in Nat /\ k \in Nat
  BY <1>0, <1>1, FiniteRows DEF SrdInv
<1> DEFINE accepted == {i \in R : Cardinality({j \in R : j < i}) < k}
           W == {[tag |-> tag'[s], row |-> i, snap |-> snap, round |-> reread, call |-> call] :
                 i \in accepted}
<1>w. \A w \in W : \E i \in accepted :
        w = [tag |-> tag'[s], row |-> i, snap |-> snap, round |-> reread, call |-> call]
  OBVIOUS
<1>v. \A i \in accepted : i \in R /\ Cardinality({j \in R : j < i}) < k
  OBVIOUS
<1>3. wire'[s] = W /\ posted'[s] = k
  BY <1>0, <1>1 DEF SrdInv, SrdTypeOK, Quiet
<1>4. IsFiniteSet(W) /\ Cardinality(W) <= k /\ Cardinality(W) \in Nat
  <2> HIDE DEF W, R, accepted
  <2>1. ASSUME NEW w \in W PROVE w.row \in R /\ Cardinality({j \in R : j < w.row}) < k
    <3>1. w.row \in accepted
      BY <1>w
    <3> QED
      BY <1>v, <3>1
  <2>2. \A v, w \in W : v.row = w.row => v = w
    BY <1>w
  <2> QED
    BY <1>2, <2>1, <2>2, AtMostAccepted, FS_CardinalityType
<1>5. \A w \in W : /\ w.tag = tag'[s] /\ w.snap = snap /\ w.round = reread /\ w.call = call
                   /\ w.row \in R
  <2> HIDE DEF W, R, accepted
  <2> SUFFICES ASSUME NEW w \in W
               PROVE  /\ w.tag = tag'[s] /\ w.snap = snap /\ w.round = reread
                      /\ w.call = call /\ w.row \in R
    OBVIOUS
  <2>1. PICK i \in accepted :
          w = [tag |-> tag'[s], row |-> i, snap |-> snap, round |-> reread, call |-> call]
    BY <1>w
  <2>2. i \in R
    BY <1>v
  <2> QED
    BY <2>1, <2>2
<1>6. Back(s)' = {} /\ \A d \in cq[s] : d.tag <= tag'[s]
  <2>1. tag[s] \in Nat /\ \A d \in cq[s] : d.tag \in Nat /\ d.tag <= tag[s]
    BY <1>0 DEF SrdInv, SrdTypeOK, Done, DeviceOK
  <2>2. tag'[s] = tag[s] \/ tag'[s] = tag[s] + 1
    BY <1>1 DEF SrdInv, SrdTypeOK
  <2>3. \A d \in cq[s] : d.tag # tag[s]
    BY <1>0 DEF Quiet, Back
  <2>4. \A d \in cq[s] : d.tag # tag'[s] /\ d.tag <= tag'[s]
    BY <2>1, <2>2, <2>3
  <2> QED
    BY <1>0, <2>4 DEF Back
<1>7. tag'[s] \in Nat
  BY DEF SrdTypeOK
<1>8. ASSUME k < Cardinality(R) PROVE bad'
  BY <1>1, <1>8, Zenon
<1>9. ASSUME k = Cardinality(R) PROVE Answered(s)'
  <2>1. ASSUME NEW i \in R PROVE \E w \in W : w.row = i
    <3> DEFINE below == {j \in R : j < i}
    <3>1. below \in SUBSET R /\ i \notin below /\ i \in R
      BY <1>2
    <3>2. Cardinality(below) < Cardinality(R)
      <4>1. Cardinality(below) <= Cardinality(R) /\ Cardinality(below) \in Nat
        BY <1>2, <3>1, FS_Subset, FS_CardinalityType
      <4>2. Cardinality(below) # Cardinality(R)
        BY <1>2, <3>1, FS_Subset
      <4> HIDE DEF below
      <4> QED
        BY <1>2, <4>1, <4>2
    <3>3. i \in accepted
      BY <1>9, <3>2
    <3>4. [tag |-> tag'[s], row |-> i, snap |-> snap, round |-> reread, call |-> call] \in W
      BY <3>3
    <3> HIDE DEF W
    <3> QED
      BY <3>4
  <2> HIDE DEF W, accepted
  <2> QED
    BY <1>0, <1>3, <2>1 DEF Answered, Heard
<1> HIDE DEF W, accepted
<1>10. bad' \/ Answered(s)'
  <2> HIDE DEF R
  <2> QED
    BY <1>1, <1>2, <1>8, <1>9
<1>11. Counted(s)'
  BY <1>2, <1>3, <1>4, <1>6, FS_EmptySet DEF Counted
<1>12. Current(s)'
  BY <1>0, <1>3, <1>5 DEF Current
<1>13. DeviceOK(s)'
  <2>1. \A rd \in wire'[s] : rd.tag <= tag'[s]
    BY <1>3, <1>5, <1>7
  <2> QED
    BY <1>0, <1>3, <1>4, <1>6, <2>1 DEF DeviceOK
<1> QED
  BY <1>10, <1>11, <1>12, <1>13

LEMMA PostStep ==
  ASSUME SrdInv, SrdTypeOK', PostSnapshot, NEW s \in Shards
  PROVE  ShardOK(s)'
<1>1. /\ ShardOK(s) /\ phase = "post" /\ cursor \in Shards /\ s \in Nat /\ cursor \in Nat
      /\ UNCHANGED <<snap, rows, failed, poisoned, cq, buf, reread, call, wanted, outcome>>
  BY Shards1 DEF PostSnapshot, SrdInv, SrdTypeOK, callVars
<1>2. IF cursor = LastShard THEN phase' = "drain" /\ cursor' = First
                            ELSE phase' = "post" /\ cursor' = cursor + 1
  BY DEF PostSnapshot
<1>3. bad => bad'
  BY Zenon DEF PostSnapshot
<1>4. outcome # "ok" /\ snap' = snap
  BY <1>1 DEF SrdInv
<1>5. snap' = 2 => AllWritten(s, 1)'
  BY <1>1, <1>4 DEF ShardOK, AllWritten, Written
<1>6. rows'[s] \subseteq wanted'[s] /\ \A i \in wanted'[s] \ rows'[s] : Whole(s, i)'
  BY <1>1 DEF ShardOK, Whole
<1>7. CASE s = cursor
  <2>1. DeviceOK(s)' /\ Current(s)' /\ Drains(s)'
    BY <1>7, PostedShard DEF Drains
  <2>2. phase' = "post" => s < cursor'
    BY <1>1, <1>2, <1>7
  <2>3. phase' = "drain" => ~(s < cursor')
    BY <1>1, <1>2, Shards1 DEF First
  <2> QED
    BY <1>1, <1>2, <1>4, <1>5, <1>6, <2>1, <2>2, <2>3 DEF ShardOK
<1>8. CASE s # cursor
  <2>1. posted'[s] = posted[s] /\ tag'[s] = tag[s] /\ wire'[s] = wire[s]
    BY <1>8 DEF PostSnapshot, SrdInv, SrdTypeOK
  <2>2. DeviceOK(s)' /\ Current(s)' /\ (Quiet(s) => Quiet(s)') /\ (Drains(s) => Drains(s)')
    BY <1>1, <1>3, <2>1
    DEF ShardOK, DeviceOK, Current, Quiet, Back, Drains, Counted, Answered, Heard, Written
  <2>3. phase' = "post" => (s < cursor' <=> s < cursor)
    BY <1>1, <1>2, <1>8
  <2>4. phase' = "drain" => ~(s < cursor') /\ s < cursor
    BY <1>1, <1>2, <1>8, Shards1 DEF First
  <2> QED
    BY <1>1, <1>2, <1>4, <1>5, <1>6, <2>2, <2>3, <2>4 DEF ShardOK
<1> QED
  BY <1>7, <1>8

\* The drain leaves the cursor's shard: for the next one, for the next
\* snapshot, for the comparison, or, after an error, for good.
LEMMA NextDrainStep ==
  ASSUME SrdInv, phase = "drain", NEW e, NextDrain(e), bad => e,
         UNCHANGED <<reread, call, wanted, tag, wire, cq, buf>>,
         \A t \in Shards : GivenUp(t) => GivenUp(t)',
         \/ Quiet(cursor) /\ (e \/ AllWritten(cursor, snap))
         \/ poisoned'[cursor] /\ failed'[cursor] /\ e,
         NEW s \in Shards
  PROVE  ShardOK(s)'
<1>1. /\ ShardOK(s) /\ s \in Nat /\ cursor \in Shards /\ cursor \in Nat /\ s <= LastShard
      /\ cursor <= LastShard /\ snap \in 1..2
  BY Shards1 DEF SrdInv, SrdTypeOK
<1>2. DeviceOK(s)' /\ (Quiet(s) => Quiet(s)') /\ (GivenUp(s) => GivenUp(s)')
  BY <1>1 DEF ShardOK, DeviceOK, Quiet, Back
<1>3. outcome # "ok"
  BY DEF SrdInv
<1>4. s <= cursor => \/ Quiet(s) /\ (e \/ AllWritten(s, snap))
                     \/ GivenUp(s)' /\ e
  <2>1. CASE s < cursor
    BY <1>1, <2>1 DEF ShardOK, HasDrained
  <2>2. CASE s = cursor
    <3>1. GivenUp(s)' <=> poisoned'[s] /\ failed'[s]
      BY DEF GivenUp
    <3> QED
      BY <2>2, <3>1
  <2> QED
    BY <1>1, <2>1, <2>2
<1>5. CASE cursor < LastShard
  <2>1. cursor' = cursor + 1 /\ UNCHANGED <<phase, snap, outcome, rows>>
    BY <1>1, <1>5 DEF NextDrain
  <2>2. e => bad'
    BY <1>1, <1>5, Zenon DEF NextDrain
  <2>3. /\ Current(s)' /\ rows'[s] \subseteq wanted'[s]
        /\ snap' = 2 => AllWritten(s, 1)'
        /\ \A i \in wanted'[s] \ rows'[s] : Whole(s, i)'
    BY <1>1, <2>1 DEF ShardOK, Current, AllWritten, Written, Whole
  <2>4. CASE s <= cursor
    <3>1. AllWritten(s, snap) => AllWritten(s, snap)'
      BY <2>1 DEF AllWritten, Written
    <3>2. HasDrained(s)'
      BY <1>2, <1>4, <2>2, <2>4, <3>1 DEF HasDrained
    <3>3. s < cursor'
      BY <1>1, <2>1, <2>4
    <3> QED
      BY <1>2, <1>3, <2>1, <2>3, <3>2, <3>3 DEF ShardOK
  <2>5. CASE s > cursor
    <3>1. posted'[s] = posted[s]
      BY <1>1, <2>5 DEF NextDrain, SrdInv, SrdTypeOK
    <3>2. Drains(s)
      BY <1>1, <2>5 DEF ShardOK
    <3>3. Counted(s)' /\ (Answered(s) => Answered(s)')
      BY <2>1, <3>1, <3>2 DEF Drains, Counted, Back, Answered, Heard, Written
    <3>4. Drains(s)'
      BY <2>2, <3>2, <3>3 DEF Drains
    <3>5. ~(s < cursor')
      BY <1>1, <2>1, <2>5
    <3> QED
      BY <1>2, <1>3, <2>1, <2>3, <3>4, <3>5 DEF ShardOK
  <2> QED
    BY <1>1, <2>4, <2>5
<1>6. CASE ~(cursor < LastShard)
  <2>1. s <= cursor /\ cursor' = First
    <3>1. cursor = LastShard
      BY <1>1, <1>6, Shards1
    <3>2. cursor' = First
      BY <1>6 DEF NextDrain
    <3> QED
      BY <1>1, <3>1, <3>2
  <2>2. CASE e
    <3>1. phase' = "idle" /\ outcome' = "err"
      BY <1>6, <2>2 DEF NextDrain
    <3> QED
      BY <1>2, <1>4, <2>1, <3>1 DEF ShardOK
  <2>3. CASE ~e
    <3>1. /\ phase' = (IF snap = 1 THEN "post" ELSE "check")
          /\ snap' = 2 /\ UNCHANGED <<outcome, rows>>
      BY <1>6, <2>3 DEF NextDrain
    <3>2. Quiet(s) /\ AllWritten(s, snap)
      BY <1>4, <2>1, <2>3
    <3>3. Current(s)'
      BY <1>2, <3>2 DEF Current, Quiet
    <3>4. rows'[s] \subseteq wanted'[s] /\ \A i \in wanted'[s] \ rows'[s] : Whole(s, i)'
      BY <1>1, <3>1 DEF ShardOK, Whole
    <3>5. AllWritten(s, 1)' /\ (snap = 2 => AllWritten(s, 2)')
      BY <1>1, <3>1, <3>2 DEF ShardOK, AllWritten, Written
    <3>6. ~(s < cursor')
      BY <1>1, <2>1, Shards1 DEF First
    <3> QED
      BY <1>1, <1>2, <1>3, <3>1, <3>2, <3>3, <3>4, <3>5, <3>6 DEF ShardOK
  <2> QED
    BY <2>2, <2>3
<1> QED
  BY <1>5, <1>6

LEMMA DrainedStep ==
  ASSUME SrdInv, Drained, NEW s \in Shards
  PROVE  ShardOK(s)'
<1>1. /\ ShardOK(cursor) /\ cursor \in Shards /\ cursor \in Nat /\ phase = "drain"
      /\ posted[cursor] = 0 /\ NextDrain(bad)
      /\ UNCHANGED <<reread, call, wanted, tag, failed, poisoned, wire, cq, buf>>
  BY Shards1 DEF Drained, SrdInv, SrdTypeOK, deviceVars
<1>2. Drains(cursor) /\ Quiet(cursor)
  BY <1>1, DrainedIsQuiet DEF ShardOK, Drains
<1>3. bad \/ AllWritten(cursor, snap)
  BY <1>2 DEF Drains, Answered, Heard, Quiet, AllWritten
<1>4. \A t \in Shards : GivenUp(t) => GivenUp(t)'
  BY <1>1 DEF GivenUp
<1> QED
  BY <1>1, <1>2, <1>3, <1>4, NextDrainStep

\* Past the second deadline, or on a failed poll, the shard is given up.
LEMMA GiveUpStep ==
  ASSUME SrdInv, phase = "drain", NextDrain(TRUE),
         UNCHANGED <<reread, call, wanted, tag, wire, cq, buf>>,
         poisoned' = [poisoned EXCEPT ![cursor] = TRUE],
         failed' = [failed EXCEPT ![cursor] = TRUE] \/ (failed[cursor] /\ UNCHANGED failed),
         NEW s \in Shards
  PROVE  ShardOK(s)'
<1>1. cursor \in Shards /\ poisoned \in [Shards -> BOOLEAN] /\ failed \in [Shards -> BOOLEAN]
  BY DEF SrdInv, SrdTypeOK, SrdFlagsOK
<1>2. poisoned'[cursor] /\ failed'[cursor]
  BY <1>1
<1>3. \A t \in Shards : GivenUp(t) => GivenUp(t)'
  BY <1>1 DEF GivenUp
<1> QED
  BY <1>1, <1>2, <1>3, NextDrainStep

LEMMA ReapStep ==
  ASSUME SrdInv, SrdTypeOK', Reap, NEW s \in Shards
  PROVE  ShardOK(s)'
<1>1. /\ ShardOK(s) /\ cursor \in Shards /\ phase = "drain" /\ outcome # "ok"
      /\ UNCHANGED <<phase, cursor, snap, rows, tag, failed, poisoned, wire, buf,
                     reread, call, wanted, outcome>>
  BY DEF Reap, SrdInv, SrdTypeOK, callVars
<1>2. PICK c \in cq[cursor] :
        /\ cq' = [cq EXCEPT ![cursor] = @ \ {c}]
        /\ posted' = [posted EXCEPT ![cursor] = IF c.tag = tag[cursor] THEN @ - 1 ELSE @]
        /\ bad' = (bad \/ (c.tag = tag[cursor] /\ ~c.ok))
  BY DEF Reap
<1>3. (bad => bad') /\ (c.tag = tag[cursor] /\ ~c.ok => bad')
  BY <1>2, Zenon
<1>4. /\ Current(s)' /\ rows'[s] \subseteq wanted'[s]
      /\ snap' = 2 => AllWritten(s, 1)'
      /\ \A i \in wanted'[s] \ rows'[s] : Whole(s, i)'
  BY <1>1 DEF ShardOK, Current, AllWritten, Written, Whole
<1>5. cq'[s] \subseteq cq[s] /\ IsFiniteSet(cq[s])
  BY <1>1, <1>2 DEF SrdInv, SrdTypeOK, ShardOK, DeviceOK
<1>6. DeviceOK(s)' /\ Back(s)' \subseteq Back(s) /\ (Quiet(s) => Quiet(s)')
  <2>1. IsFiniteSet(cq'[s])
    BY <1>5, FS_Subset
  <2> QED
    BY <1>1, <1>5, <2>1 DEF ShardOK, DeviceOK, Back, Quiet
<1>7. HasDrained(s) => HasDrained(s)'
  BY <1>1, <1>3, <1>6 DEF HasDrained, GivenUp, AllWritten, Written
<1>8. Drains(s) => Drains(s)'
  <2> SUFFICES ASSUME Drains(s) PROVE Drains(s)'
    OBVIOUS
  <2>1. CASE s = cursor /\ c.tag = tag[cursor]
    <3>1. Back(s)' = Back(s) \ {c} /\ c \in Back(s) /\ posted'[s] = posted[s] - 1
      BY <1>1, <1>2, <2>1 DEF Back, SrdInv, SrdTypeOK
    <3>2. IsFiniteSet(Back(s))
      <4>1. Back(s) \in SUBSET cq[s]
        BY DEF Back
      <4> QED
        BY <1>5, <4>1, FS_Subset
    <3>3. Cardinality(Back(s)') = Cardinality(Back(s)) - 1 /\ Cardinality(Back(s)) \in Nat
      BY <3>1, <3>2, FS_RemoveElement, FS_CardinalityType
    <3>4. Cardinality(wire[s]) \in Nat /\ posted[s] \in Nat
      BY <1>1, FS_CardinalityType DEF ShardOK, DeviceOK, SrdInv, SrdTypeOK
    <3>5. Counted(s)'
      BY <1>1, <3>1, <3>3, <3>4 DEF Drains, Counted
    <3>6. bad' \/ Answered(s)'
      BY <1>1, <1>2, <1>3, <2>1, <3>1 DEF Drains, Answered, Heard, Written
    <3> QED
      BY <3>5, <3>6 DEF Drains
  <2>2. CASE ~(s = cursor /\ c.tag = tag[cursor])
    <3>1. Back(s)' = Back(s) /\ posted'[s] = posted[s]
      BY <1>1, <1>2, <2>2 DEF Back, SrdInv, SrdTypeOK
    <3> QED
      BY <1>1, <1>3, <3>1 DEF Drains, Counted, Answered, Heard, Written
  <2> QED
    BY <2>1, <2>2
<1> QED
  BY <1>1, <1>4, <1>6, <1>7, <1>8 DEF ShardOK

\* The first deadline only makes the call fail.
LEMMA ForceStep ==
  ASSUME SrdInv, phase = "drain", bad',
         failed' = [failed EXCEPT ![cursor] = TRUE],
         UNCHANGED <<phase, cursor, snap, rows, posted, outcome, poisoned, reread, call,
                     wanted, tag, wire, cq, buf>>,
         NEW s \in Shards
  PROVE  ShardOK(s)'
<1>1. ShardOK(s) /\ outcome # "ok" /\ cursor \in Shards
  BY DEF SrdInv, SrdTypeOK
<1>2. GivenUp(s) => GivenUp(s)'
  BY <1>1 DEF GivenUp, SrdInv, SrdFlagsOK
<1>3. DeviceOK(s)' /\ Current(s)' /\ (Quiet(s) => Quiet(s)') /\ (Counted(s) => Counted(s)')
  BY <1>1 DEF ShardOK, DeviceOK, Current, Quiet, Back, Counted
<1>4. /\ rows'[s] \subseteq wanted'[s]
      /\ snap' = 2 => AllWritten(s, 1)'
      /\ \A i \in wanted'[s] \ rows'[s] : Whole(s, i)'
  BY <1>1 DEF ShardOK, AllWritten, Written, Whole
<1>5. (Drains(s) => Drains(s)') /\ (HasDrained(s) => HasDrained(s)')
  BY <1>2, <1>3 DEF Drains, HasDrained
<1> QED
  BY <1>1, <1>3, <1>4, <1>5 DEF ShardOK

LEMMA DeadlineStep ==
  ASSUME SrdInv, Deadline, NEW s \in Shards
  PROVE  ShardOK(s)'
<1>1. phase = "drain" /\ UNCHANGED <<reread, call, wanted, tag, wire, cq, buf>>
  BY DEF Deadline
<1>2. CASE /\ ~forced /\ bad' = TRUE
           /\ failed' = [failed EXCEPT ![cursor] = TRUE]
           /\ UNCHANGED <<phase, cursor, snap, rows, posted, outcome, poisoned>>
  BY <1>1, <1>2, ForceStep
<1>3. CASE /\ forced /\ poisoned' = [poisoned EXCEPT ![cursor] = TRUE]
           /\ NextDrain(TRUE) /\ UNCHANGED failed
  <2>1. failed[cursor]
    BY <1>3 DEF SrdInv
  <2> QED
    BY <1>1, <1>3, <2>1, GiveUpStep
<1> QED
  BY <1>2, <1>3, Zenon DEF Deadline

LEMMA PollFailsStep ==
  ASSUME SrdInv, PollFails, NEW s \in Shards
  PROVE  ShardOK(s)'
<1>1. /\ phase = "drain" /\ NextDrain(TRUE)
      /\ poisoned' = [poisoned EXCEPT ![cursor] = TRUE]
      /\ failed' = [failed EXCEPT ![cursor] = TRUE]
      /\ UNCHANGED <<reread, call, wanted, tag, wire, cq, buf>>
  BY DEF PollFails, deviceVars
<1> QED
  BY <1>1, GiveUpStep

\* Rows leave the call only once both their regions are written.
LEMMA CheckRowsStep ==
  ASSUME SrdInv, CheckRows, NEW s \in Shards
  PROVE  ShardOK(s)'
<1>1. /\ ShardOK(s) /\ phase = "check" /\ cursor = First /\ outcome # "ok" /\ s \in Nat
  BY Shards1 DEF CheckRows, SrdInv
<1>2. /\ UNCHANGED <<cursor, call, wanted, tag, wire, cq, buf>>
      /\ rows'[s] \subseteq rows[s] /\ snap' = 1
  BY DEF CheckRows, deviceVars
<1>3. DeviceOK(s)' /\ Quiet(s)' /\ Current(s)'
  BY <1>1, <1>2 DEF ShardOK, DeviceOK, Quiet, Back, Current
<1>4. \A i \in wanted'[s] : Whole(s, i)'
  <2> SUFFICES ASSUME NEW i \in wanted[s] PROVE Whole(s, i)
    BY <1>2 DEF Whole
  <2>1. CASE i \in rows[s]
    <3>1. Written(s, 1, i) /\ Written(s, 2, i)
      BY <1>1, <2>1 DEF ShardOK, AllWritten
    <3> QED
      BY <3>1 DEF Written, Whole
  <2>2. CASE i \notin rows[s]
    BY <1>1, <2>2 DEF ShardOK
  <2> QED
    BY <2>1, <2>2
<1>5. rows'[s] \subseteq wanted'[s]
  BY <1>1, <1>2 DEF ShardOK
<1>6. phase' = "idle" \/ (phase' = "post" /\ outcome' = outcome)
  BY DEF CheckRows
<1>7. ~(s < cursor')
  BY <1>1, <1>2, Shards1 DEF First
<1> QED
  BY <1>1, <1>2, <1>3, <1>4, <1>5, <1>6, <1>7 DEF ShardOK, Quiet

\* A READ that lands or fails: the wire loses it, the queue gets its completion.
LEMMA DeviceStep ==
  ASSUME SrdInv, NEW s \in Shards, NEW rd \in wire[s], NEW ok \in BOOLEAN,
         Complete(s, rd, ok),
         \A g \in 1..2 : \A i \in Slots :
           buf'[s][g][i] = IF ok /\ g = rd.snap /\ i = rd.row
                           THEN [call |-> rd.call, round |-> rd.round] ELSE buf[s][g][i]
  PROVE  ShardOK(s)'
<1> DEFINE c == [tag |-> rd.tag, row |-> rd.row, ok |-> ok]
<1>1. /\ ShardOK(s) /\ s \in Nat /\ rd \in Read /\ cursor \in Nat
      /\ UNCHANGED <<phase, cursor, snap, rows, posted, tag, reread, call, wanted, outcome>>
      /\ wire'[s] = wire[s] \ {rd} /\ cq'[s] = cq[s] \cup {c}
  BY Shards1 DEF SrdInv, SrdTypeOK, Complete, callVars
<1>2. (bad' <=> bad) /\ (GivenUp(s)' <=> GivenUp(s))
  <2>1. UNCHANGED <<bad, failed, poisoned>>
    BY DEF Complete
  <2> QED
    BY <2>1 DEF GivenUp
<1>3. IsFiniteSet(wire[s]) /\ IsFiniteSet(cq[s])
  BY <1>1 DEF ShardOK, DeviceOK
<1>4. DeviceOK(s)'
  <2>1. IsFiniteSet(wire'[s]) /\ IsFiniteSet(cq'[s])
    <3>1. IsFiniteSet(wire[s] \ {rd})
      BY <1>3, FS_RemoveElement
    <3>2. IsFiniteSet(cq[s] \cup {c})
      BY <1>3, FS_AddElement
    <3> QED
      BY <1>1, <3>1, <3>2
  <2>2. \A r \in wire'[s] : r.tag <= tag'[s]
    BY <1>1 DEF ShardOK, DeviceOK
  <2>3. \A d \in cq'[s] : d.tag <= tag'[s]
    BY <1>1 DEF ShardOK, DeviceOK
  <2> QED
    BY <2>1, <2>2, <2>3 DEF DeviceOK
<1>5. ~Quiet(s) /\ outcome # "ok"
  BY <1>1 DEF ShardOK, Quiet
<1>6. CASE phase = "idle"
  BY <1>1, <1>2, <1>4, <1>5, <1>6 DEF ShardOK
<1>7. CASE phase # "idle"
  <2>1. /\ rd.tag = tag[s] /\ rd.snap = snap /\ rd.round = reread /\ rd.call = call
        /\ rd.row \in rows[s] /\ snap \in 1..2 /\ rows[s] \subseteq Slots
        /\ wanted[s] \subseteq Slots
    BY <1>1, <1>7 DEF ShardOK, Current, SrdInv, SrdTypeOK
  <2>2. ASSUME NEW g \in 1..2, NEW i \in Slots, g # snap \/ i \notin rows[s]
        PROVE  buf'[s][g][i] = buf[s][g][i]
    BY <2>1, <2>2
  <2>3. ASSUME NEW g \in 1..2, NEW i \in Slots, Written(s, g, i) PROVE Written(s, g, i)'
    BY <1>1, <2>1, <2>3 DEF Written
  <2>4. /\ Current(s)' /\ rows'[s] \subseteq wanted'[s]
    BY <1>1, <1>7 DEF ShardOK, Current
  <2>5. snap' = 2 => AllWritten(s, 1)'
    BY <1>1, <1>7, <2>1, <2>3 DEF ShardOK, AllWritten
  <2>6. \A i \in wanted'[s] \ rows'[s] : Whole(s, i)'
    BY <1>1, <1>7, <2>1, <2>2 DEF ShardOK, Whole
  <2>7. Counted(s) => Counted(s)'
    <3>1. IsFiniteSet(Back(s))
      <4>1. Back(s) \in SUBSET cq[s]
        BY DEF Back
      <4> QED
        BY <1>3, <4>1, FS_Subset
    <3>2. Back(s)' \in SUBSET (Back(s) \cup {c})
      BY <1>1 DEF Back
    <3>3. /\ IsFiniteSet(Back(s) \cup {c})
          /\ Cardinality(Back(s) \cup {c}) <= Cardinality(Back(s)) + 1
          /\ Cardinality(Back(s)) \in Nat /\ Cardinality(Back(s) \cup {c}) \in Nat
      <4> HIDE DEF c
      <4>1. IsFiniteSet(Back(s) \cup {c}) /\ Cardinality(Back(s)) \in Nat
        BY <3>1, FS_AddElement, FS_CardinalityType
      <4>2. Cardinality(Back(s) \cup {c}) =
              IF c \in Back(s) THEN Cardinality(Back(s)) ELSE Cardinality(Back(s)) + 1
        BY <3>1, FS_AddElement
      <4> QED
        BY <4>1, <4>2, FS_CardinalityType
    <3>4. Cardinality(Back(s)') \in Nat /\ Cardinality(Back(s)') <= Cardinality(Back(s) \cup {c})
      BY <3>2, <3>3, FS_Subset, FS_CardinalityType
    <3>5. Cardinality(wire'[s]) = Cardinality(wire[s]) - 1 /\ Cardinality(wire[s]) \in Nat
      <4>1. Cardinality(wire[s] \ {rd}) = Cardinality(wire[s]) - 1
        BY <1>3, FS_RemoveElement
      <4> QED
        BY <1>1, <1>3, <4>1, FS_CardinalityType
    <3>6. posted'[s] = posted[s] /\ posted[s] \in Nat
      BY <1>1 DEF SrdInv, SrdTypeOK
    <3> HIDE DEF c
    <3> QED
      BY <3>3, <3>4, <3>5, <3>6 DEF Counted
  <2>8. Answered(s) => Answered(s)'
    <3> SUFFICES ASSUME NEW i \in rows[s], Heard(s, i) PROVE Heard(s, i)'
      BY <1>1 DEF Answered
    <3>1. CASE Written(s, snap, i)
      <4>1. buf'[s][snap][i] = [call |-> call, round |-> reread]
        BY <2>1, <3>1 DEF Written
      <4> QED
        BY <1>1, <4>1 DEF Heard, Written
    <3>2. CASE \E d \in Back(s) : ~d.ok
      BY <1>1, <3>2 DEF Back, Heard
    <3>3. CASE \E r \in wire[s] : r.row = i
      <4>1. PICK r \in wire[s] : r.row = i
        BY <3>3
      <4>2. CASE r # rd
        BY <1>1, <4>1, <4>2 DEF Heard
      <4>3. CASE r = rd /\ ok
        <5>1. buf'[s][snap][i] = [call |-> call, round |-> reread]
          BY <2>1, <4>1, <4>3
        <5> QED
          BY <1>1, <5>1 DEF Heard, Written
      <4>4. CASE r = rd /\ ~ok
        <5>1. c \in Back(s)' /\ ~c.ok
          BY <1>1, <2>1, <4>4 DEF Back
        <5> QED
          BY <5>1 DEF Heard
      <4> QED
        BY <4>2, <4>3, <4>4
    <3> QED
      BY <3>1, <3>2, <3>3 DEF Heard
  <2>9. (Drains(s) => Drains(s)') /\ (HasDrained(s) => HasDrained(s)')
    BY <1>2, <1>5, <2>7, <2>8 DEF Drains, HasDrained
  <2> QED
    BY <1>1, <1>4, <1>5, <1>7, <2>4, <2>5, <2>6, <2>9 DEF ShardOK
<1> QED
  BY <1>6, <1>7

\* A READ touches its own shard only.
LEMMA OtherShard ==
  ASSUME SrdInv, NEW s \in Shards, NEW rd \in wire[s], NEW ok \in BOOLEAN,
         Complete(s, rd, ok), NEW t \in Shards, t # s, buf'[t] = buf[t]
  PROVE  ShardOK(t)'
<1>1. /\ ShardOK(t) /\ wire'[t] = wire[t] /\ cq'[t] = cq[t]
      /\ UNCHANGED <<phase, cursor, snap, rows, posted, tag, reread, call, wanted, outcome>>
  BY DEF SrdInv, SrdTypeOK, Complete, callVars
<1>2. (bad' <=> bad) /\ (GivenUp(t)' <=> GivenUp(t))
  <2>1. UNCHANGED <<bad, failed, poisoned>>
    BY DEF Complete
  <2> QED
    BY <2>1 DEF GivenUp
<1>3. DeviceOK(t)' /\ Current(t)' = Current(t) /\ (Quiet(t)' <=> Quiet(t))
  BY <1>1 DEF ShardOK, DeviceOK, Current, Quiet, Back
<1>4. /\ \A g \in 1..2 : AllWritten(t, g)' <=> AllWritten(t, g)
      /\ AllWritten(t, snap)' <=> AllWritten(t, snap)
      /\ \A i : Whole(t, i)' <=> Whole(t, i)
  BY <1>1 DEF AllWritten, Written, Whole
<1>5. (Drains(t) => Drains(t)') /\ (HasDrained(t) => HasDrained(t)')
  BY <1>1, <1>2, <1>3, <1>4 DEF Drains, HasDrained, Counted, Back, Answered, Heard, Written
<1> QED
  BY <1>1, <1>2, <1>3, <1>4, <1>5 DEF ShardOK

LEMMA ReadStep ==
  ASSUME SrdInv, NEW s \in Shards, LandRead(s) \/ FailRead(s), NEW t \in Shards
  PROVE  ShardOK(t)'
<1>1. CASE LandRead(s)
  <2>1. PICK rd \in wire[s] :
          /\ buf' = [buf EXCEPT ![s][rd.snap][rd.row] = [call |-> rd.call, round |-> rd.round]]
          /\ Complete(s, rd, TRUE)
    BY <1>1 DEF LandRead
  <2>2. buf \in [Shards -> [1..2 -> [Slots -> Source]]] /\ rd.snap \in 1..2 /\ rd.row \in Slots
    BY DEF SrdInv, SrdTypeOK, Read
  <2>3. \A g \in 1..2 : \A i \in Slots :
          buf'[s][g][i] = IF TRUE /\ g = rd.snap /\ i = rd.row
                          THEN [call |-> rd.call, round |-> rd.round] ELSE buf[s][g][i]
    BY <2>1, <2>2
  <2>4. t # s => buf'[t] = buf[t]
    BY <2>1, <2>2
  <2>5. CASE t = s
    BY <2>1, <2>3, <2>5, DeviceStep
  <2>6. CASE t # s
    BY <2>1, <2>4, <2>6, OtherShard
  <2> QED
    BY <2>5, <2>6
<1>2. CASE FailRead(s)
  <2>1. PICK rd \in wire[s] : Complete(s, rd, FALSE) /\ UNCHANGED buf
    BY <1>2 DEF FailRead
  <2> QED
    BY <2>1, DeviceStep, OtherShard
<1> QED
  BY <1>1, <1>2

\* A forced shard has failed: the drain that forced it is still at it.
LEMMA ForcedStep ==
  ASSUME SrdInv, [SrdNext]_gvars
  PROVE  forced' => phase' = "drain" /\ failed'[cursor']
<1> SUFFICES ASSUME forced' PROVE phase' = "drain" /\ failed'[cursor']
  OBVIOUS
<1>0. /\ failed \in [Shards -> BOOLEAN] /\ cursor \in Shards
      /\ forced => phase = "drain" /\ failed[cursor]
  BY DEF SrdInv, SrdTypeOK, SrdFlagsOK
<1>1. ASSUME UNCHANGED <<phase, cursor, forced, failed>> PROVE phase' = "drain" /\ failed'[cursor']
  BY <1>0, <1>1, Zenon
<1>2. ASSUME NEW e, NextDrain(e) PROVE FALSE
  BY <1>2, Zenon DEF NextDrain
<1>3. ASSUME NEW n \in NodeCounts, Gather(n) PROVE FALSE
  <2>1. phase = "idle" /\ forced' = forced
    BY <1>3, Zenon DEF Gather
  <2> QED
    BY <1>0, <2>1
<1>4. CASE PostSnapshot
  <2>1. phase = "post" /\ forced' = forced
    BY <1>4, Zenon DEF PostSnapshot
  <2> QED
    BY <1>0, <2>1
<1>5. CASE Drained
  BY <1>2, <1>5 DEF Drained
<1>6. CASE Reap
  BY <1>1, <1>6, Zenon DEF Reap
<1>7. CASE PollFails
  BY <1>2, <1>7 DEF PollFails
<1>8. CASE Deadline
  <2>1. phase = "drain"
    BY <1>8, Zenon DEF Deadline
  <2>2. CASE /\ failed' = [failed EXCEPT ![cursor] = TRUE]
             /\ UNCHANGED <<phase, cursor, snap, rows, posted, outcome, poisoned>>
    BY <1>0, <2>1, <2>2
  <2> QED
    BY <1>2, <1>8, <2>2, Zenon DEF Deadline
<1>9. CASE CheckRows
  <2>1. phase = "check" /\ forced' = forced
    BY <1>9, Zenon DEF CheckRows
  <2> QED
    BY <1>0, <2>1
<1>10. ASSUME NEW s \in Shards, LandRead(s) \/ FailRead(s)
       PROVE  phase' = "drain" /\ failed'[cursor']
  BY <1>1, <1>10, Zenon DEF LandRead, FailRead, Complete
<1>11. CASE UNCHANGED gvars
  BY <1>1, <1>11, Zenon DEF gvars
<1> QED
  BY <1>3, <1>4, <1>5, <1>6, <1>7, <1>8, <1>9, <1>10, <1>11, Zenon DEF SrdNext, ClientStep

\* Between calls, and in the comparison, the loop's cursor is at the first
\* shard, and only a call that is over has succeeded.
LEMMA CallStep ==
  ASSUME SrdInv, [SrdNext]_gvars
  PROVE  /\ outcome' = "ok" => phase' = "idle"
         /\ phase' \in {"idle", "check"} => cursor' = First
<1>0. /\ phase \in {"idle", "post", "drain", "check"}
      /\ outcome = "ok" => phase = "idle"
      /\ phase \in {"idle", "check"} => cursor = First
  BY DEF SrdInv, SrdTypeOK
<1>1. ASSUME NEW n \in NodeCounts, Gather(n)
      PROVE  /\ outcome' = "ok" => phase' = "idle"
             /\ phase' \in {"idle", "check"} => cursor' = First
  BY <1>0, <1>1 DEF Gather
<1>2. CASE PostSnapshot
  BY <1>0, <1>2 DEF PostSnapshot, callVars
<1>3. ASSUME NEW e, NextDrain(e), phase = "drain"
      PROVE  /\ outcome' = "ok" => phase' = "idle"
             /\ phase' \in {"idle", "check"} => cursor' = First
  BY <1>0, <1>3 DEF NextDrain
<1>4. CASE Drained
  BY <1>3, <1>4 DEF Drained
<1>5. ASSUME UNCHANGED <<phase, cursor, outcome>>
      PROVE  /\ outcome' = "ok" => phase' = "idle"
             /\ phase' \in {"idle", "check"} => cursor' = First
  BY <1>0, <1>5
<1>6. CASE Reap
  BY <1>5, <1>6 DEF Reap, callVars
<1>7. CASE PollFails
  BY <1>3, <1>7 DEF PollFails
<1>8. CASE Deadline
  BY <1>3, <1>5, <1>8 DEF Deadline
<1>9. CASE CheckRows
  BY <1>0, <1>9 DEF CheckRows
<1>10. ASSUME NEW s \in Shards, LandRead(s) \/ FailRead(s)
       PROVE  /\ outcome' = "ok" => phase' = "idle"
              /\ phase' \in {"idle", "check"} => cursor' = First
  BY <1>5, <1>10 DEF LandRead, FailRead, Complete, callVars
<1>11. CASE UNCHANGED gvars
  BY <1>5, <1>11 DEF gvars
<1> QED
  BY <1>1, <1>2, <1>4, <1>6, <1>7, <1>8, <1>9, <1>10, <1>11 DEF SrdNext, ClientStep

LEMMA SrdStep == SrdInv /\ [SrdNext]_gvars => SrdInv'
<1> SUFFICES ASSUME SrdInv, [SrdNext]_gvars PROVE SrdInv'
  OBVIOUS
<1>1. SrdTypeOK' /\ SrdFlagsOK'
  BY SrdTypeStep, SrdFlagsStep DEF SrdInv
<1>2. ASSUME NEW s \in Shards PROVE ShardOK(s)'
  <2>1. ASSUME NEW n \in NodeCounts, Gather(n) PROVE ShardOK(s)'
    BY <1>1, <2>1, GatherStep
  <2>2. CASE PostSnapshot
    BY <1>1, <2>2, PostStep
  <2>3. CASE Drained
    BY <2>3, DrainedStep
  <2>4. CASE Reap
    BY <1>1, <2>4, ReapStep
  <2>5. CASE PollFails
    BY <2>5, PollFailsStep
  <2>6. CASE Deadline
    BY <2>6, DeadlineStep
  <2>7. CASE CheckRows
    BY <2>7, CheckRowsStep
  <2>8. ASSUME NEW t \in Shards, LandRead(t) \/ FailRead(t) PROVE ShardOK(s)'
    BY <2>8, ReadStep
  <2>9. CASE UNCHANGED gvars
    <3>1. ShardOK(s)
      BY DEF SrdInv
    <3> QED
      BY <2>9, <3>1, Zenon
      DEF gvars, ShardOK, DeviceOK, Quiet, GivenUp, Back, Current, AllWritten, Written, Whole,
          Drains, HasDrained, Counted, Answered, Heard
  <2> QED
    BY <2>1, <2>2, <2>3, <2>4, <2>5, <2>6, <2>7, <2>8, <2>9, Zenon DEF SrdNext, ClientStep
<1> QED
  BY <1>1, <1>2, ForcedStep, CallStep, Zenon DEF SrdInv

LEMMA SrdStart == SrdInit => SrdInv
<1> SUFFICES ASSUME SrdInit PROVE SrdInv
  OBVIOUS
<1>1. SrdTypeOK
  <2>1. [i \in Slots |-> Unread] \in [Slots -> Source]
    BY DEF Unread, Source
  <2>2. [g \in 1..2 |-> [i \in Slots |-> Unread]] \in [1..2 -> [Slots -> Source]]
    BY <2>1
  <2>3. buf \in [Shards -> [1..2 -> [Slots -> Source]]]
    BY <2>2 DEF SrdInit
  <2>4. /\ wanted \in [Shards -> SUBSET Slots] /\ rows \in [Shards -> SUBSET Slots]
        /\ wire \in [Shards -> SUBSET Read] /\ cq \in [Shards -> SUBSET Done]
        /\ posted \in [Shards -> Nat] /\ tag \in [Shards -> Nat]
    BY DEF SrdInit
  <2>5. /\ phase = "idle" /\ cursor \in Shards /\ snap \in 1..2 /\ reread \in Nat
        /\ call \in Nat /\ outcome = "none"
    BY Shards1 DEF SrdInit
  <2> QED
    BY <2>3, <2>4, <2>5 DEF SrdTypeOK
<1>2. SrdFlagsOK
  BY Zenon DEF SrdInit, SrdFlagsOK
<1>3. \A s \in Shards : ShardOK(s)
  BY FS_EmptySet DEF SrdInit, ShardOK, DeviceOK, Quiet, Back
<1>4. ~forced
  BY Zenon DEF SrdInit
<1> QED
  BY <1>1, <1>2, <1>3, <1>4 DEF SrdInit, SrdInv

\* The client's variables keep their types (srd.rs, SrdFeatureClient).
THEOREM SrdTypeCorrect == SrdSpec => [](SrdTypeOK /\ SrdFlagsOK)
<1>1. SrdInv => SrdTypeOK /\ SrdFlagsOK
  BY DEF SrdInv
<1> QED
  BY <1>1, SrdStart, SrdStep, PTL DEF SrdSpec

\* A READ that may still write the staging rows between two calls belongs to a
\* shard that is poisoned, so its buffer is never freed, and failed, so it is
\* never gathered from again (srd.rs, drain and Drop), for any number of shards.
THEOREM QuietOrPoisonedAlways == SrdSpec => []QuietOrPoisoned
<1>1. SrdInv => QuietOrPoisoned
  BY DEF SrdInv, ShardOK, Quiet, GivenUp, QuietOrPoisoned
<1> QED
  BY <1>1, SrdStart, SrdStep, PTL DEF SrdSpec

\* The rows of a successful gather were written by READs of that call, both
\* regions in one round, and no second READ of a row is out before its first
\* has landed (srd.rs, post_snapshot, drain, torn_rows).
THEOREM SnapshotsApartAlways == SrdSpec => []SnapshotsApart
<1>1. SrdInv => SnapshotsApart
  <2> SUFFICES ASSUME SrdInv PROVE SnapshotsApart
    OBVIOUS
  <2>1. \A s \in Shards : ShardOK(s)
    BY DEF SrdInv
  <2>2. outcome = "ok" => \A s \in Shards : \A i \in wanted[s] :
          buf[s][1][i].call = call /\ buf[s][2][i] = buf[s][1][i]
    BY <2>1 DEF ShardOK, Whole
  <2>3. ASSUME phase # "idle", NEW s \in Shards, NEW rd \in wire[s], rd.snap = 2
        PROVE  /\ ~ \E e \in wire[s] : e.snap = 1
               /\ buf[s][1][rd.row] = [call |-> call, round |-> reread]
    <3>1. Current(s) /\ (snap = 2 => AllWritten(s, 1))
      BY <2>1, <2>3 DEF ShardOK
    <3> QED
      BY <2>3, <3>1 DEF Current, AllWritten, Written
  <2> QED
    BY <2>2, <2>3 DEF SnapshotsApart
<1> QED
  BY <1>1, SrdStart, SrdStep, PTL DEF SrdSpec

-----------------------------------------------------------------------------
(* The pool of queue pairs.                                                 *)

Anyone == Callers \cup {NoCaller}
Job == [caller : Anyone, left : Nat]
Request == [caller : Anyone, signaled : BOOLEAN]
Completion == [caller : Anyone, ok : BOOLEAN]
PollingStates == {"spin", "arm", "wait"}
WorkerStates == {"recv", "post", "marker", "quiesce", "reply", "exit"} \cup PollingStates

PoolTypeOK ==
  /\ cpc \in [Callers -> {"idle", "send", "await"}]
  /\ cjob \in [Callers -> [shard : Pairs, reads : Nat]]
  /\ jobs \in Nat /\ turn \in Pairs
  /\ queue \in [Pairs -> Seq(Job)] /\ job \in [Pairs -> Job]
  /\ wstate \in [Pairs -> WorkerStates]
  /\ sendq \in [Pairs -> Seq(Request)] /\ compq \in [Pairs -> Seq(Completion)]

\* Nothing of the shard is with the device.
Clear(s) == sendq[s] = <<>> /\ compq[s] = <<>>

\* While a window is out only its last READ is signaled, so a good completion
\* comes alone and last.
WindowOut(s) ==
  /\ \A i \in 1 .. Len(sendq[s]) : sendq[s][i].signaled => i = Len(sendq[s])
  /\ compq[s] # <<>> /\ compq[s][1].ok => Len(compq[s]) = 1 /\ sendq[s] = <<>>

\* All the device holds of the shard is of the caller it serves.
Own(s) ==
  /\ \A i \in 1 .. Len(sendq[s]) : sendq[s][i].caller = job[s].caller
  /\ \A i \in 1 .. Len(compq[s]) : compq[s][i].caller = job[s].caller

\* The marker is behind everything else: last to be sent, or last to complete.
MarkerLast(s) ==
  LET Q == sendq[s]
      C == compq[s]
  IN \/ /\ Q # <<>> /\ Q[Len(Q)] = Marker
        /\ \A i \in 1 .. Len(Q) : i # Len(Q) => Q[i].caller = job[s].caller
        /\ \A i \in 1 .. Len(C) : C[i].caller = job[s].caller
     \/ /\ Q = <<>> /\ C # <<>> /\ C[Len(C)].caller = NoCaller
        /\ \A i \in 1 .. Len(C) : i # Len(C) => C[i].caller = job[s].caller

WorkerOK(s) ==
  /\ wstate[s] \in {"recv", "post", "reply", "exit"} => Clear(s)
  /\ wstate[s] \in PollingStates => WindowOut(s)
  /\ wstate[s] \in PollingStates \cup {"marker"} => Own(s)
  /\ wstate[s] = "quiesce" => MarkerLast(s)
  /\ job[s].caller = NoCaller <=> wstate[s] \in {"recv", "exit"}

\* A caller's batch is in one place: the channel of its shard or its worker.
BatchesOK(s) ==
  /\ \A i \in 1 .. Len(queue[s]) : queue[s][i].caller # NoCaller =>
       /\ cpc[queue[s][i].caller] = "await" /\ cjob[queue[s][i].caller].shard = s
       /\ job[s].caller # queue[s][i].caller
       /\ \A j \in 1 .. Len(queue[s]) : queue[s][j].caller = queue[s][i].caller => j = i
  /\ job[s].caller # NoCaller =>
       cpc[job[s].caller] = "await" /\ cjob[job[s].caller].shard = s

PoolInv == PoolTypeOK /\ \A s \in Pairs : WorkerOK(s) /\ BatchesOK(s)

LEMMA TailOf ==
  ASSUME NEW S, NEW q \in Seq(S), q # <<>>
  PROVE  /\ Tail(q) \in Seq(S) /\ Len(Tail(q)) = Len(q) - 1 /\ Len(q) \in Nat \ {0}
         /\ Head(q) \in S /\ Head(q) = q[1]
         /\ \A i \in 1 .. Len(Tail(q)) : Tail(q)[i] = q[i + 1]
         /\ Tail(q) = <<>> <=> Len(q) = 1
<1>1. /\ Tail(q) \in Seq(S) /\ Len(Tail(q)) = Len(q) - 1 /\ Head(q) \in S
      /\ \A i \in 1 .. Len(Tail(q)) : Tail(q)[i] = q[i + 1]
  BY HeadTailProperties
<1>2. Len(q) \in Nat \ {0}
  BY EmptySeq
<1>3. Tail(q) = <<>> <=> Len(q) = 1
  <2>1. Tail(q) # <<>> => Len(Tail(q)) \in Nat \ {0}
    BY <1>1, EmptySeq
  <2>2. Tail(q) = <<>> => Len(Tail(q)) = 0
    BY EmptySeq
  <2> QED
    BY <1>1, <1>2, <2>1, <2>2
<1> QED
  BY <1>1, <1>2, <1>3

LEMMA AppendOf ==
  ASSUME NEW S, NEW q \in Seq(S), NEW e \in S
  PROVE  /\ Append(q, e) \in Seq(S) /\ Append(q, e) # <<>>
         /\ Len(Append(q, e)) = Len(q) + 1 /\ Len(q) \in Nat
         /\ \A i \in 1 .. Len(q) : Append(q, e)[i] = q[i]
         /\ Append(q, e)[Len(q) + 1] = e
<1> QED
  BY AppendProperties, LenProperties

\* There is a least shard among those the round robin may take.
LEMMA LeastPair ==
  ASSUME NEW order \in SUBSET Pairs, order # {}
  PROVE  \E k \in order : \A j \in order : k <= j
<1>1. order \subseteq Nat
  BY PoolAssumption DEF Pairs
<1>2. IsWellFoundedOn(OpToRel(<, Nat), Nat)
  BY NatLessThanWellFounded
<1>3. PICK k \in order : \A j \in order : ~(<<j, k>> \in OpToRel(<, Nat))
  BY <1>1, <1>2, WFMin
<1>4. ASSUME NEW j \in order PROVE k <= j
  <2>1. j \in Nat /\ k \in Nat
    BY <1>1
  <2>2. j < k => <<j, k>> \in OpToRel(<, Nat)
    BY <2>1 DEF OpToRel
  <2>3. ~(j < k)
    BY <1>3, <2>2, Zenon
  <2> QED
    BY <2>1, <2>3
<1> QED
  BY <1>4

LEMMA PoolTypesStep == PoolTypeOK /\ [PoolNext]_pvars => PoolTypeOK'
<1> SUFFICES ASSUME PoolTypeOK, [PoolNext]_pvars PROVE PoolTypeOK'
  OBVIOUS
<1> USE DEF PoolTypeOK
<1>0. NoCaller \in Anyone /\ NoCaller \notin Callers /\ Callers \subseteq Anyone
  BY PoolAssumption DEF Anyone
<1>1. CASE DropPool
  <2>1. UNCHANGED <<cpc, cjob, jobs, turn, wstate, job, sendq, compq>>
    BY <1>1 DEF DropPool, nicVars
  <2>2. [caller |-> NoCaller, left |-> 0] \in Job
    BY <1>0 DEF Job
  <2>3. \A s \in Pairs : Append(queue[s], [caller |-> NoCaller, left |-> 0]) \in Seq(Job)
    BY <2>2, AppendOf
  <2>4. queue' \in [Pairs -> Seq(Job)]
    BY <1>1, <2>3, Zenon DEF DropPool
  <2> QED
    BY <2>1, <2>4
<1>2. ASSUME NEW c \in Callers, NEW n \in JobSizes, Submit(c, n) PROVE PoolTypeOK'
  <2>1. UNCHANGED <<queue, job, wstate, sendq, compq>> /\ jobs' \in Nat
    BY <1>2 DEF Submit, workerVars, nicVars
  <2>2. \A k \in Pairs : (turn + k) % NumShards \in Pairs
    BY PoolAssumption DEF Pairs
  <2>3. turn' \in Pairs
    BY <1>2, PoolAssumption DEF Submit, Pairs
  <2>4. CASE UNCHANGED <<cpc, cjob>>
    BY <2>1, <2>3, <2>4
  <2>5. ASSUME NEW k \in Pairs,
               cjob' = [cjob EXCEPT ![c] = [shard |-> (turn + k) % NumShards, reads |-> n]],
               cpc' = [cpc EXCEPT ![c] = "send"]
        PROVE  PoolTypeOK'
    <3>1. n \in Nat
      BY PoolAssumption
    <3> QED
      BY <2>1, <2>2, <2>3, <2>5, <3>1
  <2>6. UNCHANGED <<cpc, cjob>> \/
        \E k \in Pairs : 
          /\ cjob' = [cjob EXCEPT ![c] = [shard |-> (turn + k) % NumShards, reads |-> n]]
          /\ cpc' = [cpc EXCEPT ![c] = "send"]
    <3> DEFINE order == {k \in Pairs : ~dead[(turn + k) % NumShards]}
               first == CHOOSE k \in order : \A j \in order : k <= j
    <3>1. CASE order = {}
      BY <1>2, <3>1 DEF Submit
    <3>2. CASE order # {}
      <4>1. /\ cjob' = [cjob EXCEPT ![c] = [shard |-> (turn + first) % NumShards, reads |-> n]]
            /\ cpc' = [cpc EXCEPT ![c] = "send"]
        BY <1>2, <3>2, Zenon DEF Submit
      <4>2. \E k \in order : \A j \in order : k <= j
        BY <3>2, LeastPair
      <4>3. first \in Pairs
        BY <4>2
      <4> QED
        BY <4>1, <4>3
    <3> QED
      BY <3>1, <3>2
  <2> QED
    BY <2>4, <2>5, <2>6
<1>3. ASSUME NEW c \in Callers, Send(c) PROVE PoolTypeOK'
  <2>1. UNCHANGED <<cjob, jobs, turn, wstate, job, sendq, compq>>
    BY <1>3 DEF Send, nicVars
  <2>2. [caller |-> c, left |-> cjob[c].reads] \in Job /\ cjob[c].shard \in Pairs
    BY <1>0 DEF Job
  <2>3. Append(queue[cjob[c].shard], [caller |-> c, left |-> cjob[c].reads]) \in Seq(Job)
    BY <2>2, AppendOf
  <2>4. queue' \in [Pairs -> Seq(Job)] /\ cpc' \in [Callers -> {"idle", "send", "await"}]
    BY <1>3, <2>2, <2>3 DEF Send
  <2> QED
    BY <2>1, <2>4
<1> USE DEF WorkerStates, PollingStates
<1>4. ASSUME NEW s \in Pairs, Receive(s) PROVE PoolTypeOK'
  <2>1. UNCHANGED <<cpc, cjob, jobs, turn, sendq, compq>>
    BY <1>4 DEF Receive, callerVars, nicVars
  <2>2. Tail(queue[s]) \in Seq(Job) /\ Head(queue[s]) \in Job
    BY <1>4, TailOf DEF Receive
  <2>3. queue' \in [Pairs -> Seq(Job)] /\ job' \in [Pairs -> Job]
    BY <1>4, <2>2 DEF Receive
  <2>4. wstate' \in [Pairs -> WorkerStates]
    BY <1>4 DEF Receive
  <2> QED
    BY <2>1, <2>3, <2>4
<1>5. ASSUME NEW s \in Pairs, PostWindow(s) PROVE PoolTypeOK'
  <2>1. UNCHANGED <<cpc, cjob, jobs, turn, queue, compq>>
    BY <1>5 DEF PostWindow, callerVars
  <2>2. Window(s) \in Nat /\ job[s].left - Window(s) \in Nat /\ job[s].caller \in Anyone
    BY PoolAssumption DEF Window, Job
  <2>3. PICK k \in 0 .. Window(s) :
          /\ sendq' = [sendq EXCEPT ![s] = @ \o [i \in 1 .. k |->
                         [caller |-> job[s].caller, signaled |-> i = Window(s)]]]
          /\ job' = [job EXCEPT ![s].left = @ - Window(s)]
          /\ \/ wstate' = [wstate EXCEPT ![s] = "spin"]
             \/ wstate' = [wstate EXCEPT ![s] = "marker"]
    BY <1>5 DEF PostWindow, Fail
  <2>4. [i \in 1 .. k |-> [caller |-> job[s].caller, signaled |-> i = Window(s)]] \in Seq(Request)
    <3>1. \A i \in 1 .. k : [caller |-> job[s].caller, signaled |-> i = Window(s)] \in Request
      BY <2>2 DEF Request
    <3>2. k \in Nat
      BY <2>2
    <3>3. [i \in 1 .. k |-> [caller |-> job[s].caller, signaled |-> i = Window(s)]]
            \in [1 .. k -> Request]
      BY <3>1, Zenon
    <3> QED
      BY <3>2, <3>3, SeqDef
  <2>5. sendq' \in [Pairs -> Seq(Request)]
    BY <2>3, <2>4, ConcatProperties
  <2>6. job' \in [Pairs -> Job]
    <3>1. [job[s] EXCEPT !.left = @ - Window(s)] \in Job
      BY <2>2 DEF Job
    <3>2. job' = [job EXCEPT ![s] = [job[s] EXCEPT !.left = @ - Window(s)]]
      BY <2>3
    <3> QED
      BY <3>1, <3>2
  <2>7. wstate' \in [Pairs -> WorkerStates]
    BY <2>3
  <2> QED
    BY <2>1, <2>5, <2>6, <2>7
<1>6. ASSUME NEW s \in Pairs, PollSome(s) \/ Quiesce(s) PROVE PoolTypeOK'
  <2>1. UNCHANGED <<cpc, cjob, jobs, turn, queue, job, sendq>> /\ compq[s] # <<>>
    BY <1>6 DEF PollSome, Quiesce, callerVars
  <2>2. Tail(compq[s]) \in Seq(Completion)
    BY <2>1, TailOf
  <2>3. compq' \in [Pairs -> Seq(Completion)]
    BY <1>6, <2>2 DEF PollSome, Quiesce
  <2>4. wstate' \in [Pairs -> WorkerStates]
    BY <1>6 DEF PollSome, Quiesce, Fail
  <2> QED
    BY <2>1, <2>3, <2>4
<1>7. ASSUME NEW s \in Pairs, PollEmpty(s) \/ Arm(s) \/ Wake(s) \/ GiveUp(s) \/ Abort(s)
      PROVE  PoolTypeOK'
  <2>1. UNCHANGED <<cpc, cjob, jobs, turn, queue, job, sendq, compq>>
    BY <1>7 DEF PollEmpty, Arm, Wake, GiveUp, Abort, callerVars, nicVars
  <2>2. wstate' \in [Pairs -> WorkerStates]
    BY <1>7 DEF PollEmpty, Arm, Wake, GiveUp, Abort, Fail
  <2> QED
    BY <2>1, <2>2
<1>8. ASSUME NEW s \in Pairs, PostMarker(s) PROVE PoolTypeOK'
  <2>1. UNCHANGED <<cpc, cjob, jobs, turn, queue, job, compq>>
    BY <1>8 DEF PostMarker, callerVars
  <2>2. Marker \in Request
    BY <1>0 DEF Marker, Request
  <2>3. Append(sendq[s], Marker) \in Seq(Request)
    BY <2>2, AppendOf
  <2>4. sendq' \in [Pairs -> Seq(Request)] /\ wstate' \in [Pairs -> WorkerStates]
    BY <1>8, <2>3 DEF PostMarker
  <2> QED
    BY <2>1, <2>4
<1>9. ASSUME NEW s \in Pairs, Reply(s) PROVE PoolTypeOK'
  <2>1. UNCHANGED <<cjob, jobs, turn, queue, sendq, compq>>
    BY <1>9 DEF Reply, nicVars
  <2>2. [caller |-> NoCaller, left |-> 0] \in Job
    BY <1>0 DEF Job
  <2>3. /\ cpc' \in [Callers -> {"idle", "send", "await"}] /\ job' \in [Pairs -> Job]
        /\ wstate' \in [Pairs -> WorkerStates]
    BY <1>9, <2>2 DEF Reply
  <2> QED
    BY <2>1, <2>3
<1>10. ASSUME NEW s \in Pairs, NicComplete(s) PROVE PoolTypeOK'
  <2>1. UNCHANGED <<cpc, cjob, jobs, turn, queue, wstate, job>> /\ sendq[s] # <<>>
    BY <1>10 DEF NicComplete, workerVars, callerVars
  <2>2. Tail(sendq[s]) \in Seq(Request) /\ Head(sendq[s]) \in Request
    BY <2>1, TailOf
  <2>3. sendq' \in [Pairs -> Seq(Request)]
    BY <1>10, <2>2 DEF NicComplete
  <2>4. ASSUME NEW ok \in BOOLEAN, Entry(s, Head(sendq[s]), ok)
        PROVE  compq' \in [Pairs -> Seq(Completion)]
    <3>1. [caller |-> Head(sendq[s]).caller, ok |-> ok] \in Completion
      BY <2>2 DEF Request, Completion
    <3>2. Append(compq[s], [caller |-> Head(sendq[s]).caller, ok |-> ok]) \in Seq(Completion)
      BY <3>1, AppendOf
    <3> QED
      BY <2>4, <3>2 DEF Entry
  <2>5. compq' \in [Pairs -> Seq(Completion)]
    BY <1>10, <2>4, Zenon DEF NicComplete
  <2> QED
    BY <2>1, <2>3, <2>5
<1>11. CASE UNCHANGED pvars
  BY <1>11 DEF pvars
<1> QED
  BY <1>1, <1>2, <1>3, <1>4, <1>5, <1>6, <1>7, <1>8, <1>9, <1>10, <1>11, Zenon
  DEF PoolNext, CallerStep, WorkerStep

\* What the proof reads of a shard is untouched by the other shards.
LEMMA SameWorker ==
  ASSUME NEW s, WorkerOK(s), sendq'[s] = sendq[s], compq'[s] = compq[s],
         wstate'[s] = wstate[s], job'[s].caller = job[s].caller
  PROVE  WorkerOK(s)'
<1> QED
  BY DEF WorkerOK, Clear, WindowOut, Own, MarkerLast

LEMMA SameBatches ==
  ASSUME NEW s, BatchesOK(s), UNCHANGED <<cpc, cjob>>, queue'[s] = queue[s],
         job'[s].caller = job[s].caller
  PROVE  BatchesOK(s)'
<1> QED
  BY DEF BatchesOK

LEMMA PoolSeqs ==
  ASSUME PoolTypeOK, NEW s \in Pairs
  PROVE  /\ sendq[s] \in Seq(Request) /\ Len(sendq[s]) \in Nat
         /\ compq[s] \in Seq(Completion) /\ Len(compq[s]) \in Nat
         /\ queue[s] \in Seq(Job) /\ Len(queue[s]) \in Nat
         /\ sendq[s] # <<>> => Len(sendq[s]) > 0
         /\ compq[s] # <<>> => Len(compq[s]) > 0
         /\ queue[s] # <<>> => Len(queue[s]) > 0
<1>1. sendq[s] \in Seq(Request) /\ compq[s] \in Seq(Completion) /\ queue[s] \in Seq(Job)
  BY DEF PoolTypeOK
<1> QED
  BY <1>1, EmptySeq, LenProperties

\* A window goes out behind nothing: all of it, or the part before a refusal.
LEMMA PostWindowOK ==
  ASSUME PoolInv, PoolTypeOK', NEW s \in Pairs, PostWindow(s)
  PROVE  WorkerOK(s)'
<1>1. PICK k \in 0 .. Window(s) :
        /\ sendq' = [sendq EXCEPT ![s] = @ \o [i \in 1 .. k |->
                       [caller |-> job[s].caller, signaled |-> i = Window(s)]]]
        /\ job' = [job EXCEPT ![s].left = @ - Window(s)]
        /\ IF k = Window(s) THEN wstate' = [wstate EXCEPT ![s] = "spin"]
                            ELSE wstate' = [wstate EXCEPT ![s] = "marker"]
        /\ compq' = compq /\ wstate[s] = "post"
  BY DEF PostWindow, Fail
<1>2. /\ Window(s) \in Nat /\ k \in Nat /\ job[s] \in Job /\ WorkerOK(s) /\ Clear(s)
  <2>1. Window(s) \in Nat /\ job[s] \in Job
    BY PoolAssumption DEF Window, Job, PoolInv, PoolTypeOK
  <2> QED
    BY <1>1, <2>1 DEF PoolInv, WorkerOK
<1> DEFINE F == [i \in 1 .. k |-> [caller |-> job[s].caller, signaled |-> i = Window(s)]]
<1>3. F \in Seq(Request) /\ Len(F) = k
  <2>1. \A i \in 1 .. k : [caller |-> job[s].caller, signaled |-> i = Window(s)] \in Request
    BY <1>2 DEF Request, Job
  <2>2. F \in [1 .. k -> Request]
    BY <2>1, Zenon
  <2>3. F \in Seq(Request)
    BY <1>2, <2>2, SeqDef
  <2>4. DOMAIN F = 1 .. k /\ DOMAIN F = 1 .. Len(F) /\ Len(F) \in Nat
    BY <2>3, LenProperties
  <2> HIDE DEF F
  <2> QED
    BY <1>2, <2>3, <2>4
<1>4. \A i \in 1 .. k : F[i].caller = job[s].caller /\ (F[i].signaled <=> i = Window(s))
  OBVIOUS
<1> HIDE DEF F
<1>5. sendq'[s] = F
  <2>1. sendq[s] = <<>> /\ sendq'[s] = sendq[s] \o F
    BY <1>1, <1>2 DEF Clear, PoolInv, PoolTypeOK, F
  <2> QED
    BY <1>3, <2>1, ConcatEmptySeq
<1>6. /\ compq'[s] = <<>> /\ job'[s].caller = job[s].caller
      /\ wstate'[s] = (IF k = Window(s) THEN "spin" ELSE "marker")
      /\ job[s].caller # NoCaller
  <2>1. job[s].caller # NoCaller /\ compq[s] = <<>>
    BY <1>1, <1>2 DEF WorkerOK, Clear
  <2>2. job'[s].caller = job[s].caller
    BY <1>1, <1>2 DEF PoolInv, PoolTypeOK, Job
  <2>3. wstate'[s] = (IF k = Window(s) THEN "spin" ELSE "marker")
    BY <1>1 DEF PoolInv, PoolTypeOK
  <2> QED
    BY <1>1, <2>1, <2>2, <2>3
<1>7. Own(s)'
  BY <1>3, <1>4, <1>5, <1>6, EmptySeq DEF Own
<1>8. k = Window(s) => WindowOut(s)'
  <2>1. k = Window(s) => \A i \in 1 .. Len(sendq'[s]) : sendq'[s][i].signaled => i = Len(sendq'[s])
    BY <1>3, <1>4, <1>5, Zenon
  <2> QED
    BY <1>6, <2>1 DEF WindowOut
<1> QED
  BY <1>6, <1>7, <1>8 DEF WorkerOK, PollingStates

\* A good completion ends its window, with nothing left behind it.
LEMMA PollSomeOK ==
  ASSUME PoolInv, NEW s \in Pairs, PollSome(s)
  PROVE  WorkerOK(s)'
<1>1. /\ WorkerOK(s) /\ wstate[s] = "spin" /\ compq[s] # <<>> /\ job' = job /\ sendq' = sendq
      /\ compq'[s] = Tail(compq[s])
  BY DEF PollSome, PoolInv, PoolTypeOK
<1>2. /\ Tail(compq[s]) \in Seq(Completion) /\ Len(Tail(compq[s])) = Len(compq[s]) - 1
      /\ Len(compq[s]) \in Nat \ {0} /\ Head(compq[s]) = compq[s][1]
      /\ \A i \in 1 .. Len(Tail(compq[s])) : Tail(compq[s])[i] = compq[s][i + 1]
      /\ Tail(compq[s]) = <<>> <=> Len(compq[s]) = 1
  BY <1>1, PoolSeqs, TailOf DEF PoolInv
<1>3. Own(s)'
  BY <1>1, <1>2 DEF WorkerOK, Own, PollingStates
<1>4. CASE wstate'[s] = "marker"
  BY <1>1, <1>3, <1>4 DEF WorkerOK, PollingStates
<1>5. CASE compq[s][1].ok /\ wstate'[s] \in {"post", "reply"}
  <2>1. Clear(s)'
    BY <1>1, <1>2, <1>5 DEF WorkerOK, WindowOut, Clear, PollingStates
  <2> QED
    BY <1>1, <1>5, <2>1 DEF WorkerOK, PollingStates
<1>6. wstate'[s] = "marker" \/ (compq[s][1].ok /\ wstate'[s] \in {"post", "reply"})
  BY <1>2 DEF PollSome, Fail, PoolInv, PoolTypeOK
<1> QED
  BY <1>4, <1>5, <1>6

LEMMA PostMarkerOK ==
  ASSUME PoolInv, NEW s \in Pairs, PostMarker(s)
  PROVE  WorkerOK(s)'
<1>1. /\ WorkerOK(s) /\ wstate[s] = "marker" /\ wstate'[s] = "quiesce" /\ job' = job
      /\ compq' = compq /\ sendq'[s] = Append(sendq[s], Marker)
  BY DEF PostMarker, PoolInv, PoolTypeOK
<1>2. /\ sendq'[s] # <<>> /\ Len(sendq'[s]) = Len(sendq[s]) + 1 /\ Len(sendq[s]) \in Nat
      /\ \A i \in 1 .. Len(sendq[s]) : sendq'[s][i] = sendq[s][i]
      /\ sendq'[s][Len(sendq[s]) + 1] = Marker
  <2>1. Marker \in Request
    BY DEF Marker, Request, Anyone
  <2> QED
    BY <1>1, <2>1, PoolSeqs, AppendOf DEF PoolInv
<1>3. Own(s)
  BY <1>1 DEF WorkerOK
<1>4. MarkerLast(s)'
  BY <1>1, <1>2, <1>3 DEF Own, MarkerLast
<1> QED
  BY <1>1, <1>4 DEF WorkerOK, PollingStates

\* The marker's completion is the last one: behind it the shard is clear.
LEMMA QuiesceOK ==
  ASSUME PoolInv, NEW s \in Pairs, Quiesce(s)
  PROVE  WorkerOK(s)'
<1>1. /\ WorkerOK(s) /\ wstate[s] = "quiesce" /\ compq[s] # <<>> /\ job' = job /\ sendq' = sendq
      /\ compq'[s] = Tail(compq[s]) /\ MarkerLast(s) /\ job[s].caller # NoCaller
      /\ wstate'[s] = IF Head(compq[s]).caller = NoCaller THEN "reply" ELSE "quiesce"
  BY DEF Quiesce, PoolInv, PoolTypeOK, WorkerOK
<1>2. /\ Len(Tail(compq[s])) = Len(compq[s]) - 1
      /\ Len(compq[s]) \in Nat \ {0} /\ Head(compq[s]) = compq[s][1]
      /\ \A i \in 1 .. Len(Tail(compq[s])) : Tail(compq[s])[i] = compq[s][i + 1]
      /\ Tail(compq[s]) = <<>> <=> Len(compq[s]) = 1
  BY <1>1, PoolSeqs, TailOf DEF PoolInv
<1>3. CASE compq[s][1].caller = NoCaller
  <2>1. Len(compq[s]) = 1 /\ sendq[s] = <<>>
    BY <1>1, <1>2, <1>3 DEF MarkerLast
  <2> QED
    BY <1>1, <1>2, <1>3, <2>1 DEF WorkerOK, Clear, PollingStates
<1>4. CASE compq[s][1].caller # NoCaller
  <2>s. \A i \in 1 .. Len(compq'[s]) :
          /\ i \in Nat /\ i + 1 \in 1 .. Len(compq[s]) /\ compq'[s][i] = compq[s][i + 1]
          /\ Len(compq[s]) = Len(compq'[s]) + 1
    BY <1>1, <1>2
  <2>1. MarkerLast(s)'
    <3>1. CASE /\ sendq[s] # <<>> /\ sendq[s][Len(sendq[s])] = Marker
               /\ \A i \in 1 .. Len(sendq[s]) :
                    i # Len(sendq[s]) => sendq[s][i].caller = job[s].caller
               /\ \A i \in 1 .. Len(compq[s]) : compq[s][i].caller = job[s].caller
      <4>1. \A i \in 1 .. Len(compq'[s]) : compq'[s][i].caller = job'[s].caller
        BY <1>1, <2>s, <3>1
      <4> QED
        BY <1>1, <3>1, <4>1 DEF MarkerLast
    <3>2. CASE /\ sendq[s] = <<>> /\ compq[s][Len(compq[s])].caller = NoCaller
               /\ \A i \in 1 .. Len(compq[s]) :
                    i # Len(compq[s]) => compq[s][i].caller = job[s].caller
      <4>1. Len(compq[s]) # 1
        BY <1>4, <3>2
      <4>2. /\ Len(compq'[s]) \in Nat \ {0} /\ compq'[s] # <<>>
            /\ Len(compq[s]) = Len(compq'[s]) + 1
        BY <1>1, <1>2, <4>1
      <4>3. compq'[s][Len(compq'[s])] = compq[s][Len(compq[s])]
        BY <2>s, <4>2
      <4>4. \A i \in 1 .. Len(compq'[s]) : i # Len(compq'[s]) => compq'[s][i].caller = job'[s].caller
        BY <1>1, <2>s, <3>2, <4>2
      <4> QED
        BY <1>1, <3>2, <4>2, <4>3, <4>4 DEF MarkerLast
    <3> QED
      BY <1>1, <3>1, <3>2 DEF MarkerLast
  <2> QED
    BY <1>1, <1>2, <1>4, <2>1 DEF WorkerOK, PollingStates
<1> QED
  BY <1>3, <1>4

\* The device completes the head of the send queue; after an error only badly.
LEMMA NicOK ==
  ASSUME PoolInv, NEW s \in Pairs, NicComplete(s)
  PROVE  WorkerOK(s)'
<1> DEFINE wr == Head(sendq[s])
           entry(ok) == [caller |-> wr.caller, ok |-> ok]
<1>1. /\ WorkerOK(s) /\ sendq[s] # <<>> /\ UNCHANGED <<wstate, job>>
      /\ sendq'[s] = Tail(sendq[s])
  BY DEF NicComplete, PoolInv, PoolTypeOK, workerVars
<1>2. /\ Len(sendq'[s]) = Len(sendq[s]) - 1 /\ Len(sendq[s]) \in Nat \ {0}
      /\ wr \in Request /\ wr = sendq[s][1]
      /\ \A i \in 1 .. Len(sendq'[s]) : sendq'[s][i] = sendq[s][i + 1]
      /\ sendq'[s] = <<>> <=> Len(sendq[s]) = 1
  BY <1>1, PoolSeqs, TailOf DEF PoolInv
<1>3. /\ compq[s] \in Seq(Completion) /\ Len(compq[s]) \in Nat
      /\ compq[s] # <<>> => Len(compq[s]) > 0
      /\ compq[s] = <<>> => Len(compq[s]) = 0
  BY PoolSeqs, EmptySeq DEF PoolInv
<1>s. ASSUME Own(s)
      PROVE  \A i \in 1 .. Len(sendq'[s]) : sendq'[s][i].caller = job'[s].caller
  <2> SUFFICES ASSUME NEW i \in 1 .. Len(sendq'[s]) PROVE sendq[s][i + 1].caller = job[s].caller
    BY <1>1, <1>2
  <2> QED
    BY <1>2, <1>s DEF Own
<1> HIDE DEF wr
<1>4. ASSUME NEW ok \in BOOLEAN, compq'[s] = Append(compq[s], entry(ok)), ok => wr.signaled
      PROVE  WorkerOK(s)'
  <2>1. entry(ok) \in Completion
    BY <1>2 DEF Request, Completion
  <2>2. /\ compq'[s] # <<>> /\ Len(compq'[s]) = Len(compq[s]) + 1
        /\ \A i \in 1 .. Len(compq[s]) : compq'[s][i] = compq[s][i]
        /\ compq'[s][Len(compq[s]) + 1] = entry(ok)
    BY <1>3, <1>4, <2>1, AppendOf
  <2>3. entry(ok).caller = wr.caller /\ (entry(ok).ok <=> ok)
    OBVIOUS
  <2> HIDE DEF entry
  <2>4. Own(s) => Own(s)'
    <3> SUFFICES ASSUME Own(s) PROVE Own(s)'
      OBVIOUS
    <3>1. wr.caller = job[s].caller /\ \A i \in 1 .. Len(compq[s]) : compq[s][i].caller = job[s].caller
      BY <1>2 DEF Own
    <3>2. ASSUME NEW i \in 1 .. Len(compq'[s]) PROVE compq'[s][i].caller = job'[s].caller
      <4>1. CASE i = Len(compq[s]) + 1
        BY <1>1, <2>2, <2>3, <3>1, <4>1
      <4>2. CASE i \in 1 .. Len(compq[s])
        BY <1>1, <2>2, <3>1, <4>2
      <4> QED
        BY <1>3, <2>2, <4>1, <4>2
    <3> QED
      BY <1>s, <3>2 DEF Own
  <2>5. WindowOut(s) => WindowOut(s)'
    <3> SUFFICES ASSUME WindowOut(s) PROVE WindowOut(s)'
      OBVIOUS
    <3>1. \A i \in 1 .. Len(sendq'[s]) : sendq'[s][i].signaled => i = Len(sendq'[s])
      <4> SUFFICES ASSUME NEW i \in 1 .. Len(sendq'[s]), sendq'[s][i].signaled
                   PROVE  i = Len(sendq'[s])
        OBVIOUS
      <4>1. i + 1 \in 1 .. Len(sendq[s])
        BY <1>2
      <4>2. sendq'[s][i] = sendq[s][i + 1]
        BY <1>2, Zenon
      <4>3. i + 1 = Len(sendq[s])
        BY <4>1, <4>2, Zenon DEF WindowOut
      <4> QED
        BY <1>2, <4>3
    <3>2. CASE compq[s] = <<>>
      <4>1. compq'[s][1] = entry(ok) /\ Len(compq'[s]) = 1
        BY <1>3, <2>2, <3>2
      <4>2. ok => Len(sendq[s]) = 1
        BY <1>2, <1>4 DEF WindowOut
      <4> QED
        BY <1>2, <2>3, <3>1, <4>1, <4>2 DEF WindowOut
    <3>3. CASE compq[s] # <<>>
      <4>1. ~compq[s][1].ok /\ compq'[s][1] = compq[s][1]
        BY <1>1, <1>3, <2>2, <3>3 DEF WindowOut
      <4> QED
        BY <3>1, <4>1 DEF WindowOut
    <3> QED
      BY <3>2, <3>3
  <2>6. MarkerLast(s) => MarkerLast(s)'
    <3> SUFFICES ASSUME MarkerLast(s) PROVE MarkerLast(s)'
      OBVIOUS
    <3>1. /\ sendq[s][Len(sendq[s])] = Marker
          /\ \A i \in 1 .. Len(sendq[s]) : i # Len(sendq[s]) => sendq[s][i].caller = job[s].caller
          /\ \A i \in 1 .. Len(compq[s]) : compq[s][i].caller = job[s].caller
      BY <1>1 DEF MarkerLast
    <3>2. CASE Len(sendq[s]) = 1
      <4>1. sendq'[s] = <<>> /\ wr.caller = NoCaller
        BY <1>2, <3>1, <3>2 DEF Marker
      <4>2. \A i \in 1 .. Len(compq'[s]) : i # Len(compq'[s]) => compq'[s][i].caller = job'[s].caller
        BY <1>1, <1>3, <2>2, <3>1
      <4> QED
        BY <1>3, <2>2, <2>3, <4>1, <4>2 DEF MarkerLast
    <3>3. CASE Len(sendq[s]) # 1
      <4>1. wr.caller = job[s].caller /\ sendq'[s] # <<>>
        BY <1>2, <3>1, <3>3
      <4>2. ASSUME NEW i \in 1 .. Len(compq'[s]) PROVE compq'[s][i].caller = job'[s].caller
        <5>1. CASE i = Len(compq[s]) + 1
          BY <1>1, <2>2, <2>3, <4>1, <5>1
        <5>2. CASE i \in 1 .. Len(compq[s])
          BY <1>1, <2>2, <3>1, <5>2
        <5> QED
          BY <1>3, <2>2, <5>1, <5>2
      <4>3. /\ sendq'[s][Len(sendq'[s])] = Marker
            /\ \A i \in 1 .. Len(sendq'[s]) :
                 i # Len(sendq'[s]) => sendq'[s][i].caller = job'[s].caller
        BY <1>1, <1>2, <3>1, <3>3
      <4> QED
        BY <4>1, <4>2, <4>3 DEF MarkerLast
    <3> QED
      BY <3>2, <3>3
  <2> QED
    BY <1>1, <2>4, <2>5, <2>6 DEF WorkerOK, Clear
\* An unsignaled READ that went well leaves no completion.
<1>5. ASSUME compq'[s] = compq[s], ~wr.signaled PROVE WorkerOK(s)'
  <2>1. Own(s) => Own(s)'
    <3> SUFFICES ASSUME Own(s) PROVE Own(s)'
      OBVIOUS
    <3> QED
      BY <1>s, <1>1, <1>5 DEF Own
  <2>2. WindowOut(s) => WindowOut(s)'
    BY <1>1, <1>2, <1>5 DEF WindowOut
  <2>3. MarkerLast(s) => MarkerLast(s)'
    <3> SUFFICES ASSUME MarkerLast(s) PROVE MarkerLast(s)'
      OBVIOUS
    <3>1. /\ sendq[s][Len(sendq[s])] = Marker
          /\ \A i \in 1 .. Len(sendq[s]) : i # Len(sendq[s]) => sendq[s][i].caller = job[s].caller
          /\ \A i \in 1 .. Len(compq[s]) : compq[s][i].caller = job[s].caller
      BY <1>1 DEF MarkerLast
    <3>2. Len(sendq[s]) # 1
      BY <1>2, <1>5, <3>1 DEF Marker
    <3>3. /\ sendq'[s] # <<>> /\ sendq'[s][Len(sendq'[s])] = Marker
          /\ \A i \in 1 .. Len(sendq'[s]) :
               i # Len(sendq'[s]) => sendq'[s][i].caller = job'[s].caller
      <4>1. /\ Len(sendq'[s]) = Len(sendq[s]) - 1 /\ Len(sendq'[s]) \in 1 .. Len(sendq'[s])
            /\ Len(sendq'[s]) + 1 = Len(sendq[s]) /\ sendq'[s] # <<>>
        BY <1>2, <3>2
      <4>2. sendq'[s][Len(sendq'[s])] = Marker
        BY <1>2, <3>1, <4>1
      <4>3. ASSUME NEW i \in 1 .. Len(sendq'[s]), i # Len(sendq'[s])
            PROVE  sendq'[s][i].caller = job'[s].caller
        <5>1. i + 1 \in 1 .. Len(sendq[s]) /\ i + 1 # Len(sendq[s])
          BY <1>2, <4>1, <4>3
        <5>2. sendq'[s][i] = sendq[s][i + 1] /\ job'[s] = job[s]
          BY <1>1, <1>2
        <5> QED
          BY <3>1, <5>1, <5>2
      <4> QED
        BY <4>1, <4>2, <4>3
    <3> QED
      BY <1>1, <1>5, <3>1, <3>3 DEF MarkerLast
  <2> QED
    BY <1>1, <1>5, <2>1, <2>2, <2>3 DEF WorkerOK, Clear
<1>6. \/ compq'[s] = Append(compq[s], entry(FALSE))
      \/ compq'[s] = Append(compq[s], entry(TRUE)) /\ wr.signaled
      \/ compq'[s] = compq[s] /\ ~wr.signaled
  BY DEF NicComplete, Entry, PoolInv, PoolTypeOK, wr
<1> QED
  BY <1>4, <1>5, <1>6

LEMMA WorkerMoves ==
  ASSUME PoolInv, PoolTypeOK', NEW s \in Pairs,
         WorkerStep(s) \/ GiveUp(s) \/ Abort(s) \/ NicComplete(s)
  PROVE  WorkerOK(s)'
<1>0. WorkerOK(s) /\ job \in [Pairs -> Job] /\ wstate[s] \in WorkerStates
  BY DEF PoolInv, PoolTypeOK
<1>1. CASE Receive(s)
  <2>1. /\ wstate[s] = "recv" /\ UNCHANGED <<sendq, compq>>
        /\ job'[s].caller = NoCaller => wstate'[s] = "exit"
        /\ job'[s].caller # NoCaller => wstate'[s] \in {"reply", "post"}
    BY <1>1 DEF Receive, PoolInv, PoolTypeOK, nicVars
  <2> QED
    BY <1>0, <2>1 DEF WorkerOK, Clear, PollingStates
<1>2. CASE PostWindow(s)
  BY <1>2, PostWindowOK
<1>3. CASE PollSome(s)
  BY <1>3, PollSomeOK
<1>4. CASE PollEmpty(s) \/ Arm(s) \/ Wake(s) \/ GiveUp(s)
  <2>1. /\ wstate[s] \in PollingStates /\ wstate'[s] \in PollingStates \cup {"marker"}
        /\ UNCHANGED <<job, sendq, compq>>
    BY <1>4 DEF PollEmpty, Arm, Wake, GiveUp, Fail, PollingStates, PoolInv, PoolTypeOK, nicVars
  <2> QED
    BY <1>0, <2>1 DEF WorkerOK, WindowOut, Own, PollingStates
<1>5. CASE PostMarker(s)
  BY <1>5, PostMarkerOK
<1>6. CASE Quiesce(s)
  BY <1>6, QuiesceOK
<1>7. CASE Reply(s)
  <2>1. /\ wstate[s] = "reply" /\ wstate'[s] = "recv" /\ job'[s].caller = NoCaller
        /\ UNCHANGED <<sendq, compq>>
    BY <1>7 DEF Reply, PoolInv, PoolTypeOK, nicVars
  <2> QED
    BY <1>0, <2>1 DEF WorkerOK, Clear, PollingStates
<1>8. CASE Abort(s)
  BY <1>0, <1>8, SameWorker DEF Abort, nicVars
<1>9. CASE NicComplete(s)
  BY <1>9, NicOK
<1> QED
  BY <1>1, <1>2, <1>3, <1>4, <1>5, <1>6, <1>7, <1>8, <1>9 DEF WorkerStep

\* A caller that has no batch out is in no channel and served by no worker.
LEMMA IdleIsNowhere ==
  ASSUME PoolInv, NEW c \in Callers, cpc[c] # "await", NEW s \in Pairs
  PROVE  /\ job[s].caller # c
         /\ \A i \in 1 .. Len(queue[s]) : queue[s][i].caller # c
<1>1. BatchesOK(s) /\ c # NoCaller
  BY PoolAssumption DEF PoolInv
<1> QED
  BY <1>1 DEF BatchesOK

LEMMA SubmitBatches ==
  ASSUME PoolInv, NEW c \in Callers, NEW n \in JobSizes, Submit(c, n), NEW s \in Pairs
  PROVE  BatchesOK(s)'
<1>1. /\ BatchesOK(s) /\ cpc[c] # "await" /\ UNCHANGED <<queue, job>>
      /\ cpc \in [Callers -> {"idle", "send", "await"}]
      /\ queue[s] \in Seq(Job) /\ job[s] \in Job
  BY DEF Submit, PoolInv, PoolTypeOK, workerVars
<1>2. \A d \in Callers : d # c => cpc'[d] = cpc[d] /\ cjob'[d] = cjob[d]
  BY DEF Submit, PoolInv, PoolTypeOK
<1>3. /\ job[s].caller # c /\ job[s].caller \in Anyone
      /\ \A i \in 1 .. Len(queue[s]) : queue[s][i].caller # c /\ queue[s][i].caller \in Anyone
  <2>1. \A i \in 1 .. Len(queue[s]) : queue[s][i] \in Job
    BY <1>1, ElementOfSeq
  <2> QED
    BY <1>1, <2>1, IdleIsNowhere DEF Job
<1> QED
  BY <1>1, <1>2, <1>3 DEF BatchesOK, Anyone

LEMMA SendBatches ==
  ASSUME PoolInv, NEW c \in Callers, Send(c), NEW s \in Pairs
  PROVE  BatchesOK(s)'
<1> DEFINE shard == cjob[c].shard
           batch == [caller |-> c, left |-> cjob[c].reads]
<1>1. /\ BatchesOK(s) /\ cpc[c] = "send" /\ UNCHANGED <<cjob, job>>
      /\ cpc' = [cpc EXCEPT ![c] = "await"] /\ cpc \in [Callers -> {"idle", "send", "await"}]
      /\ queue'[s] = IF s = shard THEN Append(queue[s], batch) ELSE queue[s]
      /\ queue[s] \in Seq(Job)
  BY DEF Send, PoolInv, PoolTypeOK
<1>2. batch \in Job /\ c # NoCaller
  BY PoolAssumption DEF PoolInv, PoolTypeOK, Job, Anyone
<1>3. /\ job[s].caller # c /\ \A i \in 1 .. Len(queue[s]) : queue[s][i].caller # c
  BY <1>1, IdleIsNowhere
<1>4. CASE s # shard
  <2>1. queue'[s] = queue[s] /\ job'[s] = job[s] /\ cjob' = cjob
    BY <1>1, <1>4
  <2>2. \A d : d # c => cpc'[d] = cpc[d]
    BY <1>1
  <2> HIDE DEF shard, batch
  <2>3. ASSUME NEW i \in 1 .. Len(queue[s]), queue[s][i].caller # NoCaller
        PROVE  /\ cpc'[queue[s][i].caller] = "await" /\ cjob[queue[s][i].caller].shard = s
               /\ job[s].caller # queue[s][i].caller
               /\ \A j \in 1 .. Len(queue[s]) : queue[s][j].caller = queue[s][i].caller => j = i
    BY <1>1, <1>3, <2>2, <2>3 DEF BatchesOK
  <2>4. job[s].caller # NoCaller => cpc'[job[s].caller] = "await" /\ cjob[job[s].caller].shard = s
    BY <1>1, <1>3, <2>2 DEF BatchesOK
  <2> QED
    BY <2>1, <2>3, <2>4 DEF BatchesOK
<1>5. CASE s = shard
  <2>1. /\ Len(queue'[s]) = Len(queue[s]) + 1 /\ Len(queue[s]) \in Nat
        /\ \A i \in 1 .. Len(queue[s]) : queue'[s][i] = queue[s][i]
        /\ queue'[s][Len(queue[s]) + 1] = batch
    BY <1>1, <1>2, <1>5, AppendOf
  <2>2. \A d : d # c => cpc'[d] = cpc[d]
    BY <1>1
  <2>3. cpc'[c] = "await" /\ cjob'[c].shard = s /\ batch.caller = c
    BY <1>1, <1>5
  <2> HIDE DEF batch, shard
  <2>4. ASSUME NEW i \in 1 .. Len(queue'[s]), queue'[s][i].caller # NoCaller
        PROVE  /\ cpc'[queue'[s][i].caller] = "await" /\ cjob'[queue'[s][i].caller].shard = s
               /\ job'[s].caller # queue'[s][i].caller
               /\ \A j \in 1 .. Len(queue'[s]) : queue'[s][j].caller = queue'[s][i].caller => j = i
    <3>1. CASE i = Len(queue[s]) + 1
      BY <1>1, <1>3, <2>1, <2>3, <3>1
    <3>2. CASE i \in 1 .. Len(queue[s])
      BY <1>1, <1>3, <2>1, <2>2, <2>3, <2>4, <3>2 DEF BatchesOK
    <3> QED
      BY <2>1, <3>1, <3>2
  <2>5. job'[s].caller # NoCaller => /\ cpc'[job'[s].caller] = "await"
                                     /\ cjob'[job'[s].caller].shard = s
    BY <1>1, <1>3, <2>2 DEF BatchesOK
  <2> QED
    BY <2>4, <2>5 DEF BatchesOK
<1> QED
  BY <1>4, <1>5

LEMMA ReceiveBatches ==
  ASSUME PoolInv, NEW t \in Pairs, Receive(t), NEW s \in Pairs
  PROVE  BatchesOK(s)'
<1>1. /\ BatchesOK(s) /\ UNCHANGED <<cpc, cjob>> /\ queue[t] # <<>> /\ wstate[t] = "recv"
  BY DEF Receive, PoolInv, callerVars
<1>2. CASE s # t
  BY <1>1, <1>2, SameBatches DEF Receive, PoolInv, PoolTypeOK
<1>3. CASE s = t
  <2>1. queue'[s] = Tail(queue[s]) /\ job'[s] = Head(queue[s])
    BY <1>3 DEF Receive, PoolInv, PoolTypeOK
  <2>2. /\ Len(queue'[s]) = Len(queue[s]) - 1 /\ Len(queue[s]) \in Nat \ {0}
        /\ job'[s] = queue[s][1]
        /\ \A i \in 1 .. Len(queue'[s]) : queue'[s][i] = queue[s][i + 1]
    BY <1>1, <1>3, <2>1, PoolSeqs, TailOf DEF PoolInv
  <2>q. ASSUME NEW i \in 1 .. Len(queue'[s])
        PROVE  /\ i \in Nat /\ i + 1 \in 1 .. Len(queue[s]) /\ i + 1 # 1
               /\ queue'[s][i].caller = queue[s][i + 1].caller
    BY <2>2
  <2>3. job'[s].caller # NoCaller => /\ cpc[job'[s].caller] = "await"
                                     /\ cjob[job'[s].caller].shard = s
    BY <1>1, <2>2 DEF BatchesOK
  <2>4. ASSUME NEW i \in 1 .. Len(queue'[s]), queue'[s][i].caller # NoCaller
        PROVE  /\ cpc[queue'[s][i].caller] = "await" /\ cjob[queue'[s][i].caller].shard = s
               /\ job'[s].caller # queue'[s][i].caller
               /\ \A j \in 1 .. Len(queue'[s]) : queue'[s][j].caller = queue'[s][i].caller => j = i
    <3>1. /\ i + 1 \in 1 .. Len(queue[s]) /\ queue[s][i + 1].caller # NoCaller
          /\ 1 \in 1 .. Len(queue[s]) /\ i \in Nat
          /\ queue'[s][i].caller = queue[s][i + 1].caller
      BY <2>2, <2>4, <2>q
    <3>2. \A j \in 1 .. Len(queue[s]) : queue[s][j].caller = queue[s][i + 1].caller => j = i + 1
      BY <1>1, <3>1 DEF BatchesOK
    <3>3. job'[s].caller # queue'[s][i].caller
      BY <2>2, <2>q, <3>1, <3>2
    <3>4. \A j \in 1 .. Len(queue'[s]) : queue'[s][j].caller = queue'[s][i].caller => j = i
      <4> SUFFICES ASSUME NEW j \in 1 .. Len(queue'[s]), queue'[s][j].caller = queue'[s][i].caller
                   PROVE  j = i
        OBVIOUS
      <4>1. j + 1 \in 1 .. Len(queue[s]) /\ queue[s][j + 1].caller = queue[s][i + 1].caller
        BY <2>q, <3>1
      <4>2. j + 1 = i + 1 /\ j \in Nat
        BY <2>q, <3>2, <4>1
      <4> QED
        BY <3>1, <4>2
    <3>5. cpc[queue[s][i + 1].caller] = "await" /\ cjob[queue[s][i + 1].caller].shard = s
      BY <1>1, <3>1 DEF BatchesOK
    <3> QED
      BY <3>1, <3>3, <3>4, <3>5
  <2> QED
    BY <1>1, <2>3, <2>4 DEF BatchesOK
<1> QED
  BY <1>2, <1>3

LEMMA ReplyBatches ==
  ASSUME PoolInv, NEW t \in Pairs, Reply(t), NEW s \in Pairs
  PROVE  BatchesOK(s)'
<1> DEFINE c == job[t].caller
<1>1. /\ BatchesOK(s) /\ BatchesOK(t) /\ UNCHANGED <<cjob, queue>>
      /\ cpc' = [cpc EXCEPT ![c] = "idle"] /\ c # NoCaller
      /\ job'[s].caller = IF s = t THEN NoCaller ELSE job[s].caller
  BY DEF Reply, PoolInv, PoolTypeOK, WorkerOK
<1>2. cjob[c].shard = t
  BY <1>1 DEF BatchesOK
<1>3. \A i \in 1 .. Len(queue[s]) : queue[s][i].caller # NoCaller => queue[s][i].caller # c
  BY <1>1, <1>2 DEF BatchesOK
<1>4. s # t /\ job[s].caller # NoCaller => job[s].caller # c
  BY <1>1, <1>2 DEF BatchesOK
<1>5. \A d : d # c => cpc'[d] = cpc[d]
  BY <1>1
<1> HIDE DEF c
<1> QED
  BY <1>1, <1>3, <1>4, <1>5 DEF BatchesOK

LEMMA DropBatches ==
  ASSUME PoolInv, DropPool, NEW s \in Pairs
  PROVE  BatchesOK(s)'
<1>1. /\ BatchesOK(s) /\ UNCHANGED <<cpc, cjob, job>>
      /\ queue'[s] = Append(queue[s], [caller |-> NoCaller, left |-> 0])
  BY DEF DropPool, PoolInv
<1>2. [caller |-> NoCaller, left |-> 0] \in Job
  BY DEF Job, Anyone
<1>3. /\ Len(queue'[s]) = Len(queue[s]) + 1 /\ Len(queue[s]) \in Nat
      /\ \A i \in 1 .. Len(queue[s]) : queue'[s][i] = queue[s][i]
      /\ queue'[s][Len(queue[s]) + 1].caller = NoCaller
  BY <1>1, <1>2, PoolSeqs, AppendOf DEF PoolInv
<1> QED
  BY <1>1, <1>3 DEF BatchesOK

LEMMA PoolStep == PoolInv /\ [PoolNext]_pvars => PoolInv'
<1> SUFFICES ASSUME PoolInv, [PoolNext]_pvars PROVE PoolInv'
  OBVIOUS
<1>1. PoolTypeOK'
  BY PoolTypesStep DEF PoolInv
<1> SUFFICES ASSUME NEW s \in Pairs PROVE WorkerOK(s)' /\ BatchesOK(s)'
  BY <1>1 DEF PoolInv
<1>2. WorkerOK(s) /\ BatchesOK(s)
  BY DEF PoolInv
<1>3. ASSUME UNCHANGED <<wstate, job, sendq, compq>> PROVE WorkerOK(s)'
  BY <1>2, <1>3, SameWorker
<1>4. CASE DropPool
  BY <1>3, <1>4, DropBatches DEF DropPool, nicVars
<1>5. ASSUME NEW c \in Callers, NEW n \in JobSizes, Submit(c, n)
      PROVE  WorkerOK(s)' /\ BatchesOK(s)'
  BY <1>3, <1>5, SubmitBatches DEF Submit, workerVars, nicVars
<1>6. ASSUME NEW c \in Callers, Send(c) PROVE WorkerOK(s)' /\ BatchesOK(s)'
  BY <1>3, <1>6, SendBatches DEF Send, nicVars
<1>7. ASSUME NEW t \in Pairs, WorkerStep(t) \/ GiveUp(t) \/ Abort(t) \/ NicComplete(t)
      PROVE  WorkerOK(s)' /\ BatchesOK(s)'
  <2>1. WorkerOK(s)'
    <3>1. CASE s = t
      BY <1>1, <1>7, <3>1, WorkerMoves
    <3>2. CASE s # t
      <4>1. sendq'[s] = sendq[s] /\ compq'[s] = compq[s] /\ wstate'[s] = wstate[s] /\ job'[s] = job[s]
        <5>1. sendq'[s] = sendq[s]
          BY <1>7, <3>2 DEF WorkerStep, Receive, PostWindow, PollSome, PollEmpty, Arm, Wake,
             PostMarker, Quiesce, Reply, GiveUp, Abort, NicComplete, nicVars, PoolInv, PoolTypeOK
        <5>2. compq'[s] = compq[s]
          BY <1>7, <3>2 DEF WorkerStep, Receive, PostWindow, PollSome, PollEmpty, Arm, Wake,
             PostMarker, Quiesce, Reply, GiveUp, Abort, NicComplete, Entry, nicVars, PoolInv,
             PoolTypeOK
        <5>3. wstate'[s] = wstate[s]
          BY <1>7, <3>2 DEF WorkerStep, Receive, PostWindow, PollSome, PollEmpty, Arm, Wake,
             PostMarker, Quiesce, Reply, GiveUp, Abort, NicComplete, Fail, workerVars, PoolInv,
             PoolTypeOK
        <5>4. job'[s] = job[s]
          BY <1>7, <3>2 DEF WorkerStep, Receive, PostWindow, PollSome, PollEmpty, Arm, Wake,
             PostMarker, Quiesce, Reply, GiveUp, Abort, NicComplete, workerVars, PoolInv,
             PoolTypeOK
        <5> QED
          BY <5>1, <5>2, <5>3, <5>4
      <4> QED
        BY <1>2, <4>1, SameWorker
    <3> QED
      BY <3>1, <3>2
  <2>2. BatchesOK(s)'
    <3>1. CASE Receive(t)
      BY <3>1, ReceiveBatches
    <3>2. CASE Reply(t)
      BY <3>2, ReplyBatches
    <3>3. CASE PostWindow(t)
      <4>1. UNCHANGED <<cpc, cjob, queue>> /\ job'[s].caller = job[s].caller
        BY <3>3 DEF PostWindow, callerVars, PoolInv, PoolTypeOK, Job
      <4> QED
        BY <1>2, <4>1, SameBatches
    <3>4. CASE \/ PollSome(t) \/ PollEmpty(t) \/ Arm(t) \/ Wake(t) \/ PostMarker(t)
               \/ Quiesce(t) \/ GiveUp(t) \/ Abort(t) \/ NicComplete(t)
      <4>1. UNCHANGED <<cpc, cjob, queue, job>>
        BY <3>4 DEF PollSome, PollEmpty, Arm, Wake, PostMarker, Quiesce, GiveUp, Abort,
           NicComplete, callerVars, workerVars
      <4> QED
        BY <1>2, <4>1, SameBatches
    <3> QED
      BY <1>7, <3>1, <3>2, <3>3, <3>4 DEF WorkerStep
  <2> QED
    BY <2>1, <2>2
<1>8. CASE UNCHANGED pvars
  BY <1>2, <1>3, <1>8, SameBatches DEF pvars
<1> QED
  BY <1>4, <1>5, <1>6, <1>7, <1>8, Zenon DEF PoolNext, CallerStep

LEMMA PoolStart == PoolInit => PoolInv
<1> SUFFICES ASSUME PoolInit PROVE PoolInv
  OBVIOUS
<1>1. <<>> \in Seq(Job) /\ <<>> \in Seq(Request) /\ <<>> \in Seq(Completion) /\ Len(<<>>) = 0
  BY EmptySeq
<1>2. [caller |-> NoCaller, left |-> 0] \in Job /\ 0 \in Pairs
  BY PoolAssumption DEF Job, Anyone, Pairs
<1>3. PoolTypeOK
  <2>1. sendq \in [Pairs -> Seq(Request)] /\ compq \in [Pairs -> Seq(Completion)]
    BY <1>1 DEF PoolInit
  <2>2. queue \in [Pairs -> Seq(Job)] /\ job \in [Pairs -> Job]
    BY <1>1, <1>2 DEF PoolInit
  <2>3. /\ cpc \in [Callers -> {"idle", "send", "await"}]
        /\ cjob \in [Callers -> [shard : Pairs, reads : Nat]]
        /\ jobs \in Nat /\ turn \in Pairs /\ wstate \in [Pairs -> WorkerStates]
    BY <1>2 DEF PoolInit, WorkerStates
  <2> QED
    BY <2>1, <2>2, <2>3 DEF PoolTypeOK
<1>4. ASSUME NEW s \in Pairs PROVE WorkerOK(s) /\ BatchesOK(s)
  BY <1>1 DEF PoolInit, WorkerOK, BatchesOK, Clear, PollingStates
<1> QED
  BY <1>3, <1>4 DEF PoolInv

\* The pool's variables keep their types (rdma/sharded.rs, qp.rs, event.rs).
THEOREM PoolTypeCorrect == PoolSpec => []PoolTypeOK
<1>1. PoolInv => PoolTypeOK
  BY DEF PoolInv
<1> QED
  BY <1>1, PoolStart, PoolStep, PTL DEF PoolSpec

\* A caller that has its answer has no READ left in any send queue, so the
\* memory they target is its own again, for any callers, shards, window and
\* channel sizes (rdma/qp.rs, read_batch and quiesce).
THEOREM AnsweredIsQuietAlways == PoolSpec => []AnsweredIsQuiet
<1>1. PoolInv => AnsweredIsQuiet
  <2> SUFFICES ASSUME PoolInv, NEW c \in Callers, cpc[c] = "idle", NEW s \in Pairs,
                      NEW i \in 1 .. Len(sendq[s])
               PROVE  sendq[s][i].caller # c
    BY DEF AnsweredIsQuiet
  <2>1. job[s].caller # c /\ c # NoCaller
    BY IdleIsNowhere, PoolAssumption
  <2>2. WorkerOK(s) /\ wstate[s] \in WorkerStates /\ Len(sendq[s]) > 0 /\ sendq[s] # <<>>
    <3>1. sendq[s] # <<>>
      BY EmptySeq
    <3> QED
      BY <3>1, PoolSeqs DEF PoolInv, PoolTypeOK
  <2>3. sendq[s][i].caller = job[s].caller \/ sendq[s][i] = Marker
    BY <2>2 DEF WorkerOK, Clear, Own, MarkerLast, WorkerStates, PollingStates
  <2> QED
    BY <2>1, <2>3 DEF Marker
<1> QED
  BY <1>1, PoolStart, PoolStep, PTL DEF PoolSpec

\* Side by side, the two clients leave no staging row to a device once the call
\* is answered, unless the shard is given up for good, for any shards, callers,
\* windows and sizes (srd.rs, drain; rdma/qp.rs, quiesce).
THEOREM StagingIsQuietAlways == StagingSpec => []StagingIsQuiet
BY QuietOrPoisonedAlways, AnsweredIsQuietAlways, PTL DEF StagingSpec, StagingIsQuiet

-----------------------------------------------------------------------------
(* The GPUDirect client.                                                   *)

TornRows == {torn[i] : i \in 1 .. Len(torn)}
RowsOf(w) == {Windows[w][i] : i \in 1 .. Len(Windows[w])}

Stamps == [call : Nat, retries : Nat]
RowReads == [row : Batch, region : 1 .. 2, stamp : Stamps]

RcTypeOK ==
  /\ step \in {"idle", "chain", "post", "poll", "flush", "validate", "quiesce"}
  /\ calls \in Nat /\ size \in Nat /\ retries \in Nat /\ opened \in Nat
  /\ 1 .. size \subseteq Batch /\ torn \in Seq(1 .. size)
  /\ chained \in Seq(RowReads)
  /\ squeue \in Seq([read : RowReads, signaled : BOOLEAN])
  /\ cqueue \in Seq({"done", "failed"})
  /\ landed \in [1 .. 2 -> [Batch -> Stamps]] /\ visible \in [1 .. 2 -> [Batch -> Stamps]]

\* A row's READ of this round is written and visible.
Settled(g, row) == landed[g][row] = Stamp /\ visible[g][row] = Stamp

\* A second READ comes after its settled first one.
CurrentRead(read) ==
  read.stamp = Stamp /\ read.row \in TornRows /\ (read.region = 2 => Settled(1, read.row))

QueuesOK ==
  /\ step \notin {"poll", "quiesce"} => squeue = <<>> /\ cqueue = <<>>
  /\ \A i \in 1 .. Len(squeue) : squeue[i].signaled => i = Len(squeue)
  /\ \A i \in 1 .. Len(cqueue) : cqueue[i] = "done" => i = Len(cqueue) /\ squeue = <<>>
  /\ \A i \in 1 .. Len(squeue) : CurrentRead(squeue[i].read)
  /\ step \in {"post", "poll"} => \A i \in 1 .. Len(chained) : CurrentRead(chained[i])

\* Rows the validator has accepted: both regions hold one READ of this call.
Agreed(row) ==
  /\ landed[2][row] = landed[1][row] /\ landed[1][row].call = calls
  /\ visible[1][row] = landed[1][row] /\ visible[2][row] = landed[1][row]

RoundOK ==
  step \in {"chain", "post", "poll", "flush", "validate"} =>
    /\ torn # <<>>
    /\ step # "validate" => opened <= Len(Windows)
    /\ step = "validate" => opened = Len(Windows) + 1
    /\ \A w \in 1 .. Len(Windows) : \A row \in RowsOf(w) :
         (w <= opened => Settled(1, row)) /\ (w < opened => Settled(2, row))
    /\ \A row \in (1 .. size) \ TornRows : Agreed(row)

Pending(g, row) ==
  \/ landed[g][row] = Stamp
  \/ \E i \in 1 .. Len(squeue) : squeue[i].read.region = g /\ squeue[i].read.row = row
  \/ \E i \in 1 .. Len(chained) : chained[i].region = g /\ chained[i].row = row

\* While no READ has failed, those of the present chain are done or to be done.
ChainCovered ==
  step \in {"post", "poll", "flush"} /\ (\A i \in 1 .. Len(cqueue) : cqueue[i] = "done") =>
    /\ opened > 0 => \A row \in RowsOf(opened) : Pending(2, row)
    /\ opened < Len(Windows) => \A row \in RowsOf(opened + 1) : Pending(1, row)
    /\ step = "flush" => chained = <<>>

AnswerOK ==
  answer = "ok" => step = "idle" /\ \A i \in 1 .. size :
    visible[1][i].call = calls /\ visible[2][i] = visible[1][i]

RcInv == RcTypeOK /\ QueuesOK /\ RoundOK /\ ChainCovered /\ AnswerOK

-----------------------------------------------------------------------------
LEMMA DivMod ==
  ASSUME NEW x \in Int, NEW r \in Nat \ {0}
  PROVE  /\ x \div r \in Int /\ x % r \in 0 .. r - 1
         /\ x = r * (x \div r) + (x % r)
  OBVIOUS

LEMMA DivBounds ==
  ASSUME NEW x \in Nat, NEW r \in Nat \ {0}
  PROVE  /\ x \div r \in Nat /\ r * (x \div r) <= x /\ x < r * (x \div r) + r
  OBVIOUS

\* n rows in chunks of width: row p is in chunk (p - 1) \div width + 1.
LEMMA ChunkOf ==
  ASSUME NEW n \in Nat \ {0}, NEW width \in Nat \ {0}, NEW p \in 1 .. n
  PROVE  LET w == (p - 1) \div width + 1 IN
         /\ w \in 1 .. (n + width - 1) \div width
         /\ (w - 1) * width + 1 <= p /\ p <= w * width
<1> DEFINE q == (p - 1) \div width
<1> DEFINE c == (n + width - 1) \div width
<1>1. q \in Nat /\ width * q <= p - 1 /\ p - 1 < width * q + width
  <2>1. p - 1 \in Nat
    OBVIOUS
  <2> QED
    BY <2>1, DivBounds
<1>2. c \in Nat /\ n + width - 1 < width * c + width
  <2>1. n + width - 1 \in Nat
    OBVIOUS
  <2> QED
    BY <2>1, DivBounds
<1> HIDE DEF q, c
<1>3. width * q < width * c
  BY <1>1, <1>2
<1>4. q < c
  <2>1. q >= c => width * q >= width * c
    BY <1>1, <1>2
  <2> QED
    BY <2>1, <1>1, <1>2, <1>3
<1>5. (q + 1) * width = width * q + width /\ q * width = width * q
  BY <1>1
<1>6. q + 1 \in 1 .. c /\ (q + 1 - 1) * width + 1 <= p /\ p <= (q + 1) * width
  BY <1>1, <1>2, <1>4, <1>5
<1> QED
  BY <1>6 DEF q, c

\* The windows hold the rows of the round, and all of them.
Chunked ==
  size \in Nat /\ torn \in Seq(1 .. size) /\ torn # <<>> =>
    /\ Len(Windows) \in Nat \ {0}
    /\ \A w \in 1 .. Len(Windows) : Windows[w] \in Seq(TornRows)
    /\ \A row \in TornRows : \E w \in 1 .. Len(Windows) : row \in RowsOf(w)

LEMMA Chunks == Chunked
<1> SUFFICES ASSUME size \in Nat, torn \in Seq(1 .. size), torn # <<>>
             PROVE  /\ Len(Windows) \in Nat \ {0}
                    /\ \A w \in 1 .. Len(Windows) : Windows[w] \in Seq(TornRows)
                    /\ \A row \in TornRows : \E w \in 1 .. Len(Windows) : row \in RowsOf(w)
  BY DEF Chunked
<1> DEFINE n == Len(torn)
<1> DEFINE half == (n + 1) \div 2
<1> DEFINE cap == IF SendDepth \div 2 = 0 THEN 1 ELSE SendDepth \div 2
<1> DEFINE width == IF half < cap THEN half ELSE cap
<1> DEFINE c == (n + width - 1) \div width
<1> DEFINE last(w) == IF w * width < n THEN w * width ELSE n
<1>1. n \in Nat \ {0}
  OBVIOUS
<1>2. width \in Nat \ {0}
  <2>1. half \in Nat \ {0}
    BY <1>1
  <2>2. cap \in Nat \ {0}
    BY RcAssumption
  <2> QED
    BY <2>1, <2>2
<1>3. Windows = [w \in 1 .. c |-> SubSeq(torn, (w - 1) * width + 1, last(w))]
  BY DEF Windows
<1>4. c \in Nat \ {0}
  <2>1. n + width - 1 \in Nat /\ n + width - 1 >= width
    BY <1>1, <1>2
  <2>2. c \in Nat /\ n + width - 1 < width * c + width
    BY <1>2, <2>1, DivBounds
  <2> HIDE DEF c, width
  <2>3. c # 0
    <3>1. c = 0 => width * c = 0
      BY <1>2
    <3> QED
      BY <1>2, <2>1, <2>2, <3>1
  <2> QED
    BY <2>2, <2>3
<1> HIDE DEF width, half, cap, c
<1>5. Len(Windows) = c
  BY <1>3, <1>4
<1>6. ASSUME NEW w \in 1 .. c
      PROVE  /\ last(w) \in 1 .. n /\ (w - 1) * width + 1 \in Nat /\ (w - 1) * width + 1 >= 1
             /\ Windows[w] = SubSeq(torn, (w - 1) * width + 1, last(w))
  <2>1. w \in Nat /\ w - 1 \in Nat
    BY <1>4
  <2>2. w * width \in Nat /\ w * width >= 1 /\ (w - 1) * width \in Nat
    BY <1>2, <2>1
  <2>3. last(w) \in 1 .. n
    BY <1>1, <2>2
  <2>4. Windows[w] = SubSeq(torn, (w - 1) * width + 1, last(w))
    BY <1>3
  <2> QED
    BY <2>2, <2>3, <2>4
<1> HIDE DEF last
<1>7. ASSUME NEW w \in 1 .. c PROVE Windows[w] \in Seq(TornRows)
  <2>1. torn \in Seq(TornRows)
    BY DEF TornRows
  <2> DEFINE a == (w - 1) * width + 1
  <2>2. a \in Nat /\ a >= 1 /\ last(w) \in 1 .. n /\ Windows[w] = SubSeq(torn, a, last(w))
    BY <1>6
  <2> HIDE DEF a
  <2>3. \A i \in a .. last(w) : torn[i] \in TornRows
    BY <1>1, <2>1, <2>2
  <2> QED
    BY <2>2, <2>3, SubSeqProperties
<1>8. ASSUME NEW row \in TornRows PROVE \E w \in 1 .. c : row \in RowsOf(w)
  <2>1. PICK p \in 1 .. n : row = torn[p]
    BY DEF TornRows
  <2>2. PICK w \in 1 .. c : (w - 1) * width + 1 <= p /\ p <= w * width
    BY <1>1, <1>2, <2>1, ChunkOf DEF c
  <2>3. p <= last(w)
    BY <2>2 DEF last
  <2> DEFINE a == (w - 1) * width + 1
  <2>4. a \in Nat /\ a >= 1 /\ a <= p /\ last(w) \in 1 .. n /\ Windows[w] = SubSeq(torn, a, last(w))
    BY <1>6, <2>2
  <2> HIDE DEF a
  <2>5. p - a + 1 \in 1 .. Len(Windows[w]) /\ Windows[w][p - a + 1] = torn[p]
    <3>1. a \in Int /\ last(w) \in Int /\ a <= last(w) /\ p - a + 1 \in 1 .. last(w) - a + 1
      BY <1>1, <2>3, <2>4
    <3>2. \A i \in a .. last(w) : torn[i] \in 1 .. size
      BY <1>1, <2>4
    <3>3. /\ Len(SubSeq(torn, a, last(w))) = last(w) - a + 1
          /\ SubSeq(torn, a, last(w))[p - a + 1] = torn[a + (p - a + 1) - 1]
      BY <3>1, <3>2, SubSeqProperties
    <3>4. a + (p - a + 1) - 1 = p
      BY <2>4
    <3> QED
      BY <2>4, <3>1, <3>3, <3>4
  <2> QED
    BY <2>1, <2>5 DEF RowsOf
<1> QED
  BY <1>4, <1>5, <1>7, <1>8

LEMMA ChunksNow == RcTypeOK /\ torn # <<>> =>
  /\ Len(Windows) \in Nat \ {0}
  /\ \A w \in 1 .. Len(Windows) : Windows[w] \in Seq(TornRows)
  /\ \A row \in TornRows : \E w \in 1 .. Len(Windows) : row \in RowsOf(w)
  BY Chunks DEF Chunked, RcTypeOK

LEMMA ChunksNext == Chunked'
  BY Chunks, PTL

LEMMA SameRound ==
  ASSUME UNCHANGED <<calls, retries, torn>>
  PROVE  /\ Stamp' = Stamp /\ Windows' = Windows /\ TornRows' = TornRows
         /\ \A w : RowsOf(w)' = RowsOf(w)
  BY DEF Stamp, Windows, TornRows, RowsOf

LEMMA SameWrites ==
  ASSUME UNCHANGED <<calls, retries, torn, landed, visible>>
  PROVE  /\ \A g, row : Settled(g, row)' <=> Settled(g, row)
         /\ \A row : Agreed(row)' <=> Agreed(row)
         /\ \A read : CurrentRead(read)' <=> CurrentRead(read)
  BY SameRound DEF Settled, Agreed, CurrentRead

LEMMA StampTyped == RcTypeOK => Stamp \in Stamps
  BY DEF RcTypeOK, Stamp, Stamps

LEMMA RcInitInv == RcInit => RcInv
<1> SUFFICES ASSUME RcInit PROVE RcInv
  OBVIOUS
<1>1. NoRead \in Stamps
  BY DEF NoRead, Stamps
<1>2. RcTypeOK
  BY <1>1 DEF RcInit, RcTypeOK
<1> QED
  BY <1>2 DEF RcInit, RcInv, QueuesOK, RoundOK, ChainCovered, AnswerOK

LEMMA BeginStep ==
  ASSUME RcInv, NEW n \in RowCounts, Begin(n)
  PROVE  RcInv'
<1> USE DEF RcInv
<1>0. n \in Nat \ {0} /\ 1 .. n \subseteq Batch
  BY RcAssumption DEF Batch
<1>1. squeue = <<>> /\ cqueue = <<>> /\ squeue' = <<>> /\ cqueue' = <<>> /\ answer' # "ok"
  BY DEF Begin, QueuesOK
<1>2. CASE broken
  <2>1. step' = "idle" /\ UNCHANGED <<size, torn, opened, retries, chained, landed, visible>>
    BY <1>2 DEF Begin
  <2>2. RcTypeOK'
    BY <1>1, <2>1 DEF RcTypeOK, Begin
  <2> QED
    BY <1>1, <2>1, <2>2 DEF QueuesOK, RoundOK, ChainCovered, AnswerOK
<1>3. CASE ~broken
  <2>1. /\ step' = "chain" /\ size' = n /\ torn' = [i \in 1 .. n |-> i] /\ opened' = 0
        /\ retries' = Rereads /\ calls' = calls + 1 /\ UNCHANGED <<chained, landed, visible>>
    BY <1>3 DEF Begin
  <2>2. torn' \in Seq(1 .. n) /\ torn' # <<>> /\ Len(torn') = n
    BY <1>0, <2>1
  <2>3. RcTypeOK'
    BY <1>0, <1>1, <2>1, <2>2, RcAssumption DEF RcTypeOK
  <2>4. TornRows' = 1 .. n
    BY <1>0, <2>1, <2>2 DEF TornRows
  <2>5. Len(Windows)' \in Nat
    BY <2>2, <2>3, ChunksNext DEF Chunked, RcTypeOK
  <2>6. RoundOK'
    BY <2>1, <2>2, <2>4, <2>5 DEF RoundOK
  <2> QED
    BY <1>1, <2>1, <2>3, <2>6 DEF QueuesOK, ChainCovered, AnswerOK
<1> QED
  BY <1>2, <1>3

\* The READs of some rows.
LEMMA ReadsOf ==
  ASSUME RcTypeOK, NEW list \in Seq(TornRows), NEW g \in 1 .. 2
  PROVE  /\ Reads(list, g) \in Seq(RowReads) /\ Len(Reads(list, g)) = Len(list)
         /\ \A i \in 1 .. Len(list) : /\ Reads(list, g)[i].row = list[i]
                                     /\ Reads(list, g)[i].region = g
                                     /\ Reads(list, g)[i].stamp = Stamp
<1>1. TornRows \subseteq Batch
  BY DEF RcTypeOK, TornRows
<1>2. Stamp \in Stamps
  BY StampTyped
<1>3. \A i \in 1 .. Len(list) : [row |-> list[i], region |-> g, stamp |-> Stamp] \in RowReads
  BY <1>1, <1>2 DEF RowReads
<1> QED
  BY <1>3 DEF Reads

LEMMA BuildChainStep == RcInv /\ BuildChain => RcInv'
<1> SUFFICES ASSUME RcInv, BuildChain PROVE RcInv'
  OBVIOUS
<1> USE DEF RcInv
<1> DEFINE seconds == IF opened = 0 THEN <<>> ELSE Reads(Windows[opened], 2)
<1> DEFINE firsts == IF opened < Len(Windows) THEN Reads(Windows[opened + 1], 1) ELSE <<>>
<1>0. /\ step = "chain" /\ step' = "post" /\ chained' = seconds \o firsts
      /\ UNCHANGED <<calls, size, torn, opened, retries, answer, broken, squeue, cqueue, landed,
                     visible>>
  BY DEF BuildChain
<1>1. torn # <<>> /\ opened \in Nat /\ opened <= Len(Windows) /\ Len(Windows) \in Nat
      /\ \A w \in 1 .. Len(Windows) : Windows[w] \in Seq(TornRows)
  BY <1>0, ChunksNow DEF RoundOK, RcTypeOK
<1>2. /\ seconds \in Seq(RowReads)
      /\ \A i \in 1 .. Len(seconds) : CurrentRead(seconds[i])
      /\ opened > 0 => \A row \in RowsOf(opened) :
           \E i \in 1 .. Len(seconds) : seconds[i].region = 2 /\ seconds[i].row = row
  <2>1. CASE opened = 0
    BY <2>1
  <2>2. CASE opened # 0
    <3> DEFINE list == Windows[opened]
    <3>1. opened \in 1 .. Len(Windows) /\ list \in Seq(TornRows) /\ seconds = Reads(list, 2)
      BY <1>1, <2>2
    <3>2. RowsOf(opened) = {list[i] : i \in 1 .. Len(list)}
      BY DEF RowsOf
    <3>3. \A i \in 1 .. Len(list) : list[i] \in TornRows /\ Settled(1, list[i])
      BY <1>0, <3>1, <3>2 DEF RoundOK
    <3> HIDE DEF list, seconds
    <3>4. /\ seconds \in Seq(RowReads) /\ Len(seconds) = Len(list)
          /\ \A i \in 1 .. Len(list) :
               seconds[i].row = list[i] /\ seconds[i].region = 2 /\ seconds[i].stamp = Stamp
      BY <3>1, ReadsOf
    <3>5. \A i \in 1 .. Len(seconds) : CurrentRead(seconds[i])
      <4>1. \A i \in 1 .. Len(list) : list[i] \in TornRows
        BY <3>1
      <4> QED
        BY <3>1, <3>2, <3>3, <3>4, <4>1 DEF CurrentRead
    <3>6. \A row \in RowsOf(opened) :
            \E i \in 1 .. Len(seconds) : seconds[i].region = 2 /\ seconds[i].row = row
      BY <3>2, <3>4
    <3> QED
      BY <3>4, <3>5, <3>6
  <2> QED
    BY <2>1, <2>2
<1>3. /\ firsts \in Seq(RowReads)
      /\ \A i \in 1 .. Len(firsts) : CurrentRead(firsts[i])
      /\ opened < Len(Windows) => \A row \in RowsOf(opened + 1) :
           \E i \in 1 .. Len(firsts) : firsts[i].region = 1 /\ firsts[i].row = row
  <2>1. CASE ~(opened < Len(Windows))
    BY <2>1
  <2>2. CASE opened < Len(Windows)
    <3> DEFINE list == Windows[opened + 1]
    <3>1. opened + 1 \in 1 .. Len(Windows) /\ list \in Seq(TornRows) /\ firsts = Reads(list, 1)
      BY <1>1, <2>2
    <3>2. RowsOf(opened + 1) = {list[i] : i \in 1 .. Len(list)}
      BY DEF RowsOf
    <3> HIDE DEF list, firsts
    <3>4. /\ firsts \in Seq(RowReads) /\ Len(firsts) = Len(list)
          /\ \A i \in 1 .. Len(list) :
               firsts[i].row = list[i] /\ firsts[i].region = 1 /\ firsts[i].stamp = Stamp
      BY <3>1, ReadsOf
    <3>5. \A i \in 1 .. Len(firsts) : CurrentRead(firsts[i])
      <4>1. \A i \in 1 .. Len(list) : list[i] \in TornRows
        BY <3>1
      <4> QED
        BY <3>4, <4>1 DEF CurrentRead
    <3>6. \A row \in RowsOf(opened + 1) :
            \E i \in 1 .. Len(firsts) : firsts[i].region = 1 /\ firsts[i].row = row
      BY <3>2, <3>4
    <3> QED
      BY <3>4, <3>5, <3>6
  <2> QED
    BY <2>1, <2>2
<1> HIDE DEF seconds, firsts
<1>4. /\ chained' \in Seq(RowReads) /\ Len(chained') = Len(seconds) + Len(firsts)
      /\ \A i \in 1 .. Len(seconds) : chained'[i] = seconds[i]
      /\ \A i \in 1 .. Len(firsts) : chained'[Len(seconds) + i] = firsts[i]
      /\ \A i \in 1 .. Len(chained') : \/ i \in 1 .. Len(seconds) /\ chained'[i] = seconds[i]
                                      \/ /\ i - Len(seconds) \in 1 .. Len(firsts)
                                         /\ chained'[i] = firsts[i - Len(seconds)]
  BY <1>0, <1>2, <1>3
<1>5. \A i \in 1 .. Len(chained') : CurrentRead(chained'[i])
  BY <1>2, <1>3, <1>4
<1>6. RcTypeOK'
  BY <1>0, <1>4 DEF RcTypeOK
<1>7. QueuesOK'
  BY <1>0, <1>5, SameWrites DEF QueuesOK
<1>8. RoundOK'
  BY <1>0, SameWrites, SameRound DEF RoundOK
<1>9. opened > 0 => \A row \in RowsOf(opened) :
        \E i \in 1 .. Len(chained') : chained'[i].region = 2 /\ chained'[i].row = row
  <2>1. 1 .. Len(seconds) \subseteq 1 .. Len(chained')
    BY <1>2, <1>3, <1>4
  <2> QED
    BY <1>2, <1>4, <2>1
<1>10. opened < Len(Windows) => \A row \in RowsOf(opened + 1) :
         \E i \in 1 .. Len(chained') : chained'[i].region = 1 /\ chained'[i].row = row
  <2> SUFFICES ASSUME opened < Len(Windows), NEW row \in RowsOf(opened + 1)
               PROVE  \E i \in 1 .. Len(chained') : chained'[i].region = 1 /\ chained'[i].row = row
    OBVIOUS
  <2>1. PICK i \in 1 .. Len(firsts) : firsts[i].region = 1 /\ firsts[i].row = row
    BY <1>3
  <2>2. Len(seconds) + i \in 1 .. Len(chained') /\ chained'[Len(seconds) + i] = firsts[i]
    BY <1>2, <1>3, <1>4
  <2> QED
    BY <2>1, <2>2
<1>11. ChainCovered'
  BY <1>0, <1>9, <1>10, SameRound DEF ChainCovered, Pending
<1> QED
  BY <1>0, <1>6, <1>7, <1>8, <1>11 DEF AnswerOK

\* A window of the chain: what is not posted stays, and all of it is current.
LEMMA PostReadsStep == RcInv /\ PostReads => RcInv'
<1> SUFFICES ASSUME RcInv, PostReads PROVE RcInv'
  OBVIOUS
<1> USE DEF RcInv
<1> DEFINE n == IF Len(chained) < SendDepth THEN Len(chained) ELSE SendDepth
<1>0. PICK sent \in 0 .. n :
        /\ squeue' = squeue \o [i \in 1 .. sent |-> [read |-> chained[i], signaled |-> i = n]]
        /\ chained' = SubSeq(chained, n + 1, Len(chained))
        /\ step' = IF sent = n THEN "poll" ELSE "quiesce"
  BY DEF PostReads
<1>1. /\ step = "post" /\ squeue = <<>> /\ cqueue = <<>>
      /\ UNCHANGED <<calls, size, torn, opened, retries, answer, broken, cqueue, landed, visible>>
  BY DEF PostReads, QueuesOK
<1>2. chained \in Seq(RowReads) /\ n \in 0 .. Len(chained)
  BY RcAssumption DEF RcTypeOK
<1> HIDE DEF n
<1> DEFINE request(i) == [read |-> chained[i], signaled |-> i = n]
<1> DEFINE wrs == [i \in 1 .. sent |-> [read |-> chained[i], signaled |-> i = n]]
<1>3. /\ wrs \in Seq([read : RowReads, signaled : BOOLEAN]) /\ Len(wrs) = sent
      /\ \A i \in 1 .. sent : wrs[i].read = chained[i] /\ (wrs[i].signaled <=> i = n)
  <2>1. \A i \in 1 .. sent : chained[i] \in RowReads
    BY <1>2
  <2>2. \A i \in 1 .. sent : request(i) \in [read : RowReads, signaled : BOOLEAN]
    BY <2>1, Zenon
  <2>3. \A i : request(i).read = chained[i] /\ (request(i).signaled <=> i = n)
    BY Zenon
  <2>4. wrs = [i \in 1 .. sent |-> request(i)]
    BY Zenon
  <2> HIDE DEF request, wrs
  <2>5. wrs \in Seq([read : RowReads, signaled : BOOLEAN]) /\ Len(wrs) = sent
    BY <1>2, <2>2, <2>4
  <2>6. \A i \in 1 .. sent : wrs[i] = request(i)
    BY <2>4, Zenon
  <2> QED
    BY <2>3, <2>5, <2>6, Zenon
<1> HIDE DEF wrs
<1>4. squeue' = wrs
  BY <1>0, <1>1, <1>3 DEF wrs
<1>5. /\ chained' \in Seq(RowReads) /\ Len(chained') = Len(chained) - n
      /\ \A i \in 1 .. Len(chained') : chained'[i] = chained[n + i]
  BY <1>0, <1>2
<1>6. \A i \in 1 .. Len(chained) : CurrentRead(chained[i])
  BY <1>1 DEF QueuesOK
<1>7. RcTypeOK'
  BY <1>0, <1>1, <1>3, <1>4, <1>5 DEF RcTypeOK
<1>8. QueuesOK'
  <2>1. step' \in {"poll", "quiesce"}
    BY <1>0
  <2>2. \A i \in 1 .. Len(squeue') : squeue'[i].signaled => i = Len(squeue')
    <3>1. \A i \in 1 .. sent : squeue'[i].signaled <=> i = n
      BY <1>3, <1>4, Zenon
    <3>2. \A i \in 1 .. sent : i = n => i = sent
      BY <1>2
    <3> QED
      BY <1>3, <1>4, <3>1, <3>2, Zenon
  <2>3. \A i \in 1 .. Len(squeue') : CurrentRead(squeue'[i].read)
    BY <1>0, <1>2, <1>3, <1>4, <1>6
  <2>4. \A i \in 1 .. Len(chained') : n + i \in 1 .. Len(chained)
    BY <1>2, <1>5
  <2>5. \A i \in 1 .. Len(chained') : CurrentRead(chained'[i])
    BY <1>5, <1>6, <2>4
  <2> QED
    BY <1>1, <2>1, <2>2, <2>3, <2>5, SameWrites DEF QueuesOK
<1>9. RoundOK'
  BY <1>0, <1>1, SameWrites, SameRound DEF RoundOK
<1>10. ChainCovered'
  <2>1. CASE sent # n
    BY <1>0, <2>1 DEF ChainCovered
  <2>2. CASE sent = n
    <3>1. ASSUME NEW g, NEW row, Pending(g, row) PROVE Pending(g, row)'
      <4>1. CASE landed[g][row] = Stamp
        BY <1>1, <4>1, SameRound DEF Pending
      <4>2. CASE \E i \in 1 .. Len(chained) : chained[i].region = g /\ chained[i].row = row
        <5>1. PICK i \in 1 .. Len(chained) : chained[i].region = g /\ chained[i].row = row
          BY <4>2
        <5>2. CASE i <= n
          <6>1. i \in 1 .. Len(squeue') /\ squeue'[i].read = chained[i]
            BY <1>2, <1>3, <1>4, <2>2, <5>2
          <6> QED
            BY <5>1, <6>1 DEF Pending
        <5>3. CASE i > n
          <6>1. i - n \in 1 .. Len(chained')
            BY <1>2, <1>5, <5>3
          <6>2. chained'[i - n] = chained[n + (i - n)] /\ n + (i - n) = i
            BY <1>2, <1>5, <6>1
          <6> QED
            BY <5>1, <6>1, <6>2 DEF Pending
        <5> QED
          BY <1>2, <5>2, <5>3
      <4> QED
        BY <1>1, <3>1, <4>1, <4>2 DEF Pending
    <3>2. step' = "poll" /\ opened' = opened /\ Windows' = Windows
          /\ \A w : RowsOf(w)' = RowsOf(w)
      BY <1>0, <1>1, <2>2, SameRound
    <3> QED
      BY <1>1, <3>1, <3>2 DEF ChainCovered
  <2> QED
    BY <2>1, <2>2
<1> QED
  BY <1>1, <1>7, <1>8, <1>9, <1>10 DEF AnswerOK

\* A good completion is the chain window's last, with nothing behind it.
LEMMA PollCompletionStep == RcInv /\ PollCompletion => RcInv'
<1> SUFFICES ASSUME RcInv, PollCompletion PROVE RcInv'
  OBVIOUS
<1> USE DEF RcInv
<1>0. /\ step = "poll" /\ cqueue # <<>> /\ cqueue' = Tail(cqueue)
      /\ step' = IF Head(cqueue) = "failed" THEN "quiesce"
                 ELSE IF chained # <<>> THEN "post" ELSE "flush"
      /\ UNCHANGED <<calls, size, torn, opened, chained, retries, answer, broken, squeue, landed,
                     visible>>
  BY DEF PollCompletion
<1>1. /\ cqueue \in Seq({"done", "failed"}) /\ cqueue' \in Seq({"done", "failed"})
      /\ Len(cqueue') = Len(cqueue) - 1
      /\ \A i \in 1 .. Len(cqueue') : cqueue'[i] = cqueue[i + 1]
      /\ Head(cqueue) = cqueue[1] /\ Len(cqueue) \in Nat \ {0}
  BY <1>0 DEF RcTypeOK
<1>2. RcTypeOK'
  BY <1>0, <1>1 DEF RcTypeOK
<1>3. CASE Head(cqueue) = "failed"
  <2>1. \A i \in 1 .. Len(cqueue') : i + 1 \in 1 .. Len(cqueue)
    BY <1>1
  <2>2. \A i \in 1 .. Len(cqueue') : cqueue'[i] = "done" => i = Len(cqueue') /\ squeue' = <<>>
    <3> SUFFICES ASSUME NEW i \in 1 .. Len(cqueue'), cqueue'[i] = "done"
                 PROVE  i = Len(cqueue') /\ squeue' = <<>>
      OBVIOUS
    <3>1. cqueue[i + 1] = "done" /\ i + 1 \in 1 .. Len(cqueue)
      BY <1>1, <2>1
    <3>2. i + 1 = Len(cqueue) /\ squeue = <<>>
      BY <3>1 DEF QueuesOK
    <3>3. i = Len(cqueue')
      BY <1>1, <3>2
    <3> QED
      BY <1>0, <3>2, <3>3
  <2>3. QueuesOK'
    BY <1>0, <1>3, <2>2, SameWrites DEF QueuesOK
  <2> QED
    BY <1>0, <1>2, <1>3, <2>3 DEF RoundOK, ChainCovered, AnswerOK
<1>4. CASE Head(cqueue) = "done"
  <2>1. squeue = <<>> /\ Len(cqueue) = 1
    <3>1. 1 \in 1 .. Len(cqueue) /\ cqueue[1] = "done"
      BY <1>1, <1>4
    <3> QED
      BY <3>1 DEF QueuesOK
  <2>2. cqueue' = <<>> /\ squeue' = <<>>
    BY <1>0, <1>1, <2>1
  <2>3. QueuesOK'
    BY <1>0, <2>2, SameWrites DEF QueuesOK
  <2>4. RoundOK'
    BY <1>0, <1>4, SameWrites, SameRound DEF RoundOK
  <2>5. \A i \in 1 .. Len(cqueue) : cqueue[i] = "done"
    BY <1>1, <1>4, <2>1
  <2>6. \A g, row : Pending(g, row) => Pending(g, row)'
    BY <1>0, SameRound DEF Pending
  <2>7. ChainCovered'
    <3>1. opened' = opened /\ Windows' = Windows /\ \A w : RowsOf(w)' = RowsOf(w)
      BY <1>0, SameRound
    <3>2. step' = "flush" => chained' = <<>>
      BY <1>0, <1>4
    <3> QED
      BY <1>0, <2>5, <2>6, <3>1, <3>2 DEF ChainCovered
  <2> QED
    BY <1>0, <1>2, <2>3, <2>4, <2>7 DEF AnswerOK
<1> QED
  BY <1>1, <1>3, <1>4

LEMMA GiveUpRcStep == RcInv /\ (PollDeadline \/ QuiesceClient) => RcInv'
<1> SUFFICES ASSUME RcInv, PollDeadline \/ QuiesceClient PROVE RcInv'
  OBVIOUS
<1> USE DEF RcInv
<1>1. CASE PollDeadline
  <2>1. RcTypeOK'
    BY <1>1 DEF PollDeadline, RcTypeOK
  <2>2. QueuesOK'
    BY <1>1, SameWrites DEF PollDeadline, QueuesOK
  <2> QED
    BY <1>1, <2>1, <2>2 DEF PollDeadline, RoundOK, ChainCovered, AnswerOK
<1>2. CASE QuiesceClient
  <2>1. squeue' = <<>> /\ cqueue' = <<>>
    BY <1>2 DEF QuiesceClient
  <2>2. RcTypeOK'
    BY <1>2, <2>1 DEF QuiesceClient, RcTypeOK
  <2> QED
    BY <1>2, <2>1, <2>2 DEF QuiesceClient, QueuesOK, RoundOK, ChainCovered, AnswerOK
<1> QED
  BY <1>1, <1>2

\* The flush makes the whole chain visible, if none of its READs failed.
LEMMA FlushStep == RcInv /\ FlushWrites => RcInv'
<1> SUFFICES ASSUME RcInv, FlushWrites PROVE RcInv'
  OBVIOUS
<1> USE DEF RcInv
<1>0. /\ step = "flush"
      /\ UNCHANGED <<calls, size, torn, chained, retries, broken, squeue, cqueue, landed>>
  BY DEF FlushWrites
<1>1. squeue = <<>> /\ cqueue = <<>> /\ squeue' = <<>> /\ cqueue' = <<>>
  BY <1>0 DEF QueuesOK
<1>2. CASE step' = "idle" /\ answer' = "err" /\ UNCHANGED <<visible, opened>>
  <2>1. RcTypeOK'
    BY <1>0, <1>2 DEF RcTypeOK
  <2> QED
    BY <1>0, <1>1, <1>2, <2>1 DEF QueuesOK, RoundOK, ChainCovered, AnswerOK
<1>3. CASE /\ visible' = landed /\ opened' = opened + 1 /\ UNCHANGED answer
           /\ step' = IF opened = Len(Windows) THEN "validate" ELSE "chain"
  <2>1. RcTypeOK'
    BY <1>0, <1>3 DEF RcTypeOK
  <2>2. QueuesOK'
    BY <1>1, <1>3 DEF QueuesOK
  <2>3. ChainCovered' /\ AnswerOK'
    BY <1>0, <1>3 DEF ChainCovered, AnswerOK
  <2>4. torn # <<>> /\ opened \in Nat /\ Len(Windows) \in Nat /\ opened <= Len(Windows)
    BY <1>0, ChunksNow DEF RoundOK, RcTypeOK
  <2>5. /\ opened > 0 => \A row \in RowsOf(opened) : landed[2][row] = Stamp
        /\ opened < Len(Windows) => \A row \in RowsOf(opened + 1) : landed[1][row] = Stamp
    BY <1>0, <1>1 DEF ChainCovered, Pending
  <2>6. \A g, row : landed[g][row] = Stamp => Settled(g, row)'
    BY <1>0, <1>3, SameRound DEF Settled
  <2>7. ASSUME NEW w \in 1 .. Len(Windows), NEW row \in RowsOf(w)
        PROVE  (w <= opened + 1 => Settled(1, row)') /\ (w < opened + 1 => Settled(2, row)')
    <3>1. /\ w <= opened => landed[1][row] = Stamp
          /\ w < opened => landed[2][row] = Stamp
      BY <1>0, <2>7 DEF RoundOK, Settled
    <3>2. w = opened + 1 => landed[1][row] = Stamp
      BY <2>4, <2>5, <2>7
    <3>3. w = opened => landed[2][row] = Stamp
      BY <2>4, <2>5, <2>7
    <3> QED
      BY <2>4, <2>6, <3>1, <3>2, <3>3
  <2>8. \A row \in (1 .. size) \ TornRows : Agreed(row)'
    BY <1>0, <1>3 DEF RoundOK, Agreed
  <2>9. RoundOK'
    <3>1. /\ torn' = torn /\ size' = size /\ Windows' = Windows /\ TornRows' = TornRows
          /\ \A w : RowsOf(w)' = RowsOf(w)
      BY <1>0, SameRound
    <3>2. step' # "validate" => opened' <= Len(Windows')
      BY <1>3, <2>4, <3>1
    <3>3. step' = "validate" => opened' = Len(Windows') + 1
      BY <1>3, <2>4, <3>1
    <3> QED
      BY <1>3, <2>4, <2>7, <2>8, <3>1, <3>2, <3>3 DEF RoundOK
  <2> QED
    BY <2>1, <2>2, <2>3, <2>9
<1> QED
  BY <1>2, <1>3 DEF FlushWrites

\* Validation: every row of the round has been read twice.
LEMMA ValidateStep == RcInv /\ Validate => RcInv'
<1> SUFFICES ASSUME RcInv, Validate PROVE RcInv'
  OBVIOUS
<1> USE DEF RcInv
<1>0. /\ step = "validate" /\ torn' \in Rejected /\ opened' = 0
      /\ UNCHANGED <<calls, size, chained, broken, squeue, cqueue, landed, visible>>
  BY DEF Validate
<1>1. squeue = <<>> /\ cqueue = <<>> /\ squeue' = <<>> /\ cqueue' = <<>>
  BY <1>0 DEF QueuesOK
<1>2. torn # <<>> /\ torn \in Seq(1 .. size) /\ size \in Nat /\ opened = Len(Windows) + 1
      /\ Len(Windows) \in Nat
  BY <1>0, ChunksNow DEF RoundOK, RcTypeOK
<1>3. \A row \in TornRows : Settled(1, row) /\ Settled(2, row)
  <2>1. SUFFICES ASSUME NEW row \in TornRows PROVE Settled(1, row) /\ Settled(2, row)
    OBVIOUS
  <2>2. PICK w \in 1 .. Len(Windows) : row \in RowsOf(w)
    BY <1>2, ChunksNow
  <2>3. w <= opened /\ w < opened
    BY <1>2, <2>2
  <2> QED
    BY <1>0, <2>2, <2>3 DEF RoundOK
<1>4. \A row \in 1 .. size : Agreed(row)
  <2>1. \A row \in TornRows : Agreed(row)
    BY <1>3 DEF Agreed, Settled, Stamp
  <2> QED
    BY <1>0, <2>1 DEF RoundOK
<1>5. \A row : Agreed(row)' <=> Agreed(row)
  BY <1>0 DEF Agreed
<1>6. torn' \in Seq(1 .. size)
  <2>1. {torn[i] : i \in DOMAIN torn} \subseteq 1 .. size
    BY <1>2
  <2>2. PICK m \in 0 .. Len(torn) : torn' \in [1 .. m -> {torn[i] : i \in DOMAIN torn}]
    BY <1>0 DEF Rejected
  <2> QED
    BY <1>2, <2>1, <2>2
<1>7. CASE step' = "idle" /\ retries' = retries
  <2>1. RcTypeOK'
    BY <1>0, <1>6, <1>7 DEF RcTypeOK
  <2>2. answer' = "ok" \/ answer' = "err"
    BY <1>0, <1>7 DEF Validate
  <2>3. \A i \in 1 .. size : visible[1][i].call = calls /\ visible[2][i] = visible[1][i]
    BY <1>4 DEF Agreed
  <2> QED
    BY <1>0, <1>1, <1>7, <2>1, <2>3 DEF QueuesOK, RoundOK, ChainCovered, AnswerOK
<1>8. CASE step' = "chain" /\ retries' = retries - 1 /\ retries # 0 /\ answer' = answer
           /\ torn' # <<>>
  <2>1. RcTypeOK'
    BY <1>0, <1>6, <1>8 DEF RcTypeOK
  <2>2. Len(Windows)' \in Nat
    BY <1>8, <2>1, ChunksNext DEF Chunked, RcTypeOK
  <2>3. RoundOK'
    BY <1>0, <1>4, <1>5, <1>8, <2>2 DEF RoundOK
  <2> QED
    BY <1>0, <1>1, <1>8, <2>1, <2>3 DEF QueuesOK, ChainCovered, AnswerOK
<1> QED
  BY <1>7, <1>8 DEF Validate

\* The NIC only writes this round's READs, to rows of this round.
LEMMA NicReadStep == RcInv /\ NicRead => RcInv'
<1> SUFFICES ASSUME RcInv, NicRead PROVE RcInv'
  OBVIOUS
<1> USE DEF RcInv
<1> DEFINE wr == Head(squeue)
<1>0. /\ squeue # <<>> /\ squeue' = Tail(squeue)
      /\ UNCHANGED <<step, calls, size, torn, opened, chained, retries, answer, broken>>
  BY DEF NicRead
<1>1. /\ wr = squeue[1] /\ Len(squeue) \in Nat \ {0}
      /\ wr \in [read : RowReads, signaled : BOOLEAN]
      /\ squeue' \in Seq([read : RowReads, signaled : BOOLEAN]) /\ Len(squeue') = Len(squeue) - 1
      /\ \A i \in 1 .. Len(squeue') : squeue'[i] = squeue[i + 1] /\ i + 1 \in 1 .. Len(squeue)
  <2> DEFINE T == [read : RowReads, signaled : BOOLEAN]
  <2>1. squeue \in Seq(T)
    BY DEF RcTypeOK
  <2> HIDE DEF T
  <2>2. /\ Head(squeue) = squeue[1] /\ Len(squeue) \in Nat \ {0} /\ squeue[1] \in T
        /\ Tail(squeue) \in Seq(T) /\ Len(Tail(squeue)) = Len(squeue) - 1
        /\ \A i \in 1 .. Len(Tail(squeue)) : Tail(squeue)[i] = squeue[i + 1]
    BY <1>0, <2>1
  <2>3. \A i \in 1 .. Len(Tail(squeue)) : i + 1 \in 1 .. Len(squeue)
    BY <2>2
  <2> QED
    BY <1>0, <2>2, <2>3, Zenon DEF T
<1> HIDE DEF wr
<1>2. CurrentRead(wr.read) /\ wr.read.row \in Batch /\ wr.read.region \in 1 .. 2
      /\ wr.read.stamp = Stamp
  <2>1. 1 \in 1 .. Len(squeue)
    BY <1>1
  <2>2. CurrentRead(wr.read) /\ wr.read \in RowReads
    BY <1>1, <2>1 DEF QueuesOK
  <2> QED
    BY <2>2 DEF CurrentRead, RowReads
<1>3. step \in {"poll", "quiesce"}
  BY <1>0 DEF QueuesOK
<1>4. cqueue \in Seq({"done", "failed"}) /\ \A i \in 1 .. Len(cqueue) : cqueue[i] # "done"
  BY <1>0 DEF RcTypeOK, QueuesOK
<1>5. wr.signaled => squeue' = <<>>
  <2>1. wr.signaled => 1 = Len(squeue)
    <3>1. 1 \in 1 .. Len(squeue)
      BY <1>1
    <3>2. squeue[1].signaled => 1 = Len(squeue)
      BY <3>1, Zenon DEF QueuesOK
    <3> QED
      BY <1>1, <3>2, Zenon
  <2>2. 1 = Len(squeue) => squeue' = <<>>
    <3>1. SUFFICES ASSUME 1 = Len(squeue) PROVE squeue' = <<>>
      OBVIOUS
    <3>2. squeue \in Seq([read : RowReads, signaled : BOOLEAN])
      BY DEF RcTypeOK
    <3> QED
      BY <1>0, <3>1, <3>2
  <2> QED
    BY <2>1, <2>2, Zenon
<1>6. /\ landed \in [1 .. 2 -> [Batch -> Stamps]] /\ visible \in [1 .. 2 -> [Batch -> Stamps]]
      /\ \/ /\ landed' = [landed EXCEPT ![wr.read.region][wr.read.row] = Stamp]
            /\ visible' \in {visible, landed'}
         \/ UNCHANGED <<landed, visible>>
  BY <1>2 DEF NicRead, RcTypeOK, wr
<1>7. /\ cqueue' \in Seq({"done", "failed"})
      /\ \A i \in 1 .. Len(cqueue') : cqueue'[i] = "done" => i = Len(cqueue') /\ squeue' = <<>>
  <2>1. CASE cqueue' = cqueue
    BY <1>4, <2>1
  <2>2. CASE cqueue' = Append(cqueue, "failed")
    BY <1>4, <2>2
  <2>3. CASE cqueue' = Append(cqueue, "done") /\ squeue' = <<>>
    BY <1>4, <2>3
  <2> QED
    BY <1>5, <2>1, <2>2, <2>3 DEF NicRead, wr
<1>8. landed' \in [1 .. 2 -> [Batch -> Stamps]] /\ visible' \in [1 .. 2 -> [Batch -> Stamps]]
  BY <1>2, <1>6, StampTyped
<1>9. RcTypeOK'
  BY <1>0, <1>1, <1>7, <1>8 DEF RcTypeOK
<1>10. /\ Stamp' = Stamp /\ Windows' = Windows /\ TornRows' = TornRows
       /\ \A w : RowsOf(w)' = RowsOf(w)
  BY <1>0, SameRound
\* what is settled stays so
<1>11. ASSUME NEW g \in 1 .. 2, NEW row \in Batch
       PROVE  /\ landed[g][row] = Stamp => landed'[g][row] = Stamp
              /\ Settled(g, row) => Settled(g, row)'
  <2>1. landed'[g][row] \in {landed[g][row], Stamp}
    <3>1. CASE landed' = [landed EXCEPT ![wr.read.region][wr.read.row] = Stamp]
      <4>1. landed'[g] = IF g = wr.read.region THEN [landed[g] EXCEPT ![wr.read.row] = Stamp]
                         ELSE landed[g]
        BY <1>2, <1>6, <3>1
      <4>2. landed[g] \in [Batch -> Stamps]
        BY <1>6
      <4> QED
        BY <1>2, <4>1, <4>2
    <3>2. CASE landed' = landed
      BY <3>2
    <3> QED
      BY <1>6, <3>1, <3>2
  <2>2. visible'[g][row] \in {visible[g][row], landed'[g][row]}
    BY <1>6
  <2> QED
    BY <1>10, <2>1, <2>2 DEF Settled
<1>12. TornRows \subseteq Batch
  <2>1. \A i \in 1 .. Len(torn) : torn[i] \in 1 .. size
    BY DEF RcTypeOK
  <2> QED
    BY <2>1 DEF TornRows, RcTypeOK
<1>13. \A read : CurrentRead(read) => CurrentRead(read)'
  BY <1>10, <1>11, <1>12 DEF CurrentRead
<1>14. QueuesOK'
  <2>1. \A i \in 1 .. Len(squeue') : squeue'[i].signaled => i = Len(squeue')
    <3> SUFFICES ASSUME NEW i \in 1 .. Len(squeue'), squeue'[i].signaled PROVE i = Len(squeue')
      OBVIOUS
    <3>1. i + 1 \in 1 .. Len(squeue) /\ squeue[i + 1].signaled
      BY <1>1, Zenon
    <3>2. i + 1 = Len(squeue)
      BY <3>1, Zenon DEF QueuesOK
    <3> QED
      BY <1>1, <3>2
  <2>2. (\A i \in 1 .. Len(squeue) : CurrentRead(squeue[i].read))'
    <3>1. \A i \in 1 .. Len(squeue') : CurrentRead(squeue[i + 1].read)
      BY <1>1, Zenon DEF QueuesOK
    <3>2. ASSUME NEW i \in 1 .. Len(squeue') PROVE (CurrentRead(squeue[i].read))'
      <4>1. squeue'[i].read = squeue[i + 1].read
        BY <1>1, Zenon
      <4> QED
        BY <1>13, <3>1, <4>1, Zenon DEF CurrentRead
    <3> QED
      BY <3>2
  <2>3. (step \in {"post", "poll"} => \A i \in 1 .. Len(chained) : CurrentRead(chained[i]))'
    BY <1>0, <1>13 DEF QueuesOK, CurrentRead
  <2> QED
    BY <1>0, <1>3, <1>7, <2>1, <2>2, <2>3 DEF QueuesOK
<1>15. RoundOK'
  <2>1. \A row \in (1 .. size) \ TornRows : Agreed(row) => Agreed(row)'
    <3>1. 1 .. size \subseteq Batch
      BY DEF RcTypeOK
    <3>2. wr.read.row \in TornRows
      BY <1>2 DEF CurrentRead
    <3>3. ASSUME NEW g \in 1 .. 2, NEW row \in (1 .. size) \ TornRows
          PROVE  landed'[g][row] = landed[g][row]
      <4>1. row # wr.read.row /\ row \in Batch
        BY <3>1, <3>2
      <4> QED
        BY <1>2, <1>6, <4>1 DEF RcTypeOK
    <3> QED
      BY <1>0, <1>6, <3>3 DEF Agreed
  <2>2. step \in {"chain", "post", "poll", "flush", "validate"} =>
          \A w \in 1 .. Len(Windows) : RowsOf(w) \subseteq Batch
    <3>1. step \in {"chain", "post", "poll", "flush", "validate"} =>
            \A w \in 1 .. Len(Windows) : Windows[w] \in Seq(TornRows)
      BY ChunksNow DEF RoundOK
    <3> QED
      BY <1>12, <3>1 DEF RowsOf
  <2> QED
    BY <1>0, <1>10, <1>11, <2>1, <2>2 DEF RoundOK
<1>16. ChainCovered'
  <2>1. SUFFICES ASSUME step = "poll", \A i \in 1 .. Len(cqueue') : cqueue'[i] = "done"
                 PROVE  /\ opened > 0 => \A row \in RowsOf(opened) : Pending(2, row)'
                        /\ opened < Len(Windows) => \A row \in RowsOf(opened + 1) : Pending(1, row)'
    BY <1>0, <1>3, <1>10 DEF ChainCovered
  <2>2. cqueue' # Append(cqueue, "failed")
    <3>1. cqueue' = Append(cqueue, "failed") =>
            Len(cqueue') \in 1 .. Len(cqueue') /\ cqueue'[Len(cqueue')] = "failed"
      BY <1>4
    <3> QED
      BY <2>1, <3>1
  <2>3. landed' = [landed EXCEPT ![wr.read.region][wr.read.row] = Stamp]
    BY <1>2, <2>2 DEF NicRead, wr
  <2>4. \A i \in 1 .. Len(cqueue) : cqueue[i] = "done"
    <3>1. cqueue = <<>>
      <4>1. cqueue' = cqueue \/ cqueue' = Append(cqueue, "done")
        BY <2>2 DEF NicRead
      <4>2. \A i \in 1 .. Len(cqueue) : i \in 1 .. Len(cqueue') /\ cqueue'[i] = cqueue[i]
        BY <1>4, <4>1
      <4> QED
        BY <1>4, <2>1, <4>2
    <3> QED
      BY <3>1
  <2>5. ASSUME NEW g \in 1 .. 2, NEW row \in Batch, Pending(g, row) PROVE Pending(g, row)'
    <3>1. CASE landed[g][row] = Stamp
      BY <1>10, <1>11, <3>1 DEF Pending
    <3>2. CASE \E i \in 1 .. Len(chained) : chained[i].region = g /\ chained[i].row = row
      BY <1>0, <3>2 DEF Pending
    <3>3. CASE \E i \in 1 .. Len(squeue) : squeue[i].read.region = g /\ squeue[i].read.row = row
      <4>1. PICK i \in 1 .. Len(squeue) : squeue[i].read.region = g /\ squeue[i].read.row = row
        BY <3>3
      <4>2. CASE i = 1
        BY <1>1, <1>10, <2>3, <4>1, <4>2 DEF Pending, RcTypeOK
      <4>3. CASE i # 1
        <5>1. i - 1 \in 1 .. Len(squeue')
          BY <1>1, <4>3
        <5>2. squeue'[i - 1] = squeue[(i - 1) + 1] /\ (i - 1) + 1 = i
          BY <1>1, <5>1
        <5> QED
          BY <4>1, <5>1, <5>2 DEF Pending
      <4> QED
        BY <4>2, <4>3
    <3> QED
      BY <2>5, <3>1, <3>2, <3>3 DEF Pending
  <2>6. \A w \in 1 .. Len(Windows) : RowsOf(w) \subseteq Batch
    <3>1. torn # <<>>
      BY <2>1 DEF RoundOK
    <3>2. \A w \in 1 .. Len(Windows) : Windows[w] \in Seq(TornRows)
      BY <3>1, ChunksNow
    <3> QED
      BY <1>12, <3>2 DEF RowsOf
  <2>7. /\ opened > 0 => opened \in 1 .. Len(Windows)
        /\ opened < Len(Windows) => opened + 1 \in 1 .. Len(Windows)
    BY <2>1, ChunksNow DEF RoundOK, RcTypeOK
  <2> QED
    BY <2>1, <2>4, <2>5, <2>6, <2>7 DEF ChainCovered
<1>17. AnswerOK'
  BY <1>0, <1>3 DEF AnswerOK
<1> QED
  BY <1>9, <1>14, <1>15, <1>16, <1>17

LEMMA RcStepInv == RcInv /\ [RcNext]_rcvars => RcInv'
<1> SUFFICES ASSUME RcInv, [RcNext]_rcvars PROVE RcInv'
  OBVIOUS
<1>1. CASE UNCHANGED rcvars
  <2>1. /\ UNCHANGED <<step, calls, size, torn, opened, chained, retries, answer>>
        /\ UNCHANGED <<squeue, cqueue, landed, visible>>
    BY <1>1 DEF rcvars
  <2>2. RcTypeOK' /\ AnswerOK'
    BY <2>1 DEF RcInv, RcTypeOK, AnswerOK
  <2>3. QueuesOK'
    BY <2>1, SameWrites DEF RcInv, QueuesOK
  <2>4. RoundOK'
    BY <2>1, SameWrites, SameRound DEF RcInv, RoundOK
  <2>5. ChainCovered'
    BY <2>1, SameRound DEF RcInv, ChainCovered, Pending
  <2> QED
    BY <2>2, <2>3, <2>4, <2>5 DEF RcInv
<1>2. CASE RcNext
  BY <1>2, BeginStep, BuildChainStep, PostReadsStep, PollCompletionStep, GiveUpRcStep, FlushStep,
     ValidateStep, NicReadStep DEF RcNext
<1> QED
  BY <1>1, <1>2

\* For any gathers, send-queue depth and retries, a row's second READ is posted
\* only when its first is complete and visible, although the windows overlap;
\* the rows of a successful gather were read twice in that call; and no READ is
\* left when the call has returned (client.rs, read_snapshots, post_and_wait).
THEOREM WindowsKeepOrderAlways == RcSpec => []WindowsKeepOrder
<1>1. RcInv => WindowsKeepOrder
  <2> SUFFICES ASSUME RcInv PROVE WindowsKeepOrder
    OBVIOUS
  <2>1. \A i \in 1 .. Len(squeue) : squeue[i].read.region = 2 =>
          visible[1][squeue[i].read.row] = squeue[i].read.stamp
    BY DEF RcInv, QueuesOK, CurrentRead, Settled
  <2> QED
    BY <2>1 DEF RcInv, QueuesOK, AnswerOK, WindowsKeepOrder
<1> QED
  BY <1>1, RcInitInv, RcStepInv, PTL DEF RcSpec
=============================================================================
