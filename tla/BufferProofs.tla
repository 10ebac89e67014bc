----------------------------- MODULE BufferProofs -----------------------------
(***************************************************************************)
(* Buffers that change hands without a lock.                               *)
(*                                                                         *)
(* Every slot of the free list is in one place (OnePlace), for any number  *)
(* of slots and threads.  The stack is described without walking it: the   *)
(* links of the free slots are injective, stay inside the stack, and none  *)
(* leads to the head; a chain about to be spliced is linked in its order;  *)
(* and a thread whose word still is the head holds the link it read.       *)
(*                                                                         *)
(* Every frame of the packet loop is in one place or counted as lost       *)
(* (FramesConserved), for rings of any size.  Each step moves a set of     *)
(* frames between two of eight places that are pairwise disjoint.  What a  *)
(* place of a ring holds is read through wrapping indices: the entries     *)
(* between the two indices of a ring are all different, and the indices a  *)
(* side has cached only understate what it may put in or take out.         *)
(***************************************************************************)
EXTENDS FreeList, PacketIngest, Integers, FiniteSetTheorems, TLAPS


Pcs == {"idle", "next", "cas", "again", "mark", "link", "load", "store", "splice"}
Releasing == {"link", "load", "store", "splice"}

FreeListTypeOK ==
  /\ head \in SlotIds \cup {EMPTY}
  /\ next \in [SlotIds -> SlotIds \cup {EMPTY, LEASED}]
  /\ pc \in [Threads -> Pcs]
  /\ seen \in [Threads -> [index : SlotIds \cup {EMPTY}, tag : Int]]
  /\ headTag \in Int
  /\ link \in [Threads -> SlotIds \cup {EMPTY, LEASED}]
  /\ todo \in [Threads -> SUBSET SlotIds]
  /\ chain \in [Threads -> Seq(SlotIds)]
  /\ free \in SUBSET SlotIds /\ leased \in SUBSET SlotIds

\* The links of the free slots, without the ones they have in hand.
StackOK ==
  /\ head \in free \cup {EMPTY}
  /\ \A i \in free : next[i] \in free \cup {EMPTY}
  /\ \A i \in free : next[i] = head => head = EMPTY
  /\ \A i, j \in free : i # j /\ next[i] = next[j] => next[i] = EMPTY

\* A chain is linked in its order, and after the store its end leads to the
\* head the thread saw.
ChainOK(t) ==
  /\ pc[t] # "link" => todo[t] = {}
  /\ pc[t] \notin Releasing => chain[t] = <<>>
  /\ pc[t] \in Releasing =>
    /\ \A i, j \in 1 .. Len(chain[t]) : i # j => chain[t][i] # chain[t][j]
    /\ \A i \in 1 .. Len(chain[t]) : chain[t][i] \notin todo[t]
    /\ \A i \in 1 .. Len(chain[t]) - 1 : next[chain[t][i]] = chain[t][i + 1]
    /\ pc[t] # "link" => Len(chain[t]) > 0
    /\ pc[t] = "splice" => next[chain[t][Len(chain[t])]] = seen[t].index

\* A CAS that succeeds installs the link the head still has.
CasOK(t) ==
  /\ pc[t] = "cas" => seen[t].index \in SlotIds
  /\ pc[t] = "cas" /\ HeadIs(t) => link[t] = next[head]
  /\ pc[t] = "mark" => seen[t].index \in SlotIds

FreeListInv ==
  FreeListTypeOK /\ StackOK /\ OnePlace /\ \A t \in Threads : ChainOK(t) /\ CasOK(t)

LEMMA InitInv == FreeListInit => FreeListInv
<1> SUFFICES ASSUME FreeListInit PROVE FreeListInv
  OBVIOUS
<1> USE FreeListAssumption DEF FreeListInit, SlotIds, EMPTY, LEASED, NoHead
<1>1. FreeListTypeOK
  BY DEF FreeListTypeOK, Pcs
<1>2. StackOK
  BY DEF StackOK
<1>3. OnePlace
  BY DEF OnePlace, InHand
<1>4. \A t \in Threads : ChainOK(t) /\ CasOK(t)
  BY DEF ChainOK, CasOK, Releasing
<1> QED
  BY <1>1, <1>2, <1>3, <1>4 DEF FreeListInv

\* The steps that touch neither the stack nor what a thread has in hand.
LEMMA QuietSteps ==
  ASSUME FreeListInv, NEW t \in Threads,
         AcquireLoad(t) \/ AcquireNext(t) \/ ReleaseLoad(t)
  PROVE  FreeListInv'
<1> USE DEF FreeListInv, localVars
<1>0. UNCHANGED <<head, headTag, next, todo, chain, free, leased>>
  BY DEF AcquireLoad, AcquireNext, ReleaseLoad
<1>1. FreeListTypeOK'
  <2> USE DEF FreeListTypeOK, Pcs
  <2>1. CASE AcquireLoad(t)
    <3>1. [index |-> head, tag |-> headTag] \in [index : SlotIds \cup {EMPTY}, tag : Int]
      OBVIOUS
    <3>2. seen' \in [Threads -> [index : SlotIds \cup {EMPTY}, tag : Int]]
      BY <2>1, <3>1 DEF AcquireLoad
    <3>3. pc' \in [Threads -> Pcs]
      BY <2>1 DEF AcquireLoad
    <3> QED
      BY <1>0, <2>1, <3>2, <3>3 DEF AcquireLoad
  <2>2. CASE AcquireNext(t)
    BY <1>0, <2>2 DEF AcquireNext
  <2>3. CASE ReleaseLoad(t)
    BY <1>0, <2>3 DEF ReleaseLoad
  <2> QED
    BY <2>1, <2>2, <2>3
<1>2. StackOK'
  BY <1>0 DEF StackOK
<1>3. \A u \in Threads : pc[t] # "mark" /\ pc'[t] # "mark" /\ (u # t => pc'[u] = pc[u] /\ seen'[u] = seen[u])
  BY DEF AcquireLoad, AcquireNext, ReleaseLoad, FreeListTypeOK
<1>4. \A u \in Threads : InHand(u)' = InHand(u)
  BY <1>0, <1>3 DEF InHand
<1>5. OnePlace'
  BY <1>0, <1>4 DEF OnePlace
<1>6. ASSUME NEW u \in Threads PROVE ChainOK(u)'
  <2>1. CASE u # t
    BY <1>0, <1>3, <2>1 DEF ChainOK
  <2>2. CASE u = t
    BY <1>0, <2>2 DEF ChainOK, Releasing, AcquireLoad, AcquireNext, ReleaseLoad, FreeListTypeOK
  <2> QED
    BY <2>1, <2>2
<1>7. ASSUME NEW u \in Threads PROVE CasOK(u)'
  <2>1. CASE u # t
    <3>1. link'[u] = link[u]
      BY <2>1 DEF AcquireLoad, AcquireNext, ReleaseLoad, FreeListTypeOK
    <3> QED
      BY <1>0, <1>3, <2>1, <3>1 DEF CasOK, HeadIs
  <2>2. CASE u = t
    BY <1>0, <2>2 DEF CasOK, HeadIs, AcquireLoad, AcquireNext, ReleaseLoad, FreeListTypeOK
  <2> QED
    BY <2>1, <2>2
<1> QED
  BY <1>1, <1>2, <1>5, <1>6, <1>7

\* The slot popped by a CAS leaves the stack whole.
LEMMA Pop ==
  ASSUME FreeListInv, NEW t \in Threads, AcquireCas(t), HeadIs(t), head' = link[t],
         free' = free \ {seen[t].index}, UNCHANGED next
  PROVE  /\ seen[t].index = head /\ head \in free
         /\ StackOK'
<1> USE DEF FreeListInv
<1>1. seen[t].index = head /\ pc[t] = "cas"
  BY DEF HeadIs, AcquireCas
<1>2. head \in free /\ head' = next[head]
  BY <1>1 DEF CasOK, StackOK, EMPTY, SlotIds
<1>3. next[head] \in free' \cup {EMPTY}
  BY <1>1, <1>2 DEF StackOK, EMPTY, SlotIds, FreeListTypeOK
<1>4. \A i \in free' : next[i] \in free' \cup {EMPTY}
  BY <1>1, <1>2 DEF StackOK, EMPTY, SlotIds, FreeListTypeOK
<1>5. \A i \in free' : next[i] = head' => head' = EMPTY
  BY <1>1, <1>2 DEF StackOK
<1> QED
  BY <1>1, <1>2, <1>3, <1>4, <1>5 DEF StackOK

LEMMA AcquireCasStep ==
  ASSUME FreeListInv, NEW t \in Threads, AcquireCas(t)
  PROVE  FreeListInv'
<1> USE DEF FreeListInv
<1>0. UNCHANGED <<next, todo, chain, leased>> /\ pc[t] = "cas" /\ link' = [link EXCEPT ![t] = EMPTY]
  BY DEF AcquireCas
<1>1. CASE HeadIs(t) /\ Tick(t) /\ head' = link[t] /\ free' = free \ {seen[t].index}
           /\ pc' = [pc EXCEPT ![t] = "mark"] /\ UNCHANGED seen
  <2>1. seen[t].index = head /\ head \in free /\ StackOK'
    BY <1>0, <1>1, Pop
  <2>2. FreeListTypeOK'
    <3>1. headTag' \in Int
      BY <1>1, FreeListAssumption DEF Tick, FreeListTypeOK
    <3>2. head' \in SlotIds \cup {EMPTY} /\ free' \in SUBSET SlotIds
      BY <1>1, <2>1 DEF StackOK, FreeListTypeOK
    <3>3. pc' \in [Threads -> Pcs] /\ link' \in [Threads -> SlotIds \cup {EMPTY, LEASED}]
      BY <1>0, <1>1 DEF FreeListTypeOK, Pcs
    <3> QED
      BY <1>0, <1>1, <3>1, <3>2, <3>3 DEF FreeListTypeOK
  <2>3. InHand(t)' = InHand(t) \cup {head} /\ \A u \in Threads \ {t} : InHand(u)' = InHand(u)
    BY <1>0, <1>1, <2>1 DEF InHand, FreeListTypeOK
  <2>4. \A u \in Threads : head \notin InHand(u) /\ head \notin leased
    BY <2>1 DEF OnePlace
  <2>5. OnePlace'
    BY <1>0, <1>1, <2>1, <2>3, <2>4 DEF OnePlace
  <2>6. ASSUME NEW u \in Threads PROVE ChainOK(u)'
    BY <1>0, <1>1 DEF ChainOK, Releasing, FreeListTypeOK
  <2>7. ASSUME NEW u \in Threads PROVE CasOK(u)'
    <3>1. CASE u = t
      BY <1>0, <1>1, <2>1, <3>1 DEF CasOK, FreeListTypeOK
    <3>2. CASE u # t
      <4>1. pc'[u] = pc[u] /\ seen'[u] = seen[u] /\ link'[u] = link[u]
        BY <1>0, <1>1, <3>2 DEF FreeListTypeOK
      <4>2. pc[u] = "cas" => seen[u].tag # headTag'
        BY <1>1, <3>2 DEF Tick, InWindow
      <4>3. pc[u] = "cas" => ~HeadIs(u)'
        BY <4>1, <4>2 DEF HeadIs
      <4> QED
        BY <4>1, <4>3 DEF CasOK
    <3> QED
      BY <3>1, <3>2
  <2> QED
    BY <2>1, <2>2, <2>5, <2>6, <2>7
<1>2. CASE seen' = [seen EXCEPT ![t] = NoHead] /\ pc' = [pc EXCEPT ![t] = "again"]
           /\ UNCHANGED <<head, headTag, free>>
  <2>1. FreeListTypeOK'
    <3>1. NoHead \in [index : SlotIds \cup {EMPTY}, tag : Int]
      BY DEF NoHead
    <3> QED
      BY <1>0, <1>2, <3>1 DEF FreeListTypeOK, Pcs
  <2>2. \A u \in Threads : InHand(u)' = InHand(u)
    BY <1>0, <1>2 DEF InHand, FreeListTypeOK
  <2>3. StackOK' /\ OnePlace'
    BY <1>0, <1>2, <2>2 DEF StackOK, OnePlace
  <2>4. ASSUME NEW u \in Threads PROVE ChainOK(u)' /\ CasOK(u)'
    <3>1. CASE u = t
      BY <1>0, <1>2, <3>1 DEF ChainOK, CasOK, Releasing, FreeListTypeOK
    <3>2. CASE u # t
      <4>1. pc'[u] = pc[u] /\ seen'[u] = seen[u] /\ link'[u] = link[u]
        BY <1>0, <1>2, <3>2 DEF FreeListTypeOK
      <4>2. ChainOK(u)'
        BY <1>0, <1>2, <4>1 DEF ChainOK
      <4>3. CasOK(u)'
        BY <1>0, <1>2, <4>1 DEF CasOK, HeadIs
      <4> QED
        BY <4>2, <4>3
    <3> QED
      BY <3>1, <3>2
  <2> QED
    BY <2>1, <2>3, <2>4
<1> QED
  BY <1>1, <1>2 DEF AcquireCas

LEMMA AcquireMarkStep ==
  ASSUME FreeListInv, NEW t \in Threads, AcquireMark(t)
  PROVE  FreeListInv'
<1> USE DEF FreeListInv
<1> DEFINE i == seen[t].index
<1>0. /\ pc[t] = "mark" /\ i \in SlotIds /\ i \in InHand(t)
      /\ next' = [next EXCEPT ![i] = LEASED] /\ leased' = leased \cup {i}
      /\ seen' = [seen EXCEPT ![t] = NoHead] /\ pc' = [pc EXCEPT ![t] = "idle"]
      /\ UNCHANGED <<head, headTag, link, todo, chain, free>>
  BY DEF AcquireMark, CasOK, InHand
<1>1. i \notin free
  BY <1>0 DEF OnePlace
<1>2. \A u \in Threads \ {t} : pc'[u] = pc[u] /\ seen'[u] = seen[u] /\ i \notin InHand(u)
  BY <1>0 DEF OnePlace, FreeListTypeOK
<1>3. FreeListTypeOK'
  <2>1. NoHead \in [index : SlotIds \cup {EMPTY}, tag : Int]
    BY DEF NoHead
  <2> QED
    BY <1>0, <2>1 DEF FreeListTypeOK, Pcs
<1>4. StackOK'
  BY <1>0, <1>1 DEF StackOK, FreeListTypeOK
<1>5. InHand(t)' = {} /\ \A u \in Threads \ {t} : InHand(u)' = InHand(u)
  <2>1. todo'[t] = {} /\ chain'[t] = <<>> /\ pc'[t] = "idle"
    BY <1>0 DEF ChainOK, Releasing, FreeListTypeOK
  <2>2. {chain'[t][k] : k \in 1 .. Len(chain'[t])} = {}
    BY <2>1
  <2>3. ASSUME NEW j \in InHand(t)' PROVE FALSE
    BY <2>1, <2>2 DEF InHand
  <2>4. \A u \in Threads \ {t} : InHand(u)' = InHand(u)
    BY <1>0, <1>2 DEF InHand
  <2> QED
    BY <2>3, <2>4
<1>6. OnePlace'
  <2>1. \A u \in Threads : todo[u] \subseteq InHand(u) /\ todo[t] = {}
    BY <1>0 DEF InHand, ChainOK
  <2>2. \A u \in Threads : \A j \in leased' \cup todo'[u] : next'[j] = LEASED
    BY <1>0, <1>2, <2>1 DEF OnePlace, FreeListTypeOK
  <2> QED
    BY <1>0, <1>1, <1>2, <1>5, <2>2 DEF OnePlace
<1>7. ASSUME NEW u \in Threads PROVE ChainOK(u)' /\ CasOK(u)'
  <2>1. CASE u = t
    BY <1>0, <2>1 DEF ChainOK, CasOK, Releasing, FreeListTypeOK
  <2>2. CASE u # t
    <3>1. \A k \in 1 .. Len(chain[u]) : chain[u][k] \in SlotIds /\ next'[chain[u][k]] = next[chain[u][k]]
      BY <1>0, <1>2, <2>2 DEF InHand, FreeListTypeOK
    <3>2. ChainOK(u)'
      BY <1>0, <1>2, <2>2, <3>1 DEF ChainOK, FreeListTypeOK
    <3>3. head # i /\ (pc[u] = "cas" /\ HeadIs(u) => head \in SlotIds)
      BY <1>0, <1>1 DEF StackOK, HeadIs, CasOK, EMPTY, SlotIds
    <3>4. CasOK(u)'
      BY <1>0, <1>2, <2>2, <3>3 DEF CasOK, HeadIs, FreeListTypeOK
    <3> QED
      BY <3>2, <3>4
  <2> QED
    BY <2>1, <2>2
<1> QED
  BY <1>3, <1>4, <1>6, <1>7

LEMMA BeginReleaseStep ==
  ASSUME FreeListInv, NEW t \in Threads, BeginRelease(t)
  PROVE  FreeListInv'
<1> USE DEF FreeListInv
<1>1. PICK batch \in SUBSET leased :
         /\ todo' = [todo EXCEPT ![t] = batch] /\ leased' = leased \ batch
  BY DEF BeginRelease
<1>2. /\ pc[t] = "idle" /\ chain' = [chain EXCEPT ![t] = <<>>] /\ pc' = [pc EXCEPT ![t] = "link"]
      /\ UNCHANGED <<head, headTag, next, seen, link, free>>
  BY DEF BeginRelease
<1>3. FreeListTypeOK'
  BY <1>1, <1>2 DEF FreeListTypeOK, Pcs
<1>4. StackOK'
  BY <1>2 DEF StackOK
<1>5. InHand(t)' = batch /\ \A u \in Threads \ {t} : InHand(u)' = InHand(u)
  BY <1>1, <1>2 DEF InHand, FreeListTypeOK
<1>6. OnePlace'
  <2>1. \A u \in Threads : InHand(u)' \subseteq InHand(u) \cup batch /\ (u # t => InHand(u)' = InHand(u))
    BY <1>5
  <2>2. \A u \in Threads : InHand(u)' \cap (free' \cup leased') = {}
    BY <1>1, <1>2, <2>1 DEF OnePlace
  <2>3. \A u \in Threads : \A v \in Threads \ {u} : InHand(u)' \cap InHand(v)' = {}
    BY <1>5, <2>1 DEF OnePlace
  <2>4. \A u \in Threads : \A j \in leased' \cup todo'[u] : next'[j] = LEASED
    BY <1>1, <1>2 DEF OnePlace, FreeListTypeOK
  <2> QED
    BY <1>1, <1>2, <2>2, <2>3, <2>4 DEF OnePlace
<1>7. ASSUME NEW u \in Threads PROVE ChainOK(u)' /\ CasOK(u)'
  BY <1>1, <1>2 DEF ChainOK, CasOK, HeadIs, Releasing, FreeListTypeOK
<1> QED
  BY <1>3, <1>4, <1>6, <1>7

\* A chain stays as it is when its thread and its links do.
LEMMA ChainKept ==
  ASSUME FreeListTypeOK, NEW u \in Threads, ChainOK(u),
         pc'[u] = pc[u], chain'[u] = chain[u], todo'[u] = todo[u], seen'[u] = seen[u],
         \A k \in 1 .. Len(chain[u]) : next'[chain[u][k]] = next[chain[u][k]]
  PROVE  ChainOK(u)'
<1> DEFINE n == Len(chain[u])
<1>1. n \in Nat
  BY DEF FreeListTypeOK
<1>2. \A k \in 1 .. n - 1 : next'[chain[u][k]] = next[chain[u][k]]
  BY <1>1
<1>3. n > 0 => next'[chain[u][n]] = next[chain[u][n]]
  BY <1>1
<1> QED
  BY <1>1, <1>2, <1>3 DEF ChainOK, Releasing

\* Linking and storing write the links of the chain alone.
LEMMA LinkOneStep ==
  ASSUME FreeListInv, NEW t \in Threads, LinkOne(t)
  PROVE  FreeListInv'
<1> USE DEF FreeListInv
<1> DEFINE n == Len(chain[t])
<1>1. PICK i \in todo[t] :
         /\ todo' = [todo EXCEPT ![t] = @ \ {i}]
         /\ chain' = [chain EXCEPT ![t] = Append(@, i)]
         /\ next' = [j \in SlotIds |->
                       IF j = i THEN EMPTY
                       ELSE IF chain[t] # <<>> /\ j = chain[t][n] THEN i
                       ELSE next[j]]
         /\ pc' = [pc EXCEPT ![t] = IF todo[t] = {i} THEN "load" ELSE "link"]
  BY DEF LinkOne
<1>2. pc[t] = "link" /\ UNCHANGED <<head, headTag, seen, link, free, leased>>
  BY DEF LinkOne
<1>3. /\ i \in SlotIds /\ n \in Nat /\ chain[t] \in Seq(SlotIds)
      /\ \A k \in 1 .. n : chain[t][k] \in SlotIds
  BY DEF FreeListTypeOK
<1>4. /\ chain'[t] = Append(chain[t], i) /\ Len(chain'[t]) = n + 1
      /\ chain'[t][n + 1] = i /\ \A k \in 1 .. n : chain'[t][k] = chain[t][k]
  BY <1>1, <1>3 DEF FreeListTypeOK
<1>5. pc'[t] \in {"load", "link"} /\ (pc'[t] = "load" <=> todo[t] = {i}) /\ todo'[t] = todo[t] \ {i}
  BY <1>1 DEF FreeListTypeOK
<1>6. \A u \in Threads \ {t} : pc'[u] = pc[u] /\ chain'[u] = chain[u] /\ todo'[u] = todo[u]
  BY <1>1 DEF FreeListTypeOK
<1>7. /\ i \in InHand(t) /\ \A k \in 1 .. n : chain[t][k] \in InHand(t)
      /\ \A u \in Threads : todo[u] \subseteq InHand(u)
  BY DEF InHand
<1>8. \A j \in SlotIds : j \notin InHand(t) => next'[j] = next[j]
  BY <1>1, <1>3, <1>7
<1>9. FreeListTypeOK'
  BY <1>1, <1>2, <1>3 DEF FreeListTypeOK, Pcs
<1>10. StackOK'
  BY <1>2, <1>8 DEF StackOK, OnePlace, FreeListTypeOK
<1>11. InHand(t)' = InHand(t) /\ \A u \in Threads \ {t} : InHand(u)' = InHand(u)
  <2>1. {chain'[t][k] : k \in 1 .. Len(chain'[t])} = {chain[t][k] : k \in 1 .. n} \cup {i}
    BY <1>3, <1>4
  <2>2. InHand(t)' = InHand(t)
    BY <1>2, <1>5, <2>1 DEF InHand
  <2> QED
    BY <1>2, <1>6, <2>2 DEF InHand
<1>12. OnePlace'
  <2>1. \A j \in todo'[t] : next'[j] = next[j]
    BY <1>1, <1>2, <1>3, <1>5 DEF ChainOK, Releasing, FreeListTypeOK
  <2>2. \A u \in Threads \ {t} : \A j \in leased \cup todo[u] : j \in SlotIds /\ j \notin InHand(t)
    BY <1>7 DEF OnePlace, FreeListTypeOK
  <2>3. \A j \in leased : j \in SlotIds /\ j \notin InHand(t)
    BY DEF OnePlace, FreeListTypeOK
  <2>4. \A u \in Threads : \A j \in leased' \cup todo'[u] : next'[j] = next[j]
    BY <1>2, <1>5, <1>6, <1>8, <2>1, <2>2, <2>3
  <2>5. \A u \in Threads : \A j \in leased' \cup todo'[u] : j \in leased \cup todo[u]
    BY <1>2, <1>5, <1>6
  <2>6. \A u \in Threads : \A j \in leased' \cup todo'[u] : next'[j] = LEASED
    BY <2>4, <2>5 DEF OnePlace
  <2> QED
    BY <1>2, <1>11, <2>6 DEF OnePlace
<1>13. ASSUME NEW u \in Threads PROVE ChainOK(u)' /\ CasOK(u)'
  <2>1. CASE u = t
    <3>1. /\ \A j, k \in 1 .. n : j # k => chain[t][j] # chain[t][k]
          /\ \A k \in 1 .. n : chain[t][k] \notin todo[t]
          /\ \A k \in 1 .. n - 1 : next[chain[t][k]] = chain[t][k + 1]
      BY <1>2 DEF ChainOK, Releasing
    <3>2. \A j, k \in 1 .. n + 1 : j # k => chain'[t][j] # chain'[t][k]
      BY <1>3, <1>4, <3>1
    <3>3. \A k \in 1 .. n + 1 : chain'[t][k] \notin todo'[t]
      BY <1>3, <1>4, <1>5, <3>1
    <3>4. \A k \in 1 .. n : next'[chain'[t][k]] = chain'[t][k + 1]
      <4>1. SUFFICES ASSUME NEW k \in 1 .. n PROVE next'[chain[t][k]] = chain'[t][k + 1]
        BY <1>4
      <4>2. chain[t][k] # i /\ chain[t] # <<>>
        BY <1>3, <3>1
      <4>3. CASE k = n
        BY <1>1, <1>3, <1>4, <4>2, <4>3
      <4>4. CASE k # n
        BY <1>1, <1>3, <1>4, <3>1, <4>2, <4>4
      <4> QED
        BY <4>3, <4>4
    <3>5. pc'[t] # "link" => todo'[t] = {}
      BY <1>5
    <3>6. Len(chain'[t]) - 1 = n /\ n + 1 > 0
      BY <1>3, <1>4
    <3>7. ChainOK(t)'
      BY <1>4, <1>5, <3>2, <3>3, <3>4, <3>5, <3>6 DEF ChainOK, Releasing
    <3>8. CasOK(t)'
      BY <1>5 DEF CasOK
    <3> QED
      BY <2>1, <3>7, <3>8
  <2>2. CASE u # t
    <3>1. \A k \in 1 .. Len(chain[u]) : chain[u][k] \in SlotIds /\ next'[chain[u][k]] = next[chain[u][k]]
      <4>1. SUFFICES ASSUME NEW k \in 1 .. Len(chain[u])
                     PROVE  chain[u][k] \in SlotIds /\ next'[chain[u][k]] = next[chain[u][k]]
        OBVIOUS
      <4>2. chain[u][k] \in SlotIds /\ chain[u][k] \in InHand(u)
        BY DEF InHand, FreeListTypeOK
      <4>3. chain[u][k] \notin InHand(t)
        BY <2>2, <4>2 DEF OnePlace
      <4> QED
        BY <1>8, <4>2, <4>3
    <3>2. ChainOK(u)'
      BY <1>2, <1>6, <2>2, <3>1, ChainKept
    <3>3. pc[u] = "cas" /\ HeadIs(u) => next'[head] = next[head]
      BY <1>8 DEF StackOK, HeadIs, CasOK, EMPTY, SlotIds, OnePlace
    <3>4. CasOK(u)'
      BY <1>2, <1>6, <2>2, <3>3 DEF CasOK, HeadIs
    <3> QED
      BY <3>2, <3>4
  <2> QED
    BY <2>1, <2>2
<1> QED
  BY <1>9, <1>10, <1>12, <1>13

LEMMA ReleaseStoreStep ==
  ASSUME FreeListInv, NEW t \in Threads, ReleaseStore(t)
  PROVE  FreeListInv'
<1> USE DEF FreeListInv
<1> DEFINE n == Len(chain[t])
           last == chain[t][n]
<1>1. /\ pc[t] = "store" /\ next' = [next EXCEPT ![last] = seen[t].index]
      /\ pc' = [pc EXCEPT ![t] = "splice"]
      /\ UNCHANGED <<head, headTag, seen, link, todo, chain, free, leased>>
  BY DEF ReleaseStore, localVars
<1>2. n \in Nat /\ n > 0 /\ last \in SlotIds /\ last \in InHand(t)
  <2>1. n \in Nat /\ n > 0
    BY <1>1 DEF ChainOK, Releasing, FreeListTypeOK
  <2> QED
    BY <2>1 DEF InHand, FreeListTypeOK
<1>3. \A j \in SlotIds : j \notin InHand(t) => next'[j] = next[j]
  BY <1>1, <1>2 DEF FreeListTypeOK
<1>4. FreeListTypeOK'
  <2>1. seen[t].index \in SlotIds \cup {EMPTY}
    BY DEF FreeListTypeOK
  <2> QED
    BY <1>1, <2>1 DEF FreeListTypeOK, Pcs
<1>5. \A u \in Threads : InHand(u)' = InHand(u)
  BY <1>1 DEF InHand, FreeListTypeOK
<1>6. StackOK'
  BY <1>1, <1>3 DEF StackOK, OnePlace, FreeListTypeOK
<1>7. OnePlace'
  <2>1. last \notin leased /\ \A u \in Threads : last \notin todo[u]
    BY <1>1, <1>2 DEF OnePlace, InHand, ChainOK
  <2>2. \A u \in Threads : \A j \in leased \cup todo[u] : j \in SlotIds
    BY DEF FreeListTypeOK
  <2>3. \A u \in Threads : \A j \in leased \cup todo[u] : next'[j] = next[j]
    BY <1>1, <2>1, <2>2 DEF FreeListTypeOK
  <2> QED
    BY <1>1, <1>5, <2>3 DEF OnePlace
<1>8. ASSUME NEW u \in Threads PROVE ChainOK(u)' /\ CasOK(u)'
  <2>1. CASE u = t
    <3>1. \A j, k \in 1 .. n : j # k => chain[t][j] # chain[t][k]
      BY <1>1 DEF ChainOK, Releasing
    <3>2. \A k \in 1 .. n - 1 : next'[chain[t][k]] = chain[t][k + 1]
      <4>1. SUFFICES ASSUME NEW k \in 1 .. n - 1 PROVE next'[chain[t][k]] = chain[t][k + 1]
        OBVIOUS
      <4>2. k \in 1 .. n /\ n \in 1 .. n /\ k # n
        BY <1>2
      <4>3. chain[t][k] # last /\ chain[t][k] \in SlotIds
        BY <3>1, <4>2 DEF FreeListTypeOK
      <4> QED
        BY <1>1, <1>2, <4>3 DEF ChainOK, Releasing, FreeListTypeOK
    <3>3. next'[last] = seen[t].index
      BY <1>1, <1>2 DEF FreeListTypeOK
    <3>4. pc'[t] = "splice" /\ todo[t] = {}
      BY <1>1 DEF FreeListTypeOK, ChainOK
    <3>5. ChainOK(t)'
      BY <1>1, <1>2, <3>1, <3>2, <3>3, <3>4 DEF ChainOK, Releasing
    <3> QED
      BY <2>1, <3>4, <3>5 DEF CasOK
  <2>2. CASE u # t
    <3>1. pc'[u] = pc[u]
      BY <1>1, <2>2 DEF FreeListTypeOK
    <3>2. \A k \in 1 .. Len(chain[u]) : next'[chain[u][k]] = next[chain[u][k]]
      <4>1. SUFFICES ASSUME NEW k \in 1 .. Len(chain[u]) PROVE next'[chain[u][k]] = next[chain[u][k]]
        OBVIOUS
      <4>2. chain[u][k] \in SlotIds /\ chain[u][k] \in InHand(u)
        BY DEF InHand, FreeListTypeOK
      <4> QED
        BY <1>3, <2>2, <4>2 DEF OnePlace
    <3>3. ChainOK(u)'
      BY <1>1, <3>1, <3>2, ChainKept
    <3>4. pc[u] = "cas" /\ HeadIs(u) => next'[head] = next[head]
      BY <1>3 DEF StackOK, HeadIs, CasOK, EMPTY, SlotIds, OnePlace
    <3> QED
      BY <1>1, <3>1, <3>3, <3>4 DEF CasOK, HeadIs
  <2> QED
    BY <2>1, <2>2
<1> QED
  BY <1>4, <1>6, <1>7, <1>8

\* A chain spliced in front of the head leaves the stack whole.
LEMMA Push ==
  ASSUME FreeListInv, NEW t \in Threads, pc[t] = "splice", HeadIs(t), head' = chain[t][1],
         free' = free \cup {chain[t][i] : i \in 1 .. Len(chain[t])}, UNCHANGED next
  PROVE  StackOK' /\ head' \in free'
<1> USE DEF FreeListInv
<1> DEFINE n == Len(chain[t])
<1>1. n \in Nat /\ n > 0 /\ \A k \in 1 .. n : chain[t][k] \in SlotIds
  BY DEF ChainOK, Releasing, FreeListTypeOK
<1>2. /\ \A j, k \in 1 .. n : j # k => chain[t][j] # chain[t][k]
      /\ \A k \in 1 .. n - 1 : next[chain[t][k]] = chain[t][k + 1]
      /\ next[chain[t][n]] = head
  BY DEF ChainOK, Releasing, HeadIs
<1>3. \A k \in 1 .. n : chain[t][k] \notin free
  BY DEF OnePlace, InHand
<1>4. head' \in free' /\ head' \in SlotIds /\ head' \notin free
  BY <1>1, <1>3
<1>5. \A k \in 1 .. n : next[chain[t][k]] \in free' \cup {EMPTY}
  BY <1>1, <1>2 DEF StackOK
<1>6. \A i \in free' : next[i] \in free' \cup {EMPTY}
  BY <1>5 DEF StackOK
<1>7. \A k \in 1 .. n : next[chain[t][k]] # head'
  <2>1. SUFFICES ASSUME NEW k \in 1 .. n PROVE next[chain[t][k]] # head'
    OBVIOUS
  <2>2. CASE k = n
    BY <1>2, <1>4, <2>2 DEF StackOK, EMPTY, SlotIds
  <2>3. CASE k # n
    <3>1. k \in 1 .. n - 1 /\ k + 1 \in 1 .. n /\ 1 \in 1 .. n /\ k + 1 # 1
      BY <1>1, <2>3
    <3> QED
      BY <1>2, <3>1
  <2> QED
    BY <2>2, <2>3
<1>8. \A i \in free : next[i] # head'
  BY <1>4 DEF StackOK, EMPTY, SlotIds
<1>9. \A j, k \in 1 .. n : j # k => next[chain[t][j]] # next[chain[t][k]]
  <2>1. SUFFICES ASSUME NEW j \in 1 .. n, NEW k \in 1 .. n, j < k
                 PROVE  next[chain[t][j]] # next[chain[t][k]]
    BY <1>1
  <2>2. next[chain[t][j]] = chain[t][j + 1] /\ j + 1 \in 1 .. n
    <3>1. j \in 1 .. n - 1 /\ j + 1 \in 1 .. n
      BY <1>1, <2>1
    <3> QED
      BY <1>2, <3>1
  <2>3. CASE k < n
    <3>1. k \in 1 .. n - 1 /\ k + 1 \in 1 .. n /\ j + 1 # k + 1
      BY <1>1, <2>1, <2>3
    <3> QED
      BY <1>2, <2>2, <3>1
  <2>4. CASE k = n
    <3>1. next[chain[t][k]] \in free \cup {EMPTY}
      BY <1>2, <2>4 DEF StackOK
    <3>2. chain[t][j + 1] \notin free /\ chain[t][j + 1] \in SlotIds
      BY <1>1, <1>3, <2>2
    <3>3. chain[t][j + 1] # EMPTY
      BY <3>2 DEF EMPTY, SlotIds
    <3> QED
      BY <2>2, <3>1, <3>2, <3>3
  <2> QED
    BY <1>1, <2>3, <2>4
<1>10. ASSUME NEW i \in free, NEW k \in 1 .. n, next[i] = next[chain[t][k]]
       PROVE  next[i] = EMPTY
  <2>1. CASE k = n
    BY <1>2, <1>10, <2>1 DEF StackOK
  <2>2. CASE k # n
    <3>1. next[chain[t][k]] = chain[t][k + 1] /\ k + 1 \in 1 .. n
      BY <1>1, <1>2, <2>2
    <3> QED
      BY <1>1, <1>3, <1>10, <3>1 DEF StackOK, EMPTY, SlotIds
  <2> QED
    BY <2>1, <2>2
<1>11. ASSUME NEW i \in free', NEW j \in free', i # j, next[i] = next[j]
       PROVE  next[i] = EMPTY
  <2>1. CASE i \in free /\ j \in free
    BY <1>11, <2>1 DEF StackOK
  <2>2. CASE i \in free /\ j \notin free
    BY <1>10, <1>11, <2>2
  <2>3. CASE i \notin free /\ j \in free
    BY <1>10, <1>11, <2>3
  <2>4. CASE i \notin free /\ j \notin free
    BY <1>9, <1>11, <2>4
  <2> QED
    BY <2>1, <2>2, <2>3, <2>4
<1>12. \A i \in free' : next[i] = head' => head' = EMPTY
  BY <1>7, <1>8
<1> QED
  BY <1>4, <1>6, <1>11, <1>12 DEF StackOK

LEMMA SpliceStep ==
  ASSUME FreeListInv, NEW t \in Threads, Splice(t)
  PROVE  FreeListInv'
<1> USE DEF FreeListInv
<1> DEFINE batch == {chain[t][i] : i \in 1 .. Len(chain[t])}
<1>0. pc[t] = "splice" /\ seen' = [seen EXCEPT ![t] = NoHead] /\ UNCHANGED <<next, link, todo, leased>>
  BY DEF Splice
<1>1. todo[t] = {} /\ InHand(t) = batch
  BY <1>0 DEF ChainOK, InHand
<1>2. seen' \in [Threads -> [index : SlotIds \cup {EMPTY}, tag : Int]]
  <2>1. NoHead \in [index : SlotIds \cup {EMPTY}, tag : Int]
    BY DEF NoHead
  <2> QED
    BY <1>0, <2>1 DEF FreeListTypeOK
<1>3. CASE HeadIs(t) /\ Tick(t) /\ head' = chain[t][1] /\ free' = free \cup batch
           /\ chain' = [chain EXCEPT ![t] = <<>>] /\ pc' = [pc EXCEPT ![t] = "idle"]
  <2>1. StackOK' /\ head' \in free'
    BY <1>0, <1>3, Push
  <2>2. batch \subseteq SlotIds
    BY DEF FreeListTypeOK
  <2>3. headTag' \in Int
    BY <1>3, FreeListAssumption DEF Tick, FreeListTypeOK
  <2>4. FreeListTypeOK'
    <3>1. chain' \in [Threads -> Seq(SlotIds)] /\ pc' \in [Threads -> Pcs]
      BY <1>3 DEF FreeListTypeOK, Pcs
    <3>2. head' \in SlotIds /\ free' \in SUBSET SlotIds
      BY <1>3, <2>1, <2>2 DEF FreeListTypeOK
    <3> QED
      BY <1>0, <1>2, <2>3, <3>1, <3>2 DEF FreeListTypeOK
  <2>5. pc'[t] = "idle" /\ chain'[t] = <<>> /\ todo'[t] = {}
    BY <1>0, <1>1, <1>3 DEF FreeListTypeOK
  <2>6. \A u \in Threads \ {t} : pc'[u] = pc[u] /\ seen'[u] = seen[u] /\ chain'[u] = chain[u]
    BY <1>0, <1>3 DEF FreeListTypeOK
  <2>7. InHand(t)' = {} /\ \A u \in Threads \ {t} : InHand(u)' = InHand(u)
    <3>1. {chain'[t][k] : k \in 1 .. Len(chain'[t])} = {}
      BY <2>5
    <3>2. ASSUME NEW j \in InHand(t)' PROVE FALSE
      BY <2>5, <3>1 DEF InHand
    <3>3. \A u \in Threads \ {t} : InHand(u)' = InHand(u)
      BY <1>0, <2>6 DEF InHand
    <3> QED
      BY <3>2, <3>3
  <2>8. OnePlace'
    BY <1>0, <1>1, <1>3, <2>5, <2>7 DEF OnePlace
  <2>9. ASSUME NEW u \in Threads PROVE ChainOK(u)' /\ CasOK(u)'
    <3>1. CASE u = t
      BY <2>5, <3>1 DEF ChainOK, CasOK, Releasing
    <3>2. CASE u # t
      <4>1. ChainOK(u)'
        BY <1>0, <2>6, <3>2, ChainKept
      <4>2. pc[u] = "cas" => ~HeadIs(u)'
        BY <1>3, <2>6, <3>2 DEF HeadIs, Tick, InWindow
      <4> QED
        BY <2>6, <3>2, <4>1, <4>2 DEF CasOK
    <3> QED
      BY <3>1, <3>2
  <2> QED
    BY <2>1, <2>4, <2>8, <2>9
<1>4. CASE pc' = [pc EXCEPT ![t] = "load"] /\ UNCHANGED <<head, headTag, chain, free>>
  <2>1. FreeListTypeOK'
    BY <1>0, <1>2, <1>4 DEF FreeListTypeOK, Pcs
  <2>2. \A u \in Threads : InHand(u)' = InHand(u)
    BY <1>0, <1>4 DEF InHand, FreeListTypeOK
  <2>3. StackOK' /\ OnePlace'
    BY <1>0, <1>4, <2>2 DEF StackOK, OnePlace
  <2>4. ASSUME NEW u \in Threads PROVE ChainOK(u)' /\ CasOK(u)'
    <3>1. CASE u = t
      BY <1>0, <1>4, <3>1 DEF ChainOK, CasOK, Releasing, FreeListTypeOK
    <3>2. CASE u # t
      <4>1. pc'[u] = pc[u] /\ seen'[u] = seen[u] /\ link'[u] = link[u]
        BY <1>0, <1>4, <3>2 DEF FreeListTypeOK
      <4> QED
        BY <1>0, <1>4, <4>1, ChainKept DEF CasOK, HeadIs
    <3> QED
      BY <3>1, <3>2
  <2> QED
    BY <2>1, <2>3, <2>4
<1> QED
  BY <1>3, <1>4 DEF Splice

\* Every slot is in one place, whatever the threads' order (ring.rs, FreeList):
\* the tag is what makes a stalled CAS fail.
THEOREM OnePlaceAlways == FreeListSpec => []OnePlace
<1>1. FreeListInv /\ [FreeListNext]_flvars => FreeListInv'
  <2> SUFFICES ASSUME FreeListInv, [FreeListNext]_flvars PROVE FreeListInv'
    OBVIOUS
  <2>1. ASSUME NEW t \in Threads, FreeListStep(t) PROVE FreeListInv'
    BY <2>1, QuietSteps, AcquireCasStep, AcquireMarkStep, BeginReleaseStep, LinkOneStep,
       ReleaseStoreStep, SpliceStep DEF FreeListStep
  <2>2. CASE UNCHANGED flvars
    BY <2>2 DEF flvars, FreeListInv, FreeListTypeOK, StackOK, OnePlace, InHand, ChainOK, CasOK,
       HeadIs, NoHead
  <2> QED
    BY <2>1, <2>2 DEF FreeListNext
<1>2. FreeListInv => OnePlace
  BY DEF FreeListInv
<1> QED
  BY <1>1, <1>2, InitInv, PTL DEF FreeListSpec

-----------------------------------------------------------------------------
(* Arithmetic of the ring indices. *)

LEMMA Multiple ==
  ASSUME NEW r \in Nat \ {0}, NEW k \in Int, -r < r * k, r * k < r
  PROVE  k = 0
<1>1. k >= 1 => r * k >= r
  OBVIOUS
<1>2. k <= -1 => r * k <= -r
  OBVIOUS
<1> QED
  BY <1>1, <1>2

LEMMA DivMod ==
  ASSUME NEW x \in Int, NEW r \in Nat \ {0}
  PROVE  /\ x \div r \in Int /\ x % r \in 0 .. r - 1
         /\ x = r * (x \div r) + (x % r)
  OBVIOUS

LEMMA ModUnique ==
  ASSUME NEW x \in Int, NEW r \in Nat \ {0}, NEW k \in Int, NEW y \in 0 .. r - 1, x = r * k + y
  PROVE  x % r = y
<1> DEFINE d == x \div r
<1> DEFINE m == x % r
<1>1. d \in Int /\ m \in 0 .. r - 1 /\ x = r * d + m
  BY DivMod
<1> HIDE DEF d, m
<1>2. r * (d - k) = y - m
  BY <1>1
<1>3. d - k = 0
  <2>1. -r < y - m /\ y - m < r
    BY <1>1
  <2>2. d - k \in Int
    BY <1>1
  <2> QED
    BY <1>2, <2>1, <2>2, Multiple
<1>4. m = y
  BY <1>1, <1>3
<1> QED
  BY <1>4 DEF m

Index == 0 .. IndexMod - 1

\* Taking an index round the wrap changes no entry: the ring divides 2^32.
LEMMA AtWrap ==
  ASSUME NEW x \in Nat, NEW i \in Nat, x < 2 * IndexMod
  PROVE  x % IndexMod \in Index /\ At((x % IndexMod) + i) = At(x + i) /\ At(x) \in Entries
<1> USE PacketAssumption
<1>1. x % IndexMod = IF x < IndexMod THEN x ELSE x - IndexMod
  <2>1. CASE x < IndexMod
    BY <2>1, Z3
  <2>2. CASE x >= IndexMod
    BY <2>2, Z3
  <2> QED
    BY <2>1, <2>2
<1>2. \A y \in Nat : y >= IndexMod => (y - IndexMod) % RingSize = y % RingSize
  <2> TAKE y \in Nat
  <2> HAVE y >= IndexMod
  <2> DEFINE q == IndexMod \div RingSize
  <2> DEFINE d == y \div RingSize
  <2> DEFINE m == y % RingSize
  <2>1. q \in Int /\ IndexMod = RingSize * q
    BY DivMod
  <2>2. d \in Int /\ m \in 0 .. RingSize - 1 /\ y = RingSize * d + m
    BY DivMod
  <2> HIDE DEF q, d, m
  <2>3. y - IndexMod = RingSize * (d - q) + m
    BY <2>1, <2>2
  <2>4. (y - IndexMod) % RingSize = m
    BY <2>1, <2>2, <2>3, ModUnique
  <2> QED
    BY <2>4 DEF m
<1>3. x % IndexMod \in Index
  BY <1>1 DEF Index
<1>4. At((x % IndexMod) + i) = At(x + i)
  <2>1. CASE x < IndexMod
    BY <2>1, <1>1
  <2>2. CASE x >= IndexMod
    <3>1. (x % IndexMod) + i = (x + i) - IndexMod
      BY <2>2, <1>1
    <3>2. x + i \in Nat /\ x + i >= IndexMod
      BY <2>2
    <3> QED
      BY <3>1, <3>2, <1>2 DEF At
  <2> QED
    BY <2>1, <2>2
<1>5. At(x) \in Entries
  BY DivMod DEF At, Entries
<1> QED
  BY <1>3, <1>4, <1>5

\* Entries nearer to each other than the size of the ring differ.
LEMMA AtApart ==
  ASSUME NEW x \in Nat, NEW i \in 0 .. RingSize - 1, NEW j \in 0 .. RingSize - 1,
         At(x + i) = At(x + j)
  PROVE  i = j
<1> USE PacketAssumption
<1> DEFINE d == (x + i) \div RingSize
<1> DEFINE e == (x + j) \div RingSize
<1> DEFINE m == (x + i) % RingSize
<1>1. d \in Int /\ m \in 0 .. RingSize - 1 /\ x + i = RingSize * d + m
  <2>1. x + i \in Int
    OBVIOUS
  <2> QED
    BY <2>1, DivMod
<1>2. e \in Int /\ x + j = RingSize * e + m
  BY DivMod DEF At
<1> HIDE DEF d, e, m
<1>3. RingSize * (d - e) = i - j
  BY <1>1, <1>2
<1>4. d - e \in Int /\ -RingSize < i - j /\ i - j < RingSize
  BY <1>1, <1>2
<1>5. d - e = 0
  BY <1>3, <1>4, Multiple
<1> QED
  BY <1>1, <1>2, <1>3, <1>5

\* What is between two indices, and how the distance follows them.
LEMMA AheadIs ==
  ASSUME NEW a \in Index, NEW b \in Index
  PROVE  /\ Ahead(a, b) = IF a >= b THEN a - b ELSE a - b + IndexMod
         /\ Ahead(a, b) \in Index /\ (Ahead(a, b) = 0 <=> a = b)
         /\ At(b + Ahead(a, b)) = At(a)
<1> USE PacketAssumption
<1>1. Ahead(a, b) = IF a >= b THEN a - b ELSE a - b + IndexMod
  BY Z3 DEF Ahead, Index
<1>2. Ahead(a, b) \in Index /\ (Ahead(a, b) = 0 <=> a = b)
  BY <1>1 DEF Index
<1>3. At(b + Ahead(a, b)) = At(a)
  <2>1. CASE a >= b
    BY <2>1, <1>1 DEF Index
  <2>2. CASE a < b
    <3>1. b + Ahead(a, b) = a + IndexMod
      BY <2>2, <1>1 DEF Index
    <3>2. (a + IndexMod) % IndexMod = a
      BY Z3 DEF Index
    <3>3. a + IndexMod \in Nat /\ a + IndexMod < 2 * IndexMod
      BY DEF Index
    <3>4. At(((a + IndexMod) % IndexMod) + 0) = At(a + IndexMod + 0)
      BY <3>3, AtWrap
    <3>5. a + 0 = a /\ a + IndexMod + 0 = a + IndexMod
      BY DEF Index
    <3> QED
      BY <3>1, <3>2, <3>4, <3>5
  <2> QED
    BY <2>1, <2>2 DEF Index
<1> QED
  BY <1>1, <1>2, <1>3

LEMMA AheadGrows ==
  ASSUME NEW a \in Index, NEW b \in Index, NEW n \in Nat, Ahead(a, b) + n < IndexMod
  PROVE  /\ (a + n) % IndexMod \in Index
         /\ Ahead((a + n) % IndexMod, b) = Ahead(a, b) + n
<1> USE PacketAssumption
<1> DEFINE c == (a + n) % IndexMod
<1>1. Ahead(a, b) = IF a >= b THEN a - b ELSE a - b + IndexMod
  BY AheadIs
<1>2. n < IndexMod
  BY <1>1 DEF Index
<1>3. c = IF a + n < IndexMod THEN a + n ELSE a + n - IndexMod
  <2>1. CASE a + n < IndexMod
    BY <2>1, Z3 DEF Index
  <2>2. CASE a + n >= IndexMod
    BY <2>2, <1>2, Z3 DEF Index
  <2> QED
    BY <2>1, <2>2 DEF Index
<1> HIDE DEF c
<1>4. c \in Index
  BY <1>2, <1>3 DEF Index
<1>5. Ahead(c, b) = IF c >= b THEN c - b ELSE c - b + IndexMod
  BY <1>4, AheadIs
<1>6. Ahead(c, b) = Ahead(a, b) + n
  BY <1>1, <1>3, <1>5, <1>2 DEF Index
<1> QED
  BY <1>4, <1>6 DEF c

LEMMA AheadShrinks ==
  ASSUME NEW a \in Index, NEW b \in Index, NEW n \in Nat, n <= Ahead(a, b)
  PROVE  /\ (b + n) % IndexMod \in Index
         /\ Ahead(a, (b + n) % IndexMod) = Ahead(a, b) - n
<1> USE PacketAssumption
<1> DEFINE c == (b + n) % IndexMod
<1>1. Ahead(a, b) = IF a >= b THEN a - b ELSE a - b + IndexMod
  BY AheadIs
<1>2. n < IndexMod
  BY <1>1 DEF Index
<1>3. c = IF b + n < IndexMod THEN b + n ELSE b + n - IndexMod
  <2>1. CASE b + n < IndexMod
    BY <2>1, Z3 DEF Index
  <2>2. CASE b + n >= IndexMod
    BY <2>2, <1>2, Z3 DEF Index
  <2> QED
    BY <2>1, <2>2 DEF Index
<1> HIDE DEF c
<1>4. c \in Index
  BY <1>2, <1>3 DEF Index
<1>5. Ahead(a, c) = IF a >= c THEN a - c ELSE a - c + IndexMod
  BY <1>4, AheadIs
<1>6. Ahead(a, c) = Ahead(a, b) - n
  BY <1>1, <1>3, <1>5, <1>2 DEF Index
<1> QED
  BY <1>4, <1>6 DEF c

\* The entries between two indices.
Live(to, from) == {At(from + i) : i \in 0 .. Ahead(to, from) - 1}

LEMMA BetweenIsLive ==
  ASSUME NEW ring, NEW to, NEW from
  PROVE  Between(ring, from, to) = {ring[e] : e \in Live(to, from)} \ {NoFrame}
  BY DEF Between, Live

\* n entries are put in at the producer's index: none of them was live, and no
\* two are the same.
LEMMA LiveGrows ==
  ASSUME NEW to \in Index, NEW from \in Index, NEW n \in Nat, Ahead(to, from) + n <= RingSize
  PROVE  /\ Live((to + n) % IndexMod, from) = Live(to, from) \cup {At(to + i - 1) : i \in 1 .. n}
         /\ \A i \in 1 .. n : At(to + i - 1) \in Entries \ Live(to, from)
         /\ \A i, j \in 1 .. n : At(to + i - 1) = At(to + j - 1) => i = j
<1> USE PacketAssumption
<1> DEFINE a == Ahead(to, from)
<1> DEFINE c == (to + n) % IndexMod
<1>1. a \in Index /\ a + n < IndexMod /\ c \in Index /\ Ahead(c, from) = a + n
  <2>1. a \in Index
    BY AheadIs
  <2>2. a + n < IndexMod
    BY <2>1 DEF Index
  <2> QED
    BY <2>1, <2>2, AheadGrows
<1>2. ASSUME NEW i \in 1 .. n PROVE At(to + i - 1) = At(from + (a + i - 1))
  <2>1. from + a \in Nat /\ from + a < 2 * IndexMod /\ i - 1 \in Nat
    BY <1>1 DEF Index
  <2>2. At(((from + a) % IndexMod) + (i - 1)) = At(from + a + (i - 1))
    BY <2>1, AtWrap
  <2>3. (from + a) % IndexMod = to
    <3>1. a = IF to >= from THEN to - from ELSE to - from + IndexMod
      BY AheadIs
    <3>2. CASE to >= from
      <4>1. from + a = to
        BY <3>1, <3>2 DEF Index
      <4> QED
        BY <4>1, Z3 DEF Index
    <3>3. CASE to < from
      <4>1. from + a = to + IndexMod
        BY <3>1, <3>3 DEF Index
      <4>2. (to + IndexMod) % IndexMod = to
        BY Z3 DEF Index
      <4> QED
        BY <4>1, <4>2
    <3> QED
      BY <3>2, <3>3 DEF Index
  <2>4. to + (i - 1) = to + i - 1 /\ from + a + (i - 1) = from + (a + i - 1)
    BY <1>1 DEF Index
  <2> QED
    BY <2>2, <2>3, <2>4
<1>3. ASSUME NEW i \in 0 .. RingSize - 1, NEW j \in 0 .. RingSize - 1,
             At(from + i) = At(from + j)
      PROVE  i = j
  BY <1>3, AtApart DEF Index
<1> HIDE DEF a, c
<1>4. \A i \in 1 .. n : a + i - 1 \in 0 .. RingSize - 1 /\ a + i - 1 >= a
  BY <1>1 DEF a, Index
<1>5. \A i, j \in 1 .. n : At(to + i - 1) = At(to + j - 1) => i = j
  <2> TAKE i, j \in 1 .. n
  <2> HAVE At(to + i - 1) = At(to + j - 1)
  <2>1. a + i - 1 = a + j - 1
    BY <1>2, <1>3, <1>4
  <2> QED
    BY <2>1, <1>1 DEF Index
<1>6. \A i \in 1 .. n : At(to + i - 1) \in Entries \ Live(to, from)
  <2> TAKE i \in 1 .. n
  <2>1. At(to + i - 1) \in Entries
    <3>1. to + i - 1 \in Int
      BY DEF Index
    <3> QED
      BY <3>1, DivMod DEF At, Entries
  <2>2. ASSUME NEW j \in 0 .. a - 1, At(to + i - 1) = At(from + j) PROVE FALSE
    <3>1. a + i - 1 \in 0 .. RingSize - 1 /\ a + i - 1 >= a
      BY <1>4
    <3>2. j \in 0 .. RingSize - 1 /\ j < a
      BY <3>1, <1>1 DEF Index
    <3>3. At(from + (a + i - 1)) = At(from + j)
      BY <1>2, <2>2
    <3>4. a + i - 1 = j
      BY <3>3, <1>3, <3>1, <3>2
    <3>5. a \in Int /\ i \in Int /\ j \in Int
      BY <1>1 DEF Index
    <3> QED
      BY <3>1, <3>2, <3>4, <3>5
  <2> QED
    BY <2>1, <2>2 DEF Live, a
<1>7. Live(c, from) = Live(to, from) \cup {At(to + i - 1) : i \in 1 .. n}
  <2>1. Live(c, from) = {At(from + i) : i \in 0 .. a + n - 1}
    <3>1. Live(c, from) = {At(from + i) : i \in 0 .. Ahead(c, from) - 1}
      BY DEF Live
    <3>2. Ahead(c, from) = a + n /\ a \in Int
      BY <1>1 DEF Index
    <3> DEFINE d == Ahead(c, from)
    <3>3. 0 .. d - 1 = 0 .. a + n - 1
      <4> HIDE DEF d
      <4>1. d = a + n
        BY <3>2 DEF d
      <4> QED
        BY <4>1, <3>2
    <3> QED
      BY <3>1, <3>3
  <2>2. Live(to, from) = {At(from + i) : i \in 0 .. a - 1}
    BY DEF Live, a
  <2>3. {At(to + i - 1) : i \in 1 .. n} = {At(from + i) : i \in a .. a + n - 1}
    <3>1. \A i \in 1 .. n : a + i - 1 \in a .. a + n - 1
      BY <1>1 DEF Index
    <3>2. \A i \in a .. a + n - 1 : i - a + 1 \in 1 .. n /\ a + (i - a + 1) - 1 = i
      BY <1>1 DEF Index
    <3>3. \A i \in a .. a + n - 1 : At(from + i) = At(to + (i - a + 1) - 1)
      BY <1>2, <3>2
    <3> QED
      BY <1>2, <3>1, <3>2, <3>3
  <2>4. 0 .. a + n - 1 = (0 .. a - 1) \cup (a .. a + n - 1)
    BY <1>1 DEF Index
  <2> QED
    BY <2>1, <2>2, <2>3, <2>4
<1> QED
  BY <1>5, <1>6, <1>7 DEF c

\* n entries are taken out at the consumer's index.
LEMMA LiveShrinks ==
  ASSUME NEW to \in Index, NEW from \in Index, NEW n \in Nat,
         n <= Ahead(to, from), Ahead(to, from) <= RingSize
  PROVE  /\ Live(to, from)
              = Live(to, (from + n) % IndexMod) \cup {At(from + i) : i \in 0 .. n - 1}
         /\ Live(to, (from + n) % IndexMod) \cap {At(from + i) : i \in 0 .. n - 1} = {}
<1> USE PacketAssumption
<1> DEFINE a == Ahead(to, from)
<1> DEFINE c == (from + n) % IndexMod
<1>1. a \in Index /\ c \in Index /\ Ahead(to, c) = a - n
  BY AheadIs, AheadShrinks
<1>2. \A i \in Nat : At(c + i) = At(from + (n + i))
  <2> TAKE i \in Nat
  <2>1. from + n \in Nat /\ from + n < 2 * IndexMod
    BY <1>1 DEF Index
  <2>2. At(c + i) = At(from + n + i)
    BY <2>1, AtWrap
  <2> QED
    BY <2>2 DEF Index
<1>3. ASSUME NEW i \in 0 .. RingSize - 1, NEW j \in 0 .. RingSize - 1,
             At(from + i) = At(from + j)
      PROVE  i = j
  BY <1>3, AtApart DEF Index
<1> HIDE DEF a, c
<1>4. Live(to, c) = {At(from + i) : i \in n .. a - 1}
  <2>1. Live(to, c) = {At(c + i) : i \in 0 .. a - n - 1}
    BY <1>1 DEF Live
  <2>2. \A i \in 0 .. a - n - 1 : n + i \in n .. a - 1 /\ i \in Nat
    BY <1>1 DEF Index
  <2>3. \A i \in n .. a - 1 : i - n \in 0 .. a - n - 1 /\ i - n \in Nat /\ n + (i - n) = i
    BY <1>1 DEF Index
  <2>4. \A i \in n .. a - 1 : At(from + i) = At(c + (i - n))
    BY <1>2, <2>3
  <2>5. \A i \in 0 .. a - n - 1 : At(c + i) = At(from + (n + i))
    BY <1>2, <2>2
  <2> QED
    BY <2>1, <2>2, <2>3, <2>4, <2>5
<1>5. Live(to, from) = {At(from + i) : i \in 0 .. a - 1}
  BY DEF Live, a
<1>6. 0 .. a - 1 = (n .. a - 1) \cup (0 .. n - 1) /\ a <= RingSize /\ n <= a
  BY <1>1 DEF Index, a
<1>7. Live(to, c) \cap {At(from + i) : i \in 0 .. n - 1} = {}
  <2>1. ASSUME NEW i \in n .. a - 1, NEW j \in 0 .. n - 1, At(from + i) = At(from + j)
        PROVE  FALSE
    <3>1. i \in 0 .. RingSize - 1 /\ j \in 0 .. RingSize - 1 /\ j < i
      BY <1>1, <1>6 DEF Index
    <3> QED
      BY <3>1, <2>1, <1>3
  <2> QED
    BY <2>1, <1>4
<1>8. Live(to, from) = Live(to, c) \cup {At(from + i) : i \in 0 .. n - 1}
  BY <1>4, <1>5, <1>6
<1> QED
  BY <1>7, <1>8 DEF c

-----------------------------------------------------------------------------
(* What the rings hold. *)

Contents == Frames \cup {NoFrame}
Distinct(ring, places) ==
  \A e, f \in places : ring[e] = ring[f] /\ ring[e] # NoFrame => e = f

\* The frames put into n entries, and taken out of them.
PutSet(ring, to, n) == {ring[At(to + i - 1)] : i \in 1 .. n} \ {NoFrame}
TakeSet(ring, from, n) == {ring[At(from + i)] : i \in 0 .. n - 1} \ {NoFrame}
PutApart(ring, to, n) ==
  \A i, j \in 1 .. n : ring[At(to + i - 1)] = ring[At(to + j - 1)]
                        /\ ring[At(to + i - 1)] # NoFrame => i = j
\* The other entries are left alone.
OthersKept(ring, ring2, to, n) ==
  \A e \in Entries : (\A i \in 1 .. n : At(to + i - 1) # e) => ring2[e] = ring[e]

LEMMA PutIn ==
  ASSUME NEW to \in Index, NEW from \in Index, NEW n \in Nat, Ahead(to, from) + n <= RingSize,
         NEW ring \in [Entries -> Contents], NEW ring2 \in [Entries -> Contents],
         Distinct(ring, Live(to, from)),
         OthersKept(ring, ring2, to, n), PutApart(ring2, to, n),
         PutSet(ring2, to, n) \cap Between(ring, from, to) = {}
  PROVE  /\ Between(ring2, from, (to + n) % IndexMod)
              = Between(ring, from, to) \cup PutSet(ring2, to, n)
         /\ Distinct(ring2, Live((to + n) % IndexMod, from))
<1> DEFINE new == PutSet(ring2, to, n)
<1> DEFINE c == (to + n) % IndexMod
<1> DEFINE L == Live(to, from)
<1> DEFINE N == {At(to + i - 1) : i \in 1 .. n}
<1>1. /\ Live(c, from) = L \cup N
      /\ \A i \in 1 .. n : At(to + i - 1) \in Entries \ L
  BY LiveGrows
<1>2. L \subseteq Entries
  <2>1. \A x \in Nat : At(x) \in Entries
    <3> TAKE x \in Nat
    <3>1. x \in Int
      OBVIOUS
    <3> QED
      BY <3>1, PacketAssumption, DivMod DEF At, Entries
  <2>2. \A i \in 0 .. Ahead(to, from) - 1 : from + i \in Nat
    BY DEF Index
  <2> QED
    BY <2>1, <2>2 DEF Live
<1>3. Between(ring2, from, c) = {ring2[e] : e \in Live(c, from)} \ {NoFrame}
  BY BetweenIsLive
<1>4. Between(ring, from, to) = {ring[e] : e \in L} \ {NoFrame}
  BY BetweenIsLive
<1> HIDE DEF c, L
<1>5. \A e \in L : ring2[e] = ring[e]
  BY <1>1, <1>2 DEF OthersKept
<1>6. {ring2[e] : e \in N} \ {NoFrame} = new
  BY DEF PutSet
<1> HIDE DEF new
<1>7. Between(ring2, from, c) = Between(ring, from, to) \cup new
  BY <1>1, <1>3, <1>4, <1>5, <1>6
<1>8. ASSUME NEW e \in L \cup N, NEW f \in L \cup N, ring2[e] = ring2[f], ring2[e] # NoFrame
      PROVE  e = f
  <2>1. CASE e \in L /\ f \in L
    BY <2>1, <1>5, <1>8 DEF Distinct, L
  <2>2. CASE e \in N /\ f \in N
    BY <2>2, <1>8 DEF PutApart
  <2>3. \A x \in L, y \in N : ring2[x] = ring2[y] => ring2[x] = NoFrame
    BY <1>4, <1>5, <1>6 DEF new
  <2> QED
    BY <2>1, <2>2, <2>3, <1>8
<1>9. Distinct(ring2, Live(c, from))
  BY <1>1, <1>8 DEF Distinct
<1> QED
  BY <1>7, <1>9 DEF c, new

LEMMA TakeOut ==
  ASSUME NEW to \in Index, NEW from \in Index, NEW n \in Nat,
         n <= Ahead(to, from), Ahead(to, from) <= RingSize,
         NEW ring \in [Entries -> Contents], Distinct(ring, Live(to, from))
  PROVE  /\ TakeSet(ring, from, n) \subseteq Between(ring, from, to)
         /\ Between(ring, (from + n) % IndexMod, to)
              = Between(ring, from, to) \ TakeSet(ring, from, n)
         /\ Distinct(ring, Live(to, (from + n) % IndexMod))
         /\ Live(to, (from + n) % IndexMod) \subseteq Live(to, from)
<1> DEFINE out == TakeSet(ring, from, n)
<1> DEFINE c == (from + n) % IndexMod
<1> DEFINE L == Live(to, from)
<1> DEFINE K == Live(to, c)
<1> DEFINE N == {At(from + i) : i \in 0 .. n - 1}
<1>1. L = K \cup N /\ K \cap N = {}
  BY LiveShrinks
<1>2. Between(ring, c, to) = {ring[e] : e \in K} \ {NoFrame}
  BY BetweenIsLive
<1>3. Between(ring, from, to) = {ring[e] : e \in L} \ {NoFrame}
  BY BetweenIsLive
<1>4. Distinct(ring, L)
  OBVIOUS
<1> HIDE DEF c, L, K
<1>5. {ring[e] : e \in N} \ {NoFrame} = out
  BY DEF TakeSet
<1> HIDE DEF N, out
<1>6. \A x \in K, y \in N : ring[x] = ring[y] => ring[x] = NoFrame
  BY <1>1, <1>4 DEF Distinct
<1>7. Between(ring, c, to) = Between(ring, from, to) \ out
  BY <1>1, <1>2, <1>3, <1>5, <1>6
<1>8. out \subseteq Between(ring, from, to)
  BY <1>1, <1>3, <1>5
<1>9. Distinct(ring, K) /\ K \subseteq L
  BY <1>1, <1>4 DEF Distinct
<1> QED
  BY <1>7, <1>8, <1>9 DEF c, K, L, out

-----------------------------------------------------------------------------
(* Where the frames are. *)

PlaceNames == {"pool", "fill", "nic", "rx", "hand", "channel", "rented", "lost"}
Place ==
  [k \in PlaceNames |->
     IF k = "pool" THEN pool ELSE IF k = "fill" THEN Filled ELSE IF k = "nic" THEN nic
     ELSE IF k = "rx" THEN Received ELSE IF k = "hand" THEN hand
     ELSE IF k = "channel" THEN InChannel ELSE IF k = "rented" THEN rented ELSE lost]

\* Each frame is in one place.
Spread(P) ==
  /\ P \in [PlaceNames -> SUBSET Frames]
  /\ \A f \in Frames : \E k \in PlaceNames : f \in P[k]
  /\ \A k, l \in PlaceNames : k # l => P[k] \cap P[l] = {}

LEMMA Moved ==
  ASSUME NEW P, Spread(P), NEW a \in PlaceNames, NEW b \in PlaceNames, a # b,
         NEW S \in SUBSET P[a],
         NEW Q, Q = [k \in PlaceNames |-> Q[k]], Q[a] = P[a] \ S, Q[b] = P[b] \cup S,
         \A k \in PlaceNames \ {a, b} : Q[k] = P[k]
  PROVE  Spread(Q)
<1>1. \A k \in PlaceNames : Q[k] \subseteq Frames
  BY DEF Spread
<1>2. Q \in [PlaceNames -> SUBSET Frames]
  BY <1>1
<1>3. \A f \in Frames : \E k \in PlaceNames : f \in Q[k]
  <2> TAKE f \in Frames
  <2>1. PICK k \in PlaceNames : f \in P[k]
    BY DEF Spread
  <2>2. CASE k = a
    BY <2>1, <2>2
  <2>3. CASE k # a
    BY <2>1, <2>3
  <2> QED
    BY <2>2, <2>3
<1>4. ASSUME NEW k \in PlaceNames, NEW l \in PlaceNames, k # l, NEW f \in Q[k], f \in Q[l]
      PROVE  FALSE
  <2>1. \A m, n \in PlaceNames : m # n => ~(f \in P[m] /\ f \in P[n])
    BY DEF Spread
  <2>2. \A m \in PlaceNames : f \in Q[m] => f \in P[m] \/ (m = b /\ f \in S)
    OBVIOUS
  <2>3. f \in S => f \in P[a] /\ f \notin Q[a]
    OBVIOUS
  <2> QED
    BY <1>4, <2>1, <2>2, <2>3
<1> QED
  BY <1>2, <1>3, <1>4 DEF Spread

PlaceFacts ==
  /\ Place = [k \in PlaceNames |-> Place[k]]
  /\ Place["pool"] = pool /\ Place["fill"] = Filled /\ Place["nic"] = nic
  /\ Place["rx"] = Received /\ Place["hand"] = hand /\ Place["channel"] = InChannel
  /\ Place["rented"] = rented /\ Place["lost"] = lost

LEMMA PlaceIs == PlaceFacts /\ PlaceFacts'
  BY DEF PlaceFacts, Place, PlaceNames

LEMMA DisjointSum ==
  ASSUME NEW A, IsFiniteSet(A), NEW B, IsFiniteSet(B), A \cap B = {}
  PROVE  /\ IsFiniteSet(A \cup B)
         /\ Cardinality(A \cup B) = Cardinality(A) + Cardinality(B)
<1>1. IsFiniteSet(A \cup B) /\ Cardinality(A \cup B)
        = Cardinality(A) + Cardinality(B) - Cardinality(A \cap B)
  BY FS_Union
<1>2. Cardinality(A \cap B) = 0
  BY FS_EmptySet
<1>3. Cardinality(A) \in Nat /\ Cardinality(B) \in Nat
  BY FS_CardinalityType
<1> QED
  BY <1>1, <1>2, <1>3

\* The frames of the eight places are as many as there are.
LEMMA SpreadAddsUp ==
  ASSUME Spread(Place)
  PROVE  /\ pool \cup Filled \cup nic \cup Received \cup hand \cup InChannel \cup rented \cup lost = Frames
         /\ Cardinality(pool) + Cardinality(Filled) + Cardinality(nic) + Cardinality(Received)
              + Cardinality(hand) + Cardinality(InChannel) + Cardinality(rented) + Cardinality(lost)
                = Cardinality(Frames)
<1>1. /\ pool \subseteq Frames /\ Filled \subseteq Frames /\ nic \subseteq Frames
      /\ Received \subseteq Frames /\ hand \subseteq Frames /\ InChannel \subseteq Frames
      /\ rented \subseteq Frames /\ lost \subseteq Frames
  BY PlaceIs DEF PlaceFacts, Spread, PlaceNames
<1>2. \A f \in Frames : f \in pool \cup Filled \cup nic \cup Received \cup hand
                                \cup InChannel \cup rented \cup lost
  BY PlaceIs DEF PlaceFacts, Spread, PlaceNames
<1>3. pool \cup Filled \cup nic \cup Received \cup hand \cup InChannel \cup rented \cup lost = Frames
  BY <1>1, <1>2
<1>4. \A S \in SUBSET Frames : IsFiniteSet(S)
  BY PacketAssumption, FS_Subset
<1>5. /\ IsFiniteSet(pool) /\ IsFiniteSet(Filled) /\ IsFiniteSet(nic) /\ IsFiniteSet(Received)
      /\ IsFiniteSet(hand) /\ IsFiniteSet(InChannel) /\ IsFiniteSet(rented) /\ IsFiniteSet(lost)
  BY <1>1, <1>4
<1> DEFINE S2 == pool \cup Filled
<1> DEFINE S3 == S2 \cup nic
<1> DEFINE S4 == S3 \cup Received
<1> DEFINE S5 == S4 \cup hand
<1> DEFINE S6 == S5 \cup InChannel
<1> DEFINE S7 == S6 \cup rented
<1>6. /\ pool \cap Filled = {} /\ S2 \cap nic = {} /\ S3 \cap Received = {} /\ S4 \cap hand = {}
      /\ S5 \cap InChannel = {} /\ S6 \cap rented = {} /\ S7 \cap lost = {}
  <2>1. \A k, l \in PlaceNames : k # l => Place[k] \cap Place[l] = {}
    BY DEF Spread
  <2>2. \A l \in PlaceNames \ {"pool"} : pool \cap Place[l] = {}
    BY <2>1, PlaceIs DEF PlaceFacts, PlaceNames
  <2>3. \A l \in PlaceNames \ {"fill"} : Filled \cap Place[l] = {}
    BY <2>1, PlaceIs DEF PlaceFacts, PlaceNames
  <2>4. \A l \in PlaceNames \ {"nic"} : nic \cap Place[l] = {}
    BY <2>1, PlaceIs DEF PlaceFacts, PlaceNames
  <2>5. \A l \in PlaceNames \ {"rx"} : Received \cap Place[l] = {}
    BY <2>1, PlaceIs DEF PlaceFacts, PlaceNames
  <2>6. \A l \in PlaceNames \ {"hand"} : hand \cap Place[l] = {}
    BY <2>1, PlaceIs DEF PlaceFacts, PlaceNames
  <2>7. \A l \in PlaceNames \ {"channel"} : InChannel \cap Place[l] = {}
    BY <2>1, PlaceIs DEF PlaceFacts, PlaceNames
  <2>8. rented \cap lost = {}
    BY <2>1, PlaceIs DEF PlaceFacts, PlaceNames
  <2>9. pool \cap Filled = {}
    BY <2>2, PlaceIs DEF PlaceFacts, PlaceNames
  <2>10. S2 \cap nic = {}
    BY <2>2, <2>3, PlaceIs DEF PlaceFacts, PlaceNames
  <2>11. S3 \cap Received = {}
    BY <2>2, <2>3, <2>4, PlaceIs DEF PlaceFacts, PlaceNames
  <2>12. S4 \cap hand = {}
    BY <2>2, <2>3, <2>4, <2>5, PlaceIs DEF PlaceFacts, PlaceNames
  <2>13. S5 \cap InChannel = {}
    BY <2>2, <2>3, <2>4, <2>5, <2>6, PlaceIs DEF PlaceFacts, PlaceNames
  <2>14. S6 \cap rented = {}
    BY <2>2, <2>3, <2>4, <2>5, <2>6, <2>7, PlaceIs DEF PlaceFacts, PlaceNames
  <2>15. S7 \cap lost = {}
    BY <2>2, <2>3, <2>4, <2>5, <2>6, <2>7, <2>8, PlaceIs DEF PlaceFacts, PlaceNames
  <2> QED
    BY <2>9, <2>10, <2>11, <2>12, <2>13, <2>14, <2>15
<1> HIDE DEF S2, S3, S4, S5, S6, S7
<1>7. IsFiniteSet(S2) /\ Cardinality(S2) = Cardinality(pool) + Cardinality(Filled)
  BY <1>5, <1>6, DisjointSum DEF S2
<1>8. IsFiniteSet(S3) /\ Cardinality(S3) = Cardinality(S2) + Cardinality(nic)
  BY <1>5, <1>6, <1>7, DisjointSum DEF S3
<1>9. IsFiniteSet(S4) /\ Cardinality(S4) = Cardinality(S3) + Cardinality(Received)
  BY <1>5, <1>6, <1>8, DisjointSum DEF S4
<1>10. IsFiniteSet(S5) /\ Cardinality(S5) = Cardinality(S4) + Cardinality(hand)
  BY <1>5, <1>6, <1>9, DisjointSum DEF S5
<1>11. IsFiniteSet(S6) /\ Cardinality(S6) = Cardinality(S5) + Cardinality(InChannel)
  BY <1>5, <1>6, <1>10, DisjointSum DEF S6
<1>12. IsFiniteSet(S7) /\ Cardinality(S7) = Cardinality(S6) + Cardinality(rented)
  BY <1>5, <1>6, <1>11, DisjointSum DEF S7
<1>13. Cardinality(S7 \cup lost) = Cardinality(S7) + Cardinality(lost)
  BY <1>5, <1>6, <1>12, DisjointSum
<1>14. S7 \cup lost = Frames
  BY <1>3 DEF S2, S3, S4, S5, S6, S7
<1> QED
  BY <1>3, <1>7, <1>8, <1>9, <1>10, <1>11, <1>12, <1>13, <1>14

-----------------------------------------------------------------------------
(* The packet loop's invariant. *)

RingsTyped ==
  /\ fillProd \in Index /\ fillCons \in Index /\ seenCons \in Index
  /\ rxProd \in Index /\ rxCons \in Index /\ seenProd \in Index
  /\ fillRing \in [Entries -> Contents] /\ rxRing \in [Entries -> Contents]
  /\ channel \in Seq(SUBSET Frames)
  /\ badDescs \in Nat

\* What the loop believes to be free is; what the driver has still to take are
\* frames, each once.
FillOK ==
  /\ Ahead(fillProd, fillCons) <= Ahead(fillProd, seenCons)
  /\ Ahead(fillProd, seenCons) <= RingSize
  /\ \A e \in Live(fillProd, fillCons) : fillRing[e] \in Frames
  /\ Distinct(fillRing, Live(fillProd, fillCons))

\* What the loop believes to be there is.
RxOK ==
  /\ Ahead(seenProd, rxCons) <= Ahead(rxProd, rxCons)
  /\ Ahead(rxProd, rxCons) <= RingSize
  /\ Distinct(rxRing, Live(rxProd, rxCons))

HandOK == hand # {} => lpc = "send"
BatchesApart == \A i, j \in 1 .. Len(channel) : i # j => channel[i] \cap channel[j] = {}
LossesExplained == ~hungUp => Cardinality(lost) <= badDescs

FramesInv ==
  /\ RingsTyped /\ FillOK /\ RxOK
  /\ HandOK /\ BatchesApart /\ LossesExplained
  /\ Spread(Place)

LEMMA AtIsEntry == \A x \in Int : At(x) \in Entries
  BY PacketAssumption, DivMod DEF At, Entries

\* The distance of an index from itself.
LEMMA AheadSelf == \A a \in Index : Ahead(a, a) = 0 /\ Live(a, a) = {}
<1> TAKE a \in Index
<1>1. Ahead(a, a) = 0
  BY AheadIs
<1> QED
  BY <1>1 DEF Live

LEMMA FramesInitInv == PacketInit => FramesInv
<1> SUFFICES ASSUME PacketInit PROVE FramesInv
  OBVIOUS
<1> USE DEF PacketInit
<1>1. IndexMod - 1 \in Index /\ 0 \in Nat
  BY PacketAssumption DEF Index
<1>2. RingsTyped
  BY <1>1 DEF RingsTyped, Contents
<1>3. Ahead(fillProd, fillCons) = 0 /\ Live(fillProd, fillCons) = {}
  BY <1>1, AheadSelf
<1>4. Ahead(rxProd, rxCons) = 0 /\ Live(rxProd, rxCons) = {}
  BY <1>1, AheadSelf
<1>5. FillOK /\ RxOK
  BY <1>3, <1>4, PacketAssumption DEF FillOK, RxOK, Distinct
<1>6. Filled = {} /\ Received = {}
  BY <1>3, <1>4, BetweenIsLive DEF Filled, Received
<1>7. InChannel = {}
  BY DEF InChannel
<1>8. Spread(Place)
  BY <1>6, <1>7, PlaceIs DEF PlaceFacts, Spread, PlaceNames
<1>9. HandOK /\ BatchesApart /\ LossesExplained
  BY FS_EmptySet DEF HandOK, BatchesApart, LossesExplained
<1> QED
  BY <1>2, <1>5, <1>8, <1>9 DEF FramesInv

\* A step that moves no frame and touches neither ring nor channel.
LEMMA QuietStep ==
  ASSUME FramesInv, UNCHANGED <<pool, fillVars, rxVars, hand, channel, rented, lost, nic, badDescs>>,
         hungUp' = hungUp, hand # {} => lpc' = "send"
  PROVE  FramesInv'
<1> USE DEF fillVars, rxVars
<1>1. RingsTyped' /\ FillOK' /\ RxOK'
  BY DEF FramesInv, RingsTyped, FillOK, RxOK, Live, Ahead, At, Distinct
<1>2. HandOK' /\ BatchesApart' /\ LossesExplained'
  BY DEF FramesInv, HandOK, BatchesApart, LossesExplained
<1>3. Place' = Place
  BY DEF Place, Filled, Received, InChannel, Between, Ahead, At
<1> QED
  BY <1>1, <1>2, <1>3 DEF FramesInv, Spread

LEMMA MoveFrames ==
  ASSUME Spread(Place), NEW a \in PlaceNames, NEW b \in PlaceNames, a # b,
         NEW S, S \subseteq Place[a],
         Place'[a] = Place[a] \ S, Place'[b] = Place[b] \cup S,
         \A k \in PlaceNames \ {a, b} : Place'[k] = Place[k]
  PROVE  Spread(Place')
<1>1. Place' = [k \in PlaceNames |-> Place'[k]]
  BY PlaceIs DEF PlaceFacts
<1> QED
  BY <1>1, Moved

LEMMA FillStays ==
  ASSUME UNCHANGED fillVars
  PROVE  Filled' = Filled /\ (FillOK => FillOK')
  BY DEF fillVars, Filled, Between, Ahead, At, FillOK, Live, Distinct

LEMMA RxStays ==
  ASSUME UNCHANGED rxVars
  PROVE  Received' = Received /\ (RxOK => RxOK')
  BY DEF rxVars, Received, Between, Ahead, At, RxOK, Live, Distinct

LEMMA ChannelStays == channel' = channel => InChannel' = InChannel /\ (BatchesApart => BatchesApart')
  BY DEF InChannel, BatchesApart

\* refill takes frames from the pool into entries the driver has given back.
LEMMA RefillStep == FramesInv /\ Refill => FramesInv'
<1> SUFFICES ASSUME FramesInv, Refill PROVE FramesInv'
  OBVIOUS
<1> USE PacketAssumption
<1> DEFINE gap == Ahead(fillProd, seenCons')
<1> DEFINE want == Least(RingSize - gap, FillBatch)
<1> DEFINE n == Least(want, Cardinality(pool))
<1>1. PICK taken \in [1 .. n -> pool] :
        /\ \A i, j \in 1 .. n : i # j => taken[i] # taken[j]
        /\ pool' = pool \ {taken[i] : i \in 1 .. n}
        /\ fillRing' = [e \in Entries |->
              IF \E i \in 1 .. n : At(fillProd + i - 1) = e
              THEN taken[CHOOSE i \in 1 .. n : At(fillProd + i - 1) = e]
              ELSE fillRing[e]]
        /\ fillProd' = (fillProd + n) % IndexMod
  BY Zenon DEF Refill
<1>2. /\ lpc = "refill" /\ lpc' = "flag" /\ seenCons' = FreeSlots
      /\ UNCHANGED <<fillCons, rxVars, hand, stopped, driverVars, channelVars>>
  BY DEF Refill
<1>3. RingsTyped /\ FillOK /\ RxOK /\ HandOK /\ BatchesApart /\ LossesExplained /\ Spread(Place)
  BY DEF FramesInv
<1>4. /\ fillProd \in Index /\ fillCons \in Index /\ seenCons \in Index
      /\ fillRing \in [Entries -> Contents]
      /\ pool \subseteq Frames /\ Filled \subseteq Frames /\ pool \cap Filled = {}
  BY <1>3, PlaceIs DEF PlaceFacts, RingsTyped, Spread, PlaceNames
<1>5. seenCons' \in Index /\ gap \in Nat /\ Ahead(fillProd, fillCons) <= gap /\ gap <= RingSize
  <2>1. seenCons' = fillCons \/ seenCons' = seenCons
    BY <1>2 DEF FreeSlots
  <2>2. Ahead(fillProd, fillCons) \in Index /\ Ahead(fillProd, seenCons) \in Index
    BY <1>4, AheadIs
  <2> QED
    BY <1>3, <1>4, <2>1, <2>2 DEF FillOK, Index
<1>6. n \in Nat /\ n <= RingSize - gap
  <2>1. Cardinality(pool) \in Nat
    BY <1>4, FS_Subset, FS_CardinalityType
  <2> HIDE DEF gap
  <2> QED
    BY <1>5, <2>1 DEF Least
<1> HIDE DEF n, want
<1>7. Ahead(fillProd, fillCons) \in Nat /\ Ahead(fillProd, fillCons) + n <= RingSize
  <2>1. Ahead(fillProd, fillCons) \in Index
    BY <1>4, AheadIs
  <2> HIDE DEF gap
  <2> QED
    BY <1>5, <1>6, <2>1 DEF Index
<1>8. /\ \A i \in 1 .. n : At(fillProd + i - 1) \in Entries
      /\ \A i, j \in 1 .. n : At(fillProd + i - 1) = At(fillProd + j - 1) => i = j
      /\ Live(fillProd', fillCons)
           = Live(fillProd, fillCons) \cup {At(fillProd + i - 1) : i \in 1 .. n}
      /\ \A i \in 1 .. n : At(fillProd + i - 1) \notin Live(fillProd, fillCons)
  BY <1>1, <1>4, <1>6, <1>7, LiveGrows
<1>9. \A i \in 1 .. n : fillRing'[At(fillProd + i - 1)] = taken[i]
  <2> TAKE i \in 1 .. n
  <2> DEFINE e == At(fillProd + i - 1)
  <2>1. (CHOOSE j \in 1 .. n : At(fillProd + j - 1) = e) = i
    BY <1>8
  <2>2. e \in Entries /\ \E j \in 1 .. n : At(fillProd + j - 1) = e
    BY <1>8
  <2> QED
    BY <1>1, <2>1, <2>2
<1>10. OthersKept(fillRing, fillRing', fillProd, n)
  BY <1>1 DEF OthersKept
<1>11. fillRing' \in [Entries -> Contents]
  <2>1. fillRing' = [e \in Entries |-> fillRing'[e]]
    BY <1>1
  <2>2. \A e \in Entries : fillRing'[e] \in Contents
    <3> TAKE e \in Entries
    <3>1. CASE \E i \in 1 .. n : At(fillProd + i - 1) = e
      BY <3>1, <1>4, <1>9 DEF Contents
    <3>2. CASE \A i \in 1 .. n : At(fillProd + i - 1) # e
      BY <3>2, <1>4, <1>10 DEF OthersKept
    <3> QED
      BY <3>1, <3>2
  <2> QED
    BY <2>1, <2>2
<1> DEFINE S == {taken[i] : i \in 1 .. n}
<1>12. S \subseteq pool /\ pool' = pool \ S
  BY <1>1
<1>13. /\ Between(fillRing', fillCons, fillProd') = Filled \cup S
       /\ Distinct(fillRing', Live(fillProd', fillCons))
  <2>1. S = PutSet(fillRing', fillProd, n)
    BY <1>4, <1>9, <1>12 DEF PutSet
  <2>2. S \cap Between(fillRing, fillCons, fillProd) = {}
    BY <1>4, <1>12 DEF Filled
  <2>3. PutApart(fillRing', fillProd, n)
    <3> SUFFICES \A i, j \in 1 .. n :
          fillRing'[At(fillProd + i - 1)] = fillRing'[At(fillProd + j - 1)]
            /\ fillRing'[At(fillProd + i - 1)] # NoFrame => i = j
      BY DEF PutApart
    <3> TAKE i, j \in 1 .. n
    <3> HAVE fillRing'[At(fillProd + i - 1)] = fillRing'[At(fillProd + j - 1)]
              /\ fillRing'[At(fillProd + i - 1)] # NoFrame
    <3>1. taken[i] = taken[j]
      BY <1>9
    <3> QED
      BY <1>1, <3>1, Zenon
  <2>4. Distinct(fillRing, Live(fillProd, fillCons))
    BY <1>3 DEF FillOK
  <2> HIDE DEF S
  <2>5. /\ Between(fillRing', fillCons, (fillProd + n) % IndexMod)
             = Between(fillRing, fillCons, fillProd) \cup S
        /\ Distinct(fillRing', Live((fillProd + n) % IndexMod, fillCons))
    BY <1>4, <1>6, <1>7, <1>10, <1>11, <2>1, <2>2, <2>3, <2>4, PutIn
  <2> QED
    BY <2>5, <1>1 DEF Filled
<1>14. FillOK' /\ fillProd' \in Index
  <2>1. Ahead(fillProd', fillCons) = Ahead(fillProd, fillCons) + n /\ fillProd' \in Index
    <3>1. Ahead(fillProd, fillCons) + n < IndexMod
      BY <1>7, <1>6
    <3> QED
      BY <3>1, <1>1, <1>4, <1>6, AheadGrows
  <2>2. Ahead(fillProd', seenCons') = gap + n
    <3>1. gap + n < IndexMod
      BY <1>5, <1>6
    <3> QED
      BY <3>1, <1>1, <1>4, <1>5, <1>6, AheadGrows
  <2>3. \A e \in Live(fillProd', fillCons) : fillRing'[e] \in Frames
    <3> TAKE e \in Live(fillProd', fillCons)
    <3>1. CASE \E i \in 1 .. n : At(fillProd + i - 1) = e
      BY <3>1, <1>4, <1>9
    <3>2. CASE \A i \in 1 .. n : At(fillProd + i - 1) # e
      <4>1. e \in Live(fillProd, fillCons)
        BY <3>2, <1>8
      <4>2. e \in Entries
        <5>1. \A i \in 0 .. Ahead(fillProd, fillCons) - 1 : fillCons + i \in Int
          BY <1>4 DEF Index
        <5> QED
          BY <4>1, <5>1, AtIsEntry DEF Live
      <4> QED
        BY <4>1, <4>2, <3>2, <1>3, <1>10 DEF FillOK, OthersKept
    <3> QED
      BY <3>1, <3>2
  <2> HIDE DEF gap
  <2>4. gap + n <= RingSize /\ Ahead(fillProd, fillCons) + n <= gap + n
    BY <1>5, <1>6, <1>7
  <2> QED
    BY <2>1, <2>2, <2>3, <2>4, <1>2, <1>13 DEF FillOK
<1>15. RingsTyped'
  BY <1>2, <1>3, <1>5, <1>11, <1>14 DEF RingsTyped, rxVars, driverVars, channelVars
<1>16. RxOK' /\ Received' = Received /\ BatchesApart' /\ InChannel' = InChannel
  BY <1>2, <1>3, RxStays, ChannelStays DEF channelVars
<1>17. HandOK' /\ LossesExplained'
  BY <1>2, <1>3 DEF HandOK, LossesExplained, channelVars, driverVars
<1>18. Filled' = Filled \cup S
  BY <1>2, <1>13 DEF Filled
<1> HIDE DEF S
<1>19. Spread(Place')
  <2>1. /\ Place'["pool"] = Place["pool"] \ S /\ Place'["fill"] = Place["fill"] \cup S
        /\ S \subseteq Place["pool"] /\ "pool" \in PlaceNames /\ "fill" \in PlaceNames
    BY <1>12, <1>18, PlaceIs DEF PlaceFacts, PlaceNames
  <2>2. \A k \in PlaceNames \ {"pool", "fill"} : Place'[k] = Place[k]
    BY <1>2, <1>16, PlaceIs DEF PlaceFacts, PlaceNames, channelVars, driverVars
  <2> QED
    BY <1>3, <2>1, <2>2, MoveFrames
<1> QED
  BY <1>14, <1>15, <1>16, <1>17, <1>19 DEF FramesInv

\* Types of the eight places, for use one by one.
LEMMA PlacesApart ==
  ASSUME Spread(Place)
  PROVE  /\ \A k \in PlaceNames : Place[k] \subseteq Frames
         /\ \A k, l \in PlaceNames : k # l => Place[k] \cap Place[l] = {}
  BY DEF Spread

\* A batch polled off the receive ring; the loop's hands were empty.
LEMMA PollStep == FramesInv /\ PollRx => FramesInv'
<1> SUFFICES ASSUME FramesInv, PollRx PROVE FramesInv'
  OBVIOUS
<1> USE PacketAssumption
<1> DEFINE n == Least(Ahead(seenProd', rxCons), RxBatch)
<1> DEFINE got == TakeSet(rxRing, rxCons, n)
<1>1. /\ lpc = "poll" /\ seenProd' = IF seenProd = rxCons THEN rxProd ELSE seenProd
      /\ rxCons' = (rxCons + n) % IndexMod /\ hand' = got
      /\ lpc' = IF got = {} THEN "top" ELSE "send"
      /\ UNCHANGED <<pool, fillVars, rxRing, rxProd, stopped, driverVars, channelVars>>
  BY DEF PollRx, TakeSet
<1>2. RingsTyped /\ FillOK /\ RxOK /\ HandOK /\ BatchesApart /\ LossesExplained /\ Spread(Place)
  BY DEF FramesInv
<1>3. rxProd \in Index /\ rxCons \in Index /\ seenProd \in Index /\ rxRing \in [Entries -> Contents]
  BY <1>2 DEF RingsTyped
<1>4. /\ seenProd' \in Index /\ Ahead(rxProd, rxCons) \in Nat /\ Ahead(seenProd', rxCons) \in Nat
      /\ Ahead(seenProd', rxCons) <= Ahead(rxProd, rxCons) /\ Ahead(rxProd, rxCons) <= RingSize
  <2>1. seenProd' \in {rxProd, seenProd}
    BY <1>1
  <2>2. Ahead(rxProd, rxCons) \in Index /\ Ahead(seenProd, rxCons) \in Index
    BY <1>3, AheadIs
  <2> QED
    BY <2>1, <2>2, <1>2, <1>3 DEF RxOK, Index
<1>5. n \in Nat /\ n <= Ahead(seenProd', rxCons)
  BY <1>4 DEF Least
<1> HIDE DEF n
<1>6. n <= Ahead(rxProd, rxCons)
  BY <1>4, <1>5
<1>7. /\ got \subseteq Received /\ Between(rxRing, rxCons', rxProd) = Received \ got
      /\ Distinct(rxRing, Live(rxProd, rxCons'))
  <2>1. Distinct(rxRing, Live(rxProd, rxCons))
    BY <1>2 DEF RxOK
  <2> QED
    BY <2>1, <1>1, <1>3, <1>4, <1>5, <1>6, TakeOut DEF Received
<1> HIDE DEF got
<1>8. Received' = Received \ got
  BY <1>1, <1>7 DEF Received
<1>9. /\ rxCons' \in Index /\ Ahead(rxProd, rxCons') = Ahead(rxProd, rxCons) - n
      /\ Ahead(seenProd', rxCons') = Ahead(seenProd', rxCons) - n
  BY <1>1, <1>3, <1>4, <1>5, <1>6, AheadShrinks
<1>10. RxOK'
  <2>1. Ahead(seenProd', rxCons') <= Ahead(rxProd, rxCons')
    BY <1>4, <1>5, <1>9
  <2>2. Ahead(rxProd, rxCons') <= RingSize
    BY <1>4, <1>5, <1>9
  <2> QED
    BY <2>1, <2>2, <1>1, <1>7 DEF RxOK
<1>11. RingsTyped'
  BY <1>1, <1>2, <1>4, <1>9 DEF RingsTyped, fillVars, driverVars, channelVars
<1>12. FillOK' /\ Filled' = Filled /\ BatchesApart' /\ InChannel' = InChannel
  BY <1>1, <1>2, FillStays, ChannelStays DEF channelVars
<1>13. HandOK' /\ LossesExplained'
  BY <1>1, <1>2 DEF HandOK, LossesExplained, channelVars, driverVars
<1>14. hand = {}
  BY <1>1, <1>2 DEF HandOK
<1>15. Spread(Place')
  <2>1. /\ Place'["rx"] = Place["rx"] \ got /\ Place'["hand"] = Place["hand"] \cup got
        /\ got \subseteq Place["rx"] /\ "rx" \in PlaceNames /\ "hand" \in PlaceNames
    BY <1>1, <1>7, <1>8, <1>14, PlaceIs DEF PlaceFacts, PlaceNames
  <2>2. \A k \in PlaceNames \ {"rx", "hand"} : Place'[k] = Place[k]
    BY <1>1, <1>12, PlaceIs DEF PlaceFacts, PlaceNames, channelVars, driverVars
  <2> QED
    BY <1>2, <2>1, <2>2, MoveFrames
<1> QED
  BY <1>10, <1>11, <1>12, <1>13, <1>15 DEF FramesInv

\* The driver takes the oldest entry of the fill ring.
LEMMA TakeFillStep == FramesInv /\ TakeFill => FramesInv'
<1> SUFFICES ASSUME FramesInv, TakeFill PROVE FramesInv'
  OBVIOUS
<1> USE PacketAssumption
<1> DEFINE f == fillRing[At(fillCons)]
<1>1. /\ fillCons # fillProd /\ nic' = nic \cup {f} /\ fillCons' = (fillCons + 1) % IndexMod
      /\ UNCHANGED <<lpc, pool, fillRing, fillProd, seenCons, rxVars, hand, stopped, needWakeup,
                     drowsy, badDescs, channelVars>>
  BY DEF TakeFill
<1>2. RingsTyped /\ FillOK /\ RxOK /\ HandOK /\ BatchesApart /\ LossesExplained /\ Spread(Place)
  BY DEF FramesInv
<1>3. /\ fillProd \in Index /\ fillCons \in Index /\ seenCons \in Index
      /\ fillRing \in [Entries -> Contents]
  BY <1>2 DEF RingsTyped
<1>4. /\ Ahead(fillProd, fillCons) \in Nat /\ Ahead(fillProd, seenCons) \in Nat
      /\ 1 <= Ahead(fillProd, fillCons) /\ Ahead(fillProd, fillCons) <= RingSize
  <2>1. /\ Ahead(fillProd, fillCons) \in Index /\ Ahead(fillProd, seenCons) \in Index
        /\ Ahead(fillProd, fillCons) # 0
    BY <1>1, <1>3, AheadIs
  <2> QED
    BY <2>1, <1>2 DEF FillOK, Index
<1>5. At(fillCons) \in Live(fillProd, fillCons)
  <2>1. 0 \in 0 .. Ahead(fillProd, fillCons) - 1 /\ fillCons + 0 = fillCons
    BY <1>3, <1>4 DEF Index
  <2> QED
    BY <2>1 DEF Live
<1>6. f \in Frames
  BY <1>2, <1>5 DEF FillOK
<1>7. TakeSet(fillRing, fillCons, 1) = {f}
  <2>1. 0 .. 1 - 1 = {0} /\ fillCons + 0 = fillCons
    BY <1>3 DEF Index
  <2>2. {fillRing[At(fillCons + i)] : i \in 0 .. 1 - 1} = {f}
    BY <2>1
  <2> QED
    BY <2>2, <1>6 DEF TakeSet
<1> HIDE DEF f
<1>8. /\ {f} \subseteq Filled /\ Between(fillRing, fillCons', fillProd) = Filled \ {f}
      /\ Distinct(fillRing, Live(fillProd, fillCons'))
      /\ Live(fillProd, fillCons') \subseteq Live(fillProd, fillCons)
  <2>1. Distinct(fillRing, Live(fillProd, fillCons)) /\ 1 \in Nat
    BY <1>2 DEF FillOK
  <2> QED
    BY <2>1, <1>1, <1>3, <1>4, <1>7, TakeOut DEF Filled
<1>9. Filled' = Filled \ {f}
  BY <1>1, <1>8 DEF Filled
<1>10. fillCons' \in Index /\ Ahead(fillProd, fillCons') = Ahead(fillProd, fillCons) - 1
  BY <1>1, <1>3, <1>4, AheadShrinks
<1>11. FillOK'
  <2>1. Ahead(fillProd, fillCons') <= Ahead(fillProd, seenCons)
    BY <1>2, <1>4, <1>10 DEF FillOK
  <2> QED
    BY <2>1, <1>1, <1>2, <1>8 DEF FillOK
<1>12. RingsTyped'
  BY <1>1, <1>2, <1>10 DEF RingsTyped, rxVars, channelVars
<1>13. RxOK' /\ Received' = Received /\ BatchesApart' /\ InChannel' = InChannel
  BY <1>1, <1>2, RxStays, ChannelStays DEF channelVars
<1>14. HandOK' /\ LossesExplained'
  BY <1>1, <1>2 DEF HandOK, LossesExplained, channelVars
<1>15. Spread(Place')
  <2>1. /\ Place'["fill"] = Place["fill"] \ {f} /\ Place'["nic"] = Place["nic"] \cup {f}
        /\ {f} \subseteq Place["fill"] /\ "fill" \in PlaceNames /\ "nic" \in PlaceNames
    BY <1>1, <1>8, <1>9, PlaceIs DEF PlaceFacts, PlaceNames
  <2>2. \A k \in PlaceNames \ {"fill", "nic"} : Place'[k] = Place[k]
    BY <1>1, <1>13, PlaceIs DEF PlaceFacts, PlaceNames, channelVars
  <2> QED
    BY <1>2, <2>1, <2>2, MoveFrames
<1> QED
  BY <1>11, <1>12, <1>13, <1>14, <1>15 DEF FramesInv

\* A packet arrives, or a descriptor out of bounds, whose frame is lost.
LEMMA DeliverStep == FramesInv /\ Deliver => FramesInv'
<1> SUFFICES ASSUME FramesInv, Deliver PROVE FramesInv'
  OBVIOUS
<1> USE PacketAssumption
<1>1. PICK f \in nic :
        /\ nic' = nic \ {f}
        /\ \/ rxRing' = [rxRing EXCEPT ![At(rxProd)] = f] /\ UNCHANGED <<badDescs, lost>>
           \/ /\ badDescs < MaxBad /\ badDescs' = badDescs + 1
              /\ rxRing' = [rxRing EXCEPT ![At(rxProd)] = NoFrame]
              /\ lost' = lost \cup {f}
  BY Zenon DEF Deliver
<1>2. /\ Ahead(rxProd, rxCons) < RingSize /\ rxProd' = (rxProd + 1) % IndexMod
      /\ UNCHANGED <<lpc, pool, fillVars, rxCons, seenProd, hand, stopped, needWakeup, drowsy,
                     channel, rented, hungUp>>
  BY DEF Deliver
<1>3. RingsTyped /\ FillOK /\ RxOK /\ HandOK /\ BatchesApart /\ LossesExplained /\ Spread(Place)
  BY DEF FramesInv
<1>4. /\ rxProd \in Index /\ rxCons \in Index /\ seenProd \in Index
      /\ rxRing \in [Entries -> Contents] /\ badDescs \in Nat
  BY <1>3 DEF RingsTyped
<1>5. f \in Frames /\ f # NoFrame /\ f \notin Received /\ f \notin lost /\ lost \subseteq Frames
  BY <1>3, PlacesApart, PlaceIs DEF PlaceFacts, PlaceNames
<1>6. At(rxProd) \in Entries /\ At(rxProd + 1 - 1) = At(rxProd)
  <2>1. rxProd \in Int /\ rxProd + 1 - 1 = rxProd
    BY <1>4 DEF Index
  <2> QED
    BY <2>1, AtIsEntry
<1>7. PICK x \in Contents :
        /\ rxRing' = [rxRing EXCEPT ![At(rxProd)] = x]
        /\ x \in {f, NoFrame}
        /\ x = f => UNCHANGED <<badDescs, lost>>
        /\ x = NoFrame => badDescs' = badDescs + 1 /\ lost' = lost \cup {f}
  <2>1. CASE rxRing' = [rxRing EXCEPT ![At(rxProd)] = f] /\ UNCHANGED <<badDescs, lost>>
    <3> f \in Contents
      BY <1>5 DEF Contents
    <3> WITNESS f \in Contents
    <3> QED
      BY <2>1, <1>5
  <2>2. CASE /\ badDescs' = badDescs + 1 /\ lost' = lost \cup {f}
             /\ rxRing' = [rxRing EXCEPT ![At(rxProd)] = NoFrame]
    <3> NoFrame \in Contents
      BY DEF Contents
    <3> WITNESS NoFrame \in Contents
    <3> QED
      BY <2>2, <1>5
  <2> QED
    BY <1>1, <2>1, <2>2
<1>8. /\ rxRing' \in [Entries -> Contents] /\ rxRing'[At(rxProd)] = x
      /\ \A e \in Entries : e # At(rxProd) => rxRing'[e] = rxRing[e]
  BY <1>4, <1>6, <1>7
<1>9. /\ Ahead(rxProd, rxCons) \in Nat /\ Ahead(seenProd, rxCons) \in Nat
      /\ Ahead(rxProd, rxCons) + 1 <= RingSize
  <2>1. Ahead(rxProd, rxCons) \in Index /\ Ahead(seenProd, rxCons) \in Index
    BY <1>4, AheadIs
  <2> QED
    BY <2>1, <1>2 DEF Index
<1> DEFINE new == {x} \ {NoFrame}
<1>10. /\ Between(rxRing', rxCons, rxProd') = Received \cup new
       /\ Distinct(rxRing', Live(rxProd', rxCons))
  <2>1. 1 .. 1 = {1}
    OBVIOUS
  <2>2. PutSet(rxRing', rxProd, 1) = new
    <3>1. {rxRing'[At(rxProd + i - 1)] : i \in 1 .. 1} = {x}
      BY <2>1, <1>6, <1>8
    <3> QED
      BY <3>1 DEF PutSet
  <2>3. PutApart(rxRing', rxProd, 1)
    BY <2>1 DEF PutApart
  <2>4. OthersKept(rxRing, rxRing', rxProd, 1)
    BY <2>1, <1>6, <1>8 DEF OthersKept
  <2>5. new \cap Between(rxRing, rxCons, rxProd) = {}
    BY <1>5, <1>7 DEF Received
  <2>6. Distinct(rxRing, Live(rxProd, rxCons)) /\ 1 \in Nat
    BY <1>3 DEF RxOK
  <2> HIDE DEF new
  <2> QED
    BY <2>2, <2>3, <2>4, <2>5, <2>6, <1>2, <1>4, <1>8, <1>9, PutIn DEF Received
<1>11. rxProd' \in Index /\ Ahead(rxProd', rxCons) = Ahead(rxProd, rxCons) + 1
  <2>1. Ahead(rxProd, rxCons) + 1 < IndexMod
    BY <1>9
  <2> QED
    BY <2>1, <1>2, <1>4, AheadGrows
<1>12. RxOK'
  <2>1. Ahead(seenProd, rxCons) <= Ahead(rxProd', rxCons)
    BY <1>3, <1>9, <1>11 DEF RxOK
  <2>2. Ahead(rxProd', rxCons) <= RingSize
    BY <1>9, <1>11
  <2> QED
    BY <2>1, <2>2, <1>2, <1>10 DEF RxOK
<1>13. RingsTyped'
  <2>1. badDescs' \in Nat
    BY <1>4, <1>7
  <2> QED
    BY <2>1, <1>2, <1>3, <1>8, <1>11 DEF RingsTyped, fillVars
<1>14. FillOK' /\ Filled' = Filled /\ BatchesApart' /\ InChannel' = InChannel
  BY <1>2, <1>3, FillStays, ChannelStays
<1>15. HandOK'
  BY <1>2, <1>3 DEF HandOK
<1>16. Received' = Received \cup new
  BY <1>2, <1>10 DEF Received
<1>17. LossesExplained'
  <2>1. CASE x = f
    BY <2>1, <1>2, <1>3, <1>7 DEF LossesExplained
  <2>2. CASE x = NoFrame
    <3>1. IsFiniteSet(lost)
      BY <1>5, FS_Subset
    <3>2. Cardinality(lost \cup {f}) = Cardinality(lost) + 1 /\ Cardinality(lost) \in Nat
      BY <3>1, <1>5, FS_AddElement, FS_CardinalityType
    <3>3. Cardinality(lost') = Cardinality(lost) + 1 /\ badDescs' = badDescs + 1
      BY <2>2, <3>2, <1>7
    <3>4. Cardinality(lost) <= badDescs => Cardinality(lost') <= badDescs'
      BY <3>2, <3>3, <1>4
    <3>5. hungUp' = hungUp
      BY <1>2
    <3> QED
      BY <3>4, <3>5, <1>3, Zenon DEF LossesExplained
  <2> QED
    BY <2>1, <2>2, <1>7
<1>18. Spread(Place')
  <2>1. CASE x = f
    <3>1. Received' = Received \cup {f}
      BY <2>1, <1>5, <1>16
    <3>2. /\ Place'["nic"] = Place["nic"] \ {f} /\ Place'["rx"] = Place["rx"] \cup {f}
          /\ {f} \subseteq Place["nic"] /\ "nic" \in PlaceNames /\ "rx" \in PlaceNames
      BY <3>1, <1>1, PlaceIs DEF PlaceFacts, PlaceNames
    <3>3. \A k \in PlaceNames \ {"nic", "rx"} : Place'[k] = Place[k]
      BY <2>1, <1>2, <1>7, <1>14, PlaceIs DEF PlaceFacts, PlaceNames
    <3> QED
      BY <1>3, <3>2, <3>3, MoveFrames
  <2>2. CASE x = NoFrame
    <3>1. Received' = Received
      BY <2>2, <1>16
    <3>2. /\ Place'["nic"] = Place["nic"] \ {f} /\ Place'["lost"] = Place["lost"] \cup {f}
          /\ {f} \subseteq Place["nic"] /\ "nic" \in PlaceNames /\ "lost" \in PlaceNames
      BY <2>2, <1>1, <1>7, PlaceIs DEF PlaceFacts, PlaceNames
    <3>3. \A k \in PlaceNames \ {"nic", "lost"} : Place'[k] = Place[k]
      BY <3>1, <1>2, <1>14, PlaceIs DEF PlaceFacts, PlaceNames
    <3> QED
      BY <1>3, <3>2, <3>3, MoveFrames
  <2> QED
    BY <2>1, <2>2, <1>7
<1> QED
  BY <1>12, <1>13, <1>14, <1>15, <1>17, <1>18 DEF FramesInv

\* The batch in hand goes into the channel, or back to the pool.
LEMMA SendStep == FramesInv /\ (SendBatch \/ GiveBack) => FramesInv'
<1> SUFFICES ASSUME FramesInv, SendBatch \/ GiveBack PROVE FramesInv'
  OBVIOUS
<1>1. RingsTyped /\ FillOK /\ RxOK /\ HandOK /\ BatchesApart /\ LossesExplained /\ Spread(Place)
  BY DEF FramesInv
<1>2. /\ hand' = {}
      /\ UNCHANGED <<fillVars, rxVars, stopped, driverVars, rented, hungUp, lost>>
  BY DEF SendBatch, GiveBack, channelVars
<1>3. FillOK' /\ RxOK' /\ Filled' = Filled /\ Received' = Received
  BY <1>1, <1>2, FillStays, RxStays
<1>4. HandOK' /\ LossesExplained'
  BY <1>1, <1>2 DEF HandOK, LossesExplained, driverVars
<1>5. channel \in Seq(SUBSET Frames) /\ hand \subseteq Frames
  BY <1>1, PlacesApart, PlaceIs DEF PlaceFacts, PlaceNames, RingsTyped
<1>6. CASE SendBatch
  <2>1. channel' = Append(channel, hand) /\ pool' = pool
    BY <1>6 DEF SendBatch
  <2>2. /\ channel' \in Seq(SUBSET Frames) /\ Len(channel') = Len(channel) + 1
        /\ channel'[Len(channel) + 1] = hand
        /\ \A i \in 1 .. Len(channel) : channel'[i] = channel[i]
        /\ Len(channel) \in Nat
    BY <2>1, <1>5
  <2>3. hand \cap InChannel = {}
    BY <1>1, PlacesApart, PlaceIs DEF PlaceFacts, PlaceNames
  <2>4. InChannel' = InChannel \cup hand
    <3>1. \A i \in 1 .. Len(channel') : i \in 1 .. Len(channel) \/ i = Len(channel) + 1
      BY <2>2
    <3>2. \A i \in 1 .. Len(channel) : i \in 1 .. Len(channel')
      BY <2>2
    <3>3. Len(channel) + 1 \in 1 .. Len(channel')
      BY <2>2
    <3> QED
      BY <2>2, <3>1, <3>2, <3>3 DEF InChannel
  <2>5. BatchesApart'
    <3> SUFFICES ASSUME NEW i \in 1 .. Len(channel'), NEW j \in 1 .. Len(channel'), i # j
                 PROVE  channel'[i] \cap channel'[j] = {}
      BY DEF BatchesApart
    <3>1. \A k \in 1 .. Len(channel) : channel[k] \cap hand = {}
      BY <2>3 DEF InChannel
    <3>2. CASE i \in 1 .. Len(channel) /\ j \in 1 .. Len(channel)
      BY <3>2, <2>2, <1>1 DEF BatchesApart
    <3>3. CASE i = Len(channel) + 1
      <4>1. j \in 1 .. Len(channel)
        BY <3>3, <2>2
      <4> QED
        BY <4>1, <3>1, <3>3, <2>2
    <3>4. CASE j = Len(channel) + 1
      <4>1. i \in 1 .. Len(channel)
        BY <3>4, <2>2
      <4> QED
        BY <4>1, <3>1, <3>4, <2>2
    <3> QED
      BY <3>2, <3>3, <3>4, <2>2
  <2>6. RingsTyped'
    BY <1>1, <1>2, <2>2 DEF RingsTyped, fillVars, rxVars, driverVars
  <2>7. Spread(Place')
    <3>1. /\ Place'["hand"] = Place["hand"] \ hand /\ Place'["channel"] = Place["channel"] \cup hand
          /\ hand \subseteq Place["hand"] /\ "hand" \in PlaceNames /\ "channel" \in PlaceNames
      BY <1>2, <2>4, PlaceIs DEF PlaceFacts, PlaceNames
    <3>2. \A k \in PlaceNames \ {"hand", "channel"} : Place'[k] = Place[k]
      BY <1>2, <1>3, <2>1, PlaceIs DEF PlaceFacts, PlaceNames, driverVars
    <3> QED
      BY <1>1, <3>1, <3>2, MoveFrames
  <2> QED
    BY <1>3, <1>4, <2>5, <2>6, <2>7 DEF FramesInv
<1>7. CASE GiveBack
  <2>1. channel' = channel /\ pool' = pool \cup hand
    BY <1>7 DEF GiveBack, channelVars
  <2>2. BatchesApart' /\ InChannel' = InChannel
    BY <1>1, <2>1, ChannelStays
  <2>3. RingsTyped'
    BY <1>1, <1>2, <2>1 DEF RingsTyped, fillVars, rxVars, driverVars
  <2>4. Spread(Place')
    <3>1. /\ Place'["hand"] = Place["hand"] \ hand /\ Place'["pool"] = Place["pool"] \cup hand
          /\ hand \subseteq Place["hand"] /\ "hand" \in PlaceNames /\ "pool" \in PlaceNames
      BY <1>2, <2>1, PlaceIs DEF PlaceFacts, PlaceNames
    <3>2. \A k \in PlaceNames \ {"hand", "pool"} : Place'[k] = Place[k]
      BY <1>2, <1>3, <2>2, PlaceIs DEF PlaceFacts, PlaceNames, driverVars
    <3> QED
      BY <1>1, <3>1, <3>2, MoveFrames
  <2> QED
    BY <1>3, <1>4, <2>2, <2>3, <2>4 DEF FramesInv
<1> QED
  BY <1>6, <1>7

\* The consumer takes a batch, releases a frame, or hangs up.
LEMMA ConsumerStepInv == FramesInv /\ ConsumerStep => FramesInv'
<1> SUFFICES ASSUME FramesInv, ConsumerStep PROVE FramesInv'
  OBVIOUS
<1>1. RingsTyped /\ FillOK /\ RxOK /\ HandOK /\ BatchesApart /\ LossesExplained /\ Spread(Place)
  BY DEF FramesInv
<1>2. UNCHANGED <<lpc, fillVars, rxVars, hand, stopped, driverVars>>
  BY DEF ConsumerStep, TakeBatch, Release, HangUp
<1>3. FillOK' /\ RxOK' /\ Filled' = Filled /\ Received' = Received /\ HandOK'
  BY <1>1, <1>2, FillStays, RxStays DEF HandOK
<1>4. channel \in Seq(SUBSET Frames)
  BY <1>1 DEF RingsTyped
<1>5. CASE TakeBatch
  <2> DEFINE b == Head(channel)
  <2>1. /\ channel # <<>> /\ channel' = Tail(channel) /\ rented' = rented \cup b
        /\ UNCHANGED <<pool, hungUp, lost>>
    BY <1>5 DEF TakeBatch
  <2>2. /\ channel' \in Seq(SUBSET Frames) /\ Len(channel) \in Nat \ {0}
        /\ Len(channel') = Len(channel) - 1 /\ b = channel[1]
        /\ \A i \in 1 .. Len(channel') : channel'[i] = channel[i + 1]
    BY <2>1, <1>4
  <2> HIDE DEF b
  <2>3. \A i \in 1 .. Len(channel') : i + 1 \in 1 .. Len(channel) /\ i + 1 # 1
    BY <2>2
  <2>4. BatchesApart'
    <3> SUFFICES ASSUME NEW i \in 1 .. Len(channel'), NEW j \in 1 .. Len(channel'), i # j
                 PROVE  channel'[i] \cap channel'[j] = {}
      BY DEF BatchesApart
    <3>1. i + 1 # j + 1
      OBVIOUS
    <3> QED
      BY <3>1, <2>2, <2>3, <1>1 DEF BatchesApart
  <2>5. InChannel' = InChannel \ b
    <3>1. 1 \in 1 .. Len(channel)
      BY <2>2
    <3>2. \A i \in 1 .. Len(channel') : channel'[i] \cap b = {} /\ channel'[i] \subseteq InChannel
      BY <3>1, <2>2, <2>3, <1>1 DEF BatchesApart, InChannel
    <3>3. ASSUME NEW f \in InChannel, f \notin b PROVE f \in InChannel'
      <4>1. PICK i \in 1 .. Len(channel) : f \in channel[i]
        BY <3>3 DEF InChannel
      <4>2. i # 1
        BY <4>1, <3>3, <2>2
      <4>3. i - 1 \in 1 .. Len(channel') /\ (i - 1) + 1 = i
        BY <4>2, <2>2
      <4>4. channel'[i - 1] = channel[i]
        BY <4>3, <2>2
      <4> QED
        BY <4>1, <4>3, <4>4 DEF InChannel
    <3>4. \A f \in InChannel' : f \in InChannel /\ f \notin b
      BY <3>2 DEF InChannel
    <3> QED
      BY <3>3, <3>4
  <2>6. b \subseteq InChannel
    BY <2>2 DEF InChannel
  <2>7. RingsTyped'
    BY <1>1, <1>2, <2>2 DEF RingsTyped, fillVars, rxVars, driverVars
  <2>8. LossesExplained'
    BY <1>1, <1>2, <2>1 DEF LossesExplained, driverVars
  <2>9. Spread(Place')
    <3>1. /\ Place'["channel"] = Place["channel"] \ b /\ Place'["rented"] = Place["rented"] \cup b
          /\ b \subseteq Place["channel"] /\ "channel" \in PlaceNames /\ "rented" \in PlaceNames
      BY <2>1, <2>5, <2>6, PlaceIs DEF PlaceFacts, PlaceNames
    <3>2. \A k \in PlaceNames \ {"channel", "rented"} : Place'[k] = Place[k]
      BY <1>2, <1>3, <2>1, PlaceIs DEF PlaceFacts, PlaceNames, driverVars
    <3> QED
      BY <1>1, <3>1, <3>2, MoveFrames
  <2> QED
    BY <1>3, <2>4, <2>7, <2>8, <2>9 DEF FramesInv
<1>6. CASE Release
  <2>1. PICK f \in rented : rented' = rented \ {f} /\ pool' = pool \cup {f}
    BY <1>6 DEF Release
  <2>2. UNCHANGED <<channel, hungUp, lost>>
    BY <1>6 DEF Release
  <2>3. BatchesApart' /\ InChannel' = InChannel
    BY <1>1, <2>2, ChannelStays
  <2>4. RingsTyped' /\ LossesExplained'
    BY <1>1, <1>2, <2>2 DEF RingsTyped, LossesExplained, fillVars, rxVars, driverVars
  <2>5. Spread(Place')
    <3>1. /\ Place'["rented"] = Place["rented"] \ {f} /\ Place'["pool"] = Place["pool"] \cup {f}
          /\ {f} \subseteq Place["rented"] /\ "rented" \in PlaceNames /\ "pool" \in PlaceNames
      BY <2>1, PlaceIs DEF PlaceFacts, PlaceNames
    <3>2. \A k \in PlaceNames \ {"rented", "pool"} : Place'[k] = Place[k]
      BY <1>2, <1>3, <2>2, <2>3, PlaceIs DEF PlaceFacts, PlaceNames, driverVars
    <3> QED
      BY <1>1, <3>1, <3>2, MoveFrames
  <2> QED
    BY <1>3, <2>3, <2>4, <2>5 DEF FramesInv
<1>7. CASE HangUp
  <2>1. /\ hungUp' = TRUE /\ lost' = lost \cup InChannel /\ channel' = <<>>
        /\ UNCHANGED <<pool, rented>>
    BY <1>7 DEF HangUp, InChannel
  <2>2. InChannel' = {} /\ BatchesApart'
    BY <2>1 DEF InChannel, BatchesApart
  <2>3. RingsTyped' /\ LossesExplained'
    BY <1>1, <1>2, <2>1 DEF RingsTyped, LossesExplained, fillVars, rxVars, driverVars
  <2>4. Spread(Place')
    <3>1. /\ Place'["channel"] = Place["channel"] \ InChannel
          /\ Place'["lost"] = Place["lost"] \cup InChannel
          /\ InChannel \subseteq Place["channel"]
          /\ "channel" \in PlaceNames /\ "lost" \in PlaceNames
      BY <2>1, <2>2, PlaceIs DEF PlaceFacts, PlaceNames
    <3>2. \A k \in PlaceNames \ {"channel", "lost"} : Place'[k] = Place[k]
      BY <1>2, <1>3, <2>1, PlaceIs DEF PlaceFacts, PlaceNames, driverVars
    <3> QED
      BY <1>1, <3>1, <3>2, MoveFrames
  <2> QED
    BY <1>3, <2>2, <2>3, <2>4 DEF FramesInv
<1> QED
  BY <1>5, <1>6, <1>7 DEF ConsumerStep

LEMMA FramesStepInv == FramesInv /\ [PacketNext]_kvars => FramesInv'
<1> SUFFICES ASSUME FramesInv, [PacketNext]_kvars PROVE FramesInv'
  OBVIOUS
<1>1. HandOK
  BY DEF FramesInv
<1>2. CASE Top \/ CheckFlag \/ Kick \/ RaiseStop \/ CatchUp \/ RaiseFlag \/ UNCHANGED kvars
  <2>1. /\ UNCHANGED <<pool, fillVars, rxVars, hand, channel, rented, lost, nic, badDescs>>
        /\ hungUp' = hungUp
    BY <1>2 DEF Top, CheckFlag, Kick, RaiseStop, CatchUp, RaiseFlag, kvars, fillVars, rxVars,
                driverVars, channelVars
  <2>2. hand # {} => lpc' = "send"
    BY <1>1, <1>2 DEF HandOK, Top, CheckFlag, Kick, RaiseStop, CatchUp, RaiseFlag, kvars
  <2> QED
    BY <2>1, <2>2, QuietStep
<1>3. CASE Refill
  BY <1>3, RefillStep
<1>4. CASE PollRx
  BY <1>4, PollStep
<1>5. CASE SendBatch \/ GiveBack
  BY <1>5, SendStep
<1>6. CASE ConsumerStep
  BY <1>6, ConsumerStepInv
<1>7. CASE TakeFill
  BY <1>7, TakeFillStep
<1>8. CASE Deliver
  BY <1>8, DeliverStep
<1> QED
  BY <1>2, <1>3, <1>4, <1>5, <1>6, <1>7, <1>8, Zenon DEF PacketNext, LoopStep, DriverStep

\* Every frame of the UMEM is in exactly one of the pool, the two rings, the
\* driver, the loop's hands, the channel and the consumer's, or lost for a
\* reason; and no ring is over-full, although the loop goes by cached indices
\* that wrap (ingest.rs, rings.rs).
THEOREM FramesConservedAlways == PacketSpec => []FramesConserved
<1>1. FramesInv => FramesConserved
  <2> SUFFICES ASSUME FramesInv PROVE FramesConserved
    OBVIOUS
  <2>1. Ahead(fillProd, fillCons) <= RingSize
    <3>1. /\ Ahead(fillProd, fillCons) \in Index /\ Ahead(fillProd, seenCons) \in Index
      BY AheadIs DEF FramesInv, RingsTyped
    <3> QED
      BY <3>1, PacketAssumption DEF FramesInv, FillOK, Index
  <2> QED
    BY <2>1, SpreadAddsUp DEF FramesInv, FramesConserved, RxOK, LossesExplained
<1> QED
  BY <1>1, FramesInitInv, FramesStepInv, PTL DEF PacketSpec
=============================================================================
