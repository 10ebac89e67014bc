------------------------------ MODULE FreeList ------------------------------
(***************************************************************************)
(* The lock-free index allocator of aether-mem (ring.rs, FreeList): a      *)
(* Treiber stack of slot indices whose head carries a tag against ABA.     *)
(* Every atomic access is a step of its own.  A slot that has been popped  *)
(* is marked leased only by the store after the CAS; a batch is released   *)
(* by linking it into a private chain and splicing it with one CAS.        *)
(***************************************************************************)
EXTENDS Integers, FiniteSets, Sequences

CONSTANTS SlotCount,
          Threads,
          TagMod,     \* 2^32: the tag wraps
          MaxBatch    \* bound: indices of one release_many

ASSUME FreeListAssumption ==
  SlotCount \in Nat \ {0} /\ TagMod \in Nat \ {0} /\ MaxBatch \in Nat

VARIABLES
  head,     \* index half of the head word
  headTag,  \* tag half
  next,     \* slot -> next free slot, EMPTY or LEASED
  pc,       \* thread -> idle, next, cas, again, mark (acquire); link, load, store, splice (release)
  seen,     \* thread -> the head word it loaded
  link,     \* thread -> the link it read
  todo,     \* thread -> indices it has still to link
  chain,    \* thread -> its private chain, first to last
  \* history
  free,     \* slots on the stack
  leased    \* slots some holder owns; a lease may pass to another thread

flvars == <<head, headTag, next, pc, seen, link, todo, chain, free, leased>>
localVars == <<seen, link, todo, chain>>

SlotIds == 0 .. SlotCount - 1
EMPTY == -1
LEASED == -2
NoHead == [index |-> EMPTY, tag |-> 0]

FreeListInit ==
  /\ head = 0 /\ headTag = 0
  /\ next = [i \in SlotIds |-> IF i + 1 < SlotCount THEN i + 1 ELSE EMPTY]
  /\ pc = [t \in Threads |-> "idle"]
  /\ seen = [t \in Threads |-> NoHead]
  /\ link = [t \in Threads |-> EMPTY]
  /\ todo = [t \in Threads |-> {}]
  /\ chain = [t \in Threads |-> <<>>]
  /\ free = SlotIds /\ leased = {}

\* Bound: the tag never comes full circle under a thread between its load of
\* the head and its CAS (2^32 operations of others in the code).
InWindow(t) == pc[t] \in {"next", "cas", "store", "splice"}
Tick(t) ==
  /\ headTag' = (headTag + 1) % TagMod
  /\ \A u \in Threads \ {t} : InWindow(u) => seen[u].tag # headTag'

\* Mutant of HeadIs: the CAS compares the index alone.
HeadIsUntagged(t) == seen[t].index = head

HeadIs(t) == seen[t] = [index |-> head, tag |-> headTag]

-----------------------------------------------------------------------------
(* acquire *)

\* An empty head returns None.
AcquireLoad(t) ==
  /\ pc[t] \in {"idle", "again"}
  /\ \/ /\ head # EMPTY
        /\ seen' = [seen EXCEPT ![t] = [index |-> head, tag |-> headTag]]
        /\ pc' = [pc EXCEPT ![t] = "next"]
     \/ /\ head = EMPTY /\ pc[t] = "again"
        /\ pc' = [pc EXCEPT ![t] = "idle"]
        /\ UNCHANGED seen
  /\ UNCHANGED <<head, headTag, next, link, todo, chain, free, leased>>

\* An index that is none would be out of bounds: LEASED never heads the list.
AcquireNext(t) ==
  /\ pc[t] = "next" /\ seen[t].index \in SlotIds
  /\ link' = [link EXCEPT ![t] = next[seen[t].index]]
  /\ pc' = [pc EXCEPT ![t] = "cas"]
  /\ UNCHANGED <<head, headTag, next, seen, todo, chain, free, leased>>

\* compare_exchange_weak may also fail for no reason; the head is loaded again.
AcquireCas(t) ==
  /\ pc[t] = "cas"
  /\ \/ /\ HeadIs(t)
        /\ Tick(t)
        /\ head' = link[t]
        /\ free' = free \ {seen[t].index}
        /\ pc' = [pc EXCEPT ![t] = "mark"]
        /\ UNCHANGED seen
     \/ /\ seen' = [seen EXCEPT ![t] = NoHead]
        /\ pc' = [pc EXCEPT ![t] = "again"]
        /\ UNCHANGED <<head, headTag, free>>
  /\ link' = [link EXCEPT ![t] = EMPTY]
  /\ UNCHANGED <<next, todo, chain, leased>>

AcquireMark(t) ==
  /\ pc[t] = "mark"
  /\ next' = [next EXCEPT ![seen[t].index] = LEASED]
  /\ leased' = leased \cup {seen[t].index}
  /\ seen' = [seen EXCEPT ![t] = NoHead]
  /\ pc' = [pc EXCEPT ![t] = "idle"]
  /\ UNCHANGED <<head, headTag, link, todo, chain, free>>

-----------------------------------------------------------------------------
(* release and release_many *)

\* A holder gives its indices back; they need not have been acquired by t.
BeginRelease(t) ==
  /\ pc[t] = "idle"
  /\ \E batch \in SUBSET leased :
       /\ batch # {} /\ Cardinality(batch) <= MaxBatch
       /\ todo' = [todo EXCEPT ![t] = batch]
       /\ leased' = leased \ batch
  /\ chain' = [chain EXCEPT ![t] = <<>>]
  /\ pc' = [pc EXCEPT ![t] = "link"]
  /\ UNCHANGED <<head, headTag, next, seen, link, free>>

\* Swap the link out (the code asserts that it said LEASED) and chain the index behind
\* the one before it.
LinkOne(t) ==
  /\ pc[t] = "link"
  /\ \E i \in todo[t] :
       /\ todo' = [todo EXCEPT ![t] = @ \ {i}]
       /\ chain' = [chain EXCEPT ![t] = Append(@, i)]
       /\ next' = [j \in SlotIds |->
                     IF j = i THEN EMPTY
                     ELSE IF chain[t] # <<>> /\ j = chain[t][Len(chain[t])] THEN i
                     ELSE next[j]]
       /\ pc' = [pc EXCEPT ![t] = IF todo[t] = {i} THEN "load" ELSE "link"]
  /\ UNCHANGED <<head, headTag, seen, link, free, leased>>

ReleaseLoad(t) ==
  /\ pc[t] = "load"
  /\ seen' = [seen EXCEPT ![t] = [index |-> head, tag |-> headTag]]
  /\ pc' = [pc EXCEPT ![t] = "store"]
  /\ UNCHANGED <<head, headTag, next, link, todo, chain, free, leased>>

ReleaseStore(t) ==
  /\ pc[t] = "store"
  /\ next' = [next EXCEPT ![chain[t][Len(chain[t])]] = seen[t].index]
  /\ pc' = [pc EXCEPT ![t] = "splice"]
  /\ UNCHANGED <<head, headTag, localVars, free, leased>>

Splice(t) ==
  /\ pc[t] = "splice"
  /\ \/ /\ HeadIs(t)
        /\ Tick(t)
        /\ head' = chain[t][1]
        /\ free' = free \cup {chain[t][i] : i \in 1 .. Len(chain[t])}
        /\ chain' = [chain EXCEPT ![t] = <<>>]
        /\ pc' = [pc EXCEPT ![t] = "idle"]
     \/ /\ pc' = [pc EXCEPT ![t] = "load"]
        /\ UNCHANGED <<head, headTag, chain, free>>
  /\ seen' = [seen EXCEPT ![t] = NoHead]
  /\ UNCHANGED <<next, link, todo, leased>>

-----------------------------------------------------------------------------
FreeListStep(t) ==
  \/ AcquireLoad(t) \/ AcquireNext(t) \/ AcquireCas(t) \/ AcquireMark(t)
  \/ BeginRelease(t) \/ LinkOne(t) \/ ReleaseLoad(t) \/ ReleaseStore(t) \/ Splice(t)
FreeListNext == \E t \in Threads : FreeListStep(t)
FreeListSpec == FreeListInit /\ [][FreeListNext]_flvars

-----------------------------------------------------------------------------
\* The slots a thread has taken off the stack, or out of its holder's hands,
\* and not yet passed on.
InHand(t) ==
  (IF pc[t] = "mark" THEN {seen[t].index} ELSE {})
    \cup todo[t] \cup {chain[t][i] : i \in 1 .. Len(chain[t])}

\* A slot is in one place: on the stack, with one holder, or in the hands of
\* one thread.  A popped slot is nobody else's although its link is not yet
\* marked (ring.rs, acquire), whatever a stalled CAS believes; and a slot that
\* is held, or about to be linked, carries the mark, so that the assertion of
\* release_many never fires on a legal release.
OnePlace ==
  /\ free \cap leased = {}
  /\ \A t \in Threads :
       /\ InHand(t) \cap (free \cup leased) = {}
       /\ \A u \in Threads \ {t} : InHand(t) \cap InHand(u) = {}
       /\ \A i \in leased \cup todo[t] : next[i] = LEASED
=============================================================================
