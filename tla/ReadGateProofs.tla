--------------------------- MODULE ReadGateProofs ---------------------------
(***************************************************************************)
(* What readers rely on: the grace period of the reader gate, for every    *)
(* number of readers and stripes and every assignment of readers to        *)
(* stripes, and the failure flag of a paged region, for every number of    *)
(* pages and readers and every budget, and the budget itself.              *)
(***************************************************************************)
EXTENDS ReadGateGrace, PagedRegion, FiniteSetTheorems, SequenceTheorems, WellFoundedInduction, TLAPS

\* The gate's state keeps its types under every step of readers and writer.
LEMMA GraceTyping == GraceInit => GraceTypeOK
<1>1. GraceInit => togo \in 0..2
  BY DEF GraceInit
<1>2. GraceInit => TypeOK /\ holders \subseteq Readers /\ fenced \in BOOLEAN
  BY Zenon DEF GraceInit, Init, TypeOK, Bit
<1> QED
  BY <1>1, <1>2 DEF GraceTypeOK

LEMMA GraceInitInv == GraceInit => GraceInv
  BY GraceTyping DEF GraceInit, GraceInv, GracePeriod, Init

LEMMA GraceStepType == GraceTypeOK /\ [GraceNext]_allVars => GraceTypeOK'
<1> SUFFICES ASSUME GraceTypeOK, [GraceNext]_allVars PROVE GraceTypeOK'
  OBVIOUS
<1> USE DEF GraceTypeOK, TypeOK, Bit, readerVars, writerVars, graceVars, vars
<1>1. CASE Stamp
  <2>1. togo' \in 0..2
    BY <1>1 DEF Stamp
  <2> QED
    BY <1>1, <2>1, Zenon DEF Stamp
<1>2. ASSUME NEW r \in Readers, Steer(r), UNCHANGED graceVars
      PROVE  GraceTypeOK'
  BY <1>2 DEF Steer
<1>3. ASSUME NEW r \in Readers, GraceEnter(r) PROVE GraceTypeOK'
  BY <1>3 DEF GraceEnter, Enter
<1>4. ASSUME NEW r \in Readers, GraceLeave(r) PROVE GraceTypeOK'
  BY <1>4 DEF GraceLeave, Leave
<1>5. CASE GraceBeginAdvance
  BY <1>5 DEF GraceBeginAdvance, BeginAdvance
<1>6. ASSUME NEW st \in Stripes, ScanEmpty(st), UNCHANGED graceVars
      PROVE  GraceTypeOK'
  BY <1>6 DEF ScanEmpty
<1>7. ASSUME NEW st \in Stripes, ScanOccupied(st), UNCHANGED graceVars
      PROVE  GraceTypeOK'
  BY <1>7 DEF ScanOccupied
<1>8. CASE GraceStorePhase
  <2>1. togo' \in 0..2 /\ phaseBit' \in Bit
    BY <1>8 DEF GraceStorePhase, StorePhase, NextBucket
  <2>2. pass' \in Bit /\ unread' \subseteq Stripes
    BY <1>8 DEF GraceStorePhase, StorePhase
  <2>3. stale' \in BOOLEAN /\ scanning' \in BOOLEAN
    BY <1>8, Zenon DEF GraceStorePhase, StorePhase
  <2> QED
    BY <1>8, <2>1, <2>2, <2>3, Zenon DEF GraceStorePhase, StorePhase
<1>9. CASE PhaseVisible /\ UNCHANGED graceVars
  BY <1>9 DEF PhaseVisible
<1>10. CASE UNCHANGED allVars
  BY <1>10 DEF allVars
<1> QED
  BY <1>1, <1>2, <1>3, <1>4, <1>5, <1>6, <1>7, <1>8, <1>9, <1>10
  DEF GraceNext, GraceAdvance

\* Every step of readers and writer preserves the inductive invariant.
LEMMA GraceStep == GraceInv /\ [GraceNext]_allVars => GraceInv'
<1> SUFFICES ASSUME GraceInv, [GraceNext]_allVars PROVE GraceInv'
  OBVIOUS
<1>0. GraceTypeOK'
  BY GraceStepType DEF GraceInv
<1> USE <1>0, StripeAssumption
    DEF GraceInv, GraceTypeOK, TypeOK, Bit, GracePeriod, NextBucket,
        readerVars, writerVars, graceVars, vars
<1>1. CASE Stamp
  BY <1>1 DEF Stamp
<1>2. ASSUME NEW r \in Readers, Steer(r), UNCHANGED graceVars
      PROVE  GraceInv'
  BY <1>2 DEF Steer
<1>3. ASSUME NEW r \in Readers, GraceEnter(r) PROVE GraceInv'
  BY <1>3 DEF GraceEnter, Enter
<1>4. ASSUME NEW r \in Readers, GraceLeave(r) PROVE GraceInv'
  BY <1>4 DEF GraceLeave, Leave
<1>5. CASE GraceBeginAdvance
  BY <1>5 DEF GraceBeginAdvance, BeginAdvance
<1>6. ASSUME NEW st \in Stripes, ScanEmpty(st), UNCHANGED graceVars
      PROVE  GraceInv'
  BY <1>6 DEF ScanEmpty, Occupied
<1>7. ASSUME NEW st \in Stripes, ScanOccupied(st), UNCHANGED graceVars
      PROVE  GraceInv'
  BY <1>7 DEF ScanOccupied
<1>8. CASE GraceStorePhase
  <2>1. scanning /\ fenced /\ unread = {} /\ phaseBit' = 1 - phaseBit
        /\ holders' = holders /\ bucket' = bucket /\ rpc' = rpc
        /\ fenced' = fenced
    BY <1>8 DEF GraceStorePhase, StorePhase
  <2>2. \A r \in holders : bucket[r] = phaseBit
    BY <2>1
  <2>3. togo # 2 => holders = {}
    BY <2>2
  <2>4. togo' = 1 => togo = 2
    BY <1>8 DEF GraceStorePhase
  <2>5. togo' = 0 => holders = {}
    BY <1>8, <2>3 DEF GraceStorePhase
  <2>6. \A r \in holders' : bucket'[r] = 1 - phaseBit'
    BY <2>1, <2>2
  <2>7. scanning' => unread' = Stripes
    BY <1>8 DEF GraceStorePhase, StorePhase
  <2> QED
    BY <2>1, <2>5, <2>6, <2>7
<1>9. CASE PhaseVisible /\ UNCHANGED graceVars
  BY <1>9 DEF PhaseVisible
<1>10. CASE UNCHANGED allVars
  BY <1>10 DEF allVars
<1> QED
  BY <1>1, <1>2, <1>3, <1>4, <1>5, <1>6, <1>7, <1>8, <1>9, <1>10
  DEF GraceNext, GraceAdvance

\* The strengthened invariant holds of every behaviour of the gate.
THEOREM GraceInvariance == GraceSpec => []GraceInv
  BY GraceInitInv, GraceStep, PTL DEF GraceSpec

\* Type correctness of the gate together with the stamped batch.
THEOREM GraceTypeCorrect == GraceSpec => []GraceTypeOK
<1>1. GraceInv => GraceTypeOK
  BY DEF GraceInv
<1> QED
  BY <1>1, GraceInvariance, PTL

\* The gate's promise to the recycler: once a batch's grace phase is reached
\* no reader inside the gate can hold one of its slots, so reclaim_ready may
\* thread them onto the free list.
THEOREM GracePeriodHolds == GraceSpec => []GracePeriod
<1>1. GraceInv => GracePeriod
  BY DEF GraceInv
<1> QED
  BY <1>1, GraceInvariance, PTL

-----------------------------------------------------------------------------
(* The pager: a zero page is seen only after the failure is on record.      *)

GaveUp == {"zero", "release", "exit"}

\* Everything a zero can be read from: an installed zero page, the kernel's own
\* filling once the region is released, a pager on its way to either.
ZerosFollowFailure ==
  ~failed => /\ registered /\ pagerAt \notin GaveUp
             /\ \A p \in PageNos : mapped[p] # "zero"
             /\ \A t \in PagedReaders : ~sawZero[t]

PagerTypes ==
  /\ mapped \in [PageNos -> {"none", "data", "zero"}] /\ registered \in BOOLEAN
  /\ failed \in BOOLEAN /\ sawZero \in [PagedReaders -> BOOLEAN] /\ misread \in BOOLEAN
  /\ wants \in [PagedReaders -> SUBSET PageNos]

ZeroInv == PagerTypes /\ ZerosFollowFailure /\ CheckedIsData

LEMMA PagerTypesStep == PagerTypes /\ [PagerNext]_uvars => PagerTypes'
<1> SUFFICES ASSUME PagerTypes, [PagerNext]_uvars PROVE PagerTypes'
  OBVIOUS
<1> USE DEF PagerTypes, pagedVars, recordVars
<1>1. ASSUME NEW t \in PagedReaders, Access(t) PROVE PagerTypes'
  <2>1. \A a \in AccessSets : a \subseteq PageNos
    <3>1. NumPages \in Nat
      BY PagerAssumption
    <3>2. \A p \in PageNos : {p} \subseteq PageNos
      OBVIOUS
    <3>3. \A p \in 0 .. NumPages - 2 : {p, p + 1} \subseteq PageNos
      BY <3>1 DEF PageNos
    <3>4. ASSUME NEW a \in AccessSets PROVE a \subseteq PageNos
      <4>1. \/ \E p \in PageNos : a = {p}
            \/ \E p \in 0 .. NumPages - 2 : a = {p, p + 1}
        BY DEF AccessSets
      <4> QED
        BY <3>2, <3>3, <4>1
    <3> QED
      BY <3>4
  <2>2. wants' \in [PagedReaders -> SUBSET PageNos]
    BY <1>1, <2>1 DEF Access
  <2> QED
    BY <1>1, <2>2, Zenon DEF Access
<1>2. ASSUME NEW t \in PagedReaders, TouchPages(t) PROVE PagerTypes'
  BY <1>2, Zenon DEF TouchPages
<1>3. ASSUME NEW t \in PagedReaders, CheckRegion(t) PROVE PagerTypes'
  BY <1>3, Zenon DEF CheckRegion
<1>4. CASE PollFault
  BY <1>4, Zenon DEF PollFault
<1>5. CASE Evict
  BY <1>5, Zenon DEF Evict
<1>6. CASE FillPage
  BY <1>6, Zenon DEF FillPage
<1>7. CASE CopyPage
  BY <1>7, Zenon DEF CopyPage, Install
<1>8. CASE FailRegion
  BY <1>8, Zenon DEF FailRegion
<1>9. CASE ZeroPage
  BY <1>9, Zenon DEF ZeroPage, Install
<1>10. CASE WakeAndRelease
  BY <1>10, Zenon DEF WakeAndRelease
<1>11. CASE UNCHANGED uvars
  BY <1>11, Zenon DEF uvars
<1> QED
  BY <1>1, <1>2, <1>3, <1>4, <1>5, <1>6, <1>7, <1>8, <1>9, <1>10, <1>11, Zenon
  DEF PagerNext, PagerStep, PagedStep

LEMMA ZeroStep == ZeroInv /\ [PagerNext]_uvars => ZeroInv'
<1> SUFFICES ASSUME ZeroInv, [PagerNext]_uvars PROVE ZeroInv'
  OBVIOUS
<1>t. PagerTypes /\ PagerTypes'
  BY PagerTypesStep DEF ZeroInv
<1>z. /\ failed \/ (registered /\ pagerAt \notin GaveUp)
      /\ failed \/ \A p \in PageNos : mapped[p] # "zero"
      /\ failed \/ \A t \in PagedReaders : ~sawZero[t]
      /\ ~misread
  BY Zenon DEF ZeroInv, ZerosFollowFailure, CheckedIsData
<1> DEFINE Goal == /\ failed' \/ (registered' /\ pagerAt' \notin GaveUp)
                   /\ failed' \/ \A p \in PageNos : mapped'[p] # "zero"
                   /\ failed' \/ \A t \in PagedReaders : ~sawZero'[t]
                   /\ ~misread'
<1> SUFFICES Goal
  BY <1>t, Zenon DEF ZeroInv, ZerosFollowFailure, CheckedIsData
<1> USE DEF recordVars, pagedVars
<1>1. ASSUME NEW t \in PagedReaders, Access(t) PROVE Goal
  BY <1>1, <1>z, Zenon DEF Access
<1>2. ASSUME NEW t \in PagedReaders, TouchPages(t) PROVE Goal
  <2>1. UNCHANGED <<registered, pagerAt, failed, misread>>
    BY <1>2, Zenon DEF TouchPages
  <2>2. CASE failed
    BY <1>z, <2>1, <2>2, Zenon
  <2>3. CASE ~failed
    <3>1. CASE UNCHANGED <<mapped, readerAt, sawZero>>
      BY <1>z, <2>1, <3>1, Zenon
    <3>2. ASSUME ~(UNCHANGED <<mapped, readerAt, sawZero>>)
          PROVE  /\ mapped' = mapped
                 /\ sawZero' = [sawZero EXCEPT ![t] = \E p \in wants[t] : mapped'[p] = "zero"]
      <4> DEFINE absent == {p \in wants[t] : mapped[p] = "none"}
      <4>1. /\ absent = {}
            /\ mapped' = [p \in PageNos |-> IF p \in absent THEN "zero" ELSE mapped[p]]
            /\ sawZero' = [sawZero EXCEPT ![t] = \E p \in wants[t] : mapped'[p] = "zero"]
        BY <1>2, <1>z, <2>3, <3>2, Zenon DEF TouchPages
      <4>2. mapped' = mapped
        BY <1>t, <4>1 DEF PagerTypes
      <4> QED
        BY <4>1, <4>2
    <3>3. ASSUME mapped' = mapped,
                 sawZero' = [sawZero EXCEPT ![t] = \E p \in wants[t] : mapped'[p] = "zero"]
          PROVE  Goal
      <4>1. ~(\E p \in wants[t] : mapped'[p] = "zero")
        BY <1>t, <1>z, <2>3, <3>3 DEF PagerTypes
      <4>2. \A u \in PagedReaders : ~sawZero'[u]
        BY <1>t, <1>z, <2>3, <3>3, <4>1, Zenon DEF PagerTypes
      <4> QED
        BY <1>z, <2>1, <3>3, <4>2, Zenon
    <3> QED
      BY <3>1, <3>2, <3>3, Zenon
  <2> QED
    BY <2>2, <2>3
<1>3. ASSUME NEW t \in PagedReaders, CheckRegion(t) PROVE Goal
  <2>1. /\ UNCHANGED <<mapped, registered, pagerAt, failed>>
        /\ misread' = (misread \/ (sawZero[t] /\ ~failed))
        /\ sawZero' = [sawZero EXCEPT ![t] = FALSE]
    BY <1>3, Zenon DEF CheckRegion
  <2>2. failed \/ \A u \in PagedReaders : ~sawZero'[u]
    BY <1>t, <1>z, <2>1, Zenon DEF PagerTypes
  <2> QED
    BY <1>z, <2>1, <2>2, Zenon
<1>4. CASE PollFault
  BY <1>4, <1>z, Zenon DEF PollFault, GaveUp
<1>5. CASE Evict
  <2>1. UNCHANGED <<registered, failed, sawZero, misread>> /\ pagerAt' \in {"evict", "fill", "fail"}
    BY <1>5, Zenon DEF Evict
  <2>2. mapped' = mapped \/ \E v : mapped' = [mapped EXCEPT ![v] = "none"]
    BY <1>5, Zenon DEF Evict
  <2>3. failed \/ \A p \in PageNos : mapped'[p] # "zero"
    BY <1>t, <1>z, <2>2 DEF PagerTypes
  <2>4. pagerAt' \notin GaveUp
    BY <2>1 DEF GaveUp
  <2> QED
    BY <1>z, <2>1, <2>3, <2>4, Zenon
<1>6. CASE FillPage
  <2>1. UNCHANGED <<mapped, registered, failed, sawZero, misread>> /\ pagerAt' \in {"copy", "fail"}
    BY <1>6, Zenon DEF FillPage
  <2>2. pagerAt' \notin GaveUp
    BY <2>1 DEF GaveUp
  <2> QED
    BY <1>z, <2>1, <2>2, Zenon
<1>7. CASE CopyPage
  <2>1. UNCHANGED <<registered, failed, sawZero, misread>> /\ pagerAt' \in {"poll", "fail"}
    BY <1>7, Zenon DEF CopyPage, Install
  <2>2. \/ mapped' = mapped
        \/ mapped' = [mapped EXCEPT ![fault] = IF @ = "none" THEN "data" ELSE @]
    BY <1>7, Zenon DEF CopyPage, Install
  <2>3. failed \/ \A p \in PageNos : mapped'[p] # "zero"
    BY <1>t, <1>z, <2>2 DEF PagerTypes
  <2>4. pagerAt' \notin GaveUp
    BY <2>1 DEF GaveUp
  <2> QED
    BY <1>z, <2>1, <2>3, <2>4, Zenon
<1>8. CASE FailRegion
  BY <1>8, <1>z, Zenon DEF FailRegion
<1>9. CASE ZeroPage
  <2>1. failed' /\ misread' = misread
    BY <1>9, <1>z, Zenon DEF ZeroPage, GaveUp
  <2> QED
    BY <1>z, <2>1, Zenon
<1>10. CASE WakeAndRelease
  <2>1. failed' /\ misread' = misread
    BY <1>10, <1>z, Zenon DEF WakeAndRelease, GaveUp
  <2> QED
    BY <1>z, <2>1, Zenon
<1>11. CASE UNCHANGED uvars
  BY <1>11, <1>z, Zenon DEF uvars
<1> HIDE DEF Goal
<1> QED
  BY <1>1, <1>2, <1>3, <1>4, <1>5, <1>6, <1>7, <1>8, <1>9, <1>10, <1>11, Zenon
  DEF PagerNext, PagerStep, PagedStep, ZeroInv

\* A copy whose check passes holds the source's contents, for any pages,
\* readers, weights and budget (uffd.rs, PagerHealth and run): what a zero can
\* come from is preceded by the record of the failure.
THEOREM CheckedIsDataAlways == PagerSpec => []CheckedIsData
<1>1. PagerInit => ZeroInv
  <2> SUFFICES ASSUME PagerInit PROVE ZeroInv
    OBVIOUS
  <2>1. mapped \in [PageNos -> {"none", "data", "zero"}] /\ wants \in [PagedReaders -> SUBSET PageNos]
    BY DEF PagerInit
  <2>2. /\ sawZero \in [PagedReaders -> BOOLEAN] /\ \A t \in PagedReaders : ~sawZero[t]
        /\ registered \in BOOLEAN /\ failed \in BOOLEAN /\ misread \in BOOLEAN
        /\ registered /\ ~misread
    BY Zenon DEF PagerInit
  <2>3. pagerAt \notin GaveUp /\ \A p \in PageNos : mapped[p] # "zero"
    BY DEF PagerInit, GaveUp
  <2> QED
    BY <2>1, <2>2, <2>3, Zenon DEF ZeroInv, PagerTypes, ZerosFollowFailure, CheckedIsData
<1>2. ZeroInv => CheckedIsData
  BY DEF ZeroInv
<1> QED
  BY <1>1, <1>2, ZeroStep, PTL DEF PagerSpec

-----------------------------------------------------------------------------
(* The pager's budget. *)

PagerSound == ~failed /\ pagerAt # "fail"

\* The pager's record: all that is mapped is on it, each with an entry of the
\* queue, and within the budget; the recent installs leave room for a victim.
BudgetTypes ==
  /\ events \in Seq(PageNos) /\ recent \in Seq(PageNos) /\ Len(recent) <= Protect
  /\ resident \subseteq PageNos /\ evictQueue \in [PageNos -> Nat]
  /\ mapped = [p \in PageNos |-> mapped[p]] /\ wants \in [PagedReaders -> SUBSET PageNos]
  /\ pagerAt \in {"poll", "evict", "fill", "copy", "fail", "zero", "release", "exit"}
  /\ pagerAt \in {"evict", "fill", "copy", "fail", "zero"} => fault \in PageNos

OnRecord ==
  PagerSound =>
    /\ registered /\ pagerAt \in {"poll", "evict", "fill", "copy"}
    /\ \A p \in PageNos : mapped[p] # "none" => p \in resident
    /\ \A p \in resident : evictQueue[p] > 0
    /\ Cardinality(resident) <= Budget
    /\ pagerAt = "fill" => fault \in resident \/ Cardinality(resident) < Budget
    /\ pagerAt = "copy" => fault \in resident

BudgetInv == BudgetTypes /\ OnRecord

LEMMA PagesFinite == IsFiniteSet(PageNos)
<1>1. 0 \in Int /\ NumPages - 1 \in Int
  BY PagerAssumption
<1> QED
  BY <1>1, FS_Interval DEF PageNos

LEMMA ResidentFinite ==
  ASSUME NEW S, S \subseteq PageNos
  PROVE  IsFiniteSet(S) /\ Cardinality(S) \in Nat
  BY PagesFinite, FS_Subset, FS_CardinalityType

LEMMA MaxOfTwo ==
  ASSUME NEW a \in Int, NEW b \in Int
  PROVE  Max({a, b}) = IF a >= b THEN a ELSE b
  BY DEF Max

LEMMA MinOfTwo ==
  ASSUME NEW a \in Int, NEW b \in Int
  PROVE  Min({a, b}) = IF a <= b THEN a ELSE b
  BY DEF Min

\* Fewer recent installs are protected than the budget holds.
LEMMA ProtectSmall == Protect \in Nat \ {0} /\ Protect < Budget
<1>1. Budget \in Nat /\ Budget >= 2
  BY PagerAssumption
<1>2. Budget \div 2 \in Nat /\ Budget \div 2 >= 1 /\ Budget \div 2 < Budget
  BY <1>1
<1>3. Max({Budget \div 2, 1}) = Budget \div 2
  BY <1>2, MaxOfTwo
<1>4. Protect = Min({Budget \div 2, 64})
  BY <1>3, Zenon DEF Protect
<1>5. Budget \div 2 \in Int /\ 64 \in Int
  BY <1>2
<1>6. Min({Budget \div 2, 64}) = IF Budget \div 2 <= 64 THEN Budget \div 2 ELSE 64
  BY <1>5, MinOfTwo, Zenon
<1> QED
  BY <1>1, <1>2, <1>4, <1>6

\* A least element of a set of naturals.
LEMMA LeastOf ==
  ASSUME NEW S \in SUBSET Nat, S # {}
  PROVE  \E k \in S : \A j \in S : k <= j
<1>1. IsWellFoundedOn(OpToRel(<, Nat), Nat)
  BY NatLessThanWellFounded
<1>2. PICK k \in S : \A j \in S : ~(<<j, k>> \in OpToRel(<, Nat))
  BY <1>1, WFMin
<1>3. ASSUME NEW j \in S PROVE k <= j
  <2>1. j \in Nat /\ k \in Nat
    OBVIOUS
  <2>2. j < k => <<j, k>> \in OpToRel(<, Nat)
    BY <2>1 DEF OpToRel
  <2>3. ~(j < k)
    BY <1>2, <2>2, Zenon
  <2> QED
    BY <2>1, <2>3
<1> QED
  BY <1>3

\* The queue's order has a first page.
LEMMA LowestIn ==
  ASSUME NEW S \in SUBSET PageNos, S # {}
  PROVE  Lowest(S) \in S
<1>1. \A p \in S : PageWeight[p] \in Nat /\ p \in Nat
  BY PagerAssumption DEF PageNos
<1> DEFINE weights == {PageWeight[p] : p \in S}
<1>2. weights \in SUBSET Nat /\ weights # {}
  BY <1>1
<1>3. PICK w \in weights : \A v \in weights : w <= v
  BY <1>2, LeastOf
<1> DEFINE light == {p \in S : PageWeight[p] = w}
<1>4. light \in SUBSET Nat /\ light # {}
  BY <1>1
<1>5. PICK p \in light : \A q \in light : p <= q
  BY <1>4, LeastOf
<1>6. ASSUME NEW q \in S \ {p} PROVE Before(p, q)
  <2>1. p \in Nat /\ q \in Nat /\ PageWeight[p] = w /\ PageWeight[q] \in Nat /\ w \in Nat
    BY <1>1, <1>2, <1>5
  <2>2. w <= PageWeight[q]
    BY <1>3
  <2>3. PageWeight[q] = w => p <= q
    BY <1>5
  <2> QED
    BY <2>1, <2>2, <2>3 DEF Before
<1>7. p \in S /\ \A q \in S \ {p} : Before(p, q)
  BY <1>5, <1>6
<1> QED
  BY <1>7, Zenon DEF Lowest

\* What is left of a sequence of pages is a sequence of pages.
LEMMA WithoutPages ==
  ASSUME NEW s \in Seq(PageNos), NEW e, NEW left \in Without(s, e)
  PROVE  left \in Seq(PageNos)
<1> DEFINE others == {i \in DOMAIN s : s[i] # e}
<1>1. PICK from \in [1 .. Cardinality(others) -> others] : left = [i \in DOMAIN from |-> s[from[i]]]
  BY DEF Without
<1>2. DOMAIN from = 1 .. Cardinality(others) /\ \A i \in DOMAIN from : s[from[i]] \in PageNos
  OBVIOUS
<1>3. Cardinality(others) \in Nat
  <2>1. IsFiniteSet(1 .. Len(s))
    BY FS_Interval
  <2>2. others \in SUBSET (1 .. Len(s))
    OBVIOUS
  <2> QED
    BY <2>1, <2>2, FS_Subset, FS_CardinalityType
<1> HIDE DEF others
<1> QED
  BY <1>1, <1>2, <1>3

\* A set of a sequence's entries is no larger than the sequence.
LEMMA EntriesCount ==
  ASSUME NEW s \in Seq(PageNos)
  PROVE  IsFiniteSet(ToSet(s)) /\ Cardinality(ToSet(s)) <= Len(s)
<1>1. s \in Surjection(1 .. Len(s), ToSet(s))
  BY DEF Surjection, ToSet
<1>2. IsFiniteSet(1 .. Len(s)) /\ Cardinality(1 .. Len(s)) = Len(s)
  <2>1. Len(s) \in Nat /\ 1 \in Int /\ Len(s) \in Int
    OBVIOUS
  <2> QED
    BY <2>1, FS_Interval
<1> QED
  BY <1>1, <1>2, FS_Surjection

\* If nothing can be evicted at the limit, the page is on the record already.
LEMMA NoCandidate ==
  ASSUME BudgetTypes, \A p \in resident : evictQueue[p] > 0,
         Cardinality(resident) >= Budget, Candidates = {}
  PROVE  fault \in resident
<1> SUFFICES ASSUME fault \notin resident PROVE FALSE
  OBVIOUS
<1>1. resident \subseteq ToSet(recent)
  BY DEF Candidates
<1>2. IsFiniteSet(ToSet(recent)) /\ Cardinality(ToSet(recent)) <= Len(recent)
      /\ Len(recent) \in Nat /\ Len(recent) <= Protect
  BY EntriesCount DEF BudgetTypes
<1>3. Cardinality(resident) <= Cardinality(ToSet(recent))
  BY <1>1, <1>2, FS_Subset
<1>4. Cardinality(resident) \in Nat /\ Cardinality(ToSet(recent)) \in Nat
  BY <1>2, ResidentFinite, FS_CardinalityType DEF BudgetTypes
<1> QED
  BY <1>2, <1>3, <1>4, ProtectSmall, PagerAssumption

LEMMA PoppedQueue ==
  ASSUME BudgetTypes, NEW victim \in PageNos \cup {NoPage},
         victim # NoPage => evictQueue[victim] > 0
  PROVE  /\ Pop(evictQueue, victim) \in [PageNos -> Nat]
         /\ \A p \in resident \ {victim} : Pop(evictQueue, victim)[p] = evictQueue[p]
<1>1. \A p \in PageNos : evictQueue[p] \in Nat /\ p # NoPage
  BY PagerAssumption DEF BudgetTypes, PageNos, NoPage
<1> QED
  BY <1>1 DEF BudgetTypes, Pop, Popped

LEMMA TrimmedQueue ==
  ASSUME NEW q \in [PageNos -> Nat], NEW live \in SUBSET PageNos, \A p \in live : q[p] > 0
  PROVE  /\ Trimmed(q, live) \in [PageNos -> Nat]
         /\ \A p \in live : Trimmed(q, live)[p] > 0
<1> DEFINE rebuilt == [p \in PageNos |-> IF p \in live THEN 1 ELSE 0]
<1>1. Trimmed(q, live) \in {rebuilt, q}
  BY DEF Trimmed
<1> QED
  BY <1>1

LEMMA RecordedInstall ==
  ASSUME BudgetTypes, fault \in PageNos, RecordInstall
  PROVE  /\ recent' \in Seq(PageNos) /\ Len(recent') <= Protect
         /\ resident' = resident \cup {fault} /\ evictQueue' \in [PageNos -> Nat]
         /\ (\A p \in resident : evictQueue[p] > 0) => \A p \in resident' : evictQueue'[p] > 0
<1>1. PICK older \in Without(recent, fault) :
        LET kept == Append(older, fault)
        IN recent' = SubSeq(kept, Max({Len(kept) - Protect, 0}) + 1, Len(kept))
  BY DEF RecordInstall
<1> DEFINE kept == Append(older, fault)
<1>2. kept \in Seq(PageNos) /\ Len(kept) \in Nat
  BY WithoutPages DEF BudgetTypes
<1> DEFINE cut == IF Len(kept) - Protect >= 0 THEN Len(kept) - Protect ELSE 0
<1>3. recent' = SubSeq(kept, cut + 1, Len(kept))
  <2>1. Len(kept) - Protect \in Int /\ 0 \in Int
    BY <1>2, ProtectSmall
  <2> QED
    BY <1>1, <2>1, MaxOfTwo
<1> HIDE DEF kept
<1>4. cut \in Nat /\ cut <= Len(kept) /\ Len(kept) - cut <= Protect
  BY <1>2, ProtectSmall
<1> HIDE DEF cut
<1>5. recent' \in Seq(PageNos) /\ Len(recent') <= Protect
  <2>1. \A i \in cut + 1 .. Len(kept) : kept[i] \in PageNos
    BY <1>2, <1>4
  <2>2. /\ SubSeq(kept, cut + 1, Len(kept)) \in Seq(PageNos)
        /\ Len(SubSeq(kept, cut + 1, Len(kept))) =
             IF cut + 1 <= Len(kept) THEN Len(kept) - (cut + 1) + 1 ELSE 0
    <3>1. cut + 1 \in Int /\ Len(kept) \in Int
      BY <1>2, <1>4
    <3> QED
      BY <2>1, <3>1, SubSeqProperties
  <2> QED
    BY <1>2, <1>3, <1>4, <2>2, ProtectSmall
<1>6. resident' = resident \cup {fault}
      /\ evictQueue' = IF fault \in resident THEN evictQueue ELSE [evictQueue EXCEPT ![fault] = @ + 1]
  BY DEF RecordInstall
<1> QED
  BY <1>5, <1>6 DEF BudgetTypes

LEMMA BudgetInit == PagerInit => BudgetInv
<1> SUFFICES ASSUME PagerInit PROVE BudgetInv
  OBVIOUS
<1>1. Cardinality(resident) = 0
  BY FS_EmptySet DEF PagerInit
<1>2. Len(recent) <= Protect
  BY ProtectSmall DEF PagerInit
<1>3. OnRecord
  BY <1>1, PagerAssumption DEF PagerInit, OnRecord, PagerSound
<1>4. BudgetTypes
  BY <1>2 DEF PagerInit, BudgetTypes
<1> QED
  BY <1>3, <1>4 DEF BudgetInv

\* Nothing is filled with zeros while faults go to the pager.
LEMMA BudgetReader ==
  ASSUME BudgetInv, NEW t \in PagedReaders, Access(t) \/ PagedStep(t)
  PROVE  BudgetInv'
<1>1. CASE Access(t) \/ CheckRegion(t)
  <2>1. \A a \in AccessSets : a \in SUBSET PageNos
    BY PagerAssumption DEF AccessSets, PageNos
  <2>2. wants' \in [PagedReaders -> SUBSET PageNos]
    BY <1>1, <2>1 DEF Access, CheckRegion, BudgetInv, BudgetTypes
  <2>3. UNCHANGED <<mapped, registered, events, recordVars, fault, pagerAt, failed>>
    BY <1>1 DEF Access, CheckRegion
  <2> QED
    BY <2>2, <2>3 DEF recordVars, BudgetInv, BudgetTypes, OnRecord, PagerSound
<1>2. CASE TouchPages(t)
  <2>1. UNCHANGED <<registered, resident, evictQueue, recent, fault, pagerAt, failed, wants>>
    BY <1>2 DEF TouchPages, recordVars
  <2>2. events' \in Seq(PageNos)
    <3>1. events \in Seq(PageNos) /\ wants[t] \in SUBSET PageNos
      BY DEF BudgetInv, BudgetTypes
    <3>2. events' = events \/ \E p \in wants[t] : events' = Append(events, p)
      BY <1>2 DEF TouchPages
    <3> QED
      BY <3>1, <3>2
  <2>3. mapped' = [p \in PageNos |-> mapped'[p]]
    BY <1>2 DEF TouchPages, BudgetInv, BudgetTypes
  <2>4. ASSUME registered PROVE \A p \in PageNos : mapped'[p] = mapped[p]
    BY <1>2, <2>4 DEF TouchPages
  <2> QED
    BY <2>1, <2>2, <2>3, <2>4 DEF BudgetInv, BudgetTypes, OnRecord, PagerSound
<1> QED
  BY <1>1, <1>2 DEF PagedStep

LEMMA BudgetPoll ==
  ASSUME BudgetInv, PollFault
  PROVE  BudgetInv'
<1>1. fault' \in PageNos /\ events' \in Seq(PageNos) /\ pagerAt = "poll" /\ pagerAt' = "evict"
  BY DEF PollFault, BudgetInv, BudgetTypes
<1>2. UNCHANGED <<mapped, registered, resident, evictQueue, recent, failed, wants>>
  BY DEF PollFault, recordVars, pagedVars
<1> QED
  BY <1>1, <1>2 DEF BudgetInv, BudgetTypes, OnRecord, PagerSound

LEMMA BudgetEvict ==
  ASSUME BudgetInv, Evict
  PROVE  BudgetInv'
<1>1. /\ UNCHANGED <<registered, events, recent, fault, failed, wants>>
      /\ pagerAt = "evict" /\ fault \in PageNos /\ BudgetTypes
      /\ Cardinality(resident) \in Nat /\ Budget \in Nat
  BY ResidentFinite, PagerAssumption DEF Evict, pagedVars, BudgetInv, BudgetTypes
<1>2. CASE Cardinality(resident) < Budget
  <2>1. pagerAt' = "fill" /\ UNCHANGED <<mapped, resident, evictQueue>>
    BY <1>2 DEF Evict
  <2> QED
    BY <1>1, <1>2, <2>1 DEF BudgetInv, BudgetTypes, OnRecord, PagerSound
<1>3. CASE Cardinality(resident) >= Budget /\ Candidates = {}
  <2>1. /\ pagerAt' = "fill" /\ UNCHANGED <<mapped, resident>>
        /\ evictQueue' = Pop(evictQueue, NoPage)
    BY <1>1, <1>3 DEF Evict
  <2>2. NoPage \notin PageNos
    BY PagerAssumption DEF NoPage, PageNos
  <2>3. /\ evictQueue' \in [PageNos -> Nat]
        /\ \A p \in resident : evictQueue'[p] = evictQueue[p]
    BY <1>1, <2>1, <2>2, PoppedQueue DEF BudgetTypes
  <2>4. PagerSound => fault \in resident
    BY <1>1, <1>3, NoCandidate DEF BudgetInv, OnRecord
  <2> QED
    BY <1>1, <2>1, <2>3, <2>4 DEF BudgetInv, BudgetTypes, OnRecord, PagerSound
<1>4. CASE Cardinality(resident) >= Budget /\ Candidates # {}
  <2> DEFINE victim == Lowest(Candidates)
  <2>1. victim \in Candidates
    BY <1>1, <1>4, LowestIn DEF Candidates, BudgetTypes
  <2>2. victim \in resident /\ victim \in PageNos /\ evictQueue[victim] > 0
    BY <1>1, <2>1 DEF Candidates, BudgetTypes
  <2>3. /\ Pop(evictQueue, victim) \in [PageNos -> Nat]
        /\ \A p \in resident \ {victim} : Pop(evictQueue, victim)[p] = evictQueue[p]
    BY <1>1, <2>2, PoppedQueue
  <2>4. \/ /\ mapped' = [mapped EXCEPT ![victim] = "none"]
           /\ resident' = resident \ {victim}
           /\ evictQueue' = Trimmed(Pop(evictQueue, victim), resident')
           /\ UNCHANGED pagerAt
        \/ /\ evictQueue' = Pop(evictQueue, victim)
           /\ pagerAt' = "fail"
           /\ UNCHANGED <<mapped, resident>>
    BY <1>1, <1>4 DEF Evict
  <2> HIDE DEF victim
  <2>5. CASE /\ mapped' = [mapped EXCEPT ![victim] = "none"]
             /\ resident' = resident \ {victim}
             /\ evictQueue' = Trimmed(Pop(evictQueue, victim), resident')
             /\ UNCHANGED pagerAt
    <3>1. resident' \in SUBSET PageNos /\ resident' \subseteq resident
      BY <1>1, <2>5 DEF BudgetTypes
    <3>2. Cardinality(resident') <= Cardinality(resident) /\ Cardinality(resident') \in Nat
      BY <1>1, <3>1, ResidentFinite, FS_Subset DEF BudgetTypes
    <3>3. PagerSound => \A p \in resident' : Pop(evictQueue, victim)[p] > 0
      BY <2>3, <2>5 DEF BudgetInv, OnRecord
    <3>4. /\ evictQueue' \in [PageNos -> Nat]
          /\ PagerSound => \A p \in resident' : evictQueue'[p] > 0
      <4>1. Trimmed(Pop(evictQueue, victim), resident') \in [PageNos -> Nat]
        BY <2>3 DEF Trimmed
      <4>2. ASSUME PagerSound
            PROVE  \A p \in resident' : Trimmed(Pop(evictQueue, victim), resident')[p] > 0
        BY <2>3, <3>1, <3>3, <4>2, TrimmedQueue
      <4> QED
        BY <2>5, <4>1, <4>2
    <3>5. /\ mapped' = [p \in PageNos |-> mapped'[p]]
          /\ \A p \in PageNos : mapped'[p] # "none" => mapped[p] # "none" /\ p # victim
      BY <1>1, <2>2, <2>5 DEF BudgetTypes
    <3>6. BudgetTypes'
      BY <1>1, <2>5, <3>1, <3>4, <3>5 DEF BudgetTypes
    <3>7. OnRecord'
      BY <1>1, <2>5, <3>1, <3>2, <3>4, <3>5 DEF BudgetInv, OnRecord, PagerSound
    <3> QED
      BY <3>6, <3>7 DEF BudgetInv
  <2>6. CASE /\ evictQueue' = Pop(evictQueue, victim)
             /\ pagerAt' = "fail"
             /\ UNCHANGED <<mapped, resident>>
    BY <1>1, <2>3, <2>6 DEF BudgetInv, BudgetTypes, OnRecord, PagerSound
  <2> QED
    BY <2>4, <2>5, <2>6
<1> QED
  BY <1>1, <1>2, <1>3, <1>4

LEMMA BudgetFill ==
  ASSUME BudgetInv, FillPage
  PROVE  BudgetInv'
<1>1. /\ UNCHANGED <<mapped, registered, events, fault, failed, wants>>
      /\ pagerAt = "fill" /\ fault \in PageNos /\ BudgetTypes
      /\ Cardinality(resident) \in Nat /\ Budget \in Nat /\ IsFiniteSet(resident)
  BY ResidentFinite, PagerAssumption DEF FillPage, pagedVars, BudgetInv, BudgetTypes
<1>2. CASE RecordInstall /\ pagerAt' = "copy"
  <2>1. /\ recent' \in Seq(PageNos) /\ Len(recent') <= Protect
        /\ resident' = resident \cup {fault} /\ evictQueue' \in [PageNos -> Nat]
        /\ (\A p \in resident : evictQueue[p] > 0) => \A p \in resident' : evictQueue'[p] > 0
    BY <1>1, <1>2, RecordedInstall
  <2>2. Cardinality(resident') = IF fault \in resident THEN Cardinality(resident)
                                 ELSE Cardinality(resident) + 1
    BY <1>1, <2>1, FS_AddElement
  <2>3. PagerSound => Cardinality(resident') <= Budget
    BY <1>1, <2>2 DEF BudgetInv, OnRecord
  <2>4. BudgetTypes'
    BY <1>1, <1>2, <2>1 DEF BudgetTypes
  <2>5. OnRecord'
    BY <1>1, <1>2, <2>1, <2>3 DEF BudgetInv, OnRecord, PagerSound
  <2> QED
    BY <2>4, <2>5 DEF BudgetInv
<1>3. CASE pagerAt' = "fail" /\ UNCHANGED recordVars
  BY <1>1, <1>3 DEF recordVars, BudgetInv, BudgetTypes, OnRecord, PagerSound
<1> QED
  BY <1>2, <1>3 DEF FillPage

LEMMA Installed ==
  ASSUME BudgetTypes, fault \in PageNos, NEW content, content # "none", Install(content)
  PROVE  /\ events' \in Seq(PageNos) /\ pagerAt' = "poll"
         /\ mapped' = [p \in PageNos |-> mapped'[p]]
         /\ \A p \in PageNos : mapped'[p] # "none" => mapped[p] # "none" \/ p = fault
<1>1. events' \in Seq(PageNos)
  BY WithoutPages DEF BudgetTypes, Install
<1>2. mapped' = [mapped EXCEPT ![fault] = IF @ = "none" THEN content ELSE @] /\ pagerAt' = "poll"
  BY DEF Install
<1> QED
  BY <1>1, <1>2 DEF BudgetTypes

LEMMA BudgetCopy ==
  ASSUME BudgetInv, CopyPage
  PROVE  BudgetInv'
<1>1. /\ UNCHANGED <<registered, resident, evictQueue, recent, failed, wants>>
      /\ pagerAt = "copy" /\ fault \in PageNos /\ BudgetTypes
  BY DEF CopyPage, recordVars, pagedVars, BudgetInv, BudgetTypes
<1>2. CASE Install("data")
  <2>1. /\ events' \in Seq(PageNos) /\ pagerAt' = "poll"
        /\ mapped' = [p \in PageNos |-> mapped'[p]]
        /\ \A p \in PageNos : mapped'[p] # "none" => mapped[p] # "none" \/ p = fault
    BY <1>1, <1>2, Installed
  <2>2. BudgetTypes'
    BY <1>1, <2>1 DEF BudgetTypes
  <2>3. OnRecord'
    BY <1>1, <2>1 DEF BudgetInv, OnRecord, PagerSound
  <2> QED
    BY <2>2, <2>3 DEF BudgetInv
<1>3. CASE pagerAt' = "fail" /\ UNCHANGED <<mapped, waitsFor, events, fault>>
  BY <1>1, <1>3 DEF BudgetInv, BudgetTypes, OnRecord, PagerSound
<1> QED
  BY <1>2, <1>3 DEF CopyPage

\* After a failure the budget is no longer promised; the record keeps its types.
LEMMA BudgetFailed ==
  ASSUME BudgetInv, FailRegion \/ ZeroPage \/ WakeAndRelease
  PROVE  BudgetInv'
<1>1. CASE FailRegion
  BY <1>1 DEF FailRegion, recordVars, pagedVars, BudgetInv, BudgetTypes, OnRecord, PagerSound
<1>2. CASE ZeroPage
  <2>1. /\ UNCHANGED <<failed, wants>> /\ pagerAt = "zero" /\ fault \in PageNos /\ BudgetTypes /\ failed
    BY <1>2 DEF ZeroPage, pagedVars, BudgetInv, BudgetTypes, OnRecord, PagerSound
  <2>2. /\ recent' \in Seq(PageNos) /\ Len(recent') <= Protect
        /\ resident' = resident \cup {fault} /\ evictQueue' \in [PageNos -> Nat]
    BY <1>2, <2>1, RecordedInstall DEF ZeroPage
  <2>3. /\ events' \in Seq(PageNos) /\ pagerAt' \in {"poll", "release"}
        /\ mapped' = [p \in PageNos |-> mapped'[p]]
    <3>1. CASE Install("zero")
      BY <2>1, <3>1, Installed
    <3>2. CASE pagerAt' = "release" /\ UNCHANGED <<mapped, waitsFor, events, fault>>
      BY <2>1, <3>2 DEF BudgetTypes
    <3> QED
      BY <1>2, <3>1, <3>2 DEF ZeroPage
  <2> QED
    BY <2>1, <2>2, <2>3 DEF BudgetInv, BudgetTypes, OnRecord, PagerSound
<1>3. CASE WakeAndRelease
  BY <1>3 DEF WakeAndRelease, recordVars, pagedVars, BudgetInv, BudgetTypes, OnRecord, PagerSound
<1> QED
  BY <1>1, <1>2, <1>3

LEMMA BudgetStep == BudgetInv /\ [PagerNext]_uvars => BudgetInv'
<1> SUFFICES ASSUME BudgetInv, [PagerNext]_uvars PROVE BudgetInv'
  OBVIOUS
<1>1. CASE UNCHANGED uvars
  BY <1>1 DEF uvars, BudgetInv, BudgetTypes, OnRecord, PagerSound
<1> QED
  BY <1>1, BudgetReader, BudgetPoll, BudgetEvict, BudgetFill, BudgetCopy, BudgetFailed
  DEF PagerNext, PagerStep

\* The budget holds whatever is installed, evicted and installed again, until
\* the pager fails (evict_one, record_install): for every number of pages and
\* of readers, every budget of two pages or more and every order of weights.
THEOREM ResidencyBoundedAlways == PagerSpec => []ResidencyBounded
<1>1. BudgetInv => ResidencyBounded
  <2> SUFFICES ASSUME BudgetInv, PagerSound PROVE ResidencyBounded
    BY DEF ResidencyBounded, PagerSound
  <2> DEFINE present == {p \in PageNos : mapped[p] # "none"}
  <2>1. present \subseteq resident /\ resident \subseteq PageNos
    BY DEF BudgetInv, BudgetTypes, OnRecord
  <2>2. Cardinality(present) <= Cardinality(resident)
        /\ Cardinality(present) \in Nat /\ Cardinality(resident) \in Nat
    BY <2>1, ResidentFinite, FS_Subset
  <2>3. Cardinality(resident) <= Budget /\ Budget \in Nat
    BY PagerAssumption DEF BudgetInv, OnRecord
  <2> QED
    BY <2>1, <2>2, <2>3 DEF ResidencyBounded, BudgetInv, OnRecord
<1> QED
  BY <1>1, BudgetInit, BudgetStep, PTL DEF PagerSpec
=============================================================================
