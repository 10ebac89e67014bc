---------------------------- MODULE PagedRegion ----------------------------
(***************************************************************************)
(* The userfaultfd pager of out-of-core feature stores (uffd.rs): threads  *)
(* read a mapping, a missing page blocks them until the pager installs it, *)
(* and the pager keeps at most Budget pages resident.  The kernel's part   *)
(* is external: it queues an event per blocked thread and wakes the        *)
(* threads of a page that is installed.                                    *)
(***************************************************************************)
EXTENDS Integers, SequencesExt, FiniteSetsExt

CONSTANTS
  NumPages, Budget, PageWeight, PagedReaders,
  MaxAccesses,    \* bound: accesses of one reader
  MaxPagerErrors  \* bound: calls that fail past their retries

ASSUME PagerAssumption ==
  /\ NumPages \in Nat \ {0} /\ Budget \in Nat /\ Budget >= 2
  /\ PageWeight \in [0 .. NumPages - 1 -> Nat] /\ MaxAccesses \in Nat /\ MaxPagerErrors \in Nat

VARIABLES
  mapped,      \* page -> none, data or zero
  registered,  \* faults go to the pager; otherwise the kernel fills with zeros
  events,      \* fault events not yet read, a page each
  resident, evictQueue, recent,   \* the pager's own record; the queue as page -> entries
  fault,       \* the page being serviced
  pagerAt,     \* poll, evict, fill, copy, fail, zero, release or exit
  failed,      \* health.failed
  pagerErrors,
  readerAt,    \* reader -> idle, touch or check
  waitsFor,    \* reader -> the missing page it is blocked on, or NoPage
  wants,       \* reader -> the pages of its access
  sawZero,     \* reader -> its present access read a zero page
  accesses,
  misread      \* history: a check passed over zeros

uvars == <<mapped, registered, events, resident, evictQueue, recent, fault, pagerAt, failed,
           pagerErrors, readerAt, waitsFor, wants, sawZero, accesses, misread>>
recordVars == <<resident, evictQueue, recent>>
pagedVars == <<readerAt, wants, sawZero, accesses, misread>>

PageNos == 0 .. NumPages - 1
NoPage == -1
\* One page, or two that the access straddles.
AccessSets == {{p} : p \in PageNos} \cup {{p, p + 1} : p \in 0 .. NumPages - 2}
Protect == Min({Max({Budget \div 2, 1}), 64})

PagerInit ==
  /\ mapped = [p \in PageNos |-> "none"] /\ registered = TRUE /\ events = <<>>
  /\ resident = {} /\ evictQueue = [p \in PageNos |-> 0] /\ recent = <<>>
  /\ fault = NoPage /\ pagerAt = "poll" /\ failed = FALSE /\ pagerErrors = 0
  /\ readerAt = [t \in PagedReaders |-> "idle"] /\ wants = [t \in PagedReaders |-> {}]
  /\ sawZero = [t \in PagedReaders |-> FALSE] /\ misread = FALSE
  /\ accesses = [t \in PagedReaders |-> 0] /\ waitsFor = [t \in PagedReaders |-> NoPage]

-----------------------------------------------------------------------------
(* The readers *)

Access(t) ==
  /\ readerAt[t] = "idle" /\ accesses[t] < MaxAccesses
  /\ \E a \in AccessSets : wants' = [wants EXCEPT ![t] = a]
  /\ readerAt' = [readerAt EXCEPT ![t] = "touch"]
  /\ accesses' = [accesses EXCEPT ![t] = @ + 1]
  /\ UNCHANGED <<mapped, registered, events, recordVars, fault, pagerAt, failed, pagerErrors,
                 waitsFor, sawZero, misread>>

\* An access completes once every page of it is there at the same time.
TouchPages(t) ==
  /\ readerAt[t] = "touch" /\ waitsFor[t] = NoPage
  /\ LET absent == {p \in wants[t] : mapped[p] = "none"}
     IN IF registered /\ absent # {}
        THEN /\ \E p \in absent : events' = Append(events, p) /\ waitsFor' = [waitsFor EXCEPT ![t] = p]
             /\ UNCHANGED <<mapped, readerAt, sawZero>>
        ELSE /\ mapped' = [p \in PageNos |-> IF p \in absent THEN "zero" ELSE mapped[p]]
             /\ sawZero' = [sawZero EXCEPT ![t] = \E p \in wants[t] : mapped'[p] = "zero"]
             /\ readerAt' = [readerAt EXCEPT ![t] = "check"]
             /\ UNCHANGED <<events, waitsFor>>
  /\ UNCHANGED <<registered, recordVars, fault, pagerAt, failed, pagerErrors, wants, accesses,
                 misread>>

CheckRegion(t) ==
  /\ readerAt[t] = "check"
  /\ misread' = (misread \/ (sawZero[t] /\ ~failed))
  /\ sawZero' = [sawZero EXCEPT ![t] = FALSE] /\ wants' = [wants EXCEPT ![t] = {}]
  /\ readerAt' = [readerAt EXCEPT ![t] = "idle"]
  /\ UNCHANGED <<mapped, registered, events, recordVars, fault, pagerAt, failed, pagerErrors,
                 waitsFor, accesses>>

-----------------------------------------------------------------------------
(* The pager *)

\* Bound on the calls that fail past their retries.
CallFails == pagerErrors < MaxPagerErrors /\ pagerErrors' = pagerErrors + 1

PollFault ==
  /\ pagerAt = "poll" /\ events # <<>>
  /\ fault' = Head(events) /\ events' = Tail(events)
  /\ pagerAt' = "evict"
  /\ UNCHANGED <<mapped, registered, recordVars, failed, pagerErrors, waitsFor, pagedVars>>

\* The queue's order: lowest weight first, then lowest page.
Before(p, q) == PageWeight[p] < PageWeight[q] \/ (PageWeight[p] = PageWeight[q] /\ p < q)

\* Mutant of Candidates: recent installs are not protected.
CandidatesUnprotected == {p \in resident : evictQueue[p] > 0 /\ p # fault}

Candidates == {p \in resident : evictQueue[p] > 0 /\ p # fault /\ p \notin ToSet(recent)}
Lowest(S) == CHOOSE p \in S : \A q \in S \ {p} : Before(p, q)

\* The pops up to the victim: stale entries go, protected ones are put back.
Popped(q, victim) ==
  [p \in PageNos |-> IF p = victim THEN q[p] - 1
                     ELSE IF p \notin resident /\ (victim = NoPage \/ Before(p, victim)) THEN 0
                     ELSE q[p]]

\* Mutant of Popped: the protected entries are not put back.
PoppedForgets(q, victim) ==
  [p \in PageNos |-> IF p = victim THEN q[p] - 1
                     ELSE IF victim = NoPage \/ Before(p, victim) THEN 0 ELSE q[p]]
Pop(q, victim) == Popped(q, victim)

\* The queue is rebuilt once stale entries outnumber live ones.
Trimmed(q, live) ==
  IF MapThenSumSet(LAMBDA p : q[p], PageNos) > 2 * Max({Cardinality(live), 1})
  THEN [p \in PageNos |-> IF p \in live THEN 1 ELSE 0] ELSE q

\* One turn of the loop in front of the install, with evict_one.
Evict ==
  /\ pagerAt = "evict"
  /\ IF Cardinality(resident) < Budget
     THEN pagerAt' = "fill" /\ UNCHANGED <<mapped, resident, evictQueue, pagerErrors>>
     ELSE IF Candidates = {}
     THEN /\ evictQueue' = Pop(evictQueue, NoPage)
          /\ pagerAt' = "fill"
          /\ UNCHANGED <<mapped, resident, pagerErrors>>
     ELSE LET victim == Lowest(Candidates)
          IN \/ /\ mapped' = [mapped EXCEPT ![victim] = "none"]
                /\ resident' = resident \ {victim}
                /\ evictQueue' = Trimmed(Pop(evictQueue, victim), resident')
                /\ UNCHANGED <<pagerAt, pagerErrors>>
             \/ /\ CallFails
                /\ evictQueue' = Pop(evictQueue, victim)
                /\ pagerAt' = "fail"
                /\ UNCHANGED <<mapped, resident>>
  /\ UNCHANGED <<registered, events, recent, fault, failed, waitsFor, pagedVars>>

\* The sequences of the entries of s other than e, in their order: there is one.
Without(s, e) ==
  LET others == {i \in DOMAIN s : s[i] # e}
  IN {[i \in DOMAIN from |-> s[from[i]]] :
        from \in {f \in [1 .. Cardinality(others) -> others] :
                    \A i, j \in DOMAIN f : i < j => f[i] < f[j]}}

RecordInstall ==
  /\ resident' = resident \cup {fault}
  /\ evictQueue' = IF fault \in resident THEN evictQueue ELSE [evictQueue EXCEPT ![fault] = @ + 1]
  /\ \E older \in Without(recent, fault) :
       LET kept == Append(older, fault)
       IN recent' = SubSeq(kept, Max({Len(kept) - Protect, 0}) + 1, Len(kept))

FillPage ==
  /\ pagerAt = "fill"
  /\ \/ RecordInstall /\ pagerAt' = "copy" /\ UNCHANGED pagerErrors
     \/ CallFails /\ pagerAt' = "fail" /\ UNCHANGED recordVars
  /\ UNCHANGED <<mapped, registered, events, fault, failed, waitsFor, pagedVars>>

\* The kernel installs the page unless it is there (EEXIST) and wakes the
\* threads blocked on it; their events may still be read.
Install(content) ==
  /\ mapped' = [mapped EXCEPT ![fault] = IF @ = "none" THEN content ELSE @]
  /\ waitsFor' = [t \in PagedReaders |-> IF waitsFor[t] = fault THEN NoPage ELSE waitsFor[t]]
  /\ events' \in {events} \cup Without(events, fault)
  /\ pagerAt' = "poll" /\ fault' = NoPage

CopyPage ==
  /\ pagerAt = "copy"
  /\ \/ Install("data") /\ UNCHANGED pagerErrors
     \/ CallFails /\ pagerAt' = "fail" /\ UNCHANGED <<mapped, waitsFor, events, fault>>
  /\ UNCHANGED <<registered, recordVars, failed, pagedVars>>

\* Mutant of FailRegion: nothing is recorded before the zero page goes in.
FailRegionLate ==
  /\ pagerAt = "fail" /\ pagerAt' = "zero"
  /\ UNCHANGED <<mapped, registered, events, recordVars, fault, failed, pagerErrors, waitsFor, pagedVars>>

\* The failure is recorded before the fault it describes is resolved.
FailRegion ==
  /\ pagerAt = "fail" /\ pagerAt' = "zero"
  /\ failed' = TRUE
  /\ UNCHANGED <<mapped, registered, events, recordVars, fault, pagerErrors, waitsFor, pagedVars>>

ZeroPage ==
  /\ pagerAt = "zero"
  /\ RecordInstall
  /\ \/ Install("zero") /\ UNCHANGED pagerErrors
     \/ CallFails /\ pagerAt' = "release" /\ UNCHANGED <<mapped, waitsFor, events, fault>>
  /\ UNCHANGED <<registered, failed, pagedVars>>

\* Unregistering wakes everybody; if it fails too they stay blocked.  Either
\* way the pager ends.
WakeAndRelease ==
  /\ pagerAt = "release" /\ pagerAt' = "exit"
  /\ \/ /\ registered' = FALSE
        /\ waitsFor' = [t \in PagedReaders |-> NoPage]
     \/ UNCHANGED <<registered, waitsFor>>
  /\ UNCHANGED <<mapped, events, recordVars, fault, failed, pagerErrors, pagedVars>>

PagerStep == PollFault \/ Evict \/ FillPage \/ CopyPage \/ FailRegion \/ ZeroPage \/ WakeAndRelease
PagedStep(t) == TouchPages(t) \/ CheckRegion(t)
PagerNext == PagerStep \/ \E t \in PagedReaders : Access(t) \/ PagedStep(t)
PagerFairness == WF_uvars(PagerStep) /\ \A t \in PagedReaders : WF_uvars(PagedStep(t))
PagerSpec == PagerInit /\ [][PagerNext]_uvars
FairPagerSpec == PagerSpec /\ PagerFairness

-----------------------------------------------------------------------------
\* A copy whose check passes holds the source's contents: zeros are read only
\* after the failure is on record, also once the pager has given up and the
\* kernel fills the pages (uffd.rs, PagerHealth and run).
CheckedIsData == ~misread

\* The budget holds whatever is installed, evicted and installed again, until
\* the pager fails; and every mapped page is on the pager's record, with an
\* entry to find it by (evict_one, record_install).
ResidencyBounded ==
  ~failed /\ pagerAt # "fail" =>
    /\ Cardinality({p \in PageNos : mapped[p] # "none"}) <= Budget
    /\ \A p \in PageNos : mapped[p] # "none" => p \in resident /\ evictQueue[p] > 0

\* An access completes unless others keep faulting beside it: its page is not
\* evicted before it has run, nor the neighbour across the boundary that it
\* needs at the same time, however much more the pages they displace weigh.
\* Only a region that could not even be unregistered stays blocked.
AccessesComplete ==
  \A t \in PagedReaders :
    <>[](\A u \in PagedReaders \ {t} : readerAt[u] = "idle") =>
      []<>(readerAt[t] = "idle" \/ (pagerAt = "exit" /\ registered))
=============================================================================
