------------------------------ MODULE UringRead ------------------------------
(***************************************************************************)
(* batch_read (internal/uring.rs): one thread reads a batch through its    *)
(* ring.  It pushes entries, hands them to the kernel a stride at a time,  *)
(* reaps what has finished, and drains the rest before it returns, since   *)
(* the kernel may write a buffer until its completion arrives.             *)
(*                                                                         *)
(* The kernel's side and the io_uring crate's are external: the submission *)
(* queue's free places and the completion queue's consumed ones are those  *)
(* of the last sync; with SQPOLL a kernel thread takes entries and sleeps  *)
(* when there are none; with DEFER_TASKRUN a finished read is posted only  *)
(* by an enter that gets events; a completion that finds the queue full    *)
(* spills to a list that such an enter empties.                            *)
(***************************************************************************)
EXTENDS Integers, FiniteSets

CONSTANTS
  SqEntries, CqEntries, \* the two queues' sizes
  Kinds,                \* ring tiers: subset of {"plain", "defer", "sqpoll"}
  BatchSizes,           \* reads per call
  FailLimit,            \* consecutive failed enters that are retried (1000)
  MaxEnterFails         \* bound: failed enters per call

ASSUME UringAssumption ==
  /\ SqEntries \in Nat \ {0} /\ CqEntries \in Nat \ {0} /\ BatchSizes \subseteq Nat \ {0}
  /\ Kinds \subseteq {"plain", "defer", "sqpoll"}
  /\ FailLimit \in Nat \ {0} /\ MaxEnterFails \in Nat

VARIABLES
  kind,      \* the ring's tier
  upc,       \* where the call is: "idle" between calls
  reads,     \* the batch's size
  submitted, \* entries pushed
  completed, \* completions reaped
  firstErr,  \* an error is recorded
  tries,     \* failures of the enter at hand, in a row
  answer,    \* what the last call returned
  pushed,    \* entries not yet visible to the kernel
  visible,   \* entries the kernel has not taken
  places,    \* free places of the submission queue, as last synced
  taken,     \* reads the device works on
  finished,  \* reads done whose completion is not posted
  cq,        \* completions not reaped
  kept,      \* completions reaped whose places are not given back
  spilled,   \* completions on the overflow list
  awake,     \* the SQPOLL thread polls
  outcome,   \* history: read -> how the device ended it
  enterFails

callvars == <<kind, reads, answer>>
uservars == <<upc, submitted, completed, firstErr, tries>>
queuevars == <<pushed, visible, places>>
devicevars == <<taken, finished, cq, kept, spilled, outcome>>
uvars == <<callvars, uservars, queuevars, devicevars, awake, enterFails>>

Stride == IF SqEntries \div 4 > 1 THEN SqEntries \div 4 ELSE 1

UringInit ==
  /\ kind \in Kinds
  /\ upc = "idle" /\ reads = 0 /\ submitted = 0 /\ completed = 0 /\ firstErr = FALSE
  /\ tries = 0 /\ answer = "none"
  /\ pushed = {} /\ visible = {} /\ places = SqEntries
  /\ taken = {} /\ finished = {} /\ cq = {} /\ kept = 0 /\ spilled = {}
  /\ awake = (kind = "sqpoll")
  /\ outcome = << >> /\ enterFails = 0

-----------------------------------------------------------------------------
(* The kernel.                                                             *)

\* Posted completions that fit the queue, all of them when they do.
Fitting(due) ==
  LET room == CqEntries - kept - Cardinality(cq)
  IN {S \in SUBSET due :
        Cardinality(S) = IF Cardinality(due) < room THEN Cardinality(due) ELSE room}
GetEvents ==
  /\ \E S \in Fitting(finished \cup spilled) :
       cq' = cq \cup S /\ spilled' = (finished \cup spilled) \ S
  /\ finished' = {}

\* An enter takes some visible entries, or wakes the thread that does.
Enter(getEvents, entries) ==
  /\ \E took \in IF kind = "sqpoll" \/ entries = {} THEN {{}} ELSE SUBSET entries \ {{}} :
       visible' = entries \ took /\ taken' = taken \cup took
  /\ awake' = (kind = "sqpoll")
  /\ IF getEvents THEN GetEvents ELSE UNCHANGED <<cq, spilled, finished>>
  /\ UNCHANGED outcome

\* A read ends, whole, or short or failed; unless posting is deferred its completion is posted at once.
DeviceDone(r) ==
  /\ r \in taken
  /\ \E how \in {"whole", "bad"} : outcome' = [outcome EXCEPT ![r] = how]
  /\ taken' = taken \ {r}
  /\ IF kind = "defer" THEN finished' = finished \cup {r} /\ UNCHANGED <<cq, spilled>>
     ELSE IF spilled = {} /\ Cardinality(cq) + kept < CqEntries
     THEN cq' = cq \cup {r} /\ UNCHANGED <<finished, spilled>>
     ELSE spilled' = spilled \cup {r} /\ UNCHANGED <<finished, cq>>
  /\ UNCHANGED <<callvars, uservars, queuevars, kept, awake, enterFails>>

\* A thread blocked in an enter that gets events goes on getting them.
WaitGetsEvents ==
  /\ upc \in {"roomWait", "drainWait"} /\ finished \cup spilled # {}
  /\ GetEvents
  /\ UNCHANGED <<callvars, uservars, queuevars, taken, kept, outcome, awake, enterFails>>

PollTakes(r) ==
  /\ awake /\ r \in visible
  /\ visible' = visible \ {r} /\ taken' = taken \cup {r}
  /\ UNCHANGED <<callvars, uservars, pushed, places, finished, cq, kept, spilled, outcome,
                 awake, enterFails>>
PollSleeps ==
  /\ awake /\ visible = {}
  /\ awake' = FALSE
  /\ UNCHANGED <<callvars, uservars, queuevars, devicevars, enterFails>>

-----------------------------------------------------------------------------
(* The queues from the caller's side.                                      *)

\* sq.sync(): what was pushed is visible, and the free places are known.
Visible == visible \cup pushed
Synced == pushed' = {} /\ places' = SqEntries - Cardinality(Visible)

\* A pass over the completion queue counts each entry and records its error;
\* while pushing, the entries' places are given back by the next pass.
ReapPass(givesBack) ==
  /\ completed' = completed + Cardinality(cq)
  /\ firstErr' = (firstErr \/ \E r \in cq : outcome[r] # "whole")
  /\ cq' = {}
  /\ kept' = IF givesBack THEN 0 ELSE Cardinality(cq)
  /\ UNCHANGED <<callvars, submitted, queuevars, taken, finished, spilled, outcome,
                 awake, enterFails>>

\* The wait for one completion ends: by one in the queue, or because the
\* kernel did not take every entry.
WaitOver == cq # {} \/ kept > 0 \/ (kind # "sqpoll" /\ visible # {})

-----------------------------------------------------------------------------
(* batch_read: the push phase.                                             *)

\* A call first discards what it finds, which would be another call's.
Begin ==
  /\ upc = "idle"
  /\ reads' \in BatchSizes
  /\ cq' = {} /\ kept' = 0
  /\ submitted' = 0 /\ completed' = 0 /\ firstErr' = FALSE /\ tries' = 0 /\ answer' = "none"
  /\ outcome' = [r \in 1 .. reads' |-> "none"]
  /\ enterFails' = 0
  /\ upc' = "next"
  /\ UNCHANGED <<kind, queuevars, taken, finished, spilled, awake>>

HasRoom(inFlight) == inFlight < CqEntries

NextRead ==
  /\ upc = "next"
  /\ upc' = IF submitted = reads THEN "submit"
            ELSE IF HasRoom(submitted - completed) THEN "push" ELSE "room"
  /\ tries' = 0
  /\ UNCHANGED <<callvars, submitted, completed, firstErr, queuevars, devicevars, awake, enterFails>>

\* No more reads in flight than the completion queue holds.
WaitForRoom ==
  /\ upc = "room"
  /\ Synced /\ Enter(TRUE, Visible)
  /\ upc' = "roomWait"
  /\ UNCHANGED <<callvars, submitted, completed, firstErr, tries, kept, enterFails>>
ReapForRoom ==
  /\ \/ upc = "roomWait" /\ WaitOver
     \/ upc = "roomFailed"
  /\ ReapPass(FALSE)
  /\ IF HasRoom(submitted - completed') THEN upc' = "push" /\ tries' = 0
     ELSE upc' = "room" /\ UNCHANGED tries

Push ==
  /\ upc = "push" /\ places > 0
  /\ pushed' = pushed \cup {submitted + 1}
  /\ places' = places - 1
  /\ submitted' = submitted + 1
  /\ upc' = IF submitted' % Stride = 0 THEN "stride" ELSE "next"
  /\ UNCHANGED <<callvars, completed, firstErr, tries, visible, devicevars, awake, enterFails>>

\* kick(): hand over what is pushed; a polling thread that is awake needs no
\* enter.
Kick ==
  /\ (upc = "push" /\ places = 0) \/ upc = "stride"
  /\ Synced
  /\ IF kind = "sqpoll" THEN visible' = Visible /\ awake' = TRUE /\ UNCHANGED devicevars
     ELSE Enter(kind = "defer", Visible) /\ UNCHANGED kept
  /\ upc' = IF upc = "stride" THEN "reap" ELSE upc
  /\ UNCHANGED <<callvars, submitted, completed, firstErr, tries, enterFails>>
Reap ==
  /\ upc = "reap"
  /\ ReapPass(FALSE)
  /\ upc' = "next"
  /\ UNCHANGED tries

\* An enter of the push phase fails.  A transient failure is retried, at most
\* FailLimit times, or left to the next stride; any other ends the phase.
PushPhaseFails ==
  /\ upc \in {"room", "stride"} \/ (upc = "push" /\ places = 0)
  /\ enterFails < MaxEnterFails /\ enterFails' = enterFails + 1
  /\ Synced /\ visible' = Visible
  /\ \/ /\ upc = "stride" \/ tries < FailLimit
        /\ upc' = CASE upc = "stride" -> "reap" [] upc = "room" -> "roomFailed" [] OTHER -> "push"
        /\ tries' = tries + 1
        /\ UNCHANGED firstErr
     \/ upc' = "submit" /\ firstErr' = TRUE /\ UNCHANGED tries
  /\ UNCHANGED <<callvars, submitted, completed, devicevars, awake>>

-----------------------------------------------------------------------------
(* The drain.                                                              *)

\* The last hand-over, which may fail: the drain's waits retry it.
SubmitRest ==
  /\ upc = "submit"
  /\ Synced /\ kept' = 0
  /\ upc' = "drain" /\ tries' = 0
  /\ \/ /\ IF kind = "sqpoll"
             THEN visible' = Visible /\ awake' = TRUE
                  /\ UNCHANGED <<taken, finished, cq, spilled, outcome>>
             ELSE Enter(FALSE, Visible)
        /\ UNCHANGED <<firstErr, enterFails>>
     \/ /\ enterFails < MaxEnterFails /\ enterFails' = enterFails + 1
        /\ visible' = Visible /\ firstErr' = TRUE
        /\ UNCHANGED <<taken, finished, cq, spilled, outcome, awake>>
  /\ UNCHANGED <<callvars, submitted, completed>>

\* Mutant of Outstanding: an error ends the drain.
OutstandingUnlessFailed == completed < submitted /\ ~firstErr
Outstanding == completed < submitted

Drain ==
  /\ upc = "drain" /\ Outstanding
  /\ ReapPass(TRUE)
  /\ upc' = IF completed' < submitted THEN "wait" ELSE "drain"
  /\ UNCHANGED tries
Wait ==
  /\ upc = "wait"
  /\ Enter(TRUE, visible)
  /\ upc' = "drainWait"
  /\ UNCHANGED <<callvars, submitted, completed, firstErr, tries, pushed, places, kept, enterFails>>
WaitReturns ==
  /\ upc = "drainWait" /\ WaitOver
  /\ upc' = "drain" /\ tries' = 0
  /\ UNCHANGED <<callvars, submitted, completed, firstErr, queuevars, devicevars, awake, enterFails>>
\* A wait that keeps failing proves nothing about the buffers: abort.
WaitFails ==
  /\ upc = "wait"
  /\ enterFails < MaxEnterFails /\ enterFails' = enterFails + 1
  /\ tries' = tries + 1
  /\ upc' = IF tries' >= FailLimit THEN "aborted" ELSE "drain"
  /\ UNCHANGED <<callvars, submitted, completed, firstErr, queuevars, devicevars, awake>>

Return ==
  /\ upc = "drain" /\ ~Outstanding
  /\ answer' = IF firstErr THEN "error" ELSE "ok"
  /\ upc' = "idle"
  /\ UNCHANGED <<kind, reads, submitted, completed, firstErr, tries,
                 queuevars, devicevars, awake, enterFails>>

CallStep ==
  \/ NextRead \/ WaitForRoom \/ ReapForRoom \/ Push \/ Kick \/ Reap \/ SubmitRest
  \/ Drain \/ Wait \/ WaitReturns \/ Return
KernelStep == WaitGetsEvents \/ \E r \in taken \cup visible : DeviceDone(r) \/ PollTakes(r)
UringNext ==
  \/ Begin \/ CallStep \/ PushPhaseFails \/ WaitFails
  \/ KernelStep \/ PollSleeps
  \/ upc = "aborted" /\ UNCHANGED uvars    \* process::abort()

UringSpec == UringInit /\ [][UringNext]_uvars
FairUringSpec == UringSpec /\ WF_uvars(CallStep) /\ WF_uvars(KernelStep)

-----------------------------------------------------------------------------
(* Properties.                                                             *)

\* When a call returns, the kernel is done with every buffer, no completion
\* is left for the next call to take for its own, and success means that
\* every read of the batch arrived whole (uring.rs, "Every SQE handed to the
\* kernel is reaped before this function returns").
BatchIsWhole ==
  /\ upc = "idle" => visible \cup pushed \cup taken \cup finished \cup cq \cup spilled = {}
  /\ answer = "ok" => submitted = reads /\ \A r \in 1 .. reads : outcome[r] = "whole"

\* A call returns or aborts, whatever spills and however enters fail.
BatchReturns == upc # "idle" ~> upc \in {"idle", "aborted"}

\* "a batch larger than the ring never spills completions to the kernel's
\* overflow list" (uring.rs:1330).
NeverSpills == spilled = {}
=============================================================================
