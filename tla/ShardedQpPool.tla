--------------------------- MODULE ShardedQpPool ---------------------------
(***************************************************************************)
(* The pool of reliable-connected queue pairs (rdma/sharded.rs), one worker*)
(* thread and one completion queue per shard (rdma/qp.rs, rdma/event.rs).  *)
(* A caller hands a batch of READs to a live shard and blocks on the reply;*)
(* the worker posts it window by window, only the last READ of a window    *)
(* signaled, spins on the completion queue, then arms it and sleeps on the *)
(* completion channel.  On any failure it stops the queue pair and waits   *)
(* for a marker behind everything posted before it answers.                *)
(***************************************************************************)
EXTENDS Naturals, Sequences, FiniteSets

CONSTANTS Callers, NumShards,
          MaxSendWr,    \* the send queue's depth, a window
          QueueDepth,   \* of the job channel
          JobSizes,     \* bound: READs per batch
          MaxJobs       \* bound: batches submitted

NoCaller == "none"

ASSUME PoolAssumption ==
  /\ NumShards \in Nat \ {0} /\ MaxSendWr \in Nat \ {0} /\ QueueDepth \in Nat \ {0}
  /\ JobSizes \subseteq Nat \ {0} /\ MaxJobs \in Nat
  /\ NoCaller \notin Callers

VARIABLES
  cpc,      \* caller -> idle, send or await
  cjob,     \* caller -> its shard and batch size
  jobs,     \* batches submitted
  turn,     \* round-robin counter, modulo the shards
  queue,    \* shard -> its job channel
  wstate,      \* shard -> recv, post, spin, arm, wait, marker, quiesce, reply, exit
  job,      \* shard -> the caller served and its READs not yet posted
  armed,    \* shard -> the worker armed the queue since it last woke
  good,     \* shard -> result to send
  dead,     \* shard -> retired
  dropped, aborted,
  \* the device
  sendq,       \* shard -> work requests, in order
  compq,       \* shard -> completions, in order
  inError,    \* shard -> the queue pair is in the error state
  notify,   \* shard -> the completion queue raises an event on its next entry
  event     \* shard -> an event waits on the channel

pvars == <<cpc, cjob, jobs, turn, queue, wstate, job, armed, good, dead, dropped, aborted,
           sendq, compq, inError, notify, event>>
callerVars == <<cpc, cjob, jobs, turn, dropped>>
nicVars == <<sendq, compq, inError, notify, event>>
workerVars == <<queue, wstate, job, armed, good, dead, aborted>>

Pairs == 0 .. NumShards - 1
Marker == [caller |-> NoCaller, signaled |-> TRUE]

PoolInit ==
  /\ cpc = [c \in Callers |-> "idle"]
  /\ cjob = [c \in Callers |-> [shard |-> 0, reads |-> 0]]
  /\ jobs = 0 /\ turn = 0 /\ dropped = FALSE /\ aborted = FALSE
  /\ queue = [s \in Pairs |-> <<>>]
  /\ wstate = [s \in Pairs |-> "recv"]
  /\ job = [s \in Pairs |-> [caller |-> NoCaller, left |-> 0]]
  /\ armed = [s \in Pairs |-> FALSE] /\ good = [s \in Pairs |-> TRUE]
  /\ dead = [s \in Pairs |-> FALSE]
  /\ sendq = [s \in Pairs |-> <<>>] /\ compq = [s \in Pairs |-> <<>>]
  /\ inError = [s \in Pairs |-> FALSE]
  /\ notify = [s \in Pairs |-> FALSE] /\ event = [s \in Pairs |-> FALSE]

-----------------------------------------------------------------------------
(* Callers *)

\* The first live shard from the counter on; the batch is refused if none is.
Submit(c, n) ==
  /\ cpc[c] = "idle" /\ ~dropped /\ jobs < MaxJobs
  /\ jobs' = jobs + 1
  /\ turn' = (turn + 1) % NumShards
  /\ LET order == {k \in Pairs : ~dead[(turn + k) % NumShards]}
     IN IF order = {} THEN UNCHANGED <<cpc, cjob>>
        ELSE LET k == CHOOSE k \in order : \A j \in order : k <= j
             IN /\ cjob' = [cjob EXCEPT ![c] = [shard |-> (turn + k) % NumShards, reads |-> n]]
                /\ cpc' = [cpc EXCEPT ![c] = "send"]
  /\ UNCHANGED <<dropped, workerVars, nicVars>>

\* The job channel is bounded: a full one blocks the sender.
Send(c) ==
  /\ cpc[c] = "send" /\ Len(queue[cjob[c].shard]) < QueueDepth
  /\ queue' = [queue EXCEPT ![cjob[c].shard] = Append(@, [caller |-> c, left |-> cjob[c].reads])]
  /\ cpc' = [cpc EXCEPT ![c] = "await"]
  /\ UNCHANGED <<cjob, jobs, turn, dropped, wstate, job, armed, good, dead, aborted, nicVars>>

\* Drop takes the pool by &mut: no caller is inside.
DropPool ==
  /\ ~dropped /\ \A c \in Callers : cpc[c] = "idle"
  /\ dropped' = TRUE
  /\ queue' = [s \in Pairs |-> Append(queue[s], [caller |-> NoCaller, left |-> 0])]
  /\ UNCHANGED <<cpc, cjob, jobs, turn, wstate, job, armed, good, dead, aborted, nicVars>>

-----------------------------------------------------------------------------
(* Workers *)

\* Mutant of Receive: a retired shard forgets the job it took.
ReceiveDropped(s) ==
  /\ wstate[s] = "recv" /\ queue[s] # <<>>
  /\ queue' = [queue EXCEPT ![s] = Tail(@)]
  /\ job' = [job EXCEPT ![s] = Head(queue[s])]
  /\ good' = [good EXCEPT ![s] = ~dead[s]]
  /\ wstate' = [wstate EXCEPT ![s] = IF Head(queue[s]).caller = NoCaller THEN "exit"
                                  ELSE IF dead[s] THEN "recv" ELSE "post"]
  /\ UNCHANGED <<armed, dead, aborted, callerVars, nicVars>>

Receive(s) ==
  /\ wstate[s] = "recv" /\ queue[s] # <<>>
  /\ queue' = [queue EXCEPT ![s] = Tail(@)]
  /\ job' = [job EXCEPT ![s] = Head(queue[s])]
  /\ good' = [good EXCEPT ![s] = ~dead[s]]
  /\ wstate' = [wstate EXCEPT ![s] = IF Head(queue[s]).caller = NoCaller THEN "exit"
                               ELSE IF dead[s] THEN "reply" ELSE "post"]
  /\ UNCHANGED <<armed, dead, aborted, callerVars, nicVars>>

Window(s) == IF job[s].left < MaxSendWr THEN job[s].left ELSE MaxSendWr

\* Mutant of Fail: answer without quiescing the queue pair.
FailAtOnce(s) == wstate' = [wstate EXCEPT ![s] = "reply"] /\ good' = [good EXCEPT ![s] = FALSE]

Fail(s) == wstate' = [wstate EXCEPT ![s] = "marker"] /\ good' = [good EXCEPT ![s] = FALSE]

\* post_reads_tagged: one chain; a refusal may come after part of it went out.
PostWindow(s) ==
  /\ wstate[s] = "post"
  /\ \E k \in 0 .. Window(s) :
       /\ sendq' = [sendq EXCEPT ![s] = @ \o [i \in 1 .. k |->
                    [caller |-> job[s].caller, signaled |-> i = Window(s)]]]
       /\ job' = [job EXCEPT ![s].left = @ - Window(s)]
       /\ armed' = [armed EXCEPT ![s] = FALSE]
       /\ IF k = Window(s) THEN wstate' = [wstate EXCEPT ![s] = "spin"] /\ UNCHANGED good
                           ELSE Fail(s)
  /\ UNCHANGED <<queue, dead, aborted, compq, inError, notify, event, callerVars>>

\* A poll that finds something.  A window's last READ ends it; an error does.
PollSome(s) ==
  /\ wstate[s] = "spin" /\ compq[s] # <<>>
  /\ compq' = [compq EXCEPT ![s] = Tail(@)]
  /\ \/ Head(compq[s]).ok
        /\ wstate' = [wstate EXCEPT ![s] = IF job[s].left > 0 THEN "post" ELSE "reply"]
        /\ UNCHANGED good
     \/ ~Head(compq[s]).ok /\ Fail(s)
  /\ UNCHANGED <<queue, job, armed, dead, aborted, sendq, inError, notify, event, callerVars>>

\* An empty poll with the spin budget spent: arm, unless that is done.
PollEmpty(s) ==
  /\ wstate[s] = "spin" /\ compq[s] = <<>>
  /\ wstate' = [wstate EXCEPT ![s] = IF armed[s] THEN "wait" ELSE "arm"]
  /\ UNCHANGED <<queue, job, armed, good, dead, aborted, callerVars, nicVars>>

\* The queue is polled again before the worker sleeps.
Arm(s) ==
  /\ wstate[s] = "arm"
  /\ armed' = [armed EXCEPT ![s] = TRUE]
  /\ notify' = [notify EXCEPT ![s] = TRUE]
  /\ wstate' = [wstate EXCEPT ![s] = "spin"]
  /\ UNCHANGED <<queue, job, good, dead, aborted, sendq, compq, inError, event, callerVars>>

\* An event, or the 100 ms of the wait.
Wake(s) ==
  /\ wstate[s] = "wait"
  /\ event' = [event EXCEPT ![s] = FALSE]
  /\ armed' = [armed EXCEPT ![s] = FALSE]
  /\ wstate' = [wstate EXCEPT ![s] = "spin"]
  /\ UNCHANGED <<queue, job, good, dead, aborted, sendq, compq, inError, notify, callerVars>>

\* The deadline on an empty poll, or a failing poll, arm or wait.
GiveUp(s) ==
  /\ wstate[s] \in {"spin", "arm", "wait"}
  /\ Fail(s)
  /\ UNCHANGED <<queue, job, armed, dead, aborted, callerVars, nicVars>>

\* quiesce: to the error state if the driver allows it, then a marker into the
\* slot the queue pair keeps for it.
PostMarker(s) ==
  /\ wstate[s] = "marker"
  /\ \E ok \in BOOLEAN : inError' = [inError EXCEPT ![s] = @ \/ ok]
  /\ sendq' = [sendq EXCEPT ![s] = Append(@, Marker)]
  /\ wstate' = [wstate EXCEPT ![s] = "quiesce"]
  /\ UNCHANGED <<queue, job, armed, good, dead, aborted, compq, notify, event, callerVars>>

\* The other completions are consumed; the marker's retires the shard.
Quiesce(s) ==
  /\ wstate[s] = "quiesce" /\ compq[s] # <<>>
  /\ compq' = [compq EXCEPT ![s] = Tail(@)]
  /\ \/ /\ Head(compq[s]).caller # NoCaller
        /\ UNCHANGED <<wstate, dead>>
     \/ /\ Head(compq[s]).caller = NoCaller
        /\ dead' = [dead EXCEPT ![s] = TRUE]
        /\ wstate' = [wstate EXCEPT ![s] = "reply"]
  /\ UNCHANGED <<queue, job, armed, good, aborted, sendq, inError, notify, event, callerVars>>

Abort(s) ==
  /\ wstate[s] = "quiesce" /\ ~aborted
  /\ aborted' = TRUE
  /\ UNCHANGED <<queue, wstate, job, armed, good, dead, callerVars, nicVars>>

Reply(s) ==
  /\ wstate[s] = "reply"
  /\ cpc' = [cpc EXCEPT ![job[s].caller] = "idle"]
  /\ job' = [job EXCEPT ![s] = [caller |-> NoCaller, left |-> 0]]
  /\ wstate' = [wstate EXCEPT ![s] = "recv"]
  /\ UNCHANGED <<cjob, jobs, turn, dropped, queue, armed, good, dead, aborted, nicVars>>

-----------------------------------------------------------------------------
(* The device: a send queue completes in order *)

Entry(s, wr, ok) ==
  /\ compq' = [compq EXCEPT ![s] = Append(@, [caller |-> wr.caller, ok |-> ok])]
  /\ event' = [event EXCEPT ![s] = @ \/ notify[s]]
  /\ notify' = [notify EXCEPT ![s] = FALSE]

NicComplete(s) ==
  /\ sendq[s] # <<>>
  /\ sendq' = [sendq EXCEPT ![s] = Tail(@)]
  /\ \/ ~inError[s] /\ Head(sendq[s]).signaled /\ Entry(s, Head(sendq[s]), TRUE) /\ UNCHANGED inError
     \/ ~inError[s] /\ ~Head(sendq[s]).signaled /\ UNCHANGED <<compq, event, notify, inError>>
     \/ Entry(s, Head(sendq[s]), FALSE) /\ inError' = [inError EXCEPT ![s] = TRUE]
  /\ UNCHANGED <<workerVars, callerVars>>

-----------------------------------------------------------------------------
Running == ~aborted
WorkerStep(s) ==
  \/ Receive(s) \/ PostWindow(s) \/ PollSome(s) \/ PollEmpty(s) \/ Arm(s) \/ Wake(s)
  \/ PostMarker(s) \/ Quiesce(s) \/ Reply(s)
CallerStep(c) == Running /\ (Send(c) \/ \E n \in JobSizes : Submit(c, n))

PoolNext ==
  \/ Running /\ DropPool
  \/ \E c \in Callers : CallerStep(c)
  \/ \E s \in Pairs : Running /\ (WorkerStep(s) \/ GiveUp(s) \/ Abort(s) \/ NicComplete(s))

\* Threads run and deadlines pass; the device owes nothing.
PoolFairness ==
  /\ \A c \in Callers : WF_pvars(Running /\ Send(c))
  /\ \A s \in Pairs : /\ WF_pvars(Running /\ WorkerStep(s))
                       /\ WF_pvars(Running /\ (GiveUp(s) \/ Abort(s)))
PoolSpec == PoolInit /\ [][PoolNext]_pvars /\ PoolFairness

-----------------------------------------------------------------------------
\* A caller that has its answer, good or bad, may reuse or free the memory its
\* READs targeted: none of them is left in any send queue (quiesce).
AnsweredIsQuiet ==
  \A c \in Callers : cpc[c] = "idle" =>
    \A s \in Pairs : \A i \in 1 .. Len(sendq[s]) : sendq[s][i].caller # c

\* Every batch is answered and a dropped pool's workers end, unless the
\* process aborts because a stopped queue pair did not quiesce.
CallersAnswered ==
  /\ \A c \in Callers : (cpc[c] # "idle") ~> (cpc[c] = "idle" \/ aborted)
  /\ dropped ~> (aborted \/ \A s \in Pairs : wstate[s] = "exit")
=============================================================================
