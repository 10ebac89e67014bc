----------------------------- MODULE RcGather ------------------------------
(***************************************************************************)
(* The GPUDirect feature client (rdma/client.rs): a gather reads every row *)
(* twice over one reliable-connected queue pair, in windows, window k's    *)
(* second snapshot in the same chain as window k+1's first, and makes the  *)
(* NIC's writes visible to the GPU by a flush after each chain.  The GPU   *)
(* validator then names the torn rows, which are read again.               *)
(***************************************************************************)
EXTENDS Naturals, Sequences

CONSTANTS RowCounts,    \* bound: rows of a gather
          SendDepth,    \* max_send_wr
          Rereads,      \* MAX_RETRIES
          Gathers       \* bound: calls

ASSUME RcAssumption ==
  /\ RowCounts \subseteq Nat \ {0} /\ SendDepth \in Nat \ {0}
  /\ Rereads \in Nat /\ Gathers \in Nat

VARIABLES
  step,     \* idle, chain, post, poll, flush, validate or quiesce
  calls, size,
  torn,     \* rows this round reads, in order
  opened,   \* k: windows whose first snapshot has been read
  chained,  \* READs of the present chain not yet posted
  retries, answer, broken,   \* broken: the client's failed flag
  squeue, cqueue,            \* the device's queues, in order
  landed,   \* region -> row -> the READ the NIC wrote last
  visible   \* the same, as work launched on the GPU now sees it

rcvars == <<step, calls, size, torn, opened, chained, retries, answer, broken, squeue, cqueue,
            landed, visible>>

Batch == UNION {1 .. n : n \in RowCounts}
NoRead == [call |-> 0, retries |-> 0]
Stamp == [call |-> calls, retries |-> retries]

RcInit ==
  /\ step = "idle" /\ calls = 0 /\ size = 0 /\ torn = <<>> /\ opened = 0 /\ chained = <<>>
  /\ retries = 0 /\ answer = "none" /\ broken = FALSE
  /\ squeue = <<>> /\ cqueue = <<>>
  /\ landed = [g \in 1..2 |-> [i \in Batch |-> NoRead]]
  /\ visible = landed

\* indices.chunks(window): half the rows, at most half the send queue.
Windows ==
  LET half == (Len(torn) + 1) \div 2
      cap == IF SendDepth \div 2 = 0 THEN 1 ELSE SendDepth \div 2
      width == IF half < cap THEN half ELSE cap
  IN [w \in 1 .. (Len(torn) + width - 1) \div width |->
        SubSeq(torn, (w - 1) * width + 1, IF w * width < Len(torn) THEN w * width ELSE Len(torn))]

Reads(rows, g) == [i \in 1 .. Len(rows) |-> [row |-> rows[i], region |-> g, stamp |-> Stamp]]

Begin(n) ==
  /\ step = "idle" /\ calls < Gathers
  /\ calls' = calls + 1
  /\ IF broken THEN answer' = "refused" /\ UNCHANGED <<step, size, torn, opened, retries>>
     ELSE /\ size' = n /\ torn' = [i \in 1 .. n |-> i] /\ opened' = 0 /\ retries' = Rereads
          /\ answer' = "none" /\ step' = "chain"
  /\ UNCHANGED <<chained, broken, squeue, cqueue, landed, visible>>

\* Mutant of BuildChain: both snapshots of a window share a chain.
BuildChainTogether ==
  /\ step = "chain"
  /\ chained' = IF opened < Len(Windows)
                THEN Reads(Windows[opened + 1], 1) \o Reads(Windows[opened + 1], 2) ELSE <<>>
  /\ step' = "post"
  /\ UNCHANGED <<calls, size, torn, opened, retries, answer, broken, squeue, cqueue, landed,
                 visible>>

\* The prologue's first snapshot, then the combined chains.
BuildChain ==
  /\ step = "chain"
  /\ chained' = (IF opened = 0 THEN <<>> ELSE Reads(Windows[opened], 2))
                \o (IF opened < Len(Windows) THEN Reads(Windows[opened + 1], 1) ELSE <<>>)
  /\ step' = "post"
  /\ UNCHANGED <<calls, size, torn, opened, retries, answer, broken, squeue, cqueue, landed,
                 visible>>

\* A window of the chain; only its last READ is signaled.
PostReads ==
  /\ step = "post"
  /\ LET n == IF Len(chained) < SendDepth THEN Len(chained) ELSE SendDepth
     IN \E sent \in 0 .. n :
          /\ squeue' = squeue \o [i \in 1 .. sent |-> [read |-> chained[i], signaled |-> i = n]]
          /\ chained' = SubSeq(chained, n + 1, Len(chained))
          /\ step' = IF sent = n THEN "poll" ELSE "quiesce"
  /\ UNCHANGED <<calls, size, torn, opened, retries, answer, broken, cqueue, landed, visible>>

PollCompletion ==
  /\ step = "poll" /\ cqueue # <<>>
  /\ cqueue' = Tail(cqueue)
  /\ step' = IF Head(cqueue) = "failed" THEN "quiesce" ELSE IF chained # <<>> THEN "post" ELSE "flush"
  /\ UNCHANGED <<calls, size, torn, opened, chained, retries, answer, broken, squeue, landed,
                 visible>>

PollDeadline ==
  /\ step = "poll" /\ step' = "quiesce"
  /\ UNCHANGED <<calls, size, torn, opened, chained, retries, answer, broken, squeue, cqueue,
                 landed, visible>>

\* quiesce returns once nothing is left (or aborts); the client is unusable.
QuiesceClient ==
  /\ step = "quiesce" /\ squeue = <<>>
  /\ cqueue' = <<>> /\ chained' = <<>> /\ broken' = TRUE
  /\ step' = "idle" /\ answer' = "err"
  /\ UNCHANGED <<calls, size, torn, opened, retries, squeue, landed, visible>>

FlushWrites ==
  /\ step = "flush"
  /\ \/ /\ visible' = landed
        /\ opened' = opened + 1
        /\ step' = IF opened = Len(Windows) THEN "validate" ELSE "chain"
        /\ UNCHANGED answer
     \/ step' = "idle" /\ answer' = "err" /\ UNCHANGED <<visible, opened>>    \* the flush fails
  /\ UNCHANGED <<calls, size, torn, chained, retries, broken, squeue, cqueue, landed>>

\* retry_indices: some of this round's rows, in order.
Rejected == {rows \in UNION {[1 .. m -> {torn[i] : i \in DOMAIN torn}] : m \in 0 .. Len(torn)} :
               \A i, j \in DOMAIN rows : i < j => rows[i] < rows[j]}

\* Rows the kernel rejects are read again; a row once agreed still agrees.
Validate ==
  /\ step = "validate"
  /\ torn' \in Rejected
  /\ opened' = 0
  /\ IF torn' = <<>> THEN step' = "idle" /\ answer' = "ok" /\ UNCHANGED retries
     ELSE IF retries = 0 THEN step' = "idle" /\ answer' = "err" /\ UNCHANGED retries
     ELSE step' = "chain" /\ retries' = retries - 1 /\ UNCHANGED answer
  /\ UNCHANGED <<calls, size, chained, broken, squeue, cqueue, landed, visible>>

\* The NIC: in order; what it wrote may become visible before any flush.
NicRead ==
  /\ squeue # <<>> /\ squeue' = Tail(squeue)
  /\ LET wr == Head(squeue)
     IN \/ /\ landed' = [landed EXCEPT ![wr.read.region][wr.read.row] = wr.read.stamp]
           /\ visible' \in {visible, landed'}
           /\ cqueue' = IF wr.signaled THEN Append(cqueue, "done") ELSE cqueue
        \/ cqueue' = Append(cqueue, "failed") /\ UNCHANGED <<landed, visible>>
  /\ UNCHANGED <<step, calls, size, torn, opened, chained, retries, answer, broken>>

RcNext ==
  \/ \E n \in RowCounts : Begin(n)
  \/ BuildChain \/ PostReads \/ PollCompletion \/ PollDeadline \/ QuiesceClient
  \/ FlushWrites \/ Validate \/ NicRead
RcSpec == RcInit /\ [][RcNext]_rcvars

\* A row's second READ is on the send queue only when its first one of the
\* same round is complete and visible, although windows overlap; the rows of
\* a successful gather were read twice in this call; and no READ is left once
\* the call has returned, whatever its answer.
WindowsKeepOrder ==
  /\ \A i \in 1 .. Len(squeue) : squeue[i].read.region = 2 =>
       visible[1][squeue[i].read.row] = squeue[i].read.stamp
  /\ answer = "ok" => \A i \in 1 .. size :
       visible[1][i].call = calls /\ visible[2][i] = visible[1][i]
  /\ step = "idle" => squeue = <<>>
=============================================================================
