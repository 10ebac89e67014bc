------------------------------ MODULE MCIngest ------------------------------
(***************************************************************************)
(* What streams in: edges, through the loops that insert and commit them,  *)
(* and packets, through the loop that waits for the driver, the consumer   *)
(* and its pool's owner.  The two share no state, so a behaviour exercises *)
(* one of them.                                                            *)
(***************************************************************************)
EXTENDS Ingest, PacketIngest

CONSTANTS e1, e2, e3, bad

VARIABLE part

MCInit == /\ Init /\ PacketInit /\ part \in {"edges", "packets"}
          /\ (part = "packets" => driver = "run")
MCNext ==
  /\ UNCHANGED part
  /\ \/ part = "edges" /\ Next /\ UNCHANGED kvars
     \/ part = "packets" /\ PacketNext /\ UNCHANGED vars

\* FairSpec's and PacketSpec's fairness, of the part that runs.
InEdges(A) == part = "edges" /\ A
InPackets(A) == part = "packets" /\ A
MCFairness ==
  /\ WF_vars(InEdges(IngestStep))
  /\ WF_kvars(InPackets(LoopStep))
  /\ WF_kvars(InPackets(TakeFill)) /\ WF_kvars(InPackets(RaiseFlag))
MCSpec == MCInit /\ [][MCNext]_<<vars, kvars, part>> /\ MCFairness
=============================================================================
