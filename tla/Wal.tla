--------------------------------- MODULE Wal ---------------------------------
(***************************************************************************)
(* Durability of the dynamic graph: the write-ahead log                    *)
(* (crates/aether-graph/src/wal.rs), the writer guard that appends to it   *)
(* before publishing and syncs it before committing (writer.rs), and       *)
(* recovery (graph.rs, open_with_wal).                                     *)
(*                                                                         *)
(* A record is the edge it carries, or Bad when its CRC does not match.    *)
(* The file is what the kernel holds (os, and a torn flag for a partial    *)
(* record at its end); its first dur records are on the medium.  The       *)
(* process may be killed (the kernel keeps the file) or the power may fail *)
(* (records past dur may be cut off, or come back as garbage).             *)
(***************************************************************************)
EXTENDS Naturals, Sequences, FiniteSets

CONSTANTS
  Edges,
  Bad,        \* a full-size record whose CRC check fails
  BufCap,     \* BUF_CAPACITY, in records
  MaxBatch,   \* bound: edges of one insert_edges_sorted call
  MaxEpoch,   \* bound: no guard opens at this epoch
  MaxCrash,   \* bound: process crashes and power failures
  Ring,       \* whether sync() commits through the io_uring chain
  KillInCreate \* whether a kill may hit create_or_open before its last sync

ASSUME WalAssumption ==
  /\ Bad \notin Edges
  /\ BufCap \in Nat \ {0}
  /\ MaxBatch \in Nat \ {0}
  /\ MaxEpoch \in Nat
  /\ MaxCrash \in Nat
  /\ Ring \in BOOLEAN
  /\ KillInCreate \in BOOLEAN

VARIABLES
  (* the file *)
  os, torn, dur,
  header,     \* "none", "part" (torn), "ok"
  named,      \* header and directory entry are on the medium
  (* the process *)
  pc,         \* "down", or what the process is doing
  buf,        \* WalWriter.buf; the file is torn iff its head is half written
  pending,    \* WalWriter.pending > 0
  live,       \* edges of the published roots
  latest,     \* edges of the latest committed snapshot
  epoch,
  poisoned, walFailed,
  batch,      \* the records the current insert appends
  mine,       \* edges the open guard has published
  (* history *)
  promised,   \* edges of every guard that was dropped cleanly
  replayed,   \* records applied by the last recovery
  crashes

fileVars == <<os, torn, dur, header, named>>
memVars  == <<live, latest, epoch, poisoned>>
histVars == <<promised, replayed, crashes>>
vars == <<fileVars, memVars, histVars, pc, buf, pending, walFailed, batch, mine>>

Init ==
  /\ os = <<>> /\ torn = FALSE /\ dur = 0 /\ header = "none" /\ named = FALSE
  /\ pc = "down"
  /\ buf = <<>> /\ pending = FALSE
  /\ live = {} /\ latest = {} /\ epoch = 0
  /\ poisoned = FALSE /\ walFailed = FALSE
  /\ batch = <<>> /\ mine = {}
  /\ promised = {} /\ replayed = 0 /\ crashes = 0

Elements(s) == {s[i] : i \in DOMAIN s}

-----------------------------------------------------------------------------
(* Opening and recovery *)

\* create_or_open on a missing, empty or partial header: clear the file and
\* write the header.
CreateHeader ==
  /\ pc = "down"
  /\ header # "ok"
  /\ header' = "ok"
  /\ os' = <<>> /\ torn' = FALSE /\ dur' = 0
  /\ pc' = "header"
  /\ UNCHANGED <<named, memVars, histVars, buf, pending, walFailed, batch, mine>>

\* The header and the directory entry are synced before anything is appended.
SyncHeader ==
  /\ pc = "header"
  /\ named' = TRUE
  /\ pc' = "boot"
  /\ UNCHANGED <<os, torn, dur, header, memVars, histVars, buf, pending,
                 walFailed, batch, mine>>

\* create_or_open on a complete header.
OpenExisting ==
  /\ pc = "down"
  /\ header = "ok"
  /\ pc' = "boot"
  /\ UNCHANGED <<fileVars, memVars, histVars, buf, pending, walFailed, batch,
                 mine>>

\* replay_records applies n records: it stops at the first one whose CRC
\* fails, or at the end.
ReplayStopsAt(n) ==
  /\ \A i \in 1..n : os[i] # Bad
  /\ n < Len(os) => os[n + 1] = Bad

\* Mutant of Replay: the log is attached while its records are replayed, so
\* they are logged again.
ReplayRelogs ==
  /\ pc = "boot"
  /\ \E n \in 0..Len(os) :
       /\ ReplayStopsAt(n)
       /\ live' = {os[i] : i \in 1..n}
       /\ epoch' = IF n = 0 THEN 0 ELSE 1
       /\ replayed' = n
       /\ os' = SubSeq(os, 1, n)
       /\ dur' = n
       /\ buf' = SubSeq(os, 1, n)
  /\ latest' = live'
  /\ torn' = FALSE /\ pending' = TRUE
  /\ pc' = "idle"
  /\ UNCHANGED <<header, named, poisoned, promised, crashes,
                 walFailed, batch, mine>>

\* Mutant of Replay: the torn tail stays, ahead of what is appended next.
ReplayUncut ==
  /\ pc = "boot"
  /\ \E n \in 0..Len(os) :
       /\ ReplayStopsAt(n)
       /\ live' = {os[i] : i \in 1..n}
       /\ epoch' = IF n = 0 THEN 0 ELSE 1
       /\ replayed' = n
       /\ os' = IF torn THEN Append(os, Bad) ELSE os
  /\ latest' = live'
  /\ torn' = FALSE
  /\ pc' = "idle"
  /\ UNCHANGED <<dur, header, named, poisoned, promised, crashes,
                 buf, pending, walFailed, batch, mine>>

\* open_replaying: the replayed edges are inserted under one lazily opened
\* guard without a WAL, whose drop commits once; a torn tail is cut off.
Replay ==
  /\ pc = "boot"
  /\ \E n \in 0..Len(os) :
       /\ ReplayStopsAt(n)
       /\ live' = {os[i] : i \in 1..n}
       /\ epoch' = IF n = 0 THEN 0 ELSE 1
       /\ replayed' = n
       /\ IF torn \/ n < Len(os)
            THEN /\ os' = SubSeq(os, 1, n)
                 /\ torn' = FALSE
                 /\ dur' = IF dur < n THEN dur ELSE n
                 /\ pc' = "cut"
            ELSE pc' = "idle" /\ UNCHANGED <<os, torn, dur>>
  /\ latest' = live'
  /\ UNCHANGED <<header, named, poisoned, promised, crashes, buf,
                 pending, walFailed, batch, mine>>

\* sync_data after set_len.
SyncCut ==
  /\ pc = "cut"
  /\ dur' = Len(os)
  /\ pc' = "idle"
  /\ UNCHANGED <<os, torn, header, named, memVars, histVars, buf, pending,
                 walFailed, batch, mine>>

-----------------------------------------------------------------------------
(* The writer guard *)

\* Mutant of OpenGuard: the poison flag is not checked.
OpenGuardUnchecked ==
  /\ pc = "idle"
  /\ epoch < MaxEpoch
  /\ pc' = "guard"
  /\ mine' = {} /\ walFailed' = FALSE
  /\ UNCHANGED <<fileVars, memVars, histVars, buf, pending, batch>>

\* writer(): refused while poisoned.
OpenGuard ==
  /\ pc = "idle"
  /\ ~poisoned
  /\ epoch < MaxEpoch
  /\ pc' = "guard"
  /\ mine' = {} /\ walFailed' = FALSE
  /\ UNCHANGED <<fileVars, memVars, histVars, buf, pending, batch>>

\* Sequences without repetition of at most MaxBatch edges that are new.
NewBatches ==
  {s \in UNION {[1..n -> Edges \ live] : n \in 1..MaxBatch} :
     \A i, j \in DOMAIN s : s[i] = s[j] => i = j}

\* append_edges: the batch is staged whole; if it does not fit, the earlier
\* records are spilled first.
Insert(s) ==
  /\ pc = "guard"
  /\ ~walFailed
  /\ batch' = s
  /\ IF buf # <<>> /\ Len(buf) + Len(s) > BufCap
       THEN pc' = "spill" /\ UNCHANGED <<buf, pending>>
       ELSE pc' = "staged" /\ buf' = buf \o s /\ pending' = TRUE
  /\ UNCHANGED <<fileVars, memVars, histVars, walFailed, mine>>

\* The spill made room: the batch is staged.
StageSpilled ==
  /\ pc = "spill"
  /\ buf = <<>>
  /\ buf' = batch /\ pending' = TRUE
  /\ pc' = "staged"
  /\ UNCHANGED <<fileVars, memVars, histVars, walFailed, batch, mine>>

\* The root store follows the append.
Publish ==
  /\ pc = "staged"
  /\ live' = live \cup Elements(batch)
  /\ mine' = mine \cup Elements(batch)
  /\ batch' = <<>>
  /\ pc' = "guard"
  /\ UNCHANGED <<fileVars, latest, epoch, poisoned, histVars, buf, pending,
                 walFailed>>

-----------------------------------------------------------------------------
(* flush_buf and sync *)

Flushing == pc \in {"spill", "sync", "close"}

flushFrame == <<dur, header, named, memVars, histVars, pending, mine>>

\* write(2) accepts part of a record ...
WriteHalf ==
  /\ Flushing
  /\ buf # <<>> /\ ~torn
  /\ torn' = TRUE
  /\ UNCHANGED <<flushFrame, os, buf, pc, walFailed, batch>>

\* ... and then the rest of it.
WriteRest ==
  /\ Flushing
  /\ buf # <<>> /\ torn
  /\ torn' = FALSE
  /\ os' = Append(os, Head(buf))
  /\ buf' = Tail(buf)
  /\ UNCHANGED <<flushFrame, pc, walFailed, batch>>

\* Mutant of WriteFails: a failed spill is ignored and the insert goes on.
WriteFailsIgnored ==
  /\ Flushing
  /\ buf # <<>>
  /\ \/ pc = "spill" /\ pc' = "staged"
     \/ pc = "sync" /\ pc' = "poison"
     \/ pc = "close" /\ pc' = "exit"
  /\ UNCHANGED <<flushFrame, os, torn, buf, walFailed, batch>>

\* A write error.  What the kernel accepted has left the buffer.  A failed
\* spill fails the append and stages none of the batch; a failed sync
\* poisons the graph; closing is best effort.
WriteFails ==
  /\ Flushing
  /\ buf # <<>>
  /\ \/ pc = "spill" /\ pc' = "guard" /\ walFailed' = TRUE
     \/ pc = "sync" /\ pc' = "poison" /\ UNCHANGED walFailed
     \/ pc = "close" /\ pc' = "exit" /\ UNCHANGED walFailed
  /\ batch' = <<>>
  /\ UNCHANGED <<flushFrame, os, torn, buf>>

\* Writer::drop on the clean path: sync() first.
BeginDrop ==
  /\ pc = "guard"
  /\ pc' = IF pending THEN "sync" ELSE "synced"
  /\ UNCHANGED <<fileVars, memVars, histVars, buf, pending, walFailed, batch,
                 mine>>

\* sync_data: everything the kernel holds reaches the medium.
SyncData ==
  /\ pc \in {"sync", "close"}
  /\ buf = <<>>
  /\ dur' = Len(os)
  /\ pending' = FALSE
  /\ pc' = IF pc = "sync" THEN "synced" ELSE "exit"
  /\ UNCHANGED <<os, torn, header, named, memVars, histVars, buf, walFailed,
                 batch, mine>>

\* sync_data fails: any part of what was written may have reached the medium.
SyncFails ==
  /\ pc \in {"sync", "close"}
  /\ buf = <<>>
  /\ dur' \in dur..Len(os)
  /\ pc' = IF pc = "sync" THEN "poison" ELSE "exit"
  /\ UNCHANGED <<os, torn, header, named, memVars, histVars, buf, pending,
                 walFailed, batch, mine>>

\* sync_uring: the chain's write completed and its fsync failed.  The buffer
\* keeps the records the file now holds.
RingSyncFails ==
  /\ Ring
  /\ pc \in {"sync", "close"}
  /\ buf # <<>> /\ ~torn
  /\ os' = os \o buf
  /\ dur' \in dur..Len(os')
  /\ pc' = IF pc = "sync" THEN "poison" ELSE "exit"
  /\ UNCHANGED <<torn, header, named, memVars, histVars, buf, pending,
                 walFailed, batch, mine>>

\* reap_commit cannot confirm completion: the buffer and the ring are leaked,
\* and the kernel may have written any part of the buffer.
RingLost ==
  /\ Ring
  /\ pc \in {"sync", "close"}
  /\ buf # <<>> /\ ~torn
  /\ \E n \in 0..Len(buf) :
       /\ os' = os \o SubSeq(buf, 1, n)
       /\ torn' \in IF n < Len(buf) THEN BOOLEAN ELSE {FALSE}
  /\ buf' = <<>>
  /\ pc' = IF pc = "sync" THEN "poison" ELSE "exit"
  /\ UNCHANGED <<dur, header, named, memVars, histVars, pending, walFailed,
                 batch, mine>>

\* Synced and no append failed: the epoch advances and the snapshot is
\* published.  A guard whose WAL failed is poisoned even if the sync worked.
Commit ==
  /\ pc = "synced"
  /\ IF walFailed
       THEN pc' = "poison" /\ UNCHANGED <<latest, epoch, promised>>
       ELSE /\ latest' = live
            /\ epoch' = epoch + 1
            /\ promised' = promised \cup mine
            /\ pc' = "idle"
  /\ mine' = {}
  /\ UNCHANGED <<fileVars, live, poisoned, replayed, crashes, buf,
                 pending, walFailed, batch>>

\* durable_failure: poison, no epoch advance, no snapshot.
Poison ==
  /\ pc = "poison"
  /\ poisoned' = TRUE
  /\ mine' = {} /\ walFailed' = FALSE
  /\ pc' = "idle"
  /\ UNCHANGED <<fileVars, live, latest, epoch, histVars, buf, pending, batch>>

\* The guard's thread panics: poison, and discard_pending drops what the
\* kernel has not seen.
Panic ==
  /\ pc \in {"guard", "spill", "staged"}
  /\ poisoned' = TRUE
  /\ buf' = <<>> /\ pending' = FALSE
  /\ batch' = <<>> /\ mine' = {} /\ walFailed' = FALSE
  /\ pc' = "idle"
  /\ UNCHANGED <<fileVars, live, latest, epoch, histVars>>

-----------------------------------------------------------------------------
(* The process ends *)

\* The memory of the process is gone.
Forget ==
  /\ pc' = "down"
  /\ buf' = <<>> /\ pending' = FALSE /\ batch' = <<>> /\ walFailed' = FALSE
  /\ live' = {} /\ latest' = {} /\ epoch' = 0 /\ poisoned' = FALSE /\ mine' = {}

\* The graph is dropped; WalWriter::drop syncs if anything is pending.
CloseGraph ==
  /\ pc = "idle"
  /\ pc' = IF pending THEN "close" ELSE "exit"
  /\ UNCHANGED <<fileVars, memVars, histVars, buf, pending, walFailed, batch,
                 mine>>

Exit ==
  /\ pc = "exit"
  /\ Forget
  /\ UNCHANGED <<fileVars, histVars>>

\* The process is killed; the kernel keeps the file.
ProcessCrash ==
  /\ pc # "down"
  /\ pc = "header" => KillInCreate
  /\ crashes < MaxCrash
  /\ crashes' = crashes + 1
  /\ Forget
  /\ UNCHANGED <<fileVars, promised, replayed>>

\* The power fails.  Records past dur may be missing or garbage; a file
\* whose directory entry never reached the medium may be gone.
PowerFailure ==
  /\ crashes < MaxCrash
  /\ crashes' = crashes + 1
  /\ \/ \E n \in dur..Len(os) : \E bad \in SUBSET ((dur + 1)..n) :
          /\ os' = [i \in 1..n |-> IF i \in bad THEN Bad ELSE os[i]]
          /\ dur' = n
          /\ torn' \in IF torn \/ n < Len(os) \/ pc = "cut"
                         THEN BOOLEAN ELSE {FALSE}
          /\ named' = (header = "ok")   \* what is left is on the medium
          /\ UNCHANGED header
     \/ /\ ~named
        /\ os' = <<>> /\ dur' = 0 /\ torn' = FALSE
        /\ header' \in {"none", "part"}
        /\ UNCHANGED named
  /\ Forget
  /\ UNCHANGED <<promised, replayed>>

Next ==
  \/ CreateHeader \/ SyncHeader \/ OpenExisting \/ Replay \/ SyncCut
  \/ OpenGuard
  \/ \E s \in NewBatches : Insert(s)
  \/ StageSpilled \/ Publish
  \/ WriteHalf \/ WriteRest \/ WriteFails
  \/ BeginDrop \/ SyncData \/ SyncFails \/ RingSyncFails \/ RingLost
  \/ Commit \/ Poison \/ Panic
  \/ CloseGraph \/ Exit \/ ProcessCrash \/ PowerFailure

Spec == Init /\ [][Next]_vars

-----------------------------------------------------------------------------
(* Properties *)

FlagsOK ==
  /\ torn \in BOOLEAN /\ named \in BOOLEAN /\ pending \in BOOLEAN
  /\ poisoned \in BOOLEAN /\ walFailed \in BOOLEAN

DataOK ==
  /\ os \in Seq(Edges \cup {Bad}) /\ dur \in 0..Len(os)
  /\ header \in {"none", "part", "ok"}
  /\ pc \in {"down", "header", "boot", "cut", "idle", "guard", "spill",
             "staged", "sync", "synced", "poison", "close", "exit"}
  /\ buf \in Seq(Edges) /\ batch \in Seq(Edges)
  /\ live \subseteq Edges /\ latest \subseteq Edges /\ mine \subseteq Edges
  /\ promised \subseteq Edges
  /\ epoch \in Nat /\ replayed \in Nat /\ crashes \in Nat

\* Types; at most the whole file is on the medium, and a staged batch holds
\* edges only.
TypeOK == FlagsOK /\ DataOK

\* An edge of a cleanly dropped guard is in every graph recovered later,
\* whatever crashes, torn tails, failed syncs and recoveries come between.
CommittedSurvives ==
  pc \notin {"down", "header", "boot"} => promised \subseteq live

\* The inductive invariant of CommittedSurvives.  A promised edge is on the
\* medium with no bad record before it, so that every replay reaches it ...
Durable(e) ==
  \E i \in 1..dur : os[i] = e /\ \A j \in 1..i : os[j] # Bad

PromisedDurable == \A e \in promised : Durable(e)

\* ... in a file that a power failure cannot take away ...
FileNamed ==
  /\ ~named => promised = {}
  /\ named => header = "ok"
  /\ pc \notin {"down", "header"} => named
  /\ pc = "down" /\ header = "ok" => named
  /\ pc = "header" => header = "ok"

\* ... and that holds no bad record once recovery has cut it.
Recovered ==
  pc \notin {"down", "header", "boot"} =>
    \A i \in DOMAIN os : os[i] # Bad

\* What the open guard published is in the file or in the buffer, nothing is
\* published while nothing is pending, and all of it is on the medium by the
\* time the guard commits.
GuardLogged ==
  /\ pc \in {"guard", "spill", "staged", "sync"} =>
       mine \subseteq live \cap (Elements(os) \cup Elements(buf))
  /\ pc = "staged" =>
       pending /\ Elements(batch) \subseteq Elements(os) \cup Elements(buf)
  /\ pc \in {"guard", "spill"} /\ ~pending => mine = {}
  /\ pc = "synced" => mine \subseteq live \cap {os[i] : i \in 1..dur}

DurabilityInv ==
  /\ CommittedSurvives
  /\ PromisedDurable
  /\ FileNamed
  /\ Recovered
  /\ GuardLogged

\* A committed edge has exactly one record: a spill or commit that failed
\* half way is resumed where the file ends (flush_buf's drain), and recovery
\* does not log again what it replays.
CommittedOnce ==
  \A e \in promised : Cardinality({i \in DOMAIN os : os[i] = e}) = 1

\* Every published edge is in the log or staged for it before readers can
\* see it, until the guard that published it panics or loses its log.
PublishedLogged ==
  ~poisoned /\ pc # "poison" => live \subseteq Elements(os) \cup Elements(buf)

\* A poisoned graph never changes again: nothing is published, committed or
\* un-poisoned until the process ends.
PoisonedReadOnly ==
  [][poisoned /\ pc' # "down" =>
       live' = live /\ latest' = latest /\ epoch' = epoch /\ poisoned']_vars

=============================================================================
