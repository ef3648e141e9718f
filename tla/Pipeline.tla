------------------------------ MODULE Pipeline -----------------------------
(***************************************************************************)
(* The thread pools of applesauce/src/threads (mod.rs, reader.rs,          *)
(* compressing.rs, writer.rs) without batching: one scan, from the first   *)
(* file submitted to the last thread joined.                               *)
(*                                                                         *)
(* Readers, compressors, writers and publishers (with scratch only) are    *)
(* linked by bounded channels.  A pool is a number of threads: a queued    *)
(* item is taken while fewer of its items than threads are in hand.  Each  *)
(* file's blocks pass through the sequential queue that module SeqQueue    *)
(* describes in detail; no thread panics here.                             *)
(***************************************************************************)
EXTENDS Integers, FiniteSets, Sequences

CONSTANTS
  Setups,                       \* the operations to run, see PipelineAssumption
  FileCount, BlockCount,        \* files of the scan, at most so many blocks in each
  Limit, Sizes,                 \* its limit, and what files may have to reserve
  SeqCap,                       \* capacity of a sequential queue
  Capacity,                     \* capacity of each pool's channel
  DeleteFails                   \* who may fail to delete a payload:
                                \*   a subset of {"writer", "publisher"}

Pools == {"reader", "compressor", "writer", "publisher"}

ASSUME PipelineAssumption ==
  /\ FileCount \in Nat /\ BlockCount \in Nat
  /\ Setups \subseteq [mode : {"compress", "manual", "reading"},
                       scratch : BOOLEAN, blocks : 0 .. BlockCount,
                       threads : [Pools -> Nat \ {0}]]
  /\ Limit \in Nat \ {0} /\ Sizes \subseteq Nat /\ SeqCap \in Nat \ {0}
  /\ Capacity \in [Pools -> Nat \ {0}]
  /\ DeleteFails \subseteq {"writer", "publisher"}

Files == 1 .. FileCount
Blocks == 1 .. BlockCount

VARIABLES
  setup,     \* the operation's Mode, whether it has a scratch, the blocks of each
             \* file, and the threads of each pool; does not change
  size,      \* each file's worst-case reservation, if there is a scratch; does not change
  main,      \* the thread that scans and then drops BackgroundThreads
  joined,    \* how many pools it has joined
  up,        \* the pools whose threads run
  rd,        \* each file's reader
  made,      \* slots prepared for the file
  read,      \* the reader's result: "none", "ok" or "err"
  blk,       \* each block's slot
  wr,        \* each file's writer
  taken,     \* slots the writer took from the sequential queue
  pub,       \* each file's publisher
  used, stopped, hold, res,     \* the scratch budget, as in module Batch
  payload,   \* the files with a payload in scratch
  out        \* what became of each file

budget == <<used, stopped, hold, res>>
fixed == <<setup, size>>
pools == <<main, joined, up>>
readers == <<rd, made, read>>
writers == <<wr, taken>>
vars == <<setup, size, main, joined, up, rd, made, read, blk, wr, taken, pub,
          used, stopped, hold, res, payload, out>>

mode == setup.mode
Scratched == setup.scratch

Set(fn, f, v) == [fn EXCEPT ![f] = v]

ReaderBusy(f) == rd[f] \notin {"new", "queued", "gone"}
WriterBusy(f) == wr[f] \notin {"none", "queued", "gone"}
PublisherBusy(f) == pub[f] \notin {"none", "queued", "gone"}
InCompressor(state) == {c \in Files \X Blocks : blk[c[1]][c[2]] = state}

\* Taking one more item, or queueing it, when these are in hand or queued already.
ThreadFree(pool, busy) == pool \in up /\ Cardinality(busy) < setup.threads[pool]
RoomFor(pool, queued) == Cardinality(queued) < Capacity[pool]

\* Every thread and every queued item that works on a file has its Context.
ContextAlive(f) ==
  \/ rd[f] \notin {"new", "gone"} \/ wr[f] \notin {"none", "gone"}
  \/ pub[f] \notin {"none", "gone"}
  \/ \E k \in Blocks : blk[f][k] \in {"queued", "compressing"}

\* Definitions marked "Seeded fault" are not the code's: each is the next definition
\* with a plausible bug, and shows that a property can fail.

\* Seeded fault: the reader's file lives until its handler returns.
ReaderKeepsSource(f) ==
  rd[f] \in {"sending", "reading", "holding", "closing", "finishing", "leaving"}

\* The reader has the source open: its Arc<File> keeps the writer's from being unique.
ReaderHasSource(f) ==
  rd[f] \in {"sending", "reading", "holding", "closing"}

SenderGone(f) == rd[f] \in {"leaving", "gone"}
ReceiverAlive(f) == wr[f] \in {"queued", "draining", "waiting", "finishing"}

\* Seeded fault: a dropped reservation does not give its bytes back.
ReleaseLeaks(f) ==
  /\ used' = used
  /\ res' = Set(res, f, 0)
  /\ hold' = Set(hold, f, IF Scratched THEN "gone" ELSE "none")

\* Dropping a reservation, if there is one.
Release(f) ==
  /\ used' = used - res[f]
  /\ res' = Set(res, f, 0)
  /\ hold' = Set(hold, f, IF Scratched THEN "gone" ELSE "none")

-----------------------------------------------------------------------------
(* Readers: reader.rs Handler::handle_item and the functions it calls. *)

TakeFile(f) ==
  /\ rd[f] = "queued"
  /\ ThreadFree("reader", {g \in Files : ReaderBusy(g)})
  /\ rd' = Set(rd, f, IF Scratched THEN "reserving" ELSE "opening")
  /\ UNCHANGED <<fixed, pools, made, read, blk, writers, pub, budget, payload, out>>

\* Scratch::reserve, after any wait for space.
Reserve(f) ==
  /\ rd[f] = "reserving"
  /\ ~stopped /\ size[f] <= Limit - used
  /\ used' = used + size[f]
  /\ res' = Set(res, f, size[f])
  /\ hold' = Set(hold, f, "held")
  /\ rd' = Set(rd, f, "opening")
  /\ UNCHANGED <<fixed, pools, made, read, blk, writers, pub, stopped, payload, out>>

Refuse(f) ==
  /\ rd[f] = "reserving"
  /\ stopped \/ size[f] > Limit
  /\ rd' = Set(rd, f, "leaving")
  /\ out' = Set(out, f, "refused")
  /\ UNCHANGED <<fixed, pools, made, read, blk, writers, pub, budget, payload>>

OpenFails(f) ==
  /\ rd[f] = "opening"
  /\ Release(f)
  /\ rd' = Set(rd, f, "leaving")
  /\ out' = Set(out, f, "failed")
  /\ UNCHANGED <<fixed, pools, made, read, blk, writers, pub, stopped, payload>>

Open(f) ==
  /\ rd[f] = "opening"
  /\ rd' = Set(rd, f, "sending")
  /\ UNCHANGED <<fixed, pools, made, read, blk, writers, pub, budget, payload, out>>

SendToWriter(f) ==
  /\ rd[f] = "sending"
  /\ RoomFor("writer", {g \in Files : wr[g] = "queued"})
  /\ rd' = Set(rd, f, "reading")
  /\ wr' = Set(wr, f, "queued")
  /\ UNCHANGED <<fixed, pools, made, read, blk, taken, pub, budget, payload, out>>

PrepareSend(f) ==
  /\ rd[f] = "reading" /\ made[f] < setup.blocks
  /\ ReceiverAlive(f) /\ made[f] - taken[f] < SeqCap
  /\ made' = Set(made, f, made[f] + 1)
  /\ blk' = [blk EXCEPT ![f][made'[f]] = "held"]
  /\ rd' = Set(rd, f, "holding")
  /\ UNCHANGED <<fixed, pools, read, writers, pub, budget, payload, out>>

HandOver(f) ==
  /\ rd[f] = "holding"
  /\ mode # "reading" => RoomFor("compressor", InCompressor("queued"))
  /\ blk' = [blk EXCEPT ![f][made[f]] = IF mode = "reading" THEN "full" ELSE "queued"]
  /\ rd' = Set(rd, f, "reading")
  /\ UNCHANGED <<fixed, pools, made, read, writers, pub, budget, payload, out>>

\* A slot still in hand is dropped; manual mode reads before it takes one.
ReadFails(f) ==
  /\ rd[f] = "reading" \/ (rd[f] = "holding" /\ mode # "manual")
  /\ rd' = Set(rd, f, "closing")
  /\ read' = Set(read, f, "err")
  /\ blk' = [blk EXCEPT ![f] =
               [k \in Blocks |-> IF blk[f][k] = "held" THEN "lost" ELSE blk[f][k]]]
  /\ UNCHANGED <<fixed, pools, made, writers, pub, budget, payload, out>>

\* Everything is read, or the writer has gone (in manual mode an error).
ReadEnds(f) ==
  /\ rd[f] = "reading"
  /\ made[f] = setup.blocks \/ (~ReceiverAlive(f) /\ mode # "manual")
  /\ rd' = Set(rd, f, "closing")
  /\ read' = Set(read, f, "ok")
  /\ UNCHANGED <<fixed, pools, made, blk, writers, pub, budget, payload, out>>

\* drop(file) ...
CloseSource(f) ==
  /\ rd[f] = "closing"
  /\ rd' = Set(rd, f, "finishing")
  /\ UNCHANGED <<fixed, pools, made, read, blk, writers, pub, budget, payload, out>>

\* ... and then tx.finish(result).
FinishStream(f) ==
  /\ rd[f] = "finishing"
  /\ rd' = Set(rd, f, "leaving")
  /\ UNCHANGED <<fixed, pools, made, read, blk, writers, pub, budget, payload, out>>

ReaderGone(f) ==
  /\ rd[f] = "leaving"
  /\ rd' = Set(rd, f, "gone")
  /\ UNCHANGED <<fixed, pools, made, read, blk, writers, pub, budget, payload, out>>

Reader(f) ==
  \/ TakeFile(f) \/ Reserve(f) \/ Refuse(f) \/ OpenFails(f) \/ Open(f)
  \/ SendToWriter(f) \/ PrepareSend(f) \/ HandOver(f) \/ ReadFails(f) \/ ReadEnds(f)
  \/ CloseSource(f) \/ FinishStream(f) \/ ReaderGone(f)

-----------------------------------------------------------------------------
(* Compressors: compressing.rs Handler::handle_item. *)

StartBlock(f, k) ==
  /\ blk[f][k] = "queued"
  /\ ThreadFree("compressor", InCompressor("compressing"))
  /\ blk' = [blk EXCEPT ![f][k] = "compressing"]

\* Slot::finish or Slot::error; that the receiver has gone makes no difference.
EndBlock(f, k) ==
  /\ blk[f][k] = "compressing"
  /\ \E result \in {"full", "lost"} : blk' = [blk EXCEPT ![f][k] = result]

Compressor(f, k) ==
  /\ StartBlock(f, k) \/ EndBlock(f, k)
  /\ UNCHANGED <<fixed, pools, readers, writers, pub, budget, payload, out>>

-----------------------------------------------------------------------------
(* Writers: writer.rs Handler::handle_item. *)

\* With scratch, the payload exists from here on.
TakeStream(f) ==
  /\ wr[f] = "queued"
  /\ ThreadFree("writer", {g \in Files : WriterBusy(g)})
  /\ wr' = Set(wr, f, "draining")
  /\ payload' = IF Scratched THEN payload \cup {f} ELSE payload
  /\ UNCHANGED <<fixed, pools, readers, blk, taken, pub, budget, out>>

TakeSlot(f) ==
  /\ wr[f] = "draining" /\ taken[f] < made[f]
  /\ taken' = Set(taken, f, taken[f] + 1)
  /\ wr' = Set(wr, f, "waiting")
  /\ UNCHANGED <<fixed, pools, readers, blk, pub, budget, payload, out>>

WriteBlock(f) ==
  /\ wr[f] = "waiting" /\ blk[f][taken[f]] = "full"
  /\ wr' = Set(wr, f, "draining")
  /\ UNCHANGED <<fixed, pools, readers, blk, taken, pub, budget, payload, out>>

\* The slot's item will not come: Receiver::finish, which returns on the next slot
\* or when the sender is gone.
BlockLost(f) ==
  /\ wr[f] = "waiting" /\ blk[f][taken[f]] = "lost"
  /\ wr' = Set(wr, f, "finishing")
  /\ UNCHANGED <<fixed, pools, readers, blk, taken, pub, budget, payload, out>>

StreamFails(f) ==
  /\ wr[f] = "finishing" /\ (taken[f] < made[f] \/ SenderGone(f))
  /\ wr' = Set(wr, f, "failed")
  /\ UNCHANGED <<fixed, pools, readers, blk, taken, pub, budget, payload, out>>

\* No payload to write to, a block that cannot be written or makes the file not
\* compressible enough, or no way to finish the payload.
GiveUp(f) ==
  /\ \/ wr[f] = "draining" /\ taken[f] = 0
     \/ wr[f] = "waiting" /\ blk[f][taken[f]] = "full"
     \/ wr[f] = "complete" /\ Scratched
  /\ wr' = Set(wr, f, "failed")
  /\ UNCHANGED <<fixed, pools, readers, blk, taken, pub, budget, payload, out>>

\* Seeded fault: the reader's result is not asked for.
StreamEndsAnyway(f) ==
  /\ wr[f] = "draining" /\ taken[f] = made[f] /\ SenderGone(f)
  /\ wr' = Set(wr, f, "complete")
  /\ UNCHANGED <<fixed, pools, readers, blk, taken, pub, budget, payload, out>>

\* All slots are drained and the sender is gone: the reader's result decides.
StreamEnds(f) ==
  /\ wr[f] = "draining" /\ taken[f] = made[f] /\ SenderGone(f)
  /\ wr' = Set(wr, f, IF read[f] = "ok" THEN "complete" ELSE "failed")
  /\ UNCHANGED <<fixed, pools, readers, blk, taken, pub, budget, payload, out>>

\* Without scratch: verify and persist_file.
WriteFile(f) ==
  /\ wr[f] = "complete" /\ ~Scratched
  /\ \E result \in {"published", "skipped", "failed"} : out' = Set(out, f, result)
  /\ wr' = Set(wr, f, "leaving")
  /\ UNCHANGED <<fixed, pools, readers, blk, taken, pub, budget, payload>>

\* Seeded fault: the reservation keeps its size, and gives it back again when dropped.
StageTwice(f) ==
  /\ wr[f] = "complete" /\ Scratched
  /\ \E b \in IF mode = "compress" THEN 0 .. res[f] ELSE {res[f]} :
       used' = used - (res[f] - b)
  /\ hold' = Set(hold, f, "staged")
  /\ wr' = Set(wr, f, "staged")
  /\ UNCHANGED <<fixed, pools, readers, blk, taken, pub, stopped, res, payload, out>>

\* With scratch: the reservation shrinks to what the payload takes (not decompressing).
Stage(f) ==
  /\ wr[f] = "complete" /\ Scratched
  /\ \E b \in IF mode = "compress" THEN 0 .. res[f] ELSE {res[f]} :
       /\ used' = used - (res[f] - b)
       /\ res' = Set(res, f, b)
  /\ hold' = Set(hold, f, "staged")
  /\ wr' = Set(wr, f, "staged")
  /\ UNCHANGED <<fixed, pools, readers, blk, taken, pub, stopped, payload, out>>

SendToPublisher(f) ==
  /\ wr[f] = "staged"
  /\ RoomFor("publisher", {g \in Files : pub[g] = "queued"})
  /\ wr' = Set(wr, f, "leaving")
  /\ pub' = Set(pub, f, "queued")
  /\ UNCHANGED <<fixed, pools, readers, blk, taken, budget, payload, out>>

\* A failed writer drops its payload (which ignores that it cannot be deleted) and
\* then its reservation.
Abandon(f) ==
  /\ wr[f] = "failed"
  /\ payload' \in {payload \ {f}}
                     \cup (IF "writer" \in DeleteFails THEN {payload} ELSE {})
  /\ Release(f)
  /\ out' = Set(out, f, "failed")
  /\ wr' = Set(wr, f, "leaving")
  /\ UNCHANGED <<fixed, pools, readers, blk, taken, pub, stopped>>

WriterGone(f) ==
  /\ wr[f] = "leaving"
  /\ wr' = Set(wr, f, "gone")
  /\ UNCHANGED <<fixed, pools, readers, blk, taken, pub, budget, payload, out>>

Writer(f) ==
  \/ TakeStream(f) \/ TakeSlot(f) \/ WriteBlock(f) \/ BlockLost(f) \/ StreamFails(f)
  \/ GiveUp(f) \/ StreamEnds(f) \/ WriteFile(f) \/ Stage(f) \/ SendToPublisher(f)
  \/ Abandon(f) \/ WriterGone(f)

-----------------------------------------------------------------------------
(* Publishers: writer.rs PublishHandler::handle_item. *)

TakeStaged(f) ==
  /\ pub[f] = "queued"
  /\ ThreadFree("publisher", {g \in Files : PublisherBusy(g)})
  /\ pub' = Set(pub, f, "publishing")
  /\ UNCHANGED <<fixed, pools, readers, blk, writers, budget, payload, out>>

Publish(f) ==
  /\ pub[f] = "publishing"
  /\ \E result \in {"published", "skipped", "failed"} : out' = Set(out, f, result)
  /\ pub' = Set(pub, f, "closing")
  /\ UNCHANGED <<fixed, pools, readers, blk, writers, budget, payload>>

\* Seeded fault: a payload that cannot be deleted is only reported.
ClosePayloadReports(f) ==
  /\ pub[f] = "closing"
  /\ pub' = Set(pub, f, "closed")
  /\ \/ payload' = payload \ {f}
     \/ "publisher" \in DeleteFails /\ payload' = payload
  /\ UNCHANGED <<fixed, pools, readers, blk, writers, budget, out>>

\* If the payload cannot be deleted, the budget stops before its space is released.
ClosePayload(f) ==
  /\ pub[f] = "closing"
  /\ pub' = Set(pub, f, "closed")
  /\ \/ payload' = payload \ {f} /\ UNCHANGED stopped
     \/ "publisher" \in DeleteFails /\ payload' = payload /\ stopped' = TRUE
  /\ UNCHANGED <<fixed, pools, readers, blk, writers, used, hold, res, out>>

ReleaseStaged(f) ==
  /\ pub[f] = "closed"
  /\ Release(f)
  /\ pub' = Set(pub, f, "gone")
  /\ UNCHANGED <<fixed, pools, readers, blk, writers, stopped, payload, out>>

Publisher(f) ==
  \/ TakeStaged(f) \/ Publish(f) \/ ClosePayload(f) \/ ReleaseStaged(f)

-----------------------------------------------------------------------------
(* The main thread: scan, and the drop of BackgroundThreads after it. *)

Submit(f) ==
  /\ main = "scan" /\ rd[f] = "new"
  /\ RoomFor("reader", {g \in Files : rd[g] = "queued"})
  /\ rd' = Set(rd, f, "queued")
  /\ UNCHANGED <<fixed, pools, made, read, blk, writers, pub, budget, payload, out>>

WalkEnds ==
  /\ main = "scan" /\ \A f \in Files : rd[f] # "new"
  /\ main' = "stats"
  /\ UNCHANGED <<fixed, joined, up, readers, blk, writers, pub, budget, payload, out>>

\* The statistics come when the last Context, and with it the operation, is dropped.
ScanReturns ==
  /\ main = "stats" /\ \A f \in Files : ~ContextAlive(f)
  /\ main' = "dropping"
  /\ UNCHANGED <<fixed, joined, up, readers, blk, writers, pub, budget, payload, out>>

\* Seeded fault: the compressors are dropped before the readers that feed them.
CompressorFirst == <<"compressor", "reader", "writer", "publisher">>

\* The order of the fields of BackgroundThreads.
DropOrder == <<"reader", "compressor", "writer", "publisher">>

\* Dropping a BgWorker drops its sender and then joins its threads.
Join ==
  /\ main = "dropping" /\ joined < Len(DropOrder)
  /\ DropOrder[joined + 1] \notin up
  /\ joined' = joined + 1
  /\ main' = IF joined' = Len(DropOrder) THEN "stopped" ELSE "dropping"
  /\ UNCHANGED <<fixed, up, readers, blk, writers, pub, budget, payload, out>>

\* The other pools whose handlers keep a sender of this pool's channel.
Feeders(pool) ==
  CASE pool = "reader" -> {}
    [] pool = "compressor" -> {"reader"}
    [] pool = "writer" -> {"reader"}
    [] pool = "publisher" -> {"writer"}

SendersDropped(pool) ==
  /\ main = "dropping"
  /\ \E i \in 1 .. joined + 1 : DropOrder[i] = pool
  /\ Feeders(pool) \cap up = {}

\* Idle threads leave their loop when the channel is disconnected.  (Nothing is
\* queued any more: scan has returned.)
PoolExits(pool) ==
  /\ pool \in up /\ SendersDropped(pool)
  /\ up' = up \ {pool}
  /\ UNCHANGED <<fixed, main, joined, readers, blk, writers, pub, budget, payload, out>>

Main == (\E f \in Files : Submit(f)) \/ WalkEnds \/ ScanReturns \/ Join

-----------------------------------------------------------------------------

All(v) == [f \in Files |-> v]

Init ==
  /\ setup \in Setups
  /\ size \in [Files -> IF Scratched THEN Sizes ELSE {0}]
  /\ main = "scan" /\ joined = 0
  /\ up = IF Scratched THEN Pools ELSE Pools \ {"publisher"}
  /\ rd = All("new") /\ made = All(0) /\ read = All("none")
  /\ blk = All([k \in Blocks |-> "none"])
  /\ wr = All("none") /\ taken = All(0) /\ pub = All("none")
  /\ used = 0 /\ stopped = FALSE /\ hold = All("none") /\ res = All(0)
  /\ payload = {} /\ out = All("none")

Terminated == main = "stopped" /\ UNCHANGED vars

Next ==
  \/ Main
  \/ \E f \in Files :
       Reader(f) \/ Writer(f) \/ Publisher(f) \/ \E k \in Blocks : Compressor(f, k)
  \/ \E pool \in Pools : PoolExits(pool)
  \/ Terminated

\* Every thread keeps running, and every queued item is taken in the end.
Fairness ==
  /\ WF_vars(Main)
  /\ \A f \in Files :
       /\ WF_vars(Reader(f)) /\ WF_vars(Writer(f)) /\ WF_vars(Publisher(f))
       /\ \A k \in Blocks : WF_vars(Compressor(f, k))
  /\ \A pool \in Pools : WF_vars(PoolExits(pool))

Spec == Init /\ [][Next]_vars
FairSpec == Spec /\ Fairness

-----------------------------------------------------------------------------
(* Properties. *)

TypeOK ==
  /\ setup \in Setups /\ size \in [Files -> Sizes \cup {0}]
  /\ main \in {"scan", "stats", "dropping", "stopped"}
  /\ joined \in 0 .. 4 /\ up \subseteq Pools
  /\ rd \in [Files -> {"new", "queued", "reserving", "opening", "sending", "reading",
                       "holding", "closing", "finishing", "leaving", "gone"}]
  /\ made \in [Files -> 0 .. BlockCount] /\ taken \in [Files -> 0 .. BlockCount]
  /\ read \in [Files -> {"none", "ok", "err"}]
  /\ blk \in [Files -> [Blocks -> {"none", "held", "queued", "compressing",
                                   "full", "lost"}]]
  /\ wr \in [Files -> {"none", "queued", "draining", "waiting", "finishing", "failed",
                       "complete", "staged", "leaving", "gone"}]
  /\ pub \in [Files -> {"none", "queued", "publishing", "closing", "closed", "gone"}]
  /\ used \in 0 .. Limit /\ stopped \in BOOLEAN /\ res \in [Files -> 0 .. Limit]
  /\ hold \in [Files -> {"none", "held", "staged", "gone"}]
  /\ payload \subseteq Files
  /\ out \in [Files -> {"none", "refused", "failed", "skipped", "published"}]

\* A file is only replaced by a complete one: the reader read all of it, and every
\* block was compressed and written.
PublishedComplete ==
  \A f \in Files : out[f] = "published" =>
    /\ read[f] = "ok" /\ taken[f] = setup.blocks
    /\ \A k \in 1 .. setup.blocks : blk[f][k] = "full"

\* Who verifies a file has the only reference to the source: Arc::get_mut does not
\* panic (writer.rs:308-309).
VerifierOwnsSource ==
  \A f \in Files :
    (wr[f] = "complete" /\ ~Scratched) \/ pub[f] = "publishing" => ~ReaderHasSource(f)

\* While the budget admits files, every payload in scratch is covered by a reservation
\* (scratch.rs:312, "kept until the associated payload has been deleted or freed,
\* including on errors").
BacklogCovered ==
  ~stopped => \A f \in payload : hold[f] \in {"held", "staged"}

\* No file, however it fails, stalls the others: every file is settled, the scan
\* returns and all threads are joined.
EverythingEnds ==
  <>(main = "stopped" /\ up = {} /\ \A f \in Files : out[f] # "none")

\* The budget as readers, writers and publishers use it is the one of scratch.rs.
RequestState(f) ==
  IF hold[f] # "none" THEN hold[f]
  ELSE IF out[f] = "refused" \/ (rd[f] = "reserving" /\ size[f] > Limit) THEN "refused"
  ELSE IF rd[f] = "reserving" THEN "trying"
  ELSE "new"

Budget == INSTANCE ScratchBudget
            WITH Requests <- Files,
                 st <- [f \in Files |-> RequestState(f)],
                 want <- [f \in Files |-> IF RequestState(f) = "new" THEN 0 ELSE size[f]]

\* Files that compete for scratch space use the budget as ScratchBudget defines it,
\* so that what is proved of the budget holds in the pipeline.
ImplementsScratchBudget == Budget!Spec
=============================================================================
