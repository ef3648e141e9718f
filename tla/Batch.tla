------------------------------- MODULE Batch -------------------------------
(***************************************************************************)
(* Scratch batches: applesauce/src/threads/batching.rs, with the reader,   *)
(* staging writer and publisher threads that it paces.                     *)
(*                                                                         *)
(* The scanning thread (the coordinator) admits files until their          *)
(* reservations would pass Target, waits until every admitted reader and   *)
(* writer is finished with its file, publishes what was staged, flushes,   *)
(* and goes on.  A file's reader and writer share a Completion, whose last *)
(* drop tells the coordinator; a publisher answers each file it was sent.  *)
(*                                                                         *)
(* Every file has its own reader and writer here, which allows every order *)
(* that 8 readers and 16 writers taking files from queues allow.           *)
(***************************************************************************)
EXTENDS Integers, FiniteSets

CONSTANTS
  Limit,        \* the scratch limit
  Target,       \* the batch reservation target
  FileCount,    \* how many files the walk submits
  Sizes,        \* the worst-case reservations a file may need
  QueueCap,     \* capacity of the publisher queue
  Publishers    \* number of publisher threads

ASSUME BatchAssumption ==
  /\ Limit \in Nat \ {0} /\ FileCount \in Nat /\ Sizes \subseteq Nat
  /\ QueueCap \in Nat \ {0} /\ Publishers \in Nat \ {0}
  /\ Target \in 1 .. Limit       \* FileCompressor::from_scratch rejects any other

Files == 1 .. FileCount

VARIABLES
  size,      \* each file's worst-case reservation; does not change
  co,        \* where the coordinator is
  next,      \* the next file of the walk
  back,      \* where the coordinator goes after draining
  pending,   \* Batch::pending
  used, stopped,     \* the scratch budget
  hold,      \* each file's Reservation: "none", "held", "staged" or "gone"
  res,       \* Reservation::bytes
  rd, wr,    \* each file's reader and writer
  stream,    \* what the reader told the writer: "open", "ok" or "err"
  comp,      \* each file's Completion
  pay,       \* each file's StagedFile
  out        \* what became of each file

budget == <<used, stopped, hold, res>>
coord == <<co, next, back, pending>>
vars == <<size, co, next, back, pending, used, stopped, hold, res,
          rd, wr, stream, comp, pay, out>>

\* A Completion is "live" while its reader or writer has it, then "sent", then
\* "received" by the coordinator and "settled" when the batch is over.
InBatch(f) == comp[f] \in {"live", "sent", "received"}
ReaderHasCompletion(f) == rd[f] \in {"queued", "reading", "ended"}
WriterHasCompletion(f) == wr[f] \in {"queued", "staged", "failed"}

Set(fn, f, v) == [fn EXCEPT ![f] = v]

\* Definitions marked "Seeded fault" are not the code's: each is the next definition
\* with a plausible bug, and shows that a property can fail.

\* Seeded fault: a dropped reservation does not give its bytes back.
ReleaseLeaks(f) ==
  /\ used' = used
  /\ res' = Set(res, f, 0)
  /\ hold' = Set(hold, f, "gone")

\* Dropping a reservation.
Release(f) ==
  /\ used' = used - res[f]
  /\ res' = Set(res, f, 0)
  /\ hold' = Set(hold, f, "gone")

-----------------------------------------------------------------------------
(* The coordinator: Batch::submit and Batch::drain on the scanning thread. *)

SaturatingSub(a, b) == IF a > b THEN a - b ELSE 0

\* Seeded fault: a batch of one file is not drained.
DrainFromSecond ==
  /\ size[next] <= Limit
  /\ pending > 1
  /\ size[next] > SaturatingSub(Target, used)

MustDrainFirst ==
  /\ size[next] <= Limit
  /\ pending > 0
  /\ size[next] > SaturatingSub(Target, used)

Submit ==
  /\ co = "walk" /\ next <= FileCount
  /\ co' = IF MustDrainFirst THEN "collect" ELSE "reserve"
  /\ back' = "reserve"
  /\ UNCHANGED <<size, next, pending, budget, rd, wr, stream, comp, pay, out>>

\* reserve_bytes refuses: the file does not fit the limit, or the budget stopped.
Refuse ==
  /\ co = "reserve"
  /\ size[next] > Limit \/ stopped
  /\ out' = Set(out, next, "refused")
  /\ co' = "walk" /\ next' = next + 1
  /\ UNCHANGED <<size, back, pending, budget, rd, wr, stream, comp, pay>>

\* Seeded fault: a file above the target is not drained at once.
AdmitTogether ==
  /\ co = "reserve"
  /\ ~stopped /\ size[next] <= Limit - used
  /\ used' = used + size[next]
  /\ res' = Set(res, next, size[next])
  /\ hold' = Set(hold, next, "held")
  /\ pending' = pending + 1
  /\ rd' = Set(rd, next, "queued")
  /\ comp' = Set(comp, next, "live")
  /\ co' = "walk"
  /\ back' = "walk"
  /\ next' = next + 1
  /\ UNCHANGED <<size, stopped, wr, stream, pay, out>>

\* reserve_bytes grants, waiting until there is room.  A file above the target is
\* drained at once.
Admit ==
  /\ co = "reserve"
  /\ ~stopped /\ size[next] <= Limit - used
  /\ used' = used + size[next]
  /\ res' = Set(res, next, size[next])
  /\ hold' = Set(hold, next, "held")
  /\ pending' = pending + 1
  /\ rd' = Set(rd, next, "queued")
  /\ comp' = Set(comp, next, "live")
  /\ co' = IF size[next] > Target THEN "collect" ELSE "walk"
  /\ back' = "walk"
  /\ next' = next + 1
  /\ UNCHANGED <<size, stopped, wr, stream, pay, out>>

\* The walk is over: drain what is left, if anything.
WalkEnds ==
  /\ co = "walk" /\ next > FileCount
  /\ co' = IF pending = 0 THEN "stats" ELSE "collect"
  /\ back' = "stats"
  /\ UNCHANGED <<size, next, pending, budget, rd, wr, stream, comp, pay, out>>

Received == {f \in Files : comp[f] = "received"}

Collect(f) ==
  /\ co = "collect" /\ comp[f] = "sent"
  /\ comp' = Set(comp, f, "received")
  /\ pay' = IF pay[f] = "completed" THEN Set(pay, f, "collected") ELSE pay
  /\ UNCHANGED <<size, coord, budget, rd, wr, stream, out>>

CollectedAll ==
  /\ co = "collect" /\ Cardinality(Received) = pending
  /\ co' = "publish"
  /\ UNCHANGED <<size, next, back, pending, budget, rd, wr, stream, comp, pay, out>>

SendToPublisher(f) ==
  /\ co = "publish" /\ pay[f] = "collected"
  /\ Cardinality({g \in Files : pay[g] = "queued"}) < QueueCap
  /\ pay' = Set(pay, f, "queued")
  /\ UNCHANGED <<size, coord, budget, rd, wr, stream, comp, out>>

\* All are sent and all acknowledged.
AllAcknowledged ==
  /\ co = "publish"
  /\ \A f \in Files : pay[f] \in {"none", "acked"}
  /\ co' = "flush"
  /\ UNCHANGED <<size, next, back, pending, budget, rd, wr, stream, comp, pay, out>>

\* One volume per staged file's device; a failing flush stops the scratch budget.
Flush ==
  /\ co = "flush"
  /\ \/ UNCHANGED stopped
     \/ stopped' = TRUE /\ \E f \in Received : pay[f] = "acked"
  /\ comp' = [f \in Files |-> IF f \in Received THEN "settled" ELSE comp[f]]
  /\ pending' = 0
  /\ co' = back
  /\ UNCHANGED <<size, next, back, used, hold, res, rd, wr, stream, pay, out>>

\* scan returns once every file's Context is dropped.
ContextAlive(f) ==
  \/ rd[f] \notin {"none", "gone"} \/ wr[f] \notin {"none", "gone"}
  \/ pay[f] \notin {"none", "acked"}

ScanReturns ==
  /\ co = "stats"
  /\ \A f \in Files : ~ContextAlive(f)
  /\ co' = "done"
  /\ UNCHANGED <<size, next, back, pending, budget, rd, wr, stream, comp, pay, out>>

Coordinator ==
  \/ Submit \/ Refuse \/ Admit \/ WalkEnds
  \/ \E f \in Files : Collect(f) \/ SendToPublisher(f)
  \/ CollectedAll \/ AllAcknowledged \/ Flush \/ ScanReturns

-----------------------------------------------------------------------------
(* A file's reader: reader.rs Handler::handle_item. *)

\* Seeded fault: whoever is done first, for instance a failed writer, sends.
CompletionUnshared(f, otherHasIt) == comp' = Set(comp, f, "sent")

\* What a thread's last use of the Completion does to it.
DropCompletion(f, otherHasIt) ==
  comp' = IF otherHasIt THEN comp ELSE Set(comp, f, "sent")

OpenFails(f) ==
  /\ rd[f] = "queued"
  /\ Release(f)
  /\ rd' = Set(rd, f, "ended")
  /\ out' = Set(out, f, "failed")
  /\ UNCHANGED <<size, coord, stopped, wr, stream, comp, pay>>

StartReading(f) ==
  /\ rd[f] = "queued"
  /\ rd' = Set(rd, f, "reading")
  /\ wr' = Set(wr, f, "queued")
  /\ UNCHANGED <<size, coord, budget, stream, comp, pay, out>>

FinishReading(f) ==
  /\ rd[f] = "reading"
  /\ rd' = Set(rd, f, "ended")
  /\ \E result \in {"ok", "err"} : stream' = Set(stream, f, result)
  /\ UNCHANGED <<size, coord, budget, wr, comp, pay, out>>

\* Locals go in reverse order: the reservation (above), the completion, the context.
ReaderLeaves(f) ==
  /\ rd[f] = "ended"
  /\ rd' = Set(rd, f, "closing")
  /\ DropCompletion(f, WriterHasCompletion(f))
  /\ UNCHANGED <<size, coord, budget, wr, stream, pay, out>>

ReaderGone(f) ==
  /\ rd[f] = "closing"
  /\ rd' = Set(rd, f, "gone")
  /\ UNCHANGED <<size, coord, budget, wr, stream, comp, pay, out>>

-----------------------------------------------------------------------------
(* A file's staging writer: writer.rs Handler::handle_item and stage_*_file. *)

\* Seeded fault: the reservation keeps its size, and gives it back again when dropped.
StageTwice(f) ==
  /\ wr[f] = "queued" /\ stream[f] = "ok"
  /\ \E b \in 0 .. res[f] : used' = used - (res[f] - b)
  /\ hold' = Set(hold, f, "staged")
  /\ wr' = Set(wr, f, "staged")
  /\ UNCHANGED <<size, coord, stopped, res, rd, stream, comp, pay, out>>

\* Every block arrived and is in scratch; compressing, the reservation shrinks.
Stage(f) ==
  /\ wr[f] = "queued" /\ stream[f] = "ok"
  /\ \E b \in 0 .. res[f] :
       /\ used' = used - (res[f] - b)
       /\ res' = Set(res, f, b)
  /\ hold' = Set(hold, f, "staged")
  /\ wr' = Set(wr, f, "staged")
  /\ UNCHANGED <<size, coord, stopped, rd, stream, comp, pay, out>>

\* Not compressible enough, an I/O error, or the reader failed.
StageFails(f) ==
  /\ wr[f] = "queued"
  /\ Release(f)
  /\ wr' = Set(wr, f, "failed")
  /\ UNCHANGED <<size, coord, stopped, rd, stream, comp, pay, out>>

\* Seeded fault: a failed writer keeps its Completion.
WriterKeepsCompletion(f) ==
  /\ wr[f] \in {"staged", "failed"}
  /\ wr' = Set(wr, f, IF wr[f] = "staged" THEN "closing" ELSE "reporting")
  /\ pay' = IF wr[f] = "staged" THEN Set(pay, f, "completed") ELSE pay
  /\ DropCompletion(f, ReaderHasCompletion(f) \/ wr[f] = "failed")
  /\ UNCHANGED <<size, coord, budget, rd, stream, out>>

\* Completion::finish, or on failure the item's drop, which comes before the report.
WriterLeaves(f) ==
  /\ wr[f] \in {"staged", "failed"}
  /\ wr' = Set(wr, f, IF wr[f] = "staged" THEN "closing" ELSE "reporting")
  /\ pay' = IF wr[f] = "staged" THEN Set(pay, f, "completed") ELSE pay
  /\ DropCompletion(f, ReaderHasCompletion(f))
  /\ UNCHANGED <<size, coord, budget, rd, stream, out>>

WriterGone(f) ==
  /\ wr[f] \in {"closing", "reporting"}
  /\ wr' = Set(wr, f, "gone")
  /\ out' = IF wr[f] = "reporting" THEN Set(out, f, "failed") ELSE out
  /\ UNCHANGED <<size, coord, budget, rd, stream, comp, pay>>

-----------------------------------------------------------------------------
(* The publishers: writer.rs PublishHandler::handle_item. *)

StartPublishing(f) ==
  /\ pay[f] = "queued"
  /\ Cardinality({g \in Files : pay[g] \in {"publishing", "closing", "closed", "released"}})
       < Publishers
  /\ pay' = Set(pay, f, "publishing")
  /\ UNCHANGED <<size, coord, budget, rd, wr, stream, comp, out>>

Publish(f) ==
  /\ pay[f] = "publishing"
  /\ \E result \in {"published", "skipped", "failed"} : out' = Set(out, f, result)
  /\ pay' = Set(pay, f, "closing")
  /\ UNCHANGED <<size, coord, budget, rd, wr, stream, comp>>

\* The payload is deleted; if it cannot be, the budget is stopped.
ClosePayload(f) ==
  /\ pay[f] = "closing"
  /\ pay' = Set(pay, f, "closed")
  /\ stopped' \in {stopped, TRUE}
  /\ UNCHANGED <<size, coord, used, hold, res, rd, wr, stream, comp, out>>

ReleasePayload(f) ==
  /\ pay[f] = "closed"
  /\ pay' = Set(pay, f, "released")
  /\ Release(f)
  /\ UNCHANGED <<size, coord, stopped, rd, wr, stream, comp, out>>

\* Seeded fault: the acknowledgement does not wait for the reservation's drop.
AcknowledgeEarly(f) ==
  /\ pay[f] \in {"closed", "released"}
  /\ pay' = Set(pay, f, "acked")
  /\ UNCHANGED <<size, coord, budget, rd, wr, stream, comp, out>>

Acknowledge(f) ==
  /\ pay[f] = "released"
  /\ pay' = Set(pay, f, "acked")
  /\ UNCHANGED <<size, coord, budget, rd, wr, stream, comp, out>>

Reader(f) == OpenFails(f) \/ StartReading(f) \/ FinishReading(f)
               \/ ReaderLeaves(f) \/ ReaderGone(f)
Writer(f) == Stage(f) \/ StageFails(f) \/ WriterLeaves(f) \/ WriterGone(f)
Publisher(f) == StartPublishing(f) \/ Publish(f) \/ ClosePayload(f)
                  \/ ReleasePayload(f) \/ Acknowledge(f)

-----------------------------------------------------------------------------

All(v) == [f \in Files |-> v]

Init ==
  /\ size \in [Files -> Sizes]
  /\ co = "walk" /\ next = 1 /\ back = "walk" /\ pending = 0
  /\ used = 0 /\ stopped = FALSE /\ hold = All("none") /\ res = All(0)
  /\ rd = All("none") /\ wr = All("none") /\ stream = All("open")
  /\ comp = All("none") /\ pay = All("none") /\ out = All("none")

Terminated == co = "done" /\ UNCHANGED vars

Next ==
  \/ Coordinator
  \/ \E f \in Files : Reader(f) \/ Writer(f) \/ Publisher(f)
  \/ Terminated

\* Every thread keeps running.
Fairness ==
  /\ WF_vars(Coordinator)
  /\ \A f \in Files : WF_vars(Reader(f)) /\ WF_vars(Writer(f)) /\ WF_vars(Publisher(f))

Spec == Init /\ [][Next]_vars
FairSpec == Spec /\ Fairness

-----------------------------------------------------------------------------
(* Properties. *)

TypeOK ==
  /\ size \in [Files -> Sizes]
  /\ co \in {"walk", "reserve", "collect", "publish", "flush", "stats", "done"}
  /\ next \in 1 .. FileCount + 1 /\ pending \in 0 .. FileCount
  /\ back \in {"walk", "reserve", "stats"}
  /\ used \in 0 .. Limit /\ stopped \in BOOLEAN
  /\ hold \in [Files -> {"none", "held", "staged", "gone"}]
  /\ res \in [Files -> 0 .. Limit]
  /\ rd \in [Files -> {"none", "queued", "reading", "ended", "closing", "gone"}]
  /\ wr \in [Files -> {"none", "queued", "staged", "failed", "closing", "reporting", "gone"}]
  /\ stream \in [Files -> {"open", "ok", "err"}]
  /\ comp \in [Files -> {"none", "live", "sent", "received", "settled"}]
  /\ pay \in [Files -> {"none", "completed", "collected", "queued", "publishing",
                        "closing", "closed", "released", "acked"}]
  /\ out \in [Files -> {"none", "refused", "failed", "skipped", "published"}]

\* The scanning thread never waits for scratch space: nobody publishes while it
\* admits, so it would wait forever.  reserved_bytes is read before, and outside,
\* the reservation it justifies.
CoordinatorNeverWaits ==
  co = "reserve" /\ ~stopped /\ size[next] <= Limit => size[next] <= Limit - used

\* While a batch is published and flushed no file is being read or staged, not even
\* by the reader of a file whose staging failed early.
PhasesSeparate ==
  /\ co \in {"publish", "flush"} =>
       \A f \in Files : ~ReaderHasCompletion(f) /\ ~WriterHasCompletion(f)
  /\ (\E f \in Files : pay[f] \in {"queued", "publishing", "closing", "closed", "released"})
       => co = "publish"

\* A batch never reserves more than its target, however reservations shrink and drop
\* while files are admitted.  A file above the target is a batch by itself, and stays
\* alone even when its reservation shrinks below it.
BatchBounded ==
  /\ used <= Target \/ pending = 1
  /\ \A f \in Files : InBatch(f) /\ size[f] > Target => pending = 1

\* Between batches nothing is left in scratch: every reservation is released and every
\* staged file was published, whichever of them failed on the way.
DrainedClean ==
  pending = 0 => used = 0 /\ \A f \in Files : pay[f] \in {"none", "acked"}

\* The scan returns, and by then every file was published, skipped, failed or refused.
EveryFileSettles == <>(co = "done" /\ \A f \in Files : out[f] # "none")

\* The scratch budget as the files use it.  A file asks for space from the moment the
\* coordinator decided to reserve, before any drain that makes room for it.
Asking == co = "reserve" \/ (back = "reserve" /\ co \in {"collect", "publish", "flush"})

RequestState(f) ==
  IF hold[f] # "none" THEN hold[f]
  ELSE IF out[f] = "refused" THEN "refused"
  ELSE IF f = next /\ Asking
       THEN IF size[f] > Limit THEN "refused" ELSE "trying"
       ELSE "new"

Budget == INSTANCE ScratchBudget
            WITH Requests <- Files,
                 st <- [f \in Files |-> RequestState(f)],
                 want <- [f \in Files |-> IF RequestState(f) = "new" THEN 0 ELSE size[f]]

\* Batches use the budget as scratch.rs defines it: what ScratchBudgetProofs proves
\* of the budget holds here.
ImplementsScratchBudget == Budget!Spec
=============================================================================
