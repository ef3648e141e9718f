---------------------------- MODULE BatchProofs ----------------------------
(***************************************************************************)
(* For every number of files, publishers and sizes, every limit and every  *)
(* target up to it: the scratch batches of Batch are bounded, end clean,   *)
(* keep their phases apart, and never make the scanning thread wait for    *)
(* space.                                                                  *)
(*                                                                         *)
(* The invariant says of each file where its Completion, its payload and   *)
(* its reservation are (Local), of the coordinator that `pending' counts   *)
(* the files of the batch and `used' stays within what it decided (Paced), *)
(* and of the budget what ScratchBudgetProofs proves.  That nothing is     *)
(* pending and that nothing is reserved is then the same.                  *)
(***************************************************************************)
EXTENDS Batch, FiniteSetTheorems, TLAPS

\* The types of the variables, but for the bounds on the counters.
Typed ==
  /\ size \in [Files -> Sizes]
  /\ co \in {"walk", "reserve", "collect", "publish", "flush", "stats", "done"}
  /\ next \in 1 .. FileCount + 1 /\ pending \in Nat
  /\ back \in {"walk", "reserve", "stats"}
  /\ used \in Int /\ stopped \in BOOLEAN
  /\ hold \in [Files -> {"none", "held", "staged", "gone"}]
  /\ res \in [Files -> Nat]
  /\ rd \in [Files -> {"none", "queued", "reading", "ended", "closing", "gone"}]
  /\ wr \in [Files -> {"none", "queued", "staged", "failed", "closing", "reporting",
                       "gone"}]
  /\ stream \in [Files -> {"open", "ok", "err"}]
  /\ comp \in [Files -> {"none", "live", "sent", "received", "settled"}]
  /\ pay \in [Files -> {"none", "completed", "collected", "queued", "publishing",
                        "closing", "closed", "released", "acked"}]
  /\ out \in [Files -> {"none", "refused", "failed", "skipped", "published"}]

\* A file before the coordinator reached it, or refused.
Outside(f) ==
  hold[f] = "none" /\ rd[f] = "none" /\ wr[f] = "none" /\ pay[f] = "none"

\* A file's reader and writer, and the Completion they share.
Shared(f) ==
  /\ comp[f] = "none" <=> rd[f] = "none"
  /\ comp[f] = "none" => Outside(f)
  /\ comp[f] = "live" <=> ReaderHasCompletion(f) \/ WriterHasCompletion(f)
  /\ rd[f] = "queued" => wr[f] = "none"
  /\ rd[f] = "reading" => wr[f] # "none"

\* Where a payload is once it was sent to a publisher.
InPublisher == {"queued", "publishing", "closing", "closed", "released"}

\* A payload goes from the writer to the coordinator, and then to a publisher and back
\* while the coordinator waits for it.
Handed(f) ==
  /\ pay[f] # "none" => wr[f] \in {"closing", "gone"}
  /\ pay[f] = "completed" => comp[f] \in {"live", "sent"}
  /\ pay[f] = "collected" => comp[f] = "received" /\ co \in {"collect", "publish"}
  /\ pay[f] \in InPublisher => comp[f] = "received" /\ co = "publish"
  /\ pay[f] = "acked" => comp[f] \in {"received", "settled"}

\* Whoever works on the file has its reservation; when nobody does, it is released.
Held(f) ==
  /\ comp[f] # "none" => hold[f] # "none" /\ out[f] # "refused"
  /\ rd[f] = "queued" \/ wr[f] = "queued" => hold[f] = "held"
  /\ wr[f] = "staged" \/ (pay[f] # "none" /\ pay[f] \notin {"released", "acked"})
       => hold[f] = "staged"
  /\ comp[f] \in {"sent", "received", "settled"} /\ pay[f] \in {"none", "released", "acked"}
       => hold[f] = "gone"
  /\ wr[f] \in {"failed", "reporting"} => hold[f] = "gone" /\ pay[f] = "none"
  /\ wr[f] = "closing" => pay[f] # "none"
  /\ wr[f] = "gone" /\ pay[f] = "none" => hold[f] = "gone"
  /\ wr[f] = "none" /\ rd[f] \in {"ended", "closing", "gone"} => hold[f] = "gone"

\* What the walk has reached is admitted or refused.
Walked(f) ==
  /\ f >= next => comp[f] = "none" /\ out[f] = "none"
  /\ f < next => comp[f] # "none" \/ out[f] = "refused"

Local(f) == Shared(f) /\ Handed(f) /\ Held(f) /\ Walked(f)

\* The batch.
Members == {f \in Files : InBatch(f)}

Draining == co \in {"collect", "publish", "flush"}

\* The coordinator: pending counts the batch, and what is reserved is within the target,
\* or all of it is one file's.
Paced ==
  /\ pending = Cardinality(Members)
  /\ Asking => next <= FileCount
  /\ co \in {"publish", "flush"} => \A f \in Files : InBatch(f) => comp[f] = "received"
  /\ co = "flush" => \A f \in Files : pay[f] \in {"none", "acked"}
  /\ used <= Target \/ pending = 1
  /\ ~Draining => used <= Target
  /\ \A f \in Files : InBatch(f) /\ size[f] > Target => pending = 1 /\ Draining
  /\ co = "reserve" /\ size[next] <= Limit /\ pending > 0 => used + size[next] <= Target

-----------------------------------------------------------------------------
(* A step works on one file, or is one of the coordinator's own. *)

Step(f) == Reader(f) \/ Writer(f) \/ Publisher(f) \/ Collect(f) \/ SendToPublisher(f)

Pace ==
  \/ Submit \/ Refuse \/ Admit \/ WalkEnds
  \/ CollectedAll \/ AllAcknowledged \/ Flush \/ ScanReturns
  \/ UNCHANGED vars

\* Every step is one or the other.
LEMMA NextCases == [Next]_vars => Pace \/ \E f \in Files : Step(f)
BY DEF Next, Coordinator, Pace, Step, Terminated

\* What a file reserves is a natural number.
LEMMA SizeIsNat == ASSUME Typed, NEW f \in Files PROVE size[f] \in Nat
<1>1. Sizes \subseteq Nat
  BY BatchAssumption
<1>2. QED
  BY <1>1 DEF Typed

Same(g) ==
  /\ hold'[g] = hold[g] /\ res'[g] = res[g] /\ rd'[g] = rd[g] /\ wr'[g] = wr[g]
  /\ stream'[g] = stream[g] /\ comp'[g] = comp[g] /\ pay'[g] = pay[g] /\ out'[g] = out[g]

Apart(g) == Same(g) /\ UNCHANGED <<size, coord>>

-----------------------------------------------------------------------------
(* Steps on a file. *)

\* They keep the types.
LEMMA TypedStep ==
  ASSUME Typed, NEW f \in Files, Step(f)
  PROVE  Typed'
<1> USE DEF Typed, budget, coord, Set
<1>1. ASSUME Reader(f) PROVE Typed'
  <2>1. CASE OpenFails(f)
    BY <2>1 DEF OpenFails, Release
  <2>2. CASE StartReading(f)
    BY <2>2 DEF StartReading
  <2>3. CASE FinishReading(f)
    BY <2>3 DEF FinishReading
  <2>4. CASE ReaderLeaves(f)
    BY <2>4 DEF ReaderLeaves, DropCompletion
  <2>5. CASE ReaderGone(f)
    BY <2>5 DEF ReaderGone
  <2>6. QED
    BY <1>1, <2>1, <2>2, <2>3, <2>4, <2>5 DEF Reader
<1>2. ASSUME Writer(f) PROVE Typed'
  <2>1. CASE Stage(f)
    BY <2>1 DEF Stage
  <2>2. CASE StageFails(f)
    BY <2>2 DEF StageFails, Release
  <2>3. CASE WriterLeaves(f)
    BY <2>3 DEF WriterLeaves, DropCompletion
  <2>4. CASE WriterGone(f)
    BY <2>4 DEF WriterGone
  <2>5. QED
    BY <1>2, <2>1, <2>2, <2>3, <2>4 DEF Writer
<1>3. ASSUME Publisher(f) PROVE Typed'
  <2>1. CASE StartPublishing(f)
    BY <2>1 DEF StartPublishing
  <2>2. CASE Publish(f)
    BY <2>2 DEF Publish
  <2>3. CASE ClosePayload(f)
    BY <2>3 DEF ClosePayload
  <2>4. CASE ReleasePayload(f)
    BY <2>4 DEF ReleasePayload, Release
  <2>5. CASE Acknowledge(f)
    BY <2>5 DEF Acknowledge
  <2>6. QED
    BY <1>3, <2>1, <2>2, <2>3, <2>4, <2>5 DEF Publisher
<1>4. ASSUME Collect(f) PROVE Typed'
  BY <1>4 DEF Collect
<1>5. ASSUME SendToPublisher(f) PROVE Typed'
  BY <1>5 DEF SendToPublisher
<1>6. QED
  BY <1>1, <1>2, <1>3, <1>4, <1>5 DEF Step

\* They leave the other files and the coordinator as they are.
LEMMA OthersSame ==
  ASSUME Typed, NEW f \in Files, Step(f), NEW g \in Files, g # f
  PROVE  Apart(g)
<1> USE DEF Typed, budget, coord, Set, Same, Apart
<1>1. ASSUME Reader(f) PROVE Apart(g)
  <2>1. CASE OpenFails(f)
    BY <2>1 DEF OpenFails, Release
  <2>2. CASE StartReading(f)
    BY <2>2 DEF StartReading
  <2>3. CASE FinishReading(f)
    BY <2>3 DEF FinishReading
  <2>4. CASE ReaderLeaves(f)
    BY <2>4 DEF ReaderLeaves, DropCompletion
  <2>5. CASE ReaderGone(f)
    BY <2>5 DEF ReaderGone
  <2>6. QED
    BY <1>1, <2>1, <2>2, <2>3, <2>4, <2>5 DEF Reader
<1>2. ASSUME Writer(f) PROVE Apart(g)
  <2>1. CASE Stage(f)
    BY <2>1 DEF Stage
  <2>2. CASE StageFails(f)
    BY <2>2 DEF StageFails, Release
  <2>3. CASE WriterLeaves(f)
    BY <2>3 DEF WriterLeaves, DropCompletion
  <2>4. CASE WriterGone(f)
    BY <2>4 DEF WriterGone
  <2>5. QED
    BY <1>2, <2>1, <2>2, <2>3, <2>4 DEF Writer
<1>3. ASSUME Publisher(f) PROVE Apart(g)
  <2>1. CASE StartPublishing(f)
    BY <2>1 DEF StartPublishing
  <2>2. CASE Publish(f)
    BY <2>2 DEF Publish
  <2>3. CASE ClosePayload(f)
    BY <2>3 DEF ClosePayload
  <2>4. CASE ReleasePayload(f)
    BY <2>4 DEF ReleasePayload, Release
  <2>5. CASE Acknowledge(f)
    BY <2>5 DEF Acknowledge
  <2>6. QED
    BY <1>3, <2>1, <2>2, <2>3, <2>4, <2>5 DEF Publisher
<1>4. ASSUME Collect(f) PROVE Apart(g)
  BY <1>4 DEF Collect
<1>5. ASSUME SendToPublisher(f) PROVE Apart(g)
  BY <1>5 DEF SendToPublisher
<1>6. QED
  BY <1>1, <1>2, <1>3, <1>4, <1>5 DEF Step

\* They keep what is said of the file.
LEMMA LocalStep ==
  ASSUME Typed, NEW f \in Files, Local(f), Paced, Step(f)
  PROVE  Local(f)'
<1> USE DEF Typed, budget, coord, Set, Local, Shared, Handed, Held, Walked, Outside,
       InPublisher, ReaderHasCompletion, WriterHasCompletion
<1>1. ASSUME Reader(f) PROVE Local(f)'
  <2>1. CASE OpenFails(f)
    BY <2>1 DEF OpenFails, Release
  <2>2. CASE StartReading(f)
    BY <2>2 DEF StartReading
  <2>3. CASE FinishReading(f)
    BY <2>3 DEF FinishReading
  <2>4. CASE ReaderLeaves(f)
    BY <2>4 DEF ReaderLeaves, DropCompletion
  <2>5. CASE ReaderGone(f)
    BY <2>5 DEF ReaderGone
  <2>6. QED
    BY <1>1, <2>1, <2>2, <2>3, <2>4, <2>5 DEF Reader
<1>2. ASSUME Writer(f) PROVE Local(f)'
  <2>1. CASE Stage(f)
    BY <2>1 DEF Stage
  <2>2. CASE StageFails(f)
    BY <2>2 DEF StageFails, Release
  <2>3. CASE WriterLeaves(f)
    BY <2>3 DEF WriterLeaves, DropCompletion
  <2>4. CASE WriterGone(f)
    BY <2>4 DEF WriterGone
  <2>5. QED
    BY <1>2, <2>1, <2>2, <2>3, <2>4 DEF Writer
<1>3. ASSUME Publisher(f) PROVE Local(f)'
  <2>1. CASE StartPublishing(f)
    BY <2>1 DEF StartPublishing
  <2>2. CASE Publish(f)
    BY <2>2 DEF Publish
  <2>3. CASE ClosePayload(f)
    BY <2>3 DEF ClosePayload
  <2>4. CASE ReleasePayload(f)
    BY <2>4 DEF ReleasePayload, Release
  <2>5. CASE Acknowledge(f)
    BY <2>5 DEF Acknowledge
  <2>6. QED
    BY <1>3, <2>1, <2>2, <2>3, <2>4, <2>5 DEF Publisher
<1>4. ASSUME Collect(f) PROVE Local(f)'
  BY <1>4 DEF Collect
<1>5. ASSUME SendToPublisher(f) PROVE Local(f)'
  BY <1>5 DEF SendToPublisher
<1>6. QED
  BY <1>1, <1>2, <1>3, <1>4, <1>5 DEF Step

\* What is said of a file stays true when nothing of the file changes.
LEMMA SameLocal ==
  ASSUME NEW g \in Files, Local(g), Apart(g)
  PROVE  Local(g)'
BY DEF Local, Shared, Handed, Held, Walked, Outside, InPublisher, ReaderHasCompletion,
       WriterHasCompletion, Same, Apart, coord

-----------------------------------------------------------------------------
(* Steps of the coordinator. *)

\* While it reserves, there is a file to reserve for.
LEMMA NextFile ==
  ASSUME Typed, Paced, co = "reserve"
  PROVE  next \in Files /\ next + 1 \in 1 .. FileCount + 1
BY BatchAssumption DEF Typed, Paced, Asking, Files

\* They keep the types.
LEMMA TypedPace ==
  ASSUME Typed, Paced, Pace
  PROVE  Typed'
<1> USE DEF Typed, Paced, budget, Set, Asking
<1>1. CASE Submit
  BY <1>1 DEF Submit
<1>2. CASE Refuse
  BY <1>2, NextFile DEF Refuse
<1>3. CASE Admit
  <2>1. size[next] \in Nat /\ next \in Files
    BY <1>3, NextFile, SizeIsNat DEF Admit
  <2>2. used + size[next] \in Int
    BY <2>1
  <2>3. QED
    BY <1>3, <2>1, <2>2, NextFile DEF Admit
<1>4. CASE WalkEnds
  BY <1>4 DEF WalkEnds
<1>5. CASE CollectedAll
  BY <1>5 DEF CollectedAll
<1>6. CASE AllAcknowledged
  BY <1>6 DEF AllAcknowledged
<1>7. CASE Flush
  BY <1>7 DEF Flush
<1>8. CASE ScanReturns
  BY <1>8 DEF ScanReturns
<1>9. CASE UNCHANGED vars
  BY <1>9 DEF vars
<1>10. QED
  BY <1>1, <1>2, <1>3, <1>4, <1>5, <1>6, <1>7, <1>8, <1>9 DEF Pace

\* They keep what is said of every file.
LEMMA LocalPace ==
  ASSUME Typed, Paced, Pace, \A f \in Files : Local(f), NEW g \in Files
  PROVE  Local(g)'
<1> USE DEF Typed, budget, coord, Set, Local, Shared, Handed, Held, Walked, Outside,
       InPublisher, ReaderHasCompletion, WriterHasCompletion, Paced, Draining, InBatch,
       Members, Asking
<1>1. CASE Submit
  BY <1>1 DEF Submit
<1>2. CASE Refuse
  <2>1. next \in Files /\ next \in Nat /\ g \in Nat
    BY <1>2, NextFile DEF Refuse, Files
  <2>2. CASE g = next
    BY <1>2, <2>1, <2>2 DEF Refuse
  <2>3. CASE g # next
    BY <1>2, <2>1, <2>3 DEF Refuse
  <2>4. QED
    BY <2>2, <2>3
<1>3. CASE Admit
  <2>1. next \in Files /\ next \in Nat /\ g \in Nat
    BY <1>3, NextFile DEF Admit, Files
  <2>2. CASE g = next
    BY <1>3, <2>1, <2>2 DEF Admit
  <2>3. CASE g # next
    BY <1>3, <2>1, <2>3 DEF Admit
  <2>4. QED
    BY <2>2, <2>3
<1>4. CASE WalkEnds
  BY <1>4 DEF WalkEnds
<1>5. CASE CollectedAll
  BY <1>5 DEF CollectedAll
<1>6. CASE AllAcknowledged
  BY <1>6 DEF AllAcknowledged
<1>7. CASE Flush
  <2>1. pay[g] \in {"none", "acked"} /\ next' = next
    BY <1>7 DEF Flush
  <2>2. comp'[g] = IF comp[g] = "received" THEN "settled" ELSE comp[g]
    BY <1>7 DEF Flush, Received
  <2>3. UNCHANGED <<hold, rd, wr, pay, out, next>>
    BY <1>7 DEF Flush
  <2>4. QED
    BY <2>1, <2>2, <2>3
<1>8. CASE ScanReturns
  BY <1>8 DEF ScanReturns
<1>9. CASE UNCHANGED vars
  BY <1>9 DEF vars
<1>10. QED
  BY <1>1, <1>2, <1>3, <1>4, <1>5, <1>6, <1>7, <1>8, <1>9 DEF Pace

-----------------------------------------------------------------------------
(* The batch and the budget. *)

Requested == [g \in Files |-> RequestState(g)]
Wanted == [g \in Files |-> IF RequestState(g) = "new" THEN 0 ELSE size[g]]

BudgetProofs == INSTANCE ScratchBudgetProofs
                  WITH Requests <- Files, st <- Requested, want <- Wanted

\* The budget is used within its assumptions.
LEMMA Assumed == BudgetProofs!ScratchBudgetAssumption
<1>1. IsFiniteSet(Files)
  BY BatchAssumption, FS_Interval DEF Files
<1>2. QED
  BY <1>1, BatchAssumption
     DEF BudgetProofs!ScratchBudgetAssumption, IsFiniteSet, BudgetProofs!IsFiniteSet

\* A batch is a finite set of files.
LEMMA MembersFinite == IsFiniteSet(Members) /\ Cardinality(Members) \in 0 .. FileCount
<1>1. IsFiniteSet(Files) /\ Cardinality(Files) = FileCount
  BY BatchAssumption, FS_Interval DEF Files
<1>2. Members \in SUBSET Files
  BY DEF Members
<1>3. IsFiniteSet(Members) /\ Cardinality(Members) <= FileCount
  BY <1>1, <1>2, FS_Subset
<1>4. Cardinality(Members) \in Nat
  BY <1>3, FS_CardinalityType
<1>5. QED
  BY <1>3, <1>4, BatchAssumption

\* When no file has a reservation, nothing is used.
LEMMA NothingHeld ==
  ASSUME Typed, BudgetProofs!IInv, \A f \in Files : hold[f] \in {"none", "gone"}
  PROVE  used = 0
<1>1. \A f \in Files : RequestState(f) \notin {"held", "staged"}
  BY DEF RequestState
<1>2. \A f \in Files : res[f] = 0
  BY <1>1 DEF BudgetProofs!IInv, BudgetProofs!Conserved, BudgetProofs!Live, Requested
<1>3. res = [f \in Files |-> 0]
  BY <1>2 DEF Typed
<1>4. QED
  BY <1>3, Assumed, BudgetProofs!TotalOfNothing
     DEF BudgetProofs!IInv, BudgetProofs!Conserved

\* When nothing is pending, nothing is reserved or in scratch.
LEMMA EmptyBatch ==
  ASSUME Typed, \A f \in Files : Local(f), Paced, BudgetProofs!IInv, pending = 0
  PROVE  /\ \A f \in Files : ~InBatch(f) /\ pay[f] \in {"none", "acked"}
         /\ used = 0
<1>1. Members = {}
  BY MembersFinite, FS_EmptySet DEF Paced
<1>2. \A f \in Files : comp[f] \in {"none", "settled"}
  BY <1>1 DEF Members, InBatch, Typed
<1>3. \A f \in Files : pay[f] \in {"none", "acked"} /\ hold[f] \in {"none", "gone"}
  BY <1>2 DEF Local, Shared, Outside, Handed, Held, InPublisher, Typed
<1>4. used = 0
  BY <1>3, NothingHeld
<1>5. QED
  BY <1>2, <1>3, <1>4 DEF InBatch

\* What the budget's own invariant bounds.
LEMMA UsedBounds ==
  ASSUME BudgetProofs!IInv
  PROVE  /\ used \in 0 .. Limit /\ res \in [Files -> 0 .. Limit]
         /\ Limit \in Nat /\ Target \in 1 .. Limit
BY BatchAssumption DEF BudgetProofs!IInv, BudgetProofs!TypeOK, BudgetProofs!Conserved

\* No step on a file is seen by the coordinator at once.
LEMMA StepKeepsCoord ==
  ASSUME NEW f \in Files, Step(f)
  PROVE  UNCHANGED <<size, coord>>
BY DEF Step, Reader, OpenFails, StartReading, FinishReading, ReaderLeaves, ReaderGone,
       Writer, Stage, StageFails, WriterLeaves, WriterGone, Publisher, StartPublishing,
       Publish, ClosePayload, ReleasePayload, Acknowledge, Collect, SendToPublisher

\* Steps on a file only give space back and report what the coordinator waits for.
LEMMA PacedStep ==
  ASSUME Typed, NEW f \in Files, \A g \in Files : Local(g), Paced, Step(f)
  PROVE  Paced'
<1> DEFINE Kept ==
             /\ used' <= used
             /\ InBatch(f)' <=> InBatch(f)
             /\ co \in {"publish", "flush"} /\ comp[f] = "received"
                  => comp'[f] = "received"
             /\ co = "flush" => pay'[f] \in {"none", "acked"}
<1>1. used' \in Int
  BY TypedStep DEF Typed
<1>2. Kept
  <2> USE DEF Typed, Local, Shared, Handed, Paced, InPublisher, ReaderHasCompletion,
         WriterHasCompletion, budget, Set, InBatch
  <2>1. ASSUME Reader(f) PROVE Kept
    BY <2>1 DEF Reader, OpenFails, StartReading, FinishReading, ReaderLeaves,
           ReaderGone, Release, DropCompletion
  <2>2. ASSUME Writer(f) PROVE Kept
    BY <2>2
       DEF Writer, Stage, StageFails, WriterLeaves, WriterGone, Release, DropCompletion
  <2>3. ASSUME Publisher(f) PROVE Kept
    <3>1. CASE StartPublishing(f) \/ Publish(f)
      BY <3>1 DEF StartPublishing, Publish
    <3>2. CASE ClosePayload(f)
      BY <3>2 DEF ClosePayload
    <3>3. CASE ReleasePayload(f)
      BY <3>3 DEF ReleasePayload, Release
    <3>4. CASE Acknowledge(f)
      BY <3>4 DEF Acknowledge
    <3>5. QED
      BY <2>3, <3>1, <3>2, <3>3, <3>4 DEF Publisher
  <2>4. ASSUME Collect(f) PROVE Kept
    BY <2>4 DEF Collect
  <2>5. ASSUME SendToPublisher(f) PROVE Kept
    BY <2>5 DEF SendToPublisher
  <2>6. QED
    BY <2>1, <2>2, <2>3, <2>4, <2>5 DEF Step
<1>3. UNCHANGED <<size, coord>>
  BY StepKeepsCoord
<1>4. \A g \in Files : g # f => comp'[g] = comp[g] /\ pay'[g] = pay[g]
  BY OthersSame DEF Apart, Same
<1>5. Members' = Members
  BY <1>2, <1>4 DEF Members, InBatch
<1> HIDE DEF Kept
<1>6. /\ pending' = Cardinality(Members') /\ (Asking' => next' <= FileCount)
      /\ co' \in {"publish", "flush"}
           => \A g \in Files : InBatch(g)' => comp'[g] = "received"
  BY <1>2, <1>3, <1>4, <1>5 DEF Kept, Paced, coord, Asking, InBatch
<1>7. co' = "flush" => \A g \in Files : pay'[g] \in {"none", "acked"}
  BY <1>2, <1>3, <1>4 DEF Kept, Paced, coord
<1>8. /\ used' <= Target \/ pending' = 1
      /\ ~Draining' => used' <= Target
      /\ co' = "reserve" /\ size'[next'] <= Limit /\ pending' > 0
           => used' + size'[next'] <= Target
  <2>1. (co = "reserve" => size[next] \in Nat) /\ Target \in Int
    BY NextFile, SizeIsNat, BatchAssumption
  <2>2. QED
    BY <1>1, <1>2, <1>3, <2>1 DEF Kept, Paced, coord, Draining, Typed
<1>9. \A g \in Files : InBatch(g)' /\ size'[g] > Target => pending' = 1 /\ Draining'
  BY <1>2, <1>3, <1>4 DEF Kept, Paced, coord, Draining, InBatch
<1>10. QED
  BY <1>6, <1>7, <1>8, <1>9 DEF Paced, Files

\* The coordinator's own steps keep its promise.
LEMMA PacedPace ==
  ASSUME Typed, \A g \in Files : Local(g), Paced, Pace, BudgetProofs!IInv
  PROVE  Paced'
<1> USE DEF Paced, Draining, budget
<1>1. CASE Submit
  <2>1. size[next] \in Nat /\ next \in Files
    BY <1>1, SizeIsNat, BatchAssumption DEF Submit, Typed, Files
  <2>2. MustDrainFirst \/ size[next] > Limit \/ pending = 0 \/ used + size[next] <= Target
    BY <1>1, <2>1, UsedBounds, MembersFinite DEF MustDrainFirst, SaturatingSub, Submit
  <2>3. QED
    BY <1>1, <2>1, <2>2, UsedBounds DEF Submit, MustDrainFirst, Members, InBatch, Asking
<1>2. CASE Refuse
  BY <1>2 DEF Refuse, Members, InBatch, Asking
<1>3. CASE Admit
  <2>1. next \in Files /\ size[next] \in Nat /\ comp[next] = "none"
    BY <1>3, NextFile, SizeIsNat DEF Admit, Local, Walked, Files
  <2>2. Members' = Members \cup {next} /\ next \notin Members
    BY <1>3, <2>1 DEF Admit, Members, InBatch, Typed, Set
  <2>3. pending' = Cardinality(Members')
    BY <1>3, <2>2, MembersFinite, FS_AddElement DEF Admit
  <2>4. pending = 0 => used = 0 /\ \A f \in Files : ~InBatch(f)
    BY EmptyBatch
  <2>5. used' = used + size[next] /\ pending' = pending + 1 /\ pending \in Nat /\ size' = size
    BY <1>3, MembersFinite DEF Admit, Typed
  <2>6. CASE size[next] > Target
    <3>1. pending = 0
      BY <1>3, <2>1, <2>5, <2>6, UsedBounds DEF Admit
    <3>2. co' = "collect" /\ back' = "walk" /\ pending' = 1
      BY <1>3, <2>5, <2>6, <3>1 DEF Admit
    <3>3. QED
      BY <2>3, <2>5, <3>2, UsedBounds DEF Asking
  <2>7. CASE ~(size[next] > Target)
    <3>1. co' = "walk" /\ back' = "walk" /\ used' <= Target
      BY <1>3, <2>1, <2>4, <2>5, <2>7, UsedBounds DEF Admit
    <3>2. \A f \in Files : ~(InBatch(f)' /\ size[f] > Target)
      BY <1>3, <2>1, <2>7 DEF Admit, InBatch, Set, Typed
    <3>3. QED
      BY <2>3, <2>5, <3>1, <3>2 DEF Asking
  <2>8. QED
    BY <2>6, <2>7
<1>4. CASE WalkEnds
  BY <1>4, EmptyBatch DEF WalkEnds, Members, InBatch, Asking
<1>5. CASE CollectedAll
  <2>1. Received \in SUBSET Members /\ Cardinality(Received) = Cardinality(Members)
    BY <1>5 DEF CollectedAll, Received, Members, InBatch
  <2>2. Received = Members
    BY <2>1, MembersFinite, FS_Subset
  <2>3. \A f \in Files : InBatch(f) => comp[f] = "received"
    BY <2>2 DEF Received, Members
  <2>4. QED
    BY <1>5, <2>3 DEF CollectedAll, Members, InBatch, Asking
<1>6. CASE AllAcknowledged
  BY <1>6 DEF AllAcknowledged, Members, InBatch, Asking
<1>7. CASE Flush
  <2>1. \A f \in Files : ~InBatch(f)'
    BY <1>7 DEF Flush, InBatch, Received, Typed
  <2>2. Members' = {}
    BY <2>1 DEF Members
  <2>3. pending' = 0 /\ pending' = Cardinality(Members')
    BY <1>7, <2>2, FS_EmptySet DEF Flush
  <2>4. used = 0
    <3>1. \A f \in Files : /\ comp[f] \in {"none", "settled", "received"}
                           /\ pay[f] \in {"none", "acked"}
      BY <1>7 DEF Flush, InBatch, Typed
    <3>2. \A f \in Files : hold[f] \in {"none", "gone"}
      BY <3>1 DEF Local, Shared, Outside, Held
    <3>3. QED
      BY <3>2, NothingHeld
  <2>5. QED
    BY <1>7, <2>1, <2>3, <2>4, UsedBounds DEF Flush, Asking, Typed
<1>8. CASE ScanReturns
  BY <1>8 DEF ScanReturns, Members, InBatch, Asking
<1>9. CASE UNCHANGED vars
  BY <1>9 DEF vars, Members, InBatch, Asking
<1>10. QED
  BY <1>1, <1>2, <1>3, <1>4, <1>5, <1>6, <1>7, <1>8, <1>9 DEF Pace

-----------------------------------------------------------------------------
(* Every step is one of ScratchBudget, or a stutter. *)

\* A step on a file leaves the requests of the others alone.
LEMMA OneMoves ==
  ASSUME Typed, NEW f \in Files, Step(f)
  PROVE  /\ Requested' = [Requested EXCEPT ![f] = RequestState(f)']
         /\ Wanted' = [Wanted EXCEPT ![f] =
                         IF RequestState(f)' = "new" THEN 0 ELSE size[f]]
         /\ UNCHANGED <<size, coord>>
<1>1. UNCHANGED <<size, coord>>
  BY StepKeepsCoord
<1>2. \A g \in Files : g # f => RequestState(g)' = RequestState(g)
  BY <1>1, OthersSame DEF Apart, Same, RequestState, Asking, coord
<1>3. QED
  BY <1>1, <1>2 DEF Requested, Wanted

\* Waiting for space and testing for it are the same state here ...
LEMMA NotAsleep == ASSUME Typed, NEW g \in Files PROVE RequestState(g) # "asleep"
BY DEF Typed, RequestState

\* ... so that waking everybody changes nothing.
LEMMA WokenMove ==
  ASSUME Typed, NEW f \in Files, NEW to, to # "asleep"
  PROVE  /\ BudgetProofs!Woken(BudgetProofs!Move(f, to)) = BudgetProofs!Move(f, to)
         /\ BudgetProofs!Woken(Requested) = Requested
BY NotAsleep DEF BudgetProofs!Woken, BudgetProofs!Move, Requested

\* What neither moves the request nor touches the budget is a stutter.
LEMMA BudgetQuiet ==
  ASSUME Typed, NEW f \in Files, Step(f),
         RequestState(f)' = RequestState(f), UNCHANGED <<used, stopped, res>>
  PROVE  UNCHANGED BudgetProofs!vars
<1>1. Requested' = Requested /\ Wanted' = Wanted
  BY OneMoves DEF Requested, Wanted
<1>2. QED
  BY <1>1 DEF BudgetProofs!vars

\* What each step on a file does to the budget.
LEMMA BudgetStep ==
  ASSUME Typed, BudgetProofs!IInv, NEW f \in Files, Local(f), Step(f)
  PROVE  [BudgetProofs!Next]_(BudgetProofs!vars)
<1> DEFINE Goal == [BudgetProofs!Next]_(BudgetProofs!vars)
<1>1. ASSUME RequestState(f)' = RequestState(f), UNCHANGED <<used, stopped, res>> PROVE Goal
  BY <1>1, BudgetQuiet
<1>2. ASSUME hold[f] \in {"held", "staged"}, Release(f), UNCHANGED stopped PROVE Goal
  <2>1. RequestState(f) = hold[f] /\ RequestState(f)' = "gone"
    BY <1>2 DEF RequestState, Release, Set, Typed
  <2>2. BudgetProofs!Drop(f)
    BY <1>2, <2>1, OneMoves, WokenMove
       DEF BudgetProofs!Drop, BudgetProofs!Live, BudgetProofs!Move, Requested, Wanted,
           Release, Set
  <2>3. QED
    BY <2>2 DEF BudgetProofs!Next
<1>3. CASE OpenFails(f)
  BY <1>2, <1>3 DEF OpenFails, Local, Held
<1>4. CASE StageFails(f)
  BY <1>2, <1>4 DEF StageFails, Local, Held
<1>5. CASE ReleasePayload(f)
  BY <1>2, <1>5 DEF ReleasePayload, Local, Held
<1>6. CASE Stage(f)
  <2>1. hold[f] = "held" /\ RequestState(f)' = "staged" /\ RequestState(f) = "held"
    BY <1>6 DEF Stage, Set, Local, Held, Typed, RequestState
  <2>2. PICK b \in 0 .. res[f] : used' = used - (res[f] - b) /\ res' = Set(res, f, b)
    BY <1>6 DEF Stage
  <2>3. b \in 0 .. Limit /\ b <= res[f]
    BY <2>2, UsedBounds
  <2>4. BudgetProofs!ShrinkTo(f, b)
    <3>1. Requested[f] = "held" /\ Wanted' = Wanted /\ stopped' = stopped
      BY <1>6, <2>1, OneMoves DEF Stage, Requested, Wanted
    <3>2. Requested' = BudgetProofs!Woken(BudgetProofs!Move(f, "staged"))
      BY <2>1, OneMoves, WokenMove DEF BudgetProofs!Move
    <3>3. QED
      BY <2>2, <2>3, <3>1, <3>2 DEF BudgetProofs!ShrinkTo, Set
  <2>5. QED
    BY <2>3, <2>4 DEF BudgetProofs!Next
<1>7. CASE ClosePayload(f)
  <2>1. RequestState(f)' = RequestState(f)
    BY <1>7 DEF ClosePayload, RequestState, coord, Asking
  <2>2. Requested' = Requested /\ Wanted' = Wanted
    BY <2>1, OneMoves DEF Requested, Wanted
  <2>3. stopped' \in {stopped, TRUE} /\ UNCHANGED <<used, res>>
    BY <1>7 DEF ClosePayload
  <2>4. CASE stopped' = stopped
    BY <2>2, <2>3, <2>4 DEF BudgetProofs!vars
  <2>5. CASE stopped' = TRUE
    BY <2>2, <2>3, <2>5, WokenMove DEF BudgetProofs!Stop, BudgetProofs!Next
  <2>6. QED
    BY <2>3, <2>4, <2>5
<1>8. ASSUME UNCHANGED <<size, coord, budget>>, hold[f] = "none" => UNCHANGED out
      PROVE  Goal
  BY <1>1, <1>8 DEF RequestState, Asking, coord, budget
<1>9. CASE StartReading(f) \/ FinishReading(f) \/ ReaderLeaves(f) \/ ReaderGone(f)
  BY <1>8, <1>9 DEF StartReading, FinishReading, ReaderLeaves, ReaderGone
<1>10. CASE WriterLeaves(f) \/ WriterGone(f)
  BY <1>8, <1>10 DEF WriterLeaves, WriterGone, Local, Held
<1>11. CASE StartPublishing(f) \/ Publish(f) \/ Acknowledge(f)
  BY <1>8, <1>11 DEF StartPublishing, Publish, Acknowledge, Local, Held
<1>12. CASE Collect(f) \/ SendToPublisher(f)
  BY <1>8, <1>12 DEF Collect, SendToPublisher
<1>13. QED
  BY <1>3, <1>4, <1>5, <1>6, <1>7, <1>9, <1>10, <1>11, <1>12
     DEF Step, Reader, Writer, Publisher

\* What each step of the coordinator does to the budget.
LEMMA BudgetPace ==
  ASSUME Typed, \A g \in Files : Local(g), Paced, BudgetProofs!IInv, Pace
  PROVE  [BudgetProofs!Next]_(BudgetProofs!vars)
<1> DEFINE Goal == [BudgetProofs!Next]_(BudgetProofs!vars)
<1>1. ASSUME \A g \in Files : RequestState(g)' = RequestState(g),
             UNCHANGED <<size, used, stopped, res>>
      PROVE  Goal
  <2>1. Requested' = Requested /\ Wanted' = Wanted
    BY <1>1 DEF Requested, Wanted
  <2>2. QED
    BY <1>1, <2>1 DEF BudgetProofs!vars
<1>2. CASE Submit
  <2>1. next \in Files /\ hold[next] = "none" /\ out[next] = "none" /\ ~Asking
    BY <1>2, BatchAssumption
       DEF Submit, Typed, Local, Shared, Outside, Walked, Files, Asking
  <2>2. Asking' /\ UNCHANGED <<size, next, hold, out, used, stopped, res>>
    BY <1>2 DEF Submit, Asking, budget
  <2>3. /\ RequestState(next) = "new"
        /\ RequestState(next)' = IF size[next] > Limit THEN "refused" ELSE "trying"
    BY <2>1, <2>2 DEF RequestState
  <2>4. \A g \in Files : g # next => RequestState(g)' = RequestState(g)
    BY <2>1, <2>2 DEF RequestState
  <2>5. BudgetProofs!Reserve(next, size[next])
    BY <2>1, <2>2, <2>3, <2>4
       DEF BudgetProofs!Reserve, BudgetProofs!Move, Requested, Wanted
  <2>6. size[next] \in Sizes
    BY <2>1 DEF Typed
  <2>7. QED
    BY <2>1, <2>5, <2>6 DEF BudgetProofs!Next
<1>3. ASSUME Refuse, NEW f \in Files, f = next PROVE Goal
  <2>1. hold[f] = "none" /\ out[f] = "none" /\ Asking
    BY <1>3, NextFile DEF Refuse, Local, Shared, Outside, Walked, Files, Asking
  <2>2. /\ ~Asking' /\ UNCHANGED <<size, hold, used, stopped, res>>
        /\ out'[f] = "refused" /\ \A g \in Files : g # f => out'[g] = out[g]
    BY <1>3, <2>1 DEF Refuse, Asking, budget, Set, Typed
  <2>3. /\ RequestState(f) = IF size[f] > Limit THEN "refused" ELSE "trying"
        /\ RequestState(f)' = "refused"
    BY <1>3, <2>1, <2>2 DEF RequestState
  <2>4. \A g \in Files : g # f => RequestState(g)' = RequestState(g)
    BY <1>3, <2>2 DEF RequestState
  <2>5. CASE size[f] > Limit
    <3>1. RequestState(f)' = RequestState(f)
      BY <2>3, <2>5
    <3>2. \A g \in Files : RequestState(g)' = RequestState(g)
      BY <2>4, <3>1
    <3>3. QED
      BY <1>1, <2>2, <3>2
  <2>6. CASE ~(size[f] > Limit)
    <3>1. RequestState(f) = "trying" /\ stopped
      BY <1>3, <2>3, <2>6 DEF Refuse
    <3>2. Requested' = [Requested EXCEPT ![f] = "refused"] /\ Wanted' = Wanted
      BY <2>2, <2>3, <2>4, <3>1 DEF Requested, Wanted
    <3>3. BudgetProofs!GiveUp(f)
      BY <2>1, <2>2, <3>1, <3>2 DEF BudgetProofs!GiveUp, BudgetProofs!Move, Requested
    <3>4. QED
      BY <2>1, <3>3 DEF BudgetProofs!Next, BudgetProofs!Test
  <2>7. QED
    BY <2>5, <2>6
<1>4. ASSUME Admit, NEW f \in Files, f = next PROVE Goal
  <2>1. /\ hold[f] = "none" /\ out[f] = "none"
        /\ Asking /\ size[f] \in Nat
    BY <1>4, NextFile, SizeIsNat
       DEF Admit, Local, Shared, Outside, Walked, Files, Asking
  <2>2. /\ ~Asking' /\ UNCHANGED <<size, out, stopped>> /\ size[f] <= Limit
        /\ hold'[f] = "held" /\ \A g \in Files : g # f => hold'[g] = hold[g]
    BY <1>4, <2>1, UsedBounds DEF Admit, Asking, Set, Typed
  <2>3. RequestState(f) = "trying" /\ RequestState(f)' = "held"
    BY <1>4, <2>1, <2>2, UsedBounds DEF RequestState
  <2>4. \A g \in Files : g # f => RequestState(g)' = RequestState(g)
    BY <1>4, <2>2 DEF RequestState
  <2>5. /\ Requested' = [Requested EXCEPT ![f] = "held"] /\ Requested[f] = "trying"
        /\ Wanted' = Wanted /\ Wanted[f] = size[f]
    BY <2>1, <2>2, <2>3, <2>4 DEF Requested, Wanted
  <2>6. BudgetProofs!Admit(f)
    BY <1>4, <2>2, <2>5
       DEF Admit, BudgetProofs!Admit, BudgetProofs!Fits, BudgetProofs!Move, Set
  <2>7. QED
    BY <2>1, <2>6 DEF BudgetProofs!Next, BudgetProofs!Test
<1>5. ASSUME Asking' <=> Asking, UNCHANGED <<size, next, hold, out>>
      PROVE  \A g \in Files : RequestState(g)' = RequestState(g)
  BY <1>5 DEF RequestState
<1>6. CASE WalkEnds \/ CollectedAll \/ AllAcknowledged \/ ScanReturns
  <2>1. Asking' <=> Asking
    BY <1>6 DEF WalkEnds, CollectedAll, AllAcknowledged, ScanReturns, Asking
  <2>2. QED
    BY <1>1, <1>5, <1>6, <2>1
       DEF WalkEnds, CollectedAll, AllAcknowledged, ScanReturns, budget
<1>7. CASE Flush
  <2>1. Asking' <=> Asking
    BY <1>7 DEF Flush, Asking, Typed
  <2>2. \A g \in Files : RequestState(g)' = RequestState(g)
    BY <1>5, <1>7, <2>1 DEF Flush
  <2>3. Requested' = Requested /\ Wanted' = Wanted
    BY <1>7, <2>2 DEF Requested, Wanted, Flush
  <2>4. CASE stopped' = stopped
    BY <1>7, <2>3, <2>4 DEF Flush, BudgetProofs!vars
  <2>5. CASE stopped' = TRUE
    <3>1. BudgetProofs!Woken(Requested) = Requested
      BY NotAsleep DEF BudgetProofs!Woken, Requested
    <3>2. QED
      BY <1>7, <2>3, <2>5, <3>1 DEF Flush, BudgetProofs!Stop, BudgetProofs!Next
  <2>6. QED
    BY <1>7, <2>4, <2>5 DEF Flush
<1>8. CASE UNCHANGED vars
  BY <1>1, <1>5, <1>8 DEF vars, Asking
<1>9. QED
  BY <1>2, <1>3, <1>4, <1>6, <1>7, <1>8, NextFile DEF Pace, Refuse, Admit

-----------------------------------------------------------------------------
(* The inductive invariant. *)

IInv == Typed /\ (\A f \in Files : Local(f)) /\ Paced /\ BudgetProofs!IInv

\* At first the budget is empty, and no file has asked for anything.
LEMMA InitBudget == Init => BudgetProofs!Init
<1> SUFFICES ASSUME Init PROVE BudgetProofs!Init
  OBVIOUS
<1>1. \A f \in Files : RequestState(f) = "new"
  BY DEF Init, All, RequestState, Asking
<1>2. QED
  BY <1>1 DEF Init, All, BudgetProofs!Init, Requested, Wanted

\* The invariant holds at first ...
LEMMA InitIInv == Init => IInv
<1> SUFFICES ASSUME Init PROVE IInv
  OBVIOUS
<1>1. Typed
  <2>1. /\ size \in [Files -> Sizes] /\ back \in {"walk", "reserve", "stats"}
        /\ co \in {"walk", "reserve", "collect", "publish", "flush", "stats", "done"}
        /\ pending \in Nat /\ used \in Int
    BY DEF Init
  <2>2. next \in 1 .. FileCount + 1
    BY BatchAssumption DEF Init
  <2>3. stopped \in BOOLEAN
    BY DEF Init
  <2>4. /\ hold \in [Files -> {"none", "held", "staged", "gone"}] /\ res \in [Files -> Nat]
        /\ stream \in [Files -> {"open", "ok", "err"}]
        /\ comp \in [Files -> {"none", "live", "sent", "received", "settled"}]
    BY DEF Init, All
  <2>5. /\ rd \in [Files -> {"none", "queued", "reading", "ended", "closing", "gone"}]
        /\ wr \in [Files -> {"none", "queued", "staged", "failed", "closing", "reporting",
                             "gone"}]
    BY DEF Init, All
  <2>6. /\ pay \in [Files -> {"none", "completed", "collected", "queued", "publishing",
                              "closing", "closed", "released", "acked"}]
        /\ out \in [Files -> {"none", "refused", "failed", "skipped", "published"}]
    BY DEF Init, All
  <2>7. QED
    BY <2>1, <2>2, <2>4, <2>5, <2>6, <2>3 DEF Typed
<1>2. ASSUME NEW f \in Files PROVE Local(f)
  BY DEF Init, All, Local, Shared, Handed, Held, Walked, Outside, InPublisher,
         ReaderHasCompletion, WriterHasCompletion, Files
<1>3. Members = {}
  BY DEF Init, All, Members, InBatch
<1>4. Paced
  BY <1>3, FS_EmptySet, BatchAssumption DEF Init, All, Paced, Asking, Draining, InBatch
<1>5. BudgetProofs!IInv
  BY Assumed, InitBudget, BudgetProofs!InitIInv
<1>6. QED
  BY <1>1, <1>2, <1>4, <1>5 DEF IInv

\* Every step is one of the budget.
LEMMA NextBudget == IInv /\ [Next]_vars => [BudgetProofs!Next]_(BudgetProofs!vars)
BY NextCases, BudgetStep, BudgetPace DEF IInv

\* ... and every step keeps it ...
LEMMA NextIInv == IInv /\ [Next]_vars => IInv'
<1> SUFFICES ASSUME IInv, [Next]_vars PROVE IInv'
  OBVIOUS
<1>1. BudgetProofs!IInv'
  BY Assumed, NextBudget, BudgetProofs!NextIInv DEF IInv
<1>2. ASSUME NEW f \in Files, Step(f) PROVE IInv'
  <2>1. Typed'
    BY <1>2, TypedStep DEF IInv
  <2>2. ASSUME NEW g \in Files PROVE Local(g)'
    BY <1>2, LocalStep, OthersSame, SameLocal DEF IInv
  <2>3. Paced'
    BY <1>2, PacedStep DEF IInv
  <2>4. QED
    BY <1>1, <2>1, <2>2, <2>3 DEF IInv, Files
<1>3. CASE Pace
  <2>1. Typed'
    BY <1>3, TypedPace DEF IInv
  <2>2. ASSUME NEW g \in Files PROVE Local(g)'
    BY <1>3, LocalPace DEF IInv
  <2>3. Paced'
    BY <1>3, PacedPace DEF IInv
  <2>4. QED
    BY <1>1, <2>1, <2>2, <2>3 DEF IInv, Files
<1>4. QED
  BY <1>2, <1>3, NextCases

\* ... so that it always holds.
LEMMA Invariance == Spec => []IInv
BY InitIInv, NextIInv, PTL DEF Spec

\* The variables of the batches keep their types: `pending' counts at most all files, and
\* never more is reserved than the limit.
THEOREM TypeCorrect == Spec => []TypeOK
<1>1. ASSUME IInv PROVE TypeOK
  <2>1. used \in 0 .. Limit /\ res \in [Files -> 0 .. Limit]
    BY <1>1, UsedBounds DEF IInv
  <2>2. pending \in 0 .. FileCount
    BY <1>1, MembersFinite DEF IInv, Paced
  <2>3. QED
    BY <1>1, <2>1, <2>2 DEF IInv, Typed, TypeOK
<1>2. QED
  BY <1>1, Invariance, PTL

\* When the coordinator reserves space, there is space, though it read reserved_bytes
\* before and outside the reservation: it cannot wait for files that nobody publishes.
THEOREM NeverWaitsForSpace == Spec => []CoordinatorNeverWaits
<1>1. ASSUME IInv PROVE CoordinatorNeverWaits
  <2>1. SUFFICES ASSUME co = "reserve", size[next] <= Limit PROVE size[next] <= Limit - used
    BY DEF CoordinatorNeverWaits
  <2>2. /\ used \in 0 .. Limit /\ Target \in 1 .. Limit /\ Limit \in Nat
        /\ size[next] \in Nat /\ pending \in Nat
    BY <1>1, <2>1, UsedBounds, NextFile, SizeIsNat DEF IInv, Typed
  <2>3. CASE pending = 0
    BY <1>1, <2>1, <2>2, <2>3, EmptyBatch DEF IInv
  <2>4. CASE pending # 0
    BY <1>1, <2>1, <2>2, <2>4 DEF IInv, Paced
  <2>5. QED
    BY <2>3, <2>4
<1>2. QED
  BY <1>1, Invariance, PTL

\* Nobody reads or stages while a batch is published and flushed, and nobody publishes
\* otherwise.
THEOREM PhasesAreSeparate == Spec => []PhasesSeparate
<1>1. IInv => PhasesSeparate
  BY DEF IInv, Local, Shared, Handed, InPublisher, Paced, InBatch, PhasesSeparate
<1>2. QED
  BY <1>1, Invariance, PTL

\* A batch stays within its target, or is a single file.
THEOREM BatchesAreBounded == Spec => []BatchBounded
<1>1. IInv => BatchBounded
  BY DEF IInv, Paced, BatchBounded
<1>2. QED
  BY <1>1, Invariance, PTL

\* Between batches nothing is reserved and nothing is left to publish.
THEOREM BatchesLeaveNothing == Spec => []DrainedClean
<1>1. IInv => DrainedClean
  BY EmptyBatch DEF IInv, DrainedClean
<1>2. QED
  BY <1>1, Invariance, PTL

\* Batches use the budget as ScratchBudget defines it.
THEOREM BudgetImplemented == Spec => ImplementsScratchBudget
<1>1. Init => Budget!Init
  BY InitBudget DEF BudgetProofs!Init, Budget!Init, Requested, Wanted
<1>2. IInv /\ [Next]_vars => [Budget!Next]_(Budget!vars)
  <2>1. BudgetProofs!vars = Budget!vars /\ BudgetProofs!vars' = Budget!vars'
    BY DEF BudgetProofs!vars, Budget!vars, Requested, Wanted
  <2>2. BudgetProofs!Next => [Budget!Next]_(Budget!vars)
    BY DEF Requested, Wanted, BudgetProofs!Next, Budget!Next, BudgetProofs!Reserve,
           Budget!Reserve, BudgetProofs!Test, Budget!Test, BudgetProofs!Admit,
           Budget!Admit, BudgetProofs!Wait, Budget!Wait, BudgetProofs!GiveUp,
           Budget!GiveUp, BudgetProofs!SpuriousWakeup, Budget!SpuriousWakeup,
           BudgetProofs!ShrinkTo, Budget!ShrinkTo, BudgetProofs!Drop, Budget!Drop,
           BudgetProofs!Stop, Budget!Stop, BudgetProofs!Terminated, Budget!Terminated,
           BudgetProofs!Settled, Budget!Settled, BudgetProofs!Woken, Budget!Woken,
           BudgetProofs!Move, Budget!Move, BudgetProofs!Fits, Budget!Fits,
           BudgetProofs!Live, Budget!Live, BudgetProofs!vars, Budget!vars
  <2>3. QED
    BY <2>1, <2>2, NextBudget
<1>3. QED
  BY <1>1, <1>2, Invariance, PTL DEF Spec, ImplementsScratchBudget, Budget!Spec
=============================================================================
