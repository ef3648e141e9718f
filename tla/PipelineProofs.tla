--------------------------- MODULE PipelineProofs --------------------------
(***************************************************************************)
(* For every number of files, blocks and threads, every channel capacity   *)
(* and every scratch limit: the thread pools of Pipeline publish only      *)
(* complete files, the thread that verifies a file owns its source, the    *)
(* budget is used only as ScratchBudget allows, and what lies in scratch   *)
(* is covered by reservations.                                             *)
(*                                                                         *)
(* A step of the pipeline works on one file, or on none.  So the invariant *)
(* is a statement about one file, for all files: how far its threads are   *)
(* (InOrder), what has happened to its blocks (Flow) and to its            *)
(* reservation (Reserved).  Only the budget relates files to one another,  *)
(* and its invariant is taken from ScratchBudgetProofs, for the instance   *)
(* of the budget that Pipeline implements.                                 *)
(***************************************************************************)
EXTENDS Pipeline, FiniteSetTheorems, TLAPS

RdStates == {"new", "queued", "reserving", "opening", "sending", "reading",
             "holding", "closing", "finishing", "leaving", "gone"}

BlockStates == {"none", "held", "queued", "compressing", "full", "lost"}

\* The types of the variables, but for the bounds on the budget.
Typed ==
  /\ setup \in Setups /\ size \in [Files -> Sizes \cup {0}]
  /\ main \in {"scan", "stats", "dropping", "stopped"}
  /\ joined \in 0 .. 4 /\ up \subseteq Pools
  /\ rd \in [Files -> RdStates]
  /\ made \in [Files -> Nat] /\ taken \in [Files -> Nat]
  /\ read \in [Files -> {"none", "ok", "err"}]
  /\ blk \in [Files -> [Blocks -> BlockStates]]
  /\ wr \in [Files -> {"none", "queued", "draining", "waiting", "finishing", "failed",
                       "complete", "staged", "leaving", "gone"}]
  /\ pub \in [Files -> {"none", "queued", "publishing", "closing", "closed", "gone"}]
  /\ used \in Int /\ stopped \in BOOLEAN /\ res \in [Files -> Nat]
  /\ hold \in [Files -> {"none", "held", "staged", "gone"}]
  /\ payload \subseteq Files
  /\ out \in [Files -> {"none", "refused", "failed", "skipped", "published"}]

\* The reader has not yet sent the file to a writer.
Early(f) == rd[f] \in {"new", "queued", "reserving", "opening", "sending"}

\* How far reader, writer and publisher of a file are, relative to one another.
InOrder(f) ==
  /\ wr[f] # "none" => ~Early(f)
  /\ rd[f] \in {"reading", "holding", "closing", "finishing"} => wr[f] # "none"
  /\ pub[f] # "none" => wr[f] \in {"leaving", "gone"}
  /\ rd[f] = "holding" => made[f] \in 1 .. setup.blocks /\ blk[f][made[f]] = "held"
  /\ taken[f] <= made[f] /\ made[f] <= setup.blocks
  /\ wr[f] = "none" => taken[f] = 0
  /\ wr[f] = "waiting" => taken[f] >= 1

\* The blocks that the writer has written, while none was lost.
Drained(f) == IF wr[f] = "waiting" THEN 1 .. taken[f] - 1 ELSE 1 .. taken[f]

\* Everything was read, and every block was compressed and taken.
Whole(f) ==
  /\ read[f] = "ok" /\ taken[f] = made[f] /\ made[f] = setup.blocks
  /\ \A k \in 1 .. setup.blocks : blk[f][k] = "full"

\* The file went through its writer, or further.
Passed(f) == wr[f] \in {"complete", "staged"} \/ pub[f] # "none" \/ out[f] = "published"

\* Only whole files pass: what is full stays full, and the writer counts it.
Flow(f) ==
  /\ Early(f) \/ rd[f] \in {"reading", "holding"} => read[f] = "none"
  /\ read[f] = "ok" /\ wr[f] \in {"queued", "draining", "waiting", "finishing"}
       => made[f] = setup.blocks
  /\ wr[f] \in {"none", "queued", "draining", "waiting"}
       => \A k \in Drained(f) : blk[f][k] = "full"
  /\ Passed(f) => SenderGone(f) /\ Whole(f)

Unreserved(f) == rd[f] \in {"new", "queued", "reserving"} \/ out[f] = "refused"
Staging(f) == wr[f] \in {"queued", "draining", "waiting", "finishing", "failed", "complete"}

\* Where a file's reservation is follows from where its threads are.
Reserved(f) ==
  /\ rd[f] \in {"new", "queued", "reserving"} => out[f] = "none"
  /\ out[f] = "refused" => rd[f] \in {"leaving", "gone"} /\ wr[f] = "none"
  /\ Scratched => size[f] \in Sizes
  /\ ~Scratched => hold[f] = "none" /\ res[f] = 0 /\ out[f] # "refused"
                     /\ pub[f] = "none" /\ rd[f] # "reserving" /\ wr[f] # "staged"
  /\ Scratched =>
       /\ hold[f] = "none" <=> Unreserved(f)
       /\ rd[f] \in {"opening", "sending"} \/ Staging(f) => hold[f] = "held"
       /\ wr[f] = "staged" \/ pub[f] \in {"queued", "publishing", "closing", "closed"}
            => hold[f] = "staged"

\* Who is going to delete the file's payload, unless the budget was stopped.
CoveredAt(f) ==
  f \in payload =>
    \/ stopped
    \/ /\ Scratched
       /\ wr[f] \in {"draining", "waiting", "finishing", "failed", "complete", "staged"}
    \/ pub[f] \in {"queued", "publishing", "closing"}

Local(f) == InOrder(f) /\ Flow(f) /\ Reserved(f)

-----------------------------------------------------------------------------
(* A step works on one file, or on none. *)

Step(f) ==
  \/ Submit(f) \/ Reader(f) \/ Writer(f) \/ Publisher(f)
  \/ \E k \in Blocks : Compressor(f, k)

fileVars == <<setup, size, rd, made, read, blk, wr, taken, pub,
              used, stopped, hold, res, payload, out>>

Elsewhere ==
  \/ WalkEnds \/ ScanReturns \/ Join
  \/ \E pool \in Pools : PoolExits(pool)
  \/ UNCHANGED vars

\* Every step is one or the other.
LEMMA NextCases == [Next]_vars => Elsewhere \/ \E f \in Files : Step(f)
BY DEF Next, Main, Elsewhere, Step, Terminated

\* A step on no file leaves all that is known of files alone.
LEMMA ElsewhereSame == Elsewhere => UNCHANGED fileVars
BY DEF Elsewhere, WalkEnds, ScanReturns, Join, PoolExits, vars, fileVars, fixed,
       readers,
       writers, budget

\* What the operation runs with.
LEMMA SetupTyped ==
  ASSUME Typed
  PROVE  /\ setup.mode \in {"compress", "manual", "reading"} /\ setup.scratch \in BOOLEAN
         /\ setup.blocks \in 0 .. BlockCount
BY PipelineAssumption DEF Typed

\* What a file reserves is a natural number.
LEMMA SizeIsNat == ASSUME Typed, NEW f \in Files PROVE size[f] \in Nat
<1>1. Sizes \cup {0} \subseteq Nat
  BY PipelineAssumption
<1>2. QED
  BY <1>1 DEF Typed

-----------------------------------------------------------------------------
(* Types. *)

\* A step on no file keeps the types.
LEMMA TypedElsewhere == Typed /\ Elsewhere => Typed'
<1> SUFFICES ASSUME Typed, Elsewhere PROVE Typed'
  OBVIOUS
<1>1. UNCHANGED fileVars
  BY ElsewhereSame
<1>2. /\ main' \in {"scan", "stats", "dropping", "stopped"}
      /\ joined' \in 0 .. 4 /\ up' \subseteq Pools
  BY DEF Typed, Elsewhere, WalkEnds, ScanReturns, Join, PoolExits, vars, DropOrder
<1>3. QED
  BY <1>1, <1>2 DEF Typed, fileVars

\* Every step on a file keeps the types.
LEMMA TypedStep == ASSUME Typed, NEW f \in Files, Step(f) PROVE Typed'
<1> USE SetupTyped, PipelineAssumption
    DEF Typed, RdStates, BlockStates, fixed, pools, readers, writers, budget, Set
<1>1. ASSUME Submit(f) PROVE Typed'
  BY <1>1 DEF Submit
<1>2. ASSUME Reader(f) PROVE Typed'
  <2>1. CASE TakeFile(f)
    BY <2>1 DEF TakeFile
  <2>2. CASE Reserve(f)
    BY <2>2, SizeIsNat DEF Reserve
  <2>3. CASE Refuse(f)
    BY <2>3 DEF Refuse
  <2>4. CASE OpenFails(f)
    BY <2>4 DEF OpenFails, Release
  <2>5. CASE Open(f)
    BY <2>5 DEF Open
  <2>6. CASE SendToWriter(f)
    BY <2>6 DEF SendToWriter
  <2>7. CASE PrepareSend(f)
    <3>1. made' \in [Files -> Nat] /\ rd' \in [Files -> RdStates]
      BY <2>7 DEF PrepareSend
    <3>2. blk' \in [Files -> [Blocks -> BlockStates]]
      BY <2>7 DEF PrepareSend, BlockStates
    <3>3. QED
      BY <2>7, <3>1, <3>2 DEF PrepareSend, BlockStates
  <2>8. CASE HandOver(f)
    BY <2>8 DEF HandOver
  <2>9. CASE ReadFails(f)
    BY <2>9 DEF ReadFails
  <2>10. CASE ReadEnds(f)
    BY <2>10 DEF ReadEnds
  <2>11. CASE CloseSource(f)
    BY <2>11 DEF CloseSource
  <2>12. CASE FinishStream(f)
    BY <2>12 DEF FinishStream
  <2>13. CASE ReaderGone(f)
    BY <2>13 DEF ReaderGone
  <2>14. QED
    BY <1>2, <2>1, <2>2, <2>3, <2>4, <2>5, <2>6, <2>7, <2>8, <2>9, <2>10, <2>11, <2>12,
           <2>13 DEF Reader
<1>3. ASSUME Writer(f) PROVE Typed'
  <2>1. CASE TakeStream(f)
    BY <2>1 DEF TakeStream
  <2>2. CASE TakeSlot(f)
    BY <2>2 DEF TakeSlot
  <2>3. CASE WriteBlock(f)
    BY <2>3 DEF WriteBlock
  <2>4. CASE BlockLost(f)
    BY <2>4 DEF BlockLost
  <2>5. CASE StreamFails(f)
    BY <2>5 DEF StreamFails
  <2>6. CASE GiveUp(f)
    BY <2>6 DEF GiveUp
  <2>7. CASE StreamEnds(f)
    BY <2>7 DEF StreamEnds
  <2>8. CASE WriteFile(f)
    BY <2>8 DEF WriteFile
  <2>9. CASE Stage(f)
    BY <2>9 DEF Stage
  <2>10. CASE SendToPublisher(f)
    BY <2>10 DEF SendToPublisher
  <2>11. CASE Abandon(f)
    BY <2>11 DEF Abandon, Release
  <2>12. CASE WriterGone(f)
    BY <2>12 DEF WriterGone
  <2>13. QED
    BY <1>3, <2>1, <2>2, <2>3, <2>6, <2>7, <2>8, <2>9, <2>10, <2>11, <2>12, <2>4,
           <2>5 DEF Writer
<1>4. ASSUME Publisher(f) PROVE Typed'
  <2>1. CASE TakeStaged(f)
    BY <2>1 DEF TakeStaged
  <2>2. CASE Publish(f)
    BY <2>2 DEF Publish
  <2>3. CASE ClosePayload(f)
    BY <2>3 DEF ClosePayload
  <2>4. CASE ReleaseStaged(f)
    BY <2>4 DEF ReleaseStaged, Release
  <2>5. QED
    BY <1>4, <2>1, <2>2, <2>3, <2>4 DEF Publisher
<1>5. ASSUME NEW k \in Blocks, Compressor(f, k) PROVE Typed'
  <2>1. CASE StartBlock(f, k)
    BY <1>5, <2>1 DEF Compressor, StartBlock
  <2>2. CASE EndBlock(f, k)
    BY <1>5, <2>2 DEF Compressor, EndBlock
  <2>3. QED
    BY <1>5, <2>1, <2>2 DEF Compressor
<1>6. QED
  BY <1>1, <1>2, <1>3, <1>4, <1>5 DEF Step

-----------------------------------------------------------------------------
(* The other files: a step on one file leaves them as they are. *)

Same(g) ==
  /\ rd'[g] = rd[g] /\ made'[g] = made[g] /\ read'[g] = read[g] /\ blk'[g] = blk[g]
  /\ wr'[g] = wr[g] /\ taken'[g] = taken[g] /\ pub'[g] = pub[g]
  /\ hold'[g] = hold[g] /\ res'[g] = res[g] /\ out'[g] = out[g]
  /\ g \in payload' => g \in payload

Apart(g) == Same(g) /\ UNCHANGED <<setup, size>> /\ (stopped => stopped')

\* A step on f does not change g, nor what does not change, and never restarts the
\* budget.
LEMMA OthersSame ==
  ASSUME Typed, NEW f \in Files, Step(f), NEW g \in Files, g # f
  PROVE  Apart(g)
<1> USE DEF Typed, RdStates, fixed, pools, readers, writers, budget, Set, Same, Apart
<1>1. ASSUME Submit(f) PROVE Apart(g)
  BY <1>1 DEF Submit
<1>2. ASSUME Reader(f) PROVE Apart(g)
  BY <1>2 DEF Reader, TakeFile, Reserve, Refuse, OpenFails, Release, Open, SendToWriter,
     PrepareSend, HandOver, ReadFails, ReadEnds, CloseSource, FinishStream, ReaderGone
<1>3. ASSUME Writer(f) PROVE Apart(g)
  BY <1>3 DEF Writer, TakeStream, TakeSlot, WriteBlock, BlockLost, StreamFails, GiveUp,
     StreamEnds, WriteFile, Stage, SendToPublisher, Abandon, Release, WriterGone
<1>4. ASSUME Publisher(f) PROVE Apart(g)
  BY <1>4 DEF Publisher, TakeStaged, Publish, ClosePayload, ReleaseStaged, Release
<1>5. ASSUME NEW k \in Blocks, Compressor(f, k) PROVE Apart(g)
  BY <1>5 DEF Compressor, StartBlock, EndBlock
<1>6. QED
  BY <1>1, <1>2, <1>3, <1>4, <1>5 DEF Step

\* What is said of a file stays true when nothing of the file changes.
LEMMA SameLocal ==
  ASSUME NEW g \in Files, Local(g), Same(g), UNCHANGED <<setup, size>>
  PROVE  Local(g)'
<1>1. InOrder(g)'
  BY DEF Local, InOrder, Same, Early
<1>2. Flow(g)'
  BY DEF Local, Flow, Same, Early, Drained, Whole, Passed, SenderGone
<1>3. Reserved(g)'
  BY DEF Local, Reserved, Same, Unreserved, Staging, Scratched
<1>4. QED
  BY <1>1, <1>2, <1>3 DEF Local

-----------------------------------------------------------------------------
(* The file itself. *)

\* The numbers up to n are n and those before it.
LEMMA UpToLast == \A n \in Nat : \A k \in 1 .. n : k \in 1 .. n - 1 \/ k = n
OBVIOUS

\* A slot that may still be made is one of the file's.
LEMMA NextSlot ==
  ASSUME Typed, NEW n \in Nat, n < setup.blocks
  PROVE  n + 1 \in Blocks /\ n + 1 <= setup.blocks
BY SetupTyped, PipelineAssumption DEF Blocks

\* What was written are blocks of the file.
LEMMA DrainedInBlocks ==
  ASSUME Typed, NEW f \in Files, Local(f)
  PROVE  Drained(f) \subseteq Blocks
<1>1. taken[f] \in Nat /\ made[f] \in Nat /\ taken[f] <= made[f] /\ made[f] <= setup.blocks
  BY DEF Typed, Local, InOrder
<1>2. 1 .. taken[f] \subseteq Blocks /\ 1 .. taken[f] - 1 \subseteq Blocks
  BY <1>1, SetupTyped, PipelineAssumption DEF Blocks
<1>3. QED
  BY <1>2 DEF Drained

\* Every step on a file keeps what is said of it.
LEMMA LocalStep == ASSUME Typed, NEW f \in Files, Local(f), Step(f) PROVE Local(f)'
<1> USE SetupTyped
    DEF Typed, RdStates, BlockStates, fixed, pools, readers, writers, budget, Set, Local,
        InOrder, Flow, Early, Drained, Whole, Passed, SenderGone, ReceiverAlive, Reserved,
        Unreserved, Staging, Scratched
<1>1. ASSUME Submit(f) PROVE Local(f)'
  BY <1>1 DEF Submit
<1>2. ASSUME Reader(f) PROVE Local(f)'
  <2>1. CASE TakeFile(f)
    BY <2>1 DEF TakeFile
  <2>2. CASE Reserve(f)
    BY <2>2 DEF Reserve
  <2>3. CASE Refuse(f)
    BY <2>3 DEF Refuse
  <2>4. CASE OpenFails(f)
    BY <2>4 DEF OpenFails, Release
  <2>5. CASE Open(f)
    BY <2>5 DEF Open
  <2>6. CASE SendToWriter(f)
    BY <2>6 DEF SendToWriter
  <2>7. CASE PrepareSend(f)
    <3>1. made[f] \in Nat /\ made[f] < setup.blocks
      BY <2>7 DEF PrepareSend
    <3>2. /\ made[f] + 1 \in Blocks /\ made[f] + 1 <= setup.blocks
          /\ made' = [made EXCEPT ![f] = made[f] + 1]
      BY <2>7, <3>1, NextSlot DEF PrepareSend
    <3>3. /\ blk' = [blk EXCEPT ![f][made[f] + 1] = "held"]
          /\ rd' = [rd EXCEPT ![f] = "holding"]
      BY <2>7, <3>2 DEF PrepareSend
    <3>4. made'[f] = made[f] + 1 /\ rd'[f] = "holding" /\ rd[f] = "reading"
      BY <2>7, <3>2, <3>3 DEF PrepareSend
    <3>5. \A k \in Blocks : blk'[f][k] = IF k = made[f] + 1 THEN "held" ELSE blk[f][k]
      BY <3>2, <3>3
    <3>6. InOrder(f)'
      BY <2>7, <3>2, <3>4, <3>5 DEF PrepareSend
    <3>7. Flow(f)'
      BY <2>7, <3>2, <3>4, <3>5 DEF PrepareSend, Blocks
    <3>8. Reserved(f)'
      BY <2>7, <3>2, <3>4 DEF PrepareSend
    <3>9. QED
      BY <3>6, <3>7, <3>8 DEF Local
  <2>8. CASE HandOver(f)
    BY <2>8 DEF HandOver
  <2>9. CASE ReadFails(f)
    <3>1. \A k \in Blocks : blk[f][k] = "full" => blk'[f][k] = "full"
      BY <2>9 DEF ReadFails
    <3>2. /\ rd'[f] = "closing" /\ read'[f] = "err"
          /\ rd[f] \in {"reading", "holding"} /\ ~Passed(f)
      BY <2>9 DEF ReadFails
    <3>3. InOrder(f)'
      BY <2>9, <3>2 DEF ReadFails
    <3>4. Drained(f)' = Drained(f) /\ Drained(f) \subseteq Blocks
      BY <2>9, DrainedInBlocks DEF ReadFails
    <3>5. Flow(f)'
      BY <2>9, <3>1, <3>2, <3>4 DEF ReadFails
    <3>6. Reserved(f)'
      BY <2>9, <3>2 DEF ReadFails
    <3>7. QED
      BY <3>3, <3>5, <3>6 DEF Local
  <2>10. CASE ReadEnds(f)
    BY <2>10 DEF ReadEnds
  <2>11. CASE CloseSource(f)
    BY <2>11 DEF CloseSource
  <2>12. CASE FinishStream(f)
    BY <2>12 DEF FinishStream
  <2>13. CASE ReaderGone(f)
    BY <2>13 DEF ReaderGone
  <2>14. QED
    BY <1>2, <2>1, <2>2, <2>3, <2>4, <2>5, <2>6, <2>7, <2>8, <2>9, <2>10, <2>11, <2>12,
           <2>13 DEF Reader
<1>3. ASSUME Writer(f) PROVE Local(f)'
  <2>1. CASE TakeStream(f)
    BY <2>1 DEF TakeStream
  <2>2. CASE TakeSlot(f)
    BY <2>2 DEF TakeSlot
  <2>3. CASE WriteBlock(f)
    <3>1. /\ wr'[f] = "draining" /\ wr[f] = "waiting"
          /\ blk[f][taken[f]] = "full" /\ taken[f] \in Nat
      BY <2>3 DEF WriteBlock
    <3>2. \A k \in 1 .. taken[f] : k \in 1 .. taken[f] - 1 \/ k = taken[f]
      BY <3>1, UpToLast
    <3>3. Flow(f)'
      BY <2>3, <3>1, <3>2 DEF WriteBlock
    <3>4. InOrder(f)' /\ Reserved(f)'
      BY <2>3, <3>1 DEF WriteBlock
    <3>5. QED
      BY <3>3, <3>4 DEF Local
  <2>4. CASE BlockLost(f)
    BY <2>4 DEF BlockLost
  <2>5. CASE StreamFails(f)
    BY <2>5 DEF StreamFails
  <2>6. CASE GiveUp(f)
    BY <2>6 DEF GiveUp
  <2>7. CASE StreamEnds(f)
    BY <2>7 DEF StreamEnds
  <2>8. CASE WriteFile(f)
    BY <2>8 DEF WriteFile
  <2>9. CASE Stage(f)
    BY <2>9 DEF Stage
  <2>10. CASE SendToPublisher(f)
    BY <2>10 DEF SendToPublisher
  <2>11. CASE Abandon(f)
    BY <2>11 DEF Abandon, Release
  <2>12. CASE WriterGone(f)
    BY <2>12 DEF WriterGone
  <2>13. QED
    BY <1>3, <2>1, <2>2, <2>3, <2>4, <2>5, <2>6, <2>7, <2>8, <2>9, <2>10, <2>11,
           <2>12 DEF Writer
<1>4. ASSUME Publisher(f) PROVE Local(f)'
  <2>1. CASE TakeStaged(f)
    BY <2>1 DEF TakeStaged
  <2>2. CASE Publish(f)
    BY <2>2 DEF Publish
  <2>3. CASE ClosePayload(f)
    BY <2>3 DEF ClosePayload
  <2>4. CASE ReleaseStaged(f)
    BY <2>4 DEF ReleaseStaged, Release
  <2>5. QED
    BY <1>4, <2>1, <2>2, <2>3, <2>4 DEF Publisher
<1>5. ASSUME NEW k \in Blocks, Compressor(f, k) PROVE Local(f)'
  <2>1. CASE StartBlock(f, k)
    BY <1>5, <2>1 DEF Compressor, StartBlock
  <2>2. CASE EndBlock(f, k)
    BY <1>5, <2>2 DEF Compressor, EndBlock
  <2>3. QED
    BY <1>5, <2>1, <2>2 DEF Compressor
<1>6. QED
  BY <1>1, <1>2, <1>3, <1>4, <1>5 DEF Step

\* A payload is deleted by whoever has it, or the budget is stopped: if no writer
\* fails to delete one.
LEMMA CoveredStep ==
  ASSUME Typed, NEW f \in Files, Local(f), CoveredAt(f), Step(f),
         "writer" \notin DeleteFails
  PROVE  CoveredAt(f)'
<1> USE SetupTyped
    DEF Typed, RdStates, fixed, pools, readers, writers, budget, Set, Local, InOrder, Early,
        Scratched, CoveredAt
<1>1. ASSUME Submit(f) PROVE CoveredAt(f)'
  BY <1>1 DEF Submit
<1>2. ASSUME Reader(f) PROVE CoveredAt(f)'
  BY <1>2 DEF Reader, TakeFile, Reserve, Refuse, OpenFails, Release, Open, SendToWriter,
     PrepareSend, HandOver, ReadFails, ReadEnds, CloseSource, FinishStream, ReaderGone
<1>3. ASSUME Writer(f) PROVE CoveredAt(f)'
  BY <1>3 DEF Writer, TakeStream, TakeSlot, WriteBlock, BlockLost, StreamFails, GiveUp,
     StreamEnds, WriteFile, Stage, SendToPublisher, Abandon, Release, WriterGone
<1>4. ASSUME Publisher(f) PROVE CoveredAt(f)'
  BY <1>4 DEF Publisher, TakeStaged, Publish, ClosePayload, ReleaseStaged, Release
<1>5. ASSUME NEW k \in Blocks, Compressor(f, k) PROVE CoveredAt(f)'
  BY <1>5 DEF Compressor, StartBlock, EndBlock
<1>6. QED
  BY <1>1, <1>2, <1>3, <1>4, <1>5 DEF Step

-----------------------------------------------------------------------------
(* The budget: every step of the pipeline is one of ScratchBudget, or a stutter. *)

Requested == [g \in Files |-> RequestState(g)]
Wanted == [g \in Files |-> IF RequestState(g) = "new" THEN 0 ELSE size[g]]

BudgetProofs == INSTANCE ScratchBudgetProofs
                  WITH Requests <- Files, st <- Requested, want <- Wanted

\* The budget is used within its assumptions.
LEMMA Assumed == BudgetProofs!ScratchBudgetAssumption
<1>1. IsFiniteSet(Files)
  BY PipelineAssumption, FS_Interval DEF Files
<1>2. QED
  BY <1>1, PipelineAssumption
     DEF BudgetProofs!ScratchBudgetAssumption, IsFiniteSet, BudgetProofs!IsFiniteSet

\* A request is seen by its own file only.
LEMMA SameRequest ==
  ASSUME NEW g \in Files, Same(g), size' = size
  PROVE  RequestState(g)' = RequestState(g)
BY DEF Same, RequestState

\* A step on a file moves no other file's request.
LEMMA OneMoves ==
  ASSUME Typed, NEW f \in Files, Step(f)
  PROVE  /\ Requested' = [Requested EXCEPT ![f] = RequestState(f)']
         /\ Wanted' = [Wanted EXCEPT ![f] =
                         IF RequestState(f)' = "new" THEN 0 ELSE size[f]]
         /\ size' = size
<1>1. size' = size
  BY DEF Step, Submit, Reader, Writer, Publisher, Compressor, fixed,
     TakeFile, Reserve, Refuse, OpenFails, Open, SendToWriter,
     PrepareSend, HandOver, ReadFails, ReadEnds, CloseSource, FinishStream, ReaderGone,
     TakeStream, TakeSlot, WriteBlock, BlockLost, StreamFails, GiveUp,
     StreamEnds, WriteFile, Stage, SendToPublisher, Abandon, WriterGone,
     TakeStaged, Publish, ClosePayload, ReleaseStaged
<1>2. \A g \in Files : g # f => RequestState(g)' = RequestState(g)
  BY OthersSame, SameRequest DEF Apart
<1>3. QED
  BY <1>1, <1>2 DEF Requested, Wanted

\* Waiting for space and testing for it are the same state here ...
LEMMA NotAsleep == ASSUME Typed, NEW g \in Files PROVE RequestState(g) # "asleep"
BY DEF Typed, RequestState

\* ... so that waking everybody changes nothing.
LEMMA WokenMove ==
  ASSUME Typed, NEW f \in Files, NEW to, to # "asleep"
  PROVE  /\ BudgetProofs!Woken(BudgetProofs!Move(f, to)) = BudgetProofs!Move(f, to)
         /\ BudgetProofs!Woken(Requested) = Requested
BY NotAsleep DEF BudgetProofs!Woken, BudgetProofs!Move, Requested

\* What neither moves the request nor touches the budget is a stutter.
LEMMA BudgetQuiet ==
  ASSUME Typed, NEW f \in Files, Step(f),
         RequestState(f)' = RequestState(f), UNCHANGED <<used, stopped, res>>
  PROVE  UNCHANGED BudgetProofs!vars
<1>1. Requested' = Requested /\ Wanted' = Wanted
  BY OneMoves DEF Requested, Wanted
<1>2. QED
  BY <1>1 DEF BudgetProofs!vars

\* What each step on a file does to the budget.
LEMMA BudgetStep ==
  ASSUME Typed, BudgetProofs!IInv, NEW f \in Files, Local(f), Step(f)
  PROVE  [BudgetProofs!Next]_(BudgetProofs!vars)
<1> DEFINE Goal == [BudgetProofs!Next]_(BudgetProofs!vars)
<1>1. used \in Nat /\ used <= Limit /\ res \in [Files -> 0 .. Limit] /\ Limit \in Nat
  BY PipelineAssumption
     DEF BudgetProofs!IInv, BudgetProofs!TypeOK, BudgetProofs!Conserved
<1>2. ASSUME RequestState(f)' = RequestState(f), UNCHANGED <<used, stopped, res>> PROVE Goal
  BY <1>2, BudgetQuiet
<1>3. CASE TakeFile(f) /\ Scratched
  <2>1. /\ RequestState(f) = "new"
        /\ RequestState(f)' = IF size[f] > Limit THEN "refused" ELSE "trying"
    <3>1. hold[f] = "none" /\ out[f] = "none" /\ rd[f] = "queued"
      BY <1>3 DEF TakeFile, Local, Reserved, Unreserved
    <3>2. rd'[f] = "reserving" /\ UNCHANGED <<hold, out, size>>
      BY <1>3 DEF TakeFile, Typed, Set, budget, fixed
    <3>3. QED
      BY <3>1, <3>2 DEF RequestState
  <2>2. BudgetProofs!Reserve(f, size[f])
    BY <1>3, <2>1, OneMoves
       DEF BudgetProofs!Reserve, BudgetProofs!Move, Requested, TakeFile, budget
  <2>3. QED
    BY <1>3, <2>2 DEF Local, Reserved, BudgetProofs!Next
<1>4. CASE Reserve(f)
  <2>1. RequestState(f) = "trying" /\ RequestState(f)' = "held" /\ Wanted[f] = size[f]
    BY <1>1, <1>4, SizeIsNat
       DEF Reserve, RequestState, Local, Reserved, Typed, RdStates, Set, Scratched,
           Unreserved, Wanted
  <2>2. BudgetProofs!Admit(f)
    BY <1>4, <2>1, OneMoves
       DEF BudgetProofs!Admit, BudgetProofs!Fits, BudgetProofs!Move, Requested, Wanted,
           Reserve, Set
  <2>3. QED
    BY <2>2 DEF BudgetProofs!Next, BudgetProofs!Test
<1>5. CASE Refuse(f)
  <2>1. RequestState(f)' = "refused" /\ UNCHANGED <<used, stopped, res>>
    BY <1>5 DEF Refuse, RequestState, Local, Reserved, Typed, RdStates, Set, Scratched,
           Unreserved, budget
  <2>2. CASE size[f] > Limit
    BY <1>2, <1>5, <2>1, <2>2
       DEF Refuse, RequestState, Local, Reserved, Scratched, Unreserved
  <2>3. CASE ~(size[f] > Limit)
    <3>1. RequestState(f) = "trying" /\ stopped
      BY <1>5, <2>3 DEF Refuse, RequestState, Local, Reserved, Scratched, Unreserved
    <3>2. BudgetProofs!GiveUp(f)
      BY <2>1, <3>1, OneMoves
         DEF BudgetProofs!GiveUp, BudgetProofs!Move, Requested, Wanted
    <3>3. QED
      BY <3>2 DEF BudgetProofs!Next, BudgetProofs!Test
  <2>4. QED
    BY <2>2, <2>3
<1>6. ASSUME hold[f] \in {"held", "staged"}, RequestState(f)' = "gone",
             Release(f), UNCHANGED stopped
      PROVE  Goal
  <2>1. RequestState(f) = hold[f]
    BY <1>6 DEF RequestState
  <2>2. BudgetProofs!Drop(f)
    BY <1>6, <2>1, OneMoves, WokenMove
       DEF BudgetProofs!Drop, BudgetProofs!Live, BudgetProofs!Move, Requested, Wanted,
           Release, Set
  <2>3. QED
    BY <2>2 DEF BudgetProofs!Next
<1>7. CASE OpenFails(f)
  <2>1. CASE Scratched
    <3>1. hold[f] = "held" /\ RequestState(f)' = "gone"
      BY <1>7, <2>1
         DEF OpenFails, Release, Set, Local, Reserved, Typed, RequestState, Scratched
    <3>2. QED
      BY <1>6, <1>7, <3>1 DEF OpenFails
  <2>2. CASE ~Scratched
    <3>1. RequestState(f)' = RequestState(f) /\ UNCHANGED <<used, stopped, res>>
      BY <1>1, <1>7, <2>2
         DEF OpenFails, Release, Set, Local, Reserved, Typed, RequestState, Scratched
    <3>2. QED
      BY <1>2, <3>1
  <2>3. QED
    BY <2>1, <2>2
<1>8. CASE Stage(f)
  <2>1. hold[f] = "held" /\ RequestState(f)' = "staged" /\ RequestState(f) = "held"
    BY <1>8 DEF Stage, Set, Local, Reserved, Typed, RequestState, Staging, Scratched
  <2>2. PICK b \in (IF mode = "compress" THEN 0 .. res[f] ELSE {res[f]}) :
           used' = used - (res[f] - b) /\ res' = Set(res, f, b)
    BY <1>8 DEF Stage
  <2>3. b \in 0 .. Limit /\ b <= res[f]
    BY <1>1, <2>2
  <2>4. BudgetProofs!ShrinkTo(f, b)
    <3>1. Requested[f] = "held" /\ Wanted' = Wanted /\ stopped' = stopped
      BY <1>8, <2>1, OneMoves DEF Stage, Requested, Wanted
    <3>2. Requested' = BudgetProofs!Woken(BudgetProofs!Move(f, "staged"))
      BY <2>1, OneMoves, WokenMove DEF BudgetProofs!Move
    <3>3. QED
      BY <2>2, <2>3, <3>1, <3>2 DEF BudgetProofs!ShrinkTo, Set
  <2>5. QED
    BY <2>3, <2>4 DEF BudgetProofs!Next
<1>9. CASE Abandon(f)
  <2>1. CASE Scratched
    <3>1. hold[f] = "held" /\ RequestState(f)' = "gone"
      BY <1>9, <2>1
         DEF Abandon, Release, Set, Local, Reserved, Typed, RequestState, Staging,
             Scratched
    <3>2. QED
      BY <1>6, <1>9, <3>1 DEF Abandon
  <2>2. CASE ~Scratched
    <3>1. RequestState(f)' = RequestState(f) /\ UNCHANGED <<used, stopped, res>>
      <4>1. res[f] = 0 /\ hold[f] = "none" /\ out[f] # "refused" /\ rd[f] # "reserving"
        BY <2>2 DEF Local, Reserved
      <4>2. UNCHANGED <<used, stopped, res, hold, rd, size>> /\ out'[f] = "failed"
        BY <1>1, <1>9, <2>2, <4>1 DEF Abandon, Release, Set, Typed, readers, fixed
      <4>3. QED
        BY <4>1, <4>2 DEF RequestState
    <3>2. QED
      BY <1>2, <3>1
  <2>3. QED
    BY <2>1, <2>2
<1>10. CASE ReleaseStaged(f)
  <2>1. hold[f] = "staged" /\ RequestState(f)' = "gone"
    BY <1>10
       DEF ReleaseStaged, Release, Set, Local, Reserved, Typed, RequestState, Scratched
  <2>2. QED
    BY <1>6, <1>10, <2>1 DEF ReleaseStaged
<1>11. CASE ClosePayload(f)
  <2>1. RequestState(f)' = RequestState(f)
    BY <1>11 DEF ClosePayload, RequestState, fixed, readers
  <2>2. Requested' = Requested /\ Wanted' = Wanted
    BY <2>1, OneMoves DEF Requested, Wanted
  <2>3. stopped' \in {stopped, TRUE} /\ UNCHANGED <<used, res>>
    BY <1>11 DEF ClosePayload
  <2>4. CASE stopped' = stopped
    BY <2>2, <2>3, <2>4 DEF BudgetProofs!vars
  <2>5. CASE stopped' = TRUE
    BY <2>2, <2>3, <2>5, WokenMove DEF BudgetProofs!Stop, BudgetProofs!Next
  <2>6. QED
    BY <2>3, <2>4, <2>5
<1>12. CASE WriteFile(f) \/ Publish(f)
  <2>1. RequestState(f)' = RequestState(f) /\ UNCHANGED <<used, stopped, res>>
    BY <1>12
       DEF WriteFile, Publish, RequestState, Local, Reserved, InOrder, Early, Typed,
           Set, budget, readers, Scratched
  <2>2. QED
    BY <1>2, <2>1
<1>13. ASSUME UNCHANGED <<used, stopped, res, hold, out, size>>,
              rd[f] = "reserving" <=> rd'[f] = "reserving"
       PROVE  Goal
  BY <1>2, <1>13 DEF RequestState
<1>14. CASE Submit(f) \/ (TakeFile(f) /\ ~Scratched)
  BY <1>13, <1>14 DEF Submit, TakeFile, Typed, Set, budget, fixed
<1>15. CASE \/ Open(f) \/ SendToWriter(f) \/ PrepareSend(f) \/ HandOver(f) \/ ReadFails(f)
            \/ ReadEnds(f) \/ CloseSource(f) \/ FinishStream(f) \/ ReaderGone(f)
  BY <1>13, <1>15 DEF Open, SendToWriter, PrepareSend, HandOver, ReadFails, ReadEnds,
     CloseSource, FinishStream, ReaderGone, Typed, Set, budget, fixed
<1>16. CASE \/ TakeStream(f) \/ TakeSlot(f) \/ WriteBlock(f) \/ BlockLost(f)
            \/ StreamFails(f) \/ GiveUp(f) \/ StreamEnds(f) \/ SendToPublisher(f)
            \/ WriterGone(f) \/ TakeStaged(f)
  BY <1>13, <1>16 DEF TakeStream, TakeSlot, WriteBlock, BlockLost, StreamFails, GiveUp,
     StreamEnds, SendToPublisher, WriterGone, TakeStaged, Set, budget, fixed, readers
<1>17. ASSUME NEW k \in Blocks, Compressor(f, k) PROVE Goal
  BY <1>13, <1>17 DEF Compressor, budget, fixed, readers
<1>18. QED
  BY <1>3, <1>4, <1>5, <1>7, <1>8, <1>9, <1>10, <1>11, <1>12, <1>14, <1>15, <1>16, <1>17
     DEF Step, Reader, Writer, Publisher

\* The budget is what it was after a step on no file.
LEMMA BudgetElsewhere ==
  ASSUME Elsewhere
  PROVE  UNCHANGED BudgetProofs!vars
<1>1. \A g \in Files : RequestState(g)' = RequestState(g)
  BY ElsewhereSame DEF fileVars, RequestState
<1>2. Requested' = Requested /\ Wanted' = Wanted
  BY <1>1, ElsewhereSame DEF Requested, Wanted, fileVars
<1>3. QED
  BY <1>2, ElsewhereSame DEF fileVars, BudgetProofs!vars

-----------------------------------------------------------------------------
(* The inductive invariant. *)

IInv == Typed /\ (\A f \in Files : Local(f)) /\ BudgetProofs!IInv

\* At first the budget is empty, and no file has asked for anything.
LEMMA InitBudget == Init => BudgetProofs!Init
<1> SUFFICES ASSUME Init PROVE BudgetProofs!Init
  OBVIOUS
<1>1. \A f \in Files : RequestState(f) = "new"
  BY DEF Init, All, RequestState
<1>2. QED
  BY <1>1 DEF Init, All, BudgetProofs!Init, Requested, Wanted

LEMMA InitIInv == Init => IInv
<1> SUFFICES ASSUME Init PROVE IInv
  OBVIOUS
<1>1. Typed
  <2>1. size \in [Files -> Sizes \cup {0}]
    BY DEF Init
  <2>2. up \subseteq Pools
    BY DEF Init
  <2>3. /\ rd \in [Files -> RdStates] /\ made \in [Files -> Nat]
        /\ taken \in [Files -> Nat] /\ read \in [Files -> {"none", "ok", "err"}]
        /\ blk \in [Files -> [Blocks -> BlockStates]]
    BY DEF Init, All, RdStates, BlockStates
  <2>4. /\ setup \in Setups /\ main = "scan" /\ joined = 0 /\ used = 0 /\ stopped = FALSE
        /\ payload = {}
    BY DEF Init
  <2>5. wr \in [Files -> {"none"}] /\ pub \in [Files -> {"none"}] /\ res \in [Files -> {0}]
    BY DEF Init, All
  <2>6. hold \in [Files -> {"none"}] /\ out \in [Files -> {"none"}]
    BY DEF Init, All
  <2>7. QED
    <3>1. wr \in [Files -> {"none", "queued", "draining", "waiting", "finishing", "failed",
                          "complete", "staged", "leaving", "gone"}]
      BY <2>5
    <3>2. pub \in [Files -> {"none", "queued", "publishing", "closing", "closed", "gone"}]
      BY <2>5
    <3>3. res \in [Files -> Nat] /\ hold \in [Files -> {"none", "held", "staged", "gone"}]
      BY <2>5, <2>6
    <3>4. out \in [Files -> {"none", "refused", "failed", "skipped", "published"}]
      BY <2>6
    <3>5. /\ main \in {"scan", "stats", "dropping", "stopped"} /\ joined \in 0 .. 4
          /\ used \in Int /\ payload \subseteq Files
      BY <2>4
    <3>6. stopped \in BOOLEAN
      BY <2>4
    <3>7. QED
      BY <2>1, <2>2, <2>3, <2>4, <3>1, <3>2, <3>3, <3>4, <3>5, <3>6 DEF Typed
<1>2. ASSUME NEW f \in Files PROVE Local(f)
  <2>1. setup.blocks \in Nat
    BY <1>1, SetupTyped, PipelineAssumption
  <2>2. InOrder(f)
    BY <2>1 DEF Init, All, InOrder, Early
  <2>3. Flow(f)
    BY DEF Init, All, Flow, Early, Drained, Passed
  <2>4. Reserved(f)
    BY DEF Init, All, Reserved, Unreserved, Staging, Scratched
  <2>5. QED
    BY <2>2, <2>3, <2>4 DEF Local
<1>3. BudgetProofs!IInv
  BY Assumed, InitBudget, BudgetProofs!InitIInv
<1>4. QED
  BY <1>1, <1>2, <1>3 DEF IInv

\* Every step is one of the budget.
LEMMA NextBudget == IInv /\ [Next]_vars => [BudgetProofs!Next]_(BudgetProofs!vars)
BY NextCases, BudgetStep, BudgetElsewhere DEF IInv

LEMMA NextIInv == IInv /\ [Next]_vars => IInv'
<1> SUFFICES ASSUME IInv, [Next]_vars PROVE IInv'
  OBVIOUS
<1>1. BudgetProofs!IInv'
  BY Assumed, NextBudget, BudgetProofs!NextIInv DEF IInv
<1>2. ASSUME NEW f \in Files, Step(f) PROVE IInv'
  <2>1. Typed'
    BY <1>2, TypedStep DEF IInv
  <2>2. ASSUME NEW g \in Files PROVE Local(g)'
    <3>1. CASE g = f
      BY <1>2, <3>1, LocalStep DEF IInv
    <3>2. CASE g # f
      BY <1>2, <3>2, OthersSame, SameLocal DEF IInv, Apart
    <3>3. QED
      BY <3>1, <3>2
  <2>3. QED
    BY <1>1, <2>1, <2>2 DEF IInv, Files
<1>3. CASE Elsewhere
  <2>1. Typed'
    BY <1>3, TypedElsewhere DEF IInv
  <2>2. ASSUME NEW g \in Files PROVE Local(g)'
    BY <1>3, ElsewhereSame, SameLocal DEF IInv, Same, fileVars
  <2>3. QED
    BY <1>1, <2>1, <2>2 DEF IInv, Files
<1>4. QED
  BY <1>2, <1>3, NextCases

LEMMA Invariance == Spec => []IInv
BY InitIInv, NextIInv, PTL DEF Spec

\* The variables of the pools keep their types: no more slots than blocks, and never
\* more reserved than the scratch limit.
THEOREM TypeCorrect == Spec => []TypeOK
<1>1. ASSUME IInv PROVE TypeOK
  <2>1. used \in 0 .. Limit /\ res \in [Files -> 0 .. Limit]
    BY <1>1, PipelineAssumption
       DEF IInv, BudgetProofs!IInv, BudgetProofs!TypeOK, BudgetProofs!Conserved
  <2>2. made \in [Files -> 0 .. BlockCount] /\ taken \in [Files -> 0 .. BlockCount]
    <3>1. \A f \in Files : /\ made[f] \in Nat /\ taken[f] \in Nat
                           /\ taken[f] <= made[f] /\ made[f] <= setup.blocks
      BY <1>1 DEF IInv, Typed, Local, InOrder
    <3>2. \A f \in Files : made[f] \in 0 .. BlockCount /\ taken[f] \in 0 .. BlockCount
      BY <1>1, <3>1, SetupTyped, PipelineAssumption DEF IInv
    <3>3. QED
      BY <1>1, <3>2 DEF IInv, Typed
  <2>3. QED
    BY <1>1, <2>1, <2>2 DEF IInv, Typed, TypeOK, RdStates, BlockStates
<1>2. QED
  BY <1>1, Invariance, PTL

\* A file is replaced only by a complete one, however reading, compressing, staging and
\* publishing of all the files are interleaved and whichever of them fail.
THEOREM OnlyWholeFilesPublished == Spec => []PublishedComplete
<1>1. IInv => PublishedComplete
  BY DEF IInv, Local, Flow, Passed, Whole, PublishedComplete
<1>2. QED
  BY <1>1, Invariance, PTL

\* Whoever verifies a file has the only reference to its source: the assertion of
\* writer.rs cannot fail.
THEOREM SourceIsOwned == Spec => []VerifierOwnsSource
<1>1. IInv => VerifierOwnsSource
  BY DEF IInv, Local, Flow, Passed, SenderGone, ReaderHasSource, VerifierOwnsSource
<1>2. QED
  BY <1>1, Invariance, PTL

\* The files that compete for scratch use the budget as ScratchBudget defines it, so
\* that all that is proved of the budget holds in the pools.
THEOREM BudgetImplemented == Spec => ImplementsScratchBudget
<1>1. Init => Budget!Init
  BY InitBudget DEF BudgetProofs!Init, Budget!Init, Requested, Wanted
<1>2. IInv /\ [Next]_vars => [Budget!Next]_(Budget!vars)
  <2>1. BudgetProofs!vars = Budget!vars /\ BudgetProofs!vars' = Budget!vars'
    BY DEF BudgetProofs!vars, Budget!vars, Requested, Wanted
  <2>2. BudgetProofs!Next => [Budget!Next]_(Budget!vars)
    BY DEF BudgetProofs!Next, Budget!Next, Requested, Wanted,
       BudgetProofs!Reserve, Budget!Reserve,
       BudgetProofs!Test, Budget!Test,
       BudgetProofs!Admit, Budget!Admit,
       BudgetProofs!Wait, Budget!Wait,
       BudgetProofs!GiveUp, Budget!GiveUp,
       BudgetProofs!SpuriousWakeup, Budget!SpuriousWakeup,
       BudgetProofs!ShrinkTo, Budget!ShrinkTo,
       BudgetProofs!Drop, Budget!Drop,
       BudgetProofs!Stop, Budget!Stop,
       BudgetProofs!Terminated, Budget!Terminated,
       BudgetProofs!Settled, Budget!Settled,
       BudgetProofs!Woken, Budget!Woken,
       BudgetProofs!Move, Budget!Move,
       BudgetProofs!Fits, Budget!Fits,
       BudgetProofs!Live, Budget!Live,
       BudgetProofs!vars, Budget!vars
  <2>3. QED
    BY <2>1, <2>2, NextBudget
<1>3. QED
  BY <1>1, <1>2, Invariance, PTL DEF Spec, ImplementsScratchBudget, Budget!Spec

\* While the budget admits files, every payload in scratch is covered by a reservation:
\* if no writer fails to delete the payload of a file it gives up, which the code ignores
\* (run PipelinePayloadLeft).
THEOREM BacklogIsCovered == "writer" \notin DeleteFails => (Spec => []BacklogCovered)
<1> SUFFICES ASSUME "writer" \notin DeleteFails PROVE Spec => []BacklogCovered
  OBVIOUS
<1> DEFINE Covered == \A f \in Files : CoveredAt(f)
<1>1. Init => Covered
  BY DEF Init, CoveredAt
<1>2. IInv /\ Covered /\ [Next]_vars => Covered'
  <2> SUFFICES ASSUME IInv, Covered, [Next]_vars, NEW g \in Files PROVE CoveredAt(g)'
    BY DEF Files
  <2>1. ASSUME NEW f \in Files, Step(f), g = f PROVE CoveredAt(g)'
    BY <2>1, CoveredStep DEF IInv
  <2>2. ASSUME NEW f \in Files, Step(f), g # f PROVE CoveredAt(g)'
    BY <2>2, OthersSame DEF IInv, Apart, Same, CoveredAt, Scratched
  <2>3. CASE Elsewhere
    BY <2>3, ElsewhereSame DEF CoveredAt, Scratched, fileVars
  <2>4. QED
    BY <2>1, <2>2, <2>3, NextCases
<1>3. IInv /\ Covered => BacklogCovered
  BY DEF IInv, Typed, Local, InOrder, Reserved, CoveredAt, Staging, BacklogCovered
<1>4. QED
  BY <1>1, <1>2, <1>3, Invariance, PTL DEF Spec
=============================================================================
