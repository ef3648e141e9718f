-------------------------- MODULE SeqQueueProofs ---------------------------
(***************************************************************************)
(* Proofs about SeqQueue, for every number of blocks, every capacity of    *)
(* the channel and every choice of threads that may panic: its type        *)
(* invariant, the fate of errors, and that the queue implements            *)
(* OrderedDelivery.                                                        *)
(*                                                                         *)
(* The inductive invariant IInv says where every block is between the      *)
(* reader and the writer, and ties the shared cell to who has failed: what *)
(* the cell holds is always something that happened, and while the         *)
(* receiver still waits for its verdict an error that happened is in it.   *)
(***************************************************************************)
EXTENDS SeqQueue, TLAPS

Broken == {"erring", "errored"}        \* a compressor has recorded an error

\* Blocks queue up in file order, from the one the receiver took last to the one the
\* sender prepared last; a receiver that is gone took the channel with it.
Queued ==
  /\ rx # "done" => /\ cur + Len(chan) = prepared
                    /\ \A i \in 1 .. Len(chan) : chan[i] = cur + i
  /\ rx \in {"verdict", "done"} => chan = <<>>

\* The receiver's place: which block it has taken last, and why it gave up.
Placed ==
  /\ Len(delivered) <= prepared
  /\ rx = "recv" => cur = Len(delivered)
  /\ rx = "wait" => cur = Len(delivered) + 1
  /\ rx \in {"finish", "verdict"} =>
       \/ cur = Len(delivered) /\ tx = "gone" /\ chan = <<>>
       \/ cur = Len(delivered) + 1 /\ slot[cur] \in Lost
  /\ rx = "verdict" => tx = "gone"

\* Only the newest slot can be the reader's, and only a failing reader drops it.
Filled ==
  \A k \in Blocks :
    /\ k > prepared => slot[k] = "unsent"
    /\ slot[k] \in {"reader", "dropped"} => k = prepared
    /\ slot[k] = "dropped" => tx # "open" /\ sent # "ok"
    /\ k <= Len(delivered) => slot[k] = "item"

\* What Sender::finish was told, and when success may be claimed early.
Told ==
  /\ tx \in {"open", "failing"} => sent = "none"
  /\ tx = "recorded" => sent # "none"
  /\ sent = "ok" => prepared = N \/ rx = "done"

\* What is in the cell has happened.
Sound ==
  /\ final.tag # "callback"
  /\ final.tag = "ok" => sent = "ok"
  /\ final.tag = "unknown" => \E k \in Blocks : slot[k] \in {"dropped", "abandoned"}
  /\ final.tag = "error" =>
       \/ final = ErrorFrom(Reader) /\ sent = "err"
       \/ \E k \in Blocks : slot[k] \in Broken

\* Until it is read, what has happened is in the cell.
Complete ==
  rx # "done" =>
    /\ sent # "none" => final.tag # "none"
    /\ sent = "err" => final.tag = "error"
    /\ \A k \in Blocks : slot[k] \in Broken => final.tag = "error"

Troubled == \E k \in Blocks : slot[k] \in Broken \cup Deserted

\* What try_for_each has returned.
Answered ==
  /\ rx # "done" => ret = Mark("none")
  /\ rx = "done" =>
       \/ ret = Mark("callback")
       \/ Troubled
       \/ tx = "gone" /\ (sent = "err" => ret = ErrorFrom(Reader))
  /\ ret.tag = "ok" => sent = "ok"

Consistent ==
  Queued /\ Placed /\ Filled /\ Told /\ Sound /\ Complete /\ Answered

IInv == TypeOK /\ Consistent

-----------------------------------------------------------------------------
(* The operators of the cell, and what dropping the reader's slot does. *)

\* Marks and errors are told apart by their tags.
LEMMA Tags ==
  /\ \A t : Mark(t).tag = t /\ Mark(t).from = Reader
  /\ \A w : ErrorFrom(w).tag = "error" /\ ErrorFrom(w).from = w
  /\ Mark("none") \in Results /\ Mark("ok") \in Results
  /\ Mark("unknown") \in Results /\ Mark("callback") \in Results
  /\ \A w \in {Reader} \cup Blocks : ErrorFrom(w) \in Results
BY DEF Mark, ErrorFrom, Results

\* Whatever is done to the cell leaves a result in it.
LEMMA CellTyped ==
  ASSUME final \in Results
  PROVE  /\ MakeSuccess \in Results /\ MakeUnknownError \in Results /\ GetResult \in Results
         /\ \A w \in {Reader} \cup Blocks : MakeError(w) \in Results
BY Tags DEF MakeSuccess, MakeUnknownError, GetResult, MakeError

\* Dropping the reader's slot turns what it held to "dropped" and touches no other
\* slot; the cell changes only when there was one.
LEMMA OwnSlotDropped ==
  ASSUME TypeOK, DropOwnSlot
  PROVE  /\ slot' \in [Blocks -> SlotStates]
         /\ \A k \in Blocks : slot[k] = "reader" => slot'[k] = "dropped"
         /\ \A k \in Blocks : slot[k] # "reader" => slot'[k] = slot[k]
         /\ \/ final' = final
            \/ /\ final.tag # "error" /\ final' = Mark("unknown")
               /\ \E k \in Blocks : slot'[k] = "dropped"
         /\ final' \in Results
BY CellTyped DEF TypeOK, DropOwnSlot, Holds, HoldsNone, SlotStates, MakeUnknownError

-----------------------------------------------------------------------------
(* The inductive invariant. *)

\* A queue on which nothing has happened satisfies the invariant.
LEMMA InitIInv ==
  ASSUME Init
  PROVE  IInv
<1> USE SeqQueueAssumption, Tags DEF Init
<1>1. /\ Len(chan) = 0 /\ Len(delivered) = 0
      /\ chan \in Seq(Blocks) /\ delivered \in Seq(Blocks)
  OBVIOUS
<1>2. TypeOK
  BY <1>1 DEF TypeOK, SlotStates
<1>3. Consistent
  BY <1>1 DEF Consistent, Queued, Placed, Filled, Told, Sound, Complete, Answered, Blocks,
           Broken
<1> QED  BY <1>2, <1>3 DEF IInv

\* Every step keeps the types.
LEMMA TypeKept ==
  ASSUME IInv, [Next]_vars
  PROVE  TypeOK'
<1> USE SeqQueueAssumption, Tags
   DEF IInv, Consistent, TypeOK, Placed, Lost, Deserted, Blocks, Reader, SlotStates,
       senderVars, receiverVars
<1>1. CASE PrepareSend
  BY <1>1 DEF PrepareSend, HoldsNone, Holds
<1>2. ASSUME NEW b \in Blocks, HandToCompressor(b) PROVE TypeOK'
  BY <1>2 DEF HandToCompressor, Holds
<1>3. ASSUME NEW b \in Blocks, FillOwnSlot(b) PROVE TypeOK'
  BY <1>3 DEF FillOwnSlot, Holds
<1>4. CASE ReadFails
  BY <1>4, OwnSlotDropped DEF ReadFails
<1>5. CASE FinishOk
  BY <1>5, CellTyped DEF FinishOk, MakeSuccess, HoldsNone, Holds
<1>6. CASE FinishErr
  BY <1>6, CellTyped DEF FinishErr, MakeError
<1>7. CASE Disconnect
  BY <1>7 DEF Disconnect
<1>8. CASE ReaderPanics
  BY <1>8, OwnSlotDropped DEF ReaderPanics
<1>9. ASSUME NEW b \in Blocks, SlotFinish(b),
            UNCHANGED <<senderVars, chan, receiverVars>>
     PROVE  TypeOK'
  BY <1>9 DEF SlotFinish
<1>10. ASSUME NEW b \in Blocks, SlotError(b),
            UNCHANGED <<senderVars, chan, receiverVars>>
     PROVE  TypeOK'
  BY <1>10, CellTyped DEF SlotError, MakeError
<1>11. ASSUME NEW b \in Blocks, SlotErrorDrop(b),
            UNCHANGED <<senderVars, chan, receiverVars>>
     PROVE  TypeOK'
  BY <1>11 DEF SlotErrorDrop
<1>12. ASSUME NEW b \in Blocks, SlotDrop(b),
            UNCHANGED <<senderVars, chan, receiverVars>>
     PROVE  TypeOK'
  BY <1>12 DEF SlotDrop
<1>13. ASSUME NEW b \in Blocks, SlotDropFinal(b),
            UNCHANGED <<senderVars, chan, receiverVars>>
     PROVE  TypeOK'
  BY <1>13, CellTyped DEF SlotDropFinal, MakeUnknownError
<1>14. CASE Take /\ UNCHANGED <<senderVars, slot>>
  BY <1>14 DEF Take
<1>15. CASE RecvDisconnected /\ UNCHANGED <<senderVars, slot>>
  BY <1>15 DEF RecvDisconnected
<1>16. CASE ItemAccepted /\ UNCHANGED <<senderVars, slot>>
  BY <1>16 DEF ItemAccepted
<1>17. CASE ItemRefused /\ UNCHANGED <<senderVars, slot>>
  BY <1>17 DEF ItemRefused
<1>18. CASE ItemLost /\ UNCHANGED <<senderVars, slot>>
  BY <1>18 DEF ItemLost
<1>19. CASE FinishGotItem /\ UNCHANGED <<senderVars, slot>>
  BY <1>19 DEF FinishGotItem
<1>20. CASE FinishDisconnected /\ UNCHANGED <<senderVars, slot>>
  BY <1>20 DEF FinishDisconnected
<1>21. CASE TakeResult /\ UNCHANGED <<senderVars, slot>>
  BY <1>21, CellTyped DEF TakeResult, GetResult
<1>22. CASE UNCHANGED vars
  BY <1>22 DEF vars
<1> QED
  BY <1>1, <1>2, <1>3, <1>4, <1>5, <1>6, <1>7, <1>8, <1>9, <1>10, <1>11, <1>12, <1>13,
         <1>14, <1>15, <1>16, <1>17, <1>18, <1>19, <1>20, <1>21, <1>22
     DEF Next, Sender, Compressor, Receiver, Terminated

\* Every step keeps blocks in their places and the cell in step with what happened.
LEMMA ConsistencyKept ==
  ASSUME IInv, [Next]_vars
  PROVE  Consistent'
<1> USE SeqQueueAssumption, Tags
   DEF IInv, Consistent, TypeOK, Queued, Placed, Filled, Told, Sound, Complete,
       Answered, Troubled, Broken, Lost, Deserted, Blocks, Reader, SlotStates,
       ReceiverAlive, senderVars, receiverVars
<1>1. CASE PrepareSend
  <2>1. Queued'
    <3>1. /\ chan' = Append(chan, prepared + 1) /\ prepared' = prepared + 1
          /\ cur' = cur /\ rx' = rx /\ rx # "done" /\ rx # "verdict"
      BY <1>1 DEF PrepareSend
    <3>2. cur + Len(chan') = prepared'
      BY <3>1
    <3>3. ASSUME NEW i \in 1 .. Len(chan') PROVE chan'[i] = cur + i
      <4>1. /\ chan \in Seq(Blocks) /\ i \in 1 .. Len(chan) + 1
            /\ chan'[i] = IF i = Len(chan) + 1 THEN prepared + 1 ELSE chan[i]
        BY <3>1
      <4>2. cur + Len(chan) = prepared /\ \A j \in 1 .. Len(chan) : chan[j] = cur + j
        BY <3>1
      <4> QED  BY <4>1, <4>2
    <3> QED  BY <3>1, <3>2, <3>3
  <2>2. (Placed /\ Filled /\ Told)'
    BY <1>1 DEF PrepareSend, HoldsNone, Holds
  <2>3. (Sound /\ Complete /\ Answered)'
    BY <1>1 DEF PrepareSend, HoldsNone, Holds
  <2> QED  BY <2>1, <2>2, <2>3 DEF Consistent
<1>2. ASSUME NEW b \in Blocks, HandToCompressor(b) PROVE Consistent'
  BY <1>2, SMTT(30) DEF HandToCompressor, Holds
<1>3. ASSUME NEW b \in Blocks, FillOwnSlot(b) PROVE Consistent'
  BY <1>3, SMTT(30) DEF FillOwnSlot, Holds
<1>4. CASE ReadFails
  <2>1. Sound'
    <3>1. DropOwnSlot /\ sent' = sent  BY <1>4 DEF ReadFails
    <3>2. CASE final' = final
      BY <3>1, <3>2, OwnSlotDropped
    <3>3. CASE final' = Mark("unknown") /\ \E k \in Blocks : slot'[k] = "dropped"
      BY <3>3
    <3> QED  BY <3>1, <3>2, <3>3, OwnSlotDropped
  <2>2. (Queued /\ Placed /\ Filled /\ Told)'
    BY <1>4, OwnSlotDropped, SMTT(30) DEF ReadFails
  <2>3. (Complete /\ Answered)'
    BY <1>4, OwnSlotDropped DEF ReadFails
  <2> QED  BY <2>1, <2>2, <2>3 DEF Consistent
<1>5. CASE FinishOk
  BY <1>5, SMTT(30) DEF FinishOk, MakeSuccess, HoldsNone, Holds
<1>6. CASE FinishErr
  BY <1>6 DEF FinishErr, MakeError
<1>7. CASE Disconnect
  BY <1>7 DEF Disconnect
<1>8. CASE ReaderPanics
  <2>1. Sound'
    <3>1. DropOwnSlot /\ sent' = sent  BY <1>8 DEF ReaderPanics
    <3>2. CASE final' = final
      BY <3>1, <3>2, OwnSlotDropped
    <3>3. CASE final' = Mark("unknown") /\ \E k \in Blocks : slot'[k] = "dropped"
      BY <3>3
    <3> QED  BY <3>1, <3>2, <3>3, OwnSlotDropped
  <2>2. (Queued /\ Placed /\ Filled /\ Told)'
    BY <1>8, OwnSlotDropped DEF ReaderPanics
  <2>3. (Complete /\ Answered)'
    BY <1>8, OwnSlotDropped DEF ReaderPanics
  <2> QED  BY <2>1, <2>2, <2>3 DEF Consistent
<1>9. ASSUME NEW b \in Blocks, SlotFinish(b),
            UNCHANGED <<senderVars, chan, receiverVars>>
     PROVE  Consistent'
  <2>1. (Queued /\ Placed /\ Filled /\ Told)'
    BY <1>9, SMTT(30) DEF SlotFinish
  <2>2. (Sound /\ Complete /\ Answered)'
    BY <1>9, SMTT(30) DEF SlotFinish
  <2> QED  BY <2>1, <2>2 DEF Consistent
<1>10. ASSUME NEW b \in Blocks, SlotError(b),
            UNCHANGED <<senderVars, chan, receiverVars>>
     PROVE  Consistent'
  <2>1. (Queued /\ Placed /\ Filled /\ Told)'
    BY <1>10, SMTT(30) DEF SlotError, MakeError
  <2>2. (Sound /\ Complete /\ Answered)'
    BY <1>10 DEF SlotError, MakeError
  <2> QED  BY <2>1, <2>2 DEF Consistent
<1>11. ASSUME NEW b \in Blocks, SlotErrorDrop(b),
            UNCHANGED <<senderVars, chan, receiverVars>>
     PROVE  Consistent'
  <2>1. (Queued /\ Placed /\ Filled /\ Told)'
    BY <1>11 DEF SlotErrorDrop
  <2>2. (Sound /\ Complete /\ Answered)'
    BY <1>11 DEF SlotErrorDrop
  <2> QED  BY <2>1, <2>2 DEF Consistent
<1>12. ASSUME NEW b \in Blocks, SlotDrop(b),
            UNCHANGED <<senderVars, chan, receiverVars>>
     PROVE  Consistent'
  <2>1. (Queued /\ Placed /\ Filled /\ Told)'
    BY <1>12 DEF SlotDrop
  <2>2. (Sound /\ Complete /\ Answered)'
    BY <1>12, SMTT(30) DEF SlotDrop
  <2> QED  BY <2>1, <2>2 DEF Consistent
<1>13. ASSUME NEW b \in Blocks, SlotDropFinal(b),
            UNCHANGED <<senderVars, chan, receiverVars>>
     PROVE  Consistent'
  <2>1. (Queued /\ Placed /\ Filled /\ Told)'
    BY <1>13 DEF SlotDropFinal, MakeUnknownError
  <2>2. (Sound /\ Complete /\ Answered)'
    BY <1>13, SMTT(30) DEF SlotDropFinal, MakeUnknownError
  <2> QED  BY <2>1, <2>2 DEF Consistent
<1>14. CASE Take /\ UNCHANGED <<senderVars, slot>>
  <2>1. Queued'
    <3>1. chan # <<>> /\ chan' = Tail(chan) /\ cur' = Head(chan) /\ rx' = "wait"
      BY <1>14 DEF Take
    <3>2. /\ Len(chan) \in Nat \ {0} /\ Len(chan') = Len(chan) - 1
          /\ \A i \in 1 .. Len(chan') : chan'[i] = chan[i + 1]
      BY <3>1
    <3>3. cur' = cur + 1
      BY <1>14, <3>1, <3>2 DEF Take
    <3>4. cur' + Len(chan') = prepared'
      BY <1>14, <3>2, <3>3 DEF Take
    <3>5. ASSUME NEW i \in 1 .. Len(chan') PROVE chan'[i] = cur' + i
      BY <1>14, <3>2, <3>3 DEF Take
    <3> QED  BY <3>1, <3>4, <3>5
  <2>2. (Placed /\ Filled /\ Told)'
    BY <1>14 DEF Take
  <2>3. (Sound /\ Complete /\ Answered)'
    BY <1>14 DEF Take
  <2> QED  BY <2>1, <2>2, <2>3 DEF Consistent
<1>15. CASE RecvDisconnected /\ UNCHANGED <<senderVars, slot>>
  BY <1>15 DEF RecvDisconnected
<1>16. CASE ItemAccepted /\ UNCHANGED <<senderVars, slot>>
  BY <1>16 DEF ItemAccepted
<1>17. CASE ItemRefused /\ UNCHANGED <<senderVars, slot>>
  BY <1>17 DEF ItemRefused
<1>18. CASE ItemLost /\ UNCHANGED <<senderVars, slot>>
  BY <1>18 DEF ItemLost
<1>19. CASE FinishGotItem /\ UNCHANGED <<senderVars, slot>>
  BY <1>19 DEF FinishGotItem
<1>20. CASE FinishDisconnected /\ UNCHANGED <<senderVars, slot>>
  BY <1>20 DEF FinishDisconnected
<1>21. CASE TakeResult /\ UNCHANGED <<senderVars, slot>>
  BY <1>21 DEF TakeResult, GetResult
<1>22. CASE UNCHANGED vars
  BY <1>22 DEF vars
<1> QED
  BY <1>1, <1>2, <1>3, <1>4, <1>5, <1>6, <1>7, <1>8, <1>9, <1>10, <1>11, <1>12, <1>13,
         <1>14, <1>15, <1>16, <1>17, <1>18, <1>19, <1>20, <1>21, <1>22
     DEF Next, Sender, Compressor, Receiver, Terminated

\* Every reachable state satisfies the invariant.
LEMMA Invariant == Spec => []IInv
<1>1. ASSUME IInv, [Next]_vars PROVE IInv'
  BY <1>1, TypeKept, ConsistencyKept DEF IInv
<1> QED  BY InitIInv, <1>1, PTL DEF Spec

-----------------------------------------------------------------------------
(* What follows from it. *)

\* TypeOK, for every number of blocks, capacity and choice of panicking threads.
THEOREM TypeCorrect == Spec => []TypeOK
<1>1. IInv => TypeOK  BY DEF IInv
<1> QED  BY Invariant, <1>1, PTL

\* When reading fails and no compressor was in trouble, the writer is told the read
\* error (or has failed itself), whatever unknown error the reader's own dropped slot
\* left in the cell before.
THEOREM ReadErrorIsReported == Spec => []ReadErrorReported
<1>1. ASSUME IInv PROVE ReadErrorReported
  <2> SUFFICES ASSUME rx = "done", sent = "err",
                      \A k \in Blocks : slot[k] \notin {"erring", "errored"} \cup Deserted
               PROVE  ret \in {ErrorFrom(Reader), Mark("callback")}
    BY DEF ReadErrorReported
  <2>1. ~Troubled  BY DEF Troubled, Broken
  <2> QED  BY <1>1, <2>1 DEF IInv, Consistent, Answered
<1> QED  BY Invariant, <1>1, PTL

\* An explicit error leaves the cell only by being returned.
THEOREM FirstErrorIsKept == Spec => FirstErrorWins
<1>1. ASSUME Next, final.tag = "error", final' # final PROVE ret' = final
  <2> USE Tags DEF MakeUnknownError, MakeSuccess, MakeError, GetResult
  <2>1. ASSUME Sender PROVE FALSE
    BY <1>1, <2>1
       DEF Sender, PrepareSend, HandToCompressor, FillOwnSlot, ReadFails, FinishOk,
           FinishErr, Disconnect, ReaderPanics, DropOwnSlot
  <2>2. ASSUME NEW b \in Blocks, Compressor(b) PROVE FALSE
    BY <1>1, <2>2
       DEF Compressor, SlotFinish, SlotError, SlotErrorDrop, SlotDrop, SlotDropFinal
  <2>3. CASE Receiver
    BY <1>1, <2>3
       DEF Receiver, Take, RecvDisconnected, ItemAccepted, ItemRefused, ItemLost,
           FinishGotItem, FinishDisconnected, TakeResult
  <2> QED  BY <1>1, <2>1, <2>2, <2>3 DEF Next, Terminated, vars
<1>2. [Next]_vars => [final.tag = "error" /\ final' # final => ret' = final]_vars
  BY <1>1
<1> QED  BY <1>2, PTL DEF Spec, FirstErrorWins

\* A slot that is dropped unfinished is an error, as the test says - when no compressor
\* panics with a slot in its hands: then, only the reader drops slots, and it never
\* claims success afterwards.
THEOREM UnfinishedIsError ==
  "compressor" \notin PanicBy => (Spec => []UnfinishedSlotIsError)
<1> DEFINE NoneDeserted == \A k \in Blocks : slot[k] \notin Deserted
<1> SUFFICES ASSUME "compressor" \notin PanicBy PROVE Spec => []UnfinishedSlotIsError
  OBVIOUS
<1>1. Init => NoneDeserted
  BY DEF Init, Deserted
<1>2. ASSUME IInv, NoneDeserted, [Next]_vars PROVE NoneDeserted'
  <2> USE <1>2 DEF IInv, TypeOK, Deserted
  <2>1. CASE Sender
    BY <2>1, OwnSlotDropped
       DEF Sender, PrepareSend, HandToCompressor, FillOwnSlot, ReadFails, FinishOk,
           FinishErr, Disconnect, ReaderPanics
  <2>2. ASSUME NEW b \in Blocks, Compressor(b) PROVE NoneDeserted'
    BY <2>2
       DEF Compressor, SlotFinish, SlotError, SlotErrorDrop, SlotDrop, SlotDropFinal
  <2>3. CASE UNCHANGED slot
    BY <2>3
  <2> QED  BY <2>1, <2>2, <2>3 DEF Next, Receiver, Terminated, vars
<1>3. IInv /\ NoneDeserted => UnfinishedSlotIsError
  BY DEF IInv, Consistent, Answered, Filled, UnfinishedSlotIsError
<1> QED  BY Invariant, <1>1, <1>2, <1>3, PTL DEF Spec

-----------------------------------------------------------------------------
(* The queue implements OrderedDelivery. *)

DesertedBlocks == {k \in Blocks : slot[k] \in Deserted}

\* Nobody recovers from a failure.
LEMMA FaultStays ==
  ASSUME IInv, [Next]_vars, Faulty
  PROVE  Faulty'
<1> USE Tags DEF Faulty, Lost, Deserted
<1>1. CASE Sender
  BY <1>1, OwnSlotDropped, SeqQueueAssumption
     DEF Sender, PrepareSend, HandToCompressor, FillOwnSlot, ReadFails, FinishOk, FinishErr,
         Disconnect, ReaderPanics, Holds, IInv, Consistent, TypeOK, Filled, Told, Blocks,
         receiverVars
<1>2. ASSUME NEW b \in Blocks, Compressor(b) PROVE Faulty'
  BY <1>2
     DEF Compressor, SlotFinish, SlotError, SlotErrorDrop, SlotDrop, SlotDropFinal, IInv, TypeOK,
         senderVars, receiverVars
<1>3. CASE Receiver
  BY <1>3
     DEF Receiver, Take, RecvDisconnected, ItemAccepted, ItemRefused, ItemLost, FinishGotItem,
         FinishDisconnected, TakeResult, IInv, Consistent, Answered, senderVars
<1>4. CASE UNCHANGED vars
  BY <1>4 DEF vars
<1> QED  BY <1>1, <1>2, <1>3, <1>4 DEF Next, Terminated

\* A step that delivers nothing, gives no verdict and abandons nothing is at most a
\* fault in the abstract.
LEMMA QuietStep ==
  ASSUME IInv, [Next]_vars,
         delivered' = delivered, Verdict' = Verdict, DesertedBlocks' = DesertedBlocks
  PROVE  [Abstract!Next]_Abstract!vars
<1>1. CASE Faulty
  <2>1. Faulty'  BY <1>1, FaultStays
  <2> QED  BY <1>1, <2>1 DEF Abstract!vars, DesertedBlocks
<1>2. CASE ~Faulty /\ ~Faulty'
  <2>1. Faulty \in BOOLEAN /\ Faulty' \in BOOLEAN  BY DEF Faulty
  <2>2. Faulty' = Faulty  BY <1>2, <2>1
  <2> QED  BY <2>2 DEF Abstract!vars, DesertedBlocks
<1>3. CASE ~Faulty /\ Faulty'
  BY <1>3 DEF Abstract!Next, Abstract!Fault, DesertedBlocks
<1> QED  BY <1>1, <1>2, <1>3

\* The verdict is given for a reason: success for a complete stream without a fault, or
\* for one that broke off at an abandoned block; failure when somebody failed.
LEMMA VerdictHasReason ==
  ASSUME IInv, rx = "verdict"
  PROVE  /\ GetResult.tag = "ok" => \/ Len(delivered) = N /\ ~Faulty
                                    \/ Len(delivered) + 1 \in DesertedBlocks
         /\ GetResult.tag # "ok" => Faulty
<1> USE Tags
   DEF IInv, Consistent, TypeOK, Placed, Told, Sound, Complete, Answered, Blocks
<1>1. CASE final.tag = "ok"
  <2>1. sent = "ok" /\ tx = "gone" /\ prepared = N /\ ret.tag # "callback" /\ chan = <<>>
    BY <1>1 DEF Queued
  <2>2. CASE cur = Len(delivered)
    <3>1. Len(delivered) = N
      BY <2>1, <2>2, SeqQueueAssumption DEF Queued
    <3>2. \A k \in Blocks : slot[k] = "item"
      BY <3>1, SeqQueueAssumption DEF Filled
    <3> QED  BY <1>1, <2>1, <3>1, <3>2 DEF Faulty, Lost, Deserted, GetResult
  <2>3. CASE cur = Len(delivered) + 1 /\ slot[cur] \in Lost
    <3>1. cur \in Blocks
      BY <2>3, SeqQueueAssumption
    <3>2. slot[cur] # "dropped" /\ slot[cur] # "errored"
      BY <1>1, <2>1, <3>1 DEF Filled, Broken
    <3> QED  BY <1>1, <2>3, <3>1, <3>2 DEF Lost, DesertedBlocks, GetResult
  <2> QED  BY <2>2, <2>3
<1>2. CASE final.tag # "ok"
  <2>1. tx = "gone"  OBVIOUS
  <2>2. CASE sent # "ok"
    BY <2>1, <2>2, <1>2 DEF Faulty, GetResult
  <2>3. CASE sent = "ok"
    BY <2>3, <1>2 DEF Faulty, GetResult, Broken, Lost, Deserted, Results
  <2> QED  BY <2>2, <2>3
<1> QED  BY <1>1, <1>2

\* Every step of the queue is a step of OrderedDelivery or leaves its variables alone.
LEMMA NextImplements ==
  ASSUME IInv, IInv', [Next]_vars
  PROVE  [Abstract!Next]_Abstract!vars
<1>1. CASE Sender
  <2>1. DesertedBlocks' = DesertedBlocks
    BY <1>1, OwnSlotDropped
       DEF Sender, PrepareSend, HandToCompressor, FillOwnSlot, ReadFails, FinishOk, FinishErr,
           Disconnect, ReaderPanics, Holds, DesertedBlocks, Deserted, IInv, Consistent, TypeOK,
           Filled, Blocks
  <2>2. UNCHANGED receiverVars
    BY <1>1
       DEF Sender, PrepareSend, HandToCompressor, FillOwnSlot, ReadFails, FinishOk, FinishErr,
           Disconnect, ReaderPanics
  <2> QED  BY <2>1, <2>2, QuietStep DEF receiverVars, Verdict
<1>2. ASSUME NEW b \in Blocks, Compressor(b) PROVE [Abstract!Next]_Abstract!vars
  <2>1. UNCHANGED receiverVars
    BY <1>2 DEF Compressor
  <2>2. CASE SlotDrop(b)
    <3>1. Len(delivered) \in Nat /\ b > Len(delivered) /\ b \notin DesertedBlocks
      BY <2>2, SMTT(30) DEF SlotDrop, IInv, Consistent, TypeOK, Filled, Blocks, DesertedBlocks,
             Deserted
    <3>2. DesertedBlocks' = DesertedBlocks \cup {b}
      BY <2>2 DEF SlotDrop, DesertedBlocks, Deserted, IInv, TypeOK
    <3>3. Faulty'
      BY <2>2 DEF SlotDrop, Faulty, Lost, Deserted, IInv, TypeOK
    <3>4. b \in (Len(delivered) + 1 .. N) \ DesertedBlocks
      BY <3>1, SeqQueueAssumption DEF Blocks
    <3> QED
      BY <2>1, <3>2, <3>3, <3>4
         DEF Abstract!Next, Abstract!Desert, DesertedBlocks, Verdict, receiverVars
  <2>3. CASE ~SlotDrop(b)
    <3>1. DesertedBlocks' = DesertedBlocks
      BY <1>2, <2>3
         DEF Compressor, SlotFinish, SlotError, SlotErrorDrop, SlotDropFinal, DesertedBlocks,
             Deserted, IInv, TypeOK
    <3> QED  BY <2>1, <3>1, QuietStep DEF receiverVars, Verdict
  <2> QED  BY <2>2, <2>3
<1>3. CASE Receiver
  <2>1. UNCHANGED <<senderVars, slot>> /\ DesertedBlocks' = DesertedBlocks
    BY <1>3 DEF Receiver, DesertedBlocks
  <2>2. CASE Take \/ RecvDisconnected \/ ItemLost \/ FinishDisconnected
    <3>1. delivered' = delivered /\ rx # "done" /\ rx' # "done"
      BY <2>2 DEF Take, RecvDisconnected, ItemLost, FinishDisconnected
    <3> QED  BY <2>1, <3>1, QuietStep DEF Verdict
  <2>3. CASE ItemAccepted
    <3>1. /\ rx = "wait" /\ rx' = "recv" /\ slot[cur] = "item"
          /\ delivered' = Append(delivered, cur) /\ ret' = ret
      BY <2>3 DEF ItemAccepted
    <3>2. cur = Len(delivered) + 1 /\ cur \in 0 .. N /\ Len(delivered) \in Nat
      BY <3>1 DEF IInv, Consistent, Placed, TypeOK
    <3>3. Len(delivered) < N /\ cur \notin DesertedBlocks
      BY <3>1, <3>2, SeqQueueAssumption DEF DesertedBlocks, Deserted
    <3>4. Faulty' <=> Faulty
      BY <2>1, <3>1 DEF Faulty, senderVars
    <3> QED
      BY <2>1, <3>1, <3>2, <3>3, <3>4
         DEF Abstract!Next, Abstract!Deliver, DesertedBlocks, Verdict
  <2>4. CASE ItemRefused
    BY <2>1, <2>4, Tags
       DEF ItemRefused, Abstract!Next, Abstract!Fail, DesertedBlocks, Verdict, Faulty
  <2>5. CASE FinishGotItem
    <3>1. /\ rx = "finish" /\ chan # <<>>
          /\ rx' = "done" /\ ret' = Mark("unknown") /\ delivered' = delivered
      BY <2>5 DEF FinishGotItem
    <3>2. cur \in Blocks /\ slot[cur] \in Lost
      BY <3>1, SeqQueueAssumption DEF IInv, Consistent, Placed, TypeOK, Blocks
    <3>3. Faulty
      BY <3>2 DEF Faulty
    <3>4. Faulty'
      BY <3>3, FaultStays
    <3> QED
      BY <2>1, <3>1, <3>4, Tags
         DEF Abstract!Next, Abstract!Fail, DesertedBlocks, Verdict
  <2>6. CASE TakeResult
    <3>1. rx = "verdict" /\ rx' = "done" /\ ret' = GetResult /\ delivered' = delivered
      BY <2>6 DEF TakeResult
    <3>2. CASE GetResult.tag = "ok"
      <4>1. Faulty' <=> Faulty
        BY <2>1, <3>1, <3>2, Tags
           DEF Faulty, senderVars, IInv, Consistent, Answered
      <4> QED
        BY <2>1, <3>1, <3>2, <4>1, VerdictHasReason
           DEF Abstract!Next, Abstract!Succeed, DesertedBlocks, Verdict
    <3>3. CASE GetResult.tag # "ok"
      <4>1. Faulty'
        BY <3>1, <3>3, VerdictHasReason, FaultStays
      <4> QED
        BY <2>1, <3>1, <3>3, <4>1
           DEF Abstract!Next, Abstract!Fail, DesertedBlocks, Verdict
    <3> QED  BY <3>2, <3>3
  <2> QED  BY <1>3, <2>2, <2>3, <2>4, <2>5, <2>6 DEF Receiver
<1>4. CASE UNCHANGED vars
  BY <1>4, QuietStep DEF vars, Verdict, DesertedBlocks
<1> QED  BY <1>1, <1>2, <1>3, <1>4 DEF Next, Terminated

\* The queue promises what OrderedDelivery says: blocks reach the writer in file order
\* without a gap, and try_for_each returns Ok only for a complete and faultless stream,
\* or for one that broke off at a block that a panicking compressor abandoned.
THEOREM DeliveryImplemented == Spec => ImplementsOrderedDelivery
<1>1. Init => Abstract!Init
  BY Tags DEF Init, Abstract!Init, Faulty, Verdict, Lost, Deserted
<1> QED
  BY <1>1, Invariant, NextImplements, PTL
     DEF Spec, ImplementsOrderedDelivery, Abstract!Spec

=============================================================================
