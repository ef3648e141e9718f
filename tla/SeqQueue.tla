----------------------------- MODULE SeqQueue ------------------------------
(***************************************************************************)
(* The sequential queue of applesauce/src/seq_queue.rs, driven the way the *)
(* reader, compressor and writer threads drive it for one file.            *)
(*                                                                         *)
(* The reader prepares a slot per block, in file order, on a bounded       *)
(* channel, and hands the slot to a compressor (or fills it itself).       *)
(* Compressors resolve their slots in any order.  The writer takes slots   *)
(* from the channel in order and waits on each slot's oneshot.  How it all *)
(* ended travels on the side, in a shared cell (FinalSuccess).             *)
(*                                                                         *)
(* Slot k's oneshot is dropped and the shared cell written by separate     *)
(* steps whenever another thread can run in between.                       *)
(***************************************************************************)
EXTENDS Naturals, Sequences

CONSTANTS
  N,         \* blocks in the file
  Cap,       \* capacity of the channel
  PanicBy    \* which threads may panic: a subset of {"reader", "compressor"}

ASSUME SeqQueueAssumption ==
  /\ N \in Nat
  /\ Cap \in Nat \ {0}
  /\ PanicBy \subseteq {"reader", "compressor"}

VARIABLES
  mode,       \* the operation's Mode
  tx,         \* the Sender: "open", "failing", "recorded" or "gone"
  sent,       \* what Sender::finish was told: "none", "ok" or "err"
  prepared,   \* how many slots prepare_send has made
  slot,       \* the state of each block's Slot
  chan,       \* slots queued in the channel, oldest first
  final,      \* the shared FinalSuccess cell
  rx,         \* the Receiver's place in try_for_each
  cur,        \* the slot the receiver waits on
  delivered,  \* blocks given to the callback
  ret         \* what try_for_each returned

senderVars == <<mode, tx, sent, prepared>>
receiverVars == <<rx, cur, delivered, ret>>
vars == <<mode, tx, sent, prepared, slot, chan, final, rx, cur, delivered, ret>>

Blocks == 1 .. N
Reader == 0                              \* names the reader as an error's origin
Mark(tag) == [tag |-> tag, from |-> Reader]
ErrorFrom(who) == [tag |-> "error", from |-> who]
Results == {Mark(t) : t \in {"none", "ok", "unknown", "callback"}}
             \cup {ErrorFrom(w) : w \in {Reader} \cup Blocks}

\* A slot is "unsent", then held by the "reader" or a "compressor".  It ends with
\* an "item", or as "errored", "dropped" (by the reader) or "abandoned" (by a
\* compressor); "erring" has recorded its error and not yet dropped its oneshot,
\* "dropping" is about to be abandoned and has done it the other way round.
SlotStates == {"unsent", "reader", "compressor", "item",
               "erring", "errored", "dropped", "dropping", "abandoned"}
Deserted == {"dropping", "abandoned"}
Lost == Deserted \cup {"errored", "dropped"}    \* the oneshot is gone, without an item

ReceiverAlive == rx \notin {"verdict", "done"}

-----------------------------------------------------------------------------
(* The FinalSuccess cell. *)

\* Definitions marked "Seeded fault" are not the code's: each is the next definition
\* with a plausible bug, and shows that a property can fail.

MakeSuccess == IF final.tag = "none" THEN Mark("ok") ELSE final

\* Seeded fault: the unknown error of a dropped slot overwrites an explicit one.
UnknownOverwrites == Mark("unknown")

MakeUnknownError == IF final.tag = "error" THEN final ELSE Mark("unknown")

\* Seeded fault: an error is recorded only in an empty cell.
ErrorOnlyWhenEmpty(who) == IF final.tag = "none" THEN ErrorFrom(who) ELSE final

MakeError(who) == IF final.tag = "error" THEN final ELSE ErrorFrom(who)

GetResult == IF final.tag = "none" THEN Mark("unknown") ELSE final

-----------------------------------------------------------------------------
(* The sending side, run by the reader thread. *)

Holds(k) == slot[k] = "reader"
HoldsNone == \A k \in Blocks : ~Holds(k)

\* Seeded fault: the channel does not push back.
PrepareSendUnbounded ==
  /\ tx = "open" /\ HoldsNone
  /\ prepared < N
  /\ ReceiverAlive
  /\ prepared' = prepared + 1
  /\ chan' = Append(chan, prepared')
  /\ slot' = [slot EXCEPT ![prepared'] = "reader"]
  /\ UNCHANGED <<mode, tx, sent, final, receiverVars>>

PrepareSend ==
  /\ tx = "open" /\ HoldsNone
  /\ prepared < N
  /\ ReceiverAlive
  /\ Len(chan) < Cap
  /\ prepared' = prepared + 1
  /\ chan' = Append(chan, prepared')
  /\ slot' = [slot EXCEPT ![prepared'] = "reader"]
  /\ UNCHANGED <<mode, tx, sent, final, receiverVars>>

HandToCompressor(k) ==
  /\ mode \in {"compress", "manual"}
  /\ tx = "open" /\ Holds(k)
  /\ slot' = [slot EXCEPT ![k] = "compressor"]
  /\ UNCHANGED <<senderVars, chan, final, receiverVars>>

\* Decompressing by reading, the reader fills the slot itself.
FillOwnSlot(k) ==
  /\ mode = "reading"
  /\ tx = "open" /\ Holds(k)
  /\ slot' = [slot EXCEPT ![k] = "item"]
  /\ UNCHANGED <<senderVars, chan, final, receiverVars>>

\* Dropping a slot the reader still holds: nobody reads the cell while the sender
\* lives, so dropping the oneshot and recording the unknown error is one step.
DropOwnSlot ==
  /\ slot' = [k \in Blocks |-> IF Holds(k) THEN "dropped" ELSE slot[k]]
  /\ final' = IF HoldsNone THEN final ELSE MakeUnknownError

\* A read fails, the file's size changed, or (manually) no slot was to be had.  Only
\* with_file_chunks takes its slot before it reads, and so can still hold one.
ReadFails ==
  /\ tx = "open"
  /\ mode = "manual" => HoldsNone
  /\ tx' = "failing"
  /\ DropOwnSlot
  /\ UNCHANGED <<mode, sent, prepared, chan, receiverVars>>

\* Sender::finish(Ok): everything was read, or prepare_send found no receiver (which
\* with_file_chunks takes for a reason to stop, and manual mode for an error).
FinishOk ==
  /\ tx = "open" /\ HoldsNone
  /\ prepared = N \/ (~ReceiverAlive /\ mode # "manual")
  /\ tx' = "recorded" /\ sent' = "ok"
  /\ final' = MakeSuccess
  /\ UNCHANGED <<mode, prepared, slot, chan, receiverVars>>

FinishErr ==
  /\ tx = "failing"
  /\ tx' = "recorded" /\ sent' = "err"
  /\ final' = MakeError(Reader)
  /\ UNCHANGED <<mode, prepared, slot, chan, receiverVars>>

\* The end of Sender::finish drops the channel, after the result is recorded.
Disconnect ==
  /\ tx = "recorded"
  /\ tx' = "gone"
  /\ UNCHANGED <<mode, sent, prepared, slot, chan, final, receiverVars>>

\* The reader unwinds: its slot and its sender are dropped without a finish.
ReaderPanics ==
  /\ "reader" \in PanicBy
  /\ tx = "open"
  /\ tx' = "gone"
  /\ DropOwnSlot
  /\ UNCHANGED <<mode, sent, prepared, chan, receiverVars>>

Sender ==
  \/ PrepareSend
  \/ \E k \in Blocks : HandToCompressor(k) \/ FillOwnSlot(k)
  \/ ReadFails \/ FinishOk \/ FinishErr \/ Disconnect \/ ReaderPanics

-----------------------------------------------------------------------------
(* A slot in a compressor's hands. *)

SlotFinish(k) ==
  /\ slot[k] = "compressor"
  /\ slot' = [slot EXCEPT ![k] = "item"]
  /\ UNCHANGED final

\* Seeded fault: the slot is disarmed without recording the error.
SlotErrorUnrecorded(k) ==
  /\ slot[k] = "compressor"
  /\ slot' = [slot EXCEPT ![k] = "errored"]
  /\ UNCHANGED final

\* Slot::error records the error first and drops the oneshot afterwards ...
SlotError(k) ==
  /\ slot[k] = "compressor"
  /\ slot' = [slot EXCEPT ![k] = "erring"]
  /\ final' = MakeError(k)

SlotErrorDrop(k) ==
  /\ slot[k] = "erring"
  /\ slot' = [slot EXCEPT ![k] = "errored"]
  /\ UNCHANGED final

\* ... a slot dropped by a panic drops its fields in order: the oneshot first.
SlotDrop(k) ==
  /\ "compressor" \in PanicBy
  /\ slot[k] = "compressor"
  /\ slot' = [slot EXCEPT ![k] = "dropping"]
  /\ UNCHANGED final

SlotDropFinal(k) ==
  /\ slot[k] = "dropping"
  /\ slot' = [slot EXCEPT ![k] = "abandoned"]
  /\ final' = MakeUnknownError

Compressor(k) ==
  /\ \/ SlotFinish(k) \/ SlotError(k) \/ SlotErrorDrop(k)
     \/ SlotDrop(k) \/ SlotDropFinal(k)
  /\ UNCHANGED <<senderVars, chan, receiverVars>>

-----------------------------------------------------------------------------
(* The receiving side: try_for_each, run by the writer thread. *)

Take ==
  /\ rx = "recv" /\ chan # <<>>
  /\ cur' = Head(chan)
  /\ chan' = Tail(chan)
  /\ rx' = "wait"
  /\ UNCHANGED <<final, delivered, ret>>

RecvDisconnected ==
  /\ rx = "recv" /\ chan = <<>> /\ tx = "gone"
  /\ rx' = "finish"
  /\ UNCHANGED <<chan, final, cur, delivered, ret>>

ItemAccepted ==
  /\ rx = "wait" /\ slot[cur] = "item"
  /\ delivered' = Append(delivered, cur)
  /\ rx' = "recv"
  /\ UNCHANGED <<chan, final, cur, ret>>

\* The callback fails and `?' drops the receiver with all that is queued.
ItemRefused ==
  /\ rx = "wait" /\ slot[cur] = "item"
  /\ rx' = "done"
  /\ ret' = Mark("callback")
  /\ chan' = <<>>
  /\ UNCHANGED <<final, cur, delivered>>

\* Seeded fault: only an explicit error wakes the receiver.
ItemLostMissed ==
  /\ rx = "wait" /\ slot[cur] = "errored"
  /\ rx' = "finish"
  /\ UNCHANGED <<chan, final, cur, delivered, ret>>

ItemLost ==
  /\ rx = "wait" /\ slot[cur] \in Lost
  /\ rx' = "finish"
  /\ UNCHANGED <<chan, final, cur, delivered, ret>>

\* Receiver::finish waits for the sender to be gone; an item it gets instead makes
\* it give up at once.
FinishGotItem ==
  /\ rx = "finish" /\ chan # <<>>
  /\ rx' = "done"
  /\ ret' = Mark("unknown")
  /\ chan' = <<>>
  /\ UNCHANGED <<final, cur, delivered>>

FinishDisconnected ==
  /\ rx = "finish" /\ chan = <<>> /\ tx = "gone"
  /\ rx' = "verdict"
  /\ UNCHANGED <<chan, final, cur, delivered, ret>>

TakeResult ==
  /\ rx = "verdict"
  /\ rx' = "done"
  /\ ret' = GetResult
  /\ final' = Mark("none")
  /\ UNCHANGED <<chan, cur, delivered>>

Receiver ==
  /\ \/ Take \/ RecvDisconnected
     \/ ItemAccepted \/ ItemRefused \/ ItemLost
     \/ FinishGotItem \/ FinishDisconnected \/ TakeResult
  /\ UNCHANGED <<senderVars, slot>>

-----------------------------------------------------------------------------

Init ==
  /\ mode \in {"compress", "manual", "reading"}
  /\ tx = "open" /\ sent = "none" /\ prepared = 0
  /\ slot = [k \in Blocks |-> "unsent"]
  /\ chan = <<>>
  /\ final = Mark("none")
  /\ rx = "recv" /\ cur = 0 /\ delivered = <<>>
  /\ ret = Mark("none")

AllStopped ==
  /\ tx = "gone" /\ rx = "done"
  /\ \A k \in Blocks : slot[k] \in {"unsent", "item", "errored", "dropped", "abandoned"}

Terminated == AllStopped /\ UNCHANGED vars

Next == Sender \/ (\E k \in Blocks : Compressor(k)) \/ Receiver \/ Terminated

Fairness ==
  /\ WF_vars(Sender)
  /\ WF_vars(Receiver)
  /\ \A k \in Blocks : WF_vars(Compressor(k))

Spec == Init /\ [][Next]_vars
FairSpec == Spec /\ Fairness

-----------------------------------------------------------------------------
(* Properties. *)

TypeOK ==
  /\ mode \in {"compress", "manual", "reading"}
  /\ tx \in {"open", "failing", "recorded", "gone"}
  /\ sent \in {"none", "ok", "err"}
  /\ prepared \in 0 .. N
  /\ slot \in [Blocks -> SlotStates]
  /\ chan \in Seq(Blocks) /\ Len(chan) <= Cap
  /\ final \in Results /\ ret \in Results
  /\ rx \in {"recv", "wait", "finish", "verdict", "done"}
  /\ cur \in 0 .. N
  /\ delivered \in Seq(Blocks)

Faulty ==
  \/ tx = "failing" \/ sent = "err" \/ (tx = "gone" /\ sent = "none")
  \/ \E k \in Blocks : slot[k] \in {"erring"} \cup Lost
  \/ ret.tag = "callback"

Verdict ==
  IF rx # "done" THEN "none" ELSE IF ret.tag = "ok" THEN "ok" ELSE "failed"

Abstract == INSTANCE OrderedDelivery
              WITH out <- delivered, faulty <- Faulty, verdict <- Verdict,
                   deserted <- {k \in Blocks : slot[k] \in Deserted}

\* Blocks reach the writer in file order without a gap, however the compressors
\* race, and try_for_each returns Ok only for a complete and faultless stream - or
\* for one that broke off at a block that a panicking compressor abandoned.
ImplementsOrderedDelivery == Abstract!Spec

\* An explicit error in the shared cell is never replaced: not by a later error,
\* not by the unknown error of a dropped slot, not by the sender's success.  It
\* leaves the cell only by being returned.
FirstErrorWins ==
  [][final.tag = "error" /\ final' # final => ret' = final]_vars

\* When reading fails and no compressor failed or panicked, the writer is told the read error,
\* even though the reader dropped an unfilled slot (an unknown error) before it
\* reported why.
ReadErrorReported ==
  (rx = "done" /\ sent = "err" /\ \A k \in Blocks : slot[k] \notin {"erring", "errored"} \cup Deserted)
     => ret \in {ErrorFrom(Reader), Mark("callback")}

\* Whoever fails, and wherever, the reader is released from a full channel, the
\* writer gets its verdict and every slot is resolved.
EveryoneStops == <>[]AllStopped

\* A slot dropped unfinished is an error: test unfinished_send_becomes_err
\* (seq_queue.rs:246-255).
UnfinishedSlotIsError ==
  ret.tag = "ok" => \A k \in Blocks : slot[k] \notin {"dropped"} \cup Deserted
=============================================================================
