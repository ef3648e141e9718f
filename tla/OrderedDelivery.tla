-------------------------- MODULE OrderedDelivery --------------------------
(***************************************************************************)
(* What a sequential queue promises to the thread that drains it, whatever *)
(* threads fill it: the items 1 .. N arrive in order and without gaps, and *)
(* then one verdict is given, which is "ok" only when every item arrived   *)
(* and nobody failed, and "failed" only when somebody did.  The promise    *)
(* stops short of a sender that deserts (a thread that panics with an item *)
(* in its hands): the verdict may be "ok" though the stream broke off      *)
(* right before that item.                                                 *)
(*                                                                         *)
(* Abstract counterpart of seq_queue.rs; SeqQueue is shown to implement it.*)
(***************************************************************************)
EXTENDS Naturals, Sequences

CONSTANT N              \* how many items a complete stream has

VARIABLES
  out,                  \* the items handed over so far
  faulty,               \* somebody has failed
  deserted,             \* the items that were abandoned without a word
  verdict               \* "none" until the stream has ended

vars == <<out, faulty, deserted, verdict>>

Init == out = <<>> /\ faulty = FALSE /\ deserted = {} /\ verdict = "none"

Deliver ==
  /\ verdict = "none"
  /\ Len(out) < N /\ Len(out) + 1 \notin deserted
  /\ out' = Append(out, Len(out) + 1)
  /\ UNCHANGED <<faulty, deserted, verdict>>

Fault == ~faulty /\ faulty' = TRUE /\ UNCHANGED <<out, deserted, verdict>>

Desert ==
  /\ \E k \in Len(out) + 1 .. N \ deserted : deserted' = deserted \cup {k}
  /\ faulty' = TRUE
  /\ UNCHANGED <<out, verdict>>

Succeed ==
  /\ verdict = "none"
  /\ (Len(out) = N /\ ~faulty) \/ Len(out) + 1 \in deserted
  /\ verdict' = "ok"
  /\ UNCHANGED <<out, faulty, deserted>>

\* The step that ends the stream may be the one that fails.
Fail ==
  /\ verdict = "none"
  /\ faulty' = TRUE
  /\ verdict' = "failed"
  /\ UNCHANGED <<out, deserted>>

Next == Deliver \/ Fault \/ Desert \/ Succeed \/ Fail

Spec == Init /\ [][Next]_vars
=============================================================================
