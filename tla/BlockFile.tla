----------------------------- MODULE BlockFile -----------------------------
(***************************************************************************)
(* What a compressed file promises: the blocks added before it was sealed  *)
(* are read back, all of them, unchanged and in order.  It is sealed only  *)
(* with as many blocks as it needs.                                        *)
(*                                                                         *)
(* Abstract counterpart of applesauce-core; CompressedFile implements it.  *)
(***************************************************************************)
EXTENDS Naturals, Sequences

VARIABLES
  need,                 \* how many blocks the file's size takes
  written,              \* the blocks added
  sealed,
  got,                  \* the blocks read back
  ended                 \* the reader has said that there are no more

vars == <<need, written, sealed, got, ended>>

Init == need \in Nat /\ written = <<>> /\ ~sealed /\ got = <<>> /\ ~ended

Add ==
  /\ ~sealed
  /\ Len(written') = Len(written) + 1
  /\ SubSeq(written', 1, Len(written)) = written
  /\ UNCHANGED <<need, sealed, got, ended>>

Seal ==
  /\ ~sealed /\ sealed' = TRUE
  /\ Len(written) = need
  /\ UNCHANGED <<need, written, got, ended>>

Read ==
  /\ sealed /\ ~ended
  /\ Len(got) < Len(written)
  /\ got' = Append(got, written[Len(got) + 1])
  /\ UNCHANGED <<need, written, sealed, ended>>

End ==
  /\ sealed /\ got = written
  /\ ended' = TRUE
  /\ UNCHANGED <<need, written, sealed, got>>

Spec == Init /\ [][Add \/ Seal \/ Read \/ End]_vars
=============================================================================
