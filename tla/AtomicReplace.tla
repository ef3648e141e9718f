--------------------------- MODULE AtomicReplace ---------------------------
(***************************************************************************)
(* What replacing a file promises to those who use it (README.md,          *)
(* "Better Error Handling"): the path names the old file or the complete   *)
(* new one, and nobody can tell by what the file holds.  The promise has   *)
(* one limit: what others change after the last look at the file is not    *)
(* seen by the one who replaces it.                                        *)
(***************************************************************************)
VARIABLES
  file,       \* what the path shows: contents and attributes, or that it is gone
  protected,  \* do the file's flags forbid to replace it?
  exposed,    \* have others changed the file since it was last looked at?
  replaced    \* has the file been replaced?

vars == <<file, protected, exposed, replaced>>

Init == replaced = FALSE /\ exposed = TRUE

\* Others may do anything to the file.
Others == exposed' = TRUE /\ UNCHANGED replaced

Look == exposed' = FALSE /\ UNCHANGED <<file, protected, replaced>>

Replace ==
  /\ ~replaced /\ replaced' = TRUE
  /\ ~exposed => (~protected /\ file' = file)
  /\ protected' = FALSE
  /\ UNCHANGED exposed

Spec == Init /\ [][Others \/ Look \/ Replace]_vars
=============================================================================
