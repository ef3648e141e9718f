--------------------------- MODULE ScratchBudget ---------------------------
(***************************************************************************)
(* The scratch budget of applesauce/src/scratch.rs: a byte counter behind a *)
(* mutex, with a condition variable for the threads that wait for space.   *)
(*                                                                         *)
(* Each request is one call of Budget::reserve and the Reservation it      *)
(* returns.  A critical section is one step; waiting on the condition      *)
(* variable gives the mutex up, and a woken thread takes it again in a     *)
(* later step, when the space that woke it may be taken already.           *)
(***************************************************************************)
EXTENDS Integers, FiniteSets

CONSTANTS
  Limit,      \* the scratch limit in bytes
  Requests,   \* the reservations ever asked for, one per file
  Sizes       \* the sizes asked for

ASSUME ScratchBudgetAssumption ==
  /\ Limit \in Nat \ {0}          \* Scratch::budget rejects a limit of zero
  /\ IsFiniteSet(Requests)
  /\ Sizes \subseteq Nat

VARIABLES
  used,      \* Usage::bytes
  stopped,   \* Usage::stopped
  st,        \* where each request is
  want,      \* the bytes each request asked for
  res        \* Reservation::bytes, 0 for a request that holds none

vars == <<used, stopped, st, want, res>>

\* A request is "new", then "trying" (about to test the budget) or "asleep" on the
\* condition variable, until it is "refused" or its reservation is "held".  A held
\* reservation may be shrunk once ("staged"), and is "gone" when dropped.
States == {"new", "trying", "asleep", "refused", "held", "staged", "gone"}
Live(f) == st[f] \in {"held", "staged"}

\* The bytes held by all reservations in r: the cells of a bar chart with a bar of
\* height r[f] for each f.  (A sum over a set without recursion.)
Cells(r) == {c \in Requests \X (1 .. Limit) : c[2] <= r[c[1]]}
Total(r) == Cardinality(Cells(r))

Woken(s) == [g \in Requests |-> IF s[g] = "asleep" THEN "trying" ELSE s[g]]
Move(f, to) == [st EXCEPT ![f] = to]

Fits(b) == b <= Limit - used

-----------------------------------------------------------------------------
(* Budget::reserve *)

\* Definitions marked "Seeded fault" are not the code's: each is the next definition
\* with a plausible bug, and shows that a property can fail.

\* Seeded fault: a request larger than the limit is not rejected up front.
ReserveUnchecked(f, b) ==
  /\ st[f] = "new"
  /\ want' = [want EXCEPT ![f] = b]
  /\ st' = Move(f, "trying")
  /\ UNCHANGED <<used, stopped, res>>

Reserve(f, b) ==
  /\ st[f] = "new"
  /\ want' = [want EXCEPT ![f] = b]
  /\ st' = Move(f, IF b > Limit THEN "refused" ELSE "trying")
  /\ UNCHANGED <<used, stopped, res>>

\* Seeded fault: a stopped budget still admits what fits.
AdmitStopped(f) ==
  /\ st[f] = "trying"
  /\ Fits(want[f])
  /\ used' = used + want[f]
  /\ res' = [res EXCEPT ![f] = want[f]]
  /\ st' = Move(f, "held")
  /\ UNCHANGED <<stopped, want>>

Admit(f) ==
  /\ st[f] = "trying"
  /\ ~stopped /\ Fits(want[f])
  /\ used' = used + want[f]
  /\ res' = [res EXCEPT ![f] = want[f]]
  /\ st' = Move(f, "held")
  /\ UNCHANGED <<stopped, want>>

Wait(f) ==
  /\ st[f] = "trying"
  /\ ~stopped /\ ~Fits(want[f])
  /\ st' = Move(f, "asleep")
  /\ UNCHANGED <<used, stopped, want, res>>

GiveUp(f) ==
  /\ st[f] = "trying"
  /\ stopped
  /\ st' = Move(f, "refused")
  /\ UNCHANGED <<used, stopped, want, res>>

\* A condition variable may wake without being notified.
SpuriousWakeup(f) ==
  /\ st[f] = "asleep"
  /\ st' = Move(f, "trying")
  /\ UNCHANGED <<used, stopped, want, res>>

-----------------------------------------------------------------------------
(* Reservation and Budget::stop: each notifies every waiter. *)

\* Seeded fault: the reservation keeps its old size, and gives it back again later.
ShrinkToTwice(f, b) ==
  /\ st[f] = "held" /\ b <= res[f]
  /\ used' = used - (res[f] - b)
  /\ st' = Woken(Move(f, "staged"))
  /\ UNCHANGED <<stopped, want, res>>

ShrinkTo(f, b) ==
  /\ st[f] = "held" /\ b <= res[f]
  /\ used' = used - (res[f] - b)
  /\ res' = [res EXCEPT ![f] = b]
  /\ st' = Woken(Move(f, "staged"))
  /\ UNCHANGED <<stopped, want>>

\* Seeded fault: dropping a reservation notifies nobody.
DropSilently(f) ==
  /\ Live(f)
  /\ used' = used - res[f]
  /\ res' = [res EXCEPT ![f] = 0]
  /\ st' = Move(f, "gone")
  /\ UNCHANGED <<stopped, want>>

Drop(f) ==
  /\ Live(f)
  /\ used' = used - res[f]
  /\ res' = [res EXCEPT ![f] = 0]
  /\ st' = Woken(Move(f, "gone"))
  /\ UNCHANGED <<stopped, want>>

Stop ==
  /\ stopped' = TRUE
  /\ st' = Woken(st)
  /\ UNCHANGED <<used, want, res>>

-----------------------------------------------------------------------------

Init ==
  /\ used = 0
  /\ stopped = FALSE
  /\ st = [f \in Requests |-> "new"]
  /\ want = [f \in Requests |-> 0]
  /\ res = [f \in Requests |-> 0]

Settled(f) == st[f] \in {"refused", "gone"}
Terminated == (\A f \in Requests : Settled(f)) /\ UNCHANGED vars

Test(f) == Admit(f) \/ Wait(f) \/ GiveUp(f)

Next ==
  \/ \E f \in Requests :
       \/ \E b \in Sizes : Reserve(f, b)
       \/ Test(f)
       \/ SpuriousWakeup(f)
       \/ \E b \in 0 .. Limit : ShrinkTo(f, b)
       \/ Drop(f)
  \/ Stop
  \/ Terminated

\* A thread that can take the mutex does so in the end, and a reservation is dropped
\* in the end: its file is staged and published, or fails.
Fairness == \A f \in Requests : WF_vars(Test(f)) /\ WF_vars(Drop(f))

Spec == Init /\ [][Next]_vars
FairSpec == Spec /\ Fairness

-----------------------------------------------------------------------------
(* Properties. *)

TypeOK ==
  /\ used \in Nat
  /\ stopped \in BOOLEAN
  /\ st \in [Requests -> States]
  /\ want \in [Requests -> Nat]
  /\ res \in [Requests -> 0 .. Limit]

\* The counter is exactly what the live reservations hold, through shrinking and
\* dropping in any order, and never more than the limit: the subtraction in
\* `limit - used' cannot wrap, and neither can those of shrink_to and drop.
Conserved ==
  /\ used = Total(res)
  /\ used <= Limit
  /\ \A f \in Requests : ~Live(f) => res[f] = 0

\* No wakeup is lost: a thread sleeps only while the budget runs and has no room
\* for it, whatever was released or stopped since it looked.
NoLostWakeup ==
  \A f \in Requests : st[f] = "asleep" => ~stopped /\ ~Fits(want[f])

\* Once stopped, the budget stays stopped and admits nothing, not even a request
\* that found room before the stop and had not tested again.
NothingAdmittedAfterStop ==
  [][stopped => stopped' /\ \A f \in Requests : Live(f)' => Live(f)]_vars

\* No request waits forever.  It gets its reservation, unless it is larger than the
\* whole budget or the budget was stopped.
EveryRequestSettles ==
  \A f \in Requests :
    st[f] \in {"trying", "asleep", "refused"}
      ~> (Live(f) \/ (st[f] = "refused" /\ (stopped \/ want[f] > Limit)))
=============================================================================
