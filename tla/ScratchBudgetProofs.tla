------------------------ MODULE ScratchBudgetProofs ------------------------
(***************************************************************************)
(* For every limit, every finite set of requests and all their sizes: the  *)
(* scratch budget counts exactly what is reserved, never exceeds its limit, *)
(* loses no wakeup and admits nothing after it was stopped.                *)
(***************************************************************************)
EXTENDS ScratchBudget, FiniteSetTheorems, TLAPS

Reservations == [Requests -> 0 .. Limit]

-----------------------------------------------------------------------------
(* The total of a bar chart, when one bar changes. *)

\* The cells of a bar chart are finitely many, so their number is a natural number.
LEMMA TotalIsNat ==
  ASSUME NEW r \in Reservations
  PROVE  IsFiniteSet(Cells(r)) /\ Total(r) \in Nat
<1>1. IsFiniteSet(Requests \X (1 .. Limit))
  <2>1. IsFiniteSet(1 .. Limit)
    BY ScratchBudgetAssumption, FS_Interval
  <2>2. QED
    BY <2>1, ScratchBudgetAssumption, FS_Product
<1>2. Cells(r) \subseteq Requests \X (1 .. Limit)
  BY DEF Cells
<1>3. IsFiniteSet(Cells(r))
  BY <1>1, <1>2, FS_Subset
<1>4. QED
  BY <1>3, FS_CardinalityType DEF Total

\* With no bar of any height there is no cell.
LEMMA TotalOfNothing == Total([f \in Requests |-> 0]) = 0
<1>1. Cells([f \in Requests |-> 0]) = {}
  BY ScratchBudgetAssumption DEF Cells
<1>2. QED
  BY <1>1, FS_EmptySet DEF Total

\* The cells beside one bar, and the cells of that bar.
Beside(r, f) == {c \in Cells(r) : c[1] # f}
Bar(r, f) == {f} \X (1 .. r[f])

LEMMA BarSize ==
  ASSUME NEW r \in Reservations, NEW f \in Requests
  PROVE  IsFiniteSet(Bar(r, f)) /\ Cardinality(Bar(r, f)) = r[f]
<1>1. r[f] \in Nat
  BY ScratchBudgetAssumption DEF Reservations
<1>2. IsFiniteSet({f}) /\ Cardinality({f}) = 1
  BY FS_Singleton
<1>3. IsFiniteSet(1 .. r[f]) /\ Cardinality(1 .. r[f]) = r[f]
  <2>1. /\ IsFiniteSet(1 .. r[f])
        /\ Cardinality(1 .. r[f]) = IF 1 > r[f] THEN 0 ELSE r[f] - 1 + 1
    BY ONLY <1>1, FS_Interval, SMTT(30)
  <2>2. QED
    BY ONLY <1>1, <2>1
<1>4. IsFiniteSet(Bar(r, f)) /\ Cardinality(Bar(r, f)) = 1 * r[f]
  <2>1. /\ IsFiniteSet({f} \X (1 .. r[f]))
        /\ Cardinality({f} \X (1 .. r[f])) = Cardinality({f}) * Cardinality(1 .. r[f])
    BY ONLY <1>2, <1>3, FS_Product
  <2>2. QED
    BY <1>2, <1>3, <2>1 DEF Bar
<1>5. QED
  BY <1>1, <1>4

\* A chart's total is the height of any one bar plus the number of cells beside it.
LEMMA TotalSplits ==
  ASSUME NEW r \in Reservations, NEW f \in Requests
  PROVE  /\ Cardinality(Beside(r, f)) \in Nat
         /\ Total(r) = Cardinality(Beside(r, f)) + r[f]
<1>1. r[f] \in Nat /\ r[f] <= Limit
  BY ScratchBudgetAssumption DEF Reservations
<1>2. Cells(r) = Beside(r, f) \cup Bar(r, f)
  BY <1>1, ScratchBudgetAssumption DEF Cells, Beside, Bar
<1>3. Beside(r, f) \cap Bar(r, f) = {}
  BY DEF Beside, Bar
<1>4. IsFiniteSet(Beside(r, f)) /\ Cardinality(Beside(r, f)) \in Nat
  <2>1. Beside(r, f) \subseteq Cells(r)
    BY DEF Beside
  <2>2. IsFiniteSet(Beside(r, f))
    BY <2>1, TotalIsNat, FS_Subset
  <2>3. QED
    BY <2>2, FS_CardinalityType
<1>5. Cardinality(Beside(r, f) \cup Bar(r, f))
        = Cardinality(Beside(r, f)) + Cardinality(Bar(r, f))
            - Cardinality(Beside(r, f) \cap Bar(r, f))
  BY <1>4, BarSize, FS_Union
<1>6. Cardinality(Beside(r, f) \cap Bar(r, f)) = 0
  BY <1>3, FS_EmptySet
<1>7. Total(r) = Cardinality(Beside(r, f)) + r[f]
  BY <1>1, <1>2, <1>4, <1>5, <1>6, BarSize DEF Total
<1>8. QED
  BY <1>4, <1>7

\* Changing one bar changes the total by exactly the difference of its heights.
LEMMA TotalOfUpdate ==
  ASSUME NEW r \in Reservations, NEW f \in Requests, NEW b \in 0 .. Limit
  PROVE  /\ [r EXCEPT ![f] = b] \in Reservations
         /\ Total([r EXCEPT ![f] = b]) = (Total(r) - r[f]) + b
         /\ r[f] <= Total(r)
<1> DEFINE s == [r EXCEPT ![f] = b]
<1>1. s \in Reservations
  BY DEF Reservations
<1>2. s[f] = b
  BY DEF Reservations
<1>3. Beside(s, f) = Beside(r, f)
  BY DEF Beside, Cells, Reservations
<1>4. Cardinality(Beside(r, f)) \in Nat /\ Total(r) = Cardinality(Beside(r, f)) + r[f]
  BY TotalSplits
<1>5. Total(s) = Cardinality(Beside(s, f)) + s[f]
  BY <1>1, TotalSplits
<1>6. r[f] \in Nat /\ b \in Nat
  BY ScratchBudgetAssumption DEF Reservations
<1> HIDE DEF s
<1>7. Total(s) = (Total(r) - r[f]) + b /\ r[f] <= Total(r)
  BY <1>2, <1>3, <1>4, <1>5, <1>6
<1>8. QED
  BY <1>1, <1>7 DEF s

-----------------------------------------------------------------------------
(* The inductive invariant.  TypeOK alone is not inductive (a subtraction could
   leave Nat) and neither is Conserved (the counter and the reservations have to
   agree before a step for the limit to hold after it); sleepers are told apart
   by the same counter. *)

IInv == TypeOK /\ Conserved /\ NoLostWakeup

LEMMA InitIInv == Init => IInv
<1> SUFFICES ASSUME Init PROVE IInv
  OBVIOUS
<1>1. TypeOK
  <2>1. 0 \in 0 .. Limit
    BY ScratchBudgetAssumption
  <2>2. "new" \in States
    BY DEF States
  <2>3. QED
    BY <2>1, <2>2 DEF Init, TypeOK
<1>2. Conserved
  BY ScratchBudgetAssumption, TotalOfNothing DEF Init, Conserved
<1>3. NoLostWakeup
  BY DEF Init, NoLostWakeup
<1>4. QED
  BY <1>1, <1>2, <1>3 DEF IInv

\* Giving bytes back: what shrink_to and drop have in common.
LEMMA Release ==
  ASSUME IInv, NEW f \in Requests, NEW b \in 0 .. Limit, b <= res[f],
         NEW to \in States, to # "asleep", Live(f),
         to \in {"held", "staged"} \/ b = 0,
         used' = used - (res[f] - b),
         res' = [res EXCEPT ![f] = b],
         st' = Woken(Move(f, to)),
         UNCHANGED <<stopped, want>>
  PROVE  IInv'
<1>1. /\ res \in Reservations /\ res' \in Reservations
      /\ Total(res') = (Total(res) - res[f]) + b
      /\ res[f] <= Total(res)
  <2>1. res \in Reservations
    BY DEF IInv, TypeOK, Reservations
  <2>2. QED
    BY <2>1, TotalOfUpdate
<1>2. used \in Nat /\ res[f] \in Nat /\ b \in Nat /\ used = Total(res) /\ used <= Limit
  BY DEF IInv, TypeOK, Conserved
<1>3. used' \in Nat /\ used' = Total(res') /\ used' <= Limit
  BY <1>1, <1>2, ScratchBudgetAssumption
<1>4. st' \in [Requests -> States]
  BY DEF IInv, TypeOK, Woken, Move, States
<1>5. TypeOK'
  BY <1>1, <1>3, <1>4 DEF IInv, TypeOK, Reservations
<1>6. \A g \in Requests : ~Live(g)' => res'[g] = 0
  <2>1. SUFFICES ASSUME NEW g \in Requests, ~Live(g)' PROVE res'[g] = 0
    OBVIOUS
  <2>2. CASE g = f
    BY <2>1, <2>2 DEF IInv, TypeOK, Live, Woken, Move
  <2>3. CASE g # f
    BY <2>1, <2>3 DEF IInv, TypeOK, Conserved, Live, Woken, Move
  <2>4. QED
    BY <2>2, <2>3
<1>7. NoLostWakeup'
  BY DEF NoLostWakeup, Woken, Move
<1>8. QED
  BY <1>3, <1>5, <1>6, <1>7 DEF IInv, Conserved

LEMMA AdmitIInv ==
  ASSUME IInv, NEW f \in Requests, Admit(f)
  PROVE  IInv'
<1> USE DEF Admit
<1>1. want[f] \in 0 .. Limit
  BY ScratchBudgetAssumption DEF IInv, TypeOK, Conserved, Fits
<1>2. res[f] = 0
  BY DEF IInv, Conserved, Live
<1>3. /\ res' \in Reservations
      /\ Total(res') = (Total(res) - res[f]) + want[f]
  <2>1. res \in Reservations
    BY DEF IInv, TypeOK, Reservations
  <2>2. QED
    BY <1>1, <2>1, TotalOfUpdate
<1>4. used \in Nat /\ used = Total(res) /\ want[f] <= Limit - used
  BY DEF IInv, TypeOK, Conserved, Fits
<1>5. used' \in Nat /\ used' = Total(res') /\ used' <= Limit
  BY <1>1, <1>2, <1>3, <1>4, ScratchBudgetAssumption
<1>6. TypeOK'
  BY <1>3, <1>5 DEF IInv, TypeOK, Move, States, Reservations
<1>7. \A g \in Requests : ~Live(g)' => res'[g] = 0
  BY DEF IInv, TypeOK, Conserved, Live, Move
<1>8. NoLostWakeup'
  <2>1. SUFFICES ASSUME NEW g \in Requests, st'[g] = "asleep"
                 PROVE  ~stopped' /\ ~Fits(want[g])'
    BY DEF NoLostWakeup
  <2>2. st[g] = "asleep"
    BY <2>1 DEF IInv, TypeOK, Move
  <2>3. ~stopped /\ ~(want[g] <= Limit - used)
    BY <2>2 DEF IInv, NoLostWakeup, Fits
  <2>4. used' >= used /\ used' \in Nat /\ want[g] \in Nat
    BY <1>1, <1>4, <1>5 DEF IInv, TypeOK
  <2>5. QED
    BY <2>3, <2>4, <1>4, ScratchBudgetAssumption DEF Fits
<1>9. QED
  BY <1>5, <1>6, <1>7, <1>8 DEF IInv, Conserved

\* The steps that move one thread and leave the counter alone.
LEMMA MoveIInv ==
  ASSUME IInv, NEW f \in Requests, ~Live(f), NEW to \in States \ {"held", "staged"},
         to = "asleep" => ~stopped /\ ~Fits(want[f]),
         st' = Move(f, to),
         UNCHANGED <<used, stopped, want, res>>
  PROVE  IInv'
<1>1. TypeOK'
  BY DEF IInv, TypeOK, Move
<1>2. Conserved'
  BY DEF IInv, TypeOK, Conserved, Live, Move, Total, Cells
<1>3. NoLostWakeup'
  BY DEF IInv, TypeOK, NoLostWakeup, Move, Fits
<1>4. QED
  BY <1>1, <1>2, <1>3 DEF IInv

LEMMA ReserveIInv ==
  ASSUME IInv, NEW f \in Requests, NEW b \in Sizes, Reserve(f, b)
  PROVE  IInv'
<1> USE DEF Reserve
<1>1. TypeOK'
  BY ScratchBudgetAssumption DEF IInv, TypeOK, Move, States
<1>2. Conserved'
  BY DEF IInv, TypeOK, Conserved, Live, Move, Total, Cells
<1>3. NoLostWakeup'
  BY DEF IInv, TypeOK, NoLostWakeup, Move, Fits
<1>4. QED
  BY <1>1, <1>2, <1>3 DEF IInv

LEMMA StopIInv ==
  ASSUME IInv, Stop
  PROVE  IInv'
<1> USE DEF Stop
<1>1. TypeOK'
  BY DEF IInv, TypeOK, Woken, States
<1>2. Conserved'
  BY DEF IInv, TypeOK, Conserved, Live, Woken, Total, Cells
<1>3. NoLostWakeup'
  BY DEF NoLostWakeup, Woken
<1>4. QED
  BY <1>1, <1>2, <1>3 DEF IInv

LEMMA NextIInv == IInv /\ [Next]_vars => IInv'
<1> SUFFICES ASSUME IInv, [Next]_vars PROVE IInv'
  OBVIOUS
<1>1. ASSUME NEW f \in Requests, NEW b \in Sizes, Reserve(f, b) PROVE IInv'
  BY <1>1, ReserveIInv
<1>2. ASSUME NEW f \in Requests, Admit(f) PROVE IInv'
  BY <1>2, AdmitIInv
<1>3. ASSUME NEW f \in Requests, Wait(f) PROVE IInv'
  BY <1>3, MoveIInv DEF Wait, Live, States
<1>4. ASSUME NEW f \in Requests, GiveUp(f) PROVE IInv'
  BY <1>4, MoveIInv DEF GiveUp, Live, States
<1>5. ASSUME NEW f \in Requests, SpuriousWakeup(f) PROVE IInv'
  BY <1>5, MoveIInv DEF SpuriousWakeup, Live, States
<1>6. ASSUME NEW f \in Requests, NEW b \in 0 .. Limit, ShrinkTo(f, b) PROVE IInv'
  BY <1>6, Release DEF ShrinkTo, Live, States
<1>7. ASSUME NEW f \in Requests, Drop(f) PROVE IInv'
  <2>1. 0 \in 0 .. Limit /\ res[f] \in Nat
    BY ScratchBudgetAssumption DEF IInv, TypeOK
  <2>2. 0 <= res[f] /\ used' = used - (res[f] - 0)
    BY <1>7, <2>1 DEF Drop
  <2>3. QED
    BY <1>7, <2>1, <2>2, Release DEF Drop, States
<1>8. CASE Stop
  BY <1>8, StopIInv
<1>9. CASE UNCHANGED vars
  BY <1>9 DEF IInv, TypeOK, Conserved, NoLostWakeup, Live, Fits, Total, Cells, vars
<1>10. QED
  BY <1>1, <1>2, <1>3, <1>4, <1>5, <1>6, <1>7, <1>8, <1>9
     DEF Next, Test, Terminated

LEMMA Invariance == Spec => []IInv
<1>1. QED
  BY InitIInv, NextIInv, PTL DEF Spec

\* The budget's variables keep their types: in particular the byte counter stays a
\* natural number, so no u64 subtraction in scratch.rs wraps.
THEOREM TypeCorrect == Spec => []TypeOK
<1>1. IInv => TypeOK
  BY DEF IInv
<1>2. QED
  BY <1>1, Invariance, PTL

\* The counter is the sum of the live reservations and never exceeds the limit.
THEOREM BudgetConserved == Spec => []Conserved
<1>1. IInv => Conserved
  BY DEF IInv
<1>2. QED
  BY <1>1, Invariance, PTL

\* A thread sleeps on the condition variable only while it could not be admitted.
THEOREM WakeupsAreNotLost == Spec => []NoLostWakeup
<1>1. IInv => NoLostWakeup
  BY DEF IInv
<1>2. QED
  BY <1>1, Invariance, PTL

\* After a stop, no reservation is ever granted and the stop is never undone.
THEOREM StopIsFinal == Spec => NothingAdmittedAfterStop
<1> DEFINE A == stopped => stopped' /\ \A f \in Requests : Live(f)' => Live(f)
<1>1. ASSUME TypeOK, [Next]_vars PROVE [A]_vars
  <2>1. ASSUME NEW f \in Requests, NEW b \in Sizes, Reserve(f, b) PROVE A
    BY <1>1, <2>1 DEF Reserve, Move, Live, TypeOK
  <2>2. ASSUME NEW f \in Requests, Test(f) PROVE A
    BY <1>1, <2>2 DEF Test, Admit, Wait, GiveUp, Move, Live, TypeOK
  <2>3. ASSUME NEW f \in Requests, SpuriousWakeup(f) PROVE A
    BY <1>1, <2>3 DEF SpuriousWakeup, Move, Live, TypeOK
  <2>4. ASSUME NEW f \in Requests, NEW b \in 0 .. Limit, ShrinkTo(f, b) PROVE A
    BY <1>1, <2>4 DEF ShrinkTo, Move, Woken, Live, TypeOK
  <2>5. ASSUME NEW f \in Requests, Drop(f) PROVE A
    BY <1>1, <2>5 DEF Drop, Move, Woken, Live, TypeOK
  <2>6. CASE Stop
    BY <1>1, <2>6 DEF Stop, Woken, Live, TypeOK
  <2>7. CASE UNCHANGED vars
    BY <2>7
  <2>8. QED
    BY <1>1, <2>1, <2>2, <2>3, <2>4, <2>5, <2>6, <2>7 DEF Next, Terminated
<1>2. QED
  BY <1>1, TypeCorrect, PTL DEF Spec, NothingAdmittedAfterStop
=============================================================================
