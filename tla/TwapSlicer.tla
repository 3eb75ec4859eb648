----------------------------- MODULE TwapSlicer -----------------------------
(***************************************************************************)
(* execute_twap (execution/engine.py) and TwapSlicer (execution/twap.py):  *)
(* a parent order is cut into slices that are submitted one after the      *)
(* other, and late in the window one urgent order asks for what the        *)
(* reports say is still missing.                                           *)
(*                                                                         *)
(* Quantities are natural numbers.  The clock is a choice: at any check    *)
(* the urgency threshold may have passed.  Intervals and jitter are left   *)
(* out.                                                                    *)
(***************************************************************************)
EXTENDS Sums, Integers, Sequences, FiniteSets, FiniteSetsExt

CONSTANTS Parents,       \* quantities of parent orders
          MinSlices, MaxSlices,
          Unit,          \* min_slice_quantity
          Steps,         \* step sizes; 0 when the filters are unavailable
          Price, MinNotional

ASSUME TwapAssumption ==
  /\ Parents \subseteq Nat /\ Unit \in Nat \ {0} /\ Steps \subseteq Nat
  /\ MinSlices \in Nat \ {0} /\ MaxSlices \in Nat /\ MinSlices <= MaxSlices
  /\ Price \in Nat /\ MinNotional \in Nat

VARIABLES
  tQty,      \* quantity of the parent
  tSlices,   \* the plan
  tNext,     \* index of the next slice
  tState,    \* "new", "slicing", "urgent", "done" or "failed"
  tFilled,   \* total_filled, the sum of the reports
  tTraded,   \* quantity the exchange has traded
  tRecorded, \* quantity the fill callback has recorded
  tTruthful  \* history: every answer so far matched what traded
tVars == <<tQty, tSlices, tNext, tState, tFilled, tTraded, tRecorded, tTruthful>>

-----------------------------------------------------------------------------
(* The plan *)

\* As many slices as there are units, within the limits, and few enough for
\* each to clear the minimum notional.  Without filters there is no minimum.
SliceCount(qty, step) ==
  LET most == Min({Max({qty \div Unit, MinSlices}), MaxSlices})
  IN  Max({n \in 1 .. most : n = 1 \/ step = 0 \/ Price = 0 \/ qty * Price >= MinNotional * n})

\* Equal numbers of units, the first slices taking the remainder.  With fewer units
\* than slices the shares past the last unit are nothing, and are skipped.
\* Mutant: one slice too many takes a unit of the remainder.
RawOneMore(qty, step) ==
  LET n == SliceCount(qty, step)  units == qty \div Unit
  IN  [i \in 1 .. Min({n, units}) |->
         Unit * ((units \div n) + (IF i <= (units % n) + 1 THEN 1 ELSE 0))]
RawQuantities(qty, step) ==
  LET n == SliceCount(qty, step)  units == qty \div Unit
  IN  [i \in 1 .. Min({n, units}) |->
         Unit * ((units \div n) + (IF i <= (units % n) THEN 1 ELSE 0))]

\* A slice is rounded down to the step; dust is kept rather than dropped.
Down(q, step) == IF (q \div step) * step = 0 THEN q ELSE (q \div step) * step

\* Every slice but the last is rounded; the last takes the rest of the parent.
Align(qty, raw, step) ==
  LET head == [i \in 1 .. Len(raw) - 1 |-> Down(raw[i], step)]
  IN  IF step = 0 \/ Len(raw) <= 1 THEN raw
      ELSE [i \in 1 .. Len(raw) |->
              IF i < Len(raw) THEN head[i] ELSE qty - SumOf(head, DOMAIN head)]

\* The last slice is the only one that can come out as nothing: it is left out then.
Plan(qty, step) ==
  LET slices == Align(qty, RawQuantities(qty, step), step)
  IN  IF qty \div Unit = 0 THEN <<>>
      ELSE [i \in 1 .. (IF slices[Len(slices)] > 0 THEN Len(slices) ELSE Len(slices) - 1) |-> slices[i]]

-----------------------------------------------------------------------------
TInit ==
  /\ tQty \in Parents /\ tSlices = <<>> /\ tNext = 1 /\ tState = "new"
  /\ tFilled = 0 /\ tTraded = 0 /\ tRecorded = 0 /\ tTruthful = TRUE

\* An empty plan ends the execution without an order.
Slice ==
  /\ tState = "new"
  /\ \E step \in Steps : tSlices' = Plan(tQty, step)
  /\ tState' = IF tSlices' = <<>> THEN "done" ELSE "slicing"
  /\ UNCHANGED <<tQty, tNext, tFilled, tTraded, tRecorded, tTruthful>>

\* What gateway.submit answers to an order for q: all of it traded; part of it, or
\* nothing, before it was cancelled; a rejection, of an order that may have traded
\* after its answers were lost.  Only an order reported FILLED reaches the callback.
SubmitQty(q) ==
  \/ /\ tTraded' = tTraded + q /\ tFilled' = tFilled + q /\ tRecorded' = tRecorded + q
     /\ UNCHANGED tTruthful
  \/ \E part \in 0 .. q - 1 :
       /\ tTraded' = tTraded + part /\ tFilled' = tFilled + part
       /\ UNCHANGED <<tRecorded, tTruthful>>

Rejected(q) ==
  \/ UNCHANGED <<tTraded, tFilled, tRecorded, tTruthful>>
  \/ /\ tTraded' = tTraded + q /\ tTruthful' = FALSE
     /\ UNCHANGED <<tFilled, tRecorded>>

FinalSlice == tNext = Len(tSlices)

\* After an accepted slice that is not the last the clock is read; a rejected
\* one goes straight on to the next.
SubmitSlice ==
  /\ tState = "slicing"
  /\ \/ /\ SubmitQty(tSlices[tNext])
        /\ \/ tState' = IF FinalSlice THEN "done" ELSE "slicing"
           \/ ~FinalSlice /\ tFilled' * 2 < tQty /\ tState' = "urgent"
     \/ /\ Rejected(tSlices[tNext])
        /\ tState' = IF FinalSlice THEN "done" ELSE "slicing"
  /\ tNext' = tNext + 1
  /\ UNCHANGED <<tQty, tSlices>>

\* A confirmation timeout is not caught here: execute_twap reports one REJECTED
\* result for the whole parent.
SliceTimesOut ==
  /\ tState \in {"slicing", "urgent"} /\ tState' = "failed"
  /\ Rejected(IF tState = "slicing" THEN tSlices[tNext] ELSE tQty - tFilled)
  /\ UNCHANGED <<tQty, tSlices, tNext>>

Remaining == tQty - tFilled

\* Less than half was filled, so something remains.
SubmitUrgent ==
  /\ tState = "urgent" /\ tState' = "done"
  /\ SubmitQty(Remaining) \/ Rejected(Remaining)
  /\ UNCHANGED <<tQty, tSlices, tNext>>

TNext == Slice \/ SubmitSlice \/ SliceTimesOut \/ SubmitUrgent
TSpec == TInit /\ [][TNext]_tVars

-----------------------------------------------------------------------------
(* Properties *)

\* The slices add up to the parent, or to its whole units, whatever the remainder,
\* the step and the notional floor.  Without filters, and in a plan of one slice, no
\* slice absorbs the rest of the division by the unit: that dust is never ordered
\* unless the urgent order comes, although the docstring of execution/twap.py and the
\* comment in plan() call the sum exact.
Total(slices) == SumOf(slices, DOMAIN slices)
PlanCoversParent == tSlices # <<>> => Total(tSlices) \in {tQty, Unit * (tQty \div Unit)}

\* As long as the answers are true the exchange trades no more than the parent,
\* the urgent order included.
NoOverfill == tTruthful => tTraded <= tQty

\* The slices and what they trade stay with the parent.
TwapSound == PlanCoversParent /\ NoOverfill
=============================================================================
