------------------------------- MODULE Repair -------------------------------
(***************************************************************************)
(* How far a take may miss its slot, and what is done about it             *)
(* (internal/fit/stretch.go, rewrite.go). Durations are counted in one     *)
(* unit. Budgets are percentages of the slot and compared without          *)
(* division, since a whole number of units is at most a fraction exactly   *)
(* when it is at most its floor.                                           *)
(***************************************************************************)
EXTENDS Integers, Sequences

CONSTANTS StretchDeadBand,       \* a miss a stretch cannot improve on (40 ms)
          ShortLimit, LongLimit  \* what atempo may repair, in percent (5, 8)

ASSUME RepairAssumption ==
  /\ StretchDeadBand \in Nat
  /\ ShortLimit \in 1 .. 10 /\ LongLimit \in 1 .. 10

Size(miss) == IF miss < 0 THEN - miss ELSE miss

\* A take that runs long reads the long budget, any other the short one.
LimitFor(miss) == IF miss > 0 THEN LongLimit ELSE ShortLimit

WithinBudget(slot, miss) == 100 * Size(miss) <= LimitFor(miss) * slot

\* The dead band never exceeds the budget of its side.
InDeadBand(slot, miss) == Size(miss) <= StretchDeadBand /\ WithinBudget(slot, miss)

PlanStretch(slot, measured) ==
  LET miss == measured - slot
  IN  CASE slot <= 0 \/ measured < 0 -> "manual"
        [] slot > 0 /\ measured >= 0 /\ InDeadBand(slot, miss) -> "none"
        [] slot > 0 /\ measured >= 0 /\ ~ InDeadBand(slot, miss) /\ WithinBudget(slot, miss) -> "atempo"
        [] OTHER -> "rewrite"

\* Faulty: ffmpeg reported success, so the take is good.
LandsUnmeasured(slot, before, after) == TRUE

\* The stretched take is measured again, against the band of the take it was
\* made from.
Lands(slot, before, after) ==
  /\ Size(after - slot) <= StretchDeadBand
  /\ 100 * Size(after - slot) <= LimitFor(before - slot) * slot

\* Of takes that all missed, the first of the nearest ones.
Nearest(slot, tried) ==
  LET Near(k) == Size(tried[k] - slot)
  IN  tried[CHOOSE k \in DOMAIN tried :
              /\ \A j \in DOMAIN tried : Near(k) <= Near(j)
              /\ \A j \in 1 .. k - 1 : Near(j) > Near(k)]
=============================================================================
