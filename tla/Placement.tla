----------------------------- MODULE Placement -----------------------------
(***************************************************************************)
(* How much of a take is laid on the bed (internal/assemble/place.go):     *)
(* its slot, the silence up to the next take, and no more of the next take *)
(* than a fade. Lengths are counted in one unit, as at every audio rate    *)
(* each millisecond starts at a frame of its own.                          *)
(***************************************************************************)
EXTENDS Integers

CONSTANT Crossfade  \* the fade window (40 ms)

ASSUME CrossfadeAssumption == Crossfade \in Nat \ {0}

Least(a, b) == IF a < b THEN a ELSE b

Policies == {"fit", "gap", "truncate", "crossfade"}

\* The tail of the take fades while the next one starts.
Overlapped(measured, available) ==
  LET keep == Least(available + Crossfade, measured)
  IN  [policy |-> "crossfade", keep |-> keep, truncated |-> measured - keep,
       fadeOut |-> LET fade == Least(keep - available, Crossfade)
                   IN  IF fade >= keep THEN keep \div 2 ELSE fade]

\* Faulty: a voiced take keeps its whole tail.
DecidePolicyUncut(slot, measured, voiced, available) ==
  [policy |-> "gap", keep |-> measured, truncated |-> 0, fadeOut |-> 0]

\* voiced: where the sound of the take ends; available: room before the next.
DecidePolicy(slot, measured, voiced, available) ==
  IF measured <= available
  THEN [policy |-> IF measured <= slot THEN "fit" ELSE "gap",
        keep |-> measured, truncated |-> 0, fadeOut |-> 0]
  ELSE IF voiced <= available
  THEN [policy |-> "truncate", keep |-> available,
        truncated |-> measured - available, fadeOut |-> 0]
  ELSE Overlapped(measured, available)

\* Nothing is laid past the end of the bed.
ClampKeep(choice, measured, room) ==
  IF choice.keep <= room
  THEN choice
  ELSE [choice EXCEPT !.keep = room, !.truncated = measured - room,
                      !.fadeOut = IF @ >= room THEN room \div 2 ELSE @]
=============================================================================
