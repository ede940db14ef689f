---------------------------- MODULE MCDubTrack ----------------------------
(***************************************************************************)
(* Small instances of DubTrack for TLC. One unit is 20 ms.                 *)
(***************************************************************************)
EXTENDS DubTrack

Of(a, b, c, d, e, f) ==
  <<[start |-> a, end |-> b], [start |-> c, end |-> d], [start |-> e, end |-> f]>>

\* Lines that touch; a short line between two; starts out of order; equal
\* starts; lines past the bed and past the film; a negative start.
MCSegmentations ==
  {Of(0, 60, 60, 120, 120, 180), Of(0, 60, 58, 61, 64, 124),
   Of(60, 120, 0, 60, 130, 190), Of(0, 60, 0, 60, 70, 130),
   Of(0, 60, 60, 200, 201, 215), Of(-1, 20, 20, 80, 230, 240)}
MCMisses == {-4, -3, 0, 2, 4, 70}
===========================================================================
