--------------------------- MODULE MCTimelineEdits ---------------------------
(***************************************************************************)
(* Small instances of TimelineEdits for TLC. One unit is 50 ms.            *)
(***************************************************************************)
EXTENDS TimelineEdits, TLC

PageSymmetry == Permutations(Pages)

Line(a, b, name) == [start |-> a, end |-> b, speaker |-> name]
MCLinesOf == [t \in Languages |-> IF t = "es" THEN {1, 2} ELSE {2}]
Tracks(es, fr) == [row \in Rows |-> IF row[1] = "es" THEN es[row[2]] ELSE fr]

\* Lines with a gap; lines that overlap. The other language has a second line
\* of its own and no first one.
MCTimelines == {Tracks(<<Line(0, 2, "Mark"), Line(3, 5, "Mar")>>, Line(2, 4, "Ann")),
                Tracks(<<Line(0, 2, "Mark"), Line(1, 4, "Mar")>>, Line(2, 4, "Ann"))}

Command(kind, l, side, amount, name) ==
  [kind |-> kind, line |-> l, side |-> side, amount |-> amount, speaker |-> name]
MCCommands ==
  {Command("shift", 1, "right", MaxInt, ""), Command("shift", 2, "left", 1, ""),
   Command("shorten", 2, "left", 1, ""), Command("speaker", 1, "left", 0, "Mar")}
MCStartsWith == {<<"Mark", "Mar">>, <<"Mark", "M">>, <<"Mar", "M">>}
=============================================================================
