\* Two pages and two edits at a time.
CONSTANTS
  Pages = {p1, p2}
  Languages = {"es", "fr"}
  LineCount = 2
  LinesOf <- MCLinesOf
  Timelines <- MCTimelines
  Commands <- MCCommands
  DragTo = {3}
  StartsWith <- MCStartsWith
  NoSpeaker = ""
  Picture = 5
  MinDuration = 2
  MaxInt = 9
  MaxRequests = 2
SYMMETRY PageSymmetry
SPECIFICATION Spec
INVARIANTS
  TypeOK
  ShowsWhatItSaved
PROPERTIES
  NoSilentOverlap
  CommandsDoWhatTheySay
CHECK_DEADLOCK FALSE
