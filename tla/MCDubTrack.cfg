\* Three lines; the film is longer than the bed.
CONSTANTS
  LineCount = 3
  Segmentations <- MCSegmentations
  FilmEnd = 210
  BedEnd = 200
  RepairAttempts = 2
  RetryAttempts = 2
  Misses <- MCMisses
  Tails = {0, 3}
  StretchDeadBand = 2
  ShortLimit = 5
  LongLimit = 8
  Crossfade = 2
SPECIFICATION FairSpec
INVARIANTS
  TrackTypeOK
  UnflaggedLinesAreHeard
  MissingLinesAreFlagged
  VoicesCrossfade
PROPERTIES
  OnlyTwinsCollide
  RunEnds
CHECK_DEADLOCK FALSE
