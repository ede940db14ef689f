\* Two runs of one dub, one cancel, one reader with room for one frame, who may
\* stop reading without disconnecting.
CONSTANTS
  Runs = {run1, run2}
  Readers = {r1}
  Cancels = {c1}
  NoRun = none
  MaxEvents = 1
  Buffer = 1
SPECIFICATION FairSpec
INVARIANTS
  TypeOK
  OneActiveRun
  StreamsAreComplete
  DoneMeansPersisted
  CleanShutdown
PROPERTIES
  EveryRunEnds
  EveryReaderIsTold
CHECK_DEADLOCK FALSE
