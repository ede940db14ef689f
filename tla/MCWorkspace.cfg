CONSTANTS
  p1 = p1
  short = short
  long = long
  NoTitle = NoTitle
  Uploads = {p1}
  Samples = {}
  Renames = {short, long}
  TitleSize <- MCTitleSize
  Dub = p1
  r1 = r1
  r2 = r2
  Runs = {r1, r2}
  Languages = {1, 2}
  StoredLanguage = 2
  LineCount = 2
  Segmentations <- MCSegmentations
  MaxFaults = 1
CONSTRAINT Bounded
SYMMETRY RunsAlike
SPECIFICATION Spec
INVARIANTS
  ShownProjectsAreWhole
  AnsweredNameIsShown
  ReadyIsWhole
  NotFoundMeansNothing
CHECK_DEADLOCK FALSE
