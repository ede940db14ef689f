\* A run over new and resumed lines, a re-render and an agent turn.
CONSTANTS
  Runs = {run1}
  Rerenders = {r1}
  Turns = {t1}
  LineCount = 2
  MaxAttempts = 2
  MaxTurnCalls = 2
  NoRequest = none
SPECIFICATION Spec
INVARIANTS
  TypeOK
  NothingCountsTwice
  RunCountsEveryCall
  AnsweredTurnCounts
CHECK_DEADLOCK FALSE
