\* One re-render that needs two attempts.
CONSTANTS
  Runs = {run1}
  Rerenders = {r1}
  Turns = {}
  LineCount = 1
  MaxAttempts = 2
  MaxTurnCalls = 1
  NoRequest = none
SPECIFICATION Spec
INVARIANTS
  DiscardedAttemptsKeepCharges
CHECK_DEADLOCK FALSE
