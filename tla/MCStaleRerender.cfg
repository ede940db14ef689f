\* One writer of each kind, none of which fails.
CONSTANTS
  Edits = {e1}
  Rerenders = {r1}
  Runs = {run1}
  LineCount = 1
  NoCommit = none
  MaxFaults = 0
SPECIFICATION Spec
INVARIANTS
  HeadKeepsEveryCommit
CHECK_DEADLOCK FALSE
