\* An edit, a re-render and two runs, with two failures or crashes anywhere.
CONSTANTS
  Edits = {e1}
  Rerenders = {r1}
  Runs = {run1, run2}
  LineCount = 1
  NoCommit = none
  MaxFaults = 2
SPECIFICATION FairSpec
INVARIANTS
  TypeOK
  Chain
  SuccessIsStored
  EditsKeepEveryCommit
PROPERTIES
  EveryWriterEnds
CHECK_DEADLOCK FALSE
