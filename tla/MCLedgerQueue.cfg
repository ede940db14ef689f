\* Four rows, a batch of two and two faults: a partly removed batch, a
\* restarted numbering or a late request; one table is refused.
CONSTANTS
  Tables = {takes, commits}
  Refused = {commits}
  BatchSize = 2
  MaxSequence = 5
  MaxRows = 4
  MaxFaults = 2
SPECIFICATION FairSpec
INVARIANTS
  TypeOK
  NoPromisedRowLost
PROPERTIES
  EveryPromisedRowArrives
  ImplementsDelivery
CHECK_DEADLOCK FALSE
