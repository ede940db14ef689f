CONSTANTS
  Callers = {a, b, c}
  Identities = {1, 2, 3}
  Appends <- MCAppends
  Snapshots <- MCSnapshots
  None = None
  MaxFaults = 1
SPECIFICATION Spec
SYMMETRY Alike
INVARIANTS
  ReplayIsTheView
PROPERTIES
  AppendOnly
CHECK_DEADLOCK FALSE
