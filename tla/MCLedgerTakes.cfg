\* A take a ledger row names loses its bytes.
CONSTANTS
  Slots = {a, b}
  MaxAttempts = 2
  MaxNumber = 4
  MaxTakes = 4
  MaxDamage = 0
SYMMETRY SlotSymmetry
SPECIFICATION Spec
INVARIANTS
  LedgerTakesKeepBytes
