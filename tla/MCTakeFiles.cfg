\* Two segmentations, two attempts, five files written, one of them damaged.
CONSTANTS
  Slots = {a, b}
  MaxAttempts = 2
  MaxNumber = 4
  MaxTakes = 5
  MaxDamage = 1
SYMMETRY SlotSymmetry
SPECIFICATION Spec
INVARIANTS
  TypeOK
  RecordedTakeIntact
  SoundTakesNeverBlock
PROPERTIES
  RunRowsArePlayable
