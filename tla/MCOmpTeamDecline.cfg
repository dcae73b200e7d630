SPECIFICATION Spec
CONSTANTS
  N = 3
  Columns = 1
  Sizes <- MCSizes
  Batches = 1
INVARIANTS DeclineIsNotFatal
