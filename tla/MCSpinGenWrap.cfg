\* A two-bit spin_gen, so that the third batch wraps it.  The caller then spins
\* for ever, which the model shows as a state without successors.
SPECIFICATION FairSpec
CONSTANTS
  N = 2
  Columns = 1
  Sizes <- MCSizes
  Batches = 3
  GenMax = 1
PROPERTIES EveryTaskIsCalled
CHECK_DEADLOCK FALSE
