SPECIFICATION FairSpec
CONSTANTS
  N = 3
  Columns = 2
  Sizes <- MCSizes
  Batches = 3
  GenMax = 7
INVARIANTS HelpersReadLiveBatch PackedOutputComputed
PROPERTIES ImplementsExecutor CallsReturn ShutdownEnds
