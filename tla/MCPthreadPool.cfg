SPECIFICATION FairSpec
CONSTANTS
  Workers = {w1, w2}
  Submitters = {s1, s2}
  Sizes <- MCSizes
  NestSizes <- MCNestSizes
  Calls = 1
  IntMax = 4
  Spins = FALSE
  NoThread = NoThread
INVARIANTS ExactlyOnce WorkersReadLiveBatch ClaimsFit NoLostWakeup
PROPERTIES ImplementsExecutor CallsReturn ShutdownEnds
