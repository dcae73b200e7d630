SPECIFICATION FairSpec
CONSTANTS
  N = 3
  Columns = 2
  Sizes <- MCSizes
  Batches = 3
INVARIANTS SameBarriers OutputComputed
PROPERTIES PublishedUnread ImplementsExecutor GemmEnds
