SPECIFICATION Spec
CONSTANTS
  Threads <- MCThreads
  Blocks <- MCBlocks
  MaxContexts = 4
  MaxFaults = 1
  MaxQueue = 4
  Applications <- MCApplications
INVARIANTS
  OperandsFound
  CaptureStaysLegal
  HandlesLive
