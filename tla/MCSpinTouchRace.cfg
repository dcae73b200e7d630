\* Two threads, one GEMM whose first batch is the one that computes C.
SPECIFICATION Spec
CONSTANTS
  N = 2
  Columns = 2
  Sizes <- MCSizes
  Batches = 1
  GenMax = 7
INVARIANTS OutputComputed
