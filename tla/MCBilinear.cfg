SPECIFICATION Spec
CONSTANTS
  Calls <- MCCalls
  Weights <- MCWeights
  Garbage = 1000
  MaxFinite = 1000000
  RowGroup32 = 4
  RowGroup64 = 2
  ColumnGroup = 4
  RectKC = 2
  Lane = 2
  ColumnStep = 2
  MidPool = 2
  LargePool = 4
  MidGrid = 2
  LargeGrid = 3
  MidRows = 2
  Aspect = 2
  StreamDepth = 4
  WideSide = 4
  PlanePad = 1
  SB = 6
  SymK32 = 2
  SymK64 = 3
  Micro8 = 2
  Micro12 = 3
  Lanes = 1
  MaxPackTasks = 2
INVARIANTS ProductComputed OutputKept OneWriter RangeDecides
PROPERTIES ParentKept
CHECK_DEADLOCK FALSE
