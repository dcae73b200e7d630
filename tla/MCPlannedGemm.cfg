SPECIFICATION Spec
CONSTANTS
  M = 3
  Mc = 1
  N = 3
  Nc = 2
  Depth = 2
  Width = 1
  KStep = 2
  MaxSide = 2
  MaxRowTasks = 2
  Workers = 2
  Alignment = 2
  WorkspaceSizes <- MCWorkspaceSizes
INVARIANTS PanelsPackedBeforeUse WorkspaceKept
PROPERTIES ImplementsGemm
