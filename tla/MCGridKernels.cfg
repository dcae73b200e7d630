SPECIFICATION FairSpec
CONSTANTS
  Rows = 3
  Columns = 2
  AGroups = 5
  BGroups = 4
  Blocks = 2
INVARIANTS ReadsPackedPanels NoPanelOverwritten OnePacker TouchBeforeShared
PROPERTIES AllFinish
