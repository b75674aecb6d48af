SPECIFICATION PanelSpec
CONSTANTS
  i1 = i1
  i2 = i2
  i3 = i3
  Items <- MCItems
  InitialItems <- MCInitialItems
  MaxChanges <- MCMaxChanges
CHECK_DEADLOCK FALSE
INVARIANTS
  RowsNumberTheStore
  CountIsRight
  DeletesTheChecked
