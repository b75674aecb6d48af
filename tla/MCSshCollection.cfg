SPECIFICATION Spec
CONSTANTS
  p1 = p1
  Magics <- MCMagics
  FieldsOf <- MCFieldsOf
  CurveOf <- MCCurveOf
  Paths <- MCPaths
  InitialLines <- MCInitialLines
  Lines <- MCLines
  Comments <- MCComments
  MaxItems <- MCMaxItems
  MaxWrites <- MCMaxWrites
  MaxOutside <- MCMaxOutside
CHECK_DEADLOCK FALSE
INVARIANTS
  ShowsTheFiles
  CheckedWritesAreSafe
  
