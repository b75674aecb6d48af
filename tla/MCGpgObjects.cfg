SPECIFICATION ObjectsSpec
CONSTANTS
  MaxObjects <- MCMaxObjects
  MaxNatives <- MCMaxNatives
  MaxInputs <- MCMaxInputs
  MaxExtras <- MCMaxExtras
CHECK_DEADLOCK FALSE
INVARIANTS
  
  ArgumentsHeld
  EveryReferenceIsHeld
