SPECIFICATION Spec
SYMMETRY Interchangeable
CONSTANTS
  undefined = undefined
  marginal = marginal
  full = full
  e1 = e1
  e2 = e2
  KeySeq <- MCKeySeq
  UidSeq <- MCUidSeq
  NewKeys <- MCNewKeys
  NewUids <- MCNewUids
  Validities <- MCValidities
  NeverSent <- MCNeverSent
  Edits <- MCEdits
  MaxOutside <- MCMaxOutside
INVARIANTS
  ChosenIsDeleted
  EditorShowsTheItem
  ComboShowsTrust
