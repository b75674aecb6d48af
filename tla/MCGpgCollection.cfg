SPECIFICATION Spec
CONSTANTS
  k1 = k1
  k2 = k2
  o1 = o1
  o2 = o2
  Keys <- MCKeys
  Ops <- MCOps
  MaxChanges <- MCMaxChanges
  MaxItems <- MCMaxItems
VIEW View
SYMMETRY Symmetry
INVARIANTS
  StoreShowsItems
  SettledItemsAreTheRing
  ReloadIsExact
