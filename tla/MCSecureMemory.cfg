SPECIFICATION Spec
CONSTANTS
  t1 = t1
  t2 = t2
  Threads = {t1, t2}
  Lengths <- MCLengths
  WASTE = 1
  PageWords = 9
  DefaultWords = 9
  LockLimit = 18
  PoolSize = 6
  MaxBuffers = 3
VIEW View
SYMMETRY Symmetry
INVARIANTS
  HeapConsistent
  UsedCellsAreBuffers
  Scrubbed
  NoIdleBlocks
PROPERTIES
  ImplementsHeap
