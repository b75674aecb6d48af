SPECIFICATION FairSpec
CONSTANTS
  Ops <- MCOps
  Cancellable <- MCCancellable
  Ctxs <- MCCtxs
  CtxOf <- MCCtxOf
  NumFds <- MCNumFds
  MaxKeys <- MCMaxKeys
  MaxReads <- MCMaxReads
  MaxCancels <- MCMaxCancels
CHECK_DEADLOCK FALSE
INVARIANTS
  StaysAwake
  Released
PROPERTIES
  EveryOperationReports
  ImplementsOperation
