SPECIFICATION Spec
CONSTANTS
  NumSlots = 2
  NumBlocks = 3
  MaxReq = 2
  Parts = {p1}
  Vals = {0, 1}
INVARIANTS TypeOK NoDuplicateSlots CleanMatchesDisk FlushProgress SyncIsDurable
PROPERTY ImplementsBlockStore
