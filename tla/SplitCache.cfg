SPECIFICATION SplitSpec
CONSTANTS
  NumSlots = 2
  NumMeta = 1
  NumBlocks = 3
  DataStart = 1
  MaxReq = 2
  Parts = {p1}
  Vals = {0, 1}
INVARIANT BlocksInOwnPool
PROPERTIES DataSparesMeta SplitImplementsBlockStore
