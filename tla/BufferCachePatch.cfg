SPECIFICATION Spec
CONSTANTS
  NumSlots = 1
  NumBlocks = 2
  MaxReq = 1
  Parts = {p1, p2}
  Vals = {0, 1}
PROPERTY ImplementsBlockStore
