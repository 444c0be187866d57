SPECIFICATION Spec
CONSTANTS
  BlkSize = 2
  MaxBlocks = 2
  Vals = {1}
  MaxWrite = 4
  MaxGap = 1
INVARIANT NoStaleBytes

