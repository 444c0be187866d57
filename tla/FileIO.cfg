SPECIFICATION Spec
CONSTANTS
  BlkSize = 2
  MaxBlocks = 2
  Vals = {1}
  MaxWrite = 4
  MaxGap = 0
INVARIANTS NoStaleBytes ReadMatches
PROPERTY ImplementsByteFile
