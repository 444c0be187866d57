SPECIFICATION Spec
CONSTANTS
  NumData = 5
  Inodes = {1, 2}
  Cap = 2
  MaxFileBlocks = 3
  Vals = {"a"}
  MaxFaults = 2
INVARIANTS ListsIntact NoSharing MappedIsUsed NoLeak
PROPERTIES ImplementsFileBlocks CallsReturn
CONSTRAINT NotReused
