SPECIFICATION Spec
CONSTANTS
  SectorSize = 8
  SectorCount = 10
  MinBlk = 2
  MaxBlk = 16
  BlkSizes = {2, 4, 8, 12, 16}
  FsSizes = {0, 10}
  MaxHole = 20
  NumSlots = 2
  Values = {1, 2}
  NumFormats = 2
  NumPoints = 3
  NumRefs = 3
  NumPaths = 3
INVARIANTS NoMixture FormattedHasRoot MountedIsBacked DiskStaysInitialised NothingLeaks UnmountDurable
