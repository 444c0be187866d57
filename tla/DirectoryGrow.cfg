SPECIFICATION SpecGrow
CONSTANTS
  PerBlk = 3
  MaxBlocks = 2
  Names = {"a", "b"}
  Inums = {3}
INVARIANT GrowthIsMapped
