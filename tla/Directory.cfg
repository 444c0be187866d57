SPECIFICATION Spec
CONSTANTS
  PerBlk = 5
  MaxBlocks = 2
  Names = {"a", "b", "c", "d"}
  Inums = {3}
INVARIANTS UniqueNames ScanExact CookieExact EmptyIsExact
PROPERTY ImplementsDirMap
