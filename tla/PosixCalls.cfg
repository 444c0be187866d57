SPECIFICATION CallsSpec
CONSTANTS
  Threads = {"t1", "t2"}
  NumHandles = 1
  NumDirs = 1
  MaxFile = 1
  MaxOff = 2
  MaxEntries = 2
INVARIANTS CallsTypeOK ListingIsAtomic DirHandlesOwned
PROPERTY LockReleased
