SPECIFICATION FilesSpec
CONSTANTS
  Threads = {"t1", "t2"}
  Users = {"u1", "u2"}
  Uid0 = "u1"
  Members <- MCMembers
  Modes <- MCModes
  NumInodes = 3
  PathNames = {"a"}
  Paths <- MCPaths
  NumHandles = 1
INVARIANT AccessesAllowed
PROPERTY RequesterOwns
