SPECIFICATION Spec
CONSTANTS
  Names = {1, 2, 3, 4}
  Hidden = {4}
  NameLen <- MCNameLen
  Paths <- MCPaths
  Arguments <- MCArguments
  Selections <- MCSelections
  Trees <- MCTrees
  Subdirs <- MCSubdirs
  DirSize = 2
  Buffer = 2
  Contents <- MCContents
  Tarballs <- MCTarballs
  PathMax = 3
  IndexMax = 12
  SizeMax = 2
  MaxFaults = 1
INVARIANTS
  PackedRead
  EarlierKept
  SplitInverts
CHECK_DEADLOCK FALSE
