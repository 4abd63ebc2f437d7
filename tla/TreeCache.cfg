SPECIFICATION Spec
CONSTANTS
  Kinds = {"ebuild", "vdb", "packages", "gtree"}
  Categories <- MCCategories
  Disk <- MCDisk
  Requests <- MCRequests
  VirtualCats <- MCVirtual
  AcctCats <- MCAcct
  Absent = Absent
  None = None
  Nesting <- Orderly
  MaxRequests = 3
INVARIANTS
  NestedAnswered
  CacheTrue
PROPERTIES
  ImplementsTree
  CallsReturn
CHECK_DEADLOCK FALSE
